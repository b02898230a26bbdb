---------------------------- MODULE MessageSafety ----------------------------
(***************************************************************************)
(* evaluateMessageSafety (packages/shared/src/index.ts) and the two places *)
(* that build its argument from the database: MessagesService.send in the  *)
(* API before a message row is created, and processMessage in the worker   *)
(* before the message goes to the platform.  Pure operators, no state.     *)
(***************************************************************************)

ConsentStatuses == {"UNKNOWN", "OPTED_IN", "OPTED_OUT"}

Capabilities == {"SUPPORTED", "NOT_SUPPORTED", "NOT_CONFIGURED", "PERMISSION_REQUIRED"}

SafetyContexts ==
    [consentStatus : ConsentStatuses, suppressed : BOOLEAN, hasPermission : BOOLEAN,
     capability : Capabilities, withinRateLimit : BOOLEAN, promotional : BOOLEAN]

(* Mutant: only an opt-out stops a promotional message.                    *)
evaluateWithoutOptIn(ctx) ==
    IF ctx.suppressed \/ ctx.consentStatus = "OPTED_OUT"         THEN "CONTACT_SUPPRESSED"
    ELSE IF ~ctx.hasPermission                                   THEN "ACCOUNT_PERMISSION_DENIED"
    ELSE IF ctx.capability = "NOT_CONFIGURED"                    THEN "PLATFORM_NOT_CONFIGURED"
    ELSE IF ctx.capability # "SUPPORTED"                         THEN "PLATFORM_NOT_SUPPORTED"
    ELSE IF ~ctx.withinRateLimit                                 THEN "PLATFORM_RATE_LIMIT"
    ELSE "ALLOWED"

(* The chain of early returns; the reasons are wording and are left out.   *)
evaluateMessageSafety(ctx) ==
    IF ctx.suppressed \/ ctx.consentStatus = "OPTED_OUT"         THEN "CONTACT_SUPPRESSED"
    ELSE IF ctx.promotional /\ ctx.consentStatus # "OPTED_IN"    THEN "CONSENT_REQUIRED"
    ELSE IF ~ctx.hasPermission                                   THEN "ACCOUNT_PERMISSION_DENIED"
    ELSE IF ctx.capability = "NOT_CONFIGURED"                    THEN "PLATFORM_NOT_CONFIGURED"
    ELSE IF ctx.capability # "SUPPORTED"                         THEN "PLATFORM_NOT_SUPPORTED"
    ELSE IF ~ctx.withinRateLimit                                 THEN "PLATFORM_RATE_LIMIT"
    ELSE "ALLOWED"

(***************************************************************************)
(* What the database and the adapter say at the moment of an evaluation:   *)
(* the contact row (flagged stands for suppressed or DO_NOT_CONTACT), a    *)
(* matching SuppressionEntry (listed), the account row, the adapter's      *)
(* declared MESSAGING capability and the recent traffic of the account.    *)
(***************************************************************************)
Facts ==
    [consent : ConsentStatuses, flagged : BOOLEAN, listed : BOOLEAN,
     connected : BOOLEAN, permitted : BOOLEAN,
     configured : BOOLEAN, declared : Capabilities,
     withinRateLimit : BOOLEAN, promotional : BOOLEAN]

Granted(f) ==
    IF f.declared = "PERMISSION_REQUIRED" /\ f.permitted THEN "SUPPORTED" ELSE f.declared

PermissionHeld(f) == f.declared # "PERMISSION_REQUIRED" \/ f.permitted

(* MessagesService.send: a disconnected account counts as not configured,  *)
(* and as not permitted; the recent traffic is looked up.                  *)
ApiContext(f) ==
    [consentStatus   |-> f.consent,
     suppressed      |-> f.listed \/ f.flagged,
     hasPermission   |-> f.connected /\ PermissionHeld(f),
     capability      |-> IF f.configured /\ f.connected THEN Granted(f) ELSE "NOT_CONFIGURED",
     withinRateLimit |-> f.withinRateLimit,
     promotional     |-> f.promotional]

(* processMessage: the account status has its own check earlier, and the   *)
(* rate is left to accountRateAllowed.                                     *)
WorkerContext(f) ==
    [consentStatus   |-> f.consent,
     suppressed      |-> f.listed \/ f.flagged,
     hasPermission   |-> PermissionHeld(f),
     capability      |-> IF f.configured THEN Granted(f) ELSE "NOT_CONFIGURED",
     withinRateLimit |-> TRUE,
     promotional     |-> f.promotional]

(***************************************************************************)
(* Reference reading of the consent rules of docs/SECURITY.md: a message   *)
(* may leave only for a contact that is neither opted out, flagged nor     *)
(* listed, a promotional one only with a recorded opt-in, and only where   *)
(* the adapter is able.                                                    *)
(***************************************************************************)
MaySend(f) ==
    /\ f.consent # "OPTED_OUT"
    /\ ~f.flagged
    /\ ~f.listed
    /\ f.promotional => f.consent = "OPTED_IN"
    /\ f.configured
    /\ \/ f.declared = "SUPPORTED"
       \/ f.declared = "PERMISSION_REQUIRED" /\ f.permitted

=============================================================================
