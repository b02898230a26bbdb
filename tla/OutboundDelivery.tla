--------------------------- MODULE OutboundDelivery ---------------------------
(***************************************************************************)
(* One-to-one outbound messages of one tenant and one connected account:   *)
(* MessagesService.send in the API creates the row and queues the job, the *)
(* worker's processMessage re-checks everything and sends, BullMQ retries, *)
(* and operators change consent, account, subscription and the emergency   *)
(* stop in the meantime.  A message is identified with its idempotencyKey, *)
(* which is unique in the database; the campaign branch of the same code   *)
(* is in CampaignRun.                                                      *)
(***************************************************************************)
EXTENDS BullQueue, MessageSafety, FiniteSets

CONSTANTS
    Messages,       \* idempotency keys
    Requests,       \* HTTP calls of POST /messages, each made once
    Contacts,
    Recipient,      \* the contact of each message
    Promotional,    \* the messages sent with promotional = true
    DailyLimit,     \* maxMessagesPerDay of the plan
    Interventions   \* which operator actions the instance explores

ASSUME DeliveryAssumption ==
    /\ Recipient \in [Messages -> Contacts]
    /\ Promotional \subseteq Messages
    /\ IsFiniteSet(Messages)
    /\ DailyLimit \in Nat
    /\ Interventions \subseteq {"consent", "account", "tenant", "stop", "midnight"}

VARIABLES
    \* database
    status,         \* Message.status, "NONE" before the row exists
    today,          \* the messages created since midnight UTC
    contact,        \* consentStatus, and suppressed/DO_NOT_CONTACT as flagged
    listed,         \* the contacts with a matching SuppressionEntry
    account,        \* SocialAccount.status
    entitled,       \* tenant ACTIVE and subscription neither expired nor suspended
    outboundPaused, \* SystemControl.outboundPaused
    \* Redis
    job,            \* the job with jobId = message id in message.send
    queuePaused,    \* message.send is paused
    \* processes
    request,        \* where each API request is, and for which message
    attempt,        \* where the worker's attempt at each message is
    \* the world outside, and history
    delivered,      \* how many copies the platform accepted
    unconfirmed,    \* how many accepted copies were never recorded
    overtaken,      \* running attempts that read something withdrawn since
    pause           \* the administrator's pause of the account: "lifted", "standing",
                    \* or "undone" by a token refresh that wrote CONNECTED over it

dbVars == <<status, today, contact, listed, account, pause, entitled, outboundPaused>>
gateVars == <<contact, listed, account, pause, entitled, outboundPaused, queuePaused>>
workVars == <<job, attempt, delivered, unconfirmed, overtaken>>
vars == <<dbVars, job, queuePaused, request, attempt, delivered, unconfirmed, overtaken>>

MessageStatuses == {"NONE", "QUEUED", "SENDING", "SENT", "BLOCKED", "FAILED"}
AccountStatuses == {"CONNECTED", "LIMITED", "REAUTH_REQUIRED"}
Pauses == {"lifted", "standing", "undone"}
RequestSteps == {"idle", "looked", "admitted", "created", "closed"}

(* The await points of processMessage: the row and its contact and account *)
(* are read; outboundBlockReason passed; safety and rate passed; SENDING   *)
(* recorded; the access token is at hand; the platform accepted; the       *)
(* result is recorded.  "onFailed" is the 'failed' listener.               *)
Running == {"read", "gated", "cleared", "sending", "tokened", "accepted", "settled"}
PastPolicy == Running \ {"read"}
PastSafety == PastPolicy \ {"gated"}
AttemptSteps == Running \cup {"idle", "onFailed"}

(* What the attempt holds of the rows it read at the start.                *)
Snapshots == [consent : ConsentStatuses, flagged : BOOLEAN, connected : BOOLEAN]
NothingRead == [consent |-> "UNKNOWN", flagged |-> FALSE, connected |-> FALSE]
Idle == [at |-> "idle", saw |-> NothingRead]

Settled == {"SENT", "BLOCKED"}

-----------------------------------------------------------------------------

Init ==
    /\ status = [m \in Messages |-> "NONE"]
    /\ today = {}
    /\ contact = [c \in Contacts |-> [consent |-> "OPTED_IN", flagged |-> FALSE]]
    /\ listed = {}
    /\ account = "CONNECTED"
    /\ entitled = TRUE
    /\ outboundPaused = FALSE
    /\ job = [m \in Messages |-> NoJob]
    /\ queuePaused = FALSE
    /\ request \in [Requests -> [at : {"idle"}, key : Messages]]
    /\ attempt = [m \in Messages |-> Idle]
    /\ delivered = [m \in Messages |-> 0]
    /\ unconfirmed = [m \in Messages |-> 0]
    /\ overtaken = {}
    /\ pause = "lifted"

(* The facts evaluateMessageSafety is given for message m, when the contact *)
(* row says saw and the adapter is configured and permitted.               *)
FactsFor(m, saw, inRate) ==
    [consent |-> saw.consent, flagged |-> saw.flagged, listed |-> Recipient[m] \in listed,
     connected |-> saw.connected, permitted |-> TRUE, configured |-> TRUE,
     declared |-> "PERMISSION_REQUIRED", withinRateLimit |-> inRate,
     promotional |-> m \in Promotional]

RowsOf(m) ==
    [consent |-> contact[Recipient[m]].consent, flagged |-> contact[Recipient[m]].flagged,
     connected |-> account = "CONNECTED"]

(* assertOutboundAllowed in the API and outboundBlockReason in the worker: *)
(* the same gates, counting the messages about to be created.              *)
OutboundAllowed(additional) ==
    /\ ~outboundPaused
    /\ entitled
    /\ Cardinality(today) + additional <= DailyLimit

-----------------------------------------------------------------------------
(* MessagesService.send, one await at a time                               *)

RequestAt(r, step) == request' = [request EXCEPT ![r].at = step]

(* The lookup by idempotencyKey: a known key is answered with the existing *)
(* row and nothing else happens.                                           *)
LookUp(r) ==
    /\ request[r].at = "idle"
    /\ RequestAt(r, IF status[request[r].key] = "NONE" THEN "looked" ELSE "closed")
    /\ UNCHANGED <<dbVars, queuePaused, workVars>>

AssertOutboundAllowed(r) ==
    /\ request[r].at = "looked"
    /\ RequestAt(r, IF OutboundAllowed(1) THEN "admitted" ELSE "closed")
    /\ UNCHANGED <<dbVars, queuePaused, workVars>>

(* Account, contact and suppression are read, the decision is taken and    *)
(* the row is created as QUEUED or BLOCKED; when another request created   *)
(* the same key first the unique index refuses the row.                    *)
CreateMessage(r) ==
    LET m == request[r].key
    IN  /\ request[r].at = "admitted"
        /\ \/ /\ status[m] # "NONE"
              /\ RequestAt(r, "closed")
              /\ UNCHANGED <<status, today>>
           \/ /\ status[m] = "NONE"
              /\ today' = today \cup {m}
              /\ \E inRate \in BOOLEAN :
                    LET decision == evaluateMessageSafety(ApiContext(FactsFor(m, RowsOf(m), inRate)))
                    IN  /\ status' = [status EXCEPT ![m] =
                              IF decision = "ALLOWED" THEN "QUEUED" ELSE "BLOCKED"]
                        /\ RequestAt(r, IF decision = "ALLOWED" THEN "created" ELSE "closed")
        /\ UNCHANGED <<gateVars, workVars>>

Enqueue(r) ==
    LET m == request[r].key
    IN  /\ request[r].at = "created"
        /\ job' = [job EXCEPT ![m] = Added(@)]
        /\ RequestAt(r, "closed")
        /\ UNCHANGED <<dbVars, queuePaused, attempt, delivered, unconfirmed, overtaken>>

(* The API process dies, or PostgreSQL or Redis refuses the call.          *)
RequestAborted(r) ==
    /\ request[r].at \in {"looked", "admitted", "created"}
    /\ RequestAt(r, "closed")
    /\ UNCHANGED <<dbVars, queuePaused, workVars>>

-----------------------------------------------------------------------------
(* processMessage                                                          *)

At(m, step) == attempt' = [attempt EXCEPT ![m].at = step]

EndAttempt(m) ==
    /\ attempt' = [attempt EXCEPT ![m] = Idle]
    /\ overtaken' = overtaken \ {m}

(* Mutants: the message is read without its account; a settled message is  *)
(* taken up again; a message recorded as SENDING counts as settled.        *)
StartAttemptWithoutAccount(m) ==
    /\ job[m].state = "waiting"
    /\ ~queuePaused
    /\ IF status[m] \in Settled
         THEN /\ job' = [job EXCEPT ![m] = Completed(Taken(@))]
              /\ UNCHANGED attempt
         ELSE /\ job' = [job EXCEPT ![m] = Taken(@)]
              /\ attempt' = [attempt EXCEPT ![m] =
                    [at |-> "read", saw |-> contact[Recipient[m]]]]
    /\ UNCHANGED <<dbVars, queuePaused, request, delivered, unconfirmed, overtaken>>

StartAttemptAlways(m) ==
    /\ job[m].state = "waiting"
    /\ ~queuePaused
    /\ job' = [job EXCEPT ![m] = Taken(@)]
    /\ attempt' = [attempt EXCEPT ![m] = [at |-> "read", saw |-> RowsOf(m)]]
    /\ UNCHANGED <<dbVars, queuePaused, request, delivered, unconfirmed, overtaken>>

StartAttemptUnlessSending(m) ==
    /\ job[m].state = "waiting"
    /\ ~queuePaused
    /\ IF status[m] \in Settled \cup {"SENDING"}
         THEN /\ job' = [job EXCEPT ![m] = Completed(Taken(@))]
              /\ UNCHANGED attempt
         ELSE /\ job' = [job EXCEPT ![m] = Taken(@)]
              /\ attempt' = [attempt EXCEPT ![m] = [at |-> "read", saw |-> RowsOf(m)]]
    /\ UNCHANGED <<dbVars, queuePaused, request, delivered, unconfirmed, overtaken>>

(* A worker takes the job and reads the message with its account and its   *)
(* contact; a message that was settled before ends the job at once.        *)
StartAttempt(m) ==
    /\ job[m].state = "waiting"
    /\ ~queuePaused
    /\ IF status[m] \in Settled
         THEN /\ job' = [job EXCEPT ![m] = Completed(Taken(@))]
              /\ UNCHANGED attempt
         ELSE /\ job' = [job EXCEPT ![m] = Taken(@)]
              /\ attempt' = [attempt EXCEPT ![m] = [at |-> "read", saw |-> RowsOf(m)]]
    /\ UNCHANGED <<dbVars, queuePaused, request, delivered, unconfirmed, overtaken>>

(* blockMessage, or the BLOCKED branch of the safety decision.             *)
Block(m) ==
    /\ status' = [status EXCEPT ![m] = "BLOCKED"]
    /\ At(m, "settled")

(* Mutant: the worker trusts the quota check of the API.                   *)
CheckPolicyWithoutQuota(m) ==
    /\ attempt[m].at = "read"
    /\ IF attempt[m].saw.connected /\ entitled /\ ~outboundPaused
         THEN At(m, "gated") /\ UNCHANGED status
         ELSE Block(m)
    /\ UNCHANGED <<today, gateVars, request, job, delivered, unconfirmed, overtaken>>

(* Mutant: the account's status is left to the API.                        *)
CheckPolicyWithoutAccount(m) ==
    /\ attempt[m].at = "read"
    /\ IF OutboundAllowed(0)
         THEN At(m, "gated") /\ UNCHANGED status
         ELSE Block(m)
    /\ UNCHANGED <<today, gateVars, request, job, delivered, unconfirmed, overtaken>>

(* The account status as read at the start, then outboundBlockReason with  *)
(* no additional message: this one is counted already.                     *)
CheckPolicy(m) ==
    /\ attempt[m].at = "read"
    /\ IF attempt[m].saw.connected /\ OutboundAllowed(0)
         THEN At(m, "gated") /\ UNCHANGED status
         ELSE Block(m)
    /\ UNCHANGED <<today, gateVars, request, job, delivered, unconfirmed, overtaken>>

(* Mutant: the worker trusts the decision of the API.                      *)
CheckSafetyNever(m) ==
    /\ attempt[m].at = "gated"
    /\ At(m, "cleared")
    /\ UNCHANGED <<dbVars, queuePaused, request, job, delivered, unconfirmed, overtaken>>

(* The suppression entries are read now, the contact row was read at the   *)
(* start.                                                                  *)
CheckSafety(m) ==
    /\ attempt[m].at = "gated"
    /\ IF evaluateMessageSafety(WorkerContext(FactsFor(m, attempt[m].saw, TRUE))) = "ALLOWED"
         THEN At(m, "cleared") /\ UNCHANGED status
         ELSE Block(m)
    /\ UNCHANGED <<today, gateVars, request, job, delivered, unconfirmed, overtaken>>

(* accountRateAllowed refuses: the job waits for the next minute.          *)
DeferForRate(m) ==
    /\ attempt[m].at = "cleared"
    /\ job' = [job EXCEPT ![m] = Deferred(@)]
    /\ EndAttempt(m)
    /\ UNCHANGED <<dbVars, queuePaused, request, delivered, unconfirmed>>

MarkSending(m) ==
    /\ attempt[m].at = "cleared"
    /\ status' = [status EXCEPT ![m] = "SENDING"]
    /\ At(m, "sending")
    /\ UNCHANGED <<today, gateVars, request, job, delivered, unconfirmed, overtaken>>

(* accessTokenFor: the token is good, or it was about to expire and the    *)
(* refresh succeeded, which also writes CONNECTED into the account,        *)
(* whatever its status became since the attempt read it.                   *)
GetToken(m) ==
    /\ attempt[m].at = "sending"
    /\ account' \in {account, "CONNECTED"}
    /\ pause' = IF pause = "standing" /\ account' = "CONNECTED" THEN "undone" ELSE pause
    /\ At(m, "tokened")
    /\ UNCHANGED <<status, today, contact, listed, entitled, outboundPaused, queuePaused,
                   request, job, delivered, unconfirmed, overtaken>>

(* The platform accepts the message and the answer reaches the worker.     *)
PlatformAccepts(m) ==
    /\ attempt[m].at = "tokened"
    /\ delivered' = [delivered EXCEPT ![m] = @ + 1]
    /\ At(m, "accepted")
    /\ UNCHANGED <<dbVars, queuePaused, request, job, unconfirmed, overtaken>>

RecordSent(m) ==
    /\ attempt[m].at = "accepted"
    /\ status' = [status EXCEPT ![m] = "SENT"]
    /\ At(m, "settled")
    /\ UNCHANGED <<today, gateVars, request, job, delivered, unconfirmed, overtaken>>

(* updateCampaignProgress finds no link and the processor returns.         *)
FinishAttempt(m) ==
    /\ attempt[m].at = "settled"
    /\ job' = [job EXCEPT ![m] = Completed(@)]
    /\ EndAttempt(m)
    /\ UNCHANGED <<dbVars, queuePaused, request, delivered, unconfirmed>>

-----------------------------------------------------------------------------
(* What goes wrong in an attempt                                           *)

(* Mutants: the listener does not look at attemptsMade; a failure is       *)
(* deferred like a rate limit, without being counted.                      *)
ThrowAlwaysListens(m) ==
    /\ job' = [job EXCEPT ![m] = Thrown(@)]
    /\ attempt' = [attempt EXCEPT ![m] = [at |-> "onFailed", saw |-> NothingRead]]
    /\ overtaken' = overtaken \ {m}

ThrowUncounted(m) ==
    /\ job' = [job EXCEPT ![m] = Deferred(@)]
    /\ EndAttempt(m)

(* The processor throws: the attempt counts, and the 'failed' listener has *)
(* work to do only after the last one.                                     *)
Throw(m) ==
    /\ job' = [job EXCEPT ![m] = Thrown(@)]
    /\ attempt' = [attempt EXCEPT ![m] =
          IF LastAttempt(job[m]) THEN [at |-> "onFailed", saw |-> NothingRead] ELSE Idle]
    /\ overtaken' = overtaken \ {m}

(* A database or Redis call fails, or the platform refuses the message.    *)
AttemptFails(m) ==
    /\ attempt[m].at \in Running
    /\ Throw(m)
    /\ unconfirmed' = [unconfirmed EXCEPT ![m] =
          IF attempt[m].at = "accepted" THEN @ + 1 ELSE @]
    /\ UNCHANGED <<dbVars, queuePaused, request, delivered>>

(* The platform accepts the message but the answer is lost or times out.   *)
AnswerLost(m) ==
    /\ attempt[m].at = "tokened"
    /\ delivered' = [delivered EXCEPT ![m] = @ + 1]
    /\ unconfirmed' = [unconfirmed EXCEPT ![m] = @ + 1]
    /\ Throw(m)
    /\ UNCHANGED <<dbVars, queuePaused, request>>

(* The access token had expired and Zalo refuses the refresh token.        *)
TokenRefused(m) ==
    /\ attempt[m].at = "sending"
    /\ account' = "REAUTH_REQUIRED"
    /\ job' = [job EXCEPT ![m] = Thrown(@)]
    /\ attempt' = [attempt EXCEPT ![m] =
          IF LastAttempt(job[m]) THEN [at |-> "onFailed", saw |-> NothingRead] ELSE Idle]
    /\ overtaken' = (overtaken \cup {n \in Messages : attempt[n].at \in Running}) \ {m}
    /\ UNCHANGED <<status, today, contact, listed, pause, entitled, outboundPaused,
                   queuePaused, request, delivered, unconfirmed>>

(* Mutant: update instead of updateMany with its status filter.            *)
OnFailedUnfiltered(m) ==
    /\ attempt[m].at = "onFailed"
    /\ status' = [status EXCEPT ![m] = "FAILED"]
    /\ EndAttempt(m)
    /\ UNCHANGED <<today, gateVars, request, job, delivered, unconfirmed>>

(* The 'failed' listener of the message worker.                            *)
OnFailed(m) ==
    /\ attempt[m].at = "onFailed"
    /\ status' = [status EXCEPT ![m] = IF @ \in {"QUEUED", "SENDING"} THEN "FAILED" ELSE @]
    /\ EndAttempt(m)
    /\ UNCHANGED <<today, gateVars, request, job, delivered, unconfirmed>>

(* The worker process holding the attempt dies.                            *)
WorkerLost(m) ==
    /\ attempt[m].at # "idle"
    /\ unconfirmed' = [unconfirmed EXCEPT ![m] =
          IF attempt[m].at = "accepted" THEN @ + 1 ELSE @]
    /\ EndAttempt(m)
    /\ UNCHANGED <<dbVars, queuePaused, request, job, delivered>>

(* BullMQ: the lock of a lost attempt runs out; backoff and delay elapse.  *)
JobStalls(m) ==
    /\ job[m].state = "active"
    /\ attempt[m].at = "idle"
    /\ job' = [job EXCEPT ![m] = Stalled(@)]
    /\ UNCHANGED <<dbVars, queuePaused, request, attempt, delivered, unconfirmed, overtaken>>

JobPromoted(m) ==
    /\ job[m].state = "delayed"
    /\ job' = [job EXCEPT ![m] = Promoted(@)]
    /\ UNCHANGED <<dbVars, queuePaused, request, attempt, delivered, unconfirmed, overtaken>>

-----------------------------------------------------------------------------
(* Operators and the recipient                                             *)

Overtake(ms, steps) ==
    overtaken' = overtaken \cup {m \in ms : attempt[m].at \in steps}

ContactAllows(m, row) ==
    /\ row.consent # "OPTED_OUT"
    /\ ~row.flagged
    /\ m \in Promotional => row.consent = "OPTED_IN"

WriteContact(c, row) ==
    /\ contact' = [contact EXCEPT ![c] = row]
    /\ Overtake({m \in Messages : Recipient[m] = c /\ ~ContactAllows(m, row)}, Running)

EnvUnchanged == UNCHANGED <<status, today, request, job, attempt, delivered, unconfirmed>>

(* The row that every consent written by a person leaves, whatever it said *)
(* before: anything but an opt-out lifts the flag as well.                 *)
Consenting(consent) == [consent |-> consent, flagged |-> consent = "OPTED_OUT"]

RecordConsent(c, consent) ==
    /\ "consent" \in Interventions
    /\ WriteContact(c, Consenting(consent))
    /\ UNCHANGED <<listed, account, pause, entitled, outboundPaused, queuePaused>>
    /\ EnvUnchanged

(* updateConsent and the OPT_IN/OPT_OUT bulk action.                       *)
UpdateConsent(c, consent) == RecordConsent(c, consent)

(* upsertOne for a contact that create finds by its phone or platform id.  *)
UpsertContact(c, consent) == RecordConsent(c, consent)

(* processContactImport writes the contacts of its payload in one          *)
(* transaction, and writes them again when a retry follows.                *)
ImportContacts(given) ==
    /\ "consent" \in Interventions
    /\ contact' = [c \in Contacts |->
          IF c \in DOMAIN given THEN Consenting(given[c]) ELSE contact[c]]
    /\ Overtake({m \in Messages : /\ Recipient[m] \in DOMAIN given
                                 /\ ~ContactAllows(m, Consenting(given[Recipient[m]]))}, Running)
    /\ UNCHANGED <<listed, account, pause, entitled, outboundPaused, queuePaused>>
    /\ EnvUnchanged

(* A user_unfollow or user_withdraw webhook, in one transaction.           *)
WebhookOptOut(c) ==
    /\ "consent" \in Interventions
    /\ WriteContact(c, [consent |-> "OPTED_OUT", flagged |-> TRUE])
    /\ listed' = listed \cup {c}
    /\ UNCHANGED <<account, pause, entitled, outboundPaused, queuePaused>>
    /\ EnvUnchanged

(* A suppression writes first the entry, then the contact rows; the second *)
(* write may never happen.                                                 *)
SuppressAs(c, consent) ==
    /\ "consent" \in Interventions
    /\ listed' = listed \cup {c}
    /\ \/ WriteContact(c, [consent |-> consent, flagged |-> TRUE])
       \/ /\ Overtake({m \in Messages : Recipient[m] = c}, PastSafety)
          /\ UNCHANGED contact
    /\ UNCHANGED <<account, pause, entitled, outboundPaused, queuePaused>>
    /\ EnvUnchanged

(* ContactsService.suppress leaves the consent as it is.                   *)
Suppress(c) == SuppressAs(c, contact[c].consent)

(* AdminService.addGlobalSuppression records an opt-out as well; an entry  *)
(* that exists is written again.                                           *)
SuppressGlobally(c) == SuppressAs(c, "OPTED_OUT")

(* The SUPPRESS bulk action, and the late second write of a suppression.   *)
FlagContact(c) ==
    /\ "consent" \in Interventions
    /\ WriteContact(c, [consent |-> contact[c].consent, flagged |-> TRUE])
    /\ UNCHANGED <<listed, account, pause, entitled, outboundPaused, queuePaused>>
    /\ EnvUnchanged

Unsuppress(c) ==
    /\ "consent" \in Interventions
    /\ c \in listed
    /\ listed' = listed \ {c}
    /\ UNCHANGED <<contact, account, pause, entitled, outboundPaused, queuePaused, overtaken>>
    /\ EnvUnchanged

(* AdminService.setAccountPaused.                                          *)
SetAccountPaused(paused) ==
    /\ "account" \in Interventions
    /\ account' = IF paused THEN "LIMITED" ELSE "CONNECTED"
    /\ pause' = IF paused THEN "standing" ELSE "lifted"
    /\ IF paused THEN Overtake(Messages, Running) ELSE UNCHANGED overtaken
    /\ UNCHANGED <<contact, listed, entitled, outboundPaused, queuePaused>>
    /\ EnvUnchanged

(* The tenant is suspended or its subscription ends, and the reverse.      *)
SetEntitled(active) ==
    /\ "tenant" \in Interventions
    /\ entitled' = active
    /\ IF active THEN UNCHANGED overtaken ELSE Overtake(Messages, PastPolicy)
    /\ UNCHANGED <<contact, listed, account, pause, outboundPaused, queuePaused>>
    /\ EnvUnchanged

(* AdminService.setEmergencyStop writes the control row first and touches  *)
(* the queues afterwards.                                                  *)
SetEmergencyStop(paused) ==
    /\ "stop" \in Interventions
    /\ outboundPaused' = paused
    /\ IF paused THEN Overtake(Messages, PastPolicy) ELSE UNCHANGED overtaken
    /\ UNCHANGED <<contact, listed, account, pause, entitled, queuePaused>>
    /\ EnvUnchanged

(* Its queue operation comes later and is not ordered with that of another  *)
(* call: overlapping calls may leave the queue paused or running.          *)
PauseOrResumeQueue(paused) ==
    /\ "stop" \in Interventions
    /\ queuePaused # paused
    /\ queuePaused' = paused
    /\ UNCHANGED <<contact, listed, account, pause, entitled, outboundPaused, overtaken>>
    /\ EnvUnchanged

(* A new UTC day: the daily count starts over.                             *)
Midnight ==
    /\ "midnight" \in Interventions
    /\ today' = {}
    /\ UNCHANGED <<status, gateVars, request, workVars>>

-----------------------------------------------------------------------------

ApiStep ==
    \E r \in Requests : \/ LookUp(r)
                        \/ AssertOutboundAllowed(r)
                        \/ CreateMessage(r)
                        \/ Enqueue(r)
                        \/ RequestAborted(r)

WorkerStep(m) ==
    \/ StartAttempt(m)
    \/ CheckPolicy(m)
    \/ CheckSafety(m)
    \/ MarkSending(m)
    \/ GetToken(m)
    \/ PlatformAccepts(m)
    \/ RecordSent(m)
    \/ FinishAttempt(m)
    \/ OnFailed(m)

FaultStep(m) ==
    \/ DeferForRate(m)
    \/ AttemptFails(m)
    \/ AnswerLost(m)
    \/ TokenRefused(m)
    \/ WorkerLost(m)

QueueStep(m) == JobStalls(m) \/ JobPromoted(m)

OperatorStep ==
    \/ \E c \in Contacts : \/ \E s \in ConsentStatuses : UpdateConsent(c, s) \/ UpsertContact(c, s)
                           \/ WebhookOptOut(c)
                           \/ Suppress(c)
                           \/ SuppressGlobally(c)
                           \/ FlagContact(c)
                           \/ Unsuppress(c)
    \/ \E cs \in SUBSET Contacts : \E given \in [cs -> ConsentStatuses] : ImportContacts(given)
    \/ \E b \in BOOLEAN : \/ SetAccountPaused(b)
                          \/ SetEntitled(b)
                          \/ SetEmergencyStop(b)
                          \/ PauseOrResumeQueue(b)
    \/ Midnight

Next ==
    \/ ApiStep
    \/ \E m \in Messages : WorkerStep(m) \/ FaultStep(m) \/ QueueStep(m)
    \/ OperatorStep

Spec == Init /\ [][Next]_vars

(* The worker process keeps taking jobs, BullMQ keeps promoting delayed    *)
(* jobs and returning stalled ones, and a message deferred minute after    *)
(* minute is let through in some minute, because the counter starts over.  *)
FairSpec ==
    /\ Spec
    /\ \A m \in Messages : /\ WF_vars(WorkerStep(m))
                           /\ SF_vars(MarkSending(m))
                           /\ WF_vars(QueueStep(m))

-----------------------------------------------------------------------------
(* Properties                                                              *)

TypeOK ==
    /\ status \in [Messages -> MessageStatuses]
    /\ today \subseteq Messages
    /\ contact \in [Contacts -> [consent : ConsentStatuses, flagged : BOOLEAN]]
    /\ listed \subseteq Contacts
    /\ account \in AccountStatuses
    /\ entitled \in BOOLEAN
    /\ outboundPaused \in BOOLEAN
    /\ job \in [Messages -> Jobs]
    /\ queuePaused \in BOOLEAN
    /\ request \in [Requests -> [at : RequestSteps, key : Messages]]
    /\ attempt \in [Messages -> [at : AttemptSteps, saw : Snapshots]]
    /\ delivered \in [Messages -> Nat]
    /\ unconfirmed \in [Messages -> Nat]
    /\ overtaken \subseteq Messages
    /\ pause \in Pauses

(* On what the database says at any moment, the early returns of the       *)
(* worker's evaluation come to exactly the consent rules, and the API's to *)
(* the same plus a connected account under its rate, whatever the adapter  *)
(* declares: a QUEUED message is blocked later only because something      *)
(* changed in between, and a message the worker would send is not refused  *)
(* by the API for another reason.                                          *)
BothDecideByTheRules ==
    \A m \in Messages, declared \in Capabilities, permitted, configured, promotional, inRate \in BOOLEAN :
        LET f == [FactsFor(m, RowsOf(m), inRate) EXCEPT
                    !.declared = declared, !.permitted = permitted,
                    !.configured = configured, !.promotional = promotional]
        IN  /\ (evaluateMessageSafety(WorkerContext(f)) = "ALLOWED") <=> MaySend(f)
            /\ (evaluateMessageSafety(ApiContext(f)) = "ALLOWED")
                  <=> (MaySend(f) /\ f.connected /\ f.withinRateLimit)

(* Messages created today that the worker let past the policy check, or    *)
(* that reached the platform.                                              *)
Dispatched ==
    {m \in today : attempt[m].at \in PastPolicy \ {"settled"} \/ delivered[m] > 0}

(* Requests racing between assertOutboundAllowed and message.create can    *)
(* overshoot the daily quota with rows, but never with messages: of those  *)
(* created on a day no more than the limit are dispatched on that day,     *)
(* because the worker counts again.                                        *)
DispatchWithinDailyLimit == Cardinality(Dispatched) <= DailyLimit

(* The platform holds more than one copy of a message only for attempts    *)
(* that it accepted and whose result was never recorded: neither           *)
(* concurrent requests with the same key, nor a duplicate job, nor a retry *)
(* after a recorded send adds a copy.                                      *)
ExtraCopyNeedsUnconfirmedSend ==
    \A m \in Messages :
        delivered[m] <= unconfirmed[m] + (IF status[m] = "SENT" \/ attempt[m].at = "accepted"
                                            THEN 1 ELSE 0)

(* docs/ARCHITECTURE.md: the worker marks a message FAILED only after the  *)
(* last attempt, also when workers die and attempts are deferred.          *)
FailedOnlyAfterLastAttempt ==
    \A m \in Messages : status[m] = "FAILED" => job[m].attempts = MaxAttempts

(* A job that BullMQ counts as completed left its message settled: no      *)
(* early return drops a message that still waits to be sent.               *)
CompletedJobSettledMessage ==
    \A m \in Messages : job[m].state = "completed" => status[m] \in Settled

(* A final status is never overwritten: a settled message is neither sent  *)
(* again under another status, nor failed by the listener, nor revived.    *)
FinalStatusStays ==
    [][\A m \in Messages :
         status[m] \in Settled \cup {"FAILED"} => status'[m] = status[m]]_vars

(* What the two states of the database, the job and the attempt come to    *)
(* for somebody who waits for the message: see ReliableSend.               *)
Outcome ==
    [m \in Messages |-> IF status[m] \in {"QUEUED", "SENDING"} THEN "PENDING" ELSE status[m]]

InHand == {m \in Messages : attempt[m].at = "accepted"}

Reliable == INSTANCE ReliableSend
                WITH outcome <- Outcome, inHand <- InHand, copies <- delivered, lost <- unconfirmed

(* All of the above is an implementation of ReliableSend: with racing      *)
(* requests, duplicate jobs, retries, lost workers and a listener that     *)
(* writes later, every step is a step of the promise or invisible to it.   *)
DeliversReliably == Reliable!Spec

(* May message m leave on what is true now, not on what was read?  A pause *)
(* of the account counts until it is lifted or undone, whatever the status *)
(* of the account says.                                                    *)
SendableNow(m) ==
    /\ account = "CONNECTED"
    /\ pause # "standing"
    /\ entitled
    /\ ~outboundPaused
    /\ ContactAllows(m, contact[Recipient[m]])
    /\ Recipient[m] \notin listed

(* docs/SECURITY.md: an opted-out or suppressed contact is blocked even    *)
(* when the job is in the queue already.  The same for a suspended tenant  *)
(* and the emergency stop: after any of them a message reaches the         *)
(* platform only from an attempt that was already past the corresponding   *)
(* read, never from one that starts later.  A pause of the account, which  *)
(* docs/PHASE_REPORT.md says stops the worker, holds less far: the token   *)
(* refresh of an attempt that had read CONNECTED before the pause writes   *)
(* CONNECTED over it, and later attempts send again.  Nothing else undoes  *)
(* a pause, and until then it holds back the later attempts as well.       *)
WithdrawalStopsLaterAttempts ==
    [][/\ \A m \in Messages :
            (delivered'[m] > delivered[m] /\ ~SendableNow(m)) => m \in overtaken
       /\ (pause = "standing" /\ account' = "CONNECTED") =>
            \/ pause' = "lifted"
            \/ \E m \in overtaken : /\ attempt[m].saw.connected
                                    /\ attempt[m].at = "sending"
                                    /\ attempt'[m].at = "tokened"]_vars

(* Unless message.send stays paused for ever, every job that was queued    *)
(* ends, whatever fails on the way: nothing is retried or deferred for     *)
(* ever.                                                                   *)
EveryJobEnds ==
    <>[](~queuePaused) =>
        \A m \in Messages : job[m].state = "waiting" ~> job[m].state \in {"completed", "failed"}

=============================================================================
