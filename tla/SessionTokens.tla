----------------------------- MODULE SessionTokens -----------------------------
(***************************************************************************)
(* The login sessions of one user: AuthService registers, logs in, rotates *)
(* refresh tokens and ends sessions, each call one await at a time and all *)
(* calls interleaved.  A session is a family of refresh tokens that begins *)
(* with a login; the family is named by its first token.  A token stands   *)
(* for its row: the database holds its hash, never the token.  Access      *)
(* tokens leave no row and are not modelled.                               *)
(***************************************************************************)
EXTENDS FiniteSets

CONSTANTS
    Tokens,   \* the refresh tokens that may be issued (bounds the model)
    Calls,    \* API calls under way at the same time
    NoToken

ASSUME SessionAssumption == NoToken \notin Tokens

VARIABLES
    registered, \* the User row exists
    resetOpen,  \* User.resetTokenHash is set and has not run out
    family,     \* RefreshToken.familyId, NoToken while there is no row
    live,       \* the rows with revokedAt = null
    reused,     \* the rows with reuseDetectedAt set
    expired,    \* the rows with expiresAt in the past
    call,       \* where each API call is, and with which token
    \* history
    ended,      \* tokens of sessions that were ended since
    overlapped  \* those of them issued by a call that was under way then

rowVars == <<family, live, reused, expired>>
userVars == <<registered, resetOpen>>
historyVars == <<ended, overlapped>>
vars == <<rowVars, userVars, call, historyVars>>

(* The await points.  register: the email was found free; register, login: *)
(* the user is known ("verified"); refresh: the row was read unrevoked,    *)
(* the family is not compromised, this call revoked the row ("claimed"),   *)
(* the family is to be revoked ("replay"); resetPassword: the link is good.*)
CallSteps == {"idle", "registering", "verified", "read", "vetted", "claimed", "replay", "resetting"}
Issuing == {"verified", "claimed"}
Idle == [at |-> "idle", token |-> NoToken, late |-> FALSE]

Created == {t \in Tokens : family[t] # NoToken}
Siblings(t) == {s \in Tokens : family[s] = family[t]}

Init ==
    /\ registered = FALSE
    /\ resetOpen = FALSE
    /\ family = [t \in Tokens |-> NoToken]
    /\ live = {}
    /\ reused = {}
    /\ expired = {}
    /\ call = [c \in Calls |-> Idle]
    /\ ended = {}
    /\ overlapped = {}

-----------------------------------------------------------------------------

To(c, step) == call' = [call EXCEPT ![c].at = step]
Return(c) == call' = [call EXCEPT ![c] = Idle]

(* register: the email is looked up, then user, workspace, membership and  *)
(* subscription are created in one transaction, unless the unique email    *)
(* was taken in between.                                                   *)
LookUpEmail(c) ==
    /\ call[c].at = "idle"
    /\ ~registered
    /\ To(c, "registering")
    /\ UNCHANGED <<rowVars, userVars, historyVars>>

CreateUser(c) ==
    /\ call[c].at = "registering"
    /\ IF registered THEN Return(c) ELSE To(c, "verified")
    /\ registered' = TRUE
    /\ UNCHANGED <<rowVars, resetOpen, historyVars>>

(* login with the right password; a wrong one leaves only an audit row.    *)
VerifyPassword(c) ==
    /\ call[c].at = "idle"
    /\ registered
    /\ To(c, "verified")
    /\ UNCHANGED <<rowVars, userVars, historyVars>>

(* refresh: the row of the presented token, whose signature has not run    *)
(* out.                                                                    *)
ReadToken(c, t) ==
    /\ call[c].at = "idle"
    /\ t \in Created \ expired
    /\ call' = [call EXCEPT ![c] =
          [at |-> IF t \in live THEN "read" ELSE "replay", token |-> t, late |-> FALSE]]
    /\ UNCHANGED <<rowVars, userVars, historyVars>>

VetWith(c, compromised) ==
    /\ call[c].at = "read"
    /\ IF compromised THEN To(c, "replay")
       ELSE IF call[c].token \in expired THEN Return(c)
       ELSE To(c, "vetted")
    /\ UNCHANGED <<rowVars, userVars, historyVars>>

(* Mutant: a family in which reuse was detected is not looked for.         *)
VetFamilyNever(c) == VetWith(c, FALSE)

VetFamily(c) == VetWith(c, Siblings(call[c].token) \cap reused # {})

ClaimIf(c, unrevoked) ==
    /\ call[c].at = "vetted"
    /\ To(c, IF unrevoked THEN "claimed" ELSE "replay")
    /\ live' = live \ {call[c].token}
    /\ UNCHANGED <<family, reused, expired, userVars, historyVars>>

(* Mutant: update by id instead of updateMany with revokedAt = null.       *)
ClaimAlways(c) == ClaimIf(c, TRUE)

(* The row is revoked if no other call revoked it in the meantime.         *)
Claim(c) == ClaimIf(c, call[c].token \in live)

(* issueTokens: the new row begins a family, or continues that of the      *)
(* claimed token.                                                          *)
IssueTokens(c, t) ==
    /\ call[c].at \in Issuing
    /\ t \notin Created
    /\ family' = [family EXCEPT ![t] =
          IF call[c].at = "claimed" THEN family[call[c].token] ELSE t]
    /\ live' = live \cup {t}
    /\ ended' = IF call[c].late \/ call[c].token \in ended THEN ended \cup {t} ELSE ended
    /\ overlapped' = IF call[c].late \/ call[c].token \in overlapped
                       THEN overlapped \cup {t} ELSE overlapped
    /\ Return(c)
    /\ UNCHANGED <<reused, expired, userVars>>

(* The row cannot be stored: a refresh gives the whole family up.          *)
IssueFails(c) ==
    /\ call[c].at \in Issuing
    /\ IF call[c].at = "claimed" THEN To(c, "replay") ELSE Return(c)
    /\ UNCHANGED <<rowVars, userVars, historyVars>>

RevokeCompromisedFamily(c) ==
    /\ call[c].at = "replay"
    /\ live' = live \ Siblings(call[c].token)
    /\ reused' = reused \cup Siblings(call[c].token)
    /\ Return(c)
    /\ UNCHANGED <<family, expired, userVars, historyVars>>

(* The API process dies, or a database call of this request fails.         *)
CallLost(c) ==
    /\ call[c].at # "idle"
    /\ Return(c)
    /\ UNCHANGED <<rowVars, userVars, historyVars>>

Expire(t) ==
    /\ t \in Created \ expired
    /\ expired' = expired \cup {t}
    /\ UNCHANGED <<family, live, reused, userVars, call, historyVars>>

-----------------------------------------------------------------------------
(* Ending sessions                                                         *)

(* Every session ends here: a call that is about to issue is overtaken.    *)
EndSessions(calls) ==
    /\ ended' = Created
    /\ overlapped' = {}
    /\ call' = [c \in Calls |->
          IF calls[c].at \in Issuing THEN [calls[c] EXCEPT !.late = TRUE] ELSE calls[c]]
    /\ UNCHANGED <<family, reused, expired, registered>>

(* logout revokes the row of the presented token, if it is not revoked.    *)
Logout(t) ==
    /\ t \in Created
    /\ live' = live \ {t}
    /\ ended' = IF t \in live THEN ended \cup Siblings(t) ELSE ended
    /\ overlapped' = IF t \in live THEN overlapped \ Siblings(t) ELSE overlapped
    /\ UNCHANGED <<family, reused, expired, userVars, call>>

LogoutAll ==
    /\ registered
    /\ live' = {}
    /\ EndSessions(call)
    /\ UNCHANGED resetOpen

ForgotPassword ==
    /\ registered
    /\ resetOpen' = TRUE
    /\ UNCHANGED <<rowVars, registered, call, historyVars>>

ResetLinkExpires ==
    /\ resetOpen
    /\ resetOpen' = FALSE
    /\ UNCHANGED <<rowVars, registered, call, historyVars>>

ReadResetLink(c) ==
    /\ call[c].at = "idle"
    /\ resetOpen
    /\ To(c, "resetting")
    /\ UNCHANGED <<rowVars, userVars, historyVars>>

ResetKeeping(c, kept) ==
    /\ call[c].at = "resetting"
    /\ live' = kept
    /\ resetOpen' = FALSE
    /\ EndSessions([call EXCEPT ![c] = Idle])

(* Mutant: the new password leaves the sessions alone.                     *)
ResetPasswordOnly(c) == ResetKeeping(c, live)

(* The password and all rows, in one transaction; the link is not looked   *)
(* at again.                                                               *)
ResetPassword(c) == ResetKeeping(c, {})

(* AdminService.resetOwnerPassword: the same, without a link.              *)
ResetOwnerPassword ==
    /\ registered
    /\ live' = {}
    /\ EndSessions(call)
    /\ UNCHANGED resetOpen

-----------------------------------------------------------------------------

CallStep(c) ==
    \/ LookUpEmail(c)
    \/ CreateUser(c)
    \/ VerifyPassword(c)
    \/ VetFamily(c)
    \/ Claim(c)
    \/ IssueFails(c)
    \/ RevokeCompromisedFamily(c)
    \/ CallLost(c)
    \/ ReadResetLink(c)
    \/ ResetPassword(c)
    \/ \E t \in Tokens : ReadToken(c, t) \/ IssueTokens(c, t)

Next ==
    \/ \E c \in Calls : CallStep(c)
    \/ \E t \in Tokens : Expire(t) \/ Logout(t)
    \/ LogoutAll
    \/ ForgotPassword
    \/ ResetLinkExpires
    \/ ResetOwnerPassword

Spec == Init /\ [][Next]_vars

-----------------------------------------------------------------------------
(* Properties                                                              *)

TypeOK ==
    /\ registered \in BOOLEAN
    /\ resetOpen \in BOOLEAN
    /\ family \in [Tokens -> Tokens \cup {NoToken}]
    /\ live \subseteq Created
    /\ reused \subseteq Created
    /\ expired \subseteq Created
    /\ call \in [Calls -> [at : CallSteps, token : Tokens \cup {NoToken}, late : BOOLEAN]]
    /\ ended \subseteq Tokens
    /\ overlapped \subseteq Tokens

(* The right to continue a session exists once, as an unrevoked row or in  *)
(* a call that claimed one and has not issued the successor: two refreshes *)
(* with one token, retries and reuse never fork a session.                 *)
SessionNeverForks ==
    /\ \A t, u \in live : family[t] = family[u] => t = u
    /\ \A c, d \in Calls : (/\ call[c].at = "claimed"
                            /\ call[d].at = "claimed"
                            /\ family[call[c].token] = family[call[d].token]) => c = d
    /\ \A c \in Calls : \A t \in live : call[c].at = "claimed" => family[t] # family[call[c].token]

(* docs/PHASE_1_REPORT.md:35: once the reuse of a token was recorded, no   *)
(* token of that family is exchanged any more, not even a successor that   *)
(* was issued after the family was revoked.                                *)
CompromisedFamilyIsNeverExchanged ==
    [][\A c \in Calls : (call[c].at = "vetted" /\ call'[c].at = "claimed") =>
          Siblings(call[c].token) \cap reused = {}]_vars

(* A token that works after its session was ended by logout, logoutAll or  *)
(* a new password was issued, or its ancestor was, by a call that had the  *)
(* right to issue at that very moment: a refresh that had only read or     *)
(* vetted its row does not carry the session over.                         *)
EndedSessionNeedsOverlap == live \cap ended \subseteq overlapped

=============================================================================
