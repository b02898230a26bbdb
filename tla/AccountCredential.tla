--------------------------- MODULE AccountCredential ---------------------------
(***************************************************************************)
(* The Zalo credential of one official account: the OAuth connection, the  *)
(* token refreshes of API processes and of the message worker, disconnect, *)
(* and the admin's pause and resume.  A token stands for one grant of the  *)
(* platform: access token, refresh token and expiry together; grants are   *)
(* numbered.  Requests interleave at every await; no database row is       *)
(* locked between a read and the write that follows it.                    *)
(***************************************************************************)
EXTENDS Naturals

CONSTANTS
    Apis,       \* API processes
    Worker,     \* the worker process
    Attempts,   \* message jobs under way in the worker
    States,     \* OAuth states that may be opened (bounds the model)
    Callbacks,  \* OAuth callbacks under way at the same time
    NoState,
    MaxTokens   \* grants of the platform (bounds the model)

ASSUME CredentialAssumption ==
    /\ Worker \notin Apis
    /\ NoState \notin States
    /\ MaxTokens \in Nat

Procs == Apis \cup {Worker}
Tokens == 1..MaxTokens
NoToken == 0

VARIABLES
    account,       \* SocialAccount: status, metadata.adminPaused, tokenExpiresAt # null
    stored,        \* the grant in PlatformCredential, NoToken without a row
    due,           \* grants whose access token is about to expire
    oauth,         \* PlatformOAuthState: "none", "open", "closed" (used or expired)
    callback,      \* ZaloOAuthService.complete, per callback
    task,          \* the entry of refreshing and of refreshingTokens, per process
    held,          \* the grant in the snapshot a message job read
    disconnecting, \* between the two writes of AccountsService.disconnect
    resuming,      \* what setAccountPaused read: "no" (not running), "with", "without"
    (* the platform *)
    issued,        \* number of grants
    valid,         \* refresh tokens it still accepts
    (* history *)
    exchanges,     \* code exchanges per OAuth state
    lost,          \* grants whose successor was issued and never arrived
    torn           \* a disconnect broke off half-way, or a resume overtook one

accountVars == <<account, stored>>
oauthVars == <<oauth, callback, exchanges>>
callVars == <<disconnecting, resuming, torn>>
platformVars == <<issued, valid, lost>>
vars == <<accountVars, due, oauthVars, task, held, callVars, platformVars>>

NoCallback == [at |-> "idle", state |-> NoState, token |-> NoToken]
NoTask == [at |-> "idle", token |-> NoToken, next |-> NoToken, force |-> FALSE]

Init ==
    /\ account = [status |-> "none", paused |-> FALSE, timed |-> FALSE]
    /\ stored = NoToken
    /\ due = {}
    /\ oauth = [s \in States |-> "none"]
    /\ callback = [b \in Callbacks |-> NoCallback]
    /\ task = [p \in Procs |-> NoTask]
    /\ held = [m \in Attempts |-> NoToken]
    /\ disconnecting = FALSE
    /\ resuming = "no"
    /\ issued = 0
    /\ valid = {}
    /\ exchanges = [s \in States |-> 0]
    /\ lost = {}
    /\ torn = FALSE

-----------------------------------------------------------------------------
(* Connecting: begin and complete                                          *)

Begin(s) ==
    /\ oauth[s] = "none"
    /\ oauth' = [oauth EXCEPT ![s] = "open"]
    /\ UNCHANGED <<accountVars, due, callback, exchanges, task, held, callVars, platformVars>>

StateExpires(s) ==
    /\ oauth[s] = "open"
    /\ oauth' = [oauth EXCEPT ![s] = "closed"]
    /\ UNCHANGED <<accountVars, due, callback, exchanges, task, held, callVars, platformVars>>

ReadState(b, s) ==
    /\ callback[b].at = "idle"
    /\ oauth[s] = "open"
    /\ callback' = [callback EXCEPT ![b] = [NoCallback EXCEPT !.at = "read", !.state = s]]
    /\ UNCHANGED <<accountVars, due, oauth, exchanges, task, held, callVars, platformVars>>

ClaimIf(b, open) ==
    /\ callback[b].at = "read"
    /\ callback' = [callback EXCEPT ![b] =
          IF open THEN [NoCallback EXCEPT !.at = "claimed"] ELSE NoCallback]
    /\ oauth' = [oauth EXCEPT ![callback[b].state] = "closed"]
    /\ exchanges' = IF open THEN [exchanges EXCEPT ![callback[b].state] = @ + 1] ELSE exchanges
    /\ UNCHANGED <<accountVars, due, task, held, callVars, platformVars>>

(* Mutant: usedAt is written by id.                                        *)
ClaimAlways(b) == ClaimIf(b, TRUE)

(* updateMany with usedAt = null and the state unexpired, then the code    *)
(* exchange.                                                               *)
ClaimState(b) == ClaimIf(b, oauth[callback[b].state] = "open")

(* authenticate: the platform grants a token set for the code.             *)
CodeGranted(b) ==
    /\ callback[b].at = "claimed"
    /\ issued < MaxTokens
    /\ issued' = issued + 1
    /\ valid' = valid \cup {issued + 1}
    /\ callback' = [callback EXCEPT ![b].at = "granted", ![b].token = issued + 1]
    /\ UNCHANGED <<accountVars, due, oauth, exchanges, task, held, callVars, lost>>

GiveUp(b) ==
    /\ callback' = [callback EXCEPT ![b] = NoCallback]
    /\ UNCHANGED <<accountVars, due, oauth, exchanges, task, held, callVars, platformVars>>

(* The callback URL is configured differently by now.                      *)
StateRefused(b) == callback[b].at = "read" /\ GiveUp(b)

(* authenticate: the code is refused or used up, or there is no answer;    *)
(* the state stays claimed.                                                *)
CodeRefused(b) == callback[b].at = "claimed" /\ GiveUp(b)

(* getAccountInfo: the official account cannot be read, or it is another   *)
(* one than the callback says, or there is no capacity for it: the grant   *)
(* is dropped, though the platform keeps it.                               *)
AccountInfoFails(b) == callback[b].at = "granted" /\ GiveUp(b)

(* A check refuses, or the process dies.                                   *)
CallbackFails(b) == StateRefused(b) \/ CodeRefused(b) \/ AccountInfoFails(b)

(* saveConnectedAccount: account and credential are upserted in one        *)
(* transaction; the new metadata no longer says adminPaused.               *)
SaveConnectedAccount(b) ==
    /\ callback[b].at = "granted"
    /\ account' = [status |-> "CONNECTED", paused |-> FALSE, timed |-> TRUE]
    /\ stored' = callback[b].token
    /\ callback' = [callback EXCEPT ![b] = NoCallback]
    /\ UNCHANGED <<due, oauth, exchanges, task, held, callVars, platformVars>>

(* AccountsService.create: the row without a credential; an existing one   *)
(* keeps its status.                                                       *)
CreateAccount ==
    /\ account.status = "none"
    /\ account' = [account EXCEPT !.status = "DISCONNECTED"]
    /\ UNCHANGED <<stored, due, oauthVars, task, held, callVars, platformVars>>

-----------------------------------------------------------------------------
(* Refreshing, one task per process and account                            *)

TokenDue(t) ==
    /\ t \in ({stored} \cup {held[m] : m \in Attempts}) \ (due \cup {NoToken})
    /\ due' = due \cup {t}
    /\ UNCHANGED <<accountVars, oauthVars, task, held, callVars, platformVars>>

(* refreshAccount at any time; refreshExpiringForWorkspace for a connected *)
(* account whose token is due.  A refresh under way is joined.             *)
Refresh(p, force) ==
    /\ p \in Apis
    /\ task[p].at = "idle"
    /\ force \/ (account.status = "CONNECTED" /\ account.timed /\ stored \in due)
    /\ task' = [task EXCEPT ![p] = [NoTask EXCEPT !.at = "reading", !.force = force]]
    /\ UNCHANGED <<accountVars, due, oauthVars, held, callVars, platformVars>>

(* doRefresh reads the credential: there is none, or another process has   *)
(* refreshed it meanwhile, or its refresh token is presented.              *)
ReadCredential(p) ==
    /\ task[p].at = "reading"
    /\ task' = [task EXCEPT ![p] =
          IF stored = NoToken \/ (~task[p].force /\ account.timed /\ stored \notin due)
            THEN NoTask
            ELSE [NoTask EXCEPT !.at = "asking", !.token = stored]]
    /\ UNCHANGED <<accountVars, due, oauthVars, held, callVars, platformVars>>

(* processMessage reads account and credential with the message.  A        *)
(* snapshot without an expiry is used as it is.                            *)
ReadSnapshot(m) ==
    /\ held[m] = NoToken
    /\ account.status = "CONNECTED" /\ account.timed
    /\ held' = [held EXCEPT ![m] = stored]
    /\ UNCHANGED <<accountVars, due, oauthVars, task, callVars, platformVars>>

(* accessTokenFor: the access token of the snapshot, a refresh that is     *)
(* under way, or a new one with the refresh token of the snapshot.         *)
AccessTokenFor(m) ==
    /\ held[m] # NoToken
    /\ held' = [held EXCEPT ![m] = NoToken]
    /\ task' = IF held[m] \in due /\ task[Worker].at = "idle"
                 THEN [task EXCEPT ![Worker] = [NoTask EXCEPT !.at = "asking", !.token = held[m]]]
                 ELSE task
    /\ UNCHANGED <<accountVars, due, oauthVars, callVars, platformVars>>

(* The platform rotates the refresh token it is shown; the answer arrives  *)
(* or is lost (timeout, dead process).                                     *)
Rotate(p) ==
    /\ task[p].at = "asking"
    /\ task[p].token \in valid
    /\ issued < MaxTokens
    /\ issued' = issued + 1
    /\ valid' = (valid \ {task[p].token}) \cup {issued + 1}
    /\ UNCHANGED <<accountVars, due, oauthVars, held, callVars>>

TokensGranted(p) ==
    /\ Rotate(p)
    /\ task' = [task EXCEPT ![p].at = "granted", ![p].next = issued + 1]
    /\ UNCHANGED lost

AnswerLost(p) ==
    /\ Rotate(p)
    /\ task' = [task EXCEPT ![p] = [NoTask EXCEPT !.at = "refused"]]
    /\ lost' = lost \cup {task[p].token}

(* A spent token, a platform error, an unusable answer, no connection.     *)
RefreshRefused(p) ==
    /\ task[p].at = "asking"
    /\ task' = [task EXCEPT ![p] = [NoTask EXCEPT !.at = "refused"]]
    /\ UNCHANGED <<accountVars, due, oauthVars, held, callVars, platformVars>>

(* Written whatever happened to the account and its credential meanwhile.  *)
RecordRefusal(p) ==
    /\ task[p].at = "refused"
    /\ account' = [account EXCEPT !.status = "REAUTH_REQUIRED"]
    /\ task' = [task EXCEPT ![p] = NoTask]
    /\ UNCHANGED <<stored, due, oauthVars, held, callVars, platformVars>>

RecordWith(p, token, writes) ==
    /\ task[p].at = "granted"
    /\ IF writes
         THEN /\ account' = [account EXCEPT !.status = "CONNECTED", !.timed = TRUE]
              /\ stored' = token
         ELSE UNCHANGED accountVars
    /\ task' = [task EXCEPT ![p] = NoTask]
    /\ UNCHANGED <<due, oauthVars, held, callVars, platformVars>>

(* Mutants: the rotated refresh token is not stored; the credential is     *)
(* upserted; the account is updated without the credential.                *)
RecordAccessOnly(p) == RecordWith(p, stored, stored # NoToken)
RecordUpserting(p) == RecordWith(p, task[p].next, TRUE)
RecordUnchecked(p) == RecordWith(p, IF stored = NoToken THEN stored ELSE task[p].next, TRUE)

(* One transaction: it fails if the credential is gone.                    *)
RecordGrant(p) == RecordWith(p, task[p].next, stored # NoToken)

(* The process dies, or a database call fails.                             *)
TaskLost(p) ==
    /\ task[p].at # "idle"
    /\ lost' = IF task[p].at = "granted" THEN lost \cup {task[p].token} ELSE lost
    /\ task' = [task EXCEPT ![p] = NoTask]
    /\ UNCHANGED <<accountVars, due, oauthVars, held, callVars, issued, valid>>

-----------------------------------------------------------------------------
(* Disconnect, pause and resume                                            *)

DeleteCredential ==
    /\ account.status # "none"
    /\ ~disconnecting
    /\ stored' = NoToken
    /\ disconnecting' = TRUE
    /\ UNCHANGED <<account, due, oauthVars, task, held, resuming, torn, platformVars>>

Disconnect ==
    /\ disconnecting
    /\ account' = [account EXCEPT !.status = "DISCONNECTED", !.timed = FALSE]
    /\ disconnecting' = FALSE
    /\ UNCHANGED <<stored, due, oauthVars, task, held, resuming, torn, platformVars>>

DisconnectBreaksOff ==
    /\ disconnecting
    /\ disconnecting' = FALSE
    /\ torn' = TRUE
    /\ UNCHANGED <<accountVars, due, oauthVars, task, held, resuming, platformVars>>

PauseAccount ==
    /\ account.status # "none"
    /\ account' = [account EXCEPT !.status = "LIMITED", !.paused = TRUE]
    /\ UNCHANGED <<stored, due, oauthVars, task, held, callVars, platformVars>>

ReadForResume ==
    /\ account.status # "none"
    /\ resuming = "no"
    /\ resuming' = IF stored = NoToken THEN "without" ELSE "with"
    /\ UNCHANGED <<accountVars, due, oauthVars, task, held, disconnecting, torn, platformVars>>

ResumeAccount ==
    /\ resuming # "no"
    /\ account' = [account EXCEPT !.paused = FALSE,
                                  !.status = IF resuming = "with" THEN "CONNECTED" ELSE "DISCONNECTED"]
    /\ torn' = (torn \/ (resuming = "with" /\ stored = NoToken))
    /\ resuming' = "no"
    /\ UNCHANGED <<stored, due, oauthVars, task, held, disconnecting, platformVars>>

-----------------------------------------------------------------------------

CallbackStep(b) ==
    \/ ClaimState(b)
    \/ CodeGranted(b)
    \/ CallbackFails(b)
    \/ SaveConnectedAccount(b)
    \/ \E s \in States : ReadState(b, s)

TaskStep(p) ==
    \/ \E force \in BOOLEAN : Refresh(p, force)
    \/ ReadCredential(p)
    \/ TokensGranted(p)
    \/ AnswerLost(p)
    \/ RefreshRefused(p)
    \/ RecordRefusal(p)
    \/ RecordGrant(p)
    \/ TaskLost(p)

Next ==
    \/ \E s \in States : Begin(s) \/ StateExpires(s)
    \/ \E b \in Callbacks : CallbackStep(b)
    \/ \E p \in Procs : TaskStep(p)
    \/ \E m \in Attempts : ReadSnapshot(m) \/ AccessTokenFor(m)
    \/ \E t \in Tokens : TokenDue(t)
    \/ CreateAccount
    \/ DeleteCredential
    \/ Disconnect
    \/ DisconnectBreaksOff
    \/ PauseAccount
    \/ ReadForResume
    \/ ResumeAccount

Spec == Init /\ [][Next]_vars

-----------------------------------------------------------------------------
(* Properties                                                              *)

TypeOK ==
    /\ account \in [status : {"none", "DISCONNECTED", "CONNECTED", "REAUTH_REQUIRED", "LIMITED"},
                    paused : BOOLEAN, timed : BOOLEAN]
    /\ stored \in 0..issued
    /\ issued \in 0..MaxTokens
    /\ valid \subseteq 1..issued
    /\ due \subseteq 1..issued
    /\ lost \subseteq 1..issued
    /\ oauth \in [States -> {"none", "open", "closed"}]
    /\ exchanges \in [States -> Nat]
    /\ callback \in [Callbacks -> [at : {"idle", "read", "claimed", "granted"},
                                   state : States \cup {NoState}, token : 0..issued]]
    /\ task \in [Procs -> [at : {"idle", "reading", "asking", "refused", "granted"},
                           token : 0..issued, next : 0..issued, force : BOOLEAN]]
    /\ \A p \in Procs : task[p].at \in {"asking", "granted"} => task[p].token # NoToken
    /\ held \in [Attempts -> 0..issued]
    /\ disconnecting \in BOOLEAN
    /\ torn \in BOOLEAN
    /\ resuming \in {"no", "with", "without"}

(* zalo-oauth.service.ts:111: an OAuth state whose callback arrives twice  *)
(* is exchanged once.                                                      *)
OAuthStateUsedOnce == \A s \in States : exchanges[s] <= 1

(* The stored refresh token is one the platform still accepts, unless the  *)
(* process that spent it has its successor and is about to store it, or    *)
(* that successor was lost on the way.  However refreshes of several       *)
(* processes, stale snapshots, reconnects and disconnects interleave, no   *)
(* write puts a spent token back.                                          *)
StoredTokenSpentOnlyByLoss ==
    stored # NoToken =>
        \/ stored \in valid
        \/ stored \in lost
        \/ \E p \in Procs : task[p].at = "granted" /\ task[p].token = stored

(* An account is connected without a credential only while a disconnect is *)
(* between its writes, broke off there, or was overtaken by a resume that  *)
(* had still seen the credential.                                          *)
ConnectedHasCredential ==
    (account.status = "CONNECTED" /\ stored = NoToken) => (disconnecting \/ torn)

(* A refresh that was under way when the credential was deleted does not   *)
(* bring it back: only a new OAuth connection does.                        *)
RefreshNeverReconnects ==
    [][(stored = NoToken /\ stored' # NoToken) =>
          \E b \in Callbacks : callback[b].at = "granted" /\ callback[b].token = stored']_vars

=============================================================================
