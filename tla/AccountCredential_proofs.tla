------------------------ MODULE AccountCredential_proofs ------------------------
(***************************************************************************)
(* AccountCredential: types, one exchange per OAuth state, the stored      *)
(* refresh token is spent only when its successor is in flight or lost,    *)
(* no connected account without a credential outside a disconnect, and no  *)
(* refresh brings a deleted credential back.  The inductive invariant says *)
(* of every grant that was not recorded yet that the platform accepts it,  *)
(* that nothing presents it, and that one process alone holds it.          *)
(***************************************************************************)
EXTENDS AccountCredential, TLAPS

CallbackRecs(n) == [at : {"idle", "read", "claimed", "granted"},
                    state : States \cup {NoState}, token : 0..n]
TaskRecs(n) == [at : {"idle", "reading", "asking", "refused", "granted"},
                token : 0..n, next : 0..n, force : BOOLEAN]

(* The grants that a refresh may present, or has presented.                *)
Shown == {stored} \cup {held[m] : m \in Attempts} \cup {task[p].token : p \in Procs}

(* Grants under way are accepted, not shown yet, and held once.            *)
Fresh ==
    /\ \A b \in Callbacks : callback[b].at = "granted" => callback[b].token \in valid \ Shown
    /\ \A p \in Procs : task[p].at = "granted" => task[p].next \in valid \ Shown
Distinct ==
    /\ \A b, d \in Callbacks :
          (callback[b].at = "granted" /\ callback[d].at = "granted" /\ callback[b].token = callback[d].token) => b = d
    /\ \A p, q \in Procs :
          (task[p].at = "granted" /\ task[q].at = "granted" /\ task[p].next = task[q].next) => p = q
    /\ \A b \in Callbacks, p \in Procs :
          (callback[b].at = "granted" /\ task[p].at = "granted") => callback[b].token # task[p].next

Exchanged ==
    /\ \A s \in States : exchanges[s] <= 1 /\ (oauth[s] # "closed" => exchanges[s] = 0)
    /\ \A b \in Callbacks : callback[b].at = "read" => callback[b].state \in States

IInv ==
    /\ TypeOK
    /\ Fresh
    /\ Distinct
    /\ Exchanged
    /\ StoredTokenSpentOnlyByLoss
    /\ ConnectedHasCredential

-----------------------------------------------------------------------------
(* Facts about the two records                                             *)

(* The type invariant, with the two record types named.                    *)
LEMMA Types ==
  TypeOK => /\ callback \in [Callbacks -> CallbackRecs(issued)]
            /\ task \in [Procs -> TaskRecs(issued)]
            /\ issued \in Nat
  BY CredentialAssumption DEF TypeOK, CallbackRecs, TaskRecs

(* Writing one callback leaves the others alone.                           *)
LEMMA CallbackWrite ==
  ASSUME TypeOK, NEW b \in Callbacks, NEW n \in Nat, issued <= n, NEW r \in CallbackRecs(n),
         callback' = [callback EXCEPT ![b] = r]
  PROVE  /\ callback' \in [Callbacks -> CallbackRecs(n)]
         /\ callback'[b] = r
         /\ \A d \in Callbacks \ {b} : callback'[d] = callback[d]
<1>1. CallbackRecs(issued) \subseteq CallbackRecs(n)
  BY Types DEF CallbackRecs
<1> QED BY <1>1, Types

(* Writing one task leaves the others alone.                               *)
LEMMA TaskWrite ==
  ASSUME TypeOK, NEW p \in Procs, NEW n \in Nat, issued <= n, NEW r \in TaskRecs(n),
         task' = [task EXCEPT ![p] = r]
  PROVE  /\ task' \in [Procs -> TaskRecs(n)]
         /\ task'[p] = r
         /\ \A q \in Procs \ {p} : task'[q] = task[q]
<1>1. TaskRecs(issued) \subseteq TaskRecs(n)
  BY Types DEF TaskRecs
<1> QED BY <1>1, Types

(* A wider bound on the grants keeps what does not change in its type.     *)
LEMMA Widen ==
  ASSUME TypeOK, NEW n \in Nat, issued <= n
  PROVE  /\ callback \in [Callbacks -> CallbackRecs(n)]
         /\ task \in [Procs -> TaskRecs(n)]
         /\ held \in [Attempts -> 0..n] /\ stored \in 0..n
         /\ valid \subseteq 1..n /\ due \subseteq 1..n /\ lost \subseteq 1..n
<1>1. CallbackRecs(issued) \subseteq CallbackRecs(n) /\ TaskRecs(issued) \subseteq TaskRecs(n)
  BY Types DEF CallbackRecs, TaskRecs
<1> QED BY <1>1, Types DEF TypeOK

(* The empty records.                                                      *)
LEMMA Empty ==
  ASSUME NEW n \in Nat
  PROVE  /\ NoTask \in TaskRecs(n) /\ NoTask.at = "idle" /\ NoTask.token = NoToken
         /\ NoCallback \in CallbackRecs(n) /\ NoCallback.at = "idle"
  BY DEF NoTask, NoCallback, TaskRecs, CallbackRecs, NoToken

-----------------------------------------------------------------------------
(* What preserves Fresh and Distinct: no new grant is under way, those that*)
(* remain were there, and what becomes shown is no longer under way.       *)
LEMMA GrantsKept ==
  ASSUME TypeOK, Fresh, Distinct,
         \A b \in Callbacks : callback'[b].at = "granted" =>
            callback[b].at = "granted" /\ callback'[b].token = callback[b].token,
         \A p \in Procs : task'[p].at = "granted" =>
            task[p].at = "granted" /\ task'[p].next = task[p].next,
         Shown' \subseteq Shown \cup {NoToken},
         valid' = valid
  PROVE  Fresh' /\ Distinct'
<1>1. NoToken \notin valid
  BY DEF TypeOK, NoToken
<1>2. Fresh'
  BY <1>1 DEF Fresh
<1>3. Distinct'
  BY DEF Distinct
<1> QED BY <1>2, <1>3

(* The same when one grant that was under way is recorded.                 *)
LEMMA GrantRecorded ==
  ASSUME TypeOK, Fresh, Distinct, NEW n,
         \A b \in Callbacks : callback'[b].at = "granted" =>
            /\ callback[b].at = "granted" /\ callback'[b].token = callback[b].token
            /\ callback[b].token # n,
         \A p \in Procs : task'[p].at = "granted" =>
            task[p].at = "granted" /\ task'[p].next = task[p].next /\ task[p].next # n,
         Shown' \subseteq Shown \cup {NoToken, n},
         valid' = valid
  PROVE  Fresh' /\ Distinct'
<1>1. NoToken \notin valid
  BY DEF TypeOK, NoToken
<1>2. Fresh'
  BY <1>1 DEF Fresh
<1>3. Distinct'
  BY DEF Distinct
<1> QED BY <1>2, <1>3

(* A step that touches no grant.                                           *)
LEMMA GrantsUntouched ==
  ASSUME TypeOK, Fresh, Distinct, UNCHANGED <<stored, held, task, valid>>,
         \A b \in Callbacks : callback'[b].at = "granted" => callback[b].at = "granted" /\ callback'[b].token = callback[b].token
  PROVE  Fresh' /\ Distinct'
<1>1. Shown' = Shown
  BY DEF Shown
<1>2. \A p \in Procs : task'[p].at = "granted" => task[p].at = "granted" /\ task'[p].next = task[p].next
      OBVIOUS
<1> QED BY <1>1, <1>2, GrantsKept

(* A task that ends or moves on without a grant.                           *)
LEMMA TaskMoves ==
  ASSUME IInv, NEW p \in Procs, NEW r \in TaskRecs(issued), task' = [task EXCEPT ![p] = r],
         r.at # "granted", r.at = "asking" => r.token # NoToken,
         r.token \in Shown \cup {NoToken}, task[p].at # "granted",
         UNCHANGED <<stored, due, oauthVars, callVars, platformVars>>,
         held' \in [Attempts -> 0..issued], \A m \in Attempts : held'[m] \in {held[m], NoToken},
         account' \in [status : {"none", "DISCONNECTED", "CONNECTED", "REAUTH_REQUIRED", "LIMITED"},
                       paused : BOOLEAN, timed : BOOLEAN],
         account'.status = "CONNECTED" => account.status = "CONNECTED"
  PROVE  IInv'
<1> USE DEF oauthVars, callVars, platformVars
<1>1. /\ task' \in [Procs -> TaskRecs(issued)] /\ task'[p] = r
      /\ \A q \in Procs \ {p} : task'[q] = task[q]
      /\ issued \in Nat
  BY TaskWrite, Types DEF IInv
<1>2. TypeOK'
  BY <1>1 DEF IInv, TypeOK, TaskRecs
<1>3. Shown' \subseteq Shown \cup {NoToken}
  BY <1>1 DEF Shown
<1>4. Fresh' /\ Distinct'
  <2>1. \A q \in Procs : task'[q].at = "granted" => task[q].at = "granted" /\ task'[q].next = task[q].next
    BY <1>1
  <2>2. \A b \in Callbacks : callback'[b].at = "granted" => callback[b].at = "granted" /\ callback'[b].token = callback[b].token
      OBVIOUS
  <2>3. UNCHANGED valid
      OBVIOUS
    <2> QED BY <1>3, <2>1, <2>2, <2>3, GrantsKept, SMTT(30) DEF IInv
<1>5. Exchanged' /\ ConnectedHasCredential'
  BY DEF IInv, Exchanged, ConnectedHasCredential
<1>6. StoredTokenSpentOnlyByLoss'
  BY <1>1 DEF IInv, StoredTokenSpentOnlyByLoss
<1> QED BY <1>2, <1>4, <1>5, <1>6 DEF IInv

(* A callback that moves on without a grant, and what it does to its state.*)
LEMMA CallbackMoves ==
  ASSUME IInv, NEW b \in Callbacks, NEW r \in CallbackRecs(issued),
         callback' = [callback EXCEPT ![b] = r],
         r.at # "granted", r.at = "read" => r.state \in States,
         UNCHANGED <<accountVars, due, task, held, callVars, platformVars>>,
         oauth' \in [States -> {"none", "open", "closed"}], exchanges' \in [States -> Nat],
         \A s \in States : exchanges'[s] <= 1 /\ (oauth'[s] # "closed" => exchanges'[s] = 0)
  PROVE  IInv'
<1> USE DEF accountVars, callVars, platformVars
<1>1. /\ callback' \in [Callbacks -> CallbackRecs(issued)] /\ callback'[b] = r
      /\ \A d \in Callbacks \ {b} : callback'[d] = callback[d]
      /\ issued \in Nat
  BY CallbackWrite, Types DEF IInv
<1>2. TypeOK'
  BY <1>1 DEF IInv, TypeOK, CallbackRecs
<1>3. Fresh' /\ Distinct'
  <2>1. \A d \in Callbacks : callback'[d].at = "granted" => callback[d].at = "granted" /\ callback'[d].token = callback[d].token
    BY <1>1
  <2> QED BY <2>1, GrantsUntouched DEF IInv
<1>4. Exchanged'
  BY <1>1 DEF IInv, Exchanged
<1>5. StoredTokenSpentOnlyByLoss' /\ ConnectedHasCredential'
  BY DEF IInv, StoredTokenSpentOnlyByLoss, ConnectedHasCredential
<1> QED BY <1>2, <1>3, <1>4, <1>5 DEF IInv

(* A step that leaves grants, callbacks and tasks alone.                   *)
LEMMA AccountMoves ==
  ASSUME IInv, TypeOK', UNCHANGED <<callback, task, held, issued, valid, lost, exchanges>>,
         stored' \in {stored, NoToken},
         \A s \in States : oauth'[s] # "closed" => oauth[s] # "closed",
         ConnectedHasCredential'
  PROVE  IInv'
<1>1. Fresh' /\ Distinct'
  <2>1. Shown' \subseteq Shown \cup {NoToken}
    BY DEF Shown
  <2>2. \A b \in Callbacks : callback'[b].at = "granted" => callback[b].at = "granted" /\ callback'[b].token = callback[b].token
      OBVIOUS
  <2>3. \A p \in Procs : task'[p].at = "granted" => task[p].at = "granted" /\ task'[p].next = task[p].next
      OBVIOUS
  <2> QED BY <2>1, <2>2, <2>3, GrantsKept DEF IInv
<1>2. Exchanged'
  BY DEF IInv, Exchanged
<1>3. StoredTokenSpentOnlyByLoss'
  BY DEF IInv, StoredTokenSpentOnlyByLoss
<1> QED BY <1>1, <1>2, <1>3 DEF IInv

-----------------------------------------------------------------------------
(* The steps that grant or record                                          *)

(* A code is exchanged for a token nobody has seen.                        *)
LEMMA CodeGrantedStep == ASSUME IInv, NEW b \in Callbacks, CodeGranted(b)  PROVE IInv'
<1> USE DEF accountVars, callVars
<1> DEFINE n == issued + 1
           r == [callback[b] EXCEPT !.at = "granted", !.token = n]
<1>0. /\ callback[b].at = "claimed" /\ issued < MaxTokens /\ issued' = n
      /\ valid' = valid \cup {n} /\ callback' = [callback EXCEPT ![b] = r]
      /\ UNCHANGED <<accountVars, due, oauth, exchanges, task, held, callVars, lost>>
  BY DEF CodeGranted
<1>1. issued \in Nat /\ n \in Nat /\ issued <= n /\ n > issued /\ n \in 1..MaxTokens
  BY <1>0, CredentialAssumption DEF IInv, TypeOK
<1>2. r \in CallbackRecs(n) /\ r.at = "granted" /\ r.token = n /\ r.state = callback[b].state
  <2>1. callback[b] \in CallbackRecs(issued)
    BY Types DEF IInv
  <2>2. callback[b] \in CallbackRecs(n)
    BY <1>1, <2>1 DEF CallbackRecs
  <2>3. n \in 0..n
    BY <1>1
  <2> HIDE DEF n
  <2> QED BY <2>2, <2>3 DEF CallbackRecs
<1> HIDE DEF r
<1>3. /\ callback' \in [Callbacks -> CallbackRecs(n)] /\ callback'[b] = r
      /\ \A d \in Callbacks \ {b} : callback'[d] = callback[d]
  BY <1>0, <1>1, <1>2, CallbackWrite DEF IInv
<1>4. TypeOK'
  <2>1. TypeOK /\ TypeOK
    BY DEF IInv
  <2>2. /\ task' \in [Procs -> TaskRecs(n)] /\ held' \in [Attempts -> 0..n] /\ stored' \in 0..n
        /\ valid' \subseteq 1..n /\ due' \subseteq 1..n /\ lost' \subseteq 1..n
    BY <1>0, <1>1, <2>1, Widen
  <2> QED BY <1>0, <1>1, <1>3, <2>1, <2>2 DEF TypeOK, CallbackRecs, TaskRecs
<1>5. Shown' = Shown /\ n \notin Shown /\ \A t \in valid : t # n
  BY <1>0, <1>1, Types DEF IInv, TypeOK, Shown, TaskRecs
<1>6. Fresh'
  BY <1>0, <1>2, <1>3, <1>5 DEF IInv, Fresh
<1>7. Distinct'
  BY <1>0, <1>2, <1>3, <1>5 DEF IInv, Fresh, Distinct
<1>8. Exchanged'
  BY <1>0, <1>2, <1>3 DEF IInv, Exchanged
<1>9. StoredTokenSpentOnlyByLoss' /\ ConnectedHasCredential'
  BY <1>0 DEF IInv, StoredTokenSpentOnlyByLoss, ConnectedHasCredential
<1> QED BY <1>4, <1>6, <1>7, <1>8, <1>9 DEF IInv

(* A callback saves its token, and the account is connected with it.       *)
LEMMA SaveStep == ASSUME IInv, NEW b \in Callbacks, SaveConnectedAccount(b)  PROVE IInv'
<1> USE DEF callVars, platformVars
<1>0. /\ callback[b].at = "granted"
      /\ account' = [status |-> "CONNECTED", paused |-> FALSE, timed |-> TRUE]
      /\ stored' = callback[b].token /\ callback' = [callback EXCEPT ![b] = NoCallback]
      /\ UNCHANGED <<due, oauth, exchanges, task, held, callVars, platformVars>>
  BY DEF SaveConnectedAccount
<1>1. /\ callback' \in [Callbacks -> CallbackRecs(issued)] /\ callback'[b] = NoCallback
      /\ \A d \in Callbacks \ {b} : callback'[d] = callback[d]
      /\ NoCallback.at = "idle" /\ issued \in Nat
  BY <1>0, CallbackWrite, Types, Empty DEF IInv
<1>2. callback[b].token \in valid /\ callback[b].token \in 1..issued
  BY <1>0 DEF IInv, Fresh, TypeOK
<1>3. TypeOK'
  BY <1>0, <1>1, <1>2 DEF IInv, TypeOK, CallbackRecs
<1>4. Fresh' /\ Distinct'
  <2>1. \A d \in Callbacks : callback'[d].at = "granted" =>
          /\ callback[d].at = "granted" /\ callback'[d].token = callback[d].token
          /\ callback[d].token # callback[b].token
    BY <1>0, <1>1 DEF IInv, Distinct
  <2>2. \A p \in Procs : task'[p].at = "granted" =>
          task[p].at = "granted" /\ task'[p].next = task[p].next /\ task[p].next # callback[b].token
    BY <1>0 DEF IInv, Distinct
  <2>3. Shown' \subseteq Shown \cup {NoToken, callback[b].token} /\ valid' = valid
    BY <1>0 DEF Shown
  <2> QED BY <2>1, <2>2, <2>3, GrantRecorded DEF IInv
<1>5. Exchanged'
  BY <1>0, <1>1 DEF IInv, Exchanged
<1>6. StoredTokenSpentOnlyByLoss' /\ ConnectedHasCredential'
  BY <1>0, <1>2 DEF StoredTokenSpentOnlyByLoss, ConnectedHasCredential, NoToken
<1> QED BY <1>3, <1>4, <1>5, <1>6 DEF IInv

(* A rotation: the successor is with the process, or lost.                 *)
LEMMA RotateStep ==
  ASSUME IInv, NEW p \in Procs, Rotate(p), NEW r \in TaskRecs(issued + 1),
         task' = [task EXCEPT ![p] = r],
         \/ /\ r.at = "granted" /\ r.token = task[p].token /\ r.next = issued + 1
            /\ UNCHANGED lost
         \/ r.at = "refused" /\ r.token = NoToken /\ lost' = lost \cup {task[p].token}
  PROVE  IInv'
<1> USE DEF accountVars, oauthVars, callVars
<1> DEFINE n == issued + 1
<1>0. /\ task[p].at = "asking" /\ task[p].token \in valid /\ issued < MaxTokens /\ issued' = n
      /\ valid' = (valid \ {task[p].token}) \cup {n}
      /\ UNCHANGED <<accountVars, due, oauthVars, held, callVars>>
  BY DEF Rotate
<1>1. /\ issued \in Nat /\ n \in Nat /\ issued <= n /\ n > issued /\ n \in 1..MaxTokens
      /\ task[p].token \in 1..issued
  BY <1>0, CredentialAssumption DEF IInv, TypeOK
<1>3. /\ task' \in [Procs -> TaskRecs(n)] /\ task'[p] = r
      /\ \A q \in Procs \ {p} : task'[q] = task[q]
  BY <1>1, TaskWrite DEF IInv
<1>4. TypeOK'
  <2>1. TypeOK
    BY DEF IInv
  <2>2. /\ callback' \in [Callbacks -> CallbackRecs(n)] /\ held' \in [Attempts -> 0..n]
        /\ stored' \in 0..n /\ due' \subseteq 1..n
        /\ valid \subseteq 1..n /\ lost \subseteq 1..n
    BY <1>0, <1>1, <2>1, Widen
  <2>3. valid' \subseteq 1..n /\ lost' \subseteq 1..n
    <3>1. valid' \subseteq 1..n
      <4>1. n \in 1..n
        BY <1>1
      <4> HIDE DEF n
      <4> QED BY <1>0, <2>2, <4>1
    <3>2. lost' \subseteq lost \cup {task[p].token}
      OBVIOUS
    <3>3. task[p].token \in 1..n
      BY <1>1
    <3> QED BY <2>2, <3>1, <3>2, <3>3
  <2>4. \A q \in Procs : task'[q].at \in {"asking", "granted"} => task'[q].token # NoToken
    BY <1>1, <1>3, <2>1 DEF TypeOK, NoToken
  <2> QED BY <1>0, <1>1, <1>3, <2>1, <2>2, <2>3, <2>4 DEF TypeOK, CallbackRecs, TaskRecs
<1>5. /\ Shown' \subseteq Shown \cup {NoToken} /\ NoToken \notin valid
      /\ n \notin Shown /\ n # NoToken /\ (\A t \in valid : t # n)
      /\ task[p].token \in Shown
  BY <1>0, <1>1, <1>3, Types DEF IInv, TypeOK, Shown, TaskRecs, NoToken
<1> HIDE DEF n
<1>6. Fresh'
  BY <1>0, <1>3, <1>5 DEF IInv, Fresh, n
<1>7. Distinct'
  BY <1>0, <1>3, <1>5 DEF IInv, Fresh, Distinct, n
<1>8. Exchanged' /\ ConnectedHasCredential'
  BY <1>0 DEF IInv, Exchanged, ConnectedHasCredential
<1>9. StoredTokenSpentOnlyByLoss'
  BY <1>0, <1>3 DEF IInv, StoredTokenSpentOnlyByLoss
<1> QED BY <1>4, <1>6, <1>7, <1>8, <1>9 DEF IInv

(* A refresh is granted: the stored token is spent and a new one is on its *)
(* way.                                                                    *)
LEMMA TokensGrantedStep == ASSUME IInv, NEW p \in Procs, TokensGranted(p)  PROVE IInv'
<1> DEFINE r == [task[p] EXCEPT !.at = "granted", !.next = issued + 1]
<1>1. r \in TaskRecs(issued + 1) /\ r.at = "granted" /\ r.token = task[p].token /\ r.next = issued + 1
  <2>1. task[p] \in TaskRecs(issued) /\ issued \in Nat
    BY Types DEF IInv
  <2>2. task[p] \in TaskRecs(issued + 1) /\ issued + 1 \in 0..(issued + 1)
    BY <2>1 DEF TaskRecs
  <2> QED BY <2>2 DEF TaskRecs
<1>2. Rotate(p) /\ task' = [task EXCEPT ![p] = r] /\ UNCHANGED lost
  BY DEF TokensGranted
<1> HIDE DEF r
<1> QED BY <1>1, <1>2, RotateStep

(* The platform grants a refresh and the answer never arrives.             *)
LEMMA AnswerLostStep == ASSUME IInv, NEW p \in Procs, AnswerLost(p)  PROVE IInv'
<1> DEFINE r == [NoTask EXCEPT !.at = "refused"]
<1>1. r \in TaskRecs(issued + 1) /\ r.at = "refused" /\ r.token = NoToken
  <2>1. issued + 1 \in Nat
    BY Types DEF IInv
  <2>2. NoTask \in TaskRecs(issued + 1) /\ NoTask.token = NoToken
    BY <2>1, Empty
  <2> QED BY <2>2 DEF TaskRecs
<1>2. Rotate(p) /\ task' = [task EXCEPT ![p] = r] /\ lost' = lost \cup {task[p].token}
  BY DEF AnswerLost
<1> HIDE DEF r
<1> QED BY <1>1, <1>2, RotateStep

(* A refresh writes the token it was granted over the one it read.         *)
LEMMA RecordGrantStep == ASSUME IInv, NEW p \in Procs, RecordGrant(p)  PROVE IInv'
<1> USE DEF oauthVars, callVars, platformVars, accountVars
<1>0. /\ task[p].at = "granted" /\ task' = [task EXCEPT ![p] = NoTask]
      /\ \/ /\ stored # NoToken /\ stored' = task[p].next
            /\ account' = [account EXCEPT !.status = "CONNECTED", !.timed = TRUE]
         \/ stored = NoToken /\ UNCHANGED accountVars
      /\ UNCHANGED <<due, oauthVars, held, callVars, platformVars>>
  BY DEF RecordGrant, RecordWith
<1>1. /\ task' \in [Procs -> TaskRecs(issued)] /\ task'[p] = NoTask
      /\ \A q \in Procs \ {p} : task'[q] = task[q]
      /\ NoTask.at = "idle" /\ NoTask.token = NoToken /\ issued \in Nat
  BY <1>0, TaskWrite, Types, Empty DEF IInv
<1>2. task[p].next \in valid /\ task[p].next \in 1..issued
  BY <1>0 DEF IInv, Fresh, TypeOK
<1>3. TypeOK'
  <2>1. /\ stored' \in 0..issued
        /\ account' \in [status : {"none", "DISCONNECTED", "CONNECTED", "REAUTH_REQUIRED", "LIMITED"},
                         paused : BOOLEAN, timed : BOOLEAN]
    <3>1. /\ stored \in 0..issued /\ issued \in Nat
          /\ account \in [status : {"none", "DISCONNECTED", "CONNECTED", "REAUTH_REQUIRED", "LIMITED"},
                           paused : BOOLEAN, timed : BOOLEAN]
      BY Types DEF IInv, TypeOK
    <3>2. CASE stored = NoToken /\ UNCHANGED accountVars
      BY <3>1, <3>2
    <3>3. CASE /\ stored' = task[p].next
               /\ account' = [account EXCEPT !.status = "CONNECTED", !.timed = TRUE]
      <4>1. stored' \in 0..issued
        BY <1>2, <3>1, <3>3
      <4>2. account' \in [status : {"none", "DISCONNECTED", "CONNECTED", "REAUTH_REQUIRED", "LIMITED"},
                          paused : BOOLEAN, timed : BOOLEAN]
        BY <3>1, <3>3
      <4> QED BY <4>1, <4>2
    <3> QED BY <1>0, <3>2, <3>3
  <2>2. \A q \in Procs : task'[q].at \in {"asking", "granted"} => task'[q].token # NoToken
    BY <1>1 DEF IInv, TypeOK
  <2> QED BY <1>0, <1>1, <2>1, <2>2 DEF IInv, TypeOK, TaskRecs
<1>4. Fresh' /\ Distinct'
  <2>1. \A d \in Callbacks : callback'[d].at = "granted" =>
          /\ callback[d].at = "granted" /\ callback'[d].token = callback[d].token
          /\ callback[d].token # task[p].next
    BY <1>0 DEF IInv, Distinct
  <2>2. \A q \in Procs : task'[q].at = "granted" =>
          task[q].at = "granted" /\ task'[q].next = task[q].next /\ task[q].next # task[p].next
    BY <1>0, <1>1 DEF IInv, Distinct
  <2>3. Shown' \subseteq Shown \cup {NoToken, task[p].next} /\ valid' = valid
    BY <1>0, <1>1 DEF Shown
  <2> QED BY <2>1, <2>2, <2>3, GrantRecorded DEF IInv
<1>5. Exchanged'
  BY <1>0 DEF IInv, Exchanged
<1>6. StoredTokenSpentOnlyByLoss' /\ ConnectedHasCredential'
  BY <1>0, <1>2 DEF IInv, TypeOK, StoredTokenSpentOnlyByLoss, ConnectedHasCredential, NoToken
<1> QED BY <1>3, <1>4, <1>5, <1>6 DEF IInv

(* A refresh that is lost takes its token with it.                         *)
LEMMA TaskLostStep == ASSUME IInv, NEW p \in Procs, TaskLost(p)  PROVE IInv'
<1> USE DEF oauthVars, callVars, accountVars
<1>0. /\ task[p].at # "idle" /\ task' = [task EXCEPT ![p] = NoTask]
      /\ lost' = IF task[p].at = "granted" THEN lost \cup {task[p].token} ELSE lost
      /\ UNCHANGED <<accountVars, due, oauthVars, held, callVars, issued, valid>>
  BY DEF TaskLost
<1>1. /\ task' \in [Procs -> TaskRecs(issued)] /\ task'[p] = NoTask
      /\ \A q \in Procs \ {p} : task'[q] = task[q]
      /\ NoTask.at = "idle" /\ NoTask.token = NoToken /\ issued \in Nat
  BY <1>0, TaskWrite, Types, Empty DEF IInv
<1>2. lost' \subseteq 1..issued /\ lost \subseteq lost'
  <2>1. lost \subseteq 1..issued /\ issued \in Nat
    BY Types DEF IInv, TypeOK
  <2>2. task[p].at = "granted" => task[p].token \in 1..issued
    BY Types DEF IInv, TypeOK, TaskRecs, NoToken
  <2> QED BY <1>0, <2>1, <2>2
<1>3. TypeOK'
  BY <1>0, <1>1, <1>2 DEF IInv, TypeOK, TaskRecs
<1>4. Fresh' /\ Distinct'
  <2>1. /\ \A d \in Callbacks : callback'[d].at = "granted" =>
             callback[d].at = "granted" /\ callback'[d].token = callback[d].token
        /\ \A q \in Procs : task'[q].at = "granted" =>
             task[q].at = "granted" /\ task'[q].next = task[q].next
        /\ Shown' \subseteq Shown \cup {NoToken} /\ valid' = valid
    BY <1>0, <1>1 DEF Shown
  <2> QED BY <2>1, GrantsKept DEF IInv
<1>5. Exchanged' /\ ConnectedHasCredential'
  BY <1>0 DEF IInv, Exchanged, ConnectedHasCredential
<1>6. StoredTokenSpentOnlyByLoss'
  BY <1>0, <1>1, <1>2 DEF IInv, StoredTokenSpentOnlyByLoss
<1> QED BY <1>3, <1>4, <1>5, <1>6 DEF IInv

-----------------------------------------------------------------------------
(* The other steps of tasks, callbacks and requests                        *)

(* The steps of a refresh that grant and store nothing.                    *)
LEMMA QuietTaskStep ==
  ASSUME IInv, NEW p \in Procs,
         \/ \E force \in BOOLEAN : Refresh(p, force)
         \/ ReadCredential(p)
         \/ RefreshRefused(p)
         \/ RecordRefusal(p)
  PROVE  IInv'
<1> USE DEF accountVars
<1>0. /\ issued \in Nat /\ stored \in 0..issued /\ held \in [Attempts -> 0..issued]
      /\ account \in [status : {"none", "DISCONNECTED", "CONNECTED", "REAUTH_REQUIRED", "LIMITED"},
                      paused : BOOLEAN, timed : BOOLEAN]
      /\ stored \in Shown
      /\ NoTask \in TaskRecs(issued) /\ NoTask.token = NoToken /\ NoTask.at = "idle"
  BY Types, Empty DEF IInv, TypeOK, Shown
<1>1. ASSUME NEW force \in BOOLEAN, Refresh(p, force) PROVE IInv'
  <2> DEFINE r == [NoTask EXCEPT !.at = "reading", !.force = force]
  <2>1. r \in TaskRecs(issued) /\ r.at = "reading" /\ r.token = NoToken
    BY <1>0 DEF TaskRecs
  <2>2. /\ task' = [task EXCEPT ![p] = r] /\ task[p].at = "idle"
        /\ UNCHANGED <<accountVars, due, oauthVars, held, callVars, platformVars>>
    BY <1>1 DEF Refresh
  <2> HIDE DEF r
  <2> QED BY <1>0, <2>1, <2>2, TaskMoves
<1>2. CASE ReadCredential(p)
  <2> DEFINE r == IF stored = NoToken \/ (~task[p].force /\ account.timed /\ stored \notin due)
                    THEN NoTask ELSE [NoTask EXCEPT !.at = "asking", !.token = stored]
  <2>1. /\ r \in TaskRecs(issued) /\ r.at # "granted" /\ r.token \in {stored, NoToken}
        /\ r.at = "asking" => r.token # NoToken
    BY <1>0 DEF TaskRecs
  <2>2. /\ task' = [task EXCEPT ![p] = r] /\ task[p].at = "reading"
        /\ UNCHANGED <<accountVars, due, oauthVars, held, callVars, platformVars>>
    BY <1>2 DEF ReadCredential
  <2> HIDE DEF r
  <2>3. /\ \A m \in Attempts : held'[m] \in {held[m], NoToken}
        /\ account' = account /\ held' = held /\ stored' = stored
        /\ r.token \in Shown \cup {NoToken} /\ task[p].at # "granted"
    BY <1>0, <2>1, <2>2
  <2> QED BY <1>0, <2>1, <2>2, <2>3, TaskMoves
<1>3. CASE RefreshRefused(p)
  <2> DEFINE r == [NoTask EXCEPT !.at = "refused"]
  <2>1. r \in TaskRecs(issued) /\ r.at = "refused" /\ r.token = NoToken
    BY <1>0 DEF TaskRecs
  <2>2. /\ task' = [task EXCEPT ![p] = r] /\ task[p].at = "asking"
        /\ UNCHANGED <<accountVars, due, oauthVars, held, callVars, platformVars>>
    BY <1>3 DEF RefreshRefused
  <2> HIDE DEF r
  <2> QED BY <1>0, <2>1, <2>2, TaskMoves
<1>4. CASE RecordRefusal(p)
  <2>1. /\ task' = [task EXCEPT ![p] = NoTask] /\ task[p].at = "refused"
        /\ account' = [account EXCEPT !.status = "REAUTH_REQUIRED"]
        /\ UNCHANGED <<stored, due, oauthVars, held, callVars, platformVars>>
    BY <1>4 DEF RecordRefusal
  <2>2. /\ account' \in [status : {"none", "DISCONNECTED", "CONNECTED", "REAUTH_REQUIRED", "LIMITED"},
                         paused : BOOLEAN, timed : BOOLEAN]
        /\ account'.status = "REAUTH_REQUIRED"
    BY <1>0, <2>1
  <2> QED BY <1>0, <2>1, <2>2, TaskMoves
<1> QED BY <1>1, <1>2, <1>3, <1>4

(* A send uses the credential it read, and refreshes it when it is due.    *)
LEMMA AccessTokenStep == ASSUME IInv, NEW m \in Attempts, AccessTokenFor(m)  PROVE IInv'
<1> USE DEF accountVars, oauthVars, callVars, platformVars
<1>0. /\ issued \in Nat /\ held \in [Attempts -> 0..issued] /\ held[m] # NoToken
      /\ held' = [held EXCEPT ![m] = NoToken]
      /\ UNCHANGED <<accountVars, due, oauthVars, callVars, platformVars>>
      /\ held[m] \in Shown /\ Worker \in Procs
      /\ NoTask \in TaskRecs(issued) /\ NoTask.at = "idle"
  BY Types, Empty DEF AccessTokenFor, IInv, TypeOK, Shown, Procs
<1>1. /\ held' \in [Attempts -> 0..issued]
      /\ \A a \in Attempts : held'[a] \in {held[a], NoToken}
  BY <1>0 DEF NoToken
<1>2. CASE task' = task
  <2>1. TypeOK'
    BY <1>0, <1>1, <1>2 DEF IInv, TypeOK
  <2>2. Shown' \subseteq Shown \cup {NoToken}
    BY <1>0, <1>1, <1>2 DEF Shown
  <2>3. Fresh' /\ Distinct'
    <3>1. /\ \A d \in Callbacks : callback'[d].at = "granted" =>
               callback[d].at = "granted" /\ callback'[d].token = callback[d].token
          /\ \A q \in Procs : task'[q].at = "granted" =>
               task[q].at = "granted" /\ task'[q].next = task[q].next
          /\ valid' = valid
      BY <1>0, <1>2
    <3> QED BY <2>2, <3>1, GrantsKept DEF IInv
  <2>4. Exchanged' /\ StoredTokenSpentOnlyByLoss' /\ ConnectedHasCredential'
    BY <1>0, <1>2 DEF IInv, Exchanged, StoredTokenSpentOnlyByLoss, ConnectedHasCredential
  <2> QED BY <2>1, <2>3, <2>4 DEF IInv
<1>3. CASE held[m] \in due /\ task[Worker].at = "idle"
  <2> DEFINE r == [NoTask EXCEPT !.at = "asking", !.token = held[m]]
  <2>1. r \in TaskRecs(issued) /\ r.at = "asking" /\ r.token = held[m]
    BY <1>0 DEF TaskRecs
  <2>2. task' = [task EXCEPT ![Worker] = r]
    BY <1>3 DEF AccessTokenFor
  <2>3. account \in [status : {"none", "DISCONNECTED", "CONNECTED", "REAUTH_REQUIRED", "LIMITED"},
                     paused : BOOLEAN, timed : BOOLEAN]
    BY DEF IInv, TypeOK
  <2> HIDE DEF r
  <2> QED BY <1>0, <1>1, <1>3, <2>1, <2>2, <2>3, TaskMoves
<1> QED BY <1>2, <1>3 DEF AccessTokenFor

(* A send reads the account with its credential.                           *)
LEMMA ReadSnapshotStep == ASSUME IInv, NEW m \in Attempts, ReadSnapshot(m)  PROVE IInv'
<1> USE DEF accountVars, oauthVars, callVars, platformVars
<1>0. /\ held' = [held EXCEPT ![m] = stored]
      /\ UNCHANGED <<accountVars, due, oauthVars, task, callVars, platformVars>>
  BY DEF ReadSnapshot
<1>1. TypeOK'
  BY <1>0 DEF IInv, TypeOK
<1>2. Shown' \subseteq Shown \cup {NoToken}
  BY <1>0 DEF Shown, IInv, TypeOK
<1>3. Fresh' /\ Distinct'
  <2>1. /\ \A d \in Callbacks : callback'[d].at = "granted" =>
             callback[d].at = "granted" /\ callback'[d].token = callback[d].token
        /\ \A q \in Procs : task'[q].at = "granted" =>
             task[q].at = "granted" /\ task'[q].next = task[q].next
        /\ valid' = valid
    BY <1>0
  <2> QED BY <1>2, <2>1, GrantsKept DEF IInv
<1>4. Exchanged' /\ StoredTokenSpentOnlyByLoss' /\ ConnectedHasCredential'
  BY <1>0 DEF IInv, Exchanged, StoredTokenSpentOnlyByLoss, ConnectedHasCredential
<1> QED BY <1>1, <1>3, <1>4 DEF IInv

(* The steps of a callback that grant and store nothing.                   *)
LEMMA QuietCallbackStep ==
  ASSUME IInv, NEW b \in Callbacks,
         \/ \E s \in States : ReadState(b, s)
         \/ ClaimState(b)
         \/ CallbackFails(b)
  PROVE  IInv'
<1>0. /\ issued \in Nat /\ NoCallback \in CallbackRecs(issued) /\ NoCallback.at = "idle"
      /\ oauth \in [States -> {"none", "open", "closed"}] /\ exchanges \in [States -> Nat]
  BY Types, Empty DEF IInv, TypeOK
<1>1. ASSUME NEW s \in States, ReadState(b, s) PROVE IInv'
  <2> DEFINE r == [NoCallback EXCEPT !.at = "read", !.state = s]
  <2>1. r \in CallbackRecs(issued) /\ r.at = "read" /\ r.state = s
    BY <1>0 DEF CallbackRecs
  <2>2. /\ callback' = [callback EXCEPT ![b] = r]
        /\ UNCHANGED <<accountVars, due, oauth, exchanges, task, held, callVars, platformVars>>
    BY <1>1 DEF ReadState
  <2> HIDE DEF r
  <2> QED BY <1>0, <2>1, <2>2, CallbackMoves DEF IInv, Exchanged
<1>2. CASE ClaimState(b)
  <2> DEFINE open == oauth[callback[b].state] = "open"
             r == IF open THEN [NoCallback EXCEPT !.at = "claimed"] ELSE NoCallback
  <2>1. r \in CallbackRecs(issued) /\ r.at # "granted" /\ r.at # "read"
    BY <1>0 DEF CallbackRecs
  <2>2. /\ callback' = [callback EXCEPT ![b] = r] /\ callback[b].at = "read"
        /\ oauth' = [oauth EXCEPT ![callback[b].state] = "closed"]
        /\ exchanges' = IF open THEN [exchanges EXCEPT ![callback[b].state] = @ + 1] ELSE exchanges
        /\ UNCHANGED <<accountVars, due, task, held, callVars, platformVars>>
    BY <1>2 DEF ClaimState, ClaimIf
  <2>3. callback[b].state \in States
    BY <2>2 DEF IInv, Exchanged
  <2>4. /\ oauth' \in [States -> {"none", "open", "closed"}] /\ exchanges' \in [States -> Nat]
        /\ \A s \in States : exchanges'[s] <= 1 /\ (oauth'[s] # "closed" => exchanges'[s] = 0)
    <3>1. oauth' \in [States -> {"none", "open", "closed"}]
      BY <1>0, <2>2, <2>3
    <3>2. CASE open
      BY <1>0, <2>2, <2>3, <3>1, <3>2 DEF IInv, Exchanged
    <3>3. CASE ~open
      BY <1>0, <2>2, <2>3, <3>1, <3>3 DEF IInv, Exchanged
    <3> QED BY <3>1, <3>2, <3>3
  <2> HIDE DEF r, open
  <2> QED BY <2>1, <2>2, <2>4, CallbackMoves
<1>3. CASE CallbackFails(b)
  <2>1. /\ callback' = [callback EXCEPT ![b] = NoCallback]
        /\ UNCHANGED <<accountVars, due, oauth, exchanges, task, held, callVars, platformVars>>
    BY <1>3 DEF CallbackFails, StateRefused, CodeRefused, AccountInfoFails, GiveUp, oauthVars
  <2> QED BY <1>0, <2>1, CallbackMoves DEF IInv, Exchanged
<1> QED BY <1>1, <1>2, <1>3

(* Requests of users, the clock, and stuttering.                           *)
LEMMA RequestStep ==
  ASSUME IInv,
         \/ \E s \in States : Begin(s) \/ StateExpires(s)
         \/ \E t \in Tokens : TokenDue(t)
         \/ CreateAccount \/ DeleteCredential \/ Disconnect \/ DisconnectBreaksOff
         \/ PauseAccount \/ ReadForResume \/ ResumeAccount
         \/ UNCHANGED vars
  PROVE  IInv'
<1> USE DEF accountVars, oauthVars, callVars, platformVars
<1>0. /\ TypeOK /\ issued \in Nat /\ stored \in 0..issued
      /\ account \in [status : {"none", "DISCONNECTED", "CONNECTED", "REAUTH_REQUIRED", "LIMITED"},
                      paused : BOOLEAN, timed : BOOLEAN]
      /\ ConnectedHasCredential
  BY Types DEF IInv, TypeOK
<1>1. ASSUME NEW s \in States, Begin(s) \/ StateExpires(s) PROVE IInv'
  <2>1. TypeOK' /\ ConnectedHasCredential'
    BY <1>0, <1>1 DEF Begin, StateExpires, TypeOK, ConnectedHasCredential
  <2>2. \A u \in States : oauth'[u] # "closed" => oauth[u] # "closed"
    BY <1>0, <1>1 DEF Begin, StateExpires, TypeOK
  <2> QED BY <1>1, <2>1, <2>2, AccountMoves DEF Begin, StateExpires
<1>2. ASSUME NEW t \in Tokens, TokenDue(t) PROVE IInv'
  <2>1. due' \subseteq 1..issued
    BY <1>0, <1>2 DEF TokenDue, TypeOK, NoToken
  <2>2. TypeOK' /\ ConnectedHasCredential'
    BY <1>0, <1>2, <2>1 DEF TokenDue, TypeOK, ConnectedHasCredential
  <2> QED BY <1>2, <2>2, AccountMoves DEF TokenDue
<1>3. CASE CreateAccount \/ PauseAccount
  <2>1. /\ account'.status # "CONNECTED"
        /\ account' \in [status : {"none", "DISCONNECTED", "CONNECTED", "REAUTH_REQUIRED", "LIMITED"},
                         paused : BOOLEAN, timed : BOOLEAN]
    BY <1>0, <1>3 DEF CreateAccount, PauseAccount
  <2>2. TypeOK' /\ ConnectedHasCredential'
    BY <1>0, <1>3, <2>1 DEF CreateAccount, PauseAccount, TypeOK, ConnectedHasCredential
  <2> QED BY <1>3, <2>2, AccountMoves DEF CreateAccount, PauseAccount
<1>4. CASE DeleteCredential
  <2>1. TypeOK' /\ ConnectedHasCredential'
    BY <1>0, <1>4 DEF DeleteCredential, TypeOK, ConnectedHasCredential, NoToken
  <2> QED BY <1>4, <2>1, AccountMoves DEF DeleteCredential
<1>5. CASE Disconnect
  <2>1. /\ account'.status = "DISCONNECTED"
        /\ account' \in [status : {"none", "DISCONNECTED", "CONNECTED", "REAUTH_REQUIRED", "LIMITED"},
                         paused : BOOLEAN, timed : BOOLEAN]
    BY <1>0, <1>5 DEF Disconnect
  <2>2. TypeOK' /\ ConnectedHasCredential'
    BY <1>0, <1>5, <2>1 DEF Disconnect, TypeOK, ConnectedHasCredential
  <2> QED BY <1>5, <2>2, AccountMoves DEF Disconnect
<1>6. CASE DisconnectBreaksOff
  <2>1. TypeOK' /\ ConnectedHasCredential'
    BY <1>0, <1>6 DEF DisconnectBreaksOff, TypeOK, ConnectedHasCredential
  <2> QED BY <1>6, <2>1, AccountMoves DEF DisconnectBreaksOff
<1>7. CASE ReadForResume
  <2>1. TypeOK' /\ ConnectedHasCredential'
    BY <1>0, <1>7 DEF ReadForResume, TypeOK, ConnectedHasCredential
  <2> QED BY <1>7, <2>1, AccountMoves DEF ReadForResume
<1>8. CASE ResumeAccount
  <2>1. /\ account' \in [status : {"none", "DISCONNECTED", "CONNECTED", "REAUTH_REQUIRED", "LIMITED"},
                         paused : BOOLEAN, timed : BOOLEAN]
        /\ account'.status = "CONNECTED" => resuming = "with"
    BY <1>0, <1>8 DEF ResumeAccount
  <2>2. torn' = (torn \/ (resuming = "with" /\ stored = NoToken)) /\ resuming' = "no"
        /\ UNCHANGED <<stored, due, oauthVars, task, held, disconnecting, platformVars>>
    BY <1>8 DEF ResumeAccount
  <2>3. torn' \in BOOLEAN
    BY <1>0, <2>2 DEF TypeOK
  <2>4. TypeOK'
    BY <1>0, <2>1, <2>2, <2>3 DEF TypeOK
  <2>5. ConnectedHasCredential'
    BY <2>1, <2>2 DEF ConnectedHasCredential
  <2> QED BY <2>2, <2>4, <2>5, AccountMoves
<1>9. CASE UNCHANGED vars
  <2>1. TypeOK' /\ ConnectedHasCredential'
    BY <1>0, <1>9 DEF vars, TypeOK, ConnectedHasCredential
  <2> QED BY <1>9, <2>1, AccountMoves DEF vars
<1> QED BY <1>1, <1>2, <1>3, <1>4, <1>5, <1>6, <1>7, <1>8, <1>9

-----------------------------------------------------------------------------

(* Initially there is no account, no grant and no request.                 *)
LEMMA InitIInv == Init => IInv
<1> SUFFICES ASSUME Init PROVE IInv
  OBVIOUS
<1>1. /\ NoTask \in TaskRecs(0) /\ NoCallback \in CallbackRecs(0)
      /\ NoTask.at = "idle" /\ NoTask.token = NoToken /\ NoCallback.at = "idle"
  BY Empty
<1>2. /\ \A b \in Callbacks : callback[b] = NoCallback
      /\ \A p \in Procs : task[p] = NoTask
  BY DEF Init
<1>3. TypeOK
  <2>1. /\ issued = 0 /\ issued \in 0..MaxTokens /\ stored \in 0..0
        /\ held \in [Attempts -> 0..0]
    BY CredentialAssumption DEF Init, NoToken
  <2>2. /\ task \in [Procs -> TaskRecs(0)] /\ callback \in [Callbacks -> CallbackRecs(0)]
        /\ \A p \in Procs : task[p].at \notin {"asking", "granted"}
    BY <1>1, <1>2 DEF Init
  <2>3. /\ valid = {} /\ due = {} /\ lost = {}
        /\ oauth \in [States -> {"none", "open", "closed"}] /\ exchanges \in [States -> Nat]
        /\ disconnecting \in BOOLEAN /\ torn \in BOOLEAN /\ resuming = "no"
    BY DEF Init
  <2>4. account \in [status : {"none", "DISCONNECTED", "CONNECTED", "REAUTH_REQUIRED", "LIMITED"},
                     paused : BOOLEAN, timed : BOOLEAN]
    BY DEF Init
  <2> QED BY <2>1, <2>2, <2>3, <2>4 DEF TypeOK, TaskRecs, CallbackRecs
<1>4. Fresh /\ Distinct
  BY <1>1, <1>2 DEF Fresh, Distinct
<1>5. Exchanged
  BY <1>1, <1>2 DEF Init, Exchanged
<1>6. StoredTokenSpentOnlyByLoss /\ ConnectedHasCredential
  BY DEF Init, StoredTokenSpentOnlyByLoss, ConnectedHasCredential
<1> QED BY <1>3, <1>4, <1>5, <1>6 DEF IInv

(* Every step preserves the inductive invariant.                           *)
LEMMA NextIInv == IInv /\ [Next]_vars => IInv'
<1> SUFFICES ASSUME IInv, [Next]_vars PROVE IInv'
  OBVIOUS
<1>1. ASSUME NEW b \in Callbacks, CallbackStep(b) PROVE IInv'
  BY <1>1, QuietCallbackStep, CodeGrantedStep, SaveStep DEF CallbackStep
<1>2. ASSUME NEW p \in Procs, TaskStep(p) PROVE IInv'
  BY <1>2, QuietTaskStep, TokensGrantedStep, AnswerLostStep, RecordGrantStep, TaskLostStep
     DEF TaskStep
<1>3. ASSUME NEW m \in Attempts, ReadSnapshot(m) \/ AccessTokenFor(m) PROVE IInv'
  BY <1>3, ReadSnapshotStep, AccessTokenStep
<1>4. CASE \/ \E s \in States : Begin(s) \/ StateExpires(s)
           \/ \E t \in Tokens : TokenDue(t)
           \/ CreateAccount \/ DeleteCredential \/ Disconnect \/ DisconnectBreaksOff
           \/ PauseAccount \/ ReadForResume \/ ResumeAccount
           \/ UNCHANGED vars
  BY <1>4, RequestStep
<1> QED BY <1>1, <1>2, <1>3, <1>4 DEF Next

(* IInv is an invariant: the basis of the theorems below.                  *)
LEMMA SpecIInv == Spec => []IInv
  BY InitIInv, NextIInv, PTL DEF Spec

(* Account, credential, OAuth states and refreshes stay in their types, and*)
(* no refresh is sent without a refresh token.                             *)
THEOREM SpecTypeOK == Spec => []TypeOK
<1>1. IInv => TypeOK
  BY DEF IInv
<1> QED BY <1>1, SpecIInv, PTL

(* complete: one OAuth state leads to one code exchange, whatever number of*)
(* callbacks read it.                                                      *)
THEOREM SpecOAuthStateUsedOnce == Spec => []OAuthStateUsedOnce
<1>1. IInv => OAuthStateUsedOnce
  BY DEF IInv, Exchanged, OAuthStateUsedOnce
<1> QED BY <1>1, SpecIInv, PTL

(* doRefresh, accessTokenFor, saveConnectedAccount: a spent refresh token  *)
(* is in the database only while its successor is in flight or was lost.   *)
THEOREM SpecStoredToken == Spec => []StoredTokenSpentOnlyByLoss
<1>1. IInv => StoredTokenSpentOnlyByLoss
  BY DEF IInv
<1> QED BY <1>1, SpecIInv, PTL

(* disconnect, setAccountPaused, refreshes: a connected account has a      *)
(* credential unless a disconnect was cut or overtaken.                    *)
THEOREM SpecConnected == Spec => []ConnectedHasCredential
<1>1. IInv => ConnectedHasCredential
  BY DEF IInv
<1> QED BY <1>1, SpecIInv, PTL

(* A deleted credential comes back through an OAuth connection alone.      *)
THEOREM SpecRefreshNeverReconnects == Spec => RefreshNeverReconnects
<1>1. IInv /\ [Next]_vars =>
        [(stored = NoToken /\ stored' # NoToken) =>
            \E b \in Callbacks : callback[b].at = "granted" /\ callback[b].token = stored']_vars
  <2> SUFFICES ASSUME Next, stored = NoToken, stored' # NoToken
               PROVE  \E b \in Callbacks : callback[b].at = "granted" /\ callback[b].token = stored'
    OBVIOUS
  <2>1. \E b \in Callbacks : SaveConnectedAccount(b)
    BY DEF Next, CallbackStep, TaskStep, Begin, StateExpires, ReadState, ClaimState, ClaimIf,
       CodeGranted, CallbackFails, StateRefused, CodeRefused, AccountInfoFails, GiveUp, CreateAccount, TokenDue, Refresh, ReadCredential,
       ReadSnapshot, AccessTokenFor, Rotate, TokensGranted, AnswerLost, RefreshRefused,
       RecordRefusal, RecordGrant, RecordWith, TaskLost, DeleteCredential, Disconnect,
       DisconnectBreaksOff, PauseAccount, ReadForResume, ResumeAccount, accountVars
  <2> QED BY <2>1 DEF SaveConnectedAccount
<1> QED BY <1>1, SpecIInv, PTL DEF Spec, RefreshNeverReconnects

=============================================================================
