------------------------- MODULE WebhookIntake_proofs -------------------------
(***************************************************************************)
(* WebhookIntake: types, what COMPLETED means, the opt-out of a contact,   *)
(* second rows of a message, and what follows a message.  IInv is          *)
(* inductive.  Most of it is about one key at a time (KeyInv): which event *)
(* an attempt works on, which status the row has at which await, what has  *)
(* been written once an attempt gets to marking the event, and how far its *)
(* message has come at which await.                                        *)
(***************************************************************************)
EXTENDS WebhookIntake, TLAPS

-----------------------------------------------------------------------------
(* The operators of BullQueue                                              *)

(* Every operator takes a job to a job; only an attempt that may still be  *)
(* made can be counted.                                                    *)
LEMMA JobOperators ==
  ASSUME NEW j \in Jobs
  PROVE  /\ Added(j) \in Jobs /\ Taken(j) \in Jobs /\ Deferred(j) \in Jobs /\ Promoted(j) \in Jobs
         /\ Completed(j) \in Jobs /\ Completed(Taken(j)) \in Jobs
         /\ Stalled(j) \in Jobs
         /\ j.attempts < MaxAttempts => Thrown(j) \in Jobs
<1>1. /\ j.stalls < MaxStalls => j.stalls + 1 \in 0..MaxStalls
      /\ j.attempts < MaxAttempts => j.attempts + 1 \in 0..MaxAttempts
  BY QueueAssumption DEF Jobs
<1> QED
  BY <1>1 DEF Jobs, JobStates, Added, Taken, Deferred, Promoted, Completed, Stalled, Thrown

(* A thrown attempt fails the job exactly when it was the last one.        *)
LEMMA ThrownAttempts ==
  ASSUME NEW j \in Jobs, j.attempts < MaxAttempts
  PROVE  /\ Thrown(j).attempts = j.attempts + 1
         /\ LastAttempt(j) => Thrown(j).state = "failed" /\ Thrown(j).attempts = MaxAttempts
         /\ ~LastAttempt(j) => Thrown(j).state = "delayed" /\ Thrown(j).attempts < MaxAttempts
BY QueueAssumption DEF Jobs, Thrown, LastAttempt

-----------------------------------------------------------------------------
(* The inductive invariant                                                 *)

Steps == Awaits \cup {"idle", "failed"}
CallRecords == [at : {"idle"}, event : {NoEvent}]
               \cup [at : {"checked", "stored"}, event : Events]

(* A delivery that stored its event finds it stored.                       *)
StoredCalls == \A c \in Calls :
    call[c].at = "stored" => accepted[KeyOf[call[c].event]] # NoEvent

(* An attempt that found a suppression entry relies on it.                 *)
EntryFound == \A k \in Keys : at[k] = "relist" => entries > 0 \/ removed

ContactInv == EntryFound /\ OptOutSurvivesEvents

QueuedIsStored(k) == (job[k].state # "none" \/ at[k] # "idle") => accepted[k] # NoEvent

AttemptOfJob(k) ==
    /\ at[k] \in Awaits => job[k].state = "active"
    /\ at[k] \in Awaits \ {"done"} => row[k] = "RUNNING"
    /\ at[k] = "done" => row[k] = "COMPLETED"
    /\ job[k].state \in {"none", "waiting", "active", "delayed"} => job[k].attempts < MaxAttempts

AwaitOfKind(k) ==
    /\ at[k] \in {"find", "list", "relist"} => Kind(k) = "optout"
    /\ at[k] \in {"look", "create", "log", "notify"} => Kind(k) \in Sends
    /\ at[k] = "notify" => Inbound(k)

Done(k) ==
    /\ Kind(k) \in Sends => message[k] # "none" \/ ownRow[k] = "recorded"
    /\ Kind(k) = "optout" => k \in applied
EffectBeforeMark(k) ==
    /\ at[k] = "complete" \/ row[k] = "COMPLETED" => Done(k)
    /\ at[k] \in {"log", "notify"} => message[k] # "none"

SecondRow(k) ==
    (message[k] # "none" \/ at[k] = "create") /\ ownRow[k] # "none" => k \in overtook

(* Outside of "log" and "notify" a message lacks nothing, unless an        *)
(* attempt broke off there.                                                *)
Followed(k) == message[k] = IF Inbound(k) THEN "notified" ELSE "event"
FollowUp(k) ==
    /\ accepted[k] = NoEvent \/ at[k] = "create" => message[k] = "none"
    /\ at[k] = "log" => message[k] = "row"
    /\ at[k] = "notify" => message[k] = "event"
    /\ k \notin cut /\ at[k] \notin {"log", "notify"} => message[k] = "none" \/ Followed(k)
    /\ notices[k] = IF message[k] = "notified" THEN 1 ELSE 0

KeyInv(k) ==
    /\ QueuedIsStored(k)
    /\ AttemptOfJob(k)
    /\ AwaitOfKind(k)
    /\ EffectBeforeMark(k)
    /\ SecondRow(k)
    /\ FollowUp(k)

IInv ==
    /\ TypeOK
    /\ StoredCalls
    /\ ContactInv
    /\ \A k \in Keys : KeyInv(k)

(* An event has a key and a kind, and is not the absence of one.           *)
LEMMA KeyOfEvent ==
  ASSUME NEW e \in Events
  PROVE  KeyOf[e] \in Keys /\ KindOf[e] \in Kinds /\ e # NoEvent
BY WebhookAssumption DEF Keys

(* Initially nothing has been delivered.                                   *)
LEMMA InitIInv == Init => IInv
<1> SUFFICES ASSUME Init PROVE IInv
  OBVIOUS
<1>1. /\ \A c \in Calls : call[c] = Idle
      /\ \A k \in Keys : /\ accepted[k] = NoEvent /\ row[k] = "NONE" /\ job[k] = NoJob
                         /\ at[k] = "idle" /\ message[k] = "none" /\ notices[k] = 0
      /\ applied = {} /\ entries = 0 /\ lifted = FALSE /\ removed = FALSE /\ cut = {}
  BY DEF Init
<1>2. NoJob \in Jobs /\ NoJob.state = "none" /\ NoJob.attempts < MaxAttempts
  BY QueueAssumption DEF NoJob, Jobs, JobStates
<1>4. TypeOK
  <2>1. call \in [Calls -> CallRecords] /\ Idle.at = "idle"
    BY DEF Init, Idle, CallRecords
  <2>2. accepted \in [Keys -> Events \cup {NoEvent}] /\ row \in [Keys -> Statuses]
    BY DEF Init, Statuses
  <2>3. job \in [Keys -> Jobs]
    BY <1>2 DEF Init
  <2>4. /\ at \in [Keys -> Awaits \cup {"idle", "failed"}]
        /\ message \in [Keys -> FollowUps]
        /\ ownRow \in [Keys -> {"none", "sending", "recorded"}]
    BY DEF Init, FollowUps
  <2>5. entries \in Nat /\ notices \in [Keys -> Nat]
    BY DEF Init
  <2> QED BY <1>1, <2>1, <2>2, <2>3, <2>4, <2>5 DEF Init, TypeOK, CallRecords
<1>5. StoredCalls
  BY <1>1 DEF StoredCalls, Idle
<1>6. ContactInv
  BY <1>1, <1>4 DEF ContactInv, EntryFound, OptOutSurvivesEvents, TypeOK
<1>7. ASSUME NEW k \in Keys PROVE KeyInv(k)
  <2>1. QueuedIsStored(k) /\ AttemptOfJob(k) /\ AwaitOfKind(k)
    BY <1>1, <1>2 DEF QueuedIsStored, AttemptOfJob, AwaitOfKind, Awaits
  <2>2. EffectBeforeMark(k) /\ SecondRow(k)
    BY <1>1 DEF EffectBeforeMark, SecondRow
  <2>3. FollowUp(k)
    BY <1>1 DEF FollowUp
  <2> QED BY <2>1, <2>2, <2>3 DEF KeyInv
<1> QED BY <1>4, <1>5, <1>6, <1>7 DEF IInv

-----------------------------------------------------------------------------
(* What a step about one key leaves alone                                  *)

(* What is known of a key outlives every step that leaves its variables    *)
(* alone.                                                                  *)
LEMMA OtherKeysKeep ==
  ASSUME NEW i \in Keys, KeyInv(i),
         UNCHANGED <<accepted[i], row[i], job[i], at[i], ownRow[i], message[i], notices[i]>>,
         i \in cut <=> i \in cut', i \in overtook => i \in overtook',
         i \in applied => i \in applied'
  PROVE  KeyInv(i)'
<1>1. (Kind(i)' = Kind(i)) /\ (Inbound(i)' <=> Inbound(i))
  BY DEF Kind, Inbound
<1>2. QueuedIsStored(i)' /\ AttemptOfJob(i)' /\ AwaitOfKind(i)'
  BY <1>1 DEF KeyInv, QueuedIsStored, AttemptOfJob, AwaitOfKind
<1>3. EffectBeforeMark(i)' /\ SecondRow(i)'
  BY <1>1 DEF KeyInv, EffectBeforeMark, SecondRow, Done
<1>4. FollowUp(i)'
  BY <1>1 DEF KeyInv, FollowUp, Followed
<1> QED BY <1>2, <1>3, <1>4 DEF KeyInv

(* A step about one key has to show what the invariant says of that key.   *)
LEMMA KeyStep ==
  ASSUME IInv, NEW k \in Keys, TypeOK', StoredCalls', ContactInv',
         \A i \in Keys \ {k} :
             /\ UNCHANGED <<accepted[i], row[i], job[i], at[i], ownRow[i], message[i], notices[i]>>
             /\ i \in cut <=> i \in cut'
             /\ i \in overtook => i \in overtook'
             /\ i \in applied => i \in applied',
         KeyInv(k)'
  PROVE  IInv'
<1>1. ASSUME NEW i \in Keys PROVE KeyInv(i)'
  <2>1. CASE i = k
    BY <2>1
  <2>2. CASE i # k
    BY <2>2, OtherKeysKeep DEF IInv
  <2> QED BY <2>1, <2>2
<1> QED BY <1>1 DEF IInv

(* A step that leaves the contact alone and looks for no entry.            *)
LEMMA ContactStands ==
  ASSUME IInv, NEW k \in Keys, UNCHANGED contactVars,
         \A i \in Keys \ {k} : at'[i] = at[i],
         at'[k] \notin {"list", "relist"} \/ at'[k] = at[k]
  PROVE  ContactInv'
BY DEF IInv, ContactInv, contactVars, EntryFound, OptOutSurvivesEvents

(* The variables that a step about a key writes, at this key and others.   *)
LEMMA AtKey ==
  ASSUME IInv, NEW k \in Keys
  PROVE  /\ \A step \in Steps : Goto(k, step) =>
               /\ at' \in [Keys -> Steps] /\ at'[k] = step
               /\ \A i \in Keys \ {k} : at'[i] = at[i]
         /\ \A s \in Statuses : row' = [row EXCEPT ![k] = s] =>
               /\ row' \in [Keys -> Statuses] /\ row'[k] = s
               /\ \A i \in Keys \ {k} : row'[i] = row[i]
         /\ \A j \in Jobs : job' = [job EXCEPT ![k] = j] =>
               /\ job' \in [Keys -> Jobs] /\ job'[k] = j
               /\ \A i \in Keys \ {k} : job'[i] = job[i]
         /\ \A m \in FollowUps : message' = [message EXCEPT ![k] = m] =>
               /\ message' \in [Keys -> FollowUps] /\ message'[k] = m
               /\ \A i \in Keys \ {k} : message'[i] = message[i]
<1>1. at \in [Keys -> Steps] /\ row \in [Keys -> Statuses]
      /\ job \in [Keys -> Jobs] /\ message \in [Keys -> FollowUps]
  BY DEF IInv, TypeOK, Steps
<1> QED BY <1>1 DEF Goto

(* A step of the worker or of BullMQ about the event of one key.           *)
LEMMA AttemptStep ==
  ASSUME IInv, NEW k \in Keys, accepted[k] # NoEvent, UNCHANGED <<callVars, ownRow>>,
         at' \in [Keys -> Steps], row' \in [Keys -> Statuses], row'[k] # "NONE",
         job' \in [Keys -> Jobs], message' \in [Keys -> FollowUps],
         notices' \in [Keys -> Nat], cut' \subseteq Keys,
         \A i \in Keys \ {k} : /\ UNCHANGED <<at[i], row[i], job[i], message[i], notices[i]>>
                               /\ i \in cut <=> i \in cut',
         overtook \subseteq overtook', overtook' \subseteq Keys, abandoned' \subseteq Keys,
         contact' \in {"none", "known", "out"}, lifted' \in BOOLEAN,
         entries' \in Nat, removed' \in BOOLEAN,
         applied \subseteq applied', applied' \subseteq Keys, ContactInv',
         AttemptOfJob(k)', AwaitOfKind(k)', EffectBeforeMark(k)', SecondRow(k)',
         FollowUp(k)'
  PROVE  IInv'
<1> USE DEF callVars
<1>2. \A i \in Keys : row'[i] = "NONE" <=> row[i] = "NONE"
  BY DEF IInv, TypeOK
<1>3. TypeOK'
  BY <1>2 DEF IInv, TypeOK, Steps
<1>4. StoredCalls'
  BY DEF IInv, StoredCalls
<1>5. KeyInv(k)'
  BY DEF KeyInv, QueuedIsStored
<1>6. \A i \in Keys \ {k} :
             /\ UNCHANGED <<accepted[i], row[i], job[i], at[i], ownRow[i], message[i], notices[i]>>
             /\ i \in cut <=> i \in cut'
             /\ i \in overtook => i \in overtook'
             /\ i \in applied => i \in applied'
  OBVIOUS
<1> QED BY <1>3, <1>4, <1>5, <1>6, KeyStep

(* What is known of the key an attempt works on.                           *)
LEMMA AtAwait ==
  ASSUME IInv, NEW k \in Keys, at[k] # "idle"
  PROVE  /\ KeyInv(k) /\ accepted[k] # NoEvent /\ row[k] # "NONE"
         /\ job[k] \in Jobs /\ job[k].stalls \in Nat /\ job[k].attempts \in Nat
         /\ at[k] \in Awaits => job[k].state = "active" /\ job[k].attempts < MaxAttempts
BY QueueAssumption DEF IInv, TypeOK, KeyInv, QueuedIsStored, AttemptOfJob, Jobs

-----------------------------------------------------------------------------
(* accept                                                                  *)

(* A delivery moves; nothing is stored or queued.                          *)
LEMMA CallMoves ==
  ASSUME IInv, call' \in [Calls -> CallRecords], StoredCalls',
         abandoned' \subseteq Keys,
         UNCHANGED <<accepted, row, job, at, contactVars, messageVars>>
  PROVE  IInv'
<1> USE DEF contactVars, messageVars
<1>1. TypeOK'
  BY DEF IInv, TypeOK, CallRecords
<1>2. ContactInv'
  BY DEF IInv, ContactInv, EntryFound, OptOutSurvivesEvents
<1>3. \A k \in Keys : KeyInv(k)'
  BY OtherKeysKeep DEF IInv
<1> QED BY <1>1, <1>2, <1>3 DEF IInv

(* A delivery has passed its checks and will be stored.                    *)
LEMMA ReceiveStep ==
  ASSUME IInv, NEW c \in Calls, NEW e \in Events, Receive(c, e)  PROVE IInv'
<1>1. /\ call' = [call EXCEPT ![c] = [at |-> "checked", event |-> e]]
     
      /\ UNCHANGED <<accepted, row, job, at, contactVars, messageVars, abandoned>>
  BY DEF Receive
<1>2. call' \in [Calls -> CallRecords]
  BY <1>1 DEF IInv, TypeOK, CallRecords
<1>3. StoredCalls'
  BY <1>1 DEF IInv, TypeOK, StoredCalls
<1> QED BY <1>1, <1>2, <1>3, CallMoves DEF IInv, TypeOK

(* A delivery that is lost on the way leaves what it stored.               *)
LEMMA CallLostStep ==
  ASSUME IInv, NEW c \in Calls, CallLost(c)  PROVE IInv'
<1>1. /\ call' = [call EXCEPT ![c] = Idle] /\ Idle \in CallRecords /\ Idle.at = "idle"
      /\ UNCHANGED <<accepted, row, job, at, contactVars, messageVars>>
  BY DEF CallLost, Idle, CallRecords
<1>2. call' \in [Calls -> CallRecords]
  BY <1>1 DEF IInv, TypeOK, CallRecords
<1>3. StoredCalls'
  BY <1>1 DEF IInv, TypeOK, StoredCalls
<1>4. KeyOf[call[c].event] \in Keys
  <2>1. call[c] \in CallRecords /\ call[c].at # "idle"
    BY DEF IInv, TypeOK, CallRecords, CallLost
  <2>2. call[c].event \in Events
    BY <2>1 DEF CallRecords
  <2> QED BY <2>2, KeyOfEvent
<1>5. abandoned' \subseteq Keys
  BY <1>4 DEF CallLost, IInv, TypeOK
<1> QED BY <1>1, <1>2, <1>3, <1>5, CallMoves

(* The event that a delivery carries has a key.                            *)
LEMMA CarriedEvent ==
  ASSUME IInv, NEW c \in Calls, call[c].at # "idle"
  PROVE  call[c].event \in Events /\ KeyOf[call[c].event] \in Keys
<1>1. call[c] \in CallRecords
  BY DEF IInv, TypeOK, CallRecords
<1>2. call[c].event \in Events
  BY <1>1 DEF CallRecords
<1> QED BY <1>2, KeyOfEvent

(* The first of two deliveries stores the event, and nothing worked on it. *)
LEMMA StoreStep ==
  ASSUME IInv, NEW c \in Calls, Store(c)  PROVE IInv'
<1>0. PICK e \in Events, k \in Keys : e = call[c].event /\ k = KeyOf[e]
  BY CarriedEvent DEF Store
<1>1. call[c].at = "checked" /\ e = call[c].event /\ k = KeyOf[e]
  BY <1>0 DEF Store
<1>2. CASE accepted[k] # NoEvent
  <2>1. /\ call' = [call EXCEPT ![c] = Idle] /\ Idle \in CallRecords /\ Idle.at = "idle"
        /\ UNCHANGED <<accepted, row, job, at, contactVars, messageVars, abandoned>>
    BY <1>1, <1>2 DEF Store, Idle, CallRecords
  <2>2. call' \in [Calls -> CallRecords] /\ abandoned' \subseteq Keys
    BY <2>1 DEF IInv, TypeOK, CallRecords
  <2>3. StoredCalls'
    BY <2>1 DEF IInv, TypeOK, StoredCalls
  <2> QED BY <2>1, <2>2, <2>3, CallMoves
<1>3. CASE accepted[k] = NoEvent
  <2>1. /\ accepted' = [accepted EXCEPT ![k] = e]
        /\ row' = [row EXCEPT ![k] = "PENDING"]
        /\ call' = [call EXCEPT ![c].at = "stored"]
        /\ UNCHANGED <<job, at, contactVars, messageVars, abandoned>>
    BY <1>1, <1>3 DEF Store
  <2>2. e # NoEvent
    BY <1>1, KeyOfEvent
  <2>3. /\ accepted' \in [Keys -> Events \cup {NoEvent}] /\ accepted'[k] = e
        /\ \A i \in Keys \ {k} : accepted'[i] = accepted[i]
        /\ row' \in [Keys -> Statuses] /\ row'[k] = "PENDING"
        /\ \A i \in Keys \ {k} : row'[i] = row[i]
    BY <1>1, <2>1 DEF IInv, TypeOK, Statuses
  <2>4. /\ call' \in [Calls -> CallRecords] /\ call'[c].event = e
        /\ \A d \in Calls : call'[d] = call[d] \/ d = c
    <3>1. call[c] \in CallRecords
      BY DEF IInv, TypeOK, CallRecords
    <3>2. [call[c] EXCEPT !.at = "stored"] \in CallRecords
      BY <1>1, <3>1 DEF CallRecords
    <3>3. call' = [call EXCEPT ![c] = [call[c] EXCEPT !.at = "stored"]]
      BY <2>1 DEF IInv, TypeOK
    <3>4. [call[c] EXCEPT !.at = "stored"].event = e
      BY <1>1, <3>1 DEF CallRecords
    <3> QED BY <3>2, <3>3, <3>4 DEF IInv, TypeOK, CallRecords
  <2>5. TypeOK'
    <3>1. \A i \in Keys : row'[i] = "NONE" <=> accepted'[i] = NoEvent
      BY <2>2, <2>3 DEF IInv, TypeOK
    <3>2. \A i \in Keys : accepted'[i] # NoEvent => KeyOf[accepted'[i]] = i
      <4>1. KeyOf[accepted'[k]] = k
        BY <1>1, <2>3
      <4> QED BY <4>1, <2>3 DEF IInv, TypeOK
    <3> QED BY <2>1, <2>3, <2>4, <3>1, <3>2
            DEF IInv, TypeOK, CallRecords, contactVars, messageVars
  <2>6. StoredCalls'
    <3>1. ASSUME NEW d \in Calls, call'[d].at = "stored"
          PROVE  accepted'[KeyOf[call'[d].event]] # NoEvent
      <4>1. CASE d = c
        BY <4>1, <1>1, <2>2, <2>3, <2>4
      <4>2. CASE d # c
        <5>1. /\ call'[d] = call[d] /\ accepted[KeyOf[call[d].event]] # NoEvent
              /\ KeyOf[call[d].event] \in Keys
          BY <4>2, <3>1, <2>4, CarriedEvent DEF IInv, StoredCalls
        <5> QED BY <5>1, <2>2, <2>3
      <4> QED BY <4>1, <4>2
    <3> QED BY <2>1, <3>1 DEF IInv, StoredCalls
  <2>7. ContactInv'
    BY <1>1, <2>1, ContactStands
  <2>8. KeyInv(k)'
    <3>1. KeyInv(k) /\ at[k] = "idle" /\ job[k].state = "none"
      BY <1>1, <1>3 DEF IInv, KeyInv, QueuedIsStored
    <3>2. at'[k] = "idle" /\ job'[k] = job[k] /\ ownRow' = ownRow
          /\ message' = message /\ overtook' = overtook
          /\ notices' = notices /\ cut' = cut
      BY <2>1, <3>1 DEF messageVars
    <3>3. QueuedIsStored(k)' /\ AttemptOfJob(k)' /\ AwaitOfKind(k)'
      BY <2>2, <2>3, <3>1, <3>2
         DEF KeyInv, QueuedIsStored, AttemptOfJob, AwaitOfKind, Awaits
    <3>4. EffectBeforeMark(k)' /\ SecondRow(k)'
      BY <2>3, <3>1, <3>2 DEF KeyInv, EffectBeforeMark, SecondRow
    <3>5. FollowUp(k)'
      <4>1. message[k] = "none" /\ notices[k] = 0
        BY <1>3, <3>1 DEF KeyInv, FollowUp
      <4> QED BY <2>3, <3>2, <4>1 DEF FollowUp
    <3> QED BY <3>3, <3>4, <3>5 DEF KeyInv
  <2> QED BY <1>1, <2>1, <2>3, <2>5, <2>6, <2>7, <2>8, KeyStep DEF contactVars, messageVars
<1> QED BY <1>2, <1>3

(* A job is added for an event that is stored, once.                       *)
LEMMA EnqueueStep ==
  ASSUME IInv, NEW c \in Calls, Enqueue(c)  PROVE IInv'
<1>0. PICK k \in Keys : k = KeyOf[call[c].event]
  BY CarriedEvent DEF Enqueue
<1>1. /\ call[c].at = "stored" /\ accepted[k] # NoEvent
      /\ job' = [job EXCEPT ![k] = Added(job[k])]
      /\ call' = [call EXCEPT ![c] = Idle]
      /\ UNCHANGED <<accepted, row, at, contactVars, messageVars, abandoned>>
  BY <1>0 DEF Enqueue, IInv, StoredCalls
<1>2. call' \in [Calls -> CallRecords] /\ StoredCalls'
  BY <1>1 DEF Idle, IInv, TypeOK, CallRecords, StoredCalls
<1>3. job[k] \in Jobs /\ Added(job[k]) \in Jobs
  BY <1>1, JobOperators DEF IInv, TypeOK
<1>4. /\ job' \in [Keys -> Jobs] /\ job'[k] = Added(job[k])
      /\ \A i \in Keys \ {k} : job'[i] = job[i]
  BY <1>1, <1>3, AtKey
<1>5. TypeOK'
  BY <1>1, <1>2, <1>4
     DEF IInv, TypeOK, CallRecords, contactVars, messageVars
<1>6. ContactInv'
  BY <1>1, ContactStands
<1>7. KeyInv(k)'
  <2>1. \/ job'[k] = job[k]
        \/ /\ job[k].state = "none" /\ job'[k].state = "waiting"
           /\ job'[k].attempts = job[k].attempts /\ job'[k].stalls = job[k].stalls
    BY <1>3, <1>4 DEF Added, Jobs
  <2>2. KeyInv(k) /\ Kind(k)' = Kind(k) /\ (Inbound(k)' <=> Inbound(k))
    BY <1>1 DEF IInv, Kind, Inbound
  <2>3. QueuedIsStored(k)' /\ AwaitOfKind(k)'
    BY <1>1, <2>2 DEF KeyInv, QueuedIsStored, AwaitOfKind
  <2>4. AttemptOfJob(k)'
    BY <1>1, <2>1, <2>2 DEF KeyInv, AttemptOfJob
  <2>5. EffectBeforeMark(k)' /\ SecondRow(k)'
    BY <1>1, <2>2 DEF KeyInv, EffectBeforeMark, SecondRow, Done, contactVars, messageVars
  <2>6. FollowUp(k)'
    BY <1>1, <2>1, <2>2 DEF KeyInv, FollowUp, Followed, messageVars
  <2> QED BY <2>3, <2>4, <2>5, <2>6 DEF KeyInv
<1> QED BY <1>1, <1>2, <1>4, <1>5, <1>6, <1>7, KeyStep DEF contactVars, messageVars

(* Every step of a delivery keeps the invariant.                           *)
LEMMA CallStepKeeps ==
  ASSUME IInv, NEW c \in Calls, CallStep(c)  PROVE IInv'
BY ReceiveStep, StoreStep, EnqueueStep, CallLostStep DEF CallStep

-----------------------------------------------------------------------------
(* processZaloWebhook                                                      *)

(* The attempt begins with the row RUNNING, or is over because the event   *)
(* is COMPLETED; a first attempt finds no message.                         *)
LEMMA StartAttemptStep ==
  ASSUME IInv, NEW k \in Keys, StartAttempt(k)  PROVE IInv'
<1> USE DEF callVars, contactVars, messageVars
<1>1. /\ job[k].state = "waiting" /\ at[k] = "idle"
      /\ job' = [job EXCEPT ![k] = Taken(job[k])]
      /\ UNCHANGED <<callVars, contactVars, messageVars, abandoned>>
  BY DEF StartAttempt, StartUnless
<1>2. KeyInv(k) /\ accepted[k] # NoEvent /\ row[k] # "NONE"
  BY <1>1 DEF IInv, TypeOK, KeyInv, QueuedIsStored
<1>3. job[k] \in Jobs /\ Taken(job[k]) \in Jobs
  BY JobOperators DEF IInv, TypeOK
<1>4. /\ job' \in [Keys -> Jobs] /\ job'[k] = Taken(job[k])
      /\ \A i \in Keys \ {k} : job'[i] = job[i]
  BY <1>1, <1>3, AtKey
<1>5. /\ job'[k].state = "active"
      /\ job'[k].attempts = job[k].attempts /\ job'[k].stalls = job[k].stalls
  BY <1>3, <1>4 DEF Taken, Jobs
<1>6. /\ Kind(k)' = Kind(k) /\ (Inbound(k)' <=> Inbound(k))
  BY <1>1, <1>5 DEF Kind, Inbound
<1>7. CASE row[k] = "COMPLETED"
  <2>1. Goto(k, "done") /\ row' = row
    BY <1>7 DEF StartAttempt, StartUnless
  <2>2. /\ at' \in [Keys -> Steps] /\ at'[k] = "done"
        /\ \A i \in Keys \ {k} : at'[i] = at[i]
    BY <2>1, AtKey DEF Steps, Awaits
  <2>3. ContactInv'
    BY <1>1, <2>2, ContactStands
  <2>4. AttemptOfJob(k)' /\ AwaitOfKind(k)'
    BY <1>1, <1>2, <1>5, <1>7, <2>1, <2>2 DEF KeyInv, AttemptOfJob, AwaitOfKind, Awaits
  <2>5. EffectBeforeMark(k)' /\ SecondRow(k)'
    BY <1>1, <1>2, <1>6, <1>7, <2>1, <2>2 DEF KeyInv, EffectBeforeMark, SecondRow, Done
  <2>6. FollowUp(k)'
    BY <1>1, <1>2, <1>5, <1>6, <2>1, <2>2 DEF KeyInv, FollowUp, Followed
  <2> QED BY <1>1, <1>2, <1>4, <2>1, <2>2, <2>3, <2>4, <2>5, <2>6, AttemptStep
          DEF IInv, TypeOK
<1>8. CASE row[k] # "COMPLETED"
  <2>1. Goto(k, "contact") /\ row' = [row EXCEPT ![k] = "RUNNING"]
    BY <1>8 DEF StartAttempt, StartUnless
  <2>2. /\ at' \in [Keys -> Steps] /\ at'[k] = "contact"
        /\ \A i \in Keys \ {k} : at'[i] = at[i]
        /\ row' \in [Keys -> Statuses] /\ row'[k] = "RUNNING"
        /\ \A i \in Keys \ {k} : row'[i] = row[i]
    BY <2>1, AtKey DEF Steps, Awaits, Statuses
  <2>3. ContactInv'
    BY <1>1, <2>2, ContactStands
  <2>4. AttemptOfJob(k)' /\ AwaitOfKind(k)'
    BY <1>1, <1>2, <1>5, <2>2 DEF KeyInv, AttemptOfJob, AwaitOfKind, Awaits
  <2>5. EffectBeforeMark(k)' /\ SecondRow(k)'
    BY <1>1, <1>2, <2>2 DEF KeyInv, EffectBeforeMark, SecondRow
  <2>6. FollowUp(k)'
    BY <1>1, <1>2, <1>5, <1>6, <2>2 DEF KeyInv, FollowUp, Followed
  <2> QED BY <1>1, <1>2, <1>4, <2>2, <2>3, <2>4, <2>5, <2>6, AttemptStep
          DEF IInv, TypeOK
<1> QED BY <1>7, <1>8

(* A new contact is known; one that opted out is not new.                  *)
LEMMA UpsertContactStep ==
  ASSUME IInv, NEW k \in Keys, UpsertContact(k)  PROVE IInv'
<1> USE DEF callVars, contactVars, messageVars
<1> DEFINE step == CASE Kind(k) = "optout" -> "find"
                     [] Kind(k) \in Sends -> "look"
                     [] OTHER -> "complete"
<1>1. /\ at[k] = "contact" /\ Goto(k, step)
      /\ contact' = IF contact = "none" THEN "known" ELSE contact
      /\ UNCHANGED <<callVars, row, job, entries, applied, lifted, removed, messageVars, abandoned>>
  BY DEF UpsertContact, UpsertLeaving
<1>2. /\ step \in {"find", "look", "complete"}
      /\ step = "find" <=> Kind(k) = "optout"
      /\ step = "look" <=> Kind(k) \in Sends
  BY DEF Sends
<1> HIDE DEF step
<1>3. KeyInv(k) /\ accepted[k] # NoEvent /\ row[k] = "RUNNING" /\ job[k].state = "active"
  BY <1>1, AtAwait DEF KeyInv, AttemptOfJob, Awaits
<1>4. step \in Steps \ {"list", "relist"}
  BY <1>2 DEF Steps, Awaits
<1>5. /\ at' \in [Keys -> Steps] /\ at'[k] = step
      /\ \A i \in Keys \ {k} : at'[i] = at[i]
  BY <1>1, <1>4, AtKey
<1>6. Kind(k)' = Kind(k) /\ (Inbound(k)' <=> Inbound(k))
  BY <1>1 DEF Kind, Inbound
<1>7. contact' \in {"none", "known", "out"} /\ ContactInv'
  <2>1. contact' \in {"none", "known", "out"}
    BY <1>1 DEF IInv, TypeOK
  <2>2. EntryFound'
    BY <1>1, <1>4, <1>5 DEF IInv, ContactInv, EntryFound
  <2>3. OptOutSurvivesEvents'
    BY <1>1 DEF IInv, ContactInv, OptOutSurvivesEvents
  <2> QED BY <2>1, <2>2, <2>3 DEF ContactInv
<1>8. AttemptOfJob(k)'
  BY <1>1, <1>2, <1>3, <1>5 DEF KeyInv, AttemptOfJob
<1>9. AwaitOfKind(k)'
  BY <1>2, <1>5, <1>6 DEF AwaitOfKind
<1>10. EffectBeforeMark(k)' /\ SecondRow(k)'
  BY <1>1, <1>2, <1>3, <1>5, <1>6 DEF KeyInv, EffectBeforeMark, SecondRow, Done
<1>11. FollowUp(k)'
  BY <1>1, <1>2, <1>3, <1>5, <1>6 DEF KeyInv, FollowUp, Followed
<1> QED BY <1>1, <1>3, <1>5, <1>7, <1>8, <1>9, <1>10, <1>11, AttemptStep DEF IInv, TypeOK

(* An entry that was found stands, unless it is removed.                   *)
LEMMA FindSuppressionStep ==
  ASSUME IInv, NEW k \in Keys, FindSuppression(k)  PROVE IInv'
<1> USE DEF callVars, contactVars, messageVars
<1> DEFINE step == IF entries = 0 THEN "list" ELSE "relist"
<1>1. /\ at[k] = "find" /\ Goto(k, step)
      /\ UNCHANGED <<callVars, row, job, contactVars, messageVars, abandoned>>
  BY DEF FindSuppression
<1>2. step \in {"list", "relist"} /\ (step = "list" <=> entries = 0)
  OBVIOUS
<1> HIDE DEF step
<1>3. /\ KeyInv(k) /\ accepted[k] # NoEvent /\ row[k] = "RUNNING" /\ job[k].state = "active"
      /\ Kind(k) = "optout"
  BY <1>1, AtAwait DEF KeyInv, AttemptOfJob, Awaits, AwaitOfKind
<1>4. /\ at' \in [Keys -> Steps] /\ at'[k] = step
      /\ \A i \in Keys \ {k} : at'[i] = at[i]
  BY <1>1, <1>2, AtKey DEF Steps, Awaits
<1>5. Kind(k)' = Kind(k) /\ (Inbound(k)' <=> Inbound(k))
  BY <1>1 DEF Kind, Inbound
<1>6. ContactInv'
  <2>1. step = "relist" => entries > 0
    BY <1>2 DEF IInv, TypeOK
  <2>2. EntryFound'
    BY <1>1, <1>4, <2>1 DEF IInv, ContactInv, EntryFound
  <2>3. OptOutSurvivesEvents'
    BY <1>1 DEF IInv, ContactInv, OptOutSurvivesEvents
  <2> QED BY <2>2, <2>3 DEF ContactInv
<1>7. AttemptOfJob(k)' /\ AwaitOfKind(k)'
  BY <1>1, <1>2, <1>3, <1>4, <1>5 DEF KeyInv, AttemptOfJob, AwaitOfKind
<1>8. EffectBeforeMark(k)' /\ SecondRow(k)'
  BY <1>1, <1>2, <1>3, <1>4, <1>5 DEF KeyInv, EffectBeforeMark, SecondRow, Done
<1>9. FollowUp(k)'
  BY <1>1, <1>2, <1>3, <1>4, <1>5 DEF KeyInv, FollowUp, Followed
<1> QED BY <1>1, <1>3, <1>4, <1>6, <1>7, <1>8, <1>9, AttemptStep DEF IInv, TypeOK

(* An opt-out that found no entry makes one.                               *)
LEMMA OptOutStep ==
  ASSUME IInv, NEW k \in Keys, OptOut(k)  PROVE IInv'
<1> USE DEF callVars, messageVars
<1>1. /\ at[k] \in {"list", "relist"} /\ Goto(k, "complete")
      /\ contact' = "out" /\ lifted' = FALSE
      /\ entries' = IF at[k] = "list" THEN entries + 1 ELSE entries
      /\ removed' = IF at[k] = "list" THEN FALSE ELSE removed
      /\ applied' = applied \cup {k}
      /\ UNCHANGED <<callVars, row, job, messageVars, abandoned>>
  BY DEF OptOut
<1>2. /\ KeyInv(k) /\ accepted[k] # NoEvent /\ row[k] = "RUNNING" /\ job[k].state = "active"
      /\ Kind(k) = "optout"
  BY <1>1, AtAwait DEF KeyInv, AttemptOfJob, Awaits, AwaitOfKind
<1>3. /\ at' \in [Keys -> Steps] /\ at'[k] = "complete"
      /\ \A i \in Keys \ {k} : at'[i] = at[i]
  BY <1>1, AtKey DEF Steps, Awaits
<1>4. Kind(k)' = Kind(k) /\ (Inbound(k)' <=> Inbound(k))
  BY <1>1 DEF Kind, Inbound
<1>5. ContactInv'
  <2>1. entries' \in Nat /\ (entries' > 0 \/ removed')
    BY <1>1 DEF IInv, TypeOK, ContactInv, EntryFound
  <2>2. EntryFound'
    BY <1>1, <1>3, <2>1 DEF IInv, TypeOK, ContactInv, EntryFound
  <2> QED BY <1>1, <2>1, <2>2 DEF ContactInv, OptOutSurvivesEvents
<1>6. AttemptOfJob(k)' /\ AwaitOfKind(k)'
  BY <1>1, <1>2, <1>3, <1>4 DEF KeyInv, AttemptOfJob, AwaitOfKind
<1>7. EffectBeforeMark(k)'
  BY <1>1, <1>2, <1>3, <1>4 DEF EffectBeforeMark, Done, Sends
<1>8. SecondRow(k)' /\ FollowUp(k)'
  BY <1>1, <1>2, <1>3, <1>4 DEF KeyInv, SecondRow, FollowUp, Followed
<1>9. entries' \in Nat /\ applied \subseteq applied' /\ applied' \subseteq Keys
  BY <1>1 DEF IInv, TypeOK
<1>10. removed' \in BOOLEAN
  <2>1. CASE at[k] = "list"
    BY <1>1, <2>1
  <2>2. CASE at[k] # "list"
    BY <1>1, <2>2 DEF IInv, TypeOK
  <2> QED BY <2>1, <2>2
<1> QED BY <1>1, <1>2, <1>3, <1>5, <1>6, <1>7, <1>8, <1>9, <1>10, AttemptStep DEF IInv, TypeOK

(* Looking up a message whose own send is under way overtakes it.          *)
LEMMA LookUpMessageStep ==
  ASSUME IInv, NEW k \in Keys, LookUpMessage(k)  PROVE IInv'
<1> USE DEF callVars, contactVars
<1> DEFINE found == ownRow[k] = "recorded" \/ message[k] # "none"
           step == IF found THEN "complete" ELSE "create"
<1>1. /\ at[k] = "look" /\ Goto(k, step)
      /\ overtook' = IF ownRow[k] = "sending" THEN overtook \cup {k} ELSE overtook
      /\ UNCHANGED <<callVars, row, job, contactVars, ownRow, message, notices, cut, abandoned>>
  BY DEF LookUpMessage, LookUpAmong, Recorded, Made
<1>2. /\ step \in {"complete", "create"}
      /\ step = "complete" <=> found
  OBVIOUS
<1> HIDE DEF step
<1>3. /\ KeyInv(k) /\ accepted[k] # NoEvent /\ row[k] = "RUNNING" /\ job[k].state = "active"
      /\ Kind(k) \in Sends
  BY <1>1, AtAwait DEF KeyInv, AttemptOfJob, Awaits, AwaitOfKind
<1>4. /\ at' \in [Keys -> Steps] /\ at'[k] = step
      /\ \A i \in Keys \ {k} : at'[i] = at[i]
  BY <1>1, <1>2, AtKey DEF Steps, Awaits
<1>5. Kind(k)' = Kind(k) /\ (Inbound(k)' <=> Inbound(k))
  BY <1>1 DEF Kind, Inbound
<1>6. ContactInv'
  BY <1>1, <1>2, <1>4, ContactStands
<1>7. AttemptOfJob(k)' /\ AwaitOfKind(k)'
  BY <1>1, <1>2, <1>3, <1>4, <1>5 DEF KeyInv, AttemptOfJob, AwaitOfKind
<1>8. EffectBeforeMark(k)'
  BY <1>1, <1>2, <1>3, <1>4, <1>5 DEF EffectBeforeMark, Done, Sends
<1>9. SecondRow(k)'
  <2>1. ownRow[k] \in {"none", "sending", "recorded"}
    BY DEF IInv, TypeOK
  <2> QED BY <1>1, <1>2, <1>3, <1>4, <2>1 DEF KeyInv, SecondRow
<1>10. FollowUp(k)'
  BY <1>1, <1>2, <1>3, <1>4, <1>5 DEF KeyInv, FollowUp, Followed
<1> QED BY <1>1, <1>3, <1>4, <1>6, <1>7, <1>8, <1>9, <1>10, AttemptStep DEF IInv, TypeOK

(* A row is made for a message whose key nobody had stored when it was     *)
(* looked up.                                                              *)
LEMMA CreateMessageStep ==
  ASSUME IInv, NEW k \in Keys, CreateMessage(k)  PROVE IInv'
<1> USE DEF callVars, contactVars
<1>1. /\ at[k] = "create" /\ Goto(k, "log")
      /\ message' = [message EXCEPT ![k] = "row"]
      /\ UNCHANGED <<callVars, row, job, contactVars, ownRow, notices, overtook, cut, abandoned>>
  BY DEF CreateMessage
<1>2. /\ KeyInv(k) /\ accepted[k] # NoEvent /\ row[k] = "RUNNING" /\ job[k].state = "active"
      /\ Kind(k) \in Sends
  BY <1>1, AtAwait DEF KeyInv, AttemptOfJob, Awaits, AwaitOfKind
<1>3. /\ at' \in [Keys -> Steps] /\ at'[k] = "log"
      /\ message' \in [Keys -> FollowUps] /\ message'[k] = "row"
      /\ \A i \in Keys \ {k} : at'[i] = at[i] /\ message'[i] = message[i]
  <2>1. "log" \in Steps /\ "row" \in FollowUps
    BY DEF Steps, Awaits, FollowUps
  <2> QED BY <1>1, <2>1, AtKey
<1>4. Kind(k)' = Kind(k) /\ (Inbound(k)' <=> Inbound(k))
  BY <1>1 DEF Kind, Inbound
<1>5. ContactInv'
  BY <1>1, <1>3, ContactStands
<1>6. AttemptOfJob(k)' /\ AwaitOfKind(k)'
  BY <1>1, <1>2, <1>3, <1>4 DEF KeyInv, AttemptOfJob, AwaitOfKind
<1>7. EffectBeforeMark(k)' /\ SecondRow(k)'
  BY <1>1, <1>2, <1>3 DEF KeyInv, EffectBeforeMark, SecondRow
<1>8. FollowUp(k)'
  BY <1>1, <1>2, <1>3 DEF KeyInv, FollowUp
<1> QED BY <1>1, <1>2, <1>3, <1>5, <1>6, <1>7, <1>8, AttemptStep DEF IInv, TypeOK

(* A received message goes on to its notification, a sent one is done.     *)
LEMMA LogMessageStep ==
  ASSUME IInv, NEW k \in Keys, LogMessage(k)  PROVE IInv'
<1> USE DEF callVars, contactVars
<1> DEFINE step == IF Inbound(k) THEN "notify" ELSE "complete"
<1>1. /\ at[k] = "log" /\ Goto(k, step)
      /\ message' = [message EXCEPT ![k] = "event"]
      /\ UNCHANGED <<callVars, row, job, contactVars, ownRow, notices, overtook, cut, abandoned>>
  BY DEF LogMessage
<1>2. /\ step \in {"notify", "complete"}
      /\ step = "notify" <=> Inbound(k)
  OBVIOUS
<1> HIDE DEF step
<1>3. /\ KeyInv(k) /\ accepted[k] # NoEvent /\ row[k] = "RUNNING" /\ job[k].state = "active"
      /\ Kind(k) \in Sends /\ message[k] # "none"
  BY <1>1, AtAwait DEF KeyInv, AttemptOfJob, Awaits, AwaitOfKind, EffectBeforeMark
<1>4. /\ at' \in [Keys -> Steps] /\ at'[k] = step
      /\ message' \in [Keys -> FollowUps] /\ message'[k] = "event"
      /\ \A i \in Keys \ {k} : at'[i] = at[i] /\ message'[i] = message[i]
  <2>1. step \in Steps /\ "event" \in FollowUps
    BY <1>2 DEF Steps, Awaits, FollowUps
  <2>2. at' \in [Keys -> Steps] /\ at'[k] = step /\ \A i \in Keys \ {k} : at'[i] = at[i]
    BY <1>1, <2>1, AtKey
  <2>3. /\ message' \in [Keys -> FollowUps] /\ message'[k] = "event"
        /\ \A i \in Keys \ {k} : message'[i] = message[i]
    BY <1>1, <2>1, AtKey
  <2> QED BY <2>2, <2>3
<1>5. Kind(k)' = Kind(k) /\ (Inbound(k)' <=> Inbound(k))
  BY <1>1 DEF Kind, Inbound
<1>6. ContactInv'
  BY <1>1, <1>2, <1>4, ContactStands
<1>7. AttemptOfJob(k)' /\ AwaitOfKind(k)'
  BY <1>1, <1>2, <1>3, <1>4, <1>5 DEF KeyInv, AttemptOfJob, AwaitOfKind
<1>8. EffectBeforeMark(k)'
  BY <1>1, <1>2, <1>3, <1>4, <1>5 DEF EffectBeforeMark, Done, Sends
<1>9. SecondRow(k)'
  BY <1>1, <1>2, <1>3, <1>4 DEF KeyInv, SecondRow
<1>10. FollowUp(k)'
  BY <1>1, <1>2, <1>3, <1>4, <1>5 DEF KeyInv, FollowUp, Followed
<1> QED BY <1>1, <1>3, <1>4, <1>6, <1>7, <1>8, <1>9, <1>10, AttemptStep DEF IInv, TypeOK

(* The notification is the last thing an inbound message is owed.          *)
LEMMA NotifyStep ==
  ASSUME IInv, NEW k \in Keys, Notify(k)  PROVE IInv'
<1> USE DEF callVars, contactVars
<1>1. /\ at[k] = "notify" /\ Goto(k, "complete")
      /\ message' = [message EXCEPT ![k] = "notified"]
      /\ notices' = [notices EXCEPT ![k] = notices[k] + 1]
      /\ UNCHANGED <<callVars, row, job, contactVars, ownRow, overtook, cut, abandoned>>
  BY DEF Notify
<1>2. /\ KeyInv(k) /\ accepted[k] # NoEvent /\ row[k] = "RUNNING" /\ job[k].state = "active"
      /\ Kind(k) \in Sends /\ Inbound(k) /\ message[k] # "none"
  BY <1>1, AtAwait DEF KeyInv, AttemptOfJob, Awaits, AwaitOfKind, EffectBeforeMark
<1>3. /\ at' \in [Keys -> Steps] /\ at'[k] = "complete"
      /\ message' \in [Keys -> FollowUps] /\ message'[k] = "notified"
      /\ \A i \in Keys \ {k} : at'[i] = at[i] /\ message'[i] = message[i]
  BY <1>1, AtKey DEF Steps, Awaits, FollowUps
<1>4. Kind(k)' = Kind(k) /\ (Inbound(k)' <=> Inbound(k))
  BY <1>1 DEF Kind, Inbound
<1>5. ContactInv'
  BY <1>1, <1>3, ContactStands
<1>6. AttemptOfJob(k)' /\ AwaitOfKind(k)'
  BY <1>1, <1>2, <1>3, <1>4 DEF KeyInv, AttemptOfJob, AwaitOfKind
<1>7. EffectBeforeMark(k)' /\ SecondRow(k)'
  BY <1>1, <1>2, <1>3, <1>4 DEF KeyInv, EffectBeforeMark, SecondRow, Done, Sends
<1>8. /\ notices' \in [Keys -> Nat] /\ notices'[k] = 1
      /\ \A i \in Keys \ {k} : notices'[i] = notices[i]
  <2>1. notices \in [Keys -> Nat] /\ notices[k] = 0
    BY <1>1, <1>2 DEF IInv, TypeOK, KeyInv, FollowUp
  <2> QED BY <1>1, <2>1
<1>9. FollowUp(k)'
  BY <1>1, <1>2, <1>3, <1>4, <1>8 DEF FollowUp, Followed
<1> QED BY <1>1, <1>2, <1>3, <1>5, <1>6, <1>7, <1>8, <1>9, AttemptStep DEF IInv, TypeOK

(* The mark comes after the effect.                                        *)
LEMMA CompleteEventStep ==
  ASSUME IInv, NEW k \in Keys, CompleteEvent(k)  PROVE IInv'
<1> USE DEF callVars, contactVars, messageVars
<1>1. /\ at[k] = "complete" /\ Goto(k, "done")
      /\ row' = [row EXCEPT ![k] = "COMPLETED"]
      /\ UNCHANGED <<callVars, job, contactVars, messageVars, abandoned>>
  BY DEF CompleteEvent
<1>2. KeyInv(k) /\ accepted[k] # NoEvent /\ job[k].state = "active"
  BY <1>1, AtAwait DEF Awaits
<1>3. /\ at' \in [Keys -> Steps] /\ at'[k] = "done"
      /\ row' \in [Keys -> Statuses] /\ row'[k] = "COMPLETED"
      /\ \A i \in Keys \ {k} : at'[i] = at[i] /\ row'[i] = row[i]
  <2>1. "done" \in Steps /\ "COMPLETED" \in Statuses
    BY DEF Steps, Awaits, Statuses
  <2> QED BY <1>1, <2>1, AtKey
<1>4. Kind(k)' = Kind(k) /\ (Inbound(k)' <=> Inbound(k))
  BY <1>1 DEF Kind, Inbound
<1>5. ContactInv'
  BY <1>1, <1>3, ContactStands
<1>6. AttemptOfJob(k)' /\ AwaitOfKind(k)'
  BY <1>1, <1>2, <1>3 DEF KeyInv, AttemptOfJob, AwaitOfKind
<1>7. EffectBeforeMark(k)' /\ SecondRow(k)'
  BY <1>1, <1>2, <1>3, <1>4 DEF KeyInv, EffectBeforeMark, SecondRow, Done
<1>8. FollowUp(k)'
  BY <1>1, <1>2, <1>3, <1>4 DEF KeyInv, FollowUp, Followed
<1> QED BY <1>1, <1>2, <1>3, <1>5, <1>6, <1>7, <1>8, AttemptStep DEF IInv, TypeOK

-----------------------------------------------------------------------------
(* How attempts end                                                        *)

(* An attempt that ends takes no await, and is noted if it breaks off      *)
(* while the message it made lacks what follows.                           *)
LEMMA AttemptEnds ==
  ASSUME IInv, NEW k \in Keys, accepted[k] # NoEvent,
         NEW step \in {"idle", "failed"}, Goto(k, step),
         row' \in [Keys -> Statuses], row'[k] # "NONE",
         row'[k] = "COMPLETED" => row[k] = "COMPLETED",
         \A i \in Keys \ {k} : row'[i] = row[i],
         NEW j \in Jobs, job' = [job EXCEPT ![k] = j],
         j.state \in {"none", "waiting", "active", "delayed"} => j.attempts < MaxAttempts,
         NoteCut(k) \/ (at[k] \notin {"log", "notify"} /\ UNCHANGED cut),
         abandoned' \subseteq Keys,
         UNCHANGED <<callVars, contactVars, ownRow, message, notices, overtook>>
  PROVE  IInv'
<1> USE DEF callVars, contactVars, messageVars
<1>1. KeyInv(k)
  BY DEF IInv
<1>2. /\ at' \in [Keys -> Steps] /\ at'[k] = step
      /\ \A i \in Keys \ {k} : at'[i] = at[i]
      /\ job' \in [Keys -> Jobs] /\ job'[k] = j
      /\ \A i \in Keys \ {k} : job'[i] = job[i]
  BY AtKey DEF Steps
<1>3. step \notin Awaits
  BY DEF Awaits
<1>4. Kind(k)' = Kind(k) /\ (Inbound(k)' <=> Inbound(k))
  BY DEF Kind, Inbound
<1>5. ContactInv'
  BY <1>2, ContactStands
<1>6. AttemptOfJob(k)' /\ AwaitOfKind(k)'
  BY <1>2, <1>3 DEF AttemptOfJob, AwaitOfKind, Awaits
<1>7. EffectBeforeMark(k)' /\ SecondRow(k)'
  BY <1>1, <1>2, <1>4 DEF KeyInv, EffectBeforeMark, SecondRow, Done
<1>8. /\ cut \subseteq cut' /\ cut' \subseteq Keys
      /\ at[k] \in {"log", "notify"} => k \in cut'
      /\ \A i \in Keys \ {k} : i \in cut <=> i \in cut'
  BY DEF NoteCut, IInv, TypeOK
<1>9. FollowUp(k)'
  BY <1>1, <1>2, <1>4, <1>8 DEF KeyInv, FollowUp, Followed
<1> QED BY <1>2, <1>5, <1>6, <1>7, <1>8, <1>9, AttemptStep DEF IInv, TypeOK

(* The job is completed after the event was marked.                        *)
LEMMA FinishAttemptStep ==
  ASSUME IInv, NEW k \in Keys, FinishAttempt(k)  PROVE IInv'
<1>1. /\ at[k] = "done" /\ Goto(k, "idle")
      /\ job' = [job EXCEPT ![k] = Completed(job[k])]
      /\ UNCHANGED <<callVars, row, contactVars, messageVars, abandoned>>
  BY DEF FinishAttempt
<1>2. accepted[k] # NoEvent /\ row[k] # "NONE" /\ job[k] \in Jobs
  BY <1>1, AtAwait
<1>3. /\ Completed(job[k]) \in Jobs /\ Completed(job[k]).state = "completed"
      /\ Completed(job[k]).attempts = job[k].attempts /\ Completed(job[k]).stalls = job[k].stalls
  BY <1>2, JobOperators DEF Completed, Jobs
<1> QED BY <1>1, <1>2, <1>3, AttemptEnds DEF messageVars, IInv, TypeOK

(* A thrown attempt counts.                                                *)
LEMMA AttemptFailsStep ==
  ASSUME IInv, NEW k \in Keys, AttemptFails(k)  PROVE IInv'
<1> DEFINE step == IF LastAttempt(job[k]) THEN "failed" ELSE "idle"
<1>1. /\ at[k] \in Awaits /\ Goto(k, step)
      /\ job' = [job EXCEPT ![k] = Thrown(job[k])]
      /\ NoteCut(k)
      /\ UNCHANGED <<callVars, row, contactVars, ownRow, message, notices, overtook, abandoned>>
  BY DEF AttemptFails
<1>2. step \in {"idle", "failed"}
  OBVIOUS
<1> HIDE DEF step
<1>3. /\ accepted[k] # NoEvent /\ row[k] # "NONE" /\ job[k] \in Jobs
      /\ job[k].attempts < MaxAttempts /\ job[k].attempts \in Nat
  BY <1>1, AtAwait DEF Awaits
<1>4. Thrown(job[k]) \in Jobs
  BY <1>3, JobOperators
<1>5. Thrown(job[k]).state \in {"none", "waiting", "active", "delayed"} =>
         Thrown(job[k]).attempts < MaxAttempts
  BY <1>3, ThrownAttempts
<1> QED BY <1>1, <1>2, <1>3, <1>4, <1>5, AttemptEnds DEF IInv, TypeOK

(* The job of the last attempt has failed; its row follows, or is left.    *)
LEMMA OnFailedStep ==
  ASSUME IInv, NEW k \in Keys, OnFailed(k)  PROVE IInv'
<1>1. /\ at[k] = "failed" /\ Goto(k, "idle")
      /\ UNCHANGED <<callVars, job, contactVars, messageVars>>
  BY DEF OnFailed
<1>2. KeyInv(k) /\ accepted[k] # NoEvent /\ row[k] # "NONE" /\ job[k] \in Jobs
  BY <1>1, AtAwait
<1>3. job' = [job EXCEPT ![k] = job[k]]
  BY <1>1 DEF IInv, TypeOK
<1>4. abandoned' \subseteq Keys
  BY DEF OnFailed, IInv, TypeOK
<1>5. /\ row' \in [Keys -> Statuses] /\ row'[k] # "NONE"
      /\ row'[k] = "COMPLETED" => row[k] = "COMPLETED"
      /\ \A i \in Keys \ {k} : row'[i] = row[i]
  BY <1>2 DEF OnFailed, IInv, TypeOK, Statuses
<1> QED BY <1>1, <1>2, <1>3, <1>4, <1>5, AttemptEnds DEF messageVars, KeyInv, AttemptOfJob

(* A worker that is gone leaves the job active.                            *)
LEMMA WorkerLostStep ==
  ASSUME IInv, NEW k \in Keys, WorkerLost(k)  PROVE IInv'
<1>1. /\ at[k] # "idle" /\ Goto(k, "idle")
      /\ NoteCut(k)
      /\ UNCHANGED <<callVars, row, job, contactVars, ownRow, message, notices, overtook>>
  BY DEF WorkerLost, Awaits
<1>2. KeyInv(k) /\ accepted[k] # NoEvent /\ row[k] # "NONE" /\ job[k] \in Jobs
  BY <1>1, AtAwait
<1>3. job' = [job EXCEPT ![k] = job[k]]
  BY <1>1 DEF IInv, TypeOK
<1>4. abandoned' \subseteq Keys
  BY DEF WorkerLost, IInv, TypeOK
<1>5. row \in [Keys -> Statuses]
  BY DEF IInv, TypeOK
<1>6. job[k].state \in {"none", "waiting", "active", "delayed"} => job[k].attempts < MaxAttempts
  BY <1>2 DEF KeyInv, AttemptOfJob
<1> QED BY <1>1, <1>2, <1>3, <1>4, <1>5, <1>6, AttemptEnds

(* A job that BullMQ hands out again stalled before, or fails.             *)
LEMMA JobStallsStep ==
  ASSUME IInv, NEW k \in Keys, JobStalls(k)  PROVE IInv'
<1>1. /\ job[k].state = "active" /\ at[k] = "idle"
      /\ job' = [job EXCEPT ![k] = Stalled(job[k])]
      /\ UNCHANGED <<callVars, row, at, contactVars, messageVars>>
  BY DEF JobStalls
<1>2. /\ KeyInv(k) /\ accepted[k] # NoEvent /\ row[k] # "NONE" /\ job[k] \in Jobs
      /\ job[k].attempts < MaxAttempts
  BY <1>1 DEF IInv, TypeOK, KeyInv, QueuedIsStored, AttemptOfJob
<1>3. Stalled(job[k]) \in Jobs
  BY <1>2, JobOperators
<1>4. Stalled(job[k]).attempts = job[k].attempts
  BY <1>2 DEF Stalled, Jobs
<1>5. Goto(k, "idle")
  BY <1>1 DEF Goto, IInv, TypeOK
<1>6. abandoned' \subseteq Keys
  BY DEF JobStalls, IInv, TypeOK
<1> QED BY <1>1, <1>2, <1>3, <1>4, <1>5, <1>6, AttemptEnds DEF messageVars, IInv, TypeOK

(* A delayed job waits again.                                              *)
LEMMA JobPromotedStep ==
  ASSUME IInv, NEW k \in Keys, JobPromoted(k)  PROVE IInv'
<1> USE DEF callVars, contactVars, messageVars
<1>1. /\ job[k].state = "delayed"
      /\ job' = [job EXCEPT ![k] = Promoted(job[k])]
      /\ UNCHANGED <<callVars, row, at, contactVars, messageVars, abandoned>>
  BY DEF JobPromoted
<1>2. KeyInv(k) /\ accepted[k] # NoEvent /\ row[k] # "NONE" /\ job[k] \in Jobs
  BY <1>1 DEF IInv, TypeOK, KeyInv, QueuedIsStored
<1>3. /\ Promoted(job[k]) \in Jobs /\ Promoted(job[k]).state = "waiting"
      /\ Promoted(job[k]).attempts = job[k].attempts /\ Promoted(job[k]).stalls = job[k].stalls
  BY <1>2, JobOperators DEF Promoted, Jobs
<1>4. /\ job' \in [Keys -> Jobs] /\ job'[k] = Promoted(job[k])
      /\ \A i \in Keys \ {k} : job'[i] = job[i]
  BY <1>1, <1>3, AtKey
<1>5. /\ Kind(k)' = Kind(k) /\ (Inbound(k)' <=> Inbound(k))
  BY <1>1, <1>3, <1>4 DEF Kind, Inbound
<1>6. ContactInv'
  BY <1>1, <1>2, ContactStands
<1>7. AttemptOfJob(k)' /\ AwaitOfKind(k)'
  BY <1>1, <1>2, <1>3, <1>4, <1>5 DEF KeyInv, AttemptOfJob, AwaitOfKind
<1>8. EffectBeforeMark(k)' /\ SecondRow(k)'
  BY <1>1, <1>2, <1>5 DEF KeyInv, EffectBeforeMark, SecondRow, Done
<1>9. FollowUp(k)'
  BY <1>1, <1>2, <1>3, <1>4, <1>5 DEF KeyInv, FollowUp, Followed
<1> QED BY <1>1, <1>2, <1>4, <1>6, <1>7, <1>8, <1>9, AttemptStep DEF IInv, TypeOK, Steps

-----------------------------------------------------------------------------
(* Beside the intake                                                       *)

(* A message that is recorded was being sent when its echo was looked up.  *)
LEMMA RecordOwnSendStep ==
  ASSUME IInv, NEW k \in Keys, RecordOwnSend(k)  PROVE IInv'
<1> USE DEF callVars, contactVars
<1>1. /\ ownRow[k] = "sending" /\ ownRow' = [ownRow EXCEPT ![k] = "recorded"]
      /\ UNCHANGED <<callVars, row, job, at, contactVars, message, notices, overtook, cut, abandoned>>
  BY DEF RecordOwnSend
<1>2. /\ ownRow' \in [Keys -> {"none", "sending", "recorded"}] /\ ownRow'[k] = "recorded"
      /\ \A i \in Keys \ {k} : ownRow'[i] = ownRow[i]
  BY <1>1 DEF IInv, TypeOK
<1>3. TypeOK' /\ StoredCalls'
  BY <1>1, <1>2 DEF IInv, TypeOK, StoredCalls
<1>4. ContactInv'
  BY <1>1, ContactStands
<1>5. KeyInv(k)'
  <2>1. KeyInv(k) /\ Kind(k)' = Kind(k) /\ (Inbound(k)' <=> Inbound(k))
    BY <1>1 DEF IInv, Kind, Inbound
  <2>2. QueuedIsStored(k)' /\ AttemptOfJob(k)' /\ AwaitOfKind(k)'
    BY <1>1, <2>1 DEF KeyInv, QueuedIsStored, AttemptOfJob, AwaitOfKind
  <2>3. EffectBeforeMark(k)' /\ SecondRow(k)'
    BY <1>1, <1>2, <2>1 DEF KeyInv, EffectBeforeMark, SecondRow, Done
  <2>4. FollowUp(k)'
    BY <1>1, <2>1 DEF KeyInv, FollowUp, Followed
  <2> QED BY <2>1, <2>2, <2>3, <2>4 DEF KeyInv
<1> QED BY <1>1, <1>2, <1>3, <1>4, <1>5, KeyStep

(* An operator takes an opt-out back.                                      *)
LEMMA ReconsentStep == ASSUME IInv, Reconsent PROVE IInv'
<1> USE DEF callVars, messageVars
<1>1. /\ contact' = "known" /\ lifted' = TRUE
      /\ UNCHANGED <<callVars, row, job, at, entries, applied, removed, messageVars, abandoned>>
  BY DEF Reconsent
<1>2. TypeOK' /\ StoredCalls'
  BY <1>1 DEF IInv, TypeOK, StoredCalls
<1>3. ContactInv'
  BY <1>1 DEF IInv, ContactInv, EntryFound, OptOutSurvivesEvents
<1>4. \A k \in Keys : KeyInv(k)'
  BY <1>1, OtherKeysKeep DEF IInv
<1> QED BY <1>2, <1>3, <1>4 DEF IInv

(* An operator removes an entry.                                           *)
LEMMA RemoveEntryStep == ASSUME IInv, RemoveEntry PROVE IInv'
<1> USE DEF callVars, messageVars
<1>1. /\ entries > 0 /\ entries' = entries - 1 /\ removed' = TRUE
      /\ UNCHANGED <<callVars, row, job, at, contact, applied, lifted, messageVars, abandoned>>
  BY DEF RemoveEntry
<1>2. TypeOK' /\ StoredCalls'
  BY <1>1 DEF IInv, TypeOK, StoredCalls
<1>3. ContactInv'
  BY <1>1 DEF IInv, ContactInv, EntryFound, OptOutSurvivesEvents
<1>4. \A k \in Keys : KeyInv(k)'
  BY <1>1, OtherKeysKeep DEF IInv
<1> QED BY <1>2, <1>3, <1>4 DEF IInv

(* A step that changes nothing.                                            *)
LEMMA StutterStep == ASSUME IInv, UNCHANGED vars PROVE IInv'
BY CallMoves
   DEF vars, callVars, IInv, TypeOK, CallRecords, StoredCalls

-----------------------------------------------------------------------------

(* IInv is inductive.                                                      *)
LEMMA NextIInv == IInv /\ [Next]_vars => IInv'
<1>1. ASSUME IInv, NEW k \in Keys, Progress(k)  PROVE IInv'
  BY <1>1, StartAttemptStep, UpsertContactStep, FindSuppressionStep, OptOutStep,
     LookUpMessageStep, CreateMessageStep, LogMessageStep, NotifyStep, CompleteEventStep,
     FinishAttemptStep, OnFailedStep DEF Progress
<1>2. ASSUME IInv, NEW k \in Keys, Fault(k) \/ QueueStep(k)  PROVE IInv'
  BY <1>2, AttemptFailsStep, WorkerLostStep, JobStallsStep, JobPromotedStep
     DEF Fault, QueueStep
<1> QED BY <1>1, <1>2, CallStepKeeps, RecordOwnSendStep, ReconsentStep, RemoveEntryStep,
       StutterStep DEF Next

(* IInv holds in every state of every behaviour.                           *)
LEMMA SpecIInv == Spec => []IInv
BY InitIInv, NextIInv, PTL DEF Spec

(* Rows, jobs, deliveries and histories stay within their types, in        *)
(* particular a job's attempts within MaxAttempts.                         *)
THEOREM SpecTypeOK == Spec => []TypeOK
<1>1. IInv => TypeOK
  BY DEF IInv
<1> QED BY <1>1, SpecIInv, PTL

(* CompletedMeansDone: whichever attempts broke off where, an event that   *)
(* processZaloWebhook marked COMPLETED has had its effect.                 *)
THEOREM SpecCompletedMeansDone == Spec => []CompletedMeansDone
<1>1. IInv => CompletedMeansDone
  BY DEF IInv, KeyInv, EffectBeforeMark, Done, CompletedMeansDone
<1> QED BY <1>1, SpecIInv, PTL

(* OptOutSurvivesEvents: no event about a contact, whenever its attempts   *)
(* run, takes back an opt-out or leaves it without a suppression entry;    *)
(* only an operator's new consent or removal of an entry does.             *)
THEOREM SpecOptOutSurvivesEvents == Spec => []OptOutSurvivesEvents
<1>1. IInv => OptOutSurvivesEvents
  BY DEF IInv, ContactInv
<1> QED BY <1>1, SpecIInv, PTL

(* SecondRowNeedsOvertaking: the echo of a message sent from here makes a  *)
(* second row only when it was looked up before the msg_id was recorded.   *)
THEOREM SpecSecondRowNeedsOvertaking == Spec => []SecondRowNeedsOvertaking
<1>1. IInv => SecondRowNeedsOvertaking
  BY DEF IInv, KeyInv, SecondRow, SecondRowNeedsOvertaking
<1> QED BY <1>1, SpecIInv, PTL

(* AnnouncedOnceUnlessCut: a received message is announced at most once,   *)
(* and a message of a COMPLETED event lacks its event or notification only *)
(* when an attempt broke off between its creation and the last of these.   *)
THEOREM SpecAnnouncedOnceUnlessCut == Spec => []AnnouncedOnceUnlessCut
<1>1. ASSUME IInv, NEW k \in Keys
      PROVE  /\ notices[k] <= 1
             /\ row[k] = "COMPLETED" /\ message[k] # "none" /\ k \notin cut =>
                   message[k] = IF Inbound(k) THEN "notified" ELSE "event"
  <2>1. KeyInv(k)
    BY <1>1 DEF IInv
  <2>2. notices[k] <= 1
    BY <2>1 DEF KeyInv, FollowUp
  <2>3. row[k] = "COMPLETED" => at[k] \notin {"log", "notify"}
    BY <2>1 DEF KeyInv, AttemptOfJob, Awaits
  <2> QED BY <2>1, <2>2, <2>3 DEF KeyInv, FollowUp, Followed
<1>2. IInv => AnnouncedOnceUnlessCut
  BY <1>1 DEF AnnouncedOnceUnlessCut
<1> QED BY <1>2, SpecIInv, PTL

=============================================================================
