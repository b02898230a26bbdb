----------------------- MODULE OutboundDelivery_proofs -----------------------
(***************************************************************************)
(* Proofs about OutboundDelivery, for every number of messages, requests   *)
(* and contacts, every limit and every retry bound.                        *)
(***************************************************************************)
EXTENDS OutboundDelivery, TLAPS, FiniteSetTheorems

-----------------------------------------------------------------------------
(* The operators of BullQueue                                              *)

(* Every operator takes a job to a job; only an attempt that may still be  *)
(* made can be counted.                                                    *)
LEMMA JobOperators ==
  ASSUME NEW j \in Jobs
  PROVE  /\ Added(j) \in Jobs /\ Taken(j) \in Jobs /\ Deferred(j) \in Jobs /\ Promoted(j) \in Jobs
         /\ Completed(j) \in Jobs /\ Completed(Taken(j)) \in Jobs
         /\ Stalled(j) \in Jobs
         /\ j.attempts < MaxAttempts => Thrown(j) \in Jobs
<1>1. /\ j.stalls < MaxStalls => j.stalls + 1 \in 0..MaxStalls
      /\ j.attempts < MaxAttempts => j.attempts + 1 \in 0..MaxAttempts
  BY QueueAssumption DEF Jobs
<1> QED
  BY <1>1 DEF Jobs, JobStates, Added, Taken, Deferred, Promoted, Completed, Stalled, Thrown

(* A thrown attempt fails the job exactly when it was the last one.        *)
LEMMA ThrownAttempts ==
  ASSUME NEW j \in Jobs, j.attempts < MaxAttempts
  PROVE  /\ Thrown(j).attempts = j.attempts + 1
         /\ LastAttempt(j) => Thrown(j).state = "failed" /\ Thrown(j).attempts = MaxAttempts
         /\ ~LastAttempt(j) => Thrown(j).state = "delayed" /\ Thrown(j).attempts < MaxAttempts
BY QueueAssumption DEF Jobs, Thrown, LastAttempt

-----------------------------------------------------------------------------
(* The inductive invariant                                                 *)

(* Where a message, its job and its attempt can be together.               *)
JobInv(m) ==
    /\ job[m].state \in {"none", "waiting", "active", "delayed"} =>
          job[m].attempts < MaxAttempts
    /\ attempt[m].at \in Running => job[m].state = "active"
    /\ attempt[m].at = "onFailed" =>
          job[m].state = "failed" /\ job[m].attempts = MaxAttempts

StatusInv(m) ==
    /\ status[m] = "NONE" =>
          /\ job[m].state = "none"
          /\ m \notin today
          /\ delivered[m] = 0
    /\ status[m] = "FAILED" => job[m].state = "failed" /\ job[m].attempts = MaxAttempts
    /\ job[m].state = "completed" => status[m] \in Settled
    /\ attempt[m].at = "settled" => status[m] \in Settled
    /\ attempt[m].at \in Running \ {"settled"} => status[m] \in {"QUEUED", "SENDING"}
    /\ job[m].state = "none" => delivered[m] = 0

CopyInv(m) ==
    delivered[m] <= unconfirmed[m] + (IF status[m] = "SENT" \/ attempt[m].at = "accepted"
                                        THEN 1 ELSE 0)

RequestInv == \A r \in Requests : request[r].at = "created" => status[request[r].key] # "NONE"

IInv ==
    /\ TypeOK
    /\ \A m \in Messages : JobInv(m)
    /\ \A m \in Messages : StatusInv(m)
    /\ \A m \in Messages : CopyInv(m)
    /\ RequestInv

(* The invariant holds before any request is made.                         *)
LEMMA InitIInv == Init => IInv
<1> SUFFICES ASSUME Init PROVE IInv
  OBVIOUS
<1> USE QueueAssumption
<1>1. TypeOK
  <2>1. NoJob \in Jobs
    BY DEF Jobs, NoJob, JobStates
  <2>2. Idle \in [at : AttemptSteps, saw : Snapshots]
    BY DEF Idle, NothingRead, Snapshots, AttemptSteps, Running, ConsentStatuses
  <2>3. request \in [Requests -> [at : RequestSteps, key : Messages]]
    BY DEF Init, RequestSteps
  <2> QED
    BY <2>1, <2>2, <2>3 DEF Init, TypeOK, MessageStatuses, AccountStatuses, Pauses, ConsentStatuses
<1>2. \A m \in Messages : JobInv(m) /\ StatusInv(m) /\ CopyInv(m)
  BY DEF Init, JobInv, StatusInv, CopyInv, NoJob, Idle, Running, Settled
<1>3. RequestInv
  BY DEF Init, RequestInv
<1> QED BY <1>1, <1>2, <1>3 DEF IInv

-----------------------------------------------------------------------------
(* What the helpers of the specification preserve.                         *)

RequestType == [Requests -> [at : RequestSteps, key : Messages]]
AttemptType == [Messages -> [at : AttemptSteps, saw : Snapshots]]

(* RequestAt moves one request and leaves every key alone.                 *)
LEMMA RequestAtType ==
  ASSUME request \in RequestType, NEW r \in Requests, NEW step \in RequestSteps,
         RequestAt(r, step)
  PROVE  request' \in RequestType /\ \A q \in Requests : request'[q].key = request[q].key
BY DEF RequestAt, RequestType

(* At moves one attempt to one of the steps.                               *)
LEMMA AtType ==
  ASSUME attempt \in AttemptType, NEW m \in Messages, NEW step \in AttemptSteps, At(m, step)
  PROVE  attempt' \in AttemptType
BY DEF At, AttemptType

(* An attempt at rest is a well-formed one.                                *)
LEMMA IdleType == Idle \in [at : AttemptSteps, saw : Snapshots]
BY DEF Idle, NothingRead, Snapshots, AttemptSteps, Running, ConsentStatuses

-----------------------------------------------------------------------------
(* Every step of MessagesService.send keeps the invariant.                 *)
LEMMA ApiStepIInv == ASSUME IInv, ApiStep PROVE IInv'
<1> USE QueueAssumption
<1> PICK r \in Requests : \/ LookUp(r)
                         \/ AssertOutboundAllowed(r)
                         \/ CreateMessage(r)
                         \/ Enqueue(r)
                         \/ RequestAborted(r)
  BY DEF ApiStep
<1> DEFINE k == request[r].key
<1>0. k \in Messages /\ request \in RequestType
  BY DEF IInv, TypeOK, RequestType
<1>1. CASE LookUp(r) \/ AssertOutboundAllowed(r) \/ RequestAborted(r)
  <2>1. PICK step \in RequestSteps \ {"created"} : RequestAt(r, step)
    BY <1>1 DEF LookUp, AssertOutboundAllowed, RequestAborted, RequestSteps
  <2>2. UNCHANGED <<dbVars, queuePaused, workVars>>
    BY <1>1 DEF LookUp, AssertOutboundAllowed, RequestAborted
  <2>3. TypeOK'
    BY <1>0, <2>1, <2>2, RequestAtType DEF IInv, TypeOK, RequestType, dbVars, workVars
  <2>4. \A m \in Messages : JobInv(m)' /\ StatusInv(m)' /\ CopyInv(m)'
    BY <2>2 DEF IInv, JobInv, StatusInv, CopyInv, dbVars, workVars
  <2>5. RequestInv'
    BY <1>0, <2>1, <2>2 DEF IInv, RequestInv, RequestAt, RequestType, dbVars
  <2> QED BY <2>3, <2>4, <2>5 DEF IInv
<1>2. CASE CreateMessage(r)
  <2>1. /\ UNCHANGED <<gateVars, workVars>>
        /\ \/ UNCHANGED <<status, today>> /\ RequestAt(r, "closed")
           \/ /\ status[k] = "NONE"
              /\ today' = today \cup {k}
              /\ \E st \in {"QUEUED", "BLOCKED"}, step \in {"created", "closed"} :
                    status' = [status EXCEPT ![k] = st] /\ RequestAt(r, step)
    BY <1>2 DEF CreateMessage
  <2>2. TypeOK'
    <3>1. request' \in RequestType
      BY <1>0, <2>1, RequestAtType DEF RequestSteps
    <3>2. status' \in [Messages -> MessageStatuses]
      BY <1>0, <2>1 DEF IInv, TypeOK, MessageStatuses
    <3>3. today' \subseteq Messages
      BY <1>0, <2>1 DEF IInv, TypeOK
    <3> QED BY <2>1, <3>1, <3>2, <3>3 DEF IInv, TypeOK, RequestType, gateVars, workVars
  <2>3. \A m \in Messages : JobInv(m)' /\ StatusInv(m)' /\ CopyInv(m)'
    BY <1>0, <2>1 DEF IInv, TypeOK, JobInv, StatusInv, CopyInv, workVars, Running, Settled
  <2>4. RequestInv'
    BY <1>0, <2>1 DEF IInv, TypeOK, RequestInv, RequestAt, RequestType
  <2> QED BY <2>2, <2>3, <2>4 DEF IInv
<1>3. CASE Enqueue(r)
  <2>1. TypeOK'
    <3>1. request' \in RequestType
      BY <1>0, <1>3, RequestAtType DEF Enqueue, RequestSteps
    <3>2. job' \in [Messages -> Jobs]
      BY <1>0, <1>3, JobOperators DEF Enqueue, IInv, TypeOK
    <3> QED BY <1>3, <3>1, <3>2 DEF Enqueue, IInv, TypeOK, RequestType, dbVars
  <2>2. \A m \in Messages : JobInv(m)' /\ StatusInv(m)' /\ CopyInv(m)'
    <3> SUFFICES ASSUME NEW m \in Messages PROVE JobInv(m)' /\ StatusInv(m)' /\ CopyInv(m)'
      OBVIOUS
    <3>1. status[k] # "NONE"
      BY <1>3 DEF Enqueue, IInv, RequestInv
    <3>2. job'[m].attempts = job[m].attempts
          /\ (job'[m].state = job[m].state
                \/ (m = k /\ job[m].state = "none" /\ job'[m].state = "waiting"))
      BY <1>0, <1>3 DEF Enqueue, IInv, TypeOK, Added, Jobs
    <3> QED BY <1>0, <1>3, <3>1, <3>2
        DEF Enqueue, IInv, TypeOK, JobInv, StatusInv, CopyInv, dbVars, Running, Settled
  <2>3. RequestInv'
    BY <1>0, <1>3 DEF Enqueue, IInv, RequestInv, RequestAt, RequestType, dbVars
  <2> QED BY <2>1, <2>2, <2>3 DEF IInv
<1> QED BY <1>1, <1>2, <1>3

-----------------------------------------------------------------------------
(* A step about message m alone: it is enough to look at m.                *)

MsgInv(m) == JobInv(m) /\ StatusInv(m) /\ CopyInv(m)

OnlyAbout(m) ==
    /\ today' = today
    /\ request' = request
    /\ \A n \in Messages \ {m} : /\ status'[n] = status[n]
                                 /\ job'[n] = job[n]
                                 /\ attempt'[n] = attempt[n]
                                 /\ delivered'[n] = delivered[n]
                                 /\ unconfirmed'[n] = unconfirmed[n]

(* A step about one message keeps the invariant when it keeps the types    *)
(* and the parts about that message.                                       *)
LEMMA OneMessageStep ==
  ASSUME IInv, NEW m \in Messages, TypeOK', OnlyAbout(m), MsgInv(m)',
         status[m] # "NONE" => status'[m] # "NONE"
  PROVE  IInv'
<1>1. ASSUME NEW n \in Messages PROVE MsgInv(n)'
  BY <1>1 DEF IInv, OnlyAbout, MsgInv, JobInv, StatusInv, CopyInv
<1>2. RequestInv'
  BY DEF IInv, TypeOK, RequestInv, OnlyAbout
<1> QED BY <1>1, <1>2 DEF IInv, MsgInv

(* Every await of processMessage, and the listener, keep the invariant.    *)
LEMMA WorkerStepIInv == ASSUME IInv, NEW m \in Messages, WorkerStep(m) PROVE IInv'
<1> USE QueueAssumption
<1>0. TypeOK /\ MsgInv(m) /\ job[m] \in Jobs /\ attempt[m].at \in AttemptSteps
  BY DEF IInv, MsgInv, TypeOK
<1>1. CASE StartAttempt(m)
  <2>1. \/ /\ status[m] \in Settled
           /\ job' = [job EXCEPT ![m] = Completed(Taken(@))]
           /\ attempt' = attempt
        \/ /\ status[m] \notin Settled
           /\ job' = [job EXCEPT ![m] = Taken(@)]
           /\ attempt' = [attempt EXCEPT ![m] = [at |-> "read", saw |-> RowsOf(m)]]
    BY <1>1 DEF StartAttempt
  <2>2. job[m].state = "waiting" /\ UNCHANGED <<dbVars, request, delivered, unconfirmed>>
    BY <1>1 DEF StartAttempt
  <2>3. TypeOK'
    <3>1. RowsOf(m) \in Snapshots
      BY <1>0, DeliveryAssumption DEF RowsOf, Snapshots, TypeOK
    <3>2. job' \in [Messages -> Jobs]
      BY <1>0, <2>1, JobOperators DEF TypeOK
    <3>3. attempt' \in [Messages -> [at : AttemptSteps, saw : Snapshots]]
      BY <1>0, <2>1, <3>1 DEF TypeOK, AttemptSteps, Running
    <3> QED BY <1>1, <3>2, <3>3, <1>0 DEF StartAttempt, TypeOK, dbVars
  <2>4. OnlyAbout(m)
    BY <1>0, <2>1, <2>2 DEF TypeOK, OnlyAbout, dbVars
  <2>5. MsgInv(m)' /\ (status[m] # "NONE" => status'[m] # "NONE")
    <3>1. /\ Taken(job[m]).state = "active"
          /\ Taken(job[m]).attempts = job[m].attempts
          /\ Completed(Taken(job[m])).state = "completed"
          /\ Completed(Taken(job[m])).attempts = job[m].attempts
      BY <1>0 DEF Taken, Completed, Jobs
    <3>2. status[m] \in MessageStatuses
      BY <1>0 DEF TypeOK
    <3> QED
      BY <1>0, <2>1, <2>2, <3>1, <3>2
      DEF TypeOK, MsgInv, JobInv, StatusInv, CopyInv, Running, Settled, MessageStatuses, dbVars
  <2> QED BY <2>3, <2>4, <2>5, OneMessageStep
<1>2. CASE CheckPolicy(m)
  <2>1. TypeOK'
    BY <1>0, <1>2, AtType
    DEF CheckPolicy, At, Block, TypeOK, AttemptType, AttemptSteps, Running, MessageStatuses,
        AccountStatuses, dbVars, gateVars
  <2>2. OnlyAbout(m)
    BY <1>0, <1>2 DEF CheckPolicy, At, Block, TypeOK, OnlyAbout, dbVars
  <2>3. MsgInv(m)' /\ (status[m] # "NONE" => status'[m] # "NONE")
    BY <1>0, <1>2
    DEF CheckPolicy, At, Block, TypeOK, Jobs, MsgInv, JobInv, StatusInv, CopyInv, Running, Settled,
        dbVars
  <2> QED BY <2>1, <2>2, <2>3, OneMessageStep
<1>3. CASE CheckSafety(m)
  <2>1. TypeOK'
    BY <1>0, <1>3, AtType
    DEF CheckSafety, At, Block, TypeOK, AttemptType, AttemptSteps, Running, MessageStatuses,
        AccountStatuses, dbVars, gateVars
  <2>2. OnlyAbout(m)
    BY <1>0, <1>3 DEF CheckSafety, At, Block, TypeOK, OnlyAbout, dbVars
  <2>3. MsgInv(m)' /\ (status[m] # "NONE" => status'[m] # "NONE")
    <3>1. \/ At(m, "cleared") /\ UNCHANGED status
          \/ Block(m)
      BY <1>3 DEF CheckSafety
    <3>2. /\ attempt[m].at = "gated"
          /\ UNCHANGED <<today, job, delivered, unconfirmed>>
      BY <1>3 DEF CheckSafety
    <3> QED BY <1>0, <3>1, <3>2
    DEF At, Block, TypeOK, Jobs, MsgInv, JobInv, StatusInv, CopyInv, Running, Settled,
        dbVars
  <2> QED BY <2>1, <2>2, <2>3, OneMessageStep
<1>4. CASE MarkSending(m)
  <2>1. TypeOK'
    BY <1>0, <1>4, AtType
    DEF MarkSending, At, TypeOK, AttemptType, AttemptSteps, Running, MessageStatuses,
        AccountStatuses, dbVars, gateVars
  <2>2. OnlyAbout(m)
    BY <1>0, <1>4 DEF MarkSending, At, TypeOK, OnlyAbout, dbVars
  <2>3. MsgInv(m)' /\ (status[m] # "NONE" => status'[m] # "NONE")
    BY <1>0, <1>4
    DEF MarkSending, At, TypeOK, Jobs, MsgInv, JobInv, StatusInv, CopyInv, Running, Settled,
        dbVars
  <2> QED BY <2>1, <2>2, <2>3, OneMessageStep
<1>5. CASE GetToken(m)
  <2>1. TypeOK'
    BY <1>0, <1>5, AtType
    DEF GetToken, At, TypeOK, AttemptType, AttemptSteps, Running, MessageStatuses,
        AccountStatuses, Pauses, dbVars, gateVars
  <2>2. OnlyAbout(m)
    BY <1>0, <1>5 DEF GetToken, At, TypeOK, OnlyAbout, dbVars
  <2>3. MsgInv(m)' /\ (status[m] # "NONE" => status'[m] # "NONE")
    BY <1>0, <1>5
    DEF GetToken, At, TypeOK, Jobs, MsgInv, JobInv, StatusInv, CopyInv, Running, Settled,
        dbVars
  <2> QED BY <2>1, <2>2, <2>3, OneMessageStep
<1>6. CASE PlatformAccepts(m)
  <2>1. TypeOK'
    <3>1. delivered' \in [Messages -> Nat]
      BY <1>0, <1>6 DEF PlatformAccepts, TypeOK
    <3>2. attempt' \in AttemptType
      BY <1>0, <1>6, AtType DEF PlatformAccepts, TypeOK, AttemptType, AttemptSteps, Running
    <3> QED BY <1>0, <1>6, <3>1, <3>2 DEF PlatformAccepts, TypeOK, AttemptType, dbVars
  <2>2. OnlyAbout(m)
    BY <1>0, <1>6 DEF PlatformAccepts, At, TypeOK, OnlyAbout, dbVars
  <2>3. MsgInv(m)' /\ (status[m] # "NONE" => status'[m] # "NONE")
    BY <1>0, <1>6
    DEF PlatformAccepts, At, TypeOK, Jobs, MsgInv, JobInv, StatusInv, CopyInv, Running, Settled,
        dbVars
  <2> QED BY <2>1, <2>2, <2>3, OneMessageStep
<1>7. CASE RecordSent(m)
  <2>1. TypeOK'
    BY <1>0, <1>7, AtType
    DEF RecordSent, At, TypeOK, AttemptType, AttemptSteps, Running, MessageStatuses,
        AccountStatuses, dbVars, gateVars
  <2>2. OnlyAbout(m)
    BY <1>0, <1>7 DEF RecordSent, At, TypeOK, OnlyAbout, dbVars
  <2>3. MsgInv(m)' /\ (status[m] # "NONE" => status'[m] # "NONE")
    BY <1>0, <1>7
    DEF RecordSent, At, TypeOK, Jobs, MsgInv, JobInv, StatusInv, CopyInv, Running, Settled,
        dbVars
  <2> QED BY <2>1, <2>2, <2>3, OneMessageStep
<1>8. CASE FinishAttempt(m)
  <2>1. TypeOK'
    BY <1>0, <1>8, IdleType, JobOperators
    DEF FinishAttempt, EndAttempt, Completed, Idle, TypeOK, AttemptType, AttemptSteps, Running, MessageStatuses,
        AccountStatuses, dbVars, gateVars
  <2>2. OnlyAbout(m)
    BY <1>0, <1>8 DEF FinishAttempt, EndAttempt, Completed, Idle, TypeOK, OnlyAbout, dbVars
  <2>3. MsgInv(m)' /\ (status[m] # "NONE" => status'[m] # "NONE")
    BY <1>0, <1>8
    DEF FinishAttempt, EndAttempt, Completed, Idle, TypeOK, Jobs, MsgInv, JobInv, StatusInv, CopyInv, Running, Settled,
        dbVars
  <2> QED BY <2>1, <2>2, <2>3, OneMessageStep
<1>9. CASE OnFailed(m)
  <2>1. TypeOK'
    BY <1>0, <1>9, IdleType
    DEF OnFailed, EndAttempt, Idle, TypeOK, AttemptType, AttemptSteps, Running, MessageStatuses,
        AccountStatuses, dbVars, gateVars
  <2>2. OnlyAbout(m)
    BY <1>0, <1>9 DEF OnFailed, EndAttempt, Idle, TypeOK, OnlyAbout, dbVars
  <2>3. MsgInv(m)' /\ (status[m] # "NONE" => status'[m] # "NONE")
    BY <1>0, <1>9
    DEF OnFailed, EndAttempt, Idle, TypeOK, Jobs, MsgInv, JobInv, StatusInv, CopyInv, Running, Settled,
        dbVars
  <2> QED BY <2>1, <2>2, <2>3, OneMessageStep
<1> QED BY <1>1, <1>2, <1>3, <1>4, <1>5, <1>6, <1>7, <1>8, <1>9 DEF WorkerStep

-----------------------------------------------------------------------------
(* Faults.  Every throwing step has the same effect on job and attempt.    *)

Thrown1(m) ==
    /\ job' = [job EXCEPT ![m] = Thrown(@)]
    /\ attempt' = [attempt EXCEPT ![m] =
          IF LastAttempt(job[m]) THEN [at |-> "onFailed", saw |-> NothingRead] ELSE Idle]

(* A throw leaves a well-formed job and attempt: the listener runs exactly *)
(* when the last attempt was used.                                         *)
LEMMA ThrowStep ==
  ASSUME IInv, NEW m \in Messages, attempt[m].at \in Running, Thrown1(m)
  PROVE  /\ job' \in [Messages -> Jobs]
         /\ attempt' \in AttemptType
         /\ JobInv(m)'
         /\ job'[m].state \in {"delayed", "failed"}
         /\ attempt'[m].at \in {"idle", "onFailed"}
         /\ \A n \in Messages \ {m} : job'[n] = job[n] /\ attempt'[n] = attempt[n]
<1> USE QueueAssumption
<1>0. /\ job \in [Messages -> Jobs]
      /\ attempt \in AttemptType
      /\ job[m].attempts < MaxAttempts
  BY DEF IInv, TypeOK, AttemptType, JobInv
<1>1. job' \in [Messages -> Jobs]
  BY <1>0, JobOperators DEF Thrown1
<1>2. attempt' \in AttemptType
  <2>1. [at |-> "onFailed", saw |-> NothingRead] \in [at : AttemptSteps, saw : Snapshots]
    BY DEF NothingRead, Snapshots, AttemptSteps, ConsentStatuses
  <2> QED BY <1>0, <2>1, IdleType DEF Thrown1, AttemptType
<1>3. /\ job'[m] = Thrown(job[m])
      /\ attempt'[m].at = IF LastAttempt(job[m]) THEN "onFailed" ELSE "idle"
  BY <1>0 DEF Thrown1, AttemptType, Idle
<1>4. JobInv(m)' /\ job'[m].state \in {"delayed", "failed"} /\ attempt'[m].at \in {"idle", "onFailed"}
  BY <1>0, <1>3, ThrownAttempts DEF JobInv, Running
<1>5. \A n \in Messages \ {m} : job'[n] = job[n] /\ attempt'[n] = attempt[n]
  BY <1>0 DEF Thrown1, AttemptType
<1> QED BY <1>1, <1>2, <1>4, <1>5

(* So does everything that can go wrong in an attempt.                     *)
LEMMA FaultStepIInv == ASSUME IInv, NEW m \in Messages, FaultStep(m) PROVE IInv'
<1> USE QueueAssumption
<1>0. TypeOK /\ MsgInv(m) /\ job[m] \in Jobs /\ attempt[m].at \in AttemptSteps
  BY DEF IInv, MsgInv, TypeOK
<1>1. CASE DeferForRate(m)
  <2>1. TypeOK'
    BY <1>0, <1>1, IdleType, JobOperators DEF DeferForRate, EndAttempt, TypeOK, dbVars
  <2>2. OnlyAbout(m)
    BY <1>0, <1>1 DEF DeferForRate, EndAttempt, TypeOK, OnlyAbout, dbVars
  <2>3. MsgInv(m)' /\ (status[m] # "NONE" => status'[m] # "NONE")
    BY <1>0, <1>1
    DEF DeferForRate, EndAttempt, Deferred, Idle, TypeOK, Jobs, MsgInv, JobInv, StatusInv,
        CopyInv, Running, Settled, dbVars
  <2> QED BY <2>1, <2>2, <2>3, OneMessageStep
<1>2. CASE AttemptFails(m) \/ AnswerLost(m) \/ TokenRefused(m)
  <2>1. /\ attempt[m].at \in Running
        /\ Thrown1(m)
        /\ UNCHANGED <<status, today, request, contact, listed, pause, entitled, outboundPaused,
                       queuePaused>>
        /\ account' \in {account, "REAUTH_REQUIRED"}
        /\ overtaken' \subseteq overtaken \cup Messages
    BY <1>2 DEF AttemptFails, AnswerLost, TokenRefused, Throw, Thrown1, Running, dbVars
  <2>2. /\ delivered' \in [Messages -> Nat]
        /\ unconfirmed' \in [Messages -> Nat]
        /\ \A n \in Messages \ {m} : /\ delivered'[n] = delivered[n]
                                     /\ unconfirmed'[n] = unconfirmed[n]
        /\ \/ /\ delivered'[m] = delivered[m]
              /\ unconfirmed'[m] = unconfirmed[m] + (IF attempt[m].at = "accepted" THEN 1 ELSE 0)
           \/ /\ attempt[m].at = "tokened"
              /\ delivered'[m] = delivered[m] + 1
              /\ unconfirmed'[m] = unconfirmed[m] + 1
    <3>1. CASE AttemptFails(m)
      BY <1>0, <3>1 DEF AttemptFails, TypeOK
    <3>2. CASE AnswerLost(m)
      BY <1>0, <3>2 DEF AnswerLost, TypeOK
    <3>3. CASE TokenRefused(m)
      BY <1>0, <3>3 DEF TokenRefused, TypeOK
    <3> QED BY <1>2, <3>1, <3>2, <3>3
  <2>3. TypeOK'
    BY <1>0, <2>1, <2>2, ThrowStep DEF TypeOK, AttemptType, AccountStatuses
  <2>4. OnlyAbout(m)
    BY <2>1, <2>2, ThrowStep DEF OnlyAbout
  <2>5. StatusInv(m)'
    BY <1>0, <2>1, ThrowStep DEF MsgInv, StatusInv, JobInv, Running, Settled
  <2>6. CopyInv(m)'
    <3>1. attempt'[m].at # "accepted" /\ status' = status
      BY <2>1, ThrowStep
    <3>2. attempt[m].at = "accepted" => status[m] # "SENT"
      BY <1>0 DEF MsgInv, StatusInv, Running
    <3>3. attempt[m].at = "tokened" => status[m] # "SENT"
      BY <1>0 DEF MsgInv, StatusInv, Running
    <3>4. delivered[m] \in Nat /\ unconfirmed[m] \in Nat
      BY <1>0 DEF TypeOK
    <3> QED BY <1>0, <2>2, <3>1, <3>2, <3>3, <3>4 DEF MsgInv, CopyInv
  <2> QED BY <2>1, <2>3, <2>4, <2>5, <2>6, ThrowStep, OneMessageStep DEF MsgInv
<1>3. CASE WorkerLost(m)
  <2>1. TypeOK'
    <3>1. unconfirmed' \in [Messages -> Nat]
      BY <1>0, <1>3 DEF WorkerLost, TypeOK
    <3> QED BY <1>0, <1>3, <3>1, IdleType DEF WorkerLost, EndAttempt, TypeOK, dbVars
  <2>2. OnlyAbout(m)
    BY <1>0, <1>3 DEF WorkerLost, EndAttempt, TypeOK, OnlyAbout, dbVars
  <2>3. MsgInv(m)' /\ (status[m] # "NONE" => status'[m] # "NONE")
    BY <1>0, <1>3
    DEF WorkerLost, EndAttempt, Idle, TypeOK, Jobs, MsgInv, JobInv, StatusInv, CopyInv,
        Running, Settled, dbVars
  <2> QED BY <2>1, <2>2, <2>3, OneMessageStep
<1> QED BY <1>1, <1>2, <1>3 DEF FaultStep

(* So do BullMQ's own steps.                                               *)
LEMMA QueueStepIInv == ASSUME IInv, NEW m \in Messages, QueueStep(m) PROVE IInv'
<1> USE QueueAssumption
<1>0. TypeOK /\ MsgInv(m) /\ job[m] \in Jobs
  BY DEF IInv, MsgInv, TypeOK
<1>1. TypeOK'
  BY <1>0, JobOperators DEF QueueStep, JobStalls, JobPromoted, TypeOK, dbVars
<1>2. OnlyAbout(m)
  BY <1>0 DEF QueueStep, JobStalls, JobPromoted, TypeOK, OnlyAbout, dbVars
<1>3. MsgInv(m)' /\ (status[m] # "NONE" => status'[m] # "NONE")
  <2>1. /\ UNCHANGED <<status, today, attempt, delivered, unconfirmed>>
        /\ job[m].state \in {"active", "delayed"}
        /\ job[m].state = "active" => attempt[m].at = "idle"
        /\ \/ job'[m] = Stalled(job[m])
           \/ job'[m] = Promoted(job[m])
    BY <1>0 DEF QueueStep, JobStalls, JobPromoted, TypeOK, dbVars
  <2>2. job'[m].attempts = job[m].attempts /\ job'[m].state \in {"waiting", "failed"}
    BY <1>0, <2>1 DEF Stalled, Promoted, Jobs
  <2> QED BY <1>0, <2>1, <2>2 DEF MsgInv, JobInv, StatusInv, CopyInv, Running, Settled
<1> QED BY <1>1, <1>2, <1>3, OneMessageStep

-----------------------------------------------------------------------------
(* The operators only touch what the gates read, and midnight the count.   *)
LEMMA OperatorFrame ==
  ASSUME OperatorStep
  PROVE  /\ UNCHANGED <<status, request, job, attempt, delivered, unconfirmed>>
         /\ today' \in {today, {}}
<1>1. CASE Midnight
  BY <1>1 DEF Midnight, workVars
<1>2. CASE ~Midnight
  BY <1>2 DEF OperatorStep, UpdateConsent, UpsertContact, RecordConsent, ImportContacts, WebhookOptOut,
              Suppress, SuppressGlobally, SuppressAs, FlagContact, Unsuppress, SetAccountPaused,
              SetEntitled, SetEmergencyStop, PauseOrResumeQueue, EnvUnchanged
<1> QED BY <1>1, <1>2

(* What a consent written by a person leaves is a contact row.             *)
LEMMA ConsentingType ==
  ASSUME NEW s \in ConsentStatuses
  PROVE  Consenting(s) \in [consent : ConsentStatuses, flagged : BOOLEAN]
BY DEF Consenting

(* So the operators keep the invariant.                                    *)
LEMMA OperatorStepIInv == ASSUME IInv, OperatorStep PROVE IInv'
<1>1. /\ UNCHANGED <<status, request, job, attempt, delivered, unconfirmed>>
      /\ today' \in {today, {}}
  BY OperatorFrame
<1>2. TypeOK'
  <2>1. ASSUME NEW c \in Contacts, NEW row \in [consent : ConsentStatuses, flagged : BOOLEAN],
               WriteContact(c, row)
        PROVE  /\ contact' \in [Contacts -> [consent : ConsentStatuses, flagged : BOOLEAN]]
               /\ overtaken' \subseteq Messages
    BY <2>1 DEF WriteContact, Overtake, IInv, TypeOK
  <2>2. ASSUME NEW c \in Contacts, NEW s \in ConsentStatuses, RecordConsent(c, s)
        PROVE  TypeOK'
    BY <1>1, <2>1, <2>2, ConsentingType DEF RecordConsent, IInv, TypeOK
  <2>8. ASSUME NEW cs \in SUBSET Contacts, NEW given \in [cs -> ConsentStatuses], ImportContacts(given)
        PROVE  TypeOK'
    <3>1. contact' \in [Contacts -> [consent : ConsentStatuses, flagged : BOOLEAN]]
      BY <2>8, ConsentingType DEF ImportContacts, IInv, TypeOK
    <3>2. overtaken' \subseteq Messages
      BY <2>8 DEF ImportContacts, Overtake, IInv, TypeOK
    <3> QED BY <1>1, <2>8, <3>1, <3>2 DEF ImportContacts, IInv, TypeOK
  <2>3. ASSUME NEW c \in Contacts, WebhookOptOut(c)
        PROVE  TypeOK'
    BY <1>1, <2>1, <2>3 DEF WebhookOptOut, IInv, TypeOK, ConsentStatuses
  <2>4. ASSUME NEW c \in Contacts, Suppress(c) \/ SuppressGlobally(c) \/ FlagContact(c)
        PROVE  TypeOK'
    <3>1. /\ \A s \in ConsentStatuses : [consent |-> s, flagged |-> TRUE]
                \in [consent : ConsentStatuses, flagged : BOOLEAN]
          /\ contact[c].consent \in ConsentStatuses /\ "OPTED_OUT" \in ConsentStatuses
      BY DEF IInv, TypeOK, ConsentStatuses
    <3> QED BY <1>1, <2>1, <2>4, <3>1
        DEF Suppress, SuppressGlobally, SuppressAs, FlagContact, Overtake, IInv, TypeOK
  <2>5. ASSUME NEW c \in Contacts, Unsuppress(c)
        PROVE  TypeOK'
    BY <1>1, <2>5 DEF Unsuppress, IInv, TypeOK
  <2>6. ASSUME NEW b \in BOOLEAN, SetAccountPaused(b) \/ SetEntitled(b) \/ SetEmergencyStop(b)
        PROVE  TypeOK'
    BY <1>1, <2>6 DEF SetAccountPaused, SetEntitled, SetEmergencyStop, Overtake, IInv, TypeOK,
                      AccountStatuses, Pauses
  <2>7. ASSUME Midnight \/ \E b \in BOOLEAN : PauseOrResumeQueue(b)
        PROVE  TypeOK'
    BY <1>1, <2>7 DEF PauseOrResumeQueue, Midnight, IInv, TypeOK, gateVars, workVars
  <2> QED BY <2>2, <2>3, <2>4, <2>5, <2>6, <2>7, <2>8 DEF OperatorStep, UpdateConsent, UpsertContact
<1>3. \A m \in Messages : JobInv(m)' /\ StatusInv(m)' /\ CopyInv(m)'
  BY <1>1 DEF IInv, JobInv, StatusInv, CopyInv
<1>4. RequestInv'
  BY <1>1 DEF IInv, RequestInv
<1> QED BY <1>2, <1>3, <1>4 DEF IInv

(* Every step of the system keeps the invariant.                           *)
LEMMA NextIInv == IInv /\ [Next]_vars => IInv'
<1> SUFFICES ASSUME IInv, [Next]_vars PROVE IInv'
  OBVIOUS
<1>1. CASE Next
  BY <1>1, ApiStepIInv, WorkerStepIInv, FaultStepIInv, QueueStepIInv, OperatorStepIInv DEF Next
<1>2. CASE UNCHANGED vars
  BY <1>2 DEF vars, dbVars, IInv, TypeOK, JobInv, StatusInv, CopyInv, RequestInv
<1> QED BY <1>1, <1>2

-----------------------------------------------------------------------------
(* The invariant the theorems below rest on.                               *)
THEOREM InvariantHolds == Spec => []IInv
<1> QED BY InitIInv, NextIInv, PTL DEF Spec

(* Every reachable value of every variable has its type: in particular     *)
(* BullMQ never counts more than MaxAttempts attempts.                     *)
THEOREM TypeCorrect == Spec => []TypeOK
<1>1. IInv => TypeOK
  BY DEF IInv
<1> QED BY <1>1, InvariantHolds, PTL

(* FAILED is only ever written after the last attempt.                     *)
THEOREM FailureIsFinal == Spec => []FailedOnlyAfterLastAttempt
<1>1. IInv => FailedOnlyAfterLastAttempt
  BY DEF IInv, StatusInv, FailedOnlyAfterLastAttempt
<1> QED BY <1>1, InvariantHolds, PTL

(* A completed job has settled its message.                                *)
THEOREM CompletionSettles == Spec => []CompletedJobSettledMessage
<1>1. IInv => CompletedJobSettledMessage
  BY DEF IInv, StatusInv, CompletedJobSettledMessage
<1> QED BY <1>1, InvariantHolds, PTL

(* Copies beyond the first come only from accepted sends whose result was  *)
(* not recorded.                                                           *)
THEOREM CopiesAreAccountedFor == Spec => []ExtraCopyNeedsUnconfirmedSend
<1>1. IInv => ExtraCopyNeedsUnconfirmedSend
  BY DEF IInv, CopyInv, ExtraCopyNeedsUnconfirmedSend
<1> QED BY <1>1, InvariantHolds, PTL

-----------------------------------------------------------------------------
(* The daily quota.  Only the worker's policy check adds to Dispatched, and *)
(* it counts all of today, of which Dispatched is a part.                  *)

(* The messages of a day are finitely many.                                *)
LEMMA TodayIsFinite == TypeOK => IsFiniteSet(today)
BY DeliveryAssumption, FS_Subset DEF TypeOK

(* Dispatching less never breaks the limit.                                *)
LEMMA DispatchShrinks ==
  ASSUME TypeOK, Dispatched' \subseteq Dispatched, DispatchWithinDailyLimit
  PROVE  DispatchWithinDailyLimit'
<1>1. Dispatched \subseteq today
  BY DEF Dispatched
<1>2. IsFiniteSet(Dispatched)
  BY <1>1, TodayIsFinite, FS_Subset
<1>3. IsFiniteSet(Dispatched') /\ Cardinality(Dispatched') <= Cardinality(Dispatched)
  BY <1>2, FS_Subset
<1>4. Cardinality(Dispatched) \in Nat /\ Cardinality(Dispatched') \in Nat
  BY <1>2, <1>3, FS_CardinalityType
<1> QED BY <1>3, <1>4, DeliveryAssumption DEF DispatchWithinDailyLimit

(* No step dispatches beyond the limit.                                    *)
LEMMA DispatchStep ==
  ASSUME IInv, DispatchWithinDailyLimit, [Next]_vars
  PROVE  DispatchWithinDailyLimit'
<1>0. TypeOK /\ TypeOK'
  BY NextIInv DEF IInv
<1>1. ASSUME UNCHANGED <<today, attempt, delivered>>
      PROVE  DispatchWithinDailyLimit'
  BY <1>0, <1>1, DispatchShrinks DEF Dispatched
<1>2. CASE ApiStep
  <2>1. UNCHANGED <<attempt, delivered>>
    BY <1>2 DEF ApiStep, LookUp, AssertOutboundAllowed, CreateMessage, Enqueue, RequestAborted,
                workVars
  <2>2. CASE today' = today
    BY <1>1, <2>1, <2>2
  <2>3. CASE today' # today
    <3>1. PICK r \in Requests : CreateMessage(r)
      BY <1>2, <2>3 DEF ApiStep, LookUp, AssertOutboundAllowed, Enqueue, RequestAborted, dbVars
    <3>2. PICK k \in Messages : status[k] = "NONE" /\ today' = today \cup {k}
      BY <1>0, <2>3, <3>1 DEF CreateMessage, TypeOK
    <3>3. delivered[k] = 0 /\ attempt[k].at \notin Running
      BY <3>2 DEF IInv, StatusInv, JobInv
    <3>4. Dispatched' \subseteq Dispatched
      BY <2>1, <3>2, <3>3 DEF Dispatched, PastPolicy
    <3> QED BY <1>0, <3>4, DispatchShrinks
  <2> QED BY <2>2, <2>3
<1>3. ASSUME NEW m \in Messages, WorkerStep(m) \/ FaultStep(m) \/ QueueStep(m), ~CheckPolicy(m)
      PROVE  DispatchWithinDailyLimit'
  <2> USE <1>0, <1>3 DEF TypeOK
  <2>1. today' = today
    BY DEF WorkerStep, FaultStep, QueueStep, StartAttempt, CheckSafety, MarkSending, GetToken,
           PlatformAccepts, RecordSent, FinishAttempt, OnFailed, DeferForRate, AttemptFails,
           AnswerLost, TokenRefused, WorkerLost, JobStalls, JobPromoted, dbVars
  <2>2. /\ attempt'[m].at \in PastPolicy \ {"settled"} => attempt[m].at \in PastPolicy
        /\ attempt[m].at = "settled" => attempt'[m].at \notin PastPolicy \ {"settled"}
        /\ delivered'[m] > 0 => delivered[m] > 0 \/ attempt[m].at = "tokened"
    <3>1. CASE WorkerStep(m)
      <4>1. CASE StartAttempt(m)
        BY <4>1 DEF StartAttempt, PastPolicy, Running
      <4>2. CASE CheckSafety(m)
        <5>1. delivered' = delivered /\ (At(m, "cleared") \/ At(m, "settled"))
          BY <4>2 DEF CheckSafety, Block
        <5> QED BY <4>2, <5>1 DEF CheckSafety, At, PastPolicy, Running
      <4>3. CASE MarkSending(m) \/ GetToken(m) \/ PlatformAccepts(m) \/ RecordSent(m)
        BY <4>3 DEF MarkSending, GetToken, PlatformAccepts, RecordSent, At, PastPolicy, Running
      <4>4. CASE FinishAttempt(m) \/ OnFailed(m)
        BY <4>4 DEF FinishAttempt, OnFailed, EndAttempt, Idle, PastPolicy, Running
      <4> QED BY <1>3, <3>1, <4>1, <4>2, <4>3, <4>4 DEF WorkerStep
    <3>2. CASE FaultStep(m)
      BY <3>2 DEF FaultStep, DeferForRate, AttemptFails, AnswerLost, TokenRefused, WorkerLost,
         Throw, EndAttempt, Idle, PastPolicy, Running
    <3>3. CASE QueueStep(m)
      BY <3>3 DEF QueueStep, JobStalls, JobPromoted, PastPolicy
    <3> QED BY <3>1, <3>2, <3>3
  <2>3. ASSUME NEW n \in Messages \ {m}
        PROVE  attempt'[n] = attempt[n] /\ delivered'[n] = delivered[n]
    <3>1. CASE WorkerStep(m)
      BY <2>3, <3>1 DEF WorkerStep, StartAttempt, CheckSafety, MarkSending, GetToken,
         PlatformAccepts, RecordSent, FinishAttempt, OnFailed, At, Block, EndAttempt
    <3>2. CASE FaultStep(m)
      BY <2>3, <3>2 DEF FaultStep, DeferForRate, AttemptFails, AnswerLost, TokenRefused,
         WorkerLost, Throw, EndAttempt
    <3>3. CASE QueueStep(m)
      BY <2>3, <3>3 DEF QueueStep, JobStalls, JobPromoted
    <3> QED BY <3>1, <3>2, <3>3
  <2>4. Dispatched' \subseteq Dispatched
    BY <2>1, <2>2, <2>3 DEF Dispatched, PastPolicy, Running
  <2> QED BY <2>4, DispatchShrinks
<1>4. ASSUME NEW m \in Messages, CheckPolicy(m)
      PROVE  DispatchWithinDailyLimit'
  <2>1. UNCHANGED <<today, delivered>>
    BY <1>4 DEF CheckPolicy
  <2>2. CASE OutboundAllowed(0)
    <3>1. Dispatched' \subseteq today
      BY <2>1 DEF Dispatched
    <3>2. Cardinality(today) \in Nat /\ IsFiniteSet(today)
      BY <1>0, TodayIsFinite, FS_CardinalityType
    <3>3. IsFiniteSet(Dispatched') /\ Cardinality(Dispatched') <= Cardinality(today)
      BY <3>1, <3>2, FS_Subset
    <3>4. Cardinality(Dispatched') \in Nat
      BY <3>3, FS_CardinalityType
    <3> QED BY <2>2, <3>2, <3>3, <3>4, DeliveryAssumption
            DEF OutboundAllowed, DispatchWithinDailyLimit
  <2>3. CASE ~OutboundAllowed(0)
    <3>1. At(m, "settled")
      BY <1>4, <2>3 DEF CheckPolicy, Block
    <3>2. Dispatched' \subseteq Dispatched
      BY <1>0, <2>1, <3>1 DEF Dispatched, At, TypeOK, PastPolicy, Running
    <3> QED BY <1>0, <3>2, DispatchShrinks
  <2> QED BY <2>2, <2>3
<1>5. CASE OperatorStep
  <2>1. /\ UNCHANGED <<attempt, delivered>>
        /\ today' \in {today, {}}
    BY <1>5, OperatorFrame
  <2>2. Dispatched' \subseteq Dispatched
    BY <2>1 DEF Dispatched
  <2> QED BY <1>0, <2>2, DispatchShrinks
<1>6. CASE UNCHANGED vars
  BY <1>1, <1>6 DEF vars, dbVars
<1> QED BY <1>2, <1>3, <1>4, <1>5, <1>6 DEF Next

(* Of the messages created on one day no more than the daily limit are     *)
(* dispatched on that day, however many requests and attempts race.        *)
THEOREM QuotaHolds == Spec => []DispatchWithinDailyLimit
<1>1. Init => DispatchWithinDailyLimit
  <2> SUFFICES ASSUME Init PROVE DispatchWithinDailyLimit
    OBVIOUS
  <2>1. Dispatched = {}
    BY DEF Init, Dispatched
  <2> QED BY <2>1, FS_EmptySet, DeliveryAssumption DEF DispatchWithinDailyLimit
<1> QED BY <1>1, InvariantHolds, DispatchStep, PTL DEF Spec

-----------------------------------------------------------------------------
(* A final status is never overwritten.                                    *)

(* No step changes a final status.                                         *)
LEMMA FinalStatusStep ==
  ASSUME IInv, [Next]_vars, NEW m \in Messages, status[m] \in Settled \cup {"FAILED"}
  PROVE  status'[m] = status[m]
<1>0. TypeOK /\ StatusInv(m) /\ JobInv(m)
  BY DEF IInv
<1>1. CASE ApiStep
  BY <1>0, <1>1 DEF ApiStep, LookUp, AssertOutboundAllowed, CreateMessage, Enqueue,
                    RequestAborted, TypeOK, dbVars, Settled
<1>2. ASSUME NEW n \in Messages, WorkerStep(n)
      PROVE  status'[m] = status[m]
  <2>1. CASE StartAttempt(n) \/ GetToken(n) \/ PlatformAccepts(n) \/ FinishAttempt(n)
    BY <2>1 DEF StartAttempt, GetToken, PlatformAccepts, FinishAttempt, dbVars
  <2>2. CASE CheckPolicy(n) \/ CheckSafety(n)
    <3>1. attempt[n].at \in {"read", "gated"} /\ (status' = status \/ Block(n))
      BY <2>2 DEF CheckPolicy, CheckSafety
    <3> QED BY <1>0, <3>1 DEF Block, StatusInv, TypeOK, Running, Settled
  <2>3. CASE MarkSending(n) \/ RecordSent(n)
    BY <1>0, <2>3 DEF MarkSending, RecordSent, StatusInv, TypeOK, Running, Settled
  <2>4. CASE OnFailed(n)
    BY <1>0, <2>4 DEF OnFailed, TypeOK, Settled
  <2> QED BY <1>2, <2>1, <2>2, <2>3, <2>4 DEF WorkerStep
<1>3. ASSUME NEW n \in Messages, FaultStep(n) \/ QueueStep(n)
      PROVE  status'[m] = status[m]
  BY <1>3 DEF FaultStep, QueueStep, DeferForRate, AttemptFails, AnswerLost, TokenRefused,
              WorkerLost, JobStalls, JobPromoted, dbVars
<1>4. CASE OperatorStep
  BY <1>4, OperatorFrame
<1>5. CASE UNCHANGED vars
  BY <1>5 DEF vars, dbVars
<1> QED BY <1>1, <1>2, <1>3, <1>4, <1>5 DEF Next

(* A message that is SENT, BLOCKED or FAILED keeps that status for ever.   *)
THEOREM FinalStatusHolds == Spec => FinalStatusStays
<1>1. IInv /\ [Next]_vars =>
        [\A m \in Messages : status[m] \in Settled \cup {"FAILED"} => status'[m] = status[m]]_vars
  BY FinalStatusStep
<1> QED BY <1>1, InvariantHolds, PTL DEF Spec, FinalStatusStays

-----------------------------------------------------------------------------
(* What an attempt that nothing has overtaken still knows to be true.      *)

Fresh(m) ==
    (attempt[m].at \in Running /\ m \notin overtaken) =>
        /\ attempt[m].saw.connected => account = "CONNECTED"
        /\ ContactAllows(m, attempt[m].saw) => ContactAllows(m, contact[Recipient[m]])
        /\ attempt[m].at \in PastPolicy \ {"settled"} =>
              attempt[m].saw.connected /\ entitled /\ ~outboundPaused
        /\ attempt[m].at \in PastSafety \ {"settled"} =>
              ContactAllows(m, attempt[m].saw) /\ Recipient[m] \notin listed

(* What the worker allows is allowed by the contact row it read and by the *)
(* suppression entries there are.                                          *)
LEMMA AllowedMeansContactAllows ==
  ASSUME NEW m \in Messages, NEW saw \in Snapshots,
         evaluateMessageSafety(WorkerContext(FactsFor(m, saw, TRUE))) = "ALLOWED"
  PROVE  ContactAllows(m, saw) /\ Recipient[m] \notin listed
<1>1. /\ WorkerContext(FactsFor(m, saw, TRUE)).consentStatus = saw.consent
      /\ WorkerContext(FactsFor(m, saw, TRUE)).suppressed <=> (Recipient[m] \in listed \/ saw.flagged)
      /\ WorkerContext(FactsFor(m, saw, TRUE)).promotional <=> m \in Promotional
  BY DEF WorkerContext, FactsFor
<1> QED BY <1>1 DEF evaluateMessageSafety, ContactAllows

(* An intervention overtakes every attempt whose knowledge it makes stale. *)
LEMMA FreshOperator ==
  ASSUME IInv, NEW m \in Messages, Fresh(m), OperatorStep
  PROVE  Fresh(m)'
<1>0. contact \in [Contacts -> [consent : ConsentStatuses, flagged : BOOLEAN]] /\ Recipient[m] \in Contacts
  BY DeliveryAssumption DEF IInv, TypeOK
<1>1. attempt' = attempt
  BY OperatorFrame
<1>2. ASSUME NEW c \in Contacts, NEW r \in [consent : ConsentStatuses, flagged : BOOLEAN],
             WriteContact(c, r), UNCHANGED <<account, entitled, outboundPaused>>,
             listed' = listed \/ (listed' = listed \cup {c} /\ ~ContactAllows(m, r))
      PROVE  Fresh(m)'
  <2>1. CASE Recipient[m] = c
    <3>1. contact'[Recipient[m]] = r
      BY <1>0, <1>2, <2>1 DEF WriteContact
    <3>2. CASE ContactAllows(m, r)
      <4>1. overtaken \subseteq overtaken' /\ ContactAllows(m, contact[Recipient[m]])' /\ listed' = listed
        BY <1>2, <3>1, <3>2 DEF WriteContact, Overtake, ContactAllows
      <4> QED BY <1>1, <1>2, <4>1 DEF Fresh, ContactAllows
    <3>3. CASE ~ContactAllows(m, r)
      <4>1. attempt[m].at \in Running => m \in overtaken'
        BY <1>2, <2>1, <3>3 DEF WriteContact, Overtake
      <4> QED BY <1>1, <4>1 DEF Fresh
    <3> QED BY <3>2, <3>3
  <2>2. CASE Recipient[m] # c
    <3>1. contact'[Recipient[m]] = contact[Recipient[m]] /\ overtaken \subseteq overtaken'
          /\ (Recipient[m] \in listed' => Recipient[m] \in listed)
      BY <1>0, <1>2, <2>2 DEF WriteContact, Overtake
    <3> QED BY <1>1, <1>2, <3>1 DEF Fresh, ContactAllows
  <2> QED BY <2>1, <2>2
<1>3. ASSUME NEW c \in Contacts, NEW s \in ConsentStatuses, RecordConsent(c, s)
      PROVE  Fresh(m)'
  BY <1>2, <1>3, ConsentingType DEF RecordConsent
<1>12. ASSUME NEW cs \in SUBSET Contacts, NEW given \in [cs -> ConsentStatuses], ImportContacts(given)
       PROVE  Fresh(m)'
  <2>1. UNCHANGED <<listed, account, entitled, outboundPaused>> /\ overtaken \subseteq overtaken'
    BY <1>12 DEF ImportContacts, Overtake
  <2>2. CASE Recipient[m] \in cs
    <3>1. contact'[Recipient[m]] = Consenting(given[Recipient[m]])
      BY <1>0, <1>12, <2>2 DEF ImportContacts
    <3>2. CASE ContactAllows(m, Consenting(given[Recipient[m]]))
      <4>1. ContactAllows(m, contact[Recipient[m]])'
        BY <3>1, <3>2 DEF ContactAllows
      <4> QED BY <1>1, <2>1, <4>1 DEF Fresh, ContactAllows
    <3>3. CASE ~ContactAllows(m, Consenting(given[Recipient[m]]))
      <4>1. attempt[m].at \in Running => m \in overtaken'
        BY <1>12, <2>2, <3>3 DEF ImportContacts, Overtake
      <4> QED BY <1>1, <4>1 DEF Fresh
    <3> QED BY <3>2, <3>3
  <2>3. CASE Recipient[m] \notin cs
    <3>1. contact'[Recipient[m]] = contact[Recipient[m]]
      BY <1>0, <1>12, <2>3 DEF ImportContacts
    <3> QED BY <1>1, <2>1, <3>1 DEF Fresh, ContactAllows
  <2> QED BY <2>2, <2>3
<1>4. ASSUME NEW c \in Contacts, WebhookOptOut(c)
      PROVE  Fresh(m)'
  <2>1. ~ContactAllows(m, [consent |-> "OPTED_OUT", flagged |-> TRUE])
    BY DEF ContactAllows
  <2>2. [consent |-> "OPTED_OUT", flagged |-> TRUE] \in [consent : ConsentStatuses, flagged : BOOLEAN]
    BY DEF ConsentStatuses
  <2> QED BY <1>2, <1>4, <2>1, <2>2 DEF WebhookOptOut
<1>11. ASSUME NEW c \in Contacts, NEW s \in {contact[c].consent, "OPTED_OUT"}
       PROVE  /\ [consent |-> s, flagged |-> TRUE] \in [consent : ConsentStatuses, flagged : BOOLEAN]
              /\ ~ContactAllows(m, [consent |-> s, flagged |-> TRUE])
  BY <1>0 DEF ContactAllows, ConsentStatuses
<1>5. ASSUME NEW c \in Contacts, NEW s \in {contact[c].consent, "OPTED_OUT"}, SuppressAs(c, s)
      PROVE  Fresh(m)'
  <2>1. CASE WriteContact(c, [consent |-> s, flagged |-> TRUE])
    BY <1>2, <1>5, <1>11, <2>1 DEF SuppressAs
  <2>2. CASE Overtake({n \in Messages : Recipient[n] = c}, PastSafety) /\ UNCHANGED contact
    <3>1. UNCHANGED <<account, entitled, outboundPaused>> /\ overtaken \subseteq overtaken'
          /\ listed' = listed \cup {c}
      BY <1>5, <2>2 DEF SuppressAs, Overtake
    <3>2. CASE Recipient[m] = c /\ attempt[m].at \in PastSafety
      BY <1>1, <2>2, <3>2 DEF Fresh, Overtake
    <3>3. CASE Recipient[m] # c
      <4>1. Recipient[m] \in listed' => Recipient[m] \in listed
        BY <3>1, <3>3
      <4> QED BY <1>1, <2>2, <3>1, <4>1 DEF Fresh, ContactAllows
    <3>4. CASE attempt[m].at \notin PastSafety
      BY <1>1, <2>2, <3>1, <3>4 DEF Fresh, ContactAllows
    <3> QED BY <3>2, <3>3, <3>4
  <2> QED BY <1>5, <2>1, <2>2 DEF SuppressAs
<1>6. ASSUME NEW c \in Contacts, Unsuppress(c)
      PROVE  Fresh(m)'
  BY <1>1, <1>6 DEF Unsuppress, Fresh, ContactAllows
<1>7. ASSUME NEW b \in BOOLEAN, SetAccountPaused(b)
      PROVE  Fresh(m)'
  BY <1>1, <1>7 DEF SetAccountPaused, Overtake, Fresh, ContactAllows
<1>8. ASSUME NEW b \in BOOLEAN, SetEntitled(b) \/ SetEmergencyStop(b)
      PROVE  Fresh(m)'
  BY <1>1, <1>8 DEF SetEntitled, SetEmergencyStop, Overtake, Fresh, ContactAllows
<1>9. ASSUME Midnight \/ \E b \in BOOLEAN : PauseOrResumeQueue(b)
      PROVE  Fresh(m)'
  BY <1>1, <1>9 DEF PauseOrResumeQueue, Midnight, gateVars, workVars, Fresh, ContactAllows
<1>10. ASSUME NEW c \in Contacts, FlagContact(c)
       PROVE  Fresh(m)'
  BY <1>2, <1>10, <1>11 DEF FlagContact
<1> QED BY <1>3, <1>4, <1>5, <1>6, <1>7, <1>8, <1>9, <1>10, <1>12
        DEF OperatorStep, UpdateConsent, UpsertContact, Suppress, SuppressGlobally

(* Every step keeps the attempts that it does not overtake fresh.          *)
LEMMA FreshStep ==
  ASSUME IInv, [Next]_vars, NEW m \in Messages, Fresh(m)
  PROVE  Fresh(m)'
<1>0. /\ TypeOK /\ attempt \in AttemptType
      /\ contact \in [Contacts -> [consent : ConsentStatuses, flagged : BOOLEAN]]
      /\ Recipient[m] \in Contacts
  BY DeliveryAssumption DEF IInv, TypeOK, AttemptType
<1>1. CASE UNCHANGED <<attempt, overtaken, account, contact, entitled, outboundPaused, listed>>
  BY <1>1 DEF Fresh, ContactAllows
<1>2. CASE ApiStep
  <2>1. UNCHANGED <<attempt, overtaken, account, contact, entitled, outboundPaused, listed>>
    BY <1>2 DEF ApiStep, LookUp, AssertOutboundAllowed, CreateMessage, Enqueue, RequestAborted,
                dbVars, gateVars, workVars
  <2> QED BY <1>1, <2>1
<1>3. CASE StartAttempt(m)
  <2>1. UNCHANGED <<overtaken, account, contact, entitled, outboundPaused, listed>>
    BY <1>3 DEF StartAttempt, dbVars
  <2>2. CASE UNCHANGED attempt
    BY <1>1, <2>1, <2>2
  <2>3. CASE attempt' = [attempt EXCEPT ![m] = [at |-> "read", saw |-> RowsOf(m)]]
    <3>1. attempt'[m].at = "read" /\ attempt'[m].saw = RowsOf(m)
      BY <1>0, <2>3 DEF AttemptType
    <3>2. attempt'[m].saw.connected => account = "CONNECTED"
      <4>1. RowsOf(m).connected = (account = "CONNECTED")
        BY DEF RowsOf
      <4>2. attempt'[m].saw.connected = RowsOf(m).connected
        BY <3>1
      <4> QED BY <4>1, <4>2
    <3>3. ContactAllows(m, attempt'[m].saw) => ContactAllows(m, contact[Recipient[m]])
      <4>1. /\ attempt'[m].saw.consent = contact[Recipient[m]].consent
            /\ attempt'[m].saw.flagged = contact[Recipient[m]].flagged
        BY <3>1 DEF RowsOf
      <4> QED BY <4>1 DEF ContactAllows
    <3> QED BY <2>1, <3>1, <3>2, <3>3 DEF Fresh, ContactAllows, PastPolicy, PastSafety
  <2> QED BY <1>3, <2>2, <2>3 DEF StartAttempt
<1>4. CASE CheckPolicy(m)
  <2>1. UNCHANGED <<overtaken, account, contact, entitled, outboundPaused, listed>>
    BY <1>4 DEF CheckPolicy, gateVars
  <2>2. /\ attempt'[m].saw = attempt[m].saw
        /\ \/ attempt'[m].at = "settled"
           \/ attempt'[m].at = "gated" /\ attempt[m].saw.connected /\ OutboundAllowed(0)
        /\ attempt[m].at = "read"
    BY <1>0, <1>4 DEF CheckPolicy, Block, At, AttemptType
  <2> QED BY <2>1, <2>2 DEF Fresh, ContactAllows, OutboundAllowed, PastPolicy, PastSafety, Running
<1>5. CASE CheckSafety(m)
  <2>1. UNCHANGED <<overtaken, account, contact, entitled, outboundPaused, listed>>
    BY <1>5 DEF CheckSafety, gateVars
  <2>2. attempt[m].saw \in Snapshots
    BY <1>0 DEF AttemptType
  <2>3. /\ attempt'[m].saw = attempt[m].saw
        /\ \/ attempt'[m].at = "settled"
           \/ attempt'[m].at = "cleared" /\ ContactAllows(m, attempt[m].saw) /\ Recipient[m] \notin listed
        /\ attempt[m].at = "gated"
    BY <1>0, <1>5, <2>2, AllowedMeansContactAllows DEF CheckSafety, Block, At, AttemptType
  <2> QED BY <2>1, <2>3 DEF Fresh, ContactAllows, PastPolicy, PastSafety, Running
<1>6. CASE MarkSending(m) \/ GetToken(m) \/ PlatformAccepts(m) \/ RecordSent(m)
  <2>1. UNCHANGED <<overtaken, contact, entitled, outboundPaused, listed>> /\ account' \in {account, "CONNECTED"}
    BY <1>6 DEF MarkSending, GetToken, PlatformAccepts, RecordSent, gateVars, dbVars
  <2>2. /\ attempt'[m].saw = attempt[m].saw
        /\ attempt[m].at \in PastSafety \ {"settled"}
        /\ attempt'[m].at \in PastSafety
    BY <1>0, <1>6 DEF MarkSending, GetToken, PlatformAccepts, RecordSent, At, AttemptType,
                      PastSafety, PastPolicy, Running
  <2> QED BY <2>1, <2>2 DEF Fresh, ContactAllows, PastPolicy, PastSafety
<1>7. CASE FinishAttempt(m) \/ OnFailed(m) \/ FaultStep(m)
  <2>1. attempt'[m].at \notin Running
    BY <1>0, <1>7 DEF FinishAttempt, OnFailed, FaultStep, DeferForRate, AttemptFails, AnswerLost,
                      TokenRefused, WorkerLost, EndAttempt, Throw, Idle, AttemptType, Running
  <2> QED BY <2>1 DEF Fresh
<1>8. ASSUME NEW n \in Messages, n # m, WorkerStep(n) \/ FaultStep(n)
      PROVE  Fresh(m)'
  <2>1. UNCHANGED <<contact, entitled, outboundPaused, listed>>
    BY <1>8 DEF WorkerStep, StartAttempt, CheckPolicy, CheckSafety, MarkSending, GetToken,
                PlatformAccepts, RecordSent, FinishAttempt, OnFailed, FaultStep, DeferForRate,
                AttemptFails, AnswerLost, TokenRefused, WorkerLost, gateVars, dbVars
  <2>2. attempt'[m] = attempt[m]
    BY <1>0, <1>8 DEF WorkerStep, StartAttempt, CheckPolicy, CheckSafety, MarkSending, GetToken,
                PlatformAccepts, RecordSent, FinishAttempt, OnFailed, FaultStep, DeferForRate,
                AttemptFails, AnswerLost, TokenRefused, WorkerLost, Block, At, EndAttempt, Throw,
                AttemptType
  <2>3. CASE TokenRefused(n)
    BY <2>1, <2>2, <2>3, <1>8 DEF TokenRefused, Fresh
  <2>4. CASE ~TokenRefused(n)
    <3>1. account' \in {account, "CONNECTED"} /\ (m \in overtaken' <=> m \in overtaken)
      BY <1>8, <2>4 DEF WorkerStep, StartAttempt, CheckPolicy, CheckSafety, MarkSending, GetToken,
                PlatformAccepts, RecordSent, FinishAttempt, OnFailed, FaultStep, DeferForRate,
                AttemptFails, AnswerLost, WorkerLost, EndAttempt, Throw, gateVars, dbVars
    <3> QED BY <2>1, <2>2, <3>1 DEF Fresh, ContactAllows
  <2> QED BY <2>3, <2>4
<1>9. ASSUME NEW n \in Messages, QueueStep(n)
      PROVE  Fresh(m)'
  BY <1>1, <1>9 DEF QueueStep, JobStalls, JobPromoted, dbVars
<1>10. CASE OperatorStep
  BY <1>0, <1>10, FreshOperator
<1>11. CASE UNCHANGED vars
  BY <1>1, <1>11 DEF vars, dbVars
<1> QED
  BY <1>2, <1>3, <1>4, <1>5, <1>6, <1>7, <1>8, <1>9, <1>10, <1>11 DEF Next, WorkerStep

(* A pause that stands has not been written over.                          *)
Standing == pause = "standing" => account # "CONNECTED"

(* Only a fresh attempt, or one that was overtaken, reaches the platform.  *)
LEMMA SendIsFresh ==
  ASSUME IInv, [Next]_vars, Standing, NEW m \in Messages, Fresh(m),
         delivered'[m] > delivered[m], ~SendableNow(m)
  PROVE  m \in overtaken
<1>0. delivered \in [Messages -> Nat]
  BY DEF IInv, TypeOK
<1>1. delivered' # delivered
  BY <1>0
<1>2. PICK n \in Messages : PlatformAccepts(n) \/ AnswerLost(n)
  BY <1>1, OperatorFrame
  DEF Next, ApiStep, LookUp, AssertOutboundAllowed, CreateMessage, Enqueue, RequestAborted,
       WorkerStep, StartAttempt, CheckPolicy, CheckSafety, MarkSending, GetToken, RecordSent,
       FinishAttempt, OnFailed, FaultStep, DeferForRate, AttemptFails, TokenRefused, WorkerLost,
       QueueStep, JobStalls, JobPromoted, vars, workVars
<1>3. n = m
  BY <1>0, <1>2 DEF PlatformAccepts, AnswerLost
<1>4. attempt[m].at = "tokened"
  BY <1>2, <1>3 DEF PlatformAccepts, AnswerLost
<1> QED BY <1>4 DEF Fresh, Standing, SendableNow, Running, PastPolicy, PastSafety

(* An attempt past the policy check had read the account as connected.     *)
HadRead(m) == attempt[m].at \in PastPolicy \ {"settled"} => attempt[m].saw.connected

(* Only a token refresh and the administrator make the account connected.  *)
LEMMA ReconnectedBy ==
  ASSUME [Next]_vars, <<account, pause>>' # <<account, pause>>
  PROVE  \/ \E m \in Messages : GetToken(m)
         \/ \E m \in Messages : TokenRefused(m) /\ UNCHANGED pause
         \/ \E b \in BOOLEAN : SetAccountPaused(b)
<1>1. CASE ApiStep
  BY <1>1 DEF ApiStep, LookUp, AssertOutboundAllowed, CreateMessage, Enqueue, RequestAborted,
              dbVars, gateVars
<1>2. ASSUME NEW m \in Messages, WorkerStep(m) \/ FaultStep(m) \/ QueueStep(m)
      PROVE  GetToken(m) \/ (TokenRefused(m) /\ UNCHANGED pause)
  BY <1>2 DEF WorkerStep, StartAttempt, CheckPolicy, CheckSafety, MarkSending, PlatformAccepts,
              RecordSent, FinishAttempt, OnFailed, FaultStep, DeferForRate, AttemptFails, AnswerLost,
              TokenRefused, WorkerLost, QueueStep, JobStalls, JobPromoted, gateVars, dbVars
<1>3. CASE OperatorStep
  BY <1>3 DEF OperatorStep, UpdateConsent, UpsertContact, RecordConsent, ImportContacts,
              WebhookOptOut, Suppress, SuppressGlobally, SuppressAs, FlagContact, Unsuppress,
              SetEntitled, SetEmergencyStop, PauseOrResumeQueue, Midnight, gateVars
<1>4. CASE UNCHANGED vars
  BY <1>4 DEF vars, dbVars
<1> QED BY <1>1, <1>2, <1>3, <1>4 DEF Next

LEMMA StandingStep == ASSUME [Next]_vars, Standing PROVE Standing'
<1>1. CASE UNCHANGED <<account, pause>>
  BY <1>1 DEF Standing
<1>2. ASSUME NEW m \in Messages, GetToken(m) \/ (TokenRefused(m) /\ UNCHANGED pause)
      PROVE  Standing'
  BY <1>2 DEF Standing, GetToken, TokenRefused
<1>3. ASSUME NEW b \in BOOLEAN, SetAccountPaused(b)
      PROVE  Standing'
  BY <1>3 DEF Standing, SetAccountPaused
<1> QED BY <1>1, <1>2, <1>3, ReconnectedBy

(* It keeps what it has read to its end.                                   *)
LEMMA HadReadStep == ASSUME IInv, [Next]_vars, NEW m \in Messages, HadRead(m) PROVE HadRead(m)'
<1>0. attempt \in AttemptType
  BY DEF IInv, TypeOK, AttemptType
<1>1. CASE attempt'[m] = attempt[m]
  BY <1>1 DEF HadRead
<1>2. CASE ApiStep \/ OperatorStep \/ UNCHANGED vars
  BY <1>1, <1>2, OperatorFrame
     DEF ApiStep, LookUp, AssertOutboundAllowed, CreateMessage, Enqueue, RequestAborted, workVars, vars
<1>3. ASSUME NEW n \in Messages, n # m, WorkerStep(n) \/ FaultStep(n)
      PROVE  attempt'[m] = attempt[m]
  BY <1>0, <1>3 DEF WorkerStep, StartAttempt, CheckPolicy, CheckSafety, MarkSending, GetToken,
              PlatformAccepts, RecordSent, FinishAttempt, OnFailed, FaultStep, DeferForRate,
              AttemptFails, AnswerLost, TokenRefused, WorkerLost, Block, At, EndAttempt, Throw,
              AttemptType
<1>4. ASSUME NEW n \in Messages, QueueStep(n)
      PROVE  attempt'[m] = attempt[m]
  BY <1>4 DEF QueueStep, JobStalls, JobPromoted
<1>5. CASE StartAttempt(m)
  <2>1. attempt' = attempt \/ attempt'[m].at = "read"
    BY <1>0, <1>5 DEF StartAttempt, AttemptType
  <2> QED BY <1>1, <2>1 DEF HadRead, PastPolicy
<1>6. CASE CheckPolicy(m)
  BY <1>0, <1>6 DEF CheckPolicy, Block, At, AttemptType, HadRead
<1>7. CASE CheckSafety(m) \/ MarkSending(m) \/ GetToken(m) \/ PlatformAccepts(m) \/ RecordSent(m)
  <2>1. attempt[m].at \in PastPolicy \ {"settled"}
    BY <1>7 DEF CheckSafety, MarkSending, GetToken, PlatformAccepts, RecordSent, PastPolicy, Running
  <2>2. CASE CheckSafety(m)
    BY <1>0, <2>1, <2>2 DEF CheckSafety, Block, At, AttemptType, HadRead
  <2>3. CASE MarkSending(m) \/ GetToken(m)
    BY <1>0, <2>1, <2>3 DEF MarkSending, GetToken, At, AttemptType, HadRead
  <2>4. CASE PlatformAccepts(m) \/ RecordSent(m)
    BY <1>0, <2>1, <2>4 DEF PlatformAccepts, RecordSent, At, AttemptType, HadRead
  <2> QED BY <1>7, <2>2, <2>3, <2>4
<1>8. CASE FinishAttempt(m) \/ OnFailed(m) \/ FaultStep(m)
  <2>1. attempt'[m].at \notin Running
    BY <1>0, <1>8 DEF FinishAttempt, OnFailed, FaultStep, DeferForRate, AttemptFails, AnswerLost,
                      TokenRefused, WorkerLost, EndAttempt, Throw, Idle, AttemptType, Running
  <2> QED BY <2>1 DEF HadRead, PastPolicy
<1> QED
  BY <1>1, <1>2, <1>3, <1>4, <1>5, <1>6, <1>7, <1>8 DEF Next, WorkerStep

(* While a pause stands, the step that connects the account is that of the *)
(* administrator, or the refresh of an overtaken attempt.                  *)
LEMMA UndoneByOvertaken ==
  ASSUME IInv, [Next]_vars, Standing, \A m \in Messages : Fresh(m) /\ HadRead(m),
         pause = "standing", account' = "CONNECTED", pause' # "lifted"
  PROVE  \E m \in overtaken : /\ attempt[m].saw.connected
                               /\ attempt[m].at = "sending"
                               /\ attempt'[m].at = "tokened"
<1>1. account # "CONNECTED"
  BY DEF Standing
<1>2. PICK m \in Messages : GetToken(m)
  BY <1>1, ReconnectedBy DEF TokenRefused, SetAccountPaused
<1>3. attempt[m].at = "sending" /\ attempt'[m].at = "tokened"
  BY <1>2 DEF GetToken, At, IInv, TypeOK
<1>4. attempt[m].saw.connected
  BY <1>3 DEF HadRead, PastPolicy, Running
<1>5. m \in overtaken
  BY <1>1, <1>3, <1>4 DEF Fresh, Running
<1> QED BY <1>3, <1>4, <1>5

(* While a contact, the tenant, the emergency stop or a pause of the       *)
(* account that stands forbids a message, only an attempt that was past    *)
(* the corresponding read when that changed reaches the platform; and only *)
(* the refresh of an attempt that had read CONNECTED before the pause      *)
(* makes the account connected again without the administrator.            *)
THEOREM WithdrawalHolds == Spec => WithdrawalStopsLaterAttempts
<1> DEFINE Known == Standing /\ \A m \in Messages : Fresh(m) /\ HadRead(m)
<1>1. Init => Known
  BY DEF Init, Standing, Fresh, HadRead, Idle, Running, PastPolicy
<1>2. IInv /\ [Next]_vars /\ Known => Known'
  BY FreshStep, StandingStep, HadReadStep
<1>3. IInv /\ Known /\ [Next]_vars =>
        [/\ \A m \in Messages :
              (delivered'[m] > delivered[m] /\ ~SendableNow(m)) => m \in overtaken
         /\ (pause = "standing" /\ account' = "CONNECTED") =>
              \/ pause' = "lifted"
              \/ \E m \in overtaken : /\ attempt[m].saw.connected
                                      /\ attempt[m].at = "sending"
                                      /\ attempt'[m].at = "tokened"]_vars
  BY SendIsFresh, UndoneByOvertaken
<1> QED BY <1>1, <1>2, <1>3, InvariantHolds, PTL DEF Spec, WithdrawalStopsLaterAttempts

-----------------------------------------------------------------------------
(* The decision.                                                           *)

(* On any facts the two evaluations come to the consent rules.             *)
LEMMA EvaluationsFollowTheRules ==
  ASSUME NEW f \in Facts
  PROVE  /\ (evaluateMessageSafety(WorkerContext(f)) = "ALLOWED") <=> MaySend(f)
         /\ (evaluateMessageSafety(ApiContext(f)) = "ALLOWED")
               <=> (MaySend(f) /\ f.connected /\ f.withinRateLimit)
<1>0. /\ f.consent \in ConsentStatuses
      /\ f.declared \in Capabilities
      /\ \A b \in {f.flagged, f.listed, f.connected, f.permitted, f.configured,
                   f.withinRateLimit, f.promotional} : b \in BOOLEAN
  BY DEF Facts
<1>1. (evaluateMessageSafety(WorkerContext(f)) = "ALLOWED") <=> MaySend(f)
  BY <1>0 DEF evaluateMessageSafety, WorkerContext, MaySend, Granted, PermissionHeld, Capabilities,
              ConsentStatuses
<1>2. (evaluateMessageSafety(ApiContext(f)) = "ALLOWED")
        <=> (MaySend(f) /\ f.connected /\ f.withinRateLimit)
  BY <1>0 DEF evaluateMessageSafety, ApiContext, MaySend, Granted, PermissionHeld, Capabilities,
              ConsentStatuses
<1> QED BY <1>1, <1>2

(* What the evaluations are given of a message are facts.                  *)
LEMMA FactsForType ==
  ASSUME NEW m \in Messages, NEW saw \in Snapshots, NEW inRate \in BOOLEAN
  PROVE  FactsFor(m, saw, inRate) \in Facts
<1> DEFINE known == Recipient[m] \in listed
           selling == m \in Promotional
<1>1. FactsFor(m, saw, inRate) =
        [consent |-> saw.consent, flagged |-> saw.flagged, listed |-> known,
         connected |-> saw.connected, permitted |-> TRUE, configured |-> TRUE,
         declared |-> "PERMISSION_REQUIRED", withinRateLimit |-> inRate, promotional |-> selling]
  BY Zenon DEF FactsFor
<1>2. known \in BOOLEAN /\ selling \in BOOLEAN
  OBVIOUS
<1> HIDE DEF known, selling
<1> QED BY <1>1, <1>2 DEF Facts, Snapshots, Capabilities

(* In every reachable state both decide by the rules, whatever the adapter *)
(* declares.                                                               *)
THEOREM DecisionsFollowTheRules == Spec => []BothDecideByTheRules
<1>1. ASSUME TypeOK PROVE BothDecideByTheRules
  <2> SUFFICES ASSUME NEW m \in Messages, NEW declared \in Capabilities, NEW permitted \in BOOLEAN,
                      NEW configured \in BOOLEAN, NEW promotional \in BOOLEAN, NEW inRate \in BOOLEAN
               PROVE  LET f == [FactsFor(m, RowsOf(m), inRate) EXCEPT
                                  !.declared = declared, !.permitted = permitted,
                                  !.configured = configured, !.promotional = promotional]
                      IN  /\ (evaluateMessageSafety(WorkerContext(f)) = "ALLOWED") <=> MaySend(f)
                          /\ (evaluateMessageSafety(ApiContext(f)) = "ALLOWED")
                                <=> (MaySend(f) /\ f.connected /\ f.withinRateLimit)
    BY DEF BothDecideByTheRules
  <2> DEFINE f == [FactsFor(m, RowsOf(m), inRate) EXCEPT
                     !.declared = declared, !.permitted = permitted,
                     !.configured = configured, !.promotional = promotional]
  <2>1. contact[Recipient[m]] \in [consent : ConsentStatuses, flagged : BOOLEAN]
    BY <1>1, DeliveryAssumption DEF TypeOK
  <2>2. RowsOf(m) \in Snapshots
    BY <2>1 DEF RowsOf, Snapshots
  <2>3. f \in Facts
    <3> DEFINE g == FactsFor(m, RowsOf(m), inRate)
    <3>1. g \in Facts
      BY <2>2, FactsForType
    <3>2. f = [g EXCEPT !.declared = declared, !.permitted = permitted,
                        !.configured = configured, !.promotional = promotional]
      OBVIOUS
    <3> HIDE DEF f, g
    <3> QED BY <3>1, <3>2 DEF Facts
  <2> HIDE DEF f
  <2>4. /\ (evaluateMessageSafety(WorkerContext(f)) = "ALLOWED") <=> MaySend(f)
        /\ (evaluateMessageSafety(ApiContext(f)) = "ALLOWED")
              <=> (MaySend(f) /\ f.connected /\ f.withinRateLimit)
    BY <2>3, EvaluationsFollowTheRules
  <2> QED BY <2>4 DEF f
<1> QED BY <1>1, TypeCorrect, PTL

-----------------------------------------------------------------------------
(* The refinement of ReliableSend.                                         *)

(* Nothing has been taken in at the start.                                 *)
LEMMA RefinesInit == Init => Reliable!Init
BY DEF Init, Reliable!Init, Outcome, InHand, Idle

(* What the promise sees of a message moves only with that message.        *)
LEMMA OutcomeOfOthers ==
  ASSUME NEW m \in Messages, \A n \in Messages \ {m} : status'[n] = status[n]
  PROVE  Outcome' = [Outcome EXCEPT ![m] = Outcome'[m]]
BY DEF Outcome

(* A step of a request takes a message in, or shows nothing.               *)
LEMMA ApiStepRefines ==
  ASSUME IInv, ApiStep
  PROVE  [Reliable!Next]_(Reliable!vars)
<1>0. status \in [Messages -> MessageStatuses] /\ \A r \in Requests : request[r].key \in Messages
  BY DEF IInv, TypeOK
<1>1. UNCHANGED <<attempt, delivered, unconfirmed>>
  BY DEF ApiStep, LookUp, AssertOutboundAllowed, CreateMessage, Enqueue, RequestAborted, workVars
<1>2. InHand' = InHand
  BY <1>1 DEF InHand
<1>3. CASE status' = status
  <2>1. Outcome' = Outcome
    BY <1>3 DEF Outcome
  <2> QED BY <1>1, <1>2, <2>1 DEF Reliable!vars
<1>4. CASE status' # status
  <2>1. PICK r \in Requests : CreateMessage(r)
    BY <1>4 DEF ApiStep, LookUp, AssertOutboundAllowed, Enqueue, RequestAborted, dbVars
  <2>2. PICK m \in Messages, st \in {"QUEUED", "BLOCKED"} :
          status[m] = "NONE" /\ status' = [status EXCEPT ![m] = st]
    BY <1>0, <1>4, <2>1 DEF CreateMessage
  <2>3. Outcome[m] = "NONE" /\ Outcome'[m] \in {"PENDING", "BLOCKED"}
    BY <1>0, <2>2 DEF Outcome
  <2>4. Outcome' = [Outcome EXCEPT ![m] = Outcome'[m]]
    BY <1>0, <2>2, OutcomeOfOthers
  <2>5. Reliable!TakeIn(m)
    BY <1>1, <1>2, <2>3, <2>4 DEF Reliable!TakeIn
  <2> QED BY <2>5 DEF Reliable!Next
<1> QED BY <1>3, <1>4

(* A step of an attempt that changes neither status, copies nor lost, and  *)
(* was not and is not waiting to record an answer, shows nothing.          *)
LEMMA InvisibleStep ==
  ASSUME IInv, NEW m \in Messages, UNCHANGED <<delivered, unconfirmed>>,
         \A n \in Messages \ {m} : status'[n] = status[n] /\ attempt'[n] = attempt[n],
         Outcome'[m] = Outcome[m],
         attempt[m].at # "accepted", attempt'[m].at # "accepted"
  PROVE  UNCHANGED Reliable!vars
<1>1. Outcome' = Outcome
  BY DEF Outcome
<1>2. InHand' = InHand
  BY DEF InHand
<1> QED BY <1>1, <1>2 DEF Reliable!vars

(* A step of the worker or a fault in it is a step of the promise.         *)
LEMMA AttemptRefines ==
  ASSUME IInv, NEW m \in Messages, WorkerStep(m) \/ FaultStep(m)
  PROVE  [Reliable!Next]_(Reliable!vars)
<1>0. /\ status \in [Messages -> MessageStatuses] /\ attempt \in AttemptType
      /\ delivered \in [Messages -> Nat] /\ unconfirmed \in [Messages -> Nat]
      /\ StatusInv(m) /\ JobInv(m)
  BY DEF IInv, TypeOK, AttemptType
<1>1. attempt[m].at \in Running \ {"settled"} => Outcome[m] = "PENDING"
  BY <1>0 DEF StatusInv, Outcome
<1>2. CASE StartAttempt(m) \/ MarkSending(m) \/ GetToken(m) \/ FinishAttempt(m) \/ DeferForRate(m)
  <2>1. /\ UNCHANGED <<delivered, unconfirmed>>
        /\ \A n \in Messages \ {m} : status'[n] = status[n] /\ attempt'[n] = attempt[n]
        /\ attempt'[m].at # "accepted"
    <3>1. CASE StartAttempt(m)
      BY <1>0, <3>1 DEF StartAttempt, JobInv, Running, AttemptType, dbVars
    <3>2. CASE MarkSending(m) \/ GetToken(m)
      BY <1>0, <3>2 DEF MarkSending, GetToken, At, AttemptType
    <3>3. CASE FinishAttempt(m) \/ DeferForRate(m)
      BY <1>0, <3>3 DEF FinishAttempt, DeferForRate, EndAttempt, Idle, AttemptType, dbVars
    <3> QED BY <1>2, <3>1, <3>2, <3>3
  <2>2. attempt[m].at # "accepted"
    BY <1>0, <1>2 DEF StartAttempt, MarkSending, GetToken, FinishAttempt, DeferForRate, JobInv, Running
  <2>3. Outcome'[m] = Outcome[m]
    <3>1. CASE MarkSending(m)
      <4>1. status'[m] = "SENDING" /\ attempt[m].at = "cleared"
        BY <1>0, <3>1 DEF MarkSending
      <4> QED BY <1>1, <4>1 DEF Running, Outcome
    <3>2. CASE ~MarkSending(m)
      BY <1>2, <3>2 DEF StartAttempt, GetToken, FinishAttempt, DeferForRate, dbVars, Outcome
    <3> QED BY <3>1, <3>2
  <2> QED BY <2>1, <2>2, <2>3, InvisibleStep
<1>3. CASE CheckPolicy(m) \/ CheckSafety(m)
  <2>1. /\ attempt[m].at \in {"read", "gated"}
        /\ UNCHANGED <<delivered, unconfirmed>>
        /\ \/ status' = status /\ (At(m, "gated") \/ At(m, "cleared"))
           \/ Block(m)
    BY <1>3 DEF CheckPolicy, CheckSafety
  <2>2. /\ attempt'[m].at \in {"gated", "cleared", "settled"}
        /\ \A n \in Messages \ {m} : status'[n] = status[n] /\ attempt'[n] = attempt[n]
    BY <1>0, <2>1 DEF At, Block, AttemptType
  <2>3. CASE status' = status
    <3>1. Outcome'[m] = Outcome[m]
      BY <2>3 DEF Outcome
    <3> QED BY <2>1, <2>2, <3>1, InvisibleStep
  <2>4. CASE Block(m)
    <3>1. Outcome'[m] = "BLOCKED" /\ Outcome' = [Outcome EXCEPT ![m] = Outcome'[m]]
      BY <1>0, <2>2, <2>4, OutcomeOfOthers DEF Block, Outcome
    <3>2. m \notin InHand /\ InHand' = InHand
      BY <2>1, <2>2 DEF InHand
    <3>3. Reliable!GiveUp(m)
      BY <1>1, <2>1, <3>1, <3>2 DEF Reliable!GiveUp, Reliable!Awaited, Running
    <3> QED BY <3>3 DEF Reliable!Next
  <2> QED BY <2>1, <2>3, <2>4
<1>4. CASE OnFailed(m)
  <2>1. /\ attempt[m].at = "onFailed" /\ attempt'[m].at = "idle"
        /\ UNCHANGED <<delivered, unconfirmed>>
        /\ \A n \in Messages \ {m} : status'[n] = status[n] /\ attempt'[n] = attempt[n]
        /\ status'[m] = IF status[m] \in {"QUEUED", "SENDING"} THEN "FAILED" ELSE status[m]
    BY <1>0, <1>4 DEF OnFailed, EndAttempt, Idle, AttemptType
  <2>2. CASE status[m] \in {"QUEUED", "SENDING"}
    <3>1. /\ Outcome[m] = "PENDING" /\ Outcome'[m] = "FAILED"
          /\ Outcome' = [Outcome EXCEPT ![m] = Outcome'[m]]
      BY <2>1, <2>2, OutcomeOfOthers DEF Outcome
    <3>2. m \notin InHand /\ InHand' = InHand
      BY <2>1 DEF InHand
    <3>3. Reliable!GiveUp(m)
      BY <2>1, <3>1, <3>2 DEF Reliable!GiveUp, Reliable!Awaited
    <3> QED BY <3>3 DEF Reliable!Next
  <2>3. CASE status[m] \notin {"QUEUED", "SENDING"}
    <3>1. Outcome'[m] = Outcome[m]
      BY <2>1, <2>3 DEF Outcome
    <3> QED BY <2>1, <3>1, InvisibleStep
  <2> QED BY <2>2, <2>3
<1>5. CASE PlatformAccepts(m)
  <2>1. /\ attempt[m].at = "tokened" /\ attempt'[m].at = "accepted"
        /\ delivered' = [delivered EXCEPT ![m] = @ + 1]
        /\ UNCHANGED <<status, unconfirmed>>
        /\ \A n \in Messages \ {m} : attempt'[n] = attempt[n]
    BY <1>0, <1>5 DEF PlatformAccepts, At, AttemptType, dbVars
  <2>2. Outcome' = Outcome
    BY <2>1 DEF Outcome
  <2>3. m \notin InHand /\ InHand' = InHand \cup {m}
    BY <2>1 DEF InHand
  <2>4. Reliable!SendAnswered(m)
    BY <1>1, <2>1, <2>2, <2>3 DEF Reliable!SendAnswered, Reliable!Awaited, Running
  <2> QED BY <2>4 DEF Reliable!Next
<1>6. CASE RecordSent(m)
  <2>1. /\ attempt[m].at = "accepted" /\ attempt'[m].at = "settled"
        /\ status'[m] = "SENT"
        /\ UNCHANGED <<delivered, unconfirmed>>
        /\ \A n \in Messages \ {m} : status'[n] = status[n] /\ attempt'[n] = attempt[n]
    BY <1>0, <1>6 DEF RecordSent, At, AttemptType
  <2>2. Outcome'[m] = "SENT" /\ Outcome' = [Outcome EXCEPT ![m] = Outcome'[m]]
    BY <2>1, OutcomeOfOthers DEF Outcome
  <2>3. m \in InHand /\ InHand' = InHand \ {m}
    BY <2>1 DEF InHand
  <2>4. Reliable!RecordAnswer(m)
    BY <2>1, <2>2, <2>3 DEF Reliable!RecordAnswer
  <2> QED BY <2>4 DEF Reliable!Next
<1>7. CASE AnswerLost(m)
  <2>1. /\ attempt[m].at = "tokened" /\ Thrown1(m)
        /\ delivered' = [delivered EXCEPT ![m] = @ + 1]
        /\ unconfirmed' = [unconfirmed EXCEPT ![m] = @ + 1]
        /\ UNCHANGED status
    BY <1>7 DEF AnswerLost, Throw, Thrown1, dbVars
  <2>2. /\ attempt'[m].at # "accepted"
        /\ \A n \in Messages \ {m} : attempt'[n] = attempt[n]
    BY <2>1, ThrowStep DEF Running
  <2>3. Outcome' = Outcome /\ m \notin InHand /\ InHand' = InHand
    BY <2>1, <2>2 DEF Outcome, InHand
  <2>4. Reliable!SendUnanswered(m)
    BY <1>1, <2>1, <2>3 DEF Reliable!SendUnanswered, Reliable!Awaited, Running
  <2> QED BY <2>4 DEF Reliable!Next
<1>8. CASE AttemptFails(m) \/ TokenRefused(m) \/ WorkerLost(m)
  <2>1. /\ UNCHANGED <<status, delivered>>
        /\ unconfirmed' = [unconfirmed EXCEPT ![m] = IF attempt[m].at = "accepted" THEN @ + 1 ELSE @]
    BY <1>0, <1>8 DEF AttemptFails, TokenRefused, WorkerLost, dbVars
  <2>2. /\ attempt'[m].at # "accepted"
        /\ \A n \in Messages \ {m} : attempt'[n] = attempt[n]
    <3>1. CASE AttemptFails(m) \/ TokenRefused(m)
      <4>1. attempt[m].at \in Running /\ Thrown1(m)
        BY <3>1 DEF AttemptFails, TokenRefused, Throw, Thrown1, Running
      <4> QED BY <4>1, ThrowStep
    <3>2. CASE WorkerLost(m)
      BY <1>0, <3>2 DEF WorkerLost, EndAttempt, Idle, AttemptType
    <3> QED BY <1>8, <3>1, <3>2
  <2>3. Outcome' = Outcome
    BY <2>1 DEF Outcome
  <2>4. CASE attempt[m].at = "accepted"
    <3>1. m \in InHand /\ InHand' = InHand \ {m}
      BY <2>2, <2>4 DEF InHand
    <3>2. Reliable!LoseAnswer(m)
      BY <2>1, <2>3, <2>4, <3>1 DEF Reliable!LoseAnswer
    <3> QED BY <3>2 DEF Reliable!Next
  <2>5. CASE attempt[m].at # "accepted"
    <3>1. unconfirmed' = unconfirmed /\ Outcome'[m] = Outcome[m]
      BY <1>0, <2>1, <2>3, <2>5
    <3> QED BY <2>1, <2>2, <2>5, <3>1, InvisibleStep
  <2> QED BY <2>4, <2>5
<1> QED BY <1>2, <1>3, <1>4, <1>5, <1>6, <1>7, <1>8 DEF WorkerStep, FaultStep

(* Every step of the system is a step of the promise or shows nothing.     *)
LEMMA NextRefines ==
  ASSUME IInv, [Next]_vars
  PROVE  [Reliable!Next]_(Reliable!vars)
<1>1. ASSUME UNCHANGED <<status, attempt, delivered, unconfirmed>>
      PROVE  UNCHANGED Reliable!vars
  BY <1>1 DEF Outcome, InHand, Reliable!vars
<1>2. ASSUME NEW m \in Messages, QueueStep(m)
      PROVE  UNCHANGED Reliable!vars
  BY <1>1, <1>2 DEF QueueStep, JobStalls, JobPromoted, dbVars
<1>3. CASE OperatorStep
  BY <1>1, <1>3, OperatorFrame
<1>4. CASE UNCHANGED vars
  BY <1>1, <1>4 DEF vars, dbVars
<1> QED BY <1>2, <1>3, <1>4, ApiStepRefines, AttemptRefines DEF Next

(* The rows, jobs and attempts implement ReliableSend: a message is taken  *)
(* in once, further copies only follow lost answers, SENT only follows an  *)
(* answer, and what a message became stays.                                *)
THEOREM ImplementsReliableSend == Spec => DeliversReliably
<1>1. Init => Reliable!Init
  BY RefinesInit
<1>2. IInv /\ [Next]_vars => [Reliable!Next]_(Reliable!vars)
  BY NextRefines
<1> QED BY <1>1, <1>2, InvariantHolds, PTL DEF Spec, DeliversReliably, Reliable!Spec

=============================================================================
