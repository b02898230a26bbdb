-------------------------- MODULE PostPublish_proofs --------------------------
(***************************************************************************)
(* Proofs about PostPublish, for any users, roles and support staff, any   *)
(* number of requests under way, any account, environment and retry bound, *)
(* however long the instance lives and whatever breaks off.                *)
(***************************************************************************)
EXTENDS PostPublish, TLAPS

-----------------------------------------------------------------------------
(* The operators of BullQueue                                              *)

(* Every operator takes a job to a job; only an attempt that may still be  *)
(* made can be counted.                                                    *)
LEMMA JobOperators ==
  ASSUME NEW j \in Jobs
  PROVE  /\ Added(j) \in Jobs /\ Taken(j) \in Jobs /\ Deferred(j) \in Jobs /\ Promoted(j) \in Jobs
         /\ Completed(j) \in Jobs /\ Completed(Taken(j)) \in Jobs
         /\ Stalled(j) \in Jobs
         /\ j.attempts < MaxAttempts => Thrown(j) \in Jobs
<1>1. /\ j.stalls < MaxStalls => j.stalls + 1 \in 0..MaxStalls
      /\ j.attempts < MaxAttempts => j.attempts + 1 \in 0..MaxAttempts
  BY QueueAssumption DEF Jobs
<1> QED
  BY <1>1 DEF Jobs, JobStates, Added, Taken, Deferred, Promoted, Completed, Stalled, Thrown

(* A thrown attempt fails the job exactly when it was the last one.        *)
LEMMA ThrownAttempts ==
  ASSUME NEW j \in Jobs, j.attempts < MaxAttempts
  PROVE  /\ Thrown(j).attempts = j.attempts + 1
         /\ LastAttempt(j) => Thrown(j).state = "failed" /\ Thrown(j).attempts = MaxAttempts
         /\ ~LastAttempt(j) => Thrown(j).state = "delayed" /\ Thrown(j).attempts < MaxAttempts
BY QueueAssumption DEF Jobs, Thrown, LastAttempt

-----------------------------------------------------------------------------
(* The inductive invariant                                                 *)

(* A request that was let in keeps its access or is known to have lost it. *)
AccessInv ==
    \A c \in Calls : call[c].at # "idle" => HasAccess(call[c].by) \/ c \in overtaken

(* A job that can still be worked on has an attempt left; an attempt has   *)
(* its job, and the listener one that failed for good.                     *)
JobInv(k) ==
    /\ job[k].state \in {"none", "waiting", "active", "delayed"} => job[k].attempts < MaxAttempts
    /\ attempt[k] = "read" => job[k].state = "active"
    /\ attempt[k] = "onFailed" => job[k].state = "failed"

(* Nothing is queued, and no post fails, for a schedule that is still to   *)
(* come: the scheduler only lists posts that are due, a publish job is     *)
(* made for none, and the clock does not go back.                          *)
DueInv ==
    /\ tick <= now
    /\ \A k \in Kinds : madeFor[k] <= now
    /\ failedFor <= now

IInv ==
    /\ TypeOK
    /\ AccessInv
    /\ \A k \in Kinds : JobInv(k)
    /\ DueInv

CallType == [Calls -> [at : {"idle", "admitted", "allowed", "found", "approved"},
                       asks : Requested, by : Users, time : Nat]]
SupportType == [Staff -> [active : BOOLEAN, until : Nat]]

-----------------------------------------------------------------------------
(* Who has access                                                          *)

(* Whom a handler of posts lets in, the matrix grants post.manage: the     *)
(* role lists of OperationsService and packages/auth agree.                *)
LEMMA ManagersManagePosts ==
  ASSUME NEW role, NEW status, NEW supported,
         assertMembership(role, status, supported, managementRoles) # "none"
  PROVE  assertPermission(role, status, supported, "post.manage")
<1>1. assertMembership(role, status, supported, managementRoles) \in managementRoles
  BY DEF assertMembership, managementRoles
<1>2. assertMembership(role, status, supported, roles)
        = assertMembership(role, status, supported, managementRoles)
  BY DEF assertMembership, managementRoles, roles
<1>3. \A r \in managementRoles : r # "none" /\ hasPermission(r, "post.manage")
  BY DEF managementRoles, hasPermission, matrix, permissions
<1> QED BY <1>1, <1>2, <1>3 DEF assertPermission

(* A support session that opens takes no permission from anybody.          *)
LEMMA SupportOnlyAdds ==
  ASSUME NEW role, NEW status, NEW before \in BOOLEAN, NEW after \in BOOLEAN, before => after,
         assertPermission(role, status, before, "post.manage")
  PROVE  assertPermission(role, status, after, "post.manage")
<1>1. CASE role # "none" /\ status = "ACTIVE"
  BY <1>1 DEF assertPermission, assertMembership
<1>2. CASE ~(role # "none" /\ status = "ACTIVE")
  <2>1. before /\ status # "ARCHIVED"
    BY <1>2 DEF assertPermission, assertMembership
  <2>2. assertMembership(role, status, after, roles) = assertMembership(role, status, before, roles)
    BY <1>2, <2>1 DEF assertMembership
  <2> QED BY <2>2 DEF assertPermission
<1> QED BY <1>1, <1>2

-----------------------------------------------------------------------------
(* Initial states                                                          *)

(* The invariant holds before the first request.                           *)
LEMMA InitIInv == Init => IInv
<1> SUFFICES ASSUME Init PROVE IInv
  OBVIOUS
<1>1. NoCall.by \in Users /\ NoCall.at = "idle" /\ NoCall.asks \in Requested /\ NoCall.time \in Nat
  BY PostAssumption DEF NoCall, Requested, Unscheduled
<1>2. call \in CallType
  BY PostAssumption DEF Init, CallType, NoCall, Requested, Unscheduled
<1>3. NoJob \in Jobs
  BY QueueAssumption DEF NoJob, Jobs, JobStates
<1>4. support \in SupportType /\ post \in [status : PostStatuses, scheduledAt : Nat]
  BY DEF Init, SupportType, NoSession, PostStatuses, Unscheduled
<1>5. job \in [Kinds -> Jobs] /\ attempt \in [Kinds -> {"idle", "read", "onFailed"}]
      /\ madeFor \in [Kinds -> Nat]
  BY <1>3 DEF Init, Unscheduled
<1>6. TypeOK
  BY <1>2, <1>4, <1>5 DEF Init, TypeOK, CallType, SupportType, WorkspaceStatuses, Unscheduled
<1>7. AccessInv
  BY <1>1 DEF Init, AccessInv
<1>8. \A k \in Kinds : JobInv(k)
  BY QueueAssumption DEF Init, JobInv, NoJob
<1>9. DueInv
  BY DEF Init, DueInv, Unscheduled
<1> QED BY <1>6, <1>7, <1>8, <1>9 DEF IInv

-----------------------------------------------------------------------------
(* Frames: what a step keeps by leaving it alone                           *)

(* While clock and gates stand still everybody keeps the access he had; a  *)
(* request goes on as the same user's, ends, or is let in.                 *)
LEMMA RequestMoves ==
  ASSUME IInv, UNCHANGED <<now, gates>>, NEW c \in Calls,
         \A d \in Calls \ {c} : call'[d] = call[d] /\ (d \in overtaken => d \in overtaken'),
         \/ call'[c].at = "idle"
         \/ HasAccess(call'[c].by)
         \/ call[c].at # "idle" /\ call'[c].by = call[c].by /\ overtaken' = overtaken
  PROVE  AccessInv'
<1>1. ASSUME NEW d \in Calls, call'[d].at # "idle"
      PROVE  HasAccess(call[d].by)' \/ d \in overtaken'
  <2>1. HasAccess(call[d].by)' <=> HasAccess(call'[d].by)
    BY DEF HasAccess, Live, gates
  <2>2. CASE d = c
    BY <1>1, <2>1, <2>2 DEF IInv, AccessInv
  <2>3. CASE d # c
    BY <1>1, <2>1, <2>3 DEF IInv, AccessInv
  <2> QED BY <2>2, <2>3
<1> QED BY <1>1 DEF AccessInv

(* A step that touches neither requests nor gates nor clock.               *)
LEMMA RequestsRest ==
  ASSUME IInv, UNCHANGED <<now, gates, call, overtaken>>
  PROVE  AccessInv'
BY DEF IInv, AccessInv, HasAccess, Live, gates

(* A step that touches no job.                                             *)
LEMMA JobsRest ==
  ASSUME IInv, UNCHANGED <<job, attempt>>
  PROVE  \A k \in Kinds : JobInv(k)'
BY DEF IInv, JobInv

(* A step that queues nothing and fails no post.                           *)
LEMMA NothingDue ==
  ASSUME IInv, UNCHANGED <<now, tick, madeFor>>, failedFor' \in {failedFor, Unscheduled}
  PROVE  DueInv'
BY DEF IInv, TypeOK, DueInv, Unscheduled

(* Adding a job for a time that has come.                                  *)
LEMMA AddJobKeeps ==
  ASSUME IInv, NEW k \in Kinds, NEW time \in Nat, time <= now, AddJob(k, time), UNCHANGED attempt
  PROVE  /\ job' \in [Kinds -> Jobs]
         /\ madeFor' \in [Kinds -> Nat]
         /\ \A l \in Kinds : JobInv(l)'
         /\ \A l \in Kinds : madeFor'[l] <= now
<1>1. job \in [Kinds -> Jobs] /\ madeFor \in [Kinds -> Nat]
  BY DEF IInv, TypeOK
<1>2. job' = [job EXCEPT ![k] = Added(@)]
  BY DEF AddJob
<1>3. job' \in [Kinds -> Jobs]
  BY <1>1, <1>2, JobOperators
<1>4. madeFor' \in [Kinds -> Nat] /\ \A l \in Kinds : madeFor'[l] <= now
  BY <1>1 DEF AddJob, IInv, DueInv
<1>5. \A l \in Kinds : JobInv(l)'
  BY <1>1, <1>2 DEF IInv, JobInv, Added, Jobs
<1> QED BY <1>3, <1>4, <1>5

-----------------------------------------------------------------------------
(* Requests                                                                *)

(* A request that is let in is the request of somebody with access.        *)
LEMMA AdmitIInv ==
  ASSUME IInv, NEW c \in Calls, NEW u \in Users, NEW what \in Requested, NEW time \in Nat,
         Admit(c, u, what, time)
  PROVE  IInv'
<1>1. call \in CallType
  BY DEF IInv, TypeOK, CallType
<1>2. /\ UNCHANGED <<now, account, gates, post, tick, work, breaks, overtaken, failedFor>>
      /\ call' = [call EXCEPT ![c] = [at |-> "admitted", asks |-> what, by |-> u, time |-> time]]
      /\ assertMembership(RoleOf[u], workspace, Live(u), managementRoles) # "none"
  BY DEF Admit, Judge
<1>3. call' \in CallType
  BY <1>1, <1>2 DEF CallType
<1>4. TypeOK'
  BY <1>2, <1>3 DEF IInv, TypeOK, CallType, gates, work
<1>5. HasAccess(u)
  BY <1>2, ManagersManagePosts DEF HasAccess
<1>6. call'[c].by = u /\ \A d \in Calls \ {c} : call'[d] = call[d]
  BY <1>1, <1>2 DEF CallType
<1>7. AccessInv'
  BY <1>2, <1>5, <1>6, RequestMoves
<1> QED BY <1>2, <1>4, <1>7, JobsRest, NothingDue DEF IInv, work

(* The call record after a step to another point of the handler.           *)
LEMMA CallAtEffect ==
  ASSUME call \in CallType, NEW c \in Calls, NEW step \in {"allowed", "found", "approved"},
         CallAt(c, step)
  PROVE  /\ call' \in CallType
         /\ call'[c].by = call[c].by
         /\ \A d \in Calls \ {c} : call'[d] = call[d]
BY DEF CallAt, CallType

(* A request that ends, in whatever way, is forgotten.                     *)
LEMMA EndCallEffect ==
  ASSUME call \in CallType, NEW c \in Calls, EndCall(c)
  PROVE  /\ call' \in CallType
         /\ call'[c].at = "idle"
         /\ \A d \in Calls \ {c} : call'[d] = call[d] /\ (d \in overtaken => d \in overtaken')
         /\ overtaken' \subseteq overtaken
BY PostAssumption DEF EndCall, CallType, NoCall, Requested, Unscheduled

(* Every step of a request keeps the invariant.                            *)
LEMMA CallStepIInv == ASSUME IInv, NEW c \in Calls, CallStep(c) PROVE IInv'
<1>0. call \in CallType /\ now \in Nat /\ post \in [status : PostStatuses, scheduledAt : Nat]
      /\ overtaken \subseteq Calls
  BY DEF IInv, TypeOK, CallType
<1>1. ASSUME NEW u \in Users, NEW what \in {"create", "publish"}, Admit(c, u, what, Unscheduled)
      PROVE  IInv'
  BY <1>1, AdmitIInv DEF Requested, Unscheduled
<1>2. ASSUME NEW u \in Users, NEW time \in now + 1 .. LastHour, Admit(c, u, "schedule", time)
      PROVE  IInv'
  <2>1. time \in Nat
    BY <1>0, PostAssumption
  <2> QED BY <1>2, <2>1, AdmitIInv DEF Requested
<1>3. CASE ReadForSchedule(c) \/ AssertOutboundAllowed(c) \/ ReadForPublish(c) \/ ApprovePost(c)
  <2>1. /\ UNCHANGED <<now, account, gates, tick, work, breaks, overtaken, failedFor>>
        /\ call[c].at # "idle"
        /\ \E step \in {"allowed", "found", "approved"} : CallAt(c, step)
    BY <1>3 DEF ReadForSchedule, AssertOutboundAllowed, ReadForPublish, ApprovePost
  <2>2. /\ call' \in CallType
        /\ call'[c].by = call[c].by
        /\ \A d \in Calls \ {c} : call'[d] = call[d]
    BY <1>0, <2>1, CallAtEffect
  <2>3. post' \in [status : PostStatuses, scheduledAt : Nat]
    BY <1>0, <1>3 DEF ReadForSchedule, AssertOutboundAllowed, ReadForPublish, ApprovePost, PostStatuses
  <2>4. TypeOK'
    BY <2>1, <2>2, <2>3 DEF IInv, TypeOK, CallType, gates, work
  <2>5. AccessInv'
    BY <2>1, <2>2, RequestMoves
  <2> QED BY <2>1, <2>4, <2>5, JobsRest, NothingDue DEF IInv, work
<1>4. CASE CreatePost(c) \/ SchedulePost(c) \/ CallEnds(c)
  <2>1. /\ UNCHANGED <<now, account, gates, tick, work, breaks>>
        /\ failedFor' \in {failedFor, Unscheduled}
        /\ EndCall(c)
    BY <1>4 DEF CreatePost, SchedulePost, CallEnds
  <2>2. /\ call' \in CallType
        /\ call'[c].at = "idle"
        /\ \A d \in Calls \ {c} : call'[d] = call[d] /\ (d \in overtaken => d \in overtaken')
        /\ overtaken' \subseteq overtaken
    BY <1>0, <2>1, EndCallEffect
  <2>3. post' \in [status : PostStatuses, scheduledAt : Nat]
    BY <1>0, <1>4 DEF CreatePost, SchedulePost, CallEnds, PostStatuses, CallType
  <2>4. TypeOK'
    BY <1>0, <2>1, <2>2, <2>3 DEF IInv, TypeOK, CallType, gates, work, Unscheduled
  <2>5. AccessInv'
    BY <2>1, <2>2, RequestMoves
  <2> QED BY <2>1, <2>4, <2>5, JobsRest, NothingDue DEF IInv, work
<1>5. CASE EnqueuePublish(c)
  <2>1. /\ UNCHANGED <<now, account, gates, post, tick, attempt, breaks, failedFor>>
        /\ AddJob("publish", Unscheduled)
        /\ EndCall(c)
    BY <1>5 DEF EnqueuePublish
  <2>2. /\ call' \in CallType
        /\ call'[c].at = "idle"
        /\ \A d \in Calls \ {c} : call'[d] = call[d] /\ (d \in overtaken => d \in overtaken')
        /\ overtaken' \subseteq overtaken
    BY <1>0, <2>1, EndCallEffect
  <2>3. /\ job' \in [Kinds -> Jobs]
        /\ madeFor' \in [Kinds -> Nat]
        /\ \A l \in Kinds : JobInv(l)'
        /\ \A l \in Kinds : madeFor'[l] <= now
    BY <1>0, <2>1, AddJobKeeps DEF Kinds, Unscheduled
  <2>4. TypeOK'
    BY <1>0, <2>1, <2>2, <2>3 DEF IInv, TypeOK, CallType, gates
  <2>5. AccessInv'
    BY <2>1, <2>2, RequestMoves
  <2>6. DueInv'
    BY <2>1, <2>3 DEF IInv, DueInv
  <2> QED BY <2>3, <2>4, <2>5, <2>6 DEF IInv
<1> QED BY <1>1, <1>2, <1>3, <1>4, <1>5 DEF CallStep

-----------------------------------------------------------------------------
(* The scheduler and the worker                                            *)

(* The scheduler lists what is due and queues it for the time it read.     *)
LEMMA TickIInv ==
  ASSUME IInv, TickStep \/ TickBreaksOff
  PROVE  IInv'
<1>0. tick \in Nat /\ now \in Nat /\ breaks \in Nat /\ tick <= now /\ post.scheduledAt \in Nat
  BY DEF IInv, TypeOK, DueInv
<1>1. CASE TickReads
  <2>1. /\ UNCHANGED <<now, account, gates, post, call, work, breaks, overtaken, failedFor>>
        /\ tick' = post.scheduledAt /\ post.scheduledAt <= now
    BY <1>1 DEF TickReads, TickIf
  <2>2. TypeOK'
    BY <1>0, <2>1 DEF IInv, TypeOK, gates, work
  <2>3. DueInv'
    BY <2>1 DEF IInv, DueInv, work
  <2> QED BY <2>1, <2>2, <2>3, RequestsRest, JobsRest DEF IInv, work
<1>2. CASE TickEnqueues
  <2>1. /\ UNCHANGED <<now, account, gates, post, call, attempt, breaks, overtaken, failedFor>>
        /\ AddJob("schedule", tick)
        /\ tick' = 0
    BY <1>2 DEF TickEnqueues, Unscheduled
  <2>2. /\ job' \in [Kinds -> Jobs]
        /\ madeFor' \in [Kinds -> Nat]
        /\ \A l \in Kinds : JobInv(l)'
        /\ \A l \in Kinds : madeFor'[l] <= now
    BY <1>0, <2>1, AddJobKeeps DEF Kinds
  <2>3. TypeOK'
    BY <2>1, <2>2 DEF IInv, TypeOK, gates
  <2>4. DueInv'
    BY <1>0, <2>1, <2>2 DEF IInv, DueInv
  <2> QED BY <2>1, <2>2, <2>3, <2>4, RequestsRest DEF IInv
<1>3. CASE TickBreaksOff
  <2>1. /\ UNCHANGED <<now, account, gates, post, call, work, overtaken, failedFor>>
        /\ tick' = 0 /\ breaks' = breaks + 1
    BY <1>3 DEF TickBreaksOff, Unscheduled
  <2>2. breaks' \in Nat
    BY <1>0, <2>1
  <2>3. TypeOK'
    BY <2>1, <2>2 DEF IInv, TypeOK, gates, work
  <2>4. DueInv'
    BY <1>0, <2>1 DEF IInv, DueInv, work
  <2> QED BY <2>1, <2>3, <2>4, RequestsRest, JobsRest DEF IInv, work
<1> QED BY <1>1, <1>2, <1>3 DEF TickStep

(* What is left to show of a step of the worker or of the queue, which     *)
(* leaves everything else alone.                                           *)
LEMMA JobMoves ==
  ASSUME IInv, NEW k \in Kinds,
         UNCHANGED <<now, account, gates, call, tick, madeFor, overtaken>>,
         post' \in [status : PostStatuses, scheduledAt : Nat],
         breaks' \in Nat,
         job' \in [Kinds -> Jobs],
         attempt' \in [Kinds -> {"idle", "read", "onFailed"}],
         \A l \in Kinds \ {k} : job'[l] = job[l] /\ attempt'[l] = attempt[l],
         JobInv(k)',
         failedFor' \in {failedFor, madeFor[k]}
  PROVE  IInv'
<1>1. failedFor' \in Nat
  BY DEF IInv, TypeOK
<1>2. TypeOK'
  BY <1>1 DEF IInv, TypeOK, gates
<1>3. \A l \in Kinds : JobInv(l)'
  BY DEF IInv, JobInv
<1>4. DueInv'
  BY DEF IInv, DueInv
<1> QED BY <1>2, <1>3, <1>4, RequestsRest DEF IInv

(* The queue hands out jobs whose worker is gone, and delayed ones.        *)
LEMMA QueueStepIInv ==
  ASSUME IInv, NEW k \in Kinds, QueueStep(k)
  PROVE  IInv'
<1>0. /\ job \in [Kinds -> Jobs] /\ attempt \in [Kinds -> {"idle", "read", "onFailed"}]
      /\ JobInv(k) /\ post \in [status : PostStatuses, scheduledAt : Nat] /\ breaks \in Nat
  BY DEF IInv, TypeOK
<1>1. UNCHANGED <<now, account, gates, post, call, tick, attempt, madeFor, breaks, overtaken, failedFor>>
  BY DEF QueueStep, JobStalls, JobPromoted
<1>2. PICK j \in {Stalled(job[k]), Promoted(job[k])} : job' = [job EXCEPT ![k] = j]
  BY DEF QueueStep, JobStalls, JobPromoted
<1>3. job' \in [Kinds -> Jobs]
  BY <1>0, <1>2, JobOperators
<1>4. job'[k] = j /\ \A l \in Kinds \ {k} : job'[l] = job[l]
  BY <1>0, <1>2
<1>5. JobInv(k)'
  <2>1. attempt'[k] = attempt[k] /\ job[k] \in Jobs
    BY <1>0, <1>1
  <2>2. CASE JobStalls(k)
    <3>1. job'[k] = Stalled(job[k]) /\ attempt[k] = "idle" /\ job[k].state = "active"
      BY <1>0, <2>2 DEF JobStalls
    <3>2. Stalled(job[k]).attempts = job[k].attempts
      BY <2>1 DEF Stalled, Jobs
    <3> QED BY <1>0, <2>1, <3>1, <3>2 DEF JobInv
  <2>3. CASE JobPromoted(k)
    <3>1. job'[k] = Promoted(job[k]) /\ job[k].state = "delayed"
      BY <1>0, <2>3 DEF JobPromoted
    <3>2. Promoted(job[k]).attempts = job[k].attempts /\ Promoted(job[k]).state = "waiting"
      BY <2>1 DEF Promoted, Jobs
    <3> QED BY <1>0, <2>1, <3>1, <3>2 DEF JobInv
  <2> QED BY <2>2, <2>3 DEF QueueStep
<1> QED BY <1>0, <1>1, <1>3, <1>4, <1>5, JobMoves

(* A job that is taken is completed at once or attempted.                  *)
LEMMA StartAttemptIInv ==
  ASSUME IInv, NEW k \in Kinds, StartAttempt(k)
  PROVE  IInv'
<1>0. /\ job \in [Kinds -> Jobs] /\ attempt \in [Kinds -> {"idle", "read", "onFailed"}]
      /\ JobInv(k) /\ post \in [status : PostStatuses, scheduledAt : Nat] /\ breaks \in Nat
  BY DEF IInv, TypeOK
<1>1. UNCHANGED <<now, account, gates, post, call, tick, madeFor, breaks, overtaken, failedFor>>
  BY DEF StartAttempt
<1>2. job' \in [Kinds -> Jobs]
  BY <1>0, JobOperators DEF StartAttempt
<1>3. attempt' \in [Kinds -> {"idle", "read", "onFailed"}]
      /\ \A l \in Kinds \ {k} : job'[l] = job[l] /\ attempt'[l] = attempt[l]
  BY <1>0 DEF StartAttempt, Goto
<1>4. JobInv(k)'
  <2>1. job[k] \in Jobs /\ job[k].attempts < MaxAttempts /\ attempt[k] \notin {"read", "onFailed"}
    BY <1>0 DEF StartAttempt, JobInv
  <2>2. CASE job' = [job EXCEPT ![k] = Completed(Taken(@))] /\ UNCHANGED attempt
    <3>1. job'[k] = Completed(Taken(job[k])) /\ attempt'[k] = attempt[k]
      BY <1>0, <2>2
    <3>2. Completed(Taken(job[k])).state = "completed"
      BY <2>1 DEF Completed, Taken, Jobs
    <3> QED BY <2>1, <3>1, <3>2 DEF JobInv
  <2>3. CASE job' = [job EXCEPT ![k] = Taken(@)] /\ Goto(k, "read")
    <3>1. job'[k] = Taken(job[k]) /\ attempt'[k] = "read"
      BY <1>0, <2>3 DEF Goto
    <3>2. Taken(job[k]).state = "active" /\ Taken(job[k]).attempts = job[k].attempts
      BY <2>1 DEF Taken, Jobs
    <3> QED BY <2>1, <3>1, <3>2 DEF JobInv
  <2> QED BY <2>2, <2>3 DEF StartAttempt
<1> QED BY <1>0, <1>1, <1>2, <1>3, <1>4, JobMoves

(* The adapter answers: the post is published, or the attempt is counted.  *)
LEMMA AttemptEndsIInv ==
  ASSUME IInv, NEW k \in Kinds, AttemptEnds(k)
  PROVE  IInv'
<1>0. /\ job \in [Kinds -> Jobs] /\ attempt \in [Kinds -> {"idle", "read", "onFailed"}]
      /\ JobInv(k) /\ post \in [status : PostStatuses, scheduledAt : Nat] /\ breaks \in Nat
  BY DEF IInv, TypeOK
<1>1. UNCHANGED <<now, account, gates, call, tick, madeFor, breaks, overtaken, failedFor>>
      /\ attempt[k] = "read"
  BY DEF AttemptEnds
<1>2. post' \in [status : PostStatuses, scheduledAt : Nat]
  BY <1>0 DEF AttemptEnds, PostStatuses
<1>3. job[k] \in Jobs /\ job[k].state = "active" /\ job[k].attempts < MaxAttempts
  BY <1>0, <1>1 DEF JobInv
<1>4. Completed(job[k]) \in Jobs /\ Thrown(job[k]) \in Jobs
  BY <1>3, JobOperators
<1>5. CASE job' = [job EXCEPT ![k] = Completed(@)] /\ Goto(k, "idle")
  <2>1. job' \in [Kinds -> Jobs] /\ job'[k].state = "completed" /\ attempt'[k] = "idle"
    BY <1>0, <1>4, <1>5 DEF Goto, Completed, Jobs
  <2>2. attempt' \in [Kinds -> {"idle", "read", "onFailed"}]
        /\ \A l \in Kinds \ {k} : job'[l] = job[l] /\ attempt'[l] = attempt[l]
    BY <1>0, <1>5 DEF Goto
  <2>3. JobInv(k)'
    BY <2>1 DEF JobInv
  <2> QED BY <1>0, <1>1, <1>2, <2>1, <2>2, <2>3, JobMoves
<1>6. CASE /\ job' = [job EXCEPT ![k] = Thrown(@)]
           /\ Goto(k, IF LastAttempt(job[k]) THEN "onFailed" ELSE "idle")
  <2>1. job' \in [Kinds -> Jobs] /\ job'[k] = Thrown(job[k])
    BY <1>0, <1>4, <1>6
  <2>2. attempt' \in [Kinds -> {"idle", "read", "onFailed"}]
        /\ attempt'[k] = (IF LastAttempt(job[k]) THEN "onFailed" ELSE "idle")
        /\ \A l \in Kinds \ {k} : job'[l] = job[l] /\ attempt'[l] = attempt[l]
    BY <1>0, <1>6 DEF Goto
  <2>3. JobInv(k)'
    BY <1>3, <2>1, <2>2, ThrownAttempts DEF JobInv
  <2> QED BY <1>0, <1>1, <1>2, <2>1, <2>2, <2>3, JobMoves
<1> QED BY <1>5, <1>6 DEF AttemptEnds

(* The listener fails the post for the schedule its job was queued for; a  *)
(* worker that is gone leaves its job behind.                              *)
LEMMA AttemptGoneIInv ==
  ASSUME IInv, NEW k \in Kinds, OnFailed(k) \/ WorkerLost(k)
  PROVE  IInv'
<1>0. /\ job \in [Kinds -> Jobs] /\ attempt \in [Kinds -> {"idle", "read", "onFailed"}]
      /\ JobInv(k) /\ post \in [status : PostStatuses, scheduledAt : Nat] /\ breaks \in Nat
  BY DEF IInv, TypeOK
<1>1. /\ UNCHANGED <<now, account, gates, call, tick, job, madeFor, overtaken>>
      /\ Goto(k, "idle")
      /\ failedFor' \in {failedFor, madeFor[k]}
  BY DEF OnFailed, WorkerLost
<1>2. post' \in [status : PostStatuses, scheduledAt : Nat] /\ breaks' \in Nat
  BY <1>0 DEF OnFailed, WorkerLost, PostStatuses
<1>3. attempt' \in [Kinds -> {"idle", "read", "onFailed"}] /\ attempt'[k] = "idle"
      /\ \A l \in Kinds \ {k} : job'[l] = job[l] /\ attempt'[l] = attempt[l]
  BY <1>0, <1>1 DEF Goto
<1>4. JobInv(k)'
  BY <1>0, <1>1, <1>3 DEF JobInv
<1> QED BY <1>0, <1>1, <1>2, <1>3, <1>4, JobMoves

-----------------------------------------------------------------------------
(* Time, and administrators                                                *)

(* Who is overtaken when access may be withdrawn is known to be.           *)
LEMMA WithdrawalIInv ==
  ASSUME IInv, AdminChanges, Overtake, now' \in {now, now + 1},
         workspace' \in WorkspaceStatuses, support' \in SupportType,
         UNCHANGED <<outboundPaused, queuePaused>>
  PROVE  IInv'
<1>0. now \in Nat /\ tick \in Nat /\ failedFor \in Nat /\ madeFor \in [Kinds -> Nat]
  BY DEF IInv, TypeOK
<1>1. now' \in Nat /\ now' >= now
  BY <1>0
<1>2. TypeOK'
  BY <1>1 DEF IInv, TypeOK, AdminChanges, Overtake, SupportType, work
<1>3. AccessInv'
  BY DEF AccessInv, AdminChanges, Overtake
<1>4. DueInv'
  <2>1. tick <= now' /\ failedFor <= now' /\ \A k \in Kinds : madeFor[k] <= now'
    BY <1>0, <1>1 DEF IInv, DueInv
  <2> QED BY <2>1 DEF DueInv, AdminChanges, work
<1> QED BY <1>2, <1>3, <1>4, JobsRest DEF IInv, AdminChanges, work

(* A support session that opens lives from now on.                         *)
LEMMA StartSupportIInv ==
  ASSUME IInv, NEW u \in Staff, StartSupport(u)
  PROVE  IInv'
<1>0. now \in Nat /\ support \in SupportType
  BY DEF IInv, TypeOK, SupportType
<1>1. /\ UNCHANGED <<now, workspace, outboundPaused, queuePaused, overtaken>>
      /\ UNCHANGED <<account, post, tick, work, breaks, failedFor, call>>
  BY DEF StartSupport, AdminChanges
<1>2. support' \in SupportType
  BY <1>0 DEF StartSupport, SupportType
<1>3. TypeOK'
  BY <1>1, <1>2 DEF IInv, TypeOK, SupportType, work
<1>4. ASSUME NEW v \in Users, Live(v)
      PROVE  Live(v)'
  <2>1. CASE v = u
    BY <1>0, <2>1 DEF StartSupport, Live, SupportType
  <2>2. CASE v # u
    BY <1>0, <1>1, <1>4, <2>2 DEF StartSupport, Live, SupportType
  <2> QED BY <2>1, <2>2
<1>5. ASSUME NEW v \in Users, HasAccess(v)
      PROVE  HasAccess(v)'
  <2>1. Live(v) \in BOOLEAN /\ Live(v)' \in BOOLEAN
    BY DEF Live
  <2> QED BY <1>1, <1>4, <1>5, <2>1, SupportOnlyAdds DEF HasAccess
<1>6. AccessInv'
  <2> SUFFICES ASSUME NEW c \in Calls, call[c].at # "idle", c \notin overtaken
               PROVE  HasAccess(call[c].by)'
    BY <1>1 DEF AccessInv
  <2>1. PICK v \in Users : call[c].by = v
    BY DEF IInv, TypeOK
  <2>2. HasAccess(v)
    BY <2>1 DEF IInv, AccessInv
  <2>3. HasAccess(v)'
    BY <1>5, <2>2
  <2>4. call'[c].by = v
    BY <1>1, <2>1
  <2> QED BY <2>3, <2>4 DEF HasAccess, Live
<1> QED BY <1>1, <1>3, <1>6, JobsRest, NothingDue DEF IInv, work

(* Time and administrators keep the invariant.                             *)
LEMMA AdministrationIInv ==
  ASSUME IInv, HourPasses \/ Administration
  PROVE  IInv'
<1>0. workspace \in WorkspaceStatuses /\ support \in SupportType
      /\ outboundPaused \in BOOLEAN /\ queuePaused \in BOOLEAN
  BY DEF IInv, TypeOK, SupportType
<1>1. CASE HourPasses
  BY <1>0, <1>1, WithdrawalIInv DEF HourPasses, gates
<1>2. ASSUME NEW u \in Staff, StartSupport(u) PROVE IInv'
  BY <1>2, StartSupportIInv
<1>3. ASSUME NEW u \in Staff, EndSupport(u) PROVE IInv'
  <2>1. support' \in SupportType
    BY <1>0, <1>3 DEF EndSupport, SupportType, NoSession
  <2> QED BY <1>0, <1>3, <2>1, WithdrawalIInv DEF EndSupport
<1>4. ASSUME NEW status \in WorkspaceStatuses, SetWorkspace(status) PROVE IInv'
  BY <1>0, <1>4, WithdrawalIInv DEF SetWorkspace
<1>5. CASE PauseOrResumeQueue \/ \E paused \in BOOLEAN : SetEmergencyStop(paused)
  <2>1. /\ UNCHANGED <<now, workspace, support, overtaken>>
        /\ UNCHANGED <<account, post, tick, work, breaks, failedFor, call>>
        /\ outboundPaused' \in BOOLEAN /\ queuePaused' \in BOOLEAN
    BY <1>0, <1>5 DEF PauseOrResumeQueue, SetEmergencyStop, AdminChanges
  <2>2. TypeOK'
    BY <2>1 DEF IInv, TypeOK, work
  <2>3. AccessInv'
    BY <2>1 DEF IInv, AccessInv, HasAccess, Live
  <2> QED BY <2>1, <2>2, <2>3, JobsRest, NothingDue DEF IInv, work
<1> QED BY <1>1, <1>2, <1>3, <1>4, <1>5 DEF Administration

-----------------------------------------------------------------------------
(* Theorems                                                                *)

(* Every step keeps the invariant.                                         *)
LEMMA NextIInv == IInv /\ [Next]_vars => IInv'
<1> SUFFICES ASSUME IInv, [Next]_vars PROVE IInv'
  OBVIOUS
<1>1. CASE HourPasses \/ Administration
  BY <1>1, AdministrationIInv
<1>2. ASSUME NEW c \in Calls, CallStep(c) PROVE IInv'
  BY <1>2, CallStepIInv
<1>3. CASE TickStep \/ TickBreaksOff
  BY <1>3, TickIInv
<1>4. ASSUME NEW k \in Kinds, WorkerStep(k) \/ WorkerLost(k) \/ QueueStep(k) PROVE IInv'
  BY <1>4, StartAttemptIInv, AttemptEndsIInv, AttemptGoneIInv, QueueStepIInv DEF WorkerStep
<1>5. CASE UNCHANGED vars
  <2>1. UNCHANGED <<now, account, gates, post, call, tick, work, breaks, overtaken, failedFor>>
    BY <1>5 DEF vars
  <2>2. TypeOK'
    BY <2>1 DEF IInv, TypeOK, gates, work
  <2> QED BY <2>1, <2>2, RequestsRest, JobsRest, NothingDue DEF IInv, work
<1> QED BY <1>1, <1>2, <1>3, <1>4, <1>5 DEF Next

(* The invariant the others rest on.                                       *)
THEOREM InvariantHolds == Spec => []IInv
BY InitIInv, NextIInv, PTL DEF Spec

(* Every variable keeps its type.                                          *)
THEOREM SpecTypeOK == Spec => []TypeOK
<1>1. IInv => TypeOK
  BY DEF IInv
<1> QED BY <1>1, InvariantHolds, PTL

(* No request changes a post for somebody without access to posts, unless  *)
(* the access was withdrawn while the request was under way.               *)
THEOREM SpecPostChangesNeedAccess == Spec => PostChangesNeedAccess
<1>1. IInv =>
        [\A c \in Calls :
           (call[c].at # "idle" /\ post' # post /\ call'[c] # call[c])
               => HasAccess(call[c].by) \/ c \in overtaken]_vars
  BY DEF IInv, AccessInv
<1> QED BY <1>1, InvariantHolds, PTL DEF PostChangesNeedAccess

(* A post that fails before it is due was not failed by the job of its own *)
(* schedule: no job is queued for a time that is still to come.            *)
THEOREM SpecEarlyFailureIsAnOlderJobs == Spec => []EarlyFailureIsAnOlderJobs
<1>1. IInv => EarlyFailureIsAnOlderJobs
  BY DEF IInv, TypeOK, DueInv, EarlyFailureIsAnOlderJobs
<1> QED BY <1>1, InvariantHolds, PTL

(* Whatever the environment holds, no adapter creates a post: all three    *)
(* leave createPost to the base class.                                     *)
LEMMA NoAdapterPosts ==
  ASSUME NEW platform, NEW environment
  PROVE  createPost(platform, environment) # "SUCCESS"
BY DEF createPost, unavailable

(* So nothing the system does makes a post PUBLISHED: every attempt at one *)
(* throws, or dies before it can.                                          *)
LEMMA NoPostIsPublished == Spec => [](post.status # "PUBLISHED")
<1>1. Init => post.status # "PUBLISHED"
  BY DEF Init
<1>2. IInv /\ post.status # "PUBLISHED" /\ [Next]_vars => (post.status # "PUBLISHED")'
  <2> SUFFICES ASSUME IInv, post.status # "PUBLISHED", Next, post' # post
               PROVE  post'.status # "PUBLISHED"
    BY DEF vars
  <2>0. post \in [status : PostStatuses, scheduledAt : Nat]
    BY DEF IInv, TypeOK
  <2>1. ASSUME NEW c \in Calls, CallStep(c)
        PROVE  post'.status # "PUBLISHED"
    BY <2>0, <2>1 DEF CallStep, Admit, Judge, CreatePost, ReadForSchedule, SchedulePost, AssertOutboundAllowed,
                ReadForPublish, ApprovePost, EnqueuePublish, CallEnds
  <2>2. ASSUME NEW k \in Kinds, WorkerStep(k) \/ WorkerLost(k) \/ QueueStep(k)
        PROVE  post'.status # "PUBLISHED"
    BY <2>0, <2>2, NoAdapterPosts DEF WorkerStep, WorkerLost, QueueStep, StartAttempt, AttemptEnds, OnFailed,
                JobStalls, JobPromoted
  <2>3. ~(TickStep \/ TickBreaksOff)
    BY DEF TickStep, TickBreaksOff, TickReads, TickIf, TickEnqueues
  <2>4. ~(HourPasses \/ Administration)
    BY DEF HourPasses, Administration, StartSupport, EndSupport, SetWorkspace, SetEmergencyStop,
           PauseOrResumeQueue, AdminChanges
  <2> QED BY <2>1, <2>2, <2>3, <2>4 DEF Next
<1> QED BY <1>1, <1>2, InvariantHolds, PTL DEF Spec

=============================================================================
