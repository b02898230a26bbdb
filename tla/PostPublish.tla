----------------------------- MODULE PostPublish -----------------------------
(***************************************************************************)
(* One post of a tenant: OperationsService creates, schedules and          *)
(* publishes it for members and for support staff, the scheduler queues it *)
(* when it is due, and the worker's processPost hands it to the platform   *)
(* adapter.  Meanwhile administrators open and end support sessions,       *)
(* suspend the tenant and stop everything outbound.  The two jobs of a     *)
(* post have ids of their own, schedule-post-<id> and publish-post-<id>.   *)
(***************************************************************************)
EXTENDS BullQueue, PlatformRules, AccessRules

CONSTANTS
    Calls,          \* requests to the API
    Users,
    Staff,          \* the users with systemRole SUPER_ADMIN
    RoleOf,         \* the role of each user's ACTIVE membership, or "none"
    Accounts,       \* the accounts to try: platform, granted
    Environment,    \* the platform variables that process.env holds
    LastHour,       \* bound: the hours the instance lives through
    MaxBreaks       \* bound: processes that break off

ASSUME PostAssumption ==
    /\ Users # {}
    /\ Staff \subseteq Users
    /\ RoleOf \in [Users -> roles \cup {"none"}]
    /\ Accounts \subseteq [platform : Platforms, granted : BOOLEAN]
    /\ Environment \subseteq UNION {required[p] : p \in Platforms}
    /\ LastHour \in Nat
    /\ MaxBreaks \in Nat

VARIABLES
    now,            \* the hour on the clock
    account,        \* the account the post is for; nothing changes it
    workspace,      \* Workspace.status; suspendedAt and deletedAt follow it
    support,        \* SupportSession of the staff: open, and until when
    outboundPaused, \* SystemControl.outboundPaused
    queuePaused,    \* post.publish is paused
    post,           \* Post: status, scheduledAt
    call,           \* each request: where it is, who makes it, what it read
    tick,           \* the scheduler's tick and the scheduledAt of a due post
    job,            \* the two jobs of the post
    attempt,        \* the worker's attempt at each job
    breaks,         \* processes that broke off so far
    \* history
    overtaken,      \* requests whose access was withdrawn since it was checked
    madeFor,        \* the scheduledAt for which each job was queued
    failedFor       \* that of the job which failed the post

gates == <<workspace, support, outboundPaused, queuePaused>>
work == <<job, attempt, madeFor>>
vars == <<now, account, gates, post, call, tick, work, breaks, overtaken, failedFor>>

Kinds == {"schedule", "publish"}
PostStatuses == {"NONE", "DRAFT", "APPROVED", "SCHEDULED", "PUBLISHED", "FAILED"}
WorkspaceStatuses == {"ACTIVE", "SUSPENDED", "ARCHIVED"}
Unscheduled == 0

Requested == {"create", "schedule", "publish"}
NoCall == [at |-> "idle", asks |-> "create", by |-> CHOOSE u \in Users : TRUE, time |-> Unscheduled]

NoSession == [active |-> FALSE, until |-> 0]
Live(u) == u \in Staff /\ support[u].active /\ support[u].until > now

(* What the permission matrix says of a user's access to posts.            *)
HasAccess(u) == assertPermission(RoleOf[u], workspace, Live(u), "post.manage")

-----------------------------------------------------------------------------

Init ==
    /\ now = 0
    /\ account \in Accounts
    /\ workspace = "ACTIVE"
    /\ support = [u \in Staff |-> NoSession]
    /\ outboundPaused = FALSE
    /\ queuePaused = FALSE
    /\ post = [status |-> "NONE", scheduledAt |-> Unscheduled]
    /\ call = [c \in Calls |-> NoCall]
    /\ tick = Unscheduled
    /\ job = [k \in Kinds |-> NoJob]
    /\ attempt = [k \in Kinds |-> "idle"]
    /\ breaks = 0
    /\ overtaken = {}
    /\ madeFor = [k \in Kinds |-> Unscheduled]
    /\ failedFor = Unscheduled

-----------------------------------------------------------------------------
(* OperationsService                                                       *)

CallAt(c, step) == call' = [call EXCEPT ![c].at = step]
EndCall(c) ==
    /\ call' = [call EXCEPT ![c] = NoCall]
    /\ overtaken' = overtaken \ {c}

Judge(c, u, what, time, admitted) ==
    /\ call[c].at = "idle"
    /\ admitted
    /\ call' = [call EXCEPT ![c] = [at |-> "admitted", asks |-> what, by |-> u, time |-> time]]
    /\ UNCHANGED <<now, account, gates, post, tick, work, breaks, overtaken, failedFor>>

(* Mutant: every member is let in, whatever the role.                      *)
AdmitMember(c, u, what, time) ==
    Judge(c, u, what, time,
          assertMembership(RoleOf[u], workspace, Live(u), roles) # "none")

(* assertMembership with managementRoles, the first thing every handler    *)
(* does; schedulePost also wants a time that is still to come.             *)
Admit(c, u, what, time) ==
    Judge(c, u, what, time,
          assertMembership(RoleOf[u], workspace, Live(u), managementRoles) # "none")

CreatePost(c) ==
    /\ call[c].at = "admitted" /\ call[c].asks = "create"
    /\ post.status = "NONE"
    /\ post' = [post EXCEPT !.status = "DRAFT"]
    /\ EndCall(c)
    /\ UNCHANGED <<now, account, gates, tick, work, breaks, failedFor>>

(* schedulePost reads the post and refuses most states of it.              *)
ReadForSchedule(c) ==
    /\ call[c].at = "admitted" /\ call[c].asks = "schedule"
    /\ post.status \in {"DRAFT", "APPROVED", "FAILED"}
    /\ CallAt(c, "found")
    /\ UNCHANGED <<now, account, gates, post, tick, work, breaks, overtaken, failedFor>>

SchedulePost(c) ==
    /\ call[c].at = "found" /\ call[c].asks = "schedule"
    /\ post' = [status |-> "SCHEDULED", scheduledAt |-> call[c].time]
    /\ failedFor' = Unscheduled
    /\ EndCall(c)
    /\ UNCHANGED <<now, account, gates, tick, work, breaks>>

(* publishPost asks the outbound policy, then the post and its account.    *)
AssertOutboundAllowed(c) ==
    /\ call[c].at = "admitted" /\ call[c].asks = "publish"
    /\ ~outboundPaused
    /\ workspace = "ACTIVE"
    /\ CallAt(c, "allowed")
    /\ UNCHANGED <<now, account, gates, post, tick, work, breaks, overtaken, failedFor>>

ReadForPublish(c) ==
    /\ call[c].at = "allowed"
    /\ post.status # "NONE"
    /\ MayPublish(account, Environment)
    /\ CallAt(c, "found")
    /\ UNCHANGED <<now, account, gates, post, tick, work, breaks, overtaken, failedFor>>

(* Whatever the status was: a schedule is given up, a failure forgotten.   *)
ApprovePost(c) ==
    /\ call[c].at = "found" /\ call[c].asks = "publish"
    /\ post' = [post EXCEPT !.status = "APPROVED"]
    /\ CallAt(c, "approved")
    /\ UNCHANGED <<now, account, gates, tick, work, breaks, overtaken, failedFor>>

AddJob(k, scheduledAt) ==
    /\ job' = [job EXCEPT ![k] = Added(@)]
    /\ madeFor' = IF job[k].state = "none" THEN [madeFor EXCEPT ![k] = scheduledAt] ELSE madeFor

EnqueuePublish(c) ==
    /\ call[c].at = "approved"
    /\ AddJob("publish", Unscheduled)
    /\ EndCall(c)
    /\ UNCHANGED <<now, account, gates, post, tick, attempt, breaks, failedFor>>

(* A check refuses, or the process dies or a database call fails.          *)
CallEnds(c) ==
    /\ call[c].at # "idle"
    /\ EndCall(c)
    /\ UNCHANGED <<now, account, gates, post, tick, work, breaks, failedFor>>

-----------------------------------------------------------------------------
(* The scheduler                                                           *)

TickIf(due) ==
    /\ tick = Unscheduled
    /\ ~outboundPaused
    /\ post.status = "SCHEDULED" /\ due
    /\ tick' = post.scheduledAt
    /\ UNCHANGED <<now, account, gates, post, call, work, breaks, overtaken, failedFor>>

(* Mutant: the query does not ask for the time.                            *)
TickReadsEarly == TickIf(TRUE)

(* The control row and the due posts are read at the start.                *)
TickReads == TickIf(post.scheduledAt <= now)

TickEnqueues ==
    /\ tick # Unscheduled
    /\ AddJob("schedule", tick)
    /\ tick' = Unscheduled
    /\ UNCHANGED <<now, account, gates, post, call, attempt, breaks, overtaken, failedFor>>

TickBreaksOff ==
    /\ tick # Unscheduled
    /\ breaks < MaxBreaks
    /\ breaks' = breaks + 1
    /\ tick' = Unscheduled
    /\ UNCHANGED <<now, account, gates, post, call, work, overtaken, failedFor>>

-----------------------------------------------------------------------------
(* The worker                                                              *)

Goto(k, step) == attempt' = [attempt EXCEPT ![k] = step]

StartAttempt(k) ==
    /\ job[k].state = "waiting"
    /\ ~queuePaused
    /\ IF post.status = "PUBLISHED"
         THEN job' = [job EXCEPT ![k] = Completed(Taken(@))] /\ UNCHANGED attempt
         ELSE job' = [job EXCEPT ![k] = Taken(@)] /\ Goto(k, "read")
    /\ UNCHANGED <<now, account, gates, post, call, tick, madeFor, breaks, overtaken, failedFor>>

(* The adapter answers; anything but SUCCESS is thrown.                    *)
AttemptEnds(k) ==
    /\ attempt[k] = "read"
    /\ IF createPost(account.platform, Environment) = "SUCCESS"
         THEN /\ post' = [post EXCEPT !.status = "PUBLISHED"]
              /\ job' = [job EXCEPT ![k] = Completed(@)]
              /\ Goto(k, "idle")
         ELSE /\ job' = [job EXCEPT ![k] = Thrown(@)]
              /\ Goto(k, IF LastAttempt(job[k]) THEN "onFailed" ELSE "idle")
              /\ UNCHANGED post
    /\ UNCHANGED <<now, account, gates, call, tick, madeFor, breaks, overtaken, failedFor>>

(* Mutant: the listener is left to the message queue.                      *)
OnFailedNothing(k) ==
    /\ attempt[k] = "onFailed"
    /\ Goto(k, "idle")
    /\ UNCHANGED <<now, account, gates, post, call, tick, job, madeFor, breaks, overtaken, failedFor>>

(* The 'failed' listener after the last attempt: whatever the post is by   *)
(* now, unless it was published, it becomes FAILED.                        *)
OnFailed(k) ==
    /\ attempt[k] = "onFailed"
    /\ IF post.status = "PUBLISHED"
         THEN UNCHANGED <<post, failedFor>>
         ELSE /\ post' = [post EXCEPT !.status = "FAILED"]
              /\ failedFor' = madeFor[k]
    /\ Goto(k, "idle")
    /\ UNCHANGED <<now, account, gates, call, tick, job, madeFor, breaks, overtaken>>

(* The worker dies in an attempt, or its listener's database call fails.   *)
WorkerLost(k) ==
    /\ attempt[k] # "idle"
    /\ breaks < MaxBreaks
    /\ breaks' = breaks + 1
    /\ Goto(k, "idle")
    /\ UNCHANGED <<now, account, gates, post, call, tick, job, madeFor, overtaken, failedFor>>

JobStalls(k) ==
    /\ job[k].state = "active" /\ attempt[k] = "idle"
    /\ job' = [job EXCEPT ![k] = Stalled(@)]
    /\ UNCHANGED <<now, account, gates, post, call, tick, attempt, madeFor, breaks, overtaken, failedFor>>

JobPromoted(k) ==
    /\ job[k].state = "delayed"
    /\ job' = [job EXCEPT ![k] = Promoted(@)]
    /\ UNCHANGED <<now, account, gates, post, call, tick, attempt, madeFor, breaks, overtaken, failedFor>>

-----------------------------------------------------------------------------
(* Time, and administrators                                                *)

AdminChanges == UNCHANGED <<account, post, tick, work, breaks, failedFor, call>>

(* Requests under way whose user would be refused by now.                  *)
Overtake ==
    overtaken' = overtaken \cup {c \in Calls : call[c].at # "idle" /\ ~HasAccess(call[c].by)'}

HourPasses ==
    /\ now < LastHour
    /\ now' = now + 1
    /\ UNCHANGED gates
    /\ AdminChanges
    /\ Overtake

(* A new session is a row of its own; the longest one that lives counts.   *)
StartSupport(u) ==
    /\ workspace # "ARCHIVED"
    /\ support' = [support EXCEPT ![u] = [active |-> TRUE, until |-> now + 1]]
    /\ UNCHANGED <<now, workspace, outboundPaused, queuePaused, overtaken>>
    /\ AdminChanges

(* endSupportSession, or supportSessions finding the session expired.      *)
EndSupport(u) ==
    /\ support[u].active
    /\ support' = [support EXCEPT ![u] = NoSession]
    /\ UNCHANGED <<now, workspace, outboundPaused, queuePaused>>
    /\ AdminChanges
    /\ Overtake

SetWorkspace(status) ==
    /\ workspace \notin {status, "ARCHIVED"}
    /\ workspace' = status
    /\ UNCHANGED <<now, support, outboundPaused, queuePaused>>
    /\ AdminChanges
    /\ Overtake

(* setEmergencyStop, and the queue operation that follows it.              *)
SetEmergencyStop(paused) ==
    /\ outboundPaused' = paused
    /\ UNCHANGED <<now, workspace, support, queuePaused, overtaken>>
    /\ AdminChanges

PauseOrResumeQueue ==
    /\ queuePaused # outboundPaused
    /\ queuePaused' = outboundPaused
    /\ UNCHANGED <<now, workspace, support, outboundPaused, overtaken>>
    /\ AdminChanges

-----------------------------------------------------------------------------

CallStep(c) ==
    \/ \E u \in Users : \/ \E what \in {"create", "publish"} : Admit(c, u, what, Unscheduled)
                        \/ \E time \in now + 1 .. LastHour : Admit(c, u, "schedule", time)
    \/ CreatePost(c)
    \/ ReadForSchedule(c)
    \/ SchedulePost(c)
    \/ AssertOutboundAllowed(c)
    \/ ReadForPublish(c)
    \/ ApprovePost(c)
    \/ EnqueuePublish(c)
    \/ CallEnds(c)

TickStep == TickReads \/ TickEnqueues

WorkerStep(k) == StartAttempt(k) \/ AttemptEnds(k) \/ OnFailed(k)

QueueStep(k) == JobStalls(k) \/ JobPromoted(k)

Administration ==
    \/ \E u \in Staff : StartSupport(u) \/ EndSupport(u)
    \/ \E status \in WorkspaceStatuses : SetWorkspace(status)
    \/ \E paused \in BOOLEAN : SetEmergencyStop(paused)
    \/ PauseOrResumeQueue

Next ==
    \/ HourPasses
    \/ \E c \in Calls : CallStep(c)
    \/ TickStep \/ TickBreaksOff
    \/ \E k \in Kinds : WorkerStep(k) \/ WorkerLost(k) \/ QueueStep(k)
    \/ Administration

Spec == Init /\ [][Next]_vars

(* The scheduler ticks, the worker takes jobs, BullMQ promotes and returns *)
(* them; nothing is expected of requests, administrators and retention.    *)
FairSpec ==
    /\ Spec
    /\ WF_vars(TickStep)
    /\ \A k \in Kinds : WF_vars(WorkerStep(k)) /\ WF_vars(QueueStep(k))

-----------------------------------------------------------------------------
(* Properties                                                              *)

TypeOK ==
    /\ now \in Nat
    /\ account \in Accounts
    /\ workspace \in WorkspaceStatuses
    /\ support \in [Staff -> [active : BOOLEAN, until : Nat]]
    /\ outboundPaused \in BOOLEAN
    /\ queuePaused \in BOOLEAN
    /\ post \in [status : PostStatuses, scheduledAt : Nat]
    /\ call \in [Calls -> [at : {"idle", "admitted", "allowed", "found", "approved"},
                           asks : Requested, by : Users, time : Nat]]
    /\ tick \in Nat
    /\ job \in [Kinds -> Jobs]
    /\ attempt \in [Kinds -> {"idle", "read", "onFailed"}]
    /\ breaks \in Nat
    /\ overtaken \subseteq Calls
    /\ madeFor \in [Kinds -> Nat]
    /\ failedFor \in Nat

(* A request changes a post only for a user whom the permission matrix     *)
(* grants post.manage at that moment, through an ACTIVE membership of an   *)
(* open workspace or as live support, or for one who lost the access after *)
(* the request was admitted: the role lists of OperationsService, the      *)
(* matrix of packages/auth and the two ways in agree.                      *)
PostChangesNeedAccess ==
    [][\A c \in Calls :
         (call[c].at # "idle" /\ post' # post /\ call'[c] # call[c])
             => HasAccess(call[c].by) \/ c \in overtaken]_vars

(* A post that is FAILED before it was due was failed by a job queued for  *)
(* something else: a publish job that was still trying when the post was   *)
(* scheduled, or the job of an earlier schedule.  The schedule is lost     *)
(* with it, silently.                                                      *)
EarlyFailureIsAnOlderJobs ==
    (post.status = "FAILED" /\ post.scheduledAt > now) => failedFor # post.scheduledAt

(* A due post does not stay SCHEDULED: its job is queued and ends in one   *)
(* way or another, unless outbound is stopped meanwhile, Redis still keeps *)
(* an earlier job of that id, or a process broke off.                      *)
DuePostEnds ==
    (post.status = "SCHEDULED" /\ post.scheduledAt <= now /\ job["schedule"].state = "none")
        ~> (post.status # "SCHEDULED" \/ outboundPaused \/ queuePaused \/ breaks > 0)

=============================================================================
