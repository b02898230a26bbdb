---------------------------- MODULE TenantLifecycle ----------------------------
(***************************************************************************)
(* The subscription of one tenant: it is warned about, expires, is         *)
(* extended, suspended and unlocked, by actors that read its row and write *)
(* it later.  The scheduler's tick marks it and pauses the tenant's        *)
(* campaigns (apps/scheduler/src/main.ts), administrators change it        *)
(* (admin.service.ts), and every API request that wants to send resolves   *)
(* the entitlements, which may write it as well                            *)
(* (subscription-policy.service.ts).  One campaign stands for all of the   *)
(* tenant's: whether it runs depends on the subscription alone.  Time is   *)
(* counted in days.                                                        *)
(***************************************************************************)
EXTENDS Naturals, FiniteSets, FiniteSetsExt

CONSTANTS
    Schedulers,     \* processes running the scheduler
    Calls,          \* requests to the API, and fan-outs of the worker
    Terms,          \* the expiration days an administrator may choose
    WarningDays,    \* subscriptionWarningDays
    LastDay,        \* bound: the days the instance lives through
    MaxBreaks       \* bound: ticks that break off

ASSUME LifecycleAssumption ==
    /\ Terms \subseteq Nat \ {0}
    /\ WarningDays \subseteq Nat \ {0}
    /\ IsFiniteSet(WarningDays)
    /\ WarningDays # {}
    /\ LastDay \in Nat
    /\ MaxBreaks \in Nat

VARIABLES
    today,          \* the day on the clock
    workspace,      \* Workspace.status; suspendedAt and deletedAt follow it
    subscription,   \* Subscription: status, endAt
    campaign,       \* Campaign.status
    notices,        \* the dedupeKeys of Notification: the term and the event
    tick,           \* the scheduler's tick and the subscription it read
    call,           \* a request, or a fan-out, and what it read
    breaks,         \* ticks that broke off so far
    \* history
    overtaken,      \* the status was written for a term replaced since
    cause,          \* who wrote EXPIRED: the tick, or what went before it
    late,           \* the campaign was started after the expiry
    overlapped      \* status calls overlapped, or one broke off

rows == <<workspace, subscription, campaign, notices>>
history == <<overtaken, cause, late, overlapped>>
vars == <<today, rows, tick, call, breaks, history>>

Open == {"ACTIVE", "EXPIRING"}
SubscriptionStatuses == Open \cup {"EXPIRED", "SUSPENDED"}
WorkspaceStatuses == {"ACTIVE", "SUSPENDED", "ARCHIVED"}
CampaignStatuses == {"APPROVED", "SCHEDULED", "RUNNING", "PAUSED", "ENDED"}  \* COMPLETED or FAILED
Causes == {"none", "tick", "policy", "admin", "broken"}
Expired == 0          \* the event "expired" among the warnings: no days left

TickSteps == {"idle", "expired", "marked", "halted", "expiring", "warning"}
StatusSteps == {"tenant-set", "term-read", "halting"}
CallSteps == {"idle", "expiry-seen", "admitted", "fanning", "counting"} \cup StatusSteps

NoTick == [at |-> "idle", endAt |-> 0, left |-> 0]
NoCall == [at |-> "idle", endAt |-> 0, status |-> "ACTIVE", suspended |-> FALSE]

-----------------------------------------------------------------------------
(* packages/shared: the life cycle as a function of the term and the day   *)

subscriptionDaysRemaining(endAt, now) == IF endAt > now THEN endAt - now ELSE 0

subscriptionLifecycleStatus(endAt, now) ==
    IF endAt <= now THEN "EXPIRED"
    ELSE IF subscriptionDaysRemaining(endAt, now) <= Max(WarningDays) THEN "EXPIRING"
    ELSE "ACTIVE"

(* The warning to give with so many days left, none on the days between.   *)
subscriptionWarningThreshold(left) == WarningDays \cap {left}

(* resolveEntitlements: what the row amounts to today.                     *)
EffectiveStatus ==
    LET lifecycle == subscriptionLifecycleStatus(subscription.endAt, today)
    IN  IF lifecycle = "EXPIRED" \/ subscription.status \in Open
          THEN lifecycle ELSE subscription.status

TenantActive == workspace = "ACTIVE"

(* outboundBlockReason in the worker, the same gates on the rows.          *)
OutboundAllowed ==
    /\ TenantActive
    /\ subscription.status \in Open
    /\ subscription.endAt > today

-----------------------------------------------------------------------------

(* createTenant and WorkspacesService.create: a new subscription is ACTIVE *)
(* however short its term is.                                              *)
Init ==
    /\ today = 0
    /\ workspace = "ACTIVE"
    /\ subscription \in [status : {"ACTIVE"}, endAt : Terms]
    /\ campaign = "APPROVED"
    /\ notices = {}
    /\ tick = [s \in Schedulers |-> NoTick]
    /\ call = [c \in Calls |-> NoCall]
    /\ breaks = 0
    /\ overtaken = FALSE
    /\ cause = "none"
    /\ late = FALSE
    /\ overlapped = FALSE

DayPasses ==
    /\ today < LastDay
    /\ today' = today + 1
    /\ UNCHANGED <<rows, tick, call, breaks, history>>

SetStatus(status) == subscription' = [subscription EXCEPT !.status = status]

(* campaign.updateMany: what runs or waits for its time is paused.         *)
HaltCampaigns ==
    /\ campaign' = IF campaign \in {"RUNNING", "SCHEDULED"} THEN "PAUSED" ELSE campaign
    /\ late' = (late /\ campaign # "RUNNING")

-----------------------------------------------------------------------------
(* The scheduler's tick                                                    *)

TickAt(s, step) == tick' = [tick EXCEPT ![s].at = step]
EndTick(s) == tick' = [tick EXCEPT ![s] = NoTick]

(* The queries at the start.  A tick that finds nothing to do is left out. *)
TickReads(s) ==
    /\ tick[s].at = "idle"
    /\ subscription.status \in Open
    /\ subscriptionDaysRemaining(subscription.endAt, today) <= Max(WarningDays)
    /\ tick' = [tick EXCEPT ![s] =
          [at |-> IF subscription.endAt <= today THEN "expired" ELSE "expiring",
           endAt |-> subscription.endAt,
           left |-> subscriptionDaysRemaining(subscription.endAt, today)]]
    /\ UNCHANGED <<today, rows, call, breaks, history>>

(* The update repeats the condition on the status, not the one on endAt.   *)
MarkExpired(s) ==
    /\ tick[s].at = "expired"
    /\ IF subscription.status \in Open
         THEN /\ SetStatus("EXPIRED")
              /\ overtaken' = (tick[s].endAt # subscription.endAt)
              /\ cause' = "tick"
              /\ TickAt(s, "marked")
         ELSE /\ EndTick(s)
              /\ UNCHANGED <<subscription, overtaken, cause>>
    /\ UNCHANGED <<today, workspace, campaign, notices, call, breaks, late, overlapped>>

PauseThen(s, step) ==
    /\ tick[s].at = "marked"
    /\ HaltCampaigns
    /\ TickAt(s, step)
    /\ UNCHANGED <<today, workspace, subscription, notices, call, breaks,
                   overtaken, cause, overlapped>>

(* Mutant: the notification is left to the warnings.                       *)
PauseQuietly(s) == PauseThen(s, "warning")

PauseCampaigns(s) == PauseThen(s, "halted")

AnnounceExpiry(s) ==
    /\ tick[s].at = "halted"
    /\ notices' = notices \cup {<<tick[s].endAt, Expired>>}
    /\ EndTick(s)
    /\ UNCHANGED <<today, workspace, subscription, campaign, call, breaks, history>>

(* EXPIRING is written over ACTIVE, whatever endAt has become.             *)
MarkExpiring(s) ==
    /\ tick[s].at = "expiring"
    /\ IF subscription.status = "ACTIVE"
         THEN SetStatus("EXPIRING") ELSE UNCHANGED subscription
    /\ TickAt(s, "warning")
    /\ UNCHANGED <<today, workspace, campaign, notices, call, breaks, history>>

Warn(s) ==
    /\ tick[s].at = "warning"
    /\ notices' = notices \cup
          ({tick[s].endAt} \X subscriptionWarningThreshold(tick[s].left))
    /\ EndTick(s)
    /\ UNCHANGED <<today, workspace, subscription, campaign, call, breaks, history>>

(* A query fails and the rest of the tick is skipped, or the process dies. *)
TickBreaksOff(s) ==
    /\ tick[s].at # "idle"
    /\ breaks < MaxBreaks
    /\ breaks' = breaks + 1
    /\ cause' = IF tick[s].at \in {"marked", "halted"} /\ cause = "tick" THEN "broken" ELSE cause
    /\ EndTick(s)
    /\ UNCHANGED <<today, rows, call, overtaken, late, overlapped>>

-----------------------------------------------------------------------------
(* AdminService                                                            *)

CallAt(c, step) == call' = [call EXCEPT ![c].at = step]
EndCall(c) == call' = [call EXCEPT ![c] = NoCall]

(* setTenantStatus, one await at a time: the tenant is found and updated.  *)
(* An archive that falls between keeps its deletedAt, and nobody reads the *)
(* status of a deleted tenant.                                             *)
SetTenant(c, suspended) ==
    /\ call[c].at = "idle"
    /\ workspace # "ARCHIVED"
    /\ workspace' = IF suspended THEN "SUSPENDED" ELSE "ACTIVE"
    /\ call' = [call EXCEPT ![c] = [NoCall EXCEPT !.at = "tenant-set", !.suspended = suspended]]
    /\ overlapped' = \E d \in Calls : call[d].at \in StatusSteps
    /\ UNCHANGED <<today, subscription, campaign, notices, tick, breaks, overtaken, cause, late>>

(* The subscription is found and the status it will get is computed.       *)
FindSubscription(c) ==
    /\ call[c].at = "tenant-set"
    /\ call' = [call EXCEPT ![c] =
          [@ EXCEPT !.at = "term-read", !.endAt = subscription.endAt,
                    !.status = IF call[c].suspended THEN "SUSPENDED"
                               ELSE subscriptionLifecycleStatus(subscription.endAt, today)]]
    /\ UNCHANGED <<today, rows, tick, breaks, history>>

SetUnless(c, skipped) ==
    /\ call[c].at = "term-read"
    /\ IF skipped
         THEN UNCHANGED <<subscription, overtaken, cause>>
         ELSE /\ SetStatus(call[c].status)
              /\ overtaken' = (~call[c].suspended /\ call[c].endAt # subscription.endAt)
              /\ cause' = IF call[c].status = "EXPIRED" THEN "admin" ELSE "none"
    /\ IF call[c].suspended THEN CallAt(c, "halting") ELSE EndCall(c)
    /\ UNCHANGED <<today, workspace, campaign, notices, tick, breaks, late, overlapped>>

(* Mutant: unlocking leaves the subscription to the scheduler.             *)
SetSubscriptionWhenSuspending(c) == SetUnless(c, ~call[c].suspended)

SetSubscription(c) == SetUnless(c, FALSE)

PauseForSuspension(c) ==
    /\ call[c].at = "halting"
    /\ HaltCampaigns
    /\ EndCall(c)
    /\ UNCHANGED <<today, workspace, subscription, notices, tick, breaks,
                   overtaken, cause, overlapped>>

(* archiveTenant: one conditional update; campaigns are left alone.        *)
ArchiveTenant ==
    /\ workspace # "ARCHIVED"
    /\ workspace' = "ARCHIVED"
    /\ UNCHANGED <<today, subscription, campaign, notices, tick, call, breaks, history>>

ExtendWith(endAt, status) ==
    /\ subscription' = [status |-> status, endAt |-> endAt]
    /\ overtaken' = FALSE
    /\ cause' = IF status = "EXPIRED" THEN "admin" ELSE "none"
    /\ UNCHANGED <<today, workspace, campaign, notices, tick, call, breaks, late, overlapped>>

(* Mutant: the term moves and the status is left to the next tick.         *)
ExtendTermOnly(endAt) == ExtendWith(endAt, subscription.status)

(* extendSubscription: term and status are written in one update, whatever *)
(* they were, also for a suspended or archived tenant.                     *)
ExtendSubscription(endAt) == ExtendWith(endAt, subscriptionLifecycleStatus(endAt, today))

-----------------------------------------------------------------------------
(* Requests that want to send, and the fan-out of the worker               *)

(* Any request may ask resolveEntitlements: it is refused, or refused with *)
(* an expiry to record first, or let through.  Only launch and resume,     *)
(* which ask for a campaign that stands still, have more to write here.    *)
ResolveEntitlements(c) ==
    /\ call[c].at = "idle"
    /\ TenantActive
    /\ \/ /\ EffectiveStatus = "EXPIRED"
          /\ subscription.status # "EXPIRED"
          /\ call' = [call EXCEPT ![c] =
                [NoCall EXCEPT !.at = "expiry-seen", !.endAt = subscription.endAt]]
       \/ /\ EffectiveStatus \in Open
          /\ campaign \in {"APPROVED", "SCHEDULED", "PAUSED"}
          /\ CallAt(c, "admitted")
    /\ UNCHANGED <<today, rows, tick, breaks, history>>

(* The expiry is recorded without a condition, before the refusal.  One    *)
(* that stands for the current term keeps its cause.                       *)
RecordExpiry(c) ==
    /\ call[c].at = "expiry-seen"
    /\ SetStatus("EXPIRED")
    /\ IF subscription.status = "EXPIRED" /\ ~overtaken
         THEN UNCHANGED <<overtaken, cause>>
         ELSE /\ overtaken' = (call[c].endAt # subscription.endAt)
              /\ cause' = "policy"
    /\ EndCall(c)
    /\ UNCHANGED <<today, workspace, campaign, notices, tick, breaks, late, overlapped>>

(* processCampaign asks outboundBlockReason and pauses what is refused.    *)
FanOut(c) ==
    /\ call[c].at = "idle"
    /\ campaign \in {"APPROVED", "SCHEDULED", "RUNNING"}
    /\ IF OutboundAllowed
         THEN CallAt(c, "fanning") /\ UNCHANGED <<campaign, late>>
         ELSE campaign' = "PAUSED" /\ late' = FALSE /\ UNCHANGED call
    /\ UNCHANGED <<today, workspace, subscription, notices, tick, breaks,
                   overtaken, cause, overlapped>>

(* launch, resume and processCampaign write RUNNING without a condition;   *)
(* processCampaign counts its messages and writes the status once more.    *)
WriteStatus(status) ==
    /\ campaign' = status
    /\ late' = (status = "RUNNING" /\ subscription.status = "EXPIRED")
    /\ UNCHANGED <<today, workspace, subscription, notices, tick, breaks,
                   overtaken, cause, overlapped>>

WriteRunning(c) ==
    /\ call[c].at \in {"admitted", "fanning"}
    /\ WriteStatus("RUNNING")
    /\ IF call[c].at = "fanning" THEN CallAt(c, "counting") ELSE EndCall(c)

CountMessages(c) ==
    /\ call[c].at = "counting"
    /\ \E status \in {"RUNNING", "ENDED"} : WriteStatus(status)
    /\ EndCall(c)

(* CampaignsService.schedule asks nobody.                                  *)
ScheduleCampaign ==
    /\ campaign = "APPROVED"
    /\ campaign' = "SCHEDULED"
    /\ UNCHANGED <<today, workspace, subscription, notices, tick, call, breaks, history>>

(* The process dies or a query fails; a status call leaves its half done.  *)
CallBreaksOff(c) ==
    /\ call[c].at # "idle"
    /\ overlapped' = (overlapped \/ call[c].at \in StatusSteps)
    /\ EndCall(c)
    /\ UNCHANGED <<today, rows, tick, breaks, overtaken, cause, late>>

-----------------------------------------------------------------------------

TickStep(s) ==
    \/ TickReads(s)
    \/ MarkExpired(s)
    \/ PauseCampaigns(s)
    \/ AnnounceExpiry(s)
    \/ MarkExpiring(s)
    \/ Warn(s)

CallStep(c) ==
    \/ \E suspended \in BOOLEAN : SetTenant(c, suspended)
    \/ FindSubscription(c)
    \/ SetSubscription(c)
    \/ PauseForSuspension(c)
    \/ ResolveEntitlements(c)
    \/ RecordExpiry(c)
    \/ FanOut(c)
    \/ WriteRunning(c)
    \/ CountMessages(c)
    \/ CallBreaksOff(c)

Next ==
    \/ DayPasses
    \/ \E s \in Schedulers : TickStep(s) \/ TickBreaksOff(s)
    \/ \E c \in Calls : CallStep(c)
    \/ ArchiveTenant
    \/ \E endAt \in Terms : ExtendSubscription(endAt)
    \/ ScheduleCampaign

Spec == Init /\ [][Next]_vars

-----------------------------------------------------------------------------
(* Properties                                                              *)

TypeOK ==
    /\ today \in Nat
    /\ workspace \in WorkspaceStatuses
    /\ subscription \in [status : SubscriptionStatuses, endAt : Terms]
    /\ campaign \in CampaignStatuses
    /\ notices \subseteq (Terms \X (WarningDays \cup {Expired}))
    /\ tick \in [Schedulers -> [at : TickSteps, endAt : Terms \cup {0}, left : Nat]]
    /\ call \in [Calls -> [at : CallSteps, endAt : Terms \cup {0},
                           status : SubscriptionStatuses, suspended : BOOLEAN]]
    /\ breaks \in Nat
    /\ overtaken \in BOOLEAN
    /\ cause \in Causes
    /\ late \in BOOLEAN
    /\ overlapped \in BOOLEAN

(* A tenant whose term still runs is locked out as EXPIRED only when the   *)
(* extension overtook somebody who had read the old term: the scheduler    *)
(* between its query and its update, a request about to record the expiry, *)
(* or an unlock.  Nothing puts such a subscription right again but the     *)
(* next extension or unlock.                                               *)
EarlyExpiryNeedsOvertaking ==
    (subscription.status = "EXPIRED" /\ subscription.endAt > today) => overtaken

(* The tick that marks an expiry sees it through: unless it broke off, the *)
(* owner is told and no campaign keeps running but one whose launch or     *)
(* fan-out was admitted before.  An expiry that a request or an            *)
(* administrator records first is never announced and pauses nothing,      *)
(* because the scheduler looks for ACTIVE and EXPIRING only.               *)
MarkedExpiryIsSeenThrough ==
    (/\ subscription.status = "EXPIRED"
     /\ cause = "tick"
     /\ ~overtaken
     /\ \A s \in Schedulers : tick[s].at \notin {"marked", "halted"})
        => /\ <<subscription.endAt, Expired>> \in notices
           /\ campaign = "RUNNING" => late

(* Workspace and subscription are suspended and unlocked in two updates.   *)
(* An open tenant keeps a SUSPENDED subscription, which blocks all its     *)
(* sending, only when two status calls overlapped or one broke off.        *)
SplitStatusNeedsOverlap ==
    (/\ workspace = "ACTIVE"
     /\ subscription.status = "SUSPENDED"
     /\ \A c \in Calls : call[c].at \notin StatusSteps)
        => overlapped

=============================================================================
