------------------------ MODULE TenantLifecycle_proofs ------------------------
(***************************************************************************)
(* TenantLifecycle: types, who can lock a paying tenant out, what becomes  *)
(* of an expiry that the tick marked, and when an open tenant is left with *)
(* a suspended subscription.  IInv is inductive.  It adds to the           *)
(* properties what an actor knows from the row it read: that an expiry was *)
(* due on the day it was seen (days only pass), what an unlock is about to *)
(* write, which tick owes the notice of a marked expiry, and that status   *)
(* calls that do not overlap take turns.                                   *)
(***************************************************************************)
EXTENDS TenantLifecycle, TLAPS

TickRecords == [at : TickSteps, endAt : Terms \cup {0}, left : Nat]
CallRecords == [at : CallSteps, endAt : Terms \cup {0},
                status : SubscriptionStatuses, suspended : BOOLEAN]

TickTerms == \A s \in Schedulers : tick[s].at # "idle" => tick[s].endAt \in Terms

DueTicks == \A s \in Schedulers : tick[s].at = "expired" => tick[s].endAt <= today
DueCalls == \A c \in Calls : call[c].at = "expiry-seen" => call[c].endAt <= today
StatusToWrite ==
    \A c \in Calls : call[c].at = "term-read" =>
        IF call[c].suspended THEN call[c].status = "SUSPENDED"
        ELSE /\ call[c].status # "SUSPENDED"
             /\ call[c].status = "EXPIRED" => call[c].endAt <= today

Quiet == campaign = "RUNNING" => late
Owes(s) ==
    /\ tick[s].endAt = subscription.endAt
    /\ \/ tick[s].at = "marked"
       \/ tick[s].at = "halted" /\ Quiet
MarkedExpiryIsOwed ==
    (subscription.status = "EXPIRED" /\ cause = "tick" /\ ~overtaken) =>
        \/ \E s \in Schedulers : Owes(s)
        \/ <<subscription.endAt, Expired>> \in notices /\ Quiet

InStatusCall(c) == call[c].at \in StatusSteps
StatusCallsTakeTurns ==
    ~overlapped => \A c, d \in Calls : (InStatusCall(c) /\ InStatusCall(d)) => c = d
SuspensionHolds ==
    ~overlapped => \A c \in Calls :
        (InStatusCall(c) /\ (call[c].suspended \/ call[c].at = "halting")) =>
            workspace # "ACTIVE"

IInv ==
    /\ TypeOK
    /\ TickTerms
    /\ DueTicks
    /\ DueCalls
    /\ StatusToWrite
    /\ EarlyExpiryNeedsOvertaking
    /\ MarkedExpiryIsOwed
    /\ StatusCallsTakeTurns
    /\ SuspensionHolds
    /\ SplitStatusNeedsOverlap

(* The life cycle expires a term on its last day, and never suspends.      *)
LEMMA LifecycleFacts ==
  ASSUME NEW endAt \in Nat, NEW now \in Nat
  PROVE  /\ subscriptionLifecycleStatus(endAt, now) \in {"EXPIRED", "EXPIRING", "ACTIVE"}
         /\ subscriptionLifecycleStatus(endAt, now) = "EXPIRED" <=> endAt <= now
         /\ subscriptionDaysRemaining(endAt, now) \in Nat
BY DEF subscriptionLifecycleStatus, subscriptionDaysRemaining

(* The term in force and the terms that actors have read are days.         *)
LEMMA TermsAreDays ==
  ASSUME TypeOK
  PROVE  /\ subscription.endAt \in Terms
         /\ Terms \subseteq Nat
         /\ \A s \in Schedulers : tick[s] \in TickRecords /\ tick[s].endAt \in Nat
         /\ \A c \in Calls : call[c] \in CallRecords /\ call[c].endAt \in Nat
<1>1. Terms \subseteq Nat /\ Terms \cup {0} \subseteq Nat
  BY LifecycleAssumption
<1>2. subscription.endAt \in Terms
  BY DEF TypeOK
<1>3. ASSUME NEW s \in Schedulers  PROVE tick[s] \in TickRecords /\ tick[s].endAt \in Nat
  <2>1. tick[s] \in TickRecords
    BY DEF TypeOK, TickRecords
  <2>2. tick[s].endAt \in Terms \cup {0}
    BY <2>1 DEF TickRecords
  <2> QED BY <1>1, <2>1, <2>2
<1>4. ASSUME NEW c \in Calls  PROVE call[c] \in CallRecords /\ call[c].endAt \in Nat
  <2>1. call[c] \in CallRecords
    BY DEF TypeOK, CallRecords
  <2>2. call[c].endAt \in Terms \cup {0}
    BY <2>1 DEF CallRecords
  <2> QED BY <1>1, <2>1, <2>2
<1> QED BY <1>1, <1>2, <1>3, <1>4

(* Initially nobody is doing anything and no status but ACTIVE is written. *)
LEMMA InitIInv == Init => IInv
<1> SUFFICES ASSUME Init PROVE IInv
  OBVIOUS
<1>1. /\ \A s \in Schedulers : tick[s] = NoTick
      /\ \A c \in Calls : call[c] = NoCall
      /\ subscription.status = "ACTIVE"
  BY DEF Init
<1>2. /\ NoTick \in TickRecords /\ NoTick.at = "idle"
      /\ NoCall \in CallRecords /\ NoCall.at = "idle"
  BY DEF NoTick, NoCall, TickRecords, CallRecords, TickSteps, CallSteps, StatusSteps,
         SubscriptionStatuses, Open
<1>3. TypeOK
  BY <1>1, <1>2 DEF Init, TypeOK, TickRecords, CallRecords, WorkspaceStatuses,
     SubscriptionStatuses, Open, CampaignStatuses, Causes
<1>4. TickTerms /\ DueTicks /\ DueCalls /\ StatusToWrite
  BY <1>1, <1>2 DEF TickTerms, DueTicks, DueCalls, StatusToWrite
<1>5. EarlyExpiryNeedsOvertaking /\ MarkedExpiryIsOwed /\ SplitStatusNeedsOverlap
  BY <1>1 DEF EarlyExpiryNeedsOvertaking, MarkedExpiryIsOwed, SplitStatusNeedsOverlap
<1>6. StatusCallsTakeTurns /\ SuspensionHolds
  BY <1>1, <1>2 DEF StatusCallsTakeTurns, SuspensionHolds, InStatusCall, StatusSteps
<1> QED BY <1>3, <1>4, <1>5, <1>6 DEF IInv

-----------------------------------------------------------------------------
(* Steps that touch one record only                                        *)

(* A tick that owes nothing and finds nothing to write moves on.           *)
LEMMA TickMoves ==
  ASSUME IInv, NEW s \in Schedulers, NEW r \in TickRecords,
         tick' = [tick EXCEPT ![s] = r], UNCHANGED <<today, rows, call, breaks, history>>,
         r.at # "idle" => r.endAt \in Terms,
         r.at = "expired" => r.endAt <= today,
         tick[s].at \notin {"marked", "halted"}
  PROVE  IInv'
<1> USE DEF rows, history
<1>1. /\ tick'[s] = r
      /\ \A t \in Schedulers : t # s => tick'[t] = tick[t]
      /\ tick' \in [Schedulers -> TickRecords]
  BY DEF IInv, TypeOK, TickRecords
<1>2. TypeOK'
  BY <1>1 DEF IInv, TypeOK, TickRecords
<1>3. TickTerms' /\ DueTicks'
  BY <1>1 DEF IInv, TickTerms, DueTicks
<1>4. DueCalls' /\ StatusToWrite' /\ EarlyExpiryNeedsOvertaking'
  BY DEF IInv, DueCalls, StatusToWrite, EarlyExpiryNeedsOvertaking
<1>5. MarkedExpiryIsOwed'
  <2>1. \A t \in Schedulers : Owes(t) => Owes(t)'
    BY <1>1 DEF Owes, Quiet
  <2> QED BY <2>1 DEF IInv, MarkedExpiryIsOwed, Quiet
<1>6. StatusCallsTakeTurns' /\ SuspensionHolds' /\ SplitStatusNeedsOverlap'
  BY DEF IInv, StatusCallsTakeTurns, SuspensionHolds, SplitStatusNeedsOverlap, InStatusCall
<1> QED BY <1>2, <1>3, <1>4, <1>5, <1>6 DEF IInv

(* A call moves between steps outside setTenantStatus, or on within it.    *)
LEMMA CallMoves ==
  ASSUME IInv, NEW c \in Calls, NEW r \in CallRecords,
         call' = [call EXCEPT ![c] = r], UNCHANGED <<today, rows, tick, breaks, history>>,
         r.at = "expiry-seen" => r.endAt <= today,
         r.at = "term-read" =>
             IF r.suspended THEN r.status = "SUSPENDED"
             ELSE r.status # "SUSPENDED" /\ (r.status = "EXPIRED" => r.endAt <= today),
         r.at \in StatusSteps <=> InStatusCall(c),
         r.at \in StatusSteps => r.suspended = call[c].suspended,
         r.at # "halting"
  PROVE  IInv'
<1> USE DEF rows, history
<1>1. /\ call'[c] = r
      /\ \A d \in Calls : d # c => call'[d] = call[d]
      /\ call' \in [Calls -> CallRecords]
  BY DEF IInv, TypeOK, CallRecords
<1>2. TypeOK'
  BY <1>1 DEF IInv, TypeOK, CallRecords
<1>3. TickTerms' /\ DueTicks' /\ EarlyExpiryNeedsOvertaking'
  BY DEF IInv, TickTerms, DueTicks, EarlyExpiryNeedsOvertaking
<1>4. DueCalls' /\ StatusToWrite'
  BY <1>1 DEF IInv, DueCalls, StatusToWrite
<1>5. MarkedExpiryIsOwed'
  BY DEF IInv, MarkedExpiryIsOwed, Owes, Quiet
<1>6. \A d \in Calls : InStatusCall(d)' <=> InStatusCall(d)
  BY <1>1 DEF InStatusCall
<1>7. StatusCallsTakeTurns' /\ SplitStatusNeedsOverlap'
  BY <1>6 DEF IInv, StatusCallsTakeTurns, SplitStatusNeedsOverlap, InStatusCall
<1>8. SuspensionHolds'
  BY <1>1, <1>6 DEF IInv, SuspensionHolds, InStatusCall
<1> QED BY <1>2, <1>3, <1>4, <1>5, <1>7, <1>8 DEF IInv

(* The days pass, and what was due stays due.                              *)
LEMMA DayStep == ASSUME IInv, DayPasses PROVE IInv'
<1> USE DEF rows, history
<1>1. today \in Nat /\ today' = today + 1 /\ UNCHANGED <<rows, tick, call, breaks, history>>
  BY DEF IInv, TypeOK, DayPasses
<1>2. /\ \A s \in Schedulers : tick[s].endAt \in Nat
      /\ \A c \in Calls : call[c].endAt \in Nat
      /\ subscription.endAt \in Nat
  BY TermsAreDays DEF IInv
<1>3. TypeOK' /\ TickTerms'
  BY <1>1 DEF IInv, TypeOK, TickTerms
<1>4. DueTicks' /\ DueCalls' /\ StatusToWrite' /\ EarlyExpiryNeedsOvertaking'
  BY <1>1, <1>2 DEF IInv, DueTicks, DueCalls, StatusToWrite, EarlyExpiryNeedsOvertaking
<1>5. MarkedExpiryIsOwed'
  BY <1>1 DEF IInv, MarkedExpiryIsOwed, Owes, Quiet
<1>6. StatusCallsTakeTurns' /\ SuspensionHolds' /\ SplitStatusNeedsOverlap'
  BY <1>1 DEF IInv, StatusCallsTakeTurns, SuspensionHolds, SplitStatusNeedsOverlap, InStatusCall
<1> QED BY <1>3, <1>4, <1>5, <1>6 DEF IInv

-----------------------------------------------------------------------------
(* The scheduler's tick                                                    *)

(* The query finds a term that is over, or one that is about to be.        *)
LEMMA TickReadsStep ==
  ASSUME IInv, NEW s \in Schedulers, TickReads(s)  PROVE IInv'
<1> DEFINE r == [at |-> IF subscription.endAt <= today THEN "expired" ELSE "expiring",
                 endAt |-> subscription.endAt,
                 left |-> subscriptionDaysRemaining(subscription.endAt, today)]
<1>1. subscription.endAt \in Terms /\ subscription.endAt \in Nat /\ today \in Nat
  BY TermsAreDays DEF IInv, TypeOK
<1>2. subscriptionDaysRemaining(subscription.endAt, today) \in Nat
  BY <1>1, LifecycleFacts
<1>3. /\ r \in TickRecords /\ r.endAt \in Terms
      /\ r.at = "expired" => r.endAt <= today
  BY <1>1, <1>2 DEF TickRecords, TickSteps
<1>4. /\ tick' = [tick EXCEPT ![s] = r] /\ UNCHANGED <<today, rows, call, breaks, history>>
      /\ tick[s].at \notin {"marked", "halted"}
  BY DEF TickReads
<1> HIDE DEF r
<1> QED BY <1>3, <1>4, TickMoves

(* Ending a tick and moving it on within the warnings keep its types.      *)
LEMMA TickRecordMoves ==
  ASSUME IInv, NEW s \in Schedulers, NEW step \in TickSteps
  PROVE  /\ NoTick \in TickRecords /\ NoTick.at = "idle"
         /\ [tick EXCEPT ![s].at = step] = [tick EXCEPT ![s] = [tick[s] EXCEPT !.at = step]]
         /\ [tick[s] EXCEPT !.at = step] \in TickRecords
         /\ [tick[s] EXCEPT !.at = step].at = step
         /\ [tick[s] EXCEPT !.at = step].endAt = tick[s].endAt
BY DEF IInv, TypeOK, NoTick, TickRecords, TickSteps

(* Whoever marks the expiry owes the notice, if the term is still the one  *)
(* it read; otherwise the status was written for a term replaced since.    *)
LEMMA MarkExpiredStep ==
  ASSUME IInv, NEW s \in Schedulers, MarkExpired(s)  PROVE IInv'
<1> USE DEF rows, history
<1>1. CASE subscription.status \notin Open
  <2>1. tick' = [tick EXCEPT ![s] = NoTick] /\ UNCHANGED <<today, rows, call, breaks, history>>
    BY <1>1 DEF MarkExpired, EndTick
  <2>2. tick[s].at \notin {"marked", "halted"}
    BY DEF MarkExpired
  <2> QED BY <2>1, <2>2, TickRecordMoves, TickMoves DEF TickSteps
<1>2. CASE subscription.status \in Open
  <2> DEFINE r == [tick[s] EXCEPT !.at = "marked"]
  <2>1. /\ subscription' = [subscription EXCEPT !.status = "EXPIRED"]
        /\ overtaken' = (tick[s].endAt # subscription.endAt)
        /\ cause' = "tick"
        /\ tick[s].at = "expired"
        /\ UNCHANGED <<today, workspace, campaign, notices, call, breaks, late, overlapped>>
    BY <1>2 DEF MarkExpired, SetStatus
  <2>2. tick' = [tick EXCEPT ![s] = r]
    BY <1>2, TickRecordMoves DEF MarkExpired, TickAt, TickSteps
  <2>3. r \in TickRecords /\ r.at = "marked" /\ r.endAt = tick[s].endAt
    BY TickRecordMoves DEF TickSteps
  <2> HIDE DEF r
  <2>4. /\ tick'[s] = r
        /\ \A t \in Schedulers : t # s => tick'[t] = tick[t]
        /\ tick' \in [Schedulers -> TickRecords]
    BY <2>2, <2>3 DEF IInv, TypeOK, TickRecords
  <2>5. subscription'.status = "EXPIRED" /\ subscription'.endAt = subscription.endAt
    BY <2>1 DEF IInv, TypeOK
  <2>6. TypeOK'
    BY <2>1, <2>4 DEF IInv, TypeOK, TickRecords, SubscriptionStatuses, Causes
  <2>7. TickTerms' /\ DueTicks'
    BY <2>1, <2>3, <2>4 DEF IInv, TickTerms, DueTicks
  <2>8. DueCalls' /\ StatusToWrite'
    BY <2>1 DEF IInv, DueCalls, StatusToWrite
  <2>9. EarlyExpiryNeedsOvertaking'
    <3>1. tick[s].endAt <= today
      BY <2>1 DEF IInv, DueTicks
    <3>2. subscription.endAt \in Nat /\ today \in Nat
      BY TermsAreDays DEF IInv, TypeOK
    <3>3. subscription.endAt > today => tick[s].endAt # subscription.endAt
      BY <3>1, <3>2
    <3> QED BY <2>1, <2>5, <3>3 DEF EarlyExpiryNeedsOvertaking
  <2>10. MarkedExpiryIsOwed'
    <3>1. overtaken' \/ Owes(s)'
      BY <2>1, <2>3, <2>4, <2>5 DEF Owes
    <3> QED BY <3>1 DEF MarkedExpiryIsOwed
  <2>11. StatusCallsTakeTurns' /\ SuspensionHolds' /\ SplitStatusNeedsOverlap'
    BY <2>1, <2>5
       DEF IInv, StatusCallsTakeTurns, SuspensionHolds, SplitStatusNeedsOverlap, InStatusCall
  <2> QED BY <2>6, <2>7, <2>8, <2>9, <2>10, <2>11 DEF IInv
<1> QED BY <1>1, <1>2

(* The campaign stands still when the tick that owes the notice goes on.   *)
LEMMA PauseCampaignsStep ==
  ASSUME IInv, NEW s \in Schedulers, PauseCampaigns(s)  PROVE IInv'
<1> USE DEF rows, history
<1> DEFINE r == [tick[s] EXCEPT !.at = "halted"]
<1>1. /\ campaign' = IF campaign \in {"RUNNING", "SCHEDULED"} THEN "PAUSED" ELSE campaign
      /\ late' = (late /\ campaign # "RUNNING")
      /\ tick[s].at = "marked"
      /\ UNCHANGED <<today, workspace, subscription, notices, call, breaks,
                     overtaken, cause, overlapped>>
  BY DEF PauseCampaigns, PauseThen, HaltCampaigns
<1>2. tick' = [tick EXCEPT ![s] = r]
  BY TickRecordMoves DEF PauseCampaigns, PauseThen, TickAt, TickSteps
<1>3. r \in TickRecords /\ r.at = "halted" /\ r.endAt = tick[s].endAt
  BY TickRecordMoves DEF TickSteps
<1> HIDE DEF r
<1>4. /\ tick'[s] = r
      /\ \A t \in Schedulers : t # s => tick'[t] = tick[t]
      /\ tick' \in [Schedulers -> TickRecords]
  BY <1>2, <1>3 DEF IInv, TypeOK, TickRecords
<1>5. TypeOK'
  BY <1>1, <1>4 DEF IInv, TypeOK, TickRecords, CampaignStatuses
<1>6. TickTerms' /\ DueTicks'
  BY <1>1, <1>3, <1>4 DEF IInv, TickTerms, DueTicks
<1>7. DueCalls' /\ StatusToWrite' /\ EarlyExpiryNeedsOvertaking'
  BY <1>1 DEF IInv, DueCalls, StatusToWrite, EarlyExpiryNeedsOvertaking
<1>8. MarkedExpiryIsOwed'
  <2>1. campaign' # "RUNNING" /\ Quiet'
    BY <1>1 DEF Quiet
  <2>2. \A t \in Schedulers : Owes(t) => Owes(t)'
    BY <1>1, <1>3, <1>4, <2>1 DEF Owes
  <2> QED BY <1>1, <2>1, <2>2 DEF IInv, MarkedExpiryIsOwed
<1>9. StatusCallsTakeTurns' /\ SuspensionHolds' /\ SplitStatusNeedsOverlap'
  BY <1>1 DEF IInv, StatusCallsTakeTurns, SuspensionHolds, SplitStatusNeedsOverlap, InStatusCall
<1> QED BY <1>5, <1>6, <1>7, <1>8, <1>9 DEF IInv

(* Ending a tick with its notice written pays what it owed.                *)
LEMMA TickEnds ==
  ASSUME IInv, NEW s \in Schedulers, tick' = [tick EXCEPT ![s] = NoTick],
         notices \subseteq notices', notices' \subseteq (Terms \X (WarningDays \cup {Expired})),
         tick[s].at = "marked" => FALSE,
         tick[s].at = "halted" => <<tick[s].endAt, Expired>> \in notices',
         UNCHANGED <<today, workspace, subscription, campaign, call, breaks, history>>
  PROVE  IInv'
<1> USE DEF rows, history
<1>1. /\ tick'[s] = NoTick /\ NoTick.at = "idle"
      /\ \A t \in Schedulers : t # s => tick'[t] = tick[t]
      /\ tick' \in [Schedulers -> TickRecords]
  BY TickRecordMoves DEF IInv, TypeOK, TickRecords, TickSteps
<1>2. TypeOK'
  BY <1>1 DEF IInv, TypeOK, TickRecords
<1>3. TickTerms' /\ DueTicks'
  BY <1>1 DEF IInv, TickTerms, DueTicks
<1>4. DueCalls' /\ StatusToWrite' /\ EarlyExpiryNeedsOvertaking'
  BY DEF IInv, DueCalls, StatusToWrite, EarlyExpiryNeedsOvertaking
<1>5. MarkedExpiryIsOwed'
  <2>1. \A t \in Schedulers : t # s /\ Owes(t) => Owes(t)'
    BY <1>1 DEF Owes, Quiet
  <2>2. Owes(s) => <<subscription.endAt, Expired>> \in notices' /\ Quiet
    BY DEF Owes
  <2> QED BY <2>1, <2>2 DEF IInv, MarkedExpiryIsOwed, Quiet
<1>6. StatusCallsTakeTurns' /\ SuspensionHolds' /\ SplitStatusNeedsOverlap'
  BY DEF IInv, StatusCallsTakeTurns, SuspensionHolds, SplitStatusNeedsOverlap, InStatusCall
<1> QED BY <1>2, <1>3, <1>4, <1>5, <1>6 DEF IInv

(* The last step of an expiry pays what the mark owes: the notice.         *)
LEMMA AnnounceExpiryStep ==
  ASSUME IInv, NEW s \in Schedulers, AnnounceExpiry(s)  PROVE IInv'
<1>1. tick[s].endAt \in Terms /\ tick[s].at = "halted"
  BY DEF IInv, TickTerms, AnnounceExpiry
<1>2. /\ notices' = notices \cup {<<tick[s].endAt, Expired>>}
      /\ tick' = [tick EXCEPT ![s] = NoTick]
      /\ UNCHANGED <<today, workspace, subscription, campaign, call, breaks, history>>
  BY DEF AnnounceExpiry, EndTick
<1>3. notices' \subseteq (Terms \X (WarningDays \cup {Expired}))
  BY <1>1, <1>2 DEF IInv, TypeOK
<1> QED BY <1>1, <1>2, <1>3, TickEnds

(* A warning is no notice of an expiry.                                    *)
LEMMA WarnStep ==
  ASSUME IInv, NEW s \in Schedulers, Warn(s)  PROVE IInv'
<1>1. tick[s].endAt \in Terms /\ tick[s].at = "warning"
  BY DEF IInv, TickTerms, Warn
<1>2. /\ notices' = notices \cup
            ({tick[s].endAt} \X subscriptionWarningThreshold(tick[s].left))
      /\ tick' = [tick EXCEPT ![s] = NoTick]
      /\ UNCHANGED <<today, workspace, subscription, campaign, call, breaks, history>>
  BY DEF Warn, EndTick
<1>3. notices' \subseteq (Terms \X (WarningDays \cup {Expired}))
  BY <1>1, <1>2 DEF IInv, TypeOK, subscriptionWarningThreshold
<1> QED BY <1>1, <1>2, <1>3, TickEnds

(* A tick that breaks off leaves its debt to nobody, and cause says so.    *)
LEMMA TickBreaksOffStep ==
  ASSUME IInv, NEW s \in Schedulers, TickBreaksOff(s)  PROVE IInv'
<1> USE DEF rows, history
<1>1. /\ tick' = [tick EXCEPT ![s] = NoTick]
      /\ breaks' = breaks + 1
      /\ cause' = IF tick[s].at \in {"marked", "halted"} /\ cause = "tick" THEN "broken" ELSE cause
      /\ UNCHANGED <<today, rows, call, overtaken, late, overlapped>>
  BY DEF TickBreaksOff, EndTick
<1>2. /\ tick'[s] = NoTick /\ NoTick.at = "idle"
      /\ \A t \in Schedulers : t # s => tick'[t] = tick[t]
      /\ tick' \in [Schedulers -> TickRecords]
  BY <1>1, TickRecordMoves DEF IInv, TypeOK, TickRecords, TickSteps
<1>3. TypeOK'
  BY <1>1, <1>2 DEF IInv, TypeOK, TickRecords, Causes
<1>4. TickTerms' /\ DueTicks'
  BY <1>1, <1>2 DEF IInv, TickTerms, DueTicks
<1>5. DueCalls' /\ StatusToWrite' /\ EarlyExpiryNeedsOvertaking'
  BY <1>1 DEF IInv, DueCalls, StatusToWrite, EarlyExpiryNeedsOvertaking
<1>6. MarkedExpiryIsOwed'
  <2>1. \A t \in Schedulers : t # s /\ Owes(t) => Owes(t)'
    BY <1>1, <1>2 DEF Owes, Quiet
  <2>2. cause' = "tick" => (cause = "tick" /\ ~Owes(s))
    BY <1>1 DEF Owes
  <2> QED BY <1>1, <2>1, <2>2 DEF IInv, MarkedExpiryIsOwed, Quiet
<1>7. StatusCallsTakeTurns' /\ SuspensionHolds' /\ SplitStatusNeedsOverlap'
  BY <1>1 DEF IInv, StatusCallsTakeTurns, SuspensionHolds, SplitStatusNeedsOverlap, InStatusCall
<1> QED BY <1>3, <1>4, <1>5, <1>6, <1>7 DEF IInv

(* EXPIRING replaces ACTIVE only, so that no expiry and no suspension goes.*)
LEMMA MarkExpiringStep ==
  ASSUME IInv, NEW s \in Schedulers, MarkExpiring(s)  PROVE IInv'
<1> USE DEF rows, history
<1> DEFINE r == [tick[s] EXCEPT !.at = "warning"]
<1>1. /\ tick[s].at = "expiring"
      /\ UNCHANGED <<today, workspace, campaign, notices, call, breaks, history>>
  BY DEF MarkExpiring
<1>2. /\ subscription' \in [status : SubscriptionStatuses, endAt : Terms]
      /\ subscription'.endAt = subscription.endAt
      /\ subscription'.status = "EXPIRED" <=> subscription.status = "EXPIRED"
      /\ subscription'.status = "SUSPENDED" <=> subscription.status = "SUSPENDED"
  BY DEF IInv, TypeOK, MarkExpiring, SetStatus, SubscriptionStatuses, Open
<1>3. tick' = [tick EXCEPT ![s] = r]
  BY TickRecordMoves DEF MarkExpiring, TickAt, TickSteps
<1>4. r \in TickRecords /\ r.at = "warning" /\ r.endAt = tick[s].endAt
  BY TickRecordMoves DEF TickSteps
<1> HIDE DEF r
<1>5. /\ tick'[s] = r
      /\ \A t \in Schedulers : t # s => tick'[t] = tick[t]
      /\ tick' \in [Schedulers -> TickRecords]
  BY <1>3, <1>4 DEF IInv, TypeOK, TickRecords
<1>6. TypeOK'
  BY <1>1, <1>2, <1>5 DEF IInv, TypeOK, TickRecords
<1>7. TickTerms' /\ DueTicks'
  BY <1>1, <1>4, <1>5 DEF IInv, TickTerms, DueTicks
<1>8. DueCalls' /\ StatusToWrite' /\ EarlyExpiryNeedsOvertaking'
  BY <1>1, <1>2 DEF IInv, DueCalls, StatusToWrite, EarlyExpiryNeedsOvertaking
<1>9. MarkedExpiryIsOwed'
  <2>1. \A t \in Schedulers : Owes(t) => Owes(t)'
    BY <1>1, <1>2, <1>5 DEF Owes, Quiet
  <2> QED BY <1>1, <1>2, <2>1 DEF IInv, MarkedExpiryIsOwed, Quiet
<1>10. StatusCallsTakeTurns' /\ SuspensionHolds' /\ SplitStatusNeedsOverlap'
  BY <1>1, <1>2
     DEF IInv, StatusCallsTakeTurns, SuspensionHolds, SplitStatusNeedsOverlap, InStatusCall
<1> QED BY <1>6, <1>7, <1>8, <1>9, <1>10 DEF IInv

(* Every step of a tick keeps the invariant.                               *)
LEMMA TickStepKeeps ==
  ASSUME IInv, NEW s \in Schedulers, TickStep(s) \/ TickBreaksOff(s)  PROVE IInv'
BY TickReadsStep, MarkExpiredStep, PauseCampaignsStep, AnnounceExpiryStep, MarkExpiringStep,
   WarnStep, TickBreaksOffStep DEF TickStep

-----------------------------------------------------------------------------
(* AdminService                                                            *)

(* What the records of a call are made of.                                 *)
LEMMA CallRecordMoves ==
  ASSUME IInv, NEW c \in Calls, NEW step \in CallSteps
  PROVE  /\ NoCall \in CallRecords /\ NoCall.at = "idle"
         /\ [call EXCEPT ![c].at = step] = [call EXCEPT ![c] = [call[c] EXCEPT !.at = step]]
         /\ [call[c] EXCEPT !.at = step] \in CallRecords
         /\ [call[c] EXCEPT !.at = step].at = step
         /\ [call[c] EXCEPT !.at = step].endAt = call[c].endAt
         /\ [call[c] EXCEPT !.at = step].suspended = call[c].suspended
         /\ \A r \in CallRecords :
              /\ [call EXCEPT ![c] = r] \in [Calls -> CallRecords]
              /\ [call EXCEPT ![c] = r][c] = r
              /\ \A d \in Calls : d # c => [call EXCEPT ![c] = r][d] = call[d]
BY DEF IInv, TypeOK, NoCall, CallRecords, CallSteps, SubscriptionStatuses, Open

(* A status call that starts while none is under way is alone.             *)
LEMMA SetTenantStep ==
  ASSUME IInv, NEW c \in Calls, NEW suspended \in BOOLEAN, SetTenant(c, suspended)  PROVE IInv'
<1> USE DEF rows, history
<1> DEFINE r == [NoCall EXCEPT !.at = "tenant-set", !.suspended = suspended]
<1>1. /\ call[c].at = "idle"
      /\ workspace' = IF suspended THEN "SUSPENDED" ELSE "ACTIVE"
      /\ call' = [call EXCEPT ![c] = r]
      /\ overlapped' = \E d \in Calls : InStatusCall(d)
      /\ UNCHANGED <<today, subscription, campaign, notices, tick, breaks, overtaken, cause, late>>
  BY DEF SetTenant, InStatusCall
<1>2. r \in CallRecords /\ r.at = "tenant-set" /\ r.suspended = suspended
  BY DEF NoCall, CallRecords, CallSteps, StatusSteps, SubscriptionStatuses, Open
<1> HIDE DEF r
<1>3. /\ call' \in [Calls -> CallRecords] /\ call'[c] = r
      /\ \A d \in Calls : d # c => call'[d] = call[d]
  BY <1>1, <1>2, CallRecordMoves DEF CallSteps
<1>4. TypeOK'
  BY <1>1, <1>3 DEF IInv, TypeOK, CallRecords, WorkspaceStatuses
<1>5. TickTerms' /\ DueTicks' /\ EarlyExpiryNeedsOvertaking'
  BY <1>1 DEF IInv, TickTerms, DueTicks, EarlyExpiryNeedsOvertaking
<1>6. DueCalls' /\ StatusToWrite'
  BY <1>1, <1>2, <1>3 DEF IInv, DueCalls, StatusToWrite
<1>7. MarkedExpiryIsOwed'
  BY <1>1 DEF IInv, MarkedExpiryIsOwed, Owes, Quiet
<1>8. /\ InStatusCall(c)'
      /\ ~overlapped' => \A d \in Calls : InStatusCall(d)' => d = c
  BY <1>1, <1>2, <1>3 DEF InStatusCall, StatusSteps
<1>9. StatusCallsTakeTurns' /\ SplitStatusNeedsOverlap'
  BY <1>8 DEF StatusCallsTakeTurns, SplitStatusNeedsOverlap, InStatusCall
<1>10. SuspensionHolds'
  BY <1>1, <1>2, <1>3, <1>8 DEF SuspensionHolds
<1> QED BY <1>4, <1>5, <1>6, <1>7, <1>9, <1>10 DEF IInv

(* A status call decides by the row it finds, before it writes.            *)
LEMMA FindSubscriptionStep ==
  ASSUME IInv, NEW c \in Calls, FindSubscription(c)  PROVE IInv'
<1> DEFINE status == IF call[c].suspended THEN "SUSPENDED"
                     ELSE subscriptionLifecycleStatus(subscription.endAt, today)
           r == [call[c] EXCEPT !.at = "term-read", !.endAt = subscription.endAt,
                                !.status = status]
<1>1. /\ call[c].at = "tenant-set" /\ call' = [call EXCEPT ![c] = r]
      /\ UNCHANGED <<today, rows, tick, breaks, history>>
  BY DEF FindSubscription
<1>2. subscription.endAt \in Terms /\ subscription.endAt \in Nat /\ today \in Nat
  BY TermsAreDays DEF IInv, TypeOK
<1>3. /\ status \in SubscriptionStatuses
      /\ IF call[c].suspended THEN status = "SUSPENDED"
         ELSE status # "SUSPENDED" /\ (status = "EXPIRED" => subscription.endAt <= today)
  BY <1>2, LifecycleFacts DEF SubscriptionStatuses, Open
<1> HIDE DEF status
<1>4. call[c] \in CallRecords
  BY DEF IInv, TypeOK, CallRecords
<1>5. /\ r \in CallRecords /\ r.at = "term-read" /\ r.suspended = call[c].suspended
      /\ r.status = status /\ r.endAt = subscription.endAt
  BY <1>2, <1>3, <1>4 DEF CallRecords, CallSteps, StatusSteps
<1> HIDE DEF r
<1>6. r.at \in StatusSteps <=> InStatusCall(c)
  BY <1>1, <1>5 DEF InStatusCall, StatusSteps
<1> QED BY <1>1, <1>3, <1>5, <1>6, CallMoves

(* The subscription gets the status computed before, also when its term is *)
(* another one by now.                                                     *)
LEMMA SetSubscriptionStep ==
  ASSUME IInv, NEW c \in Calls, SetSubscription(c)  PROVE IInv'
<1> USE DEF rows, history
<1> DEFINE r == IF call[c].suspended THEN [call[c] EXCEPT !.at = "halting"] ELSE NoCall
<1>1. /\ call[c].at = "term-read"
      /\ subscription' = [subscription EXCEPT !.status = call[c].status]
      /\ overtaken' = (~call[c].suspended /\ call[c].endAt # subscription.endAt)
      /\ cause' = IF call[c].status = "EXPIRED" THEN "admin" ELSE "none"
      /\ UNCHANGED <<today, workspace, campaign, notices, tick, breaks, late, overlapped>>
  BY DEF SetSubscription, SetUnless, SetStatus
<1>2. call' = [call EXCEPT ![c] = r]
  BY CallRecordMoves DEF SetSubscription, SetUnless, CallAt, EndCall, CallSteps, StatusSteps
<1>3. /\ r \in CallRecords
      /\ call[c].suspended => r.at = "halting" /\ r.suspended = call[c].suspended
      /\ ~call[c].suspended => r.at = "idle"
  BY CallRecordMoves DEF CallSteps, StatusSteps
<1> HIDE DEF r
<1>4. /\ call' \in [Calls -> CallRecords] /\ call'[c] = r
      /\ \A d \in Calls : d # c => call'[d] = call[d]
  BY <1>2, <1>3, CallRecordMoves DEF CallSteps
<1>5. /\ call[c] \in CallRecords /\ call[c].suspended \in BOOLEAN
      /\ call[c].status \in SubscriptionStatuses /\ call[c].endAt \in Nat
      /\ subscription.endAt \in Nat /\ today \in Nat
  BY TermsAreDays DEF IInv, TypeOK, CallRecords
<1>6. subscription'.status = call[c].status /\ subscription'.endAt = subscription.endAt
  BY <1>1 DEF IInv, TypeOK
<1>7. TypeOK'
  BY <1>1, <1>4, <1>5 DEF IInv, TypeOK, CallRecords, Causes
<1>8. TickTerms' /\ DueTicks'
  BY <1>1 DEF IInv, TickTerms, DueTicks
<1>9. DueCalls' /\ StatusToWrite'
  BY <1>1, <1>3, <1>4 DEF IInv, DueCalls, StatusToWrite
<1>10. EarlyExpiryNeedsOvertaking'
  <2>1. call[c].status = "EXPIRED" => ~call[c].suspended /\ call[c].endAt <= today
    BY <1>1, <1>5 DEF IInv, StatusToWrite
  <2>2. (call[c].endAt <= today /\ subscription.endAt > today) => call[c].endAt # subscription.endAt
    BY <1>5
  <2> QED BY <1>1, <1>6, <2>1, <2>2 DEF EarlyExpiryNeedsOvertaking
<1>11. MarkedExpiryIsOwed'
  BY <1>1 DEF MarkedExpiryIsOwed
<1>12. /\ \A d \in Calls : InStatusCall(d)' => InStatusCall(d)
       /\ InStatusCall(c) /\ (InStatusCall(c)' <=> call[c].suspended)
  BY <1>1, <1>3, <1>4, <1>5 DEF InStatusCall, StatusSteps
<1>13. StatusCallsTakeTurns'
  BY <1>1, <1>12 DEF IInv, StatusCallsTakeTurns
<1>14. SuspensionHolds'
  BY <1>1, <1>3, <1>4, <1>12 DEF IInv, SuspensionHolds
<1>15. SplitStatusNeedsOverlap'
  <2>1. (\A d \in Calls : ~InStatusCall(d)') => subscription'.status # "SUSPENDED"
    BY <1>1, <1>5, <1>6, <1>12 DEF IInv, StatusToWrite
  <2> QED BY <2>1 DEF SplitStatusNeedsOverlap, InStatusCall
<1> QED BY <1>7, <1>8, <1>9, <1>10, <1>11, <1>13, <1>14, <1>15 DEF IInv

(* The suspension ends with its workspace still closed, or one overlapped. *)
LEMMA PauseForSuspensionStep ==
  ASSUME IInv, NEW c \in Calls, PauseForSuspension(c)  PROVE IInv'
<1> USE DEF rows, history
<1>1. /\ call[c].at = "halting"
      /\ campaign' = IF campaign \in {"RUNNING", "SCHEDULED"} THEN "PAUSED" ELSE campaign
      /\ late' = (late /\ campaign # "RUNNING")
      /\ call' = [call EXCEPT ![c] = NoCall]
      /\ UNCHANGED <<today, workspace, subscription, notices, tick, breaks,
                     overtaken, cause, overlapped>>
  BY DEF PauseForSuspension, HaltCampaigns, EndCall
<1>2. /\ call' \in [Calls -> CallRecords] /\ call'[c] = NoCall /\ NoCall.at = "idle"
      /\ \A d \in Calls : d # c => call'[d] = call[d]
  BY <1>1, CallRecordMoves DEF CallSteps
<1>3. TypeOK'
  BY <1>1, <1>2 DEF IInv, TypeOK, CallRecords, CampaignStatuses
<1>4. TickTerms' /\ DueTicks' /\ EarlyExpiryNeedsOvertaking'
  BY <1>1 DEF IInv, TickTerms, DueTicks, EarlyExpiryNeedsOvertaking
<1>5. DueCalls' /\ StatusToWrite'
  BY <1>1, <1>2 DEF IInv, DueCalls, StatusToWrite
<1>6. MarkedExpiryIsOwed'
  <2>1. Quiet'
    BY <1>1 DEF Quiet
  <2>2. \A s \in Schedulers : Owes(s) => Owes(s)'
    BY <1>1, <2>1 DEF Owes
  <2> QED BY <1>1, <2>1, <2>2 DEF IInv, MarkedExpiryIsOwed
<1>7. /\ InStatusCall(c) /\ ~InStatusCall(c)'
      /\ \A d \in Calls : InStatusCall(d)' => InStatusCall(d) /\ d # c
  BY <1>1, <1>2 DEF InStatusCall, StatusSteps
<1>8. StatusCallsTakeTurns'
  BY <1>1, <1>7 DEF IInv, StatusCallsTakeTurns
<1>9. SuspensionHolds'
  BY <1>1, <1>2, <1>7 DEF IInv, SuspensionHolds
<1>10. SplitStatusNeedsOverlap'
  BY <1>1, <1>7 DEF IInv, SuspensionHolds, SplitStatusNeedsOverlap
<1> QED BY <1>3, <1>4, <1>5, <1>6, <1>8, <1>9, <1>10 DEF IInv

(* Archiving closes the workspace and touches no term.                     *)
LEMMA ArchiveTenantStep == ASSUME IInv, ArchiveTenant PROVE IInv'
<1> USE DEF rows, history
<1>1. /\ workspace' = "ARCHIVED"
      /\ UNCHANGED <<today, subscription, campaign, notices, tick, call, breaks, history>>
  BY DEF ArchiveTenant
<1>2. TypeOK'
  BY <1>1 DEF IInv, TypeOK, WorkspaceStatuses
<1>3. TickTerms' /\ DueTicks' /\ DueCalls' /\ StatusToWrite' /\ EarlyExpiryNeedsOvertaking'
  BY <1>1 DEF IInv, TickTerms, DueTicks, DueCalls, StatusToWrite, EarlyExpiryNeedsOvertaking
<1>4. MarkedExpiryIsOwed'
  BY <1>1 DEF IInv, MarkedExpiryIsOwed, Owes, Quiet
<1>5. StatusCallsTakeTurns' /\ SuspensionHolds' /\ SplitStatusNeedsOverlap'
  BY <1>1 DEF IInv, StatusCallsTakeTurns, SuspensionHolds, SplitStatusNeedsOverlap, InStatusCall
<1> QED BY <1>2, <1>3, <1>4, <1>5 DEF IInv

(* The new term gets the status it has today, so nothing is early.         *)
LEMMA ExtendSubscriptionStep ==
  ASSUME IInv, NEW endAt \in Terms, ExtendSubscription(endAt)  PROVE IInv'
<1> USE DEF rows, history
<1> DEFINE status == subscriptionLifecycleStatus(endAt, today)
<1>1. /\ subscription' = [status |-> status, endAt |-> endAt]
      /\ overtaken' = FALSE
      /\ cause' = IF status = "EXPIRED" THEN "admin" ELSE "none"
      /\ UNCHANGED <<today, workspace, campaign, notices, tick, call, breaks, late, overlapped>>
  BY DEF ExtendSubscription, ExtendWith
<1>2. endAt \in Nat /\ today \in Nat
  BY LifecycleAssumption DEF IInv, TypeOK
<1>3. /\ status \in {"EXPIRED", "EXPIRING", "ACTIVE"}
      /\ status = "EXPIRED" <=> endAt <= today
  BY <1>2, LifecycleFacts
<1> HIDE DEF status
<1>4. TypeOK'
  BY <1>1, <1>3 DEF IInv, TypeOK, SubscriptionStatuses, Open, Causes
<1>5. TickTerms' /\ DueTicks' /\ DueCalls' /\ StatusToWrite'
  BY <1>1 DEF IInv, TickTerms, DueTicks, DueCalls, StatusToWrite
<1>6. EarlyExpiryNeedsOvertaking'
  BY <1>1, <1>2, <1>3 DEF EarlyExpiryNeedsOvertaking
<1>7. MarkedExpiryIsOwed' /\ SplitStatusNeedsOverlap'
  BY <1>1, <1>3 DEF MarkedExpiryIsOwed, SplitStatusNeedsOverlap
<1>8. StatusCallsTakeTurns' /\ SuspensionHolds'
  BY <1>1 DEF IInv, StatusCallsTakeTurns, SuspensionHolds, InStatusCall
<1> QED BY <1>4, <1>5, <1>6, <1>7, <1>8 DEF IInv

-----------------------------------------------------------------------------
(* Requests that want to send, and the fan-out of the worker               *)

(* A request that finds the term over knows which term that was.           *)
LEMMA ResolveEntitlementsStep ==
  ASSUME IInv, NEW c \in Calls, ResolveEntitlements(c)  PROVE IInv'
<1>1. call[c].at = "idle" /\ UNCHANGED <<today, rows, tick, breaks, history>>
  BY DEF ResolveEntitlements
<1>2. ~InStatusCall(c)
  BY <1>1 DEF InStatusCall, StatusSteps
<1>3. /\ subscription.endAt \in Terms /\ subscription.endAt \in Nat /\ today \in Nat
      /\ subscription.status \in SubscriptionStatuses
  BY TermsAreDays DEF IInv, TypeOK
<1>4. CASE /\ EffectiveStatus = "EXPIRED"
           /\ subscription.status # "EXPIRED"
           /\ call' = [call EXCEPT ![c] =
                 [NoCall EXCEPT !.at = "expiry-seen", !.endAt = subscription.endAt]]
  <2> DEFINE r == [NoCall EXCEPT !.at = "expiry-seen", !.endAt = subscription.endAt]
  <2>1. subscription.endAt <= today
    BY <1>3, <1>4, LifecycleFacts DEF EffectiveStatus
  <2>2. r \in CallRecords /\ r.at = "expiry-seen" /\ r.endAt = subscription.endAt
    BY <1>3 DEF NoCall, CallRecords, CallSteps, SubscriptionStatuses, Open
  <2>3. call' = [call EXCEPT ![c] = r]
    BY <1>4
  <2> HIDE DEF r
  <2>4. r.at \notin StatusSteps
    BY <2>2 DEF StatusSteps
  <2> QED BY <1>1, <1>2, <2>1, <2>2, <2>3, <2>4, CallMoves
<1>5. CASE CallAt(c, "admitted")
  <2> DEFINE r == [call[c] EXCEPT !.at = "admitted"]
  <2>1. call' = [call EXCEPT ![c] = r] /\ r \in CallRecords /\ r.at = "admitted"
    BY <1>5, CallRecordMoves DEF CallAt, CallSteps
  <2> HIDE DEF r
  <2>2. r.at \notin StatusSteps
    BY <2>1 DEF StatusSteps
  <2> QED BY <1>1, <1>2, <2>1, <2>2, CallMoves
<1> QED BY <1>4, <1>5 DEF ResolveEntitlements

(* An expiry recorded over a newer term is overtaken, and one that stands  *)
(* for the term already keeps what is owed for it.                         *)
LEMMA RecordExpiryStep ==
  ASSUME IInv, NEW c \in Calls, RecordExpiry(c)  PROVE IInv'
<1> USE DEF rows, history
<1>1. /\ call[c].at = "expiry-seen"
      /\ subscription' = [subscription EXCEPT !.status = "EXPIRED"]
      /\ IF subscription.status = "EXPIRED" /\ ~overtaken
           THEN UNCHANGED <<overtaken, cause>>
           ELSE overtaken' = (call[c].endAt # subscription.endAt) /\ cause' = "policy"
      /\ call' = [call EXCEPT ![c] = NoCall]
      /\ UNCHANGED <<today, workspace, campaign, notices, tick, breaks, late, overlapped>>
  BY DEF RecordExpiry, SetStatus, EndCall
<1>2. /\ call' \in [Calls -> CallRecords] /\ call'[c] = NoCall /\ NoCall.at = "idle"
      /\ \A d \in Calls : d # c => call'[d] = call[d]
  BY <1>1, CallRecordMoves DEF CallSteps
<1>3. subscription'.status = "EXPIRED" /\ subscription'.endAt = subscription.endAt
  BY <1>1 DEF IInv, TypeOK
<1>4. TypeOK'
  BY <1>1, <1>2 DEF IInv, TypeOK, CallRecords, SubscriptionStatuses, Causes
<1>5. TickTerms' /\ DueTicks'
  BY <1>1 DEF IInv, TickTerms, DueTicks
<1>6. DueCalls' /\ StatusToWrite'
  BY <1>1, <1>2 DEF IInv, DueCalls, StatusToWrite
<1>7. EarlyExpiryNeedsOvertaking'
  <2>1. call[c].endAt \in Nat /\ subscription.endAt \in Nat /\ today \in Nat
    BY TermsAreDays DEF IInv, TypeOK
  <2>2. subscription.endAt > today => call[c].endAt # subscription.endAt
    BY <1>1, <2>1 DEF IInv, DueCalls
  <2> QED BY <1>1, <1>3, <2>2 DEF IInv, EarlyExpiryNeedsOvertaking
<1>8. MarkedExpiryIsOwed'
  <2>1. CASE subscription.status = "EXPIRED" /\ ~overtaken
    BY <1>1, <1>3, <2>1 DEF IInv, MarkedExpiryIsOwed, Owes, Quiet
  <2>2. CASE ~(subscription.status = "EXPIRED" /\ ~overtaken)
    BY <1>1, <2>2 DEF MarkedExpiryIsOwed
  <2> QED BY <2>1, <2>2
<1>9. ~InStatusCall(c) /\ \A d \in Calls : InStatusCall(d)' <=> InStatusCall(d)
  BY <1>1, <1>2 DEF InStatusCall, StatusSteps
<1>10. StatusCallsTakeTurns' /\ SplitStatusNeedsOverlap'
  BY <1>1, <1>3, <1>9 DEF IInv, StatusCallsTakeTurns, SplitStatusNeedsOverlap, InStatusCall
<1>11. SuspensionHolds'
  BY <1>1, <1>2, <1>9 DEF IInv, SuspensionHolds
<1> QED BY <1>4, <1>5, <1>6, <1>7, <1>8, <1>10, <1>11 DEF IInv

(* A campaign that starts or stops outside a tick: it stands still, or it  *)
(* was started after the expiry, or nothing changes.                       *)
LEMMA CampaignMoves ==
  ASSUME IInv, campaign' \in CampaignStatuses, late' \in BOOLEAN,
         campaign' = "RUNNING" => \/ late' \/ subscription.status # "EXPIRED"
                                  \/ UNCHANGED <<campaign, late>>,
         UNCHANGED <<today, workspace, subscription, notices, tick, call, breaks,
                     overtaken, cause, overlapped>>
  PROVE  IInv'
<1> USE DEF rows, history
<1>1. TypeOK'
  BY DEF IInv, TypeOK
<1>2. TickTerms' /\ DueTicks' /\ DueCalls' /\ StatusToWrite' /\ EarlyExpiryNeedsOvertaking'
  BY DEF IInv, TickTerms, DueTicks, DueCalls, StatusToWrite, EarlyExpiryNeedsOvertaking
<1>3. MarkedExpiryIsOwed'
  <2>1. subscription.status = "EXPIRED" => (Quiet => Quiet')
    BY DEF Quiet
  <2> QED BY <2>1 DEF IInv, MarkedExpiryIsOwed, Owes
<1>4. StatusCallsTakeTurns' /\ SuspensionHolds' /\ SplitStatusNeedsOverlap'
  BY DEF IInv, StatusCallsTakeTurns, SuspensionHolds, SplitStatusNeedsOverlap, InStatusCall
<1> QED BY <1>1, <1>2, <1>3, <1>4 DEF IInv

(* A fan-out is let in, or pauses the campaign.                            *)
LEMMA FanOutStep ==
  ASSUME IInv, NEW c \in Calls, FanOut(c)  PROVE IInv'
<1>1. CASE OutboundAllowed
  <2> DEFINE r == [call[c] EXCEPT !.at = "fanning"]
  <2>1. call[c].at = "idle" /\ UNCHANGED <<today, rows, tick, breaks, history>>
    BY <1>1 DEF FanOut, rows, history
  <2>2. call' = [call EXCEPT ![c] = r] /\ r \in CallRecords /\ r.at = "fanning"
    BY <1>1, CallRecordMoves DEF FanOut, CallAt, CallSteps
  <2> HIDE DEF r
  <2>3. r.at \notin StatusSteps /\ ~InStatusCall(c)
    BY <2>1, <2>2 DEF StatusSteps, InStatusCall
  <2> QED BY <2>1, <2>2, <2>3, CallMoves
<1>2. CASE ~OutboundAllowed
  BY <1>2, CampaignMoves DEF FanOut, CampaignStatuses
<1> QED BY <1>1, <1>2

(* A status that is written for the campaign, however late: RUNNING after  *)
(* the expiry is noted.                                                    *)
LEMMA WriteStatusStep ==
  ASSUME IInv, NEW c \in Calls, call[c].at \in {"admitted", "fanning", "counting"},
         NEW status \in CampaignStatuses, WriteStatus(status),
         NEW r \in CallRecords, r.at \in {"idle", "counting"}, call' = [call EXCEPT ![c] = r]
  PROVE  IInv'
<1> USE DEF rows, history
<1>1. /\ campaign' = status /\ late' \in BOOLEAN
      /\ campaign' = "RUNNING" /\ subscription.status = "EXPIRED" => late'
      /\ UNCHANGED <<today, workspace, subscription, notices, tick, breaks,
                     overtaken, cause, overlapped>>
  BY DEF WriteStatus
<1>2. /\ call' \in [Calls -> CallRecords] /\ call'[c] = r
      /\ \A d \in Calls : d # c => call'[d] = call[d]
  BY CallRecordMoves DEF CallSteps
<1>3. TypeOK'
  BY <1>1, <1>2 DEF IInv, TypeOK, CallRecords, CampaignStatuses
<1>4. TickTerms' /\ DueTicks' /\ EarlyExpiryNeedsOvertaking'
  BY <1>1 DEF IInv, TickTerms, DueTicks, EarlyExpiryNeedsOvertaking
<1>5. DueCalls' /\ StatusToWrite'
  BY <1>1, <1>2 DEF IInv, DueCalls, StatusToWrite
<1>6. MarkedExpiryIsOwed'
  BY <1>1 DEF IInv, MarkedExpiryIsOwed, Owes, Quiet
<1>7. ~InStatusCall(c) /\ \A d \in Calls : InStatusCall(d)' <=> InStatusCall(d)
  BY <1>1, <1>2 DEF InStatusCall, StatusSteps
<1>8. StatusCallsTakeTurns' /\ SplitStatusNeedsOverlap'
  BY <1>1, <1>7 DEF IInv, StatusCallsTakeTurns, SplitStatusNeedsOverlap, InStatusCall
<1>9. SuspensionHolds'
  BY <1>1, <1>2, <1>7 DEF IInv, SuspensionHolds
<1> QED BY <1>3, <1>4, <1>5, <1>6, <1>8, <1>9 DEF IInv

(* A request that was let in writes RUNNING, and a fan-out goes on.        *)
LEMMA WriteRunningStep ==
  ASSUME IInv, NEW c \in Calls, WriteRunning(c)  PROVE IInv'
<1> DEFINE r == IF call[c].at = "fanning" THEN [call[c] EXCEPT !.at = "counting"] ELSE NoCall
<1>1. /\ call[c].at \in {"admitted", "fanning"} /\ WriteStatus("RUNNING")
      /\ call' = [call EXCEPT ![c] = r]
      /\ r \in CallRecords /\ r.at \in {"idle", "counting"}
  BY CallRecordMoves DEF WriteRunning, CallAt, EndCall, CallSteps
<1> HIDE DEF r
<1> QED BY <1>1, WriteStatusStep DEF CampaignStatuses

(* A fan-out counts its messages and writes what the campaign becomes.     *)
LEMMA CountMessagesStep ==
  ASSUME IInv, NEW c \in Calls, CountMessages(c)  PROVE IInv'
<1>1. PICK status \in {"RUNNING", "ENDED"} : WriteStatus(status)
  BY DEF CountMessages
<1>2. /\ call[c].at = "counting" /\ call' = [call EXCEPT ![c] = NoCall]
      /\ NoCall \in CallRecords /\ NoCall.at = "idle"
  BY CallRecordMoves DEF CountMessages, EndCall, CallSteps
<1> QED BY <1>1, <1>2, WriteStatusStep DEF CampaignStatuses

(* Scheduling moves the campaign alone.                                    *)
LEMMA ScheduleCampaignStep == ASSUME IInv, ScheduleCampaign PROVE IInv'
BY CampaignMoves DEF ScheduleCampaign, IInv, TypeOK, CampaignStatuses, history

(* A status call that breaks off counts as one that overlapped.            *)
LEMMA CallBreaksOffStep ==
  ASSUME IInv, NEW c \in Calls, CallBreaksOff(c)  PROVE IInv'
<1> USE DEF rows, history
<1>1. /\ overlapped' = (overlapped \/ InStatusCall(c))
      /\ call' = [call EXCEPT ![c] = NoCall]
      /\ UNCHANGED <<today, rows, tick, breaks, overtaken, cause, late>>
  BY DEF CallBreaksOff, EndCall, InStatusCall
<1>2. /\ call' \in [Calls -> CallRecords] /\ call'[c] = NoCall /\ NoCall.at = "idle"
      /\ \A d \in Calls : d # c => call'[d] = call[d]
  BY <1>1, CallRecordMoves DEF CallSteps
<1>3. TypeOK'
  BY <1>1, <1>2 DEF IInv, TypeOK, CallRecords, InStatusCall
<1>4. TickTerms' /\ DueTicks' /\ EarlyExpiryNeedsOvertaking'
  BY <1>1 DEF IInv, TickTerms, DueTicks, EarlyExpiryNeedsOvertaking
<1>5. DueCalls' /\ StatusToWrite'
  BY <1>1, <1>2 DEF IInv, DueCalls, StatusToWrite
<1>6. MarkedExpiryIsOwed'
  BY <1>1 DEF IInv, MarkedExpiryIsOwed, Owes, Quiet
<1>7. /\ \A d \in Calls : InStatusCall(d)' => InStatusCall(d)
      /\ ~overlapped' => \A d \in Calls : InStatusCall(d)' <=> InStatusCall(d)
  BY <1>1, <1>2 DEF InStatusCall, StatusSteps
<1>8. StatusCallsTakeTurns' /\ SplitStatusNeedsOverlap'
  BY <1>1, <1>7 DEF IInv, StatusCallsTakeTurns, SplitStatusNeedsOverlap, InStatusCall
<1>9. SuspensionHolds'
  BY <1>1, <1>2, <1>7 DEF IInv, SuspensionHolds
<1> QED BY <1>3, <1>4, <1>5, <1>6, <1>8, <1>9 DEF IInv

(* Every step of a request keeps the invariant.                            *)
LEMMA CallStepKeeps ==
  ASSUME IInv, NEW c \in Calls, CallStep(c)  PROVE IInv'
BY SetTenantStep, FindSubscriptionStep, SetSubscriptionStep, PauseForSuspensionStep,
   ResolveEntitlementsStep, RecordExpiryStep, FanOutStep, WriteRunningStep,
   CountMessagesStep, CallBreaksOffStep DEF CallStep

-----------------------------------------------------------------------------

(* A step that changes nothing.                                            *)
LEMMA StutterStep == ASSUME IInv, UNCHANGED vars PROVE IInv'
BY CampaignMoves DEF vars, rows, history, IInv, TypeOK

(* IInv is inductive.                                                      *)
LEMMA NextIInv == IInv /\ [Next]_vars => IInv'
BY DayStep, TickStepKeeps, CallStepKeeps, ArchiveTenantStep, ExtendSubscriptionStep,
   ScheduleCampaignStep, StutterStep DEF Next

(* IInv holds in every state of every behaviour.                           *)
LEMMA SpecIInv == Spec => []IInv
BY InitIInv, NextIInv, PTL DEF Spec

(* Rows, records and history stay within their types.                      *)
THEOREM SpecTypeOK == Spec => []TypeOK
<1>1. IInv => TypeOK
  BY DEF IInv
<1> QED BY <1>1, SpecIInv, PTL

(* EarlyExpiryNeedsOvertaking: a tenant whose term runs is EXPIRED only    *)
(* when an extension overtook somebody who had read the old term.          *)
THEOREM SpecEarlyExpiryNeedsOvertaking == Spec => []EarlyExpiryNeedsOvertaking
<1>1. IInv => EarlyExpiryNeedsOvertaking
  BY DEF IInv
<1> QED BY <1>1, SpecIInv, PTL

(* MarkedExpiryIsSeenThrough: an expiry that a tick marked, and that stands*)
(* for the term in force, is announced and leaves no campaign running that *)
(* was not admitted before, unless a tick is still at it or broke off.     *)
THEOREM SpecMarkedExpiryIsSeenThrough == Spec => []MarkedExpiryIsSeenThrough
<1>1. IInv => MarkedExpiryIsSeenThrough
  BY DEF IInv, MarkedExpiryIsOwed, MarkedExpiryIsSeenThrough, Owes, Quiet
<1> QED BY <1>1, SpecIInv, PTL

(* SplitStatusNeedsOverlap: an open tenant is left with a SUSPENDED        *)
(* subscription only when two status calls overlapped or one broke off.    *)
THEOREM SpecSplitStatusNeedsOverlap == Spec => []SplitStatusNeedsOverlap
<1>1. IInv => SplitStatusNeedsOverlap
  BY DEF IInv
<1> QED BY <1>1, SpecIInv, PTL

=============================================================================
