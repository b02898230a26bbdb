----------------------------- MODULE WebhookIntake -----------------------------
(***************************************************************************)
(* The events Zalo posts for one OA: ZaloWebhookService.accept stores and  *)
(* queues an event unless its key is known, processZaloWebhook applies it, *)
(* one await at a time, with retries.  A key is the msg_id of the event or *)
(* its name and time; deliveries and redeliveries of any event with that   *)
(* key overlap.  All events are about one contact.  The sender's own       *)
(* messages (processMessage) and operators run beside them.                *)
(***************************************************************************)
EXTENDS BullQueue, FiniteSets

CONSTANTS
    Events,     \* the events that Zalo reports
    KeyOf,      \* what the deduplication makes of them
    KindOf,     \* user_send_*, oa_send_*, user_unfollow/user_withdraw, any other
    Calls,      \* deliveries under way at the same time
    MaxStored,  \* how many events are stored (bounds the model)
    NoEvent

Kinds == {"text", "echo", "optout", "receipt"}
Keys == {KeyOf[e] : e \in Events}

ASSUME WebhookAssumption ==
    /\ KindOf \in [Events -> Kinds]
    /\ DOMAIN KeyOf = Events
    /\ NoEvent \notin Events
    /\ MaxStored \in Nat

VARIABLES
    call,       \* where each delivery is, and with which event
    accepted,   \* the WebhookEvent and BackgroundJob stored for a key
    row,        \* their status
    job,        \* the BullMQ job
    at,         \* the await its attempt has reached
    contact,    \* the contact: absent, known, or opted out
    entries,    \* the suppression entries the webhook made for it
    ownRow,     \* processMessage's row of the message with this msg_id
    message,    \* the row the webhook made of it, and what followed
    notices,    \* how many notifications announced it
    \* history
    applied,    \* keys whose opt-out was written
    lifted,     \* an operator recorded a new consent since
    removed,    \* an operator removed an entry since the last was made
    overtook,   \* keys whose message was looked up before processMessage recorded it
    cut,        \* keys with an attempt that broke off between row and last follow-up
    abandoned   \* keys left to nobody: no job, or no listener for its end

callVars == <<call, accepted>>
contactVars == <<contact, entries, applied, lifted, removed>>
messageVars == <<ownRow, message, notices, overtook, cut>>
vars == <<callVars, row, job, at, contactVars, messageVars, abandoned>>

Idle == [at |-> "idle", event |-> NoEvent]
Statuses == {"NONE", "PENDING", "RUNNING", "COMPLETED", "FAILED"}
Settled == {"COMPLETED", "FAILED"}
FollowUps == {"none", "row", "event", "notified"}
Awaits == {"contact", "find", "list", "relist", "look", "create", "log", "notify", "complete", "done"}

Kind(k) == IF accepted[k] = NoEvent THEN "receipt" ELSE KindOf[accepted[k]]
Inbound(k) == Kind(k) = "text"
Sends == {"text", "echo"}
OwnMessages == {k \in Keys : \E e \in Events : KeyOf[e] = k /\ KindOf[e] = "echo"}

(* A message may have been sent from here, or by the OA by other means.    *)
Init ==
    /\ call = [c \in Calls |-> Idle]
    /\ accepted = [k \in Keys |-> NoEvent]
    /\ row = [k \in Keys |-> "NONE"]
    /\ job = [k \in Keys |-> NoJob]
    /\ at = [k \in Keys |-> "idle"]
    /\ contact = "none"
    /\ entries = 0
    /\ ownRow \in {f \in [Keys -> {"none", "sending"}] : \A k \in Keys \ OwnMessages : f[k] = "none"}
    /\ message = [k \in Keys |-> "none"]
    /\ notices = [k \in Keys |-> 0]
    /\ applied = {} /\ lifted = FALSE /\ removed = FALSE
    /\ overtook = {} /\ cut = {} /\ abandoned = {}

-----------------------------------------------------------------------------
(* The checks of accept                                                    *)

(* A POST to the webhook: whether the envelope is complete, the secrets    *)
(* are configured, whom the signature and the app id belong to, how old    *)
(* the timestamp is, the setup mode, and the OA that is named.  Any        *)
(* account row of that OA will do, also one that was never connected or    *)
(* is DISCONNECTED: only a deleted row would not, and nothing deletes one. *)
Envelopes ==
    [complete : BOOLEAN, configured : BOOLEAN, signature : {"none", "other", "zalo"},
     ours : BOOLEAN, recent : BOOLEAN, setup : BOOLEAN,
     oa : {"none", "unknown", "DISCONNECTED", "CONNECTED"}]

(* The early returns in their order; only "store" goes on.                 *)
Answer(w) ==
    CASE ~w.complete                    -> "probe"
      [] w.complete /\ ~w.configured    -> "unavailable"
      [] w.complete /\ w.configured     ->
            IF w.signature = "none" THEN "bad request"
            ELSE IF ~w.ours \/ ~w.recent THEN "unauthorized"
            ELSE IF w.signature = "other"
                   THEN IF w.setup THEN "probe" ELSE "unauthorized"
            ELSE IF w.oa \in {"none", "unknown"} THEN "bad request" ELSE "store"

Storable == {w \in Envelopes : Answer(w) = "store"}

(* accept, for a delivery that passed its checks                           *)

Taking == {k \in Keys : accepted[k] # NoEvent \/ \E c \in Calls :
              call[c].at = "checked" /\ KeyOf[call[c].event] = k}

(* A known key is answered as a duplicate.                                 *)
Receive(c, e) ==
    /\ call[c].at = "idle"
    /\ Storable # {}
    /\ accepted[KeyOf[e]] = NoEvent
    /\ Cardinality(Taking \cup {KeyOf[e]}) <= MaxStored
    /\ call' = [call EXCEPT ![c] = [at |-> "checked", event |-> e]]
    /\ UNCHANGED <<accepted, row, job, at, contactVars, messageVars, abandoned>>

(* One transaction; the unique externalId fails the later of two.          *)
Store(c) ==
    LET e == call[c].event  k == KeyOf[e] IN
    /\ call[c].at = "checked"
    /\ IF accepted[k] = NoEvent
         THEN /\ accepted' = [accepted EXCEPT ![k] = e]
              /\ row' = [row EXCEPT ![k] = "PENDING"]
              /\ call' = [call EXCEPT ![c].at = "stored"]
         ELSE /\ call' = [call EXCEPT ![c] = Idle]
              /\ UNCHANGED <<accepted, row>>
    /\ UNCHANGED <<job, at, contactVars, messageVars, abandoned>>

Enqueue(c) ==
    LET k == KeyOf[call[c].event] IN
    /\ call[c].at = "stored"
    /\ job' = [job EXCEPT ![k] = Added(@)]
    /\ call' = [call EXCEPT ![c] = Idle]
    /\ UNCHANGED <<accepted, row, at, contactVars, messageVars, abandoned>>

(* The API dies, the transaction or Redis fails: what is stored stays, and *)
(* a redelivery will be a duplicate.                                       *)
CallLost(c) ==
    /\ call[c].at # "idle"
    /\ abandoned' = IF call[c].at = "stored" THEN abandoned \cup {KeyOf[call[c].event]} ELSE abandoned
    /\ call' = [call EXCEPT ![c] = Idle]
    /\ UNCHANGED <<accepted, row, job, at, contactVars, messageVars>>

-----------------------------------------------------------------------------
(* processZaloWebhook                                                      *)

Goto(k, step) == at' = [at EXCEPT ![k] = step]

StartUnless(k, over) ==
    /\ job[k].state = "waiting" /\ at[k] = "idle"
    /\ job' = [job EXCEPT ![k] = Taken(@)]
    /\ IF row[k] \in over
         THEN Goto(k, "done") /\ UNCHANGED row
         ELSE Goto(k, "contact") /\ row' = [row EXCEPT ![k] = "RUNNING"]
    /\ UNCHANGED <<callVars, contactVars, messageVars, abandoned>>

(* Mutant: an event that an earlier attempt began is taken for being done. *)
StartOnce(k) == StartUnless(k, {"RUNNING", "COMPLETED"})

StartAttempt(k) == StartUnless(k, {"COMPLETED"})

UpsertLeaving(k, known, sends) ==
    /\ at[k] = "contact"
    /\ contact' = IF contact = "none" THEN "known" ELSE known
    /\ Goto(k, CASE Kind(k) = "optout" -> "find"
                 [] Kind(k) \in sends -> "look"
                 [] OTHER              -> "complete")
    /\ UNCHANGED <<callVars, row, job, entries, applied, lifted, removed, messageVars, abandoned>>

(* Mutant: the update writes the consent of a new contact, too.            *)
UpsertContactAnew(k) == UpsertLeaving(k, "known", Sends)

(* Mutant: only user_send_* counts as a message.                           *)
UpsertContactInbound(k) == UpsertLeaving(k, contact, {"text"})

(* An existing contact keeps its consent.                                  *)
UpsertContact(k) == UpsertLeaving(k, contact, Sends)

FindSuppression(k) ==
    /\ at[k] = "find"
    /\ Goto(k, IF entries = 0 THEN "list" ELSE "relist")
    /\ UNCHANGED <<callVars, row, job, contactVars, messageVars, abandoned>>

(* A suppression entry that was found is not made again.                   *)
OptOut(k) ==
    /\ at[k] \in {"list", "relist"}
    /\ contact' = "out"
    /\ entries' = IF at[k] = "list" THEN entries + 1 ELSE entries
    /\ applied' = applied \cup {k}
    /\ lifted' = FALSE
    /\ removed' = IF at[k] = "list" THEN FALSE ELSE removed
    /\ Goto(k, "complete")
    /\ UNCHANGED <<callVars, row, job, messageVars, abandoned>>

(* The message is looked for by its msg_id.                                *)
LookUpAmong(k, existing, found) ==
    /\ at[k] = "look"
    /\ overtook' = IF ownRow[k] = "sending" THEN overtook \cup {k} ELSE overtook
    /\ Goto(k, IF k \in existing THEN found ELSE "create")
    /\ UNCHANGED <<callVars, row, job, contactVars, ownRow, message, notices, cut, abandoned>>

Recorded == {k \in Keys : ownRow[k] = "recorded"}
Made == {k \in Keys : message[k] # "none"}

(* Mutants: only the rows made by the webhook are looked for; a message    *)
(* that an earlier attempt made is announced by the retry.                 *)
LookUpMessageOfWebhook(k) == LookUpAmong(k, Made, "complete")
LookUpMessageToAnnounce(k) ==
    LookUpAmong(k, Recorded \cup Made, IF Inbound(k) THEN "notify" ELSE "complete")

(* A message that is found gets its status anew, and nothing else.         *)
LookUpMessage(k) == LookUpAmong(k, Recorded \cup Made, "complete")

(* The conversation is upserted, then the row is created.                  *)
CreateMessage(k) ==
    /\ at[k] = "create"
    /\ message' = [message EXCEPT ![k] = "row"]
    /\ Goto(k, "log")
    /\ UNCHANGED <<callVars, row, job, contactVars, ownRow, notices, overtook, cut, abandoned>>

LogMessage(k) ==
    /\ at[k] = "log"
    /\ message' = [message EXCEPT ![k] = "event"]
    /\ Goto(k, IF Inbound(k) THEN "notify" ELSE "complete")
    /\ UNCHANGED <<callVars, row, job, contactVars, ownRow, notices, overtook, cut, abandoned>>

Notify(k) ==
    /\ at[k] = "notify"
    /\ message' = [message EXCEPT ![k] = "notified"]
    /\ notices' = [notices EXCEPT ![k] = @ + 1]
    /\ Goto(k, "complete")
    /\ UNCHANGED <<callVars, row, job, contactVars, ownRow, overtook, cut, abandoned>>

CompleteEvent(k) ==
    /\ at[k] = "complete"
    /\ row' = [row EXCEPT ![k] = "COMPLETED"]
    /\ Goto(k, "done")
    /\ UNCHANGED <<callVars, job, contactVars, messageVars, abandoned>>

FinishAttempt(k) ==
    /\ at[k] = "done"
    /\ job' = [job EXCEPT ![k] = Completed(@)]
    /\ Goto(k, "idle")
    /\ UNCHANGED <<callVars, row, contactVars, messageVars, abandoned>>

(* An attempt breaks off while the message it made lacks what follows.     *)
NoteCut(k) == cut' = IF at[k] \in {"log", "notify"} THEN cut \cup {k} ELSE cut

(* Any await fails, or the event names no user.  The last transaction may  *)
(* fail although it was committed.                                         *)
AttemptFails(k) ==
    /\ at[k] \in Awaits
    /\ job' = [job EXCEPT ![k] = Thrown(@)]
    /\ Goto(k, IF LastAttempt(job[k]) THEN "failed" ELSE "idle")
    /\ NoteCut(k)
    /\ UNCHANGED <<callVars, row, contactVars, ownRow, message, notices, overtook, abandoned>>

(* The listener of the last attempt, or its database call fails.           *)
OnFailed(k) ==
    /\ at[k] = "failed"
    /\ \/ row' = [row EXCEPT ![k] = "FAILED"] /\ UNCHANGED abandoned
       \/ abandoned' = abandoned \cup {k} /\ UNCHANGED row
    /\ Goto(k, "idle")
    /\ UNCHANGED <<callVars, job, contactVars, messageVars>>

WorkerLost(k) ==
    /\ at[k] \in Awaits \cup {"failed"}
    /\ Goto(k, "idle")
    /\ abandoned' = IF at[k] = "failed" THEN abandoned \cup {k} ELSE abandoned
    /\ NoteCut(k)
    /\ UNCHANGED <<callVars, row, job, contactVars, ownRow, message, notices, overtook>>

(* A job that stalls too often fails, and its listener waits for a last    *)
(* attempt that was never made.                                            *)
JobStalls(k) ==
    /\ job[k].state = "active" /\ at[k] = "idle"
    /\ job' = [job EXCEPT ![k] = Stalled(@)]
    /\ abandoned' = IF job[k].stalls = MaxStalls THEN abandoned \cup {k} ELSE abandoned
    /\ UNCHANGED <<callVars, row, at, contactVars, messageVars>>

JobPromoted(k) ==
    /\ job[k].state = "delayed"
    /\ job' = [job EXCEPT ![k] = Promoted(@)]
    /\ UNCHANGED <<callVars, row, at, contactVars, messageVars, abandoned>>

-----------------------------------------------------------------------------
(* Beside the intake                                                       *)

(* processMessage stores the msg_id that Zalo answered with.               *)
RecordOwnSend(k) ==
    /\ ownRow[k] = "sending"
    /\ ownRow' = [ownRow EXCEPT ![k] = "recorded"]
    /\ UNCHANGED <<callVars, row, job, at, contactVars, message, notices, overtook, cut, abandoned>>

(* ContactsService.updateConsent.                                          *)
Reconsent ==
    /\ contact = "out"
    /\ contact' = "known"
    /\ lifted' = TRUE
    /\ UNCHANGED <<callVars, row, job, at, entries, applied, removed, messageVars, abandoned>>

(* ContactsService.unsuppress.                                             *)
RemoveEntry ==
    /\ entries > 0
    /\ entries' = entries - 1
    /\ removed' = TRUE
    /\ UNCHANGED <<callVars, row, job, at, contact, applied, lifted, messageVars, abandoned>>

-----------------------------------------------------------------------------

CallStep(c) == (\E e \in Events : Receive(c, e)) \/ Store(c) \/ Enqueue(c) \/ CallLost(c)

Progress(k) ==
    \/ StartAttempt(k) \/ UpsertContact(k) \/ FindSuppression(k) \/ OptOut(k)
    \/ LookUpMessage(k) \/ CreateMessage(k) \/ LogMessage(k) \/ Notify(k)
    \/ CompleteEvent(k) \/ FinishAttempt(k) \/ OnFailed(k)

Fault(k) == AttemptFails(k) \/ WorkerLost(k)

QueueStep(k) == JobStalls(k) \/ JobPromoted(k)

Next ==
    \/ \E c \in Calls : CallStep(c)
    \/ \E k \in Keys : Progress(k) \/ Fault(k) \/ QueueStep(k) \/ RecordOwnSend(k)
    \/ Reconsent \/ RemoveEntry

Spec == Init /\ [][Next]_vars

(* The worker keeps working and BullMQ promotes and re-queues; deliveries, *)
(* faults and people may do as they like.                                  *)
FairSpec == Spec /\ \A k \in Keys : WF_vars(Progress(k)) /\ WF_vars(QueueStep(k))

-----------------------------------------------------------------------------

(* The type of every variable of accept and processZaloWebhook.            *)
TypeOK ==
    /\ call \in [Calls -> [at : {"idle"}, event : {NoEvent}] \cup [at : {"checked", "stored"}, event : Events]]
    /\ accepted \in [Keys -> Events \cup {NoEvent}]
    /\ \A k \in Keys : accepted[k] # NoEvent => KeyOf[accepted[k]] = k
    /\ row \in [Keys -> Statuses]
    /\ \A k \in Keys : row[k] = "NONE" <=> accepted[k] = NoEvent
    /\ job \in [Keys -> Jobs]
    /\ at \in [Keys -> Awaits \cup {"idle", "failed"}]
    /\ contact \in {"none", "known", "out"}
    /\ entries \in Nat
    /\ ownRow \in [Keys -> {"none", "sending", "recorded"}]
    /\ message \in [Keys -> FollowUps]
    /\ notices \in [Keys -> Nat]
    /\ lifted \in BOOLEAN /\ removed \in BOOLEAN
    /\ applied \subseteq Keys /\ overtook \subseteq Keys /\ cut \subseteq Keys /\ abandoned \subseteq Keys

(* An event marked COMPLETED has had its effect, whichever of its attempts *)
(* broke off where: a message that was sent or received has a row, an      *)
(* opt-out was written.                                                    *)
CompletedMeansDone ==
    \A k \in Keys : row[k] = "COMPLETED" =>
        /\ Kind(k) \in Sends => message[k] # "none" \/ ownRow[k] = "recorded"
        /\ Kind(k) = "optout" => k \in applied

(* A contact that opted out stays so through every other event about it,   *)
(* and has an entry in the suppression list, in whatever order the         *)
(* attempts overlap, until an operator records a new consent or removes an *)
(* entry.                                                                  *)
OptOutSurvivesEvents ==
    applied # {} => /\ contact = "out" \/ lifted
                    /\ entries > 0 \/ removed

(* A message sent from here gets a second row from its own echo only when  *)
(* the echo was looked up before processMessage had recorded the msg_id.   *)
SecondRowNeedsOvertaking ==
    \A k \in Keys : message[k] # "none" /\ ownRow[k] # "none" => k \in overtook

(* A received message is announced at most once, however often its event   *)
(* is retried; and a message whose event is COMPLETED has its event and,   *)
(* if received, its notification unless an attempt broke off just between  *)
(* the creation of the row and the last of them, whatever other attempts   *)
(* broke off: then the retry finds the row, and they are never made.       *)
AnnouncedOnceUnlessCut ==
    \A k \in Keys :
        /\ notices[k] <= 1
        /\ row[k] = "COMPLETED" /\ message[k] # "none" /\ k \notin cut =>
              message[k] = IF Inbound(k) THEN "notified" ELSE "event"

Unsettled == {k \in Keys : job[k].state # "none" /\ row[k] \notin Settled /\ k \notin abandoned}

(* docs/OPERATIONS.md:52: a valid event is stored first and then queued.   *)
(* What was queued is completed or failed in the end, unless its worker    *)
(* died too often or with the last failure in hand.  A key is queued once, *)
(* so that between its deliveries there always comes a time when nothing   *)
(* is left over.                                                           *)
QueuedEventSettles == []<>(Unsettled = {})

=============================================================================
