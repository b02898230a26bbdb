------------------------------ MODULE CampaignRun ------------------------------
(***************************************************************************)
(* One campaign from approval to its end: CampaignsService changes its     *)
(* status, the API and the scheduler queue fan-out jobs, processCampaign   *)
(* turns the audience into messages and send jobs, processMessage sends    *)
(* them and reports back through updateCampaignProgress, and a subscription *)
(* that ends or an administrator pauses the campaign from outside.         *)
(*                                                                         *)
(* What processMessage checks between reading the campaign and sending is  *)
(* in OutboundDelivery; here it lets a message through or blocks it.       *)
(* BackgroundJob, AuditLog and Notification rows and the statistics column *)
(* are written along the way and read by no decision: they are left out.   *)
(***************************************************************************)
EXTENDS BullQueue, FiniteSets

CONSTANTS
    Contacts,       \* the audience the campaign was created with
    Consent,        \* Contact.consentStatus of its members then
    Suppressed,     \* those whose contact was suppressed
    Promotional,    \* Campaign.promotional
    DailyLimit,     \* maxMessagesPerDay of the plan
    Calls,          \* API calls on the campaign, each made once
    MayAsk,         \* the operations each of them may be
    Hazards         \* what else the instance explores

(* CampaignsService.create settles once and for all who is written to; an  *)
(* audience without a single contact is refused.                           *)
Excluded ==
    {c \in Contacts : c \in Suppressed \/ (Promotional /\ Consent[c] # "OPTED_IN")}

Included == Contacts \ Excluded

ASSUME CampaignAssumption ==
    /\ IsFiniteSet(Contacts)
    /\ Contacts # {}
    /\ Consent \in [Contacts -> {"UNKNOWN", "OPTED_IN", "OPTED_OUT"}]
    /\ Suppressed \subseteq Contacts
    /\ Promotional \in BOOLEAN
    /\ DailyLimit \in Nat
    /\ Calls \cap {"launch", "schedule"} = {}
    /\ MayAsk \in [Calls -> SUBSET {"approve", "schedule", "launch", "pause", "resume", "cancel"}]
    /\ Hazards \subseteq {"halt", "scheduler", "fanOut", "send", "abort", "retention"}

VARIABLES
    \* database
    campaign,       \* Campaign.status
    row,            \* Message.status of the recipient's message, "NONE" before it exists
    link,           \* CampaignMessage.status, "NONE" before it exists
    allowed,        \* no emergency stop, tenant active, subscription running
    \* Redis
    sendJob,        \* the recipient's job in message.send
    runJob,         \* the fan-out jobs in automation.execute
    \* processes
    call,           \* where each API call is, and what it asks for
    tick,           \* where the scheduler's pass over due campaigns is
    halting,        \* outbound was closed, the campaigns are not paused yet
    run,            \* where the worker is with each fan-out job
    send,           \* where the worker is with each message
    \* the world outside, and history
    delivered,      \* how many copies the platform accepted
    overtaken,      \* attempts that read the campaign before it was paused or cancelled
    abandoned,      \* recipients a fan-out was working on when it failed
    cutOff          \* recipients of whose message an attempt broke off after the platform
                    \* had accepted it and before the report of that was complete

sendVars == <<row, sendJob, send, delivered, cutOff>>
runVars == <<runJob, run, abandoned>>
operatorVars == <<call, tick, halting, allowed>>
vars == <<campaign, link, overtaken, sendVars, runVars, operatorVars>>

(* PENDING_APPROVAL is in the schema but nothing writes it.                *)
CampaignStatuses == {"DRAFT", "APPROVED", "SCHEDULED", "RUNNING", "PAUSED",
                     "COMPLETED", "FAILED", "CANCELLED"}
MessageStatuses == {"NONE", "QUEUED", "SENDING", "SENT", "BLOCKED", "FAILED"}
LinkStatuses == {"NONE", "QUEUED", "SENT", "BLOCKED", "FAILED"}

(* A fan-out job per deterministic id, and one per resume.                 *)
Runs == {"launch", "schedule"} \cup Calls

CallSteps == {"idle", "found", "checked", "written", "closed"}

(* The await points of processCampaign, and where its loop is with a       *)
(* recipient: not reached; looked up and absent; row created QUEUED or     *)
(* BLOCKED; linked, with the job still to be added.                        *)
RunSteps == {"idle", "read", "passed", "refused", "loop", "counted", "done"}
MemberSteps == {"todo", "absent", "created", "blocked", "linked", "done"}
InHand == MemberSteps \ {"todo", "done"}

NoRun == [at |-> "idle", member |-> [c \in Contacts |-> "todo"], verdict |-> "RUNNING"]

(* The await points of processMessage for a message with a campaign: the   *)
(* campaign was read, and not cancelled or cancelled; SENDING is recorded; *)
(* the platform accepted; the message has its final status; its link has   *)
(* it too; the links are counted.  "onFailed" is the 'failed' listener.    *)
BeforeSent == {"read", "sending", "accepted"}
Reporting == {"settled", "linked", "counted"}
SendSteps == BeforeSent \cup Reporting \cup {"idle", "cancelled", "onFailed"}

NoSend == [at |-> "idle", outcome |-> "SENT", pending |-> FALSE]

Stopped == {"PAUSED", "CANCELLED"}
Settled == {"SENT", "BLOCKED"}

-----------------------------------------------------------------------------

Init ==
    /\ campaign = "DRAFT"
    /\ row = [c \in Contacts |-> "NONE"]
    /\ link = [c \in Contacts |-> "NONE"]
    /\ allowed = TRUE
    /\ sendJob = [c \in Contacts |-> NoJob]
    /\ runJob = [r \in Runs |-> NoJob]
    /\ call = [k \in Calls |-> [at |-> "idle", op |-> "approve"]]
    /\ tick = "idle"
    /\ halting = FALSE
    /\ run = [r \in Runs |-> NoRun]
    /\ send = [c \in Contacts |-> NoSend]
    /\ delivered = [c \in Contacts |-> 0]
    /\ overtaken = {}
    /\ abandoned = {}
    /\ cutOff = {}

(* Every write of Campaign.status.                                         *)
SetStatus(s) ==
    /\ campaign' = s
    /\ overtaken' = IF s \in Stopped
                      THEN overtaken \cup {c \in Contacts : send[c].at \in BeforeSent}
                      ELSE overtaken

(* assertOutboundAllowed and outboundBlockReason; this campaign's messages *)
(* are the tenant's messages of the day.                                   *)
OutboundAllowed(additional) ==
    /\ allowed
    /\ Cardinality({c \in Contacts : row[c] # "NONE"}) + additional <= DailyLimit

-----------------------------------------------------------------------------
(* CampaignsService: approve, schedule, launch and setStatus               *)

From == [approve |-> {"DRAFT"},
         schedule |-> {"APPROVED"},
         launch |-> {"APPROVED", "SCHEDULED", "PAUSED"},
         pause |-> {"RUNNING", "SCHEDULED"},
         resume |-> {"PAUSED"},
         cancel |-> {"DRAFT", "APPROVED", "SCHEDULED", "RUNNING", "PAUSED"}]

(* Mutant: a status the schema does not know.                              *)
ToMisspelt == [approve |-> "APPROVED", schedule |-> "SCHEDULED", launch |-> "RUNNING",
               pause |-> "PAUSED", resume |-> "RUNNING", cancel |-> "CANCELED"]

To == [approve |-> "APPROVED", schedule |-> "SCHEDULED", launch |-> "RUNNING",
       pause |-> "PAUSED", resume |-> "RUNNING", cancel |-> "CANCELLED"]

StartsRun == {"launch", "resume"}

CallAt(k, step) == call' = [call EXCEPT ![k].at = step]

(* The campaign is read and its status checked.                            *)
ReadCampaign(k, op) ==
    /\ call[k].at = "idle"
    /\ call' = [call EXCEPT ![k] =
          [op |-> op,
           at |-> IF campaign \notin From[op] THEN "closed"
                  ELSE IF op \in StartsRun THEN "found" ELSE "checked"]]
    /\ UNCHANGED <<campaign, link, overtaken, sendVars, runVars, tick, halting, allowed>>

(* A launch asks for its whole audience, a resume for one message.         *)
AssertOutboundAllowed(k) ==
    /\ call[k].at = "found"
    /\ CallAt(k, IF OutboundAllowed(IF call[k].op = "launch" THEN Cardinality(Included) ELSE 1)
                   THEN "checked" ELSE "closed")
    /\ UNCHANGED <<campaign, link, overtaken, sendVars, runVars, tick, halting, allowed>>

(* The new status is written by id, whatever the status is by now.         *)
WriteStatus(k) ==
    /\ call[k].at = "checked"
    /\ SetStatus(To[call[k].op])
    /\ CallAt(k, IF call[k].op \in StartsRun THEN "written" ELSE "closed")
    /\ UNCHANGED <<link, sendVars, runVars, tick, halting, allowed>>

EnqueueRun(k) ==
    /\ call[k].at = "written"
    /\ runJob' = [runJob EXCEPT ![IF call[k].op = "launch" THEN "launch" ELSE k] = Added(@)]
    /\ CallAt(k, "closed")
    /\ UNCHANGED <<campaign, link, overtaken, sendVars, run, abandoned, tick, halting, allowed>>

(* The API process dies, or PostgreSQL or Redis refuses the call.          *)
CallAborted(k) ==
    /\ "abort" \in Hazards
    /\ call[k].at \in {"found", "checked", "written"}
    /\ CallAt(k, "closed")
    /\ UNCHANGED <<campaign, link, overtaken, sendVars, runVars, tick, halting, allowed>>

-----------------------------------------------------------------------------
(* The scheduler, and what closes outbound for the tenant                  *)

(* A tick lists the due campaigns first and queues them later, or not at   *)
(* all when outbound is stopped or a step before failed.                   *)
TickReads ==
    /\ "scheduler" \in Hazards
    /\ tick = "idle"
    /\ campaign = "SCHEDULED"
    /\ tick' = "due"
    /\ UNCHANGED <<campaign, link, overtaken, sendVars, runVars, call, halting, allowed>>

TickEnqueues ==
    /\ tick = "due"
    /\ tick' = "idle"
    /\ \/ runJob' = [runJob EXCEPT !["schedule"] = Added(@)]
       \/ UNCHANGED runJob
    /\ UNCHANGED <<campaign, link, overtaken, sendVars, run, abandoned, call, halting, allowed>>

(* The subscription ends, the tenant is suspended or outbound is stopped:  *)
(* that is written first, and the campaigns are paused by a second write,  *)
(* which is lost when the process dies in between.                         *)
CloseOutbound ==
    /\ "halt" \in Hazards
    /\ allowed
    /\ allowed' = FALSE
    /\ halting' = TRUE
    /\ UNCHANGED <<campaign, link, overtaken, sendVars, runVars, call, tick>>

PauseCampaigns ==
    /\ halting
    /\ halting' = FALSE
    /\ IF campaign \in {"RUNNING", "SCHEDULED"}
         THEN SetStatus("PAUSED")
         ELSE UNCHANGED <<campaign, overtaken>>
    /\ UNCHANGED <<link, sendVars, runVars, call, tick, allowed>>

HaltLost ==
    /\ "abort" \in Hazards
    /\ halting
    /\ halting' = FALSE
    /\ UNCHANGED <<campaign, link, overtaken, sendVars, runVars, call, tick, allowed>>

ReopenOutbound ==
    /\ ~allowed
    /\ ~halting
    /\ allowed' = TRUE
    /\ UNCHANGED <<campaign, link, overtaken, sendVars, runVars, call, tick, halting>>

-----------------------------------------------------------------------------
(* processCampaign                                                         *)

RunAt(r, step) == run' = [run EXCEPT ![r].at = step]

MemberAt(r, c, step) == run' = [run EXCEPT ![r].member[c] = step]

(* The loop takes one recipient at a time, in the order the rows come in.  *)
NextMember(r, c) ==
    /\ run[r].at = "loop"
    /\ run[r].member[c] = "todo"
    /\ \A d \in Contacts : run[r].member[d] \notin InHand

(* Mutant: a campaign that is RUNNING was fanned out already.              *)
StartRunOnce(r) ==
    /\ runJob[r].state = "waiting"
    /\ IF campaign \in {"APPROVED", "SCHEDULED"}
         THEN /\ runJob' = [runJob EXCEPT ![r] = Taken(@)]
              /\ RunAt(r, "read")
         ELSE /\ runJob' = [runJob EXCEPT ![r] = Completed(Taken(@))]
              /\ UNCHANGED run
    /\ UNCHANGED <<campaign, link, overtaken, sendVars, abandoned, operatorVars>>

StartRun(r) ==
    /\ runJob[r].state = "waiting"
    /\ IF campaign \in {"APPROVED", "SCHEDULED", "RUNNING"}
         THEN /\ runJob' = [runJob EXCEPT ![r] = Taken(@)]
              /\ RunAt(r, "read")
         ELSE /\ runJob' = [runJob EXCEPT ![r] = Completed(Taken(@))]
              /\ UNCHANGED run
    /\ UNCHANGED <<campaign, link, overtaken, sendVars, abandoned, operatorVars>>

(* outboundBlockReason for the whole audience, also when a part of it has  *)
(* its messages already.                                                   *)
CheckPolicy(r) ==
    /\ run[r].at = "read"
    /\ RunAt(r, IF OutboundAllowed(Cardinality(Included)) THEN "passed" ELSE "refused")
    /\ UNCHANGED <<campaign, link, overtaken, sendVars, runJob, abandoned, operatorVars>>

PauseRefused(r) ==
    /\ run[r].at = "refused"
    /\ SetStatus("PAUSED")
    /\ RunAt(r, "done")
    /\ UNCHANGED <<link, sendVars, runJob, abandoned, operatorVars>>

MarkRunning(r) ==
    /\ run[r].at = "passed"
    /\ SetStatus("RUNNING")
    /\ RunAt(r, "loop")
    /\ UNCHANGED <<link, sendVars, runJob, abandoned, operatorVars>>

BlockExcluded(r, c) ==
    /\ NextMember(r, c)
    /\ c \in Excluded
    /\ link' = [link EXCEPT ![c] = "BLOCKED"]
    /\ MemberAt(r, c, "done")
    /\ UNCHANGED <<campaign, overtaken, sendVars, runJob, abandoned, operatorVars>>

(* A recipient whose idempotency key is taken is skipped.                  *)
LookUpMember(r, c) ==
    /\ NextMember(r, c)
    /\ c \in Included
    /\ MemberAt(r, c, IF row[c] = "NONE" THEN "absent" ELSE "done")
    /\ UNCHANGED <<campaign, link, overtaken, sendVars, runJob, abandoned, operatorVars>>

(* The processor threw, or its process is gone.                            *)
AbandonRun(r) ==
    /\ run' = [run EXCEPT ![r] = NoRun]
    /\ abandoned' = abandoned \cup {c \in Contacts : run[r].member[c] \in InHand}

(* Mutant: the job is added before the row is linked.                      *)
CreateRowUnlinked(r, c) ==
    /\ run[r].member[c] = "absent"
    /\ row[c] = "NONE"
    /\ row' = [row EXCEPT ![c] = "QUEUED"]
    /\ MemberAt(r, c, "linked")
    /\ UNCHANGED <<runJob, abandoned, campaign, link, overtaken, sendJob, send, delivered,
                   cutOff, operatorVars>>

(* The contact as it is by now decides between QUEUED and BLOCKED; the     *)
(* unique idempotency key refuses a row that another run created first.    *)
CreateRow(r, c) ==
    /\ run[r].member[c] = "absent"
    /\ \/ /\ row[c] # "NONE"
          /\ runJob' = [runJob EXCEPT ![r] = Thrown(@)]
          /\ AbandonRun(r)
          /\ UNCHANGED row
       \/ /\ row[c] = "NONE"
          /\ \/ row' = [row EXCEPT ![c] = "QUEUED"] /\ MemberAt(r, c, "created")
             \/ row' = [row EXCEPT ![c] = "BLOCKED"] /\ MemberAt(r, c, "blocked")
          /\ UNCHANGED <<runJob, abandoned>>
    /\ UNCHANGED <<campaign, link, overtaken, sendJob, send, delivered, cutOff, operatorVars>>

(* Mutant: queueing is left to somebody else.                              *)
LinkRowUnqueued(r, c) ==
    /\ run[r].member[c] \in {"created", "blocked"}
    /\ link' = [link EXCEPT ![c] = IF run[r].member[c] = "created" THEN "QUEUED" ELSE "BLOCKED"]
    /\ MemberAt(r, c, "done")
    /\ UNCHANGED <<campaign, overtaken, sendVars, runJob, abandoned, operatorVars>>

LinkRow(r, c) ==
    /\ \/ /\ run[r].member[c] = "created"
          /\ link' = [link EXCEPT ![c] = "QUEUED"]
          /\ MemberAt(r, c, "linked")
       \/ /\ run[r].member[c] = "blocked"
          /\ link' = [link EXCEPT ![c] = "BLOCKED"]
          /\ MemberAt(r, c, "done")
    /\ UNCHANGED <<campaign, overtaken, sendVars, runJob, abandoned, operatorVars>>

AddSend(r, c) ==
    /\ run[r].member[c] = "linked"
    /\ sendJob' = [sendJob EXCEPT ![c] = Added(@)]
    /\ MemberAt(r, c, "done")
    /\ UNCHANGED <<campaign, link, overtaken, row, send, delivered, cutOff, runJob, abandoned,
                   operatorVars>>

PendingLinks == {c \in Contacts : link[c] = "QUEUED"}
SentLinks == {c \in Contacts : link[c] = "SENT"}

(* Mutant: a campaign has failed unless everybody got the message.         *)
CountLinksAllOrNothing(r) ==
    /\ run[r].at = "loop"
    /\ \A c \in Contacts : run[r].member[c] = "done"
    /\ run' = [run EXCEPT ![r].at = "counted",
                          ![r].verdict = IF PendingLinks # {} THEN "RUNNING"
                                         ELSE IF SentLinks = Contacts THEN "COMPLETED"
                                         ELSE "FAILED"]
    /\ UNCHANGED <<campaign, link, overtaken, sendVars, runJob, abandoned, operatorVars>>

(* After the last recipient the links are counted, and the status they     *)
(* call for is written later.                                              *)
CountLinks(r) ==
    /\ run[r].at = "loop"
    /\ \A c \in Contacts : run[r].member[c] = "done"
    /\ run' = [run EXCEPT ![r].at = "counted",
                          ![r].verdict = IF PendingLinks # {} THEN "RUNNING"
                                         ELSE IF SentLinks # {} THEN "COMPLETED"
                                         ELSE "FAILED"]
    /\ UNCHANGED <<campaign, link, overtaken, sendVars, runJob, abandoned, operatorVars>>

WriteVerdict(r) ==
    /\ run[r].at = "counted"
    /\ SetStatus(run[r].verdict)
    /\ RunAt(r, "done")
    /\ UNCHANGED <<link, sendVars, runJob, abandoned, operatorVars>>

EndRun(r) ==
    /\ run[r].at = "done"
    /\ runJob' = [runJob EXCEPT ![r] = Completed(@)]
    /\ run' = [run EXCEPT ![r] = NoRun]
    /\ UNCHANGED <<campaign, link, overtaken, sendVars, abandoned, operatorVars>>

(* A database or Redis call fails.                                         *)
RunFails(r) ==
    /\ "fanOut" \in Hazards
    /\ run[r].at # "idle"
    /\ runJob' = [runJob EXCEPT ![r] = Thrown(@)]
    /\ AbandonRun(r)
    /\ UNCHANGED <<campaign, link, overtaken, sendVars, operatorVars>>

(* The worker process dies; BullMQ notices later.                          *)
RunLost(r) ==
    /\ "fanOut" \in Hazards
    /\ run[r].at # "idle"
    /\ AbandonRun(r)
    /\ UNCHANGED <<campaign, link, overtaken, sendVars, runJob, operatorVars>>

RunStalls(r) ==
    /\ runJob[r].state = "active"
    /\ run[r].at = "idle"
    /\ runJob' = [runJob EXCEPT ![r] = Stalled(@)]
    /\ UNCHANGED <<campaign, link, overtaken, sendVars, run, abandoned, operatorVars>>

RunPromoted(r) ==
    /\ runJob[r].state = "delayed"
    /\ runJob' = [runJob EXCEPT ![r] = Promoted(@)]
    /\ UNCHANGED <<campaign, link, overtaken, sendVars, run, abandoned, operatorVars>>

(* removeOnComplete and removeOnFail: the job's id is free again.          *)
RunForgotten(r) ==
    /\ "retention" \in Hazards
    /\ runJob[r].state \in {"completed", "failed"}
    /\ runJob' = [runJob EXCEPT ![r] = NoJob]
    /\ UNCHANGED <<campaign, link, overtaken, sendVars, run, abandoned, operatorVars>>

-----------------------------------------------------------------------------
(* processMessage and updateCampaignProgress                               *)

SendAt(c, step) == send' = [send EXCEPT ![c].at = step]

EndSend(c) ==
    /\ send' = [send EXCEPT ![c] = NoSend]
    /\ overtaken' = overtaken \ {c}

(* Mutant: only a cancelled campaign is looked for.                        *)
StartSendWhilePaused(c) ==
    /\ sendJob[c].state = "waiting"
    /\ row[c] \notin Settled
    /\ sendJob' = [sendJob EXCEPT ![c] = Taken(@)]
    /\ SendAt(c, IF campaign = "CANCELLED" THEN "cancelled" ELSE "read")
    /\ UNCHANGED <<campaign, link, overtaken, row, delivered, cutOff, runVars, operatorVars>>

(* The message and its campaign are read: a settled message ends the job,  *)
(* a paused campaign defers it, a cancelled one will block the message.    *)
StartSend(c) ==
    /\ sendJob[c].state = "waiting"
    /\ \/ /\ row[c] \in Settled
          /\ sendJob' = [sendJob EXCEPT ![c] = Completed(Taken(@))]
          /\ UNCHANGED send
       \/ /\ row[c] \notin Settled
          /\ campaign = "PAUSED"
          /\ sendJob' = [sendJob EXCEPT ![c] = Deferred(Taken(@))]
          /\ UNCHANGED send
       \/ /\ row[c] \notin Settled
          /\ campaign # "PAUSED"
          /\ sendJob' = [sendJob EXCEPT ![c] = Taken(@)]
          /\ SendAt(c, IF campaign = "CANCELLED" THEN "cancelled" ELSE "read")
    /\ UNCHANGED <<campaign, link, overtaken, row, delivered, cutOff, runVars, operatorVars>>

(* Mutant: the campaign is told of a send.                                 *)
BlockMessageAsSent(c) ==
    /\ send[c].at \in {"cancelled", "read"}
    /\ row' = [row EXCEPT ![c] = "BLOCKED"]
    /\ send' = [send EXCEPT ![c].at = "settled", ![c].outcome = "SENT"]
    /\ UNCHANGED <<campaign, link, overtaken, sendJob, delivered, cutOff, runVars, operatorVars>>

(* blockMessage, or the BLOCKED branch of the safety decision.             *)
BlockMessage(c) ==
    /\ send[c].at \in {"cancelled", "read"}
    /\ row' = [row EXCEPT ![c] = "BLOCKED"]
    /\ send' = [send EXCEPT ![c].at = "settled", ![c].outcome = "BLOCKED"]
    /\ UNCHANGED <<campaign, link, overtaken, sendJob, delivered, cutOff, runVars, operatorVars>>

MarkSending(c) ==
    /\ send[c].at = "read"
    /\ OutboundAllowed(0)
    /\ row' = [row EXCEPT ![c] = "SENDING"]
    /\ SendAt(c, "sending")
    /\ UNCHANGED <<campaign, link, overtaken, sendJob, delivered, cutOff, runVars, operatorVars>>

PlatformAccepts(c) ==
    /\ send[c].at = "sending"
    /\ delivered' = [delivered EXCEPT ![c] = @ + 1]
    /\ SendAt(c, "accepted")
    /\ UNCHANGED <<campaign, link, overtaken, row, sendJob, cutOff, runVars, operatorVars>>

RecordSent(c) ==
    /\ send[c].at = "accepted"
    /\ row' = [row EXCEPT ![c] = "SENT"]
    /\ send' = [send EXCEPT ![c].at = "settled", ![c].outcome = "SENT"]
    /\ UNCHANGED <<campaign, link, overtaken, sendJob, delivered, cutOff, runVars, operatorVars>>

(* updateCampaignProgress: the link takes the outcome it is called with,   *)
(* the links are counted, and a campaign with none pending is completed.   *)
UpdateLink(c) ==
    /\ send[c].at = "settled"
    /\ link' = [link EXCEPT ![c] = send[c].outcome]
    /\ SendAt(c, "linked")
    /\ UNCHANGED <<campaign, overtaken, row, sendJob, delivered, cutOff, runVars, operatorVars>>

CountPending(c) ==
    /\ send[c].at = "linked"
    /\ send' = [send EXCEPT ![c].at = "counted", ![c].pending = PendingLinks # {}]
    /\ UNCHANGED <<campaign, link, overtaken, row, sendJob, delivered, cutOff, runVars, operatorVars>>

(* The last write; the job ends with it, unless it was the listener's.     *)
WriteProgress(c) ==
    /\ send[c].at = "counted"
    /\ campaign' = IF ~send[c].pending /\ campaign \notin {"COMPLETED", "CANCELLED"}
                     THEN "COMPLETED" ELSE campaign
    /\ sendJob' = [sendJob EXCEPT ![c] = IF @.state = "active" THEN Completed(@) ELSE @]
    /\ EndSend(c)
    /\ UNCHANGED <<link, row, delivered, cutOff, runVars, operatorVars>>

(* accountRateAllowed has counted enough sends of the account in this      *)
(* minute, its own and those of other campaigns: the job waits.            *)
DeferForRate(c) ==
    /\ "send" \in Hazards
    /\ send[c].at = "read"
    /\ OutboundAllowed(0)
    /\ sendJob' = [sendJob EXCEPT ![c] = Deferred(@)]
    /\ EndSend(c)
    /\ UNCHANGED <<campaign, link, row, delivered, cutOff, runVars, operatorVars>>

(* The attempt ends without its report; was the message out already?       *)
CutOff(c) ==
    cutOff' = IF send[c].at = "accepted" \/ (send[c].at \in Reporting /\ send[c].outcome = "SENT")
                THEN cutOff \cup {c} ELSE cutOff

(* Mutant: the listener does not look at attemptsMade.                     *)
SendFailsAlwaysListens(c) ==
    /\ "send" \in Hazards
    /\ send[c].at \notin {"idle", "onFailed"}
    /\ sendJob[c].state = "active"
    /\ sendJob' = [sendJob EXCEPT ![c] = Thrown(@)]
    /\ send' = [send EXCEPT ![c] = [NoSend EXCEPT !.at = "onFailed"]]
    /\ overtaken' = overtaken \ {c}
    /\ CutOff(c)
    /\ UNCHANGED <<campaign, link, row, delivered, runVars, operatorVars>>

(* A call fails or the platform refuses: the attempt counts, and after the *)
(* last one the listener takes over; a listener that fails is not retried. *)
SendFails(c) ==
    /\ "send" \in Hazards
    /\ send[c].at \notin {"idle", "onFailed"}
    /\ \/ /\ sendJob[c].state = "active"
          /\ sendJob' = [sendJob EXCEPT ![c] = Thrown(@)]
          /\ send' = [send EXCEPT ![c] =
                IF LastAttempt(sendJob[c]) THEN [NoSend EXCEPT !.at = "onFailed"] ELSE NoSend]
       \/ /\ sendJob[c].state = "failed"
          /\ send' = [send EXCEPT ![c] = NoSend]
          /\ UNCHANGED sendJob
    /\ overtaken' = overtaken \ {c}
    /\ CutOff(c)
    /\ UNCHANGED <<campaign, link, row, delivered, runVars, operatorVars>>

OnFailed(c) ==
    /\ send[c].at = "onFailed"
    /\ row' = [row EXCEPT ![c] = IF @ \in {"QUEUED", "SENDING"} THEN "FAILED" ELSE @]
    /\ send' = [send EXCEPT ![c].at = "settled", ![c].outcome = "FAILED"]
    /\ UNCHANGED <<campaign, link, overtaken, sendJob, delivered, cutOff, runVars, operatorVars>>

SendLost(c) ==
    /\ "send" \in Hazards
    /\ send[c].at # "idle"
    /\ EndSend(c)
    /\ CutOff(c)
    /\ UNCHANGED <<campaign, link, row, sendJob, delivered, runVars, operatorVars>>

SendStalls(c) ==
    /\ sendJob[c].state = "active"
    /\ send[c].at = "idle"
    /\ sendJob' = [sendJob EXCEPT ![c] = Stalled(@)]
    /\ UNCHANGED <<campaign, link, overtaken, row, send, delivered, cutOff, runVars, operatorVars>>

SendPromoted(c) ==
    /\ sendJob[c].state = "delayed"
    /\ sendJob' = [sendJob EXCEPT ![c] = Promoted(@)]
    /\ UNCHANGED <<campaign, link, overtaken, row, send, delivered, cutOff, runVars, operatorVars>>

-----------------------------------------------------------------------------

CallStep(k) ==
    \/ \E op \in MayAsk[k] : ReadCampaign(k, op)
    \/ AssertOutboundAllowed(k)
    \/ WriteStatus(k)
    \/ EnqueueRun(k)
    \/ CallAborted(k)

OutsideStep ==
    \/ TickReads
    \/ TickEnqueues
    \/ CloseOutbound
    \/ PauseCampaigns
    \/ HaltLost
    \/ ReopenOutbound

RunStep(r) ==
    \/ StartRun(r)
    \/ CheckPolicy(r)
    \/ PauseRefused(r)
    \/ MarkRunning(r)
    \/ \E c \in Contacts : \/ BlockExcluded(r, c)
                           \/ LookUpMember(r, c)
                           \/ CreateRow(r, c)
                           \/ LinkRow(r, c)
                           \/ AddSend(r, c)
    \/ CountLinks(r)
    \/ WriteVerdict(r)
    \/ EndRun(r)
    \/ RunStalls(r)
    \/ RunPromoted(r)

RunFault(r) == RunFails(r) \/ RunLost(r) \/ RunForgotten(r)

SendStep(c) ==
    \/ StartSend(c)
    \/ BlockMessage(c)
    \/ MarkSending(c)
    \/ PlatformAccepts(c)
    \/ RecordSent(c)
    \/ UpdateLink(c)
    \/ CountPending(c)
    \/ WriteProgress(c)
    \/ OnFailed(c)
    \/ SendStalls(c)
    \/ SendPromoted(c)

SendFault(c) == DeferForRate(c) \/ SendFails(c) \/ SendLost(c)

Next ==
    \/ \E k \in Calls : CallStep(k)
    \/ OutsideStep
    \/ \E r \in Runs : RunStep(r) \/ RunFault(r)
    \/ \E c \in Contacts : SendStep(c) \/ SendFault(c)

Spec == Init /\ [][Next]_vars

(* A call that was begun is carried through, and the worker and BullMQ     *)
(* keep working on every job they have.                                    *)
FairSpec ==
    /\ Spec
    /\ \A k \in Calls : WF_vars(AssertOutboundAllowed(k) \/ WriteStatus(k) \/ EnqueueRun(k))
    /\ \A r \in Runs : WF_vars(RunStep(r))
    /\ \A c \in Contacts : WF_vars(SendStep(c))

-----------------------------------------------------------------------------
(* Properties                                                              *)

TypeOK ==
    /\ campaign \in CampaignStatuses
    /\ row \in [Contacts -> MessageStatuses]
    /\ link \in [Contacts -> LinkStatuses]
    /\ allowed \in BOOLEAN
    /\ sendJob \in [Contacts -> Jobs]
    /\ runJob \in [Runs -> Jobs]
    /\ call \in [Calls -> [at : CallSteps, op : DOMAIN To]]
    /\ tick \in {"idle", "due"}
    /\ halting \in BOOLEAN
    /\ run \in [Runs -> [at : RunSteps, member : [Contacts -> MemberSteps],
                         verdict : {"RUNNING", "COMPLETED", "FAILED"}]]
    /\ send \in [Contacts -> [at : SendSteps, outcome : {"SENT", "BLOCKED", "FAILED"},
                              pending : BOOLEAN]]
    /\ delivered \in [Contacts -> Nat]
    /\ overtaken \subseteq Contacts
    /\ abandoned \subseteq Contacts
    /\ cutOff \subseteq Contacts

(* What a campaign reports of a recipient is never ahead of the message:   *)
(* the link written after it, by retries and by the 'failed' listener too, *)
(* says SENT or BLOCKED only when the message is, and FAILED only after    *)
(* the last attempt.  Nor does it fall behind: who has the message is      *)
(* reported as SENT, unless the report is under way or an attempt broke    *)
(* off after the platform accepted, and only the latter can be reported as *)
(* FAILED.                                                                 *)
LinkFollowsMessage ==
    \A c \in Included :
        /\ link[c] \in Settled => row[c] = link[c]
        /\ link[c] = "QUEUED" => row[c] # "NONE"
        /\ link[c] = "FAILED" =>
              /\ sendJob[c].state = "failed"
              /\ sendJob[c].attempts = MaxAttempts
              /\ delivered[c] > 0 => c \in cutOff
        /\ delivered[c] > 0 =>
              link[c] = "SENT" \/ send[c].at \in {"accepted", "settled"} \/ c \in cutOff

(* No message can be sent before its campaign can hear of it: the progress *)
(* report of a message without a link would be dropped.                    *)
JobHasLink ==
    \A c \in Contacts : sendJob[c].state # "none" => link[c] # "NONE"

(* However many fan-outs run at once, a message that waits to be sent but  *)
(* has no job is in the hands of one of them, or of one that failed in the *)
(* middle of it: skipping recipients that have a message loses nobody      *)
(* else.                                                                   *)
OrphansOnlyFromLostFanOut ==
    \A c \in Included :
        (row[c] = "QUEUED" /\ sendJob[c].state = "none") =>
            \/ c \in abandoned
            \/ \E r \in Runs : run[r].member[c] \in {"created", "linked"}

(* While a campaign is paused or cancelled only attempts that had read it  *)
(* before reach the platform; no retry and no newly queued message does.   *)
StopHoldsLaterAttempts ==
    [][\A c \in Contacts :
         (delivered'[c] > delivered[c] /\ campaign \in Stopped) => c \in overtaken]_vars

(* A campaign that one job fans out ends as FAILED, whatever is retried,   *)
(* with a message sent only when an attempt at that message broke off      *)
(* after the platform had accepted it: the record or the report was lost,  *)
(* and the listener of the last attempt reports FAILED over it.  Nobody    *)
(* else has got a message of a FAILED campaign.                            *)
FailedCampaignSentOnlyCutOff ==
    campaign = "FAILED" => \A c \in Contacts : delivered[c] > 0 => c \in cutOff

(* Once its one launch is queued every included recipient is dealt with    *)
(* and reported, through pauses and resumes that hit the fan-out and the   *)
(* sends anywhere, unless the campaign stays paused.                       *)
EveryRecipientSettles ==
    <>[](campaign # "PAUSED") =>
        (runJob["launch"].state # "none" ~>
            \A c \in Included : row[c] \in Settled /\ link[c] = row[c])

(* docs/ARCHITECTURE.md: every recipient has an idempotency key, and a     *)
(* retry does not create a second send.                                    *)
AtMostOneDelivery == \A c \in Contacts : delivered[c] <= 1

=============================================================================
