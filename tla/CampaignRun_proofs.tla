-------------------------- MODULE CampaignRun_proofs --------------------------
(***************************************************************************)
(* Proofs about CampaignRun, for every audience, any number of API calls   *)
(* and concurrent fan-outs, every limit and every retry bound.             *)
(***************************************************************************)
EXTENDS CampaignRun, TLAPS

-----------------------------------------------------------------------------
(* The operators of BullQueue                                              *)

(* Every operator takes a job to a job; only an attempt that may still be  *)
(* made can be counted.                                                    *)
LEMMA JobOperators ==
  ASSUME NEW j \in Jobs
  PROVE  /\ Added(j) \in Jobs /\ Taken(j) \in Jobs /\ Deferred(j) \in Jobs /\ Promoted(j) \in Jobs
         /\ Completed(j) \in Jobs /\ Completed(Taken(j)) \in Jobs
         /\ Stalled(j) \in Jobs
         /\ j.attempts < MaxAttempts => Thrown(j) \in Jobs
<1>1. /\ j.stalls < MaxStalls => j.stalls + 1 \in 0..MaxStalls
      /\ j.attempts < MaxAttempts => j.attempts + 1 \in 0..MaxAttempts
  BY QueueAssumption DEF Jobs
<1> QED
  BY <1>1 DEF Jobs, JobStates, Added, Taken, Deferred, Promoted, Completed, Stalled, Thrown

(* A thrown attempt fails the job exactly when it was the last one.        *)
LEMMA ThrownAttempts ==
  ASSUME NEW j \in Jobs, j.attempts < MaxAttempts
  PROVE  /\ Thrown(j).attempts = j.attempts + 1
         /\ LastAttempt(j) => Thrown(j).state = "failed" /\ Thrown(j).attempts = MaxAttempts
         /\ ~LastAttempt(j) => Thrown(j).state = "delayed" /\ Thrown(j).attempts < MaxAttempts
BY QueueAssumption DEF Jobs, Thrown, LastAttempt

-----------------------------------------------------------------------------
(* The inductive invariant                                                 *)

(* A job that can still be worked on has an attempt left, and only an      *)
(* active job has a worker.                                                *)
RunJobInv(r) ==
    /\ runJob[r].state \in {"none", "waiting", "active", "delayed"} =>
          runJob[r].attempts < MaxAttempts
    /\ run[r].at # "idle" => runJob[r].state = "active"

SendJobInv(c) ==
    /\ sendJob[c].state \in {"none", "waiting", "active", "delayed"} =>
          sendJob[c].attempts < MaxAttempts
    /\ send[c].at \in BeforeSent \cup {"cancelled"} => sendJob[c].state = "active"
    /\ send[c].at \in Reporting => sendJob[c].state \in {"active", "failed"}
    /\ send[c].at = "onFailed" =>
          sendJob[c].state = "failed" /\ sendJob[c].attempts = MaxAttempts

(* What a fan-out knows of the recipient it has in hand.                   *)
MemberInv(r, c) ==
    /\ run[r].member[c] \in InHand => run[r].at = "loop" /\ c \in Included
    /\ run[r].member[c] \in {"created", "linked"} => row[c] # "NONE"
    /\ run[r].member[c] = "blocked" => row[c] = "BLOCKED"
    /\ run[r].member[c] = "linked" => link[c] # "NONE"

(* What the row of a recipient tells about the job and its attempt.        *)
RowInv(c) ==
    /\ row[c] = "NONE" => sendJob[c].state = "none"
    /\ row[c] = "FAILED" => sendJob[c].state = "failed" /\ sendJob[c].attempts = MaxAttempts
    /\ send[c].at \in BeforeSent \cup {"cancelled"} => row[c] \in {"QUEUED", "SENDING"}
    /\ send[c].at \in Reporting =>
          /\ send[c].outcome \in Settled => row[c] = send[c].outcome
          /\ send[c].outcome = "FAILED" =>
                sendJob[c].state = "failed" /\ sendJob[c].attempts = MaxAttempts
          /\ row[c] # "NONE"

(* What the link tells about the row and the job.                          *)
LinkInv(c) ==
    c \in Included =>
        /\ link[c] \in Settled => row[c] = link[c]
        /\ link[c] = "QUEUED" => row[c] # "NONE"
        /\ link[c] = "FAILED" =>
              /\ sendJob[c].state = "failed"
              /\ sendJob[c].attempts = MaxAttempts

LinksFollow == \A c \in Contacts : LinkInv(c)

StopInv ==
    campaign \in Stopped => \A c \in Contacts : send[c].at \in BeforeSent => c \in overtaken

IInv ==
    /\ TypeOK
    /\ \A r \in Runs : RunJobInv(r)
    /\ \A c \in Contacts : SendJobInv(c)
    /\ \A r \in Runs, c \in Contacts : MemberInv(r, c)
    /\ \A c \in Contacts : RowInv(c)
    /\ LinksFollow
    /\ JobHasLink
    /\ OrphansOnlyFromLostFanOut
    /\ StopInv

RunType == [Runs -> [at : RunSteps, member : [Contacts -> MemberSteps],
                     verdict : {"RUNNING", "COMPLETED", "FAILED"}]]
SendType == [Contacts -> [at : SendSteps, outcome : {"SENT", "BLOCKED", "FAILED"},
                          pending : BOOLEAN]]
CallType == [Calls -> [at : CallSteps, op : DOMAIN To]]

-----------------------------------------------------------------------------
(* What the helpers of the specification do to the records they change.    *)

(* A fan-out at rest is a well-formed one, and so is a send at rest.       *)
LEMMA RestTypes ==
  /\ NoRun \in [at : RunSteps, member : [Contacts -> MemberSteps],
                verdict : {"RUNNING", "COMPLETED", "FAILED"}]
  /\ NoSend \in [at : SendSteps, outcome : {"SENT", "BLOCKED", "FAILED"}, pending : BOOLEAN]
  /\ NoJob \in Jobs
  /\ \A c \in Contacts : NoRun.member[c] = "todo"
  /\ NoRun.at = "idle" /\ NoSend.at = "idle"
BY QueueAssumption
   DEF NoRun, NoSend, NoJob, RunSteps, MemberSteps, SendSteps, BeforeSent, Reporting, Jobs, JobStates

(* RunAt moves one fan-out and leaves the recipients where they are.       *)
LEMMA RunAtEffect ==
  ASSUME run \in RunType, NEW r \in Runs, NEW step \in RunSteps, RunAt(r, step)
  PROVE  /\ run' \in RunType
         /\ \A q \in Runs : run'[q].at = (IF q = r THEN step ELSE run[q].at)
         /\ \A q \in Runs : run'[q].member = run[q].member
BY DEF RunAt, RunType

(* MemberAt moves one recipient of one fan-out.                            *)
LEMMA MemberAtEffect ==
  ASSUME run \in RunType, NEW r \in Runs, NEW c \in Contacts, NEW step \in MemberSteps,
         MemberAt(r, c, step)
  PROVE  /\ run' \in RunType
         /\ \A q \in Runs : run'[q].at = run[q].at
         /\ \A q \in Runs, d \in Contacts :
               run'[q].member[d] = IF q = r /\ d = c THEN step ELSE run[q].member[d]
BY DEF MemberAt, RunType

(* A fan-out that ends or is abandoned forgets its recipients.             *)
LEMMA ResetEffect ==
  ASSUME run \in RunType, NEW r \in Runs, run' = [run EXCEPT ![r] = NoRun]
  PROVE  /\ run' \in RunType
         /\ \A q \in Runs : run'[q].at = (IF q = r THEN "idle" ELSE run[q].at)
         /\ \A q \in Runs, d \in Contacts :
               run'[q].member[d] = IF q = r THEN "todo" ELSE run[q].member[d]
BY RestTypes DEF RunType

(* SetStatus remembers the attempts it overtakes.                          *)
LEMMA SetStatusEffect ==
  ASSUME StopInv, overtaken \subseteq Contacts, NEW s \in CampaignStatuses, SetStatus(s), send' = send
  PROVE  campaign' \in CampaignStatuses /\ overtaken' \subseteq Contacts /\ StopInv'
BY DEF SetStatus, StopInv

-----------------------------------------------------------------------------
(* Initial states                                                          *)

(* The invariant holds of a new campaign.                                  *)
LEMMA InitIInv == Init => IInv
<1> SUFFICES ASSUME Init PROVE IInv
  OBVIOUS
<1> USE QueueAssumption
<1>1. TypeOK
  <2>1. call \in CallType
    BY DEF Init, CallType, CallSteps, To
  <2>2. run \in RunType /\ send \in SendType
    BY RestTypes DEF Init, RunType, SendType
  <2>3. sendJob \in [Contacts -> Jobs] /\ runJob \in [Runs -> Jobs]
    BY RestTypes DEF Init
  <2>4. campaign \in CampaignStatuses /\ row \in [Contacts -> MessageStatuses]
        /\ link \in [Contacts -> LinkStatuses]
    BY DEF Init, CampaignStatuses, MessageStatuses, LinkStatuses
  <2>5. allowed \in BOOLEAN /\ tick \in {"idle", "due"} /\ halting \in BOOLEAN
        /\ delivered \in [Contacts -> Nat] /\ overtaken \subseteq Contacts /\ abandoned \subseteq Contacts
        /\ cutOff \subseteq Contacts
    BY DEF Init
  <2> QED BY <2>1, <2>2, <2>3, <2>4, <2>5 DEF TypeOK, RunType, SendType, CallType
<1>2. \A r \in Runs : RunJobInv(r)
  BY DEF Init, RunJobInv, NoJob, NoRun
<1>3. \A c \in Contacts : SendJobInv(c) /\ RowInv(c)
  BY DEF Init, SendJobInv, RowInv, NoJob, NoSend, BeforeSent, Reporting
<1>4. \A r \in Runs, c \in Contacts : MemberInv(r, c)
  BY DEF Init, MemberInv, NoRun, InHand, MemberSteps
<1>5. LinksFollow /\ JobHasLink /\ OrphansOnlyFromLostFanOut /\ StopInv
  BY DEF Init, LinksFollow, LinkInv, JobHasLink, OrphansOnlyFromLostFanOut, StopInv, NoJob,
         Included, Settled, Stopped
<1> QED BY <1>1, <1>2, <1>3, <1>4, <1>5 DEF IInv

-----------------------------------------------------------------------------
(* Steps of the API and of whoever acts on the campaign from outside: they *)
(* touch the campaign's status and the fan-out queue only.                 *)

(* A step that leaves the recipients and the worker alone keeps what the   *)
(* invariant says of them.                                                 *)
LEMMA RecipientFrame ==
  ASSUME IInv, UNCHANGED <<row, link, sendJob, send, run, abandoned>>
  PROVE  /\ \A c \in Contacts : SendJobInv(c)' /\ RowInv(c)'
         /\ \A r \in Runs, c \in Contacts : MemberInv(r, c)'
         /\ LinksFollow'
         /\ JobHasLink'
         /\ OrphansOnlyFromLostFanOut'
BY DEF IInv, SendJobInv, RowInv, MemberInv, LinksFollow, LinkInv, JobHasLink,
       OrphansOnlyFromLostFanOut

(* Adding a fan-out job disturbs no worker.                                *)
LEMMA AddRun ==
  ASSUME IInv, NEW r \in Runs, runJob' = [runJob EXCEPT ![r] = Added(@)], run' = run
  PROVE  runJob' \in [Runs -> Jobs] /\ \A q \in Runs : RunJobInv(q)'
<1>1. runJob \in [Runs -> Jobs] /\ run \in RunType
  BY DEF IInv, TypeOK, RunType
<1>2. runJob' \in [Runs -> Jobs]
  BY <1>1, JobOperators
<1>3. \A q \in Runs : RunJobInv(q)'
  BY <1>1 DEF IInv, RunJobInv, Added, Jobs
<1> QED BY <1>2, <1>3

(* Every step of an API call keeps the invariant.                          *)
LEMMA CallStepIInv == ASSUME IInv, NEW k \in Calls, CallStep(k) PROVE IInv'
<1>0. call \in CallType /\ overtaken \subseteq Contacts /\ StopInv /\ k \in Runs
  BY DEF IInv, TypeOK, CallType, Runs
<1>1. ASSUME NEW op \in MayAsk[k], ReadCampaign(k, op) PROVE IInv'
  <2>1. op \in DOMAIN To
    BY CampaignAssumption, <1>1 DEF To
  <2>2. call' \in CallType
    BY <1>0, <1>1, <2>1 DEF ReadCampaign, CallType, CallSteps
  <2>3. TypeOK'
    BY <1>1, <2>2 DEF ReadCampaign, IInv, TypeOK, CallType, sendVars, runVars
  <2>4. StopInv' /\ \A r \in Runs : RunJobInv(r)'
    BY <1>1 DEF ReadCampaign, IInv, StopInv, RunJobInv, sendVars, runVars
  <2> QED BY <1>1, <2>3, <2>4, RecipientFrame DEF IInv, ReadCampaign, sendVars, runVars
<1>2. CASE AssertOutboundAllowed(k) \/ CallAborted(k)
  <2>1. call' \in CallType
    BY <1>0, <1>2 DEF AssertOutboundAllowed, CallAborted, CallAt, CallType, CallSteps
  <2>2. UNCHANGED <<campaign, link, overtaken, sendVars, runVars, tick, halting, allowed>>
    BY <1>2 DEF AssertOutboundAllowed, CallAborted
  <2>3. TypeOK'
    BY <2>1, <2>2 DEF IInv, TypeOK, CallType, sendVars, runVars
  <2>4. StopInv' /\ \A r \in Runs : RunJobInv(r)'
    BY <2>2 DEF IInv, StopInv, RunJobInv, sendVars, runVars
  <2> QED BY <2>2, <2>3, <2>4, RecipientFrame DEF IInv, sendVars, runVars
<1>3. CASE WriteStatus(k)
  <2>1. call' \in CallType
    BY <1>0, <1>3 DEF WriteStatus, CallAt, CallType, CallSteps
  <2>2. To[call[k].op] \in CampaignStatuses
    BY <1>0 DEF CallType, To, CampaignStatuses
  <2>3. UNCHANGED <<link, sendVars, runVars, tick, halting, allowed>>
    BY <1>3 DEF WriteStatus
  <2>4. campaign' \in CampaignStatuses /\ overtaken' \subseteq Contacts /\ StopInv'
    BY <1>0, <1>3, <2>2, <2>3, SetStatusEffect DEF WriteStatus, sendVars
  <2>5. TypeOK'
    BY <2>1, <2>3, <2>4 DEF IInv, TypeOK, CallType, sendVars, runVars
  <2>6. \A r \in Runs : RunJobInv(r)'
    BY <2>3 DEF IInv, RunJobInv, runVars
  <2> QED BY <2>3, <2>4, <2>5, <2>6, RecipientFrame DEF IInv, sendVars, runVars
<1>4. CASE EnqueueRun(k)
  <2>1. PICK r \in Runs : runJob' = [runJob EXCEPT ![r] = Added(@)]
    BY <1>0, <1>4 DEF EnqueueRun, Runs
  <2>2. call' \in CallType
    BY <1>0, <1>4 DEF EnqueueRun, CallAt, CallType, CallSteps
  <2>3. UNCHANGED <<campaign, link, overtaken, sendVars, run, abandoned, tick, halting, allowed>>
    BY <1>4 DEF EnqueueRun
  <2>4. runJob' \in [Runs -> Jobs] /\ \A q \in Runs : RunJobInv(q)'
    BY <2>1, <2>3, AddRun
  <2>5. TypeOK'
    BY <2>2, <2>3, <2>4 DEF IInv, TypeOK, CallType, sendVars
  <2>6. StopInv'
    BY <2>3 DEF IInv, StopInv, sendVars
  <2> QED BY <2>3, <2>4, <2>5, <2>6, RecipientFrame DEF IInv, sendVars
<1> QED BY <1>1, <1>2, <1>3, <1>4 DEF CallStep

(* So does every step of the scheduler and of an administrator.            *)
LEMMA OutsideStepIInv == ASSUME IInv, OutsideStep PROVE IInv'
<1>0. overtaken \subseteq Contacts /\ StopInv /\ campaign \in CampaignStatuses /\ "schedule" \in Runs
  BY DEF IInv, TypeOK, Runs
<1>1. /\ UNCHANGED <<link, sendVars, run, abandoned, call>>
      /\ tick' \in {"idle", "due"} /\ halting' \in BOOLEAN /\ allowed' \in BOOLEAN
  BY DEF OutsideStep, TickReads, TickEnqueues, CloseOutbound, PauseCampaigns, HaltLost,
         ReopenOutbound, runVars, IInv, TypeOK
<1>2. campaign' \in CampaignStatuses /\ overtaken' \subseteq Contacts /\ StopInv'
  <2>1. CASE UNCHANGED <<campaign, overtaken>>
    BY <1>0, <1>1, <2>1 DEF StopInv, sendVars
  <2>2. CASE SetStatus("PAUSED")
    BY <1>0, <1>1, <2>2, SetStatusEffect DEF CampaignStatuses, sendVars
  <2> QED
    BY <2>1, <2>2 DEF OutsideStep, TickReads, TickEnqueues, CloseOutbound, PauseCampaigns,
                      HaltLost, ReopenOutbound
<1>3. runJob' \in [Runs -> Jobs] /\ \A q \in Runs : RunJobInv(q)'
  <2>1. CASE runJob' = runJob
    BY <1>1, <2>1 DEF IInv, TypeOK, RunJobInv
  <2>2. CASE runJob' = [runJob EXCEPT !["schedule"] = Added(@)]
    BY <1>0, <1>1, <2>2, AddRun
  <2> QED
    BY <2>1, <2>2 DEF OutsideStep, TickReads, TickEnqueues, CloseOutbound, PauseCampaigns,
                      HaltLost, ReopenOutbound, runVars
<1>4. TypeOK'
  BY <1>1, <1>2, <1>3 DEF IInv, TypeOK, sendVars
<1> QED BY <1>1, <1>2, <1>3, <1>4, RecipientFrame DEF IInv, sendVars

-----------------------------------------------------------------------------
(* Steps of processCampaign                                                *)

(* A fan-out that only moves on, with nobody in hand before or after,      *)
(* keeps what the invariant says of the recipients.                        *)
LEMMA RunMovesFrame ==
  ASSUME IInv, NEW r \in Runs, NEW step \in RunSteps, RunAt(r, step),
         run[r].at # "loop" \/ \A c \in Contacts : run[r].member[c] = "done",
         UNCHANGED <<row, link, sendJob, send, abandoned>>
  PROVE  /\ run' \in RunType
         /\ \A c \in Contacts : SendJobInv(c)' /\ RowInv(c)'
         /\ \A q \in Runs, c \in Contacts : MemberInv(q, c)'
         /\ LinksFollow' /\ JobHasLink' /\ OrphansOnlyFromLostFanOut'
<1>1. run \in RunType
  BY DEF IInv, TypeOK, RunType
<1>2. /\ run' \in RunType
      /\ \A q \in Runs : run'[q].at = (IF q = r THEN step ELSE run[q].at)
      /\ \A q \in Runs : run'[q].member = run[q].member
  BY <1>1, RunAtEffect
<1>3. \A c \in Contacts : run[r].member[c] \notin InHand
  BY DEF IInv, MemberInv, InHand
<1>4. \A c \in Contacts : SendJobInv(c)' /\ RowInv(c)'
  BY DEF IInv, SendJobInv, RowInv
<1>5. \A q \in Runs, c \in Contacts : MemberInv(q, c)'
  BY <1>2, <1>3 DEF IInv, MemberInv, InHand
<1>6. LinksFollow' /\ JobHasLink'
  BY DEF IInv, LinksFollow, LinkInv, JobHasLink
<1>7. OrphansOnlyFromLostFanOut'
  BY <1>2 DEF IInv, OrphansOnlyFromLostFanOut
<1> QED BY <1>2, <1>4, <1>5, <1>6, <1>7

(* A fan-out that takes its next recipient, or leaves it alone.            *)
LEMMA MemberMovesFrame ==
  ASSUME IInv, NEW r \in Runs, NEW c \in Contacts, NEW step \in {"absent", "done"},
         MemberAt(r, c, step), NextMember(r, c), step = "absent" => c \in Included,
         UNCHANGED <<row, sendJob, send, abandoned>>
  PROVE  /\ run' \in RunType
         /\ \A q \in Runs : run'[q].at = run[q].at
         /\ \A d \in Contacts : SendJobInv(d)' /\ RowInv(d)'
         /\ (\A d \in Contacts : link[d] # "NONE" => link'[d] # "NONE") =>
                 \A q \in Runs, d \in Contacts : MemberInv(q, d)'
         /\ OrphansOnlyFromLostFanOut'
<1>1. run \in RunType /\ step \in MemberSteps
  BY DEF IInv, TypeOK, RunType, MemberSteps
<1>2. /\ run' \in RunType
      /\ \A q \in Runs : run'[q].at = run[q].at
      /\ \A q \in Runs, d \in Contacts :
            run'[q].member[d] = IF q = r /\ d = c THEN step ELSE run[q].member[d]
  BY <1>1, MemberAtEffect
<1>3. \A d \in Contacts : SendJobInv(d)' /\ RowInv(d)'
  BY DEF IInv, SendJobInv, RowInv
<1>4. ASSUME \A d \in Contacts : link[d] # "NONE" => link'[d] # "NONE",
             NEW q \in Runs, NEW d \in Contacts
      PROVE  MemberInv(q, d)'
  BY <1>2, <1>4 DEF IInv, MemberInv, NextMember, InHand
<1>5. OrphansOnlyFromLostFanOut'
  <2> SUFFICES ASSUME NEW d \in Included, row[d] = "QUEUED", sendJob[d].state = "none", d \notin abandoned
               PROVE  \E q \in Runs : run'[q].member[d] \in {"created", "linked"}
    BY DEF OrphansOnlyFromLostFanOut
  <2>1. PICK q \in Runs : run[q].member[d] \in {"created", "linked"}
    BY DEF IInv, OrphansOnlyFromLostFanOut
  <2>2. ~(q = r /\ d = c)
    BY <2>1 DEF NextMember
  <2> QED BY <1>2, <2>1, <2>2 DEF Included
<1> QED BY <1>2, <1>3, <1>4, <1>5

(* The part of a run step's invariant that is about the campaign's status. *)
LEMMA RunStatus ==
  ASSUME IInv, UNCHANGED send,
         \/ UNCHANGED <<campaign, overtaken>>
         \/ \E s \in CampaignStatuses : SetStatus(s)
  PROVE  campaign' \in CampaignStatuses /\ overtaken' \subseteq Contacts /\ StopInv'
<1>0. overtaken \subseteq Contacts /\ StopInv /\ campaign \in CampaignStatuses
  BY DEF IInv, TypeOK
<1>1. CASE UNCHANGED <<campaign, overtaken>>
  BY <1>0, <1>1 DEF StopInv
<1>2. CASE \E s \in CampaignStatuses : SetStatus(s)
  BY <1>0, <1>2, SetStatusEffect
<1> QED BY <1>1, <1>2

(* The steps outside the loop.                                             *)
LEMMA RunMovesIInv ==
  ASSUME IInv, NEW r \in Runs,
         \/ StartRun(r) \/ CheckPolicy(r) \/ PauseRefused(r) \/ MarkRunning(r) \/ WriteVerdict(r)
  PROVE  IInv'
<1> USE QueueAssumption
<1>0. run \in RunType /\ runJob \in [Runs -> Jobs]
  BY DEF IInv, TypeOK, RunType
<1>1. UNCHANGED <<link, sendVars, abandoned, operatorVars>>
  BY DEF StartRun, CheckPolicy, PauseRefused, MarkRunning, WriteVerdict
<1>2. campaign' \in CampaignStatuses /\ overtaken' \subseteq Contacts /\ StopInv'
  <2>1. \/ UNCHANGED <<campaign, overtaken>>
        \/ \E s \in CampaignStatuses : SetStatus(s)
    <3>1. CASE StartRun(r) \/ CheckPolicy(r)
      BY <3>1 DEF StartRun, CheckPolicy
    <3>2. CASE PauseRefused(r) \/ MarkRunning(r)
      BY <3>2 DEF PauseRefused, MarkRunning, CampaignStatuses
    <3>3. CASE WriteVerdict(r)
      BY <1>0, <3>3 DEF WriteVerdict, RunType, CampaignStatuses
    <3> QED BY <3>1, <3>2, <3>3
  <2> QED BY <1>1, <2>1, RunStatus DEF sendVars
<1>3. CASE UNCHANGED run
  <2>1. StartRun(r) /\ runJob' = [runJob EXCEPT ![r] = Completed(Taken(@))] /\ runJob[r].state = "waiting"
    <3>1. StartRun(r)
      BY <1>0, <1>3 DEF StartRun, CheckPolicy, PauseRefused, MarkRunning, WriteVerdict, RunAt, RunType
    <3>2. \/ runJob' = [runJob EXCEPT ![r] = Completed(Taken(@))]
          \/ runJob[r].state = "waiting" /\ RunAt(r, "read")
      BY <3>1 DEF StartRun
    <3>3. runJob[r].state = "waiting" => run[r].at = "idle"
      BY DEF IInv, RunJobInv
    <3> QED BY <1>0, <1>3, <3>1, <3>2, <3>3 DEF StartRun, RunAt, RunType
  <2>2. runJob' \in [Runs -> Jobs]
    BY <1>0, <2>1, JobOperators
  <2>3. \A q \in Runs : RunJobInv(q)'
    BY <1>0, <1>3, <2>1 DEF IInv, RunJobInv, Completed, Taken, Jobs
  <2>4. TypeOK'
    BY <1>1, <1>2, <1>3, <2>2 DEF IInv, TypeOK, sendVars, operatorVars
  <2> QED BY <1>1, <1>2, <1>3, <2>3, <2>4, RecipientFrame DEF IInv, sendVars
<1>4. CASE \E step \in RunSteps : RunAt(r, step)
  <2>0. PICK step \in RunSteps : RunAt(r, step)
    BY <1>4
  <2>1. CASE run[r].at = "loop"
    BY <2>1 DEF IInv, RunJobInv, StartRun, CheckPolicy, PauseRefused, MarkRunning, WriteVerdict
  <2>2. CASE run[r].at # "loop"
    <3>1. /\ run' \in RunType
          /\ \A c \in Contacts : SendJobInv(c)' /\ RowInv(c)'
          /\ \A q \in Runs, c \in Contacts : MemberInv(q, c)'
          /\ LinksFollow' /\ JobHasLink' /\ OrphansOnlyFromLostFanOut'
      BY <1>1, <2>0, <2>2, RunMovesFrame DEF sendVars
    <3>2. \/ runJob' = runJob /\ run[r].at # "idle"
          \/ runJob' = [runJob EXCEPT ![r] = Taken(@)] /\ runJob[r].state = "waiting"
          \/ runJob' = [runJob EXCEPT ![r] = Completed(Taken(@))] /\ runJob[r].state = "waiting" /\ run' = run
      BY DEF StartRun, CheckPolicy, PauseRefused, MarkRunning, WriteVerdict
    <3>3. runJob' \in [Runs -> Jobs]
      BY <1>0, <3>2, JobOperators
    <3>4. \A q \in Runs : run'[q].at # run[q].at => q = r
      BY <1>0, <2>0, RunAtEffect
    <3>5. \A q \in Runs : RunJobInv(q)'
      BY <1>0, <3>2, <3>4 DEF IInv, RunJobInv, Completed, Taken, Jobs
    <3>6. TypeOK'
      BY <1>1, <1>2, <3>1, <3>3 DEF IInv, TypeOK, RunType, sendVars, operatorVars
    <3> QED BY <1>2, <3>1, <3>5, <3>6 DEF IInv
  <2> QED BY <2>1, <2>2
<1> QED
  BY <1>3, <1>4 DEF StartRun, CheckPolicy, PauseRefused, MarkRunning, WriteVerdict, RunSteps

(* Counting the links and ending the job.                                  *)
LEMMA RunEndsIInv ==
  ASSUME IInv, NEW r \in Runs, CountLinks(r) \/ EndRun(r)
  PROVE  IInv'
<1> USE QueueAssumption
<1>0. run \in RunType /\ runJob \in [Runs -> Jobs]
  BY DEF IInv, TypeOK, RunType
<1>1. UNCHANGED <<campaign, link, overtaken, sendVars, abandoned, operatorVars>>
  BY DEF CountLinks, EndRun
<1>2. \A c \in Contacts : run[r].member[c] \notin InHand
  BY DEF CountLinks, EndRun, IInv, MemberInv, InHand
<1>3. /\ run' \in RunType
      /\ \A q \in Runs : q # r => run'[q] = run[q]
      /\ \A c \in Contacts : run'[r].member[c] \notin InHand
      /\ run'[r].at # "idle" => run[r].at # "idle"
      /\ run'[r].at = "idle" \/ runJob' = runJob
  <2>1. CASE CountLinks(r)
    <3>1. PICK v \in {"RUNNING", "COMPLETED", "FAILED"} :
            run' = [run EXCEPT ![r].at = "counted", ![r].verdict = v]
      BY <2>1 DEF CountLinks
    <3>2. run[r].at = "loop" /\ runJob' = runJob
      BY <2>1 DEF CountLinks
    <3>3. run' \in RunType /\ \A q \in Runs : q # r => run'[q] = run[q]
      BY <1>0, <3>1 DEF RunType, RunSteps
    <3>4. run'[r].member = run[r].member
      BY <1>0, <3>1 DEF RunType
    <3> QED BY <1>2, <3>2, <3>3, <3>4
  <2>2. CASE EndRun(r)
    <3>1. run' = [run EXCEPT ![r] = NoRun]
      BY <2>2 DEF EndRun
    <3>2. run' \in RunType /\ run'[r] = NoRun /\ \A q \in Runs : q # r => run'[q] = run[q]
      BY <1>0, <3>1, RestTypes DEF RunType
    <3> QED BY <3>2, RestTypes DEF InHand
  <2> QED BY <2>1, <2>2
<1>4. \/ runJob' = runJob
      \/ runJob' = [runJob EXCEPT ![r] = Completed(@)] /\ run'[r].at = "idle"
  BY <1>0, RestTypes DEF CountLinks, EndRun, RunType
<1>5. runJob' \in [Runs -> Jobs]
  BY <1>0, <1>4, JobOperators
<1>6. \A q \in Runs : RunJobInv(q)'
  BY <1>0, <1>3, <1>4 DEF IInv, RunJobInv, Completed, Jobs
<1>7. TypeOK'
  BY <1>1, <1>3, <1>5 DEF IInv, TypeOK, RunType, sendVars, operatorVars
<1>8. \A q \in Runs, c \in Contacts : MemberInv(q, c)'
  <2> SUFFICES ASSUME NEW q \in Runs, NEW c \in Contacts PROVE MemberInv(q, c)'
    OBVIOUS
  <2>1. CASE q = r
    BY <1>3, <2>1 DEF MemberInv, InHand, MemberSteps
  <2>2. CASE q # r
    BY <1>1, <1>3, <2>2 DEF IInv, MemberInv, sendVars
  <2> QED BY <2>1, <2>2
<1>9. OrphansOnlyFromLostFanOut'
  <2> SUFFICES ASSUME NEW c \in Included, row[c] = "QUEUED", sendJob[c].state = "none", c \notin abandoned
               PROVE  \E q \in Runs : run'[q].member[c] \in {"created", "linked"}
    BY <1>1 DEF OrphansOnlyFromLostFanOut, sendVars
  <2>1. PICK q \in Runs : run[q].member[c] \in {"created", "linked"}
    BY DEF IInv, OrphansOnlyFromLostFanOut
  <2>2. q # r
    BY <1>2, <2>1 DEF InHand, MemberSteps, Included
  <2> QED BY <1>3, <2>1, <2>2
<1>10. /\ \A c \in Contacts : SendJobInv(c)' /\ RowInv(c)'
       /\ LinksFollow' /\ JobHasLink' /\ StopInv'
  BY <1>1 DEF IInv, SendJobInv, RowInv, LinksFollow, LinkInv, JobHasLink, StopInv, sendVars
<1> QED BY <1>6, <1>7, <1>8, <1>9, <1>10 DEF IInv

(* Taking the next recipient: it is excluded, has a message, or has none.  *)
LEMMA NextMemberIInv ==
  ASSUME IInv, NEW r \in Runs, NEW c \in Contacts, BlockExcluded(r, c) \/ LookUpMember(r, c)
  PROVE  IInv'
<1>1. UNCHANGED <<campaign, overtaken, sendVars, runJob, abandoned, operatorVars>> /\ NextMember(r, c)
  BY DEF BlockExcluded, LookUpMember
<1>2. PICK step \in {"absent", "done"} : MemberAt(r, c, step) /\ (step = "absent" => c \in Included)
  BY DEF BlockExcluded, LookUpMember
<1>3. \/ link' = link
      \/ c \in Excluded /\ link' = [link EXCEPT ![c] = "BLOCKED"]
  BY DEF BlockExcluded, LookUpMember
<1>4. link \in [Contacts -> LinkStatuses]
  BY DEF IInv, TypeOK
<1>5. link' \in [Contacts -> LinkStatuses]
  BY <1>3, <1>4 DEF LinkStatuses
<1>6. \A d \in Contacts : link[d] # "NONE" => link'[d] # "NONE"
  BY <1>3, <1>4
<1>7. \A d \in Included : link'[d] = link[d]
  BY <1>3, <1>4 DEF Included
<1>8. /\ run' \in RunType
      /\ \A q \in Runs : run'[q].at = run[q].at
      /\ \A d \in Contacts : SendJobInv(d)' /\ RowInv(d)'
      /\ \A q \in Runs, d \in Contacts : MemberInv(q, d)'
      /\ OrphansOnlyFromLostFanOut'
  BY <1>1, <1>2, <1>6, MemberMovesFrame DEF sendVars
<1>9. TypeOK'
  BY <1>1, <1>5, <1>8 DEF IInv, TypeOK, RunType, sendVars, operatorVars
<1>10. LinksFollow' /\ JobHasLink'
  BY <1>1, <1>6, <1>7 DEF IInv, LinksFollow, LinkInv, JobHasLink, sendVars
<1>11. StopInv' /\ \A q \in Runs : RunJobInv(q)'
  BY <1>1, <1>8 DEF IInv, StopInv, RunJobInv, sendVars
<1> QED BY <1>8, <1>9, <1>10, <1>11 DEF IInv

(* A fan-out that throws or disappears leaves behind what it had in hand.  *)
LEMMA AbandonEffect ==
  ASSUME IInv, NEW r \in Runs, AbandonRun(r), UNCHANGED <<row, link, sendJob, send>>
  PROVE  /\ run' \in RunType
         /\ abandoned' \subseteq Contacts
         /\ \A q \in Runs : run'[q].at = (IF q = r THEN "idle" ELSE run[q].at)
         /\ \A c \in Contacts : SendJobInv(c)' /\ RowInv(c)'
         /\ \A q \in Runs, c \in Contacts : MemberInv(q, c)'
         /\ LinksFollow' /\ JobHasLink' /\ OrphansOnlyFromLostFanOut'
<1>0. run \in RunType /\ abandoned \subseteq Contacts
  BY DEF IInv, TypeOK, RunType
<1>1. /\ run' \in RunType
      /\ \A q \in Runs : run'[q].at = (IF q = r THEN "idle" ELSE run[q].at)
      /\ \A q \in Runs, d \in Contacts :
            run'[q].member[d] = IF q = r THEN "todo" ELSE run[q].member[d]
  BY <1>0, ResetEffect DEF AbandonRun
<1>2. abandoned' \subseteq Contacts
  BY <1>0 DEF AbandonRun
<1>3. \A c \in Contacts : SendJobInv(c)' /\ RowInv(c)'
  BY DEF IInv, SendJobInv, RowInv
<1>4. \A q \in Runs, c \in Contacts : MemberInv(q, c)'
  BY <1>1 DEF IInv, MemberInv, InHand
<1>5. LinksFollow' /\ JobHasLink'
  BY DEF IInv, LinksFollow, LinkInv, JobHasLink
<1>6. OrphansOnlyFromLostFanOut'
  <2> SUFFICES ASSUME NEW c \in Included, row[c] = "QUEUED", sendJob[c].state = "none", c \notin abandoned'
               PROVE  \E q \in Runs : run'[q].member[c] \in {"created", "linked"}
    BY DEF OrphansOnlyFromLostFanOut
  <2>1. PICK q \in Runs : run[q].member[c] \in {"created", "linked"}
    BY DEF IInv, OrphansOnlyFromLostFanOut, AbandonRun
  <2>2. q # r
    BY <2>1 DEF AbandonRun, InHand, MemberSteps, Included
  <2> QED BY <1>1, <2>1, <2>2 DEF Included
<1> QED BY <1>1, <1>2, <1>3, <1>4, <1>5, <1>6

(* A fan-out at work holds an active job, which it may fail or drop.       *)
LEMMA RunFaultIInv ==
  ASSUME IInv, NEW r \in Runs, AbandonRun(r), run[r].at # "idle",
         UNCHANGED <<campaign, overtaken, link, sendVars, operatorVars>>,
         runJob' = runJob \/ runJob' = [runJob EXCEPT ![r] = Thrown(@)]
  PROVE  IInv'
<1>0. runJob \in [Runs -> Jobs] /\ runJob[r].attempts < MaxAttempts
  BY DEF IInv, TypeOK, RunJobInv
<1>1. /\ run' \in RunType /\ abandoned' \subseteq Contacts
      /\ \A q \in Runs : run'[q].at = (IF q = r THEN "idle" ELSE run[q].at)
      /\ \A c \in Contacts : SendJobInv(c)' /\ RowInv(c)'
      /\ \A q \in Runs, c \in Contacts : MemberInv(q, c)'
      /\ LinksFollow' /\ JobHasLink' /\ OrphansOnlyFromLostFanOut'
  BY AbandonEffect DEF sendVars
<1>2. runJob' \in [Runs -> Jobs]
  BY <1>0, JobOperators
<1>3. \A q \in Runs : RunJobInv(q)'
  <2> SUFFICES ASSUME NEW q \in Runs PROVE RunJobInv(q)'
    OBVIOUS
  <2>1. CASE runJob'[q] = runJob[q]
    BY <1>1, <2>1 DEF IInv, RunJobInv
  <2>2. CASE q = r /\ runJob'[q] = Thrown(runJob[q])
    BY <1>0, <1>1, <2>2, ThrownAttempts DEF RunJobInv, Jobs
  <2> QED BY <1>0, <2>1, <2>2
<1>4. TypeOK'
  BY <1>1, <1>2 DEF IInv, TypeOK, RunType, sendVars, operatorVars
<1>5. StopInv'
  BY DEF IInv, StopInv, sendVars
<1> QED BY <1>1, <1>3, <1>4, <1>5 DEF IInv

(* Creating the row, linking it, adding its job.                           *)
LEMMA MemberWorkIInv ==
  ASSUME IInv, NEW r \in Runs, NEW c \in Contacts,
         CreateRow(r, c) \/ LinkRow(r, c) \/ AddSend(r, c)
  PROVE  IInv'
<1> USE QueueAssumption
<1>0. /\ run \in RunType /\ row \in [Contacts -> MessageStatuses]
      /\ link \in [Contacts -> LinkStatuses] /\ sendJob \in [Contacts -> Jobs]
      /\ send \in SendType
  BY DEF IInv, TypeOK, RunType, SendType
<1>1. c \in Included /\ run[r].at = "loop"
  BY DEF CreateRow, LinkRow, AddSend, IInv, MemberInv, InHand, MemberSteps
<1>2. CASE CreateRow(r, c) /\ row[c] # "NONE"
  <2>1. /\ AbandonRun(r) /\ row' = row /\ runJob' = [runJob EXCEPT ![r] = Thrown(@)]
        /\ UNCHANGED <<campaign, link, overtaken, sendJob, send, delivered, cutOff, operatorVars>>
    BY <1>2 DEF CreateRow
  <2> QED BY <1>1, <2>1, RunFaultIInv DEF sendVars
<1>3. CASE CreateRow(r, c) /\ row[c] = "NONE"
  <2>1. PICK st \in {"QUEUED", "BLOCKED"}, step \in {"created", "blocked"} :
          /\ row' = [row EXCEPT ![c] = st] /\ MemberAt(r, c, step)
          /\ step = "blocked" <=> st = "BLOCKED"
    BY <1>3 DEF CreateRow
  <2>2. UNCHANGED <<campaign, link, overtaken, sendJob, send, delivered, cutOff, runJob, abandoned, operatorVars>>
    BY <1>3 DEF CreateRow
  <2>3. /\ run' \in RunType
        /\ \A q \in Runs : run'[q].at = run[q].at
        /\ \A q \in Runs, d \in Contacts :
              run'[q].member[d] = IF q = r /\ d = c THEN step ELSE run[q].member[d]
    BY <1>0, <2>1, MemberAtEffect DEF MemberSteps
  <2>4. row' \in [Contacts -> MessageStatuses]
    BY <1>0, <2>1 DEF MessageStatuses
  <2>5. TypeOK'
    BY <2>2, <2>3, <2>4 DEF IInv, TypeOK, RunType, operatorVars
  <2>6. \A d \in Contacts : SendJobInv(d)' /\ RowInv(d)'
    BY <1>0, <1>3, <2>1, <2>2
       DEF IInv, SendJobInv, RowInv, BeforeSent, Reporting
  <2>7. \A q \in Runs, d \in Contacts : MemberInv(q, d)'
    BY <1>0, <1>1, <1>3, <2>1, <2>2, <2>3 DEF IInv, MemberInv, InHand
  <2>8. LinksFollow' /\ JobHasLink'
    BY <1>0, <1>3, <2>1, <2>2 DEF IInv, LinksFollow, LinkInv, JobHasLink, Settled, Included, LinkStatuses
  <2>9. OrphansOnlyFromLostFanOut'
    <3> SUFFICES ASSUME NEW d \in Included, row'[d] = "QUEUED", sendJob[d].state = "none", d \notin abandoned
                 PROVE  \E q \in Runs : run'[q].member[d] \in {"created", "linked"}
      BY <2>2 DEF OrphansOnlyFromLostFanOut
    <3>1. CASE d = c
      BY <1>0, <1>1, <2>1, <2>3, <3>1 DEF Included
    <3>2. CASE d # c
      <4>1. row[d] = "QUEUED"
        BY <1>0, <2>1, <3>2 DEF Included
      <4>2. PICK q \in Runs : run[q].member[d] \in {"created", "linked"}
        BY <4>1 DEF IInv, OrphansOnlyFromLostFanOut
      <4> QED BY <2>3, <3>2, <4>2 DEF Included
    <3> QED BY <3>1, <3>2
  <2>10. StopInv' /\ \A q \in Runs : RunJobInv(q)'
    BY <2>2, <2>3 DEF IInv, StopInv, RunJobInv
  <2> QED BY <2>5, <2>6, <2>7, <2>8, <2>9, <2>10 DEF IInv
<1>4. CASE LinkRow(r, c)
  <2>1. PICK st \in {"QUEUED", "BLOCKED"}, step \in {"linked", "done"} :
          /\ link' = [link EXCEPT ![c] = st] /\ MemberAt(r, c, step)
          /\ \/ run[r].member[c] = "created" /\ st = "QUEUED" /\ step = "linked"
             \/ run[r].member[c] = "blocked" /\ st = "BLOCKED" /\ step = "done"
    BY <1>4 DEF LinkRow
  <2>2. UNCHANGED <<campaign, overtaken, sendVars, runJob, abandoned, operatorVars>>
    BY <1>4 DEF LinkRow
  <2>3. /\ run' \in RunType
        /\ \A q \in Runs : run'[q].at = run[q].at
        /\ \A q \in Runs, d \in Contacts :
              run'[q].member[d] = IF q = r /\ d = c THEN step ELSE run[q].member[d]
    BY <1>0, <2>1, MemberAtEffect DEF MemberSteps
  <2>4. link' \in [Contacts -> LinkStatuses]
    BY <1>0, <2>1 DEF LinkStatuses
  <2>5. TypeOK'
    BY <2>2, <2>3, <2>4 DEF IInv, TypeOK, RunType, sendVars, operatorVars
  <2>6. \A d \in Contacts : SendJobInv(d)' /\ RowInv(d)'
    BY <2>2 DEF IInv, SendJobInv, RowInv, sendVars
  <2>7. \A q \in Runs, d \in Contacts : MemberInv(q, d)'
    BY <1>0, <1>1, <2>1, <2>2, <2>3 DEF IInv, MemberInv, InHand, sendVars
  <2>8. LinksFollow' /\ JobHasLink'
    BY <1>0, <2>1, <2>2 DEF IInv, MemberInv, LinksFollow, LinkInv, JobHasLink, Settled, Included, sendVars
  <2>9. OrphansOnlyFromLostFanOut'
    BY <2>1, <2>2, <2>3 DEF IInv, OrphansOnlyFromLostFanOut, MemberInv, Included, sendVars
  <2>10. StopInv' /\ \A q \in Runs : RunJobInv(q)'
    BY <2>2, <2>3 DEF IInv, StopInv, RunJobInv, sendVars
  <2> QED BY <2>5, <2>6, <2>7, <2>8, <2>9, <2>10 DEF IInv
<1>5. CASE AddSend(r, c)
  <2>1. /\ MemberAt(r, c, "done") /\ run[r].member[c] = "linked"
        /\ sendJob' = [sendJob EXCEPT ![c] = Added(@)]
        /\ UNCHANGED <<campaign, link, overtaken, row, send, delivered, cutOff, runJob, abandoned, operatorVars>>
    BY <1>5 DEF AddSend
  <2>2. /\ run' \in RunType
        /\ \A q \in Runs : run'[q].at = run[q].at
        /\ \A q \in Runs, d \in Contacts :
              run'[q].member[d] = IF q = r /\ d = c THEN "done" ELSE run[q].member[d]
    BY <1>0, <2>1, MemberAtEffect DEF MemberSteps
  <2>3. sendJob' \in [Contacts -> Jobs]
    BY <1>0, <2>1, JobOperators
  <2>4. /\ \A d \in Contacts : d # c => sendJob'[d] = sendJob[d]
        /\ sendJob'[c].attempts = sendJob[c].attempts
        /\ \/ sendJob'[c].state = sendJob[c].state /\ sendJob[c].state # "none"
           \/ sendJob[c].state = "none" /\ sendJob'[c].state = "waiting"
    BY <1>0, <2>1 DEF Added, Jobs
  <2>5. TypeOK'
    BY <2>1, <2>2, <2>3 DEF IInv, TypeOK, RunType, operatorVars
  <2>6. row[c] # "NONE" /\ link[c] # "NONE"
    BY <2>1 DEF IInv, MemberInv
  <2>7. \A d \in Contacts : SendJobInv(d)' /\ RowInv(d)'
    BY <1>0, <2>1, <2>4, <2>6 DEF IInv, SendJobInv, RowInv, BeforeSent, Reporting
  <2>8. \A q \in Runs, d \in Contacts : MemberInv(q, d)'
    BY <2>1, <2>2 DEF IInv, MemberInv, InHand
  <2>9. LinksFollow' /\ JobHasLink'
    BY <2>1, <2>4, <2>6 DEF IInv, LinksFollow, LinkInv, JobHasLink, Included
  <2>10. OrphansOnlyFromLostFanOut'
    BY <2>1, <2>2, <2>4 DEF IInv, OrphansOnlyFromLostFanOut, Included
  <2>11. StopInv' /\ \A q \in Runs : RunJobInv(q)'
    BY <2>1, <2>2 DEF IInv, StopInv, RunJobInv
  <2> QED BY <2>5, <2>7, <2>8, <2>9, <2>10, <2>11 DEF IInv
<1> QED BY <1>2, <1>3, <1>4, <1>5

(* A queued fan-out that stalls, comes due again or is forgotten.          *)
LEMMA RunQueueIInv ==
  ASSUME IInv, NEW r \in Runs, RunStalls(r) \/ RunPromoted(r) \/ RunForgotten(r)
  PROVE  IInv'
<1> USE QueueAssumption
<1>0. runJob \in [Runs -> Jobs]
  BY DEF IInv, TypeOK
<1>1. UNCHANGED <<campaign, link, overtaken, sendVars, run, abandoned, operatorVars>>
  BY DEF RunStalls, RunPromoted, RunForgotten
<1>2. runJob' \in [Runs -> Jobs]
  BY <1>0, JobOperators, RestTypes DEF RunStalls, RunPromoted, RunForgotten
<1>3. \A q \in Runs : RunJobInv(q)'
  <2>1. CASE RunStalls(r)
    BY <1>0, <1>1, <2>1 DEF RunStalls, IInv, RunJobInv, Stalled, Jobs
  <2>2. CASE RunPromoted(r)
    BY <1>0, <1>1, <2>2 DEF RunPromoted, IInv, RunJobInv, Promoted, Jobs
  <2>3. CASE RunForgotten(r)
    BY <1>0, <1>1, <2>3 DEF RunForgotten, IInv, RunJobInv, NoJob
  <2> QED BY <2>1, <2>2, <2>3
<1>4. TypeOK'
  BY <1>1, <1>2 DEF IInv, TypeOK, sendVars, operatorVars
<1>5. StopInv'
  BY <1>1 DEF IInv, StopInv, sendVars
<1> QED BY <1>1, <1>3, <1>4, <1>5, RecipientFrame DEF IInv, sendVars

(* Every step of a fan-out, and every failure of one, keeps the invariant. *)
LEMMA RunStepIInv == ASSUME IInv, NEW r \in Runs, RunStep(r) \/ RunFault(r) PROVE IInv'
<1>1. CASE RunFails(r) \/ RunLost(r)
  BY <1>1, RunFaultIInv DEF RunFails, RunLost
<1>2. CASE RunStalls(r) \/ RunPromoted(r) \/ RunForgotten(r)
  BY <1>2, RunQueueIInv
<1>3. CASE StartRun(r) \/ CheckPolicy(r) \/ PauseRefused(r) \/ MarkRunning(r) \/ WriteVerdict(r)
  BY <1>3, RunMovesIInv
<1>4. CASE CountLinks(r) \/ EndRun(r)
  BY <1>4, RunEndsIInv
<1>5. ASSUME NEW c \in Contacts, BlockExcluded(r, c) \/ LookUpMember(r, c)
      PROVE  IInv'
  BY <1>5, NextMemberIInv
<1>6. ASSUME NEW c \in Contacts, CreateRow(r, c) \/ LinkRow(r, c) \/ AddSend(r, c)
      PROVE  IInv'
  BY <1>6, MemberWorkIInv
<1> QED BY <1>1, <1>2, <1>3, <1>4, <1>5, <1>6 DEF RunStep, RunFault

-----------------------------------------------------------------------------
(* Steps of processMessage: each changes one recipient.                    *)

(* What a send may do to the variables of its own recipient, and only it.  *)
OnlyChanges(c) ==
    /\ UNCHANGED <<runVars, operatorVars>>
    /\ \A d \in Contacts \ {c} :
          /\ row'[d] = row[d]
          /\ link'[d] = link[d]
          /\ sendJob'[d] = sendJob[d]
          /\ send'[d] = send[d]
    /\ row'[c] \in {"NONE", "QUEUED"} => row'[c] = row[c]
    /\ row[c] = "BLOCKED" => row'[c] = "BLOCKED"
    /\ row[c] # "NONE" => row'[c] # "NONE"
    /\ link[c] # "NONE" => link'[c] # "NONE"
    /\ sendJob'[c].state = "none" <=> sendJob[c].state = "none"

(* Such a step keeps the invariant when it keeps the parts about the       *)
(* recipient itself.                                                       *)
LEMMA OneRecipient ==
  ASSUME IInv, NEW c \in Contacts, OnlyChanges(c), TypeOK', StopInv',
         SendJobInv(c)', RowInv(c)', LinkInv(c)'
  PROVE  IInv'
<1>0. UNCHANGED <<runJob, run, abandoned>>
  BY DEF OnlyChanges, runVars
<1>1. \A r \in Runs : RunJobInv(r)'
  BY <1>0 DEF IInv, RunJobInv
<1>2. \A d \in Contacts : SendJobInv(d)' /\ RowInv(d)'
  BY DEF OnlyChanges, IInv, SendJobInv, RowInv
<1>3. \A r \in Runs, d \in Contacts : MemberInv(r, d)'
  BY <1>0 DEF OnlyChanges, IInv, MemberInv
<1>4. LinksFollow'
  BY DEF OnlyChanges, IInv, LinksFollow, LinkInv, Included
<1>5. JobHasLink'
  BY DEF OnlyChanges, IInv, JobHasLink
<1>6. OrphansOnlyFromLostFanOut'
  <2> SUFFICES ASSUME NEW d \in Included, row'[d] = "QUEUED", sendJob'[d].state = "none", d \notin abandoned
               PROVE  \E q \in Runs : run[q].member[d] \in {"created", "linked"}
    BY <1>0 DEF OrphansOnlyFromLostFanOut
  <2>1. row[d] = "QUEUED" /\ sendJob[d].state = "none"
    BY DEF OnlyChanges, Included
  <2> QED BY <2>1 DEF IInv, OrphansOnlyFromLostFanOut
<1> QED BY <1>1, <1>2, <1>3, <1>4, <1>5, <1>6 DEF IInv

(* SendAt moves one send.                                                  *)
LEMMA SendAtEffect ==
  ASSUME send \in SendType, NEW c \in Contacts, NEW step \in SendSteps, SendAt(c, step)
  PROVE  /\ send' \in SendType
         /\ \A d \in Contacts : d # c => send'[d] = send[d]
         /\ send'[c].at = step
         /\ send'[c].outcome = send[c].outcome
BY DEF SendAt, SendType

(* Taking the job from the queue, and the queue's own steps.               *)
LEMMA SendQueueIInv ==
  ASSUME IInv, NEW c \in Contacts,
         StartSend(c) \/ SendStalls(c) \/ SendPromoted(c)
  PROVE  IInv'
<1> USE QueueAssumption
<1>0. /\ sendJob \in [Contacts -> Jobs] /\ send \in SendType
      /\ row \in [Contacts -> MessageStatuses]
      /\ SendJobInv(c) /\ RowInv(c) /\ LinkInv(c) /\ StopInv
  BY DEF IInv, TypeOK, SendType, LinksFollow, LinkInv
<1>1. UNCHANGED <<campaign, link, overtaken, row, delivered, cutOff, runVars, operatorVars>>
  BY DEF StartSend, SendStalls, SendPromoted
<1>2. PICK j \in Jobs :
        /\ sendJob' = [sendJob EXCEPT ![c] = j]
        /\ \/ j = Completed(Taken(sendJob[c])) /\ send' = send /\ sendJob[c].state = "waiting"
           \/ j = Deferred(Taken(sendJob[c])) /\ send' = send /\ sendJob[c].state = "waiting"
           \/ /\ j = Taken(sendJob[c]) /\ sendJob[c].state = "waiting"
              /\ \/ SendAt(c, "cancelled")
                 \/ SendAt(c, "read") /\ campaign \notin Stopped
              /\ row[c] \notin Settled
           \/ /\ j = Stalled(sendJob[c]) /\ send' = send
              /\ sendJob[c].state = "active" /\ send[c].at = "idle"
           \/ j = Promoted(sendJob[c]) /\ send' = send /\ sendJob[c].state = "delayed"
  <2>1. CASE StartSend(c)
    <3>1. Taken(sendJob[c]) \in Jobs
      BY <1>0, JobOperators
    <3>2. Completed(Taken(sendJob[c])) \in Jobs /\ Deferred(Taken(sendJob[c])) \in Jobs
      BY <3>1, JobOperators
    <3> QED BY <2>1, <3>1, <3>2 DEF StartSend, Stopped
  <2>2. CASE SendStalls(c)
    BY <1>0, <2>2, JobOperators DEF SendStalls
  <2>3. CASE SendPromoted(c)
    BY <1>0, <2>3, JobOperators DEF SendPromoted
  <2> QED BY <2>1, <2>2, <2>3
<1>3. /\ sendJob' \in [Contacts -> Jobs] /\ sendJob'[c] = j
      /\ \A d \in Contacts : d # c => sendJob'[d] = sendJob[d]
  BY <1>0, <1>2
<1>4. /\ send' \in SendType
      /\ \A d \in Contacts : d # c => send'[d] = send[d]
      /\ send'[c].at \in BeforeSent => send[c].at \in BeforeSent \/ campaign \notin Stopped
      /\ send'[c].outcome = send[c].outcome
      /\ \/ send'[c].at = send[c].at
         \/ send'[c].at \in {"read", "cancelled"} /\ row[c] \notin Settled /\ sendJob[c].state = "waiting" /\ j.state = "active"
  <2>1. CASE send' = send
    BY <1>0, <2>1
  <2>2. ASSUME NEW step \in {"read", "cancelled"}, SendAt(c, step)
        PROVE  /\ send' \in SendType
               /\ \A d \in Contacts : d # c => send'[d] = send[d]
               /\ send'[c].at = step
               /\ send'[c].outcome = send[c].outcome
    BY <1>0, <2>2, SendAtEffect DEF SendSteps, BeforeSent
  <2>3. Taken(sendJob[c]).state = "active"
    BY <1>0 DEF Taken, Jobs
  <2> QED BY <1>2, <2>1, <2>2, <2>3 DEF BeforeSent
<1>5. /\ sendJob[c].state \in {"waiting", "active", "delayed"}
      /\ j.attempts = sendJob[c].attempts
      /\ j.state \in {"waiting", "active", "delayed", "completed", "failed"}
      /\ sendJob[c].state = "active" => send[c].at = "idle" /\ send' = send
  BY <1>0, <1>2 DEF Completed, Taken, Deferred, Stalled, Promoted, Jobs
<1>6. OnlyChanges(c)
  BY <1>1, <1>3, <1>4, <1>5 DEF OnlyChanges
<1>7. TypeOK'
  BY <1>1, <1>3, <1>4 DEF IInv, TypeOK, SendType, runVars, operatorVars
<1>8. StopInv'
  BY <1>0, <1>1, <1>4 DEF StopInv
<1>9. SendJobInv(c)'
  BY <1>0, <1>3, <1>4, <1>5 DEF SendJobInv, BeforeSent, Reporting
<1>10. RowInv(c)'
  <2>1. row[c] \notin {"NONE", "FAILED"}
    BY <1>0, <1>5 DEF RowInv
  <2>2. send'[c].at \in Reporting => send[c].at \in Reporting
    BY <1>4 DEF Reporting
  <2>3. send[c].at \notin Reporting
    BY <1>0, <1>5 DEF SendJobInv, Reporting
  <2>4. send'[c].at \in BeforeSent \cup {"cancelled"} => row[c] \in {"QUEUED", "SENDING"}
    BY <1>0, <1>4, <2>1 DEF RowInv, MessageStatuses, Settled
  <2> QED BY <1>1, <2>1, <2>2, <2>3, <2>4 DEF RowInv
<1>11. LinkInv(c)'
  BY <1>0, <1>1, <1>3, <1>5 DEF LinkInv
<1> QED BY <1>6, <1>7, <1>8, <1>9, <1>10, <1>11, OneRecipient

(* A send that has its outcome.                                            *)
LEMMA SettleEffect ==
  ASSUME send \in SendType, NEW c \in Contacts, NEW o \in {"SENT", "BLOCKED", "FAILED"},
         send' = [send EXCEPT ![c].at = "settled", ![c].outcome = o]
  PROVE  /\ send' \in SendType
         /\ \A d \in Contacts : d # c => send'[d] = send[d]
         /\ send'[c].at = "settled"
         /\ send'[c].outcome = o
BY DEF SendType, SendSteps, Reporting

(* The await points between taking the job and its end, and the listener.  *)
LEMMA AttemptIInv ==
  ASSUME IInv, NEW c \in Contacts,
         \/ BlockMessage(c) \/ MarkSending(c) \/ PlatformAccepts(c) \/ RecordSent(c)
         \/ UpdateLink(c) \/ CountPending(c) \/ OnFailed(c)
  PROVE  IInv'
<1>0. /\ sendJob \in [Contacts -> Jobs] /\ send \in SendType
      /\ row \in [Contacts -> MessageStatuses] /\ link \in [Contacts -> LinkStatuses]
      /\ delivered \in [Contacts -> Nat]
      /\ SendJobInv(c) /\ RowInv(c) /\ LinkInv(c) /\ StopInv
  BY DEF IInv, TypeOK, SendType, LinksFollow, LinkInv
<1>1. /\ UNCHANGED <<campaign, overtaken, sendJob, cutOff, runVars, operatorVars>>
      /\ delivered' \in [Contacts -> Nat]
  BY <1>0 DEF BlockMessage, MarkSending, PlatformAccepts, RecordSent, UpdateLink, CountPending, OnFailed
<1>2. /\ send' \in SendType
      /\ row' \in [Contacts -> MessageStatuses]
      /\ link' \in [Contacts -> LinkStatuses]
      /\ \A d \in Contacts : d # c => send'[d] = send[d] /\ row'[d] = row[d] /\ link'[d] = link[d]
      /\ \/ /\ send[c].at \in {"cancelled", "read"} /\ send'[c].at = "settled"
            /\ send'[c].outcome = "BLOCKED" /\ row'[c] = "BLOCKED" /\ link'[c] = link[c]
         \/ /\ send[c].at = "read" /\ send'[c].at = "sending"
            /\ row'[c] = "SENDING" /\ link'[c] = link[c]
         \/ /\ send[c].at = "sending" /\ send'[c].at = "accepted"
            /\ row'[c] = row[c] /\ link'[c] = link[c]
         \/ /\ send[c].at = "accepted" /\ send'[c].at = "settled"
            /\ send'[c].outcome = "SENT" /\ row'[c] = "SENT" /\ link'[c] = link[c]
         \/ /\ send[c].at = "settled" /\ send'[c].at = "linked"
            /\ send'[c].outcome = send[c].outcome /\ row'[c] = row[c] /\ link'[c] = send[c].outcome
         \/ /\ send[c].at = "linked" /\ send'[c].at = "counted"
            /\ send'[c].outcome = send[c].outcome /\ row'[c] = row[c] /\ link'[c] = link[c]
         \/ /\ send[c].at = "onFailed" /\ send'[c].at = "settled"
            /\ send'[c].outcome = "FAILED" /\ link'[c] = link[c]
            /\ row'[c] = IF row[c] \in {"QUEUED", "SENDING"} THEN "FAILED" ELSE row[c]
  <2>1. CASE BlockMessage(c)
    <3>1. row' \in [Contacts -> MessageStatuses]
      BY <1>0, <2>1 DEF BlockMessage, MessageStatuses
    <3> QED BY <1>0, <2>1, <3>1, SettleEffect DEF BlockMessage
  <2>2. CASE MarkSending(c)
    <3>1. row' \in [Contacts -> MessageStatuses]
      BY <1>0, <2>2 DEF MarkSending, MessageStatuses
    <3> QED BY <1>0, <2>2, <3>1, SendAtEffect DEF MarkSending, SendSteps, BeforeSent
  <2>3. CASE PlatformAccepts(c)
    BY <1>0, <2>3, SendAtEffect DEF PlatformAccepts, SendSteps, BeforeSent
  <2>4. CASE RecordSent(c)
    <3>1. row' \in [Contacts -> MessageStatuses]
      BY <1>0, <2>4 DEF RecordSent, MessageStatuses
    <3> QED BY <1>0, <2>4, <3>1, SettleEffect DEF RecordSent
  <2>5. CASE UpdateLink(c)
    <3>1. link' \in [Contacts -> LinkStatuses]
      BY <1>0, <2>5 DEF UpdateLink, LinkStatuses, SendType
    <3> QED BY <1>0, <2>5, <3>1, SendAtEffect DEF UpdateLink, SendSteps, Reporting
  <2>6. CASE CountPending(c)
    <3>1. /\ send' \in SendType
          /\ \A d \in Contacts : d # c => send'[d] = send[d]
          /\ send'[c].at = "counted" /\ send'[c].outcome = send[c].outcome
      BY <1>0, <2>6 DEF CountPending, SendType, SendSteps, Reporting
    <3> QED BY <1>0, <2>6, <3>1 DEF CountPending
  <2>7. CASE OnFailed(c)
    <3>1. row' \in [Contacts -> MessageStatuses]
      BY <1>0, <2>7 DEF OnFailed, MessageStatuses
    <3> QED BY <1>0, <2>7, <3>1, SettleEffect DEF OnFailed
  <2> QED BY <2>1, <2>2, <2>3, <2>4, <2>5, <2>6, <2>7
<1>3. TypeOK'
  BY <1>1, <1>2 DEF IInv, TypeOK, SendType, runVars, operatorVars
<1>4. StopInv'
  BY <1>0, <1>1, <1>2 DEF StopInv, BeforeSent
<1>5. SendJobInv(c)'
  BY <1>0, <1>1, <1>2 DEF SendJobInv, BeforeSent, Reporting
<1>6. row[c] # "NONE"
  BY <1>0, <1>2 DEF RowInv, SendJobInv, BeforeSent, Reporting
<1>7. RowInv(c)'
  BY <1>0, <1>1, <1>2, <1>6 DEF RowInv, SendJobInv, BeforeSent, Reporting, Settled
<1>8. LinkInv(c)'
  BY <1>0, <1>1, <1>2, <1>6 DEF LinkInv, RowInv, SendJobInv, BeforeSent, Reporting, Settled, SendType
<1>9. OnlyChanges(c)
  BY <1>0, <1>1, <1>2, <1>6 DEF OnlyChanges, RowInv, BeforeSent, Reporting, SendType
<1> QED BY <1>3, <1>4, <1>5, <1>7, <1>8, <1>9, OneRecipient

(* The ends of an attempt: reported, failed, or gone with its process.     *)
LEMMA AttemptEndsIInv ==
  ASSUME IInv, NEW c \in Contacts, WriteProgress(c) \/ DeferForRate(c) \/ SendFails(c) \/ SendLost(c)
  PROVE  IInv'
<1> USE QueueAssumption
<1>0. /\ sendJob \in [Contacts -> Jobs] /\ send \in SendType /\ overtaken \subseteq Contacts /\ cutOff \subseteq Contacts
      /\ campaign \in CampaignStatuses
      /\ SendJobInv(c) /\ RowInv(c) /\ LinkInv(c) /\ StopInv
  BY DEF IInv, TypeOK, SendType, LinksFollow, LinkInv
<1>1. /\ UNCHANGED <<link, row, delivered, runVars, operatorVars>>
      /\ overtaken' = overtaken \ {c}
      /\ campaign' \in CampaignStatuses
      /\ campaign' \in Stopped => campaign \in Stopped
      /\ send[c].at # "idle"
      /\ cutOff' \subseteq Contacts
  BY <1>0 DEF WriteProgress, DeferForRate, SendFails, SendLost, CutOff, EndSend, CampaignStatuses, Stopped
<1>2. /\ sendJob[c].state \in {"active", "failed"}
      /\ sendJob[c].state = "active" => sendJob[c].attempts < MaxAttempts
  BY <1>0, <1>1 DEF SendJobInv, SendType, SendSteps
<1>3. /\ sendJob' \in [Contacts -> Jobs]
      /\ \A d \in Contacts : d # c => sendJob'[d] = sendJob[d]
      /\ \/ sendJob'[c] = sendJob[c]
         \/ sendJob[c].state = "active" /\ sendJob'[c].state = "completed" /\ send'[c].at = "idle"
         \/ /\ sendJob[c].state = "active" /\ sendJob'[c].state = "failed" /\ sendJob'[c].attempts = MaxAttempts
            /\ LastAttempt(sendJob[c])
         \/ /\ sendJob[c].state = "active" /\ sendJob'[c].state = "delayed" /\ sendJob'[c].attempts < MaxAttempts
            /\ ~LastAttempt(sendJob[c])
         \/ /\ sendJob[c].state = "active" /\ sendJob'[c].state = "delayed" /\ sendJob'[c].attempts < MaxAttempts
            /\ send'[c].at = "idle"
  <2>1. sendJob[c].state = "active" => Thrown(sendJob[c]) \in Jobs
    BY <1>0, <1>2, JobOperators
  <2>2. CASE WriteProgress(c)
    <3>1. send'[c].at = "idle"
      BY <1>0, <2>2, RestTypes DEF WriteProgress, EndSend, SendType
    <3>2. Completed(sendJob[c]) \in Jobs /\ Completed(sendJob[c]).state = "completed"
      BY <1>0, JobOperators DEF Completed, Jobs
    <3> QED BY <1>0, <2>2, <3>1, <3>2 DEF WriteProgress
  <2>3. CASE SendFails(c)
    BY <1>0, <1>2, <2>1, <2>3, ThrownAttempts DEF SendFails
  <2>4. CASE SendLost(c)
    BY <1>0, <2>4 DEF SendLost
  <2>5. CASE DeferForRate(c)
    <3>1. send'[c].at = "idle"
      BY <1>0, <2>5, RestTypes DEF DeferForRate, EndSend, SendType
    <3>2. sendJob[c].state = "active"
      BY <1>0, <2>5 DEF DeferForRate, SendJobInv, BeforeSent
    <3>3. /\ Deferred(sendJob[c]) \in Jobs /\ Deferred(sendJob[c]).state = "delayed"
          /\ Deferred(sendJob[c]).attempts = sendJob[c].attempts
      BY <1>0, JobOperators DEF Deferred, Jobs
    <3> QED BY <1>0, <1>2, <2>5, <3>1, <3>2, <3>3 DEF DeferForRate
  <2> QED BY <2>2, <2>3, <2>4, <2>5
<1>4. /\ send' \in SendType
      /\ \A d \in Contacts : d # c => send'[d] = send[d]
      /\ \/ send'[c].at = "idle"
         \/ send'[c].at = "onFailed" /\ sendJob'[c].state = "failed" /\ sendJob'[c].attempts = MaxAttempts
  <2>1. CASE send' = [send EXCEPT ![c] = NoSend]
    BY <1>0, <2>1, RestTypes DEF SendType
  <2>2. CASE SendFails(c) /\ send' = [send EXCEPT ![c] = [NoSend EXCEPT !.at = "onFailed"]]
             /\ LastAttempt(sendJob[c]) /\ sendJob[c].state = "active"
             /\ sendJob' = [sendJob EXCEPT ![c] = Thrown(@)]
    <3>1. sendJob'[c].state = "failed" /\ sendJob'[c].attempts = MaxAttempts
      BY <1>0, <1>2, <2>2, ThrownAttempts
    <3>2. [NoSend EXCEPT !.at = "onFailed"] \in [at : SendSteps, outcome : {"SENT", "BLOCKED", "FAILED"}, pending : BOOLEAN]
          /\ [NoSend EXCEPT !.at = "onFailed"].at = "onFailed"
      BY DEF NoSend, SendSteps
    <3> QED BY <1>0, <2>2, <3>1, <3>2 DEF SendType
  <2> QED BY <2>1, <2>2 DEF WriteProgress, DeferForRate, SendFails, SendLost, EndSend
<1>5. TypeOK'
  BY <1>0, <1>1, <1>3, <1>4 DEF IInv, TypeOK, SendType, runVars, operatorVars
<1>6. StopInv'
  BY <1>0, <1>1, <1>4 DEF StopInv, BeforeSent
<1>7. SendJobInv(c)'
  BY <1>0, <1>2, <1>3, <1>4 DEF SendJobInv, BeforeSent, Reporting
<1>8. RowInv(c)'
  BY <1>0, <1>1, <1>2, <1>3, <1>4 DEF RowInv, BeforeSent, Reporting
<1>9. LinkInv(c)'
  BY <1>0, <1>1, <1>2, <1>3 DEF LinkInv
<1>10. OnlyChanges(c)
  BY <1>1, <1>2, <1>3, <1>4 DEF OnlyChanges
<1> QED BY <1>5, <1>6, <1>7, <1>8, <1>9, <1>10, OneRecipient

-----------------------------------------------------------------------------
(* Theorems                                                                *)

(* Every step of the system keeps the invariant.                           *)
LEMMA NextIInv == IInv /\ [Next]_vars => IInv'
<1> SUFFICES ASSUME IInv, [Next]_vars PROVE IInv'
  OBVIOUS
<1>1. ASSUME NEW k \in Calls, CallStep(k) PROVE IInv'
  BY <1>1, CallStepIInv
<1>2. CASE OutsideStep
  BY <1>2, OutsideStepIInv
<1>3. ASSUME NEW r \in Runs, RunStep(r) \/ RunFault(r) PROVE IInv'
  BY <1>3, RunStepIInv
<1>4. ASSUME NEW c \in Contacts, SendStep(c) \/ SendFault(c) PROVE IInv'
  <2>1. CASE StartSend(c) \/ SendStalls(c) \/ SendPromoted(c)
    BY <2>1, SendQueueIInv
  <2>2. CASE \/ BlockMessage(c) \/ MarkSending(c) \/ PlatformAccepts(c) \/ RecordSent(c)
             \/ UpdateLink(c) \/ CountPending(c) \/ OnFailed(c)
    BY <2>2, AttemptIInv
  <2>3. CASE WriteProgress(c) \/ DeferForRate(c) \/ SendFails(c) \/ SendLost(c)
    BY <2>3, AttemptEndsIInv
  <2> QED BY <1>4, <2>1, <2>2, <2>3 DEF SendStep, SendFault
<1>5. CASE UNCHANGED vars
  <2>1. UNCHANGED <<campaign, link, overtaken, row, sendJob, send, delivered, cutOff, runJob, run,
                    abandoned, call, tick, halting, allowed>>
    BY <1>5 DEF vars, sendVars, runVars, operatorVars
  <2>2. TypeOK' /\ StopInv' /\ \A r \in Runs : RunJobInv(r)'
    BY <2>1 DEF IInv, TypeOK, StopInv, RunJobInv
  <2> QED BY <2>1, <2>2, RecipientFrame DEF IInv
<1> QED BY <1>1, <1>2, <1>3, <1>4, <1>5 DEF Next

(* The invariant all the others rest on.                                   *)
THEOREM InvariantHolds == Spec => []IInv
BY InitIInv, NextIInv, PTL DEF Spec

(* Every variable keeps its type.                                          *)
THEOREM TypeCorrect == Spec => []TypeOK
<1>1. IInv => TypeOK
  BY DEF IInv
<1> QED BY <1>1, InvariantHolds, PTL

(* No job of a campaign is queued before its link exists.                  *)
THEOREM JobsAreLinked == Spec => []JobHasLink
<1>1. IInv => JobHasLink
  BY DEF IInv
<1> QED BY <1>1, InvariantHolds, PTL

(* A waiting message without a job was in the hands of a fan-out that is   *)
(* still at work or that failed.                                           *)
THEOREM OrphansAreKnown == Spec => []OrphansOnlyFromLostFanOut
<1>1. IInv => OrphansOnlyFromLostFanOut
  BY DEF IInv
<1> QED BY <1>1, InvariantHolds, PTL

(* Only the platform's answer adds a copy, and only for an attempt that is *)
(* past its read of the campaign.                                          *)
LEMMA DeliveryStep ==
  ASSUME IInv, Next, NEW c \in Contacts, delivered'[c] > delivered[c]
  PROVE  send[c].at = "sending"
<1>0. delivered \in [Contacts -> Nat]
  BY DEF IInv, TypeOK
<1>1. ASSUME NEW d \in Contacts, PlatformAccepts(d)
      PROVE  send[c].at = "sending"
  <2>1. d = c
    BY <1>0, <1>1 DEF PlatformAccepts
  <2> QED BY <1>1, <2>1 DEF PlatformAccepts
<1>2. delivered' # delivered
  BY <1>0
<1>3. \A k \in Calls : ~CallStep(k)
  BY <1>2 DEF CallStep, ReadCampaign, AssertOutboundAllowed, WriteStatus, EnqueueRun, CallAborted, sendVars
<1>4. ~OutsideStep
  BY <1>2 DEF OutsideStep, TickReads, TickEnqueues, CloseOutbound, PauseCampaigns, HaltLost, ReopenOutbound, sendVars
<1>5. \A r \in Runs : ~RunStep(r)
  BY <1>2 DEF RunStep, StartRun, CheckPolicy, PauseRefused, MarkRunning, BlockExcluded, LookUpMember,
              CreateRow, LinkRow, AddSend, CountLinks, WriteVerdict, EndRun, RunStalls, RunPromoted, sendVars
<1>6. \A r \in Runs : ~RunFault(r)
  BY <1>2 DEF RunFault, RunFails, RunLost, RunForgotten, sendVars
<1>7. \A d \in Contacts : SendStep(d) \/ SendFault(d) => PlatformAccepts(d)
  BY <1>2 DEF SendStep, SendFault, StartSend, BlockMessage, MarkSending, RecordSent, UpdateLink,
              CountPending, WriteProgress, OnFailed, SendStalls, SendPromoted, DeferForRate, SendFails, SendLost
<1> QED BY <1>1, <1>3, <1>4, <1>5, <1>6, <1>7 DEF Next

(* While a campaign is paused or cancelled nothing but attempts that had   *)
(* read it before reaches the platform.                                    *)
THEOREM StopHolds == Spec => StopHoldsLaterAttempts
<1>1. IInv /\ [Next]_vars =>
        [\A c \in Contacts :
           (delivered'[c] > delivered[c] /\ campaign \in Stopped) => c \in overtaken]_vars
  BY DeliveryStep DEF IInv, StopInv, BeforeSent
<1> QED BY <1>1, InvariantHolds, PTL DEF Spec, StopHoldsLaterAttempts

-----------------------------------------------------------------------------
(* Reports and verdicts.  The rest of the module is about what reaches a   *)
(* link from a message that went out, and about the verdict a fan-out      *)
(* counts and writes later: what was true of every recipient when it was   *)
(* counted has to stay true until the campaign is FAILED, and after.       *)

(* Nobody excluded ever gets a message, and a fan-out that is done with a  *)
(* recipient leaves one behind.                                            *)
ExcludedUnwritten == \A c \in Excluded : row[c] = "NONE"

DoneHasRow ==
    \A r \in Runs, c \in Included : run[r].member[c] = "done" => row[c] # "NONE"

(* Only the listener reports FAILED: who reports anything else still has   *)
(* its job.                                                                *)
ReportOfActiveJob ==
    \A c \in Contacts :
        send[c].at \in Reporting /\ send[c].outcome # "FAILED" => sendJob[c].state = "active"

(* A row that is not linked yet is in the hands of the one fan-out that    *)
(* created it.                                                             *)
Unlinked == {"created", "blocked"}

OneCreator ==
    \A q, r \in Runs, c \in Contacts :
        run[q].member[c] \in Unlinked /\ run[r].member[c] \in Unlinked => q = r

CreatedUnlinked ==
    \A r \in Runs, c \in Contacts : run[r].member[c] \in Unlinked => link[c] = "NONE"

(* A message that went out by an attempt nothing broke off is still to be  *)
(* recorded, or recorded and on its way to the link, or reported as SENT.  *)
Reported(c) ==
    delivered[c] > 0 /\ c \notin cutOff =>
        \/ send[c].at = "accepted"
        \/ /\ send[c].at \in Reporting
           /\ send[c].outcome = "SENT"
           /\ send[c].at # "settled" => link[c] = "SENT"
        \/ /\ send[c].at = "idle"
           /\ row[c] = "SENT"
           /\ link[c] = "SENT"

GInv ==
    /\ ExcludedUnwritten
    /\ DoneHasRow
    /\ ReportOfActiveJob
    /\ \A c \in Contacts : Reported(c)
    /\ OneCreator
    /\ CreatedUnlinked

(* A recipient the campaign will never report as sent: reported otherwise, *)
(* or without a link, and nobody left who would link it with its job.      *)
Hopeless(c) ==
    \/ link[c] \in {"BLOCKED", "FAILED"}
    \/ /\ link[c] = "NONE"
       /\ c \in Excluded \/ row[c] # "NONE"
       /\ \A r \in Runs : run[r].member[c] # "created"

(* The campaign is FAILED, or a fan-out has counted that it is.            *)
Doomed ==
    campaign = "FAILED" \/ \E r \in Runs : run[r].at = "counted" /\ run[r].verdict = "FAILED"

Forlorn == Doomed => \A c \in Contacts : Hopeless(c)

(* A fan-out that is about to count has no recipient half done elsewhere.  *)
(* Two fan-outs at once can break it: one skips the row the other created, *)
(* and counts before the other links it.                                   *)
CountSeesAll ==
    \A r \in Runs :
        (run[r].at = "loop" /\ \A d \in Contacts : run[r].member[d] = "done") =>
            \A q \in Runs, c \in Contacts : run[q].member[c] # "created"

(* What is shown of every step.                                            *)
Kept == GInv' /\ (Forlorn /\ CountSeesAll => Forlorn')

(* Nobody is written to, reported or half done before the first call.      *)
LEMMA InitGInv == Init => GInv /\ Forlorn
BY DEF Init, GInv, ExcludedUnwritten, DoneHasRow, ReportOfActiveJob, OneCreator, CreatedUnlinked,
       Reported, Forlorn, Doomed, Unlinked, NoRun, NoSend, Reporting, Excluded, Included

(* A step that links nobody, creates no row and dooms no campaign keeps    *)
(* GInv when the fan-outs only move on.                                    *)
LEMMA NothingLinked ==
  ASSUME GInv, link' = link,
         \A c \in Contacts : row'[c] = "NONE" <=> row[c] = "NONE",
         ReportOfActiveJob' /\ (\A d \in Contacts : Reported(d)'),
         \A q \in Runs, c \in Contacts :
            run'[q].member[c] \in Unlinked => run'[q].member[c] = run[q].member[c],
         \A q \in Runs, c \in Included :
            run'[q].member[c] = "done" => run[q].member[c] = "done" \/ row[c] # "NONE",
         Doomed' => Doomed
  PROVE  Kept
<1>1. Excluded \subseteq Contacts /\ Included \subseteq Contacts
  BY DEF Excluded, Included
<1>2. ExcludedUnwritten'
  BY <1>1 DEF GInv, ExcludedUnwritten
<1>3. DoneHasRow'
  BY <1>1 DEF GInv, DoneHasRow
<1>4. OneCreator' /\ CreatedUnlinked'
  BY DEF GInv, OneCreator, CreatedUnlinked
<1>5. ASSUME Forlorn, Doomed', NEW c \in Contacts
      PROVE  Hopeless(c)'
  <2>1. Hopeless(c)
    BY <1>5 DEF Forlorn
  <2>2. \A r \in Runs : run'[r].member[c] = "created" => run[r].member[c] = "created"
    BY DEF Unlinked
  <2> QED BY <2>1, <2>2 DEF Hopeless
<1> QED BY <1>2, <1>3, <1>4, <1>5 DEF GInv, Kept, Forlorn

(* A step that leaves recipients and fan-outs alone.                       *)
LEMMA NothingTouched ==
  ASSUME GInv, UNCHANGED <<row, link, sendJob, send, delivered, cutOff, run>>,
         campaign' = campaign \/ campaign' # "FAILED"
  PROVE  Kept
<1>1. ReportOfActiveJob' /\ (\A d \in Contacts : Reported(d)')
  BY DEF GInv, ReportOfActiveJob, Reported
<1>2. Doomed' => Doomed
  BY DEF Doomed
<1> QED BY <1>1, <1>2, NothingLinked

(* No call and nobody outside writes FAILED.                               *)
LEMMA OperatorKept ==
  ASSUME IInv, GInv, OutsideStep \/ \E k \in Calls : CallStep(k)
  PROVE  Kept
<1>1. CASE OutsideStep
  <2>1. UNCHANGED <<row, link, sendJob, send, delivered, cutOff, run>>
    BY <1>1 DEF OutsideStep, TickReads, TickEnqueues, CloseOutbound, PauseCampaigns, HaltLost,
                ReopenOutbound, runVars, sendVars
  <2>2. campaign' = campaign \/ campaign' # "FAILED"
    BY <1>1 DEF OutsideStep, TickReads, TickEnqueues, CloseOutbound, PauseCampaigns, HaltLost,
                ReopenOutbound, SetStatus
  <2> QED BY <2>1, <2>2, NothingTouched
<1>2. ASSUME NEW k \in Calls, CallStep(k)
      PROVE  Kept
  <2>1. UNCHANGED <<row, link, sendJob, send, delivered, cutOff, run>>
    BY <1>2 DEF CallStep, ReadCampaign, AssertOutboundAllowed, WriteStatus, EnqueueRun,
                CallAborted, runVars, sendVars
  <2>2. To[call[k].op] # "FAILED"
    BY DEF IInv, TypeOK, To
  <2>3. campaign' = campaign \/ campaign' # "FAILED"
    BY <1>2, <2>2 DEF CallStep, ReadCampaign, AssertOutboundAllowed, WriteStatus, EnqueueRun,
                      CallAborted, SetStatus
  <2> QED BY <2>1, <2>3, NothingTouched
<1> QED BY <1>1, <1>2

(* A fan-out that only moves on dooms the campaign by writing a verdict it *)
(* had counted before.                                                     *)
LEMMA RunAtKept ==
  ASSUME IInv, GInv, NEW r \in Runs, NEW step \in RunSteps \ {"counted"}, RunAt(r, step),
         UNCHANGED <<row, link, sendJob, send, delivered, cutOff>>,
         campaign' \in {campaign, "PAUSED", "RUNNING"}
            \/ (run[r].at = "counted" /\ campaign' = run[r].verdict)
  PROVE  Kept
<1>1. run \in RunType
  BY DEF IInv, TypeOK, RunType
<1>2. /\ \A q \in Runs : run'[q].at = (IF q = r THEN step ELSE run[q].at)
      /\ \A q \in Runs : run'[q].member = run[q].member
  BY <1>1, RunAtEffect
<1>3. \A q \in Runs : run'[q].verdict = run[q].verdict
  BY <1>1 DEF RunAt, RunType
<1>4. Doomed' => Doomed
  BY <1>2, <1>3 DEF Doomed
<1>5. ReportOfActiveJob' /\ (\A d \in Contacts : Reported(d)')
  BY DEF GInv, ReportOfActiveJob, Reported
<1> QED BY <1>2, <1>4, <1>5, NothingLinked

(* A fan-out that ends, or is abandoned, forgets its recipients.           *)
LEMMA ResetKept ==
  ASSUME IInv, GInv, NEW r \in Runs, run' = [run EXCEPT ![r] = NoRun],
         UNCHANGED <<campaign, row, link, sendJob, send, delivered, cutOff>>
  PROVE  Kept
<1>1. run \in RunType
  BY DEF IInv, TypeOK, RunType
<1>2. /\ \A q \in Runs : run'[q].at = (IF q = r THEN "idle" ELSE run[q].at)
      /\ \A q \in Runs, d \in Contacts :
            run'[q].member[d] = IF q = r THEN "todo" ELSE run[q].member[d]
  BY <1>1, ResetEffect
<1>3. \A q \in Runs \ {r} : run'[q].verdict = run[q].verdict
  BY <1>1 DEF RunType
<1>4. Doomed' => Doomed
  BY <1>2, <1>3 DEF Doomed
<1>5. ReportOfActiveJob' /\ (\A d \in Contacts : Reported(d)')
  BY DEF GInv, ReportOfActiveJob, Reported
<1> QED BY <1>2, <1>4, <1>5, NothingLinked DEF Unlinked, Included

(* A recipient that is skipped has a row; a job is added for a linked one. *)
LEMMA MemberMovesKept ==
  ASSUME IInv, GInv, NEW r \in Runs, NEW c \in Contacts, LookUpMember(r, c) \/ AddSend(r, c)
  PROVE  Kept
<1>1. run \in RunType /\ sendJob \in [Contacts -> Jobs]
  BY DEF IInv, TypeOK, RunType
<1>2. PICK step \in {"absent", "done"} :
        MemberAt(r, c, step) /\ (step = "done" => row[c] # "NONE")
  <2>1. CASE LookUpMember(r, c)
    BY <2>1 DEF LookUpMember
  <2>2. CASE AddSend(r, c)
    BY <2>2 DEF AddSend, IInv, MemberInv
  <2> QED BY <2>1, <2>2
<1>3. /\ \A q \in Runs : run'[q].at = run[q].at
      /\ \A q \in Runs, d \in Contacts :
            run'[q].member[d] = IF q = r /\ d = c THEN step ELSE run[q].member[d]
  BY <1>1, <1>2, MemberAtEffect DEF MemberSteps
<1>4. \A q \in Runs : run'[q].verdict = run[q].verdict
  BY <1>1, <1>2 DEF MemberAt, RunType
<1>5. UNCHANGED <<campaign, row, link, send, delivered, cutOff>>
  BY DEF LookUpMember, AddSend, sendVars
<1>6. Doomed' => Doomed
  BY <1>3, <1>4, <1>5 DEF Doomed
<1>7. ReportOfActiveJob' /\ (\A d \in Contacts : Reported(d)')
  <2>1. CASE UNCHANGED sendJob
    BY <1>5, <2>1 DEF GInv, ReportOfActiveJob, Reported
  <2>2. CASE sendJob' = [sendJob EXCEPT ![c] = Added(@)]
    <3>1. \A d \in Contacts : sendJob[d].state = "active" => sendJob'[d].state = "active"
      BY <1>1, <2>2 DEF Added, Jobs
    <3> QED BY <1>5, <3>1 DEF GInv, ReportOfActiveJob, Reported
  <2> QED BY <2>1, <2>2 DEF LookUpMember, AddSend, sendVars
<1> QED BY <1>2, <1>3, <1>5, <1>6, <1>7, NothingLinked DEF Unlinked, Included

(* An excluded recipient has no row, and BLOCKED is what it stays.         *)
LEMMA BlockExcludedKept ==
  ASSUME IInv, GInv, NEW r \in Runs, NEW c \in Contacts, BlockExcluded(r, c)
  PROVE  Kept
<1>1. run \in RunType /\ link \in [Contacts -> LinkStatuses]
  BY DEF IInv, TypeOK, RunType
<1>2. /\ UNCHANGED <<campaign, row, sendJob, send, delivered, cutOff>>
      /\ c \in Excluded /\ c \notin Included
      /\ MemberAt(r, c, "done")
      /\ link' = [link EXCEPT ![c] = "BLOCKED"]
  BY DEF BlockExcluded, sendVars, Included
<1>3. /\ \A q \in Runs : run'[q].at = run[q].at
      /\ \A q \in Runs, d \in Contacts :
            run'[q].member[d] = IF q = r /\ d = c THEN "done" ELSE run[q].member[d]
  BY <1>1, <1>2, MemberAtEffect DEF MemberSteps
<1>4. \A q \in Runs : run'[q].verdict = run[q].verdict
  BY <1>1, <1>2 DEF MemberAt, RunType
<1>5. Doomed' => Doomed
  BY <1>2, <1>3, <1>4 DEF Doomed
<1>6. \A q \in Runs : run[q].member[c] \notin Unlinked
  BY <1>2 DEF IInv, MemberInv, InHand, Unlinked, MemberSteps
<1>7. ExcludedUnwritten' /\ ReportOfActiveJob'
  BY <1>2 DEF GInv, ExcludedUnwritten, ReportOfActiveJob
<1>11. \A d \in Contacts : Reported(d)'
  <2>1. row[c] = "NONE" /\ send[c].at \notin Reporting
    BY <1>2 DEF GInv, ExcludedUnwritten, IInv, RowInv
  <2>2. Reported(c)'
    BY <1>2, <2>1 DEF GInv, Reported
  <2>3. \A d \in Contacts \ {c} : link'[d] = link[d]
    BY <1>1, <1>2
  <2> QED BY <1>2, <2>2, <2>3 DEF GInv, Reported
<1>8. DoneHasRow'
  BY <1>2, <1>3 DEF GInv, DoneHasRow, Included
<1>9. OneCreator' /\ CreatedUnlinked'
  BY <1>1, <1>2, <1>3, <1>6 DEF GInv, OneCreator, CreatedUnlinked, Unlinked
<1>10. Forlorn => Forlorn'
  BY <1>1, <1>2, <1>3, <1>5 DEF Forlorn, Hopeless
<1> QED BY <1>7, <1>8, <1>9, <1>10, <1>11 DEF GInv, Kept

(* A row is created for a recipient that has no link, by one fan-out, and  *)
(* not while the campaign is doomed: there would have been hope.           *)
LEMMA CreateRowKept ==
  ASSUME IInv, GInv, NEW r \in Runs, NEW c \in Contacts, CreateRow(r, c)
  PROVE  Kept
<1>1. /\ run \in RunType /\ row \in [Contacts -> MessageStatuses]
      /\ link \in [Contacts -> LinkStatuses]
  BY DEF IInv, TypeOK, RunType
<1>2. /\ UNCHANGED <<campaign, link, sendJob, send, delivered, cutOff>>
      /\ run[r].member[c] = "absent"
      /\ c \in Included
  BY DEF CreateRow, IInv, MemberInv, InHand, MemberSteps
<1>3. CASE row' = row /\ AbandonRun(r)
  BY <1>2, <1>3, ResetKept DEF AbandonRun
<1>4. CASE row[c] = "NONE" /\ \E status \in {"QUEUED", "BLOCKED"}, step \in Unlinked :
             row' = [row EXCEPT ![c] = status] /\ MemberAt(r, c, step)
  <2>1. PICK step \in Unlinked : MemberAt(r, c, step)
    BY <1>4
  <2>2. /\ \A q \in Runs : run'[q].at = run[q].at
        /\ \A q \in Runs, d \in Contacts :
              run'[q].member[d] = IF q = r /\ d = c THEN step ELSE run[q].member[d]
    BY <1>1, <2>1, MemberAtEffect DEF MemberSteps, Unlinked
  <2>3. \A q \in Runs : run'[q].verdict = run[q].verdict
    BY <1>1, <2>1 DEF MemberAt, RunType
  <2>4. row'[c] # "NONE" /\ \A d \in Contacts \ {c} : row'[d] = row[d]
    BY <1>1, <1>4
  <2>5. link[c] = "NONE"
    BY <1>1, <1>2, <1>4 DEF IInv, LinksFollow, LinkInv, RowInv, LinkStatuses, Settled
  <2>6. \A q \in Runs : run[q].member[c] \notin Unlinked
    BY <1>4 DEF IInv, MemberInv, Unlinked
  <2>7. Forlorn => ~Doomed
    BY <1>2, <1>4, <2>5 DEF Forlorn, Hopeless, Included
  <2>8. Forlorn => Forlorn'
    BY <1>2, <2>2, <2>3, <2>7 DEF Forlorn, Doomed
  <2>9. ExcludedUnwritten' /\ ReportOfActiveJob'
    BY <1>2, <2>4 DEF GInv, ExcludedUnwritten, ReportOfActiveJob, Included, Excluded
  <2>12. \A d \in Contacts : Reported(d)'
    <3>1. send[c].at # "accepted" /\ send[c].at \notin Reporting
      BY <1>4 DEF IInv, RowInv, BeforeSent
    <3>2. Reported(c)'
      BY <1>2, <1>4, <3>1 DEF GInv, Reported
    <3> QED BY <1>2, <2>4, <3>2 DEF GInv, Reported
  <2>10. DoneHasRow'
    BY <2>2, <2>4 DEF GInv, DoneHasRow, Included, Unlinked
  <2>11. OneCreator' /\ CreatedUnlinked'
    BY <1>2, <2>2, <2>5, <2>6 DEF GInv, OneCreator, CreatedUnlinked
  <2> QED BY <2>8, <2>9, <2>10, <2>11, <2>12 DEF GInv, Kept
<1> QED BY <1>3, <1>4 DEF CreateRow, Unlinked

(* The fan-out that created a row links it; were the campaign doomed, its  *)
(* recipient could only be blocked.                                        *)
LEMMA LinkRowKept ==
  ASSUME IInv, GInv, NEW r \in Runs, NEW c \in Contacts, LinkRow(r, c)
  PROVE  Kept
<1>1. run \in RunType /\ link \in [Contacts -> LinkStatuses]
  BY DEF IInv, TypeOK, RunType
<1>2. /\ UNCHANGED <<campaign, row, sendJob, send, delivered, cutOff>>
      /\ run[r].member[c] \in Unlinked
  BY DEF LinkRow, sendVars, Unlinked
<1>3. PICK step \in {"linked", "done"} : MemberAt(r, c, step)
  BY DEF LinkRow
<1>4. /\ \A q \in Runs : run'[q].at = run[q].at
      /\ \A q \in Runs, d \in Contacts :
            run'[q].member[d] = IF q = r /\ d = c THEN step ELSE run[q].member[d]
  BY <1>1, <1>3, MemberAtEffect DEF MemberSteps
<1>5. \A q \in Runs : run'[q].verdict = run[q].verdict
  BY <1>1, <1>3 DEF MemberAt, RunType
<1>6. Doomed' => Doomed
  BY <1>2, <1>4, <1>5 DEF Doomed
<1>7. row[c] # "NONE" /\ link[c] = "NONE"
  BY <1>2 DEF IInv, MemberInv, GInv, CreatedUnlinked, Unlinked
<1>8. \A d \in Contacts \ {c} : link'[d] = link[d]
  BY <1>1 DEF LinkRow
<1>9. \A q \in Runs : run'[q].member[c] \notin Unlinked
  BY <1>2, <1>4 DEF GInv, OneCreator, Unlinked
<1>10. ExcludedUnwritten' /\ ReportOfActiveJob'
  BY <1>2 DEF GInv, ExcludedUnwritten, ReportOfActiveJob
<1>16. \A d \in Contacts : Reported(d)'
  <2>1. Reported(c)'
    BY <1>2, <1>7 DEF GInv, Reported
  <2> QED BY <1>2, <1>8, <2>1 DEF GInv, Reported
<1>11. DoneHasRow'
  BY <1>2, <1>4, <1>7 DEF GInv, DoneHasRow, Included
<1>12. OneCreator' /\ CreatedUnlinked'
  BY <1>4, <1>8, <1>9 DEF GInv, OneCreator, CreatedUnlinked
<1>13. Forlorn /\ Doomed => run[r].member[c] # "created"
  BY <1>7 DEF Forlorn, Hopeless
<1>14. Forlorn /\ Doomed => link'[c] = "BLOCKED"
  BY <1>1, <1>13 DEF LinkRow
<1>15. ASSUME Forlorn, Doomed', NEW d \in Contacts
       PROVE  Hopeless(d)'
  <2>1. CASE d = c
    BY <1>6, <1>14, <1>15, <2>1 DEF Hopeless
  <2>2. CASE d # c
    BY <1>2, <1>4, <1>6, <1>8, <1>15, <2>2 DEF Forlorn, Hopeless
  <2> QED BY <2>1, <2>2
<1> QED BY <1>10, <1>11, <1>12, <1>15, <1>16 DEF GInv, Kept, Forlorn

(* A verdict of FAILED is counted only when nobody can still be sent to,   *)
(* provided the count sees whatever other fan-outs have in hand.           *)
LEMMA CountLinksKept ==
  ASSUME IInv, GInv, NEW r \in Runs, CountLinks(r)
  PROVE  Kept
<1>1. run \in RunType /\ link \in [Contacts -> LinkStatuses]
  BY DEF IInv, TypeOK, RunType
<1>2. /\ UNCHANGED <<campaign, row, link, sendJob, send, delivered, cutOff>>
      /\ run[r].at = "loop" /\ \A c \in Contacts : run[r].member[c] = "done"
  BY DEF CountLinks, sendVars
<1>3. /\ \A q \in Runs : run'[q].member = run[q].member
      /\ \A q \in Runs \ {r} : run'[q] = run[q]
      /\ run'[r].verdict = "FAILED" => PendingLinks = {} /\ SentLinks = {}
  BY <1>1 DEF CountLinks, RunType
<1>4. ReportOfActiveJob' /\ (\A d \in Contacts : Reported(d)')
  BY <1>2 DEF GInv, ReportOfActiveJob, Reported
<1>5. CASE run'[r].verdict # "FAILED"
  <2>1. Doomed' => Doomed
    BY <1>2, <1>3, <1>5 DEF Doomed
  <2> QED BY <1>2, <1>3, <1>4, <2>1, NothingLinked
<1>6. CASE run'[r].verdict = "FAILED"
  <2>1. \A c \in Contacts : link[c] \in {"NONE", "BLOCKED", "FAILED"}
    BY <1>1, <1>3, <1>6 DEF PendingLinks, SentLinks, LinkStatuses
  <2>2. \A c \in Contacts : c \in Excluded \/ row[c] # "NONE"
    BY <1>2 DEF GInv, DoneHasRow, Included
  <2>3. CountSeesAll => \A q \in Runs, c \in Contacts : run[q].member[c] # "created"
    BY <1>2 DEF CountSeesAll
  <2>4. CountSeesAll => \A c \in Contacts : Hopeless(c)'
    BY <1>2, <1>3, <2>1, <2>2, <2>3 DEF Hopeless
  <2>5. ExcludedUnwritten' /\ DoneHasRow' /\ OneCreator' /\ CreatedUnlinked'
    BY <1>2, <1>3 DEF GInv, ExcludedUnwritten, DoneHasRow, OneCreator, CreatedUnlinked
  <2> QED BY <1>4, <2>4, <2>5 DEF GInv, Kept, Forlorn
<1> QED BY <1>5, <1>6

(* Every step of a fan-out keeps GInv.                                     *)
LEMMA RunKept ==
  ASSUME IInv, GInv, NEW r \in Runs, RunStep(r) \/ RunFault(r)
  PROVE  Kept
<1>1. CASE \/ CheckPolicy(r) \/ PauseRefused(r) \/ MarkRunning(r) \/ WriteVerdict(r)
           \/ StartRun(r) /\ run' # run
  <2>1. \E step \in RunSteps \ {"counted"} : RunAt(r, step)
    BY <1>1 DEF CheckPolicy, PauseRefused, MarkRunning, WriteVerdict, StartRun, RunSteps
  <2>2. UNCHANGED <<row, link, sendJob, send, delivered, cutOff>>
    BY <1>1 DEF CheckPolicy, PauseRefused, MarkRunning, WriteVerdict, StartRun, sendVars
  <2>3. campaign' \in {campaign, "PAUSED", "RUNNING"}
           \/ (run[r].at = "counted" /\ campaign' = run[r].verdict)
    BY <1>1 DEF CheckPolicy, PauseRefused, MarkRunning, WriteVerdict, StartRun, SetStatus
  <2> QED BY <2>1, <2>2, <2>3, RunAtKept
<1>2. CASE EndRun(r) \/ RunFails(r) \/ RunLost(r)
  BY <1>2, ResetKept DEF EndRun, RunFails, RunLost, AbandonRun, sendVars
<1>3. CASE RunStalls(r) \/ RunPromoted(r) \/ RunForgotten(r) \/ (StartRun(r) /\ run' = run)
  BY <1>3, NothingTouched DEF RunStalls, RunPromoted, RunForgotten, StartRun, sendVars
<1>4. ASSUME NEW c \in Contacts,
             BlockExcluded(r, c) \/ LookUpMember(r, c) \/ CreateRow(r, c) \/ LinkRow(r, c) \/ AddSend(r, c)
      PROVE  Kept
  BY <1>4, BlockExcludedKept, MemberMovesKept, CreateRowKept, LinkRowKept
<1>5. CASE CountLinks(r)
  BY <1>5, CountLinksKept
<1> QED BY <1>1, <1>2, <1>3, <1>4, <1>5 DEF RunStep, RunFault

(* Nobody whose message is not sent is reported as sent, and a recipient   *)
(* reported as something else is not reported as sent later.               *)
LEMMA UpdateLinkKept ==
  ASSUME IInv, GInv, NEW c \in Contacts, UpdateLink(c)
  PROVE  Kept
<1>1. send \in SendType /\ link \in [Contacts -> LinkStatuses]
  BY DEF IInv, TypeOK, SendType
<1>2. UNCHANGED <<campaign, row, sendJob, delivered, cutOff, run>>
  BY DEF UpdateLink, runVars
<1>3. /\ send[c].at = "settled"
      /\ link'[c] = send[c].outcome
      /\ \A d \in Contacts \ {c} : link'[d] = link[d]
      /\ \A d \in Contacts : send'[d].outcome = send[d].outcome
      /\ \A d \in Contacts : send'[d].at \in Reporting => send[d].at \in Reporting
  BY <1>1 DEF UpdateLink, SendAt, SendType, Reporting
<1>4. row[c] # "NONE" /\ link[c] # "NONE"
  BY <1>3 DEF IInv, RowInv, SendJobInv, JobHasLink, Reporting
<1>5. ASSUME send[c].outcome = "SENT"
      PROVE  link[c] \notin {"BLOCKED", "FAILED"}
  <2>1. row[c] = "SENT" /\ sendJob[c].state = "active"
    BY <1>3, <1>5 DEF IInv, RowInv, GInv, ReportOfActiveJob, Reporting, Settled
  <2>2. c \in Included
    BY <1>4 DEF GInv, ExcludedUnwritten, Included
  <2> QED BY <2>1, <2>2 DEF IInv, LinksFollow, LinkInv, Settled
<1>6. ExcludedUnwritten' /\ DoneHasRow' /\ OneCreator'
  BY <1>2 DEF GInv, ExcludedUnwritten, DoneHasRow, OneCreator
<1>7. ReportOfActiveJob'
  BY <1>2, <1>3 DEF GInv, ReportOfActiveJob
<1>10. \A d \in Contacts : Reported(d)'
  <2>1. send'[c].at = "linked" /\ \A d \in Contacts \ {c} : send'[d] = send[d]
    BY <1>1 DEF UpdateLink, SendAt, SendType
  <2>2. Reported(c)'
    BY <1>2, <1>3, <2>1 DEF GInv, Reported, Reporting
  <2> QED BY <1>2, <1>3, <2>1, <2>2 DEF GInv, Reported
<1>8. CreatedUnlinked'
  BY <1>2, <1>3, <1>4 DEF GInv, CreatedUnlinked
<1>9. ASSUME Forlorn, Doomed', NEW d \in Contacts
      PROVE  Hopeless(d)'
  <2>1. \A e \in Contacts : Hopeless(e)
    BY <1>2, <1>9 DEF Forlorn, Doomed
  <2>2. CASE d = c
    <3>1. link'[c] \in {"BLOCKED", "FAILED"}
      BY <1>1, <1>3, <1>4, <1>5, <2>1 DEF Hopeless, SendType
    <3> QED BY <2>2, <3>1 DEF Hopeless
  <2>3. CASE d # c
    BY <1>2, <1>3, <2>1, <2>3 DEF Hopeless
  <2> QED BY <2>2, <2>3
<1> QED BY <1>6, <1>7, <1>8, <1>9, <1>10 DEF GInv, Kept, Forlorn

(* A copy that nothing broke off stays reported, or on its way there.      *)
LEMMA SendReported ==
  ASSUME IInv, GInv, NEW c \in Contacts, SendStep(c) \/ SendFault(c), ~UpdateLink(c)
  PROVE  \A d \in Contacts : Reported(d)'
<1>0. /\ send \in SendType /\ row \in [Contacts -> MessageStatuses]
      /\ delivered \in [Contacts -> Nat]
      /\ SendJobInv(c) /\ RowInv(c) /\ Reported(c)
  BY DEF IInv, TypeOK, SendType, GInv
<1>1. link' = link
  BY DEF SendStep, SendFault, StartSend, BlockMessage, MarkSending, PlatformAccepts, RecordSent,
         CountPending, WriteProgress, OnFailed, SendStalls, SendPromoted, DeferForRate, SendFails,
         SendLost
<1>2. ASSUME NEW d \in Contacts \ {c}
      PROVE  /\ row'[d] = row[d] /\ send'[d] = send[d] /\ delivered'[d] = delivered[d]
             /\ d \in cutOff' <=> d \in cutOff
  BY <1>0 DEF SendStep, SendFault, StartSend, BlockMessage, MarkSending, PlatformAccepts, RecordSent,
         CountPending, WriteProgress, OnFailed, SendStalls, SendPromoted, DeferForRate, SendFails,
         SendLost, CutOff, EndSend, SendAt, SendType
<1>3. Reported(c)'
  <2>1. CASE SendFails(c) \/ SendLost(c)
    <3>1. UNCHANGED <<row, delivered>> /\ send[c].at # "idle" /\ CutOff(c)
      BY <2>1 DEF SendFails, SendLost
    <3> QED BY <1>0, <3>1 DEF Reported, CutOff
  <2>2. CASE StartSend(c) \/ SendStalls(c) \/ SendPromoted(c)
    <3>1. UNCHANGED <<row, delivered, cutOff>>
      BY <2>2 DEF StartSend, SendStalls, SendPromoted
    <3>2. CASE send' = send
      BY <1>0, <1>1, <3>1, <3>2 DEF Reported
    <3>3. CASE send' # send
      <4>1. row[c] # "SENT" /\ sendJob[c].state = "waiting"
        BY <2>2, <3>3 DEF StartSend, SendStalls, SendPromoted, Settled
      <4>2. delivered[c] = 0 \/ c \in cutOff
        BY <1>0, <4>1 DEF Reported, SendJobInv, BeforeSent
      <4> QED BY <3>1, <4>2 DEF Reported
    <3> QED BY <3>2, <3>3
  <2>3. CASE PlatformAccepts(c)
    BY <1>0, <2>3 DEF PlatformAccepts, SendAt, SendType, Reported
  <2>4. CASE RecordSent(c)
    BY <1>0, <2>4 DEF RecordSent, SendType, Reported, Reporting
  <2>5. CASE BlockMessage(c) \/ MarkSending(c) \/ OnFailed(c)
    <3>1. send[c].at \in {"cancelled", "read", "onFailed"} /\ UNCHANGED <<delivered, cutOff>>
      BY <2>5 DEF BlockMessage, MarkSending, OnFailed
    <3> QED BY <1>0, <3>1 DEF Reported, Reporting
  <2>6. CASE CountPending(c)
    BY <1>0, <1>1, <2>6 DEF CountPending, SendType, Reported, Reporting
  <2>7. CASE WriteProgress(c) \/ DeferForRate(c)
    <3>1. /\ UNCHANGED <<row, delivered, cutOff>>
          /\ send[c].at \in {"counted", "read"}
          /\ send'[c].at = "idle"
      BY <1>0, <2>7 DEF WriteProgress, DeferForRate, EndSend, NoSend, SendType
    <3> QED BY <1>0, <1>1, <3>1 DEF Reported, RowInv, Reporting, Settled
  <2> QED BY <2>1, <2>2, <2>3, <2>4, <2>5, <2>6, <2>7 DEF SendStep, SendFault
<1> QED BY <1>1, <1>2, <1>3 DEF GInv, Reported

(* Nothing else processMessage does can save a doomed campaign.            *)
LEMMA SendKept ==
  ASSUME IInv, GInv, NEW c \in Contacts, SendStep(c) \/ SendFault(c), ~UpdateLink(c)
  PROVE  Kept
<1>0. /\ send \in SendType /\ sendJob \in [Contacts -> Jobs] /\ row \in [Contacts -> MessageStatuses]
      /\ SendJobInv(c) /\ RowInv(c)
  BY DEF IInv, TypeOK, SendType
<1>1. UNCHANGED <<link, run>> /\ campaign' \in {campaign, "COMPLETED"}
  BY DEF SendStep, SendFault, StartSend, BlockMessage, MarkSending, PlatformAccepts, RecordSent,
         CountPending, WriteProgress, OnFailed, SendStalls, SendPromoted, DeferForRate, SendFails,
         SendLost, runVars
<1>2. ASSUME NEW d \in Contacts \ {c}
      PROVE  row'[d] = row[d] /\ sendJob'[d] = sendJob[d] /\ send'[d] = send[d]
  BY <1>0 DEF SendStep, SendFault, StartSend, BlockMessage, MarkSending, PlatformAccepts, RecordSent,
         CountPending, WriteProgress, OnFailed, SendStalls, SendPromoted, DeferForRate, SendFails,
         SendLost, EndSend, SendAt, SendType
<1>3. row'[c] = "NONE" <=> row[c] = "NONE"
  <2>1. CASE BlockMessage(c) \/ MarkSending(c) \/ RecordSent(c)
    BY <1>0, <2>1 DEF BlockMessage, MarkSending, RecordSent, RowInv, BeforeSent
  <2>2. CASE OnFailed(c)
    BY <1>0, <2>2 DEF OnFailed
  <2>3. CASE row' = row
    BY <2>3
  <2> QED BY <2>1, <2>2, <2>3 DEF SendStep, SendFault, StartSend, PlatformAccepts, CountPending,
                WriteProgress, SendStalls, SendPromoted, DeferForRate, SendFails, SendLost
<1>4. ReportOfActiveJob'
  <2>1. CASE \/ SendStalls(c) \/ SendPromoted(c) \/ CountPending(c)
             \/ StartSend(c) /\ send' = send
    <3>1. send[c].at \in Reporting /\ send[c].outcome # "FAILED" => sendJob[c].state = "active"
      BY DEF GInv, ReportOfActiveJob
    <3>2. send'[c].at \in Reporting => send[c].at \in Reporting
      BY <1>0, <2>1 DEF SendStalls, SendPromoted, CountPending, StartSend, SendType, Reporting
    <3>3. send'[c].outcome = send[c].outcome
      BY <1>0, <2>1 DEF SendStalls, SendPromoted, CountPending, StartSend, SendType
    <3>4. send[c].at \in Reporting /\ sendJob[c].state = "active" => sendJob' = sendJob
      BY <2>1 DEF SendStalls, SendPromoted, CountPending, StartSend, Reporting
    <3> QED BY <1>2, <3>1, <3>2, <3>3, <3>4 DEF GInv, ReportOfActiveJob
  <2>2. CASE BlockMessage(c) \/ RecordSent(c)
    <3>1. sendJob'[c].state = "active"
      BY <1>0, <2>2 DEF BlockMessage, RecordSent, SendJobInv, BeforeSent
    <3> QED BY <1>2, <3>1 DEF GInv, ReportOfActiveJob
  <2>3. CASE OnFailed(c)
    <3>1. send'[c].outcome = "FAILED"
      BY <1>0, <2>3 DEF OnFailed, SendType
    <3> QED BY <1>2, <3>1 DEF GInv, ReportOfActiveJob
  <2>4. CASE \/ MarkSending(c) \/ PlatformAccepts(c) \/ WriteProgress(c) \/ DeferForRate(c)
             \/ SendFails(c) \/ SendLost(c)
             \/ StartSend(c) /\ send' # send
    <3>1. send'[c].at \notin Reporting
      BY <1>0, <2>4 DEF MarkSending, PlatformAccepts, WriteProgress, DeferForRate, SendFails, SendLost,
                  StartSend, EndSend, SendAt, NoSend, SendType, Reporting
    <3> QED BY <1>2, <3>1 DEF GInv, ReportOfActiveJob
  <2> QED BY <2>1, <2>2, <2>3, <2>4 DEF SendStep, SendFault
<1>5. Doomed' => Doomed
  BY <1>1 DEF Doomed
<1>6. \A d \in Contacts : Reported(d)'
  BY SendReported
<1> QED BY <1>1, <1>2, <1>3, <1>4, <1>5, <1>6, NothingLinked

(* Every step keeps GInv, and with it what was counted, as long as no      *)
(* count misses a row another fan-out has in hand.                         *)
LEMMA NextKept == IInv /\ GInv /\ [Next]_vars => Kept
<1> SUFFICES ASSUME IInv, GInv, [Next]_vars PROVE Kept
  OBVIOUS
<1>1. CASE OutsideStep \/ \E k \in Calls : CallStep(k)
  BY <1>1, OperatorKept
<1>2. ASSUME NEW r \in Runs, RunStep(r) \/ RunFault(r) PROVE Kept
  BY <1>2, RunKept
<1>3. ASSUME NEW c \in Contacts, SendStep(c) \/ SendFault(c) PROVE Kept
  BY <1>3, UpdateLinkKept, SendKept
<1>4. CASE UNCHANGED vars
  BY <1>4, NothingTouched DEF vars, sendVars, runVars
<1> QED BY <1>1, <1>2, <1>3, <1>4 DEF Next

LEMMA ReportsHold == Spec => []GInv
<1>1. IInv /\ GInv /\ [Next]_vars => GInv'
  BY NextKept DEF Kept
<1> QED BY <1>1, InvariantHolds, InitGInv, PTL DEF Spec

(* A sent message that no attempt broke off is not reported as FAILED: the *)
(* listener runs for a failed job, and its job is active or it is SENT.    *)
LEMMA ReportedFollows == IInv /\ GInv => LinkFollowsMessage
<1> SUFFICES ASSUME IInv, GInv, NEW c \in Included
             PROVE  /\ link[c] \in Settled => row[c] = link[c]
                    /\ link[c] = "QUEUED" => row[c] # "NONE"
                    /\ link[c] = "FAILED" =>
                          /\ sendJob[c].state = "failed"
                          /\ sendJob[c].attempts = MaxAttempts
                          /\ delivered[c] > 0 => c \in cutOff
                    /\ delivered[c] > 0 =>
                          link[c] = "SENT" \/ send[c].at \in {"accepted", "settled"} \/ c \in cutOff
  BY DEF LinkFollowsMessage
<1>1. c \in Contacts /\ LinkInv(c) /\ SendJobInv(c) /\ Reported(c)
  BY DEF IInv, GInv, LinksFollow, Included
<1>2. link[c] = "FAILED" /\ delivered[c] > 0 => c \in cutOff
  BY <1>1 DEF LinkInv, SendJobInv, Reported, GInv, ReportOfActiveJob, BeforeSent
<1>3. delivered[c] > 0 => link[c] = "SENT" \/ send[c].at \in {"accepted", "settled"} \/ c \in cutOff
  BY <1>1 DEF Reported
<1> QED BY <1>1, <1>2, <1>3 DEF LinkInv

(* What a campaign reports of a recipient is true of its message, and a    *)
(* message that went out is reported, however attempts, listeners and      *)
(* fan-outs interleave; the report is lost, or replaced by FAILED, only    *)
(* when an attempt broke off after the platform had accepted.              *)
THEOREM ReportsAreTrue == Spec => []LinkFollowsMessage
BY InvariantHolds, ReportsHold, ReportedFollows, PTL

(* In a doomed campaign nobody is or will be reported as SENT, so nobody   *)
(* has a message whose report was not cut off.                             *)
LEMMA DoomedSentOnlyCutOff == IInv /\ GInv /\ Forlorn => FailedCampaignSentOnlyCutOff
<1> SUFFICES ASSUME IInv, GInv, Forlorn, campaign = "FAILED",
                    NEW c \in Contacts, delivered[c] > 0, c \notin cutOff
             PROVE  FALSE
  BY DEF FailedCampaignSentOnlyCutOff
<1>1. Hopeless(c) /\ Reported(c) /\ SendJobInv(c) /\ RowInv(c) /\ LinkInv(c)
  BY DEF Forlorn, Doomed, IInv, GInv, LinksFollow
<1>2. \/ send[c].at = "idle" /\ link[c] = "SENT"
      \/ sendJob[c].state = "active" /\ row[c] \in {"QUEUED", "SENDING", "SENT"}
  BY <1>1 DEF Reported, SendJobInv, RowInv, BeforeSent, GInv, ReportOfActiveJob, Settled
<1>3. CASE sendJob[c].state = "active" /\ row[c] \in {"QUEUED", "SENDING", "SENT"}
  <2>1. link[c] # "NONE"
    BY <1>3 DEF IInv, JobHasLink
  <2>2. c \in Included
    BY <1>3 DEF GInv, ExcludedUnwritten, Included
  <2> QED BY <1>1, <1>3, <2>1, <2>2 DEF Hopeless, LinkInv, Settled
<1> QED BY <1>1, <1>2, <1>3 DEF Hopeless

(* A campaign ends as FAILED with a message sent only when an attempt at   *)
(* that message broke off behind the platform's answer, in any behaviour   *)
(* in which no fan-out counts while another holds a row it has not linked, *)
(* however many jobs fan the campaign out.                                 *)
THEOREM FailureIsTrueOfWhatIsCounted ==
  Spec /\ []CountSeesAll => []FailedCampaignSentOnlyCutOff
<1>1. GInv /\ IInv /\ Forlorn /\ CountSeesAll /\ [Next]_vars => Forlorn'
  BY NextKept DEF Kept
<1>2. Spec /\ []CountSeesAll => []Forlorn
  BY <1>1, InvariantHolds, ReportsHold, InitGInv, PTL DEF Spec
<1> QED BY <1>2, InvariantHolds, ReportsHold, DoomedSentOnlyCutOff, PTL

(* What one fan-out job is enough for: nobody resumes the campaign, and    *)
(* the scheduler has nothing to launch.                                    *)
OnlyLaunched ==
    "scheduler" \notin Hazards /\ \A k \in Calls : "resume" \notin MayAsk[k]

OneFanOut ==
    /\ tick = "idle"
    /\ \A k \in Calls :
          /\ call[k].op # "resume"
          /\ call[k].at = "written" => call[k].op \in StartsRun
    /\ \A r \in Runs \ {"launch"} : runJob[r].state = "none" /\ run[r].at = "idle"

(* Then no other fan-out job is ever added, and so none is worked on.      *)
LEMMA NextOneFanOut ==
  ASSUME OnlyLaunched, IInv, OneFanOut, [Next]_vars
  PROVE  OneFanOut'
<1>1. call \in CallType /\ run \in RunType /\ runJob \in [Runs -> Jobs]
  BY DEF IInv, TypeOK, CallType, RunType
<1>2. CASE OutsideStep
  <2>1. UNCHANGED <<call, run, runJob>> /\ tick' = "idle"
    BY <1>2 DEF OutsideStep, TickReads, TickEnqueues, CloseOutbound, PauseCampaigns, HaltLost,
                ReopenOutbound, runVars, OneFanOut, OnlyLaunched
  <2> QED BY <2>1 DEF OneFanOut
<1>3. ASSUME NEW k \in Calls, CallStep(k)
      PROVE  OneFanOut'
  <2>1. UNCHANGED <<run, tick>> /\ \A l \in Calls \ {k} : call'[l] = call[l]
    BY <1>1, <1>3 DEF CallStep, ReadCampaign, AssertOutboundAllowed, WriteStatus, EnqueueRun,
                      CallAborted, CallAt, runVars, CallType
  <2>2. call'[k].op # "resume" /\ (call'[k].at = "written" => call'[k].op \in StartsRun)
    <3>1. ASSUME NEW op \in MayAsk[k], ReadCampaign(k, op)
          PROVE  call'[k].op # "resume" /\ call'[k].at # "written"
      BY <1>1, <3>1 DEF ReadCampaign, OnlyLaunched, CallType
    <3>2. CASE AssertOutboundAllowed(k) \/ WriteStatus(k) \/ EnqueueRun(k) \/ CallAborted(k)
      BY <1>1, <3>2 DEF AssertOutboundAllowed, WriteStatus, EnqueueRun, CallAborted, CallAt,
                        OneFanOut, CallType
    <3> QED BY <1>3, <3>1, <3>2 DEF CallStep
  <2>3. \A r \in Runs \ {"launch"} : runJob'[r] = runJob[r]
    <3>1. CASE EnqueueRun(k)
      <4>1. call[k].op = "launch"
        BY <3>1 DEF EnqueueRun, OneFanOut, StartsRun
      <4> QED BY <1>1, <3>1, <4>1 DEF EnqueueRun
    <3>2. CASE runJob' = runJob
      BY <3>2
    <3> QED BY <1>3, <3>1, <3>2 DEF CallStep, ReadCampaign, AssertOutboundAllowed, WriteStatus,
                                    CallAborted, runVars
  <2> QED BY <2>1, <2>2, <2>3 DEF OneFanOut
<1>4. ASSUME NEW q \in Runs, RunStep(q) \/ RunFault(q)
      PROVE  OneFanOut'
  <2>1. UNCHANGED <<call, tick>>
    BY <1>4 DEF RunStep, RunFault, StartRun, CheckPolicy, PauseRefused, MarkRunning, BlockExcluded,
                LookUpMember, CreateRow, LinkRow, AddSend, CountLinks, WriteVerdict, EndRun, RunFails,
                RunLost, RunStalls, RunPromoted, RunForgotten, operatorVars
  <2>2. q = "launch"
    <3> SUFFICES ASSUME q # "launch" PROVE FALSE
      OBVIOUS
    <3>1. runJob[q].state = "none" /\ run[q].at = "idle"
      BY DEF OneFanOut
    <3>2. \A c \in Contacts : run[q].member[c] \notin InHand
      BY <3>1 DEF IInv, MemberInv
    <3> QED BY <1>4, <3>1, <3>2 DEF RunStep, RunFault, StartRun, CheckPolicy, PauseRefused, MarkRunning,
                BlockExcluded, LookUpMember, CreateRow, LinkRow, AddSend, CountLinks, WriteVerdict,
                EndRun, RunFails, RunLost, RunStalls, RunPromoted, RunForgotten, NextMember, InHand,
                MemberSteps
  <2>3. \A r \in Runs \ {"launch"} : runJob'[r] = runJob[r] /\ run'[r] = run[r]
    BY <1>1, <1>4, <2>2 DEF RunStep, RunFault, StartRun, CheckPolicy, PauseRefused, MarkRunning,
                BlockExcluded, LookUpMember, CreateRow, LinkRow, AddSend, CountLinks, WriteVerdict,
                EndRun, RunFails, RunLost, RunStalls, RunPromoted, RunForgotten, AbandonRun, RunAt,
                MemberAt, RunType
  <2> QED BY <2>1, <2>3 DEF OneFanOut
<1>5. CASE UNCHANGED vars \/ \E c \in Contacts : SendStep(c) \/ SendFault(c)
  <2>1. UNCHANGED <<call, tick, run, runJob>>
    BY <1>5 DEF vars, runVars, operatorVars, SendStep, SendFault, StartSend, BlockMessage, MarkSending,
                PlatformAccepts, RecordSent, UpdateLink, CountPending, WriteProgress, OnFailed,
                SendStalls, SendPromoted, DeferForRate, SendFails, SendLost
  <2> QED BY <2>1 DEF OneFanOut
<1> QED BY <1>2, <1>3, <1>4, <1>5 DEF Next

(* A single fan-out that counts has nothing in hand itself.                *)
LEMMA OneFanOutSeesAll == IInv /\ OneFanOut => CountSeesAll
BY DEF IInv, MemberInv, OneFanOut, CountSeesAll, InHand, MemberSteps

(* A campaign fanned out by one job ends as FAILED with a message sent     *)
(* only when the report of that message was cut off: not by any retry or   *)
(* crash of the job, and not by anybody who pauses, cancels or halts it    *)
(* meanwhile.                                                              *)
THEOREM FailureIsTrueOfOneFanOut ==
  ASSUME OnlyLaunched
  PROVE  Spec => []FailedCampaignSentOnlyCutOff
<1>1. Init => OneFanOut
  BY DEF Init, OneFanOut, NoJob, NoRun
<1>2. Spec => []OneFanOut
  BY <1>1, NextOneFanOut, InvariantHolds, PTL DEF Spec
<1>3. Spec => []CountSeesAll
  BY <1>2, InvariantHolds, OneFanOutSeesAll, PTL
<1> QED BY <1>3, FailureIsTrueOfWhatIsCounted, PTL

=============================================================================
