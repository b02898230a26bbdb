----------------------------- MODULE ReliableSend -----------------------------
(***************************************************************************)
(* What sending a message with an idempotency key promises, without rows,  *)
(* jobs and attempts.  A message is taken in once, as PENDING or BLOCKED;  *)
(* while it is PENDING copies of it may reach the platform, one at a time; *)
(* it becomes SENT only by the recorded answer to a copy, BLOCKED or       *)
(* FAILED only while no answer is awaited; and what it became stays.  A    *)
(* further copy is sent only after the answer to the last one was lost.    *)
(***************************************************************************)
EXTENDS Naturals

CONSTANT Messages

VARIABLES
    outcome,        \* what has become of each message
    inHand,         \* the messages whose copy was answered, not yet recorded
    copies,         \* the copies the platform accepted
    lost            \* the answers that were never recorded

vars == <<outcome, inHand, copies, lost>>

Outcomes == {"NONE", "PENDING", "SENT", "BLOCKED", "FAILED"}

Init ==
    /\ outcome = [m \in Messages |-> "NONE"]
    /\ inHand = {}
    /\ copies = [m \in Messages |-> 0]
    /\ lost = [m \in Messages |-> 0]

TakeIn(m) ==
    /\ outcome[m] = "NONE"
    /\ \E o \in {"PENDING", "BLOCKED"} : outcome' = [outcome EXCEPT ![m] = o]
    /\ UNCHANGED <<inHand, copies, lost>>

Awaited(m) == outcome[m] = "PENDING" /\ m \notin inHand

SendAnswered(m) ==
    /\ Awaited(m)
    /\ copies' = [copies EXCEPT ![m] = @ + 1]
    /\ inHand' = inHand \cup {m}
    /\ UNCHANGED <<outcome, lost>>

SendUnanswered(m) ==
    /\ Awaited(m)
    /\ copies' = [copies EXCEPT ![m] = @ + 1]
    /\ lost' = [lost EXCEPT ![m] = @ + 1]
    /\ UNCHANGED <<outcome, inHand>>

RecordAnswer(m) ==
    /\ m \in inHand
    /\ outcome' = [outcome EXCEPT ![m] = "SENT"]
    /\ inHand' = inHand \ {m}
    /\ UNCHANGED <<copies, lost>>

LoseAnswer(m) ==
    /\ m \in inHand
    /\ lost' = [lost EXCEPT ![m] = @ + 1]
    /\ inHand' = inHand \ {m}
    /\ UNCHANGED <<outcome, copies>>

GiveUp(m) ==
    /\ Awaited(m)
    /\ \E o \in {"BLOCKED", "FAILED"} : outcome' = [outcome EXCEPT ![m] = o]
    /\ UNCHANGED <<inHand, copies, lost>>

Next ==
    \E m \in Messages : \/ TakeIn(m)
                        \/ SendAnswered(m)
                        \/ SendUnanswered(m)
                        \/ RecordAnswer(m)
                        \/ LoseAnswer(m)
                        \/ GiveUp(m)

Spec == Init /\ [][Next]_vars

=============================================================================
