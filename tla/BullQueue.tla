------------------------------ MODULE BullQueue ------------------------------
(***************************************************************************)
(* The life of one BullMQ job as the repository relies on it.  BullMQ is a *)
(* library: its code is not under src/, so these operators are external    *)
(* and only say what QueueService.add, the Worker callbacks, DelayedError, *)
(* the 'failed' listeners and resilientJobOptions take for granted.        *)
(***************************************************************************)
EXTENDS Naturals

CONSTANTS
    MaxAttempts,    \* resilientJobOptions.attempts
    MaxStalls       \* how often a job whose worker vanished is handed out again

ASSUME QueueAssumption ==
    /\ MaxAttempts \in Nat \ {0}
    /\ MaxStalls \in Nat

JobStates == {"none", "waiting", "active", "delayed", "completed", "failed"}

Jobs == [state : JobStates, attempts : 0..MaxAttempts, stalls : 0..MaxStalls]

NoJob == [state |-> "none", attempts |-> 0, stalls |-> 0]

(* Queue.add with a jobId: a job of that id that Redis still keeps, in     *)
(* whatever state, makes the call a no-op.                                 *)
Added(j) == IF j.state = "none" THEN [j EXCEPT !.state = "waiting"] ELSE j

Taken(j) == [j EXCEPT !.state = "active"]

(* moveToDelayed followed by DelayedError: the attempt is not counted.     *)
Deferred(j) == [j EXCEPT !.state = "delayed"]

Promoted(j) == [j EXCEPT !.state = "waiting"]

Completed(j) == [j EXCEPT !.state = "completed"]

(* The processor threw: the attempt counts and the job backs off, or fails *)
(* for good when it was the last one.                                      *)
LastAttempt(j) == j.attempts + 1 >= MaxAttempts

Thrown(j) == [j EXCEPT !.attempts = @ + 1,
                       !.state = IF LastAttempt(j) THEN "failed" ELSE "delayed"]

(* The process holding the job is gone and its lock has expired.           *)
Stalled(j) ==
    IF j.stalls < MaxStalls
      THEN [j EXCEPT !.stalls = @ + 1, !.state = "waiting"]
      ELSE [j EXCEPT !.state = "failed"]

=============================================================================
