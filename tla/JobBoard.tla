------------------------------ MODULE JobBoard ------------------------------
(***************************************************************************)
(* What the job queues promise the code that uses them: a job is run at    *)
(* most MaxAttempts times, by one worker at a time; it is over once its    *)
(* handler returns or the last attempt fails; and it may be lost, at any   *)
(* time, without a trace.  JobQueue is shown to implement it, and          *)
(* AccountingSync is built on it.                                          *)
(***************************************************************************)
EXTENDS Naturals

CONSTANTS Jobs, MaxAttempts

VARIABLES place,  \* where each job is
          tries   \* how often each job has been run

Init ==
    /\ place = [j \in Jobs |-> "new"]
    /\ tries = [j \in Jobs |-> 0]

Move(j, from, to) ==
    /\ place[j] = from
    /\ place' = [place EXCEPT ![j] = to]

Accept(j) == Move(j, "new", "waiting") /\ UNCHANGED tries

Take(j) ==
    /\ Move(j, "waiting", "running")
    /\ tries[j] < MaxAttempts
    /\ tries' = [tries EXCEPT ![j] = @ + 1]

Finish(j) == Move(j, "running", "done") /\ UNCHANGED tries

Retry(j) == tries[j] < MaxAttempts /\ Move(j, "running", "waiting") /\ UNCHANGED tries

Bury(j) == tries[j] = MaxAttempts /\ Move(j, "running", "dead") /\ UNCHANGED tries

Lose(j) ==
    /\ \E from \in {"new", "waiting", "running"} : Move(j, from, "lost")
    /\ UNCHANGED tries

Next == \E j \in Jobs :
    Accept(j) \/ Take(j) \/ Finish(j) \/ Retry(j) \/ Bury(j) \/ Lose(j)

Spec == Init /\ [][Next]_<<place, tries>>
=============================================================================
