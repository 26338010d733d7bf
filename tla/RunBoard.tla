---- MODULE RunBoard ----
(***************************************************************************)
(* What the run repository promises to those who read it, without files or *)
(* threads: a board with at most one verdict for each run.  The verdict of *)
(* a run changes only while a finish of that run is under way, only to the *)
(* verdict of such a finish, and a finish is acknowledged once, after the  *)
(* last change it makes.  While one is under way the board may show        *)
(* nothing for the run; a crash ends every finish and may leave it so.     *)
(* Module ValidationRuns shows how the two files keep this promise.        *)
(***************************************************************************)
EXTENDS Naturals, Sequences

CONSTANT Runs

VARIABLES
  verdict,  \* the finish whose verdict a run shows, 0 for none
  open,     \* the finishes under way
  of,       \* the run of each finish, in the order in which they begin
  acked     \* the finishes that were acknowledged

board == <<verdict, open, of, acked>>

Init ==
  /\ verdict = [r \in Runs |-> 0]
  /\ open = {} /\ of = <<>> /\ acked = {}

Begin(r) ==
  /\ of' = Append(of, r)
  /\ open' = open \cup {Len(of')}
  /\ UNCHANGED <<verdict, acked>>

Withdraw(f) ==
  /\ f \in open
  /\ verdict' = [verdict EXCEPT ![of[f]] = 0]
  /\ UNCHANGED <<open, of, acked>>

Publish(f) ==
  /\ f \in open
  /\ verdict' = [verdict EXCEPT ![of[f]] = f]
  /\ UNCHANGED <<open, of, acked>>

Acknowledge(f) ==
  /\ f \in open
  /\ open' = open \ {f}
  /\ acked' = acked \cup {f}
  /\ UNCHANGED <<verdict, of>>

Crash == open' = {} /\ UNCHANGED <<verdict, of, acked>>

Next ==
  \/ \E r \in Runs : Begin(r)
  \/ \E f \in open : Withdraw(f) \/ Publish(f) \/ Acknowledge(f)
  \/ Crash

Spec == Init /\ [][Next]_board
====
