------------------------------ MODULE ForkJoin ------------------------------
(***************************************************************************)
(* What a parallel region promises: once it is forked, every core of its   *)
(* team runs the task exactly once, nobody else does, and the join comes   *)
(* after the last of them has finished.                                    *)
(***************************************************************************)
EXTENDS Naturals

CONSTANT Cores

VARIABLES
  team,   \* the cores of the region that is open, {} between regions
  status  \* [Cores -> {"idle", "running", "done"}]: its task in that region

vars == <<team, status>>

Init == team = {} /\ status = [c \in Cores |-> "idle"]

Fork(T) ==
  /\ team = {} /\ T # {}
  /\ team' = T
  /\ UNCHANGED status

Start(c) ==
  /\ c \in team /\ status[c] = "idle"
  /\ status' = [status EXCEPT ![c] = "running"]
  /\ UNCHANGED team

Finish(c) ==
  /\ status[c] = "running"
  /\ status' = [status EXCEPT ![c] = "done"]
  /\ UNCHANGED team

Join ==
  /\ team # {} /\ \A c \in team : status[c] = "done"
  /\ team' = {}
  /\ status' = [c \in Cores |-> "idle"]

Next ==
  \/ \E T \in SUBSET Cores : Fork(T)
  \/ \E c \in Cores : Start(c) \/ Finish(c)
  \/ Join

Spec == Init /\ [][Next]_vars
=============================================================================
