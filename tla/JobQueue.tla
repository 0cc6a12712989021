------------------------------ MODULE JobQueue ------------------------------
(***************************************************************************)
(* What the data mover's queue promises: a first-in, first-out queue of    *)
(* transfers.  Each one that is queued is handed to the DMA engine once    *)
(* and in order, unless it is overwritten before.  A core claims an entry  *)
(* when it sees that the queue is not full, and writes the entry later.    *)
(* So there is an entry for each claim only while claims and jobs together *)
(* do not exceed the queue's size; with more, a core writes over the job   *)
(* that is Size places ahead of its own.                                   *)
(***************************************************************************)
EXTENDS Naturals, Sequences

CONSTANTS Cores, Jobs, Size    \* j[1] is the core of job j

VARIABLES
  jobs,    \* the sequence of jobs that wait
  claims,  \* the cores that have seen room and have not queued their job
  writing, \* the job that is being written, or << >>
  started  \* the sequence of jobs handed to the engine

vars == <<jobs, claims, writing, started>>

Init == jobs = << >> /\ claims = {} /\ writing = << >> /\ started = << >>

Claim(c) ==
  /\ c \notin claims /\ Len(jobs) < Size
  /\ claims' = claims \cup {c}
  /\ UNCHANGED <<jobs, writing, started>>

(* The entry of the job to come is also that of the jobs Size, 2 * Size    *)
(* and so on places ahead of it, if there are any.                         *)
Write(j) ==
  /\ j[1] \in claims /\ writing = << >>
  /\ writing' = j
  /\ jobs' = [i \in 1..Len(jobs) |-> IF (Len(jobs) + 1 - i) % Size = 0 THEN j ELSE jobs[i]]
  /\ UNCHANGED <<claims, started>>

Enqueue ==
  /\ writing # << >>
  /\ jobs' = Append(jobs, writing)
  /\ claims' = claims \ {writing[1]}
  /\ writing' = << >>
  /\ UNCHANGED started

Start ==
  /\ jobs # << >>
  /\ jobs' = Tail(jobs)
  /\ started' = Append(started, Head(jobs))
  /\ UNCHANGED <<claims, writing>>

Next == (\E c \in Cores : Claim(c)) \/ (\E j \in Jobs : Write(j)) \/ Enqueue \/ Start

Spec == Init /\ [][Next]_vars
=============================================================================
