------------------------------ MODULE EventUnit ------------------------------
(***************************************************************************)
(* The event unit of the OpenMP runtime (software/snRuntime/src/omp/eu.c)  *)
(* and its start-up (omp.c): core 0 forks a task and joins it, the other   *)
(* compute cores sleep in eu_event_loop.  They are woken by the            *)
(* cluster-local interrupt register, as in the default build               *)
(* (EU_USE_GLOBAL_CLINT not defined).                                      *)
(*                                                                         *)
(* Every access to a word that another core may write is an action.  The   *)
(* task itself is left open: it lasts from Call to Return.                 *)
(***************************************************************************)
EXTENDS Integers, FiniteSets

CONSTANT NumCores  \* snrt_cluster_compute_core_num()

ASSUME CoresAssumption == NumCores \in Nat \ {0}

Cores == 0..(NumCores - 1)
Workers == Cores \ {0}

VARIABLES
  eu_ready,         \* eu_p_global and omp_p_global are published
  workers_in_loop, workers_wfi, exit_flag,
  nthreads, fini_count,  \* of the event; 0 threads if there is none
  cl_clint,         \* cores whose cluster-local interrupt is pending
  pc,
  status            \* history: each core's task in the open region

counters == <<workers_in_loop, workers_wfi, exit_flag, nthreads, fini_count>>
euVars == <<eu_ready, counters, cl_clint, pc, status>>

EuInit ==
  /\ eu_ready = FALSE
  /\ workers_in_loop = 0 /\ workers_wfi = 0 /\ exit_flag = FALSE
  /\ nthreads = 0 /\ fini_count = 0
  /\ cl_clint = {}
  /\ pc = [c \in Cores |-> "init"]
  /\ status = [c \in Cores |-> "idle"]

At(c, label) == pc[c] = label
Goto(c, label) == pc' = [pc EXCEPT ![c] = label]
Move(c, from, to) == At(c, from) /\ Goto(c, to)
------------------------------------------------------------------------------
(* snrt_omp_bootstrap: core 0 sets the structures up, the others wait for  *)
(* them; then the hardware barrier.                                        *)
Setup ==
  /\ Move(0, "init", "barrier")
  /\ eu_ready' = TRUE
  /\ UNCHANGED <<counters, cl_clint, status>>

AwaitSetup(c) ==
  /\ c # 0 /\ eu_ready
  /\ Move(c, "init", "barrier")
  /\ UNCHANGED <<eu_ready, counters, cl_clint, status>>

HwBarrier ==
  /\ \A c \in Cores : At(c, "barrier")
  /\ pc' = [c \in Cores |-> IF c = 0 THEN "boot" ELSE "enter"]
  /\ UNCHANGED <<eu_ready, counters, cl_clint, status>>

(* Mutant of Boot: go on at once. *)
BootNoWait ==
  /\ Move(0, "boot", "serial")
  /\ UNCHANGED <<eu_ready, counters, cl_clint, status>>

Boot ==
  /\ workers_wfi = NumCores - 1
  /\ Move(0, "boot", "serial")
  /\ UNCHANGED <<eu_ready, counters, cl_clint, status>>
------------------------------------------------------------------------------
(* wait_worker_wfi.  workers_in_loop no longer changes once core 0 has     *)
(* booted, so reading it once or in every turn is the same.                *)
AllInWfi == workers_wfi = workers_in_loop

(* eu_dispatch_push(fn, argc, data, n). *)
Push(n) ==
  /\ AllInWfi
  /\ Move(0, "serial", "run")
  /\ nthreads' = n
  /\ UNCHANGED <<eu_ready, workers_in_loop, workers_wfi, exit_flag, fini_count, cl_clint, status>>

(* eu_run_empty, up to the wake-up: a team of one wakes nobody. *)
Run ==
  /\ Move(0, "run", IF nthreads > 1 THEN "wake" ELSE "call")
  /\ fini_count' = 0
  /\ UNCHANGED <<eu_ready, workers_in_loop, workers_wfi, exit_flag, nthreads, cl_clint, status>>

(* wake_workers: all workers, also those that are not in the team. *)
Wake(from, to) ==
  /\ AllInWfi
  /\ Move(0, from, to)
  /\ cl_clint' = cl_clint \cup Workers
  /\ UNCHANGED <<eu_ready, counters, status>>

WakeForTask == Wake("wake", "call")

(* The task is called, by core 0 or by a worker. *)
Call(c) ==
  /\ Move(c, "call", "task")
  /\ status' = [status EXCEPT ![c] = "running"]
  /\ UNCHANGED <<eu_ready, counters, cl_clint>>

Return(c) ==
  /\ Move(c, "task", IF c = 0 THEN "join" ELSE "fini")
  /\ status' = [status EXCEPT ![c] = "done"]
  /\ UNCHANGED <<eu_ready, counters, cl_clint>>

(* Mutant of AwaitFini: wait for the team, not for all workers. *)
AwaitTeam ==
  /\ nthreads > 1 => fini_count >= nthreads - 1
  /\ Move(0, "join", "reset")
  /\ UNCHANGED <<eu_ready, counters, cl_clint, status>>

(* Mutant of AwaitFini: core 0 is waited for, too. *)
AwaitNumCores ==
  /\ nthreads > 1 => fini_count = NumCores
  /\ Move(0, "join", "reset")
  /\ UNCHANGED <<eu_ready, counters, cl_clint, status>>

AwaitFini ==
  /\ nthreads > 1 => fini_count = workers_in_loop
  /\ Move(0, "join", "reset")
  /\ UNCHANGED <<eu_ready, counters, cl_clint, status>>

(* Stop workers from re-executing the task. *)
Reset ==
  /\ Move(0, "reset", "serial")
  /\ nthreads' = 0
  /\ status' = [c \in Cores |-> "idle"]
  /\ UNCHANGED <<eu_ready, workers_in_loop, workers_wfi, exit_flag, fini_count, cl_clint>>

(* eu_exit.  eu_run_empty is only called, and returns at once, if there is *)
(* no event.                                                               *)
SetExit ==
  /\ AllInWfi
  /\ Move(0, "serial", "wakeexit")
  /\ exit_flag' = TRUE
  /\ UNCHANGED <<eu_ready, workers_in_loop, workers_wfi, nthreads, fini_count, cl_clint, status>>

WakeForExit == Wake("wakeexit", "end")
------------------------------------------------------------------------------
(* eu_event_loop. *)
EnterLoop(c) ==
  /\ Move(c, "enter", "check")
  /\ workers_in_loop' = workers_in_loop + 1
  /\ UNCHANGED <<eu_ready, workers_wfi, exit_flag, nthreads, fini_count, cl_clint, status>>

CheckExit(c) ==
  /\ Move(c, "check", IF exit_flag THEN "end" ELSE "team")
  /\ UNCHANGED <<eu_ready, counters, cl_clint, status>>

CheckTeam(c) ==
  /\ Move(c, "team", IF c < nthreads THEN "call" ELSE "fini")
  /\ UNCHANGED <<eu_ready, counters, cl_clint, status>>

AddFini(c) ==
  /\ Move(c, "fini", "sleep")
  /\ fini_count' = fini_count + 1
  /\ UNCHANGED <<eu_ready, workers_in_loop, workers_wfi, exit_flag, nthreads, cl_clint, status>>

(* worker_wfi. *)
AddWfi(c) ==
  /\ Move(c, "sleep", "wfi")
  /\ workers_wfi' = workers_wfi + 1
  /\ UNCHANGED <<eu_ready, workers_in_loop, exit_flag, nthreads, fini_count, cl_clint, status>>

Wfi(c) ==
  /\ c \in cl_clint
  /\ Move(c, "wfi", "clear")
  /\ UNCHANGED <<eu_ready, counters, cl_clint, status>>

(* Mutant of ClearIrq: the pending interrupt is left. *)
ClearForgotten(c) ==
  /\ Move(c, "clear", "woken")
  /\ UNCHANGED <<eu_ready, counters, cl_clint, status>>

ClearIrq(c) ==
  /\ Move(c, "clear", "woken")
  /\ cl_clint' = cl_clint \ {c}
  /\ UNCHANGED <<eu_ready, counters, status>>

SubWfi(c) ==
  /\ Move(c, "woken", "check")
  /\ workers_wfi' = workers_wfi - 1
  /\ UNCHANGED <<eu_ready, workers_in_loop, exit_flag, nthreads, fini_count, cl_clint, status>>

WorkerStep(c) ==
  \/ EnterLoop(c) \/ CheckExit(c) \/ CheckTeam(c) \/ AddFini(c)
  \/ AddWfi(c) \/ Wfi(c) \/ ClearIrq(c) \/ SubWfi(c)

(* Core 0 between the fork and the join, but for the task. *)
MasterStep == Run \/ WakeForTask \/ AwaitFini \/ Reset \/ WakeForExit

(* The hardware barrier that ends the session. *)
Finish ==
  /\ \A c \in Cores : At(c, "end")
  /\ pc' = [c \in Cores |-> "finished"]
  /\ UNCHANGED <<eu_ready, counters, cl_clint, status>>

EuStep ==
  \/ Setup \/ HwBarrier \/ Boot \/ MasterStep \/ Finish
  \/ \E c \in Workers : AwaitSetup(c) \/ WorkerStep(c)
  \/ \E c \in Cores : Call(c)

EuNext ==
  \/ EuStep
  \/ \E n \in 1..NumCores : Push(n)
  \/ SetExit
  \/ \E c \in Cores : Return(c)

EuSpec == EuInit /\ [][EuNext]_euVars
------------------------------------------------------------------------------
Labels == {"init", "barrier", "boot", "serial", "run", "wake", "call", "task", "join",
           "reset", "wakeexit", "enter", "check", "team", "fini", "sleep", "wfi",
           "clear", "woken", "end", "finished"}

EuTypeOK ==
  /\ eu_ready \in BOOLEAN /\ exit_flag \in BOOLEAN
  /\ workers_in_loop \in 0..NumCores /\ workers_wfi \in 0..NumCores
  /\ nthreads \in 0..NumCores /\ fini_count \in 0..NumCores
  /\ cl_clint \subseteq Workers
  /\ pc \in [Cores -> Labels]
  /\ status \in [Cores -> {"idle", "running", "done"}]

(* Between parallel regions of the program the team is empty. *)
team == 0..(nthreads - 1)

FJ == INSTANCE ForkJoin WITH Cores <- Cores, team <- team, status <- status

(* The event unit implements fork and join: a worker that is late to wake, *)
(* to go to sleep or to look at the event never misses a task, never runs  *)
(* one twice and never runs one that core 0 believes to be over.           *)
ImplementsForkJoin == FJ!Spec

(* No wake-up is lost or left over: while core 0 writes the event, every   *)
(* worker is asleep with no interrupt pending; an interrupt that is        *)
(* pending finds its worker asleep.                                        *)
NoStrayWakeUp ==
  /\ (At(0, "serial") \/ At(0, "run")) /\ AllInWfi =>
        cl_clint = {} /\ \A c \in Workers : At(c, "wfi")
  /\ \A c \in cl_clint : At(c, "wfi") \/ At(c, "clear")
==============================================================================
