------------------------------- MODULE MCKmp -------------------------------
(* Loops of 4 iterations for up to 3 cores, so that some cores get more     *)
(* than others and a team of one gets all; regions with one and two loops.  *)
EXTENDS Kmp

For(sched, wide, ub, chunk) ==
  [sched |-> sched, wide |-> wide, ub |-> ub, chunk |-> chunk, lb |-> 0, incr |-> 1]

StaticAndDynamic ==
  { <<For("static", FALSE, 3, 1), For("chunked", TRUE, 3, 1)>>,
    <<For("static", TRUE, 1, 1), For("chunked", FALSE, 6, 2)>>,
    <<For("dynamic", FALSE, 2, 2), For("dynamic", FALSE, 1, 1)>> }

DynamicOnly == { <<For("dynamic", FALSE, 2, 2)>> }

ASSUME InstanceAssumption == NormalLoops
=============================================================================
