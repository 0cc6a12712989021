---------------------------- MODULE MCDataMover ----------------------------
EXTENDS DataMover, TLC

CONSTANTS c1, c2

Both(p1, p2) == c1 :> p1 @@ c2 :> p2

(* Two cores.  One that does most of the work: more transfers than entries, *)
(* entries used again, two kinds of transfer.  Two that queue at the same   *)
(* time and find the last entry free together.  Two that wait at the same   *)
(* time, for their transfers and for the data mover.                        *)
Sessions ==
  { Both(<<"memcpy", "memcpy2d", "start", "memcpy", "wait", "memcpy2d", "wait">>, <<"start">>),
    Both(<<"l1alloc", "l1alloc", "ready", "memcpy", "memcpy", "wait">>, <<"l3alloc", "l3alloc", "start">>),
    Both(<<"memcpy", "start", "memcpy", "start">>, <<"memcpy2d", "start", "memcpy", "start">>),
    Both(<<"memcpy", "wait", "ready">>, <<"memcpy2d", "wait">>),
    Both(<<"ready", "memcpy", "wait", "exit">>, << >>) }

(* Identifiers wrap while the DM core waits for its own transfers; the last *)
(* one is still under way when the data mover starts.                       *)
Own == { << <<"1d">>, <<"2d">>, <<"wait", 1>>, <<"1d">>, <<"wait_all">>, <<"wait", 2>>, <<"2d">> >> }
=============================================================================
