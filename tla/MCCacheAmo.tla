----------------------------- MODULE MCCacheAmo -----------------------------
(* Three harts, two of them with the same core_id in different tiles, with  *)
(* one or two requests outstanding, some of which the unit confuses.  The   *)
(* operations keep the memory to two values, so that the words may be wide  *)
(* enough for the arithmetic; two operations of which one is lost show.     *)
EXTENDS CacheAmo, TLC

(* Of the integer core, and of the FPU. *)
Rq(op, addr, data, id) == [op |-> op, addr |-> addr, data |-> data, tag |-> <<FALSE, id>>]
FpuRq(op, addr, data, id) == [op |-> op, addr |-> addr, data |-> data, tag |-> <<TRUE, id>>]

ConditionalsAndOthers ==
     <<0, 0>> :> {Rq("lr", 0, 0, 0), Rq("sc", 0, 1, 0), FpuRq("load", 0, 0, 1)}
  @@ <<0, 1>> :> {Rq("xor", 0, 1, 0), Rq("sc", 0, 1, 0)}
  @@ <<1, 0>> :> {Rq("store", 0, 0, 0)}
  @@ <<1, 1>> :> {}

(* Harts of two tiles: one loads with a reservation and stores              *)
(* conditionally, and the other one stores.                                 *)
StoreOfAnotherTile ==
  <<0, 0>> :> {Rq("lr", 0, 0, 0), Rq("sc", 0, 1, 0)} @@ <<1, 0>> :> {Rq("store", 0, 0, 0)}
=============================================================================
