----------------------------- MODULE BarrierLink -----------------------------
(***************************************************************************)
(* The narrow AXI path between a tile's barrier and the cluster's barrier  *)
(* (reqrsp_mux, reqrsp_to_axi, crossbar and cuts, instantiated by          *)
(* cachepool_tile.sv and cachepool_cluster.sv).  A tile's barrier has at   *)
(* most one load on it: ar[t] while the request travels to the cluster,    *)
(* r[t] while the response waits at the tile.  The latency of both ways is *)
(* arbitrary, so tiles and cluster take their clock edges one by one.      *)
(***************************************************************************)
CONSTANTS
  Tiles,   \* the tiles of the cluster
  Ports,   \* the core ports of one tile
  Port0    \* the port that carries the tile's request to the cluster

ASSUME PortAssumption == Port0 \in Ports

VARIABLES
  ar,  \* [Tiles -> BOOLEAN]
  r    \* [Tiles -> BOOLEAN]

LinkTypeOK == ar \in [Tiles -> BOOLEAN] /\ r \in [Tiles -> BOOLEAN]

LinkInit ==
  /\ ar = [t \in Tiles |-> FALSE]
  /\ r = [t \in Tiles |-> FALSE]
==============================================================================
