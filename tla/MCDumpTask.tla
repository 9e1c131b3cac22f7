----------------------------- MODULE MCDumpTask -----------------------------
(* Instantiates DumpTask for TLC: two tiles, three metric types.  Type 1   *)
(* is a sum type that only the tiles report, type 2 has a device value and *)
(* type 3 is an averaged type that only the tiles report.                  *)
(* Fabric: device 1, whose tile 1 has one link to tile 0 of device 2, with *)
(* a transmitted and a received throughput id; or device 1 whose tile 0 is *)
(* linked to tile 0 of device 0, the endpoint a zero entry names.          *)
(* Engines: one compute engine on each of the two tiles, or none.         *)
EXTENDS DumpTask, TLC

MCMetrics == {1, 2, 3}
MCScale == [m \in MCMetrics |-> 1]
MCWholeDevice == -1

MCNoLinks == [x \in {} |-> {}]

MCLink(tile, rdev, rtile) == [tile |-> tile, rdev |-> rdev, rtile |-> rtile]

MCFabricCount == -1 :> {MCLink(1, 2, 0)}
MCLinkInfo ==
    (1 :> (MCLink(1, 2, 0) @@ [type |-> "tx"])) @@
    (2 :> (MCLink(1, 2, 0) @@ [type |-> "rx"]))

MCZeroFabricCount == -1 :> {MCLink(0, 0, 0)}
MCZeroLinkInfo ==
    (1 :> (MCLink(0, 0, 0) @@ [type |-> "tx"])) @@
    (2 :> (MCLink(0, 0, 0) @@ [type |-> "rx"]))

\* Engines: one compute engine of index 0 on each tile, counted per tile.
MCEngine(tile) == [type |-> "compute", index |-> 0, tile |-> tile, onTile |-> TRUE]
MCEngineCountOf == (0 :> ("compute" :> 1)) @@ (1 :> ("compute" :> 1))
MCEngineInfo == (1 :> MCEngine(0)) @@ (2 :> MCEngine(1))
MCNoEngines == [x \in {} |-> {}]
=============================================================================
