---------------------------- MODULE MCDeviceQuery ----------------------------
(* Instantiates DeviceQuery for TLC.  The cfgs use metric types 1 .. 4:  *)
(* PowerType is METRIC_POWER, RasType a sparse RAS category, EngineType  *)
(* METRIC_ENGINE_UTILIZATION and the fourth a type the device has no     *)
(* capability for.                                                        *)
EXTENDS DeviceQuery

PowerType == 1
RasType == 2
EngineType == 3
MCEnabled == {1, 2, 3, 4}
MCSupported == {PowerType, RasType, EngineType}
\* Buffer sizes per call.  getMetricsStatistics gets the sized count
\* minus two up to plus one; getLatestMetrics the sized count, as
\* DumpRawDataTask::updateData passes it, or one slot fewer.
SlackMixed == [c \in {"stats", "latest"} |-> IF c = "stats" THEN -2 .. 1 ELSE {0}]
SlackExact == [c \in {"stats", "latest"} |-> {0}]
SlackShort == [c \in {"stats", "latest"} |-> {-1, 0}]
=============================================================================
