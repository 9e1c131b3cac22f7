----------------------------- MODULE QueryBase -----------------------------
(***************************************************************************)
(* What the DataLogic query calls (data_logic.cpp) share: the metric      *)
(* types of one device, the capability filter, and the rows built from    *)
(* the MeasurementData read per metric type.                              *)
(*                                                                         *)
(* A metric type is a number (its MeasurementType enum value); std::set   *)
(* and std::map iterate them in ascending order.  The data read for a     *)
(* type is abstracted to whether it has device-level data, which tiles   *)
(* carry a current other than UINT64_MAX, and where it came from (the    *)
(* handler, or the PVC idle-power probe).  Values are left out: no       *)
(* property reads them.                                                   *)
(***************************************************************************)
EXTENDS Integers, Sequences, FiniteSets

CONSTANTS
    NumMetrics,    \* metric types are 1 .. NumMetrics
    Enabled,       \* Configuration::getEnabledMetrics()
    Supported,     \* types whose capabilityFromMeasurementType the device has
    MultiEntity,   \* METRIC_ENGINE_UTILIZATION, METRIC_FABRIC_THROUGHPUT
    Sparse,        \* RAS error categories and EU active/stall/idle
    Power,         \* METRIC_POWER
    NumSubdevice,  \* XPUM_DEVICE_PROPERTY_INTERNAL_NUMBER_OF_SUBDEVICE
    Null,          \* model value: a nullptr MeasurementData
    NoBuffer       \* model value: dataList == nullptr

Metrics == 1 .. NumMetrics
Tiles == 0 .. NumSubdevice - 1

ASSUME /\ Enabled \subseteq Metrics /\ Supported \subseteq Metrics
       /\ MultiEntity \subseteq Metrics /\ Sparse \subseteq Metrics
       /\ Power \in Metrics /\ NumSubdevice \in Nat

\* Result codes.
OK == "XPUM_OK"
DeviceNotFound == "XPUM_RESULT_DEVICE_NOT_FOUND"
BufferTooSmall == "XPUM_BUFFER_TOO_SMALL"

\* A MeasurementData as the row builder sees it.
Data == [dev : BOOLEAN, tiles : SUBSET Tiles, src : {"handler"}]
\* GPUDeviceStub::loadPVCIdlePowers when it has device-level data.
ProbeData == [dev |-> TRUE, tiles |-> {}, src |-> "probe"]

\* The capability filter: enabled types the device has a capability for.
QueryMetrics == {m \in Enabled : m \in Supported}

\* The types getMetricsStatistics / getLatestMetrics read one by one.
PerDeviceMetrics == QueryMetrics \ MultiEntity

\* One row per scope: the device row, then one row per tile.  A row is the
\* set of <<type, source>> it lists.  The device row lists the types with
\* device-level data; tile i the types whose tile i carries data.
DeviceRow(mdatas) ==
    {<<m, mdatas[m].src>> : m \in {x \in DOMAIN mdatas : mdatas[x].dev}}
TileRow(mdatas, i) ==
    {<<m, mdatas[m].src>> : m \in {x \in DOMAIN mdatas : i \in mdatas[x].tiles}}
Rows(mdatas) ==
    <<DeviceRow(mdatas)>> \o [j \in 1 .. NumSubdevice |-> TileRow(mdatas, j - 1)]

\* The sizing answer, *count = num_subdevice + 1.
RowCount == NumSubdevice + 1

=============================================================================
