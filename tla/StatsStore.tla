----------------------------- MODULE StatsStore -----------------------------
(***************************************************************************)
(* The per-session statistics windows of a StatsDataHandler               *)
(* (stats_data_handler.h): for every session and device one               *)
(* Statistics_data holding count/min/max for the device level and one     *)
(* Statistics_subdevice_data per sub-device.  The constructors are in the *)
(* header; updateStatistics and resetStatistics are only declared there,  *)
(* so their bodies are modelled from spec section 4.2.                     *)
(*                                                                         *)
(* avg, start_time and latest_time are left out: no property reads them.  *)
(***************************************************************************)
EXTENDS Naturals, TLC

CONSTANTS
    Sessions,     \* caller-supplied session ids
    Devices,      \* device ids
    NoData,       \* the "no data" sentinel, UINT64_MAX in the code
    NoEntry,      \* model value: a MeasurementData without device-level data
    NoWindow      \* model value: no Statistics_data for this (session, device),
                  \* never updated or reset since

LOCAL Lower(a, b) == IF a <= b THEN a ELSE b
LOCAL Upper(a, b) == IF a >= b THEN a ELSE b

\* Statistics_subdevice_data(data): a sub-device window opened by one value.
StatisticsSubdeviceData(v) == [count |-> 1, min |-> v, max |-> v]

\* Statistics_data(subdevice_id, data, time) before its sub-device entry is
\* inserted: no device-level data yet, all device fields zero.
EmptyStatisticsData ==
    [count |-> 0, min |-> 0, max |-> 0, hasDataOnDevice |-> FALSE, subs |-> <<>>]

\* Folding one value into count/min/max; a window whose device level has
\* no data yet is opened by it as Statistics_data(data, time) does.
FoldDevice(w, v) ==
    IF w.hasDataOnDevice
    THEN [w EXCEPT !.count = @ + 1, !.min = Lower(@, v), !.max = Upper(@, v)]
    ELSE [w EXCEPT !.count = 1, !.min = v, !.max = v, !.hasDataOnDevice = TRUE]

FoldSubdevice(sw, v) ==
    [sw EXCEPT !.count = @ + 1, !.min = Lower(@, v), !.max = Upper(@, v)]

\* The values a MeasurementData carries: the device-level current when it
\* has data on the device, and each sub-device current that is not NoData.
DeviceValue(md) == IF md.dev # NoEntry /\ md.dev.cur # NoData
                   THEN {md.dev.cur} ELSE {}
SubdeviceValues(md) ==
    [x \in {y \in DOMAIN md.subs : md.subs[y].cur # NoData} |-> md.subs[x].cur]

\* updateStatistics for one session and one device: the device level and
\* every sub-device carrying data are folded independently; the first
\* update after a reset opens the window.
UpdateWindow(w, md) ==
    LET dv == DeviceValue(md)
        sv == SubdeviceValues(md)
        w0 == IF w = NoWindow THEN EmptyStatisticsData ELSE w
        w1 == IF dv = {} THEN w0 ELSE FoldDevice(w0, CHOOSE v \in dv : TRUE)
    IN  IF dv = {} /\ DOMAIN sv = {}
        THEN w
        ELSE [w1 EXCEPT !.subs =
                [x \in DOMAIN @ \cup DOMAIN sv |->
                    IF x \notin DOMAIN sv THEN @[x]
                    ELSE IF x \in DOMAIN @ THEN FoldSubdevice(@[x], sv[x])
                    ELSE StatisticsSubdeviceData(sv[x])]]

\* updateStatistics(p_data): every session folds every device of the sample.
UpdateStatistics(windows, data) ==
    [s \in Sessions |-> [d \in Devices |-> UpdateWindow(windows[s][d], data[d])]]

\* resetStatistics(device_id, session_id): the window is dropped.
ResetStatistics(windows, s, d) == [windows EXCEPT ![s][d] = NoWindow]

=============================================================================
