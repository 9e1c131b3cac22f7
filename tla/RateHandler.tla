---------------------------- MODULE RateHandler ----------------------------
(***************************************************************************)
(* The handler chain of one counter metric type: a                        *)
(* TimeWeightedAverageDataHandler (time_weighted_average_data_handler.cpp)*)
(* turning consecutive raw counter samples into rates, feeding the        *)
(* session statistics of its StatsDataHandler base (StatsStore).          *)
(*                                                                         *)
(* One producer (the periodic sampler) stores samples; callers reset      *)
(* session windows.  Both hold the handler's mutex for the whole step, so *)
(* each is one atomic action.                                              *)
(*                                                                         *)
(* A sample (SharedData) maps every device to a MeasurementData: an       *)
(* optional device-level raw entry and a partial map of sub-device raw    *)
(* entries.  An entry is [raw, ts, cur, rated]: raw value and raw         *)
(* timestamp as read by the sampler, the current value, and whether       *)
(* calculateData set the current (setCurrent / setSubdeviceDataCurrent).  *)
(***************************************************************************)
EXTENDS Integers, FiniteSets, TLC

CONSTANTS
    Devices,      \* device ids
    Subdevices,   \* sub-device (tile) ids, a set of naturals
    Sessions,     \* statistics sessions
    Width,        \* bit width of raw counters (64 in the code)
    MaxStores,    \* bound on the number of samples stored
    RawReadings,  \* the raw values the sampler may read, a subset of Values
    TsSteps,      \* how far a raw timestamp may move from one tick to the next
    Null,         \* model value: nullptr
    NoEntry,      \* model value: no raw data on the device level
    NoWindow      \* model value: no Statistics_data for a session/device

ASSUME Subdevices \subseteq Nat /\ Width \in Nat \ {0} /\ MaxStores \in Nat
ASSUME RawReadings \subseteq 0 .. 2 ^ Width - 1
ASSUME TsSteps \subseteq Int

Modulus == 2 ^ Width
MaxRaw == Modulus - 1          \* std::numeric_limits<uint64_t>::max()
Values == 0 .. MaxRaw


Stats == INSTANCE StatsStore WITH NoData <- MaxRaw

VARIABLES
    curData,      \* p_curData: the latest sample, after derivation
    windows,      \* multi_sessions_data: session -> device -> window
    now           \* number of samples stored so far (sampler tick)

vars == <<curData, windows, now>>

HasRaw(e) == e # NoEntry

(***************************************************************************)
(* counterOverflowDetection(p_data): a device-level decrease discards the *)
(* whole previous sample (p_preData = nullptr, return); a sub-device      *)
(* decrease erases that sub-device from the previous sample.  The        *)
(* sub-device loop walks the new sample's sub-devices in ascending order  *)
(* and stops at the first one the previous sample lacks.  Entries equal   *)
(* to UINT64_MAX are never compared.                                      *)
(***************************************************************************)
Comparable(p, c) == p.raw # MaxRaw /\ c.raw # MaxRaw

\* The sub-devices the while-loop visits: those whose every smaller
\* sub-device of the new sample is present in the previous one.
Walked(curSubs, preSubs) ==
    {s \in DOMAIN curSubs :
        \A t \in DOMAIN curSubs : t <= s => t \in DOMAIN preSubs}

\* Mutant: the comparison counts an unchanged counter as a decrease.
DeviceWrappedOrEqual(pre, data, d) ==
    /\ HasRaw(data[d].dev) /\ HasRaw(pre[d].dev)
    /\ Comparable(pre[d].dev, data[d].dev)
    /\ pre[d].dev.raw >= data[d].dev.raw

DeviceWrapped(pre, data, d) ==
    /\ HasRaw(data[d].dev) /\ HasRaw(pre[d].dev)
    /\ Comparable(pre[d].dev, data[d].dev)
    /\ pre[d].dev.raw > data[d].dev.raw

SubdeviceWrapped(pre, data, d, s) ==
    /\ Comparable(pre[d].subs[s], data[d].subs[s])
    /\ pre[d].subs[s].raw > data[d].subs[s].raw

\* clearSubdeviceRawdata(id) erases the sub-device's raw entry.
ClearSubdevices(md, gone) ==
    [md EXCEPT !.subs = [s \in DOMAIN @ \ gone |-> @[s]]]

\* Mutant: the device-level decrease check is missing.
CounterOverflowDetectionNoDeviceCheck(pre, data) ==
    [d \in Devices |->
        ClearSubdevices(pre[d],
            {s \in Walked(data[d].subs, pre[d].subs) :
                SubdeviceWrapped(pre, data, d, s)})]

CounterOverflowDetection(pre, data) ==
    IF \E d \in Devices : DeviceWrapped(pre, data, d)
    THEN Null
    ELSE [d \in Devices |->
            ClearSubdevices(pre[d],
                {s \in Walked(data[d].subs, pre[d].subs) :
                    SubdeviceWrapped(pre, data, d, s)})]

(***************************************************************************)
(* calculateData(p_data): for every pair of comparable entries with a     *)
(* non-zero timestamp difference the current becomes                      *)
(* (cur - pre) / (cur_ts - pre_ts) in uint64 arithmetic: raw timestamps   *)
(* are uint64 too, so a timestamp that went backwards gives a divisor     *)
(* near 2^64 instead of a negative one.                                   *)
(***************************************************************************)
Interval(p, c) == (c.ts - p.ts) % Modulus

Derive(p, c) ==
    IF Comparable(p, c) /\ Interval(p, c) # 0
    THEN [c EXCEPT !.cur = ((c.raw - p.raw) % Modulus) \div Interval(p, c),
                   !.rated = TRUE]
    ELSE c

CalculateData(pre, data) ==
    [d \in Devices |->
        LET md == data[d]
            walked == Walked(md.subs, pre[d].subs)
        IN  [md EXCEPT
                !.dev = IF HasRaw(@) /\ HasRaw(pre[d].dev)
                        THEN Derive(pre[d].dev, @) ELSE @,
                !.subs = [s \in DOMAIN @ |->
                            IF s \in walked THEN Derive(pre[d].subs[s], @[s])
                            ELSE @[s]]]]

(***************************************************************************)
(* handleData(p_data) with the baseline hand-over of the data handler:   *)
(* p_preData = p_curData; p_curData = the new sample; nothing happens     *)
(* without a baseline; otherwise overflow detection, calculation and the  *)
(* statistics update run in that order.  calculateData returns at once   *)
(* when the overflow detection discarded the baseline, but                *)
(* updateStatistics still runs.                                            *)
(***************************************************************************)
HandleData(pre, data, w) ==
    IF pre = Null
    THEN [data |-> data, windows |-> w]
    ELSE LET pre1 == CounterOverflowDetection(pre, data)
             out  == IF pre1 = Null THEN data ELSE CalculateData(pre1, data)
         IN  [data |-> out, windows |-> Stats!UpdateStatistics(w, out)]

(***************************************************************************)
(* The sampler's readings: every device, an optional device-level entry   *)
(* and any subset of sub-devices; raw values anywhere in uint range (a    *)
(* counter may restart or read UINT64_MAX), timestamps moved from the    *)
(* tick by a step of TsSteps (0: a repeated timestamp; a negative step:   *)
(* a device clock that went back, e.g. across a device reset).  The      *)
(* current a reading carries before calculateData is the sampler's (not  *)
(* in src); it is taken as the UINT64_MAX no-data sentinel, so only the  *)
(* currents calculateData sets reach the statistics windows.              *)
(***************************************************************************)
Readings ==
    LET Reading == {[raw |-> r, ts |-> t, cur |-> MaxRaw, rated |-> FALSE] :
                        r \in RawReadings, t \in {now + k : k \in TsSteps} \cap Nat}
    IN  [Devices -> [dev : {NoEntry} \cup Reading,
                     subs : UNION {[S -> Reading] : S \in SUBSET Subdevices}]]

Init ==
    /\ curData = Null
    /\ windows = [s \in Sessions |-> [d \in Devices |-> NoWindow]]
    /\ now = 0

\* DataHandler::storeMeasurementData -> handleData (producer thread).
StoreMeasurementData ==
    /\ now < MaxStores
    /\ \E data \in Readings :
         LET r == HandleData(curData, data, windows)
         IN  /\ curData' = r.data
             /\ windows' = r.windows
    /\ now' = now + 1

\* StatsDataHandler::resetStatistics (caller thread).
ResetStatistics(s, d) ==
    /\ windows' = Stats!ResetStatistics(windows, s, d)
    /\ UNCHANGED <<curData, now>>

Next ==
    \/ StoreMeasurementData
    \/ \E s \in Sessions, d \in Devices : ResetStatistics(s, d)

Spec == Init /\ [][Next]_vars

-----------------------------------------------------------------------------
(* Properties.  A "valid pair" is a previous and a current reading of the *)
(* same entity that are both present, neither UINT64_MAX, with the raw   *)
(* value not decreasing and the timestamp advanced.                      *)
ValidPair(p, c) ==
    /\ p # NoEntry /\ c # NoEntry
    /\ Comparable(p, c) /\ p.raw <= c.raw /\ p.ts < c.ts

RateOf(p, c) == (c.raw - p.raw) \div (c.ts - p.ts)

\* A current set by calculateData is the exact rate of a valid pair.
RateSound(p, c) ==
    c # NoEntry /\ c.rated => ValidPair(p, c) /\ c.cur = RateOf(p, c)

(* NoWrappedRate: every current that calculateData sets (device level or *)
(* sub-device) is the exact rate of a valid pair formed with the previous *)
(* sample: a counter that went down (wrapped or restarted) or whose        *)
(* timestamp did not advance never yields a rate.  Spec sections 3 and    *)
(* 4.1; counterOverflowDetection must run before calculateData.           *)
NoWrappedRate ==
    [][curData # Null /\ now' = now + 1 =>
        \A d \in Devices :
          /\ RateSound(curData[d].dev, curData'[d].dev)
          /\ \A s \in DOMAIN curData'[d].subs :
                curData'[d].subs[s].rated =>
                   /\ s \in DOMAIN curData[d].subs
                   /\ RateSound(curData[d].subs[s], curData'[d].subs[s])]_vars

(* DeviceRateComputed: whenever a device's previous and new device-level *)
(* readings form a valid pair, the new sample carries their rate.  This  *)
(* includes the sample after a discarded baseline (spec section 8: the   *)
(* sample following a decrease is a fresh baseline).                     *)
DeviceRateComputed ==
    [][curData # Null /\ now' = now + 1 =>
        \A d \in Devices :
          ValidPair(curData[d].dev, curData'[d].dev) =>
             /\ curData'[d].dev.rated
             /\ curData'[d].dev.cur = RateOf(curData[d].dev, curData'[d].dev)]_vars

(* SubdeviceRateComputed: a sub-device whose previous and new readings    *)
(* form a valid pair gets its rate, unless its own device-level counter  *)
(* decreased (which discards the device's whole baseline): siblings are  *)
(* independent (spec section 4.1).                                        *)
DeviceDecreased(p, c) ==
    p # NoEntry /\ c # NoEntry /\ Comparable(p, c) /\ p.raw > c.raw

SubdeviceRateComputed ==
    [][curData # Null /\ now' = now + 1 =>
        \A d \in Devices :
          ~DeviceDecreased(curData[d].dev, curData'[d].dev) =>
             \A s \in DOMAIN curData'[d].subs \cap DOMAIN curData[d].subs :
                ValidPair(curData[d].subs[s], curData'[d].subs[s]) =>
                   curData'[d].subs[s].rated]_vars

(* RateComputed: every valid pair gets its rate, on both levels and on   *)
(* every device: a counter restart or a missing sub-device on one entity *)
(* costs no other entity its rate.                                        *)
RateComputed == DeviceRateComputed /\ SubdeviceRateComputed

(* RateContract: both promises of the rate computation together: every *)
(* valid pair gets its rate on every entity, and no current comes from a *)
(* pair that is not valid, a timestamp that went back included.          *)
RateContract == RateComputed /\ NoWrappedRate

=============================================================================
