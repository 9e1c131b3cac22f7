------------------------------ MODULE DumpTask ------------------------------
(* The raw-data dump task (DumpRawDataTask in dump_task.cpp, part of       *)
(* time_weighted_average_data_handler.cpp): a periodic task on the thread  *)
(* pool that reads the latest metrics of one device, turns them into one   *)
(* map of values (the device level, tile values aggregated into a device   *)
(* value where the device has none, or one tile's values) and writes one   *)
(* row per tick, where a stats or throttle column shows a value only when  *)
(* the sample's timestamp differs from the one the column saw last.        *)
(*                                                                          *)
(* A sample is what getLatestMetrics returns for one metric type: one      *)
(* timestamp and scale for the whole measurement, an optional device value *)
(* and the values of the tiles whose current is not the sentinel.          *)
(* Value formatting (getScaledValue, the throttle-reason strings) is left  *)
(* out: a cell is the raw value it would print.                            *)
EXTENDS Integers, FiniteSets
LOCAL INSTANCE SequencesExt

CONSTANTS
    Metrics,      \* metric types of the dump's columns
    SumMetrics,   \* sumMetricsList: types whose tile values add up
    DeviceData,   \* types whose measurement carries a device-level value
    Scale,        \* the measurement scale of each type (>= 1)
    Tiles,        \* tile ids of the device
    TileId,       \* the task's tileId: -1 for the whole device
    StatsTypes,   \* types dumped as DUMP_OPTION_STATS columns
    ThrottleTypes,\* types dumped as DUMP_OPTION_THROTTLE_REASON columns
    Values,       \* raw values a sample can carry
    MaxTs,        \* bound on the sampler's clock
    MaxTicks,     \* bound on the rows written
    DeviceId,     \* the task's deviceId
    FabricCount,  \* getDeviceAndTileFabricCount: level (-1 or a tile) -> its links
    LinkInfo,     \* fabric id -> getFabricThroughputInfo: [tile, rdev, rtile, type]
    ResolvedLinks,\* fabric ids whose remote fabric id maps to a device
    ZeroType,     \* the throughput type whose enum value is 0
    EngineCountOf,\* getDeviceAndTileEngineCount: level (-1 or a tile) -> type -> count
    EngineInfo,   \* engine handle with an index -> [type, index, tile, onTile]
    EngineTypes,  \* engine types dumped as DUMP_OPTION_ENGINE columns
    Null, None, NA

ASSUME /\ SumMetrics \subseteq Metrics /\ DeviceData \subseteq Metrics
       /\ Scale \in [Metrics -> Nat \ {0}]
       /\ TileId \in Tiles \cup {-1}
       /\ StatsTypes \cup ThrottleTypes \subseteq Metrics
       /\ DOMAIN FabricCount \subseteq Tiles \cup {-1}
       /\ ResolvedLinks \subseteq DOMAIN LinkInfo
       /\ ZeroType \in {"tx", "rx", "tx_counter", "rx_counter"}
       /\ DOMAIN EngineCountOf \subseteq Tiles \cup {-1}

VARIABLES
    sample,        \* metric -> the latest measurement, Null before the first
    clock,         \* timestamp of the last measurement
    started,       \* start() has built the columns and the lambda
    scheduled,     \* pThreadPoolTask # nullptr
    lastTimestamp, \* column -> DumpColumn.lastTimestamp
    row,           \* column -> the cell of the last row written
    shownTs,       \* column -> timestamp of the last value written (history)
    fabric,        \* the latest fabric throughput sample: fabric id -> current
    fabricRow,     \* fabric column -> the cell of the last row written
    engine,        \* the latest engine utilization sample: handle -> current
    engineRow,     \* engine column -> the cell of the last row written
    ticks

vars == <<sample, clock, started, scheduled, lastTimestamp, row, shownTs,
          fabric, fabricRow, engine, engineRow, ticks>>

Columns == ({"stats"} \X StatsTypes) \cup ({"throttle"} \X ThrottleTypes)
Metric(c) == c[2]

InfoCount == Cardinality(DOMAIN LinkInfo)   \* getFabricThroughputInfoCount

\* A fabric throughput sample holds a current for some of the fabric ids
\* (ids without throughput info are skipped by the fill and left out).
EngineSamples == {Null} \cup UNION {[S -> Values] : S \in SUBSET DOMAIN EngineInfo}

FabricSamples == {Null} \cup UNION {[S -> Values] : S \in SUBSET DOMAIN LinkInfo}

Sample(ts) ==
    [ts : {ts}, dev : Values \cup {None}, tiles : UNION {[S -> Values] : S \in SUBSET Tiles}]

-----------------------------------------------------------------------------
(* updateData: the device and tile maps built from the rows of            *)
(* getLatestMetrics, then the tile values of the types the device row     *)
(* lacks folded into one device value per type.                           *)

Rec(m, v) == [value |-> v, ts |-> sample[m].ts]

RawDeviceDataMap ==
    [m \in {x \in Metrics : sample[x] # Null /\ sample[x].dev # None} |-> Rec(m, sample[m].dev)]

RawTileDataMap(t) ==
    [m \in {x \in Metrics : sample[x] # Null /\ t \in DOMAIN sample[x].tiles} |->
        Rec(m, sample[m].tiles[t])]

\* The running mean step of lines 505-507, in exact arithmetic: doubleNumber
\* = (agg * scale * tileCount + v * scale / (1 + tileCount)) / scale, then
\* round(doubleNumber * 100) / 100 stored into the uint64 value.
MeanStep(agg, v, s, tileCount) ==
    LET num == agg * s * tileCount * (1 + tileCount) + v * s
        den == (1 + tileCount) * s
    IN ((200 * num + den) \div (2 * den)) \div 100

\* One tile of the fold of lines 485-512; the scale == 0 branches are left
\* out as every type's scale is positive.
AggStepFirstOnly(m, agg, v, tileCount) == IF tileCount = 0 THEN v ELSE agg

AggStep(m, agg, v, tileCount) ==
    CASE tileCount = 0      -> v
      [] m \in SumMetrics   -> agg + (v * Scale[m]) \div Scale[m]
      [] OTHER              -> MeanStep(agg, v, Scale[m], tileCount)

RECURSIVE AggFold(_, _, _, _)
AggFold(m, ts, tileCount, agg) ==
    IF ts = <<>> THEN agg
    ELSE AggFold(m, Tail(ts), tileCount + 1,
                 AggStep(m, agg, sample[m].tiles[Head(ts)], tileCount))

\* The types some tile has and the device row lacks (set_difference), each
\* folded over its tiles in ascending id order, as rawTileDataMap iterates.
AggregatedDeviceDataMap ==
    LET types == {x \in Metrics : sample[x] # Null /\ DOMAIN sample[x].tiles # {}}
                   \ DOMAIN RawDeviceDataMap
    IN [m \in types |->
          Rec(m, AggFold(m, SetToSortSeq(DOMAIN sample[m].tiles, <), 0, 0))]

RawDataMap ==
    IF TileId = -1 THEN RawDeviceDataMap @@ AggregatedDeviceDataMap
    ELSE RawTileDataMap(TileId)

-----------------------------------------------------------------------------
(* Fabric columns.  A key "d/t->rd/rt" is the pair of its two endpoints.   *)
(* buildColumns takes the link list of the task's level, or for the whole  *)
(* device without a device-level list the tile lists joined, and adds a    *)
(* transmit and a receive column per link.                                 *)

Endpoint(dev, tile) == <<dev, tile>>

SelectedFabricList ==
    CASE TileId = -1 /\ -1 \in DOMAIN FabricCount    -> FabricCount[-1]
      [] TileId # -1 /\ TileId \in DOMAIN FabricCount -> FabricCount[TileId]
      [] TileId = -1 -> UNION {FabricCount[t] : t \in DOMAIN FabricCount}
      [] OTHER       -> {}

FabricColumns ==
    UNION {{<<Endpoint(DeviceId, r.tile), Endpoint(r.rdev, r.rtile)>>,
            <<Endpoint(r.rdev, r.rtile), Endpoint(DeviceId, r.tile)>>} :
              r \in SelectedFabricList}

\* The entries getFabricThroughput writes into the dump's vector: the ids of
\* the sample that have info, in map order, up to the first whose remote
\* device does not resolve (GENERIC_ERROR).  The vector has InfoCount
\* slots, so its index check never fires.
FabricFill ==
    IF fabric = Null THEN <<>>
    ELSE LET ids == SetToSortSeq(DOMAIN fabric, <)
             bad == {i \in 1..Len(ids) : ids[i] \notin ResolvedLinks}
         IN  IF bad = {} THEN ids ELSE SubSeq(ids, 1, Min(bad) - 1)

\* One written entry: the link's tile, remote device and tile and type from
\* its throughput info, and the sample's current.
Entry(id) == LinkInfo[id] @@ [value |-> fabric[id]]

\* std::vector<xpum_device_fabric_throughput_metric_t>(n) value-initialises
\* its slots: a slot the fill did not write is an entry of all zeros.
ZeroEntry == [tile |-> 0, rdev |-> 0, rtile |-> 0, type |-> ZeroType, value |-> 0]

FabricRawDataList ==
    [i \in 1..InfoCount |->
        IF i <= Len(FabricFill) THEN Entry(FabricFill[i]) ELSE ZeroEntry]

\* A key that ignores the direction of the entry.
EntryKeyOneWay(e) == <<Endpoint(DeviceId, e.tile), Endpoint(e.rdev, e.rtile)>>

EntryKey(e) ==
    IF e.type = "tx" THEN <<Endpoint(DeviceId, e.tile), Endpoint(e.rdev, e.rtile)>>
    ELSE <<Endpoint(e.rdev, e.rtile), Endpoint(DeviceId, e.tile)>>

\* fabricRawDataMap: every transmitted or received entry in vector order,
\* a later entry overwriting an earlier one with the same key.
FabricMapOf(list) ==
    LET Put(acc, e) ==
          IF e.type \in {"tx", "rx"} THEN (EntryKey(e) :> e.value) @@ acc ELSE acc
    IN  FoldLeft(Put, <<>>, list)

FabricRawDataMap == FabricMapOf(FabricRawDataList)

-----------------------------------------------------------------------------
(* Engine columns.  buildColumns takes the engine counts of the task's    *)
(* level; without them (needAggFromTiles) a whole-device task takes every *)
(* tile's counts and its columns name the tile.  A column is              *)
(* <<type, level, engine index>>.                                         *)

LevelMatches(l) == (TileId = -1 /\ l = -1) \/ (l # -1 /\ l = TileId)

NeedAggFromTiles == ~\E l \in DOMAIN EngineCountOf : LevelMatches(l)

CurEngineLevels ==
    CASE ~NeedAggFromTiles -> {l \in DOMAIN EngineCountOf : LevelMatches(l)}
      [] TileId = -1       -> DOMAIN EngineCountOf \ {-1}
      [] OTHER             -> {}

LevelColumns(l) ==
    UNION {{<<ty, l, i>> : i \in 0 .. EngineCountOf[l][ty] - 1} :
             ty \in DOMAIN EngineCountOf[l] \cap EngineTypes}

EngineColumns == UNION {LevelColumns(l) : l \in CurEngineLevels}

\* The entries getEngineUtilizations writes for the dump's buffer of
\* getEngineCount() rows: every handle of the sample, in map order.  The
\* dump reads only the *count entries the fill call returns.
EngineEntries ==
    IF engine = Null THEN <<>>
    ELSE LET hs == SetToSortSeq(DOMAIN engine, <)
         IN  [i \in 1..Len(hs) |-> EngineInfo[hs[i]] @@ [value |-> engine[hs[i]]]]

\* engineUtilRawDataMap: the entries of the task's level, listed per type
\* and engine index in the order they were returned.
EngineKey(e) == <<e.type, e.index>>

EngineUtilRawDataMap ==
    LET kept == SelectSeq(EngineEntries,
                          LAMBDA e : TileId = -1 \/ (e.onTile /\ e.tile = TileId))
    IN  [k \in {EngineKey(kept[i]) : i \in DOMAIN kept} |->
           SelectSeq(kept, LAMBDA e : EngineKey(e) = k)]

\* The engine closure with the needAggFromTiles test dropped.
EngineValueFirst(c) ==
    LET m == EngineUtilRawDataMap
        k == <<c[1], c[3]>>
    IN
    IF k \notin DOMAIN m THEN NA ELSE m[k][1].value

\* The engine closure: the first entry of the type and index, or with
\* needAggFromTiles the first one whose tileId is the column's tile.
EngineValue(c) ==
    LET m == EngineUtilRawDataMap
        k == <<c[1], c[3]>>
    IN
    IF k \notin DOMAIN m THEN NA
    ELSE IF ~NeedAggFromTiles THEN m[k][1].value
    ELSE LET onTile == SelectSeq(m[k], LAMBDA e : e.tile = c[2])
         IN  IF onTile = <<>> THEN NA ELSE onTile[1].value

-----------------------------------------------------------------------------
(* The column closures of buildColumns.  A stats column records the       *)
(* timestamp it saw whether or not it printed; the throttle column         *)
(* returns its string before the assignment that records it.               *)

StatsValueNoUpdate(c, raw) ==
    LET d == raw[Metric(c)] IN
    IF lastTimestamp[c] # d.ts THEN [cell |-> d.value, last |-> lastTimestamp[c]]
    ELSE [cell |-> NA, last |-> lastTimestamp[c]]

StatsValue(c, raw) ==
    LET d == raw[Metric(c)] IN
    [cell |-> IF lastTimestamp[c] # d.ts THEN d.value ELSE NA, last |-> d.ts]

ThrottleValue(c, raw) ==
    LET d == raw[Metric(c)] IN
    IF lastTimestamp[c] # d.ts THEN [cell |-> d.value, last |-> lastTimestamp[c]]
    ELSE [cell |-> NA, last |-> d.ts]

GetValue(c, raw) ==
    IF Metric(c) \notin DOMAIN raw THEN [cell |-> NA, last |-> lastTimestamp[c]]
    ELSE IF c[1] = "stats" THEN StatsValue(c, raw) ELSE ThrottleValue(c, raw)

-----------------------------------------------------------------------------

Init ==
    /\ sample = [m \in Metrics |-> Null]
    /\ clock = 0
    /\ started = FALSE
    /\ scheduled = FALSE
    /\ lastTimestamp = [c \in Columns |-> 0]
    /\ row = [c \in Columns |-> NA]
    /\ shownTs = [c \in Columns |-> 0]
    /\ fabric = Null
    /\ fabricRow = [k \in FabricColumns |-> NA]
    /\ engine = Null
    /\ engineRow = [c \in EngineColumns |-> NA]
    /\ ticks = 0

\* The sampler stores a new measurement of type m (a device value only for
\* the types that have one).
StoreMeasurement(m) ==
    /\ clock < MaxTs
    /\ clock' = clock + 1
    /\ \E s \in Sample(clock + 1) :
          /\ (s.dev # None) = (m \in DeviceData)
          /\ sample' = [sample EXCEPT ![m] = s]
    /\ UNCHANGED <<started, scheduled, lastTimestamp, row, shownTs, fabric,
                   fabricRow, ticks, engine, engineRow>>

\* The sampler stores a new engine utilization measurement.
StoreEngine ==
    /\ clock < MaxTs
    /\ clock' = clock + 1
    /\ \E e \in EngineSamples \ {Null} : engine' = e
    /\ UNCHANGED <<sample, started, scheduled, lastTimestamp, row, shownTs, fabric,
                   fabricRow, engineRow, ticks>>

\* The sampler stores a new fabric throughput measurement.
StoreFabric ==
    /\ clock < MaxTs
    /\ clock' = clock + 1
    /\ \E f \in FabricSamples \ {Null} : fabric' = f
    /\ UNCHANGED <<sample, started, scheduled, lastTimestamp, row, shownTs,
                   fabricRow, ticks, engine, engineRow>>

\* start(): buildColumns, writeHeader, then scheduleAtFixedRate(lambda).
\* start() has no guard of its own; the task is started once, by its
\* creator (the dump manager, not in src).
Start ==
    /\ ~started
    /\ started' = TRUE
    /\ scheduled' = TRUE
    /\ UNCHANGED <<sample, clock, lastTimestamp, row, shownTs, fabric,
                   fabricRow, ticks, engine, engineRow>>

\* One run of the lambda: updateData, every column's getValue in order,
\* and the row appended to the file.
Tick ==
    /\ scheduled
    /\ ticks < MaxTicks
    /\ LET raw == RawDataMap
           got == [c \in Columns |-> GetValue(c, raw)]
       IN /\ row' = [c \in Columns |-> got[c].cell]
          /\ lastTimestamp' = [c \in Columns |-> got[c].last]
          /\ shownTs' = [c \in Columns |->
                           IF got[c].cell = NA THEN shownTs[c] ELSE raw[Metric(c)].ts]
    /\ LET fm == FabricRawDataMap
       IN fabricRow' = [k \in FabricColumns |-> IF k \in DOMAIN fm THEN fm[k] ELSE NA]
    /\ engineRow' = [c \in EngineColumns |-> EngineValue(c)]
    /\ ticks' = ticks + 1
    /\ UNCHANGED <<sample, clock, started, scheduled, fabric, engine>>

\* stop(): cancel the periodic task if there is one.
Stop ==
    /\ scheduled
    /\ scheduled' = FALSE
    /\ UNCHANGED <<sample, clock, started, lastTimestamp, row, shownTs, fabric,
                   fabricRow, ticks, engine, engineRow>>

\* reschedule(): stop, then schedule the same lambda again; the columns and
\* their lastTimestamp are kept.  reschedule() has no guard of its own: the
\* dump manager reschedules started tasks only (before start() the lambda
\* would be empty).
Reschedule ==
    /\ started
    /\ scheduled' = TRUE
    /\ UNCHANGED <<sample, clock, started, lastTimestamp, row, shownTs, fabric,
                   fabricRow, ticks, engine, engineRow>>

Next ==
    \/ \E m \in Metrics : StoreMeasurement(m)
    \/ StoreFabric
    \/ StoreEngine
    \/ Start
    \/ Tick
    \/ Stop
    \/ Reschedule

Spec == Init /\ [][Next]_vars

-----------------------------------------------------------------------------
(* Properties *)

\* The values a correct dump may print for type m: the selected tile's value,
\* the device value, or for a type the device lacks the sum of its tiles'
\* values (sum types) or a mean of them, which lies between their extremes.
Admissible(m) ==
    LET tiles == sample[m].tiles IN
    CASE TileId # -1          -> {tiles[TileId]}
      [] sample[m].dev # None -> {sample[m].dev}
      [] m \in SumMetrics     -> {SumFunction(tiles)}
      [] OTHER                -> Min(Range(tiles)) .. Max(Range(tiles))

(* CellValueFaithful: every value a row prints is the one the sample       *)
(* stands for: the task's tile, the device, or for a type that only tiles  *)
(* report the sum or the mean of the tile values; updateData's selection   *)
(* of lines 517-524 and its tile aggregation of lines 483-515.             *)
CellValueFaithful ==
    [][ticks' = ticks + 1 =>
         \A c \in Columns : row'[c] # NA => row'[c] \in Admissible(Metric(c))]_vars

(* EachSampleOnce: a column prints a measurement at most once, however the *)
(* ticks, reschedules and samples interleave: a value it prints always     *)
(* comes from a newer measurement than the last one it printed (the        *)
(* lastTimestamp de-duplication of the column closures).                   *)
EachSampleOnce ==
    [][ticks' = ticks + 1 =>
         \A c \in Columns : row'[c] # NA => shownTs'[c] > shownTs[c]]_vars

\* The direction a link's current measures: from the device's tile to the
\* remote tile for transmitted traffic, the other way for received traffic.
Flow(id) ==
    LET i == LinkInfo[id] IN
    IF i.type = "tx" THEN <<<<DeviceId, i.tile>>, <<i.rdev, i.rtile>>>>
    ELSE <<<<i.rdev, i.rtile>>, <<DeviceId, i.tile>>>>

(* FabricCellFaithful: a fabric column "d/t->rd/rt" prints only the current *)
(* of a link of the latest fabric sample whose traffic flows in that       *)
(* direction, never a value for a link the sample lacks: updateData's      *)
(* two-call getFabricThroughput and the keys of fabricRawDataMap (lines    *)
(* 552-575) against the column keys of buildColumns (lines 357-396).       *)
FabricCellFaithful ==
    [][ticks' = ticks + 1 =>
         \A k \in FabricColumns : fabricRow'[k] # NA =>
            /\ fabric # Null
            /\ \E id \in DOMAIN fabric :
                  /\ LinkInfo[id].type \in {"tx", "rx"}
                  /\ Flow(id) = k
                  /\ fabric[id] = fabricRow'[k]]_vars

\* An engine belongs to a column's level: a device-level engine to a
\* device-level column, an engine of tile t to a column of tile t.
OnLevel(h, l) ==
    IF l = -1 THEN ~EngineInfo[h].onTile
    ELSE EngineInfo[h].onTile /\ EngineInfo[h].tile = l

(* EngineCellFaithful: an engine column "<type> [tile/]<index>" prints    *)
(* only the current of an engine of the latest sample with that type and  *)
(* index, on the column's level: a tile's column never shows another      *)
(* tile's engine.  The two-call getEngineUtilizations of updateData and   *)
(* its engineUtilRawDataMap (lines 527-550) against the columns and their *)
(* closures in buildColumns (lines 244-263, 309-356).                     *)
EngineCellFaithful ==
    [][ticks' = ticks + 1 =>
         \A c \in EngineColumns : engineRow'[c] # NA =>
            /\ engine # Null
            /\ \E h \in DOMAIN engine :
                  /\ EngineInfo[h].type = c[1] /\ EngineInfo[h].index = c[3]
                  /\ OnLevel(h, c[2])
                  /\ engine[h] = engineRow'[c]]_vars

(* DumpFaithful: both promises of a dump row together.                     *)
DumpFaithful == CellValueFaithful /\ EachSampleOnce
=============================================================================
