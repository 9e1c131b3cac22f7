# TLA+ models of the xpu-smi data logic

This directory holds TLA+ models of the telemetry data path of xpu-smi (the
`DataLogic` layer of the core library):
- how raw counter samples become rates;
- how the rates are folded into per-session statistics windows;
- how client calls read those windows and the latest samples back, while the
  sampler keeps writing.

Each module is written from the source under `src/`. `PROJECT.json` gives the
lines each definition stands for.

## 1. The system

| Part | Source | State | Operations |
|------|--------|-------|------------|
| Rate computation | `time_weighted_average_data_handler.cpp` 14-129 | `p_preData`, `p_curData` (baseline and latest sample: per device an optional raw counter with timestamp, and per sub-device one) | `handleData` = `counterOverflowDetection`, `calculateData`, `updateStatistics` |
| Session statistics | `stats_data_handler.h` | `multi_sessions_data`: session -> device -> `Statistics_data` (count/min/max/avg on the device level, the same per sub-device) | `updateStatistics`, `resetStatistics`, `getLatestStatistics` (bodies not in `src/`) |
| Ingestion | `part_000` 36-69 (`data_logic.cpp`) | the handler manager | `storeMeasurementData`, `getLatestData`, `getLatestStatistics` |
| Per-device queries | `part_000` 71-308 | none of its own; reads the handlers | `getMetricsStatistics`, `getLatestMetrics` |
| Engine / fabric queries | `part_000` 310-670 | none of its own | `getEngine*`, `getFabric*` |
| Raw-data dump task | `time_weighted_average_data_handler.cpp` 131-637 (the `dump_task.cpp` code) | column set, per-column last timestamp, timer | `start`, `stop`, `updateData`, `buildColumns` |
| Utility | `part_001` (`utility.cpp`) | none | type and capability tables, `parallel_in_batches`, `split`, time strings |
| Declarations | `precheck.h`, `firmware_manager.h`, `device_model.h`, `cli/src/utility.h`, `db_persistency.cpp` | none | none (the persistency call only logs) |

How the parts interact:
- One producer thread (the sampler) calls `storeMeasurementData` for each
  metric type. The type's handler takes the previous sample as its baseline,
  derives rates and folds them into every session's window.
- Any number of client threads call the queries.
- A query reads one metric type at a time. Each read is under that type's
  handler lock, so the sampler and session resets interleave with a query
  between reads. They also interleave during the up-to-30 s retry loop for
  sparse types (RAS error categories, EU active/stall/idle).

### Hard behaviours

- **uint64 counters** can wrap or restart. `UINT64_MAX` is the "no data"
  sentinel. Timestamps may repeat. A decrease must never become a rate.
- **Per-device and per-sub-device independence.** The baseline is one object
  for all devices of a type. Its sub-device loops stop early when the
  sub-device sets of the two samples differ.
- **Concurrent readers.** A multi-step query runs while the sampler changes
  the data between its steps.
- **A blocking retry** bounded only by the wall clock.
- **The two-call buffer-sizing protocol**: sizing, then fill. Each row is
  written after an index check.

### What makes each part correct (spec sections in brackets)

- **Rates [4.1]:**
  - A rate is derived only from a comparable, non-decreasing pair with an
    advanced timestamp, and then it is exact.
  - Every such pair gets its rate.
  - A counter restart on one entity affects only that entity.
- **Statistics [4.2, 7]:** a window is the fold of the rates since its
  reset. The fold is not in `src/` (see section 4), so no run checks it.
- **Queries [4.4, 8]:**
  - An undersized buffer is never overrun.
  - A buffer of the sized count gets OK and all its rows.
  - Power comes from the idle probe when the probe has device-level data.
  - A call returns, and a sparse type is waited on for at most 30 s.

## 2. Modules

Build order and composition:

```
StatsStore  <-- INSTANCEd by --  RateHandler  <-- MCRateHandler
QueryBase   <-- EXTENDed by  --  DeviceQuery  <-- MCDeviceQuery
QueryBase   <-- EXTENDed by  --  EntityQuery  <-- MCEntityQuery
                                 DumpTask     <-- MCDumpTask
```

### StatsStore (session statistics windows)

A window is `EmptyStatisticsData` or a record of `count`, `min`, `max`,
`hasDataOnDevice` and one record per sub-device. `UpdateWindow` follows the
two `Statistics_data` constructors (`stats_data_handler.h` 35-53):
- a window opened by a sub-device value has a zeroed device level;
- its device level is opened by the first device value.

The bodies of `updateStatistics` and `resetStatistics` are not in `src/`, so
the fold itself is modelled from spec section 4.2 and marked `spec_modelled`.
`avg` and the window times are left out: no property reads them.

### RateHandler (TimeWeightedAverageDataHandler)

State:
- `curData` is `p_curData`, the sample the next `handleData` uses as its
  baseline, or `Null` before the first sample.
- `windows` is `multi_sessions_data`.
- `now` counts samples, bounded by `MaxStores`.

Counters have `Width` bits: values are `0 .. 2^Width - 1`, and the top value
is the sentinel.  Raw timestamps are uint64 as well: the interval
(`Interval`) is `(cur_ts - pre_ts) % 2^Width`, so a timestamp that went back
gives a huge divisor, as in the code.  Each reading's timestamp is the tick
moved by a step of `TsSteps`: `{0, 1}` in `rate_single` (a repeated or an
advanced timestamp), `{-2, 0, 1}` in `rate_isolation` (a device clock that
also steps back).

The current a reading carries before `calculateData` is set by the sampler,
which is not in `src/` (spec section 6 supplies only the raw value). The
model gives it the `UINT64_MAX` no-data sentinel. No property reads the
current of a reading that `calculateData` did not set.

Actions:
- `StoreMeasurementData` is one whole `handleData` step:
  - the baseline hand-over;
  - the early return without a baseline;
  - `counterOverflowDetection` (`CounterOverflowDetection`);
  - `calculateData` (`CalculateData`);
  - `updateStatistics` (`Stats!UpdateStatistics`).
- `ResetStatistics` is a session reset.

The sub-device loops are modelled by `Walked`: the sub-devices the
`while` visits before it meets one that the baseline lacks.

### QueryBase and DeviceQuery (per-device queries)

QueryBase holds the shared definitions:
- the capability filter (`QueryMetrics`);
- the types read one at a time (`PerDeviceMetrics`);
- the rows built from the collected data (`DeviceRow`, `TileRow`, `Rows`);
- the sizing answer (`RowCount`).

A `MeasurementData` is abstracted to three things: whether it has
device-level data, which tiles carry a non-sentinel current, and whether it
came from the handler or the idle-power probe.

DeviceQuery state:
- `store[m]` is what type `m`'s handler returns.
- The client's state inside `getMetricsStatistics`: `pc`, `cursor`, `mdatas`
  (`m_datas`), `elapsed` (`end_time - start_time`), `waited`, `capacity`
  (`*count` on entry), and `buffer`, `result`, `count`, `sized` on return.

Actions:
- `UpdateStore` is the sampler or a reset.
- `GetMetricsStatistics` covers the entry checks and the sizing answer.
- `CollectMetric` is one iteration of the per-type loop.
- `RetryPoll` is one iteration of the retry `while`. A one-second sleep
  moves whole-second `time` by 1 or 2.
- `WriteRows` is the index-checked write.
- `GetLatestMetrics` is all of `getLatestMetrics`. It has no wait, and its
  rows are written without checks.

### EntityQuery (engine and fabric queries)

Each of the four data queries reads one multi-entity sample with a single
handler call, so a whole call is one step (`Query`). `Outcome` selects the
call:
- `EngineStatistics` for `getEngineStatistics`;
- `EngineUtilizations` for `getEngineUtilizations`;
- `FabricThroughputStatistics` for `getFabricThroughputStatistics`;
- `FabricThroughputLatest` for `getFabricThroughput`;
- `FabricLinkInfo` for `getFabricLinkInfo`. It reads no sample: it walks
  the throughput topology, whose leaves the model takes to be the links
  with throughput info. With a null `info` it only counts. A fill writes
  every leaf and never reads `*count`, and it returns false (`LinkInfoFalse`)
  at the first leaf without a remote device.

Each one follows its function's early returns in order. A call's result is
a record of the result code, `*count`, the rows written and whether the
answer is a sizing one.

State:
- `engineData[f]` and `fabricData[f]` are the samples the two feeds return
  (`getLatestStatistics`, `getLatestData`): `Null`, or the entries present.
  For engines, each entry also records whether its current is not the
  sentinel.
- `UpdateEngine` and `UpdateFabric` are the sampler. It can act between a
  sizing call and a fill call.

The topology is fixed by constants: handles whose engine index resolves,
links with throughput info, and links whose remote device resolves.

The write loop is the recursive `Emit`: per entry, a topology failure
gives GENERIC_ERROR, then the index check, then the write.
- `getEngineUtilizations` passes the engine count as the limit. That is
  the code: it overwrote `*count` first.
- `getFabricThroughputStatistics` checks the total before writing and has
  no per-row check.

### DumpTask (DumpRawDataTask, the raw-data dump)

The dump task belongs to `time_weighted_average_data_handler.cpp`
(lines 131-637). `start` builds the columns and schedules a periodic lambda.
Each run of the lambda calls `updateData` and writes one row of column values.

State:
- `sample[m]` is what `getLatestMetrics` returns for type `m`, written by
  `StoreMeasurement`. A measurement has one timestamp and one scale (lines
  274-276 and 298-300 of `part_000`), an optional device value, and the
  values of the tiles whose current is not the sentinel.
- `fabric` is the latest fabric throughput sample (fabric id -> current),
  written by `StoreFabric`.
- `engine` is the latest engine utilization sample (engine handle ->
  current), written by `StoreEngine`.
- `started` and `scheduled` (`pThreadPoolTask`) are the task's state.
  `lastTimestamp` is `DumpColumn.lastTimestamp`.
- `row`, `fabricRow` and `engineRow` are the cells of the last row.
- `shownTs` is history: the timestamp of the last value each column printed.

Actions: `StoreMeasurement`, `StoreFabric`, `StoreEngine`, `Start`, `Stop`, `Reschedule`,
and `Tick`. `Tick` is one whole run of the lambda: `updateData`, then every
column's `getValue`.

Operators, in the order `updateData` computes them:
- `RawDeviceDataMap` and `RawTileDataMap` build the raw maps.
- `AggregatedDeviceDataMap` folds the tile values of a type that the device
  row lacks. The fold is `AggFold`, `RECURSIVE` over the tiles in id order.
  Each step is `AggStep`, a sum or the running mean `MeanStep`. `MeanStep`
  works in exact integer arithmetic for the double expression, `round`, and
  the uint64 store.
- `RawDataMap` selects by `tileId`.
- `StatsValue` and `ThrottleValue` are the column closures:
  - the stats closure records the timestamp it saw, whether or not it
    printed;
  - the throttle closure returns before that assignment.
- Fabric:
  - `SelectedFabricList` is the link list that `buildColumns` picks.
  - `FabricColumns` gives a transmit key and a receive key per link.
  - `FabricFill` is what `getFabricThroughput` writes: the sample's ids in
    map order, cut at the first unresolved one.
  - `FabricRawDataList` is the vector of `InfoCount` slots. Slots the fill
    did not write stay zero (`ZeroEntry`).
  - `FabricRawDataMap` is the map keyed by `EntryKey`, where the later entry
    of a key wins.

- Engines:
  - `CurEngineLevels` is the engine-count list `buildColumns` picks: the
    task's own level, or every tile when that level has no counts
    (`NeedAggFromTiles`).
  - `EngineColumns` gives one column per type, level and engine index.
  - `EngineEntries` is what `getEngineUtilizations` writes. The dump reads
    only the `*count` entries that call returns.
  - `EngineUtilRawDataMap` lists the entries of the task's level by type
    and index.
  - `EngineValue` is the closure. It takes the first entry, or with
    `NeedAggFromTiles` the first one of the column's tile.

Value formatting is left out: a cell is the raw value it would print.
This covers `getScaledValue` and the throttle-reason strings.

The engine and link topologies are constants. They come from
`getDeviceAndTileEngineCount`, `getDeviceAndTileFabricCount` and
`getEngineIndex`, which are not in `src/`.

`start()` and `reschedule()` have no guards of their own. The model starts
a task once and reschedules only a started one, as its creator (the dump
manager, not in `src/`) does. Each run of the lambda is one step: the
thread pool, and whether `cancel` waits for a run in progress, are not in
`src/`.

## 3. Runs

| Run | Expect | Properties | Bounds |
|-----|--------|------------|--------|
| `rate_single` | pass | `NoWrappedRate`, `DeviceRateComputed` | 1 device, sub-devices {0,1}, 1 session, 2-bit counters, raw values {0,1,3}, 3 samples |
| `rate_isolation` | violation | `RateContract` | 2 devices, sub-devices {0,1}, timestamp steps {-2, 0, 1} |
| `query_stats` | pass | `TypeOK`, `BufferContract`, `QueryTerminates` | 4 types (power with the idle probe, one sparse RAS type, engine utilization, one unsupported), 1 tile, window 2 s; `getMetricsStatistics` given buffers of sized-2 .. sized+1, `getLatestMetrics` given the sized count as `DumpRawDataTask::updateData` gives it |
| `latest_contract` | violation | `LatestContract` | `getLatestMetrics` with an idle probe, buffers of the sized count and one row short |
| `query_retry` | violation | `RetryBounded` | one sparse type that gets no data |
| `entity_engine` | pass | `EntityBufferContract`, `RowsResolved` | `getEngineStatistics`; handles {1,2,3}, two resolving; buffers sized-1 .. sized+1 |
| `link_info_overrun` | violation | `EntityBufferContract` | `getFabricLinkInfo`; links {1,2,3,4}, three with info, all three resolving; buffers of the sized count and one slot short |
| `entity_fabric` | pass | `EntityBufferContract`, `RowsResolved` | both fabric queries; the same links; buffers sized-2 .. sized+1 |
| `engine_util` | violation | `EntityContract` | `getEngineUtilizations`, buffers of the sized count and one slot short |
| `dump_device` | pass | `CellValueFaithful`, `EachSampleOnce`, `FabricCellFaithful`, `EngineCellFaithful` | whole device, tiles {0,1}, a summed type only tiles report and a device-level type as stats columns, values {1,3}, 3 samples, 3 rows; device 1 with one link from tile 1 to device 2 tile 0, one transmit and one receive throughput id; one compute engine of index 0 on each tile, counted per tile |
| `dump_tile_mean` | violation | `DumpFaithful` | whole device, an averaged type only tiles report, a throttle-reason column |
| `dump_fabric_zero` | violation | `FabricCellFaithful` | device 1 with a link from tile 0 to device 0 tile 0; no metric columns |

Why these bounds are enough:
- The raw values {0, 1, 3} at 2 bits give the three cases that matter: a
  counter that rises, one that falls, and the sentinel 3.
- Timestamps that repeat or advance give both zero and non-zero intervals;
  a step of -2 in `rate_isolation` gives a clock that went back by the
  third sample.
- Three samples let a baseline be discarded and then rebuilt.
- Two sub-devices are the fewest for which a gap stops the loop before a
  later sibling.
- In the queries, one tile already gives two rows.
- The entity topologies hold one entry of each kind the loops treat
  differently: an engine with and one without an index; a link without
  info, with info and a remote device, and with info but no remote device.
- The capacities around the sized count cover the off-by-one cases.
- A 2 s window keeps the retry loop's arithmetic while keeping it short.
- In the dump, two tiles and values {1, 3} make a sum, a mean and a
  rounding differ from one another. Three samples and three rows let a
  sample be seen by two ticks, with a stop and a reschedule between them.
- The dump's fabric link has a transmit id and a receive id, so a key with
  the wrong direction prints the other id's current.
- The two engines have the same type and index on different tiles, so a
  closure that ignores the tile shows the other tile's engine.
- `dump_device` keeps its fabric keys away from the zero key `1/0->0/0`;
  `dump_fabric_zero` puts a column on it.

What the violations show (see `findings` in `PROJECT.json`):
- **`rate_isolation`**: the sub-device loops stop at the first sub-device
  missing from the baseline (lines 52 and 100). Two more bugs are behind it:
  - A decrease on one device discards every device's baseline (line 41).
  - A timestamp earlier than the baseline's gives a uint64 interval near
    2^64, so `calculateData` sets a rate of 0 (lines 89-90, 108-110). Spec
    section 3 never rates such a pair. Checked alone under the same cfg,
    `NoWrappedRate` fails on sub-device 0 going from timestamp 1 to 0.
- **`latest_contract`**: `getLatestMetrics` writes all rows whatever the
  buffer size (lines 283 and 306). Once that is fixed, it fails on the
  comma expression at `part_000` line 248, which is always false.
- **`query_retry`**: the `<= 30` loop sleeps 31 times per sparse type
  (line 122).
- **`engine_util`**: `getEngineUtilizations` reports entries whose current
  is `UINT64_MAX` (line 429). Once that is fixed, it fails because the call
  checks its writes against the engine count it has just stored in
  `*count`, not against the caller's buffer (line 413).
- **`dump_tile_mean`**: the running mean divides only the new tile's term
  by `1 + tileCount` (line 506), so two tiles that both report 3 print 4.
- **`dump_fabric_zero`**: `updateData` iterates the whole vector it sized
  with the throughput-info count, not the count the fill call returned
  (line 559). Unwritten slots are zero entries, keyed `deviceId/0->0/0`, so
  that column shows a value before any fabric data exists. The printed text
  is `getScaledValue` of 0 with the zero entry's scale, which the model
  leaves out. Which column the entry lands on depends on the value of type
  0, which is not in `src/`; the model takes it as the constant `ZeroType`.
- **`link_info_overrun`**: `getFabricLinkInfo` never reads `*count`
  (line 659). On a topology where every link with info resolves, a buffer
  one slot short of the sized count gets three rows in two slots, and the
  call answers OK.

### Fairness

`QueryTerminates` assumes weak fairness of the client's steps inside a
call: `CollectMetric`, `RetryPoll` and `WriteRows`. The call runs on its own
thread, and each of these steps is a plain statement or a `sleep_for` that
returns.

Two things are not assumed fair:
- the sampler, since a sparse type may never get data;
- the start of a new call.

RateHandler and DumpTask check safety only. Their properties are action
properties about each step.

## 4. Not modelled

Every operation of the data path in `src/` that changes state is an action
of a module. What is left out, and why:
- **The `DataLogic` lifecycle and timestamp delegates** (`part_000` 28-70,
  672-714). `init`, `close` and the `update*/get*StatsTimestamp` calls
  forward to `DataHandlerManager`, which is not in `src/`. Their only logic
  is the `IlegalStateException` guard before `init`. The session begin
  timestamp they keep reaches the fabric queries as the `stale` input of
  `EntityQuery`.
- **The bodies of `updateStatistics`, `resetStatistics` and
  `getLatestStatistics`.** They are not in `src/`. StatsStore models them
  from the spec so that `handleData` is whole, but no property is stated
  about the windows: it would check the spec against itself. For the same
  reason the current a sample carries before `calculateData` is not taken
  from the raw value: the sampler that sets it is not in `src/`.
- **A configuration change between a sizing call and a fill call.** The
  enabled set is a constant of each run, so the early sizing answer of
  `getEngineStatistics` (line 322) is listed as a hazard only.
- **The dump's thread pool and its callers**: see DumpTask above. Spec
  section 1 puts file-dump scheduling out of scope, so the unguarded
  `start`/`reschedule` (line 577) and the overlap on reschedule (line 623)
  stay hazards: the order of calls and the cancel semantics belong to code
  that is not in `src/`.
  `fillTaskInfoBuffer` copies strings and arrays into the caller's struct
  with no length check. It is listed as a hazard.
- **`parallel_in_batches`** (`part_001` 632-667). No caller in `src/`, and
  every run slot goes to a question about the data path. It divides by zero
  when `num_threads = 0`; this is listed as a hazard.
- **Out of TLC's reach or pure conversion:** time strings, enum and type
  tables, uevent parsing, the dump's value formatting and file writing, the
  declarations-only headers and the logging-only persistency.
