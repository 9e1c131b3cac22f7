----------------------------- MODULE DeviceQuery -----------------------------
(***************************************************************************)
(* The per-device queries of DataLogic (data_logic.cpp):                  *)
(* getMetricsStatistics and getLatestMetrics, called by a client thread   *)
(* while the sampler keeps changing the data they read.                   *)
(*                                                                         *)
(* getMetricsStatistics reads the data of one metric type at a time, each *)
(* under that handler's lock, so the sampler (and session resets) act     *)
(* between two reads and during the retry loop of a sparse type.  Its     *)
(* steps are the entry checks with the sizing answer                      *)
(* (GetMetricsStatistics), one read per type (CollectMetric), one poll per*)
(* second of the retry loop (RetryPoll) and writing the rows (WriteRows). *)
(* getLatestMetrics has no wait and is one step (GetLatestMetrics).       *)
(*                                                                         *)
(* store[m] stands for what the type's handler returns to the call:       *)
(* nullptr or a MeasurementData (QueryBase).  Both calls read it; only   *)
(* whether it is present and which scopes carry data matter to the rows.  *)
(***************************************************************************)
EXTENDS QueryBase

CONSTANTS
    RetryWindow,   \* the 30 of "end_time - start_time <= 30", in seconds
    IdleProbe,     \* loadPVCIdlePowers(bdf, false)->hasDataOnDevice()
    Slack,         \* call -> buffer sizes it is passed, relative to the sized count
    Calls          \* which of the two calls the client makes

ASSUME /\ RetryWindow \in Nat /\ IdleProbe \in BOOLEAN
       /\ Slack \in [{"stats", "latest"} -> SUBSET Int]
       /\ Calls \subseteq {"stats", "latest"}

VARIABLES
    store,      \* type -> the handler's data (only the types the calls read)
    pc,         \* "idle" between calls, "collect", "retry"
    capacity,   \* *count on entry (the buffer's size), or NoBuffer
    cursor,     \* the metric type the loop is at
    mdatas,     \* m_datas: the MeasurementData collected so far
    elapsed,    \* end_time - start_time in the current retry loop
    waited,     \* seconds this call has slept so far
    buffer,     \* rows written to dataList by the last call
    result,     \* the last call's return value
    count,      \* *count on return
    sized       \* the count the last sizing call returned, or NoBuffer

vars == <<store, pc, capacity, cursor, mdatas, elapsed, waited, buffer,
          result, count, sized>>

CallerVars == <<pc, capacity, cursor, mdatas, elapsed, waited, buffer,
                result, count, sized>>

\* getLatestMetrics returns void.
NoResult == "void"

Init ==
    /\ store \in [PerDeviceMetrics -> {Null} \cup Data]
    /\ pc = "idle"
    /\ capacity = NoBuffer
    /\ cursor = 1
    /\ mdatas = <<>>
    /\ elapsed = 0
    /\ waited = 0
    /\ buffer = <<>>
    /\ result = NoResult
    /\ count = 0
    /\ sized = NoBuffer

(***************************************************************************)
(* The sampler stores a new sample for type m, or a session reset drops   *)
(* the window so that the handler returns nullptr until the next sample.  *)
(***************************************************************************)
UpdateStore(m) ==
    /\ \E v \in ({Null} \cup Data) \ {store[m]} :
         store' = [store EXCEPT ![m] = v]
    /\ UNCHANGED CallerVars

\* The buffers a client passes to call c: none (the sizing call), or, once
\* it knows the count, that count adjusted by one of Slack[c].
Capacities(c) ==
    {NoBuffer} \cup
    IF sized = NoBuffer THEN {} ELSE {sized + k : k \in Slack[c]} \cap Nat

\* The data the loop uses for type m: the idle-power probe for
\* METRIC_POWER when it has device-level data, else the handler's.
Source(m) == IF m = Power /\ IdleProbe THEN ProbeData ELSE store[m]

\* *count is in-out: a call that does not set it leaves the caller's value.
Kept(cap) == IF cap = NoBuffer THEN count ELSE cap

Collected(m, v) ==
    [x \in DOMAIN mdatas \cup {m} |-> IF x = m THEN v ELSE mdatas[x]]

\* getMetricsStatistics entry: device lookup, then the sizing answer when
\* dataList is nullptr; otherwise the per-type loop begins.
GetMetricsStatistics(found, cap) ==
    /\ pc = "idle"
    /\ capacity' = cap
    /\ buffer' = <<>>
    /\ IF ~found
       THEN /\ result' = DeviceNotFound
            /\ count' = Kept(cap)
            /\ UNCHANGED <<pc, cursor, mdatas, elapsed, waited, sized>>
       ELSE IF cap = NoBuffer
       THEN /\ result' = OK
            /\ count' = RowCount
            /\ sized' = RowCount
            /\ UNCHANGED <<pc, cursor, mdatas, elapsed, waited>>
       ELSE /\ pc' = "collect"
            /\ cursor' = 1
            /\ mdatas' = <<>>
            /\ waited' = 0
            /\ UNCHANGED <<elapsed, result, count, sized>>
    /\ UNCHANGED store

\* One iteration of the per-type loop.  Types read as a whole elsewhere
\* (engine utilization, fabric throughput) are skipped; a sparse type
\* without data enters the retry loop.
CollectMetric ==
    /\ pc = "collect"
    /\ cursor <= NumMetrics
    /\ LET m == cursor IN
       IF m \notin PerDeviceMetrics
       THEN /\ cursor' = cursor + 1
            /\ UNCHANGED <<pc, mdatas, elapsed>>
       ELSE IF Source(m) # Null
       THEN /\ mdatas' = Collected(m, Source(m))
            /\ cursor' = cursor + 1
            /\ UNCHANGED <<pc, elapsed>>
       ELSE IF m \in Sparse
       THEN /\ pc' = "retry"
            /\ elapsed' = 0
            /\ UNCHANGED <<cursor, mdatas>>
       ELSE /\ cursor' = cursor + 1
            /\ UNCHANGED <<pc, mdatas, elapsed>>
    /\ UNCHANGED <<store, capacity, waited, buffer, result, count, sized>>

\* Mutant: the loop never re-reads the clock (end_time = time(nullptr)
\* dropped), so the retry loop cannot end while the type has no data.
RetryPollStaleClock ==
    /\ pc = "retry"
    /\ IF store[cursor] # Null
       THEN /\ mdatas' = Collected(cursor, store[cursor])
            /\ cursor' = cursor + 1
            /\ pc' = "collect"
       ELSE UNCHANGED <<pc, cursor, mdatas>>
    /\ UNCHANGED <<store, capacity, elapsed, waited, buffer, result, count, sized>>

\* Mutant: the loop condition on the window is lost; only data ends it.
RetryPollNoWindow ==
    /\ pc = "retry"
    /\ IF store[cursor] # Null
       THEN /\ mdatas' = Collected(cursor, store[cursor])
            /\ cursor' = cursor + 1
            /\ pc' = "collect"
            /\ UNCHANGED <<elapsed, waited>>
       ELSE /\ waited' = waited + 1
            /\ elapsed' \in {elapsed + 1, elapsed + 2}
            /\ UNCHANGED <<pc, cursor, mdatas>>
    /\ UNCHANGED <<store, capacity, buffer, result, count, sized>>

(***************************************************************************)
(* One pass of  while (end_time - start_time <= 30) { read; if data      *)
(* break; sleep 1 s; end_time = now }.  The times are whole seconds of   *)
(* the system clock, so one sleep of at least a second moves             *)
(* end_time - start_time on by 1, or by 2 when the truncation falls so.  *)
(***************************************************************************)
RetryPoll ==
    /\ pc = "retry"
    /\ IF store[cursor] # Null
       THEN /\ mdatas' = Collected(cursor, store[cursor])
            /\ cursor' = cursor + 1
            /\ pc' = "collect"
            /\ UNCHANGED <<elapsed, waited>>
       ELSE /\ waited' = waited + 1
            /\ \E measured \in {elapsed + 1, elapsed + 2} :
                 /\ elapsed' = measured
                 /\ IF measured > RetryWindow
                    THEN /\ pc' = "collect"
                         /\ cursor' = cursor + 1
                    ELSE UNCHANGED <<pc, cursor>>
            /\ UNCHANGED mdatas
    /\ UNCHANGED <<store, capacity, buffer, result, count, sized>>

\* Mutant: the check reads index > *count, one write past the buffer.
WriteResultOffByOne(rows, cap) ==
    IF cap + 1 < Len(rows)
    THEN [written |-> SubSeq(rows, 1, cap + 1), result |-> BufferTooSmall]
    ELSE [written |-> rows, result |-> OK]

\* The rows are written in order, the index checked against *count before
\* each write; *count is set to the index only when all were written.
WriteResult(rows, cap) ==
    IF cap < Len(rows)
    THEN [written |-> SubSeq(rows, 1, cap), result |-> BufferTooSmall]
    ELSE [written |-> rows, result |-> OK]

WriteRows ==
    /\ pc = "collect"
    /\ cursor > NumMetrics
    /\ LET w == WriteResult(Rows(mdatas), capacity)
       IN  /\ buffer' = w.written
           /\ result' = w.result
           /\ count' = IF w.result = OK THEN Len(w.written) ELSE capacity
    /\ pc' = "idle"
    /\ UNCHANGED <<store, capacity, cursor, mdatas, elapsed, waited, sized>>

(***************************************************************************)
(* getLatestMetrics.  The power test reads                                *)
(*   if (type == METRIC_POWER && probe->hasDataOnDevice(), false)         *)
(* a comma expression whose value is false, so every type, power         *)
(* included, is read from getLatestData.  *count is set to               *)
(* num_subdevice + 1 on both paths and every row is written without a    *)
(* check against the caller's *count.                                     *)
(***************************************************************************)
LatestDatas == [m \in {x \in PerDeviceMetrics : store[x] # Null} |-> store[m]]

GetLatestMetrics(found, cap) ==
    /\ pc = "idle"
    /\ capacity' = cap
    /\ result' = NoResult
    /\ IF ~found
       THEN /\ buffer' = <<>>
            /\ count' = Kept(cap)
            /\ UNCHANGED sized
       ELSE /\ count' = RowCount
            /\ sized' = IF cap = NoBuffer THEN RowCount ELSE sized
            /\ buffer' = IF cap = NoBuffer THEN <<>> ELSE Rows(LatestDatas)
    /\ UNCHANGED <<store, pc, cursor, mdatas, elapsed, waited>>

Next ==
    \/ \E m \in PerDeviceMetrics : UpdateStore(m)
    \/ \E found \in BOOLEAN :
          \/ "stats" \in Calls /\ \E cap \in Capacities("stats") :
                GetMetricsStatistics(found, cap)
          \/ "latest" \in Calls /\ \E cap \in Capacities("latest") :
                GetLatestMetrics(found, cap)
    \/ CollectMetric
    \/ RetryPoll
    \/ WriteRows

\* The client thread keeps running once inside a call; neither the
\* sampler nor the start of a call is required to happen.
Fairness == WF_vars(CollectMetric) /\ WF_vars(RetryPoll) /\ WF_vars(WriteRows)

Spec == Init /\ [][Next]_vars /\ Fairness

-----------------------------------------------------------------------------
TypeOK ==
    /\ store \in [PerDeviceMetrics -> {Null} \cup Data]
    /\ pc \in {"idle", "collect", "retry"}
    /\ cursor \in 1 .. NumMetrics + 1
    /\ elapsed \in 0 .. RetryWindow + 2
    /\ DOMAIN mdatas \subseteq PerDeviceMetrics
    /\ buffer \in Seq(SUBSET (Metrics \X {"handler", "probe"}))
    /\ result \in {OK, DeviceNotFound, BufferTooSmall, NoResult}
    /\ count \in Nat

\* A call that was given a buffer returns (the sampler's steps excluded).
FillReturns == pc' = "idle" /\ capacity' # NoBuffer /\ UNCHANGED store

(* BufferContract (spec section 8, the two-call protocol): whatever the  *)
(* sampler does between and during the reads, a call never writes more   *)
(* rows than the buffer it was given holds; a buffer of the size the      *)
(* sizing call returned gets OK and one slot fewer BUFFER_TOO_SMALL; on  *)
(* OK *count is the number of rows written.                              *)
BufferContract ==
    [][FillReturns =>
         /\ Len(buffer') <= capacity'
         /\ result' \in {OK, BufferTooSmall} =>
               (result' = BufferTooSmall <=> capacity' < sized')
         /\ result' = OK => count' = Len(buffer')]_vars

(* PowerFromProbe (spec section 4.4): when the PVC idle-power probe has  *)
(* device-level data, the device row reports power from the probe, not   *)
(* from the power handler.                                                *)
PowerFromProbe ==
    [][FillReturns /\ IdleProbe /\ Power \in PerDeviceMetrics /\ buffer' # <<>>
         => <<Power, "probe">> \in buffer'[1]]_vars

(* LatestContract: getLatestMetrics keeps both promises of section 4.4 and *)
(* section 8 together: it never overruns the caller's buffer, and its     *)
(* device row takes power from the idle probe when the probe has data.    *)
LatestContract == BufferContract /\ PowerFromProbe

(* QueryTerminates: a getMetricsStatistics call that has started always  *)
(* returns, even when no sample ever arrives for a sparse type it waits   *)
(* on: the retry loop ends by the clock it re-reads.                      *)
QueryTerminates == pc # "idle" ~> pc = "idle"

(* RetryBounded (spec section 4.4): a call blocks at most 30 seconds     *)
(* (RetryWindow) in total waiting for sparse metric types.               *)
RetryBounded == waited <= RetryWindow

=============================================================================
