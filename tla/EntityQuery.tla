----------------------------- MODULE EntityQuery -----------------------------
(***************************************************************************)
(* The multi-entity queries of DataLogic (data_logic.cpp):                *)
(* getEngineStatistics, getEngineUtilizations,                           *)
(* getFabricThroughputStatistics and getFabricThroughput, and the       *)
(* topology walk getFabricLinkInfo.  Each query reads                    *)
(* one multi-metrics MeasurementData (one entry per engine handle or per  *)
(* fabric link) with a single handler call, so a call is one step; the   *)
(* sampler changes the data between the sizing call and the fill call.  *)
(*                                                                         *)
(* The device topology is fixed: the engine handles whose engine index   *)
(* resolves, the links getFabricThroughputInfo knows, and those whose    *)
(* remote fabric id maps to a device.                                     *)
(***************************************************************************)
EXTENDS QueryBase, TLC
LOCAL INSTANCE SequencesExt

CONSTANTS
    EngineUtilization, \* METRIC_ENGINE_UTILIZATION
    FabricThroughput,  \* METRIC_FABRIC_THROUGHPUT
    Handles,           \* engine handles, in std::map order
    KnownHandles,      \* getEngineIndex(handle) != UINT32_MAX
    Links,             \* fabric ids, in std::map order
    InfoLinks,         \* getFabricThroughputInfo(id, info) succeeds
    ResolvedLinks,     \* getDeviceIDByFabricID(info.remote_fabric_id) != ""
    Slack,             \* buffer sizes a caller passes, relative to the sized count
    Calls              \* the calls the client makes

ASSUME /\ KnownHandles \subseteq Handles /\ Handles \subseteq Nat
       /\ InfoLinks \subseteq Links /\ ResolvedLinks \subseteq Links
       /\ Links \subseteq Nat

GenericError == "XPUM_GENERIC_ERROR"
NotEnabled == "XPUM_METRIC_NOT_ENABLED"
NotSupported == "XPUM_METRIC_NOT_SUPPORTED"

EngineCalls == {"engine_stats", "engine_util"}
FabricCalls == {"fabric_stats", "fabric_util"}
\* Which handler call feeds a query: getLatestStatistics or getLatestData.
Feed(c) == IF c \in {"engine_stats", "fabric_stats"} THEN "stats" ELSE "latest"

\* getEngineCount() and getFabricThroughputInfoCount().
EngineCount == Cardinality(KnownHandles)
InfoCount == Cardinality(InfoLinks)

VARIABLES
    engineData, \* feed -> nullptr, or handle -> (current != UINT64_MAX)
    fabricData, \* feed -> nullptr, or the set of links with an entry
    call,       \* the last call made
    capacity,   \* its *count on entry, or NoBuffer
    buffer,     \* the ids of the rows it wrote, in order
    result,     \* its return value
    count,      \* *count on return
    sized       \* call -> the count its last sizing call returned

vars == <<engineData, fabricData, call, capacity, buffer, result, count, sized>>

EngineValues == {Null} \cup UNION {[S -> BOOLEAN] : S \in SUBSET Handles}
FabricValues == {Null} \cup SUBSET Links

Init ==
    /\ engineData \in [{"stats", "latest"} -> EngineValues]
    /\ fabricData \in [{"stats", "latest"} -> FabricValues]
    \* a feed no call of the run reads stays empty
    /\ \A f \in {"stats", "latest"} :
         /\ (\A c \in Calls \cap EngineCalls : Feed(c) # f) => engineData[f] = Null
         /\ (\A c \in Calls \cap FabricCalls : Feed(c) # f) => fabricData[f] = Null
    /\ call \in Calls
    /\ capacity = NoBuffer
    /\ buffer = <<>>
    /\ result = OK
    /\ count = 0
    /\ sized = [c \in Calls |-> NoBuffer]

\* The sampler stores a new multi-entity sample, or a session reset drops
\* a window, for a feed some call reads.
UpdateEngine(f) ==
    /\ \E c \in Calls \cap EngineCalls : Feed(c) = f
    /\ \E v \in EngineValues \ {engineData[f]} :
         engineData' = [engineData EXCEPT ![f] = v]
    /\ UNCHANGED <<fabricData, call, capacity, buffer, result, count, sized>>

UpdateFabric(f) ==
    /\ \E c \in Calls \cap FabricCalls : Feed(c) = f
    /\ \E v \in FabricValues \ {fabricData[f]} :
         fabricData' = [fabricData EXCEPT ![f] = v]
    /\ UNCHANGED <<engineData, call, capacity, buffer, result, count, sized>>

Capacities(c) ==
    {NoBuffer} \cup
    IF sized[c] = NoBuffer THEN {} ELSE {sized[c] + k : k \in Slack} \cap Nat

Ascending(S) == SetToSortSeq(S, <)

EngineStatsRows(d) == Ascending({h \in DOMAIN d : h \in KnownHandles /\ d[h]})
EngineUtilRows(d) == Ascending(DOMAIN d \cap KnownHandles)
FabricRows(d) == Ascending(d \cap InfoLinks)

(***************************************************************************)
(* The write loop of the engine queries and of getFabricThroughput: for  *)
(* each entry, a link that does not resolve ends the call with           *)
(* GENERIC_ERROR; then index >= *count ends it with BUFFER_TOO_SMALL;    *)
(* else the row is written.  bad is the set of ids that do not resolve. *)
(***************************************************************************)
RECURSIVE EmitOffByOne(_, _, _, _)
\* Mutant: the check reads index > *count.
EmitOffByOne(ids, cap, bad, out) ==
    IF ids = <<>> THEN [result |-> OK, rows |-> out]
    ELSE IF Head(ids) \in bad THEN [result |-> GenericError, rows |-> out]
    ELSE IF Len(out) > cap THEN [result |-> BufferTooSmall, rows |-> out]
    ELSE EmitOffByOne(Tail(ids), cap, bad, Append(out, Head(ids)))

RECURSIVE EmitIgnoresTopology(_, _, _, _)
\* Mutant: a link without a remote device is written like any other.
EmitIgnoresTopology(ids, cap, bad, out) ==
    IF ids = <<>> THEN [result |-> OK, rows |-> out]
    ELSE IF Len(out) >= cap THEN [result |-> BufferTooSmall, rows |-> out]
    ELSE EmitIgnoresTopology(Tail(ids), cap, bad, Append(out, Head(ids)))

RECURSIVE Emit(_, _, _, _)
Emit(ids, cap, bad, out) ==
    IF ids = <<>> THEN [result |-> OK, rows |-> out]
    ELSE IF Head(ids) \in bad THEN [result |-> GenericError, rows |-> out]
    ELSE IF Len(out) >= cap THEN [result |-> BufferTooSmall, rows |-> out]
    ELSE Emit(Tail(ids), cap, bad, Append(out, Head(ids)))

\* What a call returns: result, *count, the rows written, and whether
\* the count is a sizing answer.
Ret(res, cnt, rows, isSizing) ==
    [result |-> res, count |-> cnt, rows |-> rows, sizing |-> isSizing]
\* *count is in-out: a call that does not set it leaves the caller's value.
Kept(cap) == IF cap = NoBuffer THEN count ELSE cap
Written(e, cap) ==
    Ret(e.result, IF e.result = OK THEN Len(e.rows) ELSE Kept(cap), e.rows, FALSE)

\* The enabled and capability checks shared by the entity queries.
Filtered(m) ==
    CASE m \notin Enabled  -> Ret(NotEnabled, 0, <<>>, FALSE)
      [] m \notin QueryMetrics -> Ret(NotSupported, 0, <<>>, FALSE)

\* getEngineStatistics: the sizing answer comes before the checks.
EngineStatistics(found, cap) ==
    LET d == engineData["stats"] IN
    CASE ~found -> Ret(DeviceNotFound, Kept(cap), <<>>, FALSE)
      [] cap = NoBuffer -> Ret(OK, EngineCount, <<>>, TRUE)
      [] EngineUtilization \notin QueryMetrics -> Filtered(EngineUtilization)
      [] d = Null -> Ret(OK, 0, <<>>, FALSE)
      [] OTHER -> Written(Emit(EngineStatsRows(d), cap, {}, <<>>), cap)

(***************************************************************************)
(* getEngineUtilizations sets *count = getEngineCount() before the       *)
(* dataList test, so the write loop checks the index against the engine  *)
(* count, not against the caller's buffer; the entries are not tested    *)
(* for the UINT64_MAX sentinel.                                          *)
(***************************************************************************)
EngineUtilizations(found, cap) ==
    LET d == engineData["latest"] IN
    CASE ~found -> Ret(DeviceNotFound, 0, <<>>, FALSE)
      [] EngineUtilization \notin QueryMetrics -> Filtered(EngineUtilization)
      [] cap = NoBuffer -> Ret(OK, EngineCount, <<>>, TRUE)
      [] d = Null -> Ret(OK, 0, <<>>, FALSE)
      [] OTHER -> LET e == Emit(EngineUtilRows(d), EngineCount, {}, <<>>)
                  IN  Ret(e.result, IF e.result = OK THEN Len(e.rows)
                                    ELSE EngineCount, e.rows, FALSE)

(***************************************************************************)
(* getFabricThroughputStatistics: the rows are counted first and the     *)
(* call fails with BUFFER_TOO_SMALL, *count = total, before writing; a   *)
(* sample older than the session's begin timestamp (stale) gives no rows;*)
(* the write loop itself has no index check.                             *)
(***************************************************************************)
FabricThroughputStatistics(found, cap, stale) ==
    LET d == fabricData["stats"] IN
    CASE ~found -> Ret(DeviceNotFound, 0, <<>>, FALSE)
      [] FabricThroughput \notin QueryMetrics -> Filtered(FabricThroughput)
      [] cap = NoBuffer \/ InfoCount = 0 -> Ret(OK, InfoCount, <<>>, cap = NoBuffer)
      [] d = Null -> Ret(OK, 0, <<>>, FALSE)
      [] Len(FabricRows(d)) > cap -> Ret(BufferTooSmall, Len(FabricRows(d)), <<>>, FALSE)
      [] stale -> Ret(OK, 0, <<>>, FALSE)
      [] OTHER -> Written(Emit(FabricRows(d), Len(FabricRows(d)),
                                    InfoLinks \ ResolvedLinks, <<>>), cap)

\* getFabricThroughput: *count == 0 is also a sizing call.
FabricThroughputLatest(found, cap) ==
    LET d == fabricData["latest"] IN
    CASE ~found -> Ret(DeviceNotFound, 0, <<>>, FALSE)
      [] FabricThroughput \notin QueryMetrics -> Filtered(FabricThroughput)
      [] cap = NoBuffer \/ cap = 0 -> Ret(OK, InfoCount, <<>>, TRUE)
      [] d = Null -> Ret(OK, 0, <<>>, FALSE)
      [] OTHER -> Written(Emit(FabricRows(d), cap, InfoLinks \ ResolvedLinks, <<>>), cap)

(***************************************************************************)
(* getFabricLinkInfo: one row per leaf of getFabricThroughputIDS (the     *)
(* links with throughput info), with no data read.  A null info array is *)
(* the sizing call and resolves nothing; a fill writes every leaf without *)
(* ever reading *count, and returns false, *count untouched, at the first *)
(* leaf whose remote fabric id has no device.                             *)
(***************************************************************************)
LinkInfoFalse == "false"

FabricLinkInfo(found, cap) ==
    LET e == Emit(Ascending(InfoLinks), InfoCount, InfoLinks \ ResolvedLinks, <<>>) IN
    CASE ~found -> Ret(LinkInfoFalse, Kept(cap), <<>>, FALSE)
      [] cap = NoBuffer -> Ret(OK, InfoCount, <<>>, TRUE)
      [] e.result = OK -> Ret(OK, Len(e.rows), e.rows, FALSE)
      [] OTHER -> Ret(LinkInfoFalse, Kept(cap), e.rows, FALSE)

Outcome(c, found, cap, stale) ==
    CASE c = "engine_stats" -> EngineStatistics(found, cap)
      [] c = "engine_util"  -> EngineUtilizations(found, cap)
      [] c = "fabric_stats" -> FabricThroughputStatistics(found, cap, stale)
      [] c = "fabric_util"  -> FabricThroughputLatest(found, cap)
      [] c = "link_info"    -> FabricLinkInfo(found, cap)

\* One call of the client thread.
Query(c, found, cap, stale) ==
    LET o == Outcome(c, found, cap, stale) IN
    /\ call' = c
    /\ capacity' = cap
    /\ result' = o.result
    /\ count' = o.count
    /\ buffer' = o.rows
    /\ sized' = IF o.sizing THEN [sized EXCEPT ![c] = o.count] ELSE sized
    /\ UNCHANGED <<engineData, fabricData>>

Next ==
    \/ \E f \in {"stats", "latest"} : UpdateEngine(f) \/ UpdateFabric(f)
    \/ \E c \in Calls, found, stale \in BOOLEAN :
         \E cap \in Capacities(c) : Query(c, found, cap, stale)

Spec == Init /\ [][Next]_vars

-----------------------------------------------------------------------------
\* A call that was given a buffer returns (the sampler's steps excluded).
FillReturns ==
    capacity' # NoBuffer /\ UNCHANGED <<engineData, fabricData>>

(* EntityBufferContract (spec sections 6 and 8, the two-call protocol):  *)
(* whatever the sampler stores between the sizing and the fill call, a   *)
(* call never writes more rows than its buffer holds; a buffer of the    *)
(* size the sizing call returned never gets BUFFER_TOO_SMALL; on OK      *)
(* *count is the number of rows written.                                  *)
EntityBufferContract ==
    [][FillReturns =>
         /\ Len(buffer') <= capacity'
         /\ capacity' >= sized'[call'] => result' # BufferTooSmall
         /\ result' = OK => count' = Len(buffer')]_vars

(* RowsResolved (spec section 4.5): every row is of an entity that       *)
(* resolves through the topology (an engine index, a link with a remote *)
(* device) and whose value is not the UINT64_MAX sentinel, and an OK     *)
(* answer with rows lists every such entity of the sample read; a link  *)
(* with throughput info but no remote device means the call fails        *)
(* (section 4.5: it aborts with a hard error, not a row omission).       *)
Resolvable(c) ==
    LET e == engineData[Feed(c)]
        f == fabricData[Feed(c)]
    IN  CASE c \in EngineCalls /\ e # Null ->
               {h \in DOMAIN e : h \in KnownHandles /\ e[h]}
          [] c \in FabricCalls /\ f # Null -> f \cap InfoLinks \cap ResolvedLinks
          [] c = "link_info" -> InfoLinks \cap ResolvedLinks
          [] OTHER -> {}

Unresolved(c) ==
    CASE c \in FabricCalls /\ fabricData[Feed(c)] # Null ->
           (fabricData[Feed(c)] \cap InfoLinks) \ ResolvedLinks
      [] c = "link_info" -> InfoLinks \ ResolvedLinks
      [] OTHER -> {}

RowsResolved ==
    [][FillReturns /\ buffer' # <<>> =>
         /\ ToSet(buffer') \subseteq Resolvable(call')
         /\ result' = OK => /\ ToSet(buffer') = Resolvable(call')
                            /\ Unresolved(call') = {}]_vars


(* EntityContract: both promises of a fill call together, the buffer     *)
(* bound and count of the two-call protocol and the rows it reports.     *)
EntityContract == EntityBufferContract /\ RowsResolved

=============================================================================
