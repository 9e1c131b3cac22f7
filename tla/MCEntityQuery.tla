---------------------------- MODULE MCEntityQuery ----------------------------
(* Instantiates EntityQuery for TLC: metric types 1 .. 3 with            *)
(* METRIC_ENGINE_UTILIZATION = 1 and METRIC_FABRIC_THROUGHPUT = 2, both *)
(* enabled and supported; three engine handles of which two resolve;    *)
(* four fabric links of which three have throughput info and two of    *)
(* those a remote device.                                               *)
EXTENDS EntityQuery

MCEnabled == {1, 2, 3}
MCSupported == {1, 2, 3}
MCHandles == {1, 2, 3}
MCKnownHandles == {1, 2}
MCLinks == {1, 2, 3, 4}
MCInfoLinks == {1, 2, 3}
MCResolvedLinks == {1, 2}
\* A healthy topology: every link with throughput info has a remote device.
MCAllResolved == {1, 2, 3}
\* Buffer sizes: the sized count minus one (or two) up to plus one; exactly it;
\* it or one slot fewer.
SlackAll == -1 .. 1
SlackWide == -2 .. 1
SlackExact == {0}
SlackShort == {-1, 0}
=============================================================================
