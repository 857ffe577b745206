----------------------------- MODULE MCMarkers ------------------------------
(***************************************************************************)
(* An instance of Markers, and with it of Queue, for TLC.                  *)
(***************************************************************************)
EXTENDS Markers

CONSTANTS seen1, seen2

CreatedAt == <<1, 2, 3>>

Same == [j \in Jobs |-> 3]
Different == [j \in Jobs |-> IF j = seen1 THEN 1 ELSE 2]
SeenMessages == {Same, Different}

\* A message that was seen before is marked twice, with a fault and an early
\* reclaim; or an older and a newer message, with one of the two.
MCInit == /\ MarkersInit
          /\ \/ payload = Same /\ marker = {3} /\ faults + stale = 0
             \/ payload = Different /\ marker = {} /\ faults + stale = MaxFaults + MaxStale - 1

MCSpec == MCInit /\ [][MarkersNext]_markerVars /\ Fairness
=============================================================================
