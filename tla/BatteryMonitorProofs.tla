------------------------ MODULE BatteryMonitorProofs ------------------------
(***************************************************************************)
(* Proofs about BatteryMonitor, for any number of notifications,           *)
(* connections and resets. The invariant has five parts that stand by      *)
(* themselves: the types, the log, the samples of lost links, the values   *)
(* copied, and which notification they are of.                             *)
(***************************************************************************)
EXTENDS BatteryMonitor, TLAPS

(* previousBatteryConnected is what the log says last, and the loop task   *)
(* only scans and connects when both say that no battery is there.         *)
LogInv ==
    /\ links \in Nat
    /\ ret \in {"check", "top"}
    /\ previous <=> logged.event = "battery_connected"
    /\ pc \in {"scan", "connect"} => ~previous
    /\ LogFollowsLink

(* The types, and the bound on the connections once more: one is being     *)
(* made only while another fits.                                           *)
TypeInv ==
    /\ TypeOK
    /\ pc = "connect" => links < MaxLinks

(* Once a lost link has been sampled, its reading is not sampled again:    *)
(* recordTelemetry is behind, and the next update makes it invalid.        *)
GhostInv ==
    /\ ghosts \in 0 .. 1
    /\ ahead => pc = "top"
    /\ ghosts > 0 => /\ alive => pc = "connect"
                     /\ copying = "none" /\ pc \notin {"query", "sync"}
                     /\ valid => pc = "top" /\ ~ahead

(* A valid reading has a voltage, and the next copy will have one; so with *)
(* the cells, except while they are refilled.                              *)
ValueInv ==
    /\ frame \in Nat
    /\ bms \in [Field -> Nat] /\ data \in [Field -> Nat]
    /\ parsing # "none" => frame > 0
    /\ copying \in {"none"} \cup Field
    /\ data["voltage"] > 0 => bms["voltage"] > 0
    /\ valid => data["voltage"] > 0 /\ (bms["cells"] > 0 \/ parsing = "push")

(* Between two notifications currentData is of one; so is what a copy has  *)
(* read while it met none.                                                 *)
WholeInv ==
    /\ ValueInv
    /\ met \in BOOLEAN
    /\ parsing \in {"none", "soc", "clear", "push"}
    /\ parsing = "none" => \A f \in Field : bms[f] = bms["voltage"]
    /\ parsing # "none" => bms["voltage"] = frame
    /\ parsing \in {"clear", "push"} => bms["soc"] = frame
    /\ copying # "none" /\ parsing # "none" => met
    /\ copying \in {"soc", "cells"} /\ ~met => data["voltage"] = bms["voltage"]
    /\ copying = "cells" /\ ~met => data["soc"] = bms["soc"]
    /\ TornOnlyInOverlap

LEMMA TypeInit == Init => TypeInv
<1> SUFFICES ASSUME Init PROVE TypeInv
  OBVIOUS
<1>1. bms \in [Field -> 0 .. frame] /\ data \in [Field -> 0 .. frame]
  BY DEF Init, Never
<1>2. logged \in [event : {"gateway_started", "battery_connected", "battery_disconnected"},
                 link : 0 .. links]
  BY DEF Init
<1>3. {alive, reported, valid, met, previous, minute, ahead} \subseteq BOOLEAN
  BY DEF Init, LinkInit
<1>4. frame \in 0 .. MaxFrames /\ links \in 0 .. MaxLinks /\ boots \in 0 .. MaxBoots
  BY MonitorAssumption DEF Init
<1> QED
  BY <1>1, <1>2, <1>3, <1>4 DEF Init, LinkInit, TypeInv, TypeOK, LinkPc

(* Each step writes a field with a notification that has arrived, and what *)
(* syncData copies is of those.                                            *)
LEMMA TypeStep == TypeInv /\ [Next]_vars => TypeInv'
<1> SUFFICES ASSUME TypeInv, [Next]_vars PROVE TypeInv'
  OBVIOUS
<1> USE MonitorAssumption
    DEF TypeInv, TypeOK, LinkPc, Field, Moves, Parses, linkVars, hostVars, copyVars, logVars
<1>1. CASE Notified
  <2>1. frame' \in 0 .. MaxFrames /\ \A n \in 0 .. frame : n \in 0 .. frame'
    BY <1>1 DEF Notified
  <2>2. bms' \in [Field -> 0 .. frame'] /\ data' \in [Field -> 0 .. frame']
    BY <1>1, <2>1 DEF Notified
  <2> QED
    BY <1>1, <2>1, <2>2 DEF Notified
<1>2. CASE ParseScalars \/ ClearCells \/ PushCells
  <2>1. bms' \in [Field -> 0 .. frame']
    BY <1>2 DEF ParseScalars, ClearCells, PushCells
  <2> QED
    BY <1>2, <2>1 DEF ParseScalars, ClearCells, PushCells
<1>3. CASE ProviderUpdate
  BY <1>3 DEF ProviderUpdate, Update
<1>4. CASE BmsUpdate
  BY <1>4 DEF BmsUpdate, Query
<1>5. CASE SyncConnected
  BY <1>5 DEF SyncConnected, Sync
<1>6. CASE CopyScalar
  <2>1. data' \in [Field -> 0 .. frame']
    BY <1>6 DEF CopyScalar
  <2> QED
    BY <1>6, <2>1 DEF CopyScalar
<1>7. CASE CopyCells
  <2>1. PICK cells \in IF parsing = "push" THEN {0, frame} ELSE {bms["cells"]} :
            /\ data' = [data EXCEPT !["cells"] = cells]
            /\ valid' = (data["voltage"] > 0 /\ cells > 0)
    BY <1>7 DEF CopyCells
  <2>2. cells \in 0 .. frame
    BY <2>1
  <2>3. data' \in [Field -> 0 .. frame] /\ valid' \in BOOLEAN
    BY <2>1, <2>2
  <2> QED
    BY <1>7, <2>3 DEF CopyCells
<1>8. CASE EventAndRescan
  <2>1. logged' \in [event : {"gateway_started", "battery_connected", "battery_disconnected"},
                     link : 0 .. links]
    BY <1>8 DEF EventAndRescan
  <2>2. ahead' \in BOOLEAN /\ previous' \in BOOLEAN
    BY <1>8 DEF EventAndRescan
  <2> QED
    BY <1>8, <2>1, <2>2 DEF EventAndRescan, Check
<1>9. CASE ScanFinds \/ AttemptFails
  BY <1>9 DEF ScanFinds, ScanSucceeds, AttemptFails, ScanFails, ConnectFails
<1>10. CASE Connected
  <2>1. links' \in 0 .. MaxLinks /\ \A n \in 0 .. links : n \in 0 .. links'
    BY <1>10 DEF Connected, ConnectSucceeds
  <2>2. logged' \in [event : {"gateway_started", "battery_connected", "battery_disconnected"},
                     link : 0 .. links']
    BY <1>10, <2>1 DEF Connected
  <2> QED
    BY <1>10, <2>1, <2>2 DEF Connected, ConnectSucceeds
<1>11. CASE RecordTelemetry
  <2>1. minute' \in {FALSE, minute} /\ ahead' = FALSE
    BY <1>11, Zenon DEF RecordTelemetry
  <2>2. ghosts' \in {ghosts, ghosts + 1}
    BY <1>11, Zenon DEF RecordTelemetry
  <2>3. ghosts' \in Nat
    BY <2>2
  <2> QED
    BY <1>11, <2>1, <2>3 DEF RecordTelemetry
<1>12. CASE ConnectStep \/ LinkDrops \/ MinutePasses
  BY <1>12 DEF ConnectStep, Connecting, LinkDrops, Drops, MinutePasses
<1>13. CASE Reset
  <2>1. bms' \in [Field -> 0 .. frame'] /\ data' \in [Field -> 0 .. frame']
    BY <1>13 DEF Reset, Never
  <2>2. logged' \in [event : {"gateway_started", "battery_connected", "battery_disconnected"},
                     link : 0 .. links']
    BY <1>13 DEF Reset
  <2>3. pc' = "scan" /\ ret' = "top"
        /\ {alive, reported, valid, met, previous, minute, ahead}' \subseteq BOOLEAN
    BY <1>13 DEF Reset, Restart
  <2>4. frame' \in 0 .. MaxFrames /\ links' \in 0 .. MaxLinks /\ boots' \in 0 .. MaxBoots
    BY <1>13 DEF Reset
  <2> QED
    BY <1>13, <2>1, <2>2, <2>3, <2>4 DEF Reset
<1>14. CASE UNCHANGED vars
  BY <1>14 DEF vars
<1> QED
  BY <1>1, <1>2, <1>3, <1>4, <1>5, <1>6, <1>7, <1>8, <1>9, <1>10, <1>11, <1>12, <1>13, <1>14
     DEF Next, Loop, Host

LEMMA LogInit == Init => LogInv
  BY DEF Init, LinkInit, LogInv, LogFollowsLink

(* Each step of the loop task keeps the log; the rest leaves it alone.     *)
LEMMA LogStep == LogInv /\ [Next]_vars => LogInv'
<1> SUFFICES ASSUME LogInv, [Next]_vars PROVE LogInv'
  OBVIOUS
<1> USE DEF LogInv, LogFollowsLink, Moves, Parses, linkVars, hostVars, copyVars, logVars
<1>1. CASE Host
  BY <1>1 DEF Host, Notified, ParseScalars, ClearCells, PushCells
<1>2. CASE ProviderUpdate
  BY <1>2 DEF ProviderUpdate, Update
<1>3. CASE BmsUpdate \/ SyncConnected
  <2>1. CASE BmsUpdate
    BY <2>1 DEF BmsUpdate, Query
  <2>2. CASE SyncConnected
    BY <2>2 DEF SyncConnected, Sync
  <2> QED
    BY <1>3, <2>1, <2>2
<1>4. CASE CopyScalar \/ CopyCells
  BY <1>4 DEF CopyScalar, CopyCells
<1>5. CASE EventAndRescan
  BY <1>5 DEF EventAndRescan, Check
<1>6. CASE ScanFinds \/ AttemptFails
  BY <1>6 DEF ScanFinds, ScanSucceeds, AttemptFails, ScanFails, ConnectFails
<1>7. CASE Connected
  BY <1>7 DEF Connected, ConnectSucceeds
<1>8. CASE RecordTelemetry
  BY <1>8 DEF RecordTelemetry
<1>9. CASE ConnectStep \/ LinkDrops \/ MinutePasses
  BY <1>9 DEF ConnectStep, Connecting, LinkDrops, Drops, MinutePasses
<1>10. CASE Reset
  BY <1>10 DEF Reset, Restart
<1>11. CASE UNCHANGED vars
  BY <1>11 DEF vars
<1> QED
  BY <1>1, <1>2, <1>3, <1>4, <1>5, <1>6, <1>7, <1>8, <1>9, <1>10, <1>11 DEF Next, Loop

LEMMA GhostInit == Init => GhostInv
  BY DEF Init, LinkInit, GhostInv

(* Only recordTelemetry counts, and nothing after it can make the reading  *)
(* valid again before a new connection.                                    *)
LEMMA GhostStep == GhostInv /\ [Next]_vars => GhostInv'
<1> SUFFICES ASSUME GhostInv, [Next]_vars PROVE GhostInv'
  OBVIOUS
<1> USE DEF GhostInv, Moves, Parses, linkVars, hostVars, copyVars, logVars
<1>1. CASE Host
  BY <1>1 DEF Host, Notified, ParseScalars, ClearCells, PushCells
<1>2. CASE ProviderUpdate
  BY <1>2 DEF ProviderUpdate, Update
<1>3. CASE BmsUpdate
  BY <1>3 DEF BmsUpdate, Query
<1>4. CASE SyncConnected
  BY <1>4 DEF SyncConnected, Sync
<1>5. CASE CopyScalar \/ CopyCells
  BY <1>5 DEF CopyScalar, CopyCells
<1>6. CASE EventAndRescan
  BY <1>6 DEF EventAndRescan, Check
<1>7. CASE ScanFinds \/ AttemptFails
  BY <1>7 DEF ScanFinds, ScanSucceeds, AttemptFails, ScanFails, ConnectFails
<1>8. CASE Connected
  BY <1>8 DEF Connected, ConnectSucceeds
<1>9. CASE RecordTelemetry
  BY <1>9 DEF RecordTelemetry
<1>10. CASE ConnectStep \/ LinkDrops \/ MinutePasses
  BY <1>10 DEF ConnectStep, Connecting, LinkDrops, Drops, MinutePasses
<1>11. CASE Reset
  BY <1>11 DEF Reset, Restart
<1>12. CASE UNCHANGED vars
  BY <1>12 DEF vars
<1> QED
  BY <1>1, <1>2, <1>3, <1>4, <1>5, <1>6, <1>7, <1>8, <1>9, <1>10, <1>11, <1>12 DEF Next, Loop

LEMMA ValueInit == Init => ValueInv
  BY DEF Init, ValueInv, Never, Field

(* A voltage or a cell that has been seen stays, but for cells refilled.   *)
LEMMA ValueStep == ValueInv /\ [Next]_vars => ValueInv'
<1> SUFFICES ASSUME ValueInv, [Next]_vars PROVE ValueInv'
  OBVIOUS
<1> USE DEF ValueInv, Field, Parses, linkVars, hostVars, copyVars, logVars
<1>1. CASE Notified
  BY <1>1 DEF Notified
<1>2. CASE ParseScalars
  BY <1>2 DEF ParseScalars
<1>3. CASE ClearCells
  BY <1>3 DEF ClearCells
<1>4. CASE PushCells
  BY <1>4 DEF PushCells
<1>5. CASE CopyScalar
  BY <1>5 DEF CopyScalar
<1>6. CASE CopyCells
  <2>1. PICK cells \in IF parsing = "push" THEN {0, frame} ELSE {bms["cells"]} :
            /\ data' = [data EXCEPT !["cells"] = cells]
            /\ valid' = (data["voltage"] > 0 /\ cells > 0)
    BY <1>6 DEF CopyCells
  <2>2. cells \in Nat /\ (cells > 0 => bms["cells"] > 0 \/ parsing = "push")
    BY <2>1
  <2>3. data' \in [Field -> Nat] /\ data'["voltage"] = data["voltage"]
    BY <2>1, <2>2
  <2>4. UNCHANGED <<frame, parsing, bms>> /\ copying' = "none"
    BY <1>6 DEF CopyCells
  <2>5. valid' => data["voltage"] > 0 /\ (bms["cells"] > 0 \/ parsing = "push")
    BY <2>1, <2>2
  <2> QED
    BY <2>3, <2>4, <2>5
<1>7. CASE ProviderUpdate
  BY <1>7 DEF ProviderUpdate
<1>8. CASE SyncConnected \/ Connected
  BY <1>8 DEF SyncConnected, Connected
<1>9. CASE BmsUpdate \/ EventAndRescan \/ ScanFinds \/ AttemptFails \/ RecordTelemetry
  BY <1>9 DEF BmsUpdate, EventAndRescan, ScanFinds, AttemptFails, RecordTelemetry
<1>10. CASE ConnectStep \/ LinkDrops \/ MinutePasses
  BY <1>10 DEF ConnectStep, LinkDrops, MinutePasses
<1>11. CASE Reset
  BY <1>11 DEF Reset, Never
<1>12. CASE UNCHANGED vars
  BY <1>12 DEF vars
<1> QED
  BY <1>1, <1>2, <1>3, <1>4, <1>5, <1>6, <1>7, <1>8, <1>9, <1>10, <1>11, <1>12
     DEF Next, Loop, Host

LEMMA WholeInit == Init => WholeInv
  BY ValueInit DEF Init, WholeInv, TornOnlyInOverlap, Torn, Never, Field

(* A step of the parser during a copy is noted in met; without one the     *)
(* copy reads fields that stand still.                                     *)
LEMMA WholeStep == WholeInv /\ [Next]_vars => WholeInv'
<1> SUFFICES ASSUME WholeInv, [Next]_vars PROVE WholeInv'
  OBVIOUS
<1> ValueInv'
  BY ValueStep DEF WholeInv
<1> USE DEF WholeInv, TornOnlyInOverlap, Torn, Field, Parses, linkVars, hostVars, copyVars,
            logVars
<1>1. CASE Notified
  BY <1>1 DEF Notified, ValueInv
<1>2. CASE ParseScalars
  BY <1>2 DEF ParseScalars, ValueInv
<1>3. CASE ClearCells
  BY <1>3 DEF ClearCells, ValueInv
<1>4. CASE PushCells
  <2>1. CASE copying = "none"
    BY <1>4, <2>1 DEF PushCells, ValueInv
  <2>2. CASE copying # "none"
    BY <1>4, <2>2 DEF PushCells, ValueInv
  <2> QED
    BY <2>1, <2>2
<1>5. CASE CopyScalar
  BY <1>5 DEF CopyScalar, ValueInv
<1>6. CASE CopyCells
  BY <1>6 DEF CopyCells, ValueInv
<1>7. CASE ProviderUpdate
  BY <1>7 DEF ProviderUpdate
<1>8. CASE SyncConnected
  BY <1>8 DEF SyncConnected
<1>9. CASE Connected
  BY <1>9 DEF Connected
<1>10. CASE BmsUpdate \/ EventAndRescan \/ ScanFinds \/ AttemptFails \/ RecordTelemetry
  BY <1>10 DEF BmsUpdate, EventAndRescan, ScanFinds, AttemptFails, RecordTelemetry
<1>11. CASE ConnectStep \/ LinkDrops \/ MinutePasses
  BY <1>11 DEF ConnectStep, LinkDrops, MinutePasses
<1>12. CASE Reset
  BY <1>12 DEF Reset, Never
<1>13. CASE UNCHANGED vars
  BY <1>13 DEF vars
<1> QED
  BY <1>1, <1>2, <1>3, <1>4, <1>5, <1>6, <1>7, <1>8, <1>9, <1>10, <1>11, <1>12, <1>13
     DEF Next, Loop, Host

(* Every field copied or parsed is of a notification that has arrived, and *)
(* the log only names connections that were made.                          *)
THEOREM TypeCorrectness == Spec => []TypeOK
<1>1. TypeInv => TypeOK
  BY DEF TypeInv
<1> QED
  BY <1>1, TypeInit, TypeStep, PTL DEF Spec

(* The event log never skips a loss.                                       *)
THEOREM LogSafety == Spec => []LogFollowsLink
<1>1. LogInv => LogFollowsLink
  BY DEF LogInv
<1> QED
  BY <1>1, LogInit, LogStep, PTL DEF Spec

(* A lost link is sampled at most once more.                               *)
THEOREM SampleSafety == Spec => []StaleSampleOnce
<1>1. GhostInv => StaleSampleOnce
  BY DEF GhostInv, StaleSampleOnce
<1> QED
  BY <1>1, GhostInit, GhostStep, PTL DEF Spec

(* A copy that met no notification is whole.                               *)
THEOREM WholeSafety == Spec => []TornOnlyInOverlap
<1>1. WholeInv => TornOnlyInOverlap
  BY DEF WholeInv
<1> QED
  BY <1>1, WholeInit, WholeStep, PTL DEF Spec

(* While the link lives, a valid reading becomes invalid only in connect() *)
(* or by an overlap of copying the cells and refilling them.               *)
THEOREM ValiditySafety == Spec => InvalidOnlyInOverlap
<1> DEFINE Overlap == \/ ~alive \/ pc = "connect" \/ boots' # boots
                      \/ copying = "cells" /\ parsing = "push"
<1>1. ValueInv /\ [Next]_vars => [(valid /\ ~valid') => Overlap]_vars
  <2> SUFFICES ASSUME ValueInv, [Next]_vars, valid, ~valid' PROVE Overlap
    OBVIOUS
  <2> USE DEF ValueInv, Field, Parses, linkVars, hostVars, copyVars, logVars, Moves
  <2>1. CASE CopyCells
    BY <2>1 DEF CopyCells
  <2>2. CASE ProviderUpdate
    BY <2>2 DEF ProviderUpdate
  <2>3. CASE Connected
    BY <2>3 DEF Connected, ConnectSucceeds
  <2>4. CASE Reset
    BY <2>4, MonitorAssumption DEF Reset
  <2>5. CASE ~(CopyCells \/ ProviderUpdate \/ Connected \/ Reset)
    BY <2>5 DEF Next, Host, Loop, Notified, ParseScalars, ClearCells, PushCells, BmsUpdate,
       SyncConnected, CopyScalar, EventAndRescan, ScanFinds, AttemptFails, RecordTelemetry,
       ConnectStep, LinkDrops, MinutePasses, vars
  <2> QED
    BY <2>1, <2>2, <2>3, <2>4, <2>5
<1> QED
  BY <1>1, ValueInit, ValueStep, PTL DEF Spec, InvalidOnlyInOverlap
=============================================================================
