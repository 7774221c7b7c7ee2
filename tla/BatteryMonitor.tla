--------------------------- MODULE BatteryMonitor ---------------------------
(***************************************************************************)
(* What the gateway makes of the battery's data, over the link of          *)
(* GatewayLink. The NimBLE host task parses each notification into         *)
(* LiTimeNimBLEClient::currentData field by field, while on the loop task  *)
(* LiTimeBLEProvider copies the fields into BatteryData, with no lock      *)
(* between them. The rest of loop() then works on that copy: it logs that  *)
(* the battery came or went, scans, and samples the reading once a minute. *)
(*                                                                         *)
(* A field's value is the number of the notification it came from, zero if *)
(* none did; a notification of a LiTime pack has a voltage and a cell.     *)
(* Three fields stand for all, in the order in which both tasks go through *)
(* them: the voltage, what follows it, and the vector of cells.            *)
(***************************************************************************)
EXTENDS GatewayLink, Naturals

CONSTANTS
    MaxFrames,   \* bound on the notifications of one behaviour
    MaxLinks,    \* bound on the connections
    MaxBoots     \* bound on the resets

ASSUME MonitorAssumption == MaxFrames \in Nat /\ MaxLinks \in Nat /\ MaxBoots \in Nat

Field == {"voltage", "soc", "cells"}

VARIABLES
    frame,     \* the last notification that arrived
    parsing,   \* what parseNotificationData writes next
    bms,       \* currentData: the notification each field is from
    copying,   \* what syncData reads next
    data,      \* BatteryData: the notification each field is from
    valid,     \* BatteryData::valid
    met,       \* a notification was being parsed during the last copy
    logged,    \* the last event of /events.ndjson: what, of which connection
    previous,  \* previousBatteryConnected
    minute,    \* millis() - lastSampleAt >= TELEMETRY_SAMPLE_INTERVAL_MS
    ahead,     \* recordTelemetry is still ahead in this pass of loop()
    ghosts,    \* samples taken since this connection was lost
    links,     \* connections so far
    boots

hostVars == <<frame, parsing, bms>>
copyVars == <<copying, data, valid, met>>
logVars  == <<logged, previous, minute, ahead, ghosts>>
vars == <<linkVars, hostVars, copyVars, logVars, links, boots>>

Never == [f \in Field |-> 0]

Init ==
    /\ LinkInit
    /\ frame = 0 /\ parsing = "none" /\ bms = Never
    /\ copying = "none" /\ data = Never /\ valid = FALSE /\ met = FALSE
    /\ logged = [event |-> "gateway_started", link |-> 0]
    /\ previous = FALSE /\ minute = FALSE /\ ahead = FALSE /\ ghosts = 0
    /\ links = 0 /\ boots = 0

-----------------------------------------------------------------------------
(* The host task: onNotify, parseNotificationData.                         *)

(* A step of the parser, which the copy under way, if any, meets.          *)
Parses == met' = (met \/ copying # "none") /\ UNCHANGED <<copying, data, valid>>

(* A notification arrives on a live link, and its voltage is written.      *)
Notified ==
    /\ alive /\ parsing = "none" /\ frame < MaxFrames
    /\ frame' = frame + 1
    /\ bms' = [bms EXCEPT !["voltage"] = frame']
    /\ parsing' = "soc"
    /\ Parses /\ UNCHANGED <<linkVars, logVars, links, boots>>

(* Variants: a field is read from beyond the notification; the length is   *)
(* tested only where the cells begin.                                      *)
ParseBeyond ==
    /\ parsing = "soc" /\ parsing' = "clear"
    /\ bms' = [bms EXCEPT !["soc"] = frame + 1]
    /\ Parses /\ UNCHANGED <<linkVars, frame, logVars, links, boots>>

ParseShort ==
    /\ parsing = "soc" /\ parsing' \in {"clear", "none"}
    /\ bms' = [bms EXCEPT !["soc"] = frame]
    /\ Parses /\ UNCHANGED <<linkVars, frame, logVars, links, boots>>

ParseScalars ==
    /\ parsing = "soc" /\ parsing' = "clear"
    /\ bms' = [bms EXCEPT !["soc"] = frame]
    /\ Parses /\ UNCHANGED <<linkVars, frame, logVars, links, boots>>

(* cellVoltages.clear() *)
ClearCells ==
    /\ parsing = "clear" /\ parsing' = "push"
    /\ bms' = [bms EXCEPT !["cells"] = 0]
    /\ Parses /\ UNCHANGED <<linkVars, frame, logVars, links, boots>>

(* cellVoltages.push_back, cell after cell *)
PushCells ==
    /\ parsing = "push" /\ parsing' = "none"
    /\ bms' = [bms EXCEPT !["cells"] = frame]
    /\ Parses /\ UNCHANGED <<linkVars, frame, logVars, links, boots>>

-----------------------------------------------------------------------------
(* The loop task: battery.update() and battery.connect().                  *)

(* Variants: a lost link leaves the reading valid; the reading is reset    *)
(* before it is refreshed.                                                 *)
UpdateKeepsValid ==
    /\ Update /\ copying = "none" /\ ~ahead
    /\ UNCHANGED <<hostVars, copyVars, logVars, links, boots>>

UpdateResetsValid ==
    /\ Update /\ copying = "none" /\ ~ahead
    /\ valid' = FALSE
    /\ UNCHANGED <<hostVars, copying, data, met, logVars, links, boots>>

ProviderUpdate ==
    /\ Update /\ copying = "none" /\ ~ahead
    /\ valid' = (valid /\ alive)
    /\ UNCHANGED <<hostVars, copying, data, met, logVars, links, boots>>

BmsUpdate == Query /\ UNCHANGED <<hostVars, copyVars, logVars, links, boots>>

(* syncData: connected, then the fields. *)
SyncConnected ==
    /\ Sync
    /\ copying' = "voltage" /\ ahead' = (ret = "top")
    /\ met' = (parsing # "none")
    /\ UNCHANGED <<hostVars, data, valid, logged, previous, minute, ghosts, links, boots>>

CopyScalar ==
    /\ copying \in {"voltage", "soc"}
    /\ data' = [data EXCEPT ![copying] = bms[copying]]
    /\ copying' = IF copying = "voltage" THEN "soc" ELSE "cells"
    /\ UNCHANGED <<linkVars, hostVars, valid, met, logVars, links, boots>>

(* The vector of cells is copied while the host task may be refilling it:  *)
(* some of the new cells or none, or the race ends in a crash, which is a  *)
(* Reset. Then valid is computed.                                          *)
CopyCells ==
    /\ copying = "cells" /\ copying' = "none"
    /\ \E cells \in IF parsing = "push" THEN {0, frame} ELSE {bms["cells"]} :
          /\ data' = [data EXCEPT !["cells"] = cells]
          /\ valid' = (data["voltage"] > 0 /\ cells > 0)
    /\ UNCHANGED <<linkVars, hostVars, met, logVars, links, boots>>

-----------------------------------------------------------------------------
(* The loop task: the rest of loop().                                      *)

(* Variant: the gateway scans before it logs what it found. *)
ScanFirst ==
    /\ Check /\ copying = "none"
    /\ IF pc' = "scan" THEN UNCHANGED <<logged, previous>>
       ELSE /\ previous' = reported
            /\ logged' = IF reported = previous THEN logged
                         ELSE [event |-> IF reported THEN "battery_connected"
                                         ELSE "battery_disconnected", link |-> links]
    /\ ahead' = (pc' = "top")
    /\ UNCHANGED <<hostVars, copyVars, minute, ghosts, links, boots>>

(* recordEvent when the connection came or went; then the rescan decision. *)
EventAndRescan ==
    /\ Check /\ copying = "none"
    /\ previous' = reported
    /\ logged' = IF reported = previous THEN logged
                 ELSE [event |-> IF reported THEN "battery_connected" ELSE "battery_disconnected",
                       link |-> links]
    /\ ahead' = (pc' = "top")
    /\ UNCHANGED <<hostVars, copyVars, minute, ghosts, links, boots>>

(* attemptBatteryConnection. (recordTelemetry is ahead, but for setup(),   *)
(* where the minute it waits for has not passed.)                          *)
ScanFinds ==
    /\ ScanSucceeds /\ links < MaxLinks
    /\ UNCHANGED <<hostVars, copyVars, logVars, links, boots>>

AttemptFails ==
    /\ ScanFails \/ ConnectFails
    /\ ahead' = TRUE
    /\ UNCHANGED <<hostVars, copyVars, logged, previous, minute, ghosts, links, boots>>

(* onConnect and a failure after it, inside connect(). *)
ConnectStep ==
    /\ Connecting
    /\ UNCHANGED <<hostVars, copyVars, logVars, links, boots>>

(* connect() returns true. *)
Connected ==
    /\ ConnectSucceeds
    /\ valid' = FALSE /\ links' = links + 1 /\ ghosts' = 0
    /\ UNCHANGED <<hostVars, copying, data, met, logged, previous, minute, ahead, boots>>

(* recordTelemetry *)
RecordTelemetry ==
    /\ pc = "top" /\ copying = "none" /\ ahead /\ ahead' = FALSE
    /\ IF valid /\ minute
       THEN minute' = FALSE /\ ghosts' = IF alive THEN ghosts ELSE ghosts + 1
       ELSE UNCHANGED <<minute, ghosts>>
    /\ UNCHANGED <<linkVars, hostVars, copyVars, logged, previous, links, boots>>

-----------------------------------------------------------------------------
(* The radio, the clock, a reset.                                          *)

LinkDrops == Drops /\ UNCHANGED <<hostVars, copyVars, logVars, links, boots>>

MinutePasses ==
    /\ ~minute /\ minute' = TRUE
    /\ UNCHANGED <<linkVars, hostVars, copyVars, logged, previous, ahead, ghosts, links, boots>>

(* setup() starts from initialised memory and logs gateway_started. *)
Reset ==
    /\ Restart
    /\ boots < MaxBoots /\ boots' = boots + 1
    /\ parsing' = "none" /\ bms' = Never
    /\ copying' = "none" /\ data' = Never /\ valid' = FALSE /\ met' = FALSE
    /\ logged' = [event |-> "gateway_started", link |-> links]
    /\ previous' = FALSE /\ minute' = FALSE /\ ahead' = FALSE /\ ghosts' = 0
    /\ UNCHANGED <<frame, links>>

Host == Notified \/ ParseScalars \/ ClearCells \/ PushCells

Loop == \/ ProviderUpdate \/ BmsUpdate \/ SyncConnected \/ CopyScalar \/ CopyCells
        \/ EventAndRescan \/ ScanFinds \/ AttemptFails \/ Connected \/ RecordTelemetry

Next == Host \/ Loop \/ ConnectStep \/ LinkDrops \/ MinutePasses \/ Reset

Spec == Init /\ [][Next]_vars

(* The loop task runs. *)
FairSpec == Spec /\ WF_vars(Loop)

-----------------------------------------------------------------------------
(* The variables stay in their types: a field is from a notification that  *)
(* has arrived.                                                            *)
TypeOK ==
    /\ pc \in LinkPc /\ ret \in {"check", "top"}
    /\ {alive, reported, valid, met, previous, minute, ahead} \subseteq BOOLEAN
    /\ frame \in 0 .. MaxFrames
    /\ parsing \in {"none", "soc", "clear", "push"}
    /\ copying \in {"none"} \cup Field
    /\ bms \in [Field -> 0 .. frame] /\ data \in [Field -> 0 .. frame]
    /\ logged \in [event : {"gateway_started", "battery_connected", "battery_disconnected"},
                   link : 0 .. links]
    /\ ghosts \in Nat
    /\ links \in 0 .. MaxLinks /\ boots \in 0 .. MaxBoots

(* The event log never skips a loss: when a new connection is made, the    *)
(* log does not still say that the last one is there.                      *)
LogFollowsLink == logged.event = "battery_connected" => logged.link = links

(* A lost link is sampled at most once more. (Its reading stays valid      *)
(* until the next battery.update(), through a whole scan if the query was  *)
(* what failed.)                                                           *)
StaleSampleOnce == ghosts <= 1

(* While the link lives, a valid reading becomes invalid only in connect() *)
(* or by copying the cells while a notification is refilling them.         *)
InvalidOnlyInOverlap ==
    [][(valid /\ ~valid') => \/ ~alive
                             \/ pc = "connect"
                             \/ boots' # boots
                             \/ copying = "cells" /\ parsing = "push"]_vars

(* A valid reading mixes two notifications only if one was being parsed    *)
(* during the very copy that made it: every copy that meets none is whole, *)
(* so a mixed reading does not outlive the next such copy.                 *)
Torn == valid /\ \E f \in Field : data[f] # data["voltage"]
TornOnlyInOverlap == copying = "none" /\ Torn => met

(* The loss of a connection that is in the log gets into the log, even if  *)
(* the next connection is made at once.                                    *)
LossLogged ==
    logged.event = "battery_connected" /\ ~alive ~> logged.event # "battery_connected"
=============================================================================
