----------------------------- MODULE GatewayLink -----------------------------
(***************************************************************************)
(* What the rest of the firmware may rely on of the battery link: where    *)
(* the loop task is in loop() of firmware.ino, whether                     *)
(* LiTimeNimBLEClient::isConnected() would answer yes, and what            *)
(* BatteryData::connected says. BleLink implements it; BatteryMonitor puts *)
(* the battery's data and the event log on top of it.                      *)
(***************************************************************************)

VARIABLES
    pc,        \* where the loop task is
    ret,       \* where it goes from syncData
    alive,     \* LiTimeNimBLEClient::isConnected()
    reported   \* BatteryData::connected

linkVars == <<pc, ret, alive, reported>>

(* "top" is everything of loop() but battery.update(), the event and the   *)
(* attempt to connect: the web server, recordTelemetry and remoteSync.     *)
LinkPc == {"top", "query", "sync", "check", "scan", "connect"}

LinkInit == pc = "scan" /\ ret = "top" /\ alive = FALSE /\ reported = FALSE

Moves(from, to) == pc = from /\ pc' = to

(* LiTimeBLEProvider::update *)
Update ==
    /\ pc = "top"
    /\ IF alive THEN pc' = "query" /\ ret' = "check" /\ UNCHANGED reported
                ELSE pc' = "check" /\ reported' = FALSE /\ UNCHANGED ret
    /\ UNCHANGED alive

(* LiTimeNimBLEClient::update: a query that is refused clears the flag.    *)
Query == Moves("query", "sync") /\ alive' \in {alive, FALSE} /\ UNCHANGED <<ret, reported>>

(* LiTimeBLEProvider::syncData *)
Sync == Moves("sync", ret) /\ reported' = alive /\ UNCHANGED <<ret, alive>>

(* The rescan decision: never while the battery is reported connected.     *)
Check ==
    /\ pc = "check"
    /\ \/ pc' = "scan" /\ ~reported
       \/ pc' = "top"
    /\ UNCHANGED <<ret, alive, reported>>

ScanFails == Moves("scan", "top") /\ UNCHANGED <<ret, alive, reported>>

ScanSucceeds == Moves("scan", "connect") /\ ret' = "top" /\ UNCHANGED <<alive, reported>>

(* During connect() the flag is set by onConnect and cleared on a failure. *)
Connecting == pc = "connect" /\ alive' \in BOOLEAN /\ UNCHANGED <<pc, ret, reported>>

ConnectSucceeds ==
    /\ Moves("connect", "query")
    /\ alive' \in BOOLEAN /\ reported' = TRUE /\ UNCHANGED ret

ConnectFails ==
    Moves("connect", "top") /\ alive' = FALSE /\ reported' = FALSE /\ UNCHANGED ret

(* The link drops, or a query's answer is refused, behind the loop's back. *)
Drops == alive /\ alive' = FALSE /\ UNCHANGED <<pc, ret, reported>>

Restart == pc' = "scan" /\ ret' = "top" /\ alive' = FALSE /\ reported' = FALSE

LinkNext == \/ Update \/ Query \/ Sync \/ Check \/ ScanFails \/ ScanSucceeds
            \/ Connecting \/ ConnectSucceeds \/ ConnectFails \/ Drops \/ Restart

LinkSpec == LinkInit /\ [][LinkNext]_linkVars
=============================================================================
