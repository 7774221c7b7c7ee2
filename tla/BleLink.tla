------------------------------- MODULE BleLink -------------------------------
(***************************************************************************)
(* The BLE link between the gateway and a LiTime battery.                  *)
(*                                                                         *)
(* Two FreeRTOS tasks of a dual-core ESP32 share it without a lock:        *)
(*   - the Arduino loop task runs loop() of firmware.ino: it updates the   *)
(*     battery provider, and while no battery is connected scans and calls *)
(*     LiTimeNimBLEClient::connect;                                        *)
(*   - the NimBLE host task delivers GAP events to NimBLEClient objects    *)
(*     and calls LiTimeNimBLEClient's onConnect / onDisconnect.            *)
(* The loop task's program counter is pc; each of its steps is the code    *)
(* between two points where the host task's effect can be observed.        *)
(***************************************************************************)
EXTENDS Naturals, FiniteSets

CONSTANTS
    Battery,          \* addresses of the LiTime packs in radio range
    NoBattery,        \* the null address
    MaxClients,       \* NIMBLE_MAX_CONNECTIONS, the size of m_pClients
    ConnectRetries,   \* m_config.connectFailRetries
    WriteFaults,      \* may a query be refused while the link stays up?
    MaxFaults         \* bound on the environment's faults in one behaviour

ASSUME BatteryAssumption == /\ IsFiniteSet(Battery) /\ Battery # {}
                            /\ NoBattery \notin Battery
ASSUME BoundsAssumption  == /\ MaxClients \in Nat \ {0}
                            /\ ConnectRetries \in Nat
                            /\ MaxFaults \in Nat
                            /\ WriteFaults \in BOOLEAN

Slot     == 1 .. MaxClients
NoClient == 0

(* The states of a NimBLEClient, and "free" for a null entry of m_pClients. *)
Status == {"free", "DISCONNECTED", "CONNECTING", "CONNECTED", "DISCONNECTING"}

(* The host stack's view of a connection: "down" is a loss the controller  *)
(* has reported and the host task has not handled yet.                     *)
LinkState == {"none", "opening", "up", "closing", "down"}

(* Where the loop task can be: each value names the code it is about to    *)
(* run, from LiTimeBLEProvider::update ("top") on.                         *)
LoopPc == { "top", "query", "write", "sync", "check", "scan",
            "drop", "dropMark", "clear", "delete", "doom", "terminate",
            "terminateMark", "create", "start", "wait", "discover",
            "finish", "failed", "panic" }

(* An ATT request of the loop task. It is transmitted first and put into   *)
(* the host's list of procedures after that: "stray" when the host had     *)
(* failed the procedures of the connection, lost meanwhile, in between.    *)
Request == {"none", "sent", "listed", "stray"}

(* What the host task is in the middle of: for a lost connection, it has   *)
(* failed its procedures and forgotten it ("broken"), called onDisconnect  *)
(* ("told"), assigned the status ("marked"); for a procedure that timed    *)
(* out, it has called its callback and not yet terminated the connection.  *)
Stage == {"idle", "broken", "told", "marked", "expired"}

VARIABLES
    pc,             \* where the loop task is
    ret,            \* where it returns to from syncData or deleteClient
    target,         \* LiTimeNimBLEClient::deviceAddress
    client,         \* LiTimeNimBLEClient::client
    chars,          \* the client whose attributes the characteristic pointers point into
    connected,      \* LiTimeNimBLEClient::connected, written by both tasks
    dataConnected,  \* BatteryData::connected
    due,            \* millis() - lastBatteryScanAt >= BATTERY_RESCAN_INTERVAL_MS
    result,         \* what the host task released the waiting loop task with
    request,        \* the ATT request the loop task has made and waits for
    status,         \* m_connStatus of each client object
    peer,           \* m_peerAddress
    doomed,         \* m_config.deleteOnDisconnect
    pending,        \* m_connectCallbackPending
    retries,        \* m_connectFailRetryCount
    link,           \* the host stack's connection of each client object
    host,           \* the client whose disconnect or time-out the host task handles
    stage,          \* how far it is in that
    waiter,         \* its copy of m_pTaskData is not null
    faults          \* faults injected so far

loopVars == <<pc, ret, target, client, chars, dataConnected>>
waitVars == <<result, request>>
slotVars == <<status, peer, doomed, pending, retries>>
hostVars == <<host, stage, waiter>>
vars     == <<loopVars, connected, due, waitVars, slotVars, link, hostVars, faults>>

-----------------------------------------------------------------------------
Allocated(s) == status[s] # "free"

(* LiTimeNimBLEClient::isConnected *)
IsConnected == connected /\ client # NoClient /\ status[client] = "CONNECTED"

(* NimBLEDevice::getClientByPeerAddress: the first entry with that address. *)
IsFirstWithPeer(s, b) ==
    /\ Allocated(s) /\ peer[s] = b
    /\ \A t \in Slot : t < s => ~(Allocated(t) /\ peer[t] = b)

(* NimBLEScan drops the advertisements of a peer it takes for connected.   *)
Visible(b) == ~ \E s \in Slot : IsFirstWithPeer(s, b) /\ status[s] = "CONNECTED"

IsFirstFree(s) == ~Allocated(s) /\ \A t \in Slot : t < s => Allocated(t)

(* ble_gap_connect answers BLE_HS_EDONE when the host has such a connection. *)
HostHasLinkTo(b) == \E s \in Slot : peer[s] = b /\ link[s] \in {"up", "closing", "down"}

Fault == faults < MaxFaults /\ faults' = faults + 1

(* A scan lasts ten seconds and a link is given up after 1.5 s: a loss or  *)
(* a termination that began before the scan is handled when it ends. (One  *)
(* that begins during the scan acts as one that begins right after it.)    *)
HostIdle == stage = "idle"

Settled == HostIdle /\ \A s \in Slot : link[s] \notin {"closing", "down"}

Goto(from, to) == pc = from /\ pc' = to

-----------------------------------------------------------------------------
(* setup() ends in attemptBatteryConnection(), whose scan is the first step. *)
Init ==
    /\ pc = "scan" /\ ret = "top" /\ target = NoBattery
    /\ client = NoClient /\ chars = NoClient
    /\ connected = FALSE /\ dataConnected = FALSE /\ due = FALSE
    /\ result = "none" /\ request = "none"
    /\ status = [s \in Slot |-> "free"]
    /\ peer = [s \in Slot |-> NoBattery]
    /\ doomed = [s \in Slot |-> FALSE]
    /\ pending = [s \in Slot |-> FALSE]
    /\ retries = [s \in Slot |-> 0]
    /\ link = [s \in Slot |-> "none"]
    /\ host = NoClient /\ stage = "idle" /\ waiter = FALSE
    /\ faults = 0

-----------------------------------------------------------------------------
(* The loop task: battery.update() and the rescan decision.                *)

(* LiTimeBLEProvider::update *)
ProviderUpdate ==
    /\ pc = "top"
    /\ IF IsConnected
       THEN pc' = "query" /\ ret' = "check" /\ UNCHANGED dataConnected
       ELSE pc' = "check" /\ dataConnected' = FALSE /\ UNCHANGED ret
    /\ UNCHANGED <<target, client, chars, connected, due, waitVars, slotVars, link, hostVars, faults>>

(* LiTimeNimBLEClient::update up to the blocking write; the write is made  *)
(* only when a second has passed since lastQuery.                          *)
BmsUpdate ==
    /\ pc = "query"
    /\ IF IsConnected
       THEN pc' \in {"write", "sync"} /\ UNCHANGED connected
       ELSE pc' = "sync" /\ connected' = FALSE
    /\ UNCHANGED <<ret, target, client, chars, dataConnected, due, waitVars, slotVars, link, hostVars, faults>>

(* ble_gattc_write, and each request of the discovery: the request is      *)
(* transmitted under the host's lock, and listed without it.               *)
Transmit ==
    /\ pc \in {"write", "discover"} /\ request = "none" /\ result = "none"
    /\ link[client] # "none"
    /\ request' = "sent"
    /\ UNCHANGED <<loopVars, connected, due, result, slotVars, link, hostVars, faults>>

(* A stray request stays so: when it times out, onWriteCB and the callbacks *)
(* of the discovery find that the client no longer has that connection     *)
(* handle and return without releasing the task.                           *)
ListRequest ==
    /\ request = "sent"
    /\ request' = IF link[client] = "none" THEN "stray" ELSE "listed"
    /\ UNCHANGED <<loopVars, connected, due, result, slotVars, link, hostVars, faults>>

(* The request failed: the host task released the task with an error, or   *)
(* there was no connection, or the host had no buffer, to send it.         *)
RequestFailed(mayRefuse) ==
    /\ \/ result = "fail" /\ UNCHANGED faults
       \/ /\ request = "none" /\ result = "none"
          /\ \/ link[client] = "none" /\ UNCHANGED faults
             \/ link[client] # "none" /\ mayRefuse /\ Fault
    /\ result' = "none"

(* writeValue returned true: the response came, whatever happened since.   *)
WriteAnswered ==
    /\ Goto("write", "sync")
    /\ result = "ok" /\ result' = "none"
    /\ UNCHANGED <<ret, target, client, chars, connected, dataConnected, due, request,
                   slotVars, link, hostVars, faults>>

(* writeValue returned false: connected is cleared.                        *)
WriteFailed ==
    /\ Goto("write", "sync")
    /\ RequestFailed(WriteFaults)
    /\ connected' = FALSE
    /\ UNCHANGED <<ret, target, client, chars, dataConnected, due, request,
                   slotVars, link, hostVars>>

(* LiTimeBLEProvider::syncData *)
SyncData ==
    /\ Goto("sync", ret)
    /\ dataConnected' = IsConnected
    /\ UNCHANGED <<ret, target, client, chars, connected, due, waitVars, slotVars, link, hostVars, faults>>

(* Variants of RescanCheck with a plausible bug: the test of the provider's *)
(* connection is dropped; only setup() scans.                              *)
RescanAlways ==
    /\ pc = "check"
    /\ IF due THEN pc' = "scan" /\ due' = FALSE ELSE pc' = "top" /\ UNCHANGED due
    /\ UNCHANGED <<ret, target, client, chars, connected, dataConnected, waitVars,
                   slotVars, link, hostVars, faults>>

RescanNever ==
    /\ Goto("check", "top")
    /\ UNCHANGED <<ret, target, client, chars, connected, dataConnected, due, waitVars,
                   slotVars, link, hostVars, faults>>

(* The rest of loop(): rescan when disconnected and a minute has passed.   *)
RescanCheck ==
    /\ pc = "check"
    /\ IF ~dataConnected /\ due
       THEN pc' = "scan" /\ due' = FALSE
       ELSE pc' = "top" /\ UNCHANGED due
    /\ UNCHANGED <<ret, target, client, chars, connected, dataConnected, waitVars,
                   slotVars, link, hostVars, faults>>

(* The blocking scan found b first; connect() starts. An address that is   *)
(* connected already is a success at once.                                 *)
ScanFinds(b) ==
    /\ pc = "scan" /\ Settled /\ Visible(b)
    /\ IF IsConnected /\ target = b
       THEN pc' = "query" /\ ret' = "top" /\ dataConnected' = TRUE /\ UNCHANGED target
       ELSE pc' = "drop" /\ ret' = "create" /\ target' = b /\ UNCHANGED dataConnected
    /\ UNCHANGED <<client, chars, connected, due, waitVars, slotVars, link, hostVars, faults>>

(* No compatible advertisement: none is visible, or they were missed.      *)
ScanEmpty ==
    /\ Goto("scan", "top") /\ Settled
    /\ \/ (\A b \in Battery : ~Visible(b)) /\ UNCHANGED faults
       \/ (\E b \in Battery : Visible(b)) /\ Fault
    /\ UNCHANGED <<ret, target, client, chars, connected, dataConnected, due, waitVars,
                   slotVars, link, hostVars>>

-----------------------------------------------------------------------------
(* The loop task: LiTimeNimBLEClient::disconnect, clearConnection and      *)
(* NimBLEDevice::deleteClient, reached from connect() alone.               *)

(* ble_gap_terminate on a live connection; every other answer it gives     *)
(* (ENOTCONN, EALREADY, UNK_CONN_ID) leaves the client's status alone.     *)
Terminate(s) == link' = [link EXCEPT ![s] = "closing"]

(* disconnect(): a connected client is terminated first. The status is     *)
(* assigned only after ble_gap_terminate has returned.                     *)
Drop ==
    /\ pc = "drop"
    /\ IF client # NoClient /\ status[client] = "CONNECTED" /\ link[client] = "up"
       THEN pc' = "dropMark" /\ Terminate(client)
       ELSE pc' = "clear" /\ UNCHANGED link
    /\ UNCHANGED <<ret, target, client, chars, connected, dataConnected, due, waitVars,
                   slotVars, hostVars, faults>>

DropMark ==
    /\ Goto("dropMark", "clear")
    /\ status' = [status EXCEPT ![client] = "DISCONNECTING"]
    /\ UNCHANGED <<ret, target, client, chars, connected, dataConnected, due, waitVars,
                   peer, doomed, pending, retries, link, hostVars, faults>>

(* clearConnection up to its call of deleteClient. *)
Clear ==
    /\ pc = "clear"
    /\ connected' = FALSE /\ chars' = NoClient
    /\ pc' = IF client = NoClient THEN ret ELSE "delete"
    /\ UNCHANGED <<ret, target, client, dataConnected, due, waitVars, slotVars, link, hostVars, faults>>

(* What `delete clt; clt = nullptr` leaves of an entry of m_pClients. *)
Free(s) ==
    /\ status' = [status EXCEPT ![s] = "free"]
    /\ peer' = [peer EXCEPT ![s] = NoBattery]
    /\ doomed' = [doomed EXCEPT ![s] = FALSE]

(* Variant: the client is freed whatever its status. *)
DeleteAtOnce ==
    /\ pc = "delete"
    /\ pc' = ret /\ Free(client) /\ client' = NoClient /\ UNCHANGED <<pending, retries>>
    /\ UNCHANGED <<ret, target, chars, connected, dataConnected, due, waitVars, link, hostVars, faults>>

(* deleteClient reads the status and picks its branch. No client is        *)
(* CONNECTING here: the loop task itself has waited for the outcome.       *)
DeleteClient ==
    /\ pc = "delete"
    /\ IF status[client] \in {"CONNECTED", "DISCONNECTING"}
       THEN pc' = "doom" /\ UNCHANGED <<client, slotVars>>
       ELSE pc' = ret /\ Free(client) /\ client' = NoClient /\ UNCHANGED <<pending, retries>>
    /\ UNCHANGED <<ret, target, chars, connected, dataConnected, due, waitVars, link, hostVars, faults>>

(* Variant: the flag is not set before the connection is terminated. *)
DoomForgotten ==
    /\ Goto("doom", "terminate")
    /\ UNCHANGED <<ret, target, client, chars, connected, dataConnected, due, waitVars,
                   slotVars, link, hostVars, faults>>

(* m_config.deleteOnDisconnect = true *)
Doom ==
    /\ Goto("doom", "terminate")
    /\ doomed' = [doomed EXCEPT ![client] = TRUE]
    /\ UNCHANGED <<ret, target, client, chars, connected, dataConnected, due, waitVars,
                   status, peer, pending, retries, link, hostVars, faults>>

(* clt->disconnect() of deleteClient: clt is null, and the chip panics,    *)
(* when the host task has deleted the client since it was doomed.          *)
DoomedTerminate ==
    /\ pc = "terminate"
    /\ \/ /\ ~Allocated(client)
          /\ pc' = "panic" /\ UNCHANGED <<client, link>>
       \/ /\ Allocated(client) /\ link[client] = "up"
          /\ pc' = "terminateMark" /\ Terminate(client) /\ UNCHANGED client
       \/ /\ Allocated(client) /\ link[client] # "up"
          /\ pc' = ret /\ client' = NoClient /\ UNCHANGED link
    /\ UNCHANGED <<ret, target, chars, connected, dataConnected, due, waitVars, slotVars, hostVars, faults>>

(* The status assignment after ble_gap_terminate. It lands in freed memory *)
(* when the host task has deleted the client: harmless, or a panic.        *)
DoomedMark ==
    /\ pc = "terminateMark"
    /\ \/ /\ Allocated(client)
          /\ status' = [status EXCEPT ![client] = "DISCONNECTING"]
          /\ pc' = ret /\ client' = NoClient
       \/ /\ ~Allocated(client)
          /\ UNCHANGED status
          /\ \/ pc' = ret /\ client' = NoClient
             \/ pc' = "panic" /\ UNCHANGED client
    /\ UNCHANGED <<ret, target, chars, connected, dataConnected, due, waitVars,
                   peer, doomed, pending, retries, link, hostVars, faults>>

-----------------------------------------------------------------------------
(* The loop task: LiTimeNimBLEClient::connect after its disconnect().      *)

(* createClient finds no free entry. *)
CreateFails ==
    /\ Goto("create", "failed")
    /\ \A s \in Slot : Allocated(s)
    /\ UNCHANGED <<ret, target, client, chars, connected, dataConnected, due, waitVars,
                   slotVars, link, hostVars, faults>>

(* createClient and NimBLEClient::connect up to m_pTaskData. A battery the  *)
(* host still has a connection to is not connected twice (EDONE).          *)
CreateClient(s) ==
    /\ pc = "create" /\ IsFirstFree(s)
    /\ client' = s
    /\ peer' = [peer EXCEPT ![s] = target]
    /\ retries' = [retries EXCEPT ![s] = 0]
    /\ IF HostHasLinkTo(target)
       THEN /\ status' = [status EXCEPT ![s] = "DISCONNECTED"]
            /\ pc' = "clear" /\ ret' = "failed"
            /\ UNCHANGED link
       ELSE /\ status' = [status EXCEPT ![s] = "CONNECTING"]
            /\ link' = [link EXCEPT ![s] = "opening"]
            /\ pc' = "start" /\ UNCHANGED ret
    /\ UNCHANGED <<target, chars, connected, dataConnected, due, waitVars, doomed, pending,
                   hostVars, faults>>

(* m_pTaskData = &taskData: what the host task has done before goes unseen. *)
StartWait ==
    /\ Goto("start", "wait")
    /\ UNCHANGED <<ret, target, client, chars, connected, dataConnected, due, waitVars,
                   slotVars, link, hostVars, faults>>

(* The wait ends by itself, long after the attempt has: the connection     *)
(* stands, or it is a failure.                                             *)
ConnectTimesOut ==
    /\ pc = "wait" /\ result = "none"
    /\ HostIdle /\ link[client] # "opening" /\ ~pending[client]
    /\ result' = IF status[client] = "CONNECTED" THEN "ok" ELSE "fail"
    /\ UNCHANGED <<loopVars, connected, due, request, slotVars, link, hostVars, faults>>

(* taskWait returns with the host task's verdict. A failure assigns        *)
(* DISCONNECTED and clears the connection.                                 *)
ConnectReturns ==
    /\ pc = "wait" /\ result # "none"
    /\ result' = "none"
    /\ IF result = "ok"
       THEN pc' = "discover" /\ UNCHANGED <<ret, status>>
       ELSE /\ pc' = "clear" /\ ret' = "failed"
            /\ status' = [status EXCEPT ![client] = "DISCONNECTED"]
    /\ UNCHANGED <<target, client, chars, connected, dataConnected, due, request,
                   peer, doomed, pending, retries, link, hostVars, faults>>

(* getService, getCharacteristic and subscribe all succeed: one request    *)
(* stands for those they make.                                             *)
DiscoverSucceeds ==
    /\ Goto("discover", "finish")
    /\ result = "ok" /\ result' = "none"
    /\ chars' = client
    /\ UNCHANGED <<ret, target, client, connected, dataConnected, due, request,
                   slotVars, link, hostVars, faults>>

(* Variant: a missing service or characteristic is not noticed. *)
DiscoverUnchecked ==
    /\ Goto("discover", "finish")
    /\ RequestFailed(TRUE)
    /\ UNCHANGED <<ret, target, client, chars, connected, dataConnected, due, request,
                   slotVars, link, hostVars>>

(* One of them fails: the link went, or the battery lacks the attribute or *)
(* refuses the subscription.                                               *)
DiscoverFails ==
    /\ Goto("discover", "clear") /\ ret' = "failed"
    /\ RequestFailed(TRUE)
    /\ UNCHANGED <<target, client, chars, connected, dataConnected, due, request,
                   slotVars, link, hostVars>>

(* connect() returns true; the provider marks the data and updates once.   *)
FinishConnect ==
    /\ Goto("finish", "query") /\ ret' = "top"
    /\ connected' = TRUE /\ dataConnected' = TRUE
    /\ UNCHANGED <<target, client, chars, due, waitVars, slotVars, link, hostVars, faults>>

(* connect() returns false to LiTimeBLEProvider::connect. *)
ConnectFailed ==
    /\ Goto("failed", "top")
    /\ dataConnected' = FALSE
    /\ UNCHANGED <<ret, target, client, chars, connected, due, waitVars, slotVars, link, hostVars, faults>>

(* A panic reboots the chip: memory, stack and links start again.          *)
Reboot ==
    /\ Goto("panic", "scan")
    /\ ret' = "top" /\ target' = NoBattery /\ client' = NoClient /\ chars' = NoClient
    /\ connected' = FALSE /\ dataConnected' = FALSE /\ due' = FALSE
    /\ result' = "none" /\ request' = "none"
    /\ status' = [s \in Slot |-> "free"]
    /\ peer' = [s \in Slot |-> NoBattery]
    /\ doomed' = [s \in Slot |-> FALSE]
    /\ pending' = [s \in Slot |-> FALSE]
    /\ retries' = [s \in Slot |-> 0]
    /\ link' = [s \in Slot |-> "none"]
    /\ host' = NoClient /\ stage' = "idle" /\ waiter' = FALSE
    /\ UNCHANGED faults

-----------------------------------------------------------------------------
(* The host task. It handles one event at a time: while it is in the       *)
(* middle of a disconnect or of a time-out it handles no other.            *)

(* m_pTaskData of the client is set: a task waits in connect() for it.     *)
Waits(s) == pc = "wait" /\ client = s /\ result = "none"

(* NimBLEUtils::taskRelease of the task waiting in connect(), if any.      *)
Release(s, verdict) == result' = IF Waits(s) THEN verdict ELSE result

(* GAP CONNECT with status 0. *)
HostConnected(s) ==
    /\ HostIdle /\ link[s] = "opening" /\ status[s] = "CONNECTING"
    /\ status' = [status EXCEPT ![s] = "CONNECTED"]
    /\ pending' = [pending EXCEPT ![s] = TRUE]
    /\ link' = [link EXCEPT ![s] = "up"]
    /\ UNCHANGED <<loopVars, connected, due, waitVars, peer, doomed, retries, hostVars, faults>>

(* GAP CONNECT with an error, a timeout of the attempt included.           *)
HostConnectFails(s) ==
    /\ HostIdle /\ link[s] = "opening" /\ status[s] = "CONNECTING" /\ Fault
    /\ status' = [status EXCEPT ![s] = "DISCONNECTED"]
    /\ link' = [link EXCEPT ![s] = "none"]
    /\ Release(s, "fail")
    /\ UNCHANGED <<loopVars, connected, due, request, peer, doomed, pending, retries, hostVars>>

(* The established timer, or a first PDU: completeConnectEstablished calls *)
(* onConnect and releases the waiting task.                                *)
HostEstablished(s) ==
    /\ HostIdle /\ pending[s] /\ status[s] = "CONNECTED"
    /\ pending' = [pending EXCEPT ![s] = FALSE]
    /\ connected' = TRUE
    /\ Release(s, "ok")
    /\ UNCHANGED <<loopVars, due, request, status, peer, doomed, retries, link, hostVars, faults>>

(* The loop task waits for an answer on the connection of s.               *)
Listed(s) == request = "listed" /\ client = s

(* onWriteCB, and the callbacks of the discovery: the task is released.    *)
Answer(verdict) == request' = "none" /\ result' = verdict

(* The response to the listed request, an ATT error included. (One that    *)
(* came before the request was listed is ignored: it times out.)           *)
HostAnswers ==
    /\ HostIdle /\ request = "listed" /\ link[client] = "up"
    /\ \/ Answer("ok") /\ UNCHANGED faults
       \/ Answer("fail") /\ (pc = "write" => WriteFaults) /\ Fault
    /\ UNCHANGED <<loopVars, connected, due, slotVars, link, hostVars>>

(* ble_gattc_timer: no response in 30 seconds. The task is released before *)
(* the connection is terminated.                                           *)
HostExpires ==
    /\ HostIdle /\ request = "listed" /\ link[client] = "up" /\ Fault
    /\ Answer("fail")
    /\ stage' = "expired" /\ host' = client
    /\ UNCHANGED <<loopVars, connected, due, slotVars, link, waiter>>

HostTerminates ==
    /\ stage = "expired"
    /\ IF link[host] = "up" THEN Terminate(host) ELSE UNCHANGED link
    /\ stage' = "idle" /\ host' = NoClient
    /\ UNCHANGED <<loopVars, connected, due, waitVars, slotVars, waiter, faults>>

(* Variant: the procedures of the connection are not failed.               *)
HostBrokenKeepsRequests(s) ==
    /\ HostIdle /\ link[s] = "down"
    /\ link' = [link EXCEPT ![s] = "none"]
    /\ stage' = "broken" /\ host' = s
    /\ UNCHANGED <<loopVars, connected, due, waitVars, slotVars, waiter, faults>>

(* ble_gap_conn_broken: the procedures listed for the connection fail with *)
(* ENOTCONN, which always releases the task, and the connection leaves the *)
(* host's list.                                                            *)
HostBroken(s) ==
    /\ HostIdle /\ link[s] = "down"
    /\ IF Listed(s) THEN Answer("fail") ELSE UNCHANGED waitVars
    /\ link' = [link EXCEPT ![s] = "none"]
    /\ stage' = "broken" /\ host' = s
    /\ UNCHANGED <<loopVars, connected, due, slotVars, waiter, faults>>

(* Variant: one attempt too many. *)
HostRetriesOnceMore ==
    /\ stage = "broken" /\ pending[host]
    /\ retries[host] <= ConnectRetries
    /\ pending' = [pending EXCEPT ![host] = FALSE]
    /\ retries' = [retries EXCEPT ![host] = @ + 1]
    /\ status' = [status EXCEPT ![host] = "CONNECTING"]
    /\ link' = [link EXCEPT ![host] = "opening"]
    /\ stage' = "idle" /\ host' = NoClient
    /\ UNCHANGED <<loopVars, connected, due, waitVars, peer, doomed, waiter, faults>>

(* GAP DISCONNECT with reason 0x3e and retries left: connect again without *)
(* a callback. The code tells establishment failures from other losses by  *)
(* the reason, which the controller gives before the first PDU only.       *)
HostRetriesConnect ==
    /\ stage = "broken" /\ pending[host]
    /\ retries[host] < ConnectRetries
    /\ pending' = [pending EXCEPT ![host] = FALSE]
    /\ retries' = [retries EXCEPT ![host] = @ + 1]
    /\ status' = [status EXCEPT ![host] = "CONNECTING"]
    /\ link' = [link EXCEPT ![host] = "opening"]
    /\ stage' = "idle" /\ host' = NoClient
    /\ UNCHANGED <<loopVars, connected, due, waitVars, peer, doomed, waiter, faults>>

(* GAP DISCONNECT: the client's callback runs. onConnectFail, of the last  *)
(* 0x3e, does nothing.                                                     *)
HostDisconnect ==
    /\ stage = "broken"
    /\ \/ connected' = FALSE
       \/ pending[host] /\ retries[host] >= ConnectRetries /\ UNCHANGED connected
    /\ pending' = [pending EXCEPT ![host] = FALSE]
    /\ stage' = "told" /\ waiter' = Waits(host)
    /\ UNCHANGED <<loopVars, due, waitVars, status, peer, doomed, retries, link, host, faults>>

(* Variant: the status is left as it was. *)
HostKeepsStatus ==
    /\ stage = "told" /\ stage' = "marked"
    /\ UNCHANGED <<loopVars, connected, due, waitVars, slotVars, link, host, waiter, faults>>

(* The callback has returned: the status is assigned. From here the loop   *)
(* task may delete the client, and use its entry again.                    *)
HostMark ==
    /\ stage = "told" /\ stage' = "marked"
    /\ status' = [status EXCEPT ![host] = "DISCONNECTED"]
    /\ UNCHANGED <<loopVars, connected, due, waitVars, peer, doomed, pending, retries,
                   link, host, waiter, faults>>

(* deleteClient on the host task: a client that the loop task has marked   *)
(* DISCONNECTING meanwhile stays for a disconnect that never comes. A flag *)
(* read from a client already freed changes nothing, whatever its value:   *)
(* deleteClient looks in vain for the pointer.                             *)
DeleteMarked ==
    IF doomed[host] /\ status[host] = "DISCONNECTED"
    THEN Free(host) ELSE UNCHANGED <<status, peer, doomed>>

(* The rest of the DISCONNECT handler: the task that waited in connect()   *)
(* when the event came is released.                                        *)
HostDisconnected ==
    /\ stage = "marked"
    /\ DeleteMarked
    /\ result' = IF waiter THEN "fail" ELSE result
    /\ stage' = "idle" /\ host' = NoClient /\ waiter' = FALSE
    /\ UNCHANGED <<loopVars, connected, due, request, pending, retries, link, faults>>

-----------------------------------------------------------------------------
(* The radio and the clock.                                                *)

(* The battery went out of range or dropped the connection. *)
LinkLost(s) ==
    /\ link[s] = "up" /\ Fault
    /\ link' = [link EXCEPT ![s] = "down"]
    /\ UNCHANGED <<loopVars, connected, due, waitVars, slotVars, hostVars>>

(* A terminate that the gateway asked for completes. *)
LinkClosed(s) ==
    /\ link[s] = "closing"
    /\ link' = [link EXCEPT ![s] = "down"]
    /\ UNCHANGED <<loopVars, connected, due, waitVars, slotVars, hostVars, faults>>

RescanDue ==
    /\ ~due
    /\ due' = TRUE
    /\ UNCHANGED <<loopVars, connected, waitVars, slotVars, link, hostVars, faults>>

-----------------------------------------------------------------------------
Loop == \/ ProviderUpdate \/ BmsUpdate \/ Transmit \/ ListRequest \/ WriteAnswered \/ WriteFailed
        \/ SyncData \/ RescanCheck \/ (\E b \in Battery : ScanFinds(b)) \/ ScanEmpty
        \/ Drop \/ DropMark \/ Clear \/ DeleteClient \/ Doom \/ DoomedTerminate \/ DoomedMark
        \/ CreateFails \/ (\E s \in Slot : CreateClient(s)) \/ StartWait \/ ConnectTimesOut
        \/ ConnectReturns \/ DiscoverSucceeds \/ DiscoverFails \/ FinishConnect \/ ConnectFailed
        \/ Reboot

HostTask == \/ HostAnswers \/ HostExpires \/ HostTerminates
            \/ HostRetriesConnect \/ HostDisconnect \/ HostMark \/ HostDisconnected
            \/ \E s \in Slot : \/ HostConnected(s) \/ HostConnectFails(s) \/ HostEstablished(s)
                               \/ HostBroken(s)

Radio == \E s \in Slot : LinkLost(s) \/ LinkClosed(s)

Next == Loop \/ HostTask \/ Radio \/ RescanDue

Spec == Init /\ [][Next]_vars

(* FreeRTOS runs both tasks, a terminate completes within the supervision  *)
(* timeout, time passes.                                                   *)
Fairness == /\ WF_vars(Loop) /\ WF_vars(HostTask) /\ WF_vars(RescanDue)
            /\ \A s \in Slot : WF_vars(LinkClosed(s))

FairSpec == Spec /\ Fairness

-----------------------------------------------------------------------------
(* The variables stay in their types; a client never retries more often    *)
(* than m_config.connectFailRetries.                                       *)
TypeOK ==
    /\ pc \in LoopPc
    /\ ret \in {"check", "top", "create", "failed"}
    /\ target \in Battery \cup {NoBattery}
    /\ client \in Slot \cup {NoClient}
    /\ chars \in Slot \cup {NoClient}
    /\ connected \in BOOLEAN /\ dataConnected \in BOOLEAN /\ due \in BOOLEAN
    /\ result \in {"none", "ok", "fail"} /\ request \in Request
    /\ status \in [Slot -> Status]
    /\ peer \in [Slot -> Battery \cup {NoBattery}]
    /\ doomed \in [Slot -> BOOLEAN]
    /\ pending \in [Slot -> BOOLEAN]
    /\ retries \in [Slot -> 0 .. ConnectRetries]
    /\ link \in [Slot -> LinkState]
    /\ host \in Slot \cup {NoClient} /\ stage \in Stage /\ waiter \in BOOLEAN
    /\ faults \in 0 .. MaxFaults

(* The client pointer (outside deleteClient, which the host task may       *)
(* overtake), the client whose disconnect the host task handles and every  *)
(* connection of the host stack belong to an allocated client object: the  *)
(* loop task gives the object up only inside deleteClient, and an object   *)
(* whose connection lives on is freed by its own disconnect event, never   *)
(* before, and never by both tasks.                                        *)
NoDanglingClient ==
    /\ client # NoClient /\ pc \notin {"terminate", "terminateMark", "panic"} => Allocated(client)
    /\ stage \in {"broken", "told", "expired"} => Allocated(host)
    /\ pc = "delete" => ~doomed[client]
    /\ \A s \in Slot : link[s] # "none" => Allocated(s)

(* The query is written through characteristic pointers that update() does *)
(* not test: from the test of isConnected() to the return of the blocking  *)
(* write they belong to the current, allocated client.                     *)
WriteThroughLiveAttributes ==
    pc = "write" => client # NoClient /\ chars = client /\ Allocated(client)

(* A connection that LiTimeNimBLEClient no longer holds is marked for      *)
(* deletion: connect() abandons no battery connection.                     *)
NoOrphanLink == \A s \in Slot : link[s] # "none" /\ s # client => doomed[s]

(* isConnected() never answers for a connection that is gone or that is    *)
(* being closed, once the loop task is out of writeValue() and connect();  *)
(* the callbacks of other clients may only make it answer no.              *)
ReportedLinkExists ==
    IsConnected /\ pc \in {"top", "query", "sync", "check", "scan"}
        => link[client] \in {"up", "down"} \/ (host = client /\ stage \in {"broken", "told"})

(* The loop task closes no connection while it reports the battery         *)
(* connected; the host's own time-out of a request may.                    *)
NeverTerminatesReported ==
    [][\A s \in Slot : link[s] = "up" /\ link'[s] = "closing" /\ UNCHANGED stage
                           => ~dataConnected /\ ~IsConnected]_vars

(* The request that was listed after the host had failed the procedures of *)
(* its lost connection: nothing releases the loop task any more.           *)
Abandoned == request = "stray"

(* loop() is never blocked for good in a scan, in the waits of connect()   *)
(* and its discovery, or in writeValue(): every wait of the loop task ends *)
(* or is released by the host task, except that for a stray request.       *)
LoopReturns == []<>(pc = "top" \/ Abandoned)

(* Once the faults have stopped, the gateway connects and stays connected. *)
Reconnects == <>[]dataConnected

(* The same where no request is abandoned: what a refused query breaks.    *)
ReconnectsUnlessAbandoned == []~Abandoned => Reconnects

(* A client that is still connected, with the flag of LiTimeNimBLEClient   *)
(* cleared: scans pass over that battery and nothing closes the link.      *)
Held == client # NoClient /\ status[client] = "CONNECTED" /\ ~connected

(* Reconnects in the behaviours that abandon no request, do not use up     *)
(* m_pClients, and in which the rescan decision finds a battery held so    *)
(* finitely often: a refused query holds it for good, and with two packs a *)
(* late onDisconnect of the other one's client may do it again and again.  *)
ReconnectsUnlessHeld ==
    /\ []~Abandoned
    /\ <>[](\E s \in Slot : ~Allocated(s) \/ s = client)
    /\ <>[](pc = "check" => ~Held)
    => Reconnects

(* Where the loop task is, and returns to, as GatewayLink sees it: all of  *)
(* connect() and deleteClient is one place.                                *)
LoopPlace == IF pc \in {"query", "write"} THEN "query"
             ELSE IF pc \in {"top", "sync", "check", "scan"} THEN pc ELSE "connect"

ReturnPlace == IF ret = "check" THEN "check" ELSE "top"

(* The two tasks together, with the whole of connect() and deleteClient,   *)
(* do to the rest of the firmware no more than GatewayLink says.           *)
Link == INSTANCE GatewayLink WITH
            pc <- LoopPlace, ret <- ReturnPlace, alive <- IsConnected, reported <- dataConnected

ImplementsLink == Link!LinkSpec

-----------------------------------------------------------------------------
(* The inductive invariant of the proofs.                                  *)

(* The host task handles the loss of the connection of s, and has not yet  *)
(* assigned its status.                                                    *)
Losing(s) == host = s /\ stage \in {"broken", "told"}

(* The connection of s is being closed, or is about to be after a time-out. *)
Cut(s) == link[s] = "closing" \/ (host = s /\ stage = "expired")

(* Each client object: its status against the host's connection of it.     *)
SlotInv(s) ==
    /\ link[s] = "opening" <=> status[s] = "CONNECTING"
    /\ link[s] = "opening" => s = client /\ pc \in {"start", "wait"} /\ result = "none"
    /\ link[s] \in {"up", "closing", "down"} => status[s] \in {"CONNECTED", "DISCONNECTING"}
    /\ status[s] = "CONNECTED" => link[s] \in {"up", "closing", "down"} \/ Losing(s)
    /\ Losing(s) => link[s] = "none" /\ status[s] \in {"CONNECTED", "DISCONNECTING"}
    /\ pending[s] => /\ link[s] \in {"up", "down"} \/ (host = s /\ stage = "broken")
                     /\ status[s] = "CONNECTED"
                     /\ s = client /\ pc \in {"start", "wait"} /\ result = "none"
    /\ doomed[s] => /\ Allocated(s)
                    /\ s = client => pc \in {"terminate", "terminateMark"}
    /\ link[s] # "none" /\ s # client => doomed[s]

(* The loop task: what the current step knows of the client pointer.       *)
LoopInv ==
    /\ pc \in {"query", "write", "sync"} => ret \in {"check", "top"}
    /\ pc \in {"drop", "dropMark", "clear", "delete", "doom", "terminate", "terminateMark"}
           => ret \in {"create", "failed"}
    /\ pc \notin {"top", "query", "write", "sync", "check", "scan"} => ret # "check"
    /\ pc \in {"write", "dropMark", "delete", "doom", "terminate", "terminateMark",
               "start", "wait", "discover", "finish"} => client # NoClient
    /\ pc \in {"create", "failed"} => client = NoClient
    /\ client # NoClient /\ pc \notin {"terminate", "terminateMark", "panic"} => Allocated(client)
    /\ client # NoClient /\ pc \in {"top", "query", "write", "sync", "check", "scan", "finish"}
           => chars = client
    /\ pc \in {"terminate", "terminateMark"} /\ Allocated(client) => doomed[client]
    /\ pc = "create" \/ ret = "create" => target \in Battery

(* The waits of the loop task, and what a verdict says of the connection.  *)
WaitInv ==
    /\ result # "none" => pc \in {"wait", "write", "discover"}
    /\ request # "none" => pc \in {"write", "discover"} /\ result = "none"
    /\ pc \in {"start", "wait"} => status[client] # "DISCONNECTING"
    /\ pc = "wait" /\ result = "fail"
           => link[client] = "none" /\ status[client] = "DISCONNECTED"

(* What the gateway reports while the loop task is about to close a link.  *)
ReportInv ==
    /\ pc \notin {"top", "query", "write", "sync", "check"} => ~dataConnected
    /\ pc \in {"scan", "drop"} => ~IsConnected
    /\ pc \in {"top", "check"} /\ ~dataConnected => ~IsConnected
    /\ pc \in {"delete", "doom", "terminate", "terminateMark"} => ~connected
    /\ client # NoClient /\ status[client] = "CONNECTED" /\ Cut(client)
           => \/ pc \in {"write", "discover"} /\ result = "fail"
              \/ pc \in {"dropMark", "clear", "delete", "doom", "terminate", "terminateMark"}
              \/ pc \in {"top", "query", "sync", "check", "scan", "drop"} /\ ~connected

(* The host task: the client it is done with has no event to come before   *)
(* the host is idle, and the task it will release still waits.             *)
HostInv ==
    /\ HostIdle <=> host = NoClient
    /\ stage = "marked" => link[host] \in {"none", "opening"}
    /\ stage = "expired" => link[host] \in {"up", "down", "closing"}
    /\ waiter => stage \in {"told", "marked"} /\ Waits(host)
    /\ waiter /\ stage = "marked" => link[host] = "none" /\ status[host] = "DISCONNECTED"

IInv == TypeOK /\ (\A s \in Slot : SlotInv(s)) /\ LoopInv /\ WaitInv /\ ReportInv /\ HostInv
=============================================================================
