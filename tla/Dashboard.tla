------------------------------ MODULE Dashboard ------------------------------
(***************************************************************************)
(* The connection of the remote dashboard page: app.js opens a WebSocket   *)
(* to the relay, requests the status when it opens and every three seconds *)
(* after, and reconnects with a growing delay when it closes. The page is  *)
(* one thread; what interleaves are the events of its sockets, its timers  *)
(* and the browser's online and offline events. A socket that close() was  *)
(* called on stays CLOSING until its close event, and by then the page may *)
(* have another one.                                                       *)
(***************************************************************************)
EXTENDS Naturals, FiniteSets

CONSTANTS
    MaxFaults,      \* bound on offline events, lost and refused connections
    Stalls          \* may a closing handshake outlast the next connection?

ASSUME DashboardAssumption == MaxFaults \in Nat /\ Stalls \in BOOLEAN

(* An offline event ends the live socket, and the events of that one may   *)
(* end its successor: never used up.                                       *)
Socket == 1 .. 2 * MaxFaults + 1
None   == 0

(* readyState; "unused" for a socket not constructed yet, and "ABORTED" for *)
(* CLOSING if close() was called before the socket opened, which ends in   *)
(* an error event.                                                         *)
ReadyState == {"unused", "CONNECTING", "OPEN", "CLOSING", "ABORTED", "CLOSED"}

(* What the badge says of the relay. *)
Badge == {"connecting", "requesting", "reconnecting", "status"}

VARIABLES
    socket,         \* the variable socket: the page's current one
    readyState,     \* of every socket the page has constructed
    reconnectTimer, \* is the reconnect timer armed?
    pollTimer,      \* the variable statusPollTimer: an interval is named by the socket that started it
    pollers,        \* the intervals the browser runs
    requested,      \* a get_status is on its way on the current socket
    badge,
    online,         \* navigator.onLine
    faults

dbVars == <<socket, readyState, reconnectTimer, pollTimer, pollers, requested,
            badge, online, faults>>

Live(s) == readyState[s] \in {"CONNECTING", "OPEN"}

Fault == faults < MaxFaults /\ faults' = faults + 1

Fresh(s) == /\ readyState[s] = "unused"
            /\ \A t \in Socket : t < s => readyState[t] # "unused"

(* The page loads: connect() constructs the first socket. *)
Init ==
    /\ socket = 1
    /\ readyState = [s \in Socket |-> IF s = 1 THEN "CONNECTING" ELSE "unused"]
    /\ reconnectTimer = FALSE
    /\ pollTimer = None /\ pollers = {}
    /\ requested = FALSE /\ badge = "connecting"
    /\ online = TRUE /\ faults = 0

-----------------------------------------------------------------------------
(* Variants: only an open socket is taken for a connection; the new socket *)
(* is not assigned to the variable.                                        *)
ConnectUnlessOpen ==
    /\ reconnectTimer' = FALSE
    /\ IF readyState[socket] = "OPEN"
       THEN UNCHANGED <<socket, readyState, badge, requested>>
       ELSE \E s \in Socket :
                /\ Fresh(s)
                /\ socket' = s
                /\ readyState' = [readyState EXCEPT ![s] = "CONNECTING"]
                /\ badge' = "connecting"
                /\ requested' = FALSE

ConnectUnassigned ==
    /\ reconnectTimer' = FALSE
    /\ IF Live(socket)
       THEN UNCHANGED <<socket, readyState, badge, requested>>
       ELSE \E s \in Socket :
                /\ Fresh(s)
                /\ readyState' = [readyState EXCEPT ![s] = "CONNECTING"]
                /\ badge' = "connecting"
                /\ UNCHANGED <<socket, requested>>

(* connect() *)
Connect ==
    /\ reconnectTimer' = FALSE
    /\ IF Live(socket)
       THEN UNCHANGED <<socket, readyState, badge, requested>>
       ELSE \E s \in Socket :
                /\ Fresh(s)
                /\ socket' = s
                /\ readyState' = [readyState EXCEPT ![s] = "CONNECTING"]
                /\ badge' = "connecting"
                /\ requested' = FALSE

(* Variants: without clearInterval; without setConnection. *)
ScheduleReconnectOnly ==
    /\ reconnectTimer' = TRUE
    /\ UNCHANGED pollers
    /\ badge' = "reconnecting"

ScheduleReconnectSilently ==
    /\ reconnectTimer' = TRUE
    /\ pollers' = pollers \ {pollTimer}
    /\ UNCHANGED badge

(* scheduleReconnect(), called for the close event of any socket. *)
ScheduleReconnect ==
    /\ reconnectTimer' = TRUE
    /\ pollers' = pollers \ {pollTimer}
    /\ badge' = "reconnecting"

(* WebSocket.close() of the current socket. *)
Closed(rs) == [rs EXCEPT ![socket] = IF @ = "CONNECTING" THEN "ABORTED"
                                     ELSE IF @ = "OPEN" THEN "CLOSING" ELSE @]

-----------------------------------------------------------------------------
(* The window and the timers.                                              *)

WindowOnline ==
    /\ ~online /\ online' = TRUE
    /\ Connect
    /\ UNCHANGED <<pollTimer, pollers, faults>>

WindowOffline ==
    /\ online /\ online' = FALSE /\ Fault
    /\ readyState' = Closed(readyState)
    /\ requested' = FALSE
    /\ UNCHANGED <<socket, reconnectTimer, pollTimer, pollers, badge>>

(* The delay is a second at least; an aborted socket reports at once.      *)
ReconnectTimer ==
    /\ reconnectTimer /\ \A s \in Socket : readyState[s] # "ABORTED"
    /\ Connect
    /\ UNCHANGED <<pollTimer, pollers, online, faults>>

(* An interval fires: requestStatus asks for the current socket.           *)
PollTimer ==
    /\ pollers # {}
    /\ readyState[socket] = "OPEN" /\ ~requested
    /\ requested' = TRUE
    /\ UNCHANGED <<socket, readyState, reconnectTimer, pollTimer, pollers, badge, online, faults>>

-----------------------------------------------------------------------------
(* The sockets.                                                            *)

(* A connection takes a round trip, and an aborted socket reports at once. *)
(* Without stalls a closing handshake too ends before the next one succeeds. *)
MayOpen(s) ==
    /\ readyState[s] = "CONNECTING" /\ online
    /\ \A t \in Socket : readyState[t] # "ABORTED"
    /\ Stalls \/ \A t \in Socket : readyState[t] # "CLOSING"

(* Variants: no interval, the status is asked for once; an interval is     *)
(* started unless statusPollTimer holds one (clearInterval leaves it set). *)
SocketOpensOnce(s) ==
    /\ MayOpen(s)
    /\ readyState' = [readyState EXCEPT ![s] = "OPEN"]
    /\ badge' = "requesting" /\ requested' = TRUE
    /\ UNCHANGED <<socket, reconnectTimer, pollTimer, pollers, online, faults>>

SocketOpensGuarded(s) ==
    /\ MayOpen(s)
    /\ readyState' = [readyState EXCEPT ![s] = "OPEN"]
    /\ badge' = "requesting" /\ requested' = TRUE
    /\ IF pollTimer = None
       THEN pollTimer' = s /\ pollers' = pollers \cup {s}
       ELSE UNCHANGED <<pollTimer, pollers>>
    /\ UNCHANGED <<socket, reconnectTimer, online, faults>>

(* The open event requests a status and starts an interval. Connect leaves *)
(* no CONNECTING socket behind, so that s is the current one.              *)
SocketOpens(s) ==
    /\ MayOpen(s)
    /\ readyState' = [readyState EXCEPT ![s] = "OPEN"]
    /\ badge' = "requesting" /\ requested' = TRUE
    /\ pollTimer' = s /\ pollers' = pollers \cup {s}
    /\ UNCHANGED <<socket, reconnectTimer, online, faults>>

(* A status arrives. Messages of a socket that is not OPEN are dropped.    *)
StatusArrives ==
    /\ readyState[socket] = "OPEN" /\ requested
    /\ requested' = FALSE /\ badge' = "status"
    /\ UNCHANGED <<socket, readyState, reconnectTimer, pollTimer, pollers, online, faults>>

(* The relay starts to close the connection. *)
RelayCloses(s) ==
    /\ readyState[s] = "OPEN" /\ Fault
    /\ readyState' = [readyState EXCEPT ![s] = "CLOSING"]
    /\ requested' = (requested /\ s # socket)
    /\ UNCHANGED <<socket, reconnectTimer, pollTimer, pollers, badge, online>>

(* A closing handshake ends: the close event. *)
SocketCloses(s) ==
    /\ readyState[s] = "CLOSING"
    /\ readyState' = [readyState EXCEPT ![s] = "CLOSED"]
    /\ ScheduleReconnect
    /\ UNCHANGED <<socket, pollTimer, requested, online, faults>>

(* Variant: only the error handler runs. *)
FailQuietly(s) ==
    /\ readyState' = Closed([readyState EXCEPT ![s] = "CLOSED"])
    /\ requested' = FALSE
    /\ UNCHANGED <<socket, reconnectTimer, pollTimer, pollers, badge, online>>

(* One task fires the error event, whose handler closes whatever socket is *)
(* current, and then the close event.                                      *)
Fail(s) ==
    /\ readyState' = Closed([readyState EXCEPT ![s] = "CLOSED"])
    /\ requested' = FALSE
    /\ ScheduleReconnect
    /\ UNCHANGED <<socket, pollTimer, online>>

(* The connection is refused or lost. *)
SocketFails(s) == (Live(s) \/ readyState[s] = "CLOSING") /\ Fault /\ Fail(s)

SocketAborted(s) == readyState[s] = "ABORTED" /\ Fail(s) /\ UNCHANGED faults

-----------------------------------------------------------------------------
Next ==
    \/ WindowOnline \/ WindowOffline \/ ReconnectTimer \/ PollTimer \/ StatusArrives
    \/ \E s \in Socket : \/ SocketOpens(s) \/ RelayCloses(s) \/ SocketCloses(s)
                            \/ SocketFails(s) \/ SocketAborted(s)

Spec == Init /\ [][Next]_dbVars

(* The browser runs due timers, connections that can succeed or close do,  *)
(* the network comes back, a request on an open connection is answered.    *)
Fairness ==
    /\ WF_dbVars(WindowOnline) /\ WF_dbVars(ReconnectTimer)
    /\ WF_dbVars(PollTimer) /\ WF_dbVars(StatusArrives)
    /\ \A s \in Socket : /\ WF_dbVars(SocketOpens(s)) /\ WF_dbVars(SocketCloses(s))
                          /\ WF_dbVars(SocketAborted(s))

FairSpec == Spec /\ Fairness

-----------------------------------------------------------------------------
Types ==
    /\ socket \in Socket
    /\ readyState \in [Socket -> ReadyState]
    /\ reconnectTimer \in BOOLEAN
    /\ pollTimer \in Socket \cup {None}
    /\ pollers \subseteq Socket
    /\ requested \in BOOLEAN
    /\ badge \in Badge
    /\ online \in BOOLEAN
    /\ faults \in 0 .. MaxFaults

(* The variable socket names the newest socket that was constructed.       *)
NewestSocket == \A s \in Socket : readyState[s] = "unused" <=> s > socket

(* The variables keep their types, and socket the newest one.              *)
TypeOK == Types /\ NewestSocket

(* The page leaves no connection behind: a socket it has replaced will not *)
(* open, and no two sockets bring every status twice.                      *)
NoOrphanSocket == \A s \in Socket : Live(s) => s = socket

(* A page without a connection always has something that will bring one:   *)
(* a close event to come, or the reconnect timer.                          *)
NeverStranded == readyState[socket] = "CLOSED" => reconnectTimer

(* The page "re-requests the read-only status every three seconds while    *)
(* its relay socket is open" (docs/remote-access.md).                      *)
PollsWhileOpen == readyState[socket] = "OPEN" => pollers # {}

(* It does so once every three seconds: reconnecting adds no interval.     *)
OnePoller == Cardinality(pollers) <= 1

(* The page "makes relay loss visibly distinct" (docs/remote-access.md):   *)
(* the badge says reconnecting of no open connection, and speaks of the    *)
(* status of none that has ended.                                          *)
RelayLossShown ==
    /\ badge = "reconnecting" => readyState[socket] # "OPEN"
    /\ badge \in {"requesting", "status"} => readyState[socket] \in {"OPEN", "CLOSING"}

(* Once the network behaves, an open page keeps asking for the status.     *)
KeepsAsking == []<>requested

-----------------------------------------------------------------------------
(* The inductive invariant of the proofs: without stalls an open socket is *)
(* the only one with events to come, and the page's interval is its own.   *)
PollerInv ==
    /\ pollers \subseteq {pollTimer}
    /\ pollers # {} => \E s \in Socket : readyState[s] \in {"OPEN", "CLOSING"}
    /\ readyState[socket] = "OPEN" =>
           /\ pollers # {}
           /\ \A s \in Socket \ {socket} : readyState[s] \notin {"CLOSING", "ABORTED"}

IInv == TypeOK /\ NoOrphanSocket /\ NeverStranded /\ (~Stalls => PollerInv /\ RelayLossShown)
=============================================================================
