---------------------------- MODULE RemoteAccess ----------------------------
(***************************************************************************)
(* Live status over the internet. Pages ask for it, the relay (index.js, a *)
(* Durable Object that keeps nothing but its sockets) hands every message  *)
(* of a page to all device sockets and every message of a device to all    *)
(* pages, and the gateway (RemoteDashboard) answers over one WebSocket,    *)
(* which its library reconnects and watches with pings.                    *)
(*                                                                         *)
(* A connection may go silent with neither end told: the relay then keeps  *)
(* a dead socket until its runtime notices, and a send to one may throw,   *)
(* which ends the loop over the sockets. That a page reconnects and polls  *)
(* is what Dashboard shows of app.js. A page is given what the relay sends *)
(* it at once: that way only keeps the order.                              *)
(***************************************************************************)
EXTENDS Naturals, FiniteSets

CONSTANTS
    Browser,     \* the pages
    MaxInbox,    \* bound on the messages on the way from and to the gateway
    MaxFaults    \* bound on lost connections, relay restarts and blocked pings

ASSUME RemoteAssumption == MaxInbox \in Nat \ {0} /\ MaxFaults \in Nat

(* enableHeartbeat(15000, 5000, 2): missed pongs that close the socket. *)
MaxMissed == 2

VARIABLES
    open,        \* the pages with an open socket
    waiting,     \* the pages that have seen no status since they asked
    asks,        \* the pages whose get_status is on its way to the relay
    deadPages,   \* pages of which the relay holds an earlier, dead socket
    session,     \* the gateway's socket: "down", "up" or, unknown to it, "silent"
    missed,      \* its pings in a row without a pong
    deadDevices, \* does the relay hold dead sockets of the gateway?
    inbox,       \* get_status messages on their way to the gateway
    outbox,      \* statuses on their way to the relay
    faults

pageVars   == <<open, waiting, asks, deadPages>>
deviceVars == <<session, missed, deadDevices, inbox, outbox>>
vars       == <<pageVars, deviceVars, faults>>

Init ==
    /\ open = {} /\ waiting = {} /\ asks = {} /\ deadPages = {}
    /\ session = "down" /\ missed = 0 /\ deadDevices = FALSE
    /\ inbox = 0 /\ outbox = 0
    /\ faults = 0

Fault == faults < MaxFaults /\ faults' = faults + 1

-----------------------------------------------------------------------------
(* The pages.                                                              *)

(* fetch("/browser"): acceptWebSocket. *)
PageOpens(b) ==
    /\ b \notin open /\ open' = open \cup {b}
    /\ UNCHANGED <<waiting, asks, deadPages, deviceVars, faults>>

PageAsks(b) ==
    /\ b \in open \ asks
    /\ asks' = asks \cup {b} /\ waiting' = waiting \cup {b}
    /\ UNCHANGED <<open, deadPages, deviceVars, faults>>

(* The relay may learn at once, or keep the socket for dead. *)
PageCloses(b) ==
    /\ b \in open /\ open' = open \ {b} /\ Fault
    /\ waiting' = waiting \ {b} /\ asks' = asks \ {b}
    /\ deadPages' \in {deadPages, deadPages \cup {b}}
    /\ UNCHANGED deviceVars

DeadPageGone(b) ==
    /\ b \in deadPages /\ deadPages' = deadPages \ {b}
    /\ UNCHANGED <<open, waiting, asks, deviceVars, faults>>

-----------------------------------------------------------------------------
(* The relay: webSocketMessage.                                            *)

(* A page's message goes to every device socket, unless the send to a dead *)
(* one throws before the gateway's turn.                                   *)
RelayForwards(b) ==
    /\ b \in asks /\ asks' = asks \ {b}
    /\ LET reaches == IF session = "down" THEN inbox ELSE inbox + 1
       IN  /\ reaches <= MaxInbox
           /\ inbox' \in (IF deadDevices THEN {inbox, reaches} ELSE {reaches})
    /\ UNCHANGED <<open, waiting, deadPages, session, missed, deadDevices, outbox, faults>>

(* Variant: the reply goes to the first socket only. *)
RelayAnswersFirst ==
    /\ session = "up" /\ outbox > 0 /\ outbox' = outbox - 1
    /\ waiting' = IF open = {} THEN waiting ELSE waiting \ {CHOOSE b \in open : TRUE}
    /\ UNCHANGED <<open, asks, deadPages, session, missed, deadDevices, inbox, faults>>

(* A status goes to every page; one that comes after a dead socket whose   *)
(* send throws is passed over.                                             *)
RelayBroadcasts ==
    /\ session = "up" /\ outbox > 0 /\ outbox' = outbox - 1
    /\ \E reached \in IF deadPages = {} THEN {open} ELSE SUBSET open :
          waiting' = waiting \ reached
    /\ UNCHANGED <<open, asks, deadPages, session, missed, deadDevices, inbox, faults>>

DeadDeviceGone ==
    /\ deadDevices /\ deadDevices' = FALSE
    /\ UNCHANGED <<pageVars, session, missed, inbox, outbox, faults>>

(* A deployment or a crash closes every socket. *)
RelayRestarts ==
    /\ Fault
    /\ open' = {} /\ waiting' = {} /\ asks' = {} /\ deadPages' = {}
    /\ deadDevices' = FALSE
    /\ IF session = "silent" THEN UNCHANGED <<session, missed, inbox, outbox>>
       ELSE session' = "down" /\ missed' = 0 /\ inbox' = 0 /\ outbox' = 0

-----------------------------------------------------------------------------
(* The gateway.                                                            *)

(* The library connects, and fetch("/device") finds the token in order. *)
DeviceConnects ==
    /\ session = "down" /\ session' = "up" /\ missed' = 0
    /\ UNCHANGED <<pageVars, deadDevices, inbox, outbox, faults>>

(* handleWebSocketEvent answers a get_status. *)
DeviceAnswers ==
    /\ session = "up" /\ inbox > 0 /\ outbox < MaxInbox
    /\ inbox' = inbox - 1 /\ outbox' = outbox + 1
    /\ UNCHANGED <<pageVars, session, missed, deadDevices, faults>>

(* The radio or a middlebox drops the connection without a word. *)
DeviceSilenced ==
    /\ session = "up" /\ session' = "silent" /\ Fault
    /\ UNCHANGED <<pageVars, missed, deadDevices, inbox, outbox>>

DeviceHeardAgain ==
    /\ session = "silent" /\ session' = "up"
    /\ UNCHANGED <<pageVars, missed, deadDevices, inbox, outbox, faults>>

(* The socket is closed at the gateway's end. The relay is not told if   *)
(* the connection was silent, and may not be told if it was reset.         *)
CloseSession ==
    /\ session' = "down" /\ missed' = 0 /\ inbox' = 0 /\ outbox' = 0
    /\ deadDevices' \in (IF session = "silent" THEN {TRUE} ELSE {deadDevices, TRUE})

(* The connection is reset. *)
DeviceLost == session = "up" /\ Fault /\ CloseSession /\ UNCHANGED pageVars

Missed ==
    IF missed + 1 < MaxMissed
    THEN missed' = missed + 1 /\ UNCHANGED <<session, deadDevices, inbox, outbox>>
    ELSE CloseSession

(* Variants: pongs are not counted; the socket closes a ping too late. *)
PongNotMissed == session = "silent" /\ UNCHANGED vars

PongMissedLate ==
    /\ session = "silent"
    /\ IF missed < MaxMissed
       THEN missed' = missed + 1 /\ UNCHANGED <<session, deadDevices, inbox, outbox>>
       ELSE CloseSession
    /\ UNCHANGED <<pageVars, faults>>

PongMissed == session = "silent" /\ Missed /\ UNCHANGED <<pageVars, faults>>

(* A scan for batteries keeps the loop task from the pong for ten seconds. *)
PongTooLate == session = "up" /\ Fault /\ Missed /\ UNCHANGED pageVars

PongArrives ==
    /\ session = "up" /\ missed > 0 /\ missed' = 0
    /\ UNCHANGED <<pageVars, session, deadDevices, inbox, outbox, faults>>

Page(b) == PageOpens(b) \/ PageAsks(b) \/ PageCloses(b)
Relay   == (\E b \in Browser : RelayForwards(b)) \/ RelayBroadcasts
Device  == \/ DeviceConnects \/ DeviceAnswers \/ DeviceSilenced \/ DeviceHeardAgain \/ DeviceLost
           \/ PongMissed \/ PongTooLate \/ PongArrives

Next == \/ \E b \in Browser : Page(b) \/ DeadPageGone(b)
        \/ Relay \/ Device \/ DeadDeviceGone \/ RelayRestarts

Spec == Init /\ [][Next]_vars

(* Pages reconnect and poll; the relay handles messages as they come; the  *)
(* gateway's loop runs webSocket.loop() for ever, so that it reconnects,   *)
(* answers and pings; runtimes notice dead sockets.                        *)
FairSpec ==
    /\ Spec
    /\ \A b \in Browser : /\ WF_vars(PageOpens(b)) /\ WF_vars(PageAsks(b))
                          /\ WF_vars(RelayForwards(b)) /\ WF_vars(DeadPageGone(b))
    /\ WF_vars(RelayBroadcasts) /\ WF_vars(DeadDeviceGone)
    /\ WF_vars(DeviceConnects) /\ WF_vars(DeviceAnswers)
    /\ WF_vars(PongMissed) /\ WF_vars(PongArrives)

-----------------------------------------------------------------------------
(* The variables stay in their types; only open pages wait, and no socket  *)
(* outlives two missed pongs, whatever interrupts the count.               *)
TypeOK ==
    /\ open \subseteq Browser /\ waiting \subseteq open /\ asks \subseteq waiting \cup open
    /\ deadPages \subseteq Browser
    /\ session \in {"down", "up", "silent"}
    /\ missed \in 0 .. MaxMissed - 1
    /\ deadDevices \in BOOLEAN
    /\ inbox \in 0 .. MaxInbox /\ outbox \in 0 .. MaxInbox
    /\ faults \in 0 .. MaxFaults

(* Every page that asks is answered, or loses its socket: whatever went    *)
(* silent, was lost or threw, one of the answers to come reaches it.       *)
AnswersKeepComing == \A b \in Browser : b \in waiting ~> b \notin waiting

(* "Keep the device connection alive even when no browser is polling": the *)
(* gateway is reachable again after every outage.                          *)
GatewayReachable == []<>(session = "up")
=============================================================================
