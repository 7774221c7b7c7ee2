-------------------------- MODULE RemoteAccessProofs --------------------------
(***************************************************************************)
(* Proofs about RemoteAccess, for any set of pages and any number of       *)
(* messages and faults. That answers keep coming is liveness, and stays    *)
(* with the model checker.                                                 *)
(***************************************************************************)
EXTENDS RemoteAccess, TLAPS

(* No page, no session and nothing under way to begin with. *)
LEMMA TypeInit == Init => TypeOK
<1> SUFFICES ASSUME Init PROVE TypeOK
  OBVIOUS
<1>1. open \subseteq Browser /\ waiting \subseteq open /\ asks \subseteq waiting \cup open
      /\ deadPages \subseteq Browser
  BY DEF Init
<1>2. missed \in 0 .. MaxMissed - 1
  BY DEF Init, MaxMissed
<1>3. inbox \in 0 .. MaxInbox /\ outbox \in 0 .. MaxInbox /\ faults \in 0 .. MaxFaults
  BY RemoteAssumption DEF Init
<1> QED
  BY <1>1, <1>2, <1>3 DEF Init, TypeOK

(* A socket that is closed starts from nothing again.                      *)
LEMMA CloseType ==
    ASSUME CloseSession, deadDevices \in BOOLEAN
    PROVE  /\ session' = "down" /\ missed' = 0 /\ inbox' = 0 /\ outbox' = 0
           /\ deadDevices' \in BOOLEAN
  BY DEF CloseSession

(* A pong that is missed is counted, and the last that may be missed       *)
(* closes the socket.                                                      *)
LEMMA MissedType ==
    ASSUME Missed, TypeOK, session # "down"
    PROVE  /\ session' \in {session, "down"}
           /\ missed' \in 0 .. MaxMissed - 1
           /\ deadDevices' \in BOOLEAN
           /\ inbox' \in 0 .. MaxInbox /\ outbox' \in 0 .. MaxInbox
<1>1. CASE missed + 1 < MaxMissed
  BY <1>1 DEF Missed, TypeOK, MaxMissed
<1>2. CASE ~(missed + 1 < MaxMissed)
  <2>1. CloseSession
    BY <1>2 DEF Missed
  <2> QED
    BY <2>1, CloseType, RemoteAssumption DEF TypeOK, MaxMissed
<1> QED
  BY <1>1, <1>2

LEMMA TypeStep == TypeOK /\ [Next]_vars => TypeOK'
<1> SUFFICES ASSUME TypeOK, [Next]_vars PROVE TypeOK'
  OBVIOUS
<1> USE RemoteAssumption DEF TypeOK, MaxMissed, Fault, pageVars, deviceVars
<1>1. ASSUME NEW b \in Browser, PageOpens(b) PROVE TypeOK'
  BY <1>1 DEF PageOpens
<1>2. ASSUME NEW b \in Browser, PageAsks(b) PROVE TypeOK'
  BY <1>2 DEF PageAsks
<1>3. ASSUME NEW b \in Browser, PageCloses(b) PROVE TypeOK'
  BY <1>3 DEF PageCloses
<1>4. ASSUME NEW b \in Browser, DeadPageGone(b) PROVE TypeOK'
  BY <1>4 DEF DeadPageGone
<1>5. ASSUME NEW b \in Browser, RelayForwards(b) PROVE TypeOK'
  <2>1. inbox' \in 0 .. MaxInbox
    BY <1>5 DEF RelayForwards
  <2> QED
    BY <1>5, <2>1 DEF RelayForwards
<1>6. CASE RelayBroadcasts
  <2>1. PICK reached : waiting' = waiting \ reached
    BY <1>6 DEF RelayBroadcasts
  <2> QED
    BY <1>6, <2>1 DEF RelayBroadcasts
<1>7. CASE DeadDeviceGone
  BY <1>7 DEF DeadDeviceGone
<1>8. CASE RelayRestarts
  <2>1. /\ session' \in {session, "down"} /\ missed' \in {missed, 0}
        /\ inbox' \in {inbox, 0} /\ outbox' \in {outbox, 0}
    BY <1>8, Zenon DEF RelayRestarts
  <2>2. missed' \in 0 .. MaxMissed - 1 /\ inbox' \in 0 .. MaxInbox /\ outbox' \in 0 .. MaxInbox
    BY <2>1
  <2>3. open' = {} /\ waiting' = {} /\ asks' = {} /\ deadPages' = {} /\ deadDevices' = FALSE
    BY <1>8, Zenon DEF RelayRestarts
  <2>4. faults' \in 0 .. MaxFaults
    BY <1>8 DEF RelayRestarts
  <2>5. session' \in {"down", "up", "silent"}
    BY <2>1
  <2> QED
    BY <2>2, <2>3, <2>4, <2>5
<1>9. CASE DeviceConnects \/ DeviceAnswers \/ DeviceSilenced \/ DeviceHeardAgain \/ PongArrives
  BY <1>9 DEF DeviceConnects, DeviceAnswers, DeviceSilenced, DeviceHeardAgain, PongArrives
<1>10. CASE DeviceLost
  BY <1>10, CloseType DEF DeviceLost
<1>11. CASE PongMissed \/ PongTooLate
  BY <1>11, MissedType DEF PongMissed, PongTooLate
<1>12. CASE UNCHANGED vars
  BY <1>12 DEF vars
<1> QED
  BY <1>1, <1>2, <1>3, <1>4, <1>5, <1>6, <1>7, <1>8, <1>9, <1>10, <1>11, <1>12
     DEF Next, Page, Relay, Device

(* Only pages with an open socket wait for a status or have asked for one, *)
(* and no socket of the gateway outlives two missed pongs, whatever        *)
(* silences, resets and restarts interrupt the count.                      *)
THEOREM TypeCorrectness == Spec => []TypeOK
  BY TypeInit, TypeStep, PTL DEF Spec
=============================================================================
