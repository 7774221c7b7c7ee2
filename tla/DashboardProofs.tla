--------------------------- MODULE DashboardProofs ---------------------------
(***************************************************************************)
(* IInv is an inductive invariant of Dashboard, for any number of faults.  *)
(* The properties that hold only if no closing handshake outlasts the next *)
(* connection are proved for Stalls = FALSE.                               *)
(***************************************************************************)
EXTENDS Dashboard, FiniteSetTheorems, TLAPS

(* close() leaves every socket in one of the ready states. *)
LEMMA ClosedType ==
    ASSUME socket \in Socket, NEW rs \in [Socket -> ReadyState]
    PROVE  Closed(rs) \in [Socket -> ReadyState]
<1>1. rs[socket] \in ReadyState
  OBVIOUS
<1> QED
  BY <1>1 DEF Closed, ReadyState

(* The page starts in the invariant. *)
LEMMA InitInv == Init => IInv
<1> SUFFICES ASSUME Init PROVE IInv
  OBVIOUS
<1>0. 1 \in Socket
  BY DashboardAssumption DEF Socket
<1>1. Types
  <2>1. 0 \in 0 .. MaxFaults
    BY DashboardAssumption
  <2>2. readyState \in [Socket -> ReadyState]
    BY DEF Init, ReadyState
  <2> QED
    BY <1>0, <2>1, <2>2 DEF Init, Types, None, Badge
<1>2. NewestSocket
  BY DashboardAssumption DEF Init, NewestSocket, Socket
<1> QED
  BY <1>0, <1>1, <1>2 DEF Init, IInv, TypeOK, NoOrphanSocket, NeverStranded, PollerInv, RelayLossShown, Live

(* Every event and timer keeps the variables in their types. *)
LEMMA TypesStep == Types /\ [Next]_dbVars => Types'
<1> SUFFICES ASSUME Types, [Next]_dbVars PROVE Types'
  OBVIOUS
<1> USE DashboardAssumption
    DEF Types, None, Badge, Fault, Live, Connect, ScheduleReconnect, Fail, MayOpen
<1> {"CONNECTING", "OPEN", "CLOSING", "CLOSED"} \subseteq ReadyState
  BY DEF ReadyState
<1>1. CASE WindowOnline
  BY <1>1 DEF WindowOnline
<1>2. CASE WindowOffline
  <2>1. readyState' \in [Socket -> ReadyState]
    BY <1>2, ClosedType DEF WindowOffline
  <2>2. faults' \in 0 .. MaxFaults
    BY <1>2 DEF WindowOffline
  <2> QED
    BY <1>2, <2>1, <2>2 DEF WindowOffline
<1>3. CASE ReconnectTimer
  BY <1>3 DEF ReconnectTimer
<1>4. CASE PollTimer
  BY <1>4 DEF PollTimer
<1>5. CASE StatusArrives
  BY <1>5 DEF StatusArrives
<1>6. ASSUME NEW s \in Socket, SocketOpens(s) PROVE Types'
  BY <1>6 DEF SocketOpens
<1>7. ASSUME NEW s \in Socket, RelayCloses(s) PROVE Types'
  BY <1>7 DEF RelayCloses
<1>8. ASSUME NEW s \in Socket, SocketCloses(s) PROVE Types'
  BY <1>8 DEF SocketCloses
<1>9. ASSUME NEW s \in Socket, SocketFails(s) PROVE Types'
  <2>1. readyState' \in [Socket -> ReadyState]
    BY <1>9, ClosedType DEF SocketFails
  <2>2. faults' \in 0 .. MaxFaults
    BY <1>9 DEF SocketFails
  <2> QED
    BY <1>9, <2>1, <2>2 DEF SocketFails
<1>10. ASSUME NEW s \in Socket, SocketAborted(s) PROVE Types'
  <2>1. readyState' \in [Socket -> ReadyState]
    BY <1>10, ClosedType DEF SocketAborted
  <2> QED
    BY <1>10, <2>1 DEF SocketAborted
<1>11. CASE UNCHANGED dbVars
  BY <1>11 DEF dbVars
<1> QED
  BY <1>1, <1>2, <1>3, <1>4, <1>5, <1>6, <1>7, <1>8, <1>9, <1>10, <1>11 DEF Next

(* connect() constructs the next socket and assigns it. *)
LEMMA NewestStep == TypeOK /\ [Next]_dbVars => NewestSocket'
<1> SUFFICES ASSUME TypeOK, [Next]_dbVars PROVE NewestSocket'
  OBVIOUS
<1> USE DashboardAssumption
    DEF TypeOK, Types, NewestSocket, Socket, ReadyState, Fault, Live, Closed, Fail, MayOpen
<1>1. ASSUME Connect PROVE NewestSocket'
  <2>1. CASE Live(socket)
    BY <1>1, <2>1 DEF Connect
  <2>2. CASE ~Live(socket)
    <3>1. PICK s \in Socket : /\ Fresh(s) /\ socket' = s
                              /\ readyState' = [readyState EXCEPT ![s] = "CONNECTING"]
      BY <1>1, <2>2 DEF Connect
    <3>2. s > socket /\ \A t \in Socket : t < s => t <= socket
      BY <3>1 DEF Fresh
    <3> QED
      BY <3>1, <3>2
  <2> QED
    BY <2>1, <2>2
<1>2. CASE WindowOnline \/ ReconnectTimer
  BY <1>1, <1>2 DEF WindowOnline, ReconnectTimer
<1>3. CASE WindowOffline
  BY <1>3 DEF WindowOffline
<1>4. CASE PollTimer \/ StatusArrives \/ UNCHANGED dbVars
  BY <1>4 DEF PollTimer, StatusArrives, dbVars
<1>5. ASSUME NEW s \in Socket, SocketOpens(s) \/ RelayCloses(s) \/ SocketCloses(s)
      PROVE  NewestSocket'
  BY <1>5 DEF SocketOpens, RelayCloses, SocketCloses
<1>6. ASSUME NEW s \in Socket, SocketFails(s) \/ SocketAborted(s) PROVE NewestSocket'
  BY <1>6 DEF SocketFails, SocketAborted
<1> QED
  BY <1>2, <1>3, <1>4, <1>5, <1>6 DEF Next

(* Connections are only made when none is live, and every end of one       *)
(* leaves the reconnect timer armed.                                       *)
LEMMA ConnectionStep ==
    TypeOK /\ NoOrphanSocket /\ NeverStranded /\ [Next]_dbVars
        => NoOrphanSocket' /\ NeverStranded'
<1> SUFFICES ASSUME TypeOK, NoOrphanSocket, NeverStranded, [Next]_dbVars
             PROVE  NoOrphanSocket' /\ NeverStranded'
  OBVIOUS
<1> USE DashboardAssumption
    DEF TypeOK, Types, NoOrphanSocket, NeverStranded, ReadyState, Live, Closed, Connect, Fresh,
        ScheduleReconnect, Fail, MayOpen
<1>1. CASE WindowOnline
  BY <1>1 DEF WindowOnline
<1>2. CASE WindowOffline
  BY <1>2 DEF WindowOffline
<1>3. CASE ReconnectTimer
  BY <1>3 DEF ReconnectTimer
<1>4. CASE PollTimer
  BY <1>4 DEF PollTimer
<1>5. CASE StatusArrives
  BY <1>5 DEF StatusArrives
<1>6. ASSUME NEW s \in Socket, SocketOpens(s) PROVE NoOrphanSocket' /\ NeverStranded'
  BY <1>6 DEF SocketOpens
<1>7. ASSUME NEW s \in Socket, RelayCloses(s) PROVE NoOrphanSocket' /\ NeverStranded'
  BY <1>7 DEF RelayCloses
<1>8. ASSUME NEW s \in Socket, SocketCloses(s) PROVE NoOrphanSocket' /\ NeverStranded'
  BY <1>8 DEF SocketCloses
<1>9. ASSUME NEW s \in Socket, SocketFails(s) PROVE NoOrphanSocket' /\ NeverStranded'
  BY <1>9 DEF SocketFails
<1>10. ASSUME NEW s \in Socket, SocketAborted(s) PROVE NoOrphanSocket' /\ NeverStranded'
  BY <1>10 DEF SocketAborted
<1>11. CASE UNCHANGED dbVars
  BY <1>11 DEF dbVars
<1> QED
  BY <1>1, <1>2, <1>3, <1>4, <1>5, <1>6, <1>7, <1>8, <1>9, <1>10, <1>11 DEF Next

(* Without stalls no event of an older socket is left when one opens, so   *)
(* that the timers and the badge stay the open socket's.                   *)
LEMMA PollerStep ==
    ~Stalls /\ TypeOK /\ NoOrphanSocket /\ PollerInv /\ RelayLossShown /\ [Next]_dbVars
        => PollerInv' /\ RelayLossShown'
<1> SUFFICES ASSUME ~Stalls, TypeOK, NoOrphanSocket, PollerInv, RelayLossShown, [Next]_dbVars
             PROVE  PollerInv' /\ RelayLossShown'
  OBVIOUS
<1> USE DashboardAssumption
    DEF TypeOK, Types, NoOrphanSocket, PollerInv, RelayLossShown, ReadyState, Live, Closed,
        Connect, Fresh, ScheduleReconnect, Fail, MayOpen
<1>1. CASE WindowOnline
  BY <1>1 DEF WindowOnline
<1>2. CASE WindowOffline
  BY <1>2 DEF WindowOffline
<1>3. CASE ReconnectTimer
  BY <1>3 DEF ReconnectTimer
<1>4. CASE PollTimer
  BY <1>4 DEF PollTimer
<1>5. CASE StatusArrives
  BY <1>5 DEF StatusArrives
<1>6. ASSUME NEW s \in Socket, SocketOpens(s) PROVE PollerInv' /\ RelayLossShown'
  BY <1>6 DEF SocketOpens
<1>7. ASSUME NEW s \in Socket, RelayCloses(s) PROVE PollerInv' /\ RelayLossShown'
  BY <1>7 DEF RelayCloses
<1>8. ASSUME NEW s \in Socket, SocketCloses(s) PROVE PollerInv' /\ RelayLossShown'
  BY <1>8 DEF SocketCloses
<1>9. ASSUME NEW s \in Socket, SocketFails(s) PROVE PollerInv' /\ RelayLossShown'
  BY <1>9 DEF SocketFails
<1>10. ASSUME NEW s \in Socket, SocketAborted(s) PROVE PollerInv' /\ RelayLossShown'
  BY <1>10 DEF SocketAborted
<1>11. CASE UNCHANGED dbVars
  BY <1>11 DEF dbVars
<1> QED
  BY <1>1, <1>2, <1>3, <1>4, <1>5, <1>6, <1>7, <1>8, <1>9, <1>10, <1>11 DEF Next

(* IInv holds in every reachable state. *)
THEOREM Invariance == Spec => []IInv
<1>1. IInv /\ [Next]_dbVars => IInv'
  BY TypesStep, NewestStep, ConnectionStep, PollerStep DEF IInv, TypeOK
<1> QED
  BY InitInv, <1>1, PTL DEF Spec

(* The variables keep their types, whatever the browser's events. *)
THEOREM TypeCorrectness == Spec => []TypeOK
<1>1. IInv => TypeOK
  BY DEF IInv
<1> QED
  BY Invariance, <1>1, PTL

(* connect() leaves no live socket behind. *)
THEOREM OrphanSafety == Spec => []NoOrphanSocket
<1>1. IInv => NoOrphanSocket
  BY DEF IInv
<1> QED
  BY Invariance, <1>1, PTL

(* A page whose socket has closed has its reconnect timer armed. *)
THEOREM StrandingSafety == Spec => []NeverStranded
<1>1. IInv => NeverStranded
  BY DEF IInv
<1> QED
  BY Invariance, <1>1, PTL

(* If close events come before the next connection opens, an open page     *)
(* keeps asking for the status: its poll timer is never lost.              *)
THEOREM PollingSafety ==
    ASSUME ~Stalls
    PROVE  Spec => []PollsWhileOpen
<1>1. IInv => PollsWhileOpen
  BY DEF IInv, PollerInv, PollsWhileOpen
<1> QED
  BY Invariance, <1>1, PTL

(* Under the same condition no interval timer is left running: the page    *)
(* asks once per period.                                                   *)
THEOREM OnePollerSafety ==
    ASSUME ~Stalls
    PROVE  Spec => []OnePoller
<1>1. IInv => OnePoller
  <2> SUFFICES ASSUME IInv PROVE OnePoller
    OBVIOUS
  <2>1. pollers = {} \/ pollers = {pollTimer}
    BY DEF IInv, PollerInv
  <2>2. Cardinality(pollers) \in {0, 1}
    BY <2>1, FS_EmptySet, FS_Singleton
  <2> QED
    BY <2>2 DEF OnePoller
<1> QED
  BY Invariance, <1>1, PTL

(* Under the same condition the badge tells whether the relay is lost.     *)
THEOREM RelayLossSafety ==
    ASSUME ~Stalls
    PROVE  Spec => []RelayLossShown
<1>1. IInv => RelayLossShown
  BY DEF IInv
<1> QED
  BY Invariance, <1>1, PTL
=============================================================================
