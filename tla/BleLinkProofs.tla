---------------------------- MODULE BleLinkProofs ----------------------------
(***************************************************************************)
(* IInv is an inductive invariant of BleLink, and the safety properties    *)
(* follow from it. The steps are proved one conjunct of IInv at a time,    *)
(* with one case per action of Next. In the second part BleLink implements *)
(* GatewayLink: its initial state is one of LinkInit and every step of the *)
(* two tasks is a step of LinkNext or changes nothing that the rest of the *)
(* firmware sees.                                                          *)
(***************************************************************************)
EXTENDS BleLink, TLAPS

(* The initial state satisfies the inductive invariant. *)
LEMMA InitInv == Init => IInv
<1> SUFFICES ASSUME Init PROVE IInv
  OBVIOUS
<1> USE BoundsAssumption DEF Init, Slot, NoClient, LoopPc, Status, LinkState, Request, Stage
<1>1. TypeOK
  <2>1. /\ 0 \in 0 .. MaxFaults
        /\ retries \in [Slot -> 0 .. ConnectRetries]
    OBVIOUS
  <2> QED
    BY <2>1 DEF TypeOK
<1>2. \A s \in Slot : SlotInv(s)
  BY DEF SlotInv, Losing
<1>3. LoopInv /\ WaitInv /\ ReportInv /\ HostInv
  BY DEF LoopInv, WaitInv, ReportInv, HostInv, HostIdle, IsConnected
<1> QED
  BY <1>1, <1>2, <1>3 DEF IInv

(* TypeOK in three parts, so that a step is proved against those it changes. *)
LoopTypes ==
    /\ pc \in LoopPc
    /\ ret \in {"check", "top", "create", "failed"}
    /\ target \in Battery \cup {NoBattery}
    /\ client \in Slot \cup {NoClient}
    /\ chars \in Slot \cup {NoClient}
    /\ connected \in BOOLEAN /\ dataConnected \in BOOLEAN /\ due \in BOOLEAN

SlotTypes ==
    /\ status \in [Slot -> Status]
    /\ peer \in [Slot -> Battery \cup {NoBattery}]
    /\ doomed \in [Slot -> BOOLEAN]
    /\ pending \in [Slot -> BOOLEAN]
    /\ retries \in [Slot -> 0 .. ConnectRetries]
    /\ link \in [Slot -> LinkState]

HostTypes ==
    /\ result \in {"none", "ok", "fail"} /\ request \in Request
    /\ host \in Slot \cup {NoClient} /\ stage \in Stage /\ waiter \in BOOLEAN
    /\ faults \in 0 .. MaxFaults

(* Every step of the two tasks keeps the variables in their types. *)
LEMMA TypeStep == IInv /\ [Next]_vars => TypeOK'
<1> SUFFICES ASSUME IInv, [Next]_vars PROVE LoopTypes' /\ SlotTypes' /\ HostTypes'
  BY DEF TypeOK, LoopTypes, SlotTypes, HostTypes
<1> LoopTypes /\ SlotTypes /\ HostTypes /\ LoopInv /\ WaitInv /\ HostInv
  BY DEF IInv, TypeOK, LoopTypes, SlotTypes, HostTypes
<1> USE BoundsAssumption, BatteryAssumption
    DEF LoopTypes, SlotTypes, HostTypes, Slot, NoClient, LoopPc, Status, LinkState, Request, Stage,
        loopVars, waitVars, slotVars, hostVars, Goto, Fault, Terminate, Free, DeleteMarked,
        HostIdle, Waits, Release, Listed, Answer, RequestFailed, Allocated
<1>1. CASE ProviderUpdate
  <2>1. LoopTypes'
    BY <1>1 DEF ProviderUpdate
  <2>2. SlotTypes' /\ HostTypes'
    BY <1>1 DEF ProviderUpdate
  <2> QED
    BY <2>1, <2>2
<1>2. CASE BmsUpdate
  <2>1. LoopTypes'
    BY <1>2 DEF BmsUpdate
  <2>2. SlotTypes' /\ HostTypes'
    BY <1>2 DEF BmsUpdate
  <2> QED
    BY <2>1, <2>2
<1>3. CASE Transmit
  <2>1. LoopTypes'
    BY <1>3 DEF Transmit
  <2>2. SlotTypes' /\ HostTypes'
    BY <1>3 DEF Transmit
  <2> QED
    BY <2>1, <2>2
<1>4. CASE ListRequest
  <2>1. LoopTypes'
    BY <1>4 DEF ListRequest
  <2>2. SlotTypes' /\ HostTypes'
    BY <1>4 DEF ListRequest
  <2> QED
    BY <2>1, <2>2
<1>5. CASE WriteAnswered
  <2>1. LoopTypes'
    BY <1>5 DEF WriteAnswered
  <2>2. SlotTypes' /\ HostTypes'
    BY <1>5 DEF WriteAnswered
  <2> QED
    BY <2>1, <2>2
<1>6. CASE WriteFailed
  <2>1. LoopTypes'
    BY <1>6 DEF WriteFailed
  <2>2. SlotTypes' /\ HostTypes'
    BY <1>6 DEF WriteFailed
  <2> QED
    BY <2>1, <2>2
<1>7. CASE SyncData
  <2>1. dataConnected' \in BOOLEAN
    BY <1>7, Zenon DEF SyncData, IsConnected
  <2>2. LoopTypes'
    BY <1>7, <2>1 DEF SyncData
  <2>3. SlotTypes'
    BY <1>7 DEF SyncData
  <2>4. HostTypes'
    BY <1>7 DEF SyncData
  <2> QED
    BY <2>2, <2>3, <2>4
<1>8. CASE RescanCheck
  <2>1. LoopTypes'
    BY <1>8 DEF RescanCheck
  <2>2. SlotTypes' /\ HostTypes'
    BY <1>8 DEF RescanCheck
  <2> QED
    BY <2>1, <2>2
<1>9. ASSUME NEW b \in Battery, ScanFinds(b) PROVE LoopTypes' /\ SlotTypes' /\ HostTypes'
  <2>1. LoopTypes'
    BY <1>9 DEF ScanFinds
  <2>2. SlotTypes' /\ HostTypes'
    BY <1>9 DEF ScanFinds
  <2> QED
    BY <2>1, <2>2
<1>10. CASE ScanEmpty
  <2>1. LoopTypes'
    BY <1>10 DEF ScanEmpty
  <2>2. SlotTypes' /\ HostTypes'
    BY <1>10 DEF ScanEmpty
  <2> QED
    BY <2>1, <2>2
<1>11. CASE Drop
  <2>1. LoopTypes'
    BY <1>11 DEF Drop
  <2>2. SlotTypes' /\ HostTypes'
    BY <1>11 DEF Drop
  <2> QED
    BY <2>1, <2>2
<1>12. CASE DropMark
  <2>1. LoopTypes'
    BY <1>12 DEF DropMark
  <2>2. SlotTypes' /\ HostTypes'
    BY <1>12 DEF DropMark
  <2> QED
    BY <2>1, <2>2
<1>13. CASE Clear
  <2>1. LoopTypes'
    BY <1>13 DEF Clear
  <2>2. SlotTypes' /\ HostTypes'
    BY <1>13 DEF Clear
  <2> QED
    BY <2>1, <2>2
<1>14. CASE DeleteClient
  <2>1. LoopTypes'
    BY <1>14 DEF DeleteClient
  <2>2. SlotTypes' /\ HostTypes'
    BY <1>14 DEF DeleteClient
  <2> QED
    BY <2>1, <2>2
<1>15. CASE Doom
  <2>1. LoopTypes'
    BY <1>15 DEF Doom
  <2>2. SlotTypes' /\ HostTypes'
    BY <1>15 DEF Doom
  <2> QED
    BY <2>1, <2>2
<1>16. CASE DoomedTerminate
  <2>1. LoopTypes'
    BY <1>16 DEF DoomedTerminate
  <2>2. SlotTypes' /\ HostTypes'
    BY <1>16 DEF DoomedTerminate
  <2> QED
    BY <2>1, <2>2
<1>17. CASE DoomedMark
  <2>1. LoopTypes'
    BY <1>17 DEF DoomedMark
  <2>2. SlotTypes' /\ HostTypes'
    BY <1>17 DEF DoomedMark
  <2> QED
    BY <2>1, <2>2
<1>18. CASE CreateFails
  <2>1. LoopTypes'
    BY <1>18 DEF CreateFails
  <2>2. SlotTypes' /\ HostTypes'
    BY <1>18 DEF CreateFails
  <2> QED
    BY <2>1, <2>2
<1>19. ASSUME NEW s \in Slot, CreateClient(s) PROVE LoopTypes' /\ SlotTypes' /\ HostTypes'
  <2>1. LoopTypes'
    BY <1>19 DEF CreateClient
  <2>2. SlotTypes' /\ HostTypes'
    BY <1>19 DEF CreateClient
  <2> QED
    BY <2>1, <2>2
<1>20. CASE StartWait
  <2>1. LoopTypes'
    BY <1>20 DEF StartWait
  <2>2. SlotTypes' /\ HostTypes'
    BY <1>20 DEF StartWait
  <2> QED
    BY <2>1, <2>2
<1>21. CASE ConnectTimesOut
  <2>1. LoopTypes'
    BY <1>21 DEF ConnectTimesOut
  <2>2. SlotTypes' /\ HostTypes'
    BY <1>21 DEF ConnectTimesOut
  <2> QED
    BY <2>1, <2>2
<1>22. CASE ConnectReturns
  <2>1. LoopTypes'
    BY <1>22 DEF ConnectReturns
  <2>2. SlotTypes' /\ HostTypes'
    BY <1>22 DEF ConnectReturns
  <2> QED
    BY <2>1, <2>2
<1>23. CASE DiscoverSucceeds
  <2>1. LoopTypes'
    BY <1>23 DEF DiscoverSucceeds
  <2>2. SlotTypes' /\ HostTypes'
    BY <1>23 DEF DiscoverSucceeds
  <2> QED
    BY <2>1, <2>2
<1>24. CASE DiscoverFails
  <2>1. LoopTypes'
    BY <1>24 DEF DiscoverFails
  <2>2. SlotTypes' /\ HostTypes'
    BY <1>24 DEF DiscoverFails
  <2> QED
    BY <2>1, <2>2
<1>25. CASE FinishConnect
  <2>1. LoopTypes'
    BY <1>25 DEF FinishConnect
  <2>2. SlotTypes' /\ HostTypes'
    BY <1>25 DEF FinishConnect
  <2> QED
    BY <2>1, <2>2
<1>26. CASE ConnectFailed
  <2>1. LoopTypes'
    BY <1>26 DEF ConnectFailed
  <2>2. SlotTypes' /\ HostTypes'
    BY <1>26 DEF ConnectFailed
  <2> QED
    BY <2>1, <2>2
<1>27. CASE Reboot
  <2>1. LoopTypes'
    BY <1>27 DEF Reboot
  <2>2. SlotTypes'
    BY <1>27 DEF Reboot
  <2>3. HostTypes'
    BY <1>27 DEF Reboot
  <2> QED
    BY <2>1, <2>2, <2>3
<1>28. CASE HostAnswers
  <2>1. LoopTypes'
    BY <1>28 DEF HostAnswers
  <2>2. SlotTypes' /\ HostTypes'
    BY <1>28 DEF HostAnswers
  <2> QED
    BY <2>1, <2>2
<1>29. CASE HostExpires
  <2>1. client \in Slot
    BY <1>29 DEF HostExpires, WaitInv, LoopInv
  <2>2. LoopTypes' /\ SlotTypes'
    BY <1>29 DEF HostExpires
  <2>3. HostTypes'
    BY <1>29, <2>1 DEF HostExpires
  <2> QED
    BY <2>2, <2>3
<1>30. CASE HostTerminates
  <2>1. LoopTypes'
    BY <1>30 DEF HostTerminates
  <2>2. SlotTypes' /\ HostTypes'
    BY <1>30 DEF HostTerminates
  <2> QED
    BY <2>1, <2>2
<1>31. CASE HostRetriesConnect
  <2>1. host \in Slot
    BY <1>31 DEF HostRetriesConnect, HostInv
  <2>2. LoopTypes' /\ HostTypes'
    BY <1>31 DEF HostRetriesConnect
  <2>3. SlotTypes'
    BY <1>31, <2>1 DEF HostRetriesConnect
  <2> QED
    BY <2>2, <2>3
<1>32. CASE HostDisconnect
  <2>1. connected' \in BOOLEAN
    BY <1>32 DEF HostDisconnect
  <2>2. LoopTypes'
    BY <1>32, <2>1 DEF HostDisconnect
  <2>3. SlotTypes'
    BY <1>32 DEF HostDisconnect
  <2>4. HostTypes'
    BY <1>32 DEF HostDisconnect
  <2> QED
    BY <2>2, <2>3, <2>4
<1>33. CASE HostMark
  <2>1. LoopTypes'
    BY <1>33 DEF HostMark
  <2>2. SlotTypes' /\ HostTypes'
    BY <1>33 DEF HostMark
  <2> QED
    BY <2>1, <2>2
<1>34. CASE HostDisconnected
  <2>1. LoopTypes'
    BY <1>34 DEF HostDisconnected
  <2>2. SlotTypes' /\ HostTypes'
    BY <1>34 DEF HostDisconnected
  <2> QED
    BY <2>1, <2>2
<1>35. ASSUME NEW s \in Slot, HostConnected(s) PROVE LoopTypes' /\ SlotTypes' /\ HostTypes'
  <2>1. LoopTypes'
    BY <1>35 DEF HostConnected
  <2>2. SlotTypes' /\ HostTypes'
    BY <1>35 DEF HostConnected
  <2> QED
    BY <2>1, <2>2
<1>36. ASSUME NEW s \in Slot, HostConnectFails(s) PROVE LoopTypes' /\ SlotTypes' /\ HostTypes'
  <2>1. LoopTypes'
    BY <1>36 DEF HostConnectFails
  <2>2. SlotTypes' /\ HostTypes'
    BY <1>36 DEF HostConnectFails
  <2> QED
    BY <2>1, <2>2
<1>37. ASSUME NEW s \in Slot, HostEstablished(s) PROVE LoopTypes' /\ SlotTypes' /\ HostTypes'
  <2>1. LoopTypes'
    BY <1>37 DEF HostEstablished
  <2>2. SlotTypes' /\ HostTypes'
    BY <1>37 DEF HostEstablished
  <2> QED
    BY <2>1, <2>2
<1>38. ASSUME NEW s \in Slot, HostBroken(s) PROVE LoopTypes' /\ SlotTypes' /\ HostTypes'
  <2>1. LoopTypes'
    BY <1>38 DEF HostBroken
  <2>2. SlotTypes' /\ HostTypes'
    BY <1>38 DEF HostBroken
  <2> QED
    BY <2>1, <2>2
<1>39. ASSUME NEW s \in Slot, LinkLost(s) PROVE LoopTypes' /\ SlotTypes' /\ HostTypes'
  <2>1. LoopTypes'
    BY <1>39 DEF LinkLost
  <2>2. SlotTypes' /\ HostTypes'
    BY <1>39 DEF LinkLost
  <2> QED
    BY <2>1, <2>2
<1>40. ASSUME NEW s \in Slot, LinkClosed(s) PROVE LoopTypes' /\ SlotTypes' /\ HostTypes'
  <2>1. LoopTypes'
    BY <1>40 DEF LinkClosed
  <2>2. SlotTypes' /\ HostTypes'
    BY <1>40 DEF LinkClosed
  <2> QED
    BY <2>1, <2>2
<1>41. CASE RescanDue
  <2>1. LoopTypes'
    BY <1>41 DEF RescanDue
  <2>2. SlotTypes' /\ HostTypes'
    BY <1>41 DEF RescanDue
  <2> QED
    BY <2>1, <2>2
<1>42. CASE UNCHANGED vars
  BY <1>42 DEF vars
<1> QED
  BY <1>1, <1>2, <1>3, <1>4, <1>5, <1>6, <1>7, <1>8, <1>9, <1>10, <1>11, <1>12, <1>13,
     <1>14, <1>15, <1>16, <1>17, <1>18, <1>19, <1>20, <1>21, <1>22, <1>23, <1>24,
     <1>25, <1>26, <1>27, <1>28, <1>29, <1>30, <1>31, <1>32, <1>33, <1>34, <1>35,
     <1>36, <1>37, <1>38, <1>39, <1>40, <1>41, <1>42
     DEF Next, Loop, HostTask, Radio

(* Every step keeps each client object consistent with its connection. *)
LEMMA SlotStep == IInv /\ [Next]_vars => \A t \in Slot : SlotInv(t)'
<1> SUFFICES ASSUME IInv, [Next]_vars, NEW t \in Slot PROVE SlotInv(t)'
  OBVIOUS
<1> USE BoundsAssumption, BatteryAssumption
    DEF IInv, TypeOK, LoopInv, WaitInv, SlotInv, Losing, IsFirstFree, Slot, NoClient, LoopPc, Status, LinkState, Request, Stage,
        loopVars, waitVars, slotVars, hostVars, Goto, Fault, Terminate, Free, DeleteMarked,
        HostIdle, Waits, Release, Listed, Answer, RequestFailed, Allocated
<1>1. CASE ProviderUpdate
  BY <1>1 DEF ProviderUpdate
<1>2. CASE BmsUpdate
  BY <1>2 DEF BmsUpdate
<1>3. CASE Transmit
  BY <1>3 DEF Transmit
<1>4. CASE ListRequest
  BY <1>4 DEF ListRequest
<1>5. CASE WriteAnswered
  BY <1>5 DEF WriteAnswered
<1>6. CASE WriteFailed
  BY <1>6 DEF WriteFailed
<1>7. CASE SyncData
  BY <1>7 DEF SyncData
<1>8. CASE RescanCheck
  BY <1>8 DEF RescanCheck
<1>9. ASSUME NEW b \in Battery, ScanFinds(b) PROVE SlotInv(t)'
  BY <1>9 DEF ScanFinds
<1>10. CASE ScanEmpty
  BY <1>10 DEF ScanEmpty
<1>11. CASE Drop
  BY <1>11 DEF Drop
<1>12. CASE DropMark
  BY <1>12 DEF DropMark
<1>13. CASE Clear
  BY <1>13 DEF Clear
<1>14. CASE DeleteClient
  BY <1>14 DEF DeleteClient
<1>15. CASE Doom
  BY <1>15 DEF Doom
<1>16. CASE DoomedTerminate
  <2>1. CASE client = t
    BY <1>16, <2>1 DEF DoomedTerminate
  <2>2. CASE client # t
    BY <1>16, <2>2 DEF DoomedTerminate
  <2> QED
    BY <2>1, <2>2
<1>17. CASE DoomedMark
  <2>1. CASE client = t
    BY <1>17, <2>1 DEF DoomedMark
  <2>2. CASE client # t
    BY <1>17, <2>2 DEF DoomedMark
  <2> QED
    BY <2>1, <2>2
<1>18. CASE CreateFails
  BY <1>18 DEF CreateFails
<1>19. ASSUME NEW s \in Slot, CreateClient(s) PROVE SlotInv(t)'
  BY <1>19 DEF CreateClient
<1>20. CASE StartWait
  BY <1>20 DEF StartWait
<1>21. CASE ConnectTimesOut
  BY <1>21 DEF ConnectTimesOut
<1>22. CASE ConnectReturns
  BY <1>22 DEF ConnectReturns
<1>23. CASE DiscoverSucceeds
  BY <1>23 DEF DiscoverSucceeds
<1>24. CASE DiscoverFails
  BY <1>24 DEF DiscoverFails
<1>25. CASE FinishConnect
  BY <1>25 DEF FinishConnect
<1>26. CASE ConnectFailed
  BY <1>26 DEF ConnectFailed
<1>27. CASE Reboot
  BY <1>27 DEF Reboot
<1>28. CASE HostAnswers
  BY <1>28 DEF HostAnswers
<1>29. CASE HostExpires
  BY <1>29 DEF HostExpires
<1>30. CASE HostTerminates
  <2>1. ~pending[host]
    BY <1>30 DEF HostTerminates, HostInv, ReportInv, Cut
  <2> QED
    BY <1>30, <2>1 DEF HostTerminates, HostInv
<1>31. CASE HostRetriesConnect
  BY <1>31 DEF HostRetriesConnect
<1>32. CASE HostDisconnect
  BY <1>32 DEF HostDisconnect
<1>33. CASE HostMark
  BY <1>33 DEF HostMark
<1>34. CASE HostDisconnected
  <2>1. /\ host \in Slot /\ stage = "marked" /\ stage' = "idle"
        /\ UNCHANGED <<pc, ret, client, link, pending>>
    BY <1>34 DEF HostDisconnected, HostInv
  <2>2. t # host => status'[t] = status[t] /\ doomed'[t] = doomed[t]
    BY <1>34 DEF HostDisconnected
  <2>3. t = host => \/ /\ doomed[t] /\ status[t] = "DISCONNECTED"
                       /\ status'[t] = "free" /\ ~doomed'[t]
                    \/ status'[t] = status[t] /\ doomed'[t] = doomed[t]
    BY <1>34 DEF HostDisconnected
  <2>4. result' # result => /\ waiter /\ client = host
                            /\ link[host] = "none" /\ status[host] = "DISCONNECTED"
    BY <1>34, <2>1 DEF HostDisconnected, HostInv
  <2>5. CASE status'[t] = status[t] /\ doomed'[t] = doomed[t]
    BY <2>1, <2>4, <2>5
  <2>6. CASE /\ t = host /\ doomed[t] /\ status[t] = "DISCONNECTED"
             /\ status'[t] = "free" /\ ~doomed'[t]
    BY <2>1, <2>6
  <2> QED
    BY <2>2, <2>3, <2>5, <2>6
<1>35. ASSUME NEW s \in Slot, HostConnected(s) PROVE SlotInv(t)'
  BY <1>35 DEF HostConnected
<1>36. ASSUME NEW s \in Slot, HostConnectFails(s) PROVE SlotInv(t)'
  BY <1>36 DEF HostConnectFails
<1>37. ASSUME NEW s \in Slot, HostEstablished(s) PROVE SlotInv(t)'
  BY <1>37 DEF HostEstablished
<1>38. ASSUME NEW s \in Slot, HostBroken(s) PROVE SlotInv(t)'
  BY <1>38 DEF HostBroken
<1>39. ASSUME NEW s \in Slot, LinkLost(s) PROVE SlotInv(t)'
  BY <1>39 DEF LinkLost
<1>40. ASSUME NEW s \in Slot, LinkClosed(s) PROVE SlotInv(t)'
  BY <1>40 DEF LinkClosed
<1>41. CASE RescanDue
  BY <1>41 DEF RescanDue
<1>42. CASE UNCHANGED vars
  BY <1>42 DEF vars
<1> QED
  BY <1>1, <1>2, <1>3, <1>4, <1>5, <1>6, <1>7, <1>8, <1>9, <1>10, <1>11, <1>12, <1>13,
     <1>14, <1>15, <1>16, <1>17, <1>18, <1>19, <1>20, <1>21, <1>22, <1>23, <1>24,
     <1>25, <1>26, <1>27, <1>28, <1>29, <1>30, <1>31, <1>32, <1>33, <1>34, <1>35,
     <1>36, <1>37, <1>38, <1>39, <1>40, <1>41, <1>42
     DEF Next, Loop, HostTask, Radio

(* Every step keeps what the loop task relies on at its program counter. *)
LEMMA LoopStep == IInv /\ [Next]_vars => LoopInv'
<1> SUFFICES ASSUME IInv, [Next]_vars PROVE LoopInv'
  OBVIOUS
<1> USE BoundsAssumption, BatteryAssumption
    DEF IInv, TypeOK, LoopInv, WaitInv, SlotInv, Losing, IsFirstFree, IsConnected, Slot, NoClient, LoopPc, Status, LinkState, Request, Stage,
        loopVars, waitVars, slotVars, hostVars, Goto, Fault, Terminate, Free, DeleteMarked,
        HostIdle, Waits, Release, Listed, Answer, RequestFailed, Allocated
<1>1. CASE ProviderUpdate
  BY <1>1 DEF ProviderUpdate
<1>2. CASE BmsUpdate
  BY <1>2 DEF BmsUpdate
<1>3. CASE Transmit
  BY <1>3 DEF Transmit
<1>4. CASE ListRequest
  BY <1>4 DEF ListRequest
<1>5. CASE WriteAnswered
  BY <1>5 DEF WriteAnswered
<1>6. CASE WriteFailed
  BY <1>6 DEF WriteFailed
<1>7. CASE SyncData
  BY <1>7 DEF SyncData
<1>8. CASE RescanCheck
  BY <1>8 DEF RescanCheck
<1>9. ASSUME NEW b \in Battery, ScanFinds(b) PROVE LoopInv'
  BY <1>9 DEF ScanFinds
<1>10. CASE ScanEmpty
  BY <1>10 DEF ScanEmpty
<1>11. CASE Drop
  BY <1>11 DEF Drop
<1>12. CASE DropMark
  BY <1>12 DEF DropMark
<1>13. CASE Clear
  BY <1>13 DEF Clear
<1>14. CASE DeleteClient
  BY <1>14 DEF DeleteClient
<1>15. CASE Doom
  BY <1>15 DEF Doom
<1>16. CASE DoomedTerminate
  BY <1>16 DEF DoomedTerminate
<1>17. CASE DoomedMark
  BY <1>17 DEF DoomedMark
<1>18. CASE CreateFails
  BY <1>18 DEF CreateFails
<1>19. ASSUME NEW s \in Slot, CreateClient(s) PROVE LoopInv'
  BY <1>19 DEF CreateClient
<1>20. CASE StartWait
  BY <1>20 DEF StartWait
<1>21. CASE ConnectTimesOut
  BY <1>21 DEF ConnectTimesOut
<1>22. CASE ConnectReturns
  BY <1>22 DEF ConnectReturns
<1>23. CASE DiscoverSucceeds
  BY <1>23 DEF DiscoverSucceeds
<1>24. CASE DiscoverFails
  BY <1>24 DEF DiscoverFails
<1>25. CASE FinishConnect
  BY <1>25 DEF FinishConnect
<1>26. CASE ConnectFailed
  BY <1>26 DEF ConnectFailed
<1>27. CASE Reboot
  BY <1>27 DEF Reboot
<1>28. CASE HostAnswers
  BY <1>28 DEF HostAnswers
<1>29. CASE HostExpires
  BY <1>29 DEF HostExpires
<1>30. CASE HostTerminates
  BY <1>30 DEF HostTerminates
<1>31. CASE HostRetriesConnect
  BY <1>31 DEF HostRetriesConnect
<1>32. CASE HostDisconnect
  BY <1>32 DEF HostDisconnect
<1>33. CASE HostMark
  BY <1>33 DEF HostMark
<1>34. CASE HostDisconnected
  <2>1. host \in Slot /\ UNCHANGED <<pc, ret, target, client, chars, link>>
    BY <1>34 DEF HostDisconnected, HostInv
  <2>2. \A s \in Slot \ {host} : status'[s] = status[s] /\ doomed'[s] = doomed[s]
    BY <1>34 DEF HostDisconnected
  <2>3. \/ doomed[host] /\ status'[host] = "free"
        \/ status'[host] = status[host] /\ doomed'[host] = doomed[host]
    BY <1>34 DEF HostDisconnected
  <2>4. client = host => pc \in {"terminate", "terminateMark"} \/ ~doomed[host]
    BY <2>1
  <2>5. client # NoClient /\ pc' \notin {"terminate", "terminateMark", "panic"}
            => Allocated(client)'
    BY <2>1, <2>2, <2>3, <2>4
  <2>6. pc' \in {"terminate", "terminateMark"} /\ Allocated(client)' => doomed'[client]
    BY <2>1, <2>2, <2>3
  <2> QED
    BY <2>1, <2>5, <2>6
<1>35. ASSUME NEW s \in Slot, HostConnected(s) PROVE LoopInv'
  BY <1>35 DEF HostConnected
<1>36. ASSUME NEW s \in Slot, HostConnectFails(s) PROVE LoopInv'
  BY <1>36 DEF HostConnectFails
<1>37. ASSUME NEW s \in Slot, HostEstablished(s) PROVE LoopInv'
  BY <1>37 DEF HostEstablished
<1>38. ASSUME NEW s \in Slot, HostBroken(s) PROVE LoopInv'
  BY <1>38 DEF HostBroken
<1>39. ASSUME NEW s \in Slot, LinkLost(s) PROVE LoopInv'
  BY <1>39 DEF LinkLost
<1>40. ASSUME NEW s \in Slot, LinkClosed(s) PROVE LoopInv'
  BY <1>40 DEF LinkClosed
<1>41. CASE RescanDue
  BY <1>41 DEF RescanDue
<1>42. CASE UNCHANGED vars
  BY <1>42 DEF vars
<1> QED
  BY <1>1, <1>2, <1>3, <1>4, <1>5, <1>6, <1>7, <1>8, <1>9, <1>10, <1>11, <1>12, <1>13,
     <1>14, <1>15, <1>16, <1>17, <1>18, <1>19, <1>20, <1>21, <1>22, <1>23, <1>24,
     <1>25, <1>26, <1>27, <1>28, <1>29, <1>30, <1>31, <1>32, <1>33, <1>34, <1>35,
     <1>36, <1>37, <1>38, <1>39, <1>40, <1>41, <1>42
     DEF Next, Loop, HostTask, Radio

(* Every step keeps what the waits of the loop task say of its connection. *)
LEMMA WaitStep == IInv /\ [Next]_vars => WaitInv'
<1> SUFFICES ASSUME IInv, [Next]_vars PROVE WaitInv'
  OBVIOUS
<1> USE BoundsAssumption, BatteryAssumption
    DEF IInv, TypeOK, LoopInv, WaitInv, SlotInv, Losing, IsFirstFree, Slot, NoClient, LoopPc, Status, LinkState, Request, Stage,
        loopVars, waitVars, slotVars, hostVars, Goto, Fault, Terminate, Free, DeleteMarked,
        HostIdle, Waits, Release, Listed, Answer, RequestFailed, Allocated
<1>1. CASE ProviderUpdate
  BY <1>1 DEF ProviderUpdate
<1>2. CASE BmsUpdate
  BY <1>2 DEF BmsUpdate
<1>3. CASE Transmit
  BY <1>3 DEF Transmit
<1>4. CASE ListRequest
  BY <1>4 DEF ListRequest
<1>5. CASE WriteAnswered
  BY <1>5 DEF WriteAnswered
<1>6. CASE WriteFailed
  BY <1>6 DEF WriteFailed
<1>7. CASE SyncData
  BY <1>7 DEF SyncData
<1>8. CASE RescanCheck
  BY <1>8 DEF RescanCheck
<1>9. ASSUME NEW b \in Battery, ScanFinds(b) PROVE WaitInv'
  BY <1>9 DEF ScanFinds
<1>10. CASE ScanEmpty
  BY <1>10 DEF ScanEmpty
<1>11. CASE Drop
  BY <1>11 DEF Drop
<1>12. CASE DropMark
  BY <1>12 DEF DropMark
<1>13. CASE Clear
  BY <1>13 DEF Clear
<1>14. CASE DeleteClient
  BY <1>14 DEF DeleteClient
<1>15. CASE Doom
  BY <1>15 DEF Doom
<1>16. CASE DoomedTerminate
  BY <1>16 DEF DoomedTerminate
<1>17. CASE DoomedMark
  BY <1>17 DEF DoomedMark
<1>18. CASE CreateFails
  BY <1>18 DEF CreateFails
<1>19. ASSUME NEW s \in Slot, CreateClient(s) PROVE WaitInv'
  BY <1>19 DEF CreateClient
<1>20. CASE StartWait
  BY <1>20 DEF StartWait
<1>21. CASE ConnectTimesOut
  BY <1>21 DEF ConnectTimesOut
<1>22. CASE ConnectReturns
  BY <1>22 DEF ConnectReturns
<1>23. CASE DiscoverSucceeds
  BY <1>23 DEF DiscoverSucceeds
<1>24. CASE DiscoverFails
  BY <1>24 DEF DiscoverFails
<1>25. CASE FinishConnect
  BY <1>25 DEF FinishConnect
<1>26. CASE ConnectFailed
  BY <1>26 DEF ConnectFailed
<1>27. CASE Reboot
  BY <1>27 DEF Reboot
<1>28. CASE HostAnswers
  BY <1>28 DEF HostAnswers
<1>29. CASE HostExpires
  BY <1>29 DEF HostExpires
<1>30. CASE HostTerminates
  BY <1>30 DEF HostTerminates
<1>31. CASE HostRetriesConnect
  BY <1>31 DEF HostRetriesConnect
<1>32. CASE HostDisconnect
  BY <1>32 DEF HostDisconnect
<1>33. CASE HostMark
  BY <1>33 DEF HostMark
<1>34. CASE HostDisconnected
  <2>1. /\ host \in Slot /\ stage = "marked" /\ UNCHANGED <<pc, client, link, request>>
    BY <1>34 DEF HostDisconnected, HostInv
  <2>2. client = host => pc \in {"terminate", "terminateMark"} \/ ~doomed[host]
    BY <2>1
  <2>3. client \in Slot /\ pc = "wait" => status'[client] = status[client]
    BY <1>34, <2>1, <2>2 DEF HostDisconnected
  <2>4. result' # result => /\ result' = "fail" /\ Waits(host)
                            /\ link[host] = "none" /\ status[host] = "DISCONNECTED"
    BY <1>34, <2>1 DEF HostDisconnected, HostInv
  <2>5. pc \in {"start", "wait"} => client \in Slot
    OBVIOUS
  <2>6. pc \in {"start", "wait"} => status'[client] = status[client]
    BY <1>34, <2>1, <2>2, <2>5 DEF HostDisconnected
  <2> QED
    BY <2>1, <2>4, <2>5, <2>6
<1>35. ASSUME NEW s \in Slot, HostConnected(s) PROVE WaitInv'
  BY <1>35 DEF HostConnected
<1>36. ASSUME NEW s \in Slot, HostConnectFails(s) PROVE WaitInv'
  BY <1>36 DEF HostConnectFails
<1>37. ASSUME NEW s \in Slot, HostEstablished(s) PROVE WaitInv'
  BY <1>37 DEF HostEstablished
<1>38. ASSUME NEW s \in Slot, HostBroken(s) PROVE WaitInv'
  BY <1>38 DEF HostBroken
<1>39. ASSUME NEW s \in Slot, LinkLost(s) PROVE WaitInv'
  BY <1>39 DEF LinkLost
<1>40. ASSUME NEW s \in Slot, LinkClosed(s) PROVE WaitInv'
  BY <1>40 DEF LinkClosed
<1>41. CASE RescanDue
  BY <1>41 DEF RescanDue
<1>42. CASE UNCHANGED vars
  BY <1>42 DEF vars
<1> QED
  BY <1>1, <1>2, <1>3, <1>4, <1>5, <1>6, <1>7, <1>8, <1>9, <1>10, <1>11, <1>12, <1>13,
     <1>14, <1>15, <1>16, <1>17, <1>18, <1>19, <1>20, <1>21, <1>22, <1>23, <1>24,
     <1>25, <1>26, <1>27, <1>28, <1>29, <1>30, <1>31, <1>32, <1>33, <1>34, <1>35,
     <1>36, <1>37, <1>38, <1>39, <1>40, <1>41, <1>42
     DEF Next, Loop, HostTask, Radio

(* Every step keeps the reports off while a connection may be closed. *)
LEMMA ReportStep == IInv /\ [Next]_vars => ReportInv'
<1> SUFFICES ASSUME IInv, [Next]_vars PROVE ReportInv'
  OBVIOUS
<1> USE BoundsAssumption, BatteryAssumption
    DEF IInv, TypeOK, LoopInv, WaitInv, SlotInv, Losing, Cut, ReportInv, HostInv,
        IsFirstFree, IsConnected, Slot, NoClient, LoopPc, Status, LinkState, Request, Stage,
        loopVars, waitVars, slotVars, hostVars, Goto, Fault, Terminate, Free, DeleteMarked,
        HostIdle, Waits, Release, Listed, Answer, RequestFailed, Allocated
<1>1. CASE ProviderUpdate
  BY <1>1 DEF ProviderUpdate
<1>2. CASE BmsUpdate
  BY <1>2 DEF BmsUpdate
<1>3. CASE Transmit
  BY <1>3 DEF Transmit
<1>4. CASE ListRequest
  BY <1>4 DEF ListRequest
<1>5. CASE WriteAnswered
  BY <1>5 DEF WriteAnswered
<1>6. CASE WriteFailed
  BY <1>6 DEF WriteFailed
<1>7. CASE SyncData
  BY <1>7 DEF SyncData
<1>8. CASE RescanCheck
  BY <1>8 DEF RescanCheck
<1>9. ASSUME NEW b \in Battery, ScanFinds(b) PROVE ReportInv'
  BY <1>9 DEF ScanFinds
<1>10. CASE ScanEmpty
  BY <1>10 DEF ScanEmpty
<1>11. CASE Drop
  BY <1>11 DEF Drop
<1>12. CASE DropMark
  BY <1>12 DEF DropMark
<1>13. CASE Clear
  BY <1>13 DEF Clear
<1>14. CASE DeleteClient
  BY <1>14 DEF DeleteClient
<1>15. CASE Doom
  BY <1>15 DEF Doom
<1>16. CASE DoomedTerminate
  BY <1>16 DEF DoomedTerminate
<1>17. CASE DoomedMark
  BY <1>17 DEF DoomedMark
<1>18. CASE CreateFails
  BY <1>18 DEF CreateFails
<1>19. ASSUME NEW s \in Slot, CreateClient(s) PROVE ReportInv'
  BY <1>19 DEF CreateClient
<1>20. CASE StartWait
  BY <1>20 DEF StartWait
<1>21. CASE ConnectTimesOut
  BY <1>21 DEF ConnectTimesOut
<1>22. CASE ConnectReturns
  BY <1>22 DEF ConnectReturns
<1>23. CASE DiscoverSucceeds
  BY <1>23 DEF DiscoverSucceeds
<1>24. CASE DiscoverFails
  BY <1>24 DEF DiscoverFails
<1>25. CASE FinishConnect
  BY <1>25 DEF FinishConnect
<1>26. CASE ConnectFailed
  BY <1>26 DEF ConnectFailed
<1>27. CASE Reboot
  BY <1>27 DEF Reboot
<1>28. CASE HostAnswers
  BY <1>28 DEF HostAnswers
<1>29. CASE HostExpires
  BY <1>29 DEF HostExpires
<1>30. CASE HostTerminates
  BY <1>30 DEF HostTerminates
<1>31. CASE HostRetriesConnect
  BY <1>31 DEF HostRetriesConnect
<1>32. CASE HostDisconnect
  BY <1>32 DEF HostDisconnect
<1>33. CASE HostMark
  BY <1>33 DEF HostMark
<1>34. CASE HostDisconnected
  BY <1>34 DEF HostDisconnected
<1>35. ASSUME NEW s \in Slot, HostConnected(s) PROVE ReportInv'
  BY <1>35 DEF HostConnected
<1>36. ASSUME NEW s \in Slot, HostConnectFails(s) PROVE ReportInv'
  BY <1>36 DEF HostConnectFails
<1>37. ASSUME NEW s \in Slot, HostEstablished(s) PROVE ReportInv'
  BY <1>37 DEF HostEstablished
<1>38. ASSUME NEW s \in Slot, HostBroken(s) PROVE ReportInv'
  BY <1>38 DEF HostBroken
<1>39. ASSUME NEW s \in Slot, LinkLost(s) PROVE ReportInv'
  BY <1>39 DEF LinkLost
<1>40. ASSUME NEW s \in Slot, LinkClosed(s) PROVE ReportInv'
  BY <1>40 DEF LinkClosed
<1>41. CASE RescanDue
  BY <1>41 DEF RescanDue
<1>42. CASE UNCHANGED vars
  BY <1>42 DEF vars
<1> QED
  BY <1>1, <1>2, <1>3, <1>4, <1>5, <1>6, <1>7, <1>8, <1>9, <1>10, <1>11, <1>12, <1>13,
     <1>14, <1>15, <1>16, <1>17, <1>18, <1>19, <1>20, <1>21, <1>22, <1>23, <1>24,
     <1>25, <1>26, <1>27, <1>28, <1>29, <1>30, <1>31, <1>32, <1>33, <1>34, <1>35,
     <1>36, <1>37, <1>38, <1>39, <1>40, <1>41, <1>42
     DEF Next, Loop, HostTask, Radio

(* Every step keeps what the host task relies on between its steps. *)
LEMMA HostStep == IInv /\ [Next]_vars => HostInv'
<1> SUFFICES ASSUME IInv, [Next]_vars PROVE HostInv'
  OBVIOUS
<1> USE BoundsAssumption, BatteryAssumption
    DEF IInv, TypeOK, LoopInv, WaitInv, SlotInv, Losing, HostInv, IsFirstFree, Slot, NoClient, LoopPc, Status, LinkState, Request, Stage,
        loopVars, waitVars, slotVars, hostVars, Goto, Fault, Terminate, Free, DeleteMarked,
        HostIdle, Waits, Release, Listed, Answer, RequestFailed, Allocated
<1>1. CASE ProviderUpdate
  BY <1>1 DEF ProviderUpdate
<1>2. CASE BmsUpdate
  BY <1>2 DEF BmsUpdate
<1>3. CASE Transmit
  BY <1>3 DEF Transmit
<1>4. CASE ListRequest
  BY <1>4 DEF ListRequest
<1>5. CASE WriteAnswered
  BY <1>5 DEF WriteAnswered
<1>6. CASE WriteFailed
  BY <1>6 DEF WriteFailed
<1>7. CASE SyncData
  BY <1>7 DEF SyncData
<1>8. CASE RescanCheck
  BY <1>8 DEF RescanCheck
<1>9. ASSUME NEW b \in Battery, ScanFinds(b) PROVE HostInv'
  BY <1>9 DEF ScanFinds
<1>10. CASE ScanEmpty
  BY <1>10 DEF ScanEmpty
<1>11. CASE Drop
  BY <1>11 DEF Drop
<1>12. CASE DropMark
  BY <1>12 DEF DropMark
<1>13. CASE Clear
  BY <1>13 DEF Clear
<1>14. CASE DeleteClient
  BY <1>14 DEF DeleteClient
<1>15. CASE Doom
  BY <1>15 DEF Doom
<1>16. CASE DoomedTerminate
  BY <1>16 DEF DoomedTerminate
<1>17. CASE DoomedMark
  BY <1>17 DEF DoomedMark
<1>18. CASE CreateFails
  BY <1>18 DEF CreateFails
<1>19. ASSUME NEW s \in Slot, CreateClient(s) PROVE HostInv'
  BY <1>19 DEF CreateClient
<1>20. CASE StartWait
  BY <1>20 DEF StartWait
<1>21. CASE ConnectTimesOut
  BY <1>21 DEF ConnectTimesOut
<1>22. CASE ConnectReturns
  BY <1>22 DEF ConnectReturns
<1>23. CASE DiscoverSucceeds
  BY <1>23 DEF DiscoverSucceeds
<1>24. CASE DiscoverFails
  BY <1>24 DEF DiscoverFails
<1>25. CASE FinishConnect
  BY <1>25 DEF FinishConnect
<1>26. CASE ConnectFailed
  BY <1>26 DEF ConnectFailed
<1>27. CASE Reboot
  BY <1>27 DEF Reboot
<1>28. CASE HostAnswers
  BY <1>28 DEF HostAnswers
<1>29. CASE HostExpires
  BY <1>29 DEF HostExpires
<1>30. CASE HostTerminates
  BY <1>30 DEF HostTerminates
<1>31. CASE HostRetriesConnect
  BY <1>31 DEF HostRetriesConnect
<1>32. CASE HostDisconnect
  BY <1>32 DEF HostDisconnect
<1>33. CASE HostMark
  BY <1>33 DEF HostMark
<1>34. CASE HostDisconnected
  BY <1>34 DEF HostDisconnected
<1>35. ASSUME NEW s \in Slot, HostConnected(s) PROVE HostInv'
  BY <1>35 DEF HostConnected
<1>36. ASSUME NEW s \in Slot, HostConnectFails(s) PROVE HostInv'
  BY <1>36 DEF HostConnectFails
<1>37. ASSUME NEW s \in Slot, HostEstablished(s) PROVE HostInv'
  BY <1>37 DEF HostEstablished
<1>38. ASSUME NEW s \in Slot, HostBroken(s) PROVE HostInv'
  BY <1>38 DEF HostBroken
<1>39. ASSUME NEW s \in Slot, LinkLost(s) PROVE HostInv'
  BY <1>39 DEF LinkLost
<1>40. ASSUME NEW s \in Slot, LinkClosed(s) PROVE HostInv'
  BY <1>40 DEF LinkClosed
<1>41. CASE RescanDue
  BY <1>41 DEF RescanDue
<1>42. CASE UNCHANGED vars
  BY <1>42 DEF vars
<1> QED
  BY <1>1, <1>2, <1>3, <1>4, <1>5, <1>6, <1>7, <1>8, <1>9, <1>10, <1>11, <1>12, <1>13,
     <1>14, <1>15, <1>16, <1>17, <1>18, <1>19, <1>20, <1>21, <1>22, <1>23, <1>24,
     <1>25, <1>26, <1>27, <1>28, <1>29, <1>30, <1>31, <1>32, <1>33, <1>34, <1>35,
     <1>36, <1>37, <1>38, <1>39, <1>40, <1>41, <1>42
     DEF Next, Loop, HostTask, Radio

-----------------------------------------------------------------------------
(* IInv is an invariant of the specification. *)
THEOREM Invariance == Spec => []IInv
<1>1. IInv /\ [Next]_vars => IInv'
  BY TypeStep, SlotStep, LoopStep, WaitStep, ReportStep, HostStep DEF IInv
<1> QED
  BY InitInv, <1>1, PTL DEF Spec

(* The variables keep their types, and a client retries at most            *)
(* ConnectRetries times, for any number of batteries and client slots.     *)
THEOREM TypeCorrectness == Spec => []TypeOK
<1>1. IInv => TypeOK
  BY DEF IInv
<1> QED
  BY Invariance, <1>1, PTL

(* The client pointer, the host task and every connection refer to an      *)
(* allocated client object.                                                *)
THEOREM ClientSafety == Spec => []NoDanglingClient
<1>1. IInv => NoDanglingClient
  <2> SUFFICES ASSUME IInv PROVE NoDanglingClient
    OBVIOUS
  <2>1. stage \in {"broken", "told", "expired"} => Allocated(host)
    BY DEF IInv, SlotInv, TypeOK, HostInv, HostIdle, Losing, Allocated, Slot, NoClient
  <2>2. \A s \in Slot : link[s] # "none" => Allocated(s)
    BY DEF IInv, SlotInv, TypeOK, LinkState, Allocated
  <2>3. pc = "delete" => ~doomed[client]
    BY DEF IInv, TypeOK, LoopInv, SlotInv, Slot, NoClient
  <2> QED
    BY <2>1, <2>2, <2>3 DEF IInv, LoopInv, NoDanglingClient
<1> QED
  BY Invariance, <1>1, PTL

(* The query goes through the attributes of the current client. *)
THEOREM WriteSafety == Spec => []WriteThroughLiveAttributes
<1>1. IInv => WriteThroughLiveAttributes
  BY DEF IInv, LoopInv, WriteThroughLiveAttributes, NoClient
<1> QED
  BY Invariance, <1>1, PTL

(* Every connection the gateway let go of is marked for deletion. *)
THEOREM OrphanSafety == Spec => []NoOrphanLink
<1>1. IInv => NoOrphanLink
  BY DEF IInv, SlotInv, NoOrphanLink
<1> QED
  BY Invariance, <1>1, PTL

(* A connection that isConnected() reports exists and is not being closed. *)
THEOREM ReportSafety == Spec => []ReportedLinkExists
<1>1. IInv => ReportedLinkExists
  BY DEF IInv, SlotInv, ReportInv, Losing, Cut, TypeOK, IsConnected, ReportedLinkExists,
         Slot, NoClient
<1> QED
  BY Invariance, <1>1, PTL

(* The loop task closes no connection that the gateway reports connected. *)
THEOREM TerminationSafety == Spec => NeverTerminatesReported
<1> DEFINE A == \A s \in Slot : link[s] = "up" /\ link'[s] = "closing" /\ UNCHANGED stage
                                   => ~dataConnected /\ ~IsConnected
<1>1. IInv /\ [Next]_vars => A
  <2> SUFFICES ASSUME IInv, [Next]_vars, NEW t \in Slot,
                      link[t] = "up", link'[t] = "closing", UNCHANGED stage
               PROVE  ~dataConnected /\ ~IsConnected
    OBVIOUS
  <2>1. CASE Drop
    BY <2>1 DEF Drop, IInv, ReportInv
  <2>2. CASE DoomedTerminate
    BY <2>2 DEF DoomedTerminate, IInv, ReportInv, IsConnected
  <2>3. CASE HostTask
    BY <2>3 DEF HostTask, IInv, TypeOK, LinkState, HostAnswers, HostExpires, HostTerminates,
                HostRetriesConnect, HostDisconnect, HostMark, HostDisconnected,
                HostConnected, HostConnectFails, HostEstablished, HostBroken, HostIdle
  <2>4. CASE Loop /\ ~Drop /\ ~DoomedTerminate
    BY <2>4 DEF Loop, IInv, TypeOK, LinkState, ProviderUpdate, BmsUpdate, Transmit,
                ListRequest, WriteAnswered, WriteFailed, SyncData, RescanCheck, ScanFinds,
                ScanEmpty, DropMark, Clear, DeleteClient, Doom, DoomedMark, CreateFails,
                CreateClient, StartWait, ConnectTimesOut, ConnectReturns, DiscoverSucceeds,
                DiscoverFails, FinishConnect, ConnectFailed, Reboot
  <2>5. CASE Radio \/ RescanDue
    BY <2>5 DEF Radio, IInv, TypeOK, LinkState, LinkLost, LinkClosed, RescanDue
  <2>6. CASE UNCHANGED vars
    BY <2>6 DEF vars
  <2> QED
    BY <2>1, <2>2, <2>3, <2>4, <2>5, <2>6 DEF Next
<1>2. IInv /\ [Next]_vars => [A]_vars
  BY <1>1
<1> QED
  BY Invariance, <1>2, PTL DEF Spec, NeverTerminatesReported

-----------------------------------------------------------------------------
(* isConnected() answers as before while its three inputs stay. *)
LEMMA AliveKept ==
  ASSUME UNCHANGED <<connected, client, status>>
  PROVE  IsConnected' = IsConnected
BY DEF IsConnected

(* It answers with a Boolean. *)
LEMMA AliveType == TypeOK => IsConnected \in BOOLEAN
BY DEF IsConnected, TypeOK

(* The places are unchanged while the loop task stands still. *)
LEMMA PlaceKept ==
  ASSUME UNCHANGED <<pc, ret>>
  PROVE  LoopPlace' = LoopPlace /\ ReturnPlace' = ReturnPlace
BY DEF LoopPlace, ReturnPlace

(* The initial state of the two tasks is one of the abstract link. *)
LEMMA RefinesInit == Init => Link!LinkInit
<1> SUFFICES ASSUME Init PROVE Link!LinkInit
  OBVIOUS
<1>1. LoopPlace = "scan" /\ ReturnPlace = "top"
  BY DEF Init, LoopPlace, ReturnPlace
<1>2. IsConnected = FALSE
  BY DEF Init, IsConnected
<1> QED
  BY <1>1, <1>2 DEF Init, Link!LinkInit

(* update() and the rescan decision are steps of their abstract namesakes;  *)
(* a query that is to be written is a stutter until its outcome is known.  *)
LEMMA RefinesLoop ==
  ASSUME IInv,
         \/ ProviderUpdate \/ BmsUpdate \/ Transmit \/ ListRequest
         \/ WriteAnswered \/ WriteFailed \/ SyncData \/ RescanCheck \/ ScanEmpty
  PROVE  [Link!LinkNext]_Link!linkVars
<1> USE DEF Goto, slotVars, Link!Moves, Link!LinkNext, Link!linkVars
<1>1. IsConnected \in BOOLEAN
  BY AliveType DEF IInv
<1>2. pc = "sync" => ret \in {"check", "top"}
  BY DEF IInv, LoopInv
<1>3. CASE ProviderUpdate
  <2>1. IsConnected' = IsConnected
    BY <1>3, AliveKept DEF ProviderUpdate
  <2>2. LoopPlace = "top"
    BY <1>3 DEF ProviderUpdate, LoopPlace
  <2>3. CASE IsConnected
    <3>1. LoopPlace' = "query" /\ ReturnPlace' = "check" /\ UNCHANGED dataConnected
      BY <1>3, <2>3 DEF ProviderUpdate, LoopPlace, ReturnPlace
    <3> QED
      BY <2>1, <2>2, <2>3, <3>1 DEF Link!Update
  <2>4. CASE ~IsConnected
    <3>1. LoopPlace' = "check" /\ ReturnPlace' = ReturnPlace /\ dataConnected' = FALSE
      BY <1>3, <2>4 DEF ProviderUpdate, LoopPlace, ReturnPlace
    <3> QED
      BY <2>1, <2>2, <2>4, <3>1 DEF Link!Update
  <2> QED
    BY <2>3, <2>4
<1>4. CASE BmsUpdate
  <2>1. LoopPlace = "query" /\ ReturnPlace' = ReturnPlace /\ UNCHANGED dataConnected
    BY <1>4 DEF BmsUpdate, LoopPlace, ReturnPlace
  <2>2. CASE pc' = "write"
    <3>1. IsConnected' = IsConnected
      BY <1>4, <2>2, AliveKept DEF BmsUpdate
    <3>2. LoopPlace' = "query"
      BY <2>2 DEF LoopPlace
    <3> QED
      BY <2>1, <3>1, <3>2
  <2>3. CASE pc' = "sync"
    <3>1. LoopPlace' = "sync"
      BY <2>3 DEF LoopPlace
    <3>2. IsConnected' = IsConnected \/ IsConnected' = FALSE
      <4>1. CASE connected' = FALSE
        BY <4>1 DEF IsConnected
      <4>2. CASE UNCHANGED connected
        BY <1>4, <4>2, AliveKept DEF BmsUpdate
      <4> QED
        BY <1>4, <4>1, <4>2 DEF BmsUpdate
    <3> QED
      BY <2>1, <3>1, <3>2 DEF Link!Query
  <2> QED
    BY <1>4, <2>2, <2>3 DEF BmsUpdate
<1>5. CASE WriteAnswered
  <2>1. IsConnected' = IsConnected
    BY <1>5, AliveKept DEF WriteAnswered
  <2>2. /\ LoopPlace = "query" /\ LoopPlace' = "sync"
        /\ ReturnPlace' = ReturnPlace /\ UNCHANGED dataConnected
    BY <1>5 DEF WriteAnswered, LoopPlace, ReturnPlace
  <2> QED
    BY <2>1, <2>2 DEF Link!Query
<1>6. CASE WriteFailed
  <2>1. IsConnected' = FALSE
    BY <1>6 DEF WriteFailed, IsConnected
  <2>2. /\ LoopPlace = "query" /\ LoopPlace' = "sync"
        /\ ReturnPlace' = ReturnPlace /\ UNCHANGED dataConnected
    BY <1>6 DEF WriteFailed, LoopPlace, ReturnPlace
  <2> QED
    BY <2>1, <2>2 DEF Link!Query
<1>7. CASE SyncData
  <2>1. IsConnected' = IsConnected
    BY <1>7, AliveKept DEF SyncData
  <2>2. /\ LoopPlace = "sync" /\ LoopPlace' = ReturnPlace
        /\ ReturnPlace' = ReturnPlace
    BY <1>2, <1>7 DEF SyncData, LoopPlace, ReturnPlace
  <2>3. dataConnected' = IsConnected
    BY <1>7 DEF SyncData
  <2> QED
    BY <2>1, <2>2, <2>3 DEF Link!Sync
<1>8. CASE RescanCheck
  <2>1. IsConnected' = IsConnected
    BY <1>8, AliveKept DEF RescanCheck
  <2>2. /\ LoopPlace = "check" /\ ReturnPlace' = ReturnPlace /\ UNCHANGED dataConnected
        /\ (LoopPlace' = "scan" /\ ~dataConnected) \/ LoopPlace' = "top"
    BY <1>8 DEF RescanCheck, LoopPlace, ReturnPlace
  <2> QED
    BY <2>1, <2>2 DEF Link!Check
<1>9. CASE ScanEmpty
  <2>1. IsConnected' = IsConnected
    BY <1>9, AliveKept DEF ScanEmpty
  <2>2. /\ LoopPlace = "scan" /\ LoopPlace' = "top"
        /\ ReturnPlace' = ReturnPlace /\ UNCHANGED dataConnected
    BY <1>9 DEF ScanEmpty, LoopPlace, ReturnPlace
  <2> QED
    BY <2>1, <2>2 DEF Link!ScanFails
<1>10. CASE Transmit \/ ListRequest
  <2>1. UNCHANGED <<pc, ret, connected, client, status, dataConnected>>
    BY <1>10 DEF Transmit, ListRequest, loopVars
  <2> QED
    BY <2>1, AliveKept, PlaceKept
<1> QED
  BY <1>3, <1>4, <1>5, <1>6, <1>7, <1>8, <1>9, <1>10

(* Everything from the end of a successful scan to the end of connect(): a *)
(* scan cannot find the battery connected, so it always leads into it.     *)
LEMMA RefinesConnect ==
  ASSUME IInv,
         \/ \E b \in Battery : ScanFinds(b)
         \/ FinishConnect \/ ConnectFailed \/ Reboot
  PROVE  [Link!LinkNext]_Link!linkVars
<1> USE DEF Goto, slotVars, Link!Moves, Link!LinkNext, Link!linkVars
<1>1. IsConnected \in BOOLEAN
  BY AliveType DEF IInv
<1>2. pc = "finish" \/ pc = "failed" => ReturnPlace = "top"
  BY DEF IInv, LoopInv, ReturnPlace
<1>3. ASSUME NEW b \in Battery, ScanFinds(b) PROVE [Link!LinkNext]_Link!linkVars
  <2>1. IsConnected' = IsConnected
    BY <1>3, AliveKept DEF ScanFinds
  <2>2. ~IsConnected
    BY <1>3 DEF ScanFinds, IInv, ReportInv
  <2>3. /\ LoopPlace = "scan" /\ LoopPlace' = "connect"
        /\ ReturnPlace' = "top" /\ UNCHANGED dataConnected
    BY <1>3, <2>2 DEF ScanFinds, LoopPlace, ReturnPlace
  <2> QED
    BY <2>1, <2>3 DEF Link!ScanSucceeds
<1>4. CASE FinishConnect
  <2>1. IsConnected' \in BOOLEAN
    BY DEF IsConnected
  <2>2. /\ LoopPlace = "connect" /\ LoopPlace' = "query"
        /\ ReturnPlace' = ReturnPlace /\ dataConnected' = TRUE
    BY <1>2, <1>4 DEF FinishConnect, LoopPlace, ReturnPlace
  <2> QED
    BY <2>1, <2>2 DEF Link!ConnectSucceeds
<1>5. CASE ConnectFailed
  <2>1. IsConnected' = FALSE
    BY <1>5 DEF ConnectFailed, IInv, LoopInv, IsConnected
  <2>2. /\ LoopPlace = "connect" /\ LoopPlace' = "top"
        /\ ReturnPlace' = ReturnPlace /\ dataConnected' = FALSE
    BY <1>5 DEF ConnectFailed, LoopPlace, ReturnPlace
  <2> QED
    BY <2>1, <2>2 DEF Link!ConnectFails
<1>6. CASE Reboot
  <2>1. IsConnected' = FALSE
    BY <1>6 DEF Reboot, IsConnected
  <2>2. LoopPlace' = "scan" /\ ReturnPlace' = "top" /\ dataConnected' = FALSE
    BY <1>6 DEF Reboot, LoopPlace, ReturnPlace
  <2> QED
    BY <2>1, <2>2 DEF Link!Restart
<1> QED
  BY <1>3, <1>4, <1>5, <1>6

(* Inside connect() the flag of isConnected() may be anything; the loop    *)
(* task leaves "connect" by none of these steps.                           *)
LEMMA RefinesInside ==
  ASSUME IInv,
         \/ Drop \/ DropMark \/ Clear \/ DeleteClient \/ Doom \/ DoomedTerminate
         \/ DoomedMark \/ CreateFails \/ (\E s \in Slot : CreateClient(s))
         \/ StartWait \/ ConnectTimesOut \/ ConnectReturns
         \/ DiscoverSucceeds \/ DiscoverFails
  PROVE  [Link!LinkNext]_Link!linkVars
<1> DEFINE Outside == {"top", "query", "write", "sync", "check", "scan"}
<1>1. /\ pc \notin Outside /\ pc' \notin Outside /\ ret # "check" /\ ret' # "check"
      /\ UNCHANGED dataConnected
  BY DEF IInv, LoopInv, Goto, Drop, DropMark, Clear, DeleteClient, Doom,
         DoomedTerminate, DoomedMark, CreateFails, CreateClient, StartWait,
         ConnectTimesOut, ConnectReturns, DiscoverSucceeds, DiscoverFails, loopVars
<1>2. /\ LoopPlace = "connect" /\ LoopPlace' = "connect"
      /\ ReturnPlace = "top" /\ ReturnPlace' = "top"
  BY <1>1 DEF LoopPlace, ReturnPlace
<1>3. IsConnected' \in BOOLEAN
  BY DEF IsConnected
<1> QED
  BY <1>1, <1>2, <1>3 DEF Link!Connecting, Link!LinkNext

(* The host task, the radio and the clock move no place; while the loop    *)
(* task is not waiting in connect() they can only make isConnected() false. *)
LEMMA RefinesHost ==
  ASSUME IInv, HostTask \/ Radio \/ RescanDue
  PROVE  [Link!LinkNext]_Link!linkVars
<1>1. UNCHANGED <<pc, ret, dataConnected, client>>
  BY DEF HostTask, HostAnswers, HostExpires, HostTerminates, HostRetriesConnect,
         HostDisconnect, HostMark, HostDisconnected, HostConnected, HostConnectFails,
         HostEstablished, HostBroken, Radio, LinkLost, LinkClosed, RescanDue, loopVars
<1>2. LoopPlace' = LoopPlace /\ ReturnPlace' = ReturnPlace
  BY <1>1, PlaceKept
<1>3. IsConnected \in BOOLEAN /\ IsConnected' \in BOOLEAN
  BY DEF IsConnected
<1>4. CASE pc \in {"start", "wait"}
  <2>1. LoopPlace = "connect"
    BY <1>4 DEF LoopPlace
  <2> QED
    BY <1>1, <1>2, <1>3, <2>1 DEF Link!Connecting, Link!LinkNext
<1>5. CASE pc \notin {"start", "wait"}
  <2> USE DEF IInv, TypeOK, SlotInv, Slot, NoClient, IsConnected
  <2>1. IsConnected' => IsConnected
    <3>1. ASSUME NEW s \in Slot, HostConnected(s) PROVE FALSE
      BY <1>5, <3>1 DEF HostConnected
    <3>2. ASSUME NEW s \in Slot, HostConnectFails(s) PROVE FALSE
      BY <1>5, <3>2 DEF HostConnectFails
    <3>3. ASSUME NEW s \in Slot, HostEstablished(s) PROVE FALSE
      BY <1>5, <3>3 DEF HostEstablished
    <3>4. ASSUME HostRetriesConnect PROVE FALSE
      BY <1>5, <3>4 DEF HostRetriesConnect, HostInv, HostIdle
    <3>5. ASSUME HostDisconnect PROVE IsConnected' => IsConnected
      BY <3>5 DEF HostDisconnect, loopVars
    <3>6. CASE HostMark
      BY <3>6 DEF HostMark, Status, loopVars
    <3>7. CASE HostDisconnected
      BY <3>7 DEF HostDisconnected, DeleteMarked, Free, Status, loopVars
    <3>8. ASSUME NEW s \in Slot, HostBroken(s) PROVE IsConnected' => IsConnected
      BY <3>8 DEF HostBroken, loopVars, slotVars
    <3>9. CASE HostAnswers \/ HostExpires \/ HostTerminates \/ Radio \/ RescanDue
      BY <3>9 DEF HostAnswers, HostExpires, HostTerminates, Radio, LinkLost, LinkClosed,
                  RescanDue, loopVars, slotVars
    <3> HIDE DEF IInv, TypeOK, SlotInv, Slot, NoClient, IsConnected
    <3> QED
      BY <3>1, <3>2, <3>3, <3>4, <3>5, <3>6, <3>7, <3>8, <3>9 DEF HostTask
  <2> HIDE DEF IInv, TypeOK, SlotInv, Slot, NoClient, IsConnected
  <2> QED
    BY <1>1, <1>2, <1>3, <2>1 DEF Link!Drops, Link!LinkNext, Link!linkVars
<1> QED
  BY <1>4, <1>5

(* The two tasks do to the rest of the firmware no more than GatewayLink.  *)
THEOREM Refinement == Spec => ImplementsLink
<1>1. IInv /\ [Next]_vars => [Link!LinkNext]_Link!linkVars
  <2> SUFFICES ASSUME IInv, [Next]_vars PROVE [Link!LinkNext]_Link!linkVars
    OBVIOUS
  <2>1. CASE Next
    BY <2>1, RefinesLoop, RefinesConnect, RefinesInside, RefinesHost DEF Next, Loop
  <2>2. CASE UNCHANGED vars
    <3>1. UNCHANGED <<pc, ret, connected, client, status, dataConnected>>
      BY <2>2 DEF vars, loopVars, slotVars
    <3> QED
      BY <3>1, AliveKept, PlaceKept DEF Link!linkVars
  <2> QED
    BY <2>1, <2>2
<1> QED
  BY RefinesInit, Invariance, <1>1, PTL DEF Spec, ImplementsLink, Link!LinkSpec
=============================================================================
