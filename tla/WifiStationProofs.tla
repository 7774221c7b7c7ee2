-------------------------- MODULE WifiStationProofs --------------------------
(***************************************************************************)
(* Proofs about WifiStation, for any networks and any number of faults.    *)
(***************************************************************************)
EXTENDS WifiStation, TLAPS

(* Where begin() is, the memory holds nothing but what it has loaded. *)
BootInv ==
    /\ pc \in {"load", "storeKey", "startAp"} =>
          ap = 0 /\ target = NoPair /\ station = None
    /\ pc = "load" => savedSsid = None
    /\ pc = "storeKey" => nvs.key = 0
    /\ pc \in {"storeKey", "startAp"} => setupKey # 0
    /\ pc = "startAp" => setupKey = nvs.key

(* The copies of the chosen network agree, but for the write in progress.  *)
CopyInv ==
    /\ pc \in {"storeKey", "startAp", "idle"} => savedSsid = nvs.ssid
    /\ pc = "savePassword" => /\ form.ssid \in Network /\ form \in entered
                              /\ nvs.ssid = form.ssid
    /\ pc = "forgetPassword" => nvs.ssid = None
    /\ target.ssid # None => target.ssid = savedSsid
    /\ station # None => station = target.ssid

IInv == TypeOK /\ BootInv /\ CopyInv /\ StoredAsEntered

(* begin() starts in the invariant, on an empty NVS. *)
LEMMA InitInv == Init => IInv
<1> SUFFICES ASSUME Init PROVE IInv
  OBVIOUS
<1> USE WifiAssumption DEF Init, Stored, Pair, NoPair, Pairs, NetworkOrNone
<1>1. TypeOK
  <2>1. /\ ota \in BOOLEAN /\ torn \in BOOLEAN
    OBVIOUS
  <2>2. nvs \in [ssid : NetworkOrNone, pass : NetworkOrNone, key : 0 .. MaxFaults + 1]
    OBVIOUS
  <2>3. form \in Pairs /\ target \in Pairs /\ entered \subseteq Pairs
    OBVIOUS
  <2> QED
    BY <2>1, <2>2, <2>3 DEF TypeOK, WifiPc
<1>2. BootInv
  BY DEF BootInv
<1>3. CopyInv
  BY DEF CopyInv
<1>4. StoredAsEntered
  BY DEF StoredAsEntered
<1> QED
  BY <1>1, <1>2, <1>3, <1>4 DEF IInv

(* Every step of begin(), of the forms and of the world keeps it. *)
LEMMA StepInv == IInv /\ [Next]_vars => IInv'
<1> SUFFICES ASSUME IInv, [Next]_vars PROVE IInv'
  OBVIOUS
<1> USE WifiAssumption DEF IInv, TypeOK, BootInv, CopyInv, StoredAsEntered, Stored,
        Pair, NoPair, Pairs, NetworkOrNone, WifiPc, ramVars, noteVars, Fault
<1>1. CASE Load
  BY <1>1 DEF Load
<1>2. CASE StoreKey
  BY <1>2 DEF StoreKey
<1>3. CASE StartAp
  BY <1>3 DEF StartAp, ConnectSavedNetwork
<1>4. CASE StartApFails
  BY <1>4 DEF StartApFails
<1>5. ASSUME NEW s \in Network, NEW p \in NetworkOrNone, SaveSsid(s, p) PROVE IInv'
  BY <1>5 DEF SaveSsid, Reachable
<1>6. CASE SavePassword
  BY <1>6 DEF SavePassword, ConnectSavedNetwork
<1>7. CASE ForgetSsid
  BY <1>7 DEF ForgetSsid
<1>8. CASE ForgetPassword
  BY <1>8 DEF ForgetPassword
<1>9. CASE StackJoins
  BY <1>9 DEF StackJoins
<1>10. ASSUME NEW n \in Network, Outage(n) PROVE IInv'
  BY <1>10 DEF Outage
<1>11. ASSUME NEW n \in Network, NetworkReturns(n) PROVE IInv'
  BY <1>11 DEF NetworkReturns
<1>12. CASE OtaBegins
  BY <1>12 DEF OtaBegins
<1>13. CASE Reset
  <2> USE <1>13 DEF Reset
  <2>1. torn' \in BOOLEAN /\ ota' \in BOOLEAN
    OBVIOUS
  <2>2. TypeOK'
    BY <2>1
  <2>3. BootInv' /\ CopyInv'
    OBVIOUS
  <2>4. StoredAsEntered'
    <3> SUFFICES ASSUME nvs.ssid # None, ~torn' PROVE Stored \in entered
      OBVIOUS
    <3> QED
      OBVIOUS
  <2> QED
    BY <2>2, <2>3, <2>4
<1>14. CASE UNCHANGED vars
  BY <1>14 DEF vars
<1> QED
  BY <1>1, <1>2, <1>3, <1>4, <1>5, <1>6, <1>7, <1>8, <1>9, <1>10, <1>11, <1>12, <1>13, <1>14
     DEF Next, Begin, Form, World

(* IInv is invariant. *)
THEOREM Invariance == Spec => []IInv
  BY InitInv, StepInv, PTL DEF Spec

(* The variables keep their types, and the access point only ever runs     *)
(* with the stored key.                                                    *)
THEOREM TypeCorrectness == Spec => []TypeOK
  BY Invariance, PTL DEF IInv

(* A stored network has the password that was entered for it, unless a     *)
(* reset cut a saveWiFi in two.                                            *)
THEOREM CredentialSafety == Spec => []StoredAsEntered
  BY Invariance, PTL DEF IInv

(* The station is on the network that the page shows and a reset would     *)
(* join, never on a forgotten or replaced one.                             *)
THEOREM JoiningSafety == Spec => []JoinedIsSaved
<1>1. IInv => JoinedIsSaved
  BY DEF IInv, CopyInv, JoinedIsSaved
<1> QED
  BY <1>1, Invariance, PTL

(* The setup key never changes once the access point has run with it.      *)
THEOREM KeyStability == Spec => KeyStable
<1>1. IInv /\ IInv' /\ [Next]_vars => [told # 0 => told' = told]_vars
  <2> SUFFICES ASSUME IInv, IInv', [Next]_vars, told # 0 PROVE told' = told
    OBVIOUS
  <2>1. told = nvs.key
    BY DEF IInv, TypeOK
  <2>2. CASE StoreKey
    BY <2>2 DEF StoreKey, noteVars
  <2>3. CASE StartAp
    BY <2>1, <2>3 DEF StartAp, IInv, BootInv
  <2>4. CASE ~StoreKey /\ ~StartAp
    BY <2>4 DEF Next, Begin, Form, World, Load, StartApFails, SaveSsid, SavePassword, ForgetSsid,
       ForgetPassword, StackJoins, Outage, NetworkReturns, OtaBegins, Reset, noteVars, vars
  <2> QED
    BY <2>2, <2>3, <2>4
<1> QED
  BY <1>1, Invariance, PTL DEF Spec, KeyStable
=============================================================================
