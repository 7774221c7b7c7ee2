----------------------------- MODULE WifiStation -----------------------------
(***************************************************************************)
(* GatewayNetwork: the setup access point and the saved Wi-Fi network. The *)
(* SSID, the password and the setup key are three entries of the flash     *)
(* storage NVS, each written or removed at once; a reset may come between  *)
(* any two, and loses the rest. The setup page saves and forgets networks  *)
(* over the access point or the network itself, and the Wi-Fi stack joins  *)
(* the network that begin() was called with, again and again.              *)
(*                                                                         *)
(* A network stands for its SSID and, as a password, for the right one. An *)
(* NVS write succeeds.                                                     *)
(***************************************************************************)
EXTENDS Naturals

CONSTANTS
    Network,
    None,        \* no entry; the empty string
    MaxFaults    \* bound on outages, resets and failed access points

ASSUME WifiAssumption == None \notin Network /\ MaxFaults \in Nat

NetworkOrNone == Network \cup {None}

(* The loop task: in begin(), idle in loop(), in saveWiFi or forgetWiFi.   *)
WifiPc == {"load", "storeKey", "startAp", "idle", "savePassword", "forgetPassword"}

VARIABLES
    nvs,        \* wifi_ssid, wifi_pass, and setup_key: a number, 0 for none
    pc,
    form,       \* the submitted SSID and password
    savedSsid,
    setupKey,
    ap,         \* the key the access point runs with, 0 if it does not run
    target,     \* what WiFi.begin was called with
    station,    \* the network the station is connected to
    inRange,    \* the networks in range
    ota,        \* has ArduinoOTA begun?
    entered,    \* the pairs the user has submitted
    torn,       \* a reset cut a saveWiFi short, and none has completed since
    told,       \* the key of the last access point that ran, 0 before the first
    faults

ramVars  == <<form, savedSsid, setupKey, ap, target, station, ota>>
noteVars == <<entered, torn, told>>
vars     == <<nvs, pc, ramVars, inRange, noteVars, faults>>

Pair(s, p) == [ssid |-> s, pass |-> p]
NoPair == Pair(None, None)

Stored == Pair(nvs.ssid, nvs.pass)

Fault == faults < MaxFaults /\ faults' = faults + 1

Init ==
    /\ nvs = [ssid |-> None, pass |-> None, key |-> 0]
    /\ pc = "load" /\ form = NoPair
    /\ savedSsid = None /\ setupKey = 0 /\ ap = 0
    /\ target = NoPair /\ station = None /\ ota = FALSE
    /\ inRange = Network
    /\ entered = {NoPair} /\ torn = FALSE /\ told = 0 /\ faults = 0

-----------------------------------------------------------------------------
(* begin()                                                                 *)

(* Variant: the access point starts while the key is still to be stored. *)
LoadAndStart ==
    /\ pc = "load"
    /\ savedSsid' = nvs.ssid
    /\ IF nvs.key = 0 THEN setupKey' = faults + 1 /\ pc' = "storeKey"
                      ELSE setupKey' = nvs.key /\ pc' = "startAp"
    /\ ap' = setupKey' /\ told' = setupKey'
    /\ UNCHANGED <<nvs, form, target, station, ota, inRange, entered, torn, faults>>

(* The stored SSID and key are read; a missing key is created. Keys are    *)
(* numbered by the faults so far, a reset being one.                       *)
Load ==
    /\ pc = "load"
    /\ savedSsid' = nvs.ssid
    /\ IF nvs.key = 0 THEN setupKey' = faults + 1 /\ pc' = "storeKey"
                      ELSE setupKey' = nvs.key /\ pc' = "startAp"
    /\ UNCHANGED <<nvs, form, ap, target, station, ota, inRange, noteVars, faults>>

StoreKey ==
    /\ pc = "storeKey" /\ pc' = "startAp"
    /\ nvs' = [nvs EXCEPT !.key = setupKey]
    /\ UNCHANGED <<ramVars, inRange, noteVars, faults>>

(* connectSavedNetwork: WiFi.begin, which leaves the network it was on. *)
ConnectSavedNetwork(ssid) ==
    IF ssid = None THEN UNCHANGED <<target, station>>
    ELSE target' = Pair(ssid, nvs'.pass) /\ station' = None

(* Variant: the network is left to the next form. *)
StartApOnly ==
    /\ pc = "startAp" /\ pc' = "idle"
    /\ ap' = setupKey /\ told' = setupKey
    /\ UNCHANGED <<nvs, form, savedSsid, setupKey, target, station, ota, inRange,
                   entered, torn, faults>>

StartAp ==
    /\ pc = "startAp" /\ pc' = "idle"
    /\ ap' = setupKey /\ told' = setupKey
    /\ UNCHANGED nvs /\ ConnectSavedNetwork(savedSsid)
    /\ UNCHANGED <<form, savedSsid, setupKey, ota, inRange, entered, torn, faults>>

(* begin() returns; setup() goes on. *)
StartApFails ==
    /\ pc = "startAp" /\ pc' = "idle" /\ Fault
    /\ UNCHANGED <<nvs, ramVars, inRange, noteVars>>

-----------------------------------------------------------------------------
(* The setup page: /api/wifi/configure and /api/wifi/forget.               *)

Reachable == ap # 0 \/ station # None

(* saveWiFi up to the first write. *)
SaveSsid(s, p) ==
    /\ pc = "idle" /\ Reachable /\ s # None
    /\ pc' = "savePassword" /\ form' = Pair(s, p)
    /\ nvs' = [nvs EXCEPT !.ssid = s]
    /\ entered' = entered \cup {form'}
    /\ UNCHANGED <<savedSsid, setupKey, ap, target, station, ota, inRange, torn, told, faults>>

(* Variant: connectSavedNetwork is called before savedSsid is assigned. *)
SavePasswordStale ==
    /\ pc = "savePassword" /\ pc' = "idle"
    /\ nvs' = [nvs EXCEPT !.pass = form.pass]
    /\ savedSsid' = form.ssid /\ form' = NoPair
    /\ ConnectSavedNetwork(savedSsid)
    /\ torn' = FALSE
    /\ UNCHANGED <<setupKey, ap, ota, inRange, entered, told, faults>>

SavePassword ==
    /\ pc = "savePassword" /\ pc' = "idle"
    /\ nvs' = [nvs EXCEPT !.pass = form.pass]
    /\ savedSsid' = form.ssid /\ form' = NoPair
    /\ ConnectSavedNetwork(savedSsid')
    /\ torn' = FALSE
    /\ UNCHANGED <<setupKey, ap, ota, inRange, entered, told, faults>>

(* Variant: the SSID stays, and only the password is removed. *)
ForgetPasswordOnly ==
    /\ pc = "idle" /\ Reachable
    /\ pc' = "forgetPassword"
    /\ nvs' = [nvs EXCEPT !.pass = None]
    /\ UNCHANGED <<ramVars, inRange, noteVars, faults>>

ForgetSsid ==
    /\ pc = "idle" /\ Reachable
    /\ pc' = "forgetPassword"
    /\ nvs' = [nvs EXCEPT !.ssid = None]
    /\ UNCHANGED <<ramVars, inRange, noteVars, faults>>

ForgetPassword ==
    /\ pc = "forgetPassword" /\ pc' = "idle"
    /\ nvs' = [nvs EXCEPT !.pass = None]
    /\ savedSsid' = None /\ target' = NoPair /\ station' = None
    /\ UNCHANGED <<form, setupKey, ap, ota, inRange, noteVars, faults>>

-----------------------------------------------------------------------------
(* The Wi-Fi stack, the networks, OTA, a reset.                            *)

StackJoins ==
    /\ station = None /\ target.ssid \in inRange /\ target.pass = target.ssid
    /\ station' = target.ssid
    /\ UNCHANGED <<nvs, pc, form, savedSsid, setupKey, ap, target, ota, inRange, noteVars, faults>>

Outage(n) ==
    /\ n \in inRange /\ inRange' = inRange \ {n} /\ Fault
    /\ station' = IF station = n THEN None ELSE station
    /\ UNCHANGED <<nvs, pc, form, savedSsid, setupKey, ap, target, ota, noteVars>>

NetworkReturns(n) ==
    /\ n \in Network \ inRange /\ inRange' = inRange \cup {n}
    /\ UNCHANGED <<nvs, pc, ramVars, noteVars, faults>>

(* OtaService::loop begins ArduinoOTA on the first connection. *)
OtaBegins ==
    /\ pc = "idle" /\ station # None /\ ~ota /\ ota' = TRUE
    /\ UNCHANGED <<nvs, pc, form, savedSsid, setupKey, ap, target, station, inRange, noteVars, faults>>

Reset ==
    /\ Fault
    /\ pc' = "load" /\ form' = NoPair
    /\ savedSsid' = None /\ setupKey' = 0 /\ ap' = 0
    /\ target' = NoPair /\ station' = None /\ ota' = FALSE
    /\ torn' = (torn \/ pc = "savePassword")
    /\ UNCHANGED <<nvs, inRange, entered, told>>

Begin == Load \/ StoreKey \/ StartAp

Form == \/ \E s \in Network, p \in NetworkOrNone : SaveSsid(s, p)
        \/ SavePassword \/ ForgetSsid \/ ForgetPassword

World == StackJoins \/ (\E n \in Network : Outage(n) \/ NetworkReturns(n)) \/ OtaBegins \/ Reset

Next == Begin \/ StartApFails \/ Form \/ World

Spec == Init /\ [][Next]_vars

(* The loop task runs on, and the stack keeps trying to join. *)
FairSpec == /\ Spec
            /\ WF_vars(Begin) /\ WF_vars(SavePassword) /\ WF_vars(ForgetPassword)
            /\ WF_vars(StackJoins)

-----------------------------------------------------------------------------
Pairs == [ssid : NetworkOrNone, pass : NetworkOrNone]

(* The variables stay in their types; the access point never runs with a   *)
(* key that is not stored.                                                 *)
TypeOK ==
    /\ nvs \in [ssid : NetworkOrNone, pass : NetworkOrNone, key : 0 .. MaxFaults + 1]
    /\ pc \in WifiPc
    /\ form \in Pairs /\ target \in Pairs /\ entered \subseteq Pairs
    /\ savedSsid \in NetworkOrNone /\ station \in NetworkOrNone
    /\ setupKey \in 0 .. MaxFaults + 1
    /\ ap \in {0, nvs.key} /\ told \in {0, nvs.key}
    /\ inRange \subseteq Network
    /\ {ota, torn} \subseteq BOOLEAN
    /\ faults \in 0 .. MaxFaults

(* A stored network has the password that was entered for it, unless a     *)
(* reset cut a saveWiFi in two; the next save makes it whole again.        *)
StoredAsEntered ==
    nvs.ssid # None => Stored \in entered \/ pc = "savePassword" \/ torn

(* The station is on the network the page shows and a reset would join:    *)
(* never on one that was forgotten or replaced.                            *)
JoinedIsSaved ==
    pc = "idle" /\ station # None => station = savedSsid /\ station = nvs.ssid

(* The setup key the user was once told stays good, whatever resets        *)
(* interrupt its creation.                                                 *)
KeyStable == [][told # 0 => told' = told]_vars

(* The gateway is on its saved network again after every outage, reset and *)
(* change of network, if that is in range, the password is right and the   *)
(* access point has started.                                               *)
RejoinsSaved ==
    \A n \in Network :
        <>[](Stored = Pair(n, n) /\ n \in inRange /\ ap # 0) => []<>(station = n)
=============================================================================
