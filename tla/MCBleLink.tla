------------------------------ MODULE MCBleLink ------------------------------
(* BleLink for TLC: two packs, so that the client of one can be closed and *)
(* deleted while the other is being connected.                             *)
EXTENDS BleLink
=============================================================================
