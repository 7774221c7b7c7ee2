--------------------------- MODULE MCRemoteAccess ---------------------------
(* RemoteAccess for TLC. *)
EXTENDS RemoteAccess
=============================================================================
