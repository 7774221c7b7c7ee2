----------------------------- MODULE MCDashboard -----------------------------
(* Dashboard for TLC. Four faults, five sockets: room for a socket whose    *)
(* close event arrives two connections later.                              *)
EXTENDS Dashboard
=============================================================================
