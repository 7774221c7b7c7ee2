-------------------------- MODULE MCStorageManager --------------------------
(* StorageManager for TLC. *)
EXTENDS StorageManager

(* A block of eight units, and lines of five, which divide neither a block *)
(* nor a cap, so that files overshoot their caps and end inside a block as *)
(* the real ones do. A history file of three lines, a queue of four, an   *)
(* event file of one.                                                      *)
SmallLine == [k \in Log |-> 5]
SmallCap  == [telemetry |-> 12, remote |-> 16, events |-> 4]

(* The caps of StorageManager.cpp, and lines of the usual length in bytes. *)
RealLine == [telemetry |-> 47, remote |-> 160, events |-> 77]
RealCap  == [telemetry |-> 12288, remote |-> 4096, events |-> 2048]
=============================================================================
