---------------------------- MODULE DeliveryQueue ----------------------------
(***************************************************************************)
(* What the README promises of the remote queue, without files: "a valid   *)
(* remote batch is removed only after a 2xx response", and the queue is    *)
(* bounded. Records enter at the tail; the server takes prefixes; a prefix *)
(* leaves only when the server has it; an overflow discards the queue.     *)
(***************************************************************************)
EXTENDS Naturals, Sequences, SequencesExt

CONSTANTS
    Record,       \* the telemetry records
    Capacity      \* the bound of the queue

VARIABLES
    offered,      \* the records sampled so far
    queue,        \* the records waiting for the server
    got           \* the records the server has accepted

dqVars == <<offered, queue, got>>

DQInit == offered = {} /\ queue = <<>> /\ got = {}

(* A new sample is queued, or cannot be stored. *)
Offer(r) ==
    /\ r \notin offered
    /\ offered' = offered \cup {r}
    /\ \/ Len(queue) < Capacity /\ queue' = Append(queue, r)
       \/ UNCHANGED queue
    /\ UNCHANGED got

Overflow == Len(queue) >= Capacity /\ queue' = <<>> /\ UNCHANGED <<offered, got>>

(* The server accepts the first n records. *)
Accept(n) ==
    /\ got' = got \cup Range(SubSeq(queue, 1, n))
    /\ UNCHANGED <<offered, queue>>

(* The first n records leave, all of them accepted. *)
Release(n) ==
    /\ Range(SubSeq(queue, 1, n)) \subseteq got
    /\ queue' = SubSeq(queue, n + 1, Len(queue))
    /\ UNCHANGED <<offered, got>>

DQNext == \/ \E r \in Record : Offer(r)
          \/ Overflow
          \/ \E n \in 1 .. Len(queue) : Accept(n) \/ Release(n)

DQSpec == DQInit /\ [][DQNext]_dqVars
=============================================================================
