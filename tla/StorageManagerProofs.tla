------------------------- MODULE StorageManagerProofs -------------------------
(***************************************************************************)
(* Proofs about StorageManager, for every flash size, cap, line length,    *)
(* batch limit and number of samples, events and faults:                   *)
(*   TypeCorrectness   the files hold sampled records, within their caps;  *)
(*   HistorySafety     rotation never loses the newest samples;            *)
(*   LossSafety        the queue on the flash implements DeliveryQueue but *)
(*                     for a reset in the rewrite and a copy without room; *)
(*   OrderSafety       the server first learns of records in their order.  *)
(* The first three hold on any flash and wherever the chip is reset; that  *)
(* the two losses do happen is what storage_lost_on_reset and              *)
(* storage_lost_on_full_flash show. The last one says which flash or which *)
(* resets it needs.                                                        *)
(*                                                                         *)
(* FileInv is inductive by itself and says which file is where; the other  *)
(* parts are each inductive on top of it.                                  *)
(***************************************************************************)
EXTENDS StorageManager, SequenceTheorems, TLAPS

(* Where the loop task has lines to append. *)
Appends == {"rotate", "rename", "append"}

(* A rotation begins with a full file, and ends with room for the line; a  *)
(* batch is a prefix of the queue.                                         *)
PlaceInv ==
    /\ todo # <<>> <=> pc \in Appends
    /\ pc = "rename" => /\ Len(current[Head(todo)]) >= FullLines(Head(todo))
                        /\ previous[Head(todo)] = <<>>
    /\ pc = "append" => Len(current[Head(todo)]) < FullLines(Head(todo))
    /\ pc \in {"post", "accepted", "remove"} => itemCount \in 1 .. Len(current["remote"])

(* The sample whose lines are still to be appended is counted already. *)
CountInv ==
    /\ "remote" \in Range(todo) => sampled > 0
    /\ "telemetry" \in Range(todo) => stored < sampled

(* The queue and its copy hold records only; a copy is a batch shorter. *)
QueueInv ==
    /\ current["remote"] \in Seq(1 .. sampled)
    /\ tmp \in Seq(1 .. sampled)
    /\ Len(tmp) < FullLines("remote")

(* The records of a file are in the order of their samples. *)
Rising(f) == \A i, j \in 1 .. Len(f) : i < j => f[i] < f[j]

(* They are all older than sample n. *)
Below(f, n) == \A i \in 1 .. Len(f) : f[i] < n

(* The queue is in the order of the samples, and a sample that is still to *)
(* be appended to it is newer than all of it and than all that was posted. *)
RisingInv ==
    /\ Rising(current["remote"]) /\ Rising(tmp)
    /\ "remote" \in Range(todo) => Below(current["remote"], sampled)
                                  /\ \A q \in got : q < sampled

(* What holds of the files on any flash, whatever appends fail. *)
FileInv == TypeOK /\ PlaceInv /\ CountInv /\ QueueInv

(* A flash of this size has room for every file at its longest, rotated    *)
(* copies included, beside a copy of the queue that a reset left over and  *)
(* what is being written: a new copy, or one block more.                   *)
FullBlocks(k) == BlocksOf(FullLines(k) * Line[k])

CopyBlocks == BlocksOf((FullLines("remote") - 1) * Line["remote"])

Roomy ==
    Fixed + 2 * FullBlocks("telemetry") + 2 * FullBlocks("remote") + 2 * FullBlocks("events")
          + CopyBlocks + (IF CopyBlocks > 0 THEN CopyBlocks ELSE 1) <= Blocks

(* How many samples a file of history holds. *)
Count(f) == IF f # <<>> /\ f[1] = NoSample THEN Len(f) - 1 ELSE Len(f)

(* The rotated history ends before the current one begins, and the two     *)
(* hold enough of what was stored.                                         *)
HistoryInv ==
    /\ Rising(previous["telemetry"]) /\ Rising(current["telemetry"])
    /\ \A i \in 1 .. Len(previous["telemetry"]), j \in 1 .. Len(current["telemetry"]) :
          \/ current["telemetry"][j] = NoSample
          \/ previous["telemetry"][i] < current["telemetry"][j]
    /\ "telemetry" \in Range(todo) => /\ Below(previous["telemetry"], sampled)
                                      /\ Below(current["telemetry"], sampled)
    /\ Count(previous["telemetry"]) + Count(current["telemetry"])
          >= Lesser(stored, FullLines("telemetry") - 1)

(* A record of a file is either with the server or newer than all that is. *)
Fresh(f) == \A i \in 1 .. Len(f) : f[i] \in got \/ \A q \in got : q < f[i]

(* No reset leaves a copy behind. *)
NoStaleCopy == ResetPoints \cap {"remove", "replace"} = {}

(* The batch is with the server before the file is rewritten, and the copy *)
(* is what the batch leaves, or the flash has no room for it.              *)
CopyInv ==
    /\ pc \in {"accepted", "remove"} => Batch \subseteq got
    /\ pc = "remove" => tmp = Unposted \/ ~HasFree(BlocksOf(Bytes("remote", Unposted)))
    /\ NoStaleCopy /\ pc \notin {"remove", "replace"} => tmp = <<>>

(* What is in the queue, or is about to be, has not been passed over. *)
FreshInv ==
    Roomy \/ NoStaleCopy => /\ Fresh(current["remote"])
                            /\ pc \in {"remove", "replace"} => Fresh(tmp)

-----------------------------------------------------------------------------
(* Arithmetic, and the operators on files.                                 *)

(* What \div yields. *)
LEMMA DivBounds ==
    ASSUME NEW a \in Nat, NEW b \in Nat \ {0}
    PROVE  /\ a \div b \in Nat
           /\ (a \div b) * b <= a
           /\ a < (a \div b) * b + b
  OBVIOUS

(* Multiplication is monotonic. *)
LEMMA ProductMonotonic ==
    ASSUME NEW m \in Nat, NEW n \in Nat, NEW c \in Nat, m <= n
    PROVE  m * c <= n * c
  OBVIOUS

(* One line more. *)
LEMMA ProductSuccessor ==
    ASSUME NEW n \in Nat, NEW c \in Nat
    PROVE  n * c \in Nat /\ (n + 1) * c = n * c + c
  OBVIOUS

(* So is division. *)
LEMMA DivMonotonic ==
    ASSUME NEW a \in Nat, NEW c \in Nat, NEW b \in Nat \ {0}, a <= c
    PROVE  a \div b <= c \div b
  OBVIOUS

(* A file is below its cap just when it has fewer than FullLines lines.    *)
LEMMA FullLinesFact ==
    ASSUME NEW k \in Log
    PROVE  /\ FullLines(k) \in Nat \ {0}
           /\ \A n \in Nat : n * Line[k] < Cap[k] <=> n < FullLines(k)
<1> DEFINE N == FullLines(k)
           L == Line[k]
           C == Cap[k]
<1>1. L \in Nat \ {0} /\ C \in Nat \ {0}
  BY FlashAssumption
<1>2. C + L - 1 \in Nat
  BY <1>1
<1>3. N \in Nat /\ N * L <= C + L - 1 /\ C + L - 1 < N * L + L
  BY <1>1, <1>2, DivBounds DEF FullLines
<1> HIDE DEF N, L, C
<1>4. N # 0
  BY <1>1, <1>3
<1>5. ASSUME NEW n \in Nat, n < N PROVE n * L < C
  <2>1. (n + 1) * L <= N * L
    BY <1>1, <1>3, <1>5, ProductMonotonic
  <2>2. n * L \in Nat /\ N * L \in Nat /\ (n + 1) * L = n * L + L
    BY <1>1, <1>3
  <2> QED
    BY <1>1, <1>3, <2>1, <2>2
<1>6. ASSUME NEW n \in Nat, N <= n PROVE ~(n * L < C)
  <2>1. N * L <= n * L
    BY <1>1, <1>3, <1>6, ProductMonotonic
  <2>2. n * L \in Nat /\ N * L \in Nat
    BY <1>1, <1>3
  <2> QED
    BY <1>1, <1>3, <2>1, <2>2
<1> QED
  BY <1>3, <1>4, <1>5, <1>6 DEF N, L, C

(* The same, for the file that holds those lines. *)
LEMMA BelowCap ==
    ASSUME NEW k \in Log, NEW S, NEW f \in Seq(S)
    PROVE  Bytes(k, f) < Cap[k] <=> Len(f) < FullLines(k)
  BY FullLinesFact, LenProperties DEF Bytes

(* The four values of todo. *)
LEMMA TodoFacts ==
    ASSUME NEW t \in {<<>>, <<"telemetry", "remote">>, <<"remote">>, <<"events">>}
    PROVE  /\ t = <<>> => Range(t) = {}
           /\ t # <<>> => /\ Head(t) \in Log
                          /\ Range(t) = IF Head(t) = "telemetry" THEN {"telemetry", "remote"}
                                        ELSE {Head(t)}
                          /\ Tail(t) = IF Head(t) = "telemetry" THEN <<"remote">> ELSE <<>>
                          /\ Range(Tail(t)) = Range(t) \ {Head(t)}
<1>1. CASE t = <<>>
  BY <1>1 DEF Range
<1>2. CASE t = <<"telemetry", "remote">>
  <2>1. Range(t) = {t[1], t[2]}
    BY <1>2 DEF Range
  <2>2. Head(t) = "telemetry" /\ Tail(t) = <<"remote">>
    BY <1>2
  <2>3. Range(<<"remote">>) = {"remote"}
    BY DEF Range
  <2> QED
    BY <1>2, <2>1, <2>2, <2>3 DEF Log
<1>3. ASSUME NEW k \in {"remote", "events"}, t = <<k>>
      PROVE  Range(t) = {k} /\ Head(t) = k /\ Tail(t) = <<>> /\ Range(Tail(t)) = {}
  <2>1. Range(t) = {k} /\ Head(t) = k
    BY <1>3 DEF Range
  <2>2. Tail(t) = <<>>
    BY <1>3
  <2>3. Range(<<>>) = {}
    BY DEF Range
  <2> QED
    BY <2>1, <2>2, <2>3
<1> QED
  BY <1>1, <1>2, <1>3 DEF Log

(* The lines that a batch leaves in the queue. *)
LEMMA UnpostedFact ==
    ASSUME NEW S, current["remote"] \in Seq(S), itemCount \in 1 .. Len(current["remote"])
    PROVE  /\ Unposted \in Seq(S)
           /\ Len(Unposted) = Len(current["remote"]) - itemCount
           /\ \A i \in 1 .. Len(Unposted) : Unposted[i] = current["remote"][itemCount + i]
<1> DEFINE f == current["remote"]
<1>1. Len(f) \in Nat /\ \A i \in 1 .. Len(f) : f[i] \in S
  BY LenProperties, ElementOfSeq
<1>2. \A i \in itemCount + 1 .. Len(f) : f[i] \in S
  BY <1>1
<1> QED
  BY <1>1, <1>2, SubSeqProperties DEF Unposted

(* The batch itself. *)
LEMMA BatchFact ==
    ASSUME NEW S, current["remote"] \in Seq(S), itemCount \in 1 .. Len(current["remote"])
    PROVE  /\ Batch = {current["remote"][i] : i \in 1 .. itemCount}
           /\ Batch \subseteq S
<1> DEFINE f == current["remote"]
           b == SubSeq(f, 1, itemCount)
<1>1. Len(f) \in Nat /\ \A i \in 1 .. Len(f) : f[i] \in S
  BY LenProperties, ElementOfSeq
<1>2. b \in Seq(S) /\ Len(b) = itemCount /\ \A i \in 1 .. itemCount : b[i] = f[i]
  BY <1>1, SubSeqProperties
<1>3. Range(b) = {b[i] : i \in 1 .. itemCount}
  BY <1>2, RangeEquality
<1> QED
  BY <1>1, <1>2, <1>3 DEF Batch

(* An empty file, or a header, is below every cap. *)
LEMMA SmallFiles ==
    ASSUME NEW k \in Log, NEW s \in Nat
    PROVE  /\ <<>> \in Seq(0 .. s) /\ Len(<<>>) <= FullLines(k)
           /\ <<NoSample>> \in Seq(0 .. s) /\ Len(<<NoSample>>) <= FullLines(k)
<1>1. FullLines(k) \in Nat \ {0}
  BY FullLinesFact
<1>2. <<>> \in Seq(0 .. s) /\ Len(<<>>) = 0
  BY EmptySeq
<1>3. <<NoSample>> \in Seq(0 .. s) /\ Len(<<NoSample>>) = 1
  BY DEF NoSample
<1> QED
  BY <1>1, <1>2, <1>3

(* One more line fits a file that is not full.                             *)
LEMMA AppendFile ==
    ASSUME NEW k \in Log, NEW S, NEW f \in Seq(S), NEW line \in S, Len(f) < FullLines(k)
    PROVE  Append(f, line) \in Seq(S) /\ Len(Append(f, line)) <= FullLines(k)
  BY AppendProperties, LenProperties, FullLinesFact

-----------------------------------------------------------------------------
(* The files: types, places and counts.                                    *)

(* begin() leaves a header in the history and nothing else. *)
LEMMA FileInit == Init => FileInv
<1> SUFFICES ASSUME Init PROVE FileInv
  OBVIOUS
<1>1. \A S : <<>> \in Seq(S) /\ Len(<<>>) = 0
  BY EmptySeq
<1>3. sampled = 0 /\ tmp = <<>> /\ DOMAIN current = Log /\ DOMAIN previous = Log
  BY DEF Init
<1>4. \A k \in Log : FileType(current[k], k) /\ FileType(previous[k], k)
  <2>1. \A k \in Log : current[k] \in {<<>>, <<NoSample>>} /\ previous[k] = <<>>
    BY DEF Init
  <2> QED
    BY <1>3, <2>1, SmallFiles DEF FileType
<1>5. "remote" \in Log
  BY DEF Log
<1>6. TypeOK
  BY <1>1, <1>3, <1>4, <1>5, FullLinesFact, UseAssumption DEF Init, TypeOK, FileType, StorePc
<1>7. Range(todo) = {} /\ todo = <<>>
  BY TodoFacts DEF Init
<1>8. QueueInv
  BY <1>1, <1>3, <1>5, FullLinesFact DEF Init, QueueInv, Log
<1> QED
  BY <1>6, <1>7, <1>8 DEF Init, FileInv, PlaceInv, CountInv, Appends

(* A line is appended only where a rotation has made room for it, a batch  *)
(* is cut only from a queue that has it, and a reset interrupts both.      *)
LEMMA FileStep == FileInv /\ [Next]_vars => FileInv'
<1> SUFFICES ASSUME FileInv, [Next]_vars PROVE FileInv'
  OBVIOUS
<1> USE UseAssumption DEF FileInv, Fault, files
<1>a. "telemetry" \in Log /\ "remote" \in Log /\ "events" \in Log
  BY DEF Log
<1>b. \A S : <<>> \in Seq(S) /\ Len(<<>>) = 0
  BY EmptySeq
<1>c. sampled \in Nat /\ MaxSamples \in Nat
  BY DEF TypeOK
<1>d. \A k \in Log : FullLines(k) \in Nat \ {0}
  BY FullLinesFact
<1>e. todo \in {<<>>, <<"telemetry", "remote">>, <<"remote">>, <<"events">>}
  BY DEF TypeOK
<1>f. todo # <<>> =>
        /\ Head(todo) \in Log
        /\ Range(todo) = IF Head(todo) = "telemetry" THEN {"telemetry", "remote"} ELSE {Head(todo)}
        /\ Tail(todo) = IF Head(todo) = "telemetry" THEN <<"remote">> ELSE <<>>
        /\ Range(Tail(todo)) = Range(todo) \ {Head(todo)}
  BY <1>e, TodoFacts
<1>1. CASE RecordTelemetry
  <2>1. /\ sampled' = sampled + 1 /\ sampled' \in 0 .. MaxSamples
        /\ todo' = <<"telemetry", "remote">> /\ Range(todo') = {"telemetry", "remote"}
        /\ pc' = "rotate"
        /\ UNCHANGED <<current, previous, tmp, itemCount, got, stored, faults>>
    BY <1>1, TodoFacts DEF RecordTelemetry, TypeOK
  <2>2. \A f \in Seq(0 .. sampled) : f \in Seq(0 .. sampled')
    BY <1>c, <2>1, SeqMonotonic
  <2>3. \A f \in Seq(1 .. sampled) : f \in Seq(1 .. sampled')
    BY <1>c, <2>1, SeqMonotonic
  <2>4. \A k \in Log : FileType(current[k], k)' /\ FileType(previous[k], k)'
    BY <2>1, <2>2 DEF TypeOK, FileType
  <2>5. FileType(tmp, "remote")'
    BY <2>1, <2>2 DEF TypeOK, FileType
  <2>6. got' \subseteq 1 .. sampled' /\ stored' \in 0 .. sampled' /\ stored' < sampled'
    BY <2>1, <1>c DEF TypeOK
  <2>7. TypeOK'
    BY <2>1, <2>4, <2>5, <2>6 DEF TypeOK, StorePc
  <2>8. QueueInv'
    BY <2>1, <2>3 DEF QueueInv
  <2>9. PlaceInv' /\ CountInv'
    BY <1>c, <2>1, <2>6 DEF PlaceInv, CountInv, Appends
  <2> QED
    BY <2>7, <2>8, <2>9
<1>2. CASE RecordEvent
  <2>1. TypeOK' /\ QueueInv'
    BY <1>2 DEF RecordEvent, TypeOK, FileType, StorePc, QueueInv
  <2>2. Range(todo') = {"events"}
    BY <1>2, TodoFacts DEF RecordEvent
  <2> QED
    BY <1>2, <2>1, <2>2 DEF RecordEvent, PlaceInv, CountInv, Appends
<1>3. CASE Rotate
  <2> DEFINE k == Head(todo)
  <2>1. k \in Log /\ todo # <<>>
    BY <1>3, <1>f DEF Rotate, PlaceInv, Appends
  <2>2. Bytes(k, current[k]) < Cap[k] <=> Len(current[k]) < FullLines(k)
    BY <2>1, BelowCap DEF TypeOK, FileType
  <2>3. Len(current[k]) \in Nat
    BY <2>1, LenProperties DEF TypeOK, FileType
  <2>4. UNCHANGED <<current, tmp, todo, itemCount, got, sampled, stored, faults>>
    BY <1>3 DEF Rotate
  <2>5. \/ pc' = "append" /\ UNCHANGED previous /\ Len(current[k]) < FullLines(k)
        \/ /\ pc' = "rename" /\ previous' = [previous EXCEPT ![k] = <<>>]
           /\ Len(current[k]) >= FullLines(k)
    BY <1>3, <1>d, <2>1, <2>2, <2>3 DEF Rotate
  <2>6. \A j \in Log : previous'[j] \in {previous[j], <<>>}
    BY <2>5 DEF TypeOK
  <2>7. DOMAIN previous' = Log /\ (pc' = "rename" => previous'[k] = <<>>)
    BY <2>1, <2>5 DEF TypeOK
  <2>8. \A j \in Log : FileType(previous[j], j)'
    BY <1>c, <2>4, <2>6, SmallFiles DEF TypeOK, FileType
  <2>9. TypeOK'
    BY <2>4, <2>5, <2>7, <2>8 DEF TypeOK, FileType, StorePc
  <2>10. PlaceInv'
    BY <2>1, <2>4, <2>5, <2>7 DEF PlaceInv, Appends
  <2> QED
    BY <2>4, <2>9, <2>10 DEF CountInv, QueueInv
<1>4. CASE RotateRename
  <2> DEFINE k == Head(todo)
  <2>1. k \in Log /\ todo # <<>>
    BY <1>4, <1>f DEF RotateRename, PlaceInv, Appends
  <2>2. /\ pc' = "append"
        /\ previous' = [previous EXCEPT ![k] = current[k]]
        /\ current' = [current EXCEPT ![k] = <<>>]
        /\ UNCHANGED <<tmp, todo, itemCount, got, sampled, stored, faults>>
    BY <1>4 DEF RotateRename
  <2>3. \A j \in Log : previous'[j] \in {previous[j], current[j]}
                      /\ current'[j] \in {current[j], <<>>}
    BY <2>2 DEF TypeOK
  <2>4. DOMAIN current' = Log /\ DOMAIN previous' = Log /\ current'[k] = <<>>
    BY <2>1, <2>2 DEF TypeOK
  <2>5. \A j \in Log : FileType(previous[j], j)' /\ FileType(current[j], j)'
    BY <1>c, <2>2, <2>3, SmallFiles DEF TypeOK, FileType
  <2>6. TypeOK'
    BY <2>2, <2>4, <2>5 DEF TypeOK, FileType, StorePc
  <2>7. PlaceInv'
    BY <1>b, <1>d, <2>1, <2>2, <2>4 DEF PlaceInv, Appends
  <2>8. QueueInv'
    BY <1>a, <1>b, <2>2, <2>3 DEF QueueInv
  <2> QED
    BY <2>2, <2>6, <2>7, <2>8 DEF CountInv
<1>5. CASE AppendLine
  <2> DEFINE k == Head(todo)
             line == IF k = "events" THEN NoSample ELSE sampled
  <2>1. k \in Log /\ todo # <<>>
    BY <1>5, <1>f DEF AppendLine, PlaceInv, Appends
  <2>2. line \in 0 .. sampled /\ (k = "remote" => line \in 1 .. sampled)
    BY <1>c, <1>f, <2>1 DEF NoSample, CountInv
  <2>3. Len(current[k]) < FullLines(k)
    BY <1>5 DEF AppendLine, PlaceInv
  <2>4. /\ todo' = Tail(todo) /\ pc' = IF todo' = <<>> THEN "idle" ELSE "rotate"
        /\ UNCHANGED <<previous, tmp, itemCount, got, sampled, faults>>
    BY <1>5 DEF AppendLine
  <2>5. todo' = (IF k = "telemetry" THEN <<"remote">> ELSE <<>>)
        /\ Range(todo') = (IF k = "telemetry" THEN {"remote"} ELSE {})
    BY <1>f, <2>1, <2>4
  <2>6. PICK f : /\ f = Append(current[k], line)
                 /\ \/ /\ current' = [current EXCEPT ![k] = f]
                       /\ stored' = IF k = "telemetry" THEN stored + 1 ELSE stored
                    \/ UNCHANGED <<current, stored>>
    BY <1>5 DEF AppendLine
  <2>7. f \in Seq(0 .. sampled) /\ Len(f) <= FullLines(k)
    BY <2>1, <2>2, <2>3, <2>6, AppendFile DEF TypeOK, FileType
  <2>8. k = "remote" => f \in Seq(1 .. sampled)
    BY <1>a, <2>2, <2>3, <2>6, AppendFile DEF QueueInv
  <2>9. \A j \in Log : current'[j] \in {current[j], f} /\ (j # k => current'[j] = current[j])
    BY <2>1, <2>6 DEF TypeOK
  <2>10. DOMAIN current' = Log
         /\ \A j \in Log : FileType(current[j], j)' /\ FileType(previous[j], j)'
    BY <2>4, <2>6, <2>7, <2>9 DEF TypeOK, FileType
  <2>11. stored' \in 0 .. sampled'
    <3>1. k = "telemetry" => stored < sampled
      BY <1>f, <2>1 DEF CountInv
    <3> QED
      BY <1>c, <2>4, <2>6, <3>1 DEF TypeOK
  <2>12. TypeOK'
    BY <2>4, <2>5, <2>10, <2>11 DEF TypeOK, FileType, StorePc
  <2>13. QueueInv'
    BY <1>a, <2>4, <2>8, <2>9 DEF QueueInv
  <2>14. PlaceInv'
    BY <2>4, <2>5 DEF PlaceInv, Appends
  <2>15. CountInv'
    BY <1>f, <2>1, <2>4, <2>5 DEF CountInv
  <2> QED
    BY <2>12, <2>13, <2>14, <2>15
<1>6. CASE NextBatch
  <2>1. Len(current["remote"]) \in Nat \ {0}
    BY <1>6, EmptySeq DEF NextBatch, QueueInv
  <2>2. itemCount' \in 1 .. Len(current["remote"]) /\ itemCount' \in 0 .. MaxItems
    BY <1>6, <2>1 DEF NextBatch, Lesser
  <2>3. todo = <<>>
    BY <1>6 DEF NextBatch, PlaceInv, Appends
  <2>4. TypeOK' /\ QueueInv'
    BY <1>6, <2>2 DEF NextBatch, TypeOK, FileType, StorePc, QueueInv
  <2> QED
    BY <1>6, <2>2, <2>3, <2>4 DEF NextBatch, PlaceInv, CountInv, Appends
<1>7. CASE PostAccepted
  <2>1. Batch \subseteq 1 .. sampled
    BY <1>7, BatchFact DEF PostAccepted, PlaceInv, QueueInv
  <2>2. TypeOK' /\ QueueInv'
    BY <1>7, <2>1 DEF PostAccepted, TypeOK, FileType, StorePc, QueueInv
  <2> QED
    BY <1>7, <2>2 DEF PostAccepted, PlaceInv, CountInv, Appends
<1>8. CASE PostFailed
  <2>1. Batch \subseteq 1 .. sampled
    BY <1>8, BatchFact DEF PostFailed, PlaceInv, QueueInv
  <2>2. TypeOK' /\ QueueInv'
    BY <1>8, <2>1 DEF PostFailed, TypeOK, FileType, StorePc, QueueInv
  <2> QED
    BY <1>8, <2>2 DEF PostFailed, PlaceInv, CountInv, Appends
<1>9. CASE AckCopy
  <2>1. itemCount \in 1 .. Len(current["remote"]) /\ Len(current["remote"]) \in Nat
        /\ Len(current["remote"]) <= FullLines("remote")
    BY <1>9, <1>a, LenProperties DEF AckCopy, PlaceInv, TypeOK, FileType
  <2>2. Unposted \in Seq(0 .. sampled) /\ Unposted \in Seq(1 .. sampled)
        /\ Len(Unposted) < FullLines("remote")
    BY <1>a, <1>d, <2>1, UnpostedFact DEF TypeOK, FileType, QueueInv
  <2>3. tmp' \in {Unposted, tmp} /\ pc' = "remove"
        /\ UNCHANGED <<current, previous, todo, itemCount, got, sampled, stored, faults>>
    BY <1>9 DEF AckCopy
  <2>4. FileType(tmp, "remote")' /\ QueueInv'
    <3>1. Len(Unposted) \in Nat /\ Len(Unposted) <= FullLines("remote")
      BY <1>a, <1>d, <2>2, LenProperties
    <3> QED
      BY <2>2, <2>3, <3>1 DEF TypeOK, FileType, QueueInv
  <2>5. TypeOK'
    BY <2>3, <2>4 DEF TypeOK, FileType, StorePc
  <2> QED
    BY <1>9, <2>1, <2>3, <2>4, <2>5 DEF AckCopy, PlaceInv, CountInv, Appends
<1>10. CASE AckOpenFails
  <2>1. /\ pc' = "idle" /\ itemCount' = 0 /\ tmp' \in {tmp, <<>>}
        /\ faults' \in 0 .. MaxFaults
        /\ UNCHANGED <<current, previous, todo, got, sampled, stored>>
    BY <1>10, UseAssumption DEF AckOpenFails, Fault, TypeOK
  <2>2. FileType(tmp, "remote")' /\ QueueInv'
    <3>1. <<>> \in Seq(0 .. sampled) /\ <<>> \in Seq(1 .. sampled)
          /\ Len(<<>>) < FullLines("remote") /\ Len(<<>>) <= FullLines("remote")
      BY <1>a, <1>b, <1>d
    <3>2. CASE tmp' = <<>>
      BY <2>1, <3>1, <3>2 DEF TypeOK, FileType, QueueInv
    <3>3. CASE tmp' = tmp
      BY <2>1, <3>3 DEF TypeOK, FileType, QueueInv
    <3> QED
      BY <2>1, <3>2, <3>3
  <2>3. TypeOK'
    BY <2>1, <2>2, UseAssumption DEF TypeOK, FileType, StorePc
  <2> QED
    BY <1>10, <2>1, <2>2, <2>3 DEF AckOpenFails, PlaceInv, CountInv, Appends
<1>11. CASE AckRemove
  <2>1. /\ pc' = "replace" /\ current' = [current EXCEPT !["remote"] = <<>>]
        /\ UNCHANGED <<previous, tmp, todo, itemCount, got, sampled, stored, faults>>
    BY <1>11 DEF AckRemove
  <2>2. DOMAIN current' = Log /\ current'["remote"] = <<>>
        /\ \A j \in Log : current'[j] \in {current[j], <<>>}
    BY <1>a, <2>1 DEF TypeOK
  <2>3. \A j \in Log : FileType(current[j], j)' /\ FileType(previous[j], j)'
    BY <1>c, <2>1, <2>2, SmallFiles DEF TypeOK, FileType
  <2>4. TypeOK'
    BY <2>1, <2>2, <2>3 DEF TypeOK, FileType, StorePc
  <2>5. QueueInv'
    BY <1>b, <1>d, <2>1, <2>2 DEF QueueInv
  <2> QED
    BY <1>11, <2>1, <2>4, <2>5 DEF AckRemove, PlaceInv, CountInv, Appends
<1>12. CASE AckRename
  <2>1. /\ pc' = "idle" /\ current' = [current EXCEPT !["remote"] = tmp] /\ tmp' = <<>>
        /\ itemCount' = 0 /\ UNCHANGED <<previous, todo, got, sampled, stored, faults>>
    BY <1>12 DEF AckRename
  <2>2. DOMAIN current' = Log /\ current'["remote"] = tmp
        /\ \A j \in Log : j # "remote" => current'[j] = current[j]
    BY <1>a, <2>1 DEF TypeOK
  <2>3. \A j \in Log : FileType(current[j], j)' /\ FileType(previous[j], j)'
    BY <2>1, <2>2 DEF TypeOK, FileType
  <2>4. FileType(tmp, "remote")'
    BY <1>a, <1>c, <2>1, SmallFiles DEF FileType
  <2>5. TypeOK'
    BY <2>1, <2>2, <2>3, <2>4 DEF TypeOK, StorePc
  <2>6. QueueInv'
    BY <1>b, <1>a, <1>d, <2>1, <2>2 DEF QueueInv
  <2> QED
    BY <1>12, <2>1, <2>5, <2>6 DEF AckRename, PlaceInv, CountInv, Appends
<1>13. CASE Reset
  <2>1. /\ pc' = "idle" /\ todo' = <<>> /\ itemCount' = 0
        /\ got' \in (IF pc = "post" THEN {got, got \cup Batch} ELSE {got})
        /\ UNCHANGED <<previous, tmp, sampled, stored>> /\ faults' \in 0 .. MaxFaults
    BY <1>13 DEF Reset, TypeOK
  <2>2. got' \subseteq 1 .. sampled
    <3>1. pc = "post" => Batch \subseteq 1 .. sampled
      BY BatchFact DEF PlaceInv, QueueInv
    <3> QED
      BY <2>1, <3>1 DEF TypeOK
  <2>3. \/ UNCHANGED current
        \/ current' = [current EXCEPT !["telemetry"] = <<NoSample>>]
    BY <1>13 DEF Reset
  <2>4. DOMAIN current' = Log /\ current'["remote"] = current["remote"]
        /\ \A j \in Log : current'[j] \in {current[j], <<NoSample>>}
    BY <1>a, <2>3 DEF TypeOK
  <2>6. \A j \in Log : FileType(current[j], j)' /\ FileType(previous[j], j)'
    BY <1>c, <2>1, <2>4, SmallFiles DEF TypeOK, FileType
  <2>7. TypeOK'
    BY <2>1, <2>2, <2>4, <2>6 DEF TypeOK, FileType, StorePc
  <2>8. QueueInv'
    BY <2>1, <2>4 DEF QueueInv
  <2> QED
    BY <2>1, <2>7, <2>8, TodoFacts DEF PlaceInv, CountInv, Appends
<1>14. CASE UNCHANGED vars
  <2>1. TypeOK' /\ QueueInv'
    BY <1>14 DEF vars, TypeOK, FileType, QueueInv
  <2> QED
    BY <1>14, <2>1 DEF vars, PlaceInv, CountInv
<1> QED
  BY <1>1, <1>2, <1>3, <1>4, <1>5, <1>6, <1>7, <1>8, <1>9, <1>10, <1>11, <1>12, <1>13, <1>14
     DEF Next, Appending, Posting

(* The files hold sampled records, and none outgrows its cap by more than  *)
(* the line that reached it, whatever appends fail and wherever resets     *)
(* interrupt a rotation or a rewrite: for any flash, caps and lines.       *)
THEOREM TypeCorrectness == Spec => []TypeOK
<1>1. FileInv => TypeOK
  BY DEF FileInv
<1> QED
  BY <1>1, FileInit, FileStep, PTL DEF Spec

-----------------------------------------------------------------------------
(* The flash.                                                              *)

(* Longer files take more blocks; an append shares all blocks but one.     *)
LEMMA BlocksOfFact ==
    ASSUME NEW a \in Nat, NEW c \in Nat, a <= c
    PROVE  /\ BlocksOf(a) \in Nat /\ BlocksOf(a) <= BlocksOf(c)
           /\ a \div Block \in Nat /\ BlocksOf(a) <= a \div Block + 1
<1>1. Block \in Nat \ {0} /\ a + Block - 1 \in Nat /\ c + Block - 1 \in Nat
  BY FlashAssumption
<1>2. BlocksOf(a) \in Nat /\ BlocksOf(a) <= BlocksOf(c) /\ a \div Block \in Nat
  BY <1>1, DivBounds, DivMonotonic DEF BlocksOf
<1> DEFINE q == a \div Block
           p == BlocksOf(a)
<1>3. a < q * Block + Block /\ p * Block <= a + Block - 1
  BY <1>1, DivBounds DEF BlocksOf
<1>4. p \in Nat /\ q \in Nat
  BY <1>2
<1> HIDE DEF p, q
<1>5. ASSUME q + 2 <= p PROVE FALSE
  <2>1. (q + 2) * Block <= p * Block
    BY <1>1, <1>4, <1>5, ProductMonotonic
  <2>2. (q + 2) * Block = q * Block + Block + Block /\ q * Block \in Nat /\ p * Block \in Nat
    BY <1>1, <1>4
  <2> QED
    BY <1>1, <1>3, <2>1, <2>2
<1>6. p <= q + 1
  BY <1>4, <1>5
<1> QED
  BY <1>2, <1>6 DEF p, q

(* A file of so many lines and its blocks. *)
LEMMA FileBlocks ==
    ASSUME NEW k \in Log, NEW S, NEW f \in Seq(S), NEW n \in Nat, Len(f) <= n
    PROVE  /\ Bytes(k, f) \in Nat /\ n * Line[k] \in Nat /\ Bytes(k, f) <= n * Line[k]
           /\ BlocksOf(Bytes(k, f)) \in Nat
           /\ BlocksOf(Bytes(k, f)) <= BlocksOf(n * Line[k])
<1>1. Len(f) \in Nat /\ Line[k] \in Nat
  BY LenProperties, FlashAssumption
<1>2. Bytes(k, f) \in Nat /\ n * Line[k] \in Nat /\ Bytes(k, f) <= n * Line[k]
  BY <1>1, ProductMonotonic DEF Bytes
<1> QED
  BY <1>2, BlocksOfFact

(* What the files take. *)
LEMMA UsedFact ==
    ASSUME FileInv
    PROVE  /\ \A k \in Log : /\ FullBlocks(k) \in Nat
                            /\ BlocksOf(Bytes(k, current[k])) \in 0 .. FullBlocks(k)
                            /\ BlocksOf(Bytes(k, previous[k])) \in 0 .. FullBlocks(k)
           /\ CopyBlocks \in Nat
           /\ BlocksOf(Bytes("remote", tmp)) \in 0 .. CopyBlocks
<1>1. \A k \in Log : FullLines(k) \in Nat \ {0} /\ Line[k] \in Nat /\ FullLines(k) * Line[k] \in Nat
  BY FullLinesFact, FlashAssumption
<1>2. "remote" \in Log
  BY DEF Log
<1>3. ASSUME NEW k \in Log
      PROVE  /\ FullBlocks(k) \in Nat
             /\ BlocksOf(Bytes(k, current[k])) \in 0 .. FullBlocks(k)
             /\ BlocksOf(Bytes(k, previous[k])) \in 0 .. FullBlocks(k)
  <2>1. FullBlocks(k) \in Nat
    BY <1>1, BlocksOfFact DEF FullBlocks
  <2>2. /\ current[k] \in Seq(0 .. sampled) /\ Len(current[k]) <= FullLines(k)
        /\ previous[k] \in Seq(0 .. sampled) /\ Len(previous[k]) <= FullLines(k)
    BY DEF FileInv, TypeOK, FileType
  <2> QED
    BY <1>1, <2>1, <2>2, FileBlocks DEF FullBlocks
<1>4. FullLines("remote") - 1 \in Nat /\ Len(tmp) <= FullLines("remote") - 1
  BY <1>1, <1>2, LenProperties DEF FileInv, QueueInv
<1>5. BlocksOf(Bytes("remote", tmp)) \in Nat
      /\ BlocksOf(Bytes("remote", tmp)) <= CopyBlocks /\ CopyBlocks \in Nat
  <2>1. (FullLines("remote") - 1) * Line["remote"] \in Nat
    BY <1>1, <1>2, <1>4
  <2>2. CopyBlocks \in Nat
    BY <2>1, BlocksOfFact DEF CopyBlocks
  <2> QED
    BY <1>2, <1>4, <2>2, FileBlocks DEF FileInv, QueueInv, CopyBlocks
<1> QED
  BY <1>3, <1>5

(* With that room neither a line nor a copy is ever lost. *)
LEMMA RoomSuffices == Roomy /\ FileInv => NothingDropped
<1> SUFFICES ASSUME Roomy, FileInv PROVE NothingDropped
  OBVIOUS
<1>a. "telemetry" \in Log /\ "remote" \in Log /\ "events" \in Log
  BY DEF Log
<1>b. Fixed \in Nat /\ Blocks \in Nat
  BY FlashAssumption
<1> DEFINE cur(k) == BlocksOf(Bytes(k, current[k]))
           old(k) == BlocksOf(Bytes(k, previous[k]))
           copy == BlocksOf(Bytes("remote", tmp))
<1>c. /\ \A k \in Log : FullBlocks(k) \in Nat /\ cur(k) \in 0 .. FullBlocks(k)
                                           /\ old(k) \in 0 .. FullBlocks(k)
      /\ CopyBlocks \in Nat /\ copy \in 0 .. CopyBlocks
  BY UsedFact
<1>d. Used = Fixed + (cur("telemetry") + old("telemetry")) + (cur("remote") + old("remote"))
                   + (cur("events") + old("events")) + copy
  BY DEF Used, LogBlocks
<1>e. Fixed + 2 * FullBlocks("telemetry") + 2 * FullBlocks("remote") + 2 * FullBlocks("events")
            + CopyBlocks + (IF CopyBlocks > 0 THEN CopyBlocks ELSE 1) <= Blocks
  BY DEF Roomy
<1> HIDE DEF cur, old, copy
<1>1. ASSUME pc = "append" PROVE AppendFits(Head(todo))
  <2> DEFINE k == Head(todo)
             bytes == Bytes(k, current[k])
  <2>1. k \in Log /\ Len(current[k]) + 1 <= FullLines(k) /\ Len(current[k]) \in Nat
    <3>1. k \in Log
      BY <1>1, TodoFacts DEF FileInv, PlaceInv, Appends, TypeOK
    <3>2. Len(current[k]) \in Nat /\ FullLines(k) \in Nat
      BY <3>1, LenProperties, FullLinesFact DEF FileInv, TypeOK, FileType
    <3> QED
      BY <1>1, <3>1, <3>2 DEF FileInv, PlaceInv
  <2>2. bytes \in Nat /\ bytes + Line[k] \in Nat /\ bytes + Line[k] <= FullLines(k) * Line[k]
        /\ FullLines(k) * Line[k] \in Nat
    <3>1. Line[k] \in Nat /\ FullLines(k) \in Nat
      BY <2>1, FlashAssumption, FullLinesFact
    <3>2. (Len(current[k]) + 1) * Line[k] <= FullLines(k) * Line[k]
      BY <2>1, <3>1, ProductMonotonic
    <3>3. bytes \in Nat /\ (Len(current[k]) + 1) * Line[k] = bytes + Line[k]
          /\ FullLines(k) * Line[k] \in Nat
      BY <2>1, <3>1, ProductSuccessor DEF Bytes
    <3> QED
      BY <3>1, <3>2, <3>3
  <2>3. BlocksOf(bytes + Line[k]) \in Nat /\ BlocksOf(bytes + Line[k]) <= FullBlocks(k)
    BY <2>2, BlocksOfFact DEF FullBlocks
  <2>4. bytes \div Block \in Nat /\ cur(k) <= bytes \div Block + 1
    BY <2>2, BlocksOfFact DEF cur
  <2> DEFINE need == BlocksOf(bytes + Line[k])
             shared == bytes \div Block
  <2>5. AppendFits(k) <=> HasFree(need - shared)
    BY DEF AppendFits
  <2> HIDE DEF k, bytes, need, shared
  <2>6. k \in {"telemetry", "remote", "events"}
    BY <2>1 DEF Log
  <2>7. need \in Nat /\ need <= FullBlocks(k) /\ shared \in Nat /\ cur(k) <= shared + 1
    BY <2>3, <2>4 DEF need, shared
  <2>8. Used + (need - shared) <= Blocks
    BY <1>a, <1>b, <1>c, <1>d, <1>e, <2>6, <2>7
  <2> QED
    BY <2>5, <2>8 DEF HasFree, k
<1>2. ASSUME pc = "accepted" PROVE HasFree(BlocksOf(Bytes("remote", Unposted)))
  <2>1. /\ Unposted \in Seq(1 .. sampled)
        /\ Len(Unposted) = Len(current["remote"]) - itemCount
        /\ itemCount \in 1 .. Len(current["remote"])
    BY <1>2, UnpostedFact DEF FileInv, PlaceInv, QueueInv
  <2>2. /\ Len(current["remote"]) \in Nat /\ Len(current["remote"]) <= FullLines("remote")
        /\ FullLines("remote") \in Nat \ {0}
    BY <1>a, LenProperties, FullLinesFact DEF FileInv, TypeOK, FileType
  <2>3. Len(Unposted) <= FullLines("remote") - 1 /\ FullLines("remote") - 1 \in Nat
    BY <2>1, <2>2
  <2>4. BlocksOf(Bytes("remote", Unposted)) \in Nat
        /\ BlocksOf(Bytes("remote", Unposted)) <= CopyBlocks
    BY <1>a, <2>1, <2>3, FileBlocks DEF CopyBlocks
  <2>5. Used + BlocksOf(Bytes("remote", Unposted)) <= Blocks
    BY <1>a, <1>b, <1>c, <1>d, <1>e, <2>4
  <2> QED
    BY <2>5 DEF HasFree
<1> QED
  BY <1>1, <1>2 DEF NothingDropped

-----------------------------------------------------------------------------
(* The order of the queue.                                                 *)

(* A newer record at the end keeps a file in order. *)
LEMMA RisingAppend ==
    ASSUME NEW S \in SUBSET Nat, NEW f \in Seq(S), NEW x \in S, Rising(f), Below(f, x)
    PROVE  Rising(Append(f, x))
<1> DEFINE g == Append(f, x)
<1>1. Len(f) \in Nat /\ Len(g) = Len(f) + 1 /\ g[Len(f) + 1] = x
      /\ \A i \in 1 .. Len(f) : g[i] = f[i]
  BY AppendProperties, LenProperties
<1> HIDE DEF g
<1>2. ASSUME NEW i \in 1 .. Len(g), NEW j \in 1 .. Len(g), i < j PROVE g[i] < g[j]
  <2>1. i \in 1 .. Len(f)
    BY <1>1, <1>2
  <2>2. CASE j = Len(f) + 1
    BY <1>1, <2>1, <2>2 DEF Below
  <2>3. CASE j \in 1 .. Len(f)
    BY <1>1, <1>2, <2>1, <2>3 DEF Rising
  <2> QED
    BY <1>1, <2>2, <2>3
<1> QED
  BY <1>2 DEF Rising, g

(* Samples are numbered: a new one comes after all there are. *)
LEMMA BelowNext ==
    ASSUME NEW s \in Nat, NEW f \in Seq(0 .. s)
    PROVE  Below(f, s + 1)
  BY ElementOfSeq DEF Below

(* What a batch leaves of a queue in order is in order. *)
LEMMA UnpostedRising ==
    ASSUME NEW S, current["remote"] \in Seq(S), itemCount \in 1 .. Len(current["remote"]),
           Rising(current["remote"])
    PROVE  Rising(Unposted)
<1>1. /\ Len(Unposted) = Len(current["remote"]) - itemCount
      /\ \A i \in 1 .. Len(Unposted) : Unposted[i] = current["remote"][itemCount + i]
  BY UnpostedFact
<1>2. Len(current["remote"]) \in Nat
  BY LenProperties
<1> DEFINE u == Unposted
           f == current["remote"]
<1>3. Rising(f)
  OBVIOUS
<1> HIDE DEF u, f
<1>4. ASSUME NEW i \in 1 .. Len(u), NEW j \in 1 .. Len(u), i < j PROVE u[i] < u[j]
  <2>1. /\ itemCount + i \in 1 .. Len(f) /\ itemCount + j \in 1 .. Len(f)
        /\ itemCount + i < itemCount + j
    BY <1>1, <1>2, <1>4 DEF u, f
  <2>2. f[itemCount + i] < f[itemCount + j]
    BY <1>3, <2>1 DEF Rising
  <2> QED
    BY <1>1, <2>2 DEF u, f
<1> QED
  BY <1>4 DEF Rising, u

(* An empty file is in order. *)
LEMMA EmptyRising == Rising(<<>>) /\ \A n : Below(<<>>, n)
  BY EmptySeq DEF Rising, Below

(* The queue and the copy begin empty. *)
LEMMA RisingInit == Init => RisingInv
<1> SUFFICES ASSUME Init PROVE RisingInv
  OBVIOUS
<1>1. Range(todo) = {}
  BY TodoFacts DEF Init
<1>2. current["remote"] = <<>> /\ tmp = <<>>
  BY DEF Init, Log
<1> QED
  BY <1>1, <1>2, EmptyRising DEF RisingInv

(* Only appends lengthen the queue; a rewrite drops a prefix.              *)
LEMMA RisingStep == FileInv /\ RisingInv /\ [Next]_vars => RisingInv'
<1> SUFFICES ASSUME FileInv, RisingInv, [Next]_vars PROVE RisingInv'
  OBVIOUS
<1> USE DEF FileInv, files
<1>a. "telemetry" \in Log /\ "remote" \in Log /\ "events" \in Log
  BY DEF Log
<1>b. todo # <<>> =>
        /\ Head(todo) \in Log
        /\ Range(todo) = IF Head(todo) = "telemetry" THEN {"telemetry", "remote"} ELSE {Head(todo)}
        /\ Range(Tail(todo)) = Range(todo) \ {Head(todo)}
  BY TodoFacts DEF TypeOK
<1>c. sampled \in Nat /\ DOMAIN current = Log
  BY DEF TypeOK
<1>1. CASE RecordTelemetry
  <2>1. sampled' = sampled + 1 /\ UNCHANGED <<current, tmp, got>>
    BY <1>1 DEF RecordTelemetry
  <2>2. Below(current["remote"], sampled')
    BY <1>a, <1>c, <2>1, BelowNext DEF TypeOK, FileType
  <2>3. \A q \in got' : q < sampled'
    <3>1. \A q \in got : q \in 1 .. sampled
      BY DEF TypeOK
    <3> QED
      BY <1>c, <2>1, <3>1
  <2> QED
    BY <2>1, <2>2, <2>3 DEF RisingInv
<1>2. CASE RecordEvent
  <2>1. Range(todo') = {"events"} /\ UNCHANGED <<current, tmp>>
    BY <1>2, TodoFacts DEF RecordEvent
  <2> QED
    BY <2>1 DEF RisingInv
<1>3. CASE Rotate
  BY <1>3 DEF Rotate, RisingInv
<1>4. CASE RotateRename
  <2>1. current'["remote"] \in {current["remote"], <<>>} /\ UNCHANGED <<tmp, todo, got, sampled>>
    BY <1>4, <1>a, <1>c DEF RotateRename
  <2> QED
    BY <2>1, EmptyRising DEF RisingInv
<1>5. CASE AppendLine
  <2> DEFINE k == Head(todo)
  <2>1. k \in Log /\ todo # <<>>
    BY <1>5, <1>b DEF AppendLine, PlaceInv, Appends
  <2>2. Range(todo') = Range(todo) \ {k} /\ UNCHANGED <<tmp, got, sampled>>
    BY <1>5, <1>b, <2>1 DEF AppendLine
  <2>3. k # "remote" => current'["remote"] = current["remote"]
    BY <1>5, <1>a, <1>c DEF AppendLine
  <2>4. CASE k # "remote"
    BY <2>2, <2>3, <2>4 DEF RisingInv
  <2>5. CASE k = "remote"
    <3>1. current'["remote"] \in {current["remote"], Append(current["remote"], sampled)}
      BY <1>5, <1>a, <1>c, <2>5 DEF AppendLine
    <3>2. "remote" \in Range(todo) /\ "remote" \notin Range(todo')
      BY <1>b, <2>1, <2>2, <2>5
    <3>3. sampled \in 1 .. sampled
      BY <1>c, <3>2 DEF CountInv
    <3>4. Rising(Append(current["remote"], sampled))
      BY <1>c, <3>2, <3>3, RisingAppend DEF RisingInv, QueueInv
    <3> QED
      BY <2>2, <3>1, <3>2, <3>4 DEF RisingInv
  <2> QED
    BY <2>4, <2>5
<1>6. CASE NextBatch \/ AckOpenFails
  <2>1. UNCHANGED <<current, todo, got, sampled>> /\ tmp' \in {tmp, <<>>}
    BY <1>6 DEF NextBatch, AckOpenFails
  <2>2. Rising(tmp)'
    BY <2>1, EmptyRising DEF RisingInv, Rising
  <2> QED
    BY <2>1, <2>2 DEF RisingInv
<1>7. CASE PostAccepted \/ PostFailed
  <2>1. Range(todo') = {}
    BY <1>7, TodoFacts DEF PostAccepted, PostFailed, PlaceInv, Appends
  <2> QED
    BY <1>7, <2>1 DEF PostAccepted, PostFailed, RisingInv
<1>8. CASE AckCopy
  <2>1. Rising(Unposted)
    BY <1>8, UnpostedRising DEF AckCopy, PlaceInv, QueueInv, RisingInv
  <2>2. tmp' \in {Unposted, tmp} /\ UNCHANGED <<current, todo, got, sampled>>
    BY <1>8 DEF AckCopy
  <2> QED
    BY <2>1, <2>2 DEF RisingInv
<1>9. CASE AckRemove
  <2>1. current'["remote"] = <<>> /\ UNCHANGED <<tmp, todo, got, sampled>>
    BY <1>9, <1>a, <1>c DEF AckRemove
  <2> QED
    BY <2>1, EmptyRising DEF RisingInv
<1>10. CASE AckRename
  <2>1. current'["remote"] = tmp /\ tmp' = <<>> /\ UNCHANGED <<todo, got, sampled>>
    BY <1>10, <1>a, <1>c DEF AckRename
  <2>2. Range(todo) = {}
    BY <1>10, TodoFacts DEF AckRename, PlaceInv, Appends
  <2> QED
    BY <2>1, <2>2, EmptyRising DEF RisingInv
<1>11. CASE Reset
  <2>1. Range(todo') = {} /\ tmp' = tmp
    BY <1>11, TodoFacts DEF Reset
  <2>2. current'["remote"] = current["remote"]
    BY <1>11, <1>a, <1>c DEF Reset
  <2> QED
    BY <2>1, <2>2 DEF RisingInv
<1>12. CASE UNCHANGED vars
  BY <1>12 DEF vars, RisingInv
<1> QED
  BY <1>1, <1>2, <1>3, <1>4, <1>5, <1>6, <1>7, <1>8, <1>9, <1>10, <1>11, <1>12
     DEF Next, Appending, Posting

(* No copy, and no batch, to begin with. *)
LEMMA CopyInit == Init => CopyInv
  BY DEF Init, CopyInv

(* A copy that is not committed leaves nothing, unless a reset has left an *)
(* older one; with room for it, it is committed.                           *)
LEMMA CopyStep == FileInv /\ CopyInv /\ [Next]_vars => CopyInv'
<1> SUFFICES ASSUME FileInv, CopyInv, [Next]_vars PROVE CopyInv'
  OBVIOUS
<1> USE DEF CopyInv, Batch, Unposted, files
<1>a. "remote" \in Log /\ DOMAIN current = Log
  BY DEF FileInv, TypeOK, Log
<1>1. CASE RecordTelemetry \/ RecordEvent
  BY <1>1 DEF RecordTelemetry, RecordEvent
<1>2. CASE Rotate \/ RotateRename \/ AppendLine
  <2>1. pc \in Appends /\ pc' \notin {"accepted", "remove", "replace"} /\ tmp' = tmp
    BY <1>2 DEF Rotate, RotateRename, AppendLine, Appends
  <2> QED
    BY <2>1 DEF Appends
<1>3. CASE NextBatch \/ PostFailed \/ AckOpenFails
  BY <1>3 DEF NextBatch, PostFailed, AckOpenFails
<1>4. CASE PostAccepted
  BY <1>4 DEF PostAccepted
<1>5. CASE AckCopy
  <2>1. /\ pc' = "remove" /\ UNCHANGED <<current, previous, itemCount, got>>
        /\ Batch \subseteq got
    BY <1>5 DEF AckCopy
  <2>2. CASE tmp' = Unposted
    BY <2>1, <2>2
  <2>3. CASE tmp' = tmp /\ ~HasFree(BlocksOf(Bytes("remote", Unposted)))
    BY <2>1, <2>3 DEF HasFree, Used, LogBlocks, BlocksOf, Bytes
  <2> QED
    BY <1>5, <2>2, <2>3 DEF AckCopy
<1>6. CASE AckRemove
  BY <1>6 DEF AckRemove
<1>7. CASE AckRename
  BY <1>7 DEF AckRename
<1>8. CASE Reset
  <2>1. pc' = "idle" /\ tmp' = tmp /\ pc \in ResetPoints
    BY <1>8 DEF Reset
  <2>2. NoStaleCopy => pc \notin {"remove", "replace"}
    BY <2>1 DEF NoStaleCopy
  <2> QED
    BY <2>1, <2>2
<1>9. CASE UNCHANGED vars
  BY <1>9 DEF vars, HasFree, Used, LogBlocks, BlocksOf, Bytes
<1> QED
  BY <1>1, <1>2, <1>3, <1>4, <1>5, <1>6, <1>7, <1>8, <1>9 DEF Next, Appending, Posting

(* What the server has once the batch has arrived. *)
Posted == got \cup Batch

(* Only a post gives the server anything, and then the whole batch.        *)
LEMMA GotStep == [Next]_vars => got' = got \/ (pc = "post" /\ got' = Posted)
<1> SUFFICES ASSUME [Next]_vars PROVE got' = got \/ (pc = "post" /\ got' = Posted)
  OBVIOUS
<1>1. CASE Reset
  <2>1. got' \in (IF pc = "post" THEN {got, Posted} ELSE {got})
    BY <1>1 DEF Reset, Posted
  <2> QED
    BY <2>1
<1>2. CASE PostAccepted \/ PostFailed
  <2>1. pc = "post" /\ got' \in {got, Posted}
    BY <1>2 DEF PostAccepted, PostFailed, Posted
  <2> QED
    BY <2>1
<1>3. CASE RecordTelemetry \/ RecordEvent \/ NextBatch
  BY <1>3 DEF RecordTelemetry, RecordEvent, NextBatch
<1>4. CASE Appending
  BY <1>4 DEF Appending, Rotate, RotateRename, AppendLine
<1>5. CASE AckCopy \/ AckOpenFails \/ AckRemove \/ AckRename
  BY <1>5 DEF AckCopy, AckOpenFails, AckRemove, AckRename
<1>6. CASE UNCHANGED vars
  BY <1>6 DEF vars
<1> QED
  BY <1>1, <1>2, <1>3, <1>4, <1>5, <1>6 DEF Next, Posting

(* What the server has after a post. *)
LEMMA PostedFresh ==
    ASSUME FileInv, RisingInv, Fresh(current["remote"]), pc \in {"post", "accepted"}
    PROVE  /\ \A r \in Batch \ got : \A q \in got : q < r
           /\ \A i \in 1 .. Len(current["remote"]) :
                 LET r == current["remote"][i]
                 IN  r \in Posted \/ \A q \in Posted : q < r
<1> DEFINE f == current["remote"]
<1>1. itemCount \in 1 .. Len(f) /\ Len(f) \in Nat
  BY LenProperties DEF FileInv, PlaceInv, QueueInv
<1>2. Batch = {f[i] : i \in 1 .. itemCount}
  BY <1>1, BatchFact DEF FileInv, QueueInv
<1>3. ASSUME NEW i \in 1 .. Len(f), f[i] \notin Posted, NEW q \in Posted
      PROVE  q < f[i]
  <2>1. i > itemCount
    BY <1>1, <1>2, <1>3 DEF Posted
  <2>2. CASE q \in got
    BY <1>3, <2>2 DEF Fresh, Posted
  <2>3. CASE q \in Batch
    <3>1. PICK m \in 1 .. itemCount : q = f[m]
      BY <1>2, <2>3
    <3> QED
      BY <1>1, <2>1, <3>1 DEF RisingInv, Rising
  <2> QED
    BY <1>3, <2>2, <2>3 DEF Posted
<1>4. ASSUME NEW r \in Batch \ got, NEW q \in got PROVE q < r
  <2>1. PICK m \in 1 .. itemCount : r = f[m]
    BY <1>2
  <2> QED
    BY <1>1, <1>4, <2>1 DEF Fresh
<1> QED
  BY <1>3, <1>4

(* No record to begin with. *)
LEMMA FreshInit == Init => FreshInv
<1> SUFFICES ASSUME Init PROVE FreshInv
  OBVIOUS
<1>1. current["remote"] = <<>> /\ pc = "idle"
  BY DEF Init, Log
<1> QED
  BY <1>1, EmptySeq DEF FreshInv, Fresh

(* Nothing that was passed over enters the queue, unless an old copy does. *)
LEMMA FreshStep ==
    FileInv /\ RisingInv /\ CopyInv /\ FreshInv /\ [Next]_vars => FreshInv'
<1> SUFFICES ASSUME FileInv, RisingInv, CopyInv, FreshInv, [Next]_vars, Roomy \/ NoStaleCopy
             PROVE  Fresh(current["remote"])' /\ (pc' \in {"remove", "replace"} => Fresh(tmp)')
  BY DEF FreshInv
<1> USE DEF files
<1>a. "telemetry" \in Log /\ "remote" \in Log /\ DOMAIN current = Log
  BY DEF FileInv, TypeOK, Log
<1>b. Fresh(current["remote"]) /\ (pc \in {"remove", "replace"} => Fresh(tmp))
  BY DEF FreshInv
<1>c. Fresh(<<>>) /\ Fresh(<<>>)'
  BY EmptySeq DEF Fresh
<1>1. CASE RecordTelemetry \/ RecordEvent \/ Rotate \/ NextBatch \/ AckOpenFails
  <2>1. UNCHANGED <<current, got>> /\ pc' \notin {"remove", "replace"}
    BY <1>1 DEF RecordTelemetry, RecordEvent, Rotate, NextBatch, AckOpenFails
  <2> QED
    BY <1>b, <2>1 DEF Fresh
<1>2. CASE RotateRename
  <2>1. current'["remote"] \in {current["remote"], <<>>} /\ got' = got /\ pc' = "append"
    BY <1>2, <1>a DEF RotateRename
  <2> QED
    BY <1>b, <1>c, <2>1 DEF Fresh
<1>3. CASE AppendLine
  <2> DEFINE f == current["remote"]
             k == Head(todo)
  <2>1. got' = got /\ pc' \notin {"remove", "replace"}
    BY <1>3 DEF AppendLine
  <2>2. CASE current'["remote"] = f
    BY <1>b, <2>1, <2>2 DEF Fresh
  <2>3. CASE current'["remote"] # f
    <3>1. k = "remote" /\ current'["remote"] = Append(f, sampled)
      BY <1>3, <1>a, <2>3 DEF AppendLine
    <3>2. "remote" \in Range(todo)
      <4>1. todo # <<>>
        BY <1>3 DEF AppendLine, FileInv, PlaceInv, Appends
      <4> QED
        BY <3>1, <4>1, TodoFacts DEF FileInv, TypeOK
    <3>3. sampled \in 1 .. sampled /\ \A q \in got : q < sampled
      BY <3>2 DEF FileInv, TypeOK, CountInv, RisingInv
    <3> DEFINE g == Append(f, sampled)
    <3>4. Len(g) = Len(f) + 1 /\ g[Len(f) + 1] = sampled /\ \A i \in 1 .. Len(f) : g[i] = f[i]
      BY <3>3, AppendProperties DEF FileInv, QueueInv
    <3>5. Len(f) \in Nat
      BY LenProperties DEF FileInv, QueueInv
    <3> HIDE DEF g
    <3>6. \A i \in 1 .. Len(g) : g[i] \in got \/ \A q \in got : q < g[i]
      BY <1>b, <3>3, <3>4, <3>5 DEF Fresh
    <3> QED
      BY <2>1, <3>1, <3>6 DEF Fresh, g
  <2> QED
    BY <2>2, <2>3
<1>4. CASE PostAccepted \/ PostFailed
  <2>1. pc = "post" /\ current' = current /\ pc' \notin {"remove", "replace"}
    BY <1>4 DEF PostAccepted, PostFailed
  <2> QED
    BY <1>b, <2>1, GotStep, PostedFresh DEF Fresh
<1>5. CASE AckCopy
  <2> DEFINE f == current["remote"]
  <2>1. /\ Len(Unposted) = Len(f) - itemCount /\ itemCount \in 1 .. Len(f) /\ Len(f) \in Nat
        /\ \A i \in 1 .. Len(Unposted) : Unposted[i] = f[itemCount + i]
    BY <1>5, UnpostedFact, LenProperties DEF AckCopy, FileInv, PlaceInv, QueueInv
  <2>2. ASSUME NEW i \in 1 .. Len(Unposted)
        PROVE  Unposted[i] \in got \/ \A q \in got : q < Unposted[i]
    <3>1. itemCount + i \in 1 .. Len(f)
      BY <2>1
    <3> QED
      BY <1>b, <2>1, <3>1 DEF Fresh
  <2>3. Fresh(Unposted)
    BY <2>2 DEF Fresh
  <2>4. tmp' = Unposted \/ tmp' = <<>>
    <3>1. CASE Roomy
      BY <1>5, <3>1, RoomSuffices DEF AckCopy, NothingDropped
    <3>2. CASE NoStaleCopy
      BY <1>5, <3>2 DEF AckCopy, CopyInv
    <3> QED
      BY <3>1, <3>2
  <2>5. UNCHANGED <<current, got>>
    BY <1>5 DEF AckCopy
  <2> QED
    BY <1>b, <1>c, <2>3, <2>4, <2>5 DEF Fresh
<1>6. CASE AckRemove
  <2>1. current'["remote"] = <<>> /\ UNCHANGED <<tmp, got>> /\ pc = "remove"
    BY <1>6, <1>a DEF AckRemove
  <2> QED
    BY <1>b, <1>c, <2>1 DEF Fresh
<1>7. CASE AckRename
  <2>1. current'["remote"] = tmp /\ UNCHANGED got /\ pc = "replace" /\ pc' = "idle"
    BY <1>7, <1>a DEF AckRename
  <2> QED
    BY <1>b, <2>1 DEF Fresh
<1>8. CASE Reset
  <2>1. current'["remote"] = current["remote"] /\ pc' = "idle"
    BY <1>8, <1>a DEF Reset
  <2> QED
    BY <1>b, <2>1, GotStep, PostedFresh DEF Fresh
<1>9. CASE UNCHANGED vars
  BY <1>9, <1>b DEF vars, Fresh
<1> QED
  BY <1>1, <1>2, <1>3, <1>4, <1>5, <1>6, <1>7, <1>8, <1>9 DEF Next, Appending, Posting

(* All that the order of the deliveries and the refinement rest on. *)
QueueSafe == FileInv /\ RisingInv /\ CopyInv /\ FreshInv

(* It holds of every behaviour. *)
LEMMA QueueSafeInvariance == Spec => []QueueSafe
<1>1. Init => QueueSafe
  BY FileInit, RisingInit, CopyInit, FreshInit DEF QueueSafe
<1>2. QueueSafe /\ [Next]_vars => QueueSafe'
  BY FileStep, RisingStep, CopyStep, FreshStep DEF QueueSafe
<1> QED
  BY <1>1, <1>2, PTL DEF Spec

(* The server first learns of the records in the order of their samples,   *)
(* if the flash has room or no reset leaves a copy behind: for any caps,   *)
(* batches and numbers of faults.                                          *)
THEOREM OrderSafety ==
    ASSUME Roomy \/ NoStaleCopy
    PROVE  Spec => InOrder
<1> DEFINE Ordered == \A r \in got' \ got : \A q \in got : q < r
<1>1. QueueSafe /\ [Next]_vars => [Ordered]_vars
  <2> SUFFICES ASSUME QueueSafe, [Next]_vars, ~UNCHANGED vars PROVE Ordered
    OBVIOUS
  <2>1. got' = got \/ (pc = "post" /\ got' = Posted)
    BY GotStep
  <2>2. Fresh(current["remote"])
    BY DEF QueueSafe, FreshInv
  <2> QED
    BY <2>1, <2>2, PostedFresh DEF QueueSafe, Posted
<1> QED
  BY <1>1, QueueSafeInvariance, PTL DEF Spec, InOrder

-----------------------------------------------------------------------------
(* The files implement the delivery queue.                                 *)

(* Which records are offered. *)
LEMMA OfferedFact ==
    ASSUME FileInv
    PROVE  /\ "remote" \in Range(todo) => /\ sampled \in Record
                                          /\ sampled \notin Offered
                                          /\ Offered \cup {sampled} = 1 .. sampled
           /\ "remote" \notin Range(todo) => Offered = 1 .. sampled
<1>1. sampled \in Nat /\ sampled \in 0 .. MaxSamples /\ MaxSamples \in Nat
  BY UseAssumption DEF FileInv, TypeOK
<1>2. ASSUME "remote" \in Range(todo)
      PROVE  sampled \in Record /\ sampled \notin Offered /\ Offered \cup {sampled} = 1 .. sampled
  <2>1. sampled > 0
    BY <1>2 DEF FileInv, CountInv
  <2>2. Offered = 1 .. sampled - 1
    BY <1>2 DEF Offered
  <2>3. sampled \in Record /\ sampled \notin Offered
    BY <1>1, <2>1, <2>2 DEF Record
  <2>4. \A r : r \in Offered \cup {sampled} <=> r \in 1 .. sampled
    BY <1>1, <2>1, <2>2
  <2> QED
    BY <2>3, <2>4
<1> QED
  BY <1>2 DEF Offered

(* The queue begins as the abstract one does. *)
LEMMA RefinesInit == Init => Delivery!DQInit
<1> SUFFICES ASSUME Init PROVE Delivery!DQInit
  OBVIOUS
<1>1. PendingQueue = <<>> /\ got = {}
  BY DEF Init, PendingQueue, Log
<1>2. Range(todo) = {} /\ sampled = 0
  BY TodoFacts DEF Init
<1>3. Offered = {}
  BY <1>2 DEF Offered
<1> QED
  BY <1>1, <1>3 DEF Delivery!DQInit

(* A step that leaves the queue, the samples and the server alone. *)
LEMMA Stutter ==
    ASSUME UNCHANGED <<Offered, PendingQueue, got>>
    PROVE  [Delivery!DQNext]_Delivery!dqVars
  BY DEF Delivery!dqVars

(* A post gives the server a prefix of the queue. *)
LEMMA RefinesPost ==
    ASSUME QueueSafe, pc = "post", got' = Posted, UNCHANGED <<Offered, PendingQueue>>
    PROVE  Delivery!DQNext
<1>1. PendingQueue = current["remote"] /\ itemCount \in 1 .. Len(PendingQueue)
  BY DEF PendingQueue, QueueSafe, FileInv, PlaceInv
<1>2. got' = got \cup Range(SubSeq(PendingQueue, 1, itemCount))
  BY <1>1 DEF Posted, Batch
<1>3. Delivery!Accept(itemCount)
  BY <1>2, Zenon DEF Delivery!Accept, Delivery!Range, Range
<1> QED
  BY <1>1, <1>3 DEF Delivery!DQNext

(* The samples and the appends: a record is queued, or is not, or the full *)
(* queue is rotated away.                                                  *)
LEMMA RefinesAppending ==
    ASSUME QueueSafe, RecordTelemetry \/ RecordEvent \/ Appending
    PROVE  [Delivery!DQNext]_Delivery!dqVars
<1> USE DEF files
<1>a. "telemetry" \in Log /\ "remote" \in Log /\ "events" \in Log
      /\ DOMAIN current = Log /\ FileInv /\ sampled \in Nat
  BY DEF QueueSafe, FileInv, TypeOK, Log
<1>b. todo # <<>> =>
        /\ Head(todo) \in Log
        /\ Range(todo) = IF Head(todo) = "telemetry" THEN {"telemetry", "remote"} ELSE {Head(todo)}
        /\ Range(Tail(todo)) = Range(todo) \ {Head(todo)}
  BY TodoFacts DEF QueueSafe, FileInv, TypeOK
<1>c. todo = <<>> => Range(todo) = {}
  BY TodoFacts
<1>1. CASE RecordTelemetry \/ RecordEvent
  <2>1. todo = <<>> /\ pc = "idle" /\ pc' = "rotate" /\ UNCHANGED <<current, got>>
    BY <1>1 DEF RecordTelemetry, RecordEvent, QueueSafe, FileInv, PlaceInv, Appends
  <2>2. UNCHANGED PendingQueue
    BY <2>1 DEF PendingQueue
  <2>3. CASE RecordTelemetry
    <3>1. "remote" \in Range(todo') /\ sampled' = sampled + 1
      BY <2>3, TodoFacts DEF RecordTelemetry
    <3>2. Offered' = 1 .. sampled' - 1
      BY <3>1 DEF Offered
    <3>3. Offered' = 1 .. sampled
      BY <1>a, <3>1, <3>2
    <3> QED
      BY <1>c, <2>1, <2>2, <3>3, Stutter DEF Offered
  <2>4. CASE RecordEvent
    <3>1. Range(todo') = {"events"} /\ sampled' = sampled
      BY <2>4, TodoFacts DEF RecordEvent
    <3> QED
      BY <1>c, <2>1, <2>2, <3>1, Stutter DEF Offered
  <2> QED
    BY <1>1, <2>3, <2>4
<1>2. CASE Rotate
  <2>1. UNCHANGED <<current, todo, sampled, got>> /\ pc # "replace" /\ pc' # "replace"
    BY <1>2 DEF Rotate
  <2> QED
    BY <2>1, Stutter DEF Offered, PendingQueue
<1>3. CASE RotateRename
  <2> DEFINE k == Head(todo)
  <2>1. /\ UNCHANGED <<todo, sampled, got>> /\ pc # "replace" /\ pc' # "replace"
        /\ current' = [current EXCEPT ![k] = <<>>]
    BY <1>3 DEF RotateRename
  <2>2. UNCHANGED Offered /\ PendingQueue = current["remote"] /\ PendingQueue' = current'["remote"]
    BY <2>1 DEF Offered, PendingQueue
  <2>3. CASE k # "remote"
    BY <1>a, <2>1, <2>2, <2>3, Stutter
  <2>4. CASE k = "remote"
    <3>1. Len(PendingQueue) >= FullLines("remote")
      BY <1>3, <2>2, <2>4 DEF RotateRename, QueueSafe, FileInv, PlaceInv
    <3>2. PendingQueue' = <<>>
      BY <1>a, <2>1, <2>2, <2>4
    <3>3. Delivery!Overflow
      BY <2>1, <2>2, <3>1, <3>2 DEF Delivery!Overflow
    <3> QED
      BY <3>3 DEF Delivery!DQNext
  <2> QED
    BY <2>3, <2>4
<1>4. CASE AppendLine
  <2> DEFINE k == Head(todo)
             f == current["remote"]
  <2>1. /\ todo # <<>> /\ k \in Log /\ Range(todo') = Range(todo) \ {k}
        /\ UNCHANGED <<got, sampled>> /\ pc = "append" /\ pc' # "replace"
    BY <1>4, <1>b DEF AppendLine, QueueSafe, FileInv, PlaceInv, Appends
  <2>2. PendingQueue = f /\ PendingQueue' = current'["remote"]
    BY <2>1 DEF PendingQueue
  <2>3. CASE k # "remote"
    <3>1. current'["remote"] = f
      BY <1>4, <1>a, <2>3 DEF AppendLine
    <3> QED
      BY <2>1, <2>2, <2>3, <3>1, Stutter DEF Offered
  <2>4. CASE k = "remote"
    <3>1. "remote" \in Range(todo) /\ "remote" \notin Range(todo')
      BY <1>b, <2>1, <2>4
    <3>2. Offered' = 1 .. sampled
      BY <2>1, <3>1 DEF Offered
    <3>3. sampled \in Record /\ sampled \notin Offered /\ Offered' = Offered \cup {sampled}
      BY <1>a, <3>1, <3>2, OfferedFact
    <3>4. current'["remote"] \in {f, Append(f, sampled)}
      BY <1>4, <1>a, <2>4 DEF AppendLine
    <3>5. Len(f) < FullLines("remote")
      BY <2>1, <2>4 DEF QueueSafe, FileInv, PlaceInv
    <3>6. Delivery!Offer(sampled)
      BY <2>1, <2>2, <3>3, <3>4, <3>5 DEF Delivery!Offer
    <3> QED
      BY <3>3, <3>6 DEF Delivery!DQNext
  <2> QED
    BY <2>3, <2>4
<1> QED
  BY <1>1, <1>2, <1>3, <1>4 DEF Appending

(* The posts and the rewrite: the prefix leaves when the file is removed,  *)
(* and it is with the server then; the rest stays if its copy had room.    *)
LEMMA RefinesPosting ==
    ASSUME QueueSafe, NextBatch \/ Posting \/ PostFailed \/ AckOpenFails, [Next]_vars
    PROVE  [Delivery!DQNext]_Delivery!dqVars \/ LostOnFullFlash
<1> USE DEF files
<1>a. "remote" \in Log /\ DOMAIN current = Log
  BY DEF QueueSafe, FileInv, TypeOK, Log
<1>b. UNCHANGED Offered
  BY DEF Offered, NextBatch, Posting, PostAccepted, AckCopy, AckRemove, AckRename, PostFailed,
     AckOpenFails
<1>1. CASE NextBatch \/ AckCopy \/ AckOpenFails
  <2>1. UNCHANGED <<current, got>> /\ pc # "replace" /\ pc' # "replace"
    BY <1>1 DEF NextBatch, AckCopy, AckOpenFails
  <2> QED
    BY <1>b, <2>1, Stutter DEF PendingQueue
<1>2. CASE PostAccepted \/ PostFailed
  <2>1. current' = current /\ pc = "post" /\ pc' # "replace"
    BY <1>2 DEF PostAccepted, PostFailed
  <2>2. UNCHANGED PendingQueue
    BY <2>1 DEF PendingQueue
  <2> QED
    BY <1>b, <2>1, <2>2, GotStep, RefinesPost, Stutter
<1>3. CASE AckRemove
  <2>1. pc = "remove" /\ pc' = "replace" /\ UNCHANGED <<tmp, got>>
    BY <1>3 DEF AckRemove
  <2>2. PendingQueue = current["remote"] /\ PendingQueue' = tmp
    BY <2>1 DEF PendingQueue
  <2> SUFFICES ASSUME ~LostOnFullFlash PROVE [Delivery!DQNext]_Delivery!dqVars
    OBVIOUS
  <2>3. tmp = Unposted /\ Batch \subseteq got /\ itemCount \in 1 .. Len(PendingQueue)
    BY <1>3, <2>1, <2>2 DEF LostOnFullFlash, QueueSafe, CopyInv, FileInv, PlaceInv
  <2>4. Range(SubSeq(PendingQueue, 1, itemCount)) \subseteq got
    BY <2>2, <2>3 DEF Batch
  <2>5. PendingQueue' = SubSeq(PendingQueue, itemCount + 1, Len(PendingQueue))
    BY <2>2, <2>3 DEF Unposted
  <2>6. Delivery!Release(itemCount)
    BY <1>b, <2>1, <2>4, <2>5, Zenon DEF Delivery!Release, Delivery!Range, Range
  <2> QED
    BY <2>3, <2>6 DEF Delivery!DQNext
<1>4. CASE AckRename
  <2>1. pc = "replace" /\ pc' = "idle" /\ current'["remote"] = tmp /\ UNCHANGED got
    BY <1>4, <1>a DEF AckRename
  <2> QED
    BY <1>b, <2>1, Stutter DEF PendingQueue
<1> QED
  BY <1>1, <1>2, <1>3, <1>4 DEF Posting

(* A reset: a record that was to be appended was offered and not stored; a *)
(* batch that was being posted may have arrived.                           *)
LEMMA RefinesReset ==
    ASSUME QueueSafe, Reset, pc # "replace", [Next]_vars
    PROVE  [Delivery!DQNext]_Delivery!dqVars
<1> USE DEF files
<1>a. "remote" \in Log /\ DOMAIN current = Log /\ FileInv
  BY DEF QueueSafe, FileInv, TypeOK, Log
<1>1. pc # "replace" /\ pc' = "idle" /\ todo' = <<>> /\ sampled' = sampled
  BY DEF Reset
<1>2. current'["remote"] = current["remote"]
  BY <1>a DEF Reset
<1>3. UNCHANGED PendingQueue
  BY <1>1, <1>2 DEF PendingQueue
<1>4. Offered' = 1 .. sampled
  BY <1>1, TodoFacts DEF Offered
<1>5. CASE "remote" \in Range(todo)
  <2>1. todo # <<>>
    BY <1>5, TodoFacts
  <2>2. pc # "post"
    BY <1>a, <2>1 DEF FileInv, PlaceInv, Appends
  <2>3. got' = got
    BY <2>2, GotStep
  <2>4. sampled \in Record /\ sampled \notin Offered /\ Offered' = Offered \cup {sampled}
    BY <1>a, <1>4, <1>5, OfferedFact
  <2>5. Delivery!Offer(sampled)
    BY <1>3, <2>3, <2>4 DEF Delivery!Offer
  <2> QED
    BY <2>4, <2>5 DEF Delivery!DQNext
<1>6. CASE "remote" \notin Range(todo)
  <2>1. UNCHANGED Offered
    BY <1>a, <1>4, <1>6, OfferedFact
  <2> QED
    BY <1>3, <2>1, GotStep, RefinesPost, Stutter
<1> QED
  BY <1>5, <1>6

(* "A valid remote batch is removed only after a 2xx response" is true but *)
(* for a reset between the remove and the rename, and for a copy the flash *)
(* had no room for: for any flash, caps, batches, samples, faults and      *)
(* points of reset.                                                        *)
THEOREM LossSafety == Spec => NoOtherLoss
<1> DEFINE Lossy == Delivery!DQNext \/ LostOnFullFlash \/ LostOnReset
<1>1. QueueSafe /\ [Next]_vars => [Lossy]_<<Offered, PendingQueue, got>>
  <2> SUFFICES ASSUME QueueSafe, [Next]_vars, ~LostOnFullFlash, ~LostOnReset
               PROVE  [Delivery!DQNext]_Delivery!dqVars
    BY DEF Delivery!dqVars
  <2>1. CASE UNCHANGED vars
    BY <2>1, Stutter DEF vars, files, Offered, PendingQueue
  <2>2. CASE Reset
    BY <2>2, RefinesReset DEF LostOnReset
  <2> QED
    BY <2>1, <2>2, RefinesAppending, RefinesPosting DEF Next
<1> QED
  BY <1>1, RefinesInit, QueueSafeInvariance, PTL DEF Spec, NoOtherLoss

-----------------------------------------------------------------------------
(* The history.                                                            *)

(* A file has at most one header. *)
LEMMA CountFact ==
    ASSUME NEW S, NEW f \in Seq(S)
    PROVE  Count(f) \in Nat /\ Count(f) >= Len(f) - 1
<1>1. Len(f) \in Nat /\ (f # <<>> => Len(f) >= 1)
  BY EmptySeq
<1> QED
  BY <1>1 DEF Count

(* An empty file has no sample, nor has a header by itself. *)
LEMMA EmptyCount == Count(<<>>) = 0 /\ Count(<<NoSample>>) = 0
  BY DEF Count

(* A sample makes one more, whether or not the file has a header. *)
LEMMA AppendCount ==
    ASSUME NEW S, NEW f \in Seq(S), NEW x \in S, x # NoSample
    PROVE  Count(Append(f, x)) = Count(f) + 1
<1> DEFINE g == Append(f, x)
<1>1. /\ Len(f) \in Nat /\ Len(g) = Len(f) + 1 /\ g # <<>>
      /\ g[Len(f) + 1] = x /\ \A i \in 1 .. Len(f) : g[i] = f[i]
  BY AppendProperties, LenProperties
<1>2. f # <<>> => Len(f) >= 1
  BY EmptySeq
<1> HIDE DEF g
<1>3. CASE f = <<>>
  <2>1. Len(f) = 0
    BY <1>3, EmptySeq
  <2>2. Len(g) = 1 /\ g[1] = x
    BY <1>1, <2>1
  <2>3. Count(g) = 1 /\ Count(f) = 0
    BY <1>3, <2>1, <2>2 DEF Count
  <2> QED
    BY <2>3 DEF g
<1>4. CASE f # <<>>
  <2>1. g[1] = f[1]
    BY <1>1, <1>2, <1>4
  <2>2. Count(g) = Count(f) + 1
    BY <1>1, <1>4, <2>1 DEF Count
  <2> QED
    BY <2>2 DEF g
<1> QED
  BY <1>3, <1>4

(* The header by itself holds the history of no sample. *)
LEMMA HistoryInit == Init => HistoryInv
<1> SUFFICES ASSUME Init PROVE HistoryInv
  OBVIOUS
<1>1. current["telemetry"] = <<NoSample>> /\ previous["telemetry"] = <<>>
      /\ stored = 0 /\ Range(todo) = {}
  BY TodoFacts DEF Init, Log
<1>2. Rising(<<NoSample>>) /\ Len(<<NoSample>>) = 1
  BY DEF Rising
<1>3. FullLines("telemetry") \in Nat \ {0}
  BY FullLinesFact DEF Log
<1> QED
  BY <1>1, <1>2, <1>3, EmptyRising, EmptyCount, EmptySeq DEF HistoryInv, Lesser

(* A rotation gives up the older file only for a full one.                 *)
LEMMA HistoryStep == FileInv /\ HistoryInv /\ [Next]_vars => HistoryInv'
<1> SUFFICES ASSUME FileInv, HistoryInv, [Next]_vars PROVE HistoryInv'
  OBVIOUS
<1> USE DEF files
<1>a. "telemetry" \in Log /\ "remote" \in Log /\ DOMAIN current = Log /\ DOMAIN previous = Log
  BY DEF FileInv, TypeOK, Log
<1>b. todo # <<>> =>
        /\ Range(todo) = IF Head(todo) = "telemetry" THEN {"telemetry", "remote"} ELSE {Head(todo)}
        /\ Range(Tail(todo)) = Range(todo) \ {Head(todo)}
  BY TodoFacts DEF FileInv, TypeOK
<1>c. sampled \in Nat /\ stored \in Nat /\ FullLines("telemetry") \in Nat \ {0}
  BY <1>a, FullLinesFact DEF FileInv, TypeOK
<1>d. /\ current["telemetry"] \in Seq(0 .. sampled) /\ previous["telemetry"] \in Seq(0 .. sampled)
  BY <1>a DEF FileInv, TypeOK, FileType
<1>e. Count(current["telemetry"]) \in Nat /\ Count(previous["telemetry"]) \in Nat
      /\ Len(current["telemetry"]) \in Nat
      /\ Count(current["telemetry"]) >= Len(current["telemetry"]) - 1
  BY <1>d, CountFact, LenProperties
<1>1. CASE RecordTelemetry
  <2>1. sampled' = sampled + 1 /\ UNCHANGED <<current, previous, stored>>
    BY <1>1 DEF RecordTelemetry
  <2>2. Below(previous["telemetry"], sampled') /\ Below(current["telemetry"], sampled')
    BY <1>c, <1>d, <2>1, BelowNext
  <2> QED
    BY <2>1, <2>2 DEF HistoryInv
<1>2. CASE RecordEvent
  <2>1. UNCHANGED <<current, previous, sampled, stored>> /\ Range(todo') = {"events"}
    BY <1>2, TodoFacts DEF RecordEvent
  <2> QED
    BY <2>1 DEF HistoryInv
<1>3. CASE Rotate
  <2>1. UNCHANGED <<current, todo, sampled, stored>>
    BY <1>3 DEF Rotate
  <2>2. CASE previous'["telemetry"] = previous["telemetry"]
    BY <2>1, <2>2 DEF HistoryInv
  <2>3. CASE previous'["telemetry"] # previous["telemetry"]
    <3>1. /\ previous'["telemetry"] = <<>>
          /\ ~(Bytes("telemetry", current["telemetry"]) < Cap["telemetry"])
      BY <1>3, <1>a, <2>3 DEF Rotate
    <3>2. Len(current["telemetry"]) >= FullLines("telemetry")
      BY <1>a, <1>c, <1>d, <1>e, <3>1, BelowCap
    <3>3. Count(current["telemetry"]) >= Lesser(stored, FullLines("telemetry") - 1)
      BY <1>c, <1>e, <3>2 DEF Lesser
    <3>4. Rising(previous'["telemetry"]) /\ Below(previous'["telemetry"], sampled)
          /\ Count(previous'["telemetry"]) = 0 /\ Len(previous'["telemetry"]) = 0
      BY <3>1, EmptyRising, EmptyCount, EmptySeq
    <3>5. Count(previous'["telemetry"]) + Count(current["telemetry"])
            >= Lesser(stored, FullLines("telemetry") - 1)
      BY <1>e, <3>3, <3>4
    <3> QED
      BY <2>1, <3>4, <3>5 DEF HistoryInv
  <2> QED
    BY <2>2, <2>3
<1>4. CASE RotateRename
  <2> DEFINE k == Head(todo)
  <2>1. /\ UNCHANGED <<todo, sampled, stored>>
        /\ previous' = [previous EXCEPT ![k] = current[k]]
        /\ current' = [current EXCEPT ![k] = <<>>]
    BY <1>4 DEF RotateRename
  <2>2. CASE k # "telemetry"
    <3>1. /\ current'["telemetry"] = current["telemetry"]
          /\ previous'["telemetry"] = previous["telemetry"]
      BY <1>a, <2>1, <2>2
    <3> QED
      BY <2>1, <3>1 DEF HistoryInv
  <2>3. CASE k = "telemetry"
    <3>1. /\ current'["telemetry"] = <<>>
          /\ previous'["telemetry"] = current["telemetry"]
      BY <1>a, <2>1, <2>3
    <3>2. Len(current["telemetry"]) >= FullLines("telemetry")
      BY <1>4, <2>3 DEF RotateRename, FileInv, PlaceInv
    <3>3. Count(current["telemetry"]) >= Lesser(stored, FullLines("telemetry") - 1)
      BY <1>c, <1>e, <3>2 DEF Lesser
    <3>4. Rising(current'["telemetry"]) /\ Below(current'["telemetry"], sampled)
          /\ Count(current'["telemetry"]) = 0 /\ Len(current'["telemetry"]) = 0
      BY <3>1, EmptyRising, EmptyCount, EmptySeq
    <3>5. Count(previous'["telemetry"]) + Count(current'["telemetry"])
            >= Lesser(stored, FullLines("telemetry") - 1)
      BY <1>e, <3>1, <3>3, <3>4
    <3> QED
      BY <2>1, <3>1, <3>4, <3>5 DEF HistoryInv
  <2> QED
    BY <2>2, <2>3
<1>5. CASE AppendLine
  <2> DEFINE f == current["telemetry"]
             k == Head(todo)
  <2>1. /\ UNCHANGED <<previous, sampled>> /\ todo # <<>> /\ Range(todo') = Range(todo) \ {k}
    BY <1>5, <1>b DEF AppendLine, FileInv, PlaceInv, Appends
  <2>2. CASE current'["telemetry"] = f /\ stored' = stored
    BY <2>1, <2>2 DEF HistoryInv
  <2>3. CASE ~(current'["telemetry"] = f /\ stored' = stored)
    <3>1. k = "telemetry" /\ current'["telemetry"] = Append(f, sampled) /\ stored' = stored + 1
      BY <1>5, <1>a, <2>3 DEF AppendLine
    <3>2. "telemetry" \in Range(todo) /\ "telemetry" \notin Range(todo')
      BY <1>b, <2>1, <3>1
    <3>3. sampled \in 0 .. sampled /\ sampled # NoSample
      BY <1>c, <3>2 DEF FileInv, CountInv, NoSample
    <3> DEFINE g == Append(f, sampled)
    <3>4. Rising(g)
      BY <1>c, <1>d, <3>2, <3>3, RisingAppend DEF HistoryInv
    <3>5. Count(g) = Count(f) + 1
      BY <1>d, <3>3, AppendCount
    <3>6. Len(g) = Len(f) + 1 /\ g[Len(f) + 1] = sampled /\ \A i \in 1 .. Len(f) : g[i] = f[i]
      BY <1>d, <3>3, AppendProperties
    <3> HIDE DEF g
    <3>7. \A i \in 1 .. Len(previous["telemetry"]), j \in 1 .. Len(g) :
             g[j] = NoSample \/ previous["telemetry"][i] < g[j]
      <4>1. ASSUME NEW i \in 1 .. Len(previous["telemetry"]), NEW j \in 1 .. Len(g)
            PROVE  g[j] = NoSample \/ previous["telemetry"][i] < g[j]
        <5>1. CASE j = Len(f) + 1
          BY <3>2, <3>6, <5>1 DEF HistoryInv, Below
        <5>2. CASE j \in 1 .. Len(f)
          BY <3>6, <5>2 DEF HistoryInv
        <5> QED
          BY <1>e, <3>6, <5>1, <5>2
      <4> QED
        BY <4>1
    <3>8. Count(previous["telemetry"]) + Count(g) >= Lesser(stored + 1, FullLines("telemetry") - 1)
      BY <1>c, <1>e, <3>5 DEF HistoryInv, Lesser
    <3> QED
      BY <2>1, <3>1, <3>2, <3>4, <3>7, <3>8 DEF HistoryInv, g
  <2> QED
    BY <2>2, <2>3
<1>6. CASE NextBatch \/ PostAccepted \/ PostFailed \/ AckCopy \/ AckOpenFails
  BY <1>6 DEF NextBatch, PostAccepted, PostFailed, AckCopy, AckOpenFails, HistoryInv
<1>7. CASE AckRemove \/ AckRename
  <2>1. current'["telemetry"] = current["telemetry"]
        /\ UNCHANGED <<previous, todo, sampled, stored>>
    BY <1>7, <1>a DEF AckRemove, AckRename
  <2> QED
    BY <2>1 DEF HistoryInv
<1>8. CASE Reset
  <2>1. UNCHANGED <<previous, sampled, stored>> /\ Range(todo') = {}
    BY <1>8, TodoFacts DEF Reset
  <2>2. CASE current' = current
    BY <2>1, <2>2 DEF HistoryInv
  <2>3. CASE current' # current
    <3>1. current["telemetry"] = <<>> /\ current'["telemetry"] = <<NoSample>>
      BY <1>8, <1>a, <2>3 DEF Reset
    <3>2. Rising(<<NoSample>>) /\ \A j \in 1 .. Len(<<NoSample>>) : <<NoSample>>[j] = NoSample
      BY DEF Rising
    <3> QED
      BY <2>1, <3>1, <3>2, EmptyCount DEF HistoryInv
  <2> QED
    BY <2>2, <2>3
<1>9. CASE UNCHANGED vars
  BY <1>9 DEF vars, HistoryInv
<1> QED
  BY <1>1, <1>2, <1>3, <1>4, <1>5, <1>6, <1>7, <1>8, <1>9 DEF Next, Appending, Posting

(* The samples of a file are its lines but for the header. *)
LEMMA SamplesFact ==
    ASSUME NEW s \in Nat, NEW f \in Seq(0 .. s), Rising(f)
    PROVE  /\ Samples(f) \in Seq(0 .. s) /\ Len(Samples(f)) = Count(f) /\ Count(f) \in Nat
           /\ Rising(Samples(f))
           /\ \A i \in 1 .. Len(Samples(f)) :
                 /\ Samples(f)[i] # NoSample
                 /\ \E m \in 1 .. Len(f) : Samples(f)[i] = f[m]
<1>1. Len(f) \in Nat /\ (f # <<>> => Len(f) >= 1) /\ \A i \in 1 .. Len(f) : f[i] \in 0 .. s
  BY EmptySeq, ElementOfSeq
<1>2. CASE f # <<>> /\ f[1] = NoSample
  <2> DEFINE t == Tail(f)
  <2>1. t \in Seq(0 .. s) /\ Len(t) = Len(f) - 1 /\ \A i \in 1 .. Len(t) : t[i] = f[i + 1]
    BY <1>2, HeadTailProperties
  <2>2. Samples(f) = t /\ Count(f) = Len(f) - 1
    BY <1>2 DEF Samples, Count
  <2> HIDE DEF t
  <2>3. ASSUME NEW i \in 1 .. Len(t)
        PROVE  i + 1 \in 1 .. Len(f) /\ t[i] = f[i + 1] /\ t[i] # NoSample
    <3>1. i + 1 \in 1 .. Len(f) /\ 1 \in 1 .. Len(f) /\ 1 < i + 1
      BY <1>1, <2>1
    <3>2. f[1] < f[i + 1]
      BY <3>1 DEF Rising
    <3> QED
      BY <1>1, <1>2, <2>1, <3>1, <3>2 DEF NoSample
  <2>4. Rising(t)
    <3>1. ASSUME NEW i \in 1 .. Len(t), NEW j \in 1 .. Len(t), i < j PROVE t[i] < t[j]
      BY <2>3, <3>1 DEF Rising
    <3> QED
      BY <3>1 DEF Rising
  <2> QED
    BY <1>1, <1>2, <2>1, <2>2, <2>3, <2>4
<1>3. CASE ~(f # <<>> /\ f[1] = NoSample)
  <2>1. Samples(f) = f /\ Count(f) = Len(f)
    BY <1>3 DEF Samples, Count
  <2>2. ASSUME NEW i \in 1 .. Len(f) PROVE f[i] # NoSample
    <3>1. f[1] \in 0 .. s /\ f[1] # NoSample /\ 1 \in 1 .. Len(f)
      BY <1>1, <1>3, EmptySeq
    <3>2. i = 1 \/ f[1] < f[i]
      BY <1>1, <3>1 DEF Rising
    <3> QED
      BY <1>1, <3>1, <3>2 DEF NoSample
  <2> QED
    BY <1>1, <2>1, <2>2
<1> QED
  BY <1>2, <1>3

(* One rising file after another that begins above it. *)
LEMMA RisingConcat ==
    ASSUME NEW s \in Nat, NEW a \in Seq(0 .. s), NEW b \in Seq(0 .. s), Rising(a), Rising(b),
           \A i \in 1 .. Len(a), j \in 1 .. Len(b) : a[i] < b[j]
    PROVE  /\ a \o b \in Seq(0 .. s) /\ Len(a \o b) = Len(a) + Len(b) /\ Rising(a \o b)
<1> DEFINE c == a \o b
<1>1. /\ Len(a) \in Nat /\ Len(b) \in Nat /\ c \in Seq(0 .. s) /\ Len(c) = Len(a) + Len(b)
      /\ \A i \in 1 .. Len(a) + Len(b) : c[i] = IF i <= Len(a) THEN a[i] ELSE b[i - Len(a)]
  BY ConcatProperties, LenProperties
<1> HIDE DEF c
<1>2. ASSUME NEW i \in 1 .. Len(c), NEW j \in 1 .. Len(c), i < j PROVE c[i] < c[j]
  <2>1. CASE j <= Len(a)
    <3>1. i \in 1 .. Len(a) /\ j \in 1 .. Len(a) /\ c[i] = a[i] /\ c[j] = a[j]
      BY <1>1, <1>2, <2>1
    <3> QED
      BY <1>2, <3>1 DEF Rising
  <2>2. CASE i <= Len(a) /\ Len(a) < j
    <3>1. i \in 1 .. Len(a) /\ j - Len(a) \in 1 .. Len(b) /\ c[i] = a[i] /\ c[j] = b[j - Len(a)]
      BY <1>1, <1>2, <2>2
    <3> QED
      BY <3>1
  <2>3. CASE Len(a) < i
    <3>1. /\ i - Len(a) \in 1 .. Len(b) /\ j - Len(a) \in 1 .. Len(b) /\ i - Len(a) < j - Len(a)
          /\ c[i] = b[i - Len(a)] /\ c[j] = b[j - Len(a)]
      <4>1. i \in 1 .. Len(a) + Len(b) /\ j \in 1 .. Len(a) + Len(b)
        BY <1>1
      <4>2. i \in Nat /\ j \in Nat /\ Len(a) \in Nat /\ Len(b) \in Nat
            /\ i <= Len(a) + Len(b) /\ j <= Len(a) + Len(b) /\ Len(a) < j
        BY <1>1, <1>2, <2>3, <4>1
      <4>3. ~(i <= Len(a)) /\ ~(j <= Len(a))
        BY <2>3, <4>2
      <4>4. c[i] = b[i - Len(a)] /\ c[j] = b[j - Len(a)]
        BY <1>1, <4>1, <4>3
      <4> QED
        BY <1>2, <2>3, <4>2, <4>4
    <3> QED
      BY <3>1 DEF Rising
  <2>4. i \in Nat /\ j \in Nat /\ Len(a) \in Nat
    BY <1>1
  <2>5. j <= Len(a) \/ (i <= Len(a) /\ Len(a) < j) \/ Len(a) < i
    BY <2>4
  <2> QED
    BY <2>1, <2>2, <2>3, <2>5
<1>3. Rising(c)
  BY <1>2 DEF Rising
<1> QED
  BY <1>1, <1>3 DEF c

(* Rotation never loses the newest samples: the two files hold the last    *)
(* ones stored, in order, and as many as fill a file but for its header,   *)
(* whatever appends fail and wherever resets interrupt a rotation.         *)
THEOREM HistorySafety == Spec => []HistoryKept
<1>1. FileInv /\ HistoryInv => HistoryKept
  <2> SUFFICES ASSUME FileInv, HistoryInv PROVE HistoryKept
    OBVIOUS
  <2> DEFINE old == previous["telemetry"]
             new == current["telemetry"]
  <2>1. sampled \in Nat /\ old \in Seq(0 .. sampled) /\ new \in Seq(0 .. sampled)
        /\ Rising(old) /\ Rising(new)
    BY DEF FileInv, TypeOK, FileType, Log, HistoryInv
  <2> DEFINE a == Samples(old)
             b == Samples(new)
  <2>2. /\ a \in Seq(0 .. sampled) /\ Rising(a) /\ Len(a) = Count(old)
        /\ \A i \in 1 .. Len(a) : \E m \in 1 .. Len(old) : a[i] = old[m]
    BY <2>1, SamplesFact
  <2>3. /\ b \in Seq(0 .. sampled) /\ Rising(b) /\ Len(b) = Count(new)
        /\ \A i \in 1 .. Len(b) : b[i] # NoSample /\ \E m \in 1 .. Len(new) : b[i] = new[m]
    BY <2>1, SamplesFact
  <2>4. \A i \in 1 .. Len(old), j \in 1 .. Len(new) : new[j] = NoSample \/ old[i] < new[j]
    BY DEF HistoryInv
  <2>5. Len(a) + Len(b) >= Lesser(stored, FullLines("telemetry") - 1)
    BY <2>2, <2>3 DEF HistoryInv
  <2>6. History = a \o b
    BY DEF History
  <2> HIDE DEF a, b, old, new
  <2>7. \A i \in 1 .. Len(a), j \in 1 .. Len(b) : a[i] < b[j]
    BY <2>2, <2>3, <2>4
  <2>8. History \in Seq(0 .. sampled) /\ Len(History) = Len(a) + Len(b) /\ Rising(History)
    BY <2>1, <2>2, <2>3, <2>6, <2>7, RisingConcat
  <2>9. DOMAIN History = 1 .. Len(History)
    BY <2>8, LenProperties
  <2> QED
    BY <2>5, <2>8, <2>9 DEF HistoryKept, Rising
<1> QED
  BY <1>1, FileInit, FileStep, HistoryInit, HistoryStep, PTL DEF Spec
=============================================================================
