--------------------------- MODULE StorageManager ---------------------------
(***************************************************************************)
(* The gateway's files and what is done with them. StorageManager appends  *)
(* to the history, to the events and to the queue of records for a remote  *)
(* server, and rotates each file at its cap; RemoteSync posts the oldest   *)
(* records of the queue and, on a 2xx, rewrites the file without them. All *)
(* of it shares a LittleFS partition with the web page.                    *)
(*                                                                         *)
(* Everything runs on the Arduino loop task; what interleaves with it is   *)
(* the network, the server and a reset of the chip, which loses the memory *)
(* and keeps the files. LittleFS commits a file when it is closed, and     *)
(* commits a remove or a rename at once: the steps are what lies between   *)
(* two commits.                                                            *)
(***************************************************************************)
EXTENDS Naturals, Sequences, FiniteSets, SequencesExt

CONSTANTS
    Blocks,       \* blocks of the LittleFS partition
    Block,        \* bytes of a block
    Fixed,        \* blocks of the web page's files and of the directory
    Line,         \* bytes of a line of each log
    Cap,          \* its maximumBytes
    SyncEnabled,  \* RemoteSync::enabled()
    MaxItems,     \* records of a batch: nextRemoteBatch(8, ...)
    MaxSamples,   \* bound on the samples of one behaviour
    MaxFaults,    \* bound on failed posts, refused files and resets
    ResetPoints   \* where the loop task may be when the chip resets

Log == {"telemetry", "remote", "events"}

(* The loop task inside appendLine, publishNextBatch, acknowledgeRemoteBatch. *)
StorePc == {"idle", "rotate", "rename", "append", "post", "accepted", "remove", "replace"}

ASSUME FlashAssumption == /\ Blocks \in Nat /\ Fixed \in Nat /\ Block \in Nat \ {0}
                          /\ Line \in [Log -> Nat \ {0}] /\ Cap \in [Log -> Nat \ {0}]
ASSUME UseAssumption   == /\ SyncEnabled \in BOOLEAN /\ MaxItems \in Nat \ {0}
                          /\ MaxSamples \in Nat /\ MaxFaults \in Nat
                          /\ ResetPoints \subseteq StorePc

VARIABLES
    current,    \* the lines of each log's file: <<>> when it is absent
    previous,   \* and of its rotated copy, <path>.1
    tmp,        \* the lines of /remote.tmp
    pc,         \* where the loop task is
    todo,       \* the logs it still has to append a line to
    itemCount,  \* records of the batch being posted
    got,        \* records the server has durably accepted
    sampled,    \* samples so far: the records are 1 .. sampled
    stored,     \* how many of them reached /telemetry.csv
    faults

files == <<current, previous, tmp>>
vars  == <<files, pc, todo, itemCount, got, sampled, stored, faults>>

Record == 1 .. MaxSamples

(* A line of telemetry or of the queue is its sample; the header of        *)
(* /telemetry.csv and every event are zero. All lines of a log, and the    *)
(* header, count as equally long.                                          *)
NoSample == 0

Bytes(k, f) == Len(f) * Line[k]

(* A file of history without its header, if it has one: its first line.    *)
Samples(f) == IF f # <<>> /\ f[1] = NoSample THEN Tail(f) ELSE f

(* The lines of a file that has just reached its cap. *)
FullLines(k) == (Cap[k] + Line[k] - 1) \div Line[k]

Lesser(a, b) == IF a < b THEN a ELSE b

Fault == faults < MaxFaults /\ faults' = faults + 1

-----------------------------------------------------------------------------
(* LittleFS. A file takes whole blocks. A block is never overwritten: the  *)
(* new content is written to free blocks, beside the old ones it replaces, *)
(* which are free again once the file is closed. An append shares the full *)
(* blocks of the file and copies the last, partial one.                    *)
BlocksOf(bytes) == (bytes + Block - 1) \div Block

LogBlocks(k) == BlocksOf(Bytes(k, current[k])) + BlocksOf(Bytes(k, previous[k]))

Used == Fixed + LogBlocks("telemetry") + LogBlocks("remote") + LogBlocks("events")
              + BlocksOf(Bytes("remote", tmp))

HasFree(n) == Used + n <= Blocks

AppendFits(k) ==
    LET bytes == Bytes(k, current[k])
    IN  HasFree(BlocksOf(bytes + Line[k]) - bytes \div Block)

-----------------------------------------------------------------------------
(* begin() on a partition that holds the web page only. *)
Init ==
    /\ current = [k \in Log |-> IF k = "telemetry" THEN <<NoSample>> ELSE <<>>]
    /\ previous = [k \in Log |-> <<>>] /\ tmp = <<>>
    /\ pc = "idle" /\ todo = <<>> /\ itemCount = 0
    /\ got = {} /\ sampled = 0 /\ stored = 0 /\ faults = 0

(* recordTelemetry: a line of history and one for the server. *)
RecordTelemetry ==
    /\ pc = "idle" /\ sampled < MaxSamples
    /\ sampled' = sampled + 1
    /\ pc' = "rotate" /\ todo' = <<"telemetry", "remote">>
    /\ UNCHANGED <<files, itemCount, got, stored, faults>>

RecordEvent ==
    /\ pc = "idle"
    /\ pc' = "rotate" /\ todo' = <<"events">>
    /\ UNCHANGED <<files, itemCount, got, sampled, stored, faults>>

(* Variants of Rotate: the size is checked before the line that crosses    *)
(* the cap is counted; the full file itself is removed.                    *)
RotateLate ==
    /\ pc = "rotate"
    /\ LET k == Head(todo)
       IN  IF Bytes(k, current[k]) < Cap[k] + Line[k]
           THEN pc' = "append" /\ UNCHANGED previous
           ELSE pc' = "rename" /\ previous' = [previous EXCEPT ![k] = <<>>]
    /\ UNCHANGED <<current, tmp, todo, itemCount, got, sampled, stored, faults>>

RotateAway ==
    /\ pc = "rotate" /\ pc' = "append"
    /\ LET k == Head(todo)
       IN  current' = IF Bytes(k, current[k]) < Cap[k] THEN current
                      ELSE [current EXCEPT ![k] = <<>>]
    /\ UNCHANGED <<previous, tmp, todo, itemCount, got, sampled, stored, faults>>

(* rotate() up to LittleFS.remove(previous). *)
Rotate ==
    /\ pc = "rotate"
    /\ LET k == Head(todo)
       IN  IF Bytes(k, current[k]) < Cap[k]
           THEN pc' = "append" /\ UNCHANGED previous
           ELSE pc' = "rename" /\ previous' = [previous EXCEPT ![k] = <<>>]
    /\ UNCHANGED <<current, tmp, todo, itemCount, got, sampled, stored, faults>>

(* LittleFS.rename(path, previous) *)
RotateRename ==
    /\ pc = "rename" /\ pc' = "append"
    /\ LET k == Head(todo)
       IN  /\ previous' = [previous EXCEPT ![k] = current[k]]
           /\ current' = [current EXCEPT ![k] = <<>>]
    /\ UNCHANGED <<tmp, todo, itemCount, got, sampled, stored, faults>>

(* The line reaches the file, or the flash is full and nobody looks. *)
AppendLine ==
    /\ pc = "append"
    /\ LET k == Head(todo)
           line == IF k = "events" THEN NoSample ELSE sampled
       IN  IF AppendFits(k)
           THEN /\ current' = [current EXCEPT ![k] = Append(@, line)]
                /\ stored' = IF k = "telemetry" THEN stored + 1 ELSE stored
           ELSE UNCHANGED <<current, stored>>
    /\ todo' = Tail(todo)
    /\ pc' = IF todo' = <<>> THEN "idle" ELSE "rotate"
    /\ UNCHANGED <<previous, tmp, itemCount, got, sampled, faults>>

-----------------------------------------------------------------------------
(* publishNextBatch. *)

(* nextRemoteBatch: the oldest records, MaxItems of them at most. *)
NextBatch ==
    /\ pc = "idle" /\ SyncEnabled /\ current["remote"] # <<>>
    /\ itemCount' = Lesser(Len(current["remote"]), MaxItems)
    /\ pc' = "post"
    /\ UNCHANGED <<files, todo, got, sampled, stored, faults>>

Batch == Range(SubSeq(current["remote"], 1, itemCount))

(* The post is answered with a 2xx: the server has the batch. *)
PostAccepted ==
    /\ pc = "post" /\ pc' = "accepted"
    /\ got' = got \cup Batch
    /\ UNCHANGED <<files, todo, itemCount, sampled, stored, faults>>

(* No 2xx: the post was lost or refused, or it was accepted and the answer *)
(* was lost. The batch stays queued.                                       *)
PostFailed ==
    /\ pc = "post" /\ pc' = "idle" /\ Fault
    /\ got' \in {got, got \cup Batch}
    /\ itemCount' = 0
    /\ UNCHANGED <<files, todo, sampled, stored>>

Unposted == SubSeq(current["remote"], itemCount + 1, Len(current["remote"]))

(* Variants: one record more than the batch is dropped; none is dropped;   *)
(* the copy is opened for appending.                                       *)
AckCopyOneShort ==
    /\ pc = "accepted" /\ pc' = "remove"
    /\ tmp' = SubSeq(current["remote"], itemCount + 2, Len(current["remote"]))
    /\ UNCHANGED <<current, previous, todo, itemCount, got, sampled, stored, faults>>

AckCopyAll ==
    /\ pc = "accepted" /\ pc' = "remove"
    /\ tmp' = current["remote"]
    /\ UNCHANGED <<current, previous, todo, itemCount, got, sampled, stored, faults>>

AckCopyAppends ==
    /\ pc = "accepted" /\ pc' = "remove"
    /\ tmp' = tmp \o Unposted
    /\ UNCHANGED <<current, previous, todo, itemCount, got, sampled, stored, faults>>

(* acknowledgeRemoteBatch copies what follows the batch to /remote.tmp. A  *)
(* copy that finds the flash full is never committed: the file keeps what  *)
(* it held, nothing or what a reset left there, and nobody looks.          *)
AckCopy ==
    /\ pc = "accepted" /\ pc' = "remove"
    /\ tmp' = IF HasFree(BlocksOf(Bytes("remote", Unposted))) THEN Unposted ELSE tmp
    /\ UNCHANGED <<current, previous, todo, itemCount, got, sampled, stored, faults>>

(* A file cannot be opened: the batch is posted again later. If it was the *)
(* queue, /remote.tmp has been opened and closed, and is empty.            *)
AckOpenFails ==
    /\ pc = "accepted" /\ pc' = "idle" /\ Fault
    /\ itemCount' = 0
    /\ tmp' \in {tmp, <<>>}
    /\ UNCHANGED <<current, previous, todo, got, sampled, stored>>

(* LittleFS.remove("/remote.ndjson") *)
AckRemove ==
    /\ pc = "remove" /\ pc' = "replace"
    /\ current' = [current EXCEPT !["remote"] = <<>>]
    /\ UNCHANGED <<previous, tmp, todo, itemCount, got, sampled, stored, faults>>

(* LittleFS.rename("/remote.tmp", "/remote.ndjson") *)
AckRename ==
    /\ pc = "replace" /\ pc' = "idle"
    /\ current' = [current EXCEPT !["remote"] = tmp] /\ tmp' = <<>>
    /\ itemCount' = 0
    /\ UNCHANGED <<previous, todo, got, sampled, stored, faults>>

(* A reset. begin() gives a missing /telemetry.csv its header again (one   *)
(* that a failed append left empty is not missing), and looks at no other  *)
(* file.                                                                   *)
Reset ==
    /\ pc \in ResetPoints /\ Fault
    /\ pc' = "idle" /\ todo' = <<>> /\ itemCount' = 0
    /\ got' \in (IF pc = "post" THEN {got, got \cup Batch} ELSE {got})
    /\ \/ UNCHANGED current
       \/ /\ current["telemetry"] = <<>> /\ HasFree(1)
          /\ current' = [current EXCEPT !["telemetry"] = <<NoSample>>]
    /\ UNCHANGED <<previous, tmp, sampled, stored>>

Appending == Rotate \/ RotateRename \/ AppendLine
Posting   == PostAccepted \/ AckCopy \/ AckRemove \/ AckRename

Next == \/ RecordTelemetry \/ RecordEvent \/ Appending
        \/ NextBatch \/ Posting \/ PostFailed \/ AckOpenFails \/ Reset

Spec == Init /\ [][Next]_vars

(* loop() runs for ever and calls RemoteSync::loop every pass; a connected *)
(* gateway then posts every REMOTE_SYNC_INTERVAL_MS.                       *)
FairSpec == Spec /\ WF_vars(Appending \/ Posting) /\ SF_vars(NextBatch)

-----------------------------------------------------------------------------
FileType(f, k) == f \in Seq(0 .. sampled) /\ Len(f) <= FullLines(k)

(* The files hold sampled records, and no file outgrows its cap by more    *)
(* than the line that reached it, whatever appends fail and wherever       *)
(* resets interrupt a rotation or a rewrite.                               *)
TypeOK ==
    /\ DOMAIN current = Log /\ DOMAIN previous = Log
    /\ \A k \in Log : FileType(current[k], k) /\ FileType(previous[k], k)
    /\ FileType(tmp, "remote")
    /\ pc \in StorePc
    /\ todo \in {<<>>, <<"telemetry", "remote">>, <<"remote">>, <<"events">>}
    /\ itemCount \in 0 .. MaxItems
    /\ got \subseteq 1 .. sampled
    /\ sampled \in 0 .. MaxSamples /\ stored \in 0 .. sampled /\ faults \in 0 .. MaxFaults

(* The samples on flash, oldest first. *)
History == Samples(previous["telemetry"]) \o Samples(current["telemetry"])

(* Rotation never loses the newest samples: whatever resets interrupt it,  *)
(* the two files hold the last ones stored, in order, and as many of them  *)
(* as fill a file but for its header.                                      *)
HistoryKept ==
    /\ \A i, j \in DOMAIN History : i < j => History[i] < History[j]
    /\ Len(History) >= Lesser(stored, FullLines("telemetry") - 1)

(* No line and no copy is lost for want of a block.                        *)
NothingDropped ==
    /\ pc = "append" => AppendFits(Head(todo))
    /\ pc = "accepted" => HasFree(BlocksOf(Bytes("remote", Unposted)))

(* "If capacity fills, the oldest bounded file rotates": the gateway never *)
(* gets where no log can take a line and none has reached its cap, so that *)
(* no file is ever rotated, or appended to, again.                         *)
NeverJammed ==
    pc = "idle" => \E k \in Log : AppendFits(k) \/ Bytes(k, current[k]) >= Cap[k]

(* The server first learns of the records in the order they were sampled,  *)
(* whatever posts fail, resets happen or files are rotated: nothing that   *)
(* was passed over comes back later.                                       *)
InOrder == [][\A r \in got' \ got : \A q \in got : q < r]_vars

(* While the file is being replaced, the queue is the copy. *)
PendingQueue == IF pc = "replace" THEN tmp ELSE current["remote"]

(* No record stays in the queue for good: whatever failed, a server that   *)
(* answers again empties the queue. With RemovedOnlyWhenAccepted this is   *)
(* delivery of every record that no overflow discards.                     *)
HeadNeverStuck ==
    \A r \in Record : r \in Range(PendingQueue) ~> r \notin Range(PendingQueue)

(* The sample whose record is still to be appended is not offered yet. *)
Offered == IF "remote" \in Range(todo) THEN 1 .. sampled - 1 ELSE 1 .. sampled

Delivery == INSTANCE DeliveryQueue
                WITH offered <- Offered, queue <- PendingQueue, got <- got,
                     Record <- Record, Capacity <- FullLines("remote")

(* The files implement the delivery queue: no record leaves before its 2xx *)
(* except by an overflow.                                                  *)
RemovedOnlyWhenAccepted == Delivery!DQSpec

(* The two steps by which records leave the queue unaccepted and without   *)
(* an overflow: the file is removed when the flash had no room for the     *)
(* copy of the rest; a reset falls between the remove and the rename.      *)
LostOnFullFlash == AckRemove /\ ~HasFree(BlocksOf(Bytes("remote", Unposted)))
LostOnReset     == Reset /\ pc = "replace"

(* On any flash, whatever posts, files and resets do: every other step of  *)
(* the files is one of the delivery queue.                                 *)
NoOtherLoss ==
    /\ Delivery!DQInit
    /\ [][Delivery!DQNext \/ LostOnFullFlash \/ LostOnReset]_<<Offered, PendingQueue, got>>
=============================================================================
