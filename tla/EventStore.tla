----------------------------- MODULE EventStore -----------------------------
(***************************************************************************)
(* JsonlEventStore of crates/harness-core/src/store.rs, down to the writes *)
(* and syncs of its file, through process crashes and power failures.      *)
(*                                                                         *)
(* The file is a sequence of newline-terminated lines and a tail after the *)
(* last newline.  A crash keeps what was written; a power failure keeps    *)
(* what was synced and any prefix of the rest, cut anywhere, also inside a *)
(* line.  An open or an append that returns an I/O error leaves the file   *)
(* as a crash at that point would.                                         *)
(***************************************************************************)
EXTENDS Naturals, Sequences, TLC

CONSTANTS
    Data,           \* what a record says
    MaxRecords,     \* bound: sequence numbers
    MaxFaults       \* bound: crashes, power failures and I/O errors

ASSUME StoreBounds == MaxRecords \in Nat /\ MaxFaults \in Nat

VARIABLES
    file,       \* the lines of the file
    tail,       \* <<>> or <<what follows the last newline>>
    durable,    \* how many lines no power failure takes away
    undo,       \* <<>> or <<the torn record that an unsynced truncation removed>>
    archive,    \* torn records saved in backup files
    mode,       \* what the process is doing with the file
    record,     \* the record being appended
    mem,        \* JsonlState.events, kept while down for the refinement
    failed,     \* JsonlState.write_failed, kept likewise
    acked,      \* ghost: how many events the last successful append covered
    maybe,      \* ghost: <<>> or <<the record of a failed append, if in the file>>
    cut,        \* ghost: torn records removed from the file
    faults

vars == <<file, tail, durable, undo, archive, mode, record, mem, failed, acked,
          maybe, cut, faults>>
disk == <<file, tail, durable, undo, archive, cut>>
ghosts == <<acked, maybe>>

Records == [sequence : 0..MaxRecords, data : Data]
Writing == {"json", "newline", "sync"}

\* A line that does not parse.
Bad == [sequence |-> MaxRecords + 1, data |-> "bad"]

\* What may follow the last newline: part of a record, a whole record without
\* its newline, or text that is neither.
Tail1(kind, r) == <<[kind |-> kind, record |-> r]>>

\* The whole records in the file, which the next open reads.
Readable == IF tail # <<>> /\ tail[1].kind = "whole"
            THEN Append(file, tail[1].record) ELSE file

\* events.sort_by_key, which is stable: a sorted sequence stays as it is.
BySequence(events) ==
    IF \A i, j \in DOMAIN events : i < j => events[i].sequence <= events[j].sequence
    THEN events
    ELSE SortSeq(events, LAMBDA a, b : a.sequence < b.sequence)

\* The greatest sequence number, which is the last, plus one.
NextSequence(events) ==
    IF events = <<>> THEN 0 ELSE events[Len(events)].sequence + 1

-----------------------------------------------------------------------------
(* open                                                                    *)

\* The store is ready: events and next_sequence come from the lines read.
Ready(events) ==
    /\ mode' = "up"
    /\ mem' = BySequence(events)
    /\ failed' = FALSE
    /\ maybe' = <<>>

\* The scan, up to the first modification of the file.
Open ==
    /\ mode = "down"
    /\ \/ /\ tail = <<>> /\ \A i \in DOMAIN file : file[i] # Bad
          /\ Ready(file)
       \/ /\ tail # <<>> /\ tail[1].kind = "torn" /\ \A i \in DOMAIN file : file[i] # Bad
          /\ mode' = "backup"
          /\ UNCHANGED <<mem, failed, maybe>>
       \/ /\ tail # <<>> /\ tail[1].kind = "whole" /\ \A i \in DOMAIN file : file[i] # Bad
          /\ mode' = "complete"
          /\ UNCHANGED <<mem, failed, maybe>>
       \/ /\ \/ \E i \in DOMAIN file : file[i] = Bad
             \/ tail # <<>> /\ tail[1].kind = "bad"
          /\ mode' = "corrupt"
          /\ UNCHANGED <<mem, failed, maybe>>
    /\ UNCHANGED <<disk, record, acked, faults>>

\* Mutated form: the log is repaired before the tail is saved.
BackupLater ==
    /\ mode = "backup"
    /\ mode' = "truncate"
    /\ UNCHANGED <<disk, record, mem, failed, ghosts, faults>>

\* The torn tail is saved in a file of its own, synced with its directory.
Backup ==
    /\ mode = "backup"
    /\ archive' = archive \cup {tail[1].record}
    /\ mode' = "truncate"
    /\ UNCHANGED <<file, tail, durable, undo, record, mem, failed, ghosts, cut, faults>>

\* set_len(valid_bytes)
Truncate ==
    /\ mode = "truncate"
    /\ undo' = <<[at |-> Len(file), record |-> tail[1].record]>>
    /\ cut' = cut \cup {tail[1].record}
    /\ tail' = <<>>
    /\ mode' = "settle"
    /\ UNCHANGED <<file, durable, archive, record, mem, failed, ghosts, faults>>

\* sync_all after the truncation
Settle ==
    /\ mode = "settle"
    /\ undo' = <<>>
    /\ durable' = Len(file)
    /\ Ready(file)
    /\ UNCHANGED <<file, tail, archive, cut, record, acked, faults>>

\* The newline of a complete last record is written.
Complete ==
    /\ mode = "complete" /\ tail # <<>>
    /\ file' = Append(file, tail[1].record)
    /\ tail' = <<>>
    /\ UNCHANGED <<durable, undo, archive, mode, record, mem, failed, ghosts, cut, faults>>

\* sync_data after that newline
CompleteSync ==
    /\ mode = "complete" /\ tail = <<>>
    /\ undo' = <<>>
    /\ durable' = Len(file)
    /\ Ready(file)
    /\ UNCHANGED <<file, tail, archive, cut, record, acked, faults>>

-----------------------------------------------------------------------------
(* append                                                                  *)

\* The record gets the next sequence number; until the append is done the
\* store counts as failed.
Begin(data) ==
    /\ mode = "up" /\ ~failed
    /\ NextSequence(mem) < MaxRecords
    /\ record' = [sequence |-> NextSequence(mem), data |-> data]
    /\ failed' = TRUE
    /\ mode' = "json"
    /\ UNCHANGED <<disk, mem, ghosts, faults>>

\* What the tail becomes when the record, or part of it, is written behind it.
Written(kind) ==
    IF tail = <<>> THEN Tail1(kind, record) ELSE Tail1("bad", Bad)

\* write_all of the encoded record
WriteJson ==
    /\ mode = "json"
    /\ tail' = Written("whole")
    /\ mode' = "newline"
    /\ UNCHANGED <<file, durable, undo, archive, record, mem, failed, ghosts, cut, faults>>

\* write_all of the newline
WriteNewline ==
    /\ mode = "newline"
    /\ file' = Append(file, tail[1].record)
    /\ tail' = <<>>
    /\ mode' = "sync"
    /\ UNCHANGED <<durable, undo, archive, record, mem, failed, ghosts, cut, faults>>

\* Mutated form: the envelope is returned without a sync.
SyncSkipped ==
    /\ mode = "sync"
    /\ failed' = FALSE
    /\ mem' = Append(mem, record)
    /\ acked' = Len(mem) + 1
    /\ mode' = "up"
    /\ UNCHANGED <<file, tail, undo, durable, archive, record, maybe, cut, faults>>

\* sync_data, and the append returns the envelope.
Sync ==
    /\ mode = "sync"
    /\ undo' = <<>>
    /\ durable' = Len(file)
    /\ failed' = FALSE
    /\ mem' = Append(mem, record)
    /\ acked' = Len(mem) + 1
    /\ mode' = "up"
    /\ UNCHANGED <<file, tail, archive, record, maybe, cut, faults>>

\* The record of an append that did not finish, if it is whole in the file.
Leftover == IF Len(Readable) > Len(mem) THEN <<record>> ELSE <<>>

\* Mutated form: the store stays usable after an I/O error.
FailUnpoisoned ==
    /\ mode \in Writing
    /\ faults < MaxFaults
    /\ faults' = faults + 1
    /\ mode' = "up"
    /\ failed' = FALSE
    /\ tail' \in IF mode = "json" THEN {tail, Written("torn"), Written("whole")} ELSE {tail}
    /\ maybe' = IF mode = "sync" \/ (tail' # <<>> /\ tail'[1].kind = "whole")
                THEN <<record>> ELSE <<>>
    /\ UNCHANGED <<file, durable, undo, archive, record, mem, acked, cut>>

\* One of the writes, or the sync, returns an error: append returns it, and
\* write_failed stays set.  A failed write_all may have written a part.
Fail ==
    /\ mode \in Writing
    /\ faults < MaxFaults
    /\ faults' = faults + 1
    /\ mode' = "up"
    /\ tail' \in IF mode = "json" THEN {tail, Written("torn"), Written("whole")} ELSE {tail}
    /\ maybe' = IF mode = "sync" \/ (tail' # <<>> /\ tail'[1].kind = "whole")
                THEN <<record>> ELSE <<>>
    /\ UNCHANGED <<file, durable, undo, archive, record, mem, failed, acked, cut>>

-----------------------------------------------------------------------------
(* Faults.                                                                 *)

\* The process is gone; an append it was in the middle of has failed.
Gone ==
    /\ faults < MaxFaults
    /\ faults' = faults + 1
    /\ mode' = "down"
    /\ maybe' = IF mode \in Writing THEN Leftover ELSE maybe
    /\ UNCHANGED <<archive, record, mem, failed, acked, cut>>

Crash ==
    /\ mode \notin {"down", "corrupt"}
    /\ Gone
    /\ UNCHANGED <<file, tail, durable, undo>>

\* What is left of a tail, cut anywhere.
Cuts(t) == {<<>>, t} \cup IF t = <<>> THEN {} ELSE {Tail1("torn", t[1].record)}

PowerFailure ==
    /\ mode # "corrupt"
    /\ Gone
    /\ undo' = <<>>
    /\ \/ /\ file' = file
          /\ tail' \in Cuts(tail)
       \/ \E k \in durable..Len(file) - 1 :
             /\ file' = SubSeq(file, 1, k)
             /\ tail' \in Cuts(Tail1("whole", file[k + 1]))
       \/ /\ undo # <<>>
          /\ file' = SubSeq(file, 1, undo[1].at)
          /\ tail' = Tail1("torn", undo[1].record)
    /\ UNCHANGED durable

-----------------------------------------------------------------------------
Init ==
    /\ file = <<>> /\ tail = <<>> /\ durable = 0 /\ undo = <<>> /\ archive = {}
    /\ mode = "up" /\ record = Bad /\ mem = <<>> /\ failed = FALSE
    /\ acked = 0 /\ maybe = <<>> /\ cut = {} /\ faults = 0

Next ==
    \/ Open \/ Backup \/ Truncate \/ Settle \/ Complete \/ CompleteSync
    \/ \E data \in Data : Begin(data)
    \/ WriteJson \/ WriteNewline \/ Sync \/ Fail
    \/ Crash \/ PowerFailure

Spec == Init /\ [][Next]_vars

-----------------------------------------------------------------------------
(* Properties.                                                             *)

(***************************************************************************)
(* The store never meets a file of its own making that it refuses to open: *)
(* nothing is ever appended behind a partial record.                       *)
(***************************************************************************)
NeverCorrupt == mode # "corrupt"

(***************************************************************************)
(* A torn record is cut off the log only after its bytes are safe in a     *)
(* backup file.                                                            *)
(***************************************************************************)
TornIsArchived == cut \subseteq archive

Promise == INSTANCE DurableLog WITH
    log <- mem, synced <- acked, pending <- maybe,
    broken <- failed /\ mode \notin Writing

(***************************************************************************)
(* The JSONL store keeps the promise that the runtime is built on: its     *)
(* writes, syncs, repairs and faults implement the appends, failures and   *)
(* reopenings of DurableLog.                                               *)
(***************************************************************************)
KeepsPromise ==
    Promise!StoreInit /\ [][Promise!StoreNext(Records)]_<<Promise!storeVars>>
=============================================================================
