-------------------------- MODULE EventStoreProofs --------------------------
(***************************************************************************)
(* Proofs about EventStore, for every set of data and every bound: the     *)
(* file never becomes unreadable, no torn record is cut off unsaved, and   *)
(* the JSONL store implements DurableLog.                                  *)
(*                                                                         *)
(* The inductive invariant StoreInv says what the file holds in each mode, *)
(* compared with what the process has in memory.  The refinement needs     *)
(* above all that whatever the next open would read is a prefix of memory  *)
(* and the pending record, which no fault cuts below what was synced.      *)
(***************************************************************************)
EXTENDS EventStore, SequenceTheorems, TLAPS

Modes == {"up", "down", "backup", "truncate", "settle", "complete", "corrupt"}
           \cup Writing

\* A log whose records are numbered by their positions.
Numbered(s) ==
    /\ s \in Seq(Records)
    /\ \A i \in 1..Len(s) : s[i].sequence = i - 1

\* Nothing, or one record that continues the log.
Optional(s, next) == s = <<>> \/ \E r \in Records : s = <<r>> /\ r.sequence = next

\* What the process knows of the log, in memory or from a failed append.
Known == mem \o maybe

\* s is a prefix of t.
Prefix(s, t) == Len(s) <= Len(t) /\ \A i \in 1..Len(s) : s[i] = t[i]

\* Types, and the numbering of everything that is or was in the file.
StoreTypeOK ==
    /\ Numbered(file) /\ Numbered(mem)
    /\ tail = <<>> \/ \E kind \in {"torn", "whole"}, r \in Records :
                         tail = Tail1(kind, r) /\ r.sequence = Len(file)
    /\ Optional(maybe, Len(mem))
    /\ undo = <<>> \/ \E n \in 0..Len(file), r \in Records :
                         /\ undo = <<[at |-> n, record |-> r]>>
                         /\ r.sequence = n /\ durable <= n /\ r \in archive
    /\ mode \in Modes /\ failed \in BOOLEAN /\ faults \in Nat
    /\ durable \in Nat /\ acked \in Nat

\* What a power failure cannot take away.
SyncedSafe == acked <= durable /\ durable <= Len(file) /\ acked <= Len(mem)

\* Each mode of open has the tail that its steps expect, and open modifies the
\* file only where that loses nothing.
OpenInv ==
    /\ mode # "corrupt"
    /\ mode \in {"backup", "truncate"} => tail # <<>> /\ tail[1].kind = "torn"
    /\ mode = "truncate" => tail[1].record \in archive
    /\ mode = "settle" => tail = <<>>
    /\ mode = "complete" => tail = <<>> \/ tail[1].kind = "whole"
    /\ cut \subseteq archive

\* An append writes behind the last newline, and the file has what memory has
\* until the newline is written.
AppendInv ==
    /\ mode \in Writing => /\ failed /\ maybe = <<>>
                           /\ record \in Records /\ record.sequence = Len(mem)
    /\ mode = "json" => file = mem /\ tail = <<>>
    /\ mode = "newline" => file = mem /\ tail = Tail1("whole", record)
    /\ mode = "sync" => file = Append(mem, record) /\ tail = <<>>
    /\ mode = "up" /\ ~failed => file = mem /\ tail = <<>> /\ maybe = <<>>

\* Outside an append the next open reads a prefix of what the process knows.
KnownInv == mode \notin Writing => Prefix(Readable, Known)

StoreInv == StoreTypeOK /\ SyncedSafe /\ OpenInv /\ AppendInv /\ KnownInv

-----------------------------------------------------------------------------
(* The operators.                                                          *)

\* A record numbered by the length of a log extends it.
LEMMA NumberedAppend ==
    ASSUME NEW s, Numbered(s), NEW r \in Records, r.sequence = Len(s)
    PROVE  /\ Numbered(Append(s, r))
           /\ Len(Append(s, r)) = Len(s) + 1
           /\ \A i \in 1..Len(s) : Append(s, r)[i] = s[i]
           /\ Append(s, r)[Len(s) + 1] = r
BY AppendProperties, LenProperties DEF Numbered

\* A log that loses its end, as in a power failure, is still numbered.
LEMMA NumberedCut ==
    ASSUME NEW s, Numbered(s), NEW k \in 0..Len(s)
    PROVE  /\ Numbered(SubSeq(s, 1, k))
           /\ Len(SubSeq(s, 1, k)) = k
           /\ \A i \in 1..k : SubSeq(s, 1, k)[i] = s[i]
<1>1. s \in Seq(Records) /\ Len(s) \in Nat /\ k \in Nat /\ k <= Len(s)
  BY LenProperties DEF Numbered
<1>2. \A i \in 1..k : s[i] \in Records
  BY <1>1, ElementOfSeq
<1>3. /\ SubSeq(s, 1, k) \in Seq(Records)
      /\ Len(SubSeq(s, 1, k)) = IF 1 <= k THEN k - 1 + 1 ELSE 0
      /\ \A i \in 1..k - 1 + 1 : SubSeq(s, 1, k)[i] = s[1 + i - 1]
  BY <1>1, <1>2, SubSeqProperties
<1>4. Len(SubSeq(s, 1, k)) = k /\ \A i \in 1..k : SubSeq(s, 1, k)[i] = s[i]
  BY <1>1, <1>3
<1> QED
  BY <1>1, <1>3, <1>4 DEF Numbered

\* next_sequence of a numbered log is its length.
LEMMA NextIsLength ==
    ASSUME NEW s, Numbered(s)
    PROVE  NextSequence(s) = Len(s) /\ Len(s) \in Nat
<1>1. Len(s) \in Nat /\ s \in Seq(Records)
  BY LenProperties DEF Numbered
<1>2. CASE s = <<>>
  BY <1>2 DEF NextSequence
<1>3. CASE s # <<>>
  <2>1. Len(s) \in 1..Len(s)
    BY <1>1, <1>3, EmptySeq
  <2>2. s[Len(s)].sequence = Len(s) - 1
    BY <2>1 DEF Numbered
  <2> QED
    BY <1>1, <1>3, <2>2 DEF NextSequence
<1> QED
  BY <1>2, <1>3

\* The stable sort of open leaves a numbered log as it is.
LEMMA SortedAlready ==
    ASSUME NEW s, Numbered(s)
    PROVE  BySequence(s) = s
<1>1. DOMAIN s = 1..Len(s) /\ Len(s) \in Nat
  BY LenProperties DEF Numbered
<1>2. \A i, j \in DOMAIN s : i < j => s[i].sequence <= s[j].sequence
  BY <1>1 DEF Numbered
<1> QED
  BY <1>2 DEF BySequence

\* What the process knows of the log is numbered.
LEMMA KnownNumbered ==
    ASSUME NEW s, NEW t, Numbered(s), Optional(t, Len(s))
    PROVE  /\ Numbered(s \o t)
           /\ Len(s \o t) = Len(s) + Len(t) /\ Len(t) \in Nat
           /\ \A i \in 1..Len(s) : (s \o t)[i] = s[i]
<1>1. s \in Seq(Records) /\ Len(s) \in Nat
  BY LenProperties DEF Numbered
<1>2. CASE t = <<>>
  BY <1>1, <1>2, ConcatEmptySeq, EmptySeq DEF Numbered
<1>3. CASE t # <<>>
  <2>1. PICK r \in Records : t = <<r>> /\ r.sequence = Len(s)
    BY <1>3 DEF Optional
  <2>2. s \o t = Append(s, r) /\ Len(t) = 1
    BY <1>1, <2>1, AppendIsConcat
  <2>3. /\ Numbered(Append(s, r))
        /\ Len(Append(s, r)) = Len(s) + 1
        /\ \A i \in 1..Len(s) : Append(s, r)[i] = s[i]
    BY <2>1, NumberedAppend
  <2> QED
    BY <1>1, <2>2, <2>3
<1> QED
  BY <1>2, <1>3

\* No record of the log is the line that does not parse.
LEMMA NeverBad ==
    ASSUME NEW r \in Records
    PROVE  r # Bad /\ r.sequence \in Nat
BY StoreBounds DEF Records, Bad

\* What the next open reads: the lines, and a whole record behind them.
LEMMA ReadableShape ==
    ASSUME StoreTypeOK
    PROVE  /\ Numbered(Readable)
           /\ (tail = <<>> \/ tail[1].kind = "torn") => Readable = file
           /\ (tail # <<>> /\ tail[1].kind = "whole") =>
                 /\ Readable = Append(file, tail[1].record)
                 /\ Len(Readable) = Len(file) + 1
           /\ tail # <<>> => /\ tail[1].record \in Records
                             /\ tail[1].record.sequence = Len(file)
                             /\ tail[1].kind \in {"torn", "whole"}
                             /\ tail = Tail1(tail[1].kind, tail[1].record)
<1>1. CASE tail = <<>>
  BY <1>1 DEF Readable, StoreTypeOK
<1>2. CASE tail # <<>>
  <2>1. PICK kind \in {"torn", "whole"}, r \in Records :
           tail = Tail1(kind, r) /\ r.sequence = Len(file)
    BY <1>2 DEF StoreTypeOK
  <2>2. tail[1].kind = kind /\ tail[1].record = r
    BY <2>1 DEF Tail1
  <2>3. Numbered(Append(file, r)) /\ Len(Append(file, r)) = Len(file) + 1
    BY <2>1, NumberedAppend DEF StoreTypeOK
  <2> QED
    BY <1>2, <2>1, <2>2, <2>3 DEF Readable, StoreTypeOK
<1> QED
  BY <1>1, <1>2

-----------------------------------------------------------------------------
(* The invariant is inductive: one lemma for each group of steps.          *)

\* A new store has an empty file and an empty log.
LEMMA InitHolds == Init => StoreInv
<1> SUFFICES ASSUME Init PROVE StoreInv
  OBVIOUS
<1>1. Numbered(<<>>)
  BY EmptySeq DEF Numbered
<1>2. StoreTypeOK
  BY <1>1 DEF Init, StoreTypeOK, Optional, Modes
<1>3. SyncedSafe /\ OpenInv /\ AppendInv
  BY DEF Init, SyncedSafe, OpenInv, AppendInv, Writing
<1>4. Readable = <<>> /\ Known = <<>>
  BY DEF Init, Readable, Known
<1> QED
  BY <1>2, <1>3, <1>4 DEF StoreInv, KnownInv, Prefix

\* The store becomes ready with exactly the lines of the file.
LEMMA ReadyStep ==
    ASSUME StoreInv, tail = <<>>, mode \notin Writing, Ready(file),
           tail' = tail, file' = file, archive' = archive, cut' = cut,
           faults' = faults, acked' = acked,
           \/ undo' = undo /\ durable' = durable
           \/ undo' = <<>> /\ durable' = Len(file)
    PROVE  StoreInv' /\ mem' = file
<1>1. StoreTypeOK /\ SyncedSafe /\ OpenInv /\ Len(file) \in Nat
  BY NextIsLength DEF StoreInv, StoreTypeOK
<1>2. mem' = file /\ maybe' = <<>> /\ failed' = FALSE /\ mode' = "up"
  BY <1>1, SortedAlready DEF Ready, StoreTypeOK
<1>3. acked <= durable' /\ durable' <= Len(file) /\ durable' \in Nat
  BY <1>1 DEF SyncedSafe, StoreTypeOK
<1>4. Numbered(file)' /\ Numbered(mem)'
  BY <1>1, <1>2 DEF StoreTypeOK, Numbered, Records
<1>6. StoreTypeOK'
  BY <1>1, <1>2, <1>3, <1>4 DEF StoreTypeOK, Optional, Modes, Tail1, Records
<1>7. SyncedSafe' /\ OpenInv' /\ AppendInv'
  BY <1>1, <1>2, <1>3 DEF SyncedSafe, OpenInv, AppendInv, Writing, StoreTypeOK
<1>8. Readable' = file /\ Known' = file
  BY <1>1, <1>2, ConcatEmptySeq DEF Readable, Known, StoreTypeOK, Numbered
<1>9. KnownInv'
  BY <1>1, <1>8 DEF KnownInv, Prefix
<1> QED
  BY <1>2, <1>6, <1>7, <1>9 DEF StoreInv

\* The scan of open finds nothing that it would refuse.
LEMMA OpenStep == StoreInv /\ Open => StoreInv'
<1> SUFFICES ASSUME StoreInv, Open PROVE StoreInv'
  OBVIOUS
<1>1. StoreTypeOK /\ mode = "down" /\ mode \notin Writing
  BY DEF StoreInv, Open, Writing
<1>2. \A i \in DOMAIN file : file[i] # Bad
  BY <1>1, LenProperties, ElementOfSeq, NeverBad DEF StoreTypeOK, Numbered
<1>3. tail # <<>> => tail[1].kind # "bad"
  BY <1>1, ReadableShape
<1>4. CASE tail = <<>> /\ Ready(file)
  BY <1>1, <1>4, ReadyStep DEF Open, disk
<1>5. CASE /\ \/ tail # <<>> /\ tail[1].kind = "torn" /\ mode' = "backup"
              \/ tail # <<>> /\ tail[1].kind = "whole" /\ mode' = "complete"
           /\ UNCHANGED <<mem, failed, maybe>>
  <2>1. UNCHANGED <<file, tail, durable, undo, archive, cut, mem, failed, maybe,
                    record, acked, faults>>
    BY <1>5 DEF Open, disk
  <2>2. StoreTypeOK'
    BY <1>1, <1>5, <2>1 DEF StoreTypeOK, Modes, Numbered, Records, Optional, Tail1
  <2>3. SyncedSafe' /\ OpenInv' /\ AppendInv'
    BY <1>1, <1>5, <2>1 DEF StoreInv, SyncedSafe, OpenInv, AppendInv, Writing
  <2>4. KnownInv'
    BY <1>1, <1>5, <2>1 DEF StoreInv, KnownInv, Prefix, Readable, Known
  <2> QED
    BY <2>2, <2>3, <2>4 DEF StoreInv
<1> QED
  BY <1>2, <1>3, <1>4, <1>5 DEF Open

\* The torn record is in its backup file before the log is cut.
LEMMA BackupStep == StoreInv /\ Backup => StoreInv'
<1> SUFFICES ASSUME StoreInv, Backup PROVE StoreInv'
  OBVIOUS
<1>1. /\ StoreTypeOK /\ mode = "backup" /\ mode' = "truncate"
      /\ archive' = archive \cup {tail[1].record}
      /\ UNCHANGED <<file, tail, durable, undo, record, mem, failed, acked, maybe, cut,
                     faults>>
  BY DEF StoreInv, Backup, ghosts
<1>2. StoreTypeOK'
  BY <1>1 DEF StoreTypeOK, Modes, Numbered, Records, Optional, Tail1
<1>3. SyncedSafe' /\ OpenInv' /\ AppendInv'
  BY <1>1 DEF StoreInv, SyncedSafe, OpenInv, AppendInv, Writing
<1>4. KnownInv'
  BY <1>1 DEF StoreInv, KnownInv, Prefix, Readable, Known, Writing
<1> QED
  BY <1>2, <1>3, <1>4 DEF StoreInv

\* The cut removes only what no open reads.
LEMMA TruncateStep == StoreInv /\ Truncate => StoreInv'
<1> SUFFICES ASSUME StoreInv, Truncate PROVE StoreInv'
  OBVIOUS
<1>1. /\ StoreTypeOK /\ SyncedSafe /\ mode = "truncate" /\ mode' = "settle"
      /\ undo' = <<[at |-> Len(file), record |-> tail[1].record]>>
      /\ cut' = cut \cup {tail[1].record} /\ tail' = <<>>
      /\ UNCHANGED <<file, durable, archive, record, mem, failed, acked, maybe, faults>>
  BY DEF StoreInv, Truncate, ghosts
<1>2. /\ tail # <<>> /\ tail[1].kind = "torn" /\ tail[1].record \in archive
      /\ Readable = file /\ Len(file) \in Nat
      /\ tail[1].record \in Records /\ tail[1].record.sequence = Len(file)
  BY <1>1, ReadableShape, NextIsLength DEF StoreInv, OpenInv, StoreTypeOK
<1>3. StoreTypeOK'
  <2>1. \E n \in 0..Len(file)', r \in Records :
            /\ undo' = <<[at |-> n, record |-> r]>>
            /\ r.sequence = n /\ durable' <= n /\ r \in archive'
    BY <1>1, <1>2 DEF SyncedSafe
  <2> QED
    BY <1>1, <2>1 DEF StoreTypeOK, Modes, Numbered, Records, Optional, Tail1
<1>4. SyncedSafe' /\ OpenInv' /\ AppendInv'
  BY <1>1, <1>2 DEF StoreInv, SyncedSafe, OpenInv, AppendInv, Writing
<1>5. KnownInv'
  BY <1>1, <1>2 DEF StoreInv, KnownInv, Prefix, Readable, Known, Writing
<1> QED
  BY <1>3, <1>4, <1>5 DEF StoreInv

\* Both repairs end with a sync, and the store is ready.
LEMMA RepairedStep == StoreInv /\ (Settle \/ CompleteSync) => StoreInv' /\ mem' = file
<1> SUFFICES ASSUME StoreInv, Settle \/ CompleteSync PROVE StoreInv' /\ mem' = file
  OBVIOUS
<1>1. tail = <<>> /\ mode \notin Writing /\ Ready(file)
  BY DEF StoreInv, OpenInv, Settle, CompleteSync, Writing
<1> QED
  BY <1>1, ReadyStep DEF Settle, CompleteSync

\* The missing newline makes a line of the record that was already read as one.
LEMMA CompleteStep == StoreInv /\ Complete => StoreInv'
<1> SUFFICES ASSUME StoreInv, Complete PROVE StoreInv'
  OBVIOUS
<1>1. /\ StoreTypeOK /\ SyncedSafe /\ mode = "complete" /\ tail # <<>>
      /\ tail[1].kind = "whole"
      /\ file' = Append(file, tail[1].record) /\ tail' = <<>>
      /\ UNCHANGED <<durable, undo, archive, mode, record, mem, failed, acked, maybe, cut,
                     faults>>
  BY DEF StoreInv, OpenInv, Complete, ghosts
<1>2. /\ tail[1].record \in Records /\ tail[1].record.sequence = Len(file)
      /\ Readable = file' /\ Len(file) \in Nat
  BY <1>1, ReadableShape, NextIsLength DEF StoreTypeOK
<1>3. Numbered(file') /\ Len(file') = Len(file) + 1
  BY <1>1, <1>2, NumberedAppend DEF StoreTypeOK
<1>4. StoreTypeOK'
  BY <1>1, <1>2, <1>3 DEF StoreTypeOK, Modes, Numbered, Records, Optional, Tail1
<1>5. SyncedSafe' /\ OpenInv' /\ AppendInv'
  BY <1>1, <1>2, <1>3 DEF StoreInv, StoreTypeOK, SyncedSafe, OpenInv, AppendInv, Writing
<1>6. KnownInv'
  BY <1>1, <1>2 DEF StoreInv, KnownInv, Prefix, Readable, Known, Writing
<1> QED
  BY <1>4, <1>5, <1>6 DEF StoreInv

\* An append begins with the next number, on a file that has what memory has.
LEMMA BeginStep == ASSUME StoreInv, NEW data \in Data, Begin(data) PROVE StoreInv'
<1>1. /\ StoreTypeOK /\ SyncedSafe /\ mode = "up" /\ mode' = "json" /\ failed' = TRUE
      /\ ~failed /\ NextSequence(mem) < MaxRecords
      /\ record' = [sequence |-> NextSequence(mem), data |-> data]
      /\ UNCHANGED <<file, tail, durable, undo, archive, mem, acked, maybe, cut, faults>>
  BY DEF StoreInv, Begin, disk, ghosts
<1>2. /\ file = mem /\ tail = <<>> /\ maybe = <<>>
      /\ Len(mem) \in Nat /\ NextSequence(mem) = Len(mem)
  BY <1>1, NextIsLength DEF StoreInv, AppendInv, StoreTypeOK
<1>3. record' \in Records /\ record'.sequence = Len(mem)
  BY <1>1, <1>2, StoreBounds DEF Records
<1>4. StoreTypeOK'
  BY <1>1 DEF StoreTypeOK, Modes, Writing, Numbered, Records, Optional, Tail1
<1>5. SyncedSafe' /\ OpenInv' /\ AppendInv'
  BY <1>1, <1>2, <1>3 DEF StoreInv, SyncedSafe, OpenInv, AppendInv, Writing
<1>6. KnownInv'
  BY <1>1 DEF KnownInv, Writing
<1> QED
  BY <1>4, <1>5, <1>6 DEF StoreInv

\* The record is written behind a newline, never behind a partial record.
LEMMA WriteJsonStep == StoreInv /\ WriteJson => StoreInv'
<1> SUFFICES ASSUME StoreInv, WriteJson PROVE StoreInv'
  OBVIOUS
<1>1. /\ StoreTypeOK /\ mode = "json" /\ mode' = "newline" /\ tail' = Written("whole")
      /\ UNCHANGED <<file, durable, undo, archive, record, mem, failed, acked, maybe, cut,
                     faults>>
  BY DEF StoreInv, WriteJson, ghosts
<1>2. /\ file = mem /\ tail' = Tail1("whole", record) /\ record \in Records
      /\ record.sequence = Len(file)
  BY <1>1 DEF StoreInv, AppendInv, Writing, Written
<1>3. StoreTypeOK'
  <2>1. \E kind \in {"torn", "whole"}, r \in Records :
            tail' = Tail1(kind, r) /\ r.sequence = Len(file')
    BY <1>1, <1>2
  <2> QED
    BY <1>1, <2>1 DEF StoreTypeOK, Modes, Writing, Numbered, Records, Optional, Tail1
<1>4. SyncedSafe' /\ OpenInv' /\ AppendInv'
  BY <1>1, <1>2 DEF StoreInv, SyncedSafe, OpenInv, AppendInv, Writing, Tail1
<1>5. KnownInv'
  BY <1>1 DEF KnownInv, Writing
<1> QED
  BY <1>3, <1>4, <1>5 DEF StoreInv

\* The newline makes a line of the record just written.
LEMMA WriteNewlineStep == StoreInv /\ WriteNewline => StoreInv'
<1> SUFFICES ASSUME StoreInv, WriteNewline PROVE StoreInv'
  OBVIOUS
<1>1. /\ StoreTypeOK /\ SyncedSafe /\ mode = "newline" /\ mode' = "sync"
      /\ file' = Append(file, tail[1].record) /\ tail' = <<>>
      /\ UNCHANGED <<durable, undo, archive, record, mem, failed, acked, maybe, cut,
                     faults>>
  BY DEF StoreInv, WriteNewline, ghosts
<1>2. /\ file = mem /\ tail[1].record = record /\ record \in Records
      /\ record.sequence = Len(file) /\ Len(file) \in Nat
  BY <1>1, NextIsLength DEF StoreInv, AppendInv, Writing, Tail1, StoreTypeOK
<1>3. Numbered(file') /\ Len(file') = Len(file) + 1
  BY <1>1, <1>2, NumberedAppend DEF StoreTypeOK
<1>4. StoreTypeOK'
  BY <1>1, <1>2, <1>3 DEF StoreTypeOK, Modes, Writing, Numbered, Records, Optional, Tail1
<1>5. SyncedSafe' /\ OpenInv' /\ AppendInv'
  BY <1>1, <1>2, <1>3 DEF StoreInv, StoreTypeOK, SyncedSafe, OpenInv, AppendInv, Writing
<1>6. KnownInv'
  BY <1>1 DEF KnownInv, Writing
<1> QED
  BY <1>4, <1>5, <1>6 DEF StoreInv

\* The sync makes everything in the file durable, and memory catches up.
LEMMA SyncStep == StoreInv /\ Sync => StoreInv'
<1> SUFFICES ASSUME StoreInv, Sync PROVE StoreInv'
  OBVIOUS
<1>1. /\ StoreTypeOK /\ mode = "sync" /\ mode' = "up" /\ undo' = <<>> /\ failed' = FALSE
      /\ durable' = Len(file) /\ mem' = Append(mem, record) /\ acked' = Len(mem) + 1
      /\ UNCHANGED <<file, tail, archive, record, maybe, cut, faults>>
  BY DEF StoreInv, Sync
<1>2. /\ file = Append(mem, record) /\ tail = <<>> /\ maybe = <<>>
      /\ record \in Records /\ record.sequence = Len(mem)
  BY <1>1 DEF StoreInv, AppendInv, Writing
<1>3. Len(mem) \in Nat /\ Len(file) = Len(mem) + 1 /\ file \in Seq(Records)
  BY <1>1, <1>2, NextIsLength, NumberedAppend DEF StoreTypeOK, Numbered
<1>4. StoreTypeOK'
  <2>1. Numbered(file)' /\ Numbered(mem)' /\ Len(file)' = Len(mem)'
    BY <1>1, <1>2 DEF StoreTypeOK, Numbered, Records
  <2>2. mode' \in Modes /\ Optional(maybe, Len(mem))'
    BY <1>1, <1>2 DEF Modes, Optional
  <2>3. tail' = <<>> /\ undo' = <<>> /\ failed' \in BOOLEAN
    BY <1>1, <1>2
  <2>4. faults' \in Nat
    BY <1>1 DEF StoreTypeOK
  <2>5. durable' \in Nat /\ acked' \in Nat
    BY <1>1, <1>3
  <2> QED
    BY <2>1, <2>2, <2>3, <2>4, <2>5 DEF StoreTypeOK
<1>5. SyncedSafe' /\ OpenInv' /\ AppendInv'
  BY <1>1, <1>2, <1>3 DEF StoreInv, SyncedSafe, OpenInv, AppendInv, Writing
<1>6. Readable' = file /\ Known' = file
  BY <1>1, <1>2, <1>3, ConcatEmptySeq DEF Readable, Known
<1>7. KnownInv'
  BY <1>3, <1>6 DEF KnownInv, Prefix
<1> QED
  BY <1>4, <1>5, <1>7 DEF StoreInv

\* A record whose append did not finish, as the fault leaves it: pending exactly
\* if the next open may read it.
LEMMA GoneKnows ==
    ASSUME StoreInv, Gone
    PROVE  /\ Optional(maybe', Len(mem))
           /\ Prefix(Readable, mem \o maybe')
           /\ maybe' \in IF mode \in Writing THEN {<<>>, <<record>>} ELSE {maybe}
<1>1. StoreTypeOK /\ mem \in Seq(Records) /\ Len(mem) \in Nat
  BY NextIsLength DEF StoreInv, StoreTypeOK, Numbered
<1>2. CASE mode \notin Writing
  BY <1>1, <1>2 DEF StoreInv, StoreTypeOK, KnownInv, Known, Gone
<1>3. CASE mode = "json"
  <2>1. file = mem /\ Readable = mem
    BY <1>1, <1>3, ReadableShape DEF StoreInv, AppendInv
  <2>2. maybe' = <<>>
    BY <1>1, <1>3, <2>1 DEF Gone, Writing, Leftover
  <2> QED
    BY <1>1, <1>3, <2>1, <2>2, ConcatEmptySeq DEF Optional, Prefix, Writing
<1>4. CASE mode \in {"newline", "sync"}
  <2>1. record \in Records /\ record.sequence = Len(mem)
    BY <1>4 DEF StoreInv, AppendInv, Writing
  <2>2. Readable = Append(mem, record)
    BY <1>4 DEF StoreInv, AppendInv, Tail1, Readable
  <2>3. Len(Readable) = Len(mem) + 1
    BY <1>1, <2>1, <2>2, NumberedAppend DEF StoreTypeOK
  <2>4. maybe' = <<record>>
    BY <1>1, <1>4, <2>3 DEF Gone, Writing, Leftover
  <2>5. mem \o maybe' = Readable
    BY <1>1, <2>1, <2>2, <2>4, AppendIsConcat
  <2> QED
    BY <1>1, <1>4, <2>1, <2>3, <2>4, <2>5 DEF Optional, Prefix, Writing
<1> QED
  BY <1>2, <1>3, <1>4 DEF Writing

\* After a fault the process is gone, and the file may have lost what no sync
\* covered, but nothing else.
LEMMA GoneStep ==
    ASSUME StoreInv, Gone, StoreTypeOK', durable' = durable, durable <= Len(file'),
           Prefix(Readable', Readable)
    PROVE  StoreInv'
<1>1. StoreTypeOK /\ SyncedSafe
  BY DEF StoreInv
<1>2. mode' = "down" /\ UNCHANGED <<archive, record, mem, failed, acked, cut>>
  BY DEF Gone
<1>3. SyncedSafe'
  BY <1>1, <1>2 DEF SyncedSafe
<1>4. OpenInv' /\ AppendInv'
  BY <1>1, <1>2 DEF StoreInv, OpenInv, AppendInv, Writing
<1>5. Prefix(Readable, Known')
  BY <1>2, GoneKnows DEF Known
<1>6. Numbered(Readable) /\ Numbered(Readable')
  <2>1. Numbered(Readable)
    BY <1>1, ReadableShape
  <2>2. Numbered(Readable)'
    BY ReadableShape, PTL
  <2> QED
    BY <2>1, <2>2 DEF Numbered, Records
<1>7. Len(Readable) \in Nat /\ Len(Readable') \in Nat /\ Len(Known') \in Nat
  <2>1. mem \o maybe' = Known' /\ Numbered(mem)
    BY <1>1, <1>2 DEF Known, StoreTypeOK
  <2>2. Len(mem \o maybe') \in Nat
    BY <2>1, GoneKnows, KnownNumbered, NextIsLength
  <2> QED
    BY <1>6, <2>1, <2>2, NextIsLength
<1>8. KnownInv'
  BY <1>5, <1>7 DEF KnownInv, Prefix
<1> QED
  BY <1>3, <1>4, <1>8 DEF StoreInv

\* A crash leaves the file alone.
LEMMA CrashStep == StoreInv /\ Crash => StoreInv'
<1> SUFFICES ASSUME StoreInv, Crash PROVE StoreInv'
  OBVIOUS
<1>1. /\ Gone /\ mode' = "down" /\ faults' = faults + 1
      /\ UNCHANGED <<file, tail, durable, undo, archive, mem, failed, acked>>
  BY DEF Crash, Gone
<1>2. StoreTypeOK /\ SyncedSafe /\ Optional(maybe', Len(mem))
  BY <1>1, GoneKnows DEF StoreInv
<1>3. StoreTypeOK'
  BY <1>1, <1>2 DEF StoreTypeOK, Modes, Numbered, Records, Optional, Tail1
<1>4. Prefix(Readable', Readable)
  <2>1. Readable' = Readable /\ Len(Readable) \in Nat
    BY <1>1, <1>2, ReadableShape, NextIsLength DEF Readable
  <2> QED
    BY <2>1 DEF Prefix
<1> QED
  BY <1>1, <1>2, <1>3, <1>4, GoneStep DEF SyncedSafe

\* A power failure, in each of its forms, cuts the file at or after what was
\* synced, and what follows the cut is a record with the number of its place.
LEMMA PowerFailureStep == StoreInv /\ PowerFailure => StoreInv'
<1> SUFFICES ASSUME StoreInv, PowerFailure PROVE StoreInv'
  OBVIOUS
<1>1. /\ Gone /\ mode' = "down" /\ faults' = faults + 1 /\ undo' = <<>>
      /\ UNCHANGED <<durable, archive, mem, failed, acked>>
  BY DEF PowerFailure, Gone
<1>2. StoreTypeOK /\ SyncedSafe /\ Optional(maybe', Len(mem)) /\ Numbered(file)
  BY <1>1, GoneKnows DEF StoreInv, StoreTypeOK
<1>3. Len(file) \in Nat /\ Numbered(Readable) /\ Prefix(file, Readable)
  <2>1. Len(file) \in Nat /\ Numbered(Readable)
    BY <1>2, ReadableShape, NextIsLength
  <2>2. CASE tail # <<>> /\ tail[1].kind = "whole"
    <3>1. /\ Readable = Append(file, tail[1].record) /\ tail[1].record \in Records
          /\ tail[1].record.sequence = Len(file)
      BY <1>2, <2>2, ReadableShape
    <3> QED
      BY <1>2, <2>1, <3>1, NumberedAppend DEF Prefix
  <2>3. CASE tail = <<>> \/ tail[1].kind = "torn"
    BY <1>2, <2>1, <2>3, ReadableShape DEF Prefix
  <2> QED
    BY <1>2, <2>2, <2>3, ReadableShape
<1> DEFINE TailFits == \/ tail' = <<>>
                       \/ \E kind \in {"torn", "whole"}, r \in Records :
                             tail' = Tail1(kind, r) /\ r.sequence = Len(file')
<1> DEFINE Goal == /\ Numbered(file') /\ durable <= Len(file') /\ TailFits
                   /\ Prefix(Readable', Readable)
<1>4. ASSUME file' = file, tail' \in Cuts(tail)
      PROVE  Goal
  <2>1. TailFits
    BY <1>2, <1>4, ReadableShape DEF Cuts, Tail1
  <2>2. Readable' = file \/ Readable' = Readable
    BY <1>2, <1>4, ReadableShape DEF Cuts, Tail1, Readable
  <2>3. Len(Readable) \in Nat
    BY <1>3, NextIsLength
  <2> QED
    BY <1>2, <1>3, <1>4, <2>1, <2>2, <2>3 DEF Prefix, SyncedSafe
<1>5. ASSUME NEW k \in durable..Len(file) - 1, file' = SubSeq(file, 1, k),
             tail' \in Cuts(Tail1("whole", file[k + 1]))
      PROVE  Goal
  <2>1. k \in 0..Len(file) /\ k + 1 \in 1..Len(file) /\ durable <= k
    BY <1>2, <1>3 DEF StoreTypeOK
  <2>2. /\ Numbered(file') /\ Len(file') = k
        /\ \A i \in 1..k : file'[i] = file[i]
    BY <1>2, <1>5, <2>1, NumberedCut
  <2>3. file[k + 1] \in Records /\ file[k + 1].sequence = Len(file')
    BY <1>2, <2>1, <2>2, ElementOfSeq DEF Numbered
  <2>4. TailFits
    BY <1>5, <2>3 DEF Cuts, Tail1
  <2>5. /\ Append(file', file[k + 1])[k + 1] = file[k + 1]
        /\ Len(Append(file', file[k + 1])) = k + 1
        /\ \A i \in 1..k : Append(file', file[k + 1])[i] = file[i]
    BY <2>2, <2>3, NumberedAppend
  <2>6. Readable' = file' \/ Readable' = Append(file', file[k + 1])
    BY <1>5 DEF Readable, Cuts, Tail1
  <2>7. Prefix(Readable', file)
    BY <1>3, <2>1, <2>2, <2>5, <2>6 DEF Prefix
  <2>8. Len(Readable) \in Nat /\ Len(Readable') \in Nat
    BY <1>3, <2>1, <2>2, <2>5, <2>6, NextIsLength
  <2>9. Prefix(Readable', Readable)
    BY <1>3, <2>7, <2>8 DEF Prefix
  <2> QED
    BY <2>1, <2>2, <2>4, <2>9
<1>6. ASSUME undo # <<>>, file' = SubSeq(file, 1, undo[1].at),
             tail' = Tail1("torn", undo[1].record)
      PROVE  Goal
  <2>1. PICK n \in 0..Len(file), r \in Records :
           undo = <<[at |-> n, record |-> r]>> /\ r.sequence = n /\ durable <= n
    BY <1>2, <1>6 DEF StoreTypeOK
  <2>2. file' = SubSeq(file, 1, n) /\ tail' = Tail1("torn", r)
    BY <1>6, <2>1
  <2>3. /\ Numbered(file') /\ Len(file') = n
        /\ \A i \in 1..n : file'[i] = file[i]
    BY <1>2, <2>2, NumberedCut
  <2>4. Readable' = file'
    BY <2>2 DEF Readable, Tail1
  <2>5. Len(Readable) \in Nat
    BY <1>3, NextIsLength
  <2>6. Prefix(Readable', Readable)
    BY <1>3, <2>3, <2>4, <2>5 DEF Prefix
  <2> QED
    BY <2>1, <2>2, <2>3, <2>6
<1>7. Goal
  BY <1>4, <1>5, <1>6 DEF PowerFailure
<1>8. StoreTypeOK'
  BY <1>1, <1>2, <1>7 DEF StoreTypeOK, Modes, Numbered, Records, Optional, Tail1
<1> QED
  BY <1>1, <1>7, <1>8, GoneStep

\* A failed write or sync leaves memory behind the file by at most the record of
\* that append, which is pending exactly if it is whole.
LEMMA FailStep == StoreInv /\ Fail => StoreInv'
<1> SUFFICES ASSUME StoreInv, Fail PROVE StoreInv'
  OBVIOUS
<1>1. /\ mode \in Writing /\ mode' = "up" /\ faults' = faults + 1
      /\ UNCHANGED <<file, durable, undo, archive, record, mem, failed, acked, cut>>
  BY DEF Fail
<1>2. /\ StoreTypeOK /\ SyncedSafe /\ failed /\ record \in Records
      /\ record.sequence = Len(mem) /\ Numbered(mem) /\ Len(mem) \in Nat
  BY <1>1, NextIsLength DEF StoreInv, StoreTypeOK, AppendInv
<1>3. /\ mem \in Seq(Records) /\ mem \o <<>> = mem /\ mem \o <<record>> = Append(mem, record)
      /\ Len(Append(mem, record)) = Len(mem) + 1
  BY <1>2, ConcatEmptySeq, AppendIsConcat, NumberedAppend DEF Numbered
<1>4. /\ \/ tail' = <<>>
         \/ \E kind \in {"torn", "whole"} :
               tail' = Tail1(kind, record) /\ Len(file) = Len(mem)
      /\ Readable' = mem \o maybe'
      /\ maybe' \in {<<>>, <<record>>}
  <2>1. CASE mode = "json"
    <3>1. file = mem /\ tail = <<>>
      BY <2>1 DEF StoreInv, AppendInv
    <3>2. tail' \in {<<>>, Tail1("torn", record), Tail1("whole", record)}
      BY <2>1, <3>1 DEF Fail, Written
    <3>3. maybe' = IF tail' = Tail1("whole", record) THEN <<record>> ELSE <<>>
      BY <2>1, <3>2 DEF Fail, Tail1
    <3> QED
      BY <1>1, <1>3, <3>1, <3>2, <3>3 DEF Readable, Tail1
  <2>2. CASE mode = "newline"
    <3>1. file = mem /\ tail' = Tail1("whole", record) /\ maybe' = <<record>>
      BY <2>2 DEF StoreInv, AppendInv, Fail, Tail1
    <3> QED
      BY <1>1, <1>3, <3>1 DEF Readable, Tail1
  <2>3. CASE mode = "sync"
    <3>1. file = Append(mem, record) /\ tail' = <<>> /\ maybe' = <<record>>
      BY <2>3 DEF StoreInv, AppendInv, Fail
    <3> QED
      BY <1>1, <1>3, <3>1 DEF Readable
  <2> QED
    BY <1>1, <2>1, <2>2, <2>3 DEF Writing
<1>5. StoreTypeOK'
  <2>1. Optional(maybe, Len(mem))'
    BY <1>1, <1>2, <1>4 DEF Optional
  <2>2. \/ tail' = <<>>
        \/ \E kind \in {"torn", "whole"}, r \in Records :
              tail' = Tail1(kind, r) /\ r.sequence = Len(file')
    BY <1>1, <1>2, <1>4
  <2> QED
    BY <1>1, <1>2, <2>1, <2>2 DEF StoreTypeOK, Modes, Numbered, Records, Tail1
<1>6. SyncedSafe' /\ OpenInv' /\ AppendInv'
  BY <1>1, <1>2 DEF StoreInv, SyncedSafe, OpenInv, AppendInv, Writing
<1>7. KnownInv'
  <2>1. Readable' = Known' /\ Len(Readable') \in Nat
    BY <1>1, <1>2, <1>3, <1>4 DEF Known
  <2> QED
    BY <2>1 DEF KnownInv, Prefix
<1> QED
  BY <1>5, <1>6, <1>7 DEF StoreInv

\* Every step of the store keeps the invariant.
LEMMA StoreStep == StoreInv /\ [Next]_vars => StoreInv'
<1> SUFFICES ASSUME StoreInv, [Next]_vars PROVE StoreInv'
  OBVIOUS
<1>1. CASE UNCHANGED vars
  BY <1>1 DEF vars, StoreInv, StoreTypeOK, Modes, Numbered, Records, Optional, Tail1,
              SyncedSafe, OpenInv, AppendInv, KnownInv, Prefix, Readable, Known, Writing
<1>2. CASE Next
  BY <1>2, OpenStep, BackupStep, TruncateStep, RepairedStep, CompleteStep, BeginStep,
     WriteJsonStep, WriteNewlineStep, SyncStep, FailStep, CrashStep, PowerFailureStep
     DEF Next
<1> QED
  BY <1>1, <1>2

\* StoreInv holds throughout.
LEMMA StoreInvariant == Spec => []StoreInv
BY InitHolds, StoreStep, PTL DEF Spec

-----------------------------------------------------------------------------
(* The theorems.                                                           *)

(***************************************************************************)
(* Whatever crashes, power failures and I/O errors happen, open never      *)
(* meets a line or a tail that it refuses: the store never returns a       *)
(* corruption error for a file that only it has written.                   *)
(***************************************************************************)
THEOREM NeverCorruptHolds == Spec => []NeverCorrupt
<1>1. StoreInv => NeverCorrupt
  BY DEF StoreInv, OpenInv, NeverCorrupt
<1> QED
  BY <1>1, StoreInvariant, PTL

(***************************************************************************)
(* The repair of a torn tail cuts the log only after the torn record is in *)
(* a backup file, also when an earlier repair was interrupted.             *)
(***************************************************************************)
THEOREM TornIsArchivedHolds == Spec => []TornIsArchived
<1>1. StoreInv => TornIsArchived
  BY DEF StoreInv, OpenInv, TornIsArchived
<1> QED
  BY <1>1, StoreInvariant, PTL

\* Opening publishes a prefix of what was known, not shorter than what was synced.
LEMMA ReopenRefines ==
    ASSUME StoreInv, mode \notin Writing, tail = <<>>, Ready(file), acked' = acked
    PROVE  Promise!StoreReopen
<1>1. StoreTypeOK /\ SyncedSafe /\ Prefix(Readable, Known) /\ Numbered(mem)
  BY DEF StoreInv, KnownInv, StoreTypeOK
<1>2. mem' = file /\ maybe' = <<>> /\ failed' = FALSE
  BY <1>1, SortedAlready DEF Ready, StoreTypeOK
<1>3. Readable = file /\ Numbered(file) /\ Len(file) \in Nat
  BY <1>1, ReadableShape, NextIsLength DEF StoreTypeOK
<1>4. Numbered(Known) /\ Len(Known) = Len(mem) + Len(maybe) /\ Len(Known) \in Nat
  BY <1>1, KnownNumbered, NextIsLength DEF Known, StoreTypeOK
<1>5. Len(file) \in 0..Len(Known) /\ \A i \in 1..Len(file) : file[i] = Known[i]
  BY <1>1, <1>3, <1>4 DEF Prefix
<1>6. file = SubSeq(Known, 1, Len(file))
  <2>1. /\ Numbered(SubSeq(Known, 1, Len(file)))
        /\ Len(SubSeq(Known, 1, Len(file))) = Len(file)
        /\ \A i \in 1..Len(file) : SubSeq(Known, 1, Len(file))[i] = Known[i]
    BY <1>4, <1>5, NumberedCut
  <2> QED
    BY <1>3, <1>5, <2>1, SeqEqual DEF Numbered
<1>7. Len(file) \in acked..Len(mem) + Len(maybe)
  BY <1>1, <1>3, <1>4, <1>5 DEF SyncedSafe, StoreTypeOK
<1> QED
  BY <1>2, <1>6, <1>7 DEF Promise!StoreReopen, Known

\* A step that leaves memory, the pending record, the synced length and the
\* readiness to append alone is invisible to the users of the store.
LEMMA InternalStep ==
    ASSUME UNCHANGED <<mem, acked, maybe>>,
           (failed /\ mode \notin Writing)' = (failed /\ mode \notin Writing)
    PROVE  UNCHANGED <<Promise!storeVars>>
BY DEF Promise!storeVars

\* Each step of the JSONL store is a step of the abstract log or none at all.
LEMMA StepRefines ==
    StoreInv /\ [Next]_vars => [Promise!StoreNext(Records)]_<<Promise!storeVars>>
<1> SUFFICES ASSUME StoreInv, [Next]_vars
             PROVE  Promise!StoreNext(Records) \/ UNCHANGED <<Promise!storeVars>>
  OBVIOUS
<1>1. CASE UNCHANGED vars
  BY <1>1, InternalStep DEF vars
<1>2. CASE Open
  <2>1. \/ tail = <<>> /\ Ready(file)
        \/ UNCHANGED <<mem, failed, maybe>> /\ mode' \notin Writing
    BY <1>2 DEF Open, Writing
  <2>2. mode \notin Writing /\ acked' = acked
    BY <1>2 DEF Open, Writing
  <2> QED
    BY <2>1, <2>2, ReopenRefines, InternalStep DEF Promise!StoreNext
<1>3. CASE Settle \/ CompleteSync
  <2>1. tail = <<>> /\ mode \notin Writing /\ Ready(file) /\ acked' = acked
    BY <1>3 DEF StoreInv, OpenInv, Settle, CompleteSync, Writing
  <2> QED
    BY <2>1, ReopenRefines DEF Promise!StoreNext
<1>4. CASE Backup \/ Truncate \/ Complete
  BY <1>4, InternalStep DEF Backup, Truncate, Complete, ghosts, Writing
<1>5. CASE \E data \in Data : Begin(data)
  BY <1>5, InternalStep DEF Begin, ghosts, Writing
<1>6. CASE WriteJson \/ WriteNewline
  BY <1>6, InternalStep DEF WriteJson, WriteNewline, ghosts, Writing
<1>7. CASE Sync
  <2>1. record \in Records /\ mode \in Writing
    BY <1>7 DEF StoreInv, AppendInv, Sync, Writing
  <2>2. Promise!StoreAppend(record)
    BY <1>7, <2>1 DEF Sync, Promise!StoreAppend
  <2> QED
    BY <2>1, <2>2 DEF Promise!StoreNext
<1>8. ASSUME mode \in Writing, mode' \notin Writing, UNCHANGED <<mem, acked, failed>>,
             maybe' \in {<<>>, <<record>>}
      PROVE  Promise!StoreNext(Records)
  <2>1. record \in Records /\ failed
    BY <1>8 DEF StoreInv, AppendInv
  <2>2. Promise!StoreFail(record)
    BY <1>8, <2>1 DEF Promise!StoreFail
  <2> QED
    BY <2>1, <2>2 DEF Promise!StoreNext
<1>9. CASE Fail
  BY <1>8, <1>9 DEF Fail, Writing
<1>10. CASE Crash \/ PowerFailure
  <2>1. Gone /\ mode' \notin Writing /\ UNCHANGED <<mem, acked, failed>>
    BY <1>10 DEF Crash, PowerFailure, Gone, Writing
  <2>2. maybe' \in IF mode \in Writing THEN {<<>>, <<record>>} ELSE {maybe}
    BY <2>1, GoneKnows
  <2> QED
    BY <1>8, <2>1, <2>2, InternalStep
<1> QED
  BY <1>1, <1>2, <1>3, <1>4, <1>5, <1>6, <1>7, <1>9, <1>10 DEF Next

(***************************************************************************)
(* The JSONL store implements DurableLog: every append that returned is in *)
(* every later log, a failed one is there whole or not at all, and opening *)
(* again never invents, reorders or renumbers a record.                    *)
(***************************************************************************)
THEOREM KeepsPromiseHolds == Spec => KeepsPromise
<1>1. Init => Promise!StoreInit
  BY DEF Init, Promise!StoreInit
<1> QED
  BY <1>1, StoreInvariant, StepRefines, PTL DEF Spec, KeepsPromise
=============================================================================
