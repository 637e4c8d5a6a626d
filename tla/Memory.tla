------------------------------- MODULE Memory -------------------------------
(***************************************************************************)
(* The advisory memory (crates/memory): the JSONL store and the context    *)
(* compiler that freezes what a turn recalls.                              *)
(*                                                                         *)
(* A line of the file is one event.  A write can stop inside a line, before *)
(* its newline or before the sync; the store neither stops nor repairs the  *)
(* file, so the next event is then written on the same line.               *)
(***************************************************************************)
EXTENDS Naturals, Sequences, FiniteSets, SequencesExt

CONSTANTS
    None,           \* nothing
    Ids,            \* ids of memory records
    Texts,          \* what a record may say
    Turns,          \* turns that compile a context
    Clients,        \* threads that call forget
    Score,          \* Score[t][id]: how well the record matches the turn's last user message
    RecallLimit,    \* recall_limit
    MaxSnapshots,   \* maximum_snapshots
    MaxLines        \* bound: lines in the file

ASSUME MemoryAssumption ==
    /\ {RecallLimit, MaxSnapshots, MaxLines} \subseteq Nat \ {0}
    /\ Score \in [Turns -> [Ids -> Nat]]
    \* no two records match equally well, so recency never decides
    /\ \A t \in Turns : \A x, y \in Ids : x # y => Score[t][x] # Score[t][y]

VARIABLES
    file,       \* the lines of the JSONL file
    store,      \* "open", or "corrupt" when open has failed
    records,    \* the text of each record, or None
    found,      \* the record each client's forget has found, or None
    order,      \* SnapshotCache::order
    entries,    \* SnapshotCache::entries
    seen,       \* ghost: what each turn recalled first, or None
    told,       \* ghost: what its latest compile said
    later,      \* ghost: snapshots taken since it first compiled
    promised,   \* ghost: what a caller may expect of each record: what the last
                \* acknowledged write of it said, or one of the failed attempts since
                \* that the file may have brought back
    tried       \* ghost: the failed attempts on each record since its last
                \* acknowledged write in this process

promises == <<promised, tried>>
memoryVars == <<file, store, records, found, order, entries, seen, told, later, promises>>

Event == [id : Ids, text : Texts \cup {None}]       \* None: the record is forgotten
Line == [event : Event, state : {"whole", "bare", "torn"}]

NoSnapshot == [t \in Turns |-> <<>>]

MemoryInit ==
    /\ file = <<>> /\ store = "open"
    /\ records = [x \in Ids |-> None]
    /\ found = [c \in Clients |-> None]
    /\ order = <<>> /\ entries = {}
    /\ seen = NoSnapshot /\ told = NoSnapshot
    /\ later = [t \in Turns |-> 0]
    /\ promised = [x \in Ids |-> {None}]
    /\ tried = [x \in Ids |-> {}]

-----------------------------------------------------------------------------
(* The store.                                                              *)

ApplyEvent(rs, e) == [rs EXCEPT ![e.id] = e.text]

\* write_all of the event and then of its newline.  On a line without an end the
\* event makes the line unreadable.
Written(e, state) ==
    IF file # <<>> /\ Last(file).state # "whole"
    THEN [file EXCEPT ![Len(file)].state = "torn"]
    ELSE Append(file, [event |-> e, state |-> state])

\* append: the event is applied only after it is written, flushed and synced.
StoreEvent(e) ==
    /\ store = "open" /\ Len(file) < MaxLines
    /\ file' = Written(e, "whole")
    /\ records' = ApplyEvent(records, e)
    /\ promised' = [promised EXCEPT ![e.id] = {e.text}]
    /\ tried' = [tried EXCEPT ![e.id] = {}]

\* A failed write leaves the file with nothing, a part, or all of the event.
StoreFails(e) ==
    /\ store = "open" /\ Len(file) < MaxLines
    /\ file' \in {file, Written(e, "torn"), Written(e, "bare"), Written(e, "whole")}
    /\ tried' = [tried EXCEPT ![e.id] = @ \cup {e.text}]
    /\ UNCHANGED <<records, promised>>

Upsert(x, text) ==
    /\ LET e == [id |-> x, text |-> text] IN StoreEvent(e) \/ StoreFails(e)
    /\ UNCHANGED <<store, found, order, entries, seen, told, later>>

\* forget looks under one lock and appends under the next.
ForgetLook(c, x) ==
    /\ store = "open" /\ found[c] = None
    /\ records[x] # None
    /\ found' = [found EXCEPT ![c] = x]
    /\ UNCHANGED <<file, store, records, order, entries, seen, told, later, promises>>

\* Mutated form: the record is only removed from memory.
ForgetAppendQuietly(c) ==
    /\ found[c] # None
    /\ records' = [records EXCEPT ![found[c]] = None]
    /\ promised' = [promised EXCEPT ![found[c]] = {None}]
    /\ tried' = [tried EXCEPT ![found[c]] = {}]
    /\ found' = [found EXCEPT ![c] = None]
    /\ UNCHANGED <<file, store, order, entries, seen, told, later>>

ForgetAppend(c) ==
    /\ found[c] # None
    /\ LET e == [id |-> found[c], text |-> None]
       IN  StoreEvent(e) \/ StoreFails(e)
    /\ found' = [found EXCEPT ![c] = None]
    /\ UNCHANGED <<store, order, entries, seen, told, later>>

\* The process ends, perhaps in the middle of a write, and the store is opened
\* again: every line must parse.  The lines are applied in order, so the last one
\* about a record decides.
Replay(lines) ==
    LET about(x) == {i \in DOMAIN lines : lines[i].event.id = x}
    IN  [x \in Ids |-> IF about(x) = {} THEN None ELSE lines[Max(about(x))].event.text]

Reopen ==
    /\ file' = file
    /\ IF \E i \in DOMAIN file : file[i].state = "torn"
       THEN store' = "corrupt" /\ records' = [x \in Ids |-> None]
       ELSE store' = "open" /\ records' = Replay(file)
    /\ found' = [c \in Clients |-> None]
    /\ order' = <<>> /\ entries' = {}
    /\ seen' = NoSnapshot /\ told' = NoSnapshot
    /\ later' = [t \in Turns |-> 0]
    /\ promised' = [x \in Ids |-> promised[x] \cup tried[x]]
    /\ tried' = [x \in Ids |-> {}]

-----------------------------------------------------------------------------
(* The compiler.  A snapshot is a sequence <<the recalled records>>, so that *)
(* an empty recall differs from none.                                      *)

\* recall: the RecallLimit best of the records that match.  A query without a token
\* matches everything and is left out.
Recall(t) ==
    LET matching == {x \in Ids : records[x] # None /\ Score[t][x] > 0}
        better(x) == {y \in matching : Score[t][y] > Score[t][x]}
        best == {x \in matching : Cardinality(better(x)) < RecallLimit}
    IN  [x \in Ids |-> IF x \in best THEN records[x] ELSE None]

\* Mutated form: a full cache drops a snapshot.
OverflowsEarly(q) == Len(q) >= MaxSnapshots

\* while order.len() > maximum_snapshots: the oldest snapshot is dropped.
Overflows(q) == Len(q) > MaxSnapshots

\* What this turn has frozen already.
Snapshot(t) == {e \in entries : e.turn = t}

\* The decorator's part of compile, under the snapshot lock.
CompileMemory(t) ==
    LET cached == Snapshot(t)
        memories == IF cached # {} THEN (CHOOSE e \in cached : TRUE).memories ELSE Recall(t)
        queue == Append(order, t)
    IN  /\ store = "open"
        /\ IF cached # {} THEN UNCHANGED <<order, entries>>
           ELSE LET kept == IF Overflows(queue) THEN Tail(queue) ELSE queue
                IN  /\ order' = kept
                    /\ entries' = {e \in entries \cup {[turn |-> t, memories |-> memories]} :
                                     e.turn \in Range(kept)}
        /\ told' = [told EXCEPT ![t] = <<memories>>]
        /\ seen' = [seen EXCEPT ![t] = IF @ = <<>> THEN <<memories>> ELSE @]
        /\ later' = [u \in Turns |-> IF cached = {} /\ seen[u] # <<>> /\ u # t /\
                                        later[u] < MaxSnapshots
                                     THEN later[u] + 1 ELSE later[u]]
        /\ UNCHANGED <<file, store, records, found, promises>>

-----------------------------------------------------------------------------
(* Properties.                                                             *)

\* Type correctness.
MemoryTypeOK ==
    /\ file \in Seq(Line) /\ Len(file) <= MaxLines
    /\ store \in {"open", "corrupt"}
    /\ records \in [Ids -> Texts \cup {None}]
    /\ found \in [Clients -> Ids \cup {None}]
    /\ order \in Seq(Turns) /\ {e.turn : e \in entries} = Range(order)
    /\ later \in [Turns -> 0..MaxSnapshots]
    /\ {promised[x] \cup tried[x] : x \in Ids} \subseteq SUBSET (Texts \cup {None})

\* What a turn is told of the memory does not change during the turn, unless as
\* many other turns have taken a snapshot as the cache holds (MemoryContextCompiler
\* "freezes recalled memory on the first compile of each turn").
MemoryFrozen ==
    \A t \in Turns : told[t] # seen[t] => later[t] >= MaxSnapshots

\* An open store serves of every record exactly what the last acknowledged upsert or
\* forget of it said: what was stored is kept, what was forgotten does not come back,
\* however often the file is reopened.  The only other value is that of a failed attempt
\* made since, and that only after a reopen, which finds its line in the file (append
\* applies an event only once it is written and synced).  A store that no longer opens
\* serves nothing.
WritesServed == store = "open" => \A x \in Ids : records[x] \in promised[x]
=============================================================================
