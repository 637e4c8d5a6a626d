--------------------------- MODULE ContextProofs ---------------------------
(***************************************************************************)
(* Proofs about Context, Memory and OutputArchive, for any records, turns,  *)
(* outputs and limits: what a turn is told of the memory is frozen, what    *)
(* was acknowledged is served, the references of the context resolve, and  *)
(* the window of the transcript is closed.                                 *)
(*                                                                         *)
(* The three parts of the state meet only in compile, so the inductive      *)
(* invariant has one part for each.                                        *)
(***************************************************************************)
EXTENDS Context, SequenceTheorems, WellFoundedInduction, TLAPS

Recalls == [Ids -> Texts \cup {None}]

\* A line that does not parse.
Torn == \E i \in DOMAIN file : file[i].state = "torn"

\* Memory serves what callers were promised, and so will the file as long as it can
\* be opened, but for the attempts that failed.
StoreInv ==
    /\ file \in Seq(Line)
    /\ records \in Recalls
    /\ found \in [Clients -> Ids \cup {None}]
    /\ promised \in [Ids -> SUBSET (Texts \cup {None})]
    /\ tried \in [Ids -> SUBSET (Texts \cup {None})]
    /\ \A x \in Ids : /\ store = "open" => records[x] \in promised[x]
                      /\ Torn \/ Replay(file)[x] \in promised[x] \cup tried[x]

CacheTypeOK ==
    /\ order \in Seq(Turns) /\ Len(order) <= MaxSnapshots
    /\ entries \subseteq [turn : Turns, memories : Recalls]
    /\ seen \in [Turns -> Seq(Recalls)] /\ told \in [Turns -> Seq(Recalls)]
    /\ later \in [Turns -> Nat]

\* A turn's snapshot leaves the cache only when as many others have come after it as
\* the cache holds; until then it says what the turn has been told.
CacheInv ==
    /\ CacheTypeOK
    /\ {e.turn : e \in entries} = Range(order)
    /\ \A i \in 1..Len(order) : later[order[i]] >= Len(order) - i
    /\ \A t \in Turns : seen[t] # <<>> => t \in Range(order) \/ later[t] >= MaxSnapshots
    /\ \A t \in Turns : seen[t] = <<>> => t \notin Range(order) /\ told[t] = <<>>
    /\ \A e \in entries : \/ later[e.turn] >= MaxSnapshots
                          \/ told[e.turn] = <<e.memories>> /\ seen[e.turn] = <<e.memories>>
    /\ MemoryFrozen

Entries == {"none", "cached", "durable"}
Jobs == [call : CallIds, output : Outputs]
Files == [entry : Entries, bytes : Outputs \cup {Absent}, synced : BOOLEAN]
Pendings == [bytes : Outputs \cup {Absent}, synced : BOOLEAN]

FilesTypeOK ==
    /\ dir \in Entries
    /\ json \in [CallIds -> Files]
    /\ pending \in Pendings
    /\ published \subseteq Jobs
    /\ Busy => job \in Jobs

\* retain links only what is synced, and never over a snapshot.
RetainInv ==
    /\ step \in {"write", "sync", "link"} => json[job.call].entry = "none"
    /\ step \in {"sync", "link"} => pending.bytes = job.output
    /\ step = "link" => pending.synced
    /\ step = "syncdir" => json[job.call].entry # "none" /\ json[job.call].bytes = job.output
    /\ step = "syncroot" => dir = "cached"

\* A snapshot is whole; unless a retain stopped between create_dir and the sync of the
\* root, the directory is durable before a snapshot is linked, and the snapshot is
\* before its reference is used.
SnapshotInv ==
    /\ \A c \in CallIds : json[c].entry # "none" => json[c].synced /\ json[c].bytes \in Outputs
    /\ unsynced \/ /\ dir = "cached" => step = "syncroot"
                   /\ step \in {"look", "write", "sync", "link", "syncdir"} => dir = "durable"
                   /\ dir # "durable" => \A c \in CallIds : json[c].entry = "none"
                   /\ \A r \in published : /\ json[r.call].entry = "durable"
                                           /\ json[r.call].bytes = r.output

ArchiveInv == FilesTypeOK /\ RetainInv /\ SnapshotInv

Messages == [type : {"user", "assistant", "tool"}, calls : Nat, call : CallIds \cup {None},
             output : Outputs \cup {None}]

\* Every response has its receipts right behind it, and every receipt its response
\* before it.
Closed(s) ==
    \A i \in 1..Len(s) :
        /\ s[i].type = "tool" => s[i].call \in CallIds /\ Absorbed(s, i)
        /\ s[i].type = "assistant" =>
              i + s[i].calls <= Len(s) /\ \A k \in 1..s[i].calls : s[i + k].type = "tool"

TranscriptInv ==
    /\ transcript \in Seq(Messages) /\ Closed(transcript)
    /\ compiling # None => compiling \in [turn : Turns, next : Nat \ {0}]

ContextInv == StoreInv /\ CacheInv /\ ArchiveInv /\ TranscriptInv

-----------------------------------------------------------------------------
(* The least and the greatest number of a set.                             *)

\* A set of natural numbers has a least one.
LEMMA LeastExists ==
    ASSUME NEW S, S \subseteq Nat, S # {}
    PROVE  \E x \in S : \A y \in S : x =< y
<1>1. IsWellFoundedOn(OpToRel(<, Nat), Nat)
  BY NatLessThanWellFounded
<1>2. PICK x \in S : \A y \in S : ~(<<y, x>> \in OpToRel(<, Nat))
  BY <1>1, WFMin
<1>3. \A y \in S : ~(y < x)
  BY <1>2 DEF OpToRel
<1> QED
  BY <1>3

\* Min finds it.
LEMMA MinSays ==
    ASSUME NEW S, S \subseteq Nat, S # {}
    PROVE  Min(S) \in S /\ \A y \in S : Min(S) =< y
BY LeastExists DEF Min

\* A bounded set has a greatest number, its least bound, and Max finds it.
LEMMA MaxSays ==
    ASSUME NEW n \in Nat, NEW S, S \subseteq 1..n, S # {}
    PROVE  Max(S) \in S /\ \A y \in S : Max(S) >= y
<1> DEFINE B == {b \in Nat : \A y \in S : b >= y}
<1>1. n \in B
  OBVIOUS
<1>2. PICK b \in B : \A c \in B : b <= c
  BY <1>1, LeastExists
<1>3. b \in S
  <2> SUFFICES ASSUME b \notin S PROVE FALSE
    OBVIOUS
  <2>1. PICK z \in S : TRUE
    OBVIOUS
  <2>2. b \in Nat /\ b >= z /\ z \in 1..n
    BY <1>2, <2>1
  <2>3. b - 1 \in Nat /\ \A y \in S : y \in Nat /\ b >= y /\ b # y
    BY <1>2, <2>2
  <2>4. b - 1 \in B /\ ~(b <= b - 1)
    BY <2>2, <2>3
  <2> QED
    BY <1>2, <2>4
<1>4. \E x \in S : \A y \in S : x >= y
  BY <1>2, <1>3
<1> QED
  BY <1>4 DEF Max

-----------------------------------------------------------------------------
(* The memory store.                                                       *)

About(lines, x) == {i \in DOMAIN lines : lines[i].event.id = x}

\* What Replay says of one record.
LEMMA ReplaySays ==
    ASSUME NEW lines, NEW x \in Ids
    PROVE  Replay(lines)[x] = IF About(lines, x) = {} THEN None
                              ELSE lines[Max(About(lines, x))].event.text
BY DEF Replay, About

\* Replay applies one more line like ApplyEvent.
LEMMA ReplayAppend ==
    ASSUME NEW lines \in Seq(Line), NEW l \in Line, NEW x \in Ids
    PROVE  Replay(Append(lines, l))[x] =
              IF l.event.id = x THEN l.event.text ELSE Replay(lines)[x]
<1> DEFINE more == Append(lines, l)
           n == Len(lines)
<1>1. /\ n \in Nat /\ DOMAIN lines = 1..n /\ DOMAIN more = 1..(n + 1)
      /\ more[n + 1] = l /\ \A i \in 1..n : more[i] = lines[i]
  OBVIOUS
<1>2. About(lines, x) \subseteq 1..n /\ About(more, x) \subseteq 1..(n + 1)
  BY <1>1 DEF About
<1>3. CASE l.event.id = x
  <2>1. n + 1 \in About(more, x)
    BY <1>1, <1>3 DEF About
  <2>2. Max(About(more, x)) \in 1..(n + 1) /\ Max(About(more, x)) >= n + 1
    BY <1>1, <1>2, <2>1, MaxSays
  <2>3. Max(About(more, x)) = n + 1
    BY <1>1, <2>2
  <2> QED
    <3>1. Replay(more)[x] = more[Max(About(more, x))].event.text
      BY <2>1, ReplaySays
    <3> QED
      BY <1>1, <1>3, <2>3, <3>1
<1>4. CASE l.event.id # x
  <2>1. About(more, x) = About(lines, x)
    BY <1>1, <1>4 DEF About
  <2>2. About(lines, x) # {} => Max(About(lines, x)) \in 1..n
    BY <1>1, <1>2, MaxSays
  <2> QED
    BY <1>1, <1>4, <2>1, <2>2, ReplaySays
<1> QED
  BY <1>3, <1>4

\* An event that is written is the last line, or makes its line unreadable.
LEMMA WrittenSays ==
    ASSUME file \in Seq(Line), NEW e \in Event, NEW state \in {"whole", "bare", "torn"},
           file' = Written(e, state)
    PROVE  /\ file' \in Seq(Line)
           /\ \A x \in Ids :
                 \/ Torn'
                 \/ /\ ~Torn
                    /\ Replay(file')[x] = IF e.id = x THEN e.text ELSE Replay(file)[x]
<1>1. CASE file # <<>> /\ Last(file).state # "whole"
  <2>1. file' = [file EXCEPT ![Len(file)].state = "torn"]
    BY <1>1 DEF Written
  <2>2. Len(file) \in DOMAIN file /\ file[Len(file)] \in Line
    BY <1>1
  <2>3. [file[Len(file)] EXCEPT !.state = "torn"] \in Line
    BY <2>2 DEF Line
  <2>4. file' = [file EXCEPT ![Len(file)] = [file[Len(file)] EXCEPT !.state = "torn"]]
    BY <2>1, <2>2
  <2>5. file' \in Seq(Line)
    BY <2>2, <2>3, <2>4, ExceptSeq
  <2>6. Len(file) \in DOMAIN file' /\ file'[Len(file)].state = "torn"
    BY <2>2, <2>3, <2>4 DEF Line
  <2> QED
    BY <2>5, <2>6 DEF Torn
<1>2. CASE ~(file # <<>> /\ Last(file).state # "whole")
  <2> DEFINE l == [event |-> e, state |-> state]
  <2>1. file' = Append(file, l) /\ l \in Line /\ l.event = e
    BY <1>2 DEF Written, Line
  <2> HIDE DEF l
  <2>2. file' \in Seq(Line) /\ (Torn => Torn')
    BY <2>1 DEF Torn
  <2>3. ASSUME NEW x \in Ids
        PROVE  Replay(file')[x] = IF e.id = x THEN e.text ELSE Replay(file)[x]
    BY <2>1, ReplayAppend
  <2> QED
    BY <2>2, <2>3
<1> QED
  BY <1>1, <1>2

\* append, whether it succeeds or fails: another record keeps what it promises, and
\* this one promises the event if it is acknowledged.
LEMMA StoreKeeps ==
    ASSUME StoreInv, NEW e \in Event, StoreEvent(e) \/ StoreFails(e), store' = store,
           found' \in [Clients -> Ids \cup {None}]
    PROVE  StoreInv'
<1>1. e.id \in Ids /\ e.text \in Texts \cup {None}
  BY DEF Event
<1>2. CASE StoreEvent(e)
  <2>1. /\ file' = Written(e, "whole") /\ records' = [records EXCEPT ![e.id] = e.text]
        /\ promised' = [promised EXCEPT ![e.id] = {e.text}]
        /\ tried' = [tried EXCEPT ![e.id] = {}]
    BY <1>2 DEF StoreEvent, ApplyEvent
  <2>2. /\ file' \in Seq(Line)
        /\ \A x \in Ids :
              \/ Torn'
              \/ /\ ~Torn
                 /\ Replay(file')[x] = IF e.id = x THEN e.text ELSE Replay(file)[x]
    BY <2>1, WrittenSays DEF StoreInv
  <2>3. /\ records' \in Recalls
        /\ promised' \in [Ids -> SUBSET (Texts \cup {None})]
        /\ tried' \in [Ids -> SUBSET (Texts \cup {None})]
    BY <1>1, <2>1 DEF StoreInv, Recalls
  <2>4. ASSUME NEW x \in Ids
        PROVE  /\ store' = "open" => records'[x] \in promised'[x]
               /\ Torn' \/ Replay(file')[x] \in promised'[x] \cup tried'[x]
    <3>1. CASE x = e.id
      <4>1. records'[x] = e.text /\ promised'[x] = {e.text}
        BY <1>1, <2>1, <3>1 DEF StoreInv, Recalls
      <4> QED
        BY <2>2, <3>1, <4>1
    <3>2. CASE x # e.id
      <4>1. records'[x] = records[x] /\ promised'[x] = promised[x] /\ tried'[x] = tried[x]
        BY <1>1, <2>1, <3>2 DEF StoreInv, Recalls
      <4> QED
        BY <2>2, <3>2, <4>1 DEF StoreInv
    <3> QED
      BY <3>1, <3>2
  <2> QED
    BY <2>2, <2>3, <2>4 DEF StoreInv
<1>3. CASE StoreFails(e)
  <2>1. /\ file' \in {file, Written(e, "torn"), Written(e, "bare"), Written(e, "whole")}
        /\ tried' = [tried EXCEPT ![e.id] = tried[e.id] \cup {e.text}]
        /\ UNCHANGED <<records, promised>>
    BY <1>1, <1>3 DEF StoreFails, StoreInv
  <2>2. /\ file' \in Seq(Line)
        /\ \A x \in Ids :
              \/ Torn'
              \/ /\ ~Torn
                 /\ \/ Replay(file')[x] = Replay(file)[x]
                    \/ Replay(file')[x] = IF e.id = x THEN e.text ELSE Replay(file)[x]
    <3>1. CASE file' = file
      BY <3>1 DEF StoreInv, Torn
    <3>2. CASE \E state \in {"whole", "bare", "torn"} : file' = Written(e, state)
      BY <3>2, WrittenSays DEF StoreInv
    <3> QED
      BY <2>1, <3>1, <3>2
  <2>3. tried' \in [Ids -> SUBSET (Texts \cup {None})]
    BY <1>1, <2>1 DEF StoreInv
  <2>4. ASSUME NEW x \in Ids
        PROVE  Torn' \/ Replay(file')[x] \in promised'[x] \cup tried'[x]
    <3>1. tried'[x] = IF x = e.id THEN tried[x] \cup {e.text} ELSE tried[x]
      BY <1>1, <2>1 DEF StoreInv
    <3>2. Torn \/ Replay(file)[x] \in promised[x] \cup tried[x]
      BY DEF StoreInv
    <3> QED
      BY <2>1, <2>2, <3>1, <3>2
  <2> QED
    BY <2>1, <2>2, <2>3, <2>4 DEF StoreInv
<1> QED
  BY <1>2, <1>3

\* A record is stored, or the attempt fails.
LEMMA UpsertKeeps ==
    ASSUME StoreInv, NEW x \in Ids, NEW text \in Texts, Upsert(x, text)
    PROVE  StoreInv'
<1> DEFINE e == [id |-> x, text |-> text]
<1>1. e \in Event
  BY DEF Event
<1>2. (StoreEvent(e) \/ StoreFails(e)) /\ store' = store /\ found' = found
  BY DEF Upsert
<1> HIDE DEF e
<1> QED
  BY <1>1, <1>2, StoreKeeps DEF StoreInv

\* A record is forgotten, or the attempt fails.
LEMMA ForgetKeeps ==
    ASSUME StoreInv, NEW c \in Clients, ForgetAppend(c)
    PROVE  StoreInv'
<1> DEFINE e == [id |-> found[c], text |-> None]
<1>1. e \in Event
  BY DEF StoreInv, ForgetAppend, Event
<1>2. /\ StoreEvent(e) \/ StoreFails(e)
      /\ store' = store /\ found' = [found EXCEPT ![c] = None]
  BY DEF ForgetAppend
<1> HIDE DEF e
<1>3. found' \in [Clients -> Ids \cup {None}]
  BY <1>2 DEF StoreInv
<1> QED
  BY <1>1, <1>2, <1>3, StoreKeeps

\* Opening the store again gives what the lines say.
LEMMA ReopenStore == ASSUME StoreInv, Reopen PROVE StoreInv'
<1>1. /\ file' = file /\ (Torn <=> Torn')
      /\ promised' = [x \in Ids |-> promised[x] \cup tried[x]]
      /\ tried' = [x \in Ids |-> {}]
  BY DEF Reopen, Torn
<1>2. /\ found' \in [Clients -> Ids \cup {None}]
      /\ promised' \in [Ids -> SUBSET (Texts \cup {None})]
      /\ tried' \in [Ids -> SUBSET (Texts \cup {None})]
  BY <1>1 DEF Reopen, StoreInv
<1>3. CASE Torn
  BY <1>1, <1>2, <1>3 DEF Reopen, Torn, StoreInv, Recalls
<1>4. CASE ~Torn
  <2>1. records' = Replay(file)
    BY <1>4 DEF Reopen, Torn
  <2>2. ASSUME NEW x \in Ids PROVE Replay(file)[x] \in Texts \cup {None}
    <3>1. About(file, x) \subseteq 1..Len(file) /\ Len(file) \in Nat
      BY DEF About, StoreInv
    <3>2. About(file, x) # {} => Max(About(file, x)) \in 1..Len(file)
      BY <3>1, MaxSays
    <3>3. ASSUME NEW i \in 1..Len(file) PROVE file[i].event.text \in Texts \cup {None}
      <4>1. file[i] \in Line
        BY DEF StoreInv
      <4> QED
        BY <4>1 DEF Line, Event
    <3> QED
      BY <3>2, <3>3, ReplaySays
  <2>3. records' \in Recalls
    BY <2>1, <2>2 DEF Recalls, Replay
  <2> QED
    BY <1>1, <1>2, <1>4, <2>1, <2>3 DEF StoreInv
<1> QED
  BY <1>3, <1>4

-----------------------------------------------------------------------------
(* The snapshot cache.                                                     *)

\* A recall is made of records.
LEMMA RecallType == ASSUME StoreInv, NEW t PROVE Recall(t) \in Recalls
BY DEF StoreInv, Recall, Recalls

\* The snapshot of the turn is there: the turn is told the same again.
LEMMA CachedKeeps ==
    ASSUME CacheInv, NEW t \in Turns, CompileMemory(t), Snapshot(t) # {}
    PROVE  CacheInv'
<1>1. CacheTypeOK
  BY DEF CacheInv
<1>2. PICK e \in entries : e.turn = t /\ e = CHOOSE f \in Snapshot(t) : TRUE
  BY DEF Snapshot
<1>3. /\ UNCHANGED <<order, entries>>
      /\ told' = [told EXCEPT ![t] = <<e.memories>>]
      /\ seen' = [seen EXCEPT ![t] = IF seen[t] = <<>> THEN <<e.memories>> ELSE seen[t]]
      /\ later' = [u \in Turns |-> later[u]]
  BY <1>2 DEF CompileMemory
<1>4. t \in Range(order) /\ seen[t] # <<>> /\ e.memories \in Recalls
  BY <1>1, <1>2 DEF CacheInv, CacheTypeOK
<1>5. seen' = seen /\ later' = later
  BY <1>1, <1>3, <1>4 DEF CacheTypeOK
<1>6. CacheTypeOK'
  BY <1>1, <1>3, <1>4, <1>5 DEF CacheTypeOK
<1>7. told'[t] = <<e.memories>> /\ \A u \in Turns \ {t} : told'[u] = told[u]
  BY <1>1, <1>3 DEF CacheTypeOK
<1>8. later[t] >= MaxSnapshots \/ (told[t] = <<e.memories>> /\ seen[t] = <<e.memories>>)
  BY <1>2 DEF CacheInv
<1>9. told' = told \/ later[t] >= MaxSnapshots
  BY <1>1, <1>3, <1>8 DEF CacheTypeOK
<1>10. /\ \A f \in entries : \/ later[f.turn] >= MaxSnapshots
                             \/ told'[f.turn] = <<f.memories>> /\ seen[f.turn] = <<f.memories>>
       /\ \A u \in Turns : told'[u] # seen[u] => later[u] >= MaxSnapshots
       /\ \A u \in Turns : seen[u] = <<>> => told'[u] = <<>>
  BY <1>1, <1>4, <1>7, <1>9 DEF CacheInv, CacheTypeOK, MemoryFrozen
<1> QED
  BY <1>3, <1>5, <1>6, <1>10 DEF CacheInv, MemoryFrozen

\* The turn takes a snapshot.  Every other turn with one has one more behind it.
LEMMA SnapshotKeeps ==
    ASSUME CacheInv, StoreInv, NEW t \in Turns, CompileMemory(t), Snapshot(t) = {}
    PROVE  CacheInv'
<1> DEFINE memories == Recall(t)
           queue == Append(order, t)
           n == Len(order)
           kept == IF Overflows(queue) THEN Tail(queue) ELSE queue
           new == [turn |-> t, memories |-> memories]
<1>1. CacheTypeOK /\ MaxSnapshots \in Nat \ {0} /\ memories \in Recalls
  BY MemoryAssumption, RecallType DEF CacheInv
<1>2. /\ order' = kept
      /\ entries' = {e \in entries \cup {new} : e.turn \in Range(kept)}
      /\ told' = [told EXCEPT ![t] = <<memories>>]
      /\ seen' = [seen EXCEPT ![t] = IF seen[t] = <<>> THEN <<memories>> ELSE seen[t]]
      /\ later' = [u \in Turns |-> IF seen[u] # <<>> /\ u # t /\ later[u] < MaxSnapshots
                                   THEN later[u] + 1 ELSE later[u]]
  BY DEF CompileMemory
<1>3. t \notin Range(order)
  BY DEF CacheInv, Snapshot
<1>4. /\ n \in Nat /\ n <= MaxSnapshots /\ queue \in Seq(Turns) /\ Len(queue) = n + 1
      /\ queue[n + 1] = t /\ \A i \in 1..n : queue[i] = order[i]
  BY <1>1 DEF CacheTypeOK
<1>5. \A u \in Turns : later'[u] \in Nat /\ later'[u] >= later[u]
  BY <1>1, <1>2 DEF CacheTypeOK
<1>6. \A i \in 1..(n + 1) : later'[queue[i]] >= n + 1 - i
  <2> SUFFICES ASSUME NEW i \in 1..n PROVE later'[order[i]] >= n + 1 - i
    BY <1>1, <1>4, <1>5 DEF CacheTypeOK
  <2>1. order[i] \in Turns /\ order[i] \in Range(order)
    BY <1>1 DEF CacheTypeOK, Range
  <2>2. seen[order[i]] # <<>> /\ order[i] # t /\ later[order[i]] >= n - i
    BY <1>3, <2>1 DEF CacheInv
  <2>3. \/ later'[order[i]] = later[order[i]] + 1
        \/ later'[order[i]] = later[order[i]] /\ ~(later[order[i]] < MaxSnapshots)
    BY <1>2, <2>1, <2>2
  <2>4. later[order[i]] \in Nat
    BY <1>1, <2>1 DEF CacheTypeOK
  <2> QED
    BY <1>1, <1>4, <2>2, <2>3, <2>4
\* What is kept is the queue, or all of it but a turn that is overdue.
<1>7. /\ kept \in Seq(Turns) /\ Len(kept) <= MaxSnapshots /\ t \in Range(kept)
      /\ \A i \in 1..Len(kept) : later'[kept[i]] >= Len(kept) - i
      /\ Range(kept) \subseteq Range(order) \cup {t}
      /\ \A u \in Range(order) : u \in Range(kept) \/ later'[u] >= MaxSnapshots
  <2>1. Range(queue) = Range(order) \cup {t}
    <3>1. DOMAIN queue = 1..(n + 1) /\ DOMAIN order = 1..n
      BY <1>1, <1>4 DEF CacheTypeOK
    <3>2. \A i \in 1..(n + 1) : i = n + 1 \/ i \in 1..n
      BY <1>4
    <3>3. n + 1 \in 1..(n + 1) /\ 1..n \subseteq 1..(n + 1)
      BY <1>4
    <3> HIDE DEF queue, n
    <3>4. Range(queue) \subseteq Range(order) \cup {t}
      BY <1>4, <3>1, <3>2 DEF Range
    <3>5. Range(order) \subseteq Range(queue) /\ t \in Range(queue)
      BY <1>4, <3>1, <3>3 DEF Range
    <3> QED
      BY <3>4, <3>5
  <2>2. CASE ~Overflows(queue)
    <3>1. kept = queue
      BY <2>2
    <3>2. Len(queue) <= MaxSnapshots
      BY <1>1, <1>4, <2>2 DEF Overflows
    <3> HIDE DEF kept, queue
    <3> QED
      BY <1>4, <1>6, <2>1, <3>1, <3>2
  <2>3. CASE Overflows(queue)
    <3>1. kept = Tail(queue) /\ n = MaxSnapshots
      BY <1>1, <1>4, <2>3 DEF Overflows
    <3>2. /\ kept \in Seq(Turns) /\ Len(kept) = n
          /\ \A i \in 1..n : kept[i] = queue[i + 1]
      BY <1>4, <3>1
    <3> HIDE DEF kept, queue
    <3>3. kept[n] = t /\ n \in 1..Len(kept)
      BY <1>1, <1>4, <3>1, <3>2
    <3>4. t \in Range(kept)
      BY <3>2, <3>3 DEF Range
    <3>5. \A i \in 1..n : later'[kept[i]] >= n - i
      <4> SUFFICES ASSUME NEW i \in 1..n PROVE later'[kept[i]] >= n - i
        OBVIOUS
      <4>1. i + 1 \in 1..(n + 1) /\ n + 1 - (i + 1) = n - i
        BY <1>4
      <4> QED
        BY <1>6, <3>2, <4>1
    <3>6. Range(kept) \subseteq Range(queue)
      BY <1>4, <3>2 DEF Range
    <3>7. \A u \in Range(queue) : u = queue[1] \/ u \in Range(kept)
      <4> SUFFICES ASSUME NEW i \in 1..(n + 1), i # 1 PROVE queue[i] \in Range(kept)
        BY <1>4 DEF Range
      <4>1. i - 1 \in 1..n /\ (i - 1) + 1 = i
        BY <1>4
      <4>2. queue[i] = kept[i - 1] /\ i - 1 \in DOMAIN kept
        BY <3>2, <4>1
      <4> QED
        BY <4>2 DEF Range
    <3>8. later'[queue[1]] >= MaxSnapshots
      <4>1. 1 \in 1..(n + 1) /\ n + 1 - 1 = n
        BY <1>4
      <4> QED
        BY <1>6, <3>1, <4>1
    <3> QED
      BY <1>1, <2>1, <3>1, <3>2, <3>4, <3>5, <3>6, <3>7, <3>8
  <2> QED
    BY <2>2, <2>3
<1> HIDE DEF memories, kept
<1>8. new \in [turn : Turns, memories : Recalls] /\ new.turn = t /\ new.memories = memories
  BY <1>1
<1> HIDE DEF new
<1>9. /\ told'[t] = <<memories>> /\ \A u \in Turns \ {t} : told'[u] = told[u] /\ seen'[u] = seen[u]
      /\ seen[t] = <<>> => seen'[t] = <<memories>>
      /\ seen[t] # <<>> => seen'[t] = seen[t]
      /\ seen' \in [Turns -> Seq(Recalls)] /\ told' \in [Turns -> Seq(Recalls)]
  BY <1>1, <1>2 DEF CacheTypeOK
<1>10. CacheTypeOK'
  <2>1. later' \in [Turns -> Nat]
    BY <1>2, <1>5
  <2>2. entries' \subseteq [turn : Turns, memories : Recalls]
    BY <1>1, <1>2, <1>8 DEF CacheTypeOK
  <2> QED
    BY <1>2, <1>7, <1>9, <2>1, <2>2 DEF CacheTypeOK
<1>11. seen[t] # <<>> => later'[t] >= MaxSnapshots
  <2>1. seen[t] # <<>> => later[t] >= MaxSnapshots
    BY <1>3 DEF CacheInv
  <2>2. later[t] \in Nat /\ later'[t] \in Nat /\ later'[t] >= later[t]
    BY <1>1, <1>5 DEF CacheTypeOK
  <2> QED
    BY <1>1, <2>1, <2>2
<1>12. \A u \in Turns : later[u] >= MaxSnapshots => later'[u] >= MaxSnapshots
  BY <1>1, <1>5 DEF CacheTypeOK
<1>13. {e.turn : e \in entries'} = Range(order')
  <2>1. \A u \in Range(kept) : \E e \in entries \cup {new} : e.turn = u
    BY <1>7, <1>8 DEF CacheInv
  <2> QED
    BY <1>2, <2>1
<1>14. \A u \in Turns : seen'[u] # <<>> => u \in Range(order') \/ later'[u] >= MaxSnapshots
  BY <1>2, <1>7, <1>9, <1>12 DEF CacheInv
<1>15. \A u \in Turns : seen'[u] = <<>> => u \notin Range(order') /\ told'[u] = <<>>
  <2>1. seen'[t] # <<>>
    <3>1. <<memories>> # <<>>
      OBVIOUS
    <3> QED
      BY <1>9, <3>1
  <2> QED
    BY <1>2, <1>7, <1>9, <2>1 DEF CacheInv
<1>16. \A e \in entries' : \/ later'[e.turn] >= MaxSnapshots
                           \/ told'[e.turn] = <<e.memories>> /\ seen'[e.turn] = <<e.memories>>
  <2> SUFFICES ASSUME NEW e \in entries'
               PROVE  \/ later'[e.turn] >= MaxSnapshots
                      \/ told'[e.turn] = <<e.memories>> /\ seen'[e.turn] = <<e.memories>>
    OBVIOUS
  <2>1. CASE e = new
    BY <1>8, <1>9, <1>11, <2>1
  <2>2. CASE e # new
    <3>1. e \in entries /\ e.turn \in Turns /\ e.turn # t
      BY <1>1, <1>2, <2>2 DEF CacheTypeOK, Snapshot
    <3> QED
      BY <1>9, <1>12, <3>1 DEF CacheInv
  <2> QED
    BY <2>1, <2>2
<1>17. MemoryFrozen'
  BY <1>9, <1>11, <1>12 DEF CacheInv, MemoryFrozen
<1>18. \A i \in 1..Len(order') : later'[order'[i]] >= Len(order') - i
  BY <1>2, <1>7
<1> QED
  BY <1>10, <1>13, <1>14, <1>15, <1>16, <1>17, <1>18 DEF CacheInv

\* With the process, the cache is gone.
LEMMA ReopenCache == ASSUME Reopen PROVE CacheInv'
<1>1. MaxSnapshots \in Nat
  BY MemoryAssumption
<1>2. /\ order' = <<>> /\ entries' = {} /\ seen' = NoSnapshot /\ told' = NoSnapshot
      /\ later' = [t \in Turns |-> 0]
  BY DEF Reopen
<1> QED
  BY <1>1, <1>2 DEF CacheInv, CacheTypeOK, NoSnapshot, Range, MemoryFrozen

-----------------------------------------------------------------------------
(* The archive.                                                            *)

\* A retain begins with a call and a large output.
LEMMA RetainKeeps ==
    ASSUME ArchiveInv, NEW c \in CallIds, NEW output \in Outputs, Retain(c, output)
    PROVE  ArchiveInv'
<1>1. /\ step = "idle" /\ step' = "mkdir" /\ job' = [call |-> c, output |-> output]
      /\ UNCHANGED <<dir, json, pending, published, unsynced>>
  BY DEF Retain, Busy
<1>2. job' \in Jobs
  BY <1>1 DEF Jobs
<1> QED
  BY <1>1, <1>2 DEF ArchiveInv, FilesTypeOK, RetainInv, SnapshotInv

\* The forms of the temporary file.
LEMMA PendingForms ==
    /\ NoPending \in Pendings
    /\ \A b \in Outputs : [bytes |-> b, synced |-> FALSE] \in Pendings
    /\ \A p \in Pendings : LET q == [p EXCEPT !.synced = TRUE]
                          IN  q \in Pendings /\ q.synced /\ q.bytes = p.bytes
<1>1. NoPending \in Pendings
  BY DEF Pendings, NoPending
<1>2. \A b \in Outputs : [bytes |-> b, synced |-> FALSE] \in Pendings
  BY DEF Pendings
<1>3. ASSUME NEW p \in Pendings PROVE [p EXCEPT !.synced = TRUE] \in Pendings
  BY DEF Pendings
<1>4. ASSUME NEW p \in Pendings PROVE [p EXCEPT !.synced = TRUE].synced
  BY DEF Pendings
<1>5. ASSUME NEW p \in Pendings PROVE [p EXCEPT !.synced = TRUE].bytes = p.bytes
  BY DEF Pendings
<1> QED
  BY <1>1, <1>2, <1>3, <1>4, <1>5

\* A retain that fails before it has linked anything changes no file.
LEMMA FailKeeps ==
    ASSUME ArchiveInv, RetainFails, UNCHANGED <<dir, json, published>>,
           pending' \in {pending, NoPending},
           IF step = "syncroot" THEN unsynced' = TRUE ELSE unsynced' = unsynced
    PROVE  ArchiveInv'
<1>1. step' = "idle"
  BY DEF RetainFails
<1>2. FilesTypeOK' /\ RetainInv'
  <2>1. pending' \in Pendings
    BY PendingForms DEF ArchiveInv, FilesTypeOK
  <2> QED
    BY <1>1, <2>1 DEF ArchiveInv, FilesTypeOK, RetainInv, Busy
<1>3. SnapshotInv'
  BY <1>1 DEF ArchiveInv, RetainInv, SnapshotInv
<1> QED
  BY <1>2, <1>3 DEF ArchiveInv

\* The directory is created, and made durable unless it was there.
LEMMA DirectoryKeeps == ASSUME ArchiveInv, MakeDirectory \/ SyncRoot PROVE ArchiveInv'
<1>1. CASE RetainFails
  <2>1. /\ UNCHANGED <<dir, json, pending, published>>
        /\ IF step = "syncroot" THEN unsynced' = TRUE ELSE unsynced' = unsynced
    BY <1>1 DEF MakeDirectory, SyncRoot, RetainFails
  <2> QED
    BY <1>1, <2>1, FailKeeps DEF ArchiveInv, FilesTypeOK
<1>2. CASE ~RetainFails
  <2>1. /\ UNCHANGED <<json, pending, published, unsynced, job>> /\ Busy
        /\ \/ step = "mkdir" /\ dir = "none" /\ dir' = "cached" /\ step' = "syncroot"
           \/ step = "mkdir" /\ dir # "none" /\ dir' = dir /\ step' = "look"
           \/ step = "syncroot" /\ dir' = "durable" /\ step' = "look"
    BY <1>2 DEF MakeDirectory, SyncRoot, Busy
  <2>2. FilesTypeOK' /\ RetainInv'
    BY <2>1 DEF ArchiveInv, FilesTypeOK, RetainInv, Busy, Entries
  <2>3. SnapshotInv'
    BY <2>1 DEF ArchiveInv, FilesTypeOK, SnapshotInv, Entries
  <2> QED
    BY <2>2, <2>3 DEF ArchiveInv
<1> QED
  BY <1>1, <1>2

\* A snapshot that exists is kept, and synced again.
LEMMA LookKeeps == ASSUME ArchiveInv, Look PROVE ArchiveInv'
<1> DEFINE c == job.call
<1>1. /\ step = "look" /\ c \in CallIds /\ json[c].entry \in Entries
      /\ UNCHANGED <<dir, pending, published, unsynced>>
  BY DEF Look, ArchiveInv, FilesTypeOK, Busy, Jobs, Files
<1>2. CASE RetainFails /\ json' = json
  BY <1>1, <1>2, FailKeeps
<1>3. CASE json[c].entry = "none" /\ step' = "write" /\ UNCHANGED <<json, job>>
  BY <1>1, <1>3 DEF ArchiveInv, FilesTypeOK, RetainInv, SnapshotInv, Busy
<1>4. CASE /\ json[c].entry # "none" /\ json[c].bytes = job.output
           /\ json' = [json EXCEPT ![c].synced = TRUE]
           /\ step' = "syncdir" /\ UNCHANGED job
  <2>1. json[c].synced
    BY <1>1, <1>4 DEF ArchiveInv, SnapshotInv
  <2>2. json' = json
    BY <1>1, <1>4, <2>1 DEF ArchiveInv, FilesTypeOK, Files
  <2> QED
    BY <1>1, <1>4, <2>2 DEF ArchiveInv, FilesTypeOK, RetainInv, SnapshotInv, Busy
<1> QED
  BY <1>2, <1>3, <1>4 DEF Look

\* The temporary file touches no snapshot.
LEMMA PendingKeeps == ASSUME ArchiveInv, WritePending \/ SyncPending PROVE ArchiveInv'
<1>1. CASE RetainFails
  <2>1. /\ UNCHANGED <<dir, json, published, unsynced>> /\ step # "syncroot"
        /\ pending' \in {pending, NoPending}
    BY <1>1 DEF WritePending, SyncPending, RetainFails
  <2> QED
    BY <1>1, <2>1, FailKeeps
<1>2. CASE ~RetainFails
  <2>1. /\ UNCHANGED <<dir, json, published, unsynced, job>>
        /\ \/ /\ step = "write" /\ step' = "sync"
              /\ pending' = [bytes |-> job.output, synced |-> FALSE]
           \/ step = "sync" /\ step' = "link" /\ pending' = [pending EXCEPT !.synced = TRUE]
    BY <1>2 DEF WritePending, SyncPending
  <2>2. /\ pending' \in Pendings
        /\ step' = "link" => pending'.synced /\ pending'.bytes = pending.bytes
        /\ step' = "sync" => pending'.bytes = job.output
    <3>1. pending \in Pendings /\ job.output \in Outputs
      BY <2>1 DEF ArchiveInv, FilesTypeOK, Busy, Jobs
    <3> QED
      BY <2>1, <3>1, PendingForms
  <2>3. FilesTypeOK'
    BY <2>1, <2>2 DEF ArchiveInv, FilesTypeOK, Busy
  <2>4. RetainInv' /\ SnapshotInv'
    BY <2>1, <2>2 DEF ArchiveInv, RetainInv, SnapshotInv
  <2> QED
    BY <2>3, <2>4 DEF ArchiveInv
<1> QED
  BY <1>1, <1>2

\* The snapshot that is linked is new and whole; no reference leads to it yet.
LEMMA LinkKeeps == ASSUME ArchiveInv, Link PROVE ArchiveInv'
<1> DEFINE c == job.call
           new == [entry |-> "cached", bytes |-> pending.bytes, synced |-> pending.synced]
<1>1. /\ step = "link" /\ c \in CallIds /\ job.output \in Outputs /\ json[c].entry = "none"
      /\ pending.bytes = job.output /\ pending.synced /\ pending' = NoPending
      /\ UNCHANGED <<dir, published, unsynced>>
  BY DEF Link, ArchiveInv, FilesTypeOK, RetainInv, Busy, Jobs
<1>2. pending \in Pendings /\ pending' \in Pendings
  BY <1>1, PendingForms DEF ArchiveInv, FilesTypeOK
<1>3. CASE json' = json
  <2>1. RetainFails
    <3>1. new.entry = "cached" /\ json \in [CallIds -> Files]
      BY DEF ArchiveInv, FilesTypeOK
    <3>2. json # [json EXCEPT ![c] = new]
      BY <1>1, <3>1
    <3> QED
      BY <1>3, <3>2 DEF Link
  <2> QED
    BY <1>1, <1>3, <2>1, FailKeeps
<1>4. CASE json' = [json EXCEPT ![c] = new]
  <2>1. /\ new \in Files /\ new.entry = "cached" /\ new.bytes = job.output
    BY <1>1, <1>2 DEF Files, Entries, Pendings
  <2>2. new.synced
    BY <1>1
  <2> HIDE DEF new
  <2>3. /\ json' \in [CallIds -> Files] /\ json'[c] = new
        /\ \A d \in CallIds \ {c} : json'[d] = json[d]
    BY <1>1, <1>4, <2>1 DEF ArchiveInv, FilesTypeOK
  <2>4. \/ step' = "syncdir" /\ job' = job
        \/ step' = "idle"
    BY DEF Link, RetainFails
  <2>5. FilesTypeOK'
    BY <1>1, <1>2, <2>3, <2>4 DEF ArchiveInv, FilesTypeOK, Busy
  <2>6. RetainInv'
    BY <2>1, <2>3, <2>4 DEF RetainInv
  <2>7. \A d \in CallIds : json'[d].entry # "none" => json'[d].synced /\ json'[d].bytes \in Outputs
    BY <1>1, <2>1, <2>2, <2>3 DEF ArchiveInv, SnapshotInv
  <2>8. ASSUME ~unsynced
        PROVE  /\ dir = "durable"
               /\ \A r \in published : json'[r.call].entry = "durable" /\ json'[r.call].bytes = r.output
    <3>1. \A r \in published : /\ r.call \in CallIds /\ json[r.call].entry = "durable"
                               /\ json[r.call].bytes = r.output
      BY <2>8 DEF ArchiveInv, FilesTypeOK, SnapshotInv, Jobs
    <3>2. dir = "durable"
      BY <1>1, <2>8 DEF ArchiveInv, SnapshotInv
    <3> QED
      BY <1>1, <2>3, <3>1, <3>2
  <2>9. SnapshotInv'
    BY <1>1, <2>7, <2>8 DEF SnapshotInv
  <2> QED
    BY <2>5, <2>6, <2>9 DEF ArchiveInv
<1> QED
  BY <1>3, <1>4 DEF Link

\* A reference is used only after its snapshot and the directory are durable.
LEMMA SyncDirectoryKeeps == ASSUME ArchiveInv, SyncDirectory PROVE ArchiveInv'
<1> DEFINE made(f) == IF f.entry = "cached" THEN [f EXCEPT !.entry = "durable"] ELSE f
<1>1. /\ step = "syncdir" /\ job \in Jobs /\ job.call \in CallIds
      /\ json[job.call].entry # "none" /\ json[job.call].bytes = job.output
      /\ UNCHANGED <<dir, pending, unsynced>>
  BY DEF SyncDirectory, ArchiveInv, FilesTypeOK, RetainInv, Busy, Jobs
<1>2. CASE RetainFails /\ UNCHANGED <<json, published>>
  BY <1>1, <1>2, FailKeeps
<1>3. CASE /\ json' = [c \in CallIds |-> made(json[c])]
           /\ published' = published \cup {job} /\ step' = "idle"
  <2>1. ASSUME NEW f \in Files
        PROVE  /\ made(f) \in Files /\ made(f).bytes = f.bytes /\ made(f).synced = f.synced
               /\ made(f).entry = "none" <=> f.entry = "none"
               /\ f.entry # "none" => made(f).entry = "durable"
    BY DEF Files, Entries
  <2> HIDE DEF made
  <2>2. json \in [CallIds -> Files] /\ \A c \in CallIds : json'[c] = made(json[c])
    BY <1>3 DEF ArchiveInv, FilesTypeOK
  <2>3. FilesTypeOK' /\ RetainInv'
    BY <1>1, <1>3, <2>1, <2>2 DEF ArchiveInv, FilesTypeOK, RetainInv, Busy
  <2>4. \A c \in CallIds : json'[c].entry # "none" => json'[c].synced /\ json'[c].bytes \in Outputs
    BY <2>1, <2>2 DEF ArchiveInv, SnapshotInv
  <2>5. ASSUME ~unsynced
        PROVE  /\ dir = "durable"
               /\ \A r \in published' : json'[r.call].entry = "durable" /\ json'[r.call].bytes = r.output
    <3>1. \A r \in published : /\ r.call \in CallIds /\ json[r.call].entry = "durable"
                               /\ json[r.call].bytes = r.output
      BY <2>5 DEF ArchiveInv, FilesTypeOK, SnapshotInv, Jobs
    <3>2. dir = "durable"
      BY <1>1, <2>5 DEF ArchiveInv, SnapshotInv
    <3>3. \A r \in published' : /\ r.call \in CallIds /\ json[r.call].entry # "none"
                                /\ json[r.call].bytes = r.output
      BY <1>1, <1>3, <3>1
    <3> QED
      BY <2>1, <2>2, <3>2, <3>3
  <2>6. SnapshotInv'
    BY <1>1, <1>3, <2>4, <2>5 DEF SnapshotInv
  <2> QED
    BY <2>3, <2>6 DEF ArchiveInv
<1> QED
  BY <1>2, <1>3 DEF SyncDirectory

\* The end of the process stops retain wherever it is.
LEMMA KillKeeps == ASSUME ArchiveInv, Kill PROVE ArchiveInv'
<1>1. /\ step' = "idle" /\ pending' \in Pendings /\ UNCHANGED <<dir, json, published>>
      /\ unsynced' = (unsynced \/ step = "syncroot")
  BY PendingForms DEF Kill, Restarted
<1>2. FilesTypeOK' /\ RetainInv'
  BY <1>1 DEF ArchiveInv, FilesTypeOK, RetainInv, Busy
<1>3. SnapshotInv'
  BY <1>1 DEF ArchiveInv, RetainInv, SnapshotInv
<1> QED
  BY <1>2, <1>3 DEF ArchiveInv

\* What the loss of power leaves of a whole file: nothing, if its entry was not
\* durable, or all of it.
LEMMA AfterLossSays ==
    ASSUME NEW f \in Files, f.entry # "none" => f.synced /\ f.bytes \in Outputs,
           NEW g \in AfterLoss(f)
    PROVE  /\ g \in Files /\ (g.entry # "none" => g.synced /\ g.bytes \in Outputs)
           /\ f.entry = "none" => g.entry = "none"
           /\ f.entry = "durable" => g = f
<1>1. CASE f.entry = "none"
  BY <1>1 DEF AfterLoss
<1>2. CASE f.entry = "durable"
  <2>1. f.synced /\ g = [f EXCEPT !.bytes = f.bytes]
    BY <1>2 DEF AfterLoss
  <2>2. g = f
    BY <2>1 DEF Files
  <2> QED
    BY <1>2, <2>2
<1>3. CASE f.entry = "cached"
  <2>1. f.synced /\ (g = NoFile \/ g = [f EXCEPT !.entry = "durable", !.bytes = f.bytes])
    BY <1>3 DEF AfterLoss
  <2>2. CASE g = NoFile
    <3>1. NoFile \in Files /\ NoFile.entry = "none"
      BY DEF NoFile, Files, Entries
    <3> QED
      BY <1>3, <2>2, <3>1
  <2>3. CASE g = [f EXCEPT !.entry = "durable", !.bytes = f.bytes]
    <3>1. g \in Files /\ g.bytes = f.bytes /\ g.synced = f.synced
      BY <2>3 DEF Files, Entries
    <3> QED
      BY <1>3, <2>1, <3>1
  <2> QED
    BY <2>1, <2>2, <2>3
<1> QED
  BY <1>1, <1>2, <1>3 DEF Files, Entries

\* The loss of power takes only what was not durable.
LEMMA PowerLossKeeps == ASSUME ArchiveInv, PowerLoss PROVE ArchiveInv'
<1>1. /\ step' = "idle" /\ pending' \in Pendings /\ UNCHANGED <<published, unsynced>>
  BY PendingForms DEF PowerLoss, Restarted
<1>2. CASE /\ dir' = (IF dir = "cached" THEN "durable" ELSE dir)
           /\ json' \in [CallIds -> UNION {AfterLoss(json[c]) : c \in CallIds}]
           /\ \A c \in CallIds : json'[c] \in AfterLoss(json[c])
  <2>1. \A c \in CallIds : /\ json[c] \in Files
                           /\ json[c].entry # "none" => json[c].synced /\ json[c].bytes \in Outputs
    BY DEF ArchiveInv, FilesTypeOK, SnapshotInv
  <2>2. \A c \in CallIds :
          /\ json'[c] \in Files
          /\ json'[c].entry # "none" => json'[c].synced /\ json'[c].bytes \in Outputs
          /\ json[c].entry = "none" => json'[c].entry = "none"
          /\ json[c].entry = "durable" => json'[c] = json[c]
    BY <1>2, <2>1, AfterLossSays
  <2>3. json' \in [CallIds -> Files]
    BY <1>2, <2>2
  <2>4. FilesTypeOK' /\ RetainInv'
    BY <1>1, <1>2, <2>3 DEF ArchiveInv, FilesTypeOK, RetainInv, Busy, Entries
  <2>5. ASSUME ~unsynced
        PROVE  /\ dir' # "cached"
               /\ dir' # "durable" => \A c \in CallIds : json'[c].entry = "none"
               /\ \A r \in published : json'[r.call].entry = "durable" /\ json'[r.call].bytes = r.output
    <3>1. \A r \in published : /\ r.call \in CallIds /\ json[r.call].entry = "durable"
                               /\ json[r.call].bytes = r.output
      BY <2>5 DEF ArchiveInv, FilesTypeOK, SnapshotInv, Jobs
    <3>2. dir # "durable" => \A c \in CallIds : json[c].entry = "none"
      BY <2>5 DEF ArchiveInv, SnapshotInv
    <3> QED
      BY <1>2, <2>2, <3>1, <3>2
  <2>6. SnapshotInv'
    BY <1>1, <2>2, <2>5 DEF SnapshotInv
  <2> QED
    BY <2>4, <2>6 DEF ArchiveInv
<1>3. CASE dir = "cached" /\ dir' = "none" /\ json' = [c \in CallIds |-> NoFile]
  <2>1. NoFile \in Files /\ NoFile.entry = "none"
    BY DEF NoFile, Files, Entries
  <2>2. /\ json' \in [CallIds -> Files] /\ \A c \in CallIds : json'[c].entry = "none"
    BY <1>3, <2>1
  <2>3. FilesTypeOK' /\ RetainInv'
    BY <1>1, <1>3, <2>2 DEF ArchiveInv, FilesTypeOK, RetainInv, Busy, Entries
  <2>4. ~unsynced => published = {}
    <3> SUFFICES ASSUME ~unsynced, NEW r \in published PROVE FALSE
      OBVIOUS
    <3>1. r.call \in CallIds /\ json[r.call].entry = "durable"
      BY DEF ArchiveInv, FilesTypeOK, SnapshotInv, Jobs
    <3> QED
      BY <1>3, <3>1 DEF ArchiveInv, SnapshotInv
  <2>5. SnapshotInv'
    BY <1>1, <1>3, <2>2, <2>4 DEF SnapshotInv
  <2> QED
    BY <2>3, <2>5 DEF ArchiveInv
<1> QED
  BY <1>2, <1>3 DEF PowerLoss

\* Every operation of retain.
LEMMA RetainStepKeeps == ASSUME ArchiveInv, RetainStep PROVE ArchiveInv'
BY DirectoryKeeps, LookKeeps, PendingKeeps, LinkKeeps, SyncDirectoryKeeps DEF RetainStep

-----------------------------------------------------------------------------
(* The transcript.                                                         *)

\* What Closed says of one message.
ClosedAt(s, i) ==
    /\ s[i].type = "tool" => s[i].call \in CallIds /\ Absorbed(s, i)
    /\ s[i].type = "assistant" =>
          i + s[i].calls <= Len(s) /\ \A k \in 1..s[i].calls : s[i + k].type = "tool"

\* A closed transcript stays closed when what follows it is.
LEMMA ClosedExtends ==
    ASSUME NEW s \in Seq(Messages), Closed(s), NEW w \in Seq(Messages), Len(s) <= Len(w),
           \A i \in 1..Len(s) : w[i] = s[i],
           \A i \in (Len(s) + 1)..Len(w) : ClosedAt(w, i)
    PROVE  Closed(w)
<1> SUFFICES ASSUME NEW i \in 1..Len(s) PROVE ClosedAt(w, i)
  <2>1. \A i \in 1..Len(w) : i \in 1..Len(s) \/ i \in (Len(s) + 1)..Len(w)
    OBVIOUS
  <2> QED
    BY <2>1 DEF Closed, ClosedAt
<1>1. ClosedAt(s, i) /\ w[i] = s[i] /\ s[i] \in Messages
  BY DEF Closed, ClosedAt
<1>2. ASSUME s[i].type = "tool" PROVE Absorbed(w, i)
  <2>1. PICK a \in 1..(i - 1) : /\ s[a].type = "assistant" /\ i - a <= s[a].calls
                                /\ \A k \in (a + 1)..i : s[k].type = "tool"
    BY <1>1, <1>2 DEF ClosedAt, Absorbed
  <2>2. a \in 1..Len(s) /\ \A k \in (a + 1)..i : k \in 1..Len(s)
    BY <2>1
  <2>3. w[a] = s[a] /\ \A k \in (a + 1)..i : w[k] = s[k]
    BY <2>2
  <2> QED
    BY <1>1, <1>2, <2>1, <2>3 DEF Absorbed
<1>3. ASSUME s[i].type = "assistant"
      PROVE  i + w[i].calls <= Len(w) /\ \A k \in 1..w[i].calls : w[i + k].type = "tool"
  <2>1. s[i].calls \in Nat /\ i + s[i].calls <= Len(s)
    BY <1>1, <1>3 DEF ClosedAt, Messages
  <2>2. \A k \in 1..s[i].calls : i + k \in 1..Len(s)
    BY <2>1
  <2> QED
    BY <1>1, <1>3, <2>1, <2>2 DEF ClosedAt
<1> QED
  BY <1>1, <1>2, <1>3 DEF ClosedAt

\* A message of the user stands alone.
LEMMA SayKeeps == ASSUME TranscriptInv, Say PROVE TranscriptInv'
<1> DEFINE m == Message("user", 0, None, None)
<1>1. m \in Messages /\ m.type = "user"
  BY DEF Message, Messages
<1>2. transcript' = Append(transcript, m) /\ compiling' = compiling
  BY DEF Say
<1> HIDE DEF m
<1>3. /\ transcript' \in Seq(Messages) /\ Len(transcript') = Len(transcript) + 1
      /\ \A i \in 1..Len(transcript) : transcript'[i] = transcript[i]
      /\ transcript'[Len(transcript) + 1] = m /\ Len(transcript) \in Nat
  BY <1>1, <1>2 DEF TranscriptInv
<1>4. \A i \in (Len(transcript) + 1)..Len(transcript') : i = Len(transcript) + 1
  BY <1>3
<1>5. \A i \in (Len(transcript) + 1)..Len(transcript') : ClosedAt(transcript', i)
  BY <1>1, <1>3, <1>4 DEF ClosedAt
<1>6. Closed(transcript')
  <2>1. Len(transcript) <= Len(transcript') /\ transcript \in Seq(Messages) /\ Closed(transcript)
    BY <1>3 DEF TranscriptInv
  <2> QED
    BY <1>3, <1>5, <2>1, ClosedExtends
<1> QED
  BY <1>2, <1>3, <1>6 DEF TranscriptInv

\* Where the elements of a concatenation come from.
LEMMA ConcatSays ==
    ASSUME NEW a \in Seq(Messages), NEW b \in Seq(Messages)
    PROVE  /\ a \o b \in Seq(Messages) /\ Len(a \o b) = Len(a) + Len(b)
           /\ \A i \in 1..Len(a) : (a \o b)[i] = a[i]
           /\ \A k \in 1..Len(b) : (a \o b)[Len(a) + k] = b[k]
<1>1. /\ Len(a) \in Nat /\ Len(b) \in Nat /\ a \o b \in Seq(Messages) /\ Len(a \o b) = Len(a) + Len(b)
      /\ \A i \in 1..(Len(a) + Len(b)) :
            (a \o b)[i] = IF i <= Len(a) THEN a[i] ELSE b[i - Len(a)]
  BY ConcatProperties
<1>2. ASSUME NEW k \in 1..Len(b) PROVE (a \o b)[Len(a) + k] = b[k]
  <2>1. /\ Len(a) + k \in 1..(Len(a) + Len(b)) /\ ~(Len(a) + k <= Len(a))
        /\ Len(a) + k - Len(a) = k
    BY <1>1
  <2> QED
    BY <1>1, <2>1
<1>3. ASSUME NEW i \in 1..Len(a) PROVE (a \o b)[i] = a[i]
  <2>1. i \in 1..(Len(a) + Len(b)) /\ i <= Len(a)
    BY <1>1
  <2> QED
    BY <1>1, <2>1
<1> QED
  BY <1>1, <1>2, <1>3

\* A response comes with the receipts of all its calls.
LEMMA RespondKeeps ==
    ASSUME TranscriptInv, NEW n \in Nat, NEW ids \in [1..n -> CallIds],
           NEW outputs \in [1..n -> Outputs \cup {None}], Respond(ids, outputs)
    PROVE  TranscriptInv'
<1> DEFINE m == Message("assistant", n, None, None)
           tools == [i \in 1..n |-> Message("tool", 0, ids[i], outputs[i])]
           l == Len(transcript)
<1>1. ids \in Seq(CallIds) /\ Len(ids) = n /\ DOMAIN ids = 1..n
  BY IsASeq
<1>2. m \in Messages /\ m.type = "assistant" /\ m.calls = n
  BY DEF Message, Messages
<1>3. ASSUME NEW i \in 1..n
      PROVE  /\ Message("tool", 0, ids[i], outputs[i]) \in Messages
             /\ Message("tool", 0, ids[i], outputs[i]).type = "tool"
             /\ Message("tool", 0, ids[i], outputs[i]).call \in CallIds
  BY DEF Message, Messages
<1>4. /\ tools \in Seq(Messages) /\ Len(tools) = n
      /\ \A i \in 1..n : tools[i].type = "tool" /\ tools[i].call \in CallIds
  <2>1. tools \in [1..n -> Messages]
    BY <1>3
  <2>2. tools \in Seq(Messages) /\ Len(tools) = n
    BY <2>1, IsASeq
  <2> QED
    BY <1>3, <2>2
<1>5. transcript' = (transcript \o <<m>>) \o tools /\ compiling' = compiling
  BY <1>1 DEF Respond
<1> HIDE DEF m, tools
<1>6. l \in Nat /\ transcript \in Seq(Messages) /\ Closed(transcript)
  BY DEF TranscriptInv
<1>7. /\ transcript \o <<m>> \in Seq(Messages) /\ Len(transcript \o <<m>>) = l + 1
      /\ (transcript \o <<m>>)[l + 1] = m
      /\ \A i \in 1..l : (transcript \o <<m>>)[i] = transcript[i]
  BY <1>2, <1>6
<1>8. /\ transcript' \in Seq(Messages) /\ Len(transcript') = l + 1 + n
      /\ \A i \in 1..(l + 1) : transcript'[i] = (transcript \o <<m>>)[i]
      /\ \A k \in 1..n : transcript'[l + 1 + k] = tools[k]
  <2> DEFINE base == transcript \o <<m>>
  <2>1. /\ base \in Seq(Messages) /\ Len(base) = l + 1 /\ transcript' = base \o tools
    BY <1>5, <1>7
  <2> HIDE DEF base, l
  <2>2. /\ transcript' \in Seq(Messages) /\ Len(transcript') = Len(base) + n
        /\ \A i \in 1..Len(base) : transcript'[i] = base[i]
        /\ \A k \in 1..n : transcript'[Len(base) + k] = tools[k]
    <3>1. base \in Seq(Messages) /\ tools \in Seq(Messages)
      BY <1>4, <2>1
    <3>2. /\ base \o tools \in Seq(Messages) /\ Len(base \o tools) = Len(base) + Len(tools)
          /\ \A i \in 1..Len(base) : (base \o tools)[i] = base[i]
          /\ \A k \in 1..Len(tools) : (base \o tools)[Len(base) + k] = tools[k]
      BY <3>1, ConcatSays
    <3> QED
      BY <1>4, <2>1, <3>2
  <2> QED
    BY <2>1, <2>2 DEF base
<1>9. /\ transcript'[l + 1] = m
      /\ \A i \in 1..l : transcript'[i] = transcript[i]
  <2>1. l + 1 \in 1..(l + 1) /\ \A i \in 1..l : i \in 1..(l + 1)
    BY <1>6
  <2> QED
    BY <1>7, <1>8, <2>1
<1>10. ClosedAt(transcript', l + 1)
  BY <1>2, <1>4, <1>6, <1>8, <1>9 DEF ClosedAt
<1>11. ASSUME NEW k \in 1..n PROVE ClosedAt(transcript', l + 1 + k)
  <2>1. transcript'[l + 1 + k].type = "tool" /\ transcript'[l + 1 + k].call \in CallIds
    BY <1>4, <1>8
  <2>2. l + 1 \in 1..(l + 1 + k - 1) /\ l + 1 + k - (l + 1) <= n
    BY <1>6
  <2>3. \A j \in ((l + 1) + 1)..(l + 1 + k) : transcript'[j].type = "tool"
    <3> SUFFICES ASSUME NEW j \in ((l + 1) + 1)..(l + 1 + k) PROVE transcript'[j].type = "tool"
      OBVIOUS
    <3>1. j - (l + 1) \in 1..n /\ l + 1 + (j - (l + 1)) = j
      BY <1>6
    <3> QED
      BY <1>4, <1>8, <3>1
  <2>4. Absorbed(transcript', l + 1 + k)
    BY <1>2, <1>9, <2>1, <2>2, <2>3 DEF Absorbed
  <2> QED
    BY <2>1, <2>4 DEF ClosedAt
<1>12. \A i \in (l + 1)..Len(transcript') : ClosedAt(transcript', i)
  <2>1. \A i \in (l + 1)..(l + 1 + n) : i = l + 1 \/ (i - (l + 1) \in 1..n /\ i = l + 1 + (i - (l + 1)))
    BY <1>6
  <2> QED
    BY <1>8, <1>10, <1>11, <2>1
<1>13. Closed(transcript')
  <2>1. l <= Len(transcript')
    BY <1>6, <1>8
  <2> QED
    BY <1>6, <1>8, <1>9, <1>12, <2>1, ClosedExtends
<1> QED
  BY <1>5, <1>8, <1>13 DEF TranscriptInv

\* The window begins with a message that is not a receipt.
LEMMA WindowStart ==
    ASSUME NEW s \in Seq(Messages), Closed(s), Compacted(s) # <<>>
    PROVE  \E m \in 1..Len(s) : s[m].type # "tool" /\ Compacted(s) = SubSeq(s, m, Len(s))
<1> DEFINE starts == GroupStarts(s)
           kept == {i \in starts : Cardinality({j \in starts : j >= i}) <= MaxGroups}
<1>1. kept # {} /\ Compacted(s) = SubSeq(s, Min(kept), Len(s))
  BY DEF Compacted
<1>2. kept \subseteq 1..Len(s) /\ \A i \in kept : ~Absorbed(s, i)
  BY DEF GroupStarts
<1> HIDE DEF kept
<1>3. Min(kept) \in kept
  <2>1. kept \subseteq Nat
    BY <1>2
  <2> QED
    BY <1>1, <2>1, MinSays
<1>4. s[Min(kept)].type # "tool"
  BY <1>2, <1>3 DEF Closed
<1> QED
  BY <1>1, <1>2, <1>3, <1>4

\* A closed transcript has a closed window: the response of a receipt behind the start
\* of the window cannot lie before it, for then the start would be a receipt.
LEMMA ClosedWindow == TranscriptInv => WindowClosed
<1> SUFFICES ASSUME TranscriptInv,
                    NEW i \in DOMAIN Compacted(transcript)
             PROVE  LET w == Compacted(transcript) IN
                    /\ w[i].type = "tool" =>
                          \E a \in 1..(i - 1) : w[a].type = "assistant" /\ i - a <= w[a].calls
                    /\ w[i].type = "assistant" =>
                          i + w[i].calls <= Len(w) /\ \A k \in 1..w[i].calls : w[i + k].type = "tool"
  BY DEF WindowClosed
<1> DEFINE s == transcript
           w == Compacted(s)
<1>1. s \in Seq(Messages) /\ Closed(s) /\ Len(s) \in Nat
  BY DEF TranscriptInv
<1>2. PICK m \in 1..Len(s) : s[m].type # "tool" /\ w = SubSeq(s, m, Len(s))
  <2>1. w # <<>>
    OBVIOUS
  <2> QED
    BY <1>1, <2>1, WindowStart
<1>3. /\ Len(w) = Len(s) - m + 1 /\ \A j \in 1..Len(w) : w[j] = s[m + j - 1]
      /\ i \in 1..Len(w)
  BY <1>1, <1>2
<1> HIDE DEF w, s
<1>4. m + i - 1 \in 1..Len(s) /\ w[i] = s[m + i - 1] /\ s[m + i - 1] \in Messages
  BY <1>1, <1>3
<1>5. ASSUME w[i].type = "tool"
      PROVE  \E a \in 1..(i - 1) : w[a].type = "assistant" /\ i - a <= w[a].calls
  <2> DEFINE p == m + i - 1
  <2>0. p = m + i - 1 /\ Absorbed(s, p)
    BY <1>1, <1>4, <1>5 DEF Closed
  <2> HIDE DEF p
  <2>1. PICK b \in 1..(p - 1) : /\ s[b].type = "assistant" /\ p - b <= s[b].calls
                                /\ \A k \in (b + 1)..p : s[k].type = "tool"
    BY <2>0 DEF Absorbed
  <2>2. b >= m
    <3> SUFFICES ASSUME b < m PROVE FALSE
      BY <1>1
    <3>1. m \in (b + 1)..p
      BY <1>1, <1>3, <2>0
    <3> QED
      BY <1>2, <2>1, <3>1
  <2>3. b - m + 1 \in 1..(i - 1) /\ b - m + 1 \in 1..Len(w) /\ m + (b - m + 1) - 1 = b
    BY <1>1, <1>3, <2>0, <2>1, <2>2
  <2>4. w[b - m + 1] = s[b]
    BY <1>3, <2>3
  <2>5. s[b].calls \in Nat
    <3>1. b \in 1..Len(s)
      BY <1>1, <1>4, <2>0
    <3>2. s[b] \in Messages
      BY <1>1, <3>1
    <3> QED
      BY <3>2 DEF Messages
  <2>6. i - (b - m + 1) <= s[b].calls
    BY <1>1, <1>3, <2>0, <2>1, <2>5
  <2> QED
    BY <2>1, <2>3, <2>4, <2>6
<1>6. ASSUME w[i].type = "assistant"
      PROVE  i + w[i].calls <= Len(w) /\ \A k \in 1..w[i].calls : w[i + k].type = "tool"
  <2>1. /\ m + i - 1 + w[i].calls <= Len(s) /\ w[i].calls \in Nat
        /\ \A k \in 1..w[i].calls : s[m + i - 1 + k].type = "tool"
    BY <1>4, <1>6, <1>1 DEF Closed, Messages
  <2>2. i + w[i].calls <= Len(w)
    BY <1>1, <1>3, <2>1
  <2>3. ASSUME NEW k \in 1..w[i].calls PROVE w[i + k].type = "tool"
    <3> DEFINE c == w[i].calls
    <3>1. c \in Nat /\ k \in 1..c /\ i + c <= Len(w)
      BY <2>1, <2>2
    <3> HIDE DEF c
    <3>2. i \in Nat /\ m \in Nat /\ Len(w) \in Nat
      BY <1>1, <1>3
    <3>3. i + k \in 1..Len(w) /\ m + (i + k) - 1 = m + i - 1 + k
      BY <3>1, <3>2
    <3> QED
      BY <1>3, <2>1, <3>3
  <2> QED
    BY <2>2, <2>3
<1> QED
  BY <1>5, <1>6 DEF w, s

-----------------------------------------------------------------------------
(* The parts together.                                                     *)

\* Nothing is stored, cached, archived or said.
LEMMA InitHolds == Init => ContextInv
<1> SUFFICES ASSUME Init PROVE ContextInv
  OBVIOUS
<1>1. StoreInv
  <2>1. ASSUME NEW x \in Ids PROVE Replay(<<>>)[x] = None
    <3>1. About(<<>>, x) = {}
      BY DEF About
    <3> QED
      BY <3>1, ReplaySays
  <2>2. /\ file = <<>> /\ records = [x \in Ids |-> None] /\ found = [c \in Clients |-> None]
        /\ promised = [x \in Ids |-> {None}] /\ tried = [x \in Ids |-> {}]
    BY DEF Init, MemoryInit
  <2>3. \A x \in Ids : records[x] = None /\ promised[x] = {None} /\ Replay(file)[x] = None
    BY <2>1, <2>2
  <2> QED
    BY <2>2, <2>3 DEF StoreInv, Recalls
<1>2. CacheInv
  <2>1. MaxSnapshots \in Nat
    BY MemoryAssumption
  <2> QED
    BY <2>1 DEF Init, MemoryInit, CacheInv, CacheTypeOK, NoSnapshot, Range, MemoryFrozen
<1>3. ArchiveInv
  <2>1. NoFile \in Files /\ NoFile.entry = "none" /\ NoPending \in Pendings
    BY PendingForms DEF NoFile, Files, Entries
  <2> QED
    BY <2>1 DEF Init, ArchiveInit, ArchiveInv, FilesTypeOK, RetainInv, SnapshotInv, Busy, Entries
<1>4. TranscriptInv
  BY DEF Init, TranscriptInv, Closed
<1> QED
  BY <1>1, <1>2, <1>3, <1>4 DEF ContextInv

\* The parts that a step leaves alone keep their invariant: the store.
LEMMA StoreStays ==
    ASSUME StoreInv, UNCHANGED <<file, store, records, found, promised, tried>>
    PROVE  StoreInv'
BY DEF StoreInv, Torn

\* The snapshots of the turns.
LEMMA CacheStays ==
    ASSUME CacheInv, UNCHANGED <<order, entries, seen, told, later>> PROVE CacheInv'
BY DEF CacheInv, CacheTypeOK, MemoryFrozen

\* The archive.
LEMMA ArchiveStays ==
    ASSUME ArchiveInv, UNCHANGED <<dir, json, pending, step, job, published, unsynced>>
    PROVE  ArchiveInv'
BY DEF ArchiveInv, FilesTypeOK, RetainInv, SnapshotInv, Busy

\* The transcript.
LEMMA TranscriptStays ==
    ASSUME TranscriptInv, UNCHANGED <<transcript, compiling>> PROVE TranscriptInv'
BY DEF TranscriptInv

\* The transcript grows.
LEMMA TalkKeeps ==
    ASSUME ContextInv,
           \/ Say
           \/ \E n \in Nat : \E ids \in [1..n -> CallIds], outputs \in [1..n -> Outputs \cup {None}] :
                 Respond(ids, outputs)
    PROVE  ContextInv'
<1>1. UNCHANGED <<memoryVars, archiveVars>>
  BY DEF Say, Respond
<1>2. TranscriptInv'
  BY SayKeeps, RespondKeeps DEF ContextInv
<1> QED
  BY <1>1, <1>2, StoreStays, CacheStays, ArchiveStays DEF ContextInv, memoryVars, promises, archiveVars

\* compile, one message after the other.
LEMMA CompileKeeps ==
    ASSUME ContextInv,
           (\E t \in Turns : CompileStart(t)) \/ CompileMessage \/ CompileFails
    PROVE  ContextInv'
<1>1. UNCHANGED memoryVars /\ UNCHANGED transcript
  BY DEF CompileStart, CompileMessage, CompileFails
<1>2. StoreInv' /\ CacheInv'
  BY <1>1, StoreStays, CacheStays DEF ContextInv, memoryVars, promises
<1>3. compiling' # None => compiling' \in [turn : Turns, next : Nat \ {0}]
  <2>1. CASE CompileMessage
    <3>1. compiling \in [turn : Turns, next : Nat \ {0}]
      BY <2>1 DEF CompileMessage, ContextInv, TranscriptInv
    <3>2. compiling' = [compiling EXCEPT !.next = compiling.next + 1]
      BY <2>1 DEF CompileMessage
    <3> QED
      BY <3>1, <3>2
  <2>2. CASE \E t \in Turns : CompileStart(t)
    BY <2>2 DEF CompileStart
  <2>3. CASE CompileFails
    BY <2>3 DEF CompileFails
  <2> QED
    BY <2>1, <2>2, <2>3
<1>4. TranscriptInv'
  BY <1>1, <1>3 DEF ContextInv, TranscriptInv
<1>5. ArchiveInv'
  <2>1. CASE CompileMessage /\ Large(compiling.next)
    <3> DEFINE m == transcript[compiling.next]
    <3>1. compiling.next \in 1..Len(transcript)
      BY <2>1 DEF CompileMessage, ContextInv, TranscriptInv
    <3>2. m \in Messages /\ m.type = "tool" /\ m.output # None
      BY <2>1, <3>1 DEF Large, ContextInv, TranscriptInv
    <3>3. m.call \in CallIds
      BY <3>1, <3>2 DEF ContextInv, TranscriptInv, Closed
    <3>4. m.output \in Outputs /\ Retain(m.call, m.output)
      BY <2>1, <3>2 DEF CompileMessage, Messages
    <3> QED
      BY <3>3, <3>4, RetainKeeps DEF ContextInv
  <2>2. CASE ~(CompileMessage /\ Large(compiling.next))
    <3>1. UNCHANGED <<dir, json, pending, step, job, published, unsynced>>
      BY <2>2 DEF CompileStart, CompileMessage, CompileFails, archiveVars
    <3> QED
      BY <3>1, ArchiveStays DEF ContextInv
  <2> QED
    BY <2>1, <2>2
<1> QED
  BY <1>2, <1>4, <1>5 DEF ContextInv

\* The end of compile, where the turn is told its memories.
LEMMA CompileEndsKeeps == ASSUME ContextInv, CompileEnds PROVE ContextInv'
<1>1. compiling.turn \in Turns /\ CompileMemory(compiling.turn)
  BY DEF CompileEnds, ContextInv, TranscriptInv
<1>2. CacheInv'
  BY <1>1, CachedKeeps, SnapshotKeeps DEF ContextInv
<1>3. StoreInv'
  BY <1>1, StoreStays DEF CompileMemory, ContextInv, promises
<1>4. ArchiveInv' /\ TranscriptInv'
  BY ArchiveStays DEF CompileEnds, ContextInv, archiveVars, TranscriptInv
<1> QED
  BY <1>2, <1>3, <1>4 DEF ContextInv

\* The memory is written by other threads.
LEMMA MemoryStepKeeps == ASSUME ContextInv, MemoryStep PROVE ContextInv'
<1>1. UNCHANGED <<archiveVars, contextVars>>
  BY DEF MemoryStep
<1>2. ArchiveInv' /\ TranscriptInv'
  BY <1>1, ArchiveStays, TranscriptStays DEF ContextInv, archiveVars, contextVars
<1>3. \/ \E x \in Ids, text \in Texts : Upsert(x, text)
      \/ \E c \in Clients, x \in Ids : ForgetLook(c, x)
      \/ \E c \in Clients : ForgetAppend(c)
  BY DEF MemoryStep
<1>4. CacheInv'
  BY <1>3, CacheStays DEF Upsert, ForgetLook, ForgetAppend, ContextInv
<1>5. ASSUME NEW c \in Clients, NEW x \in Ids, ForgetLook(c, x) PROVE StoreInv'
  <2>1. /\ found' = [found EXCEPT ![c] = x] /\ UNCHANGED <<file, store, records, promised, tried>>
    BY <1>5 DEF ForgetLook, promises
  <2> QED
    BY <2>1 DEF ContextInv, StoreInv, Torn
<1>6. StoreInv'
  BY <1>3, <1>5, UpsertKeeps, ForgetKeeps DEF ContextInv
<1> QED
  BY <1>2, <1>4, <1>6 DEF ContextInv

\* The process starts again.
LEMMA RestartKeeps == ASSUME ContextInv, Restart PROVE ContextInv'
<1>1. Reopen /\ (Kill \/ PowerLoss) /\ compiling' = None /\ transcript' = transcript
  BY DEF Restart
<1>2. StoreInv' /\ CacheInv'
  BY <1>1, ReopenStore, ReopenCache DEF ContextInv
<1>3. ArchiveInv'
  BY <1>1, KillKeeps, PowerLossKeeps DEF ContextInv
<1>4. TranscriptInv'
  BY <1>1 DEF ContextInv, TranscriptInv
<1> QED
  BY <1>2, <1>3, <1>4 DEF ContextInv

\* ContextInv is inductive.
LEMMA NextKeeps == ContextInv /\ [Next]_vars => ContextInv'
<1> SUFFICES ASSUME ContextInv, [Next]_vars PROVE ContextInv'
  OBVIOUS
<1>1. CASE UNCHANGED vars
  <2>1. UNCHANGED <<memoryVars, archiveVars, contextVars>>
    BY <1>1 DEF vars
  <2> QED
    BY <2>1, StoreStays, CacheStays, ArchiveStays, TranscriptStays
       DEF ContextInv, memoryVars, promises, archiveVars, contextVars
<1>2. CASE ArchiveStep
  <2>1. ArchiveInv'
    BY <1>2, RetainStepKeeps DEF ArchiveStep, ContextInv
  <2>2. UNCHANGED <<memoryVars, contextVars>>
    BY <1>2 DEF ArchiveStep
  <2> QED
    BY <2>1, <2>2, StoreStays, CacheStays, TranscriptStays
       DEF ContextInv, memoryVars, promises, contextVars
<1>3. CASE \E n \in 1..2 : \E ids \in [1..n -> CallIds], outputs \in [1..n -> Outputs \cup {None}] :
              IsInjective(ids) /\ Respond(ids, outputs)
  BY <1>3, TalkKeeps
<1> QED
  BY <1>1, <1>2, <1>3, TalkKeeps, CompileKeeps, CompileEndsKeeps, MemoryStepKeeps, RestartKeeps
     DEF Next

\* Every reachable state satisfies ContextInv.
LEMMA InvariantHolds == Spec => []ContextInv
BY InitHolds, NextKeeps, PTL DEF Spec

-----------------------------------------------------------------------------
(* The theorems.                                                           *)

\* For every cache size, recall limit and number of turns: what MemoryContextCompiler
\* tells a turn changes only after as many other snapshots as the cache holds.
THEOREM MemoryFrozenHolds == Spec => []MemoryFrozen
<1>1. ContextInv => MemoryFrozen
  BY DEF ContextInv, CacheInv
<1> QED
  BY <1>1, InvariantHolds, PTL

\* What was stored is kept and what was forgotten does not come back, in every store
\* that opens, through failed writes, lines written on the rest of another, concurrent
\* forgets (JsonlMemoryStore::append, forget, open) and any number of restarts.
THEOREM WritesServedHolds == Spec => []WritesServed
<1>1. ContextInv => WritesServed
  BY DEF ContextInv, StoreInv, WritesServed
<1> QED
  BY <1>1, InvariantHolds, PTL

\* Wherever a retain fails and whatever a loss of power takes, a reference that was
\* handed out leads to its output and no partial snapshot appears, with the one
\* exception the model names.
THEOREM ReferencesResolveHolds == Spec => []ReferencesResolve
<1>1. ContextInv => ReferencesResolve
  <2> SUFFICES ASSUME ArchiveInv PROVE ReferencesResolve
    BY DEF ContextInv
  <2>1. \A c \in CallIds : json[c].entry # "none" => json[c].bytes \in Outputs
    BY DEF ArchiveInv, SnapshotInv
  <2>2. unsynced \/ \A r \in published : json[r.call].bytes = r.output
    BY DEF ArchiveInv, SnapshotInv
  <2> QED
    BY <2>1, <2>2 DEF ReferencesResolve
<1> QED
  BY <1>1, InvariantHolds, PTL

\* For every transcript and every number of groups: compact_transcript neither cuts a
\* response from its receipts nor a receipt from its response.
THEOREM WindowClosedHolds == Spec => []WindowClosed
<1>1. ContextInv => WindowClosed
  BY ClosedWindow DEF ContextInv
<1> QED
  BY <1>1, InvariantHolds, PTL
=============================================================================
