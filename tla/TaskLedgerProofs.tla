------------------------- MODULE TaskLedgerProofs -------------------------
(***************************************************************************)
(* Proofs about TaskLedger, for every number of tasks, keys, workers,      *)
(* failed appends, restarts and clock ticks, and whatever failed appends   *)
(* leave in the file:                                                      *)
(*                                                                         *)
(*   ClaimedOnceHolds      Spec => []ClaimedOnce                           *)
(*   OutcomeOnceHolds      Spec => []OutcomeOnce                           *)
(*   LeaseFencedHolds      Spec => []LeaseFenced                           *)
(*   ReplayIsMemoryHolds   Spec => []ReplayIsMemory                        *)
(*   SubmittedOnceHolds    Spec => []SubmittedOnce                         *)
(***************************************************************************)
EXTENDS TaskLedger, WellFoundedInduction, TLAPS

Claims(id) ==
    \E i \in DOMAIN told : told[i].event.id = id /\ told[i].event.type = "Claimed"
Ended(id) ==
    \E i \in DOMAIN told : told[i].event.id = id /\ told[i].event.type \in Outcomes

\* A table of tasks reflects what callers were told.
Reflects(ts) ==
    \A id \in TaskIds :
        /\ Claims(id) => ts[id].status \notin {"Absent", "Pending"}
        /\ Ended(id) => ts[id].status \in Outcomes

(***************************************************************************)
(* The inductive invariant: both tables, the one in memory and the one     *)
(* that the next open rebuilds, reflect what callers were told; they may   *)
(* differ from each other.                                                 *)
(***************************************************************************)
MemoryReflects == up => Reflects(tasks)
DiskReflects == Readable => Reflects(replayed)
SweepRunning == \A id \in sweep : up /\ tasks[id].status = "Running"
LInv == /\ TypeOK /\ MemoryReflects /\ DiskReflects /\ SweepRunning
        /\ ClaimedOnce /\ OutcomeOnce

\* Which statuses an event may meet, for callers to be told of it.
Allowed(e) ==
    /\ e.type \in {"Claimed", "Submitted"} => tasks[e.id].status \in {"Absent", "Pending"}
    /\ e.type # "DeliveryAcknowledged" => tasks[e.id].status \notin Outcomes

USE LedgerAssumption

\* What an event makes of the task it is about.
LEMMA AfterType ==
    ASSUME NEW task \in Records, NEW e \in Events,
           e.type = "Submitted" => e.who \in Keys,
           e.type = "Claimed" => e.who \in Workers
    PROVE  /\ After(task, e) \in Records
           /\ e.type = "Claimed" => After(task, e).status = "Running"
           /\ e.type = "Submitted" => After(task, e).status = "Pending"
           /\ e.type \in Outcomes => After(task, e).status = e.type
           /\ e.type \in {"Heartbeat", "DeliveryAcknowledged"} =>
                 After(task, e).status = task.status
  <1>1. e.time \in Nat
    BY DEF Events
  <1>2. CASE e.type = "Submitted"
    <2>1. After(task, e) = [Absent EXCEPT !.key = e.who, !.status = "Pending",
                                          !.created = e.time]
      BY <1>2 DEF After
    <2>2. After(task, e) = [key |-> e.who, status |-> "Pending", attempt |-> 0,
              worker |-> None, expires |-> 0, delivery |-> "NotReady", created |-> e.time]
      BY <2>1 DEF Absent
    <2> QED BY <1>1, <1>2, <2>2 DEF Records, Outcomes
  <1>3. CASE e.type = "Claimed"
    <2>1. After(task, e) = [task EXCEPT !.status = "Running", !.attempt = @ + 1,
                                        !.worker = e.who, !.expires = e.time]
      BY <1>3 DEF After
    <2>2. [task EXCEPT !.status = "Running", !.worker = e.who] \in Records
      BY <1>3 DEF Records, Outcomes
    <2>3. ASSUME NEW r \in Records, NEW n \in Nat
          PROVE  [r EXCEPT !.attempt = n, !.expires = e.time] \in Records
      BY <1>1 DEF Records
    <2>4. After(task, e) = [[task EXCEPT !.status = "Running", !.worker = e.who]
                              EXCEPT !.attempt = task.attempt + 1, !.expires = e.time]
      BY <2>1 DEF Records
    <2> task.attempt + 1 \in Nat
      BY DEF Records
    <2>5. After(task, e).status = "Running"
      BY <2>1 DEF Records
    <2>6. After(task, e) \in Records
      BY <2>2, <2>3, <2>4, Zenon
    <2> QED BY <1>3, <2>5, <2>6 DEF Outcomes
  <1>4. CASE e.type = "Heartbeat"
    <2>1. After(task, e) = [task EXCEPT !.expires = IF task.worker = None THEN @ ELSE e.time]
      BY <1>4 DEF After
    <2> QED BY <1>1, <1>4, <2>1 DEF Records, Outcomes
  <1>5. CASE e.type = "DeliveryAcknowledged"
    <2>1. After(task, e) = [task EXCEPT !.delivery = "Acknowledged"]
      BY <1>5 DEF After
    <2> QED BY <1>1, <1>5, <2>1 DEF Records, Outcomes
  <1>6. CASE e.type \in Outcomes
    <2>1. After(task, e) = Terminal(task, e.type)
      BY <1>6 DEF After, Outcomes
    <2>2. After(task, e) = [task EXCEPT !.status = e.type, !.worker = None, !.expires = 0,
                                        !.delivery = "Pending"]
      BY <2>1 DEF Terminal
    <2>3. [task EXCEPT !.status = e.type, !.worker = None] \in Records
      BY <1>6 DEF Records
    <2>4. ASSUME NEW r \in Records
          PROVE  [r EXCEPT !.expires = 0, !.delivery = "Pending"] \in Records
      BY DEF Records
    <2>5. After(task, e) = [[task EXCEPT !.status = e.type, !.worker = None]
                              EXCEPT !.expires = 0, !.delivery = "Pending"]
      BY <2>2 DEF Records
    <2>6. After(task, e).status = e.type
      BY <2>2 DEF Records
    <2> QED BY <1>6, <2>3, <2>4, <2>5, <2>6 DEF Outcomes
  <1> QED BY <1>2, <1>3, <1>4, <1>5, <1>6 DEF Events, Types

\* An event applied to a table changes the task it is about and no other.
LEMMA ApplyType ==
    ASSUME NEW ts \in [TaskIds -> Records], NEW e \in Events,
           e.type = "Submitted" => e.who \in Keys,
           e.type = "Claimed" => e.who \in Workers
    PROVE  /\ ApplyEvent(ts, e) \in [TaskIds -> Records]
           /\ \A id \in TaskIds \ {e.id} : ApplyEvent(ts, e)[id] = ts[id]
           /\ ApplyEvent(ts, e)[e.id] = After(ts[e.id], e)
           /\ e.id \in TaskIds
  <1>1. e.id \in TaskIds
    BY DEF Events
  <1>2. After(ts[e.id], e) \in Records
    BY <1>1, AfterType
  <1> QED BY <1>1, <1>2 DEF ApplyEvent

\* What told says after one more event.
LEMMA ToldMore ==
    ASSUME TypeOK, NEW e \in Events, told' = Append(told, [event |-> e, at |-> clock]),
           NEW id \in TaskIds
    PROVE  /\ Claims(id)' <=> Claims(id) \/ (e.id = id /\ e.type = "Claimed")
           /\ Ended(id)' <=> Ended(id) \/ (e.id = id /\ e.type \in Outcomes)
  <1> DEFINE n == Len(told)
  <1>1. n \in Nat /\ DOMAIN told = 1..n /\ DOMAIN told' = 1..n + 1
        /\ (\A i \in 1..n : told'[i] = told[i]) /\ told'[n + 1].event = e
    BY DEF TypeOK
  <1>2. 1..n + 1 = (1..n) \cup {n + 1}
    BY <1>1
  <1> HIDE DEF n
  <1>3. Claims(id)' <=> Claims(id) \/ (e.id = id /\ e.type = "Claimed")
    BY <1>1, <1>2 DEF Claims
  <1>4. Ended(id)' <=> Ended(id) \/ (e.id = id /\ e.type \in Outcomes)
    BY <1>1, <1>2 DEF Ended
  <1> QED BY <1>3, <1>4

\* A table that reflects what callers were told still does after an event that
\* they are told of, or that they are not told of.
LEMMA ApplyReflects ==
    ASSUME TypeOK, NEW ts \in [TaskIds -> Records], NEW e \in Events,
           e.type = "Submitted" => e.who \in Keys,
           e.type = "Claimed" => e.who \in Workers,
           up, MemoryReflects, Allowed(e), Reflects(ts),
           told' \in {told, Append(told, [event |-> e, at |-> clock])}
    PROVE  \A id \in TaskIds :
              /\ Claims(id)' => ApplyEvent(ts, e)[id].status \notin {"Absent", "Pending"}
              /\ Ended(id)' => ApplyEvent(ts, e)[id].status \in Outcomes
  <1> SUFFICES ASSUME NEW id \in TaskIds
               PROVE  /\ Claims(id)' => ApplyEvent(ts, e)[id].status \notin {"Absent", "Pending"}
                      /\ Ended(id)' => ApplyEvent(ts, e)[id].status \in Outcomes
    OBVIOUS
  <1>1. /\ Claims(id)' => Claims(id) \/ (e.id = id /\ e.type = "Claimed")
        /\ Ended(id)' => Ended(id) \/ (e.id = id /\ e.type \in Outcomes)
    <2>1. CASE told' = told
      BY <2>1 DEF Claims, Ended
    <2>2. CASE told' = Append(told, [event |-> e, at |-> clock])
      BY <2>2, ToldMore
    <2> QED BY <2>1, <2>2
  <1>2. /\ Claims(id) => ts[id].status \notin {"Absent", "Pending"}
        /\ Ended(id) => ts[id].status \in Outcomes
        /\ Claims(id) => tasks[id].status \notin {"Absent", "Pending"}
        /\ Ended(id) => tasks[id].status \in Outcomes
    BY DEF MemoryReflects, Reflects
  <1>3. CASE id # e.id
    BY <1>1, <1>2, <1>3, ApplyType
  <1>4. CASE id = e.id
    <2>1. ApplyEvent(ts, e)[id] = After(ts[id], e) /\ ts[id] \in Records
      BY <1>4, ApplyType
    <2>2. e.type \in Outcomes \cup {"Submitted", "Claimed", "Heartbeat", "DeliveryAcknowledged"}
      BY DEF Events, Types
    <2> QED BY <1>1, <1>2, <1>4, <2>1, <2>2, AfterType DEF Allowed, Outcomes
  <1> QED BY <1>3, <1>4

\* Both properties survive an event that callers are told of.
LEMMA ToldKeeps ==
    ASSUME TypeOK, up, MemoryReflects, ClaimedOnce, OutcomeOnce,
           NEW e \in Events, Allowed(e),
           told' \in {told, Append(told, [event |-> e, at |-> clock])}
    PROVE  ClaimedOnce' /\ OutcomeOnce'
  <1>1. CASE told' = told
    BY <1>1 DEF ClaimedOnce, OutcomeOnce, Told, SameTask
  <1>2. CASE told' = Append(told, [event |-> e, at |-> clock])
    <2> DEFINE n == Len(told)
    <2>1. /\ n \in Nat /\ DOMAIN told = 1..n /\ DOMAIN told' = 1..n + 1
          /\ (\A i \in 1..n : told'[i] = told[i]) /\ told'[n + 1].event = e
      BY <1>2 DEF TypeOK
    <2> HIDE DEF n
    <2>2. \A i \in 1..n : told[i].event.id = e.id =>
             /\ told[i].event.type = "Claimed" => e.type # "Claimed"
             /\ told[i].event.type \in Outcomes => e.type = "DeliveryAcknowledged"
      <3> SUFFICES ASSUME NEW i \in 1..n, told[i].event.id = e.id
                   PROVE  /\ told[i].event.type = "Claimed" => e.type # "Claimed"
                          /\ told[i].event.type \in Outcomes => e.type = "DeliveryAcknowledged"
        OBVIOUS
      <3>1. e.id \in TaskIds
        BY DEF Events
      <3>2. told[i].event.type = "Claimed" => Claims(e.id)
        BY <2>1 DEF Claims
      <3>3. told[i].event.type \in Outcomes => Ended(e.id)
        BY <2>1 DEF Ended
      <3>4. /\ Claims(e.id) => tasks[e.id].status \notin {"Absent", "Pending"}
            /\ Ended(e.id) => tasks[e.id].status \in Outcomes
        BY <3>1 DEF MemoryReflects, Reflects
      <3> QED BY <3>2, <3>3, <3>4 DEF Allowed
    <2>3. ClaimedOnce'
      <3> SUFFICES ASSUME NEW i \in 1..n + 1, NEW j \in 1..n + 1,
                          told'[i].event.type = "Claimed", told'[j].event.type = "Claimed",
                          told'[i].event.id = told'[j].event.id
                   PROVE  i = j
        BY <2>1 DEF ClaimedOnce, Told, SameTask
      <3>1. CASE i \in 1..n /\ j \in 1..n
        BY <2>1, <3>1 DEF ClaimedOnce, Told, SameTask
      <3>2. CASE i = n + 1 /\ j \in 1..n
        BY <2>1, <2>2, <3>2
      <3>3. CASE j = n + 1 /\ i \in 1..n
        BY <2>1, <2>2, <3>3
      <3> QED BY <2>1, <3>1, <3>2, <3>3
    <2>4. OutcomeOnce'
      <3> SUFFICES ASSUME NEW i \in 1..n + 1, NEW j \in 1..n + 1, i < j,
                          told'[i].event.id = told'[j].event.id,
                          told'[i].event.type \in Outcomes
                   PROVE  told'[j].event.type = "DeliveryAcknowledged"
        BY <2>1 DEF OutcomeOnce, Told, SameTask
      <3>1. CASE j \in 1..n
        <4>1. i \in 1..n
          BY <2>1, <3>1
        <4> QED BY <2>1, <3>1, <4>1 DEF OutcomeOnce, Told, SameTask
      <3>2. CASE j = n + 1
        <4>1. i \in 1..n
          BY <2>1, <3>2
        <4> QED BY <2>1, <2>2, <3>2, <4>1
      <3> QED BY <2>1, <3>1, <3>2
    <2> QED BY <2>3, <2>4
  <1> QED BY <1>1, <1>2

\* What an append does to a file that can still be read after it: nothing, or the
\* event is one more line of it.
Lines == file \o tail
Grown(e) ==
    /\ Readable /\ Lines' = Append(Lines, e) /\ Len(file) = Len(Lines)
    /\ replayed' = ApplyEvent(replayed, e)
Untouched ==
    /\ Readable /\ Lines' = Lines
    /\ UNCHANGED <<replayed, unacked, unsure>>

LEMMA ReadableAppend ==
    ASSUME TypeOK, NEW e \in Events, Log(e), Readable'
    PROVE  \/ AppendOk(e) /\ Grown(e) /\ UNCHANGED <<unacked, unsure>>
           \/ AppendFail(e) /\ Untouched
           \/ /\ AppendFail(e) /\ Grown(e)
              /\ unacked' = unacked \cup {e} /\ unsure' = unsure \cup {Len(Lines) + 1}
  <1> DEFINE S == Events \cup {Bad}
  <1>1. file \in Seq(S) /\ tail \in Seq(S) /\ Landed(e) \in S /\ Bad \in S
    BY DEF TypeOK, Landed
  <1>2. ASSUME file' = Append(file, Landed(e))
        PROVE  /\ Landed(e) # Bad /\ \A i \in DOMAIN file : file[i] # Bad
    <2> HIDE DEF S
    <2>1. /\ Len(file) + 1 \in DOMAIN file' /\ file'[Len(file) + 1] = Landed(e)
          /\ \A i \in DOMAIN file : i \in DOMAIN file' /\ file'[i] = file[i]
      BY <1>1, <1>2
    <2> QED BY <2>1 DEF Readable
  <1>3. ASSUME Landed(e) # Bad, \A i \in DOMAIN file : file[i] # Bad
        PROVE  /\ Landed(e) = e /\ tail = <<>> /\ Readable /\ Replayed(e) = ApplyEvent(replayed, e)
               /\ Lines = file /\ Len(file) = Len(Lines)
    <2>1. tail = <<>> /\ Landed(e) = e
      BY <1>3 DEF Landed
    <2>2. file \o <<>> = file
      BY <1>1
    <2> QED BY <1>3, <2>1, <2>2 DEF Readable, Replayed, Lines
  <1>4. CASE AppendOk(e)
    <2>1. file' = Append(file, Landed(e)) /\ tail' = <<>> /\ replayed' = Replayed(e)
          /\ UNCHANGED <<unacked, unsure>>
      BY <1>4 DEF AppendOk, left
    <2>2. Append(file, Landed(e)) \o <<>> = Append(file, Landed(e))
      BY <1>1
    <2>3. Lines' = Append(file, Landed(e))
      BY <2>1, <2>2 DEF Lines
    <2> QED BY <1>2, <1>3, <1>4, <2>1, <2>3 DEF Grown
  <1>5. CASE AppendFail(e)
    <2>1. PICK rest \in Leftovers :
             /\ file' = IF rest = "line" THEN Append(file, Landed(e)) ELSE file
             /\ tail' = CASE rest = "nothing" -> tail
                          [] rest = "line" -> <<>>
                          [] rest = "record" -> <<Landed(e)>>
                          [] rest = "part" -> <<Bad>>
             /\ IF rest \in {"line", "record"}
                THEN /\ replayed' = Replayed(e)
                     /\ unacked' = unacked \cup {Landed(e)}
                     /\ unsure' = unsure \cup {Len(file) + 1}
                ELSE UNCHANGED <<replayed, left>>
      BY <1>5 DEF AppendFail
    <2>2. CASE rest = "nothing"
      <3>1. UNCHANGED <<file, tail, replayed, unacked, unsure>>
        BY <2>1, <2>2 DEF left
      <3> QED BY <1>5, <3>1 DEF Untouched, Readable, Lines
    <2>3. CASE rest = "part"
      <3>1. tail' = <<Bad>>
        BY <2>1, <2>3
      <3> QED BY <3>1 DEF Readable
    <2>4. CASE rest = "line"
      <3>1. file' = Append(file, Landed(e)) /\ tail' = <<>>
        BY <2>1, <2>4
      <3>2. Append(file, Landed(e)) \o <<>> = Append(file, Landed(e))
        BY <1>1
      <3>3. Lines' = Append(file, Landed(e))
        BY <3>1, <3>2 DEF Lines
      <3> QED BY <1>2, <1>3, <1>5, <2>1, <2>4, <3>1, <3>3 DEF Grown
    <2>5. CASE rest = "record"
      <3>1. file' = file /\ tail' = <<Landed(e)>>
        BY <2>1, <2>5
      <3>2. Landed(e) # Bad /\ \A i \in DOMAIN file : file[i] # Bad
        BY <3>1 DEF Readable
      <3>3. file \o <<Landed(e)>> = Append(file, Landed(e))
        BY <1>1
      <3>4. Lines' = Append(file, Landed(e))
        BY <3>1, <3>3 DEF Lines
      <3> QED BY <1>3, <1>5, <2>1, <2>5, <3>2, <3>4 DEF Grown
    <2> QED BY <2>2, <2>3, <2>4, <2>5, LedgerAssumption
  <1> QED BY <1>4, <1>5 DEF Log

\* append_locked, whether it returns Ok or an error.
LEMMA LogKeeps ==
    ASSUME LInv, up, up' = up, clock' = clock, sweep' \subseteq sweep,
           NEW e \in Events, Allowed(e),
           e.type = "Submitted" => e.who \in Keys,
           e.type = "Claimed" => e.who \in Workers,
           Log(e)
    PROVE  TypeOK' /\ MemoryReflects' /\ DiskReflects' /\ ClaimedOnce' /\ OutcomeOnce'
  <1> USE DEF LInv
  <1>1. /\ ApplyEvent(tasks, e) \in [TaskIds -> Records]
        /\ ApplyEvent(replayed, e) \in [TaskIds -> Records]
        /\ e.id \in TaskIds
    BY ApplyType DEF TypeOK
  <1>2. /\ Landed(e) \in Events \cup {Bad}
        /\ Replayed(e) \in [TaskIds -> Records]
    BY <1>1 DEF Landed, Replayed, TypeOK
  <1>3. told' \in {told, Append(told, [event |-> e, at |-> clock])}
    BY DEF Log, AppendOk, AppendFail
  <1>4. ClaimedOnce' /\ OutcomeOnce'
    BY <1>3, ToldKeeps
  <1>5. TypeOK'
    <2>1. CASE AppendOk(e)
      <3>1. file' \in Seq(Events \cup {Bad}) /\ tail' \in Seq(Events \cup {Bad})
        BY <1>2, <2>1 DEF AppendOk, TypeOK
      <3>2. told' \in Seq([event : Events, at : Times])
        <4>1. [event |-> e, at |-> clock] \in [event : Events, at : Times]
          BY DEF TypeOK
        <4> QED BY <2>1, <4>1 DEF AppendOk, TypeOK
      <3>3. DOMAIN idempotency' = Keys
        BY <1>1, <2>1 DEF AppendOk, TypeOK
      <3> QED BY <1>1, <1>2, <2>1, <3>1, <3>2, <3>3 DEF AppendOk, left, TypeOK
    <2>2. CASE AppendFail(e)
      <3>1. PICK rest \in Leftovers :
              /\ file' = IF rest = "line" THEN Append(file, Landed(e)) ELSE file
              /\ tail' = CASE rest = "nothing" -> tail
                           [] rest = "line" -> <<>>
                           [] rest = "record" -> <<Landed(e)>>
                           [] rest = "part" -> <<Bad>>
              /\ IF rest \in {"line", "record"}
                 THEN /\ replayed' = Replayed(e)
                      /\ unacked' = unacked \cup {Landed(e)}
                      /\ unsure' = unsure \cup {Len(file) + 1}
                 ELSE UNCHANGED <<replayed, left>>
        BY <2>2 DEF AppendFail
      <3>2. file' \in Seq(Events \cup {Bad})
        BY <1>2, <3>1 DEF TypeOK
      <3>3. tail' \in Seq(Events \cup {Bad})
        <4>1. tail' \in {tail, <<>>, <<Landed(e)>>, <<Bad>>}
          BY <3>1
        <4>2. tail \in Seq(Events \cup {Bad})
          BY DEF TypeOK
        <4> DEFINE S == Events \cup {Bad}
        <4>3. Landed(e) \in S /\ Bad \in S
          BY <1>2
        <4> HIDE DEF S
        <4>4. <<Landed(e)>> \in Seq(S) /\ <<Bad>> \in Seq(S) /\ <<>> \in Seq(S)
          BY <4>3
        <4> QED BY <4>1, <4>2, <4>4 DEF S
      <3>4. /\ replayed' \in [TaskIds -> Records] /\ unacked' \subseteq Events \cup {Bad}
            /\ unsure' \subseteq Nat
        <4>1. Len(file) + 1 \in Nat
          BY DEF TypeOK
        <4> QED BY <1>2, <3>1, <4>1 DEF TypeOK, left
      <3> QED BY <2>2, <3>2, <3>3, <3>4 DEF AppendFail, memory, TypeOK
    <2> QED BY <2>1, <2>2 DEF Log
  <1>6. MemoryReflects'
    <2>1. CASE AppendOk(e)
      <3>1. \A id \in TaskIds :
              /\ Claims(id)' => ApplyEvent(tasks, e)[id].status \notin {"Absent", "Pending"}
              /\ Ended(id)' => ApplyEvent(tasks, e)[id].status \in Outcomes
        BY <1>3, ApplyReflects DEF MemoryReflects, TypeOK
      <3> QED BY <2>1, <3>1 DEF AppendOk, MemoryReflects, Reflects
    <2>2. CASE AppendFail(e)
      BY <2>2 DEF AppendFail, memory, MemoryReflects, Reflects, Claims, Ended
    <2> QED BY <2>1, <2>2 DEF Log
  <1>7. DiskReflects'
    <2> SUFFICES ASSUME Readable' PROVE Reflects(replayed)'
      BY DEF DiskReflects
    <2>1. CASE Grown(e)
      <3>1. \A id \in TaskIds :
              /\ Claims(id)' => ApplyEvent(replayed, e)[id].status \notin {"Absent", "Pending"}
              /\ Ended(id)' => ApplyEvent(replayed, e)[id].status \in Outcomes
        BY <1>3, <2>1, ApplyReflects DEF DiskReflects, TypeOK, Grown
      <3> QED BY <2>1, <3>1 DEF Grown, Reflects
    <2>2. CASE AppendFail(e) /\ Untouched
      BY <2>2 DEF AppendFail, Untouched, DiskReflects, Reflects, Claims, Ended
    <2> QED BY <2>1, <2>2, ReadableAppend
  <1> QED BY <1>4, <1>5, <1>6, <1>7

\* An operation of a caller: the mutex is free, so there is no sweep.
LEMMA OpKeeps ==
    ASSUME LInv, NEW e \in Events, Allowed(e),
           e.type = "Submitted" => e.who \in Keys,
           e.type = "Claimed" => e.who \in Workers,
           Op(e)
    PROVE  LInv'
  <1>1. up /\ up' = up /\ clock' = clock /\ sweep' = {} /\ sweep' = sweep /\ Log(e)
    BY DEF Op, Ready
  <1>2. TypeOK' /\ MemoryReflects' /\ DiskReflects' /\ ClaimedOnce' /\ OutcomeOnce'
    BY <1>1, LogKeeps
  <1>3. SweepRunning'
    BY <1>1 DEF SweepRunning
  <1> QED BY <1>2, <1>3 DEF LInv

\* A table without tasks.
LEMMA EmptyType == Empty \in [TaskIds -> Records]
  <1>1. Absent \in Records
    BY DEF Absent, Records, Outcomes
  <1> QED BY <1>1 DEF Empty

\* Every step keeps the invariant.
LEMMA StepKeeps ==
    ASSUME LInv, [Next]_vars
    PROVE  LInv'
  <1>1. \A id \in TaskIds : tasks[id] \in Records
    BY DEF LInv, TypeOK
  <1>2. clock \in Nat /\ Times \subseteq Nat
    BY DEF LInv, TypeOK, Times
  <1>3. ASSUME NEW key \in Keys, NEW id \in TaskIds, Submit(key, id)
        PROVE  LInv'
    <2> DEFINE e == Event("Submitted", id, key, clock)
    <2>1. e \in Events /\ e.type = "Submitted" /\ e.who = key /\ e.id = id
      BY <1>2 DEF Event, Events, Types, Outcomes
    <2>2. Op(e) /\ tasks[id].status = "Absent"
      BY <1>3 DEF Submit, Absent
    <2> HIDE DEF e
    <2>3. Allowed(e)
      BY <2>1, <2>2 DEF Allowed, Outcomes
    <2> QED BY <2>1, <2>2, <2>3, OpKeeps
  <1>4. ASSUME NEW id \in TaskIds, NEW worker \in Workers, NEW duration \in 1..MaxTime,
               ClaimNext(worker, duration, id)
        PROVE  LInv'
    <2> DEFINE e == Event("Claimed", id, worker, clock + duration)
    <2>1. e \in Events /\ e.type = "Claimed" /\ e.who = worker /\ e.id = id
      BY <1>2 DEF Event, Events, Types, Outcomes
    <2>2. Op(e) /\ tasks[id].status = "Pending"
      BY <1>4 DEF ClaimNext, Claimable
    <2> HIDE DEF e
    <2>3. Allowed(e)
      BY <2>1, <2>2 DEF Allowed, Outcomes
    <2> QED BY <2>1, <2>2, <2>3, OpKeeps
  <1>5. ASSUME NEW id \in TaskIds, NEW worker \in Workers, NEW attempt \in 1..MaxFaults + 1,
               NEW expires \in Times, Heartbeat(id, worker, attempt, expires)
        PROVE  LInv'
    <2> DEFINE e == Event("Heartbeat", id, worker, expires)
    <2>1. e \in Events /\ e.type = "Heartbeat" /\ e.id = id
      BY <1>2 DEF Event, Events, Types, Outcomes
    <2>2. Op(e) /\ tasks[id].status = "Running"
      BY <1>5 DEF Heartbeat, HoldsLease
    <2> HIDE DEF e
    <2>3. Allowed(e)
      BY <2>1, <2>2 DEF Allowed, Outcomes
    <2> QED BY <2>1, <2>2, <2>3, OpKeeps
  <1>6. ASSUME NEW id \in TaskIds, NEW worker \in Workers, NEW attempt \in 1..MaxFaults + 1,
               NEW outcome \in Outcomes, Finish(id, worker, attempt, outcome)
        PROVE  LInv'
    <2> DEFINE e == Event(outcome, id, worker, 0)
    <2>1. e \in Events /\ e.type = outcome /\ e.id = id
      BY <1>2 DEF Event, Events, Types
    <2>2. Op(e) /\ tasks[id].status = "Running" /\ outcome \in {"Succeeded", "Failed"}
      BY <1>6 DEF Finish, HoldsLease
    <2> HIDE DEF e
    <2>3. Allowed(e)
      BY <2>1, <2>2 DEF Allowed, Outcomes
    <2> QED BY <2>1, <2>2, <2>3, OpKeeps
  <1>7. ASSUME NEW id \in TaskIds, Cancel(id)
        PROVE  LInv'
    <2> DEFINE e == Event("Cancelled", id, None, 0)
    <2>1. e \in Events /\ e.type = "Cancelled" /\ e.id = id
      BY <1>2 DEF Event, Events, Types, Outcomes
    <2>2. Op(e) /\ tasks[id].status \in {"Pending", "Running"}
      BY <1>7 DEF Cancel
    <2> HIDE DEF e
    <2>3. Allowed(e)
      BY <2>1, <2>2 DEF Allowed, Outcomes
    <2> QED BY <2>1, <2>2, <2>3, OpKeeps
  <1>8. ASSUME NEW id \in TaskIds, AcknowledgeDelivery(id)
        PROVE  LInv'
    <2> DEFINE e == Event("DeliveryAcknowledged", id, None, 0)
    <2>1. e \in Events /\ e.type = "DeliveryAcknowledged" /\ e.id = id
      BY <1>2 DEF Event, Events, Types, Outcomes
    <2>2. Op(e)
      BY <1>8 DEF AcknowledgeDelivery
    <2> HIDE DEF e
    <2>3. Allowed(e)
      BY <2>1 DEF Allowed
    <2> QED BY <2>1, <2>2, <2>3, OpKeeps
  <1>9. CASE RecoverExpired
    <2>1. SweepRunning'
      BY <1>9 DEF RecoverExpired, Ready, SweepRunning, memory
    <2>2. TypeOK'
      BY <1>9 DEF RecoverExpired, disk, memory, left, LInv, TypeOK
    <2>3. MemoryReflects' /\ DiskReflects' /\ ClaimedOnce' /\ OutcomeOnce'
      BY <1>9 DEF RecoverExpired, disk, memory, LInv, MemoryReflects, DiskReflects,
                  Readable, Reflects, Claims, Ended, ClaimedOnce, OutcomeOnce, Told, SameTask
    <2> QED BY <2>1, <2>2, <2>3 DEF LInv
  <1>10. CASE MarkUnknown
    <2>1. PICK id \in sweep :
             \/ AppendOk(Event("Unknown", id, None, 0)) /\ sweep' = sweep \ {id}
             \/ AppendFail(Event("Unknown", id, None, 0)) /\ sweep' = {}
      BY <1>10 DEF MarkUnknown
    <2> DEFINE e == Event("Unknown", id, None, 0)
    <2>2. id \in TaskIds /\ tasks[id].status = "Running"
      BY DEF LInv, TypeOK, SweepRunning
    <2>3. e \in Events /\ e.type = "Unknown" /\ e.id = id
      BY <1>2, <2>2 DEF Event, Events, Types, Outcomes
    <2>4. up /\ up' = up /\ clock' = clock /\ sweep' \subseteq sweep /\ Log(e)
      BY <1>10, <2>1 DEF MarkUnknown, Log
    <2>5. (AppendOk(e) /\ sweep' = sweep \ {id}) \/ sweep' = {}
      BY <2>1
    <2> HIDE DEF e
    <2>6. Allowed(e)
      BY <2>2, <2>3 DEF Allowed, Outcomes
    <2>7. TypeOK' /\ MemoryReflects' /\ DiskReflects' /\ ClaimedOnce' /\ OutcomeOnce'
      BY <2>3, <2>4, <2>6, LogKeeps
    <2>8. SweepRunning'
      <3>1. CASE sweep' = {}
        BY <3>1 DEF SweepRunning
      <3>2. CASE AppendOk(e) /\ sweep' = sweep \ {id}
        <4>1. \A j \in TaskIds \ {e.id} : tasks'[j] = tasks[j]
          <5>1. tasks' = ApplyEvent(tasks, e) /\ tasks \in [TaskIds -> Records]
            BY <3>2 DEF AppendOk, LInv, TypeOK
          <5>2. \A j \in TaskIds \ {e.id} : ApplyEvent(tasks, e)[j] = tasks[j]
            BY <5>1, <2>3, ApplyType
          <5> QED BY <5>1, <5>2
        <4> QED BY <2>3, <2>4, <3>2, <4>1 DEF SweepRunning, LInv, TypeOK
      <3> QED BY <2>5, <3>1, <3>2
    <2> QED BY <2>7, <2>8 DEF LInv
  <1>11. CASE Stop
    <2>1. Empty \in [TaskIds -> Records]
      BY EmptyType
    <2>2. TypeOK'
      <3>1. tasks' = Empty /\ sweep' = {} /\ up' = FALSE /\ DOMAIN idempotency' = Keys
        BY <1>11 DEF Stop
      <3>2. faults' \in Nat
        BY <1>11 DEF Stop, LInv, TypeOK
      <3>3. UNCHANGED <<file, tail, replayed, clock, told, unacked, unsure>>
        BY <1>11 DEF Stop, disk, left
      <3> QED BY <2>1, <3>1, <3>2, <3>3 DEF LInv, TypeOK
    <2>3. MemoryReflects' /\ SweepRunning'
      BY <1>11 DEF Stop, MemoryReflects, SweepRunning
    <2>4. DiskReflects' /\ ClaimedOnce' /\ OutcomeOnce'
      BY <1>11 DEF Stop, disk, LInv, DiskReflects, Readable, Reflects, Claims, Ended,
                   ClaimedOnce, OutcomeOnce, Told, SameTask
    <2> QED BY <2>2, <2>3, <2>4 DEF LInv
  <1>12. CASE Open
    <2>1. TypeOK'
      BY <1>12 DEF Open, disk, LInv, TypeOK, Index
    <2>2. MemoryReflects'
      BY <1>12 DEF Open, LInv, MemoryReflects, DiskReflects, Reflects, Claims, Ended
    <2>3. DiskReflects' /\ ClaimedOnce' /\ OutcomeOnce'
      BY <1>12 DEF Open, disk, LInv, DiskReflects, Readable, Reflects, Claims, Ended,
                   ClaimedOnce, OutcomeOnce, Told, SameTask
    <2>4. SweepRunning'
      BY <1>12 DEF Open, LInv, SweepRunning
    <2> QED BY <2>1, <2>2, <2>3, <2>4 DEF LInv
  <1>13. CASE Tick
    <2>1. TypeOK'
      BY <1>13 DEF Tick, disk, memory, left, LInv, TypeOK, Times
    <2>2. MemoryReflects' /\ DiskReflects' /\ ClaimedOnce' /\ OutcomeOnce' /\ SweepRunning'
      BY <1>13 DEF Tick, disk, memory, LInv, MemoryReflects, DiskReflects, SweepRunning,
                   Readable, Reflects, Claims, Ended, ClaimedOnce, OutcomeOnce, Told, SameTask
    <2> QED BY <2>1, <2>2 DEF LInv
  <1>14. CASE UNCHANGED vars
    <2>1. TypeOK'
      BY <1>14 DEF vars, LInv, TypeOK
    <2>2. MemoryReflects' /\ DiskReflects' /\ ClaimedOnce' /\ OutcomeOnce' /\ SweepRunning'
      BY <1>14 DEF vars, LInv, MemoryReflects, DiskReflects, SweepRunning, Readable,
                   Reflects, Claims, Ended, ClaimedOnce, OutcomeOnce, Told, SameTask
    <2> QED BY <2>1, <2>2 DEF LInv
  <1> QED BY <1>3, <1>4, <1>5, <1>6, <1>7, <1>8, <1>9, <1>10, <1>11, <1>12, <1>13, <1>14
          DEF Next

(***************************************************************************)
(* The ledger's two tables always reflect what callers were told           *)
(* (append_locked, open).                                                  *)
(***************************************************************************)
THEOREM LedgerInvariance == Spec => []LInv
  <1>1. Init => LInv
    <2> SUFFICES ASSUME Init PROVE LInv
      OBVIOUS
    <2>1. TypeOK
      BY EmptyType DEF Init, TypeOK, Times
    <2>2. MemoryReflects /\ DiskReflects /\ SweepRunning /\ ClaimedOnce /\ OutcomeOnce
      BY DEF Init, MemoryReflects, DiskReflects, Reflects, Claims, Ended, SweepRunning,
             ClaimedOnce, OutcomeOnce
    <2> QED BY <2>1, <2>2 DEF LInv
  <1>2. LInv /\ [Next]_vars => LInv'
    BY StepKeeps
  <1> QED BY <1>1, <1>2, PTL DEF Spec

(***************************************************************************)
(* No task is ever handed to two workers (claim_next, recover_expired).    *)
(***************************************************************************)
THEOREM ClaimedOnceHolds == Spec => []ClaimedOnce
  <1>1. LInv => ClaimedOnce
    BY DEF LInv
  <1> QED BY <1>1, LedgerInvariance, PTL

(***************************************************************************)
(* No task is ever given a second outcome (finish, cancel,                 *)
(* recover_expired).                                                       *)
(***************************************************************************)
THEOREM OutcomeOnceHolds == Spec => []OutcomeOnce
  <1>1. LInv => OutcomeOnce
    BY DEF LInv
  <1> QED BY <1>1, LedgerInvariance, PTL

HIDE LedgerAssumption

-----------------------------------------------------------------------------
(* Leases fence.                                                           *)

Acknowledged == [event : Events, at : Times]
LeaseTypes == {"Claimed", "Heartbeat"}

\* The event is the lease of the task.
LeaseOf(task, id, e) ==
    /\ e.type \in LeaseTypes /\ e.id = id
    /\ e.who = task.worker /\ e.time = task.expires

\* Nothing but a delivery was acknowledged of the task after the j-th acknowledgement.
LastAbout(said, j, id) ==
    \A k \in DOMAIN said :
        k > j /\ said[k].event.id = id => said[k].event.type = "DeliveryAcknowledged"

\* The lease of a running task is the one that callers were told of last, or one that
\* a failed append left; and who was told of a claim of it is its worker.
LeaseKnown(task, id, said, lost) ==
    /\ task.worker # None
    /\ \A k \in DOMAIN said :
          said[k].event.id = id /\ said[k].event.type = "Claimed" =>
              said[k].event.who = task.worker
    /\ \/ \E j \in DOMAIN said : LeaseOf(task, id, said[j].event) /\ LastAbout(said, j, id)
       \/ \E e \in lost : LeaseOf(task, id, e)

Leased(ts, said, lost) ==
    \A id \in TaskIds : ts[id].status = "Running" => LeaseKnown(ts[id], id, said, lost)

(***************************************************************************)
(* The inductive invariant of LeaseFenced, over LInv.  It relates the      *)
(* leases in both tables to what callers were told and to what failed      *)
(* appends left.  The tables may differ, but not in the worker of a task   *)
(* that is running in both.                                                *)
(***************************************************************************)
SameWorker ==
    up /\ Readable => \A id \in TaskIds :
        tasks[id].status = "Running" /\ replayed[id].status = "Running" =>
            tasks[id].worker = replayed[id].worker
LeaseInv ==
    /\ up => Leased(tasks, told, unacked)
    /\ Readable => Leased(replayed, told, unacked)
    /\ SameWorker
    /\ LeaseFenced

\* What require_lease and the other operations have checked before they append.
Fits(e) ==
    /\ e.type \in {"Heartbeat", "Succeeded", "Failed"} =>
          /\ tasks[e.id].status = "Running" /\ tasks[e.id].worker = e.who
          /\ clock < tasks[e.id].expires
    /\ e.type = "Submitted" =>
          /\ e.who \in Keys /\ idempotency[e.who] = None
          /\ tasks[e.id] = Absent /\ replayed[e.id] = Absent
    /\ e.type = "Claimed" => e.who \in Workers /\ tasks[e.id].status = "Pending"

\* What an event does to the lease of its task.
LEMMA AfterLease ==
    ASSUME NEW task \in Records, NEW e \in Events
    PROVE  /\ e.type = "Claimed" => After(task, e).worker = e.who /\ After(task, e).expires = e.time
           /\ e.type = "Heartbeat" => /\ After(task, e).worker = task.worker
                                      /\ task.worker # None => After(task, e).expires = e.time
           /\ e.type = "DeliveryAcknowledged" => /\ After(task, e).worker = task.worker
                                                 /\ After(task, e).expires = task.expires
  <1>1. ASSUME e.type = "Claimed"
        PROVE  After(task, e).worker = e.who /\ After(task, e).expires = e.time
    <2>1. After(task, e) = [task EXCEPT !.status = "Running", !.attempt = @ + 1,
                                        !.worker = e.who, !.expires = e.time]
      BY <1>1 DEF After
    <2> QED BY <2>1 DEF Records
  <1>2. ASSUME e.type = "Heartbeat"
        PROVE  /\ After(task, e).worker = task.worker
               /\ task.worker # None => After(task, e).expires = e.time
    <2>1. After(task, e) = [task EXCEPT !.expires = IF task.worker = None THEN @ ELSE e.time]
      BY <1>2 DEF After
    <2> QED BY <2>1 DEF Records
  <1>3. ASSUME e.type = "DeliveryAcknowledged"
        PROVE  After(task, e).worker = task.worker /\ After(task, e).expires = task.expires
    <2>1. After(task, e) = [task EXCEPT !.delivery = "Acknowledged"]
      BY <1>3 DEF After
    <2> QED BY <2>1 DEF Records
  <1> QED BY <1>1, <1>2, <1>3

\* A lease stays known when nothing but a delivery, or nothing about the task, is
\* acknowledged, and when failed appends leave more.
LEMMA KnownMore ==
    ASSUME NEW task, NEW id, NEW said \in Seq(Acknowledged), NEW x \in Acknowledged,
           NEW more \in {said, Append(said, x)}, NEW lost, NEW found, lost \subseteq found,
           x.event.id = id => more = said \/ x.event.type = "DeliveryAcknowledged",
           LeaseKnown(task, id, said, lost)
    PROVE  LeaseKnown(task, id, more, found)
  <1> DEFINE n == Len(said)
  <1>1. /\ n \in Nat /\ DOMAIN said = 1..n
        /\ \A k \in DOMAIN said : k \in DOMAIN more /\ more[k] = said[k]
        /\ \A k \in DOMAIN more : k \in DOMAIN said \/ (k = n + 1 /\ more[k] = x /\ more # said)
    <2>1. CASE more = said
      BY <2>1
    <2>2. CASE more = Append(said, x)
      <3>1. DOMAIN more = 1..n + 1 /\ more[n + 1] = x /\ \A k \in 1..n : more[k] = said[k]
        BY <2>2
      <3>2. n \in Nat /\ DOMAIN said = 1..n /\ Len(more) = n + 1 /\ Len(said) = n
        BY <2>2
      <3>3. \A k \in 1..n + 1 : k \in 1..n \/ k = n + 1
        BY <3>2
      <3>4. \A k \in 1..n : k \in 1..n + 1
        BY <3>2
      <3>5. more # said
        BY <3>2
      <3> HIDE DEF n
      <3> QED BY <3>1, <3>2, <3>3, <3>4, <3>5
    <2> QED BY <2>1, <2>2
  <1> HIDE DEF n
  <1>2. ASSUME NEW j \in DOMAIN said, LastAbout(said, j, id) PROVE LastAbout(more, j, id)
    BY <1>1, <1>2 DEF LastAbout
  <1>3. \A k \in DOMAIN more :
           more[k].event.id = id /\ more[k].event.type = "Claimed" =>
               more[k].event.who = task.worker
    BY <1>1 DEF LeaseKnown
  <1> QED BY <1>1, <1>2, <1>3 DEF LeaseKnown

\* What an event that fits makes of a table that reflects what callers were told: its
\* leases stay known, if the event is told or kept among what failed appends left.
LEMMA ApplyLeased ==
    ASSUME TypeOK, up, MemoryReflects, NEW ts \in [TaskIds -> Records], NEW e \in Events, Fits(e),
           e.type = "Heartbeat" /\ ts[e.id].status = "Running" => ts[e.id].worker = e.who,
           Leased(ts, told, unacked),
           \/ told' = Append(told, [event |-> e, at |-> clock]) /\ unacked' = unacked
           \/ told' = told /\ unacked' = unacked \cup {e}
    PROVE  Leased(ApplyEvent(ts, e), told', unacked')
  <1> DEFINE x == [event |-> e, at |-> clock]
             new == ApplyEvent(ts, e)
  <1>1. /\ told \in Seq(Acknowledged) /\ x \in Acknowledged /\ x.event = e
        /\ told' \in {told, Append(told, x)} /\ unacked \subseteq unacked'
    BY DEF TypeOK, Acknowledged
  <1>2. /\ e.id \in TaskIds /\ new[e.id] = After(ts[e.id], e) /\ ts[e.id] \in Records
        /\ \A id \in TaskIds \ {e.id} : new[id] = ts[id]
    BY ApplyType DEF Fits
  <1> HIDE DEF x, new
  <1>3. ASSUME NEW id \in TaskIds, id # e.id, new[id].status = "Running"
        PROVE  LeaseKnown(new[id], id, told', unacked')
    <2>1. LeaseKnown(ts[id], id, told, unacked) /\ new[id] = ts[id]
      BY <1>2, <1>3 DEF Leased
    <2> QED BY <1>1, <1>3, <2>1, KnownMore
  <1>4. ASSUME new[e.id].status = "Running" PROVE LeaseKnown(new[e.id], e.id, told', unacked')
    <2> DEFINE old == ts[e.id]
    <2>1. /\ e.type = "Submitted" => After(old, e).status = "Pending"
          /\ e.type \in Outcomes => After(old, e).status = e.type
          /\ e.type \in {"Heartbeat", "DeliveryAcknowledged"} =>
                After(old, e).status = old.status
      BY <1>2, AfterType DEF Fits
    <2>2. old.status = "Running" => LeaseKnown(old, e.id, told, unacked)
      BY <1>2 DEF Leased
    <2>3. ASSUME LeaseOf(new[e.id], e.id, e)
          PROVE  \/ \E j \in DOMAIN told' : /\ LeaseOf(new[e.id], e.id, told'[j].event)
                                            /\ LastAbout(told', j, e.id)
                 \/ \E f \in unacked' : LeaseOf(new[e.id], e.id, f)
      <3>1. CASE told' = Append(told, x)
        <4> DEFINE n == Len(told) + 1
        <4>1. DOMAIN told' = 1..n /\ n \in Nat /\ n \in DOMAIN told' /\ told'[n] = x
          BY <1>1, <3>1
        <4> HIDE DEF n
        <4>2. LastAbout(told', n, e.id)
          BY <4>1 DEF LastAbout
        <4> QED BY <1>1, <2>3, <4>1, <4>2
      <3>2. CASE unacked' = unacked \cup {e}
        BY <2>3, <3>2
      <3> QED BY <3>1, <3>2 DEF x
    <2>4. CASE e.type = "Claimed"
      <3>1. /\ new[e.id].worker = e.who /\ new[e.id].expires = e.time
            /\ e.who # None /\ LeaseOf(new[e.id], e.id, e)
        BY <1>2, <2>4, AfterLease, LedgerAssumption DEF Fits, LeaseOf, LeaseTypes
      <3>2. ~Claims(e.id)
        BY <1>2, <2>4 DEF Fits, MemoryReflects, Reflects
      <3>3. ASSUME NEW k \in DOMAIN told', told'[k].event.id = e.id,
                   told'[k].event.type = "Claimed"
            PROVE  told'[k].event.who = e.who
        <4>1. CASE k \in DOMAIN told /\ told'[k] = told[k]
          BY <3>2, <3>3, <4>1 DEF Claims
        <4>2. CASE told'[k] = x
          BY <1>1, <4>2
        <4>3. (k \in DOMAIN told /\ told'[k] = told[k]) \/ told'[k] = x
          BY <1>1, <3>3
        <4> QED BY <4>1, <4>2, <4>3
      <3> QED BY <2>3, <3>1, <3>3 DEF LeaseKnown
    <2>5. CASE e.type = "Heartbeat"
      <3>1. old.status = "Running" /\ old.worker = e.who /\ LeaseKnown(old, e.id, told, unacked)
        BY <1>2, <1>4, <2>1, <2>2, <2>5
      <3>2. old.worker # None
        BY <3>1 DEF LeaseKnown
      <3>3. new[e.id].worker = e.who /\ new[e.id].expires = e.time
        BY <1>2, <2>5, <3>1, <3>2, AfterLease
      <3>4. LeaseOf(new[e.id], e.id, e)
        BY <2>5, <3>3 DEF LeaseOf, LeaseTypes
      <3>5. ASSUME NEW k \in DOMAIN told', told'[k].event.id = e.id,
                   told'[k].event.type = "Claimed"
            PROVE  told'[k].event.who = e.who
        <4>1. (k \in DOMAIN told /\ told'[k] = told[k]) \/ told'[k] = x
          BY <1>1, <3>5
        <4>2. told'[k] # x
          BY <1>1, <2>5, <3>5
        <4> QED BY <3>1, <3>5, <4>1, <4>2 DEF LeaseKnown
      <3> QED BY <2>3, <3>1, <3>2, <3>3, <3>4, <3>5 DEF LeaseKnown
    <2>6. CASE e.type = "DeliveryAcknowledged"
      <3>1. old.status = "Running" /\ LeaseKnown(old, e.id, told, unacked)
        BY <1>2, <1>4, <2>1, <2>2, <2>6
      <3>2. new[e.id].worker = old.worker /\ new[e.id].expires = old.expires
        BY <1>2, <2>6, AfterLease
      <3>3. LeaseKnown(old, e.id, told', unacked')
        BY <1>1, <2>6, <3>1, KnownMore
      <3> QED BY <3>2, <3>3 DEF LeaseKnown, LeaseOf
    <2>7. CASE e.type = "Submitted"
      BY <1>2, <1>4, <2>1, <2>7
    <2>8. CASE e.type \in Outcomes
      BY <1>2, <1>4, <2>1, <2>8 DEF Outcomes
    <2> QED BY <2>4, <2>5, <2>6, <2>7, <2>8 DEF Events, Types
  <1>5. Leased(new, told', unacked')
    BY <1>3, <1>4 DEF Leased
  <1> QED BY <1>5 DEF new

\* An acknowledged event that fits comes from the holder of the lease.
LEMMA ToldFenced ==
    ASSUME TypeOK, LeaseFenced, Leased(tasks, told, unacked), NEW e \in Events, Fits(e),
           told' = Append(told, [event |-> e, at |-> clock]), unacked' = unacked
    PROVE  LeaseFenced'
  <1> DEFINE n == Len(told)
             Granted(said, i, f) ==
                /\ f.type \in LeaseTypes /\ f.id = said[i].event.id
                /\ f.who = said[i].event.who /\ said[i].at < f.time
             Fenced(said, i) ==
                /\ \A k \in 1..i - 1 :
                      /\ said[k].event.type = "Claimed" /\ said[i].event.id = said[k].event.id
                      => said[k].event.who = said[i].event.who
                /\ \/ \E j \in 1..i - 1 :
                         /\ Granted(said, i, said[j].event)
                         /\ \A k \in j + 1..i - 1 : said[i].event.id = said[k].event.id =>
                               said[k].event.type = "DeliveryAcknowledged"
                   \/ \E f \in unacked : Granted(said, i, f)
  <1>1. /\ n \in Nat /\ DOMAIN told = 1..n /\ DOMAIN told' = 1..n + 1
        /\ (\A i \in 1..n : told'[i] = told[i])
        /\ told'[n + 1].event = e /\ told'[n + 1].at = clock
    BY DEF TypeOK
  <1> HIDE DEF n
  <1>2. \A i \in 1..n : told[i].event.type \in {"Succeeded", "Failed", "Heartbeat"} =>
           Fenced(told, i)
    BY <1>1 DEF LeaseFenced, Told, SameTask, Grants, LeaseTypes
  <1> SUFFICES ASSUME NEW i \in 1..n + 1,
                      told'[i].event.type \in {"Succeeded", "Failed", "Heartbeat"}
               PROVE  Fenced(told', i)
    BY <1>1 DEF LeaseFenced, Told, SameTask, Grants, LeaseTypes
  <1>3. CASE i \in 1..n
    <2>1. told'[i] = told[i] /\ \A k \in 1..i - 1 : told'[k] = told[k]
      BY <1>1, <1>3
    <2>2. Fenced(told, i)
      BY <1>2, <1>3, <2>1
    <2>3. \A j \in 1..i - 1 : \A k \in j + 1..i - 1 : k \in 1..i - 1
      BY <1>1, <1>3
    <2>4. \A f : Granted(told', i, f) <=> Granted(told, i, f)
      BY <2>1
    <2>5. \A k \in 1..i - 1 :
             /\ told'[k].event.type = "Claimed" /\ told'[i].event.id = told'[k].event.id
             => told'[k].event.who = told'[i].event.who
      BY <2>1, <2>2
    <2> HIDE DEF Granted
    <2>6. CASE \E j \in 1..i - 1 :
                  /\ Granted(told, i, told[j].event)
                  /\ \A k \in j + 1..i - 1 : told[i].event.id = told[k].event.id =>
                        told[k].event.type = "DeliveryAcknowledged"
      <3>1. PICK j \in 1..i - 1 :
               /\ Granted(told, i, told[j].event)
               /\ \A k \in j + 1..i - 1 : told[i].event.id = told[k].event.id =>
                     told[k].event.type = "DeliveryAcknowledged"
        BY <2>6
      <3>2. Granted(told', i, told'[j].event)
        BY <2>1, <2>4, <3>1
      <3>3. \A k \in j + 1..i - 1 : told'[i].event.id = told'[k].event.id =>
               told'[k].event.type = "DeliveryAcknowledged"
        BY <2>1, <2>3, <3>1
      <3> QED BY <2>5, <3>2, <3>3
    <2>7. CASE \E f \in unacked : Granted(told, i, f)
      BY <2>4, <2>5, <2>7
    <2> QED BY <2>2, <2>6, <2>7
  <1>4. CASE i = n + 1
    <2>1. /\ e.id \in TaskIds /\ tasks[e.id].status = "Running"
          /\ tasks[e.id].worker = e.who /\ clock < tasks[e.id].expires
      BY <1>1, <1>4 DEF Fits, Events
    <2>2. LeaseKnown(tasks[e.id], e.id, told, unacked)
      BY <2>1 DEF Leased
    <2>3. i - 1 = n /\ \A k \in 1..n : told'[k] = told[k]
      BY <1>1, <1>4
    <2>4. \A k \in 1..n : told[k].event.type = "Claimed" /\ e.id = told[k].event.id =>
             told[k].event.who = e.who
      BY <1>1, <2>1, <2>2 DEF LeaseKnown
    <2>5. CASE \E j \in DOMAIN told : /\ LeaseOf(tasks[e.id], e.id, told[j].event)
                                      /\ LastAbout(told, j, e.id)
      <3>1. PICK j \in 1..n : /\ LeaseOf(tasks[e.id], e.id, told[j].event)
                              /\ LastAbout(told, j, e.id)
        BY <1>1, <2>5
      <3>2. Granted(told', i, told'[j].event)
        BY <1>1, <1>4, <2>1, <2>3, <3>1 DEF LeaseOf
      <3>3. ASSUME NEW k \in j + 1..n, e.id = told[k].event.id
            PROVE  told[k].event.type = "DeliveryAcknowledged"
        <4>1. k \in 1..n /\ k > j
          BY <1>1, <3>1
        <4> QED BY <1>1, <3>1, <3>3, <4>1 DEF LastAbout
      <3>4. \A k \in j + 1..n : k \in 1..n
        BY <1>1, <3>1
      <3> HIDE DEF Granted
      <3> QED BY <1>1, <1>4, <2>3, <2>4, <3>2, <3>3, <3>4
    <2>6. CASE \E f \in unacked : LeaseOf(tasks[e.id], e.id, f)
      <3>1. PICK f \in unacked : LeaseOf(tasks[e.id], e.id, f)
        BY <2>6
      <3>2. Granted(told', i, f)
        BY <1>1, <1>4, <2>1, <3>1 DEF LeaseOf
      <3> HIDE DEF Granted
      <3> QED BY <1>1, <1>4, <2>3, <2>4, <3>2
    <2> QED BY <2>2, <2>5, <2>6 DEF LeaseKnown
  <1> QED BY <1>1, <1>3, <1>4

\* What failed appends leave takes nothing from what was fenced.
LEMMA FencedMore ==
    ASSUME LeaseFenced, told' = told, unacked \subseteq unacked'
    PROVE  LeaseFenced'
  BY DEF LeaseFenced, Told, SameTask, Grants

\* append_locked, whether it returns Ok or an error.
LEMMA LogLease ==
    ASSUME LInv, LeaseInv, up, up' = up, NEW e \in Events, Fits(e), Log(e)
    PROVE  LeaseInv'
  <1>1. /\ tasks \in [TaskIds -> Records] /\ replayed \in [TaskIds -> Records]
        /\ told \in Seq(Acknowledged) /\ clock \in Times /\ TypeOK
        /\ e.id \in TaskIds /\ MemoryReflects
    BY DEF LInv, TypeOK, Acknowledged, Events
  <1>2. Leased(tasks, told, unacked) /\ (Readable => Leased(replayed, told, unacked))
    BY DEF LeaseInv
  <1>3. AppendOk(e) => /\ tasks' = ApplyEvent(tasks, e) /\ unacked' = unacked
                       /\ told' = Append(told, [event |-> e, at |-> clock])
    BY DEF AppendOk, left
  <1>4. AppendFail(e) => tasks' = tasks /\ told' = told /\ unacked \subseteq unacked'
    BY DEF AppendFail, memory, left
  <1>5. Leased(tasks', told', unacked') /\ LeaseFenced'
    <2>1. CASE AppendOk(e)
      <3>1. Leased(tasks', told', unacked')
        <4>1. e.type = "Heartbeat" /\ tasks[e.id].status = "Running" => tasks[e.id].worker = e.who
          BY DEF Fits
        <4>2. Leased(ApplyEvent(tasks, e), told', unacked')
          BY <1>1, <1>2, <1>3, <2>1, <4>1, ApplyLeased
        <4> QED BY <1>3, <2>1, <4>2
      <3>2. LeaseFenced'
        BY <1>1, <1>2, <1>3, <2>1, ToldFenced DEF LeaseInv
      <3> QED BY <3>1, <3>2
    <2>2. CASE AppendFail(e)
      <3>1. LeaseFenced'
        BY <1>4, <2>2, FencedMore DEF LeaseInv
      <3>2. \A id \in TaskIds : LeaseKnown(tasks[id], id, told, unacked) =>
               LeaseKnown(tasks[id], id, told', unacked')
        BY <1>4, <2>2 DEF LeaseKnown
      <3> QED BY <1>2, <1>4, <2>2, <3>1, <3>2 DEF Leased
    <2> QED BY <2>1, <2>2 DEF Log
  <1>6. ASSUME Readable' PROVE Leased(replayed', told', unacked')
    <2>1. CASE Grown(e)
      <3>1. Readable /\ replayed' = ApplyEvent(replayed, e)
        BY <2>1 DEF Grown
      <3>2. e.type = "Heartbeat" /\ replayed[e.id].status = "Running" =>
               replayed[e.id].worker = e.who
        BY <1>1, <3>1 DEF Fits, LeaseInv, SameWorker
      <3>3. \/ told' = Append(told, [event |-> e, at |-> clock]) /\ unacked' = unacked
            \/ told' = told /\ unacked' = unacked \cup {e}
        <4>1. CASE AppendOk(e)
          BY <1>3, <4>1
        <4>2. CASE AppendFail(e) /\ unacked' = unacked \cup {e}
          BY <1>4, <4>2
        <4>3. CASE AppendFail(e) /\ Untouched
          <5>1. Len(Lines) = Len(Append(Lines, e))
            BY <2>1, <4>3 DEF Grown, Untouched
          <5>2. Lines \in Seq(Events \cup {Bad})
            BY <1>1 DEF TypeOK, Lines
          <5>3. Len(Append(Lines, e)) = Len(Lines) + 1 /\ Len(Lines) \in Nat
            BY <5>2
          <5> QED BY <5>1, <5>3
        <4> QED BY <1>1, <1>6, <4>1, <4>2, <4>3, ReadableAppend
      <3>4. Leased(ApplyEvent(replayed, e), told', unacked')
        BY <1>1, <1>2, <3>1, <3>2, <3>3, ApplyLeased
      <3> QED BY <3>1, <3>4
    <2>2. CASE AppendFail(e) /\ Untouched
      BY <1>2, <1>4, <2>2 DEF Untouched
    <2> QED BY <1>1, <1>6, <2>1, <2>2, ReadableAppend
  <1>7. SameWorker'
    <2> SUFFICES ASSUME Readable', NEW id \in TaskIds,
                        tasks'[id].status = "Running", replayed'[id].status = "Running"
                 PROVE  tasks'[id].worker = replayed'[id].worker
      BY DEF SameWorker
    <2>1. /\ ApplyEvent(tasks, e)[e.id] = After(tasks[e.id], e)
          /\ ApplyEvent(replayed, e)[e.id] = After(replayed[e.id], e)
          /\ \A j \in TaskIds \ {e.id} : /\ ApplyEvent(tasks, e)[j] = tasks[j]
                                         /\ ApplyEvent(replayed, e)[j] = replayed[j]
      BY <1>1, ApplyType DEF Fits
    <2>2. Readable => (tasks[id].status = "Running" /\ replayed[id].status = "Running" =>
                          tasks[id].worker = replayed[id].worker)
      BY DEF LeaseInv, SameWorker
    <2>3. /\ tasks[id] \in Records /\ replayed[id] \in Records
          /\ e.type \in Outcomes \cup {"Submitted", "Claimed", "Heartbeat", "DeliveryAcknowledged"}
      BY <1>1 DEF Events, Types
    <2>4. \A task \in Records :
             /\ e.type \in {"Heartbeat", "DeliveryAcknowledged"} =>
                   After(task, e).worker = task.worker /\ After(task, e).status = task.status
             /\ e.type = "Claimed" => After(task, e).worker = e.who
             /\ e.type \in Outcomes => After(task, e).status = e.type
             /\ e.type = "Submitted" => After(task, e).status = "Pending"
      BY AfterLease, AfterType DEF Fits
    <2>5. CASE AppendOk(e) /\ Grown(e)
      <3>1. /\ tasks' = ApplyEvent(tasks, e) /\ replayed' = ApplyEvent(replayed, e) /\ Readable
        BY <1>3, <2>5 DEF Grown
      <3>2. CASE id # e.id
        BY <2>1, <2>2, <3>1, <3>2
      <3>3. CASE id = e.id
        <4>1. tasks'[id] = After(tasks[id], e) /\ replayed'[id] = After(replayed[id], e)
          BY <2>1, <3>1, <3>3
        <4> QED BY <2>2, <2>3, <2>4, <3>1, <4>1 DEF Outcomes
      <3> QED BY <3>2, <3>3
    <2>6. CASE AppendFail(e) /\ Grown(e)
      <3>1. tasks' = tasks /\ replayed' = ApplyEvent(replayed, e) /\ Readable
        BY <1>4, <2>6 DEF Grown
      <3>2. CASE id # e.id
        BY <2>1, <2>2, <3>1, <3>2
      <3>3. CASE id = e.id
        <4>1. replayed'[id] = After(replayed[id], e)
          BY <2>1, <3>1, <3>3
        <4>2. e.type # "Claimed"
          BY <3>1, <3>3 DEF Fits
        <4> QED BY <2>2, <2>3, <2>4, <3>1, <4>1, <4>2 DEF Outcomes
      <3> QED BY <3>2, <3>3
    <2>7. CASE AppendFail(e) /\ Untouched
      BY <1>4, <2>2, <2>7 DEF Untouched
    <2> QED BY <1>1, <2>5, <2>6, <2>7, ReadableAppend
  <1> QED BY <1>5, <1>6, <1>7 DEF LeaseInv

-----------------------------------------------------------------------------
(* The steps of the ledger, by what they do to its tables.                 *)

\* A step appends an event that fits, or is a stop, an open, or leaves the tables, the
\* file and what is remembered of callers and failed appends alone.
LEMMA StepKinds ==
    ASSUME LInv, [Next]_vars
    PROVE  \/ up /\ up' = up /\ \E e \in Events : Fits(e) /\ Log(e)
           \/ Stop \/ Open
           \/ UNCHANGED <<disk, up, memory, told, left>>
  <1>1. clock \in Nat /\ Times \subseteq Nat
    BY DEF LInv, TypeOK, Times
  <1>2. ASSUME NEW e \in Events, Fits(e), Op(e)
        PROVE  up /\ up' = up /\ \E f \in Events : Fits(f) /\ Log(f)
    BY <1>2 DEF Op, Ready
  <1>3. ASSUME NEW key \in Keys, NEW id \in TaskIds, Submit(key, id)
        PROVE  \E e \in Events : Fits(e) /\ Op(e)
    <2> DEFINE e == Event("Submitted", id, key, clock)
    <2>1. e \in Events /\ e.type = "Submitted" /\ e.who = key /\ e.id = id
      BY <1>1 DEF Event, Events, Types, Outcomes
    <2>2. Op(e) /\ tasks[id] = Absent /\ replayed[id] = Absent /\ idempotency[key] = None
      BY <1>3 DEF Submit
    <2> HIDE DEF e
    <2> QED BY <2>1, <2>2 DEF Fits
  <1>4. ASSUME NEW id \in TaskIds, NEW worker \in Workers, NEW duration \in 1..MaxTime,
               ClaimNext(worker, duration, id)
        PROVE  \E e \in Events : Fits(e) /\ Op(e)
    <2> DEFINE e == Event("Claimed", id, worker, clock + duration)
    <2>1. e \in Events /\ e.type = "Claimed" /\ e.who = worker /\ e.id = id
      BY <1>1 DEF Event, Events, Types, Outcomes
    <2>2. Op(e) /\ tasks[id].status = "Pending"
      BY <1>4 DEF ClaimNext, Claimable
    <2> HIDE DEF e
    <2> QED BY <2>1, <2>2 DEF Fits
  <1>5. ASSUME NEW id \in TaskIds, NEW worker \in Workers, NEW attempt \in 1..MaxFaults + 1,
               NEW expires \in Times, Heartbeat(id, worker, attempt, expires)
        PROVE  \E e \in Events : Fits(e) /\ Op(e)
    <2> DEFINE e == Event("Heartbeat", id, worker, expires)
    <2>1. e \in Events /\ e.type = "Heartbeat" /\ e.who = worker /\ e.id = id
      BY <1>1 DEF Event, Events, Types, Outcomes
    <2>2. Op(e) /\ HoldsLease(id, worker, attempt)
      BY <1>5 DEF Heartbeat
    <2> HIDE DEF e
    <2> QED BY <2>1, <2>2 DEF Fits, HoldsLease
  <1>6. ASSUME NEW id \in TaskIds, NEW worker \in Workers, NEW attempt \in 1..MaxFaults + 1,
               NEW outcome \in Outcomes, Finish(id, worker, attempt, outcome)
        PROVE  \E e \in Events : Fits(e) /\ Op(e)
    <2> DEFINE e == Event(outcome, id, worker, 0)
    <2>1. e \in Events /\ e.type = outcome /\ e.who = worker /\ e.id = id
      BY <1>1 DEF Event, Events, Types
    <2>2. Op(e) /\ HoldsLease(id, worker, attempt) /\ outcome \in {"Succeeded", "Failed"}
      BY <1>6 DEF Finish
    <2> HIDE DEF e
    <2> QED BY <2>1, <2>2 DEF Fits, HoldsLease
  <1>7. ASSUME NEW id \in TaskIds, Cancel(id) \/ AcknowledgeDelivery(id)
        PROVE  \E e \in Events : Fits(e) /\ Op(e)
    <2>1. CASE Cancel(id)
      <3> DEFINE e == Event("Cancelled", id, None, 0)
      <3>1. e \in Events /\ e.type = "Cancelled" /\ Op(e)
        BY <1>1, <2>1 DEF Cancel, Event, Events, Types, Outcomes
      <3> HIDE DEF e
      <3> QED BY <3>1 DEF Fits
    <2>2. CASE AcknowledgeDelivery(id)
      <3> DEFINE e == Event("DeliveryAcknowledged", id, None, 0)
      <3>1. e \in Events /\ e.type = "DeliveryAcknowledged" /\ e.id = id
        BY <1>1 DEF Event, Events, Types, Outcomes
      <3>2. Op(e)
        BY <2>2 DEF AcknowledgeDelivery
      <3> HIDE DEF e
      <3> QED BY <3>1, <3>2 DEF Fits
    <2> QED BY <1>7, <2>1, <2>2
  <1>8. CASE MarkUnknown
    <2>1. PICK id \in sweep :
             \/ AppendOk(Event("Unknown", id, None, 0))
             \/ AppendFail(Event("Unknown", id, None, 0))
      BY <1>8 DEF MarkUnknown
    <2> DEFINE e == Event("Unknown", id, None, 0)
    <2>2. id \in TaskIds
      BY DEF LInv, TypeOK
    <2>3. e \in Events /\ e.type = "Unknown"
      BY <1>1, <2>2 DEF Event, Events, Types, Outcomes
    <2>4. up /\ up' = up /\ Log(e)
      BY <1>8, <2>1 DEF MarkUnknown, Log
    <2> HIDE DEF e
    <2> QED BY <2>3, <2>4 DEF Fits
  <1>9. CASE RecoverExpired \/ Tick \/ UNCHANGED vars
    BY <1>9 DEF RecoverExpired, Tick, vars, disk, memory, left
  <1> QED BY <1>2, <1>3, <1>4, <1>5, <1>6, <1>7, <1>8, <1>9 DEF Next

\* Every step keeps the leases.
LEMMA StepLease == LInv /\ LeaseInv /\ [Next]_vars => LeaseInv'
  <1> SUFFICES ASSUME LInv, LeaseInv, [Next]_vars PROVE LeaseInv'
    OBVIOUS
  <1>1. CASE up /\ up' = up /\ \E e \in Events : Fits(e) /\ Log(e)
    BY <1>1, LogLease
  <1>2. ASSUME told' = told, unacked' = unacked PROVE LeaseFenced'
    BY <1>2, FencedMore DEF LeaseInv
  <1>3. CASE Stop
    <2>1. ~up' /\ UNCHANGED <<file, tail, replayed, told, unacked>>
      BY <1>3 DEF Stop, disk, left
    <2> QED BY <1>2, <2>1 DEF LeaseInv, SameWorker, Readable
  <1>4. CASE Open
    <2>1. Readable /\ tasks' = replayed /\ UNCHANGED <<file, tail, replayed, told, unacked>>
      BY <1>4 DEF Open, disk
    <2> QED BY <1>2, <2>1 DEF LeaseInv, SameWorker, Readable
  <1>5. CASE UNCHANGED <<disk, up, memory, told, left>>
    BY <1>2, <1>5 DEF disk, memory, left, LeaseInv, SameWorker, Readable
  <1> QED BY <1>1, <1>3, <1>4, <1>5, StepKinds

(***************************************************************************)
(* Leases fence across restarts and failed appends, whatever these leave   *)
(* (require_lease, append_locked, open).                                   *)
(***************************************************************************)
THEOREM LeaseFencedHolds == Spec => []LeaseFenced
  <1>1. Init => LeaseInv
    <2> SUFFICES ASSUME Init PROVE LeaseInv
      OBVIOUS
    <2>1. told = <<>> /\ tasks = replayed /\ \A id \in TaskIds : replayed[id] = Absent
      BY DEF Init, Empty
    <2>2. Absent.status = "Absent"
      BY DEF Absent
    <2> QED BY <2>1, <2>2 DEF LeaseInv, Leased, SameWorker, LeaseFenced
  <1>2. LInv /\ LeaseInv /\ [Next]_vars => LeaseInv'
    BY StepLease
  <1>3. LeaseInv => LeaseFenced
    BY DEF LeaseInv
  <1> QED BY <1>1, <1>2, <1>3, LedgerInvariance, PTL DEF Spec

-----------------------------------------------------------------------------
(* Memory is the replay of the file, without what failed appends have left *)
(* since the last open.  The fold of Replay is taken one event further by   *)
(* each line, so what it computes needs no induction over the file: it is  *)
(* part of the invariant.                                                  *)

\* f is the table of the partial replays of the lines.
Partial(f, lines, skipped) ==
    f = [n \in 0..Len(lines) |->
            IF n = 0 THEN Empty
            ELSE IF n \in skipped THEN f[n - 1]
            ELSE ApplyEvent(f[n - 1], lines[n])]

\* The lines replay to ts, whichever table is taken, and there is one.
ReplaysTo(lines, skipped, ts) ==
    /\ \E f : Partial(f, lines, skipped)
    /\ \A f : Partial(f, lines, skipped) => f[Len(lines)] = ts

\* A caller was told of a submission under the key, and the table has a task for it.
Asked(k) ==
    \E i \in DOMAIN told : told[i].event.type = "Submitted" /\ told[i].event.who = k
Serves(ts) == \A k \in Keys : Asked(k) => \E id \in TaskIds : ts[id].key = k

(***************************************************************************)
(* The inductive invariant of ReplayIsMemory and SubmittedOnce, over LInv. *)
(***************************************************************************)
ReplayInv ==
    /\ Readable => ReplaysTo(Lines, {}, replayed) /\ Serves(replayed)
    /\ up /\ Readable => ReplaysTo(Lines, unsure, tasks) /\ unsure \subseteq 1..Len(Lines)
    /\ up => idempotency = Index(tasks) /\ Serves(tasks)
    /\ SubmittedOnce

\* One line more, skipped or not.
LEMMA ReplayMore ==
    ASSUME NEW S, NEW lines \in Seq(S), NEW e \in S, NEW ts, NEW old, NEW skipped,
           ReplaysTo(lines, old, ts), \A n \in 1..Len(lines) : n \in skipped <=> n \in old
    PROVE  ReplaysTo(Append(lines, e), skipped,
                     IF Len(lines) + 1 \in skipped THEN ts ELSE ApplyEvent(ts, e))
  <1> DEFINE more == Append(lines, e)
             N == Len(lines)
             last(us) == IF N + 1 \in skipped THEN us ELSE ApplyEvent(us, e)
             next(f, n) == IF n = 0 THEN Empty
                           ELSE IF n \in skipped THEN f[n - 1] ELSE ApplyEvent(f[n - 1], more[n])
             step(f, n) == IF n = 0 THEN Empty
                           ELSE IF n \in old THEN f[n - 1] ELSE ApplyEvent(f[n - 1], lines[n])
  <1>1. N \in Nat /\ Len(more) = N + 1 /\ more[N + 1] = e /\ \A n \in 1..N : more[n] = lines[n]
    OBVIOUS
  <1>2. \A f, g : \A n \in 1..N : f[n - 1] = g[n - 1] => next(f, n) = step(g, n)
    BY <1>1
  <1>3. \A f : Partial(f, lines, old) <=> f = [n \in 0..N |-> step(f, n)]
    BY DEF Partial
  <1>4. \A f : Partial(f, more, skipped) <=> f = [n \in 0..N + 1 |-> next(f, n)]
    BY <1>1 DEF Partial
  <1>5. \A f : next(f, N + 1) = last(f[N]) /\ next(f, 0) = Empty /\ step(f, 0) = Empty
    BY <1>1
  <1> HIDE DEF more, N, next, step, last
  <1>6. \E g : Partial(g, more, skipped)
    <2>1. PICK f : Partial(f, lines, old)
      BY DEF ReplaysTo
    <2> DEFINE g == [n \in 0..N + 1 |-> IF n = N + 1 THEN last(f[N]) ELSE f[n]]
    <2>2. \A n \in 0..N : g[n] = f[n] /\ f[n] = step(f, n)
      BY <1>1, <1>3, <2>1
    <2>3. g[N + 1] = last(f[N])
      BY <1>1
    <2>4. g = [n \in 0..N + 1 |-> g[n]]
      OBVIOUS
    <2> HIDE DEF g
    <2>5. ASSUME NEW n \in 0..N + 1 PROVE g[n] = next(g, n)
      <3>1. CASE n = 0
        BY <1>1, <1>5, <2>2, <3>1
      <3>2. CASE n \in 1..N
        <4>1. n \in 0..N /\ n - 1 \in 0..N
          BY <1>1, <3>2
        <4> QED BY <1>2, <2>2, <3>2, <4>1
      <3>3. CASE n = N + 1
        <4>1. g[N] = f[N]
          BY <1>1, <2>2
        <4> QED BY <1>5, <2>3, <3>3, <4>1
      <3> QED BY <1>1, <3>1, <3>2, <3>3
    <2>6. g = [n \in 0..N + 1 |-> next(g, n)]
      BY <2>4, <2>5
    <2> QED BY <1>4, <2>6
  <1>7. ASSUME NEW f, Partial(f, more, skipped)
        PROVE  f[N + 1] = last(ts)
    <2>1. f = [n \in 0..N + 1 |-> next(f, n)]
      BY <1>4, <1>7
    <2> DEFINE h == [n \in 0..N |-> f[n]]
    <2>2. h = [n \in 0..N |-> h[n]] /\ \A n \in 0..N : h[n] = f[n]
      OBVIOUS
    <2> HIDE DEF h
    <2>3. ASSUME NEW n \in 0..N PROVE h[n] = step(h, n)
      <3>1. h[n] = next(f, n)
        <4>1. n \in 0..N + 1
          BY <1>1
        <4> QED BY <2>1, <2>2, <4>1
      <3>2. CASE n = 0
        BY <1>5, <3>1, <3>2
      <3>3. CASE n \in 1..N
        <4>1. n - 1 \in 0..N
          BY <1>1, <3>3
        <4> QED BY <1>2, <2>2, <3>1, <3>3, <4>1
      <3> QED BY <1>1, <3>2, <3>3
    <2>4. h = [n \in 0..N |-> step(h, n)]
      BY <2>2, <2>3
    <2>5. h[N] = ts
      BY <1>3, <2>4 DEF ReplaysTo, N
    <2>6. f[N] = ts
      BY <1>1, <2>2, <2>5
    <2>7. f[N + 1] = next(f, N + 1)
      <3>1. N + 1 \in 0..N + 1
        BY <1>1
      <3> QED BY <2>1, <3>1
    <2> QED BY <1>5, <2>6, <2>7
  <1>8. ReplaysTo(more, skipped, last(ts))
    BY <1>1, <1>6, <1>7 DEF ReplaysTo
  <1> QED BY <1>8 DEF more, last, N

\* What ReplaysTo says is what Replay computes.
LEMMA ReplayValue ==
    ASSUME NEW lines, NEW skipped, NEW ts, ReplaysTo(lines, skipped, ts)
    PROVE  Replay(lines, skipped) = ts
  <1> DEFINE after == CHOOSE f : Partial(f, lines, skipped)
  <1>1. Partial(after, lines, skipped)
    BY DEF ReplaysTo
  <1>2. Replay(lines, skipped) = after[Len(lines)]
    BY DEF Replay, Partial
  <1> HIDE DEF after
  <1> QED BY <1>1, <1>2 DEF ReplaysTo

\* The key of a task comes with its submission and stays.
LEMMA AfterKey ==
    ASSUME NEW task \in Records, NEW e \in Events
    PROVE  After(task, e).key = IF e.type = "Submitted" THEN e.who ELSE task.key
  <1>1. CASE e.type = "Submitted"
    <2>1. After(task, e) = [Absent EXCEPT !.key = e.who, !.status = "Pending",
                                          !.created = e.time]
      BY <1>1 DEF After
    <2> QED BY <1>1, <2>1 DEF Absent
  <1>2. CASE e.type = "Claimed"
    <2>1. After(task, e) = [task EXCEPT !.status = "Running", !.attempt = @ + 1,
                                        !.worker = e.who, !.expires = e.time]
      BY <1>2 DEF After
    <2> QED BY <1>2, <2>1 DEF Records
  <1>3. CASE e.type = "Heartbeat"
    <2>1. After(task, e) = [task EXCEPT !.expires = IF task.worker = None THEN @ ELSE e.time]
      BY <1>3 DEF After
    <2> QED BY <1>3, <2>1 DEF Records
  <1>4. CASE e.type = "DeliveryAcknowledged"
    <2>1. After(task, e) = [task EXCEPT !.delivery = "Acknowledged"]
      BY <1>4 DEF After
    <2> QED BY <1>4, <2>1 DEF Records
  <1>5. CASE e.type \in Outcomes
    <2>1. After(task, e) = [task EXCEPT !.status = e.type, !.worker = None, !.expires = 0,
                                        !.delivery = "Pending"]
      BY <1>5 DEF After, Outcomes, Terminal
    <2> QED BY <1>5, <2>1 DEF Records, Outcomes
  <1> QED BY <1>1, <1>2, <1>3, <1>4, <1>5 DEF Events, Types

\* Of identifiers, one is the last.
LEMMA LastId ==
    ASSUME NEW ids \in SUBSET TaskIds, ids # {}
    PROVE  \E id \in ids : \A j \in ids : j <= id
  <1>1. PICK last \in TaskIds : \A id \in TaskIds : id <= last
    BY LastIdAssumption
  <1> DEFINE S == {last - id : id \in ids}
  <1>2. \A id \in ids : id \in Nat /\ last \in Nat /\ last - id \in Nat
    BY <1>1, LedgerAssumption
  <1>3. S \subseteq Nat /\ S # {}
    BY <1>2
  <1>4. PICK x \in S : \A y \in S : ~(<<y, x>> \in OpToRel(<, Nat))
    <2> HIDE DEF S
    <2> QED BY <1>3, NatLessThanWellFounded, WFMin
  <1>5. PICK id \in ids : x = last - id
    OBVIOUS
  <1>6. ASSUME NEW j \in ids PROVE j <= id
    <2>1. ~(last - j < x)
      BY <1>2, <1>3, <1>4 DEF OpToRel
    <2> QED BY <1>2, <1>5, <2>1
  <1> QED BY <1>6

\* The index has a task for each key that a task of the table has.
LEMMA IndexValue ==
    ASSUME NEW ts, NEW k \in Keys
    PROVE  /\ Index(ts)[k] = None <=> \A id \in TaskIds : ts[id].key # k
           /\ \A id \in TaskIds : (\A j \in TaskIds : ts[j].key = k <=> j = id) =>
                 Index(ts)[k] = id
  <1> DEFINE ids == {id \in TaskIds : ts[id].key = k}
  <1>1. Index(ts)[k] = IF ids = {} THEN None ELSE CHOOSE id \in ids : \A j \in ids : j <= id
    BY DEF Index
  <1>2. ids # {} => Index(ts)[k] \in TaskIds /\ None \notin TaskIds
    <2>1. ids \subseteq TaskIds
      OBVIOUS
    <2> HIDE DEF ids
    <2> SUFFICES ASSUME ids # {} PROVE Index(ts)[k] \in TaskIds
      BY LedgerAssumption
    <2>2. \E id \in ids : \A j \in ids : j <= id
      BY <2>1, LastId
    <2>3. (CHOOSE id \in ids : \A j \in ids : j <= id) \in ids
      BY <2>2
    <2> QED BY <1>1, <2>1, <2>3
  <1>3. Index(ts)[k] = None <=> \A id \in TaskIds : ts[id].key # k
    BY <1>1, <1>2
  <1>4. ASSUME NEW id \in TaskIds, \A j \in TaskIds : ts[j].key = k <=> j = id
        PROVE  Index(ts)[k] = id
    <2>1. ids = {id}
      BY <1>4
    <2>2. id <= id
      BY LedgerAssumption
    <2> HIDE DEF ids
    <2>3. (CHOOSE i \in {id} : \A j \in {id} : j <= i) = id
      BY <2>2
    <2> QED BY <1>1, <2>1, <2>3
  <1> QED BY <1>3, <1>4

\* Tables with the same tasks of a key have the same entry for it.
LEMMA SameIndex ==
    ASSUME NEW ts, NEW new, NEW k \in Keys,
           \A id \in TaskIds : new[id].key = k <=> ts[id].key = k
    PROVE  Index(new)[k] = Index(ts)[k]
  <1> DEFINE ids(us) == {id \in TaskIds : us[id].key = k}
             value(s) == IF s = {} THEN None ELSE CHOOSE id \in s : \A j \in s : j <= id
  <1>1. ids(new) = ids(ts)
    OBVIOUS
  <1>2. Index(new)[k] = value(ids(new)) /\ Index(ts)[k] = value(ids(ts))
    BY DEF Index
  <1> HIDE DEF ids, value
  <1> QED BY <1>1, <1>2

\* An event that fits keeps the index that of the tasks.
LEMMA IndexMore ==
    ASSUME NEW ts \in [TaskIds -> Records], NEW e \in Events,
           e.type = "Claimed" => e.who \in Workers,
           e.type = "Submitted" =>
              e.who \in Keys /\ Index(ts)[e.who] = None /\ ts[e.id] = Absent
    PROVE  Index(ApplyEvent(ts, e)) =
              IF e.type = "Submitted" THEN [Index(ts) EXCEPT ![e.who] = e.id] ELSE Index(ts)
  <1> DEFINE new == ApplyEvent(ts, e)
  <1>1. /\ e.id \in TaskIds /\ new[e.id] = After(ts[e.id], e) /\ ts[e.id] \in Records
        /\ \A id \in TaskIds \ {e.id} : new[id] = ts[id]
    BY ApplyType
  <1>2. new[e.id].key = IF e.type = "Submitted" THEN e.who ELSE ts[e.id].key
    BY <1>1, AfterKey
  <1>3. /\ Index(new) = [k \in Keys |-> Index(new)[k]]
        /\ Index(ts) = [k \in Keys |-> Index(ts)[k]] /\ DOMAIN Index(ts) = Keys
    BY DEF Index
  <1> HIDE DEF new
  <1>4. CASE e.type # "Submitted"
    <2>1. \A id \in TaskIds : new[id].key = ts[id].key
      BY <1>1, <1>2, <1>4
    <2>2. \A k \in Keys : Index(new)[k] = Index(ts)[k]
      BY <2>1, SameIndex
    <2> QED BY <1>3, <1>4, <2>2 DEF new
  <1>5. CASE e.type = "Submitted"
    <2>1. /\ e.who \in Keys /\ e.who # None /\ \A id \in TaskIds : ts[id].key # e.who
          /\ ts[e.id].key = None
      <3>1. e.who \in Keys /\ Index(ts)[e.who] = None /\ ts[e.id] = Absent
        BY <1>5
      <3>2. \A id \in TaskIds : ts[id].key # e.who
        BY <3>1, IndexValue
      <3>3. ts[e.id].key = None
        BY <3>1 DEF Absent
      <3> QED BY <3>1, <3>2, <3>3, LedgerAssumption
    <2>2. ASSUME NEW k \in Keys
          PROVE  Index(new)[k] = [Index(ts) EXCEPT ![e.who] = e.id][k]
      <3>1. CASE k = e.who
        <4>1. \A j \in TaskIds : new[j].key = k <=> j = e.id
          BY <1>1, <1>2, <1>5, <2>1, <3>1
        <4>2. Index(new)[k] = e.id
          BY <1>1, <4>1, IndexValue
        <4> QED BY <1>3, <3>1, <4>2
      <3>2. CASE k # e.who
        <4>1. k # None
          BY LedgerAssumption
        <4>2. \A id \in TaskIds : new[id].key = k <=> ts[id].key = k
          BY <1>1, <1>2, <1>5, <2>1, <3>2, <4>1
        <4>3. Index(new)[k] = Index(ts)[k]
          BY <4>2, SameIndex
        <4> QED BY <1>3, <3>2, <4>3
      <3> QED BY <3>1, <3>2
    <2> DEFINE more == [Index(ts) EXCEPT ![e.who] = e.id]
    <2>3. more = [k \in Keys |-> more[k]] /\ \A k \in Keys : Index(new)[k] = more[k]
      BY <1>3, <2>2
    <2> HIDE DEF more
    <2>4. Index(new) = more
      BY <1>3, <2>3
    <2> QED BY <1>5, <2>4 DEF new, more
  <1> QED BY <1>4, <1>5

\* A table that serves the keys callers asked for still does after an event.
LEMMA ServesMore ==
    ASSUME TypeOK, NEW ts \in [TaskIds -> Records], NEW e \in Events, Serves(ts),
           e.type = "Claimed" => e.who \in Workers,
           e.type = "Submitted" => e.who \in Keys /\ ts[e.id] = Absent,
           told' \in {told, Append(told, [event |-> e, at |-> clock])}
    PROVE  \A k \in Keys : Asked(k)' => \E id \in TaskIds : ApplyEvent(ts, e)[id].key = k
  <1> DEFINE new == ApplyEvent(ts, e)
  <1>1. /\ e.id \in TaskIds /\ new[e.id] = After(ts[e.id], e) /\ ts[e.id] \in Records
        /\ \A id \in TaskIds \ {e.id} : new[id] = ts[id]
    BY ApplyType
  <1>2. new[e.id].key = IF e.type = "Submitted" THEN e.who ELSE ts[e.id].key
    BY <1>1, AfterKey
  <1> HIDE DEF new
  <1>3. ASSUME NEW k \in Keys, Asked(k)'
        PROVE  Asked(k) \/ (e.type = "Submitted" /\ e.who = k)
    <2>1. CASE told' = told
      BY <1>3, <2>1 DEF Asked
    <2>2. CASE told' = Append(told, [event |-> e, at |-> clock])
      <3> DEFINE n == Len(told)
      <3>1. /\ n \in Nat /\ DOMAIN told = 1..n /\ DOMAIN told' = 1..n + 1
            /\ (\A i \in 1..n : told'[i] = told[i]) /\ told'[n + 1].event = e
        BY <2>2 DEF TypeOK
      <3>2. \A i \in 1..n + 1 : i \in 1..n \/ i = n + 1
        BY <3>1
      <3> HIDE DEF n
      <3> QED BY <1>3, <3>1, <3>2 DEF Asked
    <2> QED BY <2>1, <2>2
  <1>4. ASSUME NEW k \in Keys, NEW id \in TaskIds, ts[id].key = k PROVE new[id].key = k
    <2>1. Absent.key # k
      BY LedgerAssumption DEF Absent
    <2> QED BY <1>1, <1>2, <1>4, <2>1
  <1>5. \A k \in Keys : Asked(k)' => \E id \in TaskIds : new[id].key = k
    BY <1>1, <1>2, <1>3, <1>4 DEF Serves
  <1> QED BY <1>5 DEF new

\* A submission is told of only if none was told of under its key.
LEMMA SubmittedMore ==
    ASSUME TypeOK, SubmittedOnce, NEW e \in Events, e.type = "Submitted" => ~Asked(e.who),
           told' \in {told, Append(told, [event |-> e, at |-> clock])}
    PROVE  SubmittedOnce'
  <1>1. CASE told' = told
    BY <1>1 DEF SubmittedOnce, Told
  <1>2. CASE told' = Append(told, [event |-> e, at |-> clock])
    <2> DEFINE n == Len(told)
    <2>1. /\ n \in Nat /\ DOMAIN told = 1..n /\ DOMAIN told' = 1..n + 1
          /\ (\A i \in 1..n : told'[i] = told[i]) /\ told'[n + 1].event = e
      BY <1>2 DEF TypeOK
    <2>2. \A i \in 1..n + 1 : i \in 1..n \/ i = n + 1
      BY <2>1
    <2> HIDE DEF n
    <2>3. \A i \in 1..n : told[i].event.type = "Submitted" /\ e.type = "Submitted" =>
             told[i].event.who # e.who
      BY <2>1 DEF Asked
    <2> SUFFICES ASSUME NEW i \in 1..n + 1, NEW j \in 1..n + 1,
                        told'[i].event.type = "Submitted", told'[j].event.type = "Submitted",
                        told'[i].event.who = told'[j].event.who
                 PROVE  i = j
      BY <2>1 DEF SubmittedOnce, Told
    <2>4. CASE i \in 1..n /\ j \in 1..n
      BY <2>1, <2>4 DEF SubmittedOnce, Told
    <2> QED BY <2>1, <2>2, <2>3, <2>4
  <1> QED BY <1>1, <1>2

\* append_locked, whether it returns Ok or an error.
LEMMA LogReplay ==
    ASSUME LInv, ReplayInv, up, up' = up, NEW e \in Events, Fits(e), Log(e)
    PROVE  ReplayInv'
  <1>1. /\ TypeOK /\ replayed \in [TaskIds -> Records] /\ tasks \in [TaskIds -> Records]
        /\ Lines \in Seq(Events \cup {Bad}) /\ Len(Lines) \in Nat
        /\ idempotency = Index(tasks) /\ Serves(tasks)
    <2>1. Lines \in Seq(Events \cup {Bad})
      BY DEF LInv, TypeOK, Lines
    <2>2. Len(Lines) \in Nat
      BY <2>1
    <2> QED BY <2>1, <2>2 DEF LInv, TypeOK, ReplayInv
  <1>2. /\ e.type = "Claimed" => e.who \in Workers
        /\ e.type = "Submitted" => /\ e.who \in Keys /\ Index(tasks)[e.who] = None
                                   /\ tasks[e.id] = Absent /\ replayed[e.id] = Absent
    BY <1>1 DEF Fits
  <1>3. told' \in {told, Append(told, [event |-> e, at |-> clock])}
    BY DEF Log, AppendOk, AppendFail
  <1>4. SubmittedOnce'
    <2>1. e.type = "Submitted" => ~Asked(e.who)
      BY <1>1, <1>2, IndexValue DEF Serves
    <2> QED BY <1>1, <1>3, <2>1, SubmittedMore DEF ReplayInv
  <1>5. idempotency' = Index(tasks') /\ Serves(tasks)'
    <2>1. CASE AppendOk(e)
      <3>1. /\ tasks' = ApplyEvent(tasks, e)
            /\ idempotency' = IF e.type = "Submitted"
                              THEN [idempotency EXCEPT ![e.who] = e.id] ELSE idempotency
        BY <2>1 DEF AppendOk
      <3>2. Index(ApplyEvent(tasks, e)) =
               IF e.type = "Submitted" THEN [Index(tasks) EXCEPT ![e.who] = e.id] ELSE Index(tasks)
        BY <1>1, <1>2, IndexMore
      <3>3. \A k \in Keys : Asked(k)' => \E id \in TaskIds : ApplyEvent(tasks, e)[id].key = k
        BY <1>1, <1>2, <1>3, ServesMore
      <3> QED BY <1>1, <3>1, <3>2, <3>3 DEF Serves
    <2>2. CASE AppendFail(e)
      BY <1>1, <2>2 DEF AppendFail, memory, Serves, Asked
    <2> QED BY <2>1, <2>2 DEF Log
  <1>6. ASSUME Readable'
        PROVE  /\ ReplaysTo(Lines, {}, replayed)' /\ Serves(replayed)'
               /\ ReplaysTo(Lines, unsure, tasks)' /\ (unsure \subseteq 1..Len(Lines))'
    <2>1. CASE Grown(e)
      <3>1. Readable /\ Lines' = Append(Lines, e) /\ replayed' = ApplyEvent(replayed, e)
        BY <2>1 DEF Grown
      <3>2. /\ ReplaysTo(Lines, {}, replayed) /\ Serves(replayed)
            /\ ReplaysTo(Lines, unsure, tasks) /\ unsure \subseteq 1..Len(Lines)
        BY <3>1 DEF ReplayInv
      <3>3. ReplaysTo(Lines', {}, replayed')
        <4>1. e \in Events \cup {Bad} /\ Len(Lines) + 1 \notin {}
          OBVIOUS
        <4>2. ReplaysTo(Append(Lines, e), {}, IF Len(Lines) + 1 \in {} THEN replayed
                                              ELSE ApplyEvent(replayed, e))
          BY <1>1, <3>2, <4>1, ReplayMore
        <4> QED BY <3>1, <4>1, <4>2
      <3>4. \A k \in Keys : Asked(k)' => \E id \in TaskIds : ApplyEvent(replayed, e)[id].key = k
        BY <1>1, <1>2, <1>3, <3>2, ServesMore
      <3>5. Serves(replayed)'
        BY <3>1, <3>4 DEF Serves
      <3>6. Len(Lines') = Len(Lines) + 1 /\ Len(Lines) + 1 \notin unsure
            /\ e \in Events \cup {Bad}
        BY <1>1, <3>1, <3>2
      <3>7. CASE AppendOk(e) /\ unsure' = unsure
        <4>1. ReplaysTo(Append(Lines, e), unsure, IF Len(Lines) + 1 \in unsure THEN tasks
                                                  ELSE ApplyEvent(tasks, e))
          BY <1>1, <3>2, <3>6, ReplayMore
        <4>2. tasks' = ApplyEvent(tasks, e)
          BY <3>7 DEF AppendOk
        <4>3. ReplaysTo(Lines', unsure', tasks')
          BY <3>1, <3>6, <3>7, <4>1, <4>2
        <4>4. unsure' \subseteq 1..Len(Lines')
          BY <1>1, <3>2, <3>6, <3>7
        <4> QED BY <3>3, <3>5, <4>3, <4>4
      <3>8. CASE AppendFail(e) /\ unsure' = unsure \cup {Len(Lines) + 1}
        <4>1. \A n \in 1..Len(Lines) : n \in unsure' <=> n \in unsure
          BY <1>1, <3>8
        <4>2. Len(Lines) + 1 \in unsure' /\ tasks' = tasks
          BY <3>8 DEF AppendFail, memory
        <4>3. ReplaysTo(Append(Lines, e), unsure', IF Len(Lines) + 1 \in unsure' THEN tasks
                                                   ELSE ApplyEvent(tasks, e))
          BY <1>1, <3>2, <3>6, <4>1, ReplayMore
        <4>4. ReplaysTo(Lines', unsure', tasks')
          BY <3>1, <4>2, <4>3
        <4>5. unsure' \subseteq 1..Len(Lines')
          <5>1. 1..Len(Lines) + 1 = (1..Len(Lines)) \cup {Len(Lines) + 1}
            BY <1>1
          <5>2. 1..Len(Lines') = (1..Len(Lines)) \cup {Len(Lines) + 1}
            BY <3>6, <5>1
          <5>3. unsure \subseteq 1..Len(Lines) /\ unsure' = unsure \cup {Len(Lines) + 1}
            BY <3>2, <3>8
          <5> QED BY <5>2, <5>3, Zenon
        <4> QED BY <3>3, <3>5, <4>4, <4>5
      <3>9. ~Untouched
        BY <3>1, <3>6 DEF Untouched
      <3> QED BY <1>1, <1>6, <3>7, <3>8, <3>9, ReadableAppend
    <2>2. CASE AppendFail(e) /\ Untouched
      <3>1. Readable /\ Lines' = Lines /\ UNCHANGED <<replayed, unsure, tasks, told>>
        BY <2>2 DEF Untouched, AppendFail, memory
      <3> QED BY <3>1 DEF ReplayInv, Serves, Asked
    <2> QED BY <1>1, <1>6, <2>1, <2>2, ReadableAppend
  <1> QED BY <1>4, <1>5, <1>6 DEF ReplayInv

\* Every step keeps memory what the file replays to.
LEMMA StepReplay == LInv /\ ReplayInv /\ [Next]_vars => ReplayInv'
  <1> SUFFICES ASSUME LInv, ReplayInv, [Next]_vars PROVE ReplayInv'
    OBVIOUS
  <1>1. CASE up /\ up' = up /\ \E e \in Events : Fits(e) /\ Log(e)
    BY <1>1, LogReplay
  <1>2. ASSUME UNCHANGED <<file, tail, replayed, told>>
        PROVE  /\ Readable' = Readable /\ Lines' = Lines
               /\ (Serves(replayed)' <=> Serves(replayed)) /\ SubmittedOnce'
    BY <1>2 DEF ReplayInv, Readable, Lines, Serves, Asked, SubmittedOnce, Told
  <1>3. CASE Stop
    <2>1. ~up' /\ UNCHANGED <<file, tail, replayed, told>>
      BY <1>3 DEF Stop, disk
    <2> QED BY <1>2, <2>1 DEF ReplayInv
  <1>4. CASE Open
    <2>1. /\ Readable /\ tasks' = replayed /\ unsure' = {} /\ idempotency' = Index(replayed)
          /\ UNCHANGED <<file, tail, replayed, told>>
      BY <1>4 DEF Open, disk
    <2>2. Serves(tasks)'
      BY <2>1 DEF ReplayInv, Serves, Asked
    <2> QED BY <1>2, <2>1, <2>2 DEF ReplayInv
  <1>5. CASE UNCHANGED <<disk, up, memory, told, left>>
    <2>1. UNCHANGED <<file, tail, replayed, told, up, tasks, idempotency, unsure>>
      BY <1>5 DEF disk, memory, left
    <2>2. Serves(tasks)' <=> Serves(tasks)
      BY <2>1 DEF Serves, Asked
    <2> QED BY <1>2, <2>1, <2>2 DEF ReplayInv
  <1> QED BY <1>1, <1>3, <1>4, <1>5, StepKinds

\* Memory follows the file (append_locked, open), whatever failed appends leave.
THEOREM ReplayInvariance == Spec => []ReplayInv
  <1>1. Init => ReplayInv
    <2> SUFFICES ASSUME Init PROVE ReplayInv
      OBVIOUS
    <2>1. /\ file = <<>> /\ tail = <<>> /\ replayed = Empty /\ tasks = Empty /\ up = TRUE
          /\ idempotency = [k \in Keys |-> None] /\ told = <<>> /\ unsure = {}
      BY DEF Init
    <2>2. \A id \in TaskIds : Empty[id].key = None
      BY DEF Empty, Absent
    <2>3. Index(Empty) = [k \in Keys |-> None]
      <3>1. \A k \in Keys : {id \in TaskIds : Empty[id].key = k} = {}
        BY <2>2, LedgerAssumption
      <3> QED BY <3>1 DEF Index
    <2>4. ReplaysTo(<<>>, {}, Empty)
      <3> DEFINE f == [n \in 0..0 |-> Empty]
      <3>1. Partial(f, <<>>, {})
        BY DEF Partial
      <3>2. \A g : Partial(g, <<>>, {}) => g[0] = Empty
        BY DEF Partial
      <3> HIDE DEF f
      <3> QED BY <3>1, <3>2 DEF ReplaysTo
    <2>5. Lines = <<>>
      BY <2>1 DEF Lines
    <2>6. Serves(Empty) /\ SubmittedOnce
      BY <2>1 DEF Serves, Asked, SubmittedOnce
    <2> QED BY <2>1, <2>3, <2>4, <2>5, <2>6 DEF ReplayInv
  <1>2. LInv /\ ReplayInv /\ [Next]_vars => ReplayInv'
    BY StepReplay
  <1> QED BY <1>1, <1>2, LedgerInvariance, PTL DEF Spec

(***************************************************************************)
(* What the ledger serves is what the next open rebuilds, without what      *)
(* appends that failed since the last open have left (append_locked, open). *)
(***************************************************************************)
THEOREM ReplayIsMemoryHolds == Spec => []ReplayIsMemory
  <1>1. ReplayInv => ReplayIsMemory
    BY ReplayValue DEF ReplayInv, ReplayIsMemory, Lines
  <1> QED BY <1>1, ReplayInvariance, PTL

(***************************************************************************)
(* No key has two acknowledged tasks (submit, open), whatever failed        *)
(* appends leave.  OneTaskPerKey itself fails: the file may hold a task     *)
(* whose submission was not acknowledged next to the one that was.          *)
(***************************************************************************)
THEOREM SubmittedOnceHolds == Spec => []SubmittedOnce
  <1>1. ReplayInv => SubmittedOnce
    BY DEF ReplayInv
  <1> QED BY <1>1, ReplayInvariance, PTL
=============================================================================
