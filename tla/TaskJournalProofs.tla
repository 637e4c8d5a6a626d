------------------------- MODULE TaskJournalProofs -------------------------
(***************************************************************************)
(* Proofs about TaskJournal, for every set of turns and criteria, every    *)
(* budget and any number of faults: the journal stays readable, a verdict  *)
(* that a caller saw is final, success is earned by the last attempt and   *)
(* no turn is started twice or over the budget.                            *)
(*                                                                         *)
(* The argument has two parts.  What apply builds is a sound task state    *)
(* (SoundState), whatever the events; and a journal that may still write   *)
(* has published exactly what the file would be replayed to (DiskInv), so  *)
(* that a line it appends is one that open accepts.                        *)
(***************************************************************************)
EXTENDS TaskJournal, FiniteSetTheorems, SequenceTheorems, TLAPS

Statuses == {"Ready", "Running", "NeedsRepair"} \cup Final
Evidence == [turn : Turns, artifacts : Snapshots, unknown : BOOLEAN]
States ==
    [status : Statuses, attempts : Nat, evidence : Seq(Evidence),
     active : Turns \cup {None},
     remaining : SUBSET (Criteria \cup {"reconcile", "reason"})]

\* The events of the public operations.
Events ==
    {AttemptStarted(turn) : turn \in Turns}
        \cup {AttemptChecked(artifacts, unknown) : artifacts \in Snapshots,
                                                   unknown \in BOOLEAN}
        \cup {Blocked}

\* The success of a task state is the one its evidence earns.
Earned(s) ==
    s.status = "Succeeded" <=>
        /\ s.evidence # <<>>
        /\ Accepted(s.evidence[Len(s.evidence)].artifacts)
        /\ \A i \in DOMAIN s.evidence : ~s.evidence[i].unknown

\* A task state that some history of applied events explains: each attempt is
\* active or has its evidence, no two have the same turn, and as long as the
\* task can go on no outcome is unknown.
SoundState(s) ==
    /\ s \in States
    /\ s.attempts <= MaxAttempts
    /\ s.attempts = Len(s.evidence) + (IF s.active = None THEN 0 ELSE 1)
    /\ s.status = "Running" => s.active # None
    /\ s.status \in {"Ready", "NeedsRepair"} => s.active = None
    /\ s.status \in {"Ready", "Running", "NeedsRepair"} =>
          \A i \in DOMAIN s.evidence : ~s.evidence[i].unknown
    /\ Earned(s)

\* Every turn whose start was reported is an attempt of the state.
Covers(s, turns) ==
    /\ Len(turns) <= s.attempts
    /\ \A i \in DOMAIN turns :
          \/ s.active = turns[i]
          \/ \E j \in DOMAIN s.evidence : s.evidence[j].turn = turns[i]

\* Types, as far as the proof needs them.
JournalTypeOK ==
    /\ lines \in Nat /\ sequence \in Nat /\ faults \in Nat
    /\ started \in Seq(Turns)
    /\ verdict \in Final \cup {None}

\* The file and the journal agree as long as the journal may write.
DiskInv ==
    /\ valid
    /\ ~exists => lines = 0 /\ sequence = 0 /\ ~torn /\ ~up /\ started = <<>>
    /\ lines = 0 => ~up
    /\ up /\ ~write_failed => state = replayed /\ sequence = lines /\ ~torn

\* What callers saw is in the state and in the file.
ReportInv ==
    /\ Covers(replayed, started) /\ (up => Covers(state, started))
    /\ \A i, j \in DOMAIN started : started[i] = started[j] => i = j
    /\ verdict # None => exists /\ replayed.status = verdict /\ (up => state.status = verdict)

JournalInv ==
    /\ JournalTypeOK
    /\ SoundState(state) /\ SoundState(replayed)
    /\ DiskInv /\ ReportInv

-----------------------------------------------------------------------------
(* The completion gate and apply.                                          *)

\* The gate's count of matching snapshots decides what the reference says: each
\* artifact of a criterion is named once, with the content asked for.
LEMMA GateIsReference ==
    ASSUME NEW artifacts \in Snapshots
    PROVE  Passed(artifacts) = Criteria <=> Accepted(artifacts)
<1> DEFINE Matches(c) == {i \in DOMAIN artifacts : artifacts[i].id = Artifact[c]}
<1>1. ASSUME NEW c \in Criteria
      PROVE  Cardinality(Matches(c)) = 1 <=> \E x : Matches(c) = {x}
  <2>1. IsFiniteSet(Matches(c))
    BY SnapshotsAssumption, FS_Subset
  <2> QED
    BY <2>1, FS_Singleton
<1>2. ASSUME NEW c \in Criteria
      PROVE  (Cardinality(Matches(c)) = 1 /\ \A i \in Matches(c) : artifacts[i].content = Expected[c])
              <=> \E i \in DOMAIN artifacts :
                     /\ artifacts[i] = [id |-> Artifact[c], content |-> Expected[c]]
                     /\ \A j \in DOMAIN artifacts : artifacts[j].id = Artifact[c] => j = i
  <2>1. ASSUME NEW x, Matches(c) = {x}, \A i \in Matches(c) : artifacts[i].content = Expected[c]
        PROVE  \E i \in DOMAIN artifacts :
                     /\ artifacts[i] = [id |-> Artifact[c], content |-> Expected[c]]
                     /\ \A j \in DOMAIN artifacts : artifacts[j].id = Artifact[c] => j = i
    <3>1. x \in DOMAIN artifacts /\ artifacts[x].id = Artifact[c]
      BY <2>1
    <3>2. artifacts[x].content = Expected[c]
      BY <2>1
    <3>3. artifacts[x] = [id |-> Artifact[c], content |-> Expected[c]]
      BY <3>1, <3>2, SnapshotsAssumption
    <3>4. \A j \in DOMAIN artifacts : artifacts[j].id = Artifact[c] => j = x
      BY <2>1
    <3> QED
      BY <3>1, <3>3, <3>4
  <2>2. ASSUME NEW i \in DOMAIN artifacts,
               artifacts[i] = [id |-> Artifact[c], content |-> Expected[c]],
               \A j \in DOMAIN artifacts : artifacts[j].id = Artifact[c] => j = i
        PROVE  Matches(c) = {i} /\ artifacts[i].content = Expected[c]
    BY <2>2
  <2> QED
    BY <1>1, <2>1, <2>2
<1>3. Passed(artifacts) = Criteria <=>
         \A c \in Criteria : /\ Cardinality(Matches(c)) = 1
                             /\ \A i \in Matches(c) : artifacts[i].content = Expected[c]
  BY DEF Passed
<1> QED
  BY <1>2, <1>3 DEF Accepted

\* A new task is sound.
LEMMA InitialSound == SoundState(InitialState)
BY JournalAssumption, EmptySeq DEF SoundState, States, Statuses, InitialState, Earned, Final

\* An attempt starts only within the budget, under a turn without evidence.
LEMMA StartedSound ==
    ASSUME NEW s, SoundState(s), NEW turn \in Turns, Applicable(s, AttemptStarted(turn))
    PROVE  LET t == Applied(s, AttemptStarted(turn))
           IN  /\ SoundState(t)
               /\ t.evidence = s.evidence /\ t.active = turn /\ s.active = None
               /\ t.attempts = s.attempts + 1
               /\ \A i \in DOMAIN s.evidence : s.evidence[i].turn # turn
<1> DEFINE t == Applied(s, AttemptStarted(turn))
<1>1. /\ s \in States /\ s.status \in {"Ready", "NeedsRepair"} /\ s.attempts < MaxAttempts
      /\ \A i \in DOMAIN s.evidence : s.evidence[i].turn # turn
      /\ s.active = None
  BY DEF Applicable, AttemptStarted, SoundState
<1>2. t = [s EXCEPT !.attempts = @ + 1, !.active = turn, !.status = "Running"]
  BY DEF Applied, AttemptStarted
<1> HIDE DEF t
<1>3. /\ t \in States /\ t.status = "Running" /\ t.active = turn
      /\ t.attempts = s.attempts + 1 /\ t.evidence = s.evidence
  <2> DEFINE u == [status |-> "Running", attempts |-> s.attempts + 1,
                   evidence |-> s.evidence, active |-> turn, remaining |-> s.remaining]
  <2>1. t = u
    BY <1>1, <1>2 DEF States
  <2>2. u \in States
    BY <1>1 DEF States, Statuses
  <2> QED
    BY <2>1, <2>2
<1>4. SoundState(t)
  BY <1>1, <1>3, JournalAssumption DEF SoundState, States, Earned
<1> QED
  BY <1>1, <1>3, <1>4 DEF t

\* The verdict of a check agrees with the evidence it adds.
LEMMA CheckedSound ==
    ASSUME NEW s, SoundState(s), NEW artifacts \in Snapshots, NEW unknown \in BOOLEAN,
           Applicable(s, AttemptChecked(artifacts, unknown))
    PROVE  LET t == Applied(s, AttemptChecked(artifacts, unknown))
           IN  /\ SoundState(t)
               /\ s.active \in Turns /\ t.active = None
               /\ t.attempts = s.attempts
               /\ t.evidence = Append(s.evidence, [turn |-> s.active, artifacts |-> artifacts,
                                                   unknown |-> unknown])
<1> DEFINE e == AttemptChecked(artifacts, unknown)
           t == Applied(s, e)
           new == [turn |-> s.active, artifacts |-> artifacts, unknown |-> unknown]
<1>1. /\ s \in States /\ s.status = "Running" /\ s.active \in Turns
      /\ s.attempts = Len(s.evidence) + 1 /\ s.attempts <= MaxAttempts
      /\ \A i \in DOMAIN s.evidence : ~s.evidence[i].unknown
  BY DEF Applicable, AttemptChecked, SoundState, States
<1>2. /\ e.type = "AttemptChecked" /\ e.artifacts = artifacts /\ e.unknown = unknown
  BY DEF AttemptChecked
<1>3. t = [s EXCEPT !.remaining = (Criteria \ Passed(artifacts)) \cup
                                     (IF unknown THEN {"reconcile"} ELSE {}),
                    !.status = Verdict(s, artifacts, unknown),
                    !.evidence = Append(@, new),
                    !.active = None]
  BY <1>2 DEF Applied
<1> HIDE DEF t
<1>4. Verdict(s, artifacts, unknown) \in Statuses \ {"Ready", "Running"}
  BY DEF Verdict, Statuses, Final
<1>5. new \in Evidence /\ s.evidence \in Seq(Evidence) /\ Len(s.evidence) \in Nat
  BY <1>1, LenProperties DEF Evidence, States
<1>6. /\ Append(s.evidence, new) \in Seq(Evidence)
      /\ Append(s.evidence, new) # <<>>
      /\ Len(Append(s.evidence, new)) = Len(s.evidence) + 1
      /\ DOMAIN Append(s.evidence, new) = 1..Len(s.evidence) + 1
      /\ \A i \in 1..Len(s.evidence) : Append(s.evidence, new)[i] = s.evidence[i]
      /\ Append(s.evidence, new)[Len(s.evidence) + 1] = new
  BY <1>5, AppendProperties, LenProperties
<1>7. /\ t \in States /\ t.active = None /\ t.attempts = s.attempts
      /\ t.status = Verdict(s, artifacts, unknown)
      /\ t.evidence = Append(s.evidence, new)
  BY <1>1, <1>3, <1>4, <1>6 DEF States
<1>8. (\A i \in DOMAIN t.evidence : ~t.evidence[i].unknown) <=> ~unknown
  BY <1>1, <1>5, <1>6, <1>7, LenProperties
<1>9. t.evidence[Len(t.evidence)].artifacts = artifacts
  BY <1>6, <1>7
<1>10. Earned(t)
  <2>1. CASE unknown
    BY <1>7, <1>8, <2>1 DEF Verdict, Earned
  <2>2. CASE ~unknown
    <3>1. t.status = "Succeeded" <=> Passed(artifacts) = Criteria
      BY <1>7, <2>2 DEF Verdict
    <3> QED
      BY <1>6, <1>7, <1>8, <1>9, <2>2, <3>1, GateIsReference DEF Earned
  <2> QED
    BY <2>1, <2>2
<1>11. t.status = "NeedsRepair" => ~unknown
  BY <1>7 DEF Verdict
<1>12. SoundState(t)
  BY <1>1, <1>4, <1>5, <1>6, <1>7, <1>8, <1>10, <1>11 DEF SoundState
<1> QED
  BY <1>1, <1>7, <1>12 DEF t

\* Blocking a task changes neither its attempts nor its evidence.
LEMMA BlockedSound ==
    ASSUME NEW s, SoundState(s), Applicable(s, Blocked)
    PROVE  LET t == Applied(s, Blocked)
           IN  /\ SoundState(t)
               /\ t.evidence = s.evidence /\ t.active = s.active
               /\ t.attempts = s.attempts
<1> DEFINE t == Applied(s, Blocked)
<1>1. s \in States /\ s.status \in {"Ready", "Running", "NeedsRepair"}
  BY DEF Applicable, Blocked, SoundState
<1>2. t = [s EXCEPT !.status = "Blocked", !.remaining = @ \cup {"reason"}]
  BY DEF Applied, Blocked
<1>3. /\ t \in States /\ t.status = "Blocked"
      /\ t.evidence = s.evidence /\ t.active = s.active /\ t.attempts = s.attempts
  BY <1>1, <1>2 DEF States, Statuses, Final
<1>4. SoundState(t)
  BY <1>1, <1>3 DEF SoundState, Earned
<1> QED
  BY <1>3, <1>4

\* apply keeps task states sound.
LEMMA AppliedSound ==
    ASSUME NEW s, SoundState(s), NEW e \in Events, Applicable(s, e)
    PROVE  SoundState(Applied(s, e))
<1>1. ASSUME NEW turn \in Turns, e = AttemptStarted(turn)
      PROVE  SoundState(Applied(s, e))
  BY <1>1, StartedSound
<1>2. ASSUME NEW artifacts \in Snapshots, NEW unknown \in BOOLEAN,
             e = AttemptChecked(artifacts, unknown)
      PROVE  SoundState(Applied(s, e))
  BY <1>2, CheckedSound
<1>3. CASE e = Blocked
  BY <1>3, BlockedSound
<1> QED
  BY <1>1, <1>2, <1>3 DEF Events

\* apply forgets no attempt.
LEMMA AppliedCovers ==
    ASSUME NEW s, SoundState(s), NEW e \in Events, Applicable(s, e),
           NEW turns \in Seq(Turns), Covers(s, turns)
    PROVE  Covers(Applied(s, e), turns)
<1>1. /\ \A i \in DOMAIN turns : turns[i] \in Turns /\ turns[i] # None
      /\ Len(turns) \in Nat /\ s.attempts \in Nat /\ s.evidence \in Seq(Evidence)
  BY JournalAssumption, LenProperties, ElementOfSeq DEF SoundState, States
<1>2. CASE \E turn \in Turns : e = AttemptStarted(turn)
  <2>1. PICK turn \in Turns : e = AttemptStarted(turn)
    BY <1>2
  <2>2. /\ Applied(s, e).evidence = s.evidence /\ s.active = None
        /\ Applied(s, e).attempts = s.attempts + 1
    BY <2>1, StartedSound
  <2> QED
    BY <1>1, <2>2 DEF Covers
<1>3. CASE \E artifacts \in Snapshots, unknown \in BOOLEAN :
              e = AttemptChecked(artifacts, unknown)
  <2>1. PICK artifacts \in Snapshots, unknown \in BOOLEAN :
                e = AttemptChecked(artifacts, unknown)
    BY <1>3
  <2> DEFINE new == [turn |-> s.active, artifacts |-> artifacts, unknown |-> unknown]
             evidence == Append(s.evidence, new)
  <2>2. /\ Applied(s, e).evidence = evidence /\ s.active \in Turns
        /\ Applied(s, e).attempts = s.attempts
    BY <2>1, CheckedSound
  <2>3. /\ DOMAIN evidence = 1..Len(s.evidence) + 1 /\ Len(s.evidence) \in Nat
        /\ \A j \in 1..Len(s.evidence) : evidence[j] = s.evidence[j]
        /\ evidence[Len(s.evidence) + 1].turn = s.active
        /\ DOMAIN s.evidence = 1..Len(s.evidence)
    <3>1. new \in Evidence
      BY <2>2 DEF Evidence
    <3> QED
      BY <1>1, <3>1, AppendProperties, LenProperties
  <2> HIDE DEF evidence
  <2>4. ASSUME NEW i \in DOMAIN turns
        PROVE  \E j \in DOMAIN evidence : evidence[j].turn = turns[i]
    <3>1. CASE s.active = turns[i]
      BY <2>3, <3>1
    <3>2. CASE \E j \in DOMAIN s.evidence : s.evidence[j].turn = turns[i]
      BY <2>3, <3>2
    <3> QED
      BY <3>1, <3>2 DEF Covers
  <2> QED
    BY <2>2, <2>4 DEF Covers
<1>4. CASE e = Blocked
  <2>1. /\ Applied(s, e).evidence = s.evidence /\ Applied(s, e).active = s.active
        /\ Applied(s, e).attempts = s.attempts
    BY <1>4, BlockedSound
  <2> QED
    BY <2>1 DEF Covers
<1> QED
  BY <1>2, <1>3, <1>4 DEF Events

\* A turn that starts is new, and the state it starts in covers it.
LEMMA StartCovers ==
    ASSUME NEW s, SoundState(s), NEW turn \in Turns, Applicable(s, AttemptStarted(turn)),
           NEW turns \in Seq(Turns), Covers(s, turns),
           \A i, j \in DOMAIN turns : turns[i] = turns[j] => i = j
    PROVE  LET more == Append(turns, turn)
           IN  /\ more \in Seq(Turns)
               /\ Covers(Applied(s, AttemptStarted(turn)), more)
               /\ \A i, j \in DOMAIN more : more[i] = more[j] => i = j
<1> DEFINE more == Append(turns, turn)
           t == Applied(s, AttemptStarted(turn))
<1>1. /\ Len(turns) \in Nat /\ DOMAIN turns = 1..Len(turns)
      /\ \A i \in 1..Len(turns) : turns[i] \in Turns /\ turns[i] # None
  BY JournalAssumption, LenProperties, ElementOfSeq
<1>2. /\ more \in Seq(Turns) /\ Len(more) = Len(turns) + 1
      /\ DOMAIN more = 1..Len(turns) + 1
      /\ \A i \in 1..Len(turns) : more[i] = turns[i]
      /\ more[Len(turns) + 1] = turn
  BY AppendProperties, LenProperties
<1> HIDE DEF more
<1>3. /\ t.evidence = s.evidence /\ t.active = turn /\ s.active = None
      /\ t.attempts = s.attempts + 1 /\ s.attempts \in Nat
      /\ \A i \in DOMAIN s.evidence : s.evidence[i].turn # turn
  <2>1. s.attempts \in Nat
    BY DEF SoundState, States
  <2> QED
    BY <2>1, StartedSound
<1> HIDE DEF t
<1>4. \A i \in 1..Len(turns) : \E j \in DOMAIN s.evidence : s.evidence[j].turn = turns[i]
  BY <1>1, <1>3 DEF Covers
<1>5. \A i \in 1..Len(turns) : turns[i] # turn
  BY <1>3, <1>4
<1>6. Covers(t, more)
  <2>1. Len(more) <= t.attempts
    BY <1>1, <1>2, <1>3 DEF Covers
  <2>2. ASSUME NEW i \in DOMAIN more
        PROVE  t.active = more[i] \/ \E j \in DOMAIN t.evidence : t.evidence[j].turn = more[i]
    <3>1. CASE i = Len(turns) + 1
      BY <1>2, <1>3, <3>1
    <3>2. CASE i \in 1..Len(turns)
      BY <1>2, <1>3, <1>4, <3>2
    <3> QED
      BY <1>1, <1>2, <3>1, <3>2
  <2> QED
    BY <2>1, <2>2 DEF Covers
<1>7. \A i, j \in DOMAIN more : more[i] = more[j] => i = j
  BY <1>1, <1>2, <1>5
<1> QED
  BY <1>2, <1>6, <1>7 DEF more, t

-----------------------------------------------------------------------------
(* The journal: what is written is what was applied.                       *)

\* A line of a journal that may write passes the checks of open.
LEMMA LineAccepted ==
    ASSUME JournalInv, up, ~write_failed, NEW e \in Events, Applicable(state, e), Line(e)
    PROVE  /\ valid' /\ torn' = FALSE /\ lines' = lines + 1
           /\ replayed' = Applied(state, e)
<1>1. valid /\ ~torn /\ sequence = lines /\ lines # 0 /\ state = replayed
  BY DEF JournalInv, DiskInv
<1>2. e # Created
  BY DEF Events, AttemptStarted, AttemptChecked, Blocked, Created
<1> QED
  BY <1>1, <1>2 DEF Line

\* Before the file is created nothing was started and no verdict given.
LEMMA InitHolds == Init => JournalInv
<1> SUFFICES ASSUME Init PROVE JournalInv
  OBVIOUS
<1>1. JournalTypeOK
  BY EmptySeq DEF Init, JournalTypeOK
<1>2. Covers(InitialState, <<>>)
  BY DEF Covers, InitialState
<1>3. DiskInv /\ ReportInv
  BY <1>2 DEF Init, DiskInv, ReportInv
<1> QED
  BY <1>1, <1>3, InitialSound DEF Init, JournalInv

\* create: the first line is the one open expects, if it is there at all.
LEMMA CreateStep == JournalInv /\ Create => JournalInv'
<1> SUFFICES ASSUME JournalInv, Create PROVE JournalInv'
  OBVIOUS
<1>1. /\ JournalTypeOK /\ ~exists /\ lines = 0 /\ sequence = 0 /\ ~torn /\ ~up /\ valid
      /\ started = <<>> /\ verdict = None
  BY DEF JournalInv, DiskInv, ReportInv, Create
<1>2. /\ exists' = TRUE /\ state' = InitialState /\ started' = started /\ verdict' = verdict
  BY DEF Create, ghosts
<1>3. Line(Created) => /\ lines' = 1 /\ torn' = FALSE /\ valid' = TRUE
                       /\ replayed' = InitialState
  BY <1>1 DEF Line
<1>4. \/ /\ lines' = 1 /\ ~torn' /\ valid' /\ replayed' = InitialState
         /\ up' /\ sequence' = 1
      \/ /\ lines' \in {0, 1} /\ valid' /\ replayed' \in {replayed, InitialState}
         /\ ~up' /\ sequence' = 0
  BY <1>1, <1>3 DEF Create
<1>5. JournalTypeOK'
  <2>1. faults' = faults \/ faults' = faults + 1
    BY DEF Create
  <2> QED
    BY <1>1, <1>2, <1>4, <2>1 DEF JournalTypeOK
<1>6. DiskInv'
  BY <1>2, <1>4 DEF DiskInv
<1>7. SoundState(state') /\ SoundState(replayed')
  BY <1>2, <1>4, InitialSound DEF JournalInv
<1>8. Covers(InitialState, <<>>)
  BY DEF Covers, InitialState
<1>9. ReportInv'
  BY <1>1, <1>2, <1>4, <1>8 DEF JournalInv, ReportInv
<1>10. (SoundState(state) /\ SoundState(replayed))'
  BY <1>7
<1> QED
  BY <1>5, <1>6, <1>9, <1>10 DEF JournalInv

\* A transition writes an event that it has applied, or poisons the journal.
LEMMA TransitionStep ==
    ASSUME JournalInv, NEW e \in Events, Transition(e)
    PROVE  JournalInv'
<1>1. /\ up /\ ~write_failed /\ Applicable(state, e) /\ up' = up
      /\ AppendOk(e, Applied(state, e)) \/ AppendFail(e)
  BY DEF Transition
<1>2. /\ JournalTypeOK /\ SoundState(state) /\ DiskInv /\ ReportInv
      /\ state = replayed /\ sequence = lines /\ exists /\ lines # 0
  BY <1>1 DEF JournalInv, DiskInv
<1> DEFINE next == Applied(state, e)
<1>3. SoundState(next)
  BY <1>1, <1>2, AppliedSound
<1>4. Covers(next, started)
  BY <1>1, <1>2, AppliedCovers DEF ReportInv, JournalTypeOK
<1>5. verdict = None
  <2>1. state.status \notin Final
    BY <1>1 DEF Applicable, Final
  <2> QED
    BY <1>1, <1>2, <2>1 DEF ReportInv, JournalTypeOK
<1>6. CASE AppendOk(e, next)
  <2>1. /\ valid' /\ torn' = FALSE /\ lines' = lines + 1 /\ replayed' = next
    BY <1>1, <1>6, LineAccepted DEF AppendOk
  <2>2. /\ sequence' = sequence + 1 /\ state' = next
        /\ started' = IF e.type = "AttemptStarted" THEN Append(started, e.turn) ELSE started
        /\ verdict' = IF next.status \in Final THEN next.status ELSE verdict
        /\ UNCHANGED <<exists, write_failed, faults>>
    BY <1>5, <1>6 DEF AppendOk
  <2>3. /\ started' \in Seq(Turns) /\ Covers(next, started')
        /\ \A i, j \in DOMAIN started' : started'[i] = started'[j] => i = j
    <3>1. CASE \E turn \in Turns : e = AttemptStarted(turn)
      <4>1. PICK turn \in Turns : e = AttemptStarted(turn)
        BY <3>1
      <4>2. started' = Append(started, turn)
        BY <2>2, <4>1 DEF AttemptStarted
      <4> QED
        BY <1>1, <1>2, <4>1, <4>2, StartCovers DEF ReportInv, JournalTypeOK
    <3>2. CASE e.type # "AttemptStarted"
      BY <1>2, <1>4, <2>2, <3>2 DEF ReportInv, JournalTypeOK
    <3> QED
      BY <3>1, <3>2 DEF Events, AttemptChecked, Blocked
  <2> HIDE DEF next
  <2>4. JournalTypeOK'
    BY <1>1, <1>2, <2>1, <2>2, <2>3 DEF JournalTypeOK
  <2>5. DiskInv'
    BY <1>1, <1>2, <2>1, <2>2 DEF DiskInv, JournalTypeOK
  <2>6. ReportInv'
    BY <1>1, <1>2, <1>5, <2>1, <2>2, <2>3 DEF ReportInv
  <2>7. (SoundState(state) /\ SoundState(replayed))'
    BY <1>3, <2>1, <2>2
  <2> QED
    BY <2>4, <2>5, <2>6, <2>7 DEF JournalInv
<1>7. CASE AppendFail(e)
  <2>1. /\ write_failed' = TRUE /\ faults' = faults + 1
        /\ UNCHANGED <<exists, state, sequence, started, verdict>>
    BY <1>7 DEF AppendFail, ghosts
  <2>2. valid' /\ lines' \in {lines, lines + 1} /\ replayed' \in {state, next}
    <3>1. CASE Line(e)
      BY <1>1, <3>1, LineAccepted
    <3>2. CASE ~Line(e)
      BY <1>2, <1>7, <3>2 DEF AppendFail, JournalTypeOK, DiskInv
    <3> QED
      BY <3>1, <3>2
  <2> HIDE DEF next
  <2>3. JournalTypeOK'
    BY <1>1, <1>2, <2>1, <2>2 DEF JournalTypeOK
  <2>4. DiskInv'
    BY <1>1, <1>2, <2>1, <2>2 DEF DiskInv, JournalTypeOK
  <2>5. ReportInv'
    BY <1>1, <1>2, <1>4, <1>5, <2>1, <2>2 DEF ReportInv
  <2>6. (SoundState(state) /\ SoundState(replayed))'
    BY <1>2, <1>3, <2>1, <2>2
  <2> QED
    BY <2>3, <2>4, <2>5, <2>6 DEF JournalInv
<1> QED
  BY <1>1, <1>6, <1>7

\* open publishes what the lines say; the end of the process changes no line.
LEMMA OpenStopStep == JournalInv /\ (Open \/ Stop) => JournalInv'
<1> SUFFICES ASSUME JournalInv, Open \/ Stop PROVE JournalInv'
  OBVIOUS
<1>1. CASE Open
  <2>1. /\ up' = TRUE /\ state' = replayed /\ sequence' = lines /\ write_failed' = FALSE
        /\ exists /\ lines > 0 /\ ~torn
        /\ UNCHANGED <<exists, lines, torn, valid, replayed, started, verdict, faults>>
    BY <1>1 DEF Open, disk, ghosts
  <2>2. (SoundState(state) /\ SoundState(replayed))'
    BY <2>1 DEF JournalInv
  <2>3. JournalTypeOK'
    BY <2>1 DEF JournalInv, JournalTypeOK
  <2>4. DiskInv' /\ ReportInv'
    BY <2>1 DEF JournalInv, DiskInv, ReportInv
  <2> QED
    BY <2>2, <2>3, <2>4 DEF JournalInv
<1>2. CASE Stop
  <2>1. /\ up' = FALSE /\ faults' = faults + 1
        /\ UNCHANGED <<exists, lines, torn, valid, replayed, state, sequence, write_failed,
                       started, verdict>>
    BY <1>2 DEF Stop, disk, journal, ghosts
  <2>2. (SoundState(state) /\ SoundState(replayed))'
    BY <2>1 DEF JournalInv
  <2>3. JournalTypeOK'
    BY <2>1 DEF JournalInv, JournalTypeOK
  <2>4. DiskInv' /\ ReportInv'
    BY <2>1 DEF JournalInv, DiskInv, ReportInv
  <2> QED
    BY <2>2, <2>3, <2>4 DEF JournalInv
<1> QED
  BY <1>1, <1>2

\* Every step of the journal keeps the invariant.
LEMMA JournalStep == JournalInv /\ [Next]_vars => JournalInv'
<1> SUFFICES ASSUME JournalInv, [Next]_vars PROVE JournalInv'
  OBVIOUS
<1>1. CASE UNCHANGED vars
  <2>1. (SoundState(state) /\ SoundState(replayed))'
    BY <1>1 DEF JournalInv, vars
  <2> QED
    BY <1>1, <2>1 DEF vars, JournalInv, JournalTypeOK, DiskInv, ReportInv
<1>2. CASE \/ Block \/ \E turn \in Turns : StartAttempt(turn)
           \/ \E artifacts \in Snapshots, unknown \in BOOLEAN : Verify(artifacts, unknown)
  <2>1. \E e \in Events : Transition(e)
    BY <1>2 DEF Block, StartAttempt, Verify, Events
  <2> QED
    BY <2>1, TransitionStep
<1> QED
  BY <1>1, <1>2, CreateStep, OpenStopStep DEF Next

\* JournalInv holds throughout.
LEMMA JournalInvariant == Spec => []JournalInv
BY InitHolds, JournalStep, PTL DEF Spec

-----------------------------------------------------------------------------
(* The theorems.                                                           *)

(***************************************************************************)
(* A failed write costs at most an unterminated tail: the whole lines that *)
(* the journal has written always pass the checks of open.                 *)
(***************************************************************************)
THEOREM LinesStayValidHolds == Spec => []LinesStayValid
<1>1. JournalInv => LinesStayValid
  BY DEF JournalInv, DiskInv, LinesStayValid
<1> QED
  BY <1>1, JournalInvariant, PTL

(***************************************************************************)
(* A final status that a call returned stays, through failed appends, ends *)
(* of the process and reopenings.                                          *)
(***************************************************************************)
THEOREM VerdictFinalHolds == Spec => []VerdictFinal
<1>1. JournalInv => VerdictFinal
  BY DEF JournalInv, ReportInv, VerdictFinal
<1> QED
  BY <1>1, JournalInvariant, PTL

(***************************************************************************)
(* start_attempt returns Ok at most max_attempts times and once for a      *)
(* turn, whatever was lost or reopened in between.                         *)
(***************************************************************************)
THEOREM BudgetKeptHolds == Spec => []BudgetKept
<1>1. JournalInv => BudgetKept
  <2> SUFFICES ASSUME JournalInv PROVE BudgetKept
    OBVIOUS
  <2>1. Len(started) \in Nat
    BY LenProperties DEF JournalInv, JournalTypeOK
  <2>2. Len(started) <= MaxAttempts
    BY <2>1, JournalAssumption DEF JournalInv, ReportInv, Covers, SoundState, States
  <2>3. up => Len(started) <= Len(state.evidence) + (IF state.active = None THEN 0 ELSE 1)
    BY DEF JournalInv, ReportInv, Covers, SoundState
  <2> QED
    BY <2>2, <2>3 DEF BudgetKept, JournalInv, ReportInv
<1> QED
  BY <1>1, JournalInvariant, PTL

(***************************************************************************)
(* A task is Succeeded exactly if its last attempt met every criterion and *)
(* none of its attempts left an unknown outcome, in memory and in the      *)
(* file, whatever snapshots the host passed.                               *)
(***************************************************************************)
THEOREM SuccessIsEarnedHolds == Spec => []SuccessIsEarned
<1>1. JournalInv => SuccessIsEarned
  BY DEF JournalInv, SoundState, Earned, SuccessIsEarned
<1> QED
  BY <1>1, JournalInvariant, PTL
=============================================================================
