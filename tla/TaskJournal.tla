----------------------------- MODULE TaskJournal -----------------------------
(***************************************************************************)
(* TaskJournal and CompletionGate of crates/task/src/lib.rs: one task with *)
(* fixed acceptance criteria, whose attempts and verdicts are kept in a    *)
(* journal of its own and checked again, line by line, when it is opened.  *)
(*                                                                         *)
(* Texts are left out: a criterion asks for one content of one artifact,   *)
(* and of the receipts only whether one is unknown is kept.                *)
(***************************************************************************)
EXTENDS Naturals, Sequences, FiniteSets

CONSTANTS
    Turns,          \* identifiers of core turns
    Criteria,       \* the criteria of the specification
    Artifact,       \* Criterion.artifact_id
    Expected,       \* Criterion.expected
    Snapshots,      \* what a host may pass to verify: sequences of ArtifactRef
    MaxAttempts,    \* Budget.max_attempts
    None,
    MaxFaults       \* bound: failed appends and ends of the process

ASSUME JournalAssumption ==
    /\ Criteria # {} /\ MaxAttempts \in Nat \ {0} /\ MaxFaults \in Nat
    /\ None \notin Turns

\* A Vec<ArtifactRef>: a finite list of names with contents.
ASSUME SnapshotsAssumption ==
    \A artifacts \in Snapshots :
        /\ IsFiniteSet(DOMAIN artifacts)
        /\ \A i \in DOMAIN artifacts :
              artifacts[i] = [id |-> artifacts[i].id, content |-> artifacts[i].content]

VARIABLES
    exists,         \* whether the file has been created
    lines,          \* how many terminated lines it has
    torn,           \* whether something follows the last newline
    valid,          \* whether the lines pass the checks of open
    replayed,       \* the state that open would rebuild
    up,             \* whether there is a TaskJournal
    state, sequence, write_failed,      \* its fields
    started,        \* ghost: the turns whose start_attempt returned Ok
    verdict,        \* ghost: the first final status that a caller saw
    faults

disk == <<exists, lines, torn, valid, replayed>>
journal == <<state, sequence, write_failed>>
ghosts == <<started, verdict>>
vars == <<exists, lines, torn, valid, replayed, up, state, sequence, write_failed,
          started, verdict, faults>>

Final == {"Succeeded", "BudgetExhausted", "Blocked"}

\* initial_state
InitialState ==
    [status |-> "Ready", attempts |-> 0, evidence |-> <<>>, active |-> None,
     remaining |-> Criteria]

-----------------------------------------------------------------------------
(* CompletionGate::check and apply.                                        *)

\* Mutated form: any matching snapshot satisfies a criterion.
PassedAny(artifacts) ==
    {c \in Criteria : \E i \in DOMAIN artifacts :
        artifacts[i].id = Artifact[c] /\ artifacts[i].content = Expected[c]}

\* A criterion passes if exactly one snapshot has its artifact's name, and that
\* one has the expected content.
Passed(artifacts) ==
    {c \in Criteria :
        LET matches == {i \in DOMAIN artifacts : artifacts[i].id = Artifact[c]}
        IN  /\ Cardinality(matches) = 1
            /\ \A i \in matches : artifacts[i].content = Expected[c]}

Created == [type |-> "Created"]
AttemptStarted(turn) == [type |-> "AttemptStarted", turn |-> turn]
AttemptChecked(artifacts, unknown) ==
    [type |-> "AttemptChecked", artifacts |-> artifacts, unknown |-> unknown]
Blocked == [type |-> "Blocked"]

\* Mutated form: the budget is not checked when an attempt starts.
ApplicableUnbounded(s, e) ==
    \/ /\ e.type = "AttemptStarted"
       /\ s.status \in {"Ready", "NeedsRepair", "BudgetExhausted"}
       /\ \A i \in DOMAIN s.evidence : s.evidence[i].turn # e.turn
    \/ e.type = "AttemptChecked" /\ s.status = "Running"
    \/ e.type = "Blocked" /\ s.status \in {"Ready", "Running", "NeedsRepair"}

\* When apply accepts an event.
Applicable(s, e) ==
    \/ /\ e.type = "AttemptStarted"
       /\ s.status \in {"Ready", "NeedsRepair"}
       /\ s.attempts < MaxAttempts
       /\ \A i \in DOMAIN s.evidence : s.evidence[i].turn # e.turn
    \/ e.type = "AttemptChecked" /\ s.status = "Running"
    \/ e.type = "Blocked" /\ s.status \in {"Ready", "Running", "NeedsRepair"}

Verdict(s, artifacts, unknown) ==
    IF unknown THEN "Blocked"
    ELSE IF Passed(artifacts) = Criteria THEN "Succeeded"
    ELSE IF s.attempts = MaxAttempts THEN "BudgetExhausted"
    ELSE "NeedsRepair"

Applied(s, e) ==
    CASE e.type = "AttemptStarted" ->
           [s EXCEPT !.attempts = @ + 1, !.active = e.turn, !.status = "Running"]
      [] e.type = "AttemptChecked" ->
           [s EXCEPT !.remaining = (Criteria \ Passed(e.artifacts)) \cup
                                     (IF e.unknown THEN {"reconcile"} ELSE {}),
                     !.status = Verdict(s, e.artifacts, e.unknown),
                     !.evidence = Append(@, [turn |-> s.active, artifacts |-> e.artifacts,
                                             unknown |-> e.unknown]),
                     !.active = None]
      [] e.type = "Blocked" ->
           [s EXCEPT !.status = "Blocked", !.remaining = @ \cup {"reason"}]

-----------------------------------------------------------------------------
(* transition and append.                                                  *)

\* A whole line reaches the file: what open will make of it.
Line(e) ==
    LET ok == /\ valid /\ ~torn /\ sequence = lines
              /\ IF lines = 0 THEN e = Created ELSE Applicable(replayed, e)
    IN  /\ lines' = lines + 1
        /\ torn' = FALSE
        /\ valid' = ok
        /\ replayed' = IF ~ok THEN replayed
                       ELSE IF e = Created THEN InitialState ELSE Applied(replayed, e)

\* The write and the sync succeed.
AppendOk(e, next) ==
    /\ Line(e)
    /\ sequence' = sequence + 1
    /\ state' = next
    /\ started' = IF e.type = "AttemptStarted" THEN Append(started, e.turn) ELSE started
    /\ verdict' = IF verdict = None /\ next.status \in Final THEN next.status ELSE verdict
    /\ UNCHANGED <<exists, write_failed, faults>>

\* Mutated form: the next append is tried as if nothing had happened.
AppendFailUnpoisoned(e) ==
    /\ faults < MaxFaults
    /\ faults' = faults + 1
    /\ \/ Line(e)
       \/ torn' = TRUE /\ UNCHANGED <<lines, valid, replayed>>
       \/ UNCHANGED <<lines, torn, valid, replayed>>
    /\ UNCHANGED <<exists, state, sequence, write_failed, ghosts>>

\* One of them fails: the file has the line, part of it or nothing, the state is
\* not published, and the journal refuses further writes.
AppendFail(e) ==
    /\ faults < MaxFaults
    /\ faults' = faults + 1
    /\ write_failed' = TRUE
    /\ \/ Line(e)
       \/ torn' = TRUE /\ UNCHANGED <<lines, valid, replayed>>
       \/ UNCHANGED <<lines, torn, valid, replayed>>
    /\ UNCHANGED <<exists, state, sequence, ghosts>>

Transition(e) ==
    /\ up
    /\ Applicable(state, e)
    /\ ~write_failed
    /\ AppendOk(e, Applied(state, e)) \/ AppendFail(e)
    /\ UNCHANGED up

StartAttempt(turn) == Transition(AttemptStarted(turn))

Verify(artifacts, unknown) == Transition(AttemptChecked(artifacts, unknown))

Block == Transition(Blocked)

\* create makes the file, then appends the first line; if that fails there is
\* no journal, and the file stays.
Create ==
    /\ ~exists
    /\ exists' = TRUE
    /\ state' = InitialState
    /\ \/ /\ Line(Created)
          /\ up' = TRUE /\ sequence' = 1 /\ write_failed' = FALSE
          /\ UNCHANGED faults
       \/ /\ faults < MaxFaults
          /\ faults' = faults + 1
          /\ \/ Line(Created)
             \/ torn' \in BOOLEAN /\ UNCHANGED <<lines, valid, replayed>>
          /\ UNCHANGED <<up, sequence, write_failed>>
    /\ UNCHANGED ghosts

\* The process ends; what a failed or an interrupted append left stays.
Stop ==
    /\ up
    /\ faults < MaxFaults
    /\ faults' = faults + 1
    /\ up' = FALSE
    /\ UNCHANGED <<disk, journal, ghosts>>

\* Mutated form: an attempt found running is taken for one that never began.
OpenRetries ==
    /\ ~up /\ exists /\ lines > 0 /\ ~torn /\ valid
    /\ up' = TRUE
    /\ state' = IF replayed.status = "Running"
                THEN [replayed EXCEPT !.status = "NeedsRepair", !.attempts = @ - 1]
                ELSE replayed
    /\ sequence' = lines
    /\ write_failed' = FALSE
    /\ UNCHANGED <<disk, ghosts, faults>>

\* open refuses an empty or unterminated file and one that fails its checks.
Open ==
    /\ ~up /\ exists /\ lines > 0 /\ ~torn /\ valid
    /\ up' = TRUE
    /\ state' = replayed
    /\ sequence' = lines
    /\ write_failed' = FALSE
    /\ UNCHANGED <<disk, ghosts, faults>>

Init ==
    /\ exists = FALSE /\ lines = 0 /\ torn = FALSE /\ valid = TRUE
    /\ replayed = InitialState
    /\ up = FALSE /\ state = InitialState /\ sequence = 0 /\ write_failed = FALSE
    /\ started = <<>> /\ verdict = None /\ faults = 0

Next ==
    \/ Create \/ Open \/ Stop \/ Block
    \/ \E turn \in Turns : StartAttempt(turn)
    \/ \E artifacts \in Snapshots, unknown \in BOOLEAN : Verify(artifacts, unknown)

Spec == Init /\ [][Next]_vars

-----------------------------------------------------------------------------
(* Properties.                                                             *)

(***************************************************************************)
(* Work is generated for a turn at most once, and never more often than    *)
(* the budget allows: an attempt found running after a restart is not      *)
(* started again, under its own or another turn, until the host has        *)
(* verified it.                                                            *)
(***************************************************************************)
BudgetKept ==
    /\ Len(started) <= MaxAttempts
    /\ \A i, j \in DOMAIN started : started[i] = started[j] => i = j
    /\ up => Len(started) <= Len(state.evidence) + (IF state.active = None THEN 0 ELSE 1)

\* The reference for the gate: the snapshots name each artifact of a criterion
\* once, with the content that the criterion asks for.
Accepted(artifacts) ==
    \A c \in Criteria : \E i \in DOMAIN artifacts :
        /\ artifacts[i] = [id |-> Artifact[c], content |-> Expected[c]]
        /\ \A j \in DOMAIN artifacts : artifacts[j].id = Artifact[c] => j = i

(***************************************************************************)
(* A task counts as succeeded exactly if the snapshots of its last attempt *)
(* meet every criterion and none of its attempts left an unknown outcome,  *)
(* for a live journal as for a reopened one.                               *)
(***************************************************************************)
SuccessIsEarned ==
    \A s \in {state, replayed} :
        s.status = "Succeeded" <=>
            /\ s.evidence # <<>>
            /\ Accepted(s.evidence[Len(s.evidence)].artifacts)
            /\ \A i \in DOMAIN s.evidence : ~s.evidence[i].unknown

(***************************************************************************)
(* A final status that a caller saw is final, in this process and in what  *)
(* any later one reads.                                                    *)
(***************************************************************************)
VerdictFinal ==
    verdict # None => replayed.status = verdict /\ (up => state.status = verdict)

(***************************************************************************)
(* Whatever fails, the whole lines of the file pass the checks of open: a  *)
(* failed write costs at most an unterminated tail.                        *)
(***************************************************************************)
LinesStayValid == valid
=============================================================================
