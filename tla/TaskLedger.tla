----------------------------- MODULE TaskLedger -----------------------------
(***************************************************************************)
(* JsonlTaskLedger of crates/task-ledger/src/lib.rs: a state machine per   *)
(* background task, rebuilt from an append-only file of events when the    *)
(* ledger is opened.                                                       *)
(*                                                                         *)
(* Every operation holds the ledger's mutex from its first read to its     *)
(* last write, so it is one action; recover_expired, which appends once    *)
(* per task and may fail between two of them, holds it through the steps   *)
(* of sweep.  Sequence numbers, update times, payloads, results and        *)
(* reasons are left out: no operation reads them.                          *)
(***************************************************************************)
EXTENDS Naturals, Sequences, FiniteSets

CONSTANTS
    TaskIds,        \* naturals, for the order of the BTreeMap; identifiers have a
                    \* fixed width, so one of them is the last
    Keys,           \* idempotency keys
    Workers,
    None,
    Leftovers,      \* what an append that fails may leave: "nothing", "line",
                    \* "record" (a line without its newline) or "part" of one
    MaxTime,        \* bound: the clock
    MaxFaults       \* bound: failed appends

ASSUME LedgerAssumption ==
    /\ TaskIds \subseteq Nat
    /\ None \notin Workers \cup Keys \cup TaskIds
    /\ MaxTime \in Nat /\ MaxFaults \in Nat
    /\ Leftovers \subseteq {"nothing", "line", "record", "part"}

ASSUME LastIdAssumption == \E last \in TaskIds : \A id \in TaskIds : id <= last

VARIABLES
    file,           \* the lines of the ledger's file
    tail,           \* <<>> or <<what follows the last newline>>
    replayed,       \* the tasks that replaying the lines gives
    up,             \* whether the ledger is open
    tasks,          \* LedgerState.tasks
    idempotency,    \* LedgerState.idempotency
    sweep,          \* the expired tasks recover_expired has yet to mark
    clock,          \* the host's clock
    told,           \* ghost: the events whose operation returned Ok, and when
    unacked,        \* ghost: the records that failed appends left
    unsure,         \* ghost: the lines of those of them left since the last open
    faults

memory == <<tasks, idempotency>>
disk == <<file, tail, replayed>>
left == <<unacked, unsure>>
vars == <<file, tail, replayed, up, tasks, idempotency, sweep, clock, told, unacked,
          unsure, faults>>

Outcomes == {"Succeeded", "Failed", "Cancelled", "Unknown"}
Times == 0..MaxTime
Absent == [key |-> None, status |-> "Absent", attempt |-> 0, worker |-> None,
           expires |-> 0, delivery |-> "NotReady", created |-> 0]

\* Who holds a lease until when, or has submitted under which key and when, is part
\* of an event.
Event(type, id, who, time) == [type |-> type, id |-> id, who |-> who, time |-> time]
Bad == Event("Bad", 0, None, 0)

-----------------------------------------------------------------------------
(* apply_event and the replay of open.                                     *)

Terminal(task, status) ==
    [task EXCEPT !.status = status, !.worker = None, !.expires = 0,
                 !.delivery = "Pending"]

After(task, e) ==
    CASE e.type = "Submitted" ->
           [Absent EXCEPT !.key = e.who, !.status = "Pending", !.created = e.time]
      [] e.type = "Claimed" ->
           [task EXCEPT !.status = "Running", !.attempt = @ + 1, !.worker = e.who,
                        !.expires = e.time]
      [] e.type = "Heartbeat" ->
           [task EXCEPT !.expires = IF task.worker = None THEN @ ELSE e.time]
      [] e.type = "DeliveryAcknowledged" -> [task EXCEPT !.delivery = "Acknowledged"]
      [] OTHER -> Terminal(task, e.type)

ApplyEvent(ts, e) == [ts EXCEPT ![e.id] = After(ts[e.id], e)]

Empty == [id \in TaskIds |-> Absent]

\* The index that open builds: of several tasks with one key, the last in the
\* order of the identifiers.
Index(ts) ==
    [k \in Keys |->
        LET ids == {id \in TaskIds : ts[id].key = k}
        IN  IF ids = {} THEN None ELSE CHOOSE id \in ids : \A j \in ids : j <= id]

-----------------------------------------------------------------------------
(* append_locked                                                           *)

\* Where the next line lands: behind an unterminated record it is no JSON.
Landed(e) == IF tail = <<>> THEN e ELSE Bad

\* The replay goes one event further, unless the file is corrupt from here on.
Replayed(e) == IF tail = <<>> THEN ApplyEvent(replayed, e) ELSE replayed

AppendOk(e) ==
    /\ file' = Append(file, Landed(e))
    /\ tail' = <<>>
    /\ replayed' = Replayed(e)
    /\ tasks' = ApplyEvent(tasks, e)
    /\ idempotency' = IF e.type = "Submitted"
                      THEN [idempotency EXCEPT ![e.who] = e.id] ELSE idempotency
    /\ told' = Append(told, [event |-> e, at |-> clock])
    /\ UNCHANGED <<left, faults>>

\* A write or the sync returned an error, or the process died in the middle:
\* memory is as it was, and the ledger, if it lives, accepts further appends.
AppendFail(e) ==
    /\ faults < MaxFaults
    /\ faults' = faults + 1
    /\ \E rest \in Leftovers :
          /\ file' = IF rest = "line" THEN Append(file, Landed(e)) ELSE file
          /\ tail' = CASE rest = "nothing" -> tail
                       [] rest = "line" -> <<>>
                       [] rest = "record" -> <<Landed(e)>>
                       [] rest = "part" -> <<Bad>>
          /\ IF rest \in {"line", "record"}
             THEN /\ replayed' = Replayed(e)
                  /\ unacked' = unacked \cup {Landed(e)}
                  /\ unsure' = unsure \cup {Len(file) + 1}
             ELSE UNCHANGED <<replayed, left>>
    /\ UNCHANGED <<memory, told>>

\* Mutated form: a failed append is applied to the tasks all the same.
LogEager(e) ==
    \/ AppendOk(e)
    \/ /\ faults < MaxFaults
       /\ faults' = faults + 1
       /\ tasks' = ApplyEvent(tasks, e)
       /\ UNCHANGED <<disk, idempotency, told, left>>

Log(e) == AppendOk(e) \/ AppendFail(e)

\* The mutex is free.
Ready == up /\ sweep = {}

Op(e) == Ready /\ Log(e) /\ UNCHANGED <<up, sweep, clock>>

-----------------------------------------------------------------------------
(* The operations.                                                         *)

\* submit of a key that has no task yet; of one that has, it changes nothing.
\* TaskId::new draws an identifier at random.
Submit(key, id) ==
    /\ idempotency[key] = None
    /\ tasks[id] = Absent /\ replayed[id] = Absent
    /\ Op(Event("Submitted", id, key, clock))

\* Mutated form: a task whose lease has run out may be claimed again.
ClaimableExpired(id) ==
    \/ tasks[id].status = "Pending"
    \/ tasks[id].status = "Running" /\ tasks[id].expires <= clock

Claimable(id) == tasks[id].status = "Pending"

\* claim_next: the oldest pending task, ties by identifier.
ClaimNext(worker, duration, id) ==
    /\ Claimable(id)
    /\ \A j \in TaskIds : Claimable(j) =>
          \/ tasks[id].created < tasks[j].created
          \/ tasks[id].created = tasks[j].created /\ id <= j
    /\ clock + duration <= MaxTime
    /\ Op(Event("Claimed", id, worker, clock + duration))

\* Mutated form: expiry is left to recover_expired.
HoldsLeaseExpired(id, worker, attempt) ==
    /\ tasks[id].status = "Running"
    /\ tasks[id].worker = worker /\ tasks[id].attempt = attempt

\* require_lease
HoldsLease(id, worker, attempt) ==
    /\ tasks[id].status = "Running"
    /\ tasks[id].worker = worker /\ tasks[id].attempt = attempt
    /\ clock < tasks[id].expires

Heartbeat(id, worker, attempt, expires) ==
    /\ HoldsLease(id, worker, attempt)
    /\ expires > tasks[id].expires
    /\ Op(Event("Heartbeat", id, worker, expires))

\* succeed and fail
Finish(id, worker, attempt, outcome) ==
    /\ outcome \in {"Succeeded", "Failed"}
    /\ HoldsLease(id, worker, attempt)
    /\ Op(Event(outcome, id, worker, 0))

\* Mutated form: a task can be cancelled whatever its status.
CancelAny(id) ==
    /\ tasks[id].status # "Absent"
    /\ Op(Event("Cancelled", id, None, 0))

Cancel(id) ==
    /\ tasks[id].status \in {"Pending", "Running"}
    /\ Op(Event("Cancelled", id, None, 0))

\* recover_expired collects the expired tasks...
RecoverExpired ==
    /\ Ready
    /\ sweep' = {id \in TaskIds : tasks[id].status = "Running" /\ tasks[id].expires <= clock}
    /\ sweep' # {}
    /\ UNCHANGED <<disk, up, memory, clock, told, left, faults>>

\* ... and marks them in the order of the identifiers, until one append fails.
MarkUnknown ==
    /\ up
    /\ \E id \in sweep :
          /\ \A j \in sweep : id <= j
          /\ \/ AppendOk(Event("Unknown", id, None, 0)) /\ sweep' = sweep \ {id}
             \/ AppendFail(Event("Unknown", id, None, 0)) /\ sweep' = {}
    /\ UNCHANGED <<up, clock>>

AcknowledgeDelivery(id) ==
    /\ tasks[id].delivery = "Pending"
    /\ Op(Event("DeliveryAcknowledged", id, None, 0))

-----------------------------------------------------------------------------
(* The process and its host.                                               *)

\* The process ends, between two appends.
Stop ==
    /\ up
    /\ up' = FALSE /\ sweep' = {}
    /\ tasks' = Empty /\ idempotency' = [k \in Keys |-> None]
    /\ UNCHANGED <<disk, clock, told, left, faults>>

\* Every line parses, the unterminated last one included, which BufRead::lines
\* yields too.
Readable ==
    /\ \A i \in DOMAIN file : file[i] # Bad
    /\ \A i \in DOMAIN tail : tail[i] # Bad

\* open applies line by line; a line that does not parse is LedgerError::Corrupt.
Open ==
    /\ ~up
    /\ Readable
    /\ up' = TRUE
    /\ tasks' = replayed
    /\ idempotency' = Index(replayed)
    /\ unsure' = {}
    /\ UNCHANGED <<disk, sweep, clock, told, unacked, faults>>

Tick ==
    /\ clock < MaxTime
    /\ clock' = clock + 1
    /\ UNCHANGED <<disk, up, memory, sweep, told, left, faults>>

Init ==
    /\ file = <<>> /\ tail = <<>> /\ replayed = Empty /\ up = TRUE
    /\ tasks = Empty /\ idempotency = [k \in Keys |-> None]
    /\ sweep = {} /\ clock = 0 /\ told = <<>> /\ faults = 0
    /\ unacked = {} /\ unsure = {}

Next ==
    \/ \E key \in Keys, id \in TaskIds : Submit(key, id)
    \/ \E id \in TaskIds, worker \in Workers, duration \in 1..MaxTime :
          ClaimNext(worker, duration, id)
    \/ \E id \in TaskIds, worker \in Workers, attempt \in 1..MaxFaults + 1 :
          \/ \E expires \in Times : Heartbeat(id, worker, attempt, expires)
          \/ \E outcome \in Outcomes : Finish(id, worker, attempt, outcome)
    \/ \E id \in TaskIds : Cancel(id) \/ AcknowledgeDelivery(id)
    \/ RecoverExpired \/ MarkUnknown
    \/ Stop \/ Open \/ Tick

Spec == Init /\ [][Next]_vars

-----------------------------------------------------------------------------
Records ==
    [key : Keys \cup {None}, status : Outcomes \cup {"Absent", "Pending", "Running"},
     attempt : Nat, worker : Workers \cup {None}, expires : Nat,
     delivery : {"NotReady", "Pending", "Acknowledged"}, created : Nat]

Types == Outcomes \cup
    {"Submitted", "Claimed", "Heartbeat", "DeliveryAcknowledged"}
Events == [type : Types, id : TaskIds, who : Keys \cup Workers \cup {None}, time : Nat]

TypeOK ==
    /\ file \in Seq(Events \cup {Bad}) /\ tail \in Seq(Events \cup {Bad})
    /\ replayed \in [TaskIds -> Records] /\ tasks \in [TaskIds -> Records]
    /\ DOMAIN idempotency = Keys
    /\ up \in BOOLEAN /\ sweep \subseteq TaskIds
    /\ clock \in Times /\ faults \in Nat
    /\ told \in Seq([event : Events, at : Times])
    /\ unacked \subseteq Events \cup {Bad} /\ unsure \subseteq Nat

-----------------------------------------------------------------------------
(* Properties.  In them "acknowledged" means that the operation returned Ok *)
(* to its caller, in whichever process.                                    *)

Told(i, types) == told[i].event.type \in types
SameTask(i, j) == told[i].event.id = told[j].event.id

\* The lease of event e covers what was acknowledged at i.
Grants(e, i) ==
    /\ e.type \in {"Claimed", "Heartbeat"} /\ e.id = told[i].event.id
    /\ e.who = told[i].event.who /\ told[i].at < e.time

(***************************************************************************)
(* Work is handed out once: after one worker's claim of a task has been    *)
(* acknowledged no other claim of it ever is, although the lease runs out, *)
(* the worker dies, appends fail and the ledger is reopened.  recover_expired *)
(* says why: the side effects may already have happened.                   *)
(***************************************************************************)
ClaimedOnce ==
    \A i, j \in DOMAIN told :
        Told(i, {"Claimed"}) /\ Told(j, {"Claimed"}) /\ SameTask(i, j) => i = j

(***************************************************************************)
(* A task has one outcome: once success, failure, cancellation or unknown  *)
(* has been acknowledged, the only thing acknowledged later about the task *)
(* is that its outcome was delivered, whatever failed appends left behind. *)
(***************************************************************************)
OutcomeOnce ==
    \A i, j \in DOMAIN told :
        i < j /\ SameTask(i, j) /\ Told(i, Outcomes) => Told(j, {"DeliveryAcknowledged"})

(***************************************************************************)
(* Leases fence, also across restarts: a result or a heartbeat is accepted  *)
(* only from the one worker whose claim was acknowledged, if any was, and   *)
(* before the time that the last acknowledged claim or heartbeat promised.  *)
(* Only the record of a claim or heartbeat whose append failed can extend   *)
(* that, to the time it names, or give a lease nobody was told of, to the   *)
(* worker it names.                                                         *)
(***************************************************************************)
LeaseFenced ==
    \A i \in DOMAIN told : Told(i, {"Succeeded", "Failed", "Heartbeat"}) =>
        /\ \A k \in 1..i - 1 : Told(k, {"Claimed"}) /\ SameTask(i, k) =>
              told[k].event.who = told[i].event.who
        /\ \/ \E j \in 1..i - 1 :
                 /\ Grants(told[j].event, i)
                 /\ \A k \in j + 1..i - 1 :
                       SameTask(i, k) => Told(k, {"DeliveryAcknowledged"})
           \/ \E e \in unacked : Grants(e, i)

(***************************************************************************)
(* Submission is idempotent for callers: of the tasks of one key no more    *)
(* than one was ever acknowledged, though appends fail, leave the task that *)
(* was asked for in the file, and the submission is tried again.            *)
(***************************************************************************)
SubmittedOnce ==
    \A i, j \in DOMAIN told :
        /\ Told(i, {"Submitted"}) /\ Told(j, {"Submitted"})
        /\ told[i].event.who = told[j].event.who
        => i = j

(***************************************************************************)
(* Submission is idempotent: the ledger never holds two tasks with one key, *)
(* in memory or in what the next open would rebuild.                       *)
(***************************************************************************)
OneTaskPerKey ==
    \A ts \in {tasks, replayed} : \A i, j \in TaskIds :
        ts[i].key = ts[j].key /\ ts[i].key # None => i = j

\* The fold of apply_event over the lines of a file, without those at skipped.
Replay(lines, skipped) ==
    LET after[n \in 0..Len(lines)] ==
            IF n = 0 THEN Empty
            ELSE IF n \in skipped THEN after[n - 1]
            ELSE ApplyEvent(after[n - 1], lines[n])
    IN  after[Len(lines)]

(***************************************************************************)
(* What the ledger serves is what the next open would rebuild from the     *)
(* lines of the file, but for those that appends which failed since the    *)
(* last open have left, as long as the file can be opened at all; and the  *)
(* index is always the one that open would build for these tasks.          *)
(***************************************************************************)
ReplayIsMemory ==
    up => /\ Readable => tasks = Replay(file \o tail, unsure)
          /\ idempotency = Index(tasks)
=============================================================================
