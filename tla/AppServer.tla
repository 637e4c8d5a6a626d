----------------------------- MODULE AppServer -----------------------------
(***************************************************************************)
(* The JSON-RPC control plane (crates/app-server) over the runtime.        *)
(*                                                                         *)
(* turn/start answers at once; a background thread runs the turn and then   *)
(* publishes its result in the table that turn/status and turn/cancel read. *)
(* The table and the log are written at different times by different        *)
(* threads: the token may be cancelled before the turn begins, another turn *)
(* may hold the thread by then, and a turn that has returned is still       *)
(* Running until its result is published.                                  *)
(***************************************************************************)
EXTENDS AgentRuntime

VARIABLES
    status,     \* turn -> TurnControl::state, or "none"
    background  \* turn -> its background thread: where it is, and on which thread id

serverVars == <<status, background>>
allVars == <<vars, serverVars>>

Results == {"completed", "cancelled", "failed"}
NoBackground == [at |-> "none", thread |-> None]

ServerInit ==
    /\ Init
    /\ status = [t \in Turns |-> "none"]
    /\ background = [t \in Turns |-> NoBackground]

-----------------------------------------------------------------------------
(* The requests.  server/health, thread/events and turn/status only read.  *)

\* turn/start: the thread must exist; the turn id and the token are new.
TurnStart(t, th) ==
    /\ background[t].at = "none"
    /\ ThreadExists(th)
    /\ status' = [status EXCEPT ![t] = "running"]
    /\ background' = [background EXCEPT ![t] = [at |-> "spawned", thread |-> th]]
    /\ cancelled' = cancelled \ {t}
    /\ UNCHANGED <<storeVars, run, transcript, active, crossed, answers, faults>>

\* turn/cancel: refused unless the table says Running, under its lock.
TurnCancel(t) ==
    /\ status[t] = "running" /\ t \notin cancelled
    /\ cancelled' = cancelled \cup {t}
    /\ UNCHANGED <<storeVars, run, transcript, active, crossed, answers, faults, serverVars>>

-----------------------------------------------------------------------------
(* The background thread of a turn.                                        *)

\* Mutated form: the error of a busy thread is dropped with the background thread.
BackgroundBeginQuietly(t) ==
    /\ background[t].at = "spawned"
    /\ LET th == background[t].thread IN
       \/ /\ Acquire(t, th)
          /\ background' = [background EXCEPT ![t].at = "running"]
          /\ UNCHANGED <<cancelled, status>>
       \/ /\ ~Free(th)
          /\ background' = [background EXCEPT ![t].at = "done"]
          /\ UNCHANGED <<vars, status>>

\* run_turn begins, or finds the thread held by another run (ConcurrentTurn).
BackgroundBegin(t) ==
    /\ background[t].at = "spawned"
    /\ LET th == background[t].thread IN
       \/ /\ Acquire(t, th)
          /\ background' = [background EXCEPT ![t].at = "running"]
          /\ UNCHANGED <<cancelled, status>>
       \/ /\ ~Free(th)
          /\ background' = [background EXCEPT ![t].at = "failed"]
          /\ UNCHANGED <<vars, status>>

\* Mutated form: the failure of the last append is not an error of the turn.
ResultUnchecked(t) ==
    IF run[t].todo # <<>> /\ Head(run[t].todo).type = "turn_completed" THEN "completed"
    ELSE IF run[t].todo # <<>> /\ Head(run[t].todo).type = "turn_cancelled" THEN "cancelled"
    ELSE "failed"

\* What run_turn returned, by the event it appended last: an append that failed is
\* an error whatever it was to say.
Result(t) ==
    IF broken' \/ run[t].pc # "append" THEN "failed"
    ELSE CASE Head(run[t].todo).type = "turn_completed" -> "completed"
           [] Head(run[t].todo).type = "turn_cancelled" -> "cancelled"
           [] OTHER -> "failed"

\* A run that becomes idle has returned to its background thread.
Returns ==
    /\ background' = [t \in Turns |->
          IF run[t].pc # "idle" /\ run'[t].pc = "idle"
          THEN [background[t] EXCEPT !.at = Result(t)] ELSE background[t]]
    /\ UNCHANGED status

\* The result is published under the lock of the table.
Publish(t) ==
    /\ background[t].at \in Results
    /\ status' = [status EXCEPT ![t] = background[t].at]
    /\ background' = [background EXCEPT ![t].at = "done"]
    /\ UNCHANGED vars

\* Host code that panics at an await unwinds the background thread: the guard of
\* the thread is dropped, and nothing is published.
Panic(t) ==
    /\ Drop(t)
    /\ background' = [background EXCEPT ![t].at = "dead"]
    /\ UNCHANGED status

-----------------------------------------------------------------------------

\* The table is not kept: a restarted server knows none of the turns.
ServerRestart ==
    /\ Restart
    /\ status' = [t \in Turns |-> "none"]
    /\ background' = [t \in Turns |->
          IF background[t].at = "none" THEN NoBackground ELSE [NoBackground EXCEPT !.at = "lost"]]

Requests ==
    \/ \E th \in Threads :
          \/ StartThread(th) /\ UNCHANGED serverVars
          \/ \E t \in Turns : TurnStart(t, th)
          \/ \E r \in Recoveries : BeginRecover(r, th) /\ UNCHANGED serverVars
    \/ \E t \in Turns : TurnCancel(t)

RuntimeStep(r) == RunStep(r) /\ Returns
RuntimeTurnStep(t) == TurnStep(t) /\ Returns

ServerNext ==
    \/ Requests
    \/ \E r \in Runs : RuntimeStep(r) \/ (AppendFail(r) /\ Returns)
    \/ \E t \in Turns :
          \/ BackgroundBegin(t) \/ Publish(t) \/ Panic(t)
          \/ RuntimeTurnStep(t)
          \/ \E decision \in Decisions : Approval(t, decision) /\ Returns
    \/ ServerRestart

\* The background threads are scheduled, and poll their runtime whenever it can make
\* progress; the provider's timeouts and the executor's deadlines make those two
\* answer in the end.
ServerSpec ==
    /\ ServerInit /\ [][ServerNext]_allVars
    /\ \A r \in Runs : WF_allVars(RuntimeStep(r))
    /\ \A t \in Turns :
          WF_allVars(RuntimeTurnStep(t)) /\ WF_allVars(BackgroundBegin(t) \/ Publish(t))

-----------------------------------------------------------------------------
(* Properties.                                                             *)

\* Type correctness.
ServerTypeOK ==
    /\ TypeOK
    /\ status \in [Turns -> Results \cup {"none", "running"}]
    /\ background \in [Turns -> [at : Results \cup {"none", "spawned", "running", "done", "dead", "lost"},
                                 thread : Threads \cup {None}]]

(***************************************************************************)
(* What turn/status says is what the log says, in the part that no crash   *)
(* takes away: a turn reported as completed or as cancelled has that       *)
(* terminal event, however its last appends went.                          *)
(***************************************************************************)
StatusTruthful ==
    \A t \in Turns : status[t] \in {"completed", "cancelled"} =>
        \E i \in 1..synced :
            /\ log[i].turn = t
            /\ log[i].type = IF status[t] = "completed" THEN "turn_completed" ELSE "turn_cancelled"

(***************************************************************************)
(* A turn that was accepted by turn/start stops being reported as Running, *)
(* also when another turn holds its thread, unless it waits for an         *)
(* approval or its background thread died in host code.                    *)
(***************************************************************************)
StatusSettles ==
    \A t \in Turns : status[t] = "running" ~>
        \/ status[t] # "running"
        \/ run[t].pc = "approval"
        \/ background[t].at = "dead"

(***************************************************************************)
(* A cancellation that turn/cancel accepts before the turn has begun, while *)
(* it prepares its request or while the model is working never becomes a    *)
(* completed turn, whatever the model answers and whatever happens to the   *)
(* process afterwards.                                                     *)
(***************************************************************************)
CancelHonoured ==
    \A t \in Turns :
        [](t \in cancelled /\ (background[t].at = "spawned"
                               \/ run[t].pc \in {"recover", "load", "loop", "model"}) =>
              [](\A i \in DOMAIN log : ~(log[i].turn = t /\ log[i].type = "turn_completed")))
=============================================================================
