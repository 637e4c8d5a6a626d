---------------------------- MODULE AgentRuntime ----------------------------
(***************************************************************************)
(* The turn loop of crates/harness-core/src/runtime.rs, with its recovery, *)
(* over an event store that keeps the promise of module DurableLog.        *)
(*                                                                         *)
(* Several runs share one runtime: calls of run_turn, one per turn id, and *)
(* calls of recover.  A run is a sequential program whose only durable     *)
(* steps are appends, so its state is where it is (pc), the events it is   *)
(* about to append one by one (todo) and where it goes then (then).  The   *)
(* control plane cancels turns and drops their futures; the process may    *)
(* stop at any point and be restarted over the same log.                   *)
(*                                                                         *)
(* What the model, the tools, the approval provider and the hooks answer   *)
(* is chosen freely.                                                       *)
(***************************************************************************)
EXTENDS Policy, Recovery, DurableLog

CONSTANTS
    Threads,        \* thread ids
    Recoveries,     \* possible calls of AgentRuntime::recover
    Args,           \* normalised arguments
    Registered,     \* tool names in the ToolRegistry
    PolicyConfig,   \* the runtime's CapabilityPolicy
    ParentConfig,   \* <<>> or <<the parent's projection>>
    Rejecting,      \* hook points at which some hook may reject
    MaxIterations,  \* RuntimeConfig::max_model_iterations
    MaxCalls,       \* bound: tool calls in one response
    MaxFaults       \* bound: failing appends and crashes

ASSUME BoundsAssumption ==
    MaxIterations \in Nat /\ MaxCalls \in Nat /\ MaxFaults \in Nat
ASSUME RunsAssumption == Turns \cap Recoveries = {}
ASSUME RegistryAssumption == Registered \subseteq Tools
ASSUME NoneAssumption == None \notin Turns \cup Calls \cup Threads

VARIABLES
    run,        \* run -> its local state
    transcript, \* turn -> the transcript run_turn keeps while it runs
    active,     \* active_threads, the per-thread guard
    cancelled,  \* the turns whose CancellationToken is cancelled
    crossed,    \* ghost: the calls ever handed to the executor
    answers,    \* ghost: the calls it ever answered, with their outcome
    faults      \* failing appends and crashes so far

vars == <<log, synced, pending, broken, run, transcript, active, cancelled, crossed, answers, faults>>

Runs == Turns \cup Recoveries
CanonicalAction == [tool : Tools, arg : Args]
ToolCall == [id : Calls, name : Tools]
StopReasons == {"end_turn", "tool_use", "max_tokens", "other"}

\* Where run_turn is suspended at an await.
Awaiting == {"model", "approval", "running"}

\* AgentRuntime::capabilities: computed once per turn from fixed inputs.
Capabilities == ProjectCapabilities(Registered, PolicyConfig, ParentConfig)

-----------------------------------------------------------------------------
(* Local state of a run.                                                   *)

\* HookSet: the first hook that rejects decides, at each of the three points.
HookRejects(point) == point \in Rejecting

\* What an approval provider may answer: the action it approves, or None for a
\* denial or an error.
Decisions == CanonicalAction \cup {None}

\* What an executor may answer: an output, an OutcomeUnknown or another error.
ExecutorAnswers == {"succeeded", "failed", "unknown"}

Idle == [pc |-> "idle", thread |-> None, then |-> None, todo |-> <<>>,
         receipts |-> {}, failures |-> {}, iteration |-> 0, seen |-> {},
         calls |-> <<>>, stop |-> None, index |-> 1, action |-> None]

\* The call a run is handling, and events about it or about its turn.
Current(r) == run[r].calls[run[r].index]
CallEvent(type, t, data) == Event(type, run[t].thread, t, Current(t).id, data)
CallReceipt(t, status, action) ==
    Receipt(run[t].thread, t, Current(t).id, status, action)
TurnOf(type, t) == TurnEvent(type, run[t].thread, t)

\* Go on to append the events, then continue at the label then.
Emit(state, events, then) ==
    [state EXCEPT !.pc = "append", !.todo = events, !.then = then]

\* The run goes on in the given local state.
Step(r, state) ==
    /\ run' = [run EXCEPT ![r] = state]
    /\ UNCHANGED <<storeVars, transcript, active, cancelled, crossed, answers, faults>>

\* The same, and a message is pushed on the transcript.
StepPush(r, state, message) ==
    /\ run' = [run EXCEPT ![r] = state]
    /\ transcript' = [transcript EXCEPT ![r] = Append(@, message)]
    /\ UNCHANGED <<storeVars, active, cancelled, crossed, answers, faults>>

\* Mutated form: a receipt that did not come from the executor is recorded only.
CloseCallQuietly(t, events) ==
    Step(t, [Emit(run[t], events, "call") EXCEPT !.action = None, !.index = @ + 1])

\* handle_tool_call returns after appending the events, the last of which is
\* the receipt; the loop goes on with the next call.
CloseCall(t, events) ==
    StepPush(t, [Emit(run[t], events, "call") EXCEPT !.action = None, !.index = @ + 1],
             events[Len(events)])

\* The run appends its last events and returns.
EndTurn(r, events) == Step(r, Emit(run[r], events, "return"))

\* The run returns: its ActiveThread guard is dropped with it.
Leave(r) ==
    /\ run' = [run EXCEPT ![r] = Idle]
    /\ transcript' = [transcript EXCEPT ![r] = <<>>]
    /\ active' = active \ {run[r].thread}

-----------------------------------------------------------------------------
(* Entry points.                                                           *)

\* start_thread.  Thread ids are fresh; the id is lost if the append fails.
StartThread(th) ==
    /\ \A i \in DOMAIN log : log[i].thread # th
    /\ \/ StoreAppend(Event("thread_started", th, None, None, None)) /\ UNCHANGED faults
       \/ /\ faults < MaxFaults
          /\ StoreFail(Event("thread_started", th, None, None, None))
          /\ faults' = faults + 1
    /\ UNCHANGED <<run, transcript, active, cancelled, crossed, answers>>

ThreadExists(th) ==
    \E i \in DOMAIN log : log[i].thread = th /\ log[i].type = "thread_started"

Free(th) == th \notin active

\* acquire_thread, then the scan of recover_thread, which is a snapshot.
Acquire(r, th) ==
    /\ Free(th)
    /\ active' = active \cup {th}
    /\ run' = [run EXCEPT ![r] = [Idle EXCEPT
                  !.pc = "recover", !.thread = th,
                  !.receipts = MissingReceipts(log, th),
                  !.failures = RecoveryFailures(log, th)]]
    /\ UNCHANGED <<storeVars, transcript, crossed, answers, faults>>

\* run_turn_with_id_and_cancellation up to its first append, with a new token.
BeginTurn(t, th) ==
    /\ run[t].pc = "idle"
    /\ ThreadExists(th)
    /\ \A i \in DOMAIN log : ~(log[i].thread = th /\ log[i].turn = t)
    /\ Acquire(t, th)
    /\ cancelled' = cancelled \ {t}

\* recover.
BeginRecover(r, th) ==
    /\ run[r].pc = "idle"
    /\ ThreadExists(th)
    /\ Acquire(r, th)
    /\ UNCHANGED cancelled

\* recover_thread appends the missing receipts, then the failed turns; the order
\* within each, the order of the ids, is arbitrary.
RecoverAppend(r) ==
    /\ run[r].pc = "recover"
    /\ \/ \E e \in run[r].receipts :
             Step(r, Emit([run[r] EXCEPT !.receipts = @ \ {e}], <<e>>, "recover"))
       \/ /\ run[r].receipts = {}
          /\ \E e \in run[r].failures :
                Step(r, Emit([run[r] EXCEPT !.failures = @ \ {e}], <<e>>, "recover"))

Recovered(r) ==
    /\ run[r].pc = "recover"
    /\ run[r].receipts = {}
    /\ run[r].failures = {}
    /\ IF r \in Turns
       THEN Step(r, Emit(run[r], <<TurnOf("turn_started", r), TurnOf("user", r)>>, "load"))
       ELSE Leave(r) /\ UNCHANGED <<storeVars, cancelled, crossed, answers, faults>>

-----------------------------------------------------------------------------
(* The model loop.                                                         *)

Load(t) ==
    /\ run[t].pc = "load"
    /\ run' = [run EXCEPT ![t].pc = "loop"]
    /\ transcript' = [transcript EXCEPT ![t] = TranscriptFromEvents(log, run[t].thread)]
    /\ UNCHANGED <<storeVars, active, cancelled, crossed, answers, faults>>

\* The head of the for loop, up to the model request.  Compilation may fail and
\* a before_model hook may reject.
Loop(t) ==
    /\ run[t].pc = "loop"
    /\ IF run[t].iteration = MaxIterations
       THEN EndTurn(t, <<TurnOf("turn_failed", t)>>)
       ELSE IF t \in cancelled
       THEN EndTurn(t, <<TurnOf("turn_cancelled", t)>>)
       ELSE \/ EndTurn(t, <<TurnOf("turn_failed", t)>>)
            \/ /\ HookRejects("before_model")
               /\ EndTurn(t, <<TurnOf("hook_failed", t), TurnOf("turn_failed", t)>>)
            \/ Step(t, Emit(run[t],
                            <<TurnOf("context", t), TurnOf("request", t)>>, "model"))

\* complete_controlled returned an error.
ModelError(t) ==
    /\ run[t].pc = "model"
    /\ EndTurn(t, <<TurnOf(IF t \in cancelled THEN "turn_cancelled" ELSE "turn_failed", t)>>)

\* Mutated form: a repeated id in a later response is let through.
ValidCallsPerResponse(calls, seen) ==
    \A i, j \in DOMAIN calls : i # j => calls[i].id # calls[j].id

\* validate_tool_calls: no id is seen twice in a turn.
ValidCalls(calls, seen) ==
    /\ \A i \in DOMAIN calls : calls[i].id \notin seen
    /\ \A i, j \in DOMAIN calls : i # j => calls[i].id # calls[j].id

Responses == UNION {[1..n -> ToolCall] : n \in 0..MaxCalls}

\* complete_controlled returned a response.
ModelResponse(t, calls, stop) ==
    /\ run[t].pc = "model"
    /\ IF ~ValidCalls(calls, run[t].seen)
       THEN EndTurn(t, <<TurnOf("turn_failed", t)>>)
       ELSE LET message == AssistantMessage(run[t].thread, t, calls)
            IN  StepPush(t, [Emit(run[t], <<message>>, "decide") EXCEPT
                               !.calls = calls, !.stop = stop,
                               !.seen = @ \cup {calls[i].id : i \in DOMAIN calls}],
                         message)

StopError(calls, stop) ==
    \/ stop \in {"max_tokens", "other"}
    \/ stop = "tool_use" /\ calls = <<>>
    \/ stop = "end_turn" /\ calls # <<>>

\* Mutated form: the token is not looked at again after the model's answer.
DecideUncancelled(t) ==
    /\ run[t].pc = "decide"
    /\ LET s == run[t]
           denied == Denied(s.thread, t, s.calls)
       IN  IF StopError(s.calls, s.stop)
           THEN EndTurn(t, Append(denied, TurnOf("turn_failed", t)))
           ELSE IF s.calls = <<>>
           THEN EndTurn(t, <<TurnOf("turn_completed", t)>>)
           ELSE Step(t, [s EXCEPT !.pc = "call", !.stop = None, !.index = 1])

\* What the accepted response leads to.
Decide(t) ==
    /\ run[t].pc = "decide"
    /\ LET s == run[t]
           denied == Denied(s.thread, t, s.calls)
       IN  IF StopError(s.calls, s.stop)
           THEN EndTurn(t, Append(denied, TurnOf("turn_failed", t)))
           ELSE IF t \in cancelled
           THEN EndTurn(t, Append(denied, TurnOf("turn_cancelled", t)))
           ELSE IF s.calls = <<>>
           THEN EndTurn(t, <<TurnOf("turn_completed", t)>>)
           ELSE Step(t, [s EXCEPT !.pc = "call", !.stop = None, !.index = 1])

-----------------------------------------------------------------------------
(* The loop over the tool calls and handle_tool_call.                      *)

\* The next call, or the next iteration.
NextCall(t) ==
    /\ run[t].pc = "call"
    /\ LET s == run[t]
       IN  IF s.index > Len(s.calls)
           THEN Step(t, [s EXCEPT !.pc = "loop", !.iteration = @ + 1,
                                  !.calls = <<>>, !.index = 1])
           ELSE IF t \in cancelled
           THEN EndTurn(t, Append(Denied(s.thread, t, SubSeq(s.calls, s.index, Len(s.calls))),
                                  TurnOf("turn_cancelled", t)))
           ELSE Step(t, [s EXCEPT !.pc = "handle"])

\* ToolRegistry::get: names are unique, register_arc refuses a second tool.
IsRegistered(name) == name \in Registered

MayPrepare(name) == IsRegistered(name) /\ AccessIn(Capabilities, name) # "deny"

\* handle_tool_call up to the tool_prepared event.  prepare may fail, or answer
\* with another call id or tool name.
Prepare(t) ==
    /\ run[t].pc = "handle"
    /\ IF ~MayPrepare(Current(t).name)
       THEN CloseCall(t, <<CallReceipt(t, "denied", None)>>)
       ELSE \/ CloseCall(t, <<CallReceipt(t, "failed", None)>>)
            \/ \E arg \in Args :
                  LET action == [tool |-> Current(t).name, arg |-> arg]
                  IN  Step(t, [Emit(run[t], <<CallEvent("prepared", t, action)>>, "gate")
                                 EXCEPT !.action = action])

\* The before_tool hooks, then the access the projection gives the tool.
Gate(t) ==
    /\ run[t].pc = "gate"
    /\ LET action == run[t].action
       IN  \/ /\ HookRejects("before_tool")
              /\ CloseCall(t, <<TurnOf("hook_failed", t),
                               CallReceipt(t, "denied", action)>>)
           \/ /\ AccessIn(Capabilities, Current(t).name) = "ask"
              /\ Step(t, Emit(run[t], <<CallEvent("approval_requested", t, action)>>,
                              "approval"))
           \/ /\ AccessIn(Capabilities, Current(t).name) = "allow"
              /\ Step(t, Emit(run[t], <<CallEvent("started", t, action)>>, "execute"))

\* Mutated form: any approval of the call is taken, whatever its action.
ApprovesSome(decision, action) == decision # None

\* An approval counts for exactly the canonical action that was prepared.
ApprovesExactly(decision, action) == decision = action

\* The approval provider answers: the action it approves, or None for a denial
\* or an error.
Approval(t, decision) ==
    /\ run[t].pc = "approval"
    /\ LET action == run[t].action
           resolved == CallEvent("approval_resolved", t, decision)
       IN  IF ApprovesExactly(decision, action)
           THEN Step(t, Emit(run[t], <<resolved, CallEvent("started", t, action)>>, "execute"))
           ELSE CloseCall(t, <<resolved, CallReceipt(t, "denied", action)>>)

\* The call crosses the executor boundary.
Execute(t) ==
    /\ run[t].pc = "execute"
    /\ run' = [run EXCEPT ![t].pc = "running"]
    /\ crossed' = crossed \cup {[thread |-> run[t].thread, turn |-> t,
                                 call |-> Current(t).id, action |-> run[t].action]}
    /\ UNCHANGED <<storeVars, transcript, active, cancelled, answers, faults>>

\* The executor returns: success, OutcomeUnknown or any other error.
Executed(t, status) ==
    /\ run[t].pc = "running"
    /\ LET receipt == CallReceipt(t, status, run[t].action)
       IN  /\ run' = [run EXCEPT ![t] = Emit(@, <<receipt>>, "after")]
           /\ transcript' = [transcript EXCEPT ![t] = Append(@, receipt)]
    /\ answers' = answers \cup {[thread |-> run[t].thread, turn |-> t,
                                 call |-> Current(t).id, status |-> status]}
    /\ UNCHANGED <<storeVars, active, cancelled, crossed, faults>>

\* The after_tool hooks see the receipt; a rejection ends the turn.
AfterTool(t) ==
    /\ run[t].pc = "after"
    /\ \/ /\ HookRejects("after_tool")
          /\ EndTurn(t, <<TurnOf("hook_failed", t), TurnOf("turn_failed", t)>>)
       \/ Step(t, [run[t] EXCEPT !.pc = "call", !.action = None, !.index = @ + 1])

-----------------------------------------------------------------------------
(* Appends, and what can happen at any time.                               *)

\* append succeeded.
AppendOk(r) ==
    /\ run[r].pc = "append"
    /\ StoreAppend(Head(run[r].todo))
    /\ LET rest == Tail(run[r].todo)
       IN  IF rest # <<>>
           THEN run' = [run EXCEPT ![r].todo = rest] /\ UNCHANGED <<transcript, active>>
           ELSE IF run[r].then = "return"
           THEN Leave(r)
           ELSE /\ run' = [run EXCEPT ![r].pc = run[r].then,
                                      ![r].then = None, ![r].todo = <<>>]
                /\ UNCHANGED <<transcript, active>>
    /\ UNCHANGED <<cancelled, crossed, answers, faults>>

\* append failed: its error leaves the run at once, whatever is still to do.
AppendFail(r) ==
    /\ run[r].pc = "append"
    /\ faults < MaxFaults
    /\ StoreFail(Head(run[r].todo))
    /\ Leave(r)
    /\ faults' = faults + 1
    /\ UNCHANGED <<cancelled, crossed, answers>>

\* append is refused after a failed one.
AppendRefused(r) ==
    /\ run[r].pc = "append"
    /\ broken
    /\ Leave(r)
    /\ UNCHANGED <<storeVars, cancelled, crossed, answers, faults>>

\* CancellationToken::cancel.
Cancel(t) ==
    /\ run[t].pc # "idle"
    /\ t \notin cancelled
    /\ cancelled' = cancelled \cup {t}
    /\ UNCHANGED <<storeVars, run, transcript, active, crossed, answers, faults>>

\* Mutated form: a dropped future keeps its thread locked.
DropLeaky(t) ==
    /\ run[t].pc \in Awaiting
    /\ run' = [run EXCEPT ![t] = Idle]
    /\ transcript' = [transcript EXCEPT ![t] = <<>>]
    /\ UNCHANGED <<storeVars, active, cancelled, crossed, answers, faults>>

\* The future of run_turn is dropped where it is suspended.
Drop(t) ==
    /\ run[t].pc \in Awaiting
    /\ Leave(t)
    /\ UNCHANGED <<storeVars, cancelled, crossed, answers, faults>>

\* The process ends, for whatever reason, and is started again over the same
\* file.  Ending it after a failed append is not a further fault.
Restart ==
    /\ broken \/ faults < MaxFaults
    /\ StoreReopen
    /\ run' = [r \in Runs |-> Idle]
    /\ transcript' = [r \in Runs |-> <<>>]
    /\ active' = {}
    /\ cancelled' = {}
    /\ faults' = IF broken THEN faults ELSE faults + 1
    /\ UNCHANGED <<crossed, answers>>

-----------------------------------------------------------------------------
Init ==
    /\ StoreInit
    /\ run = [r \in Runs |-> Idle]
    /\ transcript = [r \in Runs |-> <<>>]
    /\ active = {}
    /\ cancelled = {}
    /\ crossed = {}
    /\ answers = {}
    /\ faults = 0

\* What a turn does by itself once whatever it waits for has answered, human
\* approval excepted.
TurnStep(t) ==
    \/ Load(t) \/ Loop(t) \/ ModelError(t)
    \/ \E calls \in Responses, stop \in StopReasons : ModelResponse(t, calls, stop)
    \/ Decide(t) \/ NextCall(t) \/ Prepare(t) \/ Gate(t) \/ Execute(t)
    \/ \E status \in ExecutorAnswers : Executed(t, status)
    \/ AfterTool(t)

RunStep(r) ==
    \/ RecoverAppend(r) \/ Recovered(r)
    \/ AppendOk(r) \/ AppendRefused(r)

Next ==
    \/ \E th \in Threads :
          \/ StartThread(th)
          \/ \E t \in Turns : BeginTurn(t, th)
          \/ \E r \in Recoveries : BeginRecover(r, th)
    \/ \E r \in Runs : RunStep(r) \/ AppendFail(r)
    \/ \E t \in Turns :
          \/ TurnStep(t)
          \/ \E decision \in Decisions : Approval(t, decision)
          \/ Cancel(t) \/ Drop(t)
    \/ Restart

Spec == Init /\ [][Next]_vars

-----------------------------------------------------------------------------
(* Properties.                                                             *)

\* Event i is of the given type and about the given call.
IsAbout(i, type, c) ==
    /\ log[i].type = type
    /\ log[i].thread = c.thread /\ log[i].turn = c.turn /\ log[i].call = c.call

\* Two events about the same call of the same turn.
SameCall(i, j) ==
    /\ log[i].thread = log[j].thread
    /\ log[i].turn = log[j].turn
    /\ log[i].call = log[j].call

PlainEvents ==
    [type : {"thread_started", "turn_started", "user", "context", "request",
             "hook_failed"} \cup Terminal,
     thread : Threads, turn : Turns \cup {None}, call : {None}, data : {None}]
AssistantEvents ==
    [type : {"assistant"}, thread : Threads, turn : Turns, call : {None},
     data : Seq(ToolCall)]
ActionEvents ==
    [type : {"prepared", "approval_requested", "started"}, thread : Threads,
     turn : Turns, call : Calls, data : CanonicalAction]
ResolvedEvents ==
    [type : {"approval_resolved"}, thread : Threads, turn : Turns, call : Calls,
     data : CanonicalAction \cup {None}]
ReceiptEvents ==
    [type : {"receipt"}, thread : Threads, turn : Turns, call : Calls,
     data : [status : {"succeeded", "failed", "denied", "unknown"},
             action : CanonicalAction \cup {None}]]
Events == PlainEvents \cup AssistantEvents \cup ActionEvents
                      \cup ResolvedEvents \cup ReceiptEvents

Labels == {"recover", "load", "loop", "model", "decide", "call", "handle", "gate",
           "approval", "execute", "running", "after"}

RunStates ==
    [pc : Labels \cup {"idle", "append"}, thread : Threads \cup {None},
     then : Labels \cup {"return", None}, todo : Seq(Events),
     receipts : SUBSET ReceiptEvents, failures : SUBSET PlainEvents,
     iteration : Nat, seen : SUBSET Calls, calls : Seq(ToolCall),
     stop : StopReasons \cup {None}, index : Nat \ {0},
     action : CanonicalAction \cup {None}]

\* Type correctness; a handled call keeps the shape its events need.
TypeOK ==
    /\ log \in Seq(Events)
    /\ synced \in 0..Len(log)
    /\ pending \in Seq(Events)
    /\ broken \in BOOLEAN
    /\ run \in [Runs -> RunStates]
    /\ active \subseteq Threads
    /\ cancelled \subseteq Turns
    /\ crossed \subseteq [thread : Threads, turn : Turns, call : Calls,
                          action : CanonicalAction]
    /\ answers \subseteq [thread : Threads, turn : Turns, call : Calls,
                          status : {"succeeded", "failed", "unknown"}]
    /\ faults \in 0..MaxFaults

(***************************************************************************)
(* Write-ahead: whatever was handed to the executor has its                *)
(* ToolExecutionStarted event, with the same canonical action, in the part *)
(* of the log that no crash or power failure can take away.                *)
(***************************************************************************)
WriteAhead ==
    \A c \in crossed : \E i \in 1..synced :
        IsAbout(i, "started", c) /\ log[i].data = c.action

(***************************************************************************)
(* Authorised: a call is executed only if its tool is registered and not   *)
(* denied by the projection and, where the projection says ask, after an   *)
(* ApprovalResolved event approving exactly the action that was executed.  *)
(***************************************************************************)
Authorised ==
    \A c \in crossed :
        /\ c.action.tool \in VisibleNames(Capabilities)
        /\ AccessIn(Capabilities, c.action.tool) = "ask" =>
              \E i \in 1..synced :
                  IsAbout(i, "approval_resolved", c) /\ log[i].data = c.action

(***************************************************************************)
(* Receipts tell the truth about the executor boundary, whoever wrote them *)
(* (the turn, or recovery after a crash): the receipt of a call that was   *)
(* executed is what the executor answered, or unknown; in particular a     *)
(* denied call was not executed.  A succeeded call was.                    *)
(***************************************************************************)
ReceiptsTruthful ==
    \A i \in DOMAIN log : log[i].type = "receipt" =>
        LET executed == \E c \in crossed : IsAbout(i, "receipt", c)
            status == log[i].data.status
        IN  /\ executed => \/ status = "unknown"
                           \/ \E a \in answers :
                                 IsAbout(i, "receipt", a) /\ a.status = status
            /\ status = "succeeded" => executed

(***************************************************************************)
(* A call is started at most once and closed at most once, across cancels, *)
(* dropped futures, failed appends, crashes and recoveries: no external    *)
(* action is replayed and no outcome is recorded twice.                    *)
(***************************************************************************)
NoReplay ==
    \A i, j \in DOMAIN log :
        /\ i # j
        /\ log[i].type = log[j].type
        /\ log[i].type \in {"started", "receipt"}
        => ~SameCall(i, j)

(***************************************************************************)
(* A turn that has ended has closed every call it accepted: each call of   *)
(* each of its assistant messages has its receipt.                         *)
(***************************************************************************)
TurnsEndClosed ==
    \A i, j \in DOMAIN log :
        /\ log[i].type = "assistant"
        /\ log[j].type \in Terminal
        /\ log[i].thread = log[j].thread
        /\ log[i].turn = log[j].turn
        => \A k \in DOMAIN log[i].data :
              \E m \in DOMAIN log :
                  IsAbout(m, "receipt", [thread |-> log[i].thread, turn |-> log[i].turn,
                                         call |-> log[i].data[k].id])

(***************************************************************************)
(* What the model is asked to continue is what the log says: the           *)
(* transcript that run_turn keeps up by hand is the one it would rebuild   *)
(* from the durable events.                                                *)
(***************************************************************************)
TranscriptIsReplay ==
    \A t \in Turns : run[t].pc = "model" =>
        transcript[t] = TranscriptFromEvents(log, run[t].thread)

(***************************************************************************)
(* Every transcript given to the model is well formed as a protocol: each  *)
(* call of each assistant message, of this turn or of an interrupted       *)
(* earlier one, is answered by a receipt of its own turn.                  *)
(***************************************************************************)
TranscriptClosed ==
    \A t \in Turns : run[t].pc = "model" =>
        LET script == transcript[t]
        IN  \A i \in DOMAIN script : script[i].type = "assistant" =>
              \A k \in DOMAIN script[i].data :
                 \E j \in DOMAIN script :
                    /\ j > i /\ script[j].type = "receipt"
                    /\ script[j].turn = script[i].turn
                    /\ script[j].call = script[i].data[k].id

(***************************************************************************)
(* The ActiveThread guard is held exactly while a run works on the thread, *)
(* and by one run: it is neither leaked by an error path, a dropped future *)
(* or a crash, nor shared.                                                 *)
(***************************************************************************)
GuardExact ==
    /\ active = {run[r].thread : r \in {q \in Runs : run[q].pc # "idle"}}
    /\ \A q, r \in Runs :
          q # r /\ run[q].pc # "idle" /\ run[r].pc # "idle" =>
              run[q].thread # run[r].thread
=============================================================================
