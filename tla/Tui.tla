-------------------------------- MODULE Tui --------------------------------
(***************************************************************************)
(* The terminal UI of crates/tui: one loop that drains an event channel, a *)
(* coalescing buffer of previews, an approval channel and a result channel *)
(* in turn and then handles a key, and the thread it spawns for each turn. *)
(*                                                                         *)
(* Left out are texts, wrapping, timers, and the events that only write a  *)
(* log line.  A text of the model is a sequence of bytes, each of them a    *)
(* tuple <<turn, iteration, place, starts>>: the place in the turn's output *)
(* and whether the byte starts a character.  The input line may hold        *)
(* anything when Enter is pressed.                                          *)
(* The thread of the UI is new, as the executable makes it, so that no turn *)
(* of an earlier process is recovered into its events.                     *)
(***************************************************************************)
EXTENDS Naturals, Sequences

CONSTANTS
    Others,         \* further holders of the approval provider, one request each
    None,
    DraftLimit,     \* the 64 KiB of append_bounded
    CharBytes,      \* the most bytes of a character, 4 in UTF-8
    MaxTurns,       \* bound: messages the user enters
    MaxIterations,  \* RuntimeConfig.max_model_iterations
    MaxBytes        \* bound: bytes the model streams, for each turn

ASSUME TuiAssumption ==
    /\ None \notin Others \cup {"worker"} /\ "worker" \notin Others
    /\ DraftLimit \in Nat /\ CharBytes \in 1..DraftLimit
    /\ MaxTurns \in Nat /\ MaxIterations \in Nat /\ MaxBytes \in [1..MaxTurns -> Nat]

VARIABLES
    ui,             \* where the loop is
    running, cancellation, current_turn, iteration, settled, terminal_reported,
    draft, current_approval, queued_approvals,      \* fields of UiState
    dirty,
    shown,          \* the approval on the screen
    events, approvals, results,     \* what the channels hold
    preview,        \* ModelProgressBuffer: the draft of Snapshot
    notices,        \* ModelProgressBuffer: completed or error is not empty
    cancelled,      \* the turns whose CancellationToken exists and is set
    turn,           \* the last turn begun; turns are numbered, 0 is none
    worker,         \* the turn's thread
    broken,         \* the event store refuses appends (write_failed)
    answer,         \* what each holder of the provider got for its request
    outcome,        \* ghost: what the last turn returned
    told            \* ghost: the lines about a failure or cancellation since it began

\* uiOwned: what only the UI's thread writes.
turnView == <<current_turn, iteration, settled, terminal_reported, told>>
prompts == <<current_approval, queued_approvals>>
channels == <<events, approvals, results>>
buffer == <<preview, notices>>
uiOwned == <<ui, running, cancellation, turnView, draft, prompts, dirty, shown, cancelled,
             turn>>
engine == <<worker, broken, outcome>>
vars == <<ui, running, cancellation, current_turn, iteration, settled,
          terminal_reported, draft, current_approval, queued_approvals, dirty,
          shown, events, approvals, results, preview, notices, cancelled, turn,
          worker, broken, answer, outcome, told>>

Requesters == Others \cup {"worker"}
Terminal == {"TurnCompleted", "TurnCancelled", "TurnFailed"}
InLoop == ui \notin {"closing", "exited"}
Elements(s) == {s[i] : i \in DOMAIN s}
Count(b) == IF b THEN 1 ELSE 0
NoWorker == [pc |-> "none", iteration |-> 0, bytes |-> 0, result |-> "none"]
NoPreview == [request |-> <<0, 0>>, text |-> <<>>]

Init ==
    /\ ui = "events" /\ running = FALSE /\ cancellation = 0 /\ current_turn = 0
    /\ iteration = 0 /\ settled = TRUE /\ terminal_reported = FALSE
    /\ draft = <<>> /\ current_approval = None /\ queued_approvals = <<>>
    /\ dirty = TRUE /\ shown = None
    /\ events = <<>> /\ approvals = <<>> /\ results = <<>>
    /\ preview = NoPreview /\ notices = FALSE
    /\ cancelled = {} /\ turn = 0 /\ broken = FALSE
    /\ worker = NoWorker
    /\ answer = [r \in Requesters |-> "idle"]
    /\ outcome = "none" /\ told = 0

\* is_char_boundary: before the i-th byte, or at the end.
Boundary(text, i) == i = Len(text) + 1 \/ text[i][4]

\* append_bounded, truncate: the end of the text is kept, from the first boundary
\* that leaves no more than the limit.
Bounded(text) ==
    LET least == Len(text) - DraftLimit + 1
        start == CHOOSE i \in least..Len(text) + 1 :
                    /\ Boundary(text, i)
                    /\ \A j \in least..i - 1 : ~Boundary(text, j)
    IN  IF Len(text) > DraftLimit THEN SubSeq(text, start, Len(text)) ELSE text

-----------------------------------------------------------------------------
(* The turn's thread: run_turn_with_cancellation as the UI sees it.  An    *)
(* event is published after its append; if that fails the turn returns the *)
(* error at once, and the store refuses every later append.                *)

At(pc) == worker.pc = pc
Goto(pc) == [worker EXCEPT !.pc = pc]
Return(result) == [worker EXCEPT !.pc = "return", !.result = result]
IsCancelled == turn \in cancelled

Publish(kind, next) ==
    /\ \/ /\ ~broken
          /\ events' = IF ui = "exited" THEN <<>>
                       ELSE Append(events, [kind |-> kind, turn |-> turn,
                                            iteration |-> worker.iteration])
          /\ worker' = next
          /\ UNCHANGED broken
       \/ /\ broken' = TRUE
          /\ worker' = Return("err")
          /\ UNCHANGED events
    /\ UNCHANGED <<uiOwned, approvals, results, buffer, answer, outcome>>

\* fail_turn: an error of the compiler, a hook or the model, or no iteration left.
\* Some of these are noticed before the token is, so it is no guard.
Fail ==
    /\ At("loop") \/ At("answer") \/ At("decide")
    /\ Publish("TurnFailed", Return("err"))

\* The runtime looks at the token at the head of the loop, after the model's
\* answer and before a call.
CancelTurn ==
    /\ IsCancelled
    /\ \/ At("loop") /\ worker.iteration < MaxIterations
       \/ At("answer") \/ At("decide")
    /\ Publish("TurnCancelled", Return("err"))

Begin == At("begin") /\ Publish("TurnStarted", Goto("loop"))

Request ==
    /\ At("loop") /\ ~IsCancelled /\ worker.iteration < MaxIterations
    /\ Publish("ModelRequestStarted", Goto("request"))

Respond == At("answer") /\ Publish("AssistantMessage", Goto("decide"))

Complete == At("decide") /\ ~IsCancelled /\ Publish("TurnCompleted", Return("ok"))

\* Steps that publish nothing.
Quiet(next) ==
    /\ worker' = next
    /\ UNCHANGED <<uiOwned, events, broken>>

ThisRequest == <<turn, worker.iteration>>

\* on_progress: Started replaces whatever the buffer holds.
Started ==
    /\ At("request")
    /\ preview' = [request |-> ThisRequest, text |-> <<>>]
    /\ Quiet(Goto("model"))
    /\ UNCHANGED <<approvals, results, notices, answer, outcome>>

\* Mutated form: the last delta replaces the ones not yet taken.
JoinLast(delta) == delta

\* on_progress: a TextDelta joins the text of its own request and replaces any other.
Join(delta) ==
    Bounded((IF preview.request = ThisRequest THEN preview.text ELSE <<>>) \o delta)

\* The next character of the answer; a delta of several is as many of these steps.
Character(width) ==
    [k \in 1..width |-> <<turn, worker.iteration, worker.bytes + k, k = 1>>]

TextDelta(width) ==
    /\ At("model") /\ worker.bytes + width <= MaxBytes[turn]
    /\ preview' = [request |-> ThisRequest, text |-> Join(Character(width))]
    /\ Quiet([worker EXCEPT !.bytes = @ + width])
    /\ UNCHANGED <<approvals, results, notices, answer, outcome>>

\* on_progress: Finished queues a summary; then the request returns.
Finished ==
    /\ At("model")
    /\ notices' = TRUE
    /\ Quiet(Goto("answer"))
    /\ UNCHANGED <<approvals, results, preview, answer, outcome>>

NextIteration == [Goto("loop") EXCEPT !.iteration = @ + 1]

\* A call that needs no approval, or is denied without one.
CallTool ==
    /\ At("decide") /\ ~IsCancelled
    /\ Quiet(NextIteration)
    /\ UNCHANGED <<approvals, results, buffer, answer, outcome>>

\* TuiApprovalProvider::request: send the prompt and block for its response; if
\* the receiver is gone the request fails at once.
SendPrompt(r) ==
    IF ui = "exited"
    THEN answer' = [answer EXCEPT ![r] = "dropped"] /\ UNCHANGED approvals
    ELSE answer' = [answer EXCEPT ![r] = "waiting"] /\ approvals' = Append(approvals, r)

AskForCall ==
    /\ At("decide") /\ ~IsCancelled
    /\ SendPrompt("worker")
    /\ Quiet(Goto("asking"))
    /\ UNCHANGED <<results, buffer, outcome>>

\* recv returned: the call is executed or denied, and the loop goes on.
Answered ==
    /\ At("asking") /\ answer["worker"] # "waiting"
    /\ answer' = [answer EXCEPT !["worker"] = "idle"]
    /\ Quiet(NextIteration)
    /\ UNCHANGED <<approvals, results, buffer, outcome>>

\* The spawned thread sends the turn's result and ends.
SendResult ==
    /\ At("return")
    /\ results' = Append(results, worker.result)
    /\ outcome' = worker.result
    /\ Quiet(NoWorker)
    /\ UNCHANGED <<approvals, buffer, answer>>

\* A panic in a model adapter, a hook or a tool ends the thread without a result.
\* run keeps a Sender of its own, so the loop never sees the channel disconnected.
Panic ==
    /\ At("model") \/ At("decide")
    /\ Quiet(NoWorker)
    /\ UNCHANGED <<approvals, results, buffer, answer, outcome>>

WorkerStep ==
    \/ Begin \/ Request \/ Started \/ \E width \in 1..CharBytes : TextDelta(width)
    \/ Finished \/ Respond \/ Complete
    \/ CallTool \/ AskForCall \/ Answered \/ Fail \/ CancelTurn
    \/ SendResult

\* Another agent that was given the same provider asks for an approval.
OtherAsks(o) ==
    /\ answer[o] = "idle"
    /\ SendPrompt(o)
    /\ UNCHANGED <<uiOwned, events, results, buffer, engine>>

-----------------------------------------------------------------------------
(* The loop of run_with_model_progress.  Each channel is drained one       *)
(* message at a time until it is empty.                                    *)

\* format_event: which of the events write a line.
HasLine(kind) == kind \in Terminal \cup {"AssistantMessage"}

\* The body of drain_events.  Every event modelled here clears the draft.
HandleEvent ==
    /\ events # <<>>
    /\ LET e == Head(events)
       IN /\ terminal_reported' = (terminal_reported \/ e.kind \in Terminal)
          /\ current_turn' = IF e.kind = "TurnStarted" THEN e.turn ELSE current_turn
          /\ iteration' = IF e.kind = "ModelRequestStarted" THEN e.iteration ELSE iteration
          /\ settled' = (e.kind # "ModelRequestStarted")
          /\ dirty' = (dirty \/ HasLine(e.kind))
          /\ told' = told + Count(e.kind \in {"TurnFailed", "TurnCancelled"})
    /\ draft' = <<>>
    /\ events' = Tail(events)
    /\ UNCHANGED <<ui, running, cancellation, prompts, shown, approvals, results, buffer,
                   cancelled, turn, engine, answer>>

DrainEvents == ui \in {"events", "finish"} /\ HandleEvent

\* A drain has found its channel empty.
Drained(here, channel, next) ==
    /\ ui = here /\ channel = <<>>
    /\ ui' = next
    /\ UNCHANGED <<running, cancellation, turnView, draft, prompts, dirty, shown,
                   channels, buffer, cancelled, turn, engine, answer>>

EventsDrained == Drained("events", events, "progress")

\* The filter of drain_progress on the preview it took.
Fits(request) ==
    /\ request = <<current_turn, iteration>> /\ ~settled
    /\ cancellation \notin cancelled

\* take empties the buffer, whether its draft is used or not.
DrainProgress ==
    /\ ui = "progress" /\ ui' = "approvals"
    /\ LET used == preview.text # <<>> /\ Fits(preview.request)
       IN /\ draft' = IF used THEN Bounded(draft \o preview.text) ELSE draft
          /\ dirty' = (dirty \/ used \/ notices)
    /\ preview' = NoPreview
    /\ notices' = FALSE
    /\ UNCHANGED <<running, cancellation, turnView, prompts, shown, channels, cancelled,
                   turn, engine, answer>>

\* The body of drain_approvals: deny says whether the prompt is refused, changed
\* whether the screen is to be drawn again.
TakePrompt(deny, changed) ==
    /\ ui = "approvals" /\ approvals # <<>>
    /\ LET prompt == Head(approvals)
       IN \/ /\ deny
             /\ answer' = [answer EXCEPT ![prompt] = "denied"]
             /\ UNCHANGED prompts
          \/ /\ ~deny /\ current_approval = None
             /\ current_approval' = prompt
             /\ UNCHANGED <<queued_approvals, answer>>
          \/ /\ ~deny /\ current_approval # None
             /\ queued_approvals' = Append(queued_approvals, prompt)
             /\ UNCHANGED <<current_approval, answer>>
    /\ approvals' = Tail(approvals)
    /\ dirty' = changed
    /\ UNCHANGED <<ui, running, cancellation, turnView, draft, shown, events, results,
                   buffer, cancelled, turn, engine>>

\* Mutated form: the screen is not marked as stale.
DrainApprovalsQuietly == TakePrompt(cancellation \in cancelled, dirty)

DrainApprovals == TakePrompt(cancellation \in cancelled, TRUE)

ApprovalsDrained == Drained("approvals", approvals, "result")

\* render, unless nothing changed, and on to the poll for a key.
Render ==
    /\ shown' = IF dirty \/ running THEN current_approval ELSE shown
    /\ dirty' = FALSE
    /\ ui' = "key"

NoResult ==
    /\ ui = "result" /\ results = <<>>
    /\ Render
    /\ UNCHANGED <<running, cancellation, turnView, draft, prompts, channels, buffer,
                   cancelled, turn, engine, answer>>

\* finish_turn: an error is reported unless a terminal event was.
Finish ==
    /\ told' = told + Count(~terminal_reported /\ Head(results) = "err")
    /\ results' = Tail(results)
    /\ running' = FALSE /\ cancellation' = 0 /\ draft' = <<>>
    /\ Render
    /\ UNCHANGED <<current_turn, iteration, settled, terminal_reported, prompts, events,
                   approvals, buffer, cancelled, turn, engine, answer>>

\* Mutated form: the result is handled without draining the events again.
ResultAtOnce == ui = "result" /\ results # <<>> /\ Finish

\* A result: the events are drained once more (DrainEvents at finish).
TryRecv ==
    /\ ui = "result" /\ results # <<>>
    /\ ui' = "finish" /\ dirty' = TRUE
    /\ UNCHANGED <<running, cancellation, turnView, draft, prompts, shown, channels,
                   buffer, cancelled, turn, engine, answer>>

FinishTurn == ui = "finish" /\ events = <<>> /\ Finish

-----------------------------------------------------------------------------
(* handle_key.                                                             *)

\* The poll timed out, or the key or the resize changes nothing that is modelled.
NoKey ==
    /\ ui = "key" /\ ui' = "events"
    /\ dirty' \in {dirty, TRUE}
    /\ UNCHANGED <<running, cancellation, turnView, draft, prompts, shown, channels,
                   buffer, cancelled, turn, engine, answer>>

Key == ui = "key" /\ ui' = "events" /\ dirty' = TRUE

\* resolve_approval: the next prompt of the queue takes the place of this one.
Resolve(decision) ==
    /\ answer' = [answer EXCEPT ![current_approval] = decision]
    /\ IF queued_approvals = <<>>
       THEN current_approval' = None /\ UNCHANGED queued_approvals
       ELSE /\ current_approval' = Head(queued_approvals)
            /\ queued_approvals' = Tail(queued_approvals)

\* The y and n keys; Esc is n while a prompt is shown.
AnswerPrompt ==
    /\ Key /\ current_approval # None
    /\ \E decision \in {"approved", "denied"} : Resolve(decision)
    /\ UNCHANGED <<running, cancellation, turnView, draft, shown, channels, buffer,
                   cancelled, turn, engine>>

\* deny_pending, with the prompts that are still in the channel answered so.
DenyPending(unread) ==
    /\ LET pending == {current_approval} \cup Elements(queued_approvals)
       IN answer' = [r \in Requesters |->
             IF r \in pending THEN "denied"
             ELSE IF r \in unread THEN "dropped" ELSE answer[r]]
    /\ current_approval' = None /\ queued_approvals' = <<>>

SetToken == cancelled' = cancelled \cup ({cancellation} \ {0})

\* cancel, up to its call of deny_pending.
CancelRunning ==
    /\ Key /\ running
    /\ SetToken
    /\ draft' = <<>>
    /\ UNCHANGED <<running, cancellation, turnView, shown, channels, buffer, turn, engine>>

\* Mutated form: the pending prompts are left to the user.
CancelOnly == CancelRunning /\ UNCHANGED <<prompts, answer>>

\* Ctrl-C at any time, or /cancel while no prompt takes the keys.
Cancel == CancelRunning /\ DenyPending({})

\* Enter on a message while no turn is running.
StartTurn ==
    /\ Key /\ current_approval = None /\ ~running /\ turn < MaxTurns
    /\ running' = TRUE /\ terminal_reported' = FALSE /\ draft' = <<>>
    /\ turn' = turn + 1 /\ cancellation' = turn + 1 /\ cancelled' = {}
    /\ outcome' = "none" /\ told' = 0
    /\ worker' = [NoWorker EXCEPT !.pc = "begin"]
    /\ UNCHANGED <<current_turn, iteration, settled, prompts, shown, channels, buffer,
                   broken, answer>>

\* Esc or /quit without a prompt, Ctrl-C without a turn.
Quit ==
    /\ ui = "key" /\ (current_approval = None \/ ~running)
    /\ ui' = "closing" /\ dirty' = TRUE
    /\ SetToken
    /\ DenyPending({})
    /\ UNCHANGED <<running, cancellation, turnView, draft, shown, channels, buffer, turn,
                   engine>>

\* While the cancelled turn ends, its prompts are denied as they come.
WindDown ==
    /\ ui = "closing" /\ running /\ approvals # <<>>
    /\ answer' = [r \in Requesters |-> IF r \in Elements(approvals) THEN "denied"
                                       ELSE answer[r]]
    /\ approvals' = <<>>
    /\ UNCHANGED <<ui, running, cancellation, turnView, draft, prompts, dirty, shown,
                   events, results, buffer, cancelled, turn, engine>>

\* run returns: UiState is dropped, then the receivers with what they hold.
LeaveRun ==
    /\ ui' = "exited"
    /\ SetToken
    /\ DenyPending(Elements(approvals))
    /\ approvals' = <<>> /\ events' = <<>> /\ draft' = <<>> /\ shown' = None
    /\ UNCHANGED <<running, cancellation, turnView, dirty, results, buffer, turn, engine>>

\* No turn, its result, or the deadline of two seconds, which may pass at any time.
Leave == ui = "closing" /\ LeaveRun

\* The terminal fails under render, poll or read.
TerminalError == ui = "key" /\ LeaveRun

-----------------------------------------------------------------------------
LoopStep ==
    \/ DrainEvents \/ EventsDrained \/ DrainProgress \/ DrainApprovals
    \/ ApprovalsDrained \/ NoResult \/ TryRecv \/ FinishTurn \/ NoKey
    \/ WindDown \/ Leave

KeyStep == AnswerPrompt \/ Cancel \/ StartTurn \/ Quit

Next ==
    \/ LoopStep \/ KeyStep \/ TerminalError
    \/ WorkerStep \/ Panic \/ \E o \in Others : OtherAsks(o)

\* The loop never blocks (the poll times out), and the turn's thread goes on unless
\* it waits for an answer; nothing is assumed of the user.
Spec == Init /\ [][Next]_vars /\ WF_vars(LoopStep) /\ WF_vars(WorkerStep)

-----------------------------------------------------------------------------
(* Properties.                                                             *)

\* The turn's thread died without a result.
Dead == running /\ worker.pc = "none" /\ outcome = "none"

\* The failure or the cancellation of a turn is on the log exactly once when the UI
\* is ready again, whichever of its two channels brought it and whether or not it
\* could be made durable (finish_turn and the second drain).
FailureToldOnce ==
    /\ told <= 1
    /\ ~running => told = Count(outcome = "err")

\* The next byte of the same answer.
Follows(byte, next) == <<next[1], next[2], next[3]>> = <<byte[1], byte[2], byte[3] + 1>>

\* A preview on display is a part of one answer, in its order, though it passed
\* through two bounded buffers, of which the first is emptied at any time
\* (append_bounded).  It is unbroken but for fewer bytes than one character has at
\* its beginning: so much of what was displayed can stay in front of a text that
\* was cut at a character and does not follow it.  And it belongs to the running,
\* uncancelled turn and to its last request, as long as the store could record how
\* requests and turns ended (drain_progress).
DraftIsHonest ==
    /\ Len(draft) <= DraftLimit
    /\ \A i \in 1..Len(draft) - 1 :
          /\ draft[i][3] < draft[i + 1][3]
          /\ i >= CharBytes => Follows(draft[i], draft[i + 1])
    /\ draft # <<>> /\ InLoop /\ ~broken =>
           /\ running /\ turn \notin cancelled /\ ~settled
           /\ \A p \in Elements(draft) : <<p[1], p[2]>> = <<turn, iteration>>

\* What is approved is the prompt on the screen, and nothing is approved once the
\* running turn is cancelled, however late its prompt arrives (handle_key, cancel,
\* drain_approvals).
InformedApproval ==
    [][\A r \in Requesters : answer'[r] = "approved" /\ answer[r] # "approved" =>
          shown = r /\ cancellation \notin cancelled]_vars

\* A cancelled turn ends and the UI is ready again, and quitting ends with every
\* approval request answered or dropped: no approval keeps a thread waiting for a
\* user who has gone on (cancel, UiState::drop).
CancelAndQuitEnd ==
    /\ (running /\ turn \in cancelled) ~> (~running \/ ui = "exited" \/ Dead)
    /\ (ui = "closing") ~> (ui = "exited" /\ \A r \in Requesters : answer[r] # "waiting")
=============================================================================
