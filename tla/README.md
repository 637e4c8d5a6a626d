# TLA+ verification of the agent harness

The repository is a Rust agent harness: a runtime that lets a model call tools
under a policy, with every step in a durable event log, and around it a
background task ledger, a task journal with acceptance criteria, an advisory
memory, model and process adapters, a JSON-RPC server and a terminal UI. This
directory models these parts, checks the models with TLC and proves the most
important results with TLAPS.

## 1. Inventory

| Component | State | Operations | What makes it correct |
| --- | --- | --- | --- |
| agent runtime (`harness-core/src/runtime.rs`) | `active_threads`; per turn the transcript, the seen call ids, the iteration | `start_thread`, `run_turn*`, `recover`, `events` | durable intent before execution, exact approval, one receipt per call, one run per thread, cancellation wins, every run returns |
| recovery (`recovery.rs`, `event.rs`, `protocol.rs`) | none: a scan of the log | `recover_thread` | receipts tell the truth, nothing is replayed, turns end once |
| event store (`store.rs`) | file, events, `next_sequence`, `write_failed` | `open` (with repair), `append`, `load_thread` | acknowledged means durable, the store can open what it wrote, sequences are positions, torn bytes are kept |
| capability policy (`policy.rs`, `tool.rs`) | policy, registry, parent's projection | `project_capabilities`, `access`, `visible_names` | a descendant never has more than an ancestor |
| task ledger (`task-ledger`) | file, tasks, idempotency index | `open`, `submit`, `claim_next`, `heartbeat`, `succeed`, `fail`, `cancel`, `recover_expired`, `acknowledge_delivery` | work is handed out once, leases fence, one outcome, one task per key, memory is the replay |
| task journal and gate (`task`) | file, `TaskState`, `sequence`, `write_failed` | `create`, `open`, `start_attempt`, `verify`, `block` | the budget, success only when earned, final verdicts, its own lines stay readable |
| app server (`app-server`) | turn table | `turn/start`, `turn/status`, `turn/cancel`, a thread per turn | the table agrees with the log, accepted turns settle, accepted cancellations hold |
| memory (`memory`) | file, records, snapshot cache | `open`, `upsert`, `forget`, `recall`, `compile` | recall is frozen per turn, what was forgotten stays so |
| context compilers (`context.rs`, `context-fs`) | none | `compile`, compaction | a call and its receipt are never separated |
| output archive (`context-fs/src/output.rs`) | archived files | `retain`, `read_page` | a reference always resolves, no partial snapshot |
| provider (`provider-openai`) | result slot and waker, child process, decoder | request, cancel, drop, decode | every future is woken, no partial stream becomes an answer, no process is left |
| process executor, editing (`executor-process`) | child, pipes, files | `run_command`, file tools, `apply_patch` | commands return, their group is gone, output is honest, no known failure after a write |
| terminal UI (`tui`) | `UiState`, four channels | event loop, approvals, cancel, quit | no approval is left waiting, no stale draft |
| evaluation, facade | - | - | not part of the system's behaviour |

How they interact: the runtime calls the store (append, load), the compiler, the
hooks and the registry synchronously, and awaits the model, the approval
provider and the executor. At these awaits, and nowhere else, its future can be
dropped; elsewhere other threads' runs interleave between its appends. The app
server and the UI run each turn on a thread of its own and share a
`CancellationToken` with it. Observers see an event after its append. The
journals of the ledger, the task journal and the memory are separate files with
their own failure rules.

What is hard here: failures and restarts between two appends of one handler;
records of failed appends that are in the file all the same; approvals and
answers that arrive late; recovery racing a turn; leases that expire under a
working worker. `PROJECT.json` lists these hazards at their lines, with the
properties that would catch each.

## 2. Plan

Written in this order: `Policy`/`Delegation`, `DurableLog`/`Recovery`/`AgentRuntime`,
`EventStore` (refining `DurableLog`), `TaskLedger`, `TaskJournal`, `Tui`;
`ModelRequest`, `ProcessRunner`/`Workspace`, `Memory`/`OutputArchive`/`Context`, and
`AppServer` over `AgentRuntime`.

| Module | uses | run with |
| --- | --- | --- |
| AppServer | AgentRuntime (Recovery, DurableLog, Policy) | MCAppServer |
| AgentRuntime | Recovery, DurableLog, Policy | MCAgentRuntime |
| EventStore | refines DurableLog | itself |
| Workspace | ProcessRunner | itself |
| Context | Memory, OutputArchive | MCContext |
| ModelRequest | - | MCModelRequest |
| TaskLedger, TaskJournal | - | MCTaskLedger, MCTaskJournal |
| Delegation | Policy | itself |
| Tui | - | MCTui |

Still to do: the native transport of the provider, if its build becomes the default.

## 3. Modules and their correspondence to the code

**Policy, Delegation.** A projection is a function from tool names to accesses;
`ProjectCapabilities` is `project_capabilities`. `Delegation` builds chains of
agents, each with any registry and any policy, the parent being the agent above.

**DurableLog** is what the runtime relies on in an `EventStore`: `log` (events in
memory), `synced` (how many no crash removes), `pending` (the record of a failed
append, if it is in the file), `broken` (`write_failed`). `StoreReopen` is the end
of the process followed by `open`.

**Recovery** has the events and the pure functions over them:
`TranscriptFromEvents`, `MissingReceipts` (the receipts `recover_thread` appends)
and `OpenTurns`. Every event has one record shape; texts are dropped, a
`CanonicalAction` is its tool and one argument.

**AgentRuntime** composes the three. A *run* is a call of `run_turn*` or of
`recover`. Its local state is a record; between two appends a run is one action,
since nothing else can observe it. `Emit` queues the events a step appends one by
one; `AppendOk`, `AppendFail` and `AppendRefused` take them from the queue, and on
failure the run returns with the rest undone, which is what `?` does in the code.

| Code | Action |
| --- | --- |
| `start_thread` | `StartThread` |
| `ensure_thread`, `acquire_thread`, `ensure_turn_unused`, the scan of `recover_thread` | `BeginTurn`, `BeginRecover` |
| the appends of `recover_thread`, then `TurnStarted`, `UserMessage` | `RecoverAppend`, `Recovered` |
| loading the transcript | `Load` |
| loop head: iteration limit, cancellation, compile, `before_model` | `Loop` |
| `complete_controlled` returned | `ModelResponse`, `ModelError` |
| stop reason, cancellation, completion | `Decide` |
| loop over the calls | `NextCall` |
| `handle_tool_call` | `Prepare`, `Gate`, `Approval`, `Execute`, `Executed`, `AfterTool` |
| `CancellationToken::cancel` | `Cancel` |
| dropping the future, at an await | `Drop` |
| end of the process and restart | `Restart` |

`crossed` and `answers` are ghosts: what the executor was given and what it said.
A turn may be begun again under its id if nothing of it is in the log, as the
code allows. Observers are left out: they only read.

**EventStore** is `JsonlEventStore` with one action per write, sync and truncate
of `append` and of the repair in `open`. The file is its lines and what follows
the last newline. A crash keeps everything written; a power failure keeps what
was synced and a prefix of the rest, cut anywhere, and may undo an unsynced
truncation. The file exists durably from the start: that `open` may create it without
syncing its directory is left out. `KeepsPromise` is the refinement: `log <- mem`, `synced <- acked`,
`pending <- maybe`, `broken <- failed` outside an append. While the store is down
`mem` keeps what the last process had, which is what `DurableLog` speaks of.

**TaskLedger** is `JsonlTaskLedger`. Every operation holds the mutex throughout
and is one action, except `recover_expired`, whose appends can fail one by one:
it holds the mutex through the steps `RecoverExpired`, `MarkUnknown`. `replayed`
is what `open` would rebuild, kept line by line; `ReplayIsMemory` compares with
the explicit fold over the file. `Leftovers` says what a failing append may leave in
the file: nothing, part of a record, a record without its newline, or the whole line;
the ledger has no poison flag and goes on. Three ghosts: `told`, the operations that
returned `Ok`; `unacked`, the records that failed appends left, of which no caller was
told; `unsure`, the positions of those of them that the present process has not read.
The properties say what such records can do: a lease nobody was told of
(`LeaseFenced`), a difference of memory and file (`ReplayIsMemory`), a second task
under a key (which breaks `OneTaskPerKey`), and no more than that.

**TaskJournal** is `TaskJournal` and `CompletionGate`. `valid` and `replayed` are
what `open` would find and rebuild, kept line by line. `Applicable` and `Applied`
are the checks and the effects of `apply`.

**Tui** is the loop of `run_with_model_progress` and the thread of the running
turn. `ui` is where the loop is; each drain takes one message per step until its
channel is empty, as the code's `while let` does, so that everything the turn sends
can come between. The turn (`worker`) is `AgentRuntime` as the UI sees it: the
events that change `UiState`, the pieces of a preview, prompts, the result. It may
fail to append, after which the store refuses everything (`broken`), or panic.
A byte of a preview is its turn, its iteration, its position in the answer and whether a
character begins with it; `Bounded` cuts as `truncate` does, forward to such a byte, so
that up to `CharBytes - 1` bytes fewer than the limit may be left. `Others` are further agents with the same approval provider, for which the queue of
prompts exists. `shown` is the prompt last drawn. `outcome` and `told` are ghosts.

| Code | Action |
| --- | --- |
| `drain_events`, first and second | `DrainEvents`, `EventsDrained` |
| `drain_progress`, `ModelProgressBuffer::take` | `DrainProgress` |
| `drain_approvals` | `DrainApprovals`, `ApprovalsDrained` |
| `try_recv` of the result, `finish_turn`, `render` | `NoResult`, `TryRecv`, `FinishTurn` |
| `handle_key` | `NoKey`, `AnswerPrompt`, `Cancel`, `StartTurn`, `Quit` |
| the wait for the cancelled turn, `UiState::drop` | `WindDown`, `Leave`, `TerminalError` |
| `on_progress` | `Started`, `TextDelta`, `Finished` |
| `TuiApprovalProvider::request` | `AskForCall`, `Answered`, `OtherAsks` |

`run` keeps a `Sender` of the result channel for the threads it will spawn, so
`try_recv` never reports a disconnected channel and that arm of the loop is not an
action. After a panic of the turn `running` therefore stays true; `CancelAndQuitEnd`
leaves this case out (`Dead`) for a cancellation; the user can still quit.

**AppServer** adds the turn table (`status`) and the background threads to
`AgentRuntime`, whose run actions it takes as they are: `Returns` observes that a run
has become idle and what `run_turn` returned. A turn's token can be cancelled before
its run has begun, and its result is published by a step of its own.

| Code | Action |
| --- | --- |
| `turn/start` | `TurnStart` |
| the closure of `thread::spawn`: `block_on(run_turn)`, then the table | `BackgroundBegin`, `RuntimeTurnStep`, `Publish` |
| `turn/cancel` | `TurnCancel` |
| host code that panics in the background thread | `Panic` |
| the end of the process; the table is not kept | `ServerRestart` |

**ModelRequest** is one streamed request: the task that awaits the future, the worker
thread with its `ResultSlot`, the curl transport with its reader thread, `ChildGuard`
and reaper, and `stream::Decoder`. Two tokens end it, the turn's and the one that
dropping the future cancels, and a deadline. A stream is a sequence of frames; curl may
stop anywhere, also inside an event. A delta of a tool call adds a string, perhaps empty,
to each of the call's id, name and arguments, and the decoder joins them in the order they
come: a delta that is sent twice counts twice, and one with arguments may precede the one
with the id. `http_request` can only refuse a request before it is sent, its budget
included: that is a refusal of `Prepare`.

| Code | Action |
| --- | --- |
| `worker::start`, `poll`, `drop` | `Start`, `Poll`, `DropFuture` |
| `http_request`, the spawn of curl | `Prepare`, `Spawn` |
| the receive loop and the wait for curl | `Check`, `Pull`, `Wait`, `Parse` |
| the result, and the wake-up | `Store` |
| the reading thread, the reaping thread | `Read`, `Reap` |

**ProcessRunner** is `run_command` and `capture_process` on Unix for both runners. The
command is a leader, a helper in its group, and, for the local runner, a descendant that
has left the group. Output is counted in chunks, one for each read. `saw` are the locals
of `capture_process`; `late` and `over` are the two clocks it looks at.

**Workspace** puts the tools around it, on one file: `Prepare` is the preparation, after
which the call waits and the file and its path may change (`Edit`), and the execution
follows the code's checks, opens and writes one by one: `verified` and `opened` are the
stages of `write_file` behind its check and its open, `checked` and `compared` those of
`apply_patch` behind the check of the path and the comparison of the content; `elsewhere`
is a call that works on another file, its path having changed. A process that has
outlived its command writes to the file, or moves its path, between any two of these
(`Scribble`); `raced` is a ghost that notes when one comes between the last check of a
call and its write. A path may also be a link that leads outside to nothing (`dangling`):
`verify_write_target` follows a path only if it exists, so `write_file` creates the file
there. `NothingUnseenReplaced` is about what is replaced. `read_file` opens the path it
prepared and does not resolve it again; the other tools do. An I/O error after a command
was spawned is reported as a failed execution, so `KnownFailureIsClean` says nothing of
`shell` failures, nor of `write_file`, which truncates the file before it writes.

**Memory** is `JsonlMemoryStore` and the cache of `MemoryContextCompiler`. Unlike the
event store it does not repair a torn tail: the next event joins the line, and the file
cannot be opened any more (`store = "corrupt"`). A record is forgotten in two steps,
under two locks. `promised` and `tried` are ghosts: what a caller may expect of a record,
and the attempts on it that failed since. `later` counts the snapshots that push out the one of a turn: README.md
of the repository says that recall is frozen for a turn, its ARCHITECTURE.md that the
cache is bounded; `MemoryFrozen` states both.

**OutputArchive** is `retain` with one action per file-system operation. `unsynced` is a
ghost for one path: a retain that stops between `create_dir` and the sync of the root
leaves a directory that later calls find and do not sync again, so that a loss of power
may still take it. `ReferencesResolve` leaves out exactly this case. A call id that is
used again on a thread with another output finds a snapshot that differs, and the
compilation fails (`CompileFails`).

**Context** stacks the compilers as the repository's documentation does, over one
transcript; compilation is interleaved with memory writers, kills and loss of power.

## 4. Runs

| Run | Bounds | Distinct states | Properties |
| --- | --- | --- | --- |
| RuntimeCalls | 1 turn, 1 recovery, 4 tools, 2 arguments, 2 calls per response, 2 iterations, 1 fault, rejecting tool hooks | 1,194,862 | ReceiptsTruthful, WriteAhead, Authorised, NoReplay, GuardExact, TranscriptIsReplay |
| RuntimeHookGap | 2 calls, rejecting `after_tool`, no fault | violation | TurnsEndClosed |
| AppServer | 2 turns and a recovery of one thread, 1 call, 1 fault, rejecting `before_model`, fairness | 193,216 | StatusTruthful, TranscriptClosed, StatusSettles, CancelHonoured |
| Delegation | 2 tools, chains of 3, every registry and policy | 814 | NoEscalation |
| EventStore | 3 records, 2 values, 3 faults | 23,159 | NeverCorrupt, TornIsArchived, KeepsPromise |
| LedgerReplay | 2 tasks, 2 keys, 2 workers (symmetric), 1 failed append with every leftover, clock of 2, any number of restarts | 2,105,453 | ClaimedOnce, OutcomeOnce, LeaseFenced, ReplayIsMemory |
| LedgerKeys | an append that fails with its line written | violation | OneTaskPerKey |
| TaskJournal | 2 attempts, 3 turn ids, 5 snapshot lists, 3 faults | 7,944 | BudgetKept, SuccessIsEarned, VerdictFinal, LinesStayValid |
| ModelRequest | 3 frames of 9 kinds, 2 call indexes, channel and pipe of 1, fairness | 1,178,155 | OnlyComplete, NoStaleSignal, StopEnds, NothingLeaks |
| Workspace | 2 calls of which the first may be a command, 1 edit, batches of 2 reads, 1 chunk kept, both runners, fairness | 521,901 | NoStaleSignal, GroupGone, OutputHonest, NothingUnseenReplaced, KnownFailureIsClean, CommandEnds |
| Context | 5 operations, 2 records, 2 turns, cache of 1, 2 call ids, 2 outputs, windows of 2 groups | 1,741,357 | MemoryFrozen, WritesServed, ReferencesResolve, WindowClosed |
| Tui | 2 turns, 2 iterations, 5 and 2 bytes of preview in characters of 1 or 2, room for 3, 1 other asker | 1,424,949 | FailureToldOnce, DraftIsHonest, InformedApproval, CancelAndQuitEnd |

Why these bounds are enough for the cases meant: one fault is a crash or a failed
append at any point and the recovery after it, beside an explicit recovery. Two calls
per response are needed for "the calls behind"; two iterations for a reused id; two
turns of a thread for a history and for a busy thread. That the guard of one thread is
not that of another is proved for any number of them (section 5). In the ledger two workers and a clock of
two ticks allow a late result, a second claimer and an expiry between them. `View` of
`MCTaskLedger` identifies states of the ledger that differ only in what no action and no
property looks at, as the order in which different tasks were reported.
Deadlock is not checked: these systems may stop for good when their bounds are
used up, and a store that refuses appends waits for its host.

Three frames are a text or a call with its end and `[DONE]`, and every way to cut, repeat
or reorder them; one of the frames carries a call's arguments before its id and its name,
and both of these twice; a channel of one blocks the reader as soon as the worker is behind. One
command is enough for what outlives it to meet the call after it. The user edits only
while a call waits for its approval: the repository's documentation asks hosts to
serialize external writers while tools execute. Five operations are a response with two large outputs, its
compilation and two restarts, writers or further compilations around it; a cache of one
snapshot overflows with the second turn. In the UI a second turn meets what the first one left in the buffers and flags, and
five bytes overfill both of them, with a character of two at the cut.

**Fairness.** `ServerSpec` has weak fairness of each run's own steps and of each
background thread. The runtime is polled whenever it can go on (`block_on`, for ever);
the model's answer is forced by the provider's deadlines and the executor's by its own.
Nothing is assumed of the human: `StatusSettles` stops at an approval, and nothing of
cancellations, panics and restarts.

`ModelRequest` assumes that its threads are scheduled, that a task that was woken is
polled and that a killed process dies; nothing of curl, the network, the clock or the
user, which is why `StopEnds` begins with a cancellation or the deadline. `RunFairness`
of `ProcessRunner` assumes the same of the worker, and that its clocks advance: a
command may write, fork or live for ever.

In `Tui` the loop is weakly fair, as its poll times out after the refresh interval
and its wait on exit after two seconds, and so is the turn's thread, which does not
step while it waits for an answer. Keys are not fair.

### What the violations show

* *RuntimeHookGap*: a rejecting `after_tool` hook ends the turn with the later
  calls of the response unclosed. README.md promises a receipt for every accepted
  call. The next turn or `recover` of the thread closes them, as `MissingReceipts` does
  not ask whether the turn has ended.
* *LedgerKeys*: `append_locked` may fail after its line is complete, does not
  poison the ledger and does not tell memory. A retried `submit` then gives a key
  two tasks, both of which can be claimed after the next open. The event
  store and the task journal refuse to append after a failure.

Observations without a run of their own:

* `finish_turn` of the UI forgets the cancelled token and leaves `settled` alone, so that a
  piece of text that reached the buffer after the last `drain_progress` of a cancelled turn
  can be drawn as a draft if the event that should settle the request could not be
  appended. `DraftIsHonest` therefore speaks of a store that can append (`~broken`). The
  repository's ARCHITECTURE.md (line 373) says that late deltas cannot revive a cancelled
  draft.
* `truncate` cuts the buffer forward to a character, so that after it has dropped text it
  may hold up to three bytes less than the limit; `drain_progress` then keeps as many bytes
  of the old draft in front of text that does not follow them. `DraftIsHonest` allows a hole
  there and nowhere else.
* `verify_write_target` does not see where a dangling link leads, so that `write_file`
  creates a file outside the workspace through one. README.md (line 437) says that paths
  are rejected whose existing target or ancestor is outside, which this is not, and calls
  the checks no substitute for a sandbox (line 802).
* An append of the memory that follows a line without its newline, left by a failed append
  or by the end of the process, makes that line unreadable: the write is acknowledged, and
  the next open fails. README.md (lines 519 and 796) says that the memory store does not
  repair malformed tails. `WritesServed` speaks of stores that open.
* The snapshot that freezes a turn's recall is evicted after 128 others. README.md (line
  420) says that every later iteration sees the frozen result; `MemoryFrozen` takes the
  bound of ARCHITECTURE.md (line 169).
* README.md (line 469) leaves the time between the comparison and the write of
  `apply_patch` to the host. `NothingUnseenReplaced` says that nothing else can go wrong: a
  file is replaced unseen only if a process came in exactly there.

## 5. Proofs

All proofs hold for every value of the constants that satisfies the modules'
assumptions: any sets of threads, turns, calls and tools, any policy and parent,
any bound. The assumptions are that `None` is not an identifier, an outcome or a
record, that turn ids and recoveries are different things, that the bounds are
naturals, that a frame of a stream carries only what its kind has, that what the host
reports as snapshots are sequences of artifacts, that task ids are naturals (they only
need the order of the `BTreeMap`) of which one is the greatest, and that a character has
between one byte and as many as the draft's limit. Each inductive invariant was first an invariant of a
TLC run.

* **AgentRuntimeProofs**, for the runtime, the server around it and delegation:
  `TypeCorrect`, `WriteAheadHolds`, `AuthorisedHolds`. The
  inductive invariant `IInv` adds to the type invariant where a run may be with
  which events still to append. A run at `execute` has a durable
  `ToolExecutionStarted` with its action, or has it last in its queue; if the
  projection says ask, the matching `ApprovalResolved` precedes it, in the synced
  part of the log or in the queue. A crash empties all queues and never shortens
  the synced part, so both facts survive it.
  `GuardExactHolds`: every step of the runtime is of one of four kinds: a run goes on
  where it was, begins on a free thread, returns, or all end with the process. Each kind
  keeps the guard exact; that each action is of one of the kinds needs the type
  invariant and, for the appends, where `IInv` says they lead.
  `NoReplayHolds`, `ReceiptsTruthfulHolds`, from `IInv` and the exact guard. The marks of
  a call are its `ToolExecutionStarted` and its receipt.
  `OnceInv` says which marks each run may still write: those of the receipts that
  recovery found missing, of calls from its current position on, and of calls the model
  has not asked for yet. None of them is in the log of its thread; those queued are
  fresh and about different calls; a record that a failed append may have left is fresh
  too. The guard makes the other runs work on other threads, so their appends cannot
  interfere. No start follows a receipt either, which `TruthInv` needs: every receipt,
  in the log, left by a failed append, queued or found missing, says unknown, or what
  the executor answered about a call handed to it, or that a call failed or was denied
  of which the log has no start. `WriteAhead` turns the last case into: the executor
  never had it.
  `TranscriptIsReplayHolds`: the transcript of a run is that of the log, or the log is
  behind by the message at the head of the run's queue; the guard keeps the messages of
  other runs off the thread. What `transcript_from_events` computes is taken one event
  further with each append; that its table of prefixes exists, and is the only one, comes
  from the least-number principle.
  `TranscriptClosedHolds`: that transcript answers every call it asks for. `ClosedInv`
  says of every call that a message of the log or of a queue asks for: its receipt is in
  the log, or recovery has found it missing and will write it, or the turn itself is
  still on that iteration and has the call before it. So when a turn is between two
  iterations, which is when it asks the model, nothing of its thread is open. That
  recovery misses no call comes from what its scan computes: a call without a receipt is
  among those it lists, whether it was only asked for or had been started. The receipts
  also stand behind the message they answer (`LogOrder`, and `PendingOrder` for the
  records that a failed append may leave). A lemma carries the order of the log over to
  the transcript: of two messages of the thread, the earlier in the log is the earlier there.
  `ServerKeepsRuntime`, `StatusTruthfulHolds`: the steps of the server are steps of the
  relation `Core`, under which the runtime's invariants were shown to be inductive. The
  server begins a turn only if nothing in the store or in another run speaks of it, which
  is what `BeginTurn` asks. So `ServerSpec` has all invariants of the runtime, and a
  result waits for its publication only when the terminal event it speaks of is durable.
  `CancelHonouredHolds`: a turn that is cancelled before it begins, or while it prepares a
  request or waits for the model, is `Sealed`: no record, queued or written, says that it
  has completed, and its token stays cancelled for as long as it runs. A turn queues
  `turn_completed` only with an uncancelled token, so it stays sealed until it returns or the
  process ends; after that the server never begins a turn with its id again.
  `NoEscalationHolds`: the invariant is the property with the type invariant: the new
  projection is below the last one for every name, also for names not registered, where
  both answer deny, and below all the earlier ones by transitivity.
* **TaskLedgerProofs**, whatever failed appends leave: nothing here assumes that they
  leave little. `ClaimedOnceHolds`, `OutcomeOnceHolds`: neither property mentions the
  file, but a restart brings the tasks back from it. `LInv` therefore says of both
  memory and the replay: a task that is absent or pending has no acknowledged claim or
  outcome, and a running one no acknowledged outcome. A line left by a failed append
  moves the replay forward only, away from pending.
  `LeaseFencedHolds`: memory and the replay may hold different leases of a task, so
  `LeaseInv` asks of each that its lease is the one callers were told of last or that of
  a record left by a failed append, and of both that they never name different workers.
  `ReplayIsMemoryHolds`, `SubmittedOnceHolds`: `ReplayInv` says what the fold gives with
  and without the lines in `unsure`, and takes both one event further with each append,
  so no induction over the file is needed; that the index is the one `open` builds
  needs a greatest identifier, which exists because identifiers have a fixed width
  (`LastIdAssumption`). Both tables also have a task for each key under which a
  submission was acknowledged. So a retry after a failed submit that left its line may
  put a second task under the key into the file, which breaks `OneTaskPerKey` (run
  LedgerKeys), but no caller is ever given two: that is `SubmittedOnce`, which no run
  needs to check.
* **EventStoreProofs**: `NeverCorruptHolds`, `TornIsArchivedHolds` and the refinement
  `KeepsPromiseHolds`. `StoreInv` says: what was acknowledged is durable, and durable is
  at most what the file has (`SyncedSafe`); each step of an open finds the tail it
  expects, and a torn tail is archived before it is cut (`OpenInv`); an append writes
  behind the last newline, with the file equal to memory until its own newline
  (`AppendInv`); outside an append, what the next open would read is a prefix of what
  the process knows (`KnownInv`). The refinement maps memory to `log`, the acknowledged
  length to `synced`, what a failed append may have left to `pending`, and `failed`,
  outside an append, to `broken`; the writes of an append and the repairs at open are
  stutters.
* **TaskJournalProofs**: `LinesStayValidHolds`, `VerdictFinalHolds`, `BudgetKeptHolds`,
  `SuccessIsEarnedHolds`. All four speak of memory and of what the file replays to, so
  `JournalInv` asks the same of both (`SoundState`: every attempt is active or has its
  evidence, within the budget; as long as the task can go on no outcome is unknown; the
  status is what the evidence earns). `DiskInv` says that they are equal until a write
  fails, `ReportInv` that what callers were told is in both. The proof found a weakness
  of the model: `Verdict` was a `CASE` with overlapping guards, whose value TLA+ leaves
  open, and is now the `IF` chain that the code is.
* **WorkspaceProofs**: `NoStaleSignalHolds`, `GroupGoneHolds`, `OutputHonestHolds` for the
  process runner, `NothingUnseenReplacedHolds`, `KnownFailureIsCleanHolds` for the tools.
  `RunInv`: the leader is not reaped while the command runs (`LeaderInv`), the group is
  signalled on every path before it returns (`GroupInv`), and an end of file means that
  nobody holds the pipe (`OutputInv`). `CallInv` says what each stage of a call has done
  to the file (`EffectInv`), and that a shell call which was cancelled before it ran
  finds no process (`ShellInv`). `Window` says that what a call has checked still holds
  when it relies on it, unless `raced`.
* **ContextProofs**: `MemoryFrozenHolds`, `WritesServedHolds`, `ReferencesResolveHolds`,
  `WindowClosedHolds`. `StoreInv`: memory serves what was promised of each record, and so does
  what the file replays to, but for the attempts since, unless a line is torn. `CacheInv`: the turn at position i of the cache has been followed
  by as many others as are behind it, so it leaves only after `MaxSnapshots` of them.
  `ArchiveInv`: `retain` links only what is synced, in a durable directory unless an
  earlier one stopped before its sync. `TranscriptInv`: every response is followed by its
  receipts and every receipt has its response. The line that decides about a record, and
  the start of a window, are the greatest or least elements of sets of naturals; that
  these exist comes from the well-ordering theorem of the library. For this, `Replay` of
  `Memory` says which line decides, the last one about a record, where it used to be a
  fold; TLC finds the same states.

* **TuiProofs**: `FailureToldOnceHolds`, `DraftIsHonestHolds`, `InformedApprovalHolds`.
  The first: a terminal event is the last of its turn, in the channel, in the worker's
  hands or taken by the loop, exactly one of these. The second: the next byte of text
  that arrives follows what the buffer holds or, if that is empty, what is drawn; and the
  buffer follows what is drawn or is long enough to displace all of it but fewer bytes
  than a character has (`DraftInv`). The third: when the loop waits for a key, what was drawn last is the
  prompt the answer goes to, and after a cancellation there is no prompt (`PromptInv`).
* **ModelRequestProofs**: `OnlyCompleteHolds`, `NoStaleSignalHolds`, for streams of any
  length and any number of call indexes. `ChildInv`: the child is reaped only by the one
  who owns it, so a signal never goes to a process id that may have been given away.
  `FlowInv`: what was read, what is in the channel and what was decoded are together a
  prefix of the stream. `DecodeInv`: the decoder's state is that of the frames decoded,
  taken one frame further with each; every string of every call is the pieces that the
  frames carry for it, in order, whatever these are. `GivenInv`: an answer is made only of a
  stream that has ended well. The proof made an assumption explicit that the frames of
  the run always met: only a choice carries text, calls or a finish reason
  (`FramesAssumption`).

Only model-checked:

* the liveness properties (`StatusSettles`, `StopEnds`, `NothingLeaks`, `CommandEnds`,
  `CancelAndQuitEnd`): fairness and `ENABLED` are beyond the prover.

Every safety property of the passing runs is a theorem.

## 6. Not modelled

Of the modelled components: the provider's native transport (an async client in front of
the same decoder), the build of `run_command` for other systems than Unix, the
`InMemoryStore` of the memory (every operation under one lock), recency as a tie-breaker
of recall, paging and searching (`read_page`, `read_file_page` and `search_files` only
read, and their boundaries are covered by the repository's tests), rule files and skills,
and the character cap of a compiled prompt.

Never modelled: prompts and message texts, JSON encodings and JSON-RPC framing, sandbox
command lines, rendering, command line options, the evaluation harness and re-exports.
They transform data without state of their own. `MemoryEventStore` is `DurableLog` without its faults.
The event store's lock, like the ledger's, is never held across an await; that a
thread panics while holding it is not modelled.
