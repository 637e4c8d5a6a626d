------------------------- MODULE AgentRuntimeProofs -------------------------
(***************************************************************************)
(* Proofs about AgentRuntime, its host AppServer and chains of runtimes,   *)
(* for any number of threads, turns, calls, iterations and faults and any  *)
(* tools, policies and hooks:                                              *)
(*                                                                         *)
(*   TypeCorrect             Spec => []TypeOK                              *)
(*   WriteAheadHolds         Spec => []WriteAhead                          *)
(*   AuthorisedHolds         Spec => []Authorised                          *)
(*   GuardExactHolds         Spec => []GuardExact                          *)
(*   NoReplayHolds           Spec => []NoReplay                            *)
(*   ReceiptsTruthfulHolds   Spec => []ReceiptsTruthful                    *)
(*   TranscriptIsReplayHolds Spec => []TranscriptIsReplay                  *)
(*   TranscriptClosedHolds   Spec => []TranscriptClosed                    *)
(*   StatusTruthfulHolds     ServerSpec => []StatusTruthful                *)
(*   CancelHonouredHolds     ServerSpec => CancelHonoured                  *)
(*   ServerKeepsRuntime      the invariants above, of ServerSpec           *)
(*   NoEscalationHolds       ChainSpec => []NoEscalation                   *)
(*                                                                         *)
(* The inductive invariant adds to the first three what a run at each      *)
(* label has behind it: RunOK.  GuardExact is inductive over it.           *)
(*                                                                         *)
(* NoReplay and ReceiptsTruthful are about the marks of a call, its        *)
(* ToolExecutionStarted and its receipt.  OnceInv says of every run which  *)
(* marks it may still write, and that the log has none of them; the exact  *)
(* guard keeps all other runs off its thread.  TruthInv says of every      *)
(* receipt, wherever it is on its way to the log, what it rests on, and    *)
(* needs from OnceInv that no start follows a receipt.                     *)
(*                                                                         *)
(* ScriptInv says that the transcript of a run is the replay of the log    *)
(* and of the message queued behind it.  ClosedInv says of every call that *)
(* the log asks for that the log answers it, or that recovery or the queue *)
(* is about to, or that the run is still on that iteration.  A turn is     *)
(* Sealed once it has been cancelled in time; it has then no way to        *)
(* complete.  ServerInv adds to the invariants of the runtime what its     *)
(* host knows of each turn.  Both the runtime and its host take steps of   *)
(* Core, so what Core keeps holds under either.                            *)
(***************************************************************************)
EXTENDS AppServer, Delegation, WellFoundedInduction, TLAPS

-----------------------------------------------------------------------------
(* The inductive invariant.                                                *)

\* Where a run in local state s is, or is going once its appends are done.
At(s) == IF s.pc = "append" THEN s.then ELSE s.pc

\* Labels inside handle_tool_call, and those past a successful preparation.
Handling == {"handle", "gate", "approval", "execute", "running", "after"}
Prepared == {"gate", "approval", "execute", "running"}

\* The event of the given type about the call that run r handles in state s.
CallEventIn(type, r, s) == Event(type, s.thread, r, s.calls[s.index].id, s.action)

\* The events that no crash can take away.
DurableEvents == {log[i] : i \in 1..synced}

\* durable has the approval of the action, if the projection asks for one.
Approved(r, s, durable) ==
    AccessIn(Capabilities, s.action.tool) = "ask" =>
        CallEventIn("approval_resolved", r, s) \in durable

\* What run r in local state s has behind it, given the durable events.
RunOK(r, s, durable) ==
    /\ s.pc # "idle" => s.thread \in Threads
    /\ s.pc = "append" => s.todo # <<>> /\ s.then \in Labels \cup {"return"}
    /\ At(s) \in Handling => s.index \in DOMAIN s.calls
    /\ At(s) \in Prepared =>
          /\ s.action \in CanonicalAction
          /\ s.action.tool = s.calls[s.index].name
          /\ MayPrepare(s.action.tool)
    /\ s.pc = "execute" =>
          CallEventIn("started", r, s) \in durable /\ Approved(r, s, durable)
    /\ s.pc = "append" /\ s.then = "execute" =>
          \/ /\ s.todo = <<CallEventIn("started", r, s)>>
             /\ Approved(r, s, durable)
          \/ s.todo = <<CallEventIn("approval_resolved", r, s),
                        CallEventIn("started", r, s)>>

RunsOK == \A r \in Runs : RunOK(r, run[r], DurableEvents)

IInv == TypeOK /\ RunsOK /\ WriteAhead /\ Authorised

-----------------------------------------------------------------------------
(* A step of the runtime, whoever drives it: the specification of          *)
(* AgentRuntime, or the control plane of AppServer, which cancels a token  *)
(* also before its turn has begun.                                         *)

\* The events of the log.
Records == {log[i] : i \in DOMAIN log}

\* A run begins on a thread that has no event of it, whatever its token says.
Begins(r, th) ==
    /\ run[r].pc = "idle"
    /\ \A e \in Records : e.thread = th /\ e.turn \in Turns => e.turn # r
    /\ Acquire(r, th)
    /\ cancelled' \subseteq Turns

\* Nothing but tokens changes.
Signals ==
    /\ cancelled' \subseteq Turns
    /\ UNCHANGED <<storeVars, run, transcript, active, crossed, answers, faults>>

Core ==
    \/ \E th \in Threads : StartThread(th) \/ \E r \in Runs : Begins(r, th)
    \/ \E r \in Runs : RunStep(r) \/ AppendFail(r)
    \/ \E t \in Turns :
          TurnStep(t) \/ (\E decision \in Decisions : Approval(t, decision)) \/ Drop(t)
    \/ Restart
    \/ Signals

\* Every step of the specification is one of these.
LEMMA NextIsCore == TypeOK /\ [Next]_vars => Core
<1> SUFFICES ASSUME TypeOK, [Next]_vars PROVE Core
  OBVIOUS
<1>1. ASSUME NEW th \in Threads, NEW t \in Turns, BeginTurn(t, th) PROVE Begins(t, th)
  BY <1>1 DEF BeginTurn, Begins, Records, TypeOK
<1>2. ASSUME NEW th \in Threads, NEW r \in Recoveries, BeginRecover(r, th) PROVE Begins(r, th)
  BY <1>2, RunsAssumption DEF BeginRecover, Begins, TypeOK
<1>3. ASSUME NEW t \in Turns, Cancel(t) PROVE Signals
  BY <1>3 DEF Cancel, Signals, TypeOK
<1>4. ASSUME UNCHANGED vars PROVE Signals
  BY <1>4 DEF vars, Signals, storeVars, TypeOK
<1>5. ASSUME NEW th \in Threads,
             \/ StartThread(th)
             \/ \E t \in Turns : BeginTurn(t, th)
             \/ \E r \in Recoveries : BeginRecover(r, th)
      PROVE  Core
  <2>1. StartThread(th) \/ \E r \in Runs : Begins(r, th)
    BY <1>1, <1>2, <1>5 DEF Runs
  <2> QED
    BY <2>1 DEF Core
<1>6. ASSUME NEW r \in Runs, RunStep(r) \/ AppendFail(r) PROVE Core
  BY <1>6 DEF Core
<1>7. ASSUME NEW t \in Turns,
             TurnStep(t) \/ (\E decision \in Decisions : Approval(t, decision)) \/ Drop(t)
      PROVE  Core
  BY <1>7 DEF Core
<1>8. ASSUME NEW t \in Turns, Cancel(t) PROVE Core
  BY <1>3, <1>8 DEF Core
<1>9. CASE Restart \/ UNCHANGED vars
  BY <1>4, <1>9 DEF Core
<1> QED
  BY <1>5, <1>6, <1>7, <1>8, <1>9 DEF Next

-----------------------------------------------------------------------------
(* Types of the helper operators.                                          *)

\* What recovery finds missing is a set of well-formed receipts.
LEMMA MissingReceiptsType ==
    ASSUME NEW th \in Threads, log \in Seq(Events)
    PROVE  MissingReceipts(log, th) \subseteq ReceiptEvents
<1>1. \A type \in {"started", "prepared"} : \A i \in Places(log, th, type) :
         log[i] \in ActionEvents
  BY DEF Places, Events, PlainEvents, AssistantEvents, ActionEvents, ResolvedEvents,
         ReceiptEvents, Terminal
<1>2. ASSUME NEW type \in {"started", "prepared"}, NEW how \in {"failed", "unknown"},
             NEW keys
      PROVE  ReceiptsFor(log, th, keys, type, how) \subseteq ReceiptEvents
  <2>1. \A i \in Places(log, th, type) :
           Receipt(th, log[i].turn, log[i].call, how, log[i].data) \in ReceiptEvents
    BY <1>1 DEF Receipt, Event, ReceiptEvents, ActionEvents
  <2> QED
    BY <2>1 DEF ReceiptsFor
<1>3. \A key \in AcceptedKeys(log, th) :
         Receipt(th, key[1], key[2], "failed", None) \in ReceiptEvents
  BY DEF AcceptedKeys, Receipt, Event, ReceiptEvents
<1> QED
  BY <1>2, <1>3 DEF MissingReceipts

\* The events that fail interrupted turns are well formed.
LEMMA RecoveryFailuresType ==
    ASSUME NEW th \in Threads
    PROVE  RecoveryFailures(log, th) \subseteq PlainEvents
BY DEF RecoveryFailures, OpenTurns, TurnEvent, Event, PlainEvents, Terminal

\* An event about a turn as a whole is well formed.
LEMMA TurnEventType ==
    ASSUME NEW th \in Threads, NEW t \in Turns,
           NEW type \in {"turn_started", "user", "context", "request", "hook_failed"}
                            \cup Terminal
    PROVE  TurnEvent(type, th, t) \in PlainEvents
BY DEF TurnEvent, Event, PlainEvents

\* The denied receipts of a sequence of calls are well formed.
LEMMA DeniedType ==
    ASSUME NEW th \in Threads, NEW t \in Turns, NEW calls \in Seq(ToolCall)
    PROVE  Denied(th, t, calls) \in Seq(Events)
<1>1. \A i \in 1..Len(calls) : calls[i].id \in Calls
  <2>1. \A i \in 1..Len(calls) : calls[i] \in ToolCall
    OBVIOUS
  <2> QED
    BY <2>1 DEF ToolCall
<1>2. \A i \in 1..Len(calls) : Receipt(th, t, calls[i].id, "denied", None) \in ReceiptEvents
  BY <1>1 DEF Receipt, Event, ReceiptEvents
<1> QED
  BY <1>2 DEF Denied, Events

-----------------------------------------------------------------------------
(* Frames.                                                                 *)

\* What is durable in this state is still in the log, and durable, in the next.
PrefixKept == /\ synced' \in Nat
              /\ synced <= synced'
              /\ \A i \in 1..synced : log'[i] = log[i]

\* Every step of the store keeps the durable prefix, and the types.
LEMMA StoreStepKeeps ==
    ASSUME log \in Seq(Events), synced \in 0..Len(log), pending \in Seq(Events),
           broken \in BOOLEAN,
           \/ \E e \in Events : StoreAppend(e) \/ StoreFail(e)
           \/ StoreReopen
           \/ UNCHANGED storeVars
    PROVE  /\ PrefixKept
           /\ log' \in Seq(Events) /\ synced' \in 0..Len(log')
           /\ pending' \in Seq(Events) /\ broken' \in BOOLEAN
<1>1. CASE \E e \in Events : StoreAppend(e)
  BY <1>1 DEF StoreAppend, PrefixKept
<1>2. CASE \E e \in Events : StoreFail(e)
  <2>1. PICK e \in Events : StoreFail(e)
    BY <1>2
  <2>2. <<>> \in Seq(Events) /\ <<e>> \in Seq(Events)
    OBVIOUS
  <2>3. log' = log /\ synced' = synced /\ broken' = TRUE /\ pending' \in Seq(Events)
    BY <2>1, <2>2 DEF StoreFail
  <2> QED
    BY <2>3 DEF PrefixKept
<1>3. CASE StoreReopen
  <2> DEFINE file == log \o pending
  <2>1. PICK k \in synced..Len(log) + Len(pending) : log' = SubSeq(file, 1, k)
    BY <1>3 DEF StoreReopen
  <2>2. file \in Seq(Events) /\ Len(file) = Len(log) + Len(pending)
    OBVIOUS
  <2>3. \A i \in 1..Len(log) : file[i] = log[i]
    OBVIOUS
  <2> HIDE DEF file
  <2>4. k \in 0..Len(file) /\ k >= synced
    BY <2>2
  <2>5. log' \in Seq(Events) /\ Len(log') = k /\ \A i \in 1..k : log'[i] = file[i]
    BY <2>1, <2>2, <2>4
  <2>6. synced' = synced /\ pending' = <<>> /\ broken' = FALSE
    BY <1>3 DEF StoreReopen
  <2>7. PrefixKept
    BY <2>3, <2>4, <2>5, <2>6 DEF PrefixKept
  <2>8. pending' \in Seq(Events) /\ synced' \in 0..Len(log')
    BY <2>4, <2>5, <2>6
  <2>9. broken' \in BOOLEAN
    BY <2>6
  <2> QED
    BY <2>5, <2>7, <2>8, <2>9
<1>4. CASE UNCHANGED storeVars
  BY <1>4 DEF storeVars, PrefixKept
<1> QED
  BY <1>1, <1>2, <1>3, <1>4

\* Durable events stay durable.
LEMMA DurableKept ==
    ASSUME synced \in Nat, PrefixKept
    PROVE  DurableEvents \subseteq DurableEvents'
BY DEF PrefixKept, DurableEvents

\* What a run has behind it stays behind it as the durable events grow.
LEMMA RunOKGrows ==
    ASSUME NEW r, NEW s, NEW D, NEW E, D \subseteq E, RunOK(r, s, D)
    PROVE  RunOK(r, s, E)
BY DEF RunOK, Approved

-----------------------------------------------------------------------------
(* Preservation.                                                           *)

\* A step that changes the state of one run and leaves the store alone
\* preserves the invariant if the new state is well typed and has what its
\* label needs behind it.
LEMMA LocalStep ==
    ASSUME IInv, NEW r \in Runs, NEW s \in RunStates,
           RunOK(r, s, DurableEvents),
           run' = [run EXCEPT ![r] = s],
           UNCHANGED <<storeVars, active, cancelled, crossed, answers, faults>>
    PROVE  IInv'
<1>1. DurableEvents' = DurableEvents
  BY DEF DurableEvents, storeVars
<1>2. TypeOK'
  BY DEF IInv, TypeOK, storeVars
<1>3. RunsOK'
  BY <1>1 DEF IInv, RunsOK, TypeOK
<1>4. WriteAhead' /\ Authorised'
  BY DEF IInv, WriteAhead, Authorised, IsAbout, storeVars
<1> QED
  BY <1>2, <1>3, <1>4 DEF IInv

\* Going on to append events keeps the shape of a run's state.
LEMMA EmitType ==
    ASSUME NEW s \in RunStates, NEW events \in Seq(Events),
           NEW then \in Labels \cup {"return"}
    PROVE  Emit(s, events, then) \in RunStates
BY DEF Emit, RunStates

\* A run that ends its turn needs nothing behind it.
LEMMA EndTurnKeeps ==
    ASSUME IInv, NEW r \in Runs, run[r].pc # "idle",
           NEW events \in Seq(Events), events # <<>>, EndTurn(r, events)
    PROVE  IInv'
<1> DEFINE s == Emit(run[r], events, "return")
<1>1. run[r] \in RunStates
  BY DEF IInv, TypeOK
<1>2. s \in RunStates
  BY <1>1, EmitType
<1>3. RunOK(r, run[r], DurableEvents)
  BY DEF IInv, RunsOK
<1>4. s.pc = "append" /\ s.then = "return" /\ s.todo = events /\ s.thread = run[r].thread
  BY <1>1 DEF Emit, RunStates
<1>5. run[r].thread \in Threads
  BY <1>3 DEF RunOK
<1> HIDE DEF s
<1>6. RunOK(r, s, DurableEvents)
  BY <1>4, <1>5 DEF RunOK, At, Handling, Prepared
<1> QED
  BY <1>2, <1>6, LocalStep DEF EndTurn, Step, s

\* Going on to append events towards a label that needs nothing behind it.
LEMMA EmitKeeps ==
    ASSUME IInv, NEW r \in Runs, NEW s \in RunStates, s.thread \in Threads,
           NEW events \in Seq(Events), events # <<>>,
           NEW then \in Labels \ (Handling \cup {"execute"}),
           run' = [run EXCEPT ![r] = Emit(s, events, then)],
           UNCHANGED <<storeVars, active, cancelled, crossed, answers, faults>>
    PROVE  IInv'
<1> DEFINE n == Emit(s, events, then)
<1>1. n \in RunStates
  BY EmitType
<1>2. n.pc = "append" /\ n.then = then /\ n.todo = events /\ n.thread = s.thread
  BY DEF Emit, RunStates
<1> HIDE DEF n
<1>3. RunOK(r, n, DurableEvents)
  BY <1>2 DEF RunOK, At, Handling, Prepared
<1> QED
  BY <1>1, <1>3, LocalStep DEF n

\* The receipt that closes the call a run handles.
LEMMA ReceiptType ==
    ASSUME NEW t \in Turns, NEW s \in RunStates, s.thread \in Threads,
           s.index \in DOMAIN s.calls,
           NEW how \in {"succeeded", "failed", "denied", "unknown"},
           NEW action \in CanonicalAction \cup {None}
    PROVE  Receipt(s.thread, t, s.calls[s.index].id, how, action) \in ReceiptEvents
<1>1. s.calls[s.index] \in ToolCall
  BY DEF RunStates
<1> QED
  BY <1>1 DEF Receipt, Event, ReceiptEvents, ToolCall

\* handle_tool_call returns with a receipt.
LEMMA CloseCallKeeps ==
    ASSUME IInv, NEW t \in Turns, run[t].pc # "idle",
           NEW events \in Seq(Events), events # <<>>, CloseCall(t, events)
    PROVE  IInv'
<1> DEFINE s == [run[t] EXCEPT !.action = None, !.index = @ + 1]
<1>0. t \in Runs
  BY DEF Runs
<1>1. run[t] \in RunStates
  BY <1>0 DEF IInv, TypeOK
<1>2. run[t].thread \in Threads
  BY <1>0 DEF IInv, RunsOK, RunOK
<1>3. s \in RunStates /\ s.thread \in Threads
  <2>1. run[t].index + 1 \in Nat \ {0}
    BY <1>1 DEF RunStates
  <2>2. s = [run[t] EXCEPT !.action = None, !.index = run[t].index + 1]
    OBVIOUS
  <2> QED
    BY <1>1, <1>2, <2>1, <2>2 DEF RunStates
<1>4. [Emit(run[t], events, "call") EXCEPT !.action = None, !.index = @ + 1]
         = Emit(s, events, "call")
  BY <1>1 DEF Emit, RunStates
<1>5. "call" \in Labels \ (Handling \cup {"execute"})
  BY DEF Labels, Handling
<1> HIDE DEF s
<1>6. run' = [run EXCEPT ![t] = Emit(s, events, "call")]
  BY <1>4 DEF CloseCall, StepPush
<1>7. UNCHANGED <<storeVars, active, cancelled, crossed, answers, faults>>
  BY DEF CloseCall, StepPush
<1> QED
  BY <1>0, <1>3, <1>5, <1>6, <1>7, EmitKeeps

\* A run that is not working needs nothing behind it.
LEMMA IdleOK ==
    /\ Idle \in RunStates
    /\ \A r, D : RunOK(r, Idle, D)
<1>1. Idle \in RunStates
  BY DEF Idle, RunStates
<1>2. Idle.pc = "idle"
  BY DEF Idle
<1> QED
  BY <1>1, <1>2 DEF RunOK, At, Handling, Prepared

\* A step of the store and of any number of runs.
LEMMA StoreStep ==
    ASSUME IInv,
           \/ \E e \in Events : StoreAppend(e) \/ StoreFail(e)
           \/ StoreReopen
           \/ UNCHANGED storeVars,
           run' \in [Runs -> RunStates],
           \A q \in Runs : run'[q] = run[q] \/ RunOK(q, run'[q], DurableEvents'),
           active' \subseteq Threads, cancelled' \subseteq Turns,
           UNCHANGED <<crossed, answers>>, faults' \in 0..MaxFaults
    PROVE  IInv'
<1>1. /\ PrefixKept
      /\ log' \in Seq(Events) /\ synced' \in 0..Len(log')
      /\ pending' \in Seq(Events) /\ broken' \in BOOLEAN
  BY StoreStepKeeps DEF IInv, TypeOK
<1>2. synced \in Nat
  BY DEF IInv, TypeOK
<1>3. TypeOK'
  BY <1>1 DEF IInv, TypeOK
<1>4. DurableEvents \subseteq DurableEvents'
  BY <1>1, <1>2, DurableKept
<1>5. RunsOK'
  BY <1>4, RunOKGrows DEF IInv, RunsOK
<1>6. WriteAhead'
  <2> SUFFICES ASSUME NEW c \in crossed
               PROVE  \E i \in 1..synced' : /\ IsAbout(i, "started", c)'
                                            /\ log'[i].data = c.action
    BY DEF WriteAhead
  <2>1. PICK i \in 1..synced : IsAbout(i, "started", c) /\ log[i].data = c.action
    BY DEF IInv, WriteAhead
  <2>2. i \in 1..synced' /\ log'[i] = log[i]
    BY <1>1, <1>2 DEF PrefixKept
  <2> QED
    BY <2>1, <2>2 DEF IsAbout
<1>7. Authorised'
  <2> SUFFICES ASSUME NEW c \in crossed, AccessIn(Capabilities, c.action.tool) = "ask"
               PROVE  \E i \in 1..synced' : /\ IsAbout(i, "approval_resolved", c)'
                                            /\ log'[i].data = c.action
    BY DEF IInv, Authorised
  <2>1. PICK i \in 1..synced :
           IsAbout(i, "approval_resolved", c) /\ log[i].data = c.action
    BY DEF IInv, Authorised
  <2>2. i \in 1..synced' /\ log'[i] = log[i]
    BY <1>1, <1>2 DEF PrefixKept
  <2> QED
    BY <2>1, <2>2 DEF IsAbout
<1> QED
  BY <1>3, <1>5, <1>6, <1>7 DEF IInv

\* A step of the store with which one run returns.
LEMMA LeaveKeeps ==
    ASSUME IInv, NEW r \in Runs, Leave(r),
           \/ \E e \in Events : StoreAppend(e) \/ StoreFail(e)
           \/ UNCHANGED storeVars,
           UNCHANGED <<cancelled, crossed, answers>>, faults' \in 0..MaxFaults
    PROVE  IInv'
<1>1. run' = [run EXCEPT ![r] = Idle] /\ active' \subseteq active
  BY DEF Leave
<1>2. run' \in [Runs -> RunStates]
  BY <1>1, IdleOK DEF IInv, TypeOK
<1>3. \A q \in Runs : run'[q] = run[q] \/ RunOK(q, run'[q], DurableEvents')
  BY <1>1, IdleOK DEF IInv, TypeOK
<1>4. active' \subseteq Threads /\ cancelled' \subseteq Turns
  BY <1>1 DEF IInv, TypeOK
<1> QED
  BY <1>2, <1>3, <1>4, StoreStep

-----------------------------------------------------------------------------
(* One lemma per action.                                                   *)

\* start_thread: the thread_started event is appended, or its append fails.
LEMMA StartThreadKeeps ==
    ASSUME IInv, NEW th \in Threads, StartThread(th)
    PROVE  IInv'
<1> DEFINE e == Event("thread_started", th, None, None, None)
<1>1. e \in Events
  BY DEF Event, Events, PlainEvents
<1>2. /\ StoreAppend(e) \/ StoreFail(e)
      /\ faults' \in 0..MaxFaults
  BY BoundsAssumption DEF StartThread, IInv, TypeOK
<1>3. UNCHANGED <<run, active, cancelled, crossed, answers>>
  BY DEF StartThread
<1> HIDE DEF e
<1>4. /\ run' \in [Runs -> RunStates]
      /\ \A q \in Runs : run'[q] = run[q]
      /\ active' \subseteq Threads /\ cancelled' \subseteq Turns
  BY <1>3 DEF IInv, TypeOK
<1> QED
  BY <1>1, <1>2, <1>3, <1>4, StoreStep

\* acquire_thread and the scan of recover_thread.
LEMMA AcquireKeeps ==
    ASSUME IInv, NEW r \in Runs, NEW th \in Threads, Acquire(r, th),
           cancelled' \subseteq Turns
    PROVE  IInv'
<1> DEFINE s == [Idle EXCEPT !.pc = "recover", !.thread = th,
                             !.receipts = MissingReceipts(log, th),
                             !.failures = RecoveryFailures(log, th)]
<1>1. MissingReceipts(log, th) \subseteq ReceiptEvents
  BY MissingReceiptsType DEF IInv, TypeOK
<1>2. RecoveryFailures(log, th) \subseteq PlainEvents
  BY RecoveryFailuresType
<1>3. s \in RunStates
  <2> HIDE DEF MissingReceipts, RecoveryFailures
  <2> QED
    BY <1>1, <1>2, IdleOK DEF RunStates, Labels
<1>4. s.pc = "recover" /\ s.thread = th
  BY IdleOK DEF RunStates
<1>5. run' = [run EXCEPT ![r] = s]
  BY DEF Acquire
<1>6. active' \subseteq Threads /\ UNCHANGED <<storeVars, crossed, answers, faults>>
  BY DEF Acquire, IInv, TypeOK
<1> HIDE DEF s
<1>7. RunOK(r, s, DurableEvents')
  BY <1>4 DEF RunOK, At, Handling, Prepared
<1>8. /\ run' \in [Runs -> RunStates]
      /\ \A q \in Runs : run'[q] = run[q] \/ RunOK(q, run'[q], DurableEvents')
  BY <1>3, <1>5, <1>7 DEF IInv, TypeOK
<1>9. faults' \in 0..MaxFaults
  BY <1>6 DEF IInv, TypeOK
<1> QED
  BY <1>6, <1>8, <1>9, StoreStep

\* recover_thread goes on to append one of the events it found missing.
LEMMA RecoverAppendKeeps ==
    ASSUME IInv, NEW r \in Runs, RecoverAppend(r)
    PROVE  IInv'
<1>1. run[r] \in RunStates /\ run[r].thread \in Threads
  BY DEF IInv, TypeOK, RunsOK, RunOK, RecoverAppend
<1>2. PICK e \in run[r].receipts \cup run[r].failures, n \in RunStates :
         n.thread = run[r].thread /\ Step(r, Emit(n, <<e>>, "recover"))
  <2>1. CASE \E e \in run[r].receipts :
          Step(r, Emit([run[r] EXCEPT !.receipts = @ \ {e}], <<e>>, "recover"))
    <3>1. PICK e \in run[r].receipts :
             Step(r, Emit([run[r] EXCEPT !.receipts = @ \ {e}], <<e>>, "recover"))
      BY <2>1
    <3>2. /\ [run[r] EXCEPT !.receipts = @ \ {e}] \in RunStates
          /\ [run[r] EXCEPT !.receipts = @ \ {e}].thread = run[r].thread
      BY <1>1 DEF RunStates
    <3> QED
      BY <3>1, <3>2
  <2>2. CASE \E e \in run[r].failures :
          Step(r, Emit([run[r] EXCEPT !.failures = @ \ {e}], <<e>>, "recover"))
    <3>1. PICK e \in run[r].failures :
             Step(r, Emit([run[r] EXCEPT !.failures = @ \ {e}], <<e>>, "recover"))
      BY <2>2
    <3>2. /\ [run[r] EXCEPT !.failures = @ \ {e}] \in RunStates
          /\ [run[r] EXCEPT !.failures = @ \ {e}].thread = run[r].thread
      BY <1>1 DEF RunStates
    <3> QED
      BY <3>1, <3>2
  <2> QED
    BY <2>1, <2>2 DEF RecoverAppend
<1>3. e \in Events
  BY <1>1, <1>2 DEF RunStates, Events
<1>4. <<e>> \in Seq(Events) /\ <<e>> # <<>>
  BY <1>3
<1>5. "recover" \in Labels \ (Handling \cup {"execute"})
  BY DEF Labels, Handling
<1>6. /\ run' = [run EXCEPT ![r] = Emit(n, <<e>>, "recover")]
      /\ UNCHANGED <<storeVars, active, cancelled, crossed, answers, faults>>
  BY <1>2 DEF Step
<1> QED
  BY <1>1, <1>2, <1>4, <1>5, <1>6, EmitKeeps

\* What the invariant says of a turn that is running.
LEMMA TurnFacts ==
    ASSUME IInv, NEW t \in Turns, run[t].pc # "idle"
    PROVE  /\ t \in Runs
           /\ run[t] \in RunStates
           /\ run[t].thread \in Threads
           /\ RunOK(t, run[t], DurableEvents)
<1>1. t \in Runs
  BY DEF Runs
<1> QED
  BY <1>1 DEF IInv, TypeOK, RunsOK, RunOK

\* recover_thread is done: the turn starts, or recover returns.
LEMMA RecoveredKeeps ==
    ASSUME IInv, NEW r \in Runs, Recovered(r)
    PROVE  IInv'
<1>1. CASE r \in Turns
  <2> DEFINE events == <<TurnOf("turn_started", r), TurnOf("user", r)>>
  <2>1. run[r].pc # "idle"
    BY DEF Recovered
  <2>2. run[r] \in RunStates /\ run[r].thread \in Threads
    BY <1>1, <2>1, TurnFacts
  <2>3. TurnOf("turn_started", r) \in Events /\ TurnOf("user", r) \in Events
    BY <1>1, <2>2, TurnEventType DEF TurnOf, Events
  <2>4. events \in Seq(Events) /\ events # <<>>
    BY <2>3
  <2>5. "load" \in Labels \ (Handling \cup {"execute"})
    BY DEF Labels, Handling
  <2>6. /\ run' = [run EXCEPT ![r] = Emit(run[r], events, "load")]
        /\ UNCHANGED <<storeVars, active, cancelled, crossed, answers, faults>>
    BY <1>1 DEF Recovered, Step
  <2> HIDE DEF events
  <2> QED
    BY <2>2, <2>4, <2>5, <2>6, EmitKeeps
<1>2. CASE r \notin Turns
  <2>1. Leave(r) /\ UNCHANGED <<storeVars, cancelled, crossed, answers, faults>>
    BY <1>2 DEF Recovered
  <2>2. faults' \in 0..MaxFaults
    BY <2>1 DEF IInv, TypeOK
  <2> QED
    BY <2>1, <2>2, LeaveKeeps
<1> QED
  BY <1>1, <1>2

\* The transcript is rebuilt and the loop begins.
LEMMA LoadKeeps ==
    ASSUME IInv, NEW t \in Turns, Load(t)
    PROVE  IInv'
<1> DEFINE s == [run[t] EXCEPT !.pc = "loop"]
<1>1. run[t].pc # "idle"
  BY DEF Load
<1>2. t \in Runs /\ run[t] \in RunStates /\ run[t].thread \in Threads
  BY <1>1, TurnFacts
<1>3. s \in RunStates /\ s.pc = "loop" /\ s.thread = run[t].thread
  BY <1>2 DEF RunStates, Labels
<1>4. /\ run' = [run EXCEPT ![t] = s]
      /\ UNCHANGED <<storeVars, active, cancelled, crossed, answers, faults>>
  BY <1>2 DEF Load
<1> HIDE DEF s
<1>5. RunOK(t, s, DurableEvents)
  BY <1>2, <1>3 DEF RunOK, At, Handling, Prepared
<1> QED
  BY <1>2, <1>3, <1>4, <1>5, LocalStep

\* The head of the loop ends the turn or goes on to the model.
LEMMA LoopKeeps ==
    ASSUME IInv, NEW t \in Turns, Loop(t)
    PROVE  IInv'
<1>1. run[t].pc # "idle"
  BY DEF Loop
<1>2. t \in Runs /\ run[t] \in RunStates /\ run[t].thread \in Threads
  BY <1>1, TurnFacts
<1>3. \A type \in {"context", "request", "hook_failed"} \cup Terminal :
         TurnOf(type, t) \in Events
  BY <1>2, TurnEventType DEF TurnOf, Events
<1>4. ASSUME EndTurn(t, <<TurnOf("turn_failed", t)>>)
             \/ EndTurn(t, <<TurnOf("turn_cancelled", t)>>)
             \/ EndTurn(t, <<TurnOf("hook_failed", t), TurnOf("turn_failed", t)>>)
      PROVE  IInv'
  <2>1. /\ <<TurnOf("turn_failed", t)>> \in Seq(Events)
        /\ <<TurnOf("turn_cancelled", t)>> \in Seq(Events)
        /\ <<TurnOf("hook_failed", t), TurnOf("turn_failed", t)>> \in Seq(Events)
    BY <1>3 DEF Terminal
  <2> QED
    BY <1>1, <1>2, <1>4, <2>1, EndTurnKeeps
<1>5. ASSUME Step(t, Emit(run[t], <<TurnOf("context", t), TurnOf("request", t)>>, "model"))
      PROVE  IInv'
  <2>1. <<TurnOf("context", t), TurnOf("request", t)>> \in Seq(Events)
    BY <1>3
  <2>2. "model" \in Labels \ (Handling \cup {"execute"})
    BY DEF Labels, Handling
  <2> QED
    BY <1>2, <1>5, <2>1, <2>2, EmitKeeps DEF Step
<1> QED
  BY <1>4, <1>5 DEF Loop

\* The model failed: the turn ends.
LEMMA ModelErrorKeeps ==
    ASSUME IInv, NEW t \in Turns, ModelError(t)
    PROVE  IInv'
<1> DEFINE type == IF t \in cancelled THEN "turn_cancelled" ELSE "turn_failed"
<1>1. run[t].pc # "idle" /\ EndTurn(t, <<TurnOf(type, t)>>)
  BY DEF ModelError
<1>2. t \in Runs /\ run[t].thread \in Threads
  BY <1>1, TurnFacts
<1>3. type \in Terminal
  BY DEF Terminal
<1> HIDE DEF type
<1>4. TurnOf(type, t) \in Events
  BY <1>2, <1>3, TurnEventType DEF TurnOf, Events
<1>5. <<TurnOf(type, t)>> \in Seq(Events) /\ <<TurnOf(type, t)>> # <<>>
  BY <1>4
<1> QED
  BY <1>1, <1>2, <1>5, EndTurnKeeps

\* The model answered: the turn ends, or goes on with the response accepted.
LEMMA ModelResponseKeeps ==
    ASSUME IInv, NEW t \in Turns, NEW calls \in Responses, NEW stop \in StopReasons,
           ModelResponse(t, calls, stop)
    PROVE  IInv'
<1> DEFINE message == AssistantMessage(run[t].thread, t, calls)
           ids == {calls[i].id : i \in DOMAIN calls}
           s == [run[t] EXCEPT !.calls = calls, !.stop = stop,
                               !.seen = run[t].seen \cup ids]
<1>1. run[t].pc # "idle"
  BY DEF ModelResponse
<1>2. t \in Runs /\ run[t] \in RunStates /\ run[t].thread \in Threads
  BY <1>1, TurnFacts
<1>3. calls \in Seq(ToolCall)
  <2>1. PICK n \in 0..MaxCalls : calls \in [1..n -> ToolCall]
    BY DEF Responses
  <2> QED
    BY <2>1, BoundsAssumption
<1>4. CASE ~ValidCalls(calls, run[t].seen)
  <2>1. TurnOf("turn_failed", t) \in Events
    BY <1>2, TurnEventType DEF TurnOf, Events, Terminal
  <2>2. <<TurnOf("turn_failed", t)>> \in Seq(Events) /\ <<TurnOf("turn_failed", t)>> # <<>>
    BY <2>1
  <2> QED
    BY <1>1, <1>2, <1>4, <2>2, EndTurnKeeps DEF ModelResponse
<1>5. CASE ValidCalls(calls, run[t].seen)
  <2>1. ids \subseteq Calls
    <3>1. \A i \in DOMAIN calls : calls[i] \in ToolCall
      BY <1>3
    <3> QED
      BY <3>1 DEF ToolCall
  <2>2. message \in Events
    BY <1>2, <1>3 DEF AssistantMessage, Event, Events, AssistantEvents
  <2>3. StepPush(t, [Emit(run[t], <<message>>, "decide") EXCEPT
                       !.calls = calls, !.stop = stop, !.seen = @ \cup ids], message)
    BY <1>5 DEF ModelResponse
  <2> HIDE DEF message, ids
  <2>4. run[t].seen \cup ids \in SUBSET Calls
    BY <1>2, <2>1 DEF RunStates
  <2>5. s \in RunStates /\ s.thread \in Threads
    BY <1>2, <1>3, <2>4 DEF RunStates
  <2>6. [Emit(run[t], <<message>>, "decide") EXCEPT
            !.calls = calls, !.stop = stop, !.seen = @ \cup ids]
          = Emit(s, <<message>>, "decide")
    BY <1>2 DEF Emit, RunStates
  <2> HIDE DEF s
  <2>7. /\ run' = [run EXCEPT ![t] = Emit(s, <<message>>, "decide")]
        /\ UNCHANGED <<storeVars, active, cancelled, crossed, answers, faults>>
    BY <2>3, <2>6 DEF StepPush
  <2>8. <<message>> \in Seq(Events) /\ <<message>> # <<>>
    BY <2>2
  <2>9. "decide" \in Labels \ (Handling \cup {"execute"})
    BY DEF Labels, Handling
  <2> QED
    BY <1>2, <2>5, <2>7, <2>8, <2>9, EmitKeeps
<1> QED
  BY <1>4, <1>5

\* A turn that ends after closing some of its calls as denied.
LEMMA EndDeniedKeeps ==
    ASSUME IInv, NEW t \in Turns, run[t].pc # "idle", NEW calls \in Seq(ToolCall),
           NEW type \in Terminal,
           EndTurn(t, Append(Denied(run[t].thread, t, calls), TurnOf(type, t)))
    PROVE  IInv'
<1>1. t \in Runs /\ run[t].thread \in Threads
  BY TurnFacts
<1>2. TurnOf(type, t) \in Events
  BY <1>1, TurnEventType DEF TurnOf, Events
<1>3. Denied(run[t].thread, t, calls) \in Seq(Events)
  BY <1>1, DeniedType
<1>4. /\ Append(Denied(run[t].thread, t, calls), TurnOf(type, t)) \in Seq(Events)
      /\ Append(Denied(run[t].thread, t, calls), TurnOf(type, t)) # <<>>
  BY <1>2, <1>3
<1> QED
  BY <1>1, <1>4, EndTurnKeeps

\* The accepted response ends the turn or leads to its first call.
LEMMA DecideKeeps ==
    ASSUME IInv, NEW t \in Turns, Decide(t)
    PROVE  IInv'
<1> DEFINE s == [run[t] EXCEPT !.pc = "call", !.stop = None, !.index = 1]
<1>1. run[t].pc # "idle"
  BY DEF Decide
<1>2. t \in Runs /\ run[t] \in RunStates /\ run[t].thread \in Threads
  BY <1>1, TurnFacts
<1>3. run[t].calls \in Seq(ToolCall)
  BY <1>2 DEF RunStates
<1>4. CASE \E type \in Terminal :
        EndTurn(t, Append(Denied(run[t].thread, t, run[t].calls), TurnOf(type, t)))
  BY <1>1, <1>3, <1>4, EndDeniedKeeps
<1>5. CASE EndTurn(t, <<TurnOf("turn_completed", t)>>)
  <2>1. TurnOf("turn_completed", t) \in Events
    BY <1>2, TurnEventType DEF TurnOf, Events, Terminal
  <2>2. /\ <<TurnOf("turn_completed", t)>> \in Seq(Events)
        /\ <<TurnOf("turn_completed", t)>> # <<>>
    BY <2>1
  <2> QED
    BY <1>1, <1>2, <1>5, <2>2, EndTurnKeeps
<1>6. CASE Step(t, s)
  <2>0. 1 \in Nat \ {0} /\ None \in StopReasons \cup {None} /\ "call" \in Labels
    BY DEF Labels
  <2>1. s \in RunStates /\ s.pc = "call" /\ s.thread = run[t].thread
    BY <1>2, <2>0 DEF RunStates
  <2> HIDE DEF s
  <2>2. RunOK(t, s, DurableEvents)
    BY <1>2, <2>1 DEF RunOK, At, Handling, Prepared
  <2> QED
    BY <1>2, <1>6, <2>1, <2>2, LocalStep DEF Step
<1> QED
  BY <1>4, <1>5, <1>6 DEF Decide, Terminal

\* The loop over the calls goes on, is cancelled, or is done.
LEMMA NextCallKeeps ==
    ASSUME IInv, NEW t \in Turns, NextCall(t)
    PROVE  IInv'
<1> DEFINE loop == [run[t] EXCEPT !.pc = "loop", !.iteration = run[t].iteration + 1,
                                  !.calls = <<>>, !.index = 1]
           handle == [run[t] EXCEPT !.pc = "handle"]
           rest == SubSeq(run[t].calls, run[t].index, Len(run[t].calls))
<1>1. run[t].pc # "idle"
  BY DEF NextCall
<1>2. t \in Runs /\ run[t] \in RunStates /\ run[t].thread \in Threads
  BY <1>1, TurnFacts
<1>3. run[t].calls \in Seq(ToolCall) /\ run[t].index \in Nat \ {0}
  BY <1>2 DEF RunStates
<1>4. CASE run[t].index > Len(run[t].calls)
  <2>1. run[t].iteration + 1 \in Nat /\ 1 \in Nat \ {0} /\ <<>> \in Seq(ToolCall)
    BY <1>2 DEF RunStates
  <2>2. loop \in RunStates /\ loop.pc = "loop" /\ loop.thread = run[t].thread
    BY <1>2, <2>1 DEF RunStates, Labels
  <2>3. Step(t, loop)
    BY <1>4 DEF NextCall
  <2> HIDE DEF loop
  <2>4. RunOK(t, loop, DurableEvents)
    BY <1>2, <2>2 DEF RunOK, At, Handling, Prepared
  <2> QED
    BY <1>2, <2>2, <2>3, <2>4, LocalStep DEF Step
<1>5. CASE ~(run[t].index > Len(run[t].calls)) /\ t \in cancelled
  <2>1. rest \in Seq(ToolCall)
    BY <1>3, <1>5
  <2>2. EndTurn(t, Append(Denied(run[t].thread, t, rest), TurnOf("turn_cancelled", t)))
    BY <1>5 DEF NextCall
  <2> HIDE DEF rest
  <2>3. "turn_cancelled" \in Terminal
    BY DEF Terminal
  <2> QED
    BY <1>1, <2>1, <2>2, <2>3, EndDeniedKeeps
<1>6. CASE ~(run[t].index > Len(run[t].calls)) /\ t \notin cancelled
  <2>1. /\ handle \in RunStates /\ handle.pc = "handle" /\ handle.thread = run[t].thread
        /\ handle.index = run[t].index /\ handle.calls = run[t].calls
    BY <1>2 DEF RunStates, Labels
  <2>2. Step(t, handle)
    BY <1>6 DEF NextCall
  <2>3. run[t].index \in DOMAIN run[t].calls
    BY <1>3, <1>6
  <2> HIDE DEF handle
  <2>4. RunOK(t, handle, DurableEvents)
    BY <1>2, <2>1, <2>3 DEF RunOK, At, Handling, Prepared
  <2> QED
    BY <1>2, <2>1, <2>2, <2>4, LocalStep DEF Step
<1> QED
  BY <1>4, <1>5, <1>6

\* Closing the current call with a receipt, after a decision or a hook failure.
LEMMA ReceiptKeeps ==
    ASSUME IInv, NEW t \in Turns, run[t].pc # "idle",
           run[t].index \in DOMAIN run[t].calls,
           NEW how \in {"succeeded", "failed", "denied", "unknown"},
           NEW action \in CanonicalAction \cup {None},
           \/ CloseCall(t, <<CallReceipt(t, how, action)>>)
           \/ \E e \in Events : CloseCall(t, <<e, CallReceipt(t, how, action)>>)
    PROVE  IInv'
<1>1. run[t] \in RunStates /\ run[t].thread \in Threads
  BY TurnFacts
<1>2. CallReceipt(t, how, action) \in Events
  BY <1>1, ReceiptType DEF CallReceipt, Current, Events
<1>3. CASE CloseCall(t, <<CallReceipt(t, how, action)>>)
  <2>1. <<CallReceipt(t, how, action)>> \in Seq(Events)
    BY <1>2
  <2> QED
    BY <1>3, <2>1, CloseCallKeeps
<1>4. CASE \E e \in Events : CloseCall(t, <<e, CallReceipt(t, how, action)>>)
  <2>1. PICK e \in Events : CloseCall(t, <<e, CallReceipt(t, how, action)>>)
    BY <1>4
  <2>2. <<e, CallReceipt(t, how, action)>> \in Seq(Events)
    BY <1>2
  <2> QED
    BY <2>1, <2>2, CloseCallKeeps
<1> QED
  BY <1>3, <1>4

\* The call is closed as denied or failed, or its prepared action is recorded.
LEMMA PrepareKeeps ==
    ASSUME IInv, NEW t \in Turns, Prepare(t)
    PROVE  IInv'
<1>1. run[t].pc = "handle" /\ run[t].pc # "idle"
  BY DEF Prepare
<1>2. /\ t \in Runs /\ run[t] \in RunStates /\ run[t].thread \in Threads
      /\ RunOK(t, run[t], DurableEvents)
  BY <1>1, TurnFacts
<1>3. run[t].index \in DOMAIN run[t].calls
  BY <1>1, <1>2 DEF RunOK, At, Handling
<1>4. CASE CloseCall(t, <<CallReceipt(t, "denied", None)>>)
           \/ CloseCall(t, <<CallReceipt(t, "failed", None)>>)
  BY <1>1, <1>3, <1>4, ReceiptKeeps
<1>5. ASSUME MayPrepare(Current(t).name), NEW arg \in Args,
             NEW action, action = [tool |-> Current(t).name, arg |-> arg],
             Step(t, [Emit(run[t], <<CallEvent("prepared", t, action)>>, "gate")
                        EXCEPT !.action = action])
      PROVE  IInv'
  <2> DEFINE e == CallEvent("prepared", t, action)
             s == [Emit(run[t], <<e>>, "gate") EXCEPT !.action = action]
  <2>1. Current(t) \in ToolCall
    BY <1>2, <1>3 DEF Current, RunStates
  <2>2. action \in CanonicalAction /\ action.tool = Current(t).name
    BY <1>5, <2>1 DEF CanonicalAction, ToolCall
  <2>3. e \in Events
    BY <1>2, <2>1, <2>2 DEF CallEvent, Event, Events, ActionEvents, ToolCall
  <2> HIDE DEF e
  <2>4. <<e>> \in Seq(Events) /\ <<e>> # <<>>
    BY <2>3
  <2>5. Emit(run[t], <<e>>, "gate") \in RunStates
    BY <1>2, <2>4, EmitType DEF Labels
  <2>6. s \in RunStates
    BY <2>2, <2>5 DEF RunStates
  <2>7. /\ s.pc = "append" /\ s.then = "gate" /\ s.todo = <<e>>
        /\ s.thread = run[t].thread /\ s.calls = run[t].calls
        /\ s.index = run[t].index /\ s.action = action
    BY <1>2 DEF Emit, RunStates
  <2>8. Step(t, s)
    BY <1>5 DEF e
  <2> HIDE DEF s
  <2>9. RunOK(t, s, DurableEvents)
    BY <1>2, <1>3, <1>5, <2>2, <2>4, <2>7
       DEF RunOK, At, Handling, Prepared, Labels, Current
  <2> QED
    BY <1>2, <2>6, <2>8, <2>9, LocalStep DEF Step
<1> QED
  BY <1>4, <1>5 DEF Prepare

\* What the invariant says of a call whose action is prepared.
LEMMA PreparedFacts ==
    ASSUME IInv, NEW t \in Turns, At(run[t]) \in Prepared, run[t].pc # "idle"
    PROVE  /\ run[t].index \in DOMAIN run[t].calls
           /\ Current(t) \in ToolCall
           /\ run[t].action \in CanonicalAction
           /\ run[t].action.tool = Current(t).name
           /\ MayPrepare(run[t].action.tool)
<1>1. run[t] \in RunStates /\ RunOK(t, run[t], DurableEvents)
  BY TurnFacts
<1>2. run[t].index \in DOMAIN run[t].calls
  BY <1>1 DEF RunOK, Handling, Prepared
<1>3. Current(t) \in ToolCall
  BY <1>1, <1>2 DEF Current, RunStates
<1> QED
  BY <1>1, <1>2, <1>3 DEF RunOK, Current

\* Going on with a prepared call: towards the approval, or towards the executor
\* with the events that this needs.
LEMMA GoOnKeeps ==
    ASSUME IInv, NEW t \in Turns, run[t].pc \in {"gate", "approval"},
           NEW events \in Seq(Events), events # <<>>,
           NEW then \in {"approval", "execute"},
           then = "execute" =>
              \/ /\ events = <<CallEventIn("started", t, run[t])>>
                 /\ Approved(t, run[t], DurableEvents)
              \/ events = <<CallEventIn("approval_resolved", t, run[t]),
                            CallEventIn("started", t, run[t])>>,
           Step(t, Emit(run[t], events, then))
    PROVE  IInv'
<1> DEFINE s == Emit(run[t], events, then)
<1>1. At(run[t]) \in Prepared /\ run[t].pc # "idle"
  BY DEF At, Prepared
<1>2. t \in Runs /\ run[t] \in RunStates /\ run[t].thread \in Threads
  BY <1>1, TurnFacts
<1>3. /\ run[t].index \in DOMAIN run[t].calls
      /\ run[t].action \in CanonicalAction
      /\ run[t].action.tool = run[t].calls[run[t].index].name
      /\ MayPrepare(run[t].action.tool)
  BY <1>1, PreparedFacts DEF Current
<1>4. s \in RunStates
  BY <1>2, EmitType DEF Labels
<1>5. /\ s.pc = "append" /\ s.then = then /\ s.todo = events
      /\ s.thread = run[t].thread /\ s.calls = run[t].calls
      /\ s.index = run[t].index /\ s.action = run[t].action
  BY <1>2 DEF Emit, RunStates
<1> HIDE DEF s
<1>6. /\ \A type : CallEventIn(type, t, s) = CallEventIn(type, t, run[t])
      /\ Approved(t, s, DurableEvents) <=> Approved(t, run[t], DurableEvents)
  BY <1>5 DEF CallEventIn, Approved
<1>7. RunOK(t, s, DurableEvents)
  BY <1>2, <1>3, <1>5, <1>6 DEF RunOK, At, Handling, Prepared, Labels
<1> QED
  BY <1>2, <1>4, <1>7, LocalStep DEF Step, s

\* Events about the current call are well formed.
LEMMA CallEventType ==
    ASSUME IInv, NEW t \in Turns, At(run[t]) \in Prepared, run[t].pc # "idle"
    PROVE  /\ \A type \in {"approval_requested", "started"} :
                 /\ CallEvent(type, t, run[t].action) \in Events
                 /\ CallEvent(type, t, run[t].action) = CallEventIn(type, t, run[t])
           /\ \A decision \in CanonicalAction \cup {None} :
                 CallEvent("approval_resolved", t, decision) \in Events
<1>1. run[t].thread \in Threads
  BY TurnFacts
<1>2. Current(t).id \in Calls /\ run[t].action \in CanonicalAction
  BY PreparedFacts DEF ToolCall
<1> QED
  BY <1>1, <1>2
     DEF CallEvent, CallEventIn, Current, Event, Events, ActionEvents, ResolvedEvents

\* A hook rejects the call, or its access decides how it goes on.
LEMMA GateKeeps ==
    ASSUME IInv, NEW t \in Turns, Gate(t)
    PROVE  IInv'
<1>1. run[t].pc = "gate" /\ run[t].pc # "idle" /\ At(run[t]) \in Prepared
  BY DEF Gate, At, Prepared
<1>2. /\ run[t].thread \in Threads /\ run[t].index \in DOMAIN run[t].calls
      /\ run[t].action \in CanonicalAction /\ run[t].action.tool = Current(t).name
  BY <1>1, TurnFacts, PreparedFacts
<1>3. CASE CloseCall(t, <<TurnOf("hook_failed", t), CallReceipt(t, "denied", run[t].action)>>)
  <2>1. TurnOf("hook_failed", t) \in Events
    BY <1>2, TurnEventType DEF TurnOf, Events
  <2> QED
    BY <1>1, <1>2, <1>3, <2>1, ReceiptKeeps
<1>4. CASE Step(t, Emit(run[t], <<CallEvent("approval_requested", t, run[t].action)>>,
                        "approval"))
  <2>1. CallEvent("approval_requested", t, run[t].action) \in Events
    BY <1>1, CallEventType
  <2>2. /\ <<CallEvent("approval_requested", t, run[t].action)>> \in Seq(Events)
        /\ <<CallEvent("approval_requested", t, run[t].action)>> # <<>>
    BY <2>1
  <2> QED
    BY <1>1, <1>4, <2>2, GoOnKeeps
<1>5. CASE /\ AccessIn(Capabilities, Current(t).name) = "allow"
           /\ Step(t, Emit(run[t], <<CallEvent("started", t, run[t].action)>>, "execute"))
  <2>1. /\ CallEvent("started", t, run[t].action) \in Events
        /\ CallEvent("started", t, run[t].action) = CallEventIn("started", t, run[t])
    BY <1>1, CallEventType
  <2>2. /\ <<CallEvent("started", t, run[t].action)>> \in Seq(Events)
        /\ <<CallEvent("started", t, run[t].action)>> # <<>>
    BY <2>1
  <2>3. Approved(t, run[t], DurableEvents)
    BY <1>2, <1>5 DEF Approved
  <2> QED
    BY <1>1, <1>5, <2>1, <2>2, <2>3, GoOnKeeps
<1> QED
  BY <1>3, <1>4, <1>5 DEF Gate

\* The approval provider answers.
LEMMA ApprovalKeeps ==
    ASSUME IInv, NEW t \in Turns, NEW decision \in CanonicalAction \cup {None},
           Approval(t, decision)
    PROVE  IInv'
<1> DEFINE resolved == CallEvent("approval_resolved", t, decision)
           started == CallEvent("started", t, run[t].action)
<1>1. run[t].pc = "approval" /\ run[t].pc # "idle" /\ At(run[t]) \in Prepared
  BY DEF Approval, At, Prepared
<1>2. run[t].index \in DOMAIN run[t].calls /\ run[t].action \in CanonicalAction
  BY <1>1, PreparedFacts
<1>3. /\ resolved \in Events /\ started \in Events
      /\ started = CallEventIn("started", t, run[t])
  BY <1>1, CallEventType
<1>4. CASE decision = run[t].action
  <2>1. resolved = CallEventIn("approval_resolved", t, run[t])
    BY <1>4 DEF CallEvent, CallEventIn, Current
  <2>2. Step(t, Emit(run[t], <<resolved, started>>, "execute"))
    BY <1>4 DEF Approval, ApprovesExactly
  <2> HIDE DEF resolved, started
  <2>3. <<resolved, started>> \in Seq(Events) /\ <<resolved, started>> # <<>>
    BY <1>3
  <2> QED
    BY <1>1, <1>3, <2>1, <2>2, <2>3, GoOnKeeps
<1>5. CASE decision # run[t].action
  <2>1. CloseCall(t, <<resolved, CallReceipt(t, "denied", run[t].action)>>)
    BY <1>5 DEF Approval, ApprovesExactly
  <2> QED
    BY <1>1, <1>2, <1>3, <2>1, ReceiptKeeps
<1> QED
  BY <1>4, <1>5

\* A tool that may be prepared is visible in the projection.
LEMMA MayPrepareVisible ==
    ASSUME NEW name, MayPrepare(name)
    PROVE  name \in VisibleNames(Capabilities)
BY DEF MayPrepare, IsRegistered, VisibleNames, Capabilities, ProjectCapabilities, AccessIn

\* The call crosses the executor boundary, with its events durable behind it.
LEMMA ExecuteKeeps ==
    ASSUME IInv, NEW t \in Turns, Execute(t)
    PROVE  IInv'
<1> DEFINE s == [run[t] EXCEPT !.pc = "running"]
           c == [thread |-> run[t].thread, turn |-> t,
                 call |-> Current(t).id, action |-> run[t].action]
<1>1. run[t].pc = "execute" /\ run[t].pc # "idle" /\ At(run[t]) \in Prepared
  BY DEF Execute, At, Prepared
<1>2. /\ t \in Runs /\ run[t] \in RunStates /\ run[t].thread \in Threads
      /\ RunOK(t, run[t], DurableEvents)
  BY <1>1, TurnFacts
<1>3. /\ run[t].index \in DOMAIN run[t].calls /\ Current(t) \in ToolCall
      /\ run[t].action \in CanonicalAction /\ run[t].action.tool = Current(t).name
      /\ MayPrepare(run[t].action.tool)
  BY <1>1, PreparedFacts
<1>4. /\ run' = [run EXCEPT ![t] = s]
      /\ crossed' = crossed \cup {c}
      /\ UNCHANGED <<log, synced, pending, broken, active, cancelled, answers, faults>>
  BY DEF Execute, storeVars
<1>5. c \in [thread : Threads, turn : Turns, call : Calls, action : CanonicalAction]
  BY <1>2, <1>3 DEF ToolCall
<1>6. /\ s \in RunStates /\ s.pc = "running" /\ s.thread = run[t].thread
      /\ s.calls = run[t].calls /\ s.index = run[t].index /\ s.action = run[t].action
  BY <1>2 DEF RunStates, Labels
<1>7. /\ CallEventIn("started", t, run[t]) \in DurableEvents
      /\ Approved(t, run[t], DurableEvents)
  BY <1>1, <1>2 DEF RunOK
<1>8. c.thread = run[t].thread /\ c.turn = t /\ c.call = Current(t).id /\ c.action = run[t].action
  OBVIOUS
<1>9. \E i \in 1..synced : IsAbout(i, "started", c) /\ log[i].data = c.action
  BY <1>7 DEF DurableEvents, CallEventIn, Event, IsAbout, Current
<1>10. AccessIn(Capabilities, c.action.tool) = "ask" =>
          \E i \in 1..synced : IsAbout(i, "approval_resolved", c) /\ log[i].data = c.action
  BY <1>7 DEF Approved, DurableEvents, CallEventIn, Event, IsAbout, Current
<1>11. c.action.tool \in VisibleNames(Capabilities)
  BY <1>3, MayPrepareVisible
<1> HIDE DEF s, c
<1>12. RunOK(t, s, DurableEvents)
  BY <1>2, <1>3, <1>6 DEF RunOK, At, Handling, Prepared, Current
<1>13. TypeOK'
  BY <1>4, <1>5, <1>6 DEF IInv, TypeOK
<1>14. DurableEvents' = DurableEvents
  BY <1>4 DEF DurableEvents
<1>15. RunsOK'
  BY <1>4, <1>12, <1>14 DEF IInv, TypeOK, RunsOK
<1>16. WriteAhead'
  BY <1>4, <1>9 DEF IInv, WriteAhead, IsAbout
<1>17. Authorised'
  BY <1>4, <1>10, <1>11 DEF IInv, Authorised, IsAbout
<1> QED
  BY <1>13, <1>15, <1>16, <1>17 DEF IInv

\* The executor answers: its receipt is to be recorded.
LEMMA ExecutedKeeps ==
    ASSUME IInv, NEW t \in Turns, NEW how \in {"succeeded", "failed", "unknown"},
           Executed(t, how)
    PROVE  IInv'
<1> DEFINE e == CallReceipt(t, how, run[t].action)
           s == Emit(run[t], <<e>>, "after")
           a == [thread |-> run[t].thread, turn |-> t,
                 call |-> Current(t).id, status |-> how]
<1>1. run[t].pc = "running" /\ run[t].pc # "idle" /\ At(run[t]) \in Prepared
  BY DEF Executed, At, Prepared
<1>2. t \in Runs /\ run[t] \in RunStates /\ run[t].thread \in Threads
  BY <1>1, TurnFacts
<1>3. /\ run[t].index \in DOMAIN run[t].calls /\ Current(t) \in ToolCall
      /\ run[t].action \in CanonicalAction
  BY <1>1, PreparedFacts
<1>4. e \in Events
  BY <1>2, <1>3, ReceiptType DEF CallReceipt, Current, Events
<1>5. a \in [thread : Threads, turn : Turns, call : Calls,
             status : {"succeeded", "failed", "unknown"}]
  BY <1>2, <1>3 DEF ToolCall
<1>6. /\ run' = [run EXCEPT ![t] = s]
      /\ answers' = answers \cup {a}
      /\ UNCHANGED <<log, synced, pending, broken, active, cancelled, crossed, faults>>
  BY DEF Executed, storeVars
<1> HIDE DEF e, a
<1>7. <<e>> \in Seq(Events) /\ <<e>> # <<>>
  BY <1>4
<1>8. s \in RunStates
  BY <1>2, <1>7, EmitType DEF Labels
<1>9. /\ s.pc = "append" /\ s.then = "after" /\ s.todo = <<e>> /\ s.thread = run[t].thread
      /\ s.calls = run[t].calls /\ s.index = run[t].index
  BY <1>2 DEF Emit, RunStates
<1> HIDE DEF s
<1>10. RunOK(t, s, DurableEvents)
  BY <1>2, <1>3, <1>7, <1>9 DEF RunOK, At, Handling, Prepared, Labels
<1>11. TypeOK'
  BY <1>5, <1>6, <1>8 DEF IInv, TypeOK
<1>12. DurableEvents' = DurableEvents
  BY <1>6 DEF DurableEvents
<1>13. RunsOK'
  BY <1>6, <1>10, <1>12 DEF IInv, TypeOK, RunsOK
<1>14. WriteAhead' /\ Authorised'
  BY <1>6 DEF IInv, WriteAhead, Authorised, IsAbout
<1> QED
  BY <1>11, <1>13, <1>14 DEF IInv

\* The after_tool hooks end the turn or let it go on.
LEMMA AfterToolKeeps ==
    ASSUME IInv, NEW t \in Turns, AfterTool(t)
    PROVE  IInv'
<1> DEFINE s == [run[t] EXCEPT !.pc = "call", !.action = None, !.index = run[t].index + 1]
<1>1. run[t].pc # "idle"
  BY DEF AfterTool
<1>2. t \in Runs /\ run[t] \in RunStates /\ run[t].thread \in Threads
  BY <1>1, TurnFacts
<1>3. CASE EndTurn(t, <<TurnOf("hook_failed", t), TurnOf("turn_failed", t)>>)
  <2>1. TurnOf("hook_failed", t) \in Events /\ TurnOf("turn_failed", t) \in Events
    BY <1>2, TurnEventType DEF TurnOf, Events, Terminal
  <2>2. /\ <<TurnOf("hook_failed", t), TurnOf("turn_failed", t)>> \in Seq(Events)
        /\ <<TurnOf("hook_failed", t), TurnOf("turn_failed", t)>> # <<>>
    BY <2>1
  <2> QED
    BY <1>1, <1>2, <1>3, <2>2, EndTurnKeeps
<1>4. CASE Step(t, s)
  <2>1. run[t].index + 1 \in Nat \ {0}
    BY <1>2 DEF RunStates
  <2>2. s \in RunStates /\ s.pc = "call" /\ s.thread = run[t].thread
    BY <1>2, <2>1 DEF RunStates, Labels
  <2> HIDE DEF s
  <2>3. RunOK(t, s, DurableEvents)
    BY <1>2, <2>2 DEF RunOK, At, Handling, Prepared
  <2> QED
    BY <1>2, <1>4, <2>2, <2>3, LocalStep DEF Step
<1> QED
  BY <1>3, <1>4 DEF AfterTool

\* An append succeeds: what it wrote is durable, and the run is one step closer
\* to its label.
LEMMA AppendOkKeeps ==
    ASSUME IInv, NEW r \in Runs, AppendOk(r)
    PROVE  IInv'
<1> DEFINE e == Head(run[r].todo)
           rest == Tail(run[r].todo)
           more == [run[r] EXCEPT !.todo = rest]
           next == [run[r] EXCEPT !.pc = run[r].then, !.then = None, !.todo = <<>>]
<1>1. /\ run[r].pc = "append" /\ StoreAppend(e)
      /\ UNCHANGED <<cancelled, crossed, answers, faults>>
  BY DEF AppendOk
<1>2. run[r] \in RunStates /\ RunOK(r, run[r], DurableEvents)
  BY DEF IInv, TypeOK, RunsOK
<1>3. /\ run[r].thread \in Threads
      /\ run[r].todo \in Seq(Events) /\ run[r].todo # <<>>
      /\ run[r].then \in Labels \cup {"return"}
  BY <1>1, <1>2 DEF RunOK, RunStates
<1>4. e \in Events /\ rest \in Seq(Events)
  BY <1>3
<1>5. /\ log \in Seq(Events) /\ synced \in 0..Len(log) /\ pending \in Seq(Events)
      /\ broken \in BOOLEAN
  BY DEF IInv, TypeOK
<1>6. PrefixKept
  BY <1>1, <1>4, <1>5, StoreStepKeeps
<1>7. e \in DurableEvents'
  <2>1. log' = Append(log, e) /\ synced' = Len(log) + 1
    BY <1>1 DEF StoreAppend
  <2>2. log'[Len(log) + 1] = e /\ Len(log) + 1 \in 1..synced'
    BY <1>4, <1>5, <2>1
  <2> QED
    BY <2>2 DEF DurableEvents
<1>8. DurableEvents \subseteq DurableEvents'
  BY <1>5, <1>6, DurableKept
<1>9. RunOK(r, run[r], DurableEvents')
  BY <1>2, <1>8, RunOKGrows
<1>10. faults' \in 0..MaxFaults /\ cancelled' \subseteq Turns
  BY <1>1 DEF IInv, TypeOK
<1>11. CASE rest = <<>> /\ run[r].then = "return"
  <2>1. Leave(r)
    BY <1>11 DEF AppendOk
  <2> QED
    BY <1>1, <1>4, <1>10, <2>1, LeaveKeeps
<1>12. ASSUME NEW n \in RunStates, run' = [run EXCEPT ![r] = n], UNCHANGED active,
              RunOK(r, n, DurableEvents')
       PROVE  IInv'
  <2>1. /\ run' \in [Runs -> RunStates]
        /\ \A q \in Runs : run'[q] = run[q] \/ RunOK(q, run'[q], DurableEvents')
    BY <1>12 DEF IInv, TypeOK
  <2>2. active' \subseteq Threads
    BY <1>12 DEF IInv, TypeOK
  <2> QED
    BY <1>1, <1>4, <1>10, <2>1, <2>2, StoreStep
<1>13. CASE rest # <<>>
  <2>1. run' = [run EXCEPT ![r] = more] /\ UNCHANGED active
    BY <1>13 DEF AppendOk
  <2>2. /\ more \in RunStates /\ more.pc = "append" /\ more.then = run[r].then
        /\ more.todo = rest /\ more.thread = run[r].thread /\ more.calls = run[r].calls
        /\ more.index = run[r].index /\ more.action = run[r].action
    BY <1>1, <1>2, <1>4 DEF RunStates
  <2> HIDE DEF more
  <2>3. /\ \A type : CallEventIn(type, r, more) = CallEventIn(type, r, run[r])
        /\ At(more) = At(run[r])
    BY <1>1, <2>2 DEF CallEventIn, At
  <2>4. ASSUME run[r].then = "execute"
        PROVE  /\ rest = <<CallEventIn("started", r, run[r])>>
               /\ CallEventIn("approval_resolved", r, run[r]) \in DurableEvents'
    <3>1. run[r].todo = <<CallEventIn("approval_resolved", r, run[r]),
                          CallEventIn("started", r, run[r])>>
      <4>1. \A x : Tail(<<x>>) = <<>>
        OBVIOUS
      <4>2. \A x : run[r].todo # <<x>>
        BY <1>13, <4>1
      <4> HIDE DEF rest
      <4> QED
        BY <1>1, <1>9, <2>4, <4>2 DEF RunOK
    <3> QED
      BY <1>7, <3>1
  <2>5. RunOK(r, more, DurableEvents')
    <3>1. /\ more.pc # "idle" => more.thread \in Threads
          /\ more.pc = "append" => more.todo # <<>> /\ more.then \in Labels \cup {"return"}
          /\ more.pc # "execute"
      BY <1>3, <1>13, <2>2
    <3>2. /\ At(more) \in Handling => more.index \in DOMAIN more.calls
          /\ At(more) \in Prepared =>
                /\ more.action \in CanonicalAction
                /\ more.action.tool = more.calls[more.index].name
                /\ MayPrepare(more.action.tool)
      BY <1>9, <2>2, <2>3 DEF RunOK
    <3>3. more.then = "execute" => /\ more.todo = <<CallEventIn("started", r, more)>>
                                   /\ Approved(r, more, DurableEvents')
      BY <2>2, <2>3, <2>4 DEF Approved
    <3> QED
      BY <3>1, <3>2, <3>3 DEF RunOK
  <2> QED
    BY <1>12, <2>1, <2>2, <2>5
<1>14. CASE rest = <<>> /\ run[r].then # "return"
  <2>1. run' = [run EXCEPT ![r] = next] /\ UNCHANGED active
    BY <1>14 DEF AppendOk
  <2>2. /\ next \in RunStates /\ next.pc = run[r].then
        /\ next.thread = run[r].thread /\ next.calls = run[r].calls
        /\ next.index = run[r].index /\ next.action = run[r].action
    <3>1. run[r].then \in Labels /\ <<>> \in Seq(Events)
      BY <1>3, <1>14
    <3> QED
      BY <1>2, <3>1 DEF RunStates
  <2> HIDE DEF next
  <2>3. /\ \A type : CallEventIn(type, r, next) = CallEventIn(type, r, run[r])
        /\ next.pc \in Labels /\ At(next) = run[r].then /\ At(run[r]) = run[r].then
    BY <1>1, <1>3, <1>14, <2>2 DEF CallEventIn, At, Labels
  <2>4. ASSUME run[r].then = "execute"
        PROVE  /\ CallEventIn("started", r, run[r]) \in DurableEvents'
               /\ Approved(r, run[r], DurableEvents')
    <3>1. \/ /\ run[r].todo = <<CallEventIn("started", r, run[r])>>
             /\ Approved(r, run[r], DurableEvents')
          \/ run[r].todo = <<CallEventIn("approval_resolved", r, run[r]),
                             CallEventIn("started", r, run[r])>>
      BY <1>1, <1>9, <2>4 DEF RunOK
    <3>2. Len(run[r].todo) = 1
      <4>1. Len(rest) = Len(run[r].todo) - 1 /\ Len(run[r].todo) \in Nat
        BY <1>3
      <4> HIDE DEF rest
      <4>2. Len(rest) = 0
        BY <1>14
      <4> QED
        BY <4>1, <4>2
    <3> QED
      BY <1>7, <3>1, <3>2
  <2>5. RunOK(r, next, DurableEvents')
    <3>1. next.thread \in Threads /\ next.pc # "append"
      BY <1>3, <2>2, <2>3 DEF Labels
    <3>2. /\ At(next) \in Handling => next.index \in DOMAIN next.calls
          /\ At(next) \in Prepared =>
                /\ next.action \in CanonicalAction
                /\ next.action.tool = next.calls[next.index].name
                /\ MayPrepare(next.action.tool)
      BY <1>9, <2>2, <2>3 DEF RunOK
    <3>3. next.pc = "execute" => /\ CallEventIn("started", r, next) \in DurableEvents'
                                 /\ Approved(r, next, DurableEvents')
      BY <2>2, <2>3, <2>4 DEF Approved
    <3> QED
      BY <3>1, <3>2, <3>3 DEF RunOK
  <2> QED
    BY <1>12, <2>1, <2>2, <2>5
<1> QED
  BY <1>11, <1>13, <1>14

\* An append fails or is refused, or a future is dropped: the run returns.
LEMMA RunEndsKeeps ==
    ASSUME IInv, NEW r \in Runs,
           AppendFail(r) \/ AppendRefused(r) \/ Drop(r)
    PROVE  IInv'
<1>1. CASE AppendFail(r)
  <2>1. Head(run[r].todo) \in Events
    <3>1. run[r] \in RunStates /\ RunOK(r, run[r], DurableEvents)
      BY DEF IInv, TypeOK, RunsOK
    <3>2. run[r].todo \in Seq(Events) /\ run[r].todo # <<>>
      BY <1>1, <3>1 DEF AppendFail, RunOK, RunStates
    <3> QED
      BY <3>2
  <2>2. faults' \in 0..MaxFaults
    BY <1>1, BoundsAssumption DEF AppendFail, IInv, TypeOK
  <2> QED
    BY <1>1, <2>1, <2>2, LeaveKeeps DEF AppendFail
<1>2. CASE AppendRefused(r) \/ Drop(r)
  <2>1. Leave(r) /\ UNCHANGED <<storeVars, cancelled, crossed, answers, faults>>
    BY <1>2 DEF AppendRefused, Drop
  <2>2. faults' \in 0..MaxFaults
    BY <2>1 DEF IInv, TypeOK
  <2> QED
    BY <2>1, <2>2, LeaveKeeps
<1> QED
  BY <1>1, <1>2

\* Tokens are cancelled, or new.
LEMMA SignalsKeep ==
    ASSUME IInv, Signals
    PROVE  IInv'
<1>1. /\ cancelled' \subseteq Turns
      /\ UNCHANGED <<storeVars, run, active, crossed, answers, faults>>
  BY DEF Signals
<1>2. /\ run' \in [Runs -> RunStates] /\ active' \subseteq Threads
      /\ faults' \in 0..MaxFaults
      /\ \A q \in Runs : run'[q] = run[q]
  BY <1>1 DEF IInv, TypeOK
<1> QED
  BY <1>1, <1>2, StoreStep

\* The process is restarted over the same file.
LEMMA RestartKeeps ==
    ASSUME IInv, Restart
    PROVE  IInv'
<1>1. /\ StoreReopen /\ run' = [r \in Runs |-> Idle]
      /\ active' = {} /\ cancelled' = {} /\ UNCHANGED <<crossed, answers>>
  BY DEF Restart
<1>2. faults' \in 0..MaxFaults
  BY BoundsAssumption DEF Restart, IInv, TypeOK
<1>3. /\ run' \in [Runs -> RunStates]
      /\ \A q \in Runs : run'[q] = run[q] \/ RunOK(q, run'[q], DurableEvents')
  BY <1>1, IdleOK
<1> QED
  BY <1>1, <1>2, <1>3, StoreStep

\* The invariant holds when the runtime is opened over an empty file.
LEMMA InitIInv == Init => IInv
<1> SUFFICES ASSUME Init PROVE IInv
  OBVIOUS
<1>1. TypeOK
  <2>1. /\ log \in Seq(Events) /\ synced \in 0..Len(log) /\ pending \in Seq(Events)
        /\ faults \in 0..MaxFaults
    BY BoundsAssumption DEF Init, StoreInit
  <2>2. broken \in BOOLEAN
    BY DEF Init, StoreInit
  <2>3. run \in [Runs -> RunStates]
    BY IdleOK DEF Init
  <2> QED
    BY <2>1, <2>2, <2>3 DEF Init, TypeOK
<1>2. RunsOK
  BY IdleOK DEF Init, RunsOK
<1>3. WriteAhead /\ Authorised
  BY DEF Init, WriteAhead, Authorised
<1> QED
  BY <1>1, <1>2, <1>3 DEF IInv

\* Every step preserves the invariant.
LEMMA CoreIInv == IInv /\ Core => IInv'
<1> SUFFICES ASSUME IInv, Core PROVE IInv'
  OBVIOUS
<1>1. ASSUME NEW th \in Threads, StartThread(th) \/ \E r \in Runs : Begins(r, th)
      PROVE  IInv'
  BY <1>1, StartThreadKeeps, AcquireKeeps DEF Begins
<1>2. ASSUME NEW r \in Runs, RunStep(r) \/ AppendFail(r)
      PROVE  IInv'
  BY <1>2, RecoverAppendKeeps, RecoveredKeeps, AppendOkKeeps, RunEndsKeeps DEF RunStep
<1>3. ASSUME NEW t \in Turns, TurnStep(t)
      PROVE  IInv'
  BY <1>3, LoadKeeps, LoopKeeps, ModelErrorKeeps, ModelResponseKeeps, DecideKeeps,
     NextCallKeeps, PrepareKeeps, GateKeeps, ExecuteKeeps, ExecutedKeeps, AfterToolKeeps
     DEF TurnStep, ExecutorAnswers
<1>4. ASSUME NEW t \in Turns,
             (\E decision \in Decisions : Approval(t, decision)) \/ Drop(t)
      PROVE  IInv'
  BY <1>4, ApprovalKeeps, RunEndsKeeps DEF Runs, Decisions
<1> QED
  BY <1>1, <1>2, <1>3, <1>4, RestartKeeps, SignalsKeep DEF Core

\* In particular, every step of the specification.
LEMMA NextIInv == IInv /\ [Next]_vars => Core /\ IInv'
BY NextIsCore, CoreIInv DEF IInv

-----------------------------------------------------------------------------
(* Theorems.                                                               *)

\* The inductive invariant holds of the runtime.
THEOREM Invariance == Spec => []IInv
BY InitIInv, NextIInv, PTL DEF Spec

\* Type correctness: whatever happens, the log holds well-formed events and each
\* run a well-formed local state.
THEOREM TypeCorrect == Spec => []TypeOK
<1>1. IInv => TypeOK
  BY DEF IInv
<1> QED
  BY <1>1, Invariance, PTL

\* Write-ahead: run_turn hands a call to the executor only when its
\* ToolExecutionStarted event, with that action, can no longer be lost.
THEOREM WriteAheadHolds == Spec => []WriteAhead
<1>1. IInv => WriteAhead
  BY DEF IInv
<1> QED
  BY <1>1, Invariance, PTL

\* Authorisation: run_turn hands a call to the executor only for a tool that
\* the projection shows and, where it says ask, after the approval of exactly
\* that action was made durable.
THEOREM AuthorisedHolds == Spec => []Authorised
<1>1. IInv => Authorised
  BY DEF IInv
<1> QED
  BY <1>1, Invariance, PTL

-----------------------------------------------------------------------------
(* The ActiveThread guard.  Every step is one of four kinds: a run goes on *)
(* where it was, a run begins on a free thread, a run returns, or all of   *)
(* them end.                                                               *)

\* A run that is not idle goes on, on its thread; the guard is left alone.
GoesOn(r) ==
    /\ run[r].pc # "idle"
    /\ UNCHANGED active
    /\ \A q \in Runs : q # r => run'[q] = run[q]
    /\ run'[r].pc # "idle" /\ run'[r].thread = run[r].thread

-----------------------------------------------------------------------------
(* The four kinds of steps keep the guard exact.                           *)

\* A run that goes on.
LEMMA GoesOnGuard ==
    ASSUME GuardExact, NEW r \in Runs, GoesOn(r)
    PROVE  GuardExact'
<1>1. \A q \in Runs : /\ (run'[q].pc # "idle") <=> (run[q].pc # "idle")
                      /\ run[q].pc # "idle" => run'[q].thread = run[q].thread
  BY DEF GoesOn
<1>2. active' = active
  BY DEF GoesOn
<1>3. {run'[q].thread : q \in {p \in Runs : run'[p].pc # "idle"}}
      = {run[q].thread : q \in {p \in Runs : run[p].pc # "idle"}}
  BY <1>1
<1> QED
  BY <1>1, <1>2, <1>3 DEF GuardExact

\* A run that begins, on a thread that nobody holds.
LEMMA AcquireGuard ==
    ASSUME GuardExact, run \in [Runs -> RunStates], NEW r \in Runs, NEW th,
           run[r].pc = "idle", Acquire(r, th)
    PROVE  GuardExact'
<1>1. /\ \A q \in Runs : q # r => run'[q] = run[q]
      /\ run'[r].pc = "recover" /\ run'[r].thread = th
      /\ th \notin active /\ active' = active \cup {th}
  BY DEF Acquire, Free, Idle
<1>2. active' = {run'[q].thread : q \in {p \in Runs : run'[p].pc # "idle"}}
  BY <1>1 DEF GuardExact
<1>3. ASSUME NEW p \in Runs, NEW q \in Runs, p # q,
             run'[p].pc # "idle", run'[q].pc # "idle"
      PROVE  run'[p].thread # run'[q].thread
  BY <1>1, <1>3 DEF GuardExact
<1> QED
  BY <1>2, <1>3 DEF GuardExact

\* A run that returns, whatever made it return.
LEMMA LeaveGuard ==
    ASSUME GuardExact, run \in [Runs -> RunStates], NEW r \in Runs,
           run[r].pc # "idle", Leave(r)
    PROVE  GuardExact'
<1>1. /\ \A q \in Runs : q # r => run'[q] = run[q]
      /\ run'[r].pc = "idle"
      /\ active' = active \ {run[r].thread}
  BY DEF Leave, Idle
<1>2. active' = {run'[q].thread : q \in {p \in Runs : run'[p].pc # "idle"}}
  BY <1>1 DEF GuardExact
<1> QED
  BY <1>1, <1>2 DEF GuardExact

\* A restart ends every run and forgets the guard.
LEMMA RestartGuard ==
    ASSUME Restart
    PROVE  GuardExact'
BY DEF Restart, GuardExact, Idle

-----------------------------------------------------------------------------
(* Every action is one of the four.                                        *)

\* Emit changes neither the thread nor anything but where the run is.
LEMMA EmitGoesOn ==
    ASSUME NEW s \in RunStates, NEW events, NEW then
    PROVE  /\ Emit(s, events, then).pc = "append"
           /\ Emit(s, events, then).thread = s.thread
BY DEF Emit, RunStates

\* A step that replaces the local state by one on the same thread.
LEMMA StepGoesOn ==
    ASSUME run \in [Runs -> RunStates], NEW r \in Runs, NEW s,
           run[r].pc # "idle", s.pc # "idle", s.thread = run[r].thread,
           run' = [run EXCEPT ![r] = s], UNCHANGED active
    PROVE  GoesOn(r)
BY DEF GoesOn

\* The same for a state the run goes to in order to append events.
LEMMA EmittedGoesOn ==
    ASSUME run \in [Runs -> RunStates], NEW r \in Runs, NEW s \in RunStates,
           NEW events, NEW then, run[r].pc # "idle", s.thread = run[r].thread,
           run' = [run EXCEPT ![r] = Emit(s, events, then)], UNCHANGED active
    PROVE  GoesOn(r)
<1> DEFINE next == Emit(s, events, then)
<1>1. next.pc = "append" /\ next.thread = run[r].thread
  BY EmitGoesOn
<1> HIDE DEF next
<1>2. run' = [run EXCEPT ![r] = next]
  BY DEF next
<1> QED
  BY <1>1, <1>2, StepGoesOn

\* The run ends its turn: it still has to append the events.
LEMMA EndTurnGoesOn ==
    ASSUME run \in [Runs -> RunStates], NEW r \in Runs, NEW events,
           run[r].pc # "idle", EndTurn(r, events)
    PROVE  GoesOn(r)
BY EmitGoesOn, StepGoesOn DEF EndTurn, Step

\* The run closes the call it handles.
LEMMA CloseCallGoesOn ==
    ASSUME run \in [Runs -> RunStates], NEW r \in Runs, NEW events,
           run[r].pc # "idle", CloseCall(r, events)
    PROVE  GoesOn(r)
<1> DEFINE s == [Emit(run[r], events, "call") EXCEPT !.action = None, !.index = @ + 1]
<1>1. s.pc = "append" /\ s.thread = run[r].thread
  BY DEF Emit, RunStates
<1>2. run' = [run EXCEPT ![r] = s] /\ UNCHANGED active
  BY DEF CloseCall, StepPush
<1> HIDE DEF s
<1> QED
  BY <1>1, <1>2, StepGoesOn

\* The run appends one more step of its own and goes on.
LEMMA EmitStepGoesOn ==
    ASSUME run \in [Runs -> RunStates], NEW r \in Runs, NEW events, NEW then,
           run[r].pc # "idle", Step(r, Emit(run[r], events, then))
    PROVE  GoesOn(r)
BY EmitGoesOn, StepGoesOn DEF Step

\* The steps of the model loop.
LEMMA LoopStepsGoOn ==
    ASSUME IInv, NEW t \in Turns,
           \/ Load(t) \/ Loop(t) \/ ModelError(t)
           \/ \E calls \in Responses, stop \in StopReasons : ModelResponse(t, calls, stop)
           \/ Decide(t)
    PROVE  GoesOn(t)
<1>1. run \in [Runs -> RunStates] /\ t \in Runs /\ run[t] \in RunStates
  BY DEF IInv, TypeOK, Runs
<1>2. CASE Load(t)
  <2>1. run[t].pc = "load" /\ run' = [run EXCEPT ![t].pc = "loop"] /\ UNCHANGED active
    BY <1>2 DEF Load
  <2> QED
    BY <1>1, <2>1 DEF GoesOn, RunStates
<1>3. CASE Loop(t)
  BY <1>1, <1>3, EndTurnGoesOn, EmitStepGoesOn DEF Loop
<1>4. CASE ModelError(t)
  BY <1>1, <1>4, EndTurnGoesOn DEF ModelError
<1>5. ASSUME NEW calls \in Responses, NEW stop \in StopReasons,
             ModelResponse(t, calls, stop)
      PROVE  GoesOn(t)
  <2> DEFINE message == AssistantMessage(run[t].thread, t, calls)
             s == [Emit(run[t], <<message>>, "decide") EXCEPT
                      !.calls = calls, !.stop = stop,
                      !.seen = @ \cup {calls[i].id : i \in DOMAIN calls}]
  <2>1. run[t].pc # "idle" /\ (EndTurn(t, <<TurnOf("turn_failed", t)>>) \/ StepPush(t, s, message))
    BY <1>5 DEF ModelResponse
  <2>2. s.pc = "append" /\ s.thread = run[t].thread
    BY <1>1 DEF Emit, RunStates
  <2> HIDE DEF s, message
  <2>3. CASE StepPush(t, s, message)
    BY <1>1, <2>1, <2>2, <2>3, StepGoesOn DEF StepPush
  <2> QED
    BY <1>1, <2>1, <2>3, EndTurnGoesOn
<1>6. CASE Decide(t)
  <2> DEFINE s == [run[t] EXCEPT !.pc = "call", !.stop = None, !.index = 1]
  <2>1. /\ run[t].pc # "idle"
        /\ (\E events : EndTurn(t, events)) \/ Step(t, s)
    BY <1>6 DEF Decide
  <2>2. s.pc = "call" /\ s.thread = run[t].thread
    BY <1>1 DEF RunStates
  <2> HIDE DEF s
  <2>3. CASE Step(t, s)
    BY <1>1, <2>1, <2>2, <2>3, StepGoesOn DEF Step
  <2> QED
    BY <1>1, <2>1, <2>3, EndTurnGoesOn
<1> QED
  BY <1>2, <1>3, <1>4, <1>5, <1>6

\* The steps of the loop over the calls and of handle_tool_call.
LEMMA CallStepsGoOn ==
    ASSUME IInv, NEW t \in Turns,
           \/ NextCall(t) \/ Prepare(t) \/ Gate(t) \/ Execute(t)
           \/ \E how \in ExecutorAnswers : Executed(t, how)
           \/ AfterTool(t)
           \/ \E decision \in Decisions : Approval(t, decision)
    PROVE  GoesOn(t)
<1>1. run \in [Runs -> RunStates] /\ t \in Runs /\ run[t] \in RunStates
  BY DEF IInv, TypeOK, Runs
<1>2. CASE NextCall(t)
  <2> DEFINE more == [run[t] EXCEPT !.pc = "loop", !.iteration = @ + 1,
                                    !.calls = <<>>, !.index = 1]
             this == [run[t] EXCEPT !.pc = "handle"]
  <2>1. /\ run[t].pc # "idle"
        /\ Step(t, more) \/ (\E events : EndTurn(t, events)) \/ Step(t, this)
    BY <1>2 DEF NextCall
  <2>2. /\ more.pc = "loop" /\ more.thread = run[t].thread
        /\ this.pc = "handle" /\ this.thread = run[t].thread
    BY <1>1 DEF RunStates
  <2> HIDE DEF more, this
  <2>3. CASE Step(t, more) \/ Step(t, this)
    BY <1>1, <2>1, <2>2, <2>3, StepGoesOn DEF Step
  <2> QED
    BY <1>1, <2>1, <2>3, EndTurnGoesOn
<1>3. CASE Prepare(t)
  <2>1. /\ run[t].pc # "idle"
        /\ \/ \E events : CloseCall(t, events)
           \/ \E events, action :
                 Step(t, [Emit(run[t], events, "gate") EXCEPT !.action = action])
    BY <1>3 DEF Prepare
  <2>2. ASSUME NEW events, NEW action,
               Step(t, [Emit(run[t], events, "gate") EXCEPT !.action = action])
        PROVE  GoesOn(t)
    <3> DEFINE s == [Emit(run[t], events, "gate") EXCEPT !.action = action]
    <3>1. s.pc = "append" /\ s.thread = run[t].thread
      BY <1>1 DEF Emit, RunStates
    <3>2. Step(t, s)
      BY <2>2
    <3> HIDE DEF s
    <3> QED
      BY <1>1, <2>1, <3>1, <3>2, StepGoesOn DEF Step
  <2> QED
    BY <1>1, <2>1, <2>2, CloseCallGoesOn
<1>4. CASE Gate(t)
  BY <1>1, <1>4, CloseCallGoesOn, EmitStepGoesOn DEF Gate
<1>5. CASE Execute(t)
  <2>1. run[t].pc = "execute" /\ run' = [run EXCEPT ![t].pc = "running"] /\ UNCHANGED active
    BY <1>5 DEF Execute
  <2> QED
    BY <1>1, <2>1 DEF GoesOn, RunStates
<1>6. ASSUME NEW how \in ExecutorAnswers, Executed(t, how)
      PROVE  GoesOn(t)
  <2>1. \E events : /\ run' = [run EXCEPT ![t] = Emit(run[t], events, "after")]
                    /\ run[t].pc # "idle" /\ UNCHANGED active
    BY <1>1, <1>6 DEF Executed
  <2> QED
    BY <1>1, <2>1, EmittedGoesOn
<1>7. CASE AfterTool(t)
  <2> DEFINE s == [run[t] EXCEPT !.pc = "call", !.action = None, !.index = @ + 1]
  <2>1. run[t].pc # "idle" /\ ((\E events : EndTurn(t, events)) \/ Step(t, s))
    BY <1>7 DEF AfterTool
  <2>2. s.pc = "call" /\ s.thread = run[t].thread
    BY <1>1 DEF RunStates
  <2> HIDE DEF s
  <2>3. CASE Step(t, s)
    BY <1>1, <2>1, <2>2, <2>3, StepGoesOn DEF Step
  <2> QED
    BY <1>1, <2>1, <2>3, EndTurnGoesOn
<1>8. ASSUME NEW decision \in Decisions, Approval(t, decision)
      PROVE  GoesOn(t)
  BY <1>1, <1>8, CloseCallGoesOn, EmitStepGoesOn DEF Approval
<1> QED
  BY <1>2, <1>3, <1>4, <1>5, <1>6, <1>7, <1>8

\* The appends of recovery and the appends that succeed: the run goes on or returns.
LEMMA RunStepsGuard ==
    ASSUME IInv, GuardExact, NEW r \in Runs, RunStep(r) \/ AppendFail(r) \/ Drop(r)
    PROVE  GuardExact'
<1>1. run \in [Runs -> RunStates] /\ run[r] \in RunStates /\ RunOK(r, run[r], DurableEvents)
  BY DEF IInv, TypeOK, RunsOK
<1>2. CASE RecoverAppend(r)
  <2>1. ASSUME NEW s \in RunStates, NEW events, s.thread = run[r].thread,
               Step(r, Emit(s, events, "recover"))
        PROVE  GoesOn(r)
    <3>1. run[r].pc # "idle"
      BY <1>2 DEF RecoverAppend
    <3> QED
      BY <1>1, <2>1, <3>1, EmittedGoesOn DEF Step
  <2>2. ASSUME NEW e
        PROVE  /\ [run[r] EXCEPT !.receipts = @ \ {e}] \in RunStates
               /\ [run[r] EXCEPT !.failures = @ \ {e}] \in RunStates
               /\ [run[r] EXCEPT !.receipts = @ \ {e}].thread = run[r].thread
               /\ [run[r] EXCEPT !.failures = @ \ {e}].thread = run[r].thread
    BY <1>1 DEF RunStates
  <2> QED
    BY <1>2, <2>1, <2>2, GoesOnGuard DEF RecoverAppend
<1>3. CASE Recovered(r)
  BY <1>1, <1>3, EmitStepGoesOn, GoesOnGuard, LeaveGuard DEF Recovered
<1>4. CASE AppendOk(r)
  <2>1. CASE Leave(r)
    BY <1>1, <1>4, <2>1, LeaveGuard DEF AppendOk
  <2>2. CASE run' = [run EXCEPT ![r].todo = Tail(run[r].todo)] /\ UNCHANGED active
    <3>1. GoesOn(r)
      BY <1>1, <1>4, <2>2 DEF AppendOk, GoesOn, RunStates
    <3> QED
      BY <3>1, GoesOnGuard
  <2>3. CASE /\ run[r].then # "return"
             /\ run' = [run EXCEPT ![r].pc = run[r].then, ![r].then = None, ![r].todo = <<>>]
             /\ UNCHANGED active
    <3>1. run[r].pc = "append" /\ run[r].then \in Labels
      BY <1>1, <1>4, <2>3 DEF AppendOk, RunOK
    <3>2. run[r].then # "idle"
      BY <3>1 DEF Labels
    <3>3. GoesOn(r)
      BY <1>1, <2>3, <3>1, <3>2 DEF GoesOn, RunStates
    <3> QED
      BY <3>3, GoesOnGuard
  <2> QED
    BY <1>4, <2>1, <2>2, <2>3 DEF AppendOk
<1>5. CASE AppendRefused(r) \/ AppendFail(r) \/ Drop(r)
  BY <1>1, <1>5, LeaveGuard DEF AppendRefused, AppendFail, Drop, Awaiting
<1> QED
  BY <1>2, <1>3, <1>4, <1>5 DEF RunStep

\* A step that changes neither the runs nor the guard.
LEMMA FrameGuard ==
    ASSUME GuardExact, UNCHANGED <<run, active>>
    PROVE  GuardExact'
BY DEF GuardExact

\* Every step keeps the guard exact.
LEMMA CoreGuard == IInv /\ GuardExact /\ Core => GuardExact'
<1> SUFFICES ASSUME IInv, GuardExact, Core PROVE GuardExact'
  OBVIOUS
<1>1. run \in [Runs -> RunStates] /\ Turns \subseteq Runs
  BY DEF IInv, TypeOK, Runs
<1>2. ASSUME NEW th \in Threads, StartThread(th)
      PROVE  GuardExact'
  BY <1>2, FrameGuard DEF StartThread
<1>3. ASSUME NEW th \in Threads, NEW r \in Runs, Begins(r, th)
      PROVE  GuardExact'
  BY <1>1, <1>3, AcquireGuard DEF Begins
<1>4. ASSUME NEW r \in Runs, RunStep(r) \/ AppendFail(r) \/ Drop(r)
      PROVE  GuardExact'
  BY <1>4, RunStepsGuard
<1>5. ASSUME NEW t \in Turns,
             TurnStep(t) \/ \E decision \in Decisions : Approval(t, decision)
      PROVE  GuardExact'
  <2>1. GoesOn(t)
    BY <1>5, LoopStepsGoOn, CallStepsGoOn DEF TurnStep
  <2> QED
    BY <1>1, <2>1, GoesOnGuard
<1>6. CASE Signals
  BY <1>6, FrameGuard DEF Signals
<1> QED
  BY <1>1, <1>2, <1>3, <1>4, <1>5, <1>6, RestartGuard DEF Core

\* The ActiveThread guard is exact: acquire_thread and the drop of its guard keep
\* at most one run on a thread and leave no thread locked, on any error path, for
\* a dropped future and across restarts.
THEOREM GuardExactHolds == Spec => []GuardExact
<1>1. Init => GuardExact
  BY DEF Init, GuardExact, Idle
<1> QED
  BY <1>1, Invariance, NextIInv, CoreGuard, PTL DEF Spec

-----------------------------------------------------------------------------
(* The marks of a call are written once.                                   *)

Marks == {"started", "receipt"}

\* Events about the same call of the same turn.
Alike(e, f) == e.thread = f.thread /\ e.turn = f.turn /\ e.call = f.call

\* After f, e may not be written: a second mark of its type, or a start after
\* the receipt.
Blocks(f, e) ==
    /\ f.type \in Marks /\ e.type \in Marks /\ Alike(e, f)
    /\ f.type = e.type \/ f.type = "receipt"

\* None of the given events keeps e from being written.
Fresh(e, events) == \A f \in events : ~Blocks(f, e)

\* The first of the calls of a run in state s whose mark of the given type is
\* neither written nor queued.
FirstOpen(s, type) ==
    IF \/ At(s) = "after"
       \/ type = "started" /\ At(s) \in {"execute", "running"}
    THEN s.index + 1 ELSE s.index

\* A run in state s may still queue a mark of the given type about call c: the
\* model may yet ask for c, or it asked and the turn did not get there.
Open(s, type, c) ==
    \/ c \notin s.seen
    \/ \E i \in DOMAIN s.calls : i >= FirstOpen(s, type) /\ s.calls[i].id = c

\* Run r in state s will not queue e once more.
Done(r, s, e) ==
    /\ At(s) = "recover" /\ e.type = "receipt" => \A f \in s.receipts : ~Alike(e, f)
    /\ At(s) # "return" /\ e.turn = r => ~Open(s, e.type, e.call)

\* Nor any of the marks that its thread has among the events.
LogDone(r, s, events) ==
    \A e \in events : e.type \in Marks /\ e.thread = s.thread => Done(r, s, e)

\* The marks in the queue of run r are fresh, about different calls, and will
\* not be queued again; a recovery queues only receipts.
TodoFresh(r, s, events) ==
    \A k \in DOMAIN s.todo : s.todo[k].type \in Marks =>
        /\ s.todo[k].thread = s.thread
        /\ Done(r, s, s.todo[k])
        /\ Fresh(s.todo[k], events)
        /\ \A j \in DOMAIN s.todo :
              s.todo[j].type \in Marks /\ Alike(s.todo[j], s.todo[k]) => j = k
        /\ At(s) = "recover" => s.todo[k].type = "receipt"

\* The receipts that recovery has still to append close different calls, of
\* other turns of the thread.
MissingOnce(r, s) ==
    /\ \A e \in s.receipts : e.thread = s.thread /\ e.turn # r
    /\ \A e, f \in s.receipts : Alike(e, f) => e = f

\* Labels before the first call of an iteration.
Early == {"recover", "load", "loop", "model", "decide"}

\* The calls of an iteration are different calls.
CallsOnce(s) ==
    /\ \A i \in DOMAIN s.calls : s.calls[i].id \in s.seen
    /\ \A i, j \in DOMAIN s.calls : s.calls[i].id = s.calls[j].id => i = j
    /\ At(s) \in Early => s.index = 1

\* What a run that is not idle has written, has queued and may still queue.
OnceIn(r, s, events) ==
    /\ LogDone(r, s, events)
    /\ s.pc = "append" => TodoFresh(r, s, events)
    /\ At(s) = "recover" => MissingOnce(r, s)
    /\ CallsOnce(s)

\* No mark of the log is blocked by an earlier one.
LogOnce == \A i, j \in DOMAIN log : i < j => ~Blocks(log[i], log[j])

\* A failed append may leave one record that the next open finds; it is fresh.
PendingOnce ==
    /\ ~broken => pending = <<>>
    /\ Len(pending) =< 1
    /\ \A k \in DOMAIN pending : Fresh(pending[k], Records)

RunsOnce == \A r \in Runs : run[r].pc # "idle" => OnceIn(r, run[r], Records)

\* The inductive invariant of NoReplay, over IInv and GuardExact.
OnceInv == LogOnce /\ PendingOnce /\ RunsOnce

-----------------------------------------------------------------------------
(* What a receipt rests on.                                                *)

\* No event announces the execution of the call that e is about.
NotStarted(e, events) == \A f \in events : f.type = "started" => ~Alike(e, f)

\* An execution or an answer of the executor belongs to the call of e.
About(c, e) == c.thread = e.thread /\ c.turn = e.turn /\ c.call = e.call

\* A receipt says unknown, or what the executor answered about a call that it
\* was handed, or that a call without a start failed or was denied.
Truthful(e, events, did, said) ==
    \/ e.data.status = "unknown"
    \/ /\ \E c \in did : About(c, e)
       /\ \E a \in said : About(a, e) /\ a.status = e.data.status
    \/ e.data.status \in {"failed", "denied"} /\ NotStarted(e, events)

\* The receipts a run has queued or has still to append are truthful, and at
\* "running" its call was handed to the executor.
RunTruth(r, s, events, did, said) ==
    /\ s.pc = "append" => \A k \in DOMAIN s.todo :
          s.todo[k].type = "receipt" => Truthful(s.todo[k], events, did, said)
    /\ At(s) = "recover" => \A e \in s.receipts : Truthful(e, events, did, said)
    /\ At(s) = "running" => \E c \in did :
          c.thread = s.thread /\ c.turn = r /\ c.call = s.calls[s.index].id

\* What the log has, or has after the next open.
Written == Records \cup {pending[k] : k \in DOMAIN pending}

WrittenTruth ==
    \A e \in Written : e.type = "receipt" => Truthful(e, Records, crossed, answers)
RunsTruth ==
    \A r \in Runs : run[r].pc # "idle" => RunTruth(r, run[r], Records, crossed, answers)

\* The inductive invariant of ReceiptsTruthful, over OnceInv.
TruthInv == WrittenTruth /\ RunsTruth

-----------------------------------------------------------------------------
(* What a run may still write about.                                       *)

\* A run in state n may write no mark that it may not write in state s.
Narrows(s, n) ==
    /\ n.thread = s.thread
    /\ At(n) = "recover" => At(s) = "recover" /\ n.receipts \subseteq s.receipts
    /\ At(n) # "return" =>
          /\ At(s) # "return"
          /\ \A type \in Marks : \A c : Open(n, type, c) => Open(s, type, c)

\* A run that may write less has no more to fear from the log.
LEMMA NarrowsDone ==
    ASSUME NEW r, NEW s, NEW n, NEW events, Narrows(s, n), LogDone(r, s, events)
    PROVE  LogDone(r, n, events)
BY DEF Narrows, LogDone, Done

\* A step that queues no marks and may write less afterwards.
LEMMA QuietStep ==
    ASSUME NEW r, NEW s, NEW n, NEW events, OnceIn(r, s, events), Narrows(s, n),
           \A k \in DOMAIN n.todo : n.todo[k].type \notin Marks,
           CallsOnce(n), At(n) # "recover"
    PROVE  OnceIn(r, n, events)
<1>1. LogDone(r, n, events)
  BY NarrowsDone DEF OnceIn
<1>2. TodoFresh(r, n, events)
  BY DEF TodoFresh
<1> QED
  BY <1>1, <1>2 DEF OnceIn

\* An append of another run, which is on another thread.
LEMMA OtherAppend ==
    ASSUME NEW q, NEW s, NEW events, NEW e, OnceIn(q, s, events),
           e.type \in Marks => e.thread # s.thread
    PROVE  OnceIn(q, s, events \cup {e})
<1>1. LogDone(q, s, events \cup {e})
  BY DEF OnceIn, LogDone
<1>2. ASSUME TodoFresh(q, s, events) PROVE TodoFresh(q, s, events \cup {e})
  <2> SUFFICES ASSUME NEW k \in DOMAIN s.todo, s.todo[k].type \in Marks
               PROVE  Fresh(s.todo[k], events \cup {e})
    BY <1>2 DEF TodoFresh
  <2>1. Fresh(s.todo[k], events) /\ s.todo[k].thread = s.thread
    BY <1>2 DEF TodoFresh
  <2>2. ~Blocks(e, s.todo[k])
    BY <2>1 DEF Blocks, Alike
  <2> QED
    BY <2>1, <2>2 DEF Fresh
<1> QED
  BY <1>1, <1>2 DEF OnceIn

\* The append of the first event in the queue of the run itself.
LEMMA OwnAppend ==
    ASSUME NEW r, NEW s, NEW n, NEW events, OnceIn(r, s, events),
           s.pc = "append", s.todo \in Seq(Events), s.todo # <<>>,
           n.todo = Tail(s.todo), n.pc = "append" \/ Tail(s.todo) = <<>>,
           At(n) = At(s), n.thread = s.thread, n.receipts = s.receipts,
           n.seen = s.seen, n.calls = s.calls, n.index = s.index
    PROVE  OnceIn(r, n, events \cup {Head(s.todo)})
<1> DEFINE e == s.todo[1]
<1>0. Head(s.todo) = e /\ 1 \in DOMAIN s.todo
  OBVIOUS
<1>1. \A f : Done(r, n, f) <=> Done(r, s, f)
  BY DEF Done, Open, FirstOpen
<1>2. TodoFresh(r, s, events)
  BY DEF OnceIn
<1>3. LogDone(r, n, events \cup {e})
  <2>1. e.type \in Marks => Done(r, s, e)
    BY <1>0, <1>2 DEF TodoFresh
  <2> QED
    BY <1>1, <2>1 DEF OnceIn, LogDone
<1>4. ASSUME NEW k \in DOMAIN n.todo
      PROVE  n.todo[k] = s.todo[k + 1] /\ k + 1 \in DOMAIN s.todo /\ k + 1 # 1 /\ k \in Nat
  OBVIOUS
<1>5. TodoFresh(r, n, events \cup {e})
  <2> SUFFICES ASSUME NEW k \in DOMAIN n.todo, n.todo[k].type \in Marks
               PROVE  /\ n.todo[k].thread = n.thread
                      /\ Done(r, n, n.todo[k])
                      /\ Fresh(n.todo[k], events \cup {e})
                      /\ \A j \in DOMAIN n.todo :
                            n.todo[j].type \in Marks /\ Alike(n.todo[j], n.todo[k]) => j = k
                      /\ At(n) = "recover" => n.todo[k].type = "receipt"
    BY DEF TodoFresh
  <2>1. n.todo[k] = s.todo[k + 1] /\ k + 1 \in DOMAIN s.todo /\ k + 1 # 1
    BY <1>4
  <2>2. /\ n.todo[k].thread = n.thread
        /\ Done(r, n, n.todo[k])
        /\ Fresh(n.todo[k], events)
        /\ At(n) = "recover" => n.todo[k].type = "receipt"
    BY <1>1, <1>2, <2>1 DEF TodoFresh
  <2>3. ~Blocks(e, n.todo[k])
    BY <1>0, <1>2, <2>1 DEF TodoFresh, Blocks, Alike
  <2>4. Fresh(n.todo[k], events \cup {e})
    BY <2>2, <2>3 DEF Fresh
  <2>5. ASSUME NEW j \in DOMAIN n.todo, n.todo[j].type \in Marks,
               Alike(n.todo[j], n.todo[k])
        PROVE  j = k
    <3>1. n.todo[j] = s.todo[j + 1] /\ j + 1 \in DOMAIN s.todo /\ j \in Nat /\ k \in Nat
      BY <1>4
    <3>2. j + 1 = k + 1
      BY <1>2, <2>1, <2>5, <3>1 DEF TodoFresh
    <3> QED
      BY <3>1, <3>2
  <2> QED
    BY <2>2, <2>4, <2>5
<1>6. (At(n) = "recover" => MissingOnce(r, n)) /\ CallsOnce(n)
  BY DEF OnceIn, MissingOnce, CallsOnce
<1> QED
  BY <1>0, <1>3, <1>5, <1>6 DEF OnceIn

-----------------------------------------------------------------------------
\* The events about a call that was accepted, prepared or started.
LEMMA EventTypes ==
    ASSUME log \in Seq(Events), NEW i \in DOMAIN log
    PROVE  /\ log[i].type \in {"assistant", "prepared", "started", "receipt"} =>
                 log[i].turn \in Turns
           /\ log[i].type \in {"prepared", "started", "receipt"} => log[i].call \in Calls
BY DEF Events, PlainEvents, AssistantEvents, ActionEvents, ResolvedEvents, ReceiptEvents, Terminal

\* recover_thread closes each of the given calls once, by the last event of
\* the type about it.
LEMMA ReceiptsForFacts ==
    ASSUME log \in Seq(Events), NEW th, NEW keys, NEW type \in {"prepared", "started"},
           NEW how, NEW e \in ReceiptsFor(log, th, keys, type, how)
    PROVE  /\ e.type = "receipt" /\ e.thread = th /\ e.data.status = how
           /\ <<e.turn, e.call>> \in keys
           /\ \E f \in Records : f.thread = th /\ f.turn = e.turn /\ f.turn \in Turns
           /\ \A f \in ReceiptsFor(log, th, keys, type, how) : Alike(e, f) => e = f
<1> DEFINE last(i) == /\ i \in Places(log, th, type)
                      /\ <<log[i].turn, log[i].call>> \in keys
                      /\ \A k \in Places(log, th, type) : k > i =>
                            <<log[k].turn, log[k].call>> # <<log[i].turn, log[i].call>>
           of(i) == Receipt(th, log[i].turn, log[i].call, how, log[i].data)
<1>1. \A f \in ReceiptsFor(log, th, keys, type, how) : \E i : last(i) /\ f = of(i)
  BY DEF ReceiptsFor
<1>2. PICK i : last(i) /\ e = of(i)
  BY <1>1
<1>3. i \in DOMAIN log /\ log[i].type = type /\ log[i].thread = th
  BY <1>2 DEF Places
<1>4. /\ e.type = "receipt" /\ e.thread = th /\ e.data.status = how
      /\ e.turn = log[i].turn /\ e.call = log[i].call
  BY <1>2 DEF Receipt, Event
<1>5. log[i].turn \in Turns
  BY <1>3, EventTypes
<1>6. ASSUME NEW f \in ReceiptsFor(log, th, keys, type, how), Alike(e, f)
      PROVE  e = f
  <2>1. PICK j : last(j) /\ f = of(j)
    BY <1>1
  <2>2. f.turn = log[j].turn /\ f.call = log[j].call
    BY <2>1 DEF Receipt, Event
  <2>3. <<log[i].turn, log[i].call>> = <<log[j].turn, log[j].call>>
    BY <1>4, <1>6, <2>2 DEF Alike
  <2>4. i \in Nat /\ j \in Nat
    BY <1>3, <2>1 DEF Places
  <2>5. ~(i > j) /\ ~(j > i)
    BY <1>2, <2>1, <2>3
  <2>6. i = j
    BY <2>4, <2>5
  <2> QED
    BY <1>2, <2>1, <2>6
<1> QED
  BY <1>2, <1>3, <1>4, <1>5, <1>6 DEF Records

\* The receipts that recovery finds missing: for calls of turns that the
\* thread has, without a receipt, one for each call, and "failed" only for a
\* call without a start.
LEMMA MissingFacts ==
    ASSUME log \in Seq(Events), NEW th, NEW e \in MissingReceipts(log, th)
    PROVE  /\ e.type = "receipt" /\ e.thread = th
           /\ \E f \in Records : f.thread = th /\ f.turn = e.turn /\ f.turn \in Turns
           /\ \A f \in Records : f.type = "receipt" => ~Alike(e, f)
           /\ \/ e.data.status = "unknown"
              \/ e.data.status = "failed" /\ NotStarted(e, Records)
           /\ \A f \in MissingReceipts(log, th) : Alike(e, f) => e = f
<1> DEFINE closed == KeysOf(log, th, "receipt")
           started == KeysOf(log, th, "started")
           prepared == KeysOf(log, th, "prepared")
           accepted == AcceptedKeys(log, th)
           U == ReceiptsFor(log, th, started \ closed, "started", "unknown")
           P == ReceiptsFor(log, th, (prepared \ started) \ closed, "prepared", "failed")
           A == {Receipt(th, key[1], key[2], "failed", None) :
                    key \in ((accepted \ prepared) \ started) \ closed}
           key(f) == <<f.turn, f.call>>
<1>1. MissingReceipts(log, th) = U \cup P \cup A
  BY DEF MissingReceipts
<1>2. ASSUME NEW f \in U
      PROVE  /\ f.type = "receipt" /\ f.thread = th /\ f.data.status = "unknown"
             /\ key(f) \in started /\ key(f) \notin closed
             /\ \E g \in Records : g.thread = th /\ g.turn = f.turn /\ g.turn \in Turns
             /\ \A g \in U : Alike(f, g) => f = g
  <2> DEFINE keys == started \ closed
  <2>1. key(f) \in keys => key(f) \in started /\ key(f) \notin closed
    OBVIOUS
  <2>2. f \in ReceiptsFor(log, th, keys, "started", "unknown")
    BY <1>2
  <2>3. U = ReceiptsFor(log, th, keys, "started", "unknown")
    OBVIOUS
  <2> HIDE DEF keys, U, started, closed
  <2>4. /\ f.type = "receipt" /\ f.thread = th /\ f.data.status = "unknown"
        /\ <<f.turn, f.call>> \in keys
        /\ \E g \in Records : g.thread = th /\ g.turn = f.turn /\ g.turn \in Turns
        /\ \A g \in ReceiptsFor(log, th, keys, "started", "unknown") : Alike(f, g) => f = g
    BY <2>2, ReceiptsForFacts
  <2> QED
    BY <2>1, <2>3, <2>4
<1>3. ASSUME NEW f \in P
      PROVE  /\ f.type = "receipt" /\ f.thread = th /\ f.data.status = "failed"
             /\ key(f) \in prepared /\ key(f) \notin started /\ key(f) \notin closed
             /\ \E g \in Records : g.thread = th /\ g.turn = f.turn /\ g.turn \in Turns
             /\ \A g \in P : Alike(f, g) => f = g
  <2> DEFINE keys == (prepared \ started) \ closed
  <2>1. key(f) \in keys => key(f) \in prepared /\ key(f) \notin started /\ key(f) \notin closed
    OBVIOUS
  <2>2. f \in ReceiptsFor(log, th, keys, "prepared", "failed")
    BY <1>3
  <2>3. P = ReceiptsFor(log, th, keys, "prepared", "failed")
    OBVIOUS
  <2> HIDE DEF keys, P, prepared, started, closed
  <2>4. /\ f.type = "receipt" /\ f.thread = th /\ f.data.status = "failed"
        /\ <<f.turn, f.call>> \in keys
        /\ \E g \in Records : g.thread = th /\ g.turn = f.turn /\ g.turn \in Turns
        /\ \A g \in ReceiptsFor(log, th, keys, "prepared", "failed") : Alike(f, g) => f = g
    BY <2>2, ReceiptsForFacts
  <2> QED
    BY <2>1, <2>3, <2>4
<1>4. ASSUME NEW f \in A
      PROVE  /\ f.type = "receipt" /\ f.thread = th /\ f.data.status = "failed"
             /\ key(f) \notin prepared /\ key(f) \notin started /\ key(f) \notin closed
             /\ \E g \in Records : g.thread = th /\ g.turn = f.turn /\ g.turn \in Turns
             /\ \A g \in A : Alike(f, g) => f = g
  <2>1. PICK k \in ((accepted \ prepared) \ started) \ closed :
          f = Receipt(th, k[1], k[2], "failed", None)
    BY <1>4
  <2>2. k \in Turns \X Calls /\ \E i \in Places(log, th, "assistant") : log[i].turn = k[1]
    BY <2>1 DEF AcceptedKeys
  <2>3. k = <<k[1], k[2]>> /\ k[1] \in Turns
    BY <2>2
  <2>4. /\ f.type = "receipt" /\ f.thread = th /\ f.data.status = "failed"
        /\ f.turn = k[1] /\ f.call = k[2]
    BY <2>1 DEF Receipt, Event
  <2>5. \E g \in Records : g.thread = th /\ g.turn = f.turn /\ g.turn \in Turns
    BY <2>2, <2>3, <2>4 DEF Places, Records
  <2>6. ASSUME NEW g \in A, Alike(f, g) PROVE f = g
    <3>1. PICK m \in ((accepted \ prepared) \ started) \ closed :
            g = Receipt(th, m[1], m[2], "failed", None)
      BY <2>6
    <3>2. g.turn = m[1] /\ g.call = m[2]
      BY <3>1 DEF Receipt, Event
    <3> QED
      BY <2>1, <2>4, <2>6, <3>1, <3>2 DEF Alike
  <2>7. key(f) = k
    BY <2>3, <2>4
  <2> QED
    BY <2>1, <2>4, <2>5, <2>6, <2>7
<1>5. \A f \in Records : /\ f.thread = th /\ f.type = "receipt" => key(f) \in closed
                         /\ f.thread = th /\ f.type = "started" => key(f) \in started
  BY DEF Records, KeysOf, Places
<1>6. \A f, g : Alike(f, g) => key(f) = key(g) /\ f.thread = g.thread
  BY DEF Alike
<1> HIDE DEF U, P, A, closed, started, prepared, accepted, key
<1>7. e.type = "receipt" /\ e.thread = th /\ key(e) \notin closed
      /\ \E f \in Records : f.thread = th /\ f.turn = e.turn /\ f.turn \in Turns
  BY <1>1, <1>2, <1>3, <1>4
<1>8. \A f \in Records : f.type = "receipt" => ~Alike(e, f)
  BY <1>5, <1>6, <1>7
<1>9. e.data.status = "unknown" \/ (e.data.status = "failed" /\ key(e) \notin started)
  BY <1>1, <1>2, <1>3, <1>4
<1>10. key(e) \notin started => NotStarted(e, Records)
  BY <1>5, <1>6, <1>7 DEF NotStarted
<1>11. ASSUME NEW f \in MissingReceipts(log, th), Alike(e, f) PROVE e = f
  <2>1. key(e) = key(f)
    BY <1>6, <1>11
  <2>2. \/ e \in U /\ f \in U
        \/ e \in P /\ f \in P
        \/ e \in A /\ f \in A
    BY <1>1, <1>2, <1>3, <1>4, <2>1
  <2> QED
    BY <1>2, <1>3, <1>4, <1>11, <2>2
<1> QED
  BY <1>7, <1>8, <1>9, <1>10, <1>11

-----------------------------------------------------------------------------
(* The steps of the store keep the marks single.                           *)

\* A step that leaves the store alone.
LEMMA StillOnce ==
    ASSUME OnceInv, UNCHANGED storeVars,
           \A q \in Runs : run'[q].pc # "idle" => OnceIn(q, run'[q], Records)
    PROVE  OnceInv'
<1>1. Records' = Records
  BY DEF Records, storeVars
<1>2. LogOnce' /\ PendingOnce'
  BY <1>1 DEF OnceInv, LogOnce, PendingOnce, storeVars
<1> QED
  BY <1>1, <1>2 DEF OnceInv, RunsOnce

\* An append of a fresh event that returned Ok.
LEMMA AppendedOnce ==
    ASSUME OnceInv, log \in Seq(Events), NEW e \in Events, StoreAppend(e), Fresh(e, Records),
           \A q \in Runs : run'[q].pc # "idle" => OnceIn(q, run'[q], Records \cup {e})
    PROVE  OnceInv'
<1>1. log' = Append(log, e) /\ ~broken /\ UNCHANGED <<pending, broken>>
  BY DEF StoreAppend
<1>2. Records' = Records \cup {e}
  BY <1>1 DEF Records
<1>3. LogOnce'
  <2> SUFFICES ASSUME NEW i \in DOMAIN log', NEW j \in DOMAIN log', i < j
               PROVE  ~Blocks(log'[i], log'[j])
    BY DEF LogOnce, Blocks, Alike
  <2>1. i \in DOMAIN log /\ log'[i] = log[i]
    BY <1>1
  <2>2. CASE j \in DOMAIN log
    BY <1>1, <2>1, <2>2 DEF OnceInv, LogOnce
  <2>3. CASE j \notin DOMAIN log
    <3>1. log'[j] = e
      BY <1>1, <2>3
    <3> QED
      BY <2>1, <3>1 DEF Fresh, Records
  <2> QED
    BY <2>2, <2>3
<1>4. PendingOnce'
  BY <1>1 DEF OnceInv, PendingOnce
<1> QED
  BY <1>2, <1>3, <1>4 DEF OnceInv, RunsOnce

\* An append of a fresh event that failed, with or without a trace.
LEMMA FailedOnce ==
    ASSUME OnceInv, NEW e, StoreFail(e), Fresh(e, Records),
           \A q \in Runs : run'[q].pc # "idle" => run'[q] = run[q]
    PROVE  OnceInv'
<1>1. /\ UNCHANGED log
      /\ broken' = TRUE
      /\ pending' = <<>> \/ pending' = <<e>>
  BY DEF StoreFail
<1>2. Records' = Records
  BY <1>1 DEF Records
<1>3. LogOnce'
  BY <1>1 DEF OnceInv, LogOnce
<1>4. PendingOnce'
  <2>1. \A k \in DOMAIN pending' : Fresh(pending'[k], Records')
    BY <1>1, <1>2
  <2>2. Len(pending') =< 1 /\ broken'
    BY <1>1
  <2> QED
    BY <2>1, <2>2 DEF PendingOnce, Fresh, Blocks, Alike
<1> QED
  BY <1>2, <1>3, <1>4 DEF OnceInv, RunsOnce

\* A restart ends all runs and keeps a prefix of the log with the pending
\* record.
LEMMA RestartOnce ==
    ASSUME IInv, OnceInv, Restart
    PROVE  OnceInv'
<1>1. log \in Seq(Events) /\ pending \in Seq(Events) /\ synced \in 0..Len(log)
  BY DEF IInv, TypeOK
<1>2. PICK k \in synced..Len(log) + Len(pending) : log' = SubSeq(log \o pending, 1, k)
  BY DEF Restart, StoreReopen
<1>3. pending' = <<>> /\ run' = [r \in Runs |-> Idle]
  BY DEF Restart, StoreReopen
<1>4. LogOnce'
  <2> SUFFICES ASSUME NEW i \in DOMAIN log', NEW j \in DOMAIN log', i < j
               PROVE  ~Blocks(log'[i], log'[j])
    BY DEF LogOnce, Blocks, Alike
  <2>1. /\ Len(log) \in Nat /\ Len(pending) \in Nat /\ Len(pending) =< 1
        /\ i \in 1..Len(log) + Len(pending) /\ j \in 1..Len(log) + Len(pending)
        /\ log'[i] = (log \o pending)[i] /\ log'[j] = (log \o pending)[j]
    <3>1. Len(log) \in Nat /\ Len(pending) \in Nat /\ Len(pending) =< 1
      BY <1>1 DEF OnceInv, PendingOnce
    <3>2. log \o pending \in Seq(Events) /\ Len(log \o pending) = Len(log) + Len(pending)
      BY <1>1
    <3>3. k \in Nat /\ k =< Len(log) + Len(pending)
      BY <1>1, <3>1
    <3>4. DOMAIN log' = 1..k /\ \A m \in 1..k : log'[m] = (log \o pending)[m]
      BY <1>2, <3>2, <3>3
    <3> QED
      BY <3>1, <3>3, <3>4
  <2>2. i \in DOMAIN log /\ log'[i] = log[i]
    BY <1>1, <2>1
  <2>3. CASE j \in DOMAIN log
    <3>1. log'[j] = log[j]
      BY <1>1, <2>1, <2>3
    <3> QED
      BY <2>2, <2>3, <3>1 DEF OnceInv, LogOnce
  <2>4. CASE j \notin DOMAIN log
    <3>1. 1 \in DOMAIN pending /\ log'[j] = pending[1]
      BY <1>1, <2>1, <2>4
    <3> QED
      BY <2>2, <3>1 DEF OnceInv, PendingOnce, Fresh, Records
  <2> QED
    BY <2>3, <2>4
<1>5. PendingOnce'
  BY <1>3 DEF PendingOnce
<1>6. RunsOnce'
  BY <1>3 DEF RunsOnce, Idle
<1> QED
  BY <1>4, <1>5, <1>6 DEF OnceInv

\* Events that are no marks are always fresh.
LEMMA OtherFresh ==
    ASSUME NEW e, NEW events, e.type \notin Marks
    PROVE  Fresh(e, events)
BY DEF Fresh, Blocks

\* start_thread appends an event that is no mark.
LEMMA StartThreadOnce ==
    ASSUME IInv, OnceInv, NEW th \in Threads, StartThread(th)
    PROVE  OnceInv'
<1> DEFINE e == Event("thread_started", th, None, None, None)
<1>1. e \in Events /\ e.type \notin Marks
  BY DEF Event, Events, PlainEvents, Marks
<1>2. StoreAppend(e) \/ StoreFail(e)
  BY DEF StartThread
<1>3. UNCHANGED run /\ log \in Seq(Events)
  BY DEF StartThread, IInv, TypeOK
<1> HIDE DEF e
<1>4. Fresh(e, Records)
  BY <1>1, OtherFresh
<1>5. \A q \in Runs : run[q].pc # "idle" => OnceIn(q, run[q], Records \cup {e})
  BY <1>1, OtherAppend DEF OnceInv, RunsOnce
<1> QED
  BY <1>1, <1>2, <1>3, <1>4, <1>5, AppendedOnce, FailedOnce

\* What is first in the queue of a run is fresh, and on its thread if it is a mark.
LEMMA HeadFresh ==
    ASSUME IInv, OnceInv, NEW r \in Runs, run[r].pc = "append"
    PROVE  /\ run[r].todo \in Seq(Events) /\ run[r].todo # <<>>
           /\ Head(run[r].todo) \in Events
           /\ Fresh(Head(run[r].todo), Records)
           /\ Head(run[r].todo).type \in Marks => Head(run[r].todo).thread = run[r].thread
<1>1. run[r] \in RunStates /\ RunOK(r, run[r], DurableEvents)
  BY DEF IInv, TypeOK, RunsOK
<1>2. run[r].todo \in Seq(Events) /\ run[r].todo # <<>>
  BY <1>1 DEF RunStates, RunOK
<1>3. /\ Head(run[r].todo) = run[r].todo[1] /\ 1 \in DOMAIN run[r].todo
      /\ Head(run[r].todo) \in Events
  BY <1>2
<1>4. TodoFresh(r, run[r], Records)
  BY DEF OnceInv, RunsOnce, OnceIn
<1> QED
  BY <1>2, <1>3, <1>4, OtherFresh DEF TodoFresh

\* An append of a run that returned Ok: the guard keeps the other runs on
\* other threads.
LEMMA AppendOkOnce ==
    ASSUME IInv, GuardExact, OnceInv, NEW r \in Runs, AppendOk(r)
    PROVE  OnceInv'
<1> DEFINE s == run[r]
           e == Head(s.todo)
<1>1. /\ run \in [Runs -> RunStates] /\ s \in RunStates /\ log \in Seq(Events)
      /\ RunOK(r, s, DurableEvents)
  BY DEF IInv, TypeOK, RunsOK
<1>2. s.pc = "append" /\ StoreAppend(e)
  BY DEF AppendOk
<1>3. /\ s.todo \in Seq(Events) /\ s.todo # <<>> /\ e \in Events /\ Fresh(e, Records)
      /\ e.type \in Marks => e.thread = s.thread
  BY <1>2, HeadFresh
<1>4. ASSUME NEW q \in Runs, q # r, run[q].pc # "idle"
      PROVE  OnceIn(q, run[q], Records \cup {e})
  <2>1. run[q].thread # s.thread
    BY <1>2, <1>4 DEF GuardExact
  <2> QED
    BY <1>3, <1>4, <2>1, OtherAppend DEF OnceInv, RunsOnce
<1>5. \/ run' = [run EXCEPT ![r].todo = Tail(s.todo)]
      \/ run' = [run EXCEPT ![r] = Idle]
      \/ /\ Tail(s.todo) = <<>> /\ s.then # "return"
         /\ run' = [run EXCEPT ![r].pc = s.then, ![r].then = None, ![r].todo = <<>>]
  BY DEF AppendOk, Leave
<1>6. \A q \in Runs : q # r => run'[q] = run[q]
  BY <1>1, <1>5
<1>7. ASSUME run'[r].pc # "idle"
      PROVE  OnceIn(r, run'[r], Records \cup {e})
  <2> DEFINE n == run'[r]
  <2>1. OnceIn(r, s, Records)
    BY <1>2 DEF OnceInv, RunsOnce
  <2>2. /\ n.todo = Tail(s.todo) /\ (n.pc = "append" \/ Tail(s.todo) = <<>>)
        /\ n.thread = s.thread /\ n.receipts = s.receipts
        /\ n.seen = s.seen /\ n.calls = s.calls /\ n.index = s.index
        /\ At(n) = At(s)
    <3>1. CASE run' = [run EXCEPT ![r].todo = Tail(s.todo)]
      BY <1>1, <1>2, <3>1 DEF RunStates, At
    <3>2. CASE run' = [run EXCEPT ![r] = Idle]
      BY <1>1, <1>7, <3>2 DEF Idle
    <3>3. CASE /\ Tail(s.todo) = <<>> /\ s.then # "return"
               /\ run' = [run EXCEPT ![r].pc = s.then, ![r].then = None, ![r].todo = <<>>]
      <4>1. s.then \in Labels
        BY <1>1, <1>2, <3>3 DEF RunOK
      <4>2. s.then # "append"
        BY <4>1 DEF Labels
      <4> QED
        BY <1>1, <1>2, <3>3, <4>2 DEF RunStates, At
    <3> QED
      BY <1>5, <3>1, <3>2, <3>3
  <2> HIDE DEF n, s, e
  <2>3. OnceIn(r, n, Records \cup {Head(s.todo)})
    BY <1>2, <1>3, <2>1, <2>2, OwnAppend
  <2> QED
    BY <2>3 DEF n, e
<1> HIDE DEF e
<1>8. \A q \in Runs : run'[q].pc # "idle" => OnceIn(q, run'[q], Records \cup {e})
  BY <1>4, <1>6, <1>7
<1> QED
  BY <1>1, <1>2, <1>3, <1>8, AppendedOnce

\* An append of a run that failed.
LEMMA AppendFailOnce ==
    ASSUME IInv, OnceInv, NEW r \in Runs, AppendFail(r)
    PROVE  OnceInv'
<1>1. run[r].pc = "append" /\ StoreFail(Head(run[r].todo)) /\ run' = [run EXCEPT ![r] = Idle]
  BY DEF AppendFail, Leave
<1>2. \A q \in Runs : run'[q].pc # "idle" => run'[q] = run[q]
  BY <1>1 DEF Idle, IInv, TypeOK
<1> QED
  BY <1>1, <1>2, HeadFresh, FailedOnce

\* A run that leaves without an append.
LEMMA LeaveOnce ==
    ASSUME IInv, OnceInv, NEW r \in Runs, Leave(r), UNCHANGED storeVars
    PROVE  OnceInv'
<1>1. \A q \in Runs : run'[q].pc # "idle" => run'[q] = run[q]
  BY DEF Leave, Idle, IInv, TypeOK
<1> QED
  BY <1>1, StillOnce DEF OnceInv, RunsOnce

\* A step of one run that leaves the store alone.
LEMMA StepOnce ==
    ASSUME IInv, OnceInv, NEW r \in Runs, NEW n, run' = [run EXCEPT ![r] = n],
           UNCHANGED storeVars, OnceIn(r, n, Records)
    PROVE  OnceInv'
<1>1. \A q \in Runs : run'[q].pc # "idle" => OnceIn(q, run'[q], Records)
  BY DEF IInv, TypeOK, OnceInv, RunsOnce
<1> QED
  BY <1>1, StillOnce

-----------------------------------------------------------------------------
(* The steps of a run, by what they do to its queue.                       *)

\* The fields of a run that queues events.
LEMMA EmitShape ==
    ASSUME NEW s \in RunStates, NEW events, NEW then
    PROVE  /\ Emit(s, events, then).pc = "append"
           /\ Emit(s, events, then).then = then
           /\ At(Emit(s, events, then)) = then
           /\ Emit(s, events, then).todo = events
           /\ Emit(s, events, then).thread = s.thread
           /\ Emit(s, events, then).receipts = s.receipts
           /\ Emit(s, events, then).failures = s.failures
           /\ Emit(s, events, then).seen = s.seen
           /\ Emit(s, events, then).calls = s.calls
           /\ Emit(s, events, then).index = s.index
           /\ Emit(s, events, then).action = s.action
BY DEF Emit, RunStates, At

\* A step along the labels, with the calls and the position among them kept.
LEMMA NarrowsAlong ==
    ASSUME NEW s \in RunStates, NEW n, n.thread = s.thread, n.calls = s.calls,
           n.seen = s.seen, n.index = s.index, At(n) # "recover", At(s) # "return",
           At(n) # "return" =>
              /\ At(s) \in {"execute", "running"} => At(n) \in {"execute", "running", "after"}
              /\ At(s) = "after" => At(n) = "after"
    PROVE  Narrows(s, n)
<1>1. s.index \in Nat /\ DOMAIN s.calls \subseteq Nat
  BY DEF RunStates
<1>2. ASSUME At(n) # "return", NEW type \in Marks, NEW i \in Nat, i >= FirstOpen(n, type)
      PROVE  i >= FirstOpen(s, type)
  BY <1>1, <1>2 DEF FirstOpen, Marks
<1>3. ASSUME At(n) # "return", NEW type \in Marks, NEW c, Open(n, type, c)
      PROVE  Open(s, type, c)
  BY <1>1, <1>2, <1>3 DEF Open
<1> QED
  BY <1>3 DEF Narrows

\* A run that is about to return may write nothing more.
LEMMA NarrowsEnd ==
    ASSUME NEW s, NEW n, n.thread = s.thread, At(n) = "return"
    PROVE  Narrows(s, n)
BY DEF Narrows

\* A step that keeps the calls and the ids that were seen.
LEMMA CallsOnceKept ==
    ASSUME NEW s, NEW n, CallsOnce(s), n.calls = s.calls, n.seen = s.seen,
           At(n) \in Early => n.index = 1
    PROVE  CallsOnce(n)
BY DEF CallsOnce, Early

\* The run appends events that are no marks, and returns.
LEMMA QuietEnd ==
    ASSUME NEW r, NEW s \in RunStates, NEW events, OnceIn(r, s, Records),
           \A k \in DOMAIN events : events[k].type \notin Marks
    PROVE  OnceIn(r, Emit(s, events, "return"), Records)
<1> DEFINE n == Emit(s, events, "return")
<1>1. /\ At(n) = "return" /\ n.todo = events /\ n.thread = s.thread
      /\ n.calls = s.calls /\ n.seen = s.seen
  BY EmitShape
<1> HIDE DEF n
<1>2. Narrows(s, n) /\ CallsOnce(n)
  BY <1>1, NarrowsEnd, CallsOnceKept DEF OnceIn, Early
<1>3. OnceIn(r, n, Records)
  BY <1>1, <1>2, QuietStep
<1> QED
  BY <1>3 DEF n

\* The run appends events that are no marks, and goes on.
LEMMA QuietEmit ==
    ASSUME NEW r, NEW s \in RunStates, NEW events, NEW then, OnceIn(r, s, Records),
           \A k \in DOMAIN events : events[k].type \notin Marks,
           \/ s.pc = "recover" /\ then = "load"
           \/ s.pc = "loop" /\ then = "model"
           \/ s.pc = "handle" /\ then = "gate"
           \/ s.pc = "gate" /\ then = "approval"
    PROVE  OnceIn(r, Emit(s, events, then), Records)
<1> DEFINE n == Emit(s, events, then)
<1>1. /\ At(n) = then /\ n.todo = events /\ n.thread = s.thread
      /\ n.calls = s.calls /\ n.seen = s.seen /\ n.index = s.index
  BY EmitShape
<1> HIDE DEF n
<1>2. At(s) = s.pc
  BY DEF At
<1>3. Narrows(s, n)
  BY <1>1, <1>2, NarrowsAlong
<1>4. CallsOnce(n)
  BY <1>1, <1>2, CallsOnceKept DEF OnceIn, CallsOnce, Early
<1>5. OnceIn(r, n, Records)
  BY <1>1, <1>3, <1>4, QuietStep
<1> QED
  BY <1>5 DEF n

\* An event about a call the run has still to write about is fresh.
LEMMA OpenFresh ==
    ASSUME NEW r, NEW s, NEW events, LogDone(r, s, events), At(s) # "return",
           NEW i \in DOMAIN s.calls, NEW e, e.type \in Marks, e.thread = s.thread,
           e.turn = r, e.call = s.calls[i].id,
           i >= FirstOpen(s, e.type), i >= FirstOpen(s, "receipt")
    PROVE  Fresh(e, events)
<1> SUFFICES ASSUME NEW f \in events, Blocks(f, e) PROVE FALSE
  BY DEF Fresh
<1>1. /\ f.type \in Marks /\ f.thread = s.thread /\ f.turn = r /\ f.call = s.calls[i].id
      /\ f.type = e.type \/ f.type = "receipt"
  BY DEF Blocks, Alike
<1>2. Open(s, f.type, f.call)
  BY <1>1 DEF Open
<1> QED
  BY <1>1, <1>2 DEF LogDone, Done

\* The calls before the first one that is open are not open.
LEMMA PassedOver ==
    ASSUME NEW n, n.index \in Nat, n.calls \in Seq(ToolCall), CallsOnce(n),
           NEW i \in DOMAIN n.calls, NEW type, FirstOpen(n, type) > i
    PROVE  ~Open(n, type, n.calls[i].id)
<1>1. i \in Nat /\ FirstOpen(n, type) \in Nat
  BY DEF FirstOpen
<1> QED
  BY <1>1 DEF Open, CallsOnce

\* The run appends one mark about the call it handles.
LEMMA MarkStep ==
    ASSUME NEW r, NEW s \in RunStates, NEW n, n.index \in Nat, OnceIn(r, s, Records),
           At(s) # "return", At(n) \notin Early, Narrows(s, n), n.pc = "append",
           n.calls = s.calls, n.seen = s.seen, s.index \in DOMAIN s.calls,
           NEW m \in DOMAIN n.todo, NEW e, e = n.todo[m],
           \A k \in DOMAIN n.todo : n.todo[k].type \in Marks => k = m,
           e.type \in Marks, e.thread = s.thread, e.turn = r,
           e.call = s.calls[s.index].id,
           s.index >= FirstOpen(s, e.type), s.index >= FirstOpen(s, "receipt"),
           FirstOpen(n, e.type) > s.index
    PROVE  OnceIn(r, n, Records)
<1>1. LogDone(r, n, Records)
  BY NarrowsDone DEF OnceIn
<1>2. CallsOnce(n)
  BY CallsOnceKept DEF OnceIn
<1>3. Fresh(e, Records)
  BY OpenFresh DEF OnceIn
<1>4. ~Open(n, e.type, e.call)
  <2>1. n.calls \in Seq(ToolCall)
    BY DEF RunStates
  <2> QED
    BY <1>2, <2>1, PassedOver
<1>5. At(n) # "recover" /\ n.thread = s.thread
  BY DEF Early, Narrows
<1>6. Done(r, n, e)
  BY <1>4, <1>5 DEF Done
<1>7. TodoFresh(r, n, Records)
  BY <1>3, <1>5, <1>6 DEF TodoFresh
<1> QED
  BY <1>1, <1>2, <1>5, <1>7 DEF OnceIn

-----------------------------------------------------------------------------
(* The actions keep the marks single.                                      *)

\* What is known of a turn that is under way.
LEMMA OnceFacts ==
    ASSUME IInv, OnceInv, NEW r \in Runs, run[r].pc # "idle"
    PROVE  /\ run[r] \in RunStates
           /\ OnceIn(r, run[r], Records)
           /\ run[r].pc # "append" => At(run[r]) = run[r].pc
           /\ At(run[r]) \in Handling => run[r].index \in DOMAIN run[r].calls
BY DEF IInv, TypeOK, RunsOK, RunOK, OnceInv, RunsOnce, At

\* An event about the turn as a whole is no mark.
LEMMA TurnOfQuiet ==
    ASSUME NEW type \in {"turn_started", "user", "context", "request", "hook_failed"}
                            \cup Terminal,
           NEW t
    PROVE  TurnOf(type, t).type \notin Marks
BY DEF TurnOf, TurnEvent, Event, Marks, Terminal

\* A run begins on a thread that has no event of it.
LEMMA AcquireOnce ==
    ASSUME IInv, OnceInv, NEW r \in Runs, NEW th \in Threads, Acquire(r, th),
           \A e \in Records : e.thread = th /\ e.turn \in Turns => e.turn # r
    PROVE  OnceInv'
<1> DEFINE n == [Idle EXCEPT !.pc = "recover", !.thread = th,
                             !.receipts = MissingReceipts(log, th),
                             !.failures = RecoveryFailures(log, th)]
<1>1. run' = [run EXCEPT ![r] = n] /\ UNCHANGED storeVars
  BY DEF Acquire
<1>2. /\ n.pc = "recover" /\ At(n) = "recover" /\ n.thread = th
      /\ n.receipts = MissingReceipts(log, th)
      /\ n.seen = {} /\ n.calls = <<>> /\ n.index = 1
  BY DEF Idle, At
<1> HIDE DEF n
<1>3. log \in Seq(Events)
  BY DEF IInv, TypeOK
<1>4. ASSUME NEW e \in Records, e.type \in Marks, e.thread = th
      PROVE  Done(r, n, e)
  <2>1. e.turn \in Turns
    BY <1>3, <1>4, EventTypes DEF Records, Marks
  <2>2. ASSUME NEW f \in MissingReceipts(log, th), e.type = "receipt" PROVE ~Alike(e, f)
    BY <1>3, <1>4, <2>2, MissingFacts DEF Alike
  <2> QED
    BY <1>2, <1>4, <2>1, <2>2 DEF Done
<1>5. MissingOnce(r, n)
  <2>1. ASSUME NEW e \in MissingReceipts(log, th) PROVE e.thread = th /\ e.turn # r
    BY <1>3, MissingFacts
  <2>2. \A e, f \in MissingReceipts(log, th) : Alike(e, f) => e = f
    BY <1>3, MissingFacts
  <2> QED
    BY <1>2, <2>1, <2>2 DEF MissingOnce
<1>6. OnceIn(r, n, Records)
  BY <1>2, <1>4, <1>5 DEF OnceIn, LogDone, CallsOnce
<1> QED
  BY <1>1, <1>6, StepOnce

\* Recovery moves one missing receipt, or the failure of a turn, into the
\* queue.
LEMMA RecoverAppendOnce ==
    ASSUME IInv, OnceInv, NEW r \in Runs, RecoverAppend(r)
    PROVE  OnceInv'
<1> DEFINE s == run[r]
<1>1. s.pc = "recover" /\ s \in RunStates /\ OnceIn(r, s, Records) /\ At(s) = "recover"
  BY OnceFacts DEF RecoverAppend
<1>2. ASSUME NEW e \in s.receipts,
             Step(r, Emit([s EXCEPT !.receipts = @ \ {e}], <<e>>, "recover"))
      PROVE  OnceInv'
  <2> DEFINE less == [s EXCEPT !.receipts = @ \ {e}]
             n == Emit(less, <<e>>, "recover")
  <2>1. /\ less \in RunStates /\ less.thread = s.thread /\ less.receipts = s.receipts \ {e}
        /\ less.seen = s.seen /\ less.calls = s.calls /\ less.index = s.index
    BY <1>1 DEF RunStates
  <2>2. run' = [run EXCEPT ![r] = n] /\ UNCHANGED storeVars
    BY <1>2 DEF Step
  <2> HIDE DEF less
  <2>3. /\ At(n) = "recover" /\ n.pc = "append" /\ n.todo = <<e>>
        /\ n.thread = s.thread /\ n.receipts = s.receipts \ {e}
        /\ n.seen = s.seen /\ n.calls = s.calls /\ n.index = s.index
    BY <2>1, EmitShape
  <2> HIDE DEF n
  <2>4. e.type = "receipt"
    BY <1>1 DEF RunStates, ReceiptEvents
  <2>5. e.thread = s.thread /\ e.turn # r /\ \A f \in s.receipts : Alike(e, f) => e = f
    BY <1>1 DEF OnceIn, MissingOnce
  <2>6. Narrows(s, n)
    BY <1>1, <2>3 DEF Narrows, Open, FirstOpen
  <2>7. LogDone(r, n, Records)
    BY <1>1, <2>6, NarrowsDone DEF OnceIn
  <2>8. Done(r, n, e)
    BY <2>3, <2>5 DEF Done
  <2>9. Fresh(e, Records)
    <3> SUFFICES ASSUME NEW f \in Records, Blocks(f, e) PROVE FALSE
      BY DEF Fresh
    <3>1. f.type = "receipt" /\ f.thread = s.thread /\ Alike(f, e)
      BY <2>4, <2>5 DEF Blocks, Alike
    <3> QED
      BY <1>1, <3>1 DEF OnceIn, LogDone, Done, Marks
  <2>10. TodoFresh(r, n, Records)
    <3>1. \A k \in DOMAIN n.todo : k = 1 /\ n.todo[k] = e
      BY <2>3
    <3> QED
      BY <2>3, <2>4, <2>5, <2>8, <2>9, <3>1 DEF TodoFresh
  <2>11. MissingOnce(r, n) /\ CallsOnce(n)
    BY <1>1, <2>3 DEF OnceIn, MissingOnce, CallsOnce
  <2>12. OnceIn(r, n, Records)
    BY <2>7, <2>10, <2>11 DEF OnceIn
  <2> QED
    BY <2>2, <2>12, StepOnce
<1>3. ASSUME NEW e \in s.failures,
             Step(r, Emit([s EXCEPT !.failures = @ \ {e}], <<e>>, "recover"))
      PROVE  OnceInv'
  <2> DEFINE less == [s EXCEPT !.failures = @ \ {e}]
             n == Emit(less, <<e>>, "recover")
  <2>1. /\ less \in RunStates /\ less.thread = s.thread /\ less.receipts = s.receipts
        /\ less.seen = s.seen /\ less.calls = s.calls /\ less.index = s.index
    BY <1>1 DEF RunStates
  <2>2. run' = [run EXCEPT ![r] = n] /\ UNCHANGED storeVars
    BY <1>3 DEF Step
  <2> HIDE DEF less
  <2>3. /\ At(n) = "recover" /\ n.pc = "append" /\ n.todo = <<e>>
        /\ n.thread = s.thread /\ n.receipts = s.receipts
        /\ n.seen = s.seen /\ n.calls = s.calls /\ n.index = s.index
    BY <2>1, EmitShape
  <2> HIDE DEF n
  <2>4. e.type \notin Marks
    BY <1>1 DEF RunStates, PlainEvents, Marks, Terminal
  <2>5. Narrows(s, n)
    BY <1>1, <2>3 DEF Narrows, Open, FirstOpen
  <2>6. LogDone(r, n, Records)
    BY <1>1, <2>5, NarrowsDone DEF OnceIn
  <2>7. TodoFresh(r, n, Records)
    BY <2>3, <2>4 DEF TodoFresh
  <2>8. MissingOnce(r, n) /\ CallsOnce(n)
    BY <1>1, <2>3 DEF OnceIn, MissingOnce, CallsOnce
  <2>9. OnceIn(r, n, Records)
    BY <2>6, <2>7, <2>8 DEF OnceIn
  <2> QED
    BY <2>2, <2>9, StepOnce
<1> QED
  BY <1>2, <1>3 DEF RecoverAppend

\* A turn ends with events that are no marks.
LEMMA EndQuietly ==
    ASSUME IInv, OnceInv, NEW r \in Runs, run[r].pc # "idle", NEW events, EndTurn(r, events),
           \A k \in DOMAIN events : events[k].type \notin Marks
    PROVE  OnceInv'
<1> DEFINE n == Emit(run[r], events, "return")
<1>1. run' = [run EXCEPT ![r] = n] /\ UNCHANGED storeVars
  BY DEF EndTurn, Step
<1>2. OnceIn(r, n, Records)
  BY OnceFacts, QuietEnd
<1> HIDE DEF n
<1> QED
  BY <1>1, <1>2, StepOnce

\* A run queues events that are no marks, and goes on.
LEMMA EmitQuietly ==
    ASSUME IInv, OnceInv, NEW r \in Runs, NEW events, NEW then,
           Step(r, Emit(run[r], events, then)),
           \A k \in DOMAIN events : events[k].type \notin Marks,
           \/ run[r].pc = "recover" /\ then = "load"
           \/ run[r].pc = "loop" /\ then = "model"
           \/ run[r].pc = "gate" /\ then = "approval"
    PROVE  OnceInv'
<1> DEFINE n == Emit(run[r], events, then)
<1>1. run' = [run EXCEPT ![r] = n] /\ UNCHANGED storeVars
  BY DEF Step
<1>2. OnceIn(r, n, Records)
  BY OnceFacts, QuietEmit
<1> HIDE DEF n
<1> QED
  BY <1>1, <1>2, StepOnce

\* After recovery a turn is announced, and recover returns.
LEMMA RecoveredOnce ==
    ASSUME IInv, OnceInv, NEW r \in Runs, Recovered(r)
    PROVE  OnceInv'
<1>1. CASE r \in Turns
  <2> DEFINE events == <<TurnOf("turn_started", r), TurnOf("user", r)>>
  <2>1. \A k \in DOMAIN events : events[k].type \notin Marks
    BY TurnOfQuiet
  <2>2. run[r].pc = "recover" /\ Step(r, Emit(run[r], events, "load"))
    BY <1>1 DEF Recovered
  <2> HIDE DEF events
  <2> QED
    BY <2>1, <2>2, EmitQuietly
<1>2. CASE r \notin Turns
  BY <1>2, LeaveOnce DEF Recovered
<1> QED
  BY <1>1, <1>2

\* The steps up to the request of the model.
LEMMA LoopOnce ==
    ASSUME IInv, OnceInv, NEW t \in Turns, Load(t) \/ Loop(t) \/ ModelError(t)
    PROVE  OnceInv'
<1>0. t \in Runs
  BY DEF Runs
<1>1. CASE Load(t)
  <2> DEFINE s == run[t]
             n == [s EXCEPT !.pc = "loop"]
  <2>1. s.pc = "load" /\ s \in RunStates /\ OnceIn(t, s, Records) /\ At(s) = "load"
    BY <1>0, <1>1, OnceFacts DEF Load
  <2>2. run' = [run EXCEPT ![t] = n] /\ UNCHANGED storeVars
    BY <1>1 DEF Load
  <2>3. /\ n.pc = "loop" /\ At(n) = "loop" /\ n.thread = s.thread
        /\ n.seen = s.seen /\ n.calls = s.calls /\ n.index = s.index
    BY <2>1 DEF RunStates, At
  <2> HIDE DEF n
  <2>4. Narrows(s, n)
    BY <2>1, <2>3, NarrowsAlong
  <2>5. CallsOnce(n)
    BY <2>1, <2>3 DEF OnceIn, CallsOnce, Early
  <2>6. OnceIn(t, n, Records)
    BY <2>1, <2>3, <2>4, <2>5, NarrowsDone DEF OnceIn
  <2> QED
    BY <1>0, <2>2, <2>6, StepOnce
<1>2. CASE Loop(t)
  <2> DEFINE failed == <<TurnOf("turn_failed", t)>>
             stopped == <<TurnOf("turn_cancelled", t)>>
             hooked == <<TurnOf("hook_failed", t), TurnOf("turn_failed", t)>>
             asked == <<TurnOf("context", t), TurnOf("request", t)>>
  <2>1. /\ \A k \in DOMAIN failed : failed[k].type \notin Marks
        /\ \A k \in DOMAIN stopped : stopped[k].type \notin Marks
        /\ \A k \in DOMAIN hooked : hooked[k].type \notin Marks
        /\ \A k \in DOMAIN asked : asked[k].type \notin Marks
    BY TurnOfQuiet DEF Terminal
  <2>2. /\ run[t].pc = "loop"
        /\ \/ EndTurn(t, failed) \/ EndTurn(t, stopped) \/ EndTurn(t, hooked)
           \/ Step(t, Emit(run[t], asked, "model"))
    BY <1>2 DEF Loop
  <2> HIDE DEF failed, stopped, hooked, asked
  <2> QED
    BY <1>0, <2>1, <2>2, EndQuietly, EmitQuietly
<1>3. CASE ModelError(t)
  <2> DEFINE events == <<TurnOf(IF t \in cancelled THEN "turn_cancelled" ELSE "turn_failed", t)>>
  <2>1. \A k \in DOMAIN events : events[k].type \notin Marks
    BY TurnOfQuiet DEF Terminal
  <2>2. run[t].pc = "model" /\ EndTurn(t, events)
    BY <1>3 DEF ModelError
  <2> HIDE DEF events
  <2> QED
    BY <1>0, <2>1, <2>2, EndQuietly
<1> QED
  BY <1>1, <1>2, <1>3

\* A response is accepted only if its calls have ids that are new to the
\* turn and different: this is what makes each call open once.
LEMMA ModelResponseOnce ==
    ASSUME IInv, OnceInv, NEW t \in Turns, NEW calls \in Responses, NEW stop \in StopReasons,
           ModelResponse(t, calls, stop)
    PROVE  OnceInv'
<1> DEFINE s == run[t]
           message == AssistantMessage(s.thread, t, calls)
           ids == {calls[i].id : i \in DOMAIN calls}
           n == [Emit(s, <<message>>, "decide") EXCEPT
                    !.calls = calls, !.stop = stop, !.seen = @ \cup ids]
<1>0. t \in Runs
  BY DEF Runs
<1>1. s.pc = "model" /\ s \in RunStates /\ OnceIn(t, s, Records) /\ At(s) = "model"
  BY <1>0, OnceFacts DEF ModelResponse
<1>2. CASE ~ValidCalls(calls, s.seen)
  <2> DEFINE events == <<TurnOf("turn_failed", t)>>
  <2>1. \A k \in DOMAIN events : events[k].type \notin Marks
    BY TurnOfQuiet DEF Terminal
  <2>2. EndTurn(t, events)
    BY <1>2 DEF ModelResponse
  <2> HIDE DEF events
  <2> QED
    BY <1>0, <1>1, <2>1, <2>2, EndQuietly
<1>3. CASE ValidCalls(calls, s.seen)
  <2>1. run' = [run EXCEPT ![t] = n] /\ UNCHANGED storeVars
    BY <1>3 DEF ModelResponse, StepPush
  <2>2. /\ n.pc = "append" /\ At(n) = "decide" /\ n.todo = <<message>> /\ n.thread = s.thread
        /\ n.seen = s.seen \cup ids /\ n.calls = calls /\ n.index = s.index
    BY <1>1 DEF RunStates, At, Emit
  <2>3. message.type \notin Marks
    BY DEF AssistantMessage, Event, Marks
  <2> HIDE DEF n, message
  <2>4. ASSUME NEW type \in Marks, NEW c, Open(n, type, c) PROVE Open(s, type, c)
    BY <1>3, <2>2, <2>4 DEF Open, ValidCalls
  <2>5. Narrows(s, n)
    BY <1>1, <2>2, <2>4 DEF Narrows
  <2>6. CallsOnce(n)
    BY <1>1, <1>3, <2>2 DEF CallsOnce, Early, ValidCalls, OnceIn
  <2>7. \A k \in DOMAIN n.todo : n.todo[k].type \notin Marks
    BY <2>2, <2>3
  <2>8. OnceIn(t, n, Records)
    BY <1>1, <2>2, <2>5, <2>6, <2>7, QuietStep
  <2> QED
    BY <1>0, <2>1, <2>8, StepOnce
<1> QED
  BY <1>2, <1>3

\* The turn ends with denied receipts for its calls after the first d.
LEMMA EndDeniedOnce ==
    ASSUME IInv, OnceInv, NEW t \in Turns, run[t].pc \in {"decide", "call"},
           NEW d \in Nat, d + 1 >= run[t].index, NEW calls \in Seq(ToolCall),
           \A k \in 1..Len(calls) :
              d + k \in DOMAIN run[t].calls /\ calls[k] = run[t].calls[d + k],
           NEW type \in Terminal,
           EndTurn(t, Append(Denied(run[t].thread, t, calls), TurnOf(type, t)))
    PROVE  OnceInv'
<1> DEFINE s == run[t]
           denied == Denied(s.thread, t, calls)
           events == Append(denied, TurnOf(type, t))
           n == Emit(s, events, "return")
<1>0. t \in Runs
  BY DEF Runs
<1>1. s \in RunStates /\ OnceIn(t, s, Records) /\ At(s) = s.pc
  BY <1>0, OnceFacts
<1>2. run' = [run EXCEPT ![t] = n] /\ UNCHANGED storeVars
  BY DEF EndTurn, Step
<1>3. /\ At(n) = "return" /\ n.pc = "append" /\ n.todo = events /\ n.thread = s.thread
      /\ n.seen = s.seen /\ n.calls = s.calls
  <2> HIDE DEF s, denied, events
  <2> QED
    BY <1>1, EmitShape
<1>4. Narrows(s, n) /\ CallsOnce(n)
  <2> HIDE DEF n
  <2> QED
    BY <1>1, <1>3, NarrowsEnd, CallsOnceKept DEF OnceIn, Early
<1>5. LogDone(t, n, Records)
  BY <1>1, <1>4, NarrowsDone DEF OnceIn
<1>6. /\ DOMAIN events = 1..Len(calls) + 1
      /\ events[Len(calls) + 1] = TurnOf(type, t)
      /\ \A k \in 1..Len(calls) : events[k] = Receipt(s.thread, t, calls[k].id, "denied", None)
  <2>1. /\ DOMAIN denied = 1..Len(calls)
        /\ \A k \in 1..Len(calls) : denied[k] = Receipt(s.thread, t, calls[k].id, "denied", None)
    BY DEF Denied
  <2>2. s.thread \in Threads
    BY TurnFacts
  <2>3. denied \in Seq(Events)
    BY <2>2, DeniedType
  <2>4. Len(denied) = Len(calls)
    BY <2>1, <2>3
  <2> HIDE DEF denied
  <2> QED
    BY <2>1, <2>3, <2>4
<1>7. TurnOf(type, t).type \notin Marks
  BY TurnOfQuiet
<1>8. ASSUME NEW k \in DOMAIN events, events[k].type \in Marks
      PROVE  /\ k \in 1..Len(calls) /\ events[k].type = "receipt"
             /\ events[k].thread = s.thread /\ events[k].turn = t
             /\ events[k].call = s.calls[d + k].id
             /\ d + k \in DOMAIN s.calls
  <2>1. k \in 1..Len(calls)
    BY <1>6, <1>7, <1>8
  <2>2. events[k] = Receipt(s.thread, t, s.calls[d + k].id, "denied", None)
    BY <1>6, <2>1
  <2> QED
    BY <2>1, <2>2 DEF Receipt, Event
<1> HIDE DEF events
<1>9. TodoFresh(t, n, Records)
  <2> SUFFICES ASSUME NEW k \in DOMAIN events, events[k].type \in Marks
               PROVE  /\ events[k].thread = s.thread
                      /\ Done(t, n, events[k])
                      /\ Fresh(events[k], Records)
                      /\ \A j \in DOMAIN events :
                            events[j].type \in Marks /\ Alike(events[j], events[k]) => j = k
    BY <1>3 DEF TodoFresh
  <2>1. Done(t, n, events[k])
    BY <1>3 DEF Done
  <2>2. Fresh(events[k], Records)
    <3>1. FirstOpen(s, "receipt") = s.index /\ At(s) # "return" /\ s.index \in Nat
      BY <1>1 DEF FirstOpen, RunStates
    <3>2. d + k >= FirstOpen(s, "receipt")
      BY <1>8, <3>1
    <3> HIDE DEF s
    <3> QED
      BY <1>1, <1>8, <3>1, <3>2, OpenFresh DEF OnceIn
  <2>3. ASSUME NEW j \in DOMAIN events, events[j].type \in Marks, Alike(events[j], events[k])
        PROVE  j = k
    <3>1. s.calls[d + j].id = s.calls[d + k].id
      BY <1>8, <2>3 DEF Alike
    <3>2. d + j = d + k
      BY <1>1, <1>8, <2>3, <3>1 DEF OnceIn, CallsOnce
    <3>3. j \in Nat /\ k \in Nat
      BY <1>8, <2>3
    <3> QED
      BY <3>2, <3>3
  <2> QED
    BY <1>8, <2>1, <2>2, <2>3
<1>10. OnceIn(t, n, Records)
  BY <1>3, <1>4, <1>5, <1>9 DEF OnceIn
<1> HIDE DEF n
<1> QED
  BY <1>0, <1>2, <1>10, StepOnce

\* The stop reason ends the turn, or the calls of the response are next.
LEMMA DecideOnce ==
    ASSUME IInv, OnceInv, NEW t \in Turns, Decide(t)
    PROVE  OnceInv'
<1> DEFINE s == run[t]
           n == [s EXCEPT !.pc = "call", !.stop = None, !.index = 1]
           completed == <<TurnOf("turn_completed", t)>>
<1>0. t \in Runs
  BY DEF Runs
<1>1. s.pc = "decide" /\ s \in RunStates /\ OnceIn(t, s, Records) /\ At(s) = "decide"
  BY <1>0, OnceFacts DEF Decide
<1>2. s.index = 1 /\ s.calls \in Seq(ToolCall)
  BY <1>1 DEF OnceIn, CallsOnce, Early, RunStates
<1>3. \/ \E type \in Terminal : EndTurn(t, Append(Denied(s.thread, t, s.calls), TurnOf(type, t)))
      \/ EndTurn(t, completed)
      \/ Step(t, n)
  BY DEF Decide, Terminal
<1>4. ASSUME NEW type \in Terminal,
             EndTurn(t, Append(Denied(s.thread, t, s.calls), TurnOf(type, t)))
      PROVE  OnceInv'
  <2>1. 0 \in Nat /\ 0 + 1 >= s.index
    BY <1>2
  <2>2. \A k \in 1..Len(s.calls) : 0 + k \in DOMAIN s.calls /\ s.calls[k] = s.calls[0 + k]
    BY <1>2
  <2> QED
    BY <1>1, <1>2, <1>4, <2>1, <2>2, EndDeniedOnce
<1>5. CASE EndTurn(t, completed)
  <2>1. \A k \in DOMAIN completed : completed[k].type \notin Marks
    BY TurnOfQuiet DEF Terminal
  <2> HIDE DEF completed
  <2> QED
    BY <1>0, <1>1, <1>5, <2>1, EndQuietly
<1>6. CASE Step(t, n)
  <2>1. run' = [run EXCEPT ![t] = n] /\ UNCHANGED storeVars
    BY <1>6 DEF Step
  <2>2. /\ n.pc = "call" /\ At(n) = "call" /\ n.thread = s.thread
        /\ n.seen = s.seen /\ n.calls = s.calls /\ n.index = s.index
    BY <1>1, <1>2 DEF RunStates, At
  <2> HIDE DEF n
  <2>3. Narrows(s, n)
    BY <1>1, <2>2, NarrowsAlong
  <2>4. OnceIn(t, n, Records)
    BY <1>1, <2>2, <2>3, NarrowsDone DEF OnceIn, CallsOnce, Early
  <2> QED
    BY <1>0, <2>1, <2>4, StepOnce
<1> QED
  BY <1>3, <1>4, <1>5, <1>6

\* The next call, the next iteration, or a cancelled turn.
LEMMA NextCallOnce ==
    ASSUME IInv, OnceInv, NEW t \in Turns, NextCall(t)
    PROVE  OnceInv'
<1> DEFINE s == run[t]
           more == [s EXCEPT !.pc = "loop", !.iteration = @ + 1, !.calls = <<>>, !.index = 1]
           this == [s EXCEPT !.pc = "handle"]
           rest == SubSeq(s.calls, s.index, Len(s.calls))
<1>0. t \in Runs
  BY DEF Runs
<1>1. s.pc = "call" /\ s \in RunStates /\ OnceIn(t, s, Records) /\ At(s) = "call"
  BY <1>0, OnceFacts DEF NextCall
<1>2. s.index \in Nat \ {0} /\ s.calls \in Seq(ToolCall)
  BY <1>1 DEF RunStates
<1>3. \/ Step(t, more)
      \/ /\ s.index =< Len(s.calls)
         /\ EndTurn(t, Append(Denied(s.thread, t, rest), TurnOf("turn_cancelled", t)))
      \/ Step(t, this)
  BY <1>2 DEF NextCall
<1>4. CASE Step(t, more)
  <2>1. run' = [run EXCEPT ![t] = more] /\ UNCHANGED storeVars
    BY <1>4 DEF Step
  <2>2. /\ more.pc = "loop" /\ At(more) = "loop" /\ more.thread = s.thread
        /\ more.seen = s.seen /\ more.calls = <<>> /\ more.index = 1
    BY <1>1 DEF RunStates, At
  <2> HIDE DEF more
  <2>3. Narrows(s, more)
    BY <1>1, <2>2 DEF Narrows, Open
  <2>4. OnceIn(t, more, Records)
    BY <1>1, <2>2, <2>3, NarrowsDone DEF OnceIn, CallsOnce
  <2> QED
    BY <1>0, <2>1, <2>4, StepOnce
<1>5. ASSUME s.index =< Len(s.calls),
             EndTurn(t, Append(Denied(s.thread, t, rest), TurnOf("turn_cancelled", t)))
      PROVE  OnceInv'
  <2> DEFINE d == s.index - 1
  <2>1. d \in Nat /\ d + 1 >= s.index
    BY <1>2
  <2>2. rest \in Seq(ToolCall)
    BY <1>2, <1>5
  <2>3. ASSUME NEW k \in 1..Len(rest)
        PROVE  d + k \in DOMAIN s.calls /\ rest[k] = s.calls[d + k]
    BY <1>2, <1>5
  <2> HIDE DEF rest, d
  <2> QED
    BY <1>1, <1>5, <2>1, <2>2, <2>3, EndDeniedOnce DEF Terminal
<1>6. CASE Step(t, this)
  <2>1. run' = [run EXCEPT ![t] = this] /\ UNCHANGED storeVars
    BY <1>6 DEF Step
  <2>2. /\ this.pc = "handle" /\ At(this) = "handle" /\ this.thread = s.thread
        /\ this.seen = s.seen /\ this.calls = s.calls /\ this.index = s.index
    BY <1>1 DEF RunStates, At
  <2> HIDE DEF this
  <2>3. Narrows(s, this)
    BY <1>1, <2>2, NarrowsAlong
  <2>4. OnceIn(t, this, Records)
    BY <1>1, <2>2, <2>3, NarrowsDone DEF OnceIn, CallsOnce, Early
  <2> QED
    BY <1>0, <2>1, <2>4, StepOnce
<1> QED
  BY <1>3, <1>4, <1>5, <1>6

\* handle_tool_call returns with its last event, the receipt.
LEMMA CloseCallOnce ==
    ASSUME IInv, OnceInv, NEW t \in Turns, run[t].pc \in {"handle", "gate", "approval"},
           NEW events, NEW how, NEW action,
           NEW m \in DOMAIN events, events[m] = CallReceipt(t, how, action),
           \A k \in DOMAIN events : k # m => events[k].type \notin Marks,
           CloseCall(t, events)
    PROVE  OnceInv'
<1> DEFINE s == run[t]
           n == [Emit(s, events, "call") EXCEPT !.action = None, !.index = @ + 1]
<1>0. t \in Runs
  BY DEF Runs
<1>1. s \in RunStates /\ OnceIn(t, s, Records) /\ At(s) = s.pc /\ s.index \in DOMAIN s.calls
  BY <1>0, OnceFacts DEF Handling
<1>2. run' = [run EXCEPT ![t] = n] /\ UNCHANGED storeVars
  BY DEF CloseCall, StepPush
<1>3. /\ n.pc = "append" /\ At(n) = "call" /\ n.todo = events /\ n.thread = s.thread
      /\ n.seen = s.seen /\ n.calls = s.calls /\ n.index = s.index + 1
  BY <1>1 DEF RunStates, At, Emit
<1>4. n.index \in Nat
  BY <1>1, <1>3 DEF RunStates
<1> HIDE DEF n
<1>5. s.index \in Nat
  BY <1>1 DEF RunStates
<1>6. /\ FirstOpen(s, "receipt") = s.index /\ FirstOpen(s, "started") = s.index
      /\ FirstOpen(n, "receipt") = s.index + 1 /\ FirstOpen(n, "started") = s.index + 1
  BY <1>1, <1>3 DEF FirstOpen
<1>7. Narrows(s, n)
  <2>1. DOMAIN s.calls \subseteq Nat
    BY <1>1 DEF RunStates
  <2>2. ASSUME NEW type \in Marks, NEW c, Open(n, type, c) PROVE Open(s, type, c)
    BY <1>3, <1>5, <1>6, <2>1, <2>2 DEF Open, Marks
  <2> QED
    BY <1>1, <1>3, <2>2 DEF Narrows
<1>8. /\ events[m].type = "receipt" /\ events[m].thread = s.thread /\ events[m].turn = t
      /\ events[m].call = s.calls[s.index].id
  BY DEF CallReceipt, Receipt, Event, Current
<1>9. OnceIn(t, n, Records)
  <2>1. At(n) \notin Early /\ At(s) # "return"
    BY <1>1, <1>3 DEF Early
  <2>2. m \in DOMAIN n.todo /\ events[m] = n.todo[m]
        /\ \A k \in DOMAIN n.todo : n.todo[k].type \in Marks => k = m
    BY <1>3
  <2>3. /\ events[m].type \in Marks
        /\ s.index >= FirstOpen(s, events[m].type) /\ s.index >= FirstOpen(s, "receipt")
        /\ FirstOpen(n, events[m].type) > s.index
    BY <1>5, <1>6, <1>8 DEF Marks
  <2> HIDE DEF s
  <2> QED
    BY <1>1, <1>3, <1>4, <1>7, <1>8, <2>1, <2>2, <2>3, MarkStep
<1> QED
  BY <1>0, <1>2, <1>9, StepOnce

\* The run announces the execution of the call it handles.
LEMMA StartedOnce ==
    ASSUME IInv, OnceInv, NEW t \in Turns, run[t].pc \in {"gate", "approval"},
           NEW events, NEW action,
           NEW m \in DOMAIN events, events[m] = CallEvent("started", t, action),
           \A k \in DOMAIN events : k # m => events[k].type \notin Marks,
           Step(t, Emit(run[t], events, "execute"))
    PROVE  OnceInv'
<1> DEFINE s == run[t]
           n == Emit(s, events, "execute")
<1>0. t \in Runs
  BY DEF Runs
<1>1. s \in RunStates /\ OnceIn(t, s, Records) /\ At(s) = s.pc /\ s.index \in DOMAIN s.calls
  BY <1>0, OnceFacts DEF Handling
<1>2. run' = [run EXCEPT ![t] = n] /\ UNCHANGED storeVars
  BY DEF Step
<1>3. /\ n.pc = "append" /\ At(n) = "execute" /\ n.todo = events /\ n.thread = s.thread
      /\ n.seen = s.seen /\ n.calls = s.calls /\ n.index = s.index
  BY <1>1, EmitShape
<1>4. n.index \in Nat
  BY <1>1, <1>3 DEF RunStates
<1> HIDE DEF n
<1>5. s.index \in Nat
  BY <1>1 DEF RunStates
<1>6. /\ FirstOpen(s, "receipt") = s.index /\ FirstOpen(s, "started") = s.index
      /\ FirstOpen(n, "started") = s.index + 1
  BY <1>1, <1>3 DEF FirstOpen
<1>7. Narrows(s, n)
  BY <1>1, <1>3, NarrowsAlong
<1>8. /\ events[m].type = "started" /\ events[m].thread = s.thread /\ events[m].turn = t
      /\ events[m].call = s.calls[s.index].id
  BY DEF CallEvent, Event, Current
<1>9. OnceIn(t, n, Records)
  <2>1. At(n) \notin Early /\ At(s) # "return"
    BY <1>1, <1>3 DEF Early
  <2>2. m \in DOMAIN n.todo /\ events[m] = n.todo[m]
        /\ \A k \in DOMAIN n.todo : n.todo[k].type \in Marks => k = m
    BY <1>3
  <2>3. /\ events[m].type \in Marks
        /\ s.index >= FirstOpen(s, events[m].type) /\ s.index >= FirstOpen(s, "receipt")
        /\ FirstOpen(n, events[m].type) > s.index
    BY <1>5, <1>6, <1>8 DEF Marks
  <2> HIDE DEF s
  <2> QED
    BY <1>1, <1>3, <1>4, <1>7, <1>8, <2>1, <2>2, <2>3, MarkStep
<1> QED
  BY <1>0, <1>2, <1>9, StepOnce

\* The preparation of a call fails or is denied, or the call is prepared.
LEMMA PrepareOnce ==
    ASSUME IInv, OnceInv, NEW t \in Turns, Prepare(t)
    PROVE  OnceInv'
<1>0. t \in Runs
  BY DEF Runs
<1>1. run[t].pc = "handle"
  BY DEF Prepare
<1>2. ASSUME NEW how, CloseCall(t, <<CallReceipt(t, how, None)>>)
      PROVE  OnceInv'
  <2> DEFINE events == <<CallReceipt(t, how, None)>>
  <2>1. /\ 1 \in DOMAIN events /\ events[1] = CallReceipt(t, how, None)
        /\ \A k \in DOMAIN events : k # 1 => events[k].type \notin Marks
        /\ CloseCall(t, events)
    BY <1>2
  <2> HIDE DEF events
  <2> QED
    BY <1>1, <2>1, CloseCallOnce
<1>3. ASSUME NEW action,
             Step(t, [Emit(run[t], <<CallEvent("prepared", t, action)>>, "gate")
                        EXCEPT !.action = action])
      PROVE  OnceInv'
  <2> DEFINE s == run[t]
             e == CallEvent("prepared", t, action)
             n == [Emit(s, <<e>>, "gate") EXCEPT !.action = action]
  <2>1. s \in RunStates /\ OnceIn(t, s, Records) /\ At(s) = "handle"
    BY <1>0, <1>1, OnceFacts
  <2>2. run' = [run EXCEPT ![t] = n] /\ UNCHANGED storeVars
    BY <1>3 DEF Step
  <2>3. /\ n.pc = "append" /\ At(n) = "gate" /\ n.todo = <<e>> /\ n.thread = s.thread
        /\ n.seen = s.seen /\ n.calls = s.calls /\ n.index = s.index
    BY <2>1 DEF RunStates, At, Emit
  <2>4. e.type \notin Marks
    BY DEF CallEvent, Event, Marks
  <2> HIDE DEF n, e
  <2>5. Narrows(s, n) /\ CallsOnce(n)
    BY <2>1, <2>3, NarrowsAlong, CallsOnceKept DEF OnceIn, Early
  <2>6. \A k \in DOMAIN n.todo : n.todo[k].type \notin Marks
    BY <2>3, <2>4
  <2>7. OnceIn(t, n, Records)
    BY <2>1, <2>3, <2>5, <2>6, QuietStep
  <2> QED
    BY <1>0, <2>2, <2>7, StepOnce
<1> QED
  BY <1>2, <1>3 DEF Prepare

\* The hook rejects the call, or it needs an approval, or it is started.
LEMMA GateOnce ==
    ASSUME IInv, OnceInv, NEW t \in Turns, Gate(t)
    PROVE  OnceInv'
<1> DEFINE action == run[t].action
           rejected == <<TurnOf("hook_failed", t), CallReceipt(t, "denied", action)>>
           asked == <<CallEvent("approval_requested", t, action)>>
           started == <<CallEvent("started", t, action)>>
<1>0. t \in Runs
  BY DEF Runs
<1>1. /\ run[t].pc = "gate"
      /\ \/ CloseCall(t, rejected)
         \/ Step(t, Emit(run[t], asked, "approval"))
         \/ Step(t, Emit(run[t], started, "execute"))
  BY DEF Gate
<1>2. CASE CloseCall(t, rejected)
  <2>1. 2 \in DOMAIN rejected /\ rejected[2] = CallReceipt(t, "denied", action)
    OBVIOUS
  <2>2. \A k \in DOMAIN rejected : k # 2 => rejected[k].type \notin Marks
    BY TurnOfQuiet
  <2> HIDE DEF rejected
  <2> QED
    BY <1>1, <1>2, <2>1, <2>2, CloseCallOnce
<1>3. CASE Step(t, Emit(run[t], asked, "approval"))
  <2>1. \A k \in DOMAIN asked : asked[k].type \notin Marks
    BY DEF CallEvent, Event, Marks
  <2> HIDE DEF asked
  <2> QED
    BY <1>0, <1>1, <1>3, <2>1, EmitQuietly
<1>4. CASE Step(t, Emit(run[t], started, "execute"))
  <2>1. /\ 1 \in DOMAIN started /\ started[1] = CallEvent("started", t, action)
        /\ \A k \in DOMAIN started : k # 1 => started[k].type \notin Marks
    OBVIOUS
  <2> HIDE DEF started
  <2> QED
    BY <1>1, <1>4, <2>1, StartedOnce
<1> QED
  BY <1>1, <1>2, <1>3, <1>4

\* The approval of a call is resolved.
LEMMA ApprovalOnce ==
    ASSUME IInv, OnceInv, NEW t \in Turns, NEW decision \in Decisions, Approval(t, decision)
    PROVE  OnceInv'
<1> DEFINE action == run[t].action
           resolved == CallEvent("approval_resolved", t, decision)
           approved == <<resolved, CallEvent("started", t, action)>>
           denied == <<resolved, CallReceipt(t, "denied", action)>>
<1>1. /\ run[t].pc = "approval"
      /\ \/ Step(t, Emit(run[t], approved, "execute"))
         \/ CloseCall(t, denied)
  BY DEF Approval
<1>2. resolved.type \notin Marks
  BY DEF CallEvent, Event, Marks
<1> HIDE DEF resolved
<1>3. CASE Step(t, Emit(run[t], approved, "execute"))
  <2>1. /\ 2 \in DOMAIN approved /\ approved[2] = CallEvent("started", t, action)
        /\ \A k \in DOMAIN approved : k # 2 => approved[k].type \notin Marks
    BY <1>2
  <2> HIDE DEF approved
  <2> QED
    BY <1>1, <1>3, <2>1, StartedOnce
<1>4. CASE CloseCall(t, denied)
  <2>1. /\ 2 \in DOMAIN denied /\ denied[2] = CallReceipt(t, "denied", action)
        /\ \A k \in DOMAIN denied : k # 2 => denied[k].type \notin Marks
    BY <1>2
  <2> HIDE DEF denied
  <2> QED
    BY <1>1, <1>4, <2>1, CloseCallOnce
<1> QED
  BY <1>1, <1>3, <1>4

\* The executor is called.
LEMMA ExecuteOnce ==
    ASSUME IInv, OnceInv, NEW t \in Turns, Execute(t)
    PROVE  OnceInv'
<1> DEFINE s == run[t]
           n == [s EXCEPT !.pc = "running"]
<1>0. t \in Runs
  BY DEF Runs
<1>1. s.pc = "execute" /\ s \in RunStates /\ OnceIn(t, s, Records) /\ At(s) = "execute"
  BY <1>0, OnceFacts DEF Execute
<1>2. run' = [run EXCEPT ![t] = n] /\ UNCHANGED storeVars
  BY DEF Execute
<1>3. /\ n.pc = "running" /\ At(n) = "running" /\ n.thread = s.thread
      /\ n.seen = s.seen /\ n.calls = s.calls /\ n.index = s.index
  BY <1>1 DEF RunStates, At
<1> HIDE DEF n
<1>4. Narrows(s, n) /\ CallsOnce(n)
  BY <1>1, <1>3, NarrowsAlong, CallsOnceKept DEF OnceIn, Early
<1>5. OnceIn(t, n, Records)
  BY <1>1, <1>3, <1>4, NarrowsDone DEF OnceIn
<1> QED
  BY <1>0, <1>2, <1>5, StepOnce

\* The answer of the executor becomes the receipt.
LEMMA ExecutedOnce ==
    ASSUME IInv, OnceInv, NEW t \in Turns, NEW how \in ExecutorAnswers, Executed(t, how)
    PROVE  OnceInv'
<1> DEFINE s == run[t]
           e == CallReceipt(t, how, s.action)
           n == Emit(s, <<e>>, "after")
<1>0. t \in Runs
  BY DEF Runs
<1>1. /\ s.pc = "running" /\ s \in RunStates /\ OnceIn(t, s, Records) /\ At(s) = "running"
      /\ s.index \in DOMAIN s.calls
  BY <1>0, OnceFacts DEF Executed, Handling
<1>2. run' = [run EXCEPT ![t] = n] /\ UNCHANGED storeVars
  BY <1>0 DEF Executed, IInv, TypeOK
<1>3. /\ n.pc = "append" /\ At(n) = "after" /\ n.todo = <<e>> /\ n.thread = s.thread
      /\ n.seen = s.seen /\ n.calls = s.calls /\ n.index = s.index
  <2> HIDE DEF s, e
  <2> QED
    BY <1>1, EmitShape
<1>4. /\ e.type = "receipt" /\ e.thread = s.thread /\ e.turn = t
      /\ e.call = s.calls[s.index].id
  BY DEF CallReceipt, Receipt, Event, Current
<1> HIDE DEF n, e
<1>5. s.index \in Nat /\ n.index \in Nat
  BY <1>1, <1>3 DEF RunStates
<1>6. Narrows(s, n)
  BY <1>1, <1>3, NarrowsAlong
<1>7. FirstOpen(s, "receipt") = s.index /\ FirstOpen(n, "receipt") = s.index + 1
  BY <1>1, <1>3 DEF FirstOpen
<1>8. OnceIn(t, n, Records)
  <2>1. At(n) \notin Early /\ At(s) # "return"
    BY <1>1, <1>3 DEF Early
  <2>2. 1 \in DOMAIN n.todo /\ e = n.todo[1]
        /\ \A k \in DOMAIN n.todo : n.todo[k].type \in Marks => k = 1
    BY <1>3
  <2>3. /\ e.type \in Marks
        /\ s.index >= FirstOpen(s, e.type) /\ s.index >= FirstOpen(s, "receipt")
        /\ FirstOpen(n, e.type) > s.index
    BY <1>4, <1>5, <1>7 DEF Marks
  <2> HIDE DEF s
  <2> QED
    BY <1>1, <1>3, <1>4, <1>5, <1>6, <2>1, <2>2, <2>3, MarkStep
<1> QED
  BY <1>0, <1>2, <1>8, StepOnce

\* The hook after a call ends the turn or lets it go on.
LEMMA AfterToolOnce ==
    ASSUME IInv, OnceInv, NEW t \in Turns, AfterTool(t)
    PROVE  OnceInv'
<1> DEFINE s == run[t]
           n == [s EXCEPT !.pc = "call", !.action = None, !.index = @ + 1]
           hooked == <<TurnOf("hook_failed", t), TurnOf("turn_failed", t)>>
<1>0. t \in Runs
  BY DEF Runs
<1>1. s.pc = "after" /\ s \in RunStates /\ OnceIn(t, s, Records) /\ At(s) = "after"
  BY <1>0, OnceFacts DEF AfterTool
<1>2. EndTurn(t, hooked) \/ Step(t, n)
  BY DEF AfterTool
<1>3. CASE EndTurn(t, hooked)
  <2>1. \A k \in DOMAIN hooked : hooked[k].type \notin Marks
    BY TurnOfQuiet DEF Terminal
  <2> HIDE DEF hooked
  <2> QED
    BY <1>0, <1>1, <1>3, <2>1, EndQuietly
<1>4. CASE Step(t, n)
  <2>1. run' = [run EXCEPT ![t] = n] /\ UNCHANGED storeVars
    BY <1>4 DEF Step
  <2>2. /\ n.pc = "call" /\ At(n) = "call" /\ n.thread = s.thread
        /\ n.seen = s.seen /\ n.calls = s.calls /\ n.index = s.index + 1
    BY <1>1 DEF RunStates, At
  <2> HIDE DEF n
  <2>3. Narrows(s, n)
    BY <1>1, <2>2 DEF Narrows, Open, FirstOpen
  <2>4. CallsOnce(n)
    BY <1>1, <2>2, CallsOnceKept DEF OnceIn, Early
  <2>5. OnceIn(t, n, Records)
    BY <1>1, <2>2, <2>3, <2>4, NarrowsDone DEF OnceIn
  <2> QED
    BY <1>0, <2>1, <2>5, StepOnce
<1> QED
  BY <1>2, <1>3, <1>4

\* Every step keeps the marks single.
LEMMA CoreOnce == IInv /\ GuardExact /\ OnceInv /\ Core => OnceInv'
<1> SUFFICES ASSUME IInv, GuardExact, OnceInv, Core PROVE OnceInv'
  OBVIOUS
<1>1. ASSUME NEW th \in Threads, StartThread(th) \/ \E r \in Runs : Begins(r, th)
      PROVE  OnceInv'
  BY <1>1, StartThreadOnce, AcquireOnce DEF Begins
<1>2. ASSUME NEW r \in Runs, RunStep(r) \/ AppendFail(r)
      PROVE  OnceInv'
  BY <1>2, RecoverAppendOnce, RecoveredOnce, AppendOkOnce, AppendFailOnce, LeaveOnce
     DEF RunStep, AppendRefused
<1>3. ASSUME NEW t \in Turns, TurnStep(t) \/ \E decision \in Decisions : Approval(t, decision)
      PROVE  OnceInv'
  BY <1>3, LoopOnce, ModelResponseOnce, DecideOnce, NextCallOnce, PrepareOnce, GateOnce,
     ApprovalOnce, ExecuteOnce, ExecutedOnce, AfterToolOnce DEF TurnStep
<1>4. ASSUME NEW t \in Turns, Drop(t)
      PROVE  OnceInv'
  BY <1>4, LeaveOnce DEF Drop, Runs
<1>5. CASE Signals
  BY <1>5, StillOnce DEF Signals, OnceInv, RunsOnce
<1> QED
  BY <1>1, <1>2, <1>3, <1>4, <1>5, RestartOnce DEF Core

\* The invariant of the marks holds of the runtime: in the log no mark of a
\* call is written twice, and no start follows the receipt.
THEOREM OnceInvariance == Spec => []OnceInv
<1>1. Init => OnceInv
  BY DEF Init, StoreInit, OnceInv, LogOnce, PendingOnce, RunsOnce, Idle
<1> QED
  BY <1>1, Invariance, GuardExactHolds, NextIInv, CoreOnce, PTL DEF Spec

\* Marks that are single are what the property says.
LEMMA OnceSuffices == IInv /\ OnceInv => NoReplay
<1> SUFFICES ASSUME IInv, OnceInv, NEW i \in DOMAIN log, NEW j \in DOMAIN log, i # j,
                    log[i].type = log[j].type, log[i].type \in Marks, SameCall(i, j)
             PROVE  FALSE
  BY DEF NoReplay, Marks
<1>1. Blocks(log[i], log[j]) /\ Blocks(log[j], log[i])
  BY DEF Blocks, Alike, SameCall
<1>2. i < j \/ j < i
  BY DEF IInv, TypeOK
<1> QED
  BY <1>1, <1>2 DEF OnceInv, LogOnce

\* No replay: whatever crashes, failed appends, recoveries and retries
\* happen, run_turn announces a call at most once, and a call gets at most
\* one receipt.
THEOREM NoReplayHolds == Spec => []NoReplay
BY OnceSuffices, Invariance, OnceInvariance, PTL

-----------------------------------------------------------------------------
(* Receipts tell the truth.                                                *)

\* More executions and answers, or fewer records, leave a receipt truthful.
LEMMA TruthKept ==
    ASSUME NEW e, NEW events, NEW more, NEW did, NEW did2, NEW said, NEW said2,
           Truthful(e, events, did, said), did \subseteq did2, said \subseteq said2,
           NotStarted(e, events) => NotStarted(e, more)
    PROVE  Truthful(e, more, did2, said2)
BY DEF Truthful

\* So does a record that is no start of the same call.
LEMMA TruthGrows ==
    ASSUME NEW e, NEW events, NEW h, NEW did, NEW said, Truthful(e, events, did, said),
           h.type = "started" => ~Alike(e, h)
    PROVE  Truthful(e, events \cup {h}, did, said)
BY DEF Truthful, NotStarted

\* More executions and answers leave a run as truthful as it was.
LEMMA RunTruthKept ==
    ASSUME NEW r, NEW s, NEW events, NEW did, NEW did2, NEW said, NEW said2,
           RunTruth(r, s, events, did, said), did \subseteq did2, said \subseteq said2
    PROVE  RunTruth(r, s, events, did2, said2)
<1>1. \A e : Truthful(e, events, did, said) => Truthful(e, events, did2, said2)
  BY TruthKept
<1> QED
  BY <1>1 DEF RunTruth

\* A step of one run that leaves the store alone.
LEMMA StepTruth ==
    ASSUME IInv, TruthInv, NEW r \in Runs, NEW n, run' = [run EXCEPT ![r] = n],
           UNCHANGED storeVars, crossed \subseteq crossed', answers \subseteq answers',
           n.pc # "idle" => RunTruth(r, n, Records, crossed', answers')
    PROVE  TruthInv'
<1>1. Records' = Records /\ Written' = Written
  BY DEF Records, Written, storeVars
<1>2. WrittenTruth'
  <2> SUFFICES ASSUME NEW e \in Written, e.type = "receipt"
               PROVE  Truthful(e, Records, crossed', answers')
    BY <1>1 DEF WrittenTruth, Truthful, NotStarted, About, Alike
  <2> QED
    BY TruthKept DEF TruthInv, WrittenTruth
<1>3. RunsTruth'
  <2> SUFFICES ASSUME NEW q \in Runs, run'[q].pc # "idle"
               PROVE  RunTruth(q, run'[q], Records, crossed', answers')
    BY <1>1 DEF RunsTruth
  <2>1. CASE q = r
    BY <2>1 DEF IInv, TypeOK
  <2>2. CASE q # r
    <3>1. run'[q] = run[q]
      BY <2>2 DEF IInv, TypeOK
    <3> QED
      BY <3>1, RunTruthKept DEF TruthInv, RunsTruth
  <2> QED
    BY <2>1, <2>2
<1> QED
  BY <1>2, <1>3 DEF TruthInv

\* A run that returns.
LEMMA LeaveTruth ==
    ASSUME IInv, TruthInv, NEW r \in Runs, Leave(r), UNCHANGED <<storeVars, crossed, answers>>
    PROVE  TruthInv'
BY StepTruth DEF Leave, Idle

\* An append that returned Ok.
LEMMA AppendOkTruth ==
    ASSUME IInv, GuardExact, OnceInv, TruthInv, NEW r \in Runs, AppendOk(r)
    PROVE  TruthInv'
<1> DEFINE s == run[r]
           h == Head(s.todo)
<1>1. run \in [Runs -> RunStates] /\ s \in RunStates /\ log \in Seq(Events)
      /\ RunOK(r, s, DurableEvents)
  BY DEF IInv, TypeOK, RunsOK
<1>2. s.pc = "append" /\ StoreAppend(h) /\ UNCHANGED <<crossed, answers>>
  BY DEF AppendOk
<1>3. /\ s.todo \in Seq(Events) /\ s.todo # <<>> /\ Fresh(h, Records)
      /\ h.type \in Marks => h.thread = s.thread
  BY <1>2, HeadFresh
<1>4. h = s.todo[1] /\ 1 \in DOMAIN s.todo
  BY <1>3
<1>5. TodoFresh(r, s, Records) /\ RunTruth(r, s, Records, crossed, answers)
  BY <1>2 DEF OnceInv, RunsOnce, OnceIn, TruthInv, RunsTruth
<1>6. /\ pending = <<>> /\ pending' = <<>>
      /\ log' = Append(log, h)
  BY <1>2 DEF StoreAppend, OnceInv, PendingOnce
<1>7. Records' = Records \cup {h} /\ Written' = Records \cup {h} /\ Written = Records
  BY <1>1, <1>6 DEF Records, Written
<1>8. WrittenTruth'
  <2> SUFFICES ASSUME NEW e \in Records \cup {h}, e.type = "receipt"
               PROVE  Truthful(e, Records \cup {h}, crossed, answers)
    BY <1>2, <1>7 DEF WrittenTruth
  <2>1. Truthful(e, Records, crossed, answers)
    BY <1>2, <1>4, <1>5, <1>7 DEF TruthInv, WrittenTruth, RunTruth
  <2>2. h.type = "started" => ~Alike(e, h)
    BY <1>3 DEF Fresh, Blocks, Alike, Marks
  <2> QED
    BY <2>1, <2>2, TruthGrows
<1>9. \/ run' = [run EXCEPT ![r].todo = Tail(s.todo)]
      \/ run' = [run EXCEPT ![r] = Idle]
      \/ /\ Tail(s.todo) = <<>> /\ s.then # "return"
         /\ run' = [run EXCEPT ![r].pc = s.then, ![r].then = None, ![r].todo = <<>>]
  BY DEF AppendOk, Leave
<1>10. ASSUME NEW q \in Runs, q # r, run[q].pc # "idle"
       PROVE  RunTruth(q, run[q], Records \cup {h}, crossed, answers)
  <2>1. run[q].thread # s.thread
    BY <1>2, <1>10 DEF GuardExact
  <2>2. RunTruth(q, run[q], Records, crossed, answers) /\ OnceIn(q, run[q], Records)
    BY <1>10 DEF TruthInv, RunsTruth, OnceInv, RunsOnce
  <2>3. ASSUME NEW e, e.thread = run[q].thread, Truthful(e, Records, crossed, answers)
        PROVE  Truthful(e, Records \cup {h}, crossed, answers)
    BY <1>3, <2>1, <2>3, TruthGrows DEF Alike, Marks
  <2>4. ASSUME run[q].pc = "append", NEW k \in DOMAIN run[q].todo,
               run[q].todo[k].type = "receipt"
        PROVE  Truthful(run[q].todo[k], Records \cup {h}, crossed, answers)
    <3>1. run[q].todo[k].thread = run[q].thread
      BY <2>2, <2>4 DEF OnceIn, TodoFresh, Marks
    <3> QED
      BY <2>2, <2>3, <2>4, <3>1 DEF RunTruth
  <2>5. ASSUME At(run[q]) = "recover", NEW e \in run[q].receipts
        PROVE  Truthful(e, Records \cup {h}, crossed, answers)
    BY <2>2, <2>3, <2>5 DEF OnceIn, MissingOnce, RunTruth
  <2> QED
    BY <2>2, <2>4, <2>5 DEF RunTruth
<1>11. ASSUME run'[r].pc # "idle"
       PROVE  RunTruth(r, run'[r], Records \cup {h}, crossed, answers)
  <2> DEFINE n == run'[r]
  <2>1. /\ n.todo = Tail(s.todo) /\ n.thread = s.thread /\ n.receipts = s.receipts
        /\ n.calls = s.calls /\ n.index = s.index /\ At(n) = At(s)
    <3>1. CASE run' = [run EXCEPT ![r].todo = Tail(s.todo)]
      BY <1>1, <1>2, <3>1 DEF RunStates, At
    <3>2. CASE run' = [run EXCEPT ![r] = Idle]
      BY <1>1, <1>11, <3>2 DEF Idle
    <3>3. CASE /\ Tail(s.todo) = <<>> /\ s.then # "return"
               /\ run' = [run EXCEPT ![r].pc = s.then, ![r].then = None, ![r].todo = <<>>]
      <4>1. s.then \in Labels
        BY <1>1, <1>2, <3>3 DEF RunOK
      <4>2. s.then # "append"
        BY <4>1 DEF Labels
      <4> QED
        BY <1>1, <1>2, <3>3, <4>2 DEF RunStates, At
    <3> QED
      BY <1>9, <3>1, <3>2, <3>3
  <2>2. ASSUME NEW k \in DOMAIN n.todo, n.todo[k].type = "receipt"
        PROVE  Truthful(n.todo[k], Records \cup {h}, crossed, answers)
    <3>1. n.todo[k] = s.todo[k + 1] /\ k + 1 \in DOMAIN s.todo /\ k + 1 # 1
      BY <1>3, <2>1
    <3>2. Truthful(n.todo[k], Records, crossed, answers)
      BY <1>2, <1>5, <2>2, <3>1 DEF RunTruth
    <3>3. h.type = "started" => ~Alike(n.todo[k], h)
      BY <1>4, <1>5, <2>2, <3>1 DEF TodoFresh, Alike, Marks
    <3> QED
      BY <3>2, <3>3, TruthGrows
  <2>3. ASSUME At(n) = "recover", NEW e \in n.receipts
        PROVE  Truthful(e, Records \cup {h}, crossed, answers)
    <3>1. h.type # "started"
      BY <1>4, <1>5, <2>1, <2>3 DEF TodoFresh, Marks
    <3> QED
      BY <1>5, <2>1, <2>3, <3>1, TruthGrows DEF RunTruth
  <2>4. ASSUME At(n) = "running"
        PROVE  \E c \in crossed : /\ c.thread = n.thread /\ c.turn = r
                                  /\ c.call = n.calls[n.index].id
    BY <1>5, <2>1, <2>4 DEF RunTruth
  <2> HIDE DEF n
  <2>5. RunTruth(r, n, Records \cup {h}, crossed, answers)
    BY <2>2, <2>3, <2>4 DEF RunTruth
  <2> QED
    BY <2>5 DEF n
<1>12. \A q \in Runs : q # r => run'[q] = run[q]
  BY <1>1, <1>9
<1> HIDE DEF h
<1>13. RunsTruth'
  <2> SUFFICES ASSUME NEW q \in Runs, run'[q].pc # "idle"
               PROVE  RunTruth(q, run'[q], Records \cup {h}, crossed, answers)
    BY <1>2, <1>7 DEF RunsTruth
  <2> QED
    BY <1>10, <1>11, <1>12
<1> QED
  BY <1>8, <1>13 DEF TruthInv

\* An append that failed.
LEMMA AppendFailTruth ==
    ASSUME IInv, OnceInv, TruthInv, NEW r \in Runs, AppendFail(r)
    PROVE  TruthInv'
<1> DEFINE h == Head(run[r].todo)
<1>1. /\ run[r].pc = "append" /\ run' = [run EXCEPT ![r] = Idle]
      /\ UNCHANGED <<log, crossed, answers>>
      /\ pending' = <<>> \/ pending' = <<h>>
  BY DEF AppendFail, Leave, StoreFail
<1>2. run[r].todo \in Seq(Events) /\ run[r].todo # <<>>
  BY <1>1, HeadFresh
<1>3. h = run[r].todo[1] /\ 1 \in DOMAIN run[r].todo
  BY <1>2
<1>4. h.type = "receipt" => Truthful(h, Records, crossed, answers)
  BY <1>1, <1>3 DEF TruthInv, RunsTruth, RunTruth
<1> HIDE DEF h
<1>5. Records' = Records /\ Written' \subseteq Records \cup {h}
  BY <1>1 DEF Records, Written
<1>6. \A e \in Written' : e.type = "receipt" => Truthful(e, Records, crossed, answers)
  BY <1>4, <1>5 DEF TruthInv, WrittenTruth, Written
<1>7. WrittenTruth'
  BY <1>1, <1>5, <1>6 DEF WrittenTruth
<1>8. RunsTruth'
  <2> SUFFICES ASSUME NEW q \in Runs, run'[q].pc # "idle"
               PROVE  RunTruth(q, run'[q], Records, crossed, answers)
    BY <1>1, <1>5 DEF RunsTruth
  <2>1. run'[q] = run[q]
    BY <1>1 DEF Idle, IInv, TypeOK
  <2> QED
    BY <2>1 DEF TruthInv, RunsTruth
<1> QED
  BY <1>7, <1>8 DEF TruthInv

\* start_thread appends an event that is neither a start nor a receipt.
LEMMA StartThreadTruth ==
    ASSUME IInv, OnceInv, TruthInv, NEW th \in Threads, StartThread(th)
    PROVE  TruthInv'
<1> DEFINE h == Event("thread_started", th, None, None, None)
<1>1. h.type \notin Marks /\ h.type # "receipt" /\ h.type # "started"
  BY DEF Event, Marks
<1>2. /\ StoreAppend(h) \/ StoreFail(h)
      /\ UNCHANGED <<run, crossed, answers>> /\ log \in Seq(Events)
  BY DEF StartThread, IInv, TypeOK
<1> HIDE DEF h
<1>3. \/ Records' = Records \cup {h} /\ Written' \subseteq Written \cup {h}
      \/ Records' = Records /\ Written' \subseteq Written \cup {h}
  <2>1. CASE StoreAppend(h)
    <3>1. log' = Append(log, h) /\ pending' = pending
      BY <2>1 DEF StoreAppend
    <3>2. Records' = Records \cup {h}
      BY <1>2, <3>1 DEF Records
    <3> QED
      BY <3>1, <3>2 DEF Written
  <2>2. CASE StoreFail(h)
    <3>1. log' = log /\ (pending' = <<>> \/ pending' = <<h>>)
      BY <2>2 DEF StoreFail
    <3> QED
      BY <3>1 DEF Records, Written
  <2> QED
    BY <1>2, <2>1, <2>2
<1>4. ASSUME NEW e, Truthful(e, Records, crossed, answers)
      PROVE  Truthful(e, Records', crossed, answers)
  BY <1>1, <1>3, <1>4, TruthGrows
<1>5. WrittenTruth'
  <2>1. \A e \in Written' : e.type = "receipt" => Truthful(e, Records', crossed, answers)
    BY <1>1, <1>3, <1>4 DEF TruthInv, WrittenTruth
  <2> QED
    BY <1>2, <2>1 DEF WrittenTruth
<1>6. RunsTruth'
  <2>1. ASSUME NEW q \in Runs, run[q].pc # "idle"
        PROVE  RunTruth(q, run[q], Records', crossed, answers)
    BY <1>4, <2>1 DEF TruthInv, RunsTruth, RunTruth
  <2> QED
    BY <1>2, <2>1 DEF RunsTruth
<1> QED
  BY <1>5, <1>6 DEF TruthInv

\* A restart: a start that was pending is fresh, so no receipt of the log is
\* about its call.
LEMMA RestartTruth ==
    ASSUME IInv, OnceInv, TruthInv, Restart
    PROVE  TruthInv'
<1>1. log \in Seq(Events) /\ pending \in Seq(Events) /\ synced \in 0..Len(log)
  BY DEF IInv, TypeOK
<1>2. PICK k \in synced..Len(log) + Len(pending) : log' = SubSeq(log \o pending, 1, k)
  BY DEF Restart, StoreReopen
<1>3. pending' = <<>> /\ run' = [r \in Runs |-> Idle] /\ UNCHANGED <<crossed, answers>>
  BY DEF Restart, StoreReopen
<1>4. Written' = Records'
  BY <1>3 DEF Written
<1>5. Records' \subseteq Written
  <2>1. log \o pending \in Seq(Events) /\ Len(log \o pending) = Len(log) + Len(pending)
    BY <1>1
  <2>2. k \in Nat /\ k =< Len(log \o pending)
    BY <1>1, <2>1
  <2>3. DOMAIN log' = 1..k /\ \A m \in 1..k : log'[m] = (log \o pending)[m]
    BY <1>2, <2>1, <2>2
  <2>4. ASSUME NEW m \in 1..Len(log) + Len(pending) PROVE (log \o pending)[m] \in Written
    <3>1. CASE m \in 1..Len(log)
      BY <1>1, <3>1 DEF Written, Records
    <3>2. CASE m \notin 1..Len(log)
      <4>1. m - Len(log) \in DOMAIN pending /\ (log \o pending)[m] = pending[m - Len(log)]
        BY <1>1, <3>2
      <4> QED
        BY <4>1 DEF Written
    <3> QED
      BY <3>1, <3>2
  <2>5. \A m \in 1..k : log'[m] \in Written
    BY <2>1, <2>2, <2>3, <2>4
  <2> QED
    BY <2>3, <2>5 DEF Records
<1>6. \A f \in Written : f \in Records \/ (1 \in DOMAIN pending /\ f = pending[1])
  BY <1>1 DEF Written, OnceInv, PendingOnce
<1>7. ASSUME NEW e \in Records', e.type = "receipt", NotStarted(e, Records)
      PROVE  NotStarted(e, Records')
  <2> SUFFICES ASSUME NEW f \in Records', f.type = "started", Alike(e, f) PROVE FALSE
    BY DEF NotStarted
  <2>1. f \notin Records
    BY <1>7 DEF NotStarted
  <2>2. 1 \in DOMAIN pending /\ f = pending[1]
    BY <1>5, <1>6, <2>1
  <2>3. e \in Records
    BY <1>5, <1>6, <1>7, <2>2
  <2>4. Fresh(f, Records)
    BY <2>2 DEF OnceInv, PendingOnce
  <2> QED
    BY <1>7, <2>3, <2>4 DEF Fresh, Blocks, Alike, Marks
<1>8. \A e \in Records' : e.type = "receipt" => Truthful(e, Records', crossed, answers)
  BY <1>5, <1>7, TruthKept DEF TruthInv, WrittenTruth
<1>9. WrittenTruth'
  BY <1>3, <1>4, <1>8 DEF WrittenTruth
<1>10. RunsTruth'
  BY <1>3 DEF RunsTruth, Idle
<1> QED
  BY <1>9, <1>10 DEF TruthInv

\* A step of one run after which the receipts in its queue are truthful.
LEMMA QueueTruth ==
    ASSUME IInv, TruthInv, NEW r \in Runs, NEW n, run' = [run EXCEPT ![r] = n],
           UNCHANGED <<storeVars, crossed, answers>>,
           At(n) \notin {"recover", "running"},
           n.pc = "append" => \A k \in DOMAIN n.todo :
              n.todo[k].type = "receipt" => Truthful(n.todo[k], Records, crossed, answers)
    PROVE  TruthInv'
<1>1. RunTruth(r, n, Records, crossed', answers')
  BY DEF RunTruth
<1> QED
  BY <1>1, StepTruth

\* The run appends events, after which it is neither recovering nor executing.
LEMMA EmitTruth ==
    ASSUME IInv, TruthInv, NEW r \in Runs, run[r].pc # "idle", NEW events,
           NEW then, then # "recover", then # "running",
           Step(r, Emit(run[r], events, then)),
           \A k \in DOMAIN events :
              events[k].type = "receipt" => Truthful(events[k], Records, crossed, answers)
    PROVE  TruthInv'
<1> DEFINE n == Emit(run[r], events, then)
<1>1. run[r] \in RunStates
  BY DEF IInv, TypeOK
<1>2. At(n) = then /\ n.todo = events
  BY <1>1, EmitShape
<1>3. run' = [run EXCEPT ![r] = n] /\ UNCHANGED <<storeVars, crossed, answers>>
  BY DEF Step
<1> HIDE DEF n
<1> QED
  BY <1>2, <1>3, QueueTruth

\* The receipt of a call that was not started, and is not past its start.
LEMMA NotRunTruth ==
    ASSUME NEW t, NEW s \in RunStates, OnceIn(t, s, Records),
           At(s) \in {"decide", "call", "handle", "gate", "approval"},
           NEW i \in DOMAIN s.calls, i >= s.index,
           NEW e, e.thread = s.thread, e.turn = t, e.call = s.calls[i].id,
           e.data.status \in {"failed", "denied"}
    PROVE  Truthful(e, Records, crossed, answers)
<1>1. FirstOpen(s, "started") = s.index
  BY DEF FirstOpen
<1>2. Open(s, "started", e.call)
  BY <1>1 DEF Open
<1>3. NotStarted(e, Records)
  <2> SUFFICES ASSUME NEW f \in Records, f.type = "started", Alike(e, f) PROVE FALSE
    BY DEF NotStarted
  <2>1. f.thread = s.thread /\ f.turn = t /\ f.call = e.call
    BY DEF Alike
  <2> QED
    BY <1>2, <2>1 DEF OnceIn, LogDone, Done, Marks
<1> QED
  BY <1>3 DEF Truthful

\* A run begins: what recovery finds missing is truthful.
LEMMA AcquireTruth ==
    ASSUME IInv, TruthInv, NEW r \in Runs, NEW th \in Threads, Acquire(r, th)
    PROVE  TruthInv'
<1> DEFINE n == [Idle EXCEPT !.pc = "recover", !.thread = th,
                             !.receipts = MissingReceipts(log, th),
                             !.failures = RecoveryFailures(log, th)]
<1>1. run' = [run EXCEPT ![r] = n] /\ UNCHANGED <<storeVars, crossed, answers>>
  BY DEF Acquire
<1>2. n.pc = "recover" /\ At(n) = "recover" /\ n.receipts = MissingReceipts(log, th)
  BY DEF Idle, At
<1> HIDE DEF n
<1>3. log \in Seq(Events)
  BY DEF IInv, TypeOK
<1>4. ASSUME NEW e \in MissingReceipts(log, th)
      PROVE  Truthful(e, Records, crossed, answers)
  BY <1>3, MissingFacts DEF Truthful
<1>5. RunTruth(r, n, Records, crossed', answers')
  BY <1>1, <1>2, <1>4 DEF RunTruth
<1> QED
  BY <1>1, <1>5, StepTruth

\* Recovery moves one missing receipt, or the failure of a turn, into the
\* queue.
LEMMA RecoverAppendTruth ==
    ASSUME IInv, OnceInv, TruthInv, NEW r \in Runs, RecoverAppend(r)
    PROVE  TruthInv'
<1> DEFINE s == run[r]
<1>1. s.pc = "recover" /\ s \in RunStates /\ At(s) = "recover"
  BY OnceFacts DEF RecoverAppend
<1>2. \A e \in s.receipts : Truthful(e, Records, crossed, answers)
  BY <1>1 DEF TruthInv, RunsTruth, RunTruth
<1>3. \A e \in s.failures : e.type # "receipt"
  BY <1>1 DEF RunStates, PlainEvents, Terminal
<1>4. ASSUME NEW less \in RunStates, less.receipts \subseteq s.receipts,
             NEW e, e \in s.receipts \cup s.failures, Step(r, Emit(less, <<e>>, "recover"))
      PROVE  TruthInv'
  <2> DEFINE n == Emit(less, <<e>>, "recover")
  <2>1. At(n) = "recover" /\ n.todo = <<e>> /\ n.receipts = less.receipts
    BY EmitShape
  <2>2. run' = [run EXCEPT ![r] = n] /\ UNCHANGED <<storeVars, crossed, answers>>
    BY <1>4 DEF Step
  <2> HIDE DEF n
  <2>3. RunTruth(r, n, Records, crossed, answers)
    BY <1>2, <1>3, <1>4, <2>1 DEF RunTruth
  <2> QED
    BY <2>2, <2>3, StepTruth
<1>5. ASSUME NEW e
      PROVE  /\ [s EXCEPT !.receipts = @ \ {e}] \in RunStates
             /\ [s EXCEPT !.failures = @ \ {e}] \in RunStates
             /\ [s EXCEPT !.receipts = @ \ {e}].receipts \subseteq s.receipts
             /\ [s EXCEPT !.failures = @ \ {e}].receipts \subseteq s.receipts
  BY <1>1 DEF RunStates
<1> QED
  BY <1>4, <1>5 DEF RecoverAppend

\* After recovery a turn is announced, and recover returns.
LEMMA RecoveredTruth ==
    ASSUME IInv, TruthInv, NEW r \in Runs, Recovered(r)
    PROVE  TruthInv'
<1>1. CASE r \in Turns
  <2> DEFINE events == <<TurnOf("turn_started", r), TurnOf("user", r)>>
  <2>1. \A k \in DOMAIN events : events[k].type # "receipt"
    BY DEF TurnOf, TurnEvent, Event
  <2>2. run[r].pc = "recover" /\ Step(r, Emit(run[r], events, "load"))
    BY <1>1 DEF Recovered
  <2> HIDE DEF events
  <2> QED
    BY <2>1, <2>2, EmitTruth
<1>2. CASE r \notin Turns
  BY <1>2, LeaveTruth DEF Recovered
<1> QED
  BY <1>1, <1>2

\* A turn ends with events that are no receipts.
LEMMA EndTruth ==
    ASSUME IInv, TruthInv, NEW t \in Turns, run[t].pc # "idle", NEW events, EndTurn(t, events),
           \A k \in DOMAIN events : events[k].type # "receipt"
    PROVE  TruthInv'
BY EmitTruth DEF EndTurn, Runs

\* The steps up to the request of the model.
LEMMA LoopTruth ==
    ASSUME IInv, TruthInv, NEW t \in Turns, Load(t) \/ Loop(t) \/ ModelError(t)
    PROVE  TruthInv'
<1>0. t \in Runs /\ run[t] \in RunStates
  BY DEF Runs, IInv, TypeOK
<1>1. CASE Load(t)
  <2> DEFINE n == [run[t] EXCEPT !.pc = "loop"]
  <2>1. n.pc = "loop" /\ At(n) = "loop"
    BY <1>0 DEF RunStates, At
  <2>2. run' = [run EXCEPT ![t] = n] /\ UNCHANGED <<storeVars, crossed, answers>>
    BY <1>1 DEF Load
  <2> HIDE DEF n
  <2> QED
    BY <1>0, <2>1, <2>2, QueueTruth
<1>2. CASE Loop(t)
  <2> DEFINE failed == <<TurnOf("turn_failed", t)>>
             stopped == <<TurnOf("turn_cancelled", t)>>
             hooked == <<TurnOf("hook_failed", t), TurnOf("turn_failed", t)>>
             asked == <<TurnOf("context", t), TurnOf("request", t)>>
  <2>1. /\ \A k \in DOMAIN failed : failed[k].type # "receipt"
        /\ \A k \in DOMAIN stopped : stopped[k].type # "receipt"
        /\ \A k \in DOMAIN hooked : hooked[k].type # "receipt"
        /\ \A k \in DOMAIN asked : asked[k].type # "receipt"
    BY DEF TurnOf, TurnEvent, Event
  <2>2. /\ run[t].pc = "loop"
        /\ \/ EndTurn(t, failed) \/ EndTurn(t, stopped) \/ EndTurn(t, hooked)
           \/ Step(t, Emit(run[t], asked, "model"))
    BY <1>2 DEF Loop
  <2> HIDE DEF failed, stopped, hooked, asked
  <2>3. CASE Step(t, Emit(run[t], asked, "model"))
    BY <1>0, <2>1, <2>2, <2>3, EmitTruth
  <2> QED
    BY <2>1, <2>2, <2>3, EndTruth
<1>3. CASE ModelError(t)
  <2> DEFINE events == <<TurnOf(IF t \in cancelled THEN "turn_cancelled" ELSE "turn_failed", t)>>
  <2>1. \A k \in DOMAIN events : events[k].type # "receipt"
    BY DEF TurnOf, TurnEvent, Event
  <2>2. run[t].pc = "model" /\ EndTurn(t, events)
    BY <1>3 DEF ModelError
  <2> HIDE DEF events
  <2> QED
    BY <2>1, <2>2, EndTruth
<1> QED
  BY <1>1, <1>2, <1>3

\* A response queues no receipt.
LEMMA ModelResponseTruth ==
    ASSUME IInv, TruthInv, NEW t \in Turns, NEW calls \in Responses, NEW stop \in StopReasons,
           ModelResponse(t, calls, stop)
    PROVE  TruthInv'
<1> DEFINE s == run[t]
           message == AssistantMessage(s.thread, t, calls)
           ids == {calls[i].id : i \in DOMAIN calls}
           n == [Emit(s, <<message>>, "decide") EXCEPT
                    !.calls = calls, !.stop = stop, !.seen = @ \cup ids]
           failed == <<TurnOf("turn_failed", t)>>
<1>0. t \in Runs /\ s \in RunStates
  BY DEF Runs, IInv, TypeOK
<1>1. s.pc = "model" /\ (EndTurn(t, failed) \/ StepPush(t, n, message))
  BY DEF ModelResponse
<1>2. n.pc = "append" /\ At(n) = "decide" /\ n.todo = <<message>>
  BY <1>0 DEF RunStates, At, Emit
<1>3. message.type # "receipt"
  BY DEF AssistantMessage, Event
<1>4. \A k \in DOMAIN failed : failed[k].type # "receipt"
  BY DEF TurnOf, TurnEvent, Event
<1> HIDE DEF n, message, failed
<1>5. CASE StepPush(t, n, message)
  <2>1. run' = [run EXCEPT ![t] = n] /\ UNCHANGED <<storeVars, crossed, answers>>
    BY <1>5 DEF StepPush
  <2>2. \A k \in DOMAIN n.todo : n.todo[k].type # "receipt"
    BY <1>2, <1>3
  <2> QED
    BY <1>0, <1>2, <2>1, <2>2, QueueTruth
<1> QED
  BY <1>1, <1>4, <1>5, EndTruth

\* The turn ends with denied receipts for calls that it did not start.
LEMMA EndDeniedTruth ==
    ASSUME IInv, OnceInv, TruthInv, NEW t \in Turns, run[t].pc \in {"decide", "call"},
           NEW d \in Nat, d + 1 >= run[t].index, NEW calls \in Seq(ToolCall),
           \A k \in 1..Len(calls) :
              d + k \in DOMAIN run[t].calls /\ calls[k] = run[t].calls[d + k],
           NEW type \in Terminal,
           EndTurn(t, Append(Denied(run[t].thread, t, calls), TurnOf(type, t)))
    PROVE  TruthInv'
<1> DEFINE s == run[t]
           denied == Denied(s.thread, t, calls)
           events == Append(denied, TurnOf(type, t))
<1>0. t \in Runs
  BY DEF Runs
<1>1. s \in RunStates /\ OnceIn(t, s, Records) /\ At(s) = s.pc
  BY <1>0, OnceFacts
<1>2. /\ DOMAIN events = 1..Len(calls) + 1
      /\ events[Len(calls) + 1] = TurnOf(type, t)
      /\ \A k \in 1..Len(calls) : events[k] = Receipt(s.thread, t, calls[k].id, "denied", None)
  <2>1. /\ DOMAIN denied = 1..Len(calls)
        /\ \A k \in 1..Len(calls) : denied[k] = Receipt(s.thread, t, calls[k].id, "denied", None)
    BY DEF Denied
  <2>2. s.thread \in Threads
    BY TurnFacts
  <2>3. denied \in Seq(Events)
    BY <2>2, DeniedType
  <2>4. Len(denied) = Len(calls)
    BY <2>1, <2>3
  <2> HIDE DEF denied
  <2> QED
    BY <2>1, <2>3, <2>4
<1>3. TurnOf(type, t).type # "receipt"
  BY DEF TurnOf, TurnEvent, Event, Terminal
<1>4. ASSUME NEW k \in DOMAIN events, events[k].type = "receipt"
      PROVE  Truthful(events[k], Records, crossed, answers)
  <2>1. k \in 1..Len(calls)
    BY <1>2, <1>3, <1>4
  <2>2. events[k] = Receipt(s.thread, t, s.calls[d + k].id, "denied", None)
    BY <1>2, <2>1
  <2>3. /\ events[k].thread = s.thread /\ events[k].turn = t
        /\ events[k].call = s.calls[d + k].id /\ events[k].data.status = "denied"
    BY <2>2 DEF Receipt, Event
  <2>4. d + k \in DOMAIN s.calls /\ d + k >= s.index
    BY <1>1, <2>1 DEF RunStates
  <2> HIDE DEF events, s
  <2> QED
    BY <1>1, <2>3, <2>4, NotRunTruth DEF s
<1>5. Step(t, Emit(run[t], events, "return")) /\ run[t].pc # "idle"
  BY DEF EndTurn
<1> HIDE DEF events
<1> QED
  BY <1>0, <1>4, <1>5, EmitTruth

\* The stop reason ends the turn, or the calls of the response are next.
LEMMA DecideTruth ==
    ASSUME IInv, OnceInv, TruthInv, NEW t \in Turns, Decide(t)
    PROVE  TruthInv'
<1> DEFINE s == run[t]
           n == [s EXCEPT !.pc = "call", !.stop = None, !.index = 1]
           completed == <<TurnOf("turn_completed", t)>>
<1>0. t \in Runs
  BY DEF Runs
<1>1. s.pc = "decide" /\ s \in RunStates /\ OnceIn(t, s, Records) /\ At(s) = "decide"
  BY <1>0, OnceFacts DEF Decide
<1>2. s.index = 1 /\ s.calls \in Seq(ToolCall)
  BY <1>1 DEF OnceIn, CallsOnce, Early, RunStates
<1>3. \/ \E type \in Terminal : EndTurn(t, Append(Denied(s.thread, t, s.calls), TurnOf(type, t)))
      \/ EndTurn(t, completed)
      \/ Step(t, n)
  BY DEF Decide, Terminal
<1>4. ASSUME NEW type \in Terminal,
             EndTurn(t, Append(Denied(s.thread, t, s.calls), TurnOf(type, t)))
      PROVE  TruthInv'
  <2>1. 0 \in Nat /\ 0 + 1 >= s.index
    BY <1>2
  <2>2. \A k \in 1..Len(s.calls) : 0 + k \in DOMAIN s.calls /\ s.calls[k] = s.calls[0 + k]
    BY <1>2
  <2> QED
    BY <1>1, <1>2, <1>4, <2>1, <2>2, EndDeniedTruth
<1>5. CASE EndTurn(t, completed)
  <2>1. \A k \in DOMAIN completed : completed[k].type # "receipt"
    BY DEF TurnOf, TurnEvent, Event
  <2> HIDE DEF completed
  <2> QED
    BY <1>1, <1>5, <2>1, EndTruth
<1>6. CASE Step(t, n)
  <2>1. n.pc = "call" /\ At(n) = "call"
    BY <1>1 DEF RunStates, At
  <2> HIDE DEF n
  <2> QED
    BY <1>0, <1>6, <2>1, QueueTruth DEF Step
<1> QED
  BY <1>3, <1>4, <1>5, <1>6

\* The next call, the next iteration, or a cancelled turn.
LEMMA NextCallTruth ==
    ASSUME IInv, OnceInv, TruthInv, NEW t \in Turns, NextCall(t)
    PROVE  TruthInv'
<1> DEFINE s == run[t]
           more == [s EXCEPT !.pc = "loop", !.iteration = @ + 1, !.calls = <<>>, !.index = 1]
           this == [s EXCEPT !.pc = "handle"]
           rest == SubSeq(s.calls, s.index, Len(s.calls))
<1>0. t \in Runs
  BY DEF Runs
<1>1. s.pc = "call" /\ s \in RunStates
  BY <1>0, OnceFacts DEF NextCall
<1>2. s.index \in Nat \ {0} /\ s.calls \in Seq(ToolCall)
  BY <1>1 DEF RunStates
<1>3. \/ Step(t, more) \/ Step(t, this)
      \/ /\ s.index =< Len(s.calls)
         /\ EndTurn(t, Append(Denied(s.thread, t, rest), TurnOf("turn_cancelled", t)))
  BY <1>2 DEF NextCall
<1>4. CASE Step(t, more) \/ Step(t, this)
  <2>1. /\ more.pc = "loop" /\ At(more) = "loop"
        /\ this.pc = "handle" /\ At(this) = "handle"
    BY <1>1 DEF RunStates, At
  <2> HIDE DEF more, this
  <2> QED
    BY <1>0, <1>4, <2>1, QueueTruth DEF Step
<1>5. ASSUME s.index =< Len(s.calls),
             EndTurn(t, Append(Denied(s.thread, t, rest), TurnOf("turn_cancelled", t)))
      PROVE  TruthInv'
  <2> DEFINE d == s.index - 1
  <2>1. d \in Nat /\ d + 1 >= s.index
    BY <1>2
  <2>2. rest \in Seq(ToolCall)
    BY <1>2, <1>5
  <2>3. ASSUME NEW k \in 1..Len(rest)
        PROVE  d + k \in DOMAIN s.calls /\ rest[k] = s.calls[d + k]
    BY <1>2, <1>5
  <2> HIDE DEF rest, d
  <2> QED
    BY <1>1, <1>5, <2>1, <2>2, <2>3, EndDeniedTruth DEF Terminal
<1> QED
  BY <1>3, <1>4, <1>5

\* handle_tool_call returns without having called the executor.
LEMMA CloseCallTruth ==
    ASSUME IInv, OnceInv, TruthInv, NEW t \in Turns,
           run[t].pc \in {"handle", "gate", "approval"},
           NEW events, NEW how \in {"failed", "denied"}, NEW action,
           \A k \in DOMAIN events :
              events[k].type = "receipt" => events[k] = CallReceipt(t, how, action),
           CloseCall(t, events)
    PROVE  TruthInv'
<1> DEFINE s == run[t]
           n == [Emit(s, events, "call") EXCEPT !.action = None, !.index = @ + 1]
           e == CallReceipt(t, how, action)
<1>0. t \in Runs
  BY DEF Runs
<1>1. s \in RunStates /\ OnceIn(t, s, Records) /\ At(s) = s.pc /\ s.index \in DOMAIN s.calls
  BY <1>0, OnceFacts DEF Handling
<1>2. run' = [run EXCEPT ![t] = n] /\ UNCHANGED <<storeVars, crossed, answers>>
  BY DEF CloseCall, StepPush
<1>3. n.pc = "append" /\ At(n) = "call" /\ n.todo = events
  BY <1>1 DEF RunStates, At, Emit
<1>4. /\ e.thread = s.thread /\ e.turn = t /\ e.call = s.calls[s.index].id
      /\ e.data.status = how
  BY DEF CallReceipt, Receipt, Event, Current
<1>5. s.index >= s.index
  BY <1>1 DEF RunStates
<1> HIDE DEF n, e
<1>6. Truthful(e, Records, crossed, answers)
  <2> HIDE DEF s
  <2> QED
    BY <1>1, <1>4, <1>5, NotRunTruth DEF s
<1> QED
  BY <1>0, <1>2, <1>3, <1>6, QueueTruth DEF e

\* Preparation, gate and approval: none of them calls the executor.
LEMMA HandleTruth ==
    ASSUME IInv, OnceInv, TruthInv, NEW t \in Turns,
           \/ Prepare(t) \/ Gate(t)
           \/ \E decision \in Decisions : Approval(t, decision)
    PROVE  TruthInv'
<1>0. t \in Runs /\ run[t] \in RunStates
  BY DEF Runs, IInv, TypeOK
<1>1. CASE Prepare(t)
  <2>1. run[t].pc = "handle"
    BY <1>1 DEF Prepare
  <2>2. ASSUME NEW how \in {"failed", "denied"}, CloseCall(t, <<CallReceipt(t, how, None)>>)
        PROVE  TruthInv'
    <3> DEFINE events == <<CallReceipt(t, how, None)>>
    <3>1. \A k \in DOMAIN events : events[k] = CallReceipt(t, how, None)
      OBVIOUS
    <3>2. CloseCall(t, events)
      BY <2>2
    <3> HIDE DEF events
    <3> QED
      BY <2>1, <3>1, <3>2, CloseCallTruth
  <2>3. ASSUME NEW action,
               Step(t, [Emit(run[t], <<CallEvent("prepared", t, action)>>, "gate")
                          EXCEPT !.action = action])
        PROVE  TruthInv'
    <3> DEFINE e == CallEvent("prepared", t, action)
               n == [Emit(run[t], <<e>>, "gate") EXCEPT !.action = action]
    <3>1. n.pc = "append" /\ At(n) = "gate" /\ n.todo = <<e>>
      BY <1>0 DEF RunStates, At, Emit
    <3>2. e.type # "receipt"
      BY DEF CallEvent, Event
    <3>3. Step(t, n)
      BY <2>3
    <3> HIDE DEF n, e
    <3>4. \A k \in DOMAIN n.todo : n.todo[k].type # "receipt"
      BY <3>1, <3>2
    <3> QED
      BY <1>0, <3>1, <3>3, <3>4, QueueTruth DEF Step
  <2> QED
    BY <1>1, <2>2, <2>3 DEF Prepare
<1>2. CASE Gate(t)
  <2> DEFINE action == run[t].action
             rejected == <<TurnOf("hook_failed", t), CallReceipt(t, "denied", action)>>
             asked == <<CallEvent("approval_requested", t, action)>>
             started == <<CallEvent("started", t, action)>>
  <2>1. /\ run[t].pc = "gate"
        /\ \/ CloseCall(t, rejected)
           \/ Step(t, Emit(run[t], asked, "approval"))
           \/ Step(t, Emit(run[t], started, "execute"))
    BY <1>2 DEF Gate
  <2>2. \A k \in DOMAIN rejected :
           rejected[k].type = "receipt" => rejected[k] = CallReceipt(t, "denied", action)
    BY DEF TurnOf, TurnEvent, Event
  <2>3. /\ \A k \in DOMAIN asked : asked[k].type # "receipt"
        /\ \A k \in DOMAIN started : started[k].type # "receipt"
    BY DEF CallEvent, Event
  <2> HIDE DEF rejected, asked, started
  <2>4. CASE CloseCall(t, rejected)
    BY <2>1, <2>2, <2>4, CloseCallTruth
  <2> QED
    BY <1>0, <2>1, <2>3, <2>4, EmitTruth
<1>3. ASSUME NEW decision \in Decisions, Approval(t, decision)
      PROVE  TruthInv'
  <2> DEFINE action == run[t].action
             resolved == CallEvent("approval_resolved", t, decision)
             approved == <<resolved, CallEvent("started", t, action)>>
             denied == <<resolved, CallReceipt(t, "denied", action)>>
  <2>1. /\ run[t].pc = "approval"
        /\ \/ Step(t, Emit(run[t], approved, "execute"))
           \/ CloseCall(t, denied)
    BY <1>3 DEF Approval
  <2>2. /\ \A k \in DOMAIN approved : approved[k].type # "receipt"
        /\ \A k \in DOMAIN denied :
              denied[k].type = "receipt" => denied[k] = CallReceipt(t, "denied", action)
    BY DEF CallEvent, Event
  <2> HIDE DEF approved, denied
  <2>3. CASE CloseCall(t, denied)
    BY <2>1, <2>2, <2>3, CloseCallTruth
  <2> QED
    BY <1>0, <2>1, <2>2, <2>3, EmitTruth
<1> QED
  BY <1>1, <1>2, <1>3

\* The executor is called.
LEMMA ExecuteTruth ==
    ASSUME IInv, TruthInv, NEW t \in Turns, Execute(t)
    PROVE  TruthInv'
<1> DEFINE s == run[t]
           n == [s EXCEPT !.pc = "running"]
           c == [thread |-> s.thread, turn |-> t, call |-> Current(t).id, action |-> s.action]
<1>0. t \in Runs /\ s \in RunStates
  BY DEF Runs, IInv, TypeOK
<1>1. /\ run' = [run EXCEPT ![t] = n] /\ UNCHANGED <<storeVars, answers>>
      /\ crossed' = crossed \cup {c}
  BY DEF Execute
<1>2. /\ n.pc = "running" /\ At(n) = "running" /\ n.thread = s.thread
      /\ n.calls = s.calls /\ n.index = s.index
  BY <1>0 DEF RunStates, At
<1>3. c.thread = s.thread /\ c.turn = t /\ c.call = s.calls[s.index].id
  BY DEF Current
<1> HIDE DEF n, c
<1>4. RunTruth(t, n, Records, crossed', answers')
  BY <1>1, <1>2, <1>3 DEF RunTruth
<1> QED
  BY <1>0, <1>1, <1>4, StepTruth

\* The answer of the executor becomes the receipt.
LEMMA ExecutedTruth ==
    ASSUME IInv, TruthInv, NEW t \in Turns, NEW how \in ExecutorAnswers, Executed(t, how)
    PROVE  TruthInv'
<1> DEFINE s == run[t]
           e == CallReceipt(t, how, s.action)
           n == Emit(s, <<e>>, "after")
           a == [thread |-> s.thread, turn |-> t, call |-> Current(t).id, status |-> how]
<1>0. t \in Runs /\ s \in RunStates
  BY DEF Runs, IInv, TypeOK
<1>1. /\ run' = [run EXCEPT ![t] = n] /\ UNCHANGED <<storeVars, crossed>>
      /\ answers' = answers \cup {a} /\ s.pc = "running"
  BY <1>0 DEF Executed, IInv, TypeOK
<1>2. n.pc = "append" /\ At(n) = "after" /\ n.todo = <<e>>
  <2> HIDE DEF s, e
  <2> QED
    BY <1>0, EmitShape
<1>3. /\ e.thread = s.thread /\ e.turn = t /\ e.call = s.calls[s.index].id
      /\ e.data.status = how
  BY DEF CallReceipt, Receipt, Event, Current
<1>4. a.thread = s.thread /\ a.turn = t /\ a.call = s.calls[s.index].id /\ a.status = how
  BY DEF Current
<1> HIDE DEF n, e, a
<1>5. At(s) = "running"
  BY <1>1 DEF At
<1>6. PICK c \in crossed : c.thread = s.thread /\ c.turn = t /\ c.call = s.calls[s.index].id
  BY <1>0, <1>1, <1>5 DEF TruthInv, RunsTruth, RunTruth
<1>7. Truthful(e, Records, crossed', answers')
  BY <1>1, <1>3, <1>4, <1>6 DEF Truthful, About
<1>8. RunTruth(t, n, Records, crossed', answers')
  BY <1>2, <1>7 DEF RunTruth
<1> QED
  BY <1>0, <1>1, <1>8, StepTruth

\* The hook after a call ends the turn or lets it go on.
LEMMA AfterToolTruth ==
    ASSUME IInv, TruthInv, NEW t \in Turns, AfterTool(t)
    PROVE  TruthInv'
<1> DEFINE s == run[t]
           n == [s EXCEPT !.pc = "call", !.action = None, !.index = @ + 1]
           hooked == <<TurnOf("hook_failed", t), TurnOf("turn_failed", t)>>
<1>0. t \in Runs /\ s \in RunStates
  BY DEF Runs, IInv, TypeOK
<1>1. s.pc = "after" /\ (EndTurn(t, hooked) \/ Step(t, n))
  BY DEF AfterTool
<1>2. \A k \in DOMAIN hooked : hooked[k].type # "receipt"
  BY DEF TurnOf, TurnEvent, Event
<1>3. n.pc = "call" /\ At(n) = "call"
  BY <1>0 DEF RunStates, At
<1> HIDE DEF n, hooked
<1>4. CASE Step(t, n)
  BY <1>0, <1>3, <1>4, QueueTruth DEF Step
<1> QED
  BY <1>1, <1>2, <1>4, EndTruth

\* A step that touches neither the store nor the runs nor the executor.
LEMMA FrameTruth ==
    ASSUME TruthInv, UNCHANGED <<storeVars, run, crossed, answers>>
    PROVE  TruthInv'
<1>1. Records' = Records /\ Written' = Written
  BY DEF Records, Written, storeVars
<1> QED
  BY <1>1 DEF TruthInv, WrittenTruth, RunsTruth

\* Every step keeps the receipts truthful.
LEMMA CoreTruth == IInv /\ GuardExact /\ OnceInv /\ TruthInv /\ Core => TruthInv'
<1> SUFFICES ASSUME IInv, GuardExact, OnceInv, TruthInv, Core PROVE TruthInv'
  OBVIOUS
<1>1. ASSUME NEW th \in Threads, StartThread(th) \/ \E r \in Runs : Begins(r, th)
      PROVE  TruthInv'
  BY <1>1, StartThreadTruth, AcquireTruth DEF Begins
<1>2. ASSUME NEW r \in Runs, RunStep(r) \/ AppendFail(r)
      PROVE  TruthInv'
  BY <1>2, RecoverAppendTruth, RecoveredTruth, AppendOkTruth, AppendFailTruth, LeaveTruth
     DEF RunStep, AppendRefused
<1>3. ASSUME NEW t \in Turns, TurnStep(t) \/ \E decision \in Decisions : Approval(t, decision)
      PROVE  TruthInv'
  BY <1>3, LoopTruth, ModelResponseTruth, DecideTruth, NextCallTruth, HandleTruth,
     ExecuteTruth, ExecutedTruth, AfterToolTruth DEF TurnStep
<1>4. ASSUME NEW t \in Turns, Drop(t)
      PROVE  TruthInv'
  BY <1>4, LeaveTruth DEF Drop, Runs
<1>5. CASE Signals
  BY <1>5, FrameTruth DEF Signals
<1> QED
  BY <1>1, <1>2, <1>3, <1>4, <1>5, RestartTruth DEF Core

\* Truthful receipts and write-ahead are what the property says.
LEMMA TruthSuffices == IInv /\ TruthInv => ReceiptsTruthful
<1> SUFFICES ASSUME IInv, TruthInv, NEW i \in DOMAIN log, log[i].type = "receipt"
             PROVE  LET executed == \E c \in crossed : IsAbout(i, "receipt", c)
                        how == log[i].data.status
                    IN  /\ executed => \/ how = "unknown"
                                       \/ \E a \in answers :
                                             IsAbout(i, "receipt", a) /\ a.status = how
                        /\ how = "succeeded" => executed
  BY DEF ReceiptsTruthful
<1>1. Truthful(log[i], Records, crossed, answers)
  BY DEF TruthInv, WrittenTruth, Written, Records
<1>2. ASSUME NEW c \in crossed, IsAbout(i, "receipt", c) PROVE ~NotStarted(log[i], Records)
  <2>1. PICK j \in 1..synced : IsAbout(j, "started", c)
    BY DEF IInv, WriteAhead
  <2>2. j \in DOMAIN log
    BY DEF IInv, TypeOK
  <2> QED
    BY <1>2, <2>1, <2>2 DEF NotStarted, Records, Alike, IsAbout
<1>3. \A c : About(c, log[i]) <=> IsAbout(i, "receipt", c)
  BY DEF About, IsAbout
<1> QED
  BY <1>1, <1>2, <1>3 DEF Truthful

\* Receipts are truthful: of a call that was handed to the executor, the
\* receipt says what the executor answered or that the outcome is unknown,
\* and only a call that was handed to it has succeeded. Recovery never
\* guesses, and no late record makes a receipt wrong.
THEOREM ReceiptsTruthfulHolds == Spec => []ReceiptsTruthful
<1>1. Init => TruthInv
  BY DEF Init, StoreInit, TruthInv, WrittenTruth, RunsTruth, Written, Records, Idle
<1> QED
  BY <1>1, TruthSuffices, Invariance, GuardExactHolds, OnceInvariance, NextIInv, CoreTruth, PTL
     DEF Spec
-----------------------------------------------------------------------------
(* The transcript.  What run_turn keeps by hand runs ahead of the log by   *)
(* at most the last event it has queued; the exact guard keeps all other   *)
(* messages off its thread.                                                *)

Messages == {"user", "assistant", "receipt"}

\* Where run_turn is once it has a transcript.
Along == Labels \ {"recover", "load"}

\* The events a run in local state s has still to append, as far as it knows.
Queue(s) == {s.todo[k] : k \in DOMAIN s.todo} \cup s.receipts \cup s.failures

\* They belong to the thread of run r, and to its own turn or to one of the log's; only
\* its own turn is ever completed or cancelled.  A message is queued as the last one.
QueueOK(r, s, events) ==
    /\ \A e \in Queue(s) :
          /\ e.thread = s.thread
          /\ e.turn = r \/ \E f \in events : f.turn = e.turn
          /\ e.type \in {"turn_completed", "turn_cancelled"} => e.turn = r
    /\ s.pc = "append" /\ s.then \in Along =>
          \A k \in 1..Len(s.todo) - 1 : s.todo[k].type \notin Messages

\* How the transcript of a run relates to the one that the log gives.
ScriptOK(s, kept, script) ==
    /\ s.pc \in Along => kept = script
    /\ s.pc = "append" /\ s.then \in Along =>
          kept = IF s.todo[Len(s.todo)].type \in Messages
                 THEN Append(script, s.todo[Len(s.todo)]) ELSE script

\* The transcript that the log gives to a run in local state s.
Script(s) == TranscriptFromEvents(log, s.thread)

QueuesOK == \A r \in Runs : run[r].pc # "idle" => QueueOK(r, run[r], Records)
ScriptsOK == \A r \in Runs : run[r].pc # "idle" => ScriptOK(run[r], transcript[r], Script(run[r]))

\* The inductive invariant of TranscriptIsReplay, over IInv and GuardExact.
ScriptInv == DOMAIN transcript = Runs /\ QueuesOK /\ ScriptsOK

-----------------------------------------------------------------------------
(* What transcript_from_events gives for one event more.                   *)

\* Every set of numbers has a least one.
LEMMA LeastExists ==
    ASSUME NEW S, S \subseteq Nat, S # {}
    PROVE  \E x \in S : \A y \in S : x =< y
<1>1. PICK x \in S : \A y \in S : ~(<<y, x>> \in OpToRel(<, Nat))
  BY NatLessThanWellFounded, WFMin
<1>2. \A y \in S : ~(y < x)
  BY <1>1 DEF OpToRel
<1> QED
  BY <1>2

\* The message an event is for the thread, pushed on a transcript.
Pushed(script, e, th) ==
    IF e.thread = th /\ e.type \in Messages THEN Append(script, e) ELSE script

\* f is the table of the transcripts of the first events, up to n of them.
Table(f, n, events, th) ==
    f = [k \in 0..n |-> IF k = 0 THEN <<>> ELSE Pushed(f[k - 1], events[k], th)]

\* A table can be taken one event further.
LEMMA TableMore ==
    ASSUME NEW n \in Nat, NEW events, NEW th, NEW f, Table(f, n, events, th)
    PROVE  \E g : Table(g, n + 1, events, th)
<1> DEFINE new(k) == IF k = n + 1 THEN Pushed(f[n], events[n + 1], th) ELSE f[k]
           g == [k \in 0..n + 1 |-> new(k)]
           next(k) == IF k = 0 THEN <<>> ELSE Pushed(g[k - 1], events[k], th)
<1>1. ASSUME NEW k \in 0..n + 1 PROVE g[k] = next(k)
  <2>0. g[k] = new(k)
    BY <1>1
  <2>1. CASE k = 0
    <3>1. f[0] = <<>>
      BY DEF Table
    <3> QED
      BY <2>0, <2>1, <3>1
  <2>2. CASE k \in 1..n
    <3>1. k - 1 \in 0..n /\ k - 1 \in 0..n + 1 /\ k \in 0..n /\ k # 0 /\ k # n + 1 /\ k - 1 # n + 1
      BY <2>2
    <3>2. f[k] = Pushed(f[k - 1], events[k], th)
      BY <3>1 DEF Table
    <3>3. g[k - 1] = f[k - 1] /\ g[k] = f[k]
      BY <2>0, <3>1
    <3> HIDE DEF g
    <3> QED
      BY <3>1, <3>2, <3>3
  <2>3. CASE k = n + 1
    <3>1. k - 1 = n /\ n \in 0..n + 1 /\ n # n + 1 /\ k # 0
      BY <2>3
    <3>2. g[n] = f[n]
      BY <3>1
    <3> HIDE DEF g
    <3> QED
      BY <2>0, <2>3, <3>1, <3>2
  <2> QED
    BY <2>1, <2>2, <2>3
<1>2. g = [k \in 0..n + 1 |-> next(k)]
  <2>1. g = [k \in 0..n + 1 |-> g[k]]
    OBVIOUS
  <2> HIDE DEF g, next
  <2> QED
    BY <1>1, <2>1
<1> HIDE DEF g
<1> QED
  BY <1>2 DEF Table

\* There is a table for any number of events: a least one without would follow one with.
LEMMA TableExists ==
    ASSUME NEW events, NEW th, NEW n \in Nat
    PROVE  \E f : Table(f, n, events, th)
<1> DEFINE S == {k \in Nat : ~\E f : Table(f, k, events, th)}
<1>1. 0 \notin S
  <2> DEFINE f == [k \in 0..0 |-> <<>>]
  <2>1. f = [k \in 0..0 |-> IF k = 0 THEN <<>> ELSE Pushed(f[k - 1], events[k], th)]
    OBVIOUS
  <2> HIDE DEF f
  <2>2. Table(f, 0, events, th)
    BY <2>1 DEF Table
  <2> QED
    BY <2>2
<1>2. CASE n \in S
  <2>1. PICK m \in S : \A y \in S : m =< y
    BY <1>2, LeastExists
  <2>2. m \in Nat /\ m # 0 /\ m - 1 \in Nat /\ ~(m =< m - 1) /\ (m - 1) + 1 = m
    BY <1>1, <2>1
  <2>3. PICK f : Table(f, m - 1, events, th)
    BY <2>1, <2>2
  <2>4. \E g : Table(g, (m - 1) + 1, events, th)
    BY <2>2, <2>3, TableMore
  <2> QED
    BY <2>1, <2>2, <2>4
<1> QED
  BY <1>2

\* Tables agree where they say the same of the same events.
LEMMA TablesAgree ==
    ASSUME NEW n \in Nat, NEW m \in Nat, n =< m, NEW events, NEW more, NEW th, NEW f, NEW g,
           Table(f, n, events, th), Table(g, m, more, th),
           \A k \in 1..n : more[k] = events[k]
    PROVE  f[n] = g[n]
<1> DEFINE S == {k \in 0..n : f[k] # g[k]}
<1>1. 0 \notin S
  <2>1. f[0] = <<>> /\ g[0] = <<>>
    BY DEF Table
  <2> QED
    BY <2>1
<1>2. CASE S # {}
  <2>0. S \subseteq Nat
    OBVIOUS
  <2>1. PICK k \in S : \A y \in S : k =< y
    <3> HIDE DEF S
    <3> QED
      BY <1>2, <2>0, LeastExists
  <2>2. /\ k \in 0..n /\ k \in 0..m /\ k # 0 /\ k \in 1..n /\ k - 1 \in 0..n /\ ~(k =< k - 1)
    BY <1>1, <2>1
  <2>3. f[k - 1] = g[k - 1]
    BY <2>1, <2>2
  <2>4. f[k] = Pushed(f[k - 1], events[k], th)
    BY <2>2 DEF Table
  <2>5. g[k] = Pushed(g[k - 1], more[k], th)
    BY <2>2 DEF Table
  <2> QED
    BY <2>1, <2>2, <2>3, <2>4, <2>5
<1> QED
  BY <1>2

\* transcript_from_events, by its table.
LEMMA ScriptTable ==
    ASSUME NEW events, NEW th, Len(events) \in Nat
    PROVE  \E f : /\ Table(f, Len(events), events, th)
                  /\ TranscriptFromEvents(events, th) = f[Len(events)]
<1> DEFINE f == CHOOSE h : Table(h, Len(events), events, th)
<1>1. Table(f, Len(events), events, th)
  BY TableExists
<1>2. TranscriptFromEvents(events, th) = f[Len(events)]
  BY DEF TranscriptFromEvents, Table, Pushed, Messages
<1> HIDE DEF f
<1> QED
  BY <1>1, <1>2

\* One event more is pushed, if it is a message of the thread.
LEMMA ScriptAppend ==
    ASSUME NEW S, NEW events \in Seq(S), NEW e \in S, NEW th
    PROVE  TranscriptFromEvents(Append(events, e), th)
              = Pushed(TranscriptFromEvents(events, th), e, th)
<1> DEFINE more == Append(events, e)
           N == Len(events)
<1>1. /\ N \in Nat /\ Len(more) = N + 1 /\ more[N + 1] = e
      /\ \A k \in 1..N : more[k] = events[k]
  OBVIOUS
<1> HIDE DEF more, N
<1>2. PICK f : Table(f, N, events, th) /\ TranscriptFromEvents(events, th) = f[N]
  BY <1>1, ScriptTable DEF N
<1>3. PICK g : Table(g, N + 1, more, th) /\ TranscriptFromEvents(more, th) = g[N + 1]
  BY <1>1, ScriptTable
<1>4. f[N] = g[N]
  BY <1>1, <1>2, <1>3, TablesAgree
<1>5. g[N + 1] = Pushed(g[N], more[N + 1], th)
  BY <1>1, <1>3 DEF Table
<1> QED
  BY <1>1, <1>2, <1>3, <1>4, <1>5 DEF more
-----------------------------------------------------------------------------
(* The steps of a run, by what they do to its queue and its transcript.    *)

\* A run goes on in state n, without the store.
LEMMA MoveScript ==
    ASSUME IInv, ScriptInv, NEW r \in Runs, NEW n, run' = [run EXCEPT ![r] = n],
           UNCHANGED storeVars, DOMAIN transcript' = Runs,
           \A q \in Runs : q # r => transcript'[q] = transcript[q],
           n.pc # "idle" => QueueOK(r, n, Records) /\ ScriptOK(n, transcript'[r], Script(n))
    PROVE  ScriptInv'
<1>1. Records' = Records /\ \A s : TranscriptFromEvents(log', s.thread) = Script(s)
  BY DEF Records, storeVars, Script
<1>2. run \in [Runs -> RunStates]
  BY DEF IInv, TypeOK
<1>3. ASSUME NEW q \in Runs, run'[q].pc # "idle"
      PROVE  /\ QueueOK(q, run'[q], Records)
             /\ ScriptOK(run'[q], transcript'[q], Script(run'[q]))
  <2>1. CASE q = r
    BY <1>2, <1>3, <2>1
  <2>2. CASE q # r
    BY <1>2, <1>3, <2>2 DEF ScriptInv, QueuesOK, ScriptsOK
  <2> QED
    BY <2>1, <2>2
<1> QED
  BY <1>1, <1>3 DEF ScriptInv, QueuesOK, ScriptsOK, Script

\* Events of turn t on thread th.
Own(t, th, events) == \A k \in DOMAIN events : events[k].thread = th /\ events[k].turn = t

\* A run queues events of its own and returns, or takes up its transcript later.
LEMMA OwnQueue ==
    ASSUME NEW r, NEW s, NEW n, NEW events, QueueOK(r, s, events),
           n.thread = s.thread, n.receipts = s.receipts, n.failures = s.failures,
           Own(r, s.thread, n.todo),
           n.pc = "append" /\ n.then \in Along =>
              \A k \in 1..Len(n.todo) - 1 : n.todo[k].type \notin Messages
    PROVE  QueueOK(r, n, events)
<1>1. ASSUME NEW e \in Queue(n)
      PROVE  /\ e.thread = n.thread
             /\ e.turn = r \/ \E f \in events : f.turn = e.turn
             /\ e.type \in {"turn_completed", "turn_cancelled"} => e.turn = r
  <2>1. CASE e \in {n.todo[k] : k \in DOMAIN n.todo}
    BY <2>1 DEF Own
  <2>2. CASE e \in s.receipts \cup s.failures
    BY <2>2 DEF QueueOK, Queue
  <2> QED
    BY <1>1, <2>1, <2>2 DEF Queue
<1> QED
  BY <1>1 DEF QueueOK

\* What the invariant says of a turn that has a transcript.
LEMMA ScriptFacts ==
    ASSUME IInv, ScriptInv, NEW t \in Turns, run[t].pc \in Along
    PROVE  /\ t \in Runs /\ run[t] \in RunStates /\ run[t].pc # "idle"
           /\ run[t].thread \in Threads
           /\ QueueOK(t, run[t], Records)
           /\ transcript[t] = Script(run[t])
           /\ DOMAIN transcript = Runs
<1>1. run[t].pc # "idle" /\ t \in Runs
  BY DEF Along, Labels, Runs
<1> QED
  BY <1>1, TurnFacts DEF ScriptInv, QueuesOK, ScriptsOK, ScriptOK

\* A turn goes on without an event.
LEMMA QuietScript ==
    ASSUME IInv, ScriptInv, NEW t \in Turns, run[t].pc \in Along, NEW n,
           run' = [run EXCEPT ![t] = n], UNCHANGED <<storeVars, transcript>>,
           n.pc \in Along, n.thread = run[t].thread, n.todo = run[t].todo,
           n.receipts = run[t].receipts, n.failures = run[t].failures
    PROVE  ScriptInv'
<1>1. /\ t \in Runs /\ QueueOK(t, run[t], Records) /\ transcript[t] = Script(run[t])
      /\ DOMAIN transcript = Runs
  BY ScriptFacts
<1>2. n.pc # "append"
  BY DEF Along, Labels
<1>3. QueueOK(t, n, Records)
  BY <1>1, <1>2 DEF QueueOK, Queue
<1>4. ScriptOK(n, transcript'[t], Script(n))
  BY <1>1, <1>2 DEF ScriptOK, Script
<1> QED
  BY <1>1, <1>3, <1>4, MoveScript

\* A turn queues events of its own, and returns when they are written.
LEMMA EndScript ==
    ASSUME IInv, ScriptInv, NEW t \in Turns, run[t].pc \in Along, NEW events,
           EndTurn(t, events), Own(t, run[t].thread, events)
    PROVE  ScriptInv'
<1> DEFINE n == Emit(run[t], events, "return")
<1>1. /\ t \in Runs /\ run[t] \in RunStates /\ QueueOK(t, run[t], Records)
      /\ DOMAIN transcript = Runs
  BY ScriptFacts
<1>2. /\ n.pc = "append" /\ n.then = "return" /\ n.todo = events /\ n.thread = run[t].thread
      /\ n.receipts = run[t].receipts /\ n.failures = run[t].failures
  BY <1>1, EmitShape
<1>3. run' = [run EXCEPT ![t] = n] /\ UNCHANGED <<storeVars, transcript>>
  BY DEF EndTurn, Step
<1> HIDE DEF n
<1>4. "return" \notin Along /\ "append" \notin Along
  BY DEF Along, Labels
<1>5. QueueOK(t, n, Records)
  BY <1>1, <1>2, <1>4, OwnQueue
<1>6. ScriptOK(n, transcript'[t], Script(n))
  BY <1>2, <1>4 DEF ScriptOK
<1> QED
  BY <1>1, <1>3, <1>5, <1>6, MoveScript

\* A turn queues events of its own that are no messages, and goes on.
LEMMA EmitScript ==
    ASSUME IInv, ScriptInv, NEW t \in Turns, run[t].pc \in Along, NEW n,
           run' = [run EXCEPT ![t] = n], UNCHANGED <<storeVars, transcript>>,
           n.pc = "append", n.thread = run[t].thread,
           n.receipts = run[t].receipts, n.failures = run[t].failures,
           n.todo \in Seq(Events), n.todo # <<>>, Own(t, run[t].thread, n.todo),
           \A k \in DOMAIN n.todo : n.todo[k].type \notin Messages
    PROVE  ScriptInv'
<1>1. /\ t \in Runs /\ run[t] \in RunStates /\ QueueOK(t, run[t], Records)
      /\ DOMAIN transcript = Runs /\ transcript[t] = Script(run[t])
  BY ScriptFacts
<1>2. "append" \notin Along
  BY DEF Along, Labels
<1>3. /\ Len(n.todo) \in DOMAIN n.todo
      /\ \A k \in 1..Len(n.todo) - 1 : k \in DOMAIN n.todo
  OBVIOUS
<1>4. QueueOK(t, n, Records)
  BY <1>1, <1>3, OwnQueue
<1>5. ScriptOK(n, transcript'[t], Script(n))
  BY <1>1, <1>2, <1>3 DEF ScriptOK, Script
<1> QED
  BY <1>1, <1>4, <1>5, MoveScript

\* A turn queues events of its own, the last of which is a message that it pushes on
\* its transcript at once.
LEMMA PushScript ==
    ASSUME IInv, ScriptInv, NEW t \in Turns, run[t].pc \in Along, NEW n,
           run' = [run EXCEPT ![t] = n], UNCHANGED storeVars,
           n.pc = "append", n.thread = run[t].thread,
           n.receipts = run[t].receipts, n.failures = run[t].failures,
           Own(t, run[t].thread, n.todo),
           \A k \in 1..Len(n.todo) - 1 : n.todo[k].type \notin Messages,
           n.todo[Len(n.todo)].type \in Messages,
           transcript' = [transcript EXCEPT ![t] = Append(@, n.todo[Len(n.todo)])]
    PROVE  ScriptInv'
<1>1. /\ t \in Runs /\ run[t] \in RunStates /\ QueueOK(t, run[t], Records)
      /\ DOMAIN transcript = Runs /\ transcript[t] = Script(run[t])
  BY ScriptFacts
<1>2. "append" \notin Along
  BY DEF Along, Labels
<1>3. QueueOK(t, n, Records)
  BY <1>1, OwnQueue
<1>4. /\ transcript'[t] = Append(Script(run[t]), n.todo[Len(n.todo)])
      /\ DOMAIN transcript' = Runs
      /\ \A q \in Runs : q # t => transcript'[q] = transcript[q]
  BY <1>1
<1>5. ScriptOK(n, transcript'[t], Script(n))
  BY <1>2, <1>4 DEF ScriptOK, Script
<1> QED
  BY <1>1, <1>3, <1>4, <1>5, MoveScript
-----------------------------------------------------------------------------
(* The steps of run_turn keep the transcript.                              *)

\* The events a turn makes are its own, and which of them are messages.
LEMMA OwnEvents ==
    ASSUME NEW t
    PROVE  /\ \A type : /\ TurnOf(type, t).thread = run[t].thread
                        /\ TurnOf(type, t).turn = t /\ TurnOf(type, t).type = type
           /\ \A type, data : /\ CallEvent(type, t, data).thread = run[t].thread
                              /\ CallEvent(type, t, data).turn = t
                              /\ CallEvent(type, t, data).type = type
           /\ \A how, action : /\ CallReceipt(t, how, action).thread = run[t].thread
                               /\ CallReceipt(t, how, action).turn = t
                               /\ CallReceipt(t, how, action).type = "receipt"
BY DEF TurnOf, TurnEvent, CallEvent, CallReceipt, Receipt, Event

\* Load: the transcript is what the log gives.
LEMMA LoadScript ==
    ASSUME IInv, ScriptInv, NEW t \in Turns, Load(t)
    PROVE  ScriptInv'
<1> DEFINE n == [run[t] EXCEPT !.pc = "loop"]
<1>1. /\ t \in Runs /\ run[t] \in RunStates /\ run[t].pc = "load"
      /\ QueueOK(t, run[t], Records) /\ DOMAIN transcript = Runs
  <2>1. run[t].pc = "load" /\ run[t].pc # "idle"
    BY DEF Load
  <2> QED
    BY <2>1, TurnFacts DEF ScriptInv, QueuesOK
<1>2. /\ n.pc = "loop" /\ n.thread = run[t].thread /\ n.todo = run[t].todo
      /\ n.receipts = run[t].receipts /\ n.failures = run[t].failures
  BY <1>1 DEF RunStates
<1>3. /\ run' = [run EXCEPT ![t] = n] /\ UNCHANGED storeVars
      /\ transcript' = [transcript EXCEPT ![t] = Script(run[t])]
  BY <1>1 DEF Load, Script
<1> HIDE DEF n
<1>4. QueueOK(t, n, Records)
  BY <1>1, <1>2 DEF QueueOK, Queue
<1>5. transcript'[t] = Script(n)
  BY <1>1, <1>2, <1>3 DEF Script
<1>6. ScriptOK(n, transcript'[t], Script(n))
  BY <1>2, <1>5 DEF ScriptOK
<1>7. /\ DOMAIN transcript' = Runs
      /\ \A q \in Runs : q # t => transcript'[q] = transcript[q]
  BY <1>1, <1>3
<1> QED
  BY <1>1, <1>3, <1>4, <1>6, <1>7, MoveScript

\* A turn emits events that are no messages.
LEMMA EmittedScript ==
    ASSUME IInv, ScriptInv, NEW t \in Turns, run[t].pc \in Along,
           NEW events \in Seq(Events), NEW then, events # <<>>,
           Step(t, Emit(run[t], events, then)), Own(t, run[t].thread, events),
           \A k \in DOMAIN events : events[k].type \notin Messages
    PROVE  ScriptInv'
<1> DEFINE n == Emit(run[t], events, then)
<1>1. run[t] \in RunStates
  BY ScriptFacts
<1>2. /\ n.pc = "append" /\ n.todo = events /\ n.thread = run[t].thread
      /\ n.receipts = run[t].receipts /\ n.failures = run[t].failures
  BY <1>1, EmitShape
<1>3. run' = [run EXCEPT ![t] = n] /\ UNCHANGED <<storeVars, transcript>>
  BY DEF Step
<1> HIDE DEF n
<1> QED
  BY <1>2, <1>3, EmitScript

\* The steps up to the answer of the model.
LEMMA LoopScript ==
    ASSUME IInv, ScriptInv, NEW t \in Turns, Loop(t) \/ ModelError(t)
    PROVE  ScriptInv'
<1>0. run[t].pc \in Along
  BY DEF Loop, ModelError, Along, Labels
<1>1. run[t].thread \in Threads
  BY <1>0, ScriptFacts
<1> DEFINE asked == <<TurnOf("context", t), TurnOf("request", t)>>
<1>2. CASE \E type : EndTurn(t, <<TurnOf(type, t)>>)
  <2>1. PICK type : EndTurn(t, <<TurnOf(type, t)>>)
    BY <1>2
  <2>2. Own(t, run[t].thread, <<TurnOf(type, t)>>)
    BY OwnEvents DEF Own
  <2> QED
    BY <1>0, <2>1, <2>2, EndScript
<1>3. CASE EndTurn(t, <<TurnOf("hook_failed", t), TurnOf("turn_failed", t)>>)
  <2>1. Own(t, run[t].thread, <<TurnOf("hook_failed", t), TurnOf("turn_failed", t)>>)
    BY OwnEvents DEF Own
  <2> QED
    BY <1>0, <1>3, <2>1, EndScript
<1>4. CASE Step(t, Emit(run[t], asked, "model"))
  <2>1. TurnOf("context", t) \in Events /\ TurnOf("request", t) \in Events
    BY <1>1, TurnEventType DEF TurnOf, Events
  <2>2. /\ Own(t, run[t].thread, asked) /\ asked \in Seq(Events) /\ asked # <<>>
        /\ \A k \in DOMAIN asked : asked[k].type \notin Messages
    <3>1. Own(t, run[t].thread, asked)
      BY OwnEvents DEF Own
    <3>2. \A k \in DOMAIN asked : asked[k].type \notin Messages
      <4>1. \A k \in DOMAIN asked : asked[k] \in {TurnOf("context", t), TurnOf("request", t)}
        OBVIOUS
      <4>2. TurnOf("context", t).type = "context" /\ TurnOf("request", t).type = "request"
        BY DEF TurnOf, TurnEvent, Event
      <4> HIDE DEF asked
      <4> QED
        BY <4>1, <4>2 DEF Messages
    <3> QED
      BY <2>1, <3>1, <3>2
  <2> HIDE DEF asked
  <2> QED
    BY <1>0, <1>4, <2>2, EmittedScript
<1> QED
  BY <1>2, <1>3, <1>4 DEF Loop, ModelError

\* The model's message joins the transcript and the queue.
LEMMA ModelResponseScript ==
    ASSUME IInv, ScriptInv, NEW t \in Turns, NEW calls \in Responses, NEW stop \in StopReasons,
           ModelResponse(t, calls, stop)
    PROVE  ScriptInv'
<1> DEFINE message == AssistantMessage(run[t].thread, t, calls)
           e == Emit(run[t], <<message>>, "decide")
           n == [e EXCEPT !.calls = calls, !.stop = stop,
                          !.seen = @ \cup {calls[i].id : i \in DOMAIN calls}]
<1>1. run[t].pc \in Along
  BY DEF ModelResponse, Along, Labels
<1>2. run[t] \in RunStates
  BY <1>1, ScriptFacts
<1>3. CASE EndTurn(t, <<TurnOf("turn_failed", t)>>)
  <2>1. Own(t, run[t].thread, <<TurnOf("turn_failed", t)>>)
    BY OwnEvents DEF Own
  <2> QED
    BY <1>1, <1>3, <2>1, EndScript
<1>4. CASE StepPush(t, n, message)
  <2>1. /\ message.thread = run[t].thread /\ message.turn = t /\ message.type = "assistant"
    BY DEF AssistantMessage, Event
  <2> HIDE DEF message
  <2>2. /\ n.pc = "append" /\ n.todo = <<message>> /\ n.thread = run[t].thread
        /\ n.receipts = run[t].receipts /\ n.failures = run[t].failures
    BY <1>2 DEF Emit, RunStates
  <2> HIDE DEF n
  <2>3. /\ Own(t, run[t].thread, n.todo) /\ n.todo[Len(n.todo)] = message
        /\ \A k \in 1..Len(n.todo) - 1 : n.todo[k].type \notin Messages
        /\ message.type \in Messages
    BY <2>1, <2>2 DEF Own, Messages
  <2>4. /\ run' = [run EXCEPT ![t] = n] /\ UNCHANGED storeVars
        /\ transcript' = [transcript EXCEPT ![t] = Append(@, message)]
    BY <1>4 DEF StepPush
  <2> QED
    BY <1>1, <2>2, <2>3, <2>4, PushScript
<1> QED
  BY <1>3, <1>4 DEF ModelResponse

\* The turn ends with the calls that are left denied.
LEMMA EndDeniedScript ==
    ASSUME IInv, ScriptInv, NEW t \in Turns, run[t].pc \in Along, NEW calls \in Seq(ToolCall),
           NEW type, EndTurn(t, Append(Denied(run[t].thread, t, calls), TurnOf(type, t)))
    PROVE  ScriptInv'
<1> DEFINE denied == Denied(run[t].thread, t, calls)
           last == TurnOf(type, t)
<1>1. last.thread = run[t].thread /\ last.turn = t
  BY OwnEvents
<1>2. /\ DOMAIN denied = 1..Len(calls) /\ Len(denied) = Len(calls) /\ Len(calls) \in Nat
      /\ \A k \in 1..Len(calls) : denied[k].thread = run[t].thread /\ denied[k].turn = t
      /\ denied \in Seq(Events)
  <2>1. run[t].thread \in Threads
    BY ScriptFacts
  <2>2. denied \in Seq(Events)
    BY <2>1, DeniedType
  <2>3. denied = [i \in 1..Len(calls) |-> Receipt(run[t].thread, t, calls[i].id, "denied", None)]
    BY DEF Denied
  <2>4. \A c : /\ Receipt(run[t].thread, t, c, "denied", None).thread = run[t].thread
               /\ Receipt(run[t].thread, t, c, "denied", None).turn = t
    BY DEF Receipt, Event
  <2> HIDE DEF denied
  <2> QED
    BY <2>2, <2>3, <2>4
<1> HIDE DEF denied, last
<1>3. ASSUME NEW k \in DOMAIN Append(denied, last)
      PROVE  /\ Append(denied, last)[k].thread = run[t].thread
             /\ Append(denied, last)[k].turn = t
  <2>1. k \in 1..Len(calls) \/ k = Len(calls) + 1
    BY <1>2, <1>3
  <2>2. CASE k \in 1..Len(calls)
    BY <1>2, <2>2
  <2>3. CASE k = Len(calls) + 1
    BY <1>1, <1>2, <2>3
  <2> QED
    BY <2>1, <2>2, <2>3
<1>4. Own(t, run[t].thread, Append(denied, last))
  BY <1>3 DEF Own
<1> QED
  BY <1>4, EndScript DEF denied, last
\* The decision about an accepted response.
LEMMA DecideScript ==
    ASSUME IInv, ScriptInv, NEW t \in Turns, Decide(t)
    PROVE  ScriptInv'
<1> DEFINE n == [run[t] EXCEPT !.pc = "call", !.stop = None, !.index = 1]
<1>1. run[t].pc \in Along
  BY DEF Decide, Along, Labels
<1>2. run[t] \in RunStates /\ run[t].calls \in Seq(ToolCall)
  BY <1>1, ScriptFacts DEF RunStates
<1>3. CASE \E type : EndTurn(t, Append(Denied(run[t].thread, t, run[t].calls), TurnOf(type, t)))
  BY <1>1, <1>2, <1>3, EndDeniedScript
<1>4. CASE EndTurn(t, <<TurnOf("turn_completed", t)>>)
  <2>1. Own(t, run[t].thread, <<TurnOf("turn_completed", t)>>)
    BY OwnEvents DEF Own
  <2> QED
    BY <1>1, <1>4, <2>1, EndScript
<1>5. CASE Step(t, n)
  <2>1. /\ n.pc = "call" /\ n.thread = run[t].thread /\ n.todo = run[t].todo
        /\ n.receipts = run[t].receipts /\ n.failures = run[t].failures
    BY <1>2 DEF RunStates
  <2> HIDE DEF n
  <2>2. n.pc \in Along
    BY <2>1 DEF Along, Labels
  <2> QED
    BY <1>1, <1>5, <2>1, <2>2, QuietScript DEF Step
<1> QED
  BY <1>3, <1>4, <1>5 DEF Decide

\* The next call, the next iteration, or the end of a cancelled turn.
LEMMA NextCallScript ==
    ASSUME IInv, ScriptInv, NEW t \in Turns, NextCall(t)
    PROVE  ScriptInv'
<1> DEFINE loop == [run[t] EXCEPT !.pc = "loop", !.iteration = @ + 1, !.calls = <<>>, !.index = 1]
           handle == [run[t] EXCEPT !.pc = "handle"]
           rest == SubSeq(run[t].calls, run[t].index, Len(run[t].calls))
<1>1. run[t].pc \in Along
  BY DEF NextCall, Along, Labels
<1>2. run[t] \in RunStates /\ run[t].calls \in Seq(ToolCall) /\ run[t].index \in Nat \ {0}
  BY <1>1, ScriptFacts DEF RunStates
<1>3. CASE EndTurn(t, Append(Denied(run[t].thread, t, rest), TurnOf("turn_cancelled", t)))
  <2>1. rest \in Seq(ToolCall)
    BY <1>2
  <2> HIDE DEF rest
  <2> QED
    BY <1>1, <1>3, <2>1, EndDeniedScript
<1>4. ASSUME NEW n, n = loop \/ n = handle, Step(t, n) PROVE ScriptInv'
  <2>1. /\ n.pc \in {"loop", "handle"} /\ n.thread = run[t].thread /\ n.todo = run[t].todo
        /\ n.receipts = run[t].receipts /\ n.failures = run[t].failures
    BY <1>2, <1>4 DEF RunStates
  <2>2. n.pc \in Along
    BY <2>1 DEF Along, Labels
  <2> QED
    BY <1>1, <1>4, <2>1, <2>2, QuietScript DEF Step
<1> QED
  BY <1>3, <1>4 DEF NextCall

\* handle_tool_call returns with a receipt, which it pushes on the transcript.
LEMMA CloseCallScript ==
    ASSUME IInv, ScriptInv, NEW t \in Turns, run[t].pc \in Along,
           NEW how, NEW action, NEW e, e.thread = run[t].thread, e.turn = t, e.type \notin Messages,
           \/ CloseCall(t, <<CallReceipt(t, how, action)>>)
           \/ CloseCall(t, <<e, CallReceipt(t, how, action)>>)
    PROVE  ScriptInv'
<1> DEFINE receipt == CallReceipt(t, how, action)
<1>1. receipt.thread = run[t].thread /\ receipt.turn = t /\ receipt.type \in Messages
  BY OwnEvents DEF Messages
<1> HIDE DEF receipt
<1>2. run[t] \in RunStates
  BY ScriptFacts
<1>3. ASSUME NEW events, CloseCall(t, events), Own(t, run[t].thread, events),
             events[Len(events)].type \in Messages,
             \A k \in 1..Len(events) - 1 : events[k].type \notin Messages
      PROVE  ScriptInv'
  <2> DEFINE n == [Emit(run[t], events, "call") EXCEPT !.action = None, !.index = @ + 1]
  <2>1. /\ n.pc = "append" /\ n.todo = events /\ n.thread = run[t].thread
        /\ n.receipts = run[t].receipts /\ n.failures = run[t].failures
    BY <1>2 DEF Emit, RunStates
  <2>2. /\ run' = [run EXCEPT ![t] = n] /\ UNCHANGED storeVars
        /\ transcript' = [transcript EXCEPT ![t] = Append(@, events[Len(events)])]
    BY <1>3 DEF CloseCall, StepPush
  <2> HIDE DEF n
  <2> QED
    BY <1>3, <2>1, <2>2, PushScript
<1>4. CASE CloseCall(t, <<receipt>>)
  <2> DEFINE events == <<receipt>>
  <2>1. Len(events) = 1 /\ events[1] = receipt /\ DOMAIN events = 1..1
    OBVIOUS
  <2> HIDE DEF events
  <2>2. Own(t, run[t].thread, events)
    BY <1>1, <2>1 DEF Own
  <2>3. CloseCall(t, events)
    BY <1>4 DEF events
  <2>4. /\ events[Len(events)].type \in Messages
        /\ \A k \in 1..Len(events) - 1 : events[k].type \notin Messages
    BY <1>1, <2>1
  <2> QED
    BY <1>3, <2>2, <2>3, <2>4
<1>5. CASE CloseCall(t, <<e, receipt>>)
  <2> DEFINE events == <<e, receipt>>
  <2>1. Len(events) = 2 /\ events[1] = e /\ events[2] = receipt /\ DOMAIN events = 1..2
    OBVIOUS
  <2> HIDE DEF events
  <2>2. Own(t, run[t].thread, events)
    BY <1>1, <2>1 DEF Own
  <2>3. CloseCall(t, events)
    BY <1>5 DEF events
  <2>4. /\ events[Len(events)].type \in Messages
        /\ \A k \in 1..Len(events) - 1 : events[k].type \notin Messages
    <3>1. \A k \in 1..Len(events) - 1 : k = 1
      BY <2>1
    <3> QED
      BY <1>1, <2>1, <3>1
  <2> QED
    BY <1>3, <2>2, <2>3, <2>4
<1> QED
  BY <1>4, <1>5 DEF receipt

\* The steps of handle_tool_call up to the executor.
LEMMA HandleScript ==
    ASSUME IInv, ScriptInv, NEW t \in Turns,
           \/ Prepare(t) \/ Gate(t)
           \/ \E decision \in Decisions : Approval(t, decision)
    PROVE  ScriptInv'
<1>1. /\ run[t].pc \in Along /\ run[t].pc \in Handling /\ run[t].pc # "idle"
      /\ At(run[t]) = run[t].pc
  BY DEF Prepare, Gate, Approval, Along, Labels, Handling, At
<1>2. run[t] \in RunStates /\ run[t].thread \in Threads
  BY <1>1, ScriptFacts
<1>3. ASSUME NEW type \in {"hook_failed", "prepared", "approval_requested", "approval_resolved", "started"}
      PROVE  type \notin Messages
  BY DEF Messages
<1>4. ASSUME NEW how, NEW action, CloseCall(t, <<CallReceipt(t, how, action)>>)
      PROVE  ScriptInv'
  <2>1. /\ TurnOf("hook_failed", t).thread = run[t].thread /\ TurnOf("hook_failed", t).turn = t
        /\ TurnOf("hook_failed", t).type \notin Messages
    BY <1>3, OwnEvents
  <2> QED
    BY <1>1, <1>4, <2>1, CloseCallScript
<1>5. ASSUME NEW e \in Events, NEW then, NEW action, e.thread = run[t].thread, e.turn = t, e.type \notin Messages,
             \/ Step(t, Emit(run[t], <<e>>, then))
             \/ Step(t, [Emit(run[t], <<e>>, then) EXCEPT !.action = action])
      PROVE  ScriptInv'
  <2>1. PICK n : /\ n = Emit(run[t], <<e>>, then)
                    \/ n = [Emit(run[t], <<e>>, then) EXCEPT !.action = action]
                 /\ Step(t, n)
    BY <1>5
  <2>2. /\ n.pc = "append" /\ n.todo = <<e>> /\ n.thread = run[t].thread
        /\ n.receipts = run[t].receipts /\ n.failures = run[t].failures
    BY <1>2, <2>1 DEF Emit, RunStates
  <2>3. /\ n.todo \in Seq(Events) /\ n.todo # <<>>
        /\ \A k \in DOMAIN n.todo : n.todo[k] = e
    BY <2>2
  <2>4. Own(t, run[t].thread, n.todo) /\ \A k \in DOMAIN n.todo : n.todo[k].type \notin Messages
    BY <1>5, <2>3 DEF Own
  <2> QED
    BY <1>1, <2>1, <2>2, <2>3, <2>4, EmitScript DEF Step
<1>6. CASE Prepare(t)
  <2>1. ASSUME NEW arg \in Args
        PROVE  CallEvent("prepared", t, [tool |-> Current(t).name, arg |-> arg]) \in Events
    <3>1. run[t].pc = "handle" /\ run[t].index \in DOMAIN run[t].calls
      BY <1>1, <1>6, TurnFacts DEF Prepare, RunOK
    <3>2. Current(t) \in ToolCall
      BY <1>2, <3>1 DEF Current, RunStates
    <3>3. [tool |-> Current(t).name, arg |-> arg] \in CanonicalAction
      BY <3>2 DEF ToolCall, CanonicalAction
    <3> QED
      BY <1>2, <3>2, <3>3 DEF CallEvent, Event, Events, ActionEvents, ToolCall
  <2>2. \A data : /\ CallEvent("prepared", t, data).thread = run[t].thread
                  /\ CallEvent("prepared", t, data).turn = t
                  /\ CallEvent("prepared", t, data).type \notin Messages
    <3>1. \A data : CallEvent("prepared", t, data).type = "prepared"
      BY DEF CallEvent, Event
    <3> QED
      BY <1>3, <3>1, OwnEvents
  <2> QED
    BY <1>4, <1>5, <1>6, <2>1, <2>2 DEF Prepare
<1>7. CASE Gate(t) \/ \E decision \in Decisions : Approval(t, decision)
  <2>0. At(run[t]) \in Prepared
    BY <1>1, <1>7 DEF Gate, Approval, Prepared
  <2>1. /\ CallEvent("approval_requested", t, run[t].action) \in Events
        /\ CallEvent("started", t, run[t].action) \in Events
        /\ \A decision \in Decisions : CallEvent("approval_resolved", t, decision) \in Events
    BY <1>1, <2>0, CallEventType DEF Decisions
  <2>2. /\ \A type, data : /\ CallEvent(type, t, data).thread = run[t].thread
                           /\ CallEvent(type, t, data).turn = t
                           /\ CallEvent(type, t, data).type = type
        /\ TurnOf("hook_failed", t).thread = run[t].thread
        /\ TurnOf("hook_failed", t).turn = t /\ TurnOf("hook_failed", t).type = "hook_failed"
    BY OwnEvents
  <2>3. ASSUME NEW e, e.thread = run[t].thread, e.turn = t, e.type \notin Messages, NEW how, NEW action,
               CloseCall(t, <<e, CallReceipt(t, how, action)>>)
        PROVE  ScriptInv'
    BY <1>1, <2>3, CloseCallScript
  <2>4. CASE Gate(t)
    <3> DEFINE asked == CallEvent("approval_requested", t, run[t].action)
               started == CallEvent("started", t, run[t].action)
               hooked == TurnOf("hook_failed", t)
    <3>1. /\ asked \in Events /\ started \in Events
          /\ \A e \in {asked, started, hooked} :
                e.thread = run[t].thread /\ e.turn = t /\ e.type \notin Messages
      BY <1>3, <2>1, <2>2
    <3>2. \/ CloseCall(t, <<hooked, CallReceipt(t, "denied", run[t].action)>>)
          \/ Step(t, Emit(run[t], <<asked>>, "approval"))
          \/ Step(t, Emit(run[t], <<started>>, "execute"))
      BY <2>4 DEF Gate
    <3> HIDE DEF asked, started, hooked
    <3> QED
      BY <1>5, <2>3, <3>1, <3>2
  <2>5. ASSUME NEW decision \in Decisions, Approval(t, decision)
        PROVE  ScriptInv'
    <3> DEFINE resolved == CallEvent("approval_resolved", t, decision)
               started == CallEvent("started", t, run[t].action)
    <3>1. /\ resolved \in Events /\ resolved.type \notin Messages
          /\ resolved.thread = run[t].thread /\ resolved.turn = t
          /\ started \in Events /\ started.type \notin Messages
          /\ started.thread = run[t].thread /\ started.turn = t
      BY <1>3, <2>1, <2>2
    <3>2. \/ Step(t, Emit(run[t], <<resolved, started>>, "execute"))
          \/ CloseCall(t, <<resolved, CallReceipt(t, "denied", run[t].action)>>)
      BY <2>5 DEF Approval
    <3> HIDE DEF resolved, started
    <3>3. CASE Step(t, Emit(run[t], <<resolved, started>>, "execute"))
      <4> DEFINE events == <<resolved, started>>
      <4>1. /\ events \in Seq(Events) /\ events # <<>>
            /\ \A k \in DOMAIN events : events[k] \in {resolved, started}
        BY <3>1
      <4> HIDE DEF events
      <4>2. Own(t, run[t].thread, events) /\ \A k \in DOMAIN events : events[k].type \notin Messages
        BY <3>1, <4>1 DEF Own
      <4>3. Step(t, Emit(run[t], events, "execute"))
        BY <3>3 DEF events
      <4> QED
        BY <1>1, <4>1, <4>2, <4>3, EmittedScript
    <3> QED
      BY <2>3, <3>1, <3>2, <3>3
  <2> QED
    BY <1>7, <2>4, <2>5
<1> QED
  BY <1>6, <1>7

\* The executor's boundary and the hooks after it.
LEMMA ExecuteScript ==
    ASSUME IInv, ScriptInv, NEW t \in Turns,
           \/ Execute(t) \/ (\E how \in ExecutorAnswers : Executed(t, how)) \/ AfterTool(t)
    PROVE  ScriptInv'
<1>1. run[t].pc \in Along
  BY DEF Execute, Executed, AfterTool, Along, Labels
<1>2. run[t] \in RunStates
  BY <1>1, ScriptFacts
<1>3. ASSUME NEW n, \/ n = [run[t] EXCEPT !.pc = "running"]
                    \/ n = [run[t] EXCEPT !.pc = "call", !.action = None, !.index = @ + 1],
             run' = [run EXCEPT ![t] = n], UNCHANGED <<storeVars, transcript>>
      PROVE  ScriptInv'
  <2>1. /\ n.pc \in {"running", "call"} /\ n.thread = run[t].thread /\ n.todo = run[t].todo
        /\ n.receipts = run[t].receipts /\ n.failures = run[t].failures
    BY <1>2, <1>3 DEF RunStates
  <2>2. n.pc \in Along
    BY <2>1 DEF Along, Labels
  <2> QED
    BY <1>1, <1>3, <2>1, <2>2, QuietScript
<1>4. CASE Execute(t)
  BY <1>3, <1>4 DEF Execute
<1>5. ASSUME NEW how \in ExecutorAnswers, Executed(t, how) PROVE ScriptInv'
  <2> DEFINE receipt == CallReceipt(t, how, run[t].action)
             n == Emit(run[t], <<receipt>>, "after")
  <2>1. receipt.thread = run[t].thread /\ receipt.turn = t /\ receipt.type \in Messages
    BY OwnEvents DEF Messages
  <2>2. /\ run' = [run EXCEPT ![t] = n] /\ UNCHANGED storeVars
        /\ transcript' = [transcript EXCEPT ![t] = Append(@, receipt)]
    BY <1>5 DEF Executed
  <2> HIDE DEF receipt
  <2>3. /\ n.pc = "append" /\ n.todo = <<receipt>> /\ n.thread = run[t].thread
        /\ n.receipts = run[t].receipts /\ n.failures = run[t].failures
    BY <1>2, EmitShape
  <2> HIDE DEF n
  <2>4. Len(n.todo) = 1 /\ n.todo[1] = receipt /\ DOMAIN n.todo = 1..1
    BY <2>3
  <2>5. Own(t, run[t].thread, n.todo) /\ \A k \in 1..Len(n.todo) - 1 : n.todo[k].type \notin Messages
    BY <2>1, <2>4 DEF Own
  <2> QED
    BY <1>1, <2>1, <2>2, <2>3, <2>4, <2>5, PushScript
<1>6. CASE AfterTool(t)
  <2> DEFINE events == <<TurnOf("hook_failed", t), TurnOf("turn_failed", t)>>
  <2>1. Own(t, run[t].thread, events)
    BY OwnEvents DEF Own
  <2>2. EndTurn(t, events) \/ Step(t, [run[t] EXCEPT !.pc = "call", !.action = None, !.index = @ + 1])
    BY <1>6 DEF AfterTool
  <2> HIDE DEF events
  <2> QED
    BY <1>1, <1>3, <2>1, <2>2, EndScript DEF Step
<1> QED
  BY <1>4, <1>5, <1>6
-----------------------------------------------------------------------------
(* Recovery, appends and the steps of the process.                         *)

\* A run begins: what recovery queues comes from the log.
LEMMA AcquireScript ==
    ASSUME IInv, ScriptInv, NEW r \in Runs, NEW th \in Threads, Acquire(r, th)
    PROVE  ScriptInv'
<1> DEFINE n == [Idle EXCEPT !.pc = "recover", !.thread = th,
                             !.receipts = MissingReceipts(log, th),
                             !.failures = RecoveryFailures(log, th)]
<1>1. run' = [run EXCEPT ![r] = n] /\ UNCHANGED <<storeVars, transcript>>
  BY DEF Acquire
<1>2. /\ n.pc = "recover" /\ n.thread = th /\ n.todo = <<>>
      /\ n.receipts = MissingReceipts(log, th) /\ n.failures = RecoveryFailures(log, th)
  BY DEF Idle
<1> HIDE DEF n
<1>3. log \in Seq(Events)
  BY DEF IInv, TypeOK
<1>4. ASSUME NEW e \in MissingReceipts(log, th)
      PROVE  /\ e.thread = th /\ e.type = "receipt"
             /\ \E f \in Records : f.turn = e.turn
  <2>1. ASSUME NEW keys, NEW type, NEW how, e \in ReceiptsFor(log, th, keys, type, how)
        PROVE  \E f \in Records : f.turn = e.turn
    <3>1. PICK i \in Places(log, th, type) : e = Receipt(th, log[i].turn, log[i].call, how, log[i].data)
      BY <2>1 DEF ReceiptsFor
    <3>2. e.turn = log[i].turn /\ log[i] \in Records
      BY <3>1 DEF Receipt, Event, Places, Records
    <3> QED
      BY <3>2
  <2>2. ASSUME NEW key \in AcceptedKeys(log, th), e = Receipt(th, key[1], key[2], "failed", None)
        PROVE  \E f \in Records : f.turn = e.turn
    BY <2>2 DEF AcceptedKeys, Places, Records, Receipt, Event
  <2>3. \E f \in Records : f.turn = e.turn
    <3>1. \/ \E keys : e \in ReceiptsFor(log, th, keys, "started", "unknown")
          \/ \E keys : e \in ReceiptsFor(log, th, keys, "prepared", "failed")
          \/ \E key \in AcceptedKeys(log, th) : e = Receipt(th, key[1], key[2], "failed", None)
      BY <1>4 DEF MissingReceipts
    <3> QED
      BY <2>1, <2>2, <3>1
  <2>4. e \in ReceiptEvents /\ e.thread = th
    BY <1>3, <1>4, MissingFacts, MissingReceiptsType
  <2> QED
    BY <2>3, <2>4 DEF ReceiptEvents
<1>5. ASSUME NEW e \in RecoveryFailures(log, th)
      PROVE  /\ e.thread = th /\ e.type = "turn_failed"
             /\ \E f \in Records : f.turn = e.turn
  BY <1>5 DEF RecoveryFailures, OpenTurns, Places, Records, TurnEvent, Event
<1>6. QueueOK(r, n, Records)
  <2>1. Queue(n) = MissingReceipts(log, th) \cup RecoveryFailures(log, th)
    BY <1>2 DEF Queue
  <2> QED
    BY <1>2, <1>4, <1>5, <2>1 DEF QueueOK
<1>7. ScriptOK(n, transcript'[r], Script(n))
  BY <1>2 DEF ScriptOK, Along
<1>8. DOMAIN transcript' = Runs
  BY <1>1 DEF ScriptInv
<1> QED
  BY <1>1, <1>6, <1>7, <1>8, MoveScript

\* Recovery moves one event into the queue; a turn that is recovered starts.
LEMMA RecoverScript ==
    ASSUME IInv, ScriptInv, NEW r \in Runs, RecoverAppend(r) \/ (r \in Turns /\ Recovered(r))
    PROVE  ScriptInv'
<1>1. /\ run[r].pc = "recover" /\ run[r] \in RunStates
      /\ QueueOK(r, run[r], Records) /\ DOMAIN transcript = Runs
  <2>1. run[r].pc = "recover"
    BY DEF RecoverAppend, Recovered
  <2> QED
    BY <2>1 DEF ScriptInv, QueuesOK, IInv, TypeOK
<1>2. ASSUME NEW s \in RunStates, NEW events, NEW then \in {"recover", "load"},
             Step(r, Emit(s, events, then)), s.thread = run[r].thread,
             s.receipts \subseteq run[r].receipts, s.failures \subseteq run[r].failures,
             \A k \in DOMAIN events :
                \/ events[k] \in Queue(run[r])
                \/ events[k].thread = run[r].thread /\ events[k].turn = r
      PROVE  ScriptInv'
  <2> DEFINE n == Emit(s, events, then)
  <2>1. /\ n.pc = "append" /\ n.then = then /\ n.todo = events /\ n.thread = run[r].thread
        /\ n.receipts = s.receipts /\ n.failures = s.failures
    BY <1>2, EmitShape
  <2>2. run' = [run EXCEPT ![r] = n] /\ UNCHANGED <<storeVars, transcript>>
    BY <1>2 DEF Step
  <2> HIDE DEF n
  <2>3. then \notin Along /\ "append" \notin Along
    BY DEF Along, Labels
  <2>4. ASSUME NEW e \in Queue(n)
        PROVE  e \in Queue(run[r]) \/ (e.thread = run[r].thread /\ e.turn = r)
    BY <1>2, <2>1, <2>4 DEF Queue
  <2>5. QueueOK(r, n, Records)
    BY <1>1, <2>1, <2>3, <2>4 DEF QueueOK
  <2>6. ScriptOK(n, transcript'[r], Script(n))
    BY <2>1, <2>3 DEF ScriptOK
  <2> QED
    BY <1>1, <2>2, <2>5, <2>6, MoveScript
<1>3. ASSUME NEW e PROVE \A k \in DOMAIN <<e>> : <<e>>[k] = e
  OBVIOUS
<1>4. ASSUME NEW e \in run[r].receipts,
             Step(r, Emit([run[r] EXCEPT !.receipts = @ \ {e}], <<e>>, "recover"))
      PROVE  ScriptInv'
  <2> DEFINE s == [run[r] EXCEPT !.receipts = @ \ {e}]
  <2>1. /\ s \in RunStates /\ s.thread = run[r].thread
        /\ s.receipts \subseteq run[r].receipts /\ s.failures \subseteq run[r].failures
    BY <1>1 DEF RunStates
  <2>2. \A k \in DOMAIN <<e>> : <<e>>[k] \in Queue(run[r])
    BY <1>3 DEF Queue
  <2>3. Step(r, Emit(s, <<e>>, "recover"))
    BY <1>4
  <2> HIDE DEF s
  <2> QED
    BY <1>2, <2>1, <2>2, <2>3
<1>5. ASSUME NEW e \in run[r].failures,
             Step(r, Emit([run[r] EXCEPT !.failures = @ \ {e}], <<e>>, "recover"))
      PROVE  ScriptInv'
  <2> DEFINE s == [run[r] EXCEPT !.failures = @ \ {e}]
  <2>1. /\ s \in RunStates /\ s.thread = run[r].thread
        /\ s.receipts \subseteq run[r].receipts /\ s.failures \subseteq run[r].failures
    BY <1>1 DEF RunStates
  <2>2. \A k \in DOMAIN <<e>> : <<e>>[k] \in Queue(run[r])
    BY <1>3 DEF Queue
  <2>3. Step(r, Emit(s, <<e>>, "recover"))
    BY <1>5
  <2> HIDE DEF s
  <2> QED
    BY <1>2, <2>1, <2>2, <2>3
<1>6. CASE r \in Turns /\ Recovered(r)
  <2> DEFINE events == <<TurnOf("turn_started", r), TurnOf("user", r)>>
  <2>1. \A k \in DOMAIN events : events[k].thread = run[r].thread /\ events[k].turn = r
    BY OwnEvents
  <2>2. Step(r, Emit(run[r], events, "load"))
    BY <1>6 DEF Recovered
  <2> HIDE DEF events
  <2> QED
    BY <1>1, <1>2, <2>1, <2>2
<1> QED
  BY <1>4, <1>5, <1>6 DEF RecoverAppend

\* A run returns, and the log is what it was.
LEMMA LeaveScript ==
    ASSUME IInv, ScriptInv, NEW r \in Runs, Leave(r), UNCHANGED log
    PROVE  ScriptInv'
<1>1. /\ run' = [run EXCEPT ![r] = Idle] /\ DOMAIN transcript' = Runs
      /\ \A q \in Runs : q # r => transcript'[q] = transcript[q]
  BY DEF Leave, ScriptInv
<1>2. Idle.pc = "idle" /\ run \in [Runs -> RunStates]
  BY DEF Idle, IInv, TypeOK
<1>3. Records' = Records /\ \A s : TranscriptFromEvents(log', s.thread) = Script(s)
  BY DEF Records, Script
<1>4. ASSUME NEW q \in Runs, run'[q].pc # "idle"
      PROVE  /\ QueueOK(q, run'[q], Records)
             /\ ScriptOK(run'[q], transcript'[q], Script(run'[q]))
  <2>1. q # r /\ run'[q] = run[q]
    BY <1>1, <1>2, <1>4
  <2> QED
    BY <1>1, <1>4, <2>1 DEF ScriptInv, QueuesOK, ScriptsOK
<1> QED
  BY <1>1, <1>3, <1>4 DEF ScriptInv, QueuesOK, ScriptsOK, Script

\* More events in the log leave a queue as good as it was.
LEMMA QueueGrows ==
    ASSUME NEW r, NEW s, NEW events, NEW more, events \subseteq more, QueueOK(r, s, events)
    PROVE  QueueOK(r, s, more)
BY DEF QueueOK

\* One event more in the log, of a thread that only run r may hold.
LEMMA LogScript ==
    ASSUME IInv, ScriptInv, NEW e \in Events, log' = Append(log, e), NEW r,
           NEW n, run' = [run EXCEPT ![r] = n], DOMAIN transcript' = Runs,
           \A q \in Runs : q # r => transcript'[q] = transcript[q],
           \A q \in Runs : q # r /\ run[q].pc # "idle" =>
              e.thread # run[q].thread \/ e.type \notin Messages,
           n.pc # "idle" =>
              /\ QueueOK(r, n, Records)
              /\ ScriptOK(n, transcript'[r], Pushed(Script(n), e, n.thread))
    PROVE  ScriptInv'
<1>1. log \in Seq(Events) /\ run \in [Runs -> RunStates]
  BY DEF IInv, TypeOK
<1>2. \A th : TranscriptFromEvents(log', th) = Pushed(TranscriptFromEvents(log, th), e, th)
  BY <1>1, ScriptAppend
<1>3. Records \subseteq Records'
  BY <1>1 DEF Records
<1>4. ASSUME NEW q \in Runs, run'[q].pc # "idle"
      PROVE  /\ QueueOK(q, run'[q], Records')
             /\ ScriptOK(run'[q], transcript'[q], TranscriptFromEvents(log', run'[q].thread))
  <2>1. CASE q = r
    <3>1. run'[q] = n
      BY <1>1, <2>1
    <3> QED
      BY <1>2, <1>3, <1>4, <2>1, <3>1, QueueGrows DEF Script
  <2>2. CASE q # r
    <3>1. run'[q] = run[q]
      BY <1>1, <2>2
    <3>2. QueueOK(q, run[q], Records) /\ ScriptOK(run[q], transcript[q], Script(run[q]))
      BY <1>4, <3>1 DEF ScriptInv, QueuesOK, ScriptsOK
    <3>3. TranscriptFromEvents(log', run[q].thread) = Script(run[q])
      BY <1>2, <1>4, <2>2, <3>1 DEF Pushed, Script
    <3> QED
      BY <1>3, <2>2, <3>1, <3>2, <3>3, QueueGrows
  <2> QED
    BY <2>1, <2>2
<1> QED
  BY <1>4 DEF ScriptInv, QueuesOK, ScriptsOK, Script
\* append succeeded: the transcript is no longer ahead by this event.
LEMMA AppendOkScript ==
    ASSUME IInv, GuardExact, ScriptInv, NEW r \in Runs, AppendOk(r)
    PROVE  ScriptInv'
<1> DEFINE e == Head(run[r].todo)
           rest == Tail(run[r].todo)
           more == [run[r] EXCEPT !.todo = rest]
           next == [run[r] EXCEPT !.pc = run[r].then, !.then = None, !.todo = <<>>]
<1>1. /\ run[r].pc = "append" /\ run[r] \in RunStates
      /\ run[r].todo \in Seq(Events) /\ run[r].todo # <<>>
      /\ run[r].then \in Labels \cup {"return"}
      /\ log' = Append(log, e)
  <2>1. run[r].pc = "append" /\ log' = Append(log, e)
    BY DEF AppendOk, StoreAppend
  <2>2. run[r] \in RunStates /\ RunOK(r, run[r], DurableEvents)
    BY DEF IInv, TypeOK, RunsOK
  <2> QED
    BY <2>1, <2>2 DEF RunOK, RunStates
<1>2. /\ e \in Events /\ e = run[r].todo[1] /\ e \in Queue(run[r])
      /\ Len(run[r].todo) \in Nat \ {0} /\ 1 \in DOMAIN run[r].todo
      /\ rest \in Seq(Events) /\ Len(rest) = Len(run[r].todo) - 1
      /\ \A k \in 1..Len(rest) : rest[k] = run[r].todo[k + 1]
  <2>1. e \in Events /\ e = run[r].todo[1] /\ 1 \in DOMAIN run[r].todo
    BY <1>1
  <2>2. e \in Queue(run[r])
    BY <2>1 DEF Queue
  <2> QED
    BY <1>1, <2>1, <2>2
<1> HIDE DEF e, rest
<1>3. /\ QueueOK(r, run[r], Records) /\ ScriptOK(run[r], transcript[r], Script(run[r]))
      /\ DOMAIN transcript = Runs
  BY <1>1 DEF ScriptInv, QueuesOK, ScriptsOK
<1>4. e.thread = run[r].thread
  BY <1>2, <1>3 DEF QueueOK
<1>5. \A q \in Runs : q # r /\ run[q].pc # "idle" =>
         e.thread # run[q].thread \/ e.type \notin Messages
  BY <1>1, <1>4 DEF GuardExact
<1>6. CASE rest # <<>>
  <2>1. run' = [run EXCEPT ![r] = more] /\ UNCHANGED transcript
    BY <1>6 DEF AppendOk, rest
  <2>2. /\ more.pc = "append" /\ more.then = run[r].then /\ more.todo = rest
        /\ more.thread = run[r].thread
        /\ more.receipts = run[r].receipts /\ more.failures = run[r].failures
    BY <1>1 DEF RunStates
  <2> HIDE DEF more
  <2>3. Len(rest) \in Nat \ {0} /\ Len(rest) + 1 = Len(run[r].todo)
        /\ rest[Len(rest)] = run[r].todo[Len(run[r].todo)]
    BY <1>2, <1>6
  <2>4. QueueOK(r, more, Records)
    <3>1. \A k \in DOMAIN rest : rest[k] \in {run[r].todo[j] : j \in DOMAIN run[r].todo}
      BY <1>1, <1>2
    <3>2. Queue(more) \subseteq Queue(run[r])
      BY <2>2, <3>1 DEF Queue
    <3>3. ASSUME run[r].then \in Along, NEW k \in 1..Len(rest) - 1
          PROVE  rest[k].type \notin Messages
      <4>1. k \in Nat /\ k \in 1..Len(rest)
        BY <2>3
      <4>2. k + 1 \in 1..Len(run[r].todo) - 1
        BY <2>3, <4>1
      <4>3. rest[k] = run[r].todo[k + 1]
        BY <1>2, <4>1
      <4> QED
        BY <1>1, <1>3, <3>3, <4>2, <4>3 DEF QueueOK
    <3> QED
      BY <1>3, <2>2, <3>2, <3>3 DEF QueueOK
  <2>5. ASSUME run[r].then \in Along PROVE e.type \notin Messages
    <3>1. 1 \in 1..Len(run[r].todo) - 1
      BY <2>3
    <3> QED
      BY <1>1, <1>2, <1>3, <2>5, <3>1 DEF QueueOK
  <2>6. ScriptOK(more, transcript'[r], Pushed(Script(more), e, more.thread))
    <3>1. "append" \notin Along
      BY DEF Along, Labels
    <3>2. Script(more) = Script(run[r])
      BY <2>2 DEF Script
    <3> QED
      BY <1>1, <1>3, <2>1, <2>2, <2>3, <2>5, <3>1, <3>2 DEF ScriptOK, Pushed
  <2> QED
    <3>1. /\ DOMAIN transcript' = Runs
          /\ \A q \in Runs : q # r => transcript'[q] = transcript[q]
      BY <1>3, <2>1
    <3>2. e \in Events /\ log' = Append(log, e)
      BY <1>1, <1>2
    <3> QED
      BY <1>5, <2>1, <2>4, <2>6, <3>1, <3>2, LogScript
<1>7. CASE rest = <<>> /\ run[r].then = "return"
  <2>1. /\ run' = [run EXCEPT ![r] = Idle] /\ transcript' = [transcript EXCEPT ![r] = <<>>]
    BY <1>7 DEF AppendOk, Leave, rest
  <2>2. Idle.pc = "idle"
    BY DEF Idle
  <2>3. /\ DOMAIN transcript' = Runs
        /\ \A q \in Runs : q # r => transcript'[q] = transcript[q]
    BY <1>3, <2>1
  <2> QED
    <3>1. e \in Events /\ log' = Append(log, e)
      BY <1>1, <1>2
    <3> QED
      BY <1>5, <2>1, <2>2, <2>3, <3>1, LogScript
<1>8. CASE rest = <<>> /\ run[r].then # "return"
  <2>1. run' = [run EXCEPT ![r] = next] /\ UNCHANGED transcript
    BY <1>8 DEF AppendOk, rest
  <2>2. /\ next.pc = run[r].then /\ next.todo = <<>> /\ next.thread = run[r].thread
        /\ next.receipts = run[r].receipts /\ next.failures = run[r].failures
    BY <1>1 DEF RunStates
  <2> HIDE DEF next
  <2>3. next.pc # "append"
    BY <1>1, <1>8, <2>2 DEF Labels
  <2>4. QueueOK(r, next, Records)
    <3>1. Queue(next) \subseteq Queue(run[r])
      BY <2>2 DEF Queue
    <3> QED
      BY <1>3, <2>2, <2>3, <3>1 DEF QueueOK
  <2>5. run[r].todo[Len(run[r].todo)] = e
    <3>1. Len(run[r].todo) = 1
      BY <1>2, <1>8
    <3> QED
      BY <1>2, <3>1
  <2>6. ScriptOK(next, transcript'[r], Pushed(Script(next), e, next.thread))
    <3>1. Script(next) = Script(run[r])
      BY <2>2 DEF Script
    <3>2. ASSUME run[r].then \in Along
          PROVE  transcript[r] = Pushed(Script(run[r]), e, run[r].thread)
      BY <1>1, <1>3, <1>4, <2>5, <3>2 DEF ScriptOK, Pushed
    <3> QED
      BY <2>1, <2>2, <2>3, <3>1, <3>2 DEF ScriptOK
  <2> QED
    <3>1. /\ DOMAIN transcript' = Runs
          /\ \A q \in Runs : q # r => transcript'[q] = transcript[q]
      BY <1>3, <2>1
    <3>2. e \in Events /\ log' = Append(log, e)
      BY <1>1, <1>2
    <3> QED
      BY <1>5, <2>1, <2>4, <2>6, <3>1, <3>2, LogScript
<1> QED
  BY <1>6, <1>7, <1>8

\* Every step keeps the transcripts.
LEMMA CoreScript == IInv /\ GuardExact /\ ScriptInv /\ Core => ScriptInv'
<1> SUFFICES ASSUME IInv, GuardExact, ScriptInv, Core PROVE ScriptInv'
  OBVIOUS
<1>0. run \in [Runs -> RunStates] /\ DOMAIN transcript = Runs
  BY DEF IInv, TypeOK, ScriptInv
<1>1. ASSUME UNCHANGED <<log, run, transcript>> PROVE ScriptInv'
  BY <1>1 DEF ScriptInv, QueuesOK, ScriptsOK, Records, Script
<1>2. ASSUME NEW th \in Threads, StartThread(th) PROVE ScriptInv'
  <2> DEFINE e == Event("thread_started", th, None, None, None)
  <2>1. e \in Events
    BY DEF Event, Events, PlainEvents
  <2>2. e.type \notin Messages
    BY DEF Event, Messages
  <2>3. StoreAppend(e) \/ StoreFail(e)
    BY <1>2 DEF StartThread
  <2>4. UNCHANGED <<run, transcript>>
    BY <1>2 DEF StartThread
  <2> HIDE DEF e
  <2>5. CASE StoreAppend(e)
    <3>1. log' = Append(log, e)
      BY <2>5 DEF StoreAppend
    <3>2. log \in Seq(Events)
      BY DEF IInv, TypeOK
    <3>3. \A s : TranscriptFromEvents(log', s) = TranscriptFromEvents(log, s)
      BY <2>1, <2>2, <3>1, <3>2, ScriptAppend DEF Pushed
    <3>4. Records \subseteq Records'
      BY <2>1, <3>1, <3>2 DEF Records
    <3> QED
      BY <2>4, <3>3, <3>4, QueueGrows DEF ScriptInv, QueuesOK, ScriptsOK, Script
  <2>6. CASE StoreFail(e)
    BY <1>1, <2>4, <2>6 DEF StoreFail
  <2> QED
    BY <2>3, <2>5, <2>6
<1>3. ASSUME NEW th \in Threads, NEW r \in Runs, Begins(r, th) PROVE ScriptInv'
  BY <1>3, AcquireScript DEF Begins
<1>4. ASSUME NEW r \in Runs, RunStep(r) \/ AppendFail(r) PROVE ScriptInv'
  <2>1. CASE RecoverAppend(r)
    BY <2>1, RecoverScript
  <2>2. CASE Recovered(r)
    <3>1. CASE r \in Turns
      BY <2>2, <3>1, RecoverScript
    <3>2. CASE r \notin Turns
      BY <2>2, <3>2, LeaveScript DEF Recovered, storeVars
    <3> QED
      BY <3>1, <3>2
  <2>3. CASE AppendFail(r) \/ AppendRefused(r)
    BY <2>3, LeaveScript DEF AppendFail, AppendRefused, StoreFail, storeVars
  <2> QED
    BY <1>4, <2>1, <2>2, <2>3, AppendOkScript DEF RunStep
<1>5. ASSUME NEW t \in Turns, TurnStep(t) \/ \E decision \in Decisions : Approval(t, decision)
      PROVE  ScriptInv'
  BY <1>5, LoadScript, LoopScript, ModelResponseScript, DecideScript, NextCallScript,
     HandleScript, ExecuteScript DEF TurnStep
<1>6. ASSUME NEW t \in Turns, Drop(t) PROVE ScriptInv'
  BY <1>6, LeaveScript DEF Drop, storeVars, Runs
<1>7. CASE Restart
  <2>1. /\ run' = [r \in Runs |-> Idle] /\ transcript' = [r \in Runs |-> <<>>]
    BY <1>7 DEF Restart
  <2>2. Idle.pc = "idle"
    BY DEF Idle
  <2> QED
    BY <2>1, <2>2 DEF ScriptInv, QueuesOK, ScriptsOK
<1>8. CASE Signals
  BY <1>1, <1>8 DEF Signals, storeVars
<1> QED
  BY <1>2, <1>3, <1>4, <1>5, <1>6, <1>7, <1>8 DEF Core

\* A transcript that is not ahead of the log is what the property asks for.
LEMMA ScriptSuffices == ScriptInv => TranscriptIsReplay
<1> SUFFICES ASSUME ScriptInv, NEW t \in Turns, run[t].pc = "model"
             PROVE  transcript[t] = TranscriptFromEvents(log, run[t].thread)
  BY DEF TranscriptIsReplay
<1>1. t \in Runs /\ run[t].pc # "idle" /\ run[t].pc \in Along
  BY DEF Runs, Along, Labels
<1> QED
  BY <1>1 DEF ScriptInv, ScriptsOK, ScriptOK, Script

\* No run has a transcript when the runtime is opened.
LEMMA InitScript == Init => ScriptInv
BY DEF Init, ScriptInv, QueuesOK, ScriptsOK, Idle

\* What the model is asked to continue is what the log says: the transcript that
\* run_turn keeps up by hand is the one that transcript_from_events would rebuild.
THEOREM TranscriptIsReplayHolds == Spec => []TranscriptIsReplay
BY InitScript, ScriptSuffices, Invariance, GuardExactHolds, NextIInv, CoreScript, PTL DEF Spec

-----------------------------------------------------------------------------
(* Every call that the model asked for is answered before it is asked      *)
(* again: what a run finds unanswered on its thread it answers itself, in  *)
(* recovery or call by call.                                               *)

\* Call c of the current iteration has no receipt yet, written or queued.
Unanswered(s, c) ==
    \E m \in DOMAIN s.calls : m >= FirstOpen(s, "receipt") /\ s.calls[m].id = c

\* The receipts a run is about to write, as far as it knows them.
Coming(s) ==
    (IF s.pc = "append" THEN {s.todo[k] : k \in DOMAIN s.todo} ELSE {})
    \cup (IF At(s) = "recover" THEN s.receipts ELSE {})

\* The events have a receipt for call c of the assistant message e.
Answered(e, c, events) ==
    \E f \in events : /\ f.type = "receipt" /\ f.thread = e.thread
                      /\ f.turn = e.turn /\ f.call = c

\* The calls of the thread are answered, or the run is about to answer them.
CallsClosed(r, s, events) ==
    At(s) # "return" =>
        \A e \in events : e.type = "assistant" /\ e.thread = s.thread =>
            \A k \in DOMAIN e.data :
                \/ Answered(e, e.data[k].id, events \cup Coming(s))
                \/ e.turn = r /\ Unanswered(s, e.data[k].id)

\* A message of the model that is queued asks for the calls that come next.
AsksNext(r, s) ==
    s.pc = "append" => \A k \in DOMAIN s.todo : s.todo[k].type = "assistant" =>
        /\ At(s) = "decide" /\ s.todo[k].thread = s.thread /\ s.todo[k].turn = r
        /\ \A m \in DOMAIN s.todo[k].data : Unanswered(s, s.todo[k].data[m].id)

\* Between two responses there are no calls.
BetweenResponses == {"recover", "load", "loop", "model"}
NoCalls(s) == At(s) \in BetweenResponses => s.calls = <<>>

ClosedIn(r, s, events) == CallsClosed(r, s, events) /\ AsksNext(r, s) /\ NoCalls(s)

\* Receipt f answers a call of the assistant message e.
Answers(f, e) ==
    /\ f.type = "receipt" /\ e.type = "assistant"
    /\ f.thread = e.thread /\ f.turn = e.turn
    /\ \E k \in DOMAIN e.data : e.data[k].id = f.call

\* No receipt of the log precedes the message it answers, or that message's record of
\* a failed append.
LogOrder == \A i, j \in DOMAIN log : i < j => ~Answers(log[i], log[j])
PendingOrder == \A f \in Records : \A k \in DOMAIN pending : ~Answers(f, pending[k])

RunsClosed == \A r \in Runs : run[r].pc # "idle" => ClosedIn(r, run[r], Records)

\* The inductive invariant of TranscriptClosed, over the invariants before it.
ClosedInv == LogOrder /\ PendingOrder /\ RunsClosed

-----------------------------------------------------------------------------
(* A step of a turn, by what it does to the calls of the turn.             *)

\* Nothing in the queue of a run asks for calls or completes the turn.
Plain(n) ==
    n.pc = "append" => \A k \in DOMAIN n.todo : n.todo[k].type \notin {"assistant", "turn_completed"}

\* The turn is about to return.  It completes only with an uncancelled token.
Returning(t, n) ==
    /\ n.pc = "append" /\ n.then = "return"
    /\ Plain(n) \/ (n.todo = <<TurnOf("turn_completed", t)>> /\ t \notin cancelled)

\* The turn goes on with the same calls to do.
KeepsCalls(s, n) ==
    /\ Plain(n) /\ n.calls = s.calls /\ FirstOpen(n, "receipt") = FirstOpen(s, "receipt")
    /\ At(n) \notin {"recover", "load"}
    /\ At(n) \in BetweenResponses => s.pc \in BetweenResponses

\* It queues the receipt of the call it is at.
ClosesCall(t, s, n) ==
    /\ Plain(n) /\ n.calls = s.calls /\ n.pc = "append" /\ n.then \in {"call", "after"}
    /\ FirstOpen(s, "receipt") = s.index /\ FirstOpen(n, "receipt") = s.index + 1
    /\ \E k \in DOMAIN n.todo :
          /\ n.todo[k].type = "receipt" /\ n.todo[k].thread = s.thread
          /\ n.todo[k].turn = t /\ n.todo[k].call = s.calls[s.index].id

\* The model asks for calls.
AsksForCalls(t, s, n) ==
    /\ s.pc = "model" /\ n.pc = "append" /\ n.then = "decide" /\ n.index = s.index
    /\ n.calls \in Responses /\ n.todo = <<AssistantMessage(s.thread, t, n.calls)>>

\* All calls of the response are done.
NextRound(s, n) ==
    /\ s.pc = "call" /\ s.index > Len(s.calls) /\ n.pc = "loop" /\ n.calls = <<>>

TurnMove(t, s, n) ==
    /\ s.pc \notin {"idle", "append", "recover"}
    /\ n.thread = s.thread /\ n.receipts = s.receipts /\ n.failures = s.failures
    /\ \/ Returning(t, n) \/ KeepsCalls(s, n) \/ ClosesCall(t, s, n)
       \/ AsksForCalls(t, s, n) \/ NextRound(s, n)

\* Events of the given types neither ask nor complete.
LEMMA PlainTurn ==
    ASSUME NEW t, NEW type, type # "turn_completed", type # "assistant"
    PROVE  /\ TurnOf(type, t).type \notin {"assistant", "turn_completed"}
           /\ \A data : CallEvent(type, t, data).type \notin {"assistant", "turn_completed"}
           /\ \A how, action : CallReceipt(t, how, action).type \notin {"assistant", "turn_completed"}
BY DEF TurnOf, TurnEvent, CallEvent, CallReceipt, Receipt, Event

\* The turn ends with the given plain events.
LEMMA EndMove ==
    ASSUME IInv, NEW t \in Turns, run[t].pc \notin {"idle", "append", "recover"}, NEW events,
           EndTurn(t, events),
           \/ \A k \in DOMAIN events : events[k].type \notin {"assistant", "turn_completed"}
           \/ events = <<TurnOf("turn_completed", t)>> /\ t \notin cancelled
    PROVE  TurnMove(t, run[t], run'[t])
<1> DEFINE n == Emit(run[t], events, "return")
<1>1. run \in [Runs -> RunStates] /\ t \in Runs /\ run[t] \in RunStates
  BY DEF IInv, TypeOK, Runs
<1>2. /\ n.pc = "append" /\ n.then = "return" /\ n.todo = events /\ n.thread = run[t].thread
      /\ n.receipts = run[t].receipts /\ n.failures = run[t].failures
  BY <1>1, EmitShape
<1>3. run'[t] = n
  BY <1>1 DEF EndTurn, Step
<1> HIDE DEF n
<1>4. Returning(t, n)
  BY <1>2 DEF Returning, Plain
<1> QED
  BY <1>2, <1>3, <1>4 DEF TurnMove

\* The turn ends with denied receipts for some calls.
LEMMA EndDeniedMove ==
    ASSUME IInv, NEW t \in Turns, run[t].pc \in {"decide", "call"},
           NEW calls \in Seq(ToolCall), NEW type, type # "turn_completed", type # "assistant",
           EndTurn(t, Append(Denied(run[t].thread, t, calls), TurnOf(type, t)))
    PROVE  TurnMove(t, run[t], run'[t])
<1> DEFINE denied == Denied(run[t].thread, t, calls)
           events == Append(denied, TurnOf(type, t))
<1>1. run[t].thread \in Threads
  BY TurnFacts
<1>2. denied \in Seq(Events)
  BY <1>1, DeniedType
<1>3. ASSUME NEW k \in DOMAIN denied PROVE denied[k].type = "receipt"
  BY DEF Denied, Receipt, Event
<1>4. TurnOf(type, t).type \notin {"assistant", "turn_completed"}
  BY PlainTurn
<1> HIDE DEF denied
<1>5. ASSUME NEW k \in DOMAIN events PROVE events[k].type \notin {"assistant", "turn_completed"}
  <2>1. CASE k \in DOMAIN denied
    BY <1>2, <1>3, <2>1
  <2>2. CASE k \notin DOMAIN denied
    BY <1>2, <1>4, <2>2
  <2> QED
    BY <2>1, <2>2
<1>6. EndTurn(t, events)
  BY DEF denied
<1> HIDE DEF events
<1> QED
  BY <1>5, <1>6, EndMove

\* The turn goes on in state n with the same calls.
LEMMA KeepMove ==
    ASSUME IInv, NEW t \in Turns, run[t].pc \notin {"idle", "append", "recover"}, NEW n,
           run' = [run EXCEPT ![t] = n],
           n.thread = run[t].thread, n.receipts = run[t].receipts, n.failures = run[t].failures,
           KeepsCalls(run[t], n)
    PROVE  TurnMove(t, run[t], run'[t])
<1>1. run'[t] = n
  BY DEF IInv, TypeOK, Runs
<1> QED
  BY <1>1 DEF TurnMove

\* It goes on once it has appended some plain events.
LEMMA EmitMove ==
    ASSUME IInv, NEW t \in Turns, run[t].pc \notin {"idle", "append", "recover", "after"},
           NEW events, NEW then, then \notin {"recover", "load", "after"},
           then \in BetweenResponses => run[t].pc \in BetweenResponses,
           \A k \in DOMAIN events : events[k].type \notin {"assistant", "turn_completed"},
           NEW n, \/ n = Emit(run[t], events, then)
                  \/ \E action : n = [Emit(run[t], events, then) EXCEPT !.action = action],
           run' = [run EXCEPT ![t] = n]
    PROVE  TurnMove(t, run[t], run'[t])
<1>1. run[t] \in RunStates
  BY DEF IInv, TypeOK, Runs
<1>2. /\ n.pc = "append" /\ n.then = then /\ n.todo = events /\ n.thread = run[t].thread
      /\ n.receipts = run[t].receipts /\ n.failures = run[t].failures
      /\ n.calls = run[t].calls /\ n.index = run[t].index
  BY <1>1 DEF Emit, RunStates
<1>3. KeepsCalls(run[t], n)
  BY <1>2 DEF KeepsCalls, Plain, At, FirstOpen
<1> QED
  BY <1>2, <1>3, KeepMove

\* handle_tool_call returns with a receipt behind plain events.
LEMMA CloseCallMove ==
    ASSUME IInv, NEW t \in Turns, run[t].pc \in {"handle", "gate", "approval"},
           NEW events, NEW how, NEW action,
           NEW m \in DOMAIN events, events[m] = CallReceipt(t, how, action),
           \A k \in DOMAIN events : events[k].type \notin {"assistant", "turn_completed"},
           CloseCall(t, events)
    PROVE  TurnMove(t, run[t], run'[t])
<1> DEFINE s == run[t]
           n == [Emit(s, events, "call") EXCEPT !.action = None, !.index = @ + 1]
<1>1. s \in RunStates /\ run \in [Runs -> RunStates] /\ t \in Runs
  BY DEF IInv, TypeOK, Runs
<1>2. run'[t] = n
  BY <1>1 DEF CloseCall, StepPush
<1>3. /\ n.pc = "append" /\ n.then = "call" /\ n.todo = events /\ n.thread = s.thread
      /\ n.calls = s.calls /\ n.index = s.index + 1
      /\ n.receipts = s.receipts /\ n.failures = s.failures
  BY <1>1 DEF RunStates, Emit
<1> HIDE DEF n
<1>4. /\ FirstOpen(s, "receipt") = s.index /\ FirstOpen(n, "receipt") = s.index + 1
  BY <1>3 DEF FirstOpen, At
<1>5. /\ events[m].type = "receipt" /\ events[m].thread = s.thread /\ events[m].turn = t
      /\ events[m].call = s.calls[s.index].id
  BY DEF CallReceipt, Receipt, Event, Current
<1>6. ClosesCall(t, s, n)
  BY <1>3, <1>4, <1>5 DEF ClosesCall, Plain
<1> QED
  BY <1>2, <1>3, <1>6 DEF TurnMove

\* One plain event.
LEMMA OnePlain ==
    ASSUME NEW e, e.type \notin {"assistant", "turn_completed"}
    PROVE  \A k \in DOMAIN <<e>> : <<e>>[k].type \notin {"assistant", "turn_completed"}
OBVIOUS

\* Two plain events.
LEMMA TwoPlain ==
    ASSUME NEW e, NEW f, e.type \notin {"assistant", "turn_completed"},
           f.type \notin {"assistant", "turn_completed"}
    PROVE  \A k \in DOMAIN <<e, f>> : <<e, f>>[k].type \notin {"assistant", "turn_completed"}
<1>1. \A k \in DOMAIN <<e, f>> : <<e, f>>[k] = e \/ <<e, f>>[k] = f
  OBVIOUS
<1> QED
  BY <1>1

\* The steps of the model loop.
LEMMA LoopMoves ==
    ASSUME IInv, OnceInv, NEW t \in Turns, Load(t) \/ Loop(t) \/ ModelError(t) \/ Decide(t) \/ NextCall(t)
    PROVE  TurnMove(t, run[t], run'[t])
<1> DEFINE s == run[t]
<1>0. /\ s.pc \in {"load", "loop", "model", "decide", "call"}
      /\ run \in [Runs -> RunStates] /\ t \in Runs /\ s \in RunStates
  BY DEF Load, Loop, ModelError, Decide, NextCall, IInv, TypeOK, Runs
<1>1. ASSUME NEW type, type # "turn_completed", type # "assistant", EndTurn(t, <<TurnOf(type, t)>>)
      PROVE  TurnMove(t, s, run'[t])
  <2>1. \A k \in DOMAIN <<TurnOf(type, t)>> :
           <<TurnOf(type, t)>>[k].type \notin {"assistant", "turn_completed"}
    BY <1>1, PlainTurn, OnePlain
  <2> QED
    BY <1>0, <1>1, <2>1, EndMove
<1>2. CASE EndTurn(t, <<TurnOf("hook_failed", t), TurnOf("turn_failed", t)>>)
  <2> DEFINE events == <<TurnOf("hook_failed", t), TurnOf("turn_failed", t)>>
  <2>1. \A k \in DOMAIN events : events[k].type \notin {"assistant", "turn_completed"}
    BY PlainTurn, TwoPlain
  <2> HIDE DEF events
  <2>2. EndTurn(t, events)
    BY <1>2 DEF events
  <2> QED
    BY <1>0, <2>1, <2>2, EndMove
<1>3. CASE s.pc = "loop" /\ Step(t, Emit(s, <<TurnOf("context", t), TurnOf("request", t)>>, "model"))
  <2> DEFINE events == <<TurnOf("context", t), TurnOf("request", t)>>
             n == Emit(s, events, "model")
  <2>1. \A k \in DOMAIN events : events[k].type \notin {"assistant", "turn_completed"}
    BY PlainTurn, TwoPlain
  <2> HIDE DEF events
  <2>2. Step(t, n)
    BY <1>3 DEF events
  <2>3. n = Emit(s, events, "model")
    OBVIOUS
  <2> HIDE DEF n
  <2>4. s.pc \notin {"idle", "append", "recover", "after"} /\ s.pc \in BetweenResponses
    BY <1>3 DEF BetweenResponses
  <2> HIDE DEF s
  <2>5. run' = [run EXCEPT ![t] = n]
    BY <2>2 DEF Step
  <2> QED
    BY <2>1, <2>3, <2>4, <2>5, EmitMove DEF s
<1>4. CASE Load(t)
  <2> DEFINE n == [s EXCEPT !.pc = "loop"]
  <2>1. s.pc = "load" /\ run' = [run EXCEPT ![t] = n]
    BY <1>4 DEF Load
  <2>2. /\ n.pc = "loop" /\ n.thread = s.thread /\ n.calls = s.calls /\ n.index = s.index
        /\ n.receipts = s.receipts /\ n.failures = s.failures
    BY <1>0 DEF RunStates
  <2> HIDE DEF n
  <2>3. KeepsCalls(s, n)
    BY <2>1, <2>2 DEF KeepsCalls, Plain, At, FirstOpen, BetweenResponses
  <2> QED
    BY <1>0, <2>1, <2>2, <2>3, KeepMove
<1>5. CASE Loop(t)
  BY <1>1, <1>2, <1>3, <1>5 DEF Loop
<1>6. CASE ModelError(t)
  BY <1>1, <1>6 DEF ModelError
<1>7. CASE Decide(t)
  <2> DEFINE n == [s EXCEPT !.pc = "call", !.stop = None, !.index = 1]
  <2>1. s.pc = "decide" /\ s.calls \in Seq(ToolCall) /\ s.index = 1
    <3>1. s.pc = "decide"
      BY <1>7 DEF Decide
    <3>2. CallsOnce(s)
      BY <1>0, <3>1 DEF OnceInv, RunsOnce, OnceIn
    <3> QED
      BY <1>0, <3>1, <3>2 DEF CallsOnce, Early, At, RunStates
  <2>2. CASE \E type \in {"turn_failed", "turn_cancelled"} :
                EndTurn(t, Append(Denied(s.thread, t, s.calls), TurnOf(type, t)))
    BY <2>1, <2>2, EndDeniedMove
  <2>3. CASE EndTurn(t, <<TurnOf("turn_completed", t)>>) /\ t \notin cancelled
    BY <1>0, <2>1, <2>3, EndMove
  <2>4. CASE Step(t, n)
    <3>1. run' = [run EXCEPT ![t] = n]
      BY <2>4 DEF Step
    <3>2. /\ n.pc = "call" /\ n.thread = s.thread /\ n.calls = s.calls /\ n.index = s.index
          /\ n.receipts = s.receipts /\ n.failures = s.failures
      BY <1>0, <2>1 DEF RunStates
    <3> HIDE DEF n
    <3>3. KeepsCalls(s, n)
      BY <2>1, <3>2 DEF KeepsCalls, Plain, At, FirstOpen, BetweenResponses
    <3> QED
      BY <1>0, <3>1, <3>2, <3>3, KeepMove
  <2>5. \/ \E type \in {"turn_failed", "turn_cancelled"} :
              EndTurn(t, Append(Denied(s.thread, t, s.calls), TurnOf(type, t)))
        \/ EndTurn(t, <<TurnOf("turn_completed", t)>>) /\ t \notin cancelled
        \/ Step(t, n)
    BY <1>7 DEF Decide
  <2> QED
    BY <2>2, <2>3, <2>4, <2>5
<1>8. CASE NextCall(t)
  <2> DEFINE more == [s EXCEPT !.pc = "loop", !.iteration = @ + 1, !.calls = <<>>, !.index = 1]
             this == [s EXCEPT !.pc = "handle"]
             rest == SubSeq(s.calls, s.index, Len(s.calls))
  <2>1. s.pc = "call" /\ s.calls \in Seq(ToolCall) /\ s.index \in Nat \ {0}
    BY <1>0, <1>8 DEF NextCall, RunStates
  <2>2. \/ s.index > Len(s.calls) /\ Step(t, more)
        \/ EndTurn(t, Append(Denied(s.thread, t, rest), TurnOf("turn_cancelled", t)))
        \/ Step(t, this)
    BY <1>8 DEF NextCall
  <2>3. CASE s.index > Len(s.calls) /\ Step(t, more)
    <3>1. run'[t] = more
      BY <1>0, <2>3 DEF Step
    <3>2. /\ more.pc = "loop" /\ more.thread = s.thread /\ more.calls = <<>>
          /\ more.receipts = s.receipts /\ more.failures = s.failures
      BY <1>0 DEF RunStates
    <3> HIDE DEF more
    <3> QED
      BY <2>1, <2>3, <3>1, <3>2 DEF TurnMove, NextRound
  <2>4. CASE EndTurn(t, Append(Denied(s.thread, t, rest), TurnOf("turn_cancelled", t)))
    <3>1. rest \in Seq(ToolCall)
      BY <2>1
    <3> HIDE DEF rest
    <3> QED
      BY <2>1, <2>4, <3>1, EndDeniedMove
  <2>5. CASE Step(t, this)
    <3>1. run' = [run EXCEPT ![t] = this]
      BY <2>5 DEF Step
    <3>2. /\ this.pc = "handle" /\ this.thread = s.thread /\ this.calls = s.calls
          /\ this.index = s.index /\ this.receipts = s.receipts /\ this.failures = s.failures
      BY <1>0 DEF RunStates
    <3> HIDE DEF this
    <3>3. KeepsCalls(s, this)
      BY <2>1, <3>2 DEF KeepsCalls, Plain, At, FirstOpen, BetweenResponses
    <3> QED
      BY <1>0, <3>1, <3>2, <3>3, KeepMove
  <2> QED
    BY <2>2, <2>3, <2>4, <2>5
<1> QED
  BY <1>4, <1>5, <1>6, <1>7, <1>8

\* The model's response.
LEMMA ResponseMoves ==
    ASSUME IInv, NEW t \in Turns, NEW calls \in Responses, NEW stop \in StopReasons,
           ModelResponse(t, calls, stop)
    PROVE  TurnMove(t, run[t], run'[t])
<1> DEFINE s == run[t]
           message == AssistantMessage(s.thread, t, calls)
           n == [Emit(s, <<message>>, "decide") EXCEPT !.calls = calls, !.stop = stop,
                    !.seen = @ \cup {calls[i].id : i \in DOMAIN calls}]
<1>0. s.pc = "model" /\ run \in [Runs -> RunStates] /\ t \in Runs /\ s \in RunStates
  BY DEF ModelResponse, IInv, TypeOK, Runs
<1>1. CASE EndTurn(t, <<TurnOf("turn_failed", t)>>)
  <2>1. \A k \in DOMAIN <<TurnOf("turn_failed", t)>> :
           <<TurnOf("turn_failed", t)>>[k].type \notin {"assistant", "turn_completed"}
    BY PlainTurn, OnePlain
  <2> QED
    BY <1>0, <1>1, <2>1, EndMove
<1>2. CASE StepPush(t, n, message)
  <2>1. run'[t] = n
    BY <1>0, <1>2 DEF StepPush
  <2>2. /\ n.pc = "append" /\ n.then = "decide" /\ n.todo = <<message>> /\ n.thread = s.thread
        /\ n.calls = calls /\ n.index = s.index
        /\ n.receipts = s.receipts /\ n.failures = s.failures
    BY <1>0 DEF RunStates, Emit
  <2> HIDE DEF n
  <2>3. AsksForCalls(t, s, n)
    BY <1>0, <2>2 DEF AsksForCalls
  <2> QED
    BY <1>0, <2>1, <2>2, <2>3 DEF TurnMove
<1> QED
  BY <1>1, <1>2 DEF ModelResponse

\* The steps of handle_tool_call.
LEMMA HandleMoves ==
    ASSUME IInv, NEW t \in Turns,
           \/ Prepare(t) \/ Gate(t) \/ Execute(t) \/ AfterTool(t)
           \/ \E how \in ExecutorAnswers : Executed(t, how)
           \/ \E decision \in Decisions : Approval(t, decision)
    PROVE  TurnMove(t, run[t], run'[t])
<1> DEFINE s == run[t]
<1>0. /\ s.pc \in {"handle", "gate", "approval", "execute", "running", "after"}
      /\ run \in [Runs -> RunStates] /\ t \in Runs /\ s \in RunStates
  BY DEF Prepare, Gate, Execute, AfterTool, Executed, Approval, IInv, TypeOK, Runs
<1>1. ASSUME s.pc \in {"handle", "gate", "approval"}, NEW how, NEW action,
             CloseCall(t, <<CallReceipt(t, how, action)>>)
      PROVE  TurnMove(t, s, run'[t])
  <2> DEFINE receipt == CallReceipt(t, how, action)
             events == <<receipt>>
  <2>1. receipt.type \notin {"assistant", "turn_completed"}
    BY PlainTurn
  <2> HIDE DEF receipt
  <2>2. 1 \in DOMAIN events /\ events[1] = receipt
    OBVIOUS
  <2>3. \A k \in DOMAIN events : events[k].type \notin {"assistant", "turn_completed"}
    BY <2>1, OnePlain
  <2>4. CloseCall(t, events)
    BY <1>1 DEF receipt
  <2> HIDE DEF events, s
  <2> QED
    BY <1>1, <2>2, <2>3, <2>4, CloseCallMove DEF receipt, s
<1>2. ASSUME s.pc \in {"handle", "gate", "approval"}, NEW how, NEW action, NEW e,
             e.type \notin {"assistant", "turn_completed"},
             CloseCall(t, <<e, CallReceipt(t, how, action)>>)
      PROVE  TurnMove(t, s, run'[t])
  <2> DEFINE receipt == CallReceipt(t, how, action)
             events == <<e, receipt>>
  <2>1. receipt.type \notin {"assistant", "turn_completed"}
    BY PlainTurn
  <2> HIDE DEF receipt
  <2>2. 2 \in DOMAIN events /\ events[2] = receipt
    OBVIOUS
  <2>3. \A k \in DOMAIN events : events[k].type \notin {"assistant", "turn_completed"}
    BY <1>2, <2>1, TwoPlain
  <2>4. CloseCall(t, events)
    BY <1>2 DEF receipt
  <2> HIDE DEF events, s
  <2> QED
    BY <1>2, <2>2, <2>3, <2>4, CloseCallMove DEF receipt, s
<1>3. ASSUME s.pc \in {"handle", "gate", "approval"}, NEW events, NEW then \in {"gate", "approval", "execute"},
             \A k \in DOMAIN events : events[k].type \notin {"assistant", "turn_completed"},
             NEW n, \/ n = Emit(s, events, then)
                    \/ \E action : n = [Emit(s, events, then) EXCEPT !.action = action],
             Step(t, n)
      PROVE  TurnMove(t, s, run'[t])
  <2>1. /\ s.pc \notin {"idle", "append", "recover", "after"}
        /\ then \notin {"recover", "load", "after"} /\ then \notin BetweenResponses
    BY <1>3 DEF BetweenResponses
  <2>2. run' = [run EXCEPT ![t] = n]
    BY <1>3 DEF Step
  <2> HIDE DEF s
  <2> QED
    BY <1>3, <2>1, <2>2, EmitMove DEF s
<1>4. ASSUME NEW type \in {"prepared", "approval_requested", "approval_resolved", "started"}, NEW data
      PROVE  /\ CallEvent(type, t, data).type \notin {"assistant", "turn_completed"}
             /\ \A k \in DOMAIN <<CallEvent(type, t, data)>> :
                   <<CallEvent(type, t, data)>>[k].type \notin {"assistant", "turn_completed"}
  <2>1. CallEvent(type, t, data).type \notin {"assistant", "turn_completed"}
    BY <1>4, PlainTurn
  <2> QED
    BY <2>1, OnePlain
<1>5. CASE Prepare(t)
  <2>1. s.pc = "handle"
    BY <1>5 DEF Prepare
  <2>2. \/ \E how, action : CloseCall(t, <<CallReceipt(t, how, action)>>)
        \/ \E action : Step(t, [Emit(s, <<CallEvent("prepared", t, action)>>, "gate")
                                   EXCEPT !.action = action])
    BY <1>5 DEF Prepare
  <2>3. ASSUME NEW action, Step(t, [Emit(s, <<CallEvent("prepared", t, action)>>, "gate")
                                       EXCEPT !.action = action])
        PROVE  TurnMove(t, s, run'[t])
    BY <1>3, <1>4, <2>1, <2>3
  <2> QED
    BY <1>1, <2>1, <2>2, <2>3
<1>6. CASE Gate(t)
  <2> DEFINE asked == CallEvent("approval_requested", t, s.action)
             started == CallEvent("started", t, s.action)
             hooked == TurnOf("hook_failed", t)
  <2>1. /\ s.pc = "gate" /\ hooked.type \notin {"assistant", "turn_completed"}
        /\ \A k \in DOMAIN <<asked>> : <<asked>>[k].type \notin {"assistant", "turn_completed"}
        /\ \A k \in DOMAIN <<started>> : <<started>>[k].type \notin {"assistant", "turn_completed"}
    <3>1. hooked.type \notin {"assistant", "turn_completed"}
      BY PlainTurn
    <3> QED
      BY <1>4, <1>6, <3>1 DEF Gate
  <2>2. \/ CloseCall(t, <<hooked, CallReceipt(t, "denied", s.action)>>)
        \/ Step(t, Emit(s, <<asked>>, "approval"))
        \/ Step(t, Emit(s, <<started>>, "execute"))
    BY <1>6 DEF Gate
  <2> HIDE DEF asked, started, hooked
  <2> QED
    BY <1>2, <1>3, <2>1, <2>2
<1>7. ASSUME NEW decision \in Decisions, Approval(t, decision)
      PROVE  TurnMove(t, s, run'[t])
  <2> DEFINE resolved == CallEvent("approval_resolved", t, decision)
             started == CallEvent("started", t, s.action)
  <2>1. /\ s.pc = "approval" /\ resolved.type \notin {"assistant", "turn_completed"}
        /\ started.type \notin {"assistant", "turn_completed"}
    BY <1>4, <1>7 DEF Approval
  <2>2. \/ CloseCall(t, <<resolved, CallReceipt(t, "denied", s.action)>>)
        \/ Step(t, Emit(s, <<resolved, started>>, "execute"))
    BY <1>7 DEF Approval
  <2> HIDE DEF resolved, started
  <2>3. \A k \in DOMAIN <<resolved, started>> :
           <<resolved, started>>[k].type \notin {"assistant", "turn_completed"}
    BY <2>1, TwoPlain
  <2> QED
    BY <1>2, <1>3, <2>1, <2>2, <2>3
<1>8. CASE Execute(t)
  <2> DEFINE n == [s EXCEPT !.pc = "running"]
  <2>1. s.pc = "execute" /\ run' = [run EXCEPT ![t] = n]
    BY <1>8 DEF Execute
  <2>2. /\ n.pc = "running" /\ n.thread = s.thread /\ n.calls = s.calls /\ n.index = s.index
        /\ n.receipts = s.receipts /\ n.failures = s.failures
    BY <1>0 DEF RunStates
  <2> HIDE DEF n
  <2>3. KeepsCalls(s, n)
    BY <2>1, <2>2 DEF KeepsCalls, Plain, At, FirstOpen, BetweenResponses
  <2> QED
    BY <1>0, <2>1, <2>2, <2>3, KeepMove
<1>9. ASSUME NEW how \in ExecutorAnswers, Executed(t, how)
      PROVE  TurnMove(t, s, run'[t])
  <2> DEFINE receipt == CallReceipt(t, how, s.action)
             n == Emit(s, <<receipt>>, "after")
  <2>1. s.pc = "running" /\ run'[t] = n
    BY <1>0, <1>9 DEF Executed
  <2>2. /\ receipt.type = "receipt" /\ receipt.thread = s.thread /\ receipt.turn = t
        /\ receipt.call = s.calls[s.index].id
    BY DEF CallReceipt, Receipt, Event, Current
  <2> HIDE DEF receipt
  <2>3. /\ n.pc = "append" /\ n.then = "after" /\ n.todo = <<receipt>> /\ n.thread = s.thread
        /\ n.calls = s.calls /\ n.index = s.index
        /\ n.receipts = s.receipts /\ n.failures = s.failures
    BY <1>0, EmitShape
  <2> HIDE DEF n
  <2>4. FirstOpen(s, "receipt") = s.index /\ FirstOpen(n, "receipt") = s.index + 1
    BY <2>1, <2>3 DEF FirstOpen, At
  <2>5. Plain(n)
    BY <2>2, <2>3 DEF Plain
  <2>6. 1 \in DOMAIN n.todo /\ n.todo[1] = receipt
    BY <2>3
  <2>7. ClosesCall(t, s, n)
    BY <2>2, <2>3, <2>4, <2>5, <2>6 DEF ClosesCall
  <2> QED
    BY <2>1, <2>3, <2>7 DEF TurnMove
<1>10. CASE AfterTool(t)
  <2> DEFINE n == [s EXCEPT !.pc = "call", !.action = None, !.index = @ + 1]
             events == <<TurnOf("hook_failed", t), TurnOf("turn_failed", t)>>
  <2>1. s.pc = "after" /\ (EndTurn(t, events) \/ Step(t, n))
    BY <1>10 DEF AfterTool
  <2>2. \A k \in DOMAIN events : events[k].type \notin {"assistant", "turn_completed"}
    BY PlainTurn, TwoPlain
  <2>3. /\ n.pc = "call" /\ n.thread = s.thread /\ n.calls = s.calls /\ n.index = s.index + 1
        /\ n.receipts = s.receipts /\ n.failures = s.failures
    BY <1>0 DEF RunStates
  <2> HIDE DEF n, events
  <2>4. KeepsCalls(s, n)
    BY <2>1, <2>3 DEF KeepsCalls, Plain, At, FirstOpen, BetweenResponses
  <2>5. CASE Step(t, n)
    BY <1>0, <2>3, <2>4, <2>5, KeepMove DEF Step
  <2>6. CASE EndTurn(t, events)
    BY <1>0, <2>2, <2>6, EndMove
  <2> QED
    BY <2>1, <2>5, <2>6
<1> QED
  BY <1>5, <1>6, <1>7, <1>8, <1>9, <1>10

\* Every step of a turn is of one of these kinds.
LEMMA TurnMoves ==
    ASSUME IInv, OnceInv, NEW t \in Turns,
           TurnStep(t) \/ \E decision \in Decisions : Approval(t, decision)
    PROVE  TurnMove(t, run[t], run'[t])
BY LoopMoves, ResponseMoves, HandleMoves DEF TurnStep

-----------------------------------------------------------------------------
(* What recovery finds.                                                    *)

\* Every call about which the thread has an event of the type, and which is among the
\* keys, has a receipt: that of its last event.
LEMMA ReceiptForKey ==
    ASSUME log \in Seq(Events), NEW th, NEW keys, NEW type, NEW how,
           NEW key, key \in keys, key \in KeysOf(log, th, type)
    PROVE  \E f \in ReceiptsFor(log, th, keys, type, how) :
              f.type = "receipt" /\ f.thread = th /\ <<f.turn, f.call>> = key
<1> DEFINE S == {i \in Places(log, th, type) : <<log[i].turn, log[i].call>> = key}
           back == {Len(log) - i : i \in S}
<1>1. S # {} /\ S \subseteq 1..Len(log) /\ Len(log) \in Nat
  BY DEF KeysOf, Places
<1>2. back \subseteq Nat /\ back # {}
  BY <1>1
<1>3. PICK x \in back : \A y \in back : x =< y
  <2> HIDE DEF back
  <2> QED
    BY <1>2, LeastExists
<1>4. PICK i \in S : x = Len(log) - i
  OBVIOUS
<1>5. ASSUME NEW k \in Places(log, th, type), k > i
      PROVE  <<log[k].turn, log[k].call>> # <<log[i].turn, log[i].call>>
  <2>1. ASSUME k \in S PROVE FALSE
    <3>1. Len(log) - i =< Len(log) - k
      BY <1>3, <1>4, <2>1
    <3> QED
      BY <1>1, <1>5, <2>1, <3>1
  <2> QED
    BY <1>5, <2>1
<1> DEFINE f == Receipt(th, log[i].turn, log[i].call, how, log[i].data)
<1>6. i \in Places(log, th, type) /\ <<log[i].turn, log[i].call>> = key
  OBVIOUS
<1>7. f \in ReceiptsFor(log, th, keys, type, how)
  BY <1>5, <1>6 DEF ReceiptsFor
<1>8. f.type = "receipt" /\ f.thread = th /\ f.turn = log[i].turn /\ f.call = log[i].call
  BY DEF Receipt, Event
<1> QED
  BY <1>6, <1>7, <1>8

\* A call that was accepted has a receipt in the log, or recovery finds it missing.
LEMMA KeyCovered ==
    ASSUME log \in Seq(Events), NEW th, NEW key
    PROVE  key \in AcceptedKeys(log, th) =>
              \E f \in Records \cup MissingReceipts(log, th) :
                 f.type = "receipt" /\ f.thread = th /\ <<f.turn, f.call>> = key
<1>0. ASSUME NEW keys, NEW type, NEW how, key \in keys, key \in KeysOf(log, th, type)
      PROVE  \E f \in ReceiptsFor(log, th, keys, type, how) :
                f.type = "receipt" /\ f.thread = th /\ <<f.turn, f.call>> = key
  BY <1>0, ReceiptForKey
<1> SUFFICES ASSUME key \in AcceptedKeys(log, th)
             PROVE  \E f \in Records \cup MissingReceipts(log, th) :
                       f.type = "receipt" /\ f.thread = th /\ <<f.turn, f.call>> = key
  OBVIOUS
<1> DEFINE closed == KeysOf(log, th, "receipt")
           started == KeysOf(log, th, "started")
           prepared == KeysOf(log, th, "prepared")
           accepted == AcceptedKeys(log, th)
           U == ReceiptsFor(log, th, started \ closed, "started", "unknown")
           P == ReceiptsFor(log, th, (prepared \ started) \ closed, "prepared", "failed")
           A == {Receipt(th, j[1], j[2], "failed", None) :
                    j \in ((accepted \ prepared) \ started) \ closed}
<1>1. MissingReceipts(log, th) = U \cup P \cup A
  BY DEF MissingReceipts
<1>2. \A x \in started \ closed : x \in KeysOf(log, th, "started")
  OBVIOUS
<1>3. \A x \in (prepared \ started) \ closed : x \in KeysOf(log, th, "prepared")
  OBVIOUS
<1>6. CASE key \in closed
  <2>1. PICK j \in Places(log, th, "receipt") : <<log[j].turn, log[j].call>> = key
    BY <1>6 DEF KeysOf
  <2>2. log[j] \in Records /\ log[j].type = "receipt" /\ log[j].thread = th
    BY <2>1 DEF Places, Records
  <2> QED
    BY <2>1, <2>2
<1>7. CASE key \in started \ closed
  <2>1. \E f \in U : f.type = "receipt" /\ f.thread = th /\ <<f.turn, f.call>> = key
    <3> HIDE DEF closed, started
    <3> QED
      BY <1>0, <1>2, <1>7
  <2> QED
    BY <1>1, <2>1
<1>8. CASE key \in (prepared \ started) \ closed
  <2>1. \E f \in P : f.type = "receipt" /\ f.thread = th /\ <<f.turn, f.call>> = key
    <3> HIDE DEF closed, started, prepared
    <3> QED
      BY <1>0, <1>3, <1>8
  <2> QED
    BY <1>1, <2>1
<1>9. CASE key \notin prepared /\ key \notin started /\ key \notin closed
  <2> DEFINE f == Receipt(th, key[1], key[2], "failed", None)
  <2>1. f \in A
    BY <1>9
  <2>2. key = <<key[1], key[2]>>
    BY DEF AcceptedKeys
  <2>3. f.type = "receipt" /\ f.thread = th /\ <<f.turn, f.call>> = key
    BY <2>2 DEF Receipt, Event
  <2> QED
    BY <1>1, <2>1, <2>3
<1> QED
  BY <1>6, <1>7, <1>8, <1>9

\* So has every call that the model asked for.
LEMMA MissingCovers ==
    ASSUME log \in Seq(Events), NEW th, NEW e \in Records, e.type = "assistant", e.thread = th,
           NEW k \in DOMAIN e.data
    PROVE  Answered(e, e.data[k].id, Records \cup MissingReceipts(log, th))
<1> DEFINE key == <<e.turn, e.data[k].id>>
<1>2. PICK i \in DOMAIN log : e = log[i]
  BY DEF Records
<1>3. e \in Events /\ e.turn \in Turns /\ e.data[k].id \in Calls
  <2>1. e \in Events
    BY <1>2
  <2>2. e \in AssistantEvents
    BY <2>1 DEF Events, PlainEvents, ActionEvents, ResolvedEvents, ReceiptEvents, Terminal
  <2>3. e.turn \in Turns /\ e.data \in Seq(ToolCall)
    BY <2>2 DEF AssistantEvents
  <2>4. e.data[k] \in ToolCall
    BY <2>3
  <2> QED
    BY <2>1, <2>3, <2>4 DEF ToolCall
<1>4. key \in AcceptedKeys(log, th)
  <2>1. key \in Turns \X Calls /\ key[1] = e.turn /\ key[2] = e.data[k].id
    BY <1>3
  <2>2. i \in Places(log, th, "assistant")
    BY <1>2 DEF Places
  <2> QED
    BY <1>2, <2>1, <2>2 DEF AcceptedKeys
<1>5. PICK f \in Records \cup MissingReceipts(log, th) :
         f.type = "receipt" /\ f.thread = th /\ <<f.turn, f.call>> = key
  <2> HIDE DEF key
  <2> QED
    BY <1>4, KeyCovered
<1> QED
  BY <1>5 DEF Answered

-----------------------------------------------------------------------------
(* The steps of one run.                                                   *)

\* More receipts in the events and in the queue leave a call answered.
LEMMA AnsweredGrows ==
    ASSUME NEW e, NEW c, NEW events, NEW more, events \subseteq more, Answered(e, c, events)
    PROVE  Answered(e, c, more)
BY DEF Answered

\* An append on another thread does not concern a run.
LEMMA OtherClosed ==
    ASSUME NEW q, NEW s, NEW events, NEW e, ClosedIn(q, s, events),
           e.type = "assistant" => e.thread # s.thread
    PROVE  ClosedIn(q, s, events \cup {e})
<1>1. ASSUME NEW f, NEW c, Answered(f, c, events \cup Coming(s))
      PROVE  Answered(f, c, (events \cup {e}) \cup Coming(s))
  BY <1>1, AnsweredGrows
<1>2. CallsClosed(q, s, events \cup {e})
  BY <1>1 DEF ClosedIn, CallsClosed
<1> QED
  BY <1>2 DEF ClosedIn

\* The run itself appends the first event of its queue.
LEMMA OwnClosed ==
    ASSUME NEW r, NEW s, NEW n, NEW events, ClosedIn(r, s, events),
           s.pc = "append", s.todo \in Seq(Events), s.todo # <<>>,
           \/ n.pc = "append" /\ n.todo = Tail(s.todo)
           \/ n.pc # "append" /\ Tail(s.todo) = <<>>,
           At(n) = At(s), n.thread = s.thread, n.receipts = s.receipts,
           n.calls = s.calls, n.index = s.index
    PROVE  ClosedIn(r, n, events \cup {Head(s.todo)})
<1> DEFINE e == Head(s.todo)
<1>1. /\ e = s.todo[1] /\ 1 \in DOMAIN s.todo
      /\ \A k \in DOMAIN Tail(s.todo) : k + 1 \in DOMAIN s.todo /\ Tail(s.todo)[k] = s.todo[k + 1]
      /\ \A k \in DOMAIN s.todo : k = 1 \/ (k - 1 \in DOMAIN Tail(s.todo) /\ Tail(s.todo)[k - 1] = s.todo[k])
  OBVIOUS
<1> HIDE DEF e
<1>2. \A c : Unanswered(n, c) <=> Unanswered(s, c)
  BY DEF Unanswered, FirstOpen
<1>3. events \cup Coming(s) \subseteq (events \cup {e}) \cup Coming(n)
  <2>1. ASSUME NEW k \in DOMAIN s.todo
        PROVE  s.todo[k] = e \/ (n.pc = "append" /\ s.todo[k] \in {n.todo[j] : j \in DOMAIN n.todo})
    <3>1. CASE n.pc = "append" /\ n.todo = Tail(s.todo)
      BY <1>1, <3>1
    <3>2. CASE Tail(s.todo) = <<>>
      <4>1. DOMAIN Tail(s.todo) = {}
        BY <3>2
      <4> QED
        BY <1>1, <4>1
    <3> QED
      BY <3>1, <3>2
  <2> QED
    BY <2>1 DEF Coming
<1>4. AsksNext(r, n)
  <2> SUFFICES ASSUME n.pc = "append", NEW k \in DOMAIN n.todo, n.todo[k].type = "assistant"
               PROVE  /\ At(n) = "decide" /\ n.todo[k].thread = n.thread /\ n.todo[k].turn = r
                      /\ \A m \in DOMAIN n.todo[k].data : Unanswered(n, n.todo[k].data[m].id)
    BY DEF AsksNext
  <2>1. k + 1 \in DOMAIN s.todo /\ n.todo[k] = s.todo[k + 1]
    BY <1>1
  <2> QED
    BY <1>2, <2>1 DEF ClosedIn, AsksNext
<1>5. CallsClosed(r, n, events \cup {e})
  <2> SUFFICES ASSUME At(n) # "return", NEW f \in events \cup {e}, f.type = "assistant",
                      f.thread = n.thread, NEW k \in DOMAIN f.data
               PROVE  \/ Answered(f, f.data[k].id, (events \cup {e}) \cup Coming(n))
                      \/ f.turn = r /\ Unanswered(n, f.data[k].id)
    BY DEF CallsClosed
  <2>1. CASE f \in events
    <3>1. \/ Answered(f, f.data[k].id, events \cup Coming(s))
          \/ f.turn = r /\ Unanswered(s, f.data[k].id)
      BY <2>1 DEF ClosedIn, CallsClosed
    <3> QED
      BY <1>2, <1>3, <3>1, AnsweredGrows
  <2>2. CASE f = e
    <3>1. f.turn = r /\ Unanswered(s, f.data[k].id)
      BY <1>1, <2>2 DEF ClosedIn, AsksNext
    <3> QED
      BY <1>2, <3>1
  <2> QED
    BY <2>1, <2>2
<1> QED
  BY <1>4, <1>5 DEF ClosedIn, NoCalls, e

\* A step of a turn that leaves the store alone.
LEMMA MoveClosed ==
    ASSUME NEW t, NEW s \in RunStates, NEW n, TurnMove(t, s, n), ClosedIn(t, s, Records),
           CallsOnce(s)
    PROVE  ClosedIn(t, n, Records)
<1>0. /\ s.calls \in Seq(ToolCall) /\ s.index \in Nat \ {0}
      /\ At(s) = s.pc /\ s.pc \notin {"append", "recover", "return"}
  BY DEF TurnMove, At, RunStates, Labels
<1>1. ASSUME NEW e \in Records, e.type = "assistant", e.thread = s.thread, NEW k \in DOMAIN e.data
      PROVE  \/ Answered(e, e.data[k].id, Records)
             \/ e.turn = t /\ Unanswered(s, e.data[k].id)
  <2>1. Records \cup Coming(s) = Records
    BY <1>0 DEF Coming
  <2> QED
    BY <1>0, <1>1, <2>1 DEF ClosedIn, CallsClosed
<1>2. ASSUME NEW e, NEW c, Answered(e, c, Records) PROVE Answered(e, c, Records \cup Coming(n))
  BY <1>2, AnsweredGrows
<1>3. ASSUME Plain(n) PROVE AsksNext(t, n)
  BY <1>3 DEF Plain, AsksNext
<1>4. CASE Returning(t, n)
  <2>1. AsksNext(t, n)
    <3>1. CASE Plain(n)
      BY <1>3, <3>1
    <3>2. CASE n.todo = <<TurnOf("turn_completed", t)>>
      <4>1. TurnOf("turn_completed", t).type # "assistant"
        BY DEF TurnOf, TurnEvent, Event
      <4> QED
        BY <3>2, <4>1 DEF AsksNext
    <3> QED
      BY <1>4, <3>1, <3>2 DEF Returning
  <2>2. At(n) = "return"
    BY <1>4 DEF Returning, At
  <2> QED
    BY <2>1, <2>2 DEF ClosedIn, CallsClosed, NoCalls, BetweenResponses
<1>5. CASE KeepsCalls(s, n)
  <2>1. \A c : Unanswered(n, c) <=> Unanswered(s, c)
    BY <1>5 DEF Unanswered, KeepsCalls
  <2>2. CallsClosed(t, n, Records)
    BY <1>1, <1>2, <2>1 DEF CallsClosed, TurnMove
  <2>3. NoCalls(n)
    BY <1>0, <1>5 DEF ClosedIn, NoCalls, KeepsCalls
  <2> QED
    BY <1>3, <1>5, <2>2, <2>3 DEF ClosedIn, KeepsCalls
<1>6. CASE ClosesCall(t, s, n)
  <2>1. PICK m \in DOMAIN n.todo :
           /\ n.todo[m].type = "receipt" /\ n.todo[m].thread = s.thread
           /\ n.todo[m].turn = t /\ n.todo[m].call = s.calls[s.index].id
    BY <1>6 DEF ClosesCall
  <2>2. n.pc = "append" /\ At(n) \in {"call", "after"}
    BY <1>6 DEF ClosesCall, At
  <2>3. n.todo[m] \in Records \cup Coming(n)
    BY <2>2 DEF Coming
  <2>4. ASSUME NEW e, e.thread = s.thread, e.turn = t, NEW c, Unanswered(s, c)
        PROVE  Unanswered(n, c) \/ Answered(e, c, Records \cup Coming(n))
    <3>1. PICK j \in DOMAIN s.calls : j >= s.index /\ s.calls[j].id = c
      BY <1>6, <2>4 DEF Unanswered, ClosesCall
    <3>2. CASE j = s.index
      BY <2>1, <2>3, <2>4, <3>1, <3>2 DEF Answered
    <3>3. CASE j # s.index
      <4>1. j \in Nat /\ j >= s.index + 1
        BY <1>0, <3>1, <3>3
      <4> QED
        BY <1>6, <3>1, <4>1 DEF Unanswered, ClosesCall
    <3> QED
      BY <3>2, <3>3
  <2>5. CallsClosed(t, n, Records)
    BY <1>1, <1>2, <2>4 DEF CallsClosed, TurnMove
  <2>6. NoCalls(n)
    BY <2>2 DEF NoCalls, BetweenResponses
  <2> QED
    BY <1>3, <1>6, <2>5, <2>6 DEF ClosedIn, ClosesCall
<1>7. CASE AsksForCalls(t, s, n)
  <2>1. s.calls = <<>>
    BY <1>0, <1>7 DEF ClosedIn, NoCalls, AsksForCalls, BetweenResponses
  <2>2. \A c : ~Unanswered(s, c)
    <3>1. DOMAIN s.calls = {}
      BY <2>1
    <3> QED
      BY <3>1 DEF Unanswered
  <2>3. CallsClosed(t, n, Records)
    BY <1>1, <1>2, <2>2 DEF CallsClosed, TurnMove
  <2>4. n.pc = "append" /\ At(n) = "decide" /\ n.thread = s.thread /\ n.index = s.index
    BY <1>7 DEF AsksForCalls, At, TurnMove
  <2> DEFINE message == AssistantMessage(s.thread, t, n.calls)
  <2>5. message.thread = s.thread /\ message.turn = t /\ message.data = n.calls
    BY DEF AssistantMessage, Event
  <2>6. \A k \in DOMAIN n.todo : n.todo[k] = message
    BY <1>7 DEF AsksForCalls
  <2> HIDE DEF message
  <2>7. AsksNext(t, n)
    <3>1. ASSUME NEW m \in DOMAIN n.calls PROVE Unanswered(n, n.calls[m].id)
      <4>1. PICK j \in 0..MaxCalls : n.calls \in [1..j -> ToolCall]
        BY <1>7 DEF AsksForCalls, Responses
      <4>2. j \in Nat /\ m \in 1..j
        BY <3>1, <4>1, BoundsAssumption
      <4>3. FirstOpen(n, "receipt") = 1
        BY <1>0, <1>7, <2>4 DEF FirstOpen, CallsOnce, Early, AsksForCalls
      <4> QED
        BY <3>1, <4>2, <4>3 DEF Unanswered
    <3> QED
      BY <2>4, <2>5, <2>6, <3>1 DEF AsksNext
  <2> QED
    BY <2>3, <2>4, <2>7 DEF ClosedIn, NoCalls, BetweenResponses
<1>8. CASE NextRound(s, n)
  <2>1. \A c : ~Unanswered(s, c)
    <3>1. DOMAIN s.calls = 1..Len(s.calls) /\ Len(s.calls) \in Nat
      BY <1>0
    <3>2. FirstOpen(s, "receipt") = s.index
      BY <1>8 DEF NextRound, FirstOpen, At
    <3> QED
      BY <1>0, <1>8, <3>1, <3>2 DEF Unanswered, NextRound
  <2>2. CallsClosed(t, n, Records)
    BY <1>1, <1>2, <2>1 DEF CallsClosed, TurnMove
  <2>3. AsksNext(t, n) /\ NoCalls(n)
    BY <1>8 DEF NextRound, AsksNext, NoCalls
  <2> QED
    BY <2>2, <2>3 DEF ClosedIn
<1> QED
  BY <1>4, <1>5, <1>6, <1>7, <1>8 DEF TurnMove

-----------------------------------------------------------------------------
(* The steps of the store keep receipts behind what they answer.           *)

\* A step that leaves the store alone.
LEMMA StillClosed ==
    ASSUME ClosedInv, UNCHANGED storeVars,
           \A q \in Runs : run'[q].pc # "idle" => ClosedIn(q, run'[q], Records)
    PROVE  ClosedInv'
<1>1. Records' = Records
  BY DEF Records, storeVars
<1>2. LogOrder' /\ PendingOrder'
  BY <1>1 DEF ClosedInv, LogOrder, PendingOrder, storeVars
<1> QED
  BY <1>1, <1>2 DEF ClosedInv, RunsClosed

\* An append that returned Ok.
LEMMA AppendedClosed ==
    ASSUME ClosedInv, OnceInv, log \in Seq(Events), NEW e \in Events, StoreAppend(e),
           \A f \in Records : ~Answers(f, e),
           \A q \in Runs : run'[q].pc # "idle" => ClosedIn(q, run'[q], Records \cup {e})
    PROVE  ClosedInv'
<1>1. log' = Append(log, e) /\ ~broken /\ UNCHANGED <<pending, broken>>
  BY DEF StoreAppend
<1>2. Records' = Records \cup {e}
  BY <1>1 DEF Records
<1>3. LogOrder'
  <2> SUFFICES ASSUME NEW i \in DOMAIN log', NEW j \in DOMAIN log', i < j
               PROVE  ~Answers(log'[i], log'[j])
    BY DEF LogOrder, Answers
  <2>1. i \in DOMAIN log /\ log'[i] = log[i]
    BY <1>1
  <2>2. CASE j \in DOMAIN log
    BY <1>1, <2>1, <2>2 DEF ClosedInv, LogOrder
  <2>3. CASE j \notin DOMAIN log
    <3>1. log'[j] = e
      BY <1>1, <2>3
    <3> QED
      BY <2>1, <3>1 DEF Records
  <2> QED
    BY <2>2, <2>3
<1>4. PendingOrder'
  <2>1. pending' = <<>>
    BY <1>1 DEF OnceInv, PendingOnce
  <2>2. DOMAIN pending' = {}
    BY <2>1
  <2> QED
    BY <2>2 DEF PendingOrder
<1> QED
  BY <1>2, <1>3, <1>4 DEF ClosedInv, RunsClosed

\* An append that failed.
LEMMA FailedClosed ==
    ASSUME ClosedInv, NEW e, StoreFail(e), \A f \in Records : ~Answers(f, e),
           \A q \in Runs : run'[q].pc # "idle" => run'[q] = run[q]
    PROVE  ClosedInv'
<1>1. UNCHANGED log /\ (pending' = <<>> \/ pending' = <<e>>)
  BY DEF StoreFail
<1>2. Records' = Records
  BY <1>1 DEF Records
<1>3. LogOrder'
  BY <1>1 DEF ClosedInv, LogOrder
<1>4. PendingOrder'
  <2>1. \A k \in DOMAIN pending' : pending'[k] = e
    BY <1>1
  <2> QED
    BY <1>2, <2>1 DEF PendingOrder
<1> QED
  BY <1>2, <1>3, <1>4 DEF ClosedInv, RunsClosed

\* A restart ends all runs and keeps a prefix of the log with the pending record.
LEMMA RestartClosed ==
    ASSUME IInv, OnceInv, ClosedInv, Restart
    PROVE  ClosedInv'
<1>1. log \in Seq(Events) /\ pending \in Seq(Events) /\ synced \in 0..Len(log)
  BY DEF IInv, TypeOK
<1>2. PICK k \in synced..Len(log) + Len(pending) : log' = SubSeq(log \o pending, 1, k)
  BY DEF Restart, StoreReopen
<1>3. pending' = <<>> /\ run' = [r \in Runs |-> Idle]
  BY DEF Restart, StoreReopen
<1>4. LogOrder'
  <2> SUFFICES ASSUME NEW i \in DOMAIN log', NEW j \in DOMAIN log', i < j
               PROVE  ~Answers(log'[i], log'[j])
    BY DEF LogOrder, Answers
  <2>1. /\ Len(log) \in Nat /\ Len(pending) \in Nat /\ Len(pending) =< 1
        /\ i \in 1..Len(log) + Len(pending) /\ j \in 1..Len(log) + Len(pending)
        /\ log'[i] = (log \o pending)[i] /\ log'[j] = (log \o pending)[j]
    <3>1. Len(log) \in Nat /\ Len(pending) \in Nat /\ Len(pending) =< 1
      BY <1>1 DEF OnceInv, PendingOnce
    <3>2. log \o pending \in Seq(Events) /\ Len(log \o pending) = Len(log) + Len(pending)
      BY <1>1
    <3>3. k \in Nat /\ k =< Len(log) + Len(pending)
      BY <1>1, <3>1
    <3>4. DOMAIN log' = 1..k /\ \A m \in 1..k : log'[m] = (log \o pending)[m]
      BY <1>2, <3>2, <3>3
    <3> QED
      BY <3>1, <3>3, <3>4
  <2>2. i \in DOMAIN log /\ log'[i] = log[i]
    BY <1>1, <2>1
  <2>3. CASE j \in DOMAIN log
    <3>1. log'[j] = log[j]
      BY <1>1, <2>1, <2>3
    <3> QED
      BY <2>2, <2>3, <3>1 DEF ClosedInv, LogOrder
  <2>4. CASE j \notin DOMAIN log
    <3>1. 1 \in DOMAIN pending /\ log'[j] = pending[1]
      BY <1>1, <2>1, <2>4
    <3> QED
      BY <2>2, <3>1 DEF ClosedInv, PendingOrder, Records
  <2> QED
    BY <2>3, <2>4
<1>5. PendingOrder'
  <2>1. DOMAIN pending' = {}
    BY <1>3
  <2> QED
    BY <2>1 DEF PendingOrder
<1>6. RunsClosed'
  BY <1>3 DEF RunsClosed, Idle
<1> QED
  BY <1>4, <1>5, <1>6 DEF ClosedInv

\* start_thread appends an event that neither asks nor answers.
LEMMA StartThreadClosed ==
    ASSUME IInv, OnceInv, ClosedInv, NEW th \in Threads, StartThread(th)
    PROVE  ClosedInv'
<1> DEFINE e == Event("thread_started", th, None, None, None)
<1>1. e \in Events /\ e.type # "assistant"
  BY DEF Event, Events, PlainEvents
<1>2. StoreAppend(e) \/ StoreFail(e)
  BY DEF StartThread
<1>3. UNCHANGED run /\ log \in Seq(Events)
  BY DEF StartThread, IInv, TypeOK
<1> HIDE DEF e
<1>4. \A f \in Records : ~Answers(f, e)
  BY <1>1 DEF Answers
<1>5. \A q \in Runs : run[q].pc # "idle" => ClosedIn(q, run[q], Records \cup {e})
  BY <1>1, OtherClosed DEF ClosedInv, RunsClosed
<1> QED
  BY <1>1, <1>2, <1>3, <1>4, <1>5, AppendedClosed, FailedClosed

\* No receipt answers what a run is about to append.
LEMMA HeadOrdered ==
    ASSUME IInv, OnceInv, ClosedInv, NEW r \in Runs, run[r].pc = "append",
           NEW f \in Records
    PROVE  ~Answers(f, Head(run[r].todo))
<1> DEFINE s == run[r]
           e == Head(s.todo)
<1>1. e = s.todo[1] /\ 1 \in DOMAIN s.todo
  BY HeadFresh
<1>2. LogDone(r, s, Records) /\ AsksNext(r, s)
  BY DEF OnceInv, RunsOnce, OnceIn, ClosedInv, RunsClosed, ClosedIn
<1> HIDE DEF e
<1> SUFFICES ASSUME Answers(f, e) PROVE FALSE
  BY DEF e
<1>3. /\ At(s) = "decide" /\ e.thread = s.thread /\ e.turn = r
      /\ \A m \in DOMAIN e.data : Unanswered(s, e.data[m].id)
  BY <1>1, <1>2 DEF AsksNext, Answers
<1>4. f.type = "receipt" /\ f.thread = s.thread /\ f.turn = r /\ Unanswered(s, f.call)
  BY <1>3 DEF Answers
<1>5. ~Open(s, "receipt", f.call)
  <2>1. f.type \in Marks
    BY <1>4 DEF Marks
  <2> QED
    BY <1>2, <1>3, <1>4, <2>1 DEF LogDone, Done
<1> QED
  BY <1>4, <1>5 DEF Unanswered, Open

-----------------------------------------------------------------------------
(* The steps of a run.                                                     *)

\* A run that leaves without an append.
LEMMA LeaveClosed ==
    ASSUME IInv, ClosedInv, NEW r \in Runs, Leave(r), UNCHANGED storeVars
    PROVE  ClosedInv'
<1>1. \A q \in Runs : run'[q].pc # "idle" => run'[q] = run[q]
  BY DEF Leave, Idle, IInv, TypeOK
<1> QED
  BY <1>1, StillClosed DEF ClosedInv, RunsClosed

\* A step of one run that leaves the store alone.
LEMMA StepClosed ==
    ASSUME IInv, ClosedInv, NEW r \in Runs, NEW n, run' = [run EXCEPT ![r] = n],
           UNCHANGED storeVars, ClosedIn(r, n, Records)
    PROVE  ClosedInv'
<1>1. \A q \in Runs : run'[q].pc # "idle" => ClosedIn(q, run'[q], Records)
  BY DEF IInv, TypeOK, ClosedInv, RunsClosed
<1> QED
  BY <1>1, StillClosed

\* An append of a run that failed.
LEMMA AppendFailClosed ==
    ASSUME IInv, OnceInv, ClosedInv, NEW r \in Runs, AppendFail(r)
    PROVE  ClosedInv'
<1>1. run[r].pc = "append" /\ StoreFail(Head(run[r].todo)) /\ run' = [run EXCEPT ![r] = Idle]
  BY DEF AppendFail, Leave
<1>2. \A q \in Runs : run'[q].pc # "idle" => run'[q] = run[q]
  BY <1>1 DEF Idle, IInv, TypeOK
<1>3. \A f \in Records : ~Answers(f, Head(run[r].todo))
  BY <1>1, HeadOrdered
<1> QED
  BY <1>1, <1>2, <1>3, FailedClosed

\* An append of a run that returned Ok.
LEMMA AppendOkClosed ==
    ASSUME IInv, GuardExact, OnceInv, ClosedInv, NEW r \in Runs, AppendOk(r)
    PROVE  ClosedInv'
<1> DEFINE s == run[r]
           e == Head(s.todo)
<1>1. /\ run \in [Runs -> RunStates] /\ s \in RunStates /\ log \in Seq(Events)
      /\ RunOK(r, s, DurableEvents)
  BY DEF IInv, TypeOK, RunsOK
<1>2. s.pc = "append" /\ StoreAppend(e)
  BY DEF AppendOk
<1>3. s.todo \in Seq(Events) /\ s.todo # <<>> /\ e \in Events
  BY <1>2, HeadFresh
<1>4. ClosedIn(r, s, Records)
  BY <1>2 DEF ClosedInv, RunsClosed
<1>5. \A f \in Records : ~Answers(f, e)
  BY <1>2, HeadOrdered
<1>6. ASSUME NEW q \in Runs, q # r, run[q].pc # "idle"
      PROVE  ClosedIn(q, run[q], Records \cup {e})
  <2>1. run[q].thread # s.thread
    BY <1>2, <1>6 DEF GuardExact
  <2>2. e.type = "assistant" => e.thread # run[q].thread
    <3>1. e = s.todo[1] /\ 1 \in DOMAIN s.todo
      BY <1>3
    <3> QED
      BY <1>2, <1>4, <2>1, <3>1 DEF ClosedIn, AsksNext
  <2>3. ClosedIn(q, run[q], Records)
    BY <1>6 DEF ClosedInv, RunsClosed
  <2> HIDE DEF e, s
  <2> QED
    BY <2>2, <2>3, OtherClosed
<1>7. \/ run' = [run EXCEPT ![r].todo = Tail(s.todo)] /\ Tail(s.todo) # <<>>
      \/ run' = [run EXCEPT ![r] = Idle]
      \/ /\ Tail(s.todo) = <<>> /\ s.then # "return"
         /\ run' = [run EXCEPT ![r].pc = s.then, ![r].then = None, ![r].todo = <<>>]
  BY DEF AppendOk, Leave
<1>8. \A q \in Runs : q # r => run'[q] = run[q]
  BY <1>1, <1>7
<1>9. ASSUME run'[r].pc # "idle"
      PROVE  ClosedIn(r, run'[r], Records \cup {e})
  <2> DEFINE n == run'[r]
  <2>1. /\ \/ n.pc = "append" /\ n.todo = Tail(s.todo)
           \/ n.pc # "append" /\ Tail(s.todo) = <<>>
        /\ n.thread = s.thread /\ n.receipts = s.receipts
        /\ n.calls = s.calls /\ n.index = s.index /\ At(n) = At(s)
    <3>1. CASE run' = [run EXCEPT ![r].todo = Tail(s.todo)]
      BY <1>1, <1>2, <3>1 DEF RunStates, At
    <3>2. CASE run' = [run EXCEPT ![r] = Idle]
      BY <1>1, <1>9, <3>2 DEF Idle
    <3>3. CASE /\ Tail(s.todo) = <<>> /\ s.then # "return"
               /\ run' = [run EXCEPT ![r].pc = s.then, ![r].then = None, ![r].todo = <<>>]
      <4>1. s.then \in Labels
        BY <1>1, <1>2, <3>3 DEF RunOK
      <4>2. s.then # "append"
        BY <4>1 DEF Labels
      <4> QED
        BY <1>1, <1>2, <3>3, <4>2 DEF RunStates, At
    <3> QED
      BY <1>7, <3>1, <3>2, <3>3
  <2> HIDE DEF n, s, e
  <2>2. ClosedIn(r, n, Records \cup {Head(s.todo)})
    BY <1>2, <1>3, <1>4, <2>1, OwnClosed
  <2> QED
    BY <2>2 DEF n, e
<1> HIDE DEF e
<1>10. \A q \in Runs : run'[q].pc # "idle" => ClosedIn(q, run'[q], Records \cup {e})
  BY <1>6, <1>8, <1>9
<1> QED
  BY <1>1, <1>2, <1>3, <1>5, <1>10, AppendedClosed

\* A run that holds a thread anew finds what the thread has open.
LEMMA AcquireClosed ==
    ASSUME IInv, ClosedInv, NEW r \in Runs, NEW th \in Threads, Acquire(r, th)
    PROVE  ClosedInv'
<1> DEFINE n == [Idle EXCEPT !.pc = "recover", !.thread = th,
                             !.receipts = MissingReceipts(log, th),
                             !.failures = RecoveryFailures(log, th)]
<1>1. run' = [run EXCEPT ![r] = n] /\ UNCHANGED storeVars
  BY DEF Acquire
<1>2. /\ n.pc = "recover" /\ At(n) = "recover" /\ n.thread = th
      /\ n.receipts = MissingReceipts(log, th) /\ n.calls = <<>>
  BY DEF Idle, At
<1> HIDE DEF n
<1>3. log \in Seq(Events)
  BY DEF IInv, TypeOK
<1>4. Coming(n) = MissingReceipts(log, th)
  BY <1>2 DEF Coming
<1>5. ASSUME NEW e \in Records, e.type = "assistant", e.thread = th, NEW k \in DOMAIN e.data
      PROVE  Answered(e, e.data[k].id, Records \cup Coming(n))
  BY <1>3, <1>4, <1>5, MissingCovers
<1>6. ClosedIn(r, n, Records)
  BY <1>2, <1>5 DEF ClosedIn, CallsClosed, AsksNext, NoCalls
<1> QED
  BY <1>1, <1>6, StepClosed

\* A recovering run queues events that ask for nothing, and forgets no receipt.
LEMMA RecoveringClosed ==
    ASSUME NEW r, NEW s, NEW n, NEW events, ClosedIn(r, s, events), s.pc = "recover",
           n.pc = "append", n.then \in {"recover", "load"},
           n.thread = s.thread, n.calls = s.calls, n.index = s.index,
           s.receipts \subseteq Coming(n),
           \A k \in DOMAIN n.todo : n.todo[k].type # "assistant"
    PROVE  ClosedIn(r, n, events)
<1>1. At(s) = "recover" /\ At(n) \in {"recover", "load"} /\ Coming(s) \subseteq Coming(n)
  BY DEF At, Coming
<1>2. \A c : Unanswered(s, c) <=> Unanswered(n, c)
  BY <1>1 DEF Unanswered, FirstOpen
<1>3. ASSUME NEW e, NEW c, Answered(e, c, events \cup Coming(s))
      PROVE  Answered(e, c, events \cup Coming(n))
  <2>1. events \cup Coming(s) \subseteq events \cup Coming(n)
    BY <1>1
  <2> QED
    BY <1>3, <2>1, AnsweredGrows
<1>4. CallsClosed(r, n, events)
  BY <1>1, <1>2, <1>3 DEF ClosedIn, CallsClosed
<1>5. NoCalls(n)
  BY <1>1 DEF ClosedIn, NoCalls, BetweenResponses
<1> QED
  BY <1>4, <1>5 DEF ClosedIn, AsksNext

\* Recovery moves one missing receipt, or the failure of a turn, into the queue.
LEMMA RecoverAppendClosed ==
    ASSUME IInv, ClosedInv, NEW r \in Runs, RecoverAppend(r)
    PROVE  ClosedInv'
<1> DEFINE s == run[r]
<1>1. s.pc = "recover" /\ s \in RunStates /\ ClosedIn(r, s, Records)
  BY DEF RecoverAppend, IInv, TypeOK, ClosedInv, RunsClosed
<1>2. ASSUME NEW less \in RunStates, NEW e, Step(r, Emit(less, <<e>>, "recover")),
             less.thread = s.thread, less.calls = s.calls, less.index = s.index,
             s.receipts \subseteq less.receipts \cup {e}, e.type # "assistant"
      PROVE  ClosedInv'
  <2> DEFINE n == Emit(less, <<e>>, "recover")
  <2>1. run' = [run EXCEPT ![r] = n] /\ UNCHANGED storeVars
    BY <1>2 DEF Step
  <2>2. /\ n.pc = "append" /\ n.then = "recover" /\ n.todo = <<e>> /\ n.thread = s.thread
        /\ n.receipts = less.receipts /\ n.calls = s.calls /\ n.index = s.index
    BY <1>2, EmitShape
  <2> HIDE DEF n, s
  <2>3. \A k \in DOMAIN n.todo : n.todo[k] = e
    BY <2>2
  <2>4. 1 \in DOMAIN n.todo /\ n.todo[1] = e /\ At(n) = "recover"
    BY <2>2 DEF At
  <2>5. s.receipts \subseteq Coming(n)
    BY <1>2, <2>2, <2>4 DEF Coming
  <2>6. n.then \in {"recover", "load"} /\ \A k \in DOMAIN n.todo : n.todo[k].type # "assistant"
    BY <1>2, <2>2, <2>3
  <2>7. ClosedIn(r, n, Records)
    BY <1>1, <2>2, <2>5, <2>6, RecoveringClosed
  <2> QED
    BY <2>1, <2>7, StepClosed
<1>3. ASSUME NEW e \in s.receipts,
             Step(r, Emit([s EXCEPT !.receipts = @ \ {e}], <<e>>, "recover"))
      PROVE  ClosedInv'
  <2> DEFINE less == [s EXCEPT !.receipts = @ \ {e}]
  <2>1. /\ less \in RunStates /\ less.thread = s.thread /\ less.receipts = s.receipts \ {e}
        /\ less.calls = s.calls /\ less.index = s.index
    BY <1>1 DEF RunStates
  <2>2. e.type # "assistant"
    BY <1>1 DEF RunStates, ReceiptEvents
  <2>3. Step(r, Emit(less, <<e>>, "recover"))
    BY <1>3
  <2> HIDE DEF less
  <2> QED
    BY <1>2, <2>1, <2>2, <2>3
<1>4. ASSUME NEW e \in s.failures,
             Step(r, Emit([s EXCEPT !.failures = @ \ {e}], <<e>>, "recover"))
      PROVE  ClosedInv'
  <2> DEFINE less == [s EXCEPT !.failures = @ \ {e}]
  <2>1. /\ less \in RunStates /\ less.thread = s.thread /\ less.receipts = s.receipts
        /\ less.calls = s.calls /\ less.index = s.index
    BY <1>1 DEF RunStates
  <2>2. e.type # "assistant"
    BY <1>1 DEF RunStates, PlainEvents, Terminal
  <2>3. Step(r, Emit(less, <<e>>, "recover"))
    BY <1>4
  <2> HIDE DEF less
  <2> QED
    BY <1>2, <2>1, <2>2, <2>3
<1> QED
  BY <1>3, <1>4 DEF RecoverAppend

\* After recovery a turn is announced, and recover returns.
LEMMA RecoveredClosed ==
    ASSUME IInv, ClosedInv, NEW r \in Runs, Recovered(r)
    PROVE  ClosedInv'
<1>1. CASE r \in Turns
  <2> DEFINE s == run[r]
             events == <<TurnOf("turn_started", r), TurnOf("user", r)>>
             n == Emit(s, events, "load")
  <2>1. /\ s.pc = "recover" /\ s.receipts = {} /\ s \in RunStates /\ ClosedIn(r, s, Records)
        /\ run' = [run EXCEPT ![r] = n] /\ UNCHANGED storeVars
    BY <1>1 DEF Recovered, Step, IInv, TypeOK, ClosedInv, RunsClosed
  <2>2. \A k \in DOMAIN events : events[k].type # "assistant"
    BY DEF TurnOf, TurnEvent, Event
  <2> HIDE DEF events
  <2>3. /\ n.pc = "append" /\ n.then = "load" /\ n.todo = events /\ n.thread = s.thread
        /\ n.calls = s.calls /\ n.index = s.index
    BY <2>1, EmitShape
  <2> HIDE DEF n, s
  <2>4. n.then \in {"recover", "load"} /\ s.receipts \subseteq Coming(n)
    BY <2>1, <2>3
  <2>5. ClosedIn(r, n, Records)
    BY <2>1, <2>2, <2>3, <2>4, RecoveringClosed
  <2> QED
    BY <2>1, <2>5, StepClosed
<1>2. CASE r \notin Turns
  BY <1>2, LeaveClosed DEF Recovered
<1> QED
  BY <1>1, <1>2

\* A turn does nothing to the store but append, and leaves its token alone.
LEMMA TurnStepStore ==
    ASSUME NEW t \in Turns, TurnStep(t) \/ \E decision \in Decisions : Approval(t, decision)
    PROVE  UNCHANGED <<storeVars, cancelled>>
<1>1. ASSUME NEW s, Step(t, s) PROVE UNCHANGED <<storeVars, cancelled>>
  BY <1>1 DEF Step
<1>2. ASSUME NEW s, NEW m, StepPush(t, s, m) PROVE UNCHANGED <<storeVars, cancelled>>
  BY <1>2 DEF StepPush
<1>3. ASSUME NEW events, EndTurn(t, events) PROVE UNCHANGED <<storeVars, cancelled>>
  BY <1>1, <1>3 DEF EndTurn
<1>4. ASSUME NEW events, CloseCall(t, events) PROVE UNCHANGED <<storeVars, cancelled>>
  BY <1>2, <1>4 DEF CloseCall
<1>5. CASE Load(t) \/ Execute(t) \/ \E how \in ExecutorAnswers : Executed(t, how)
  BY <1>5 DEF Load, Execute, Executed
<1>6. CASE Loop(t)
  BY <1>1, <1>3, <1>6 DEF Loop
<1>7. CASE ModelError(t) \/ \E calls \in Responses, stop \in StopReasons : ModelResponse(t, calls, stop)
  BY <1>2, <1>3, <1>7 DEF ModelError, ModelResponse
<1>8. CASE Decide(t) \/ NextCall(t) \/ AfterTool(t)
  BY <1>1, <1>3, <1>8 DEF Decide, NextCall, AfterTool
<1>9. CASE Prepare(t) \/ Gate(t) \/ \E decision \in Decisions : Approval(t, decision)
  BY <1>1, <1>4, <1>9 DEF Prepare, Gate, Approval
<1> QED
  BY <1>5, <1>6, <1>7, <1>8, <1>9 DEF TurnStep

\* A run that is not the one of the step stays as it is.
LEMMA OthersKept ==
    ASSUME IInv, NEW r \in Runs,
           \/ RunStep(r) \/ AppendFail(r) \/ Drop(r) \/ \E th : Acquire(r, th)
           \/ /\ r \in Turns
              /\ TurnStep(r) \/ \E decision \in Decisions : Approval(r, decision)
    PROVE  \A q \in Runs : q # r => run'[q] = run[q]
<1>0. run \in [Runs -> RunStates]
  BY DEF IInv, TypeOK
<1>1. ASSUME NEW s, run' = [run EXCEPT ![r] = s]
      PROVE  \A q \in Runs : q # r => run'[q] = run[q]
  BY <1>0, <1>1
<1>2. CASE RecoverAppend(r) \/ Recovered(r)
  BY <1>1, <1>2 DEF RecoverAppend, Recovered, Step, Leave
<1>3. CASE AppendOk(r)
  BY <1>0, <1>3 DEF AppendOk, Leave
<1>4. CASE AppendRefused(r) \/ AppendFail(r) \/ Drop(r)
  BY <1>1, <1>4 DEF AppendRefused, AppendFail, Drop, Leave
<1>5. CASE \E th : Acquire(r, th)
  BY <1>1, <1>5 DEF Acquire
<1>6. CASE /\ r \in Turns
           /\ TurnStep(r) \/ \E decision \in Decisions : Approval(r, decision)
  BY <1>6, LoopStepsGoOn, CallStepsGoOn DEF TurnStep, GoesOn
<1> QED
  BY <1>2, <1>3, <1>4, <1>5, <1>6 DEF RunStep

\* The turn itself.
LEMMA TurnClosed ==
    ASSUME IInv, OnceInv, ClosedInv, NEW t \in Turns,
           TurnStep(t) \/ \E decision \in Decisions : Approval(t, decision)
    PROVE  ClosedInv'
<1>1. t \in Runs /\ run[t] \in RunStates
  BY DEF IInv, TypeOK, Runs
<1>2. TurnMove(t, run[t], run'[t])
  BY TurnMoves
<1>3. run[t].pc # "idle"
  BY <1>2 DEF TurnMove
<1>4. CallsOnce(run[t]) /\ ClosedIn(t, run[t], Records)
  BY <1>1, <1>3 DEF OnceInv, RunsOnce, OnceIn, ClosedInv, RunsClosed
<1>5. ClosedIn(t, run'[t], Records)
  BY <1>1, <1>2, <1>4, MoveClosed
<1>6. \A q \in Runs : q # t => run'[q] = run[q]
  BY <1>1, OthersKept
<1>7. \A q \in Runs : run'[q].pc # "idle" => ClosedIn(q, run'[q], Records)
  BY <1>5, <1>6 DEF ClosedInv, RunsClosed
<1> QED
  BY <1>7, TurnStepStore, StillClosed

\* Every step of the runtime keeps the calls closed.
LEMMA CoreClosed == IInv /\ GuardExact /\ OnceInv /\ ClosedInv /\ Core => ClosedInv'
<1> SUFFICES ASSUME IInv, GuardExact, OnceInv, ClosedInv, Core PROVE ClosedInv'
  OBVIOUS
<1>1. ASSUME NEW th \in Threads, StartThread(th) \/ \E r \in Runs : Begins(r, th)
      PROVE  ClosedInv'
  BY <1>1, StartThreadClosed, AcquireClosed DEF Begins
<1>2. ASSUME NEW r \in Runs, RunStep(r) \/ AppendFail(r)
      PROVE  ClosedInv'
  BY <1>2, RecoverAppendClosed, RecoveredClosed, AppendOkClosed, AppendFailClosed, LeaveClosed
     DEF RunStep, AppendRefused
<1>3. ASSUME NEW t \in Turns, TurnStep(t) \/ \E decision \in Decisions : Approval(t, decision)
      PROVE  ClosedInv'
  BY <1>3, TurnClosed
<1>4. ASSUME NEW t \in Turns, Drop(t)
      PROVE  ClosedInv'
  BY <1>4, LeaveClosed DEF Drop, Runs
<1>5. CASE Signals
  BY <1>5, StillClosed DEF Signals, ClosedInv, RunsClosed
<1> QED
  BY <1>1, <1>2, <1>3, <1>4, <1>5, RestartClosed DEF Core

-----------------------------------------------------------------------------
(* What the model is given.                                                *)

\* Every message among the first n events of the thread has its place in the table of
\* transcripts, behind the places of the messages before it.
Placed(f, n, events, th, i, m) ==
    /\ m \in 1..n /\ events[m] = f[n][i] /\ events[m].thread = th
    /\ \A q \in m + 1..n : events[q].thread = th /\ events[q].type \in Messages =>
          \E j \in DOMAIN f[n] : j > i /\ f[n][j] = events[q]

LEMMA PlacesFound ==
    ASSUME NEW n \in Nat, NEW events \in Seq(Events), n =< Len(events), NEW th, NEW f,
           Table(f, n, events, th)
    PROVE  \A k \in 0..n : /\ f[k] \in Seq(Events)
                           /\ \A i \in DOMAIN f[k] : \E m : Placed(f, k, events, th, i, m)
<1> DEFINE Good(k) == /\ f[k] \in Seq(Events)
                      /\ \A i \in DOMAIN f[k] : \E m : Placed(f, k, events, th, i, m)
           S == {k \in 0..n : ~Good(k)}
<1>1. Good(0)
  <2>1. f[0] = <<>>
    BY DEF Table
  <2>2. f[0] \in Seq(Events) /\ DOMAIN f[0] = {}
    BY <2>1
  <2> QED
    BY <2>2
<1>2. ASSUME NEW k \in 1..n, Good(k - 1) PROVE Good(k)
  <2> DEFINE e == events[k]
             old == f[k - 1]
  <2>1. /\ k \in 0..n /\ k # 0 /\ k - 1 \in 0..n /\ k \in 1..Len(events) /\ e \in Events
        /\ k \in Nat /\ k - 1 \in Nat
    BY <1>2
  <2>2. f[k] = Pushed(old, e, th)
    BY <2>1 DEF Table
  <2>3. old \in Seq(Events) /\ \A i \in DOMAIN old : \E m : Placed(f, k - 1, events, th, i, m)
    BY <1>2
  <2>4. CASE e.thread = th /\ e.type \in Messages
    <3>1. f[k] = Append(old, e)
      BY <2>2, <2>4 DEF Pushed
    <3>2. /\ f[k] \in Seq(Events) /\ DOMAIN f[k] = 1..Len(old) + 1 /\ Len(old) \in Nat
          /\ f[k][Len(old) + 1] = e /\ \A i \in 1..Len(old) : f[k][i] = old[i]
          /\ DOMAIN old = 1..Len(old)
      BY <2>1, <2>3, <3>1
    <3> HIDE DEF e, old
    <3>3. ASSUME NEW i \in DOMAIN f[k] PROVE \E m : Placed(f, k, events, th, i, m)
      <4>1. CASE i = Len(old) + 1
        <5>1. k + 1..k = {} /\ k \in 1..k
          BY <2>1
        <5>2. Placed(f, k, events, th, i, k)
          BY <2>4, <3>2, <4>1, <5>1 DEF Placed, e
        <5> QED
          BY <5>2
      <4>2. CASE i \in 1..Len(old)
        <5>1. PICK m : Placed(f, k - 1, events, th, i, m)
          BY <2>3, <3>2, <4>2
        <5>2. m \in 1..k - 1 /\ m \in 1..k /\ events[m] = f[k][i] /\ events[m].thread = th
          BY <2>1, <3>2, <4>2, <5>1 DEF Placed, old
        <5>3. ASSUME NEW q \in m + 1..k, events[q].thread = th, events[q].type \in Messages
              PROVE  \E j \in DOMAIN f[k] : j > i /\ f[k][j] = events[q]
          <6>1. CASE q = k
            <7>1. Len(old) + 1 \in DOMAIN f[k] /\ Len(old) + 1 > i
              BY <3>2, <4>2
            <7> QED
              BY <3>2, <6>1, <7>1 DEF e
          <6>2. CASE q # k
            <7>1. q \in m + 1..k - 1
              BY <2>1, <5>2, <6>2
            <7>2. PICK j \in DOMAIN old : j > i /\ old[j] = events[q]
              BY <5>1, <5>3, <7>1 DEF Placed, old
            <7>3. j \in DOMAIN f[k] /\ f[k][j] = old[j]
              BY <3>2
            <7> QED
              BY <7>2, <7>3
          <6> QED
            BY <6>1, <6>2
        <5> QED
          BY <5>2, <5>3 DEF Placed
      <4> QED
        BY <3>2, <4>1, <4>2
    <3> QED
      BY <3>2, <3>3
  <2>5. CASE ~(e.thread = th /\ e.type \in Messages)
    <3>1. f[k] = old
      BY <2>2, <2>5 DEF Pushed
    <3>2. ASSUME NEW i \in DOMAIN f[k] PROVE \E m : Placed(f, k, events, th, i, m)
      <4>1. PICK m : Placed(f, k - 1, events, th, i, m)
        BY <2>3, <3>1
      <4>2. m \in 1..k - 1 /\ m \in 1..k /\ events[m] = f[k][i] /\ events[m].thread = th
        BY <2>1, <3>1, <4>1 DEF Placed
      <4>3. ASSUME NEW q \in m + 1..k, events[q].thread = th, events[q].type \in Messages
            PROVE  \E j \in DOMAIN f[k] : j > i /\ f[k][j] = events[q]
        <5>1. q # k
          BY <2>5, <4>3
        <5>2. q \in m + 1..k - 1
          BY <2>1, <4>2, <5>1
        <5> QED
          BY <3>1, <4>1, <4>3, <5>2 DEF Placed
      <4> QED
        BY <4>2, <4>3 DEF Placed
    <3> QED
      BY <2>3, <3>1, <3>2
  <2> QED
    BY <2>4, <2>5
<1>3. ASSUME S # {} PROVE FALSE
  <2>0. S \subseteq Nat
    OBVIOUS
  <2>1. PICK k \in S : \A y \in S : k =< y
    <3> HIDE DEF S
    <3> QED
      BY <1>3, <2>0, LeastExists
  <2>2. k \in 0..n /\ ~Good(k)
    BY <2>1
  <2>3. k \in 1..n
    <3>1. k # 0
      BY <1>1, <2>2
    <3> HIDE DEF Good
    <3> QED
      BY <2>2, <3>1
  <2>4. k - 1 \in 0..n /\ ~(k =< k - 1)
    BY <2>3
  <2>5. Good(k - 1)
    <3>1. k - 1 \notin S
      BY <2>1, <2>4
    <3> HIDE DEF Good
    <3> QED
      BY <2>4, <3>1
  <2> HIDE DEF Good
  <2> QED
    BY <1>2, <2>2, <2>3, <2>5
<1> HIDE DEF Good
<1>4. \A k \in 0..n : Good(k)
  BY <1>3
<1> QED
  BY <1>4 DEF Good

\* Calls that are closed make a closed transcript.
LEMMA ClosedSuffices == IInv /\ ScriptInv /\ ClosedInv => TranscriptClosed
<1> SUFFICES ASSUME IInv, ScriptInv, ClosedInv, NEW t \in Turns, run[t].pc = "model",
                    NEW i \in DOMAIN transcript[t], transcript[t][i].type = "assistant",
                    NEW k \in DOMAIN transcript[t][i].data
             PROVE  \E j \in DOMAIN transcript[t] :
                       /\ j > i /\ transcript[t][j].type = "receipt"
                       /\ transcript[t][j].turn = transcript[t][i].turn
                       /\ transcript[t][j].call = transcript[t][i].data[k].id
  BY DEF TranscriptClosed
<1> DEFINE s == run[t]
           e == transcript[t][i]
           c == e.data[k].id
           N == Len(log)
<1>1. t \in Runs /\ log \in Seq(Events) /\ N \in Nat /\ DOMAIN log = 1..N
  BY DEF IInv, TypeOK, Runs
<1>2. transcript[t] = TranscriptFromEvents(log, s.thread)
  BY ScriptSuffices DEF TranscriptIsReplay
<1>3. PICK f : Table(f, N, log, s.thread) /\ transcript[t] = f[N]
  BY <1>1, <1>2, ScriptTable
<1>4. PICK m : Placed(f, N, log, s.thread, i, m)
  <2>1. N \in 0..N
    BY <1>1
  <2> HIDE DEF N
  <2> QED
    BY <1>1, <1>3, <2>1, PlacesFound DEF N
<1>5. m \in 1..N /\ log[m] = e /\ log[m].thread = s.thread
  BY <1>3, <1>4 DEF Placed
<1>6. e.thread = s.thread
  BY <1>5
<1>7. PICK g \in Records : g.type = "receipt" /\ g.thread = e.thread /\ g.turn = e.turn /\ g.call = c
  <2>1. At(s) = "model" /\ Coming(s) = {}
    BY DEF At, Coming
  <2>2. ClosedIn(t, s, Records)
    BY <1>1 DEF ClosedInv, RunsClosed
  <2>3. ~Unanswered(s, c)
    <3>1. DOMAIN s.calls = {}
      BY <2>1, <2>2 DEF ClosedIn, NoCalls, BetweenResponses
    <3> QED
      BY <3>1 DEF Unanswered
  <2>4. Answered(e, c, Records \cup Coming(s))
    BY <1>1, <1>5, <1>6, <2>1, <2>2, <2>3 DEF ClosedIn, CallsClosed, Records
  <2> QED
    BY <2>1, <2>4 DEF Answered
<1>8. PICK q \in DOMAIN log : g = log[q]
  BY DEF Records
<1>9. Answers(log[q], log[m])
  BY <1>5, <1>7, <1>8 DEF Answers
<1>10. ~(q < m) /\ q # m
  <2>1. q # m
    BY <1>5, <1>7, <1>8
  <2> QED
    BY <1>1, <1>5, <1>9, <2>1 DEF ClosedInv, LogOrder
<1>11. q \in m + 1..N
  BY <1>1, <1>5, <1>10
<1>12. PICK j \in DOMAIN f[N] : j > i /\ f[N][j] = log[q]
  BY <1>4, <1>6, <1>7, <1>8, <1>11 DEF Placed, Messages
<1> QED
  BY <1>3, <1>7, <1>8, <1>12

\* No run asks for anything when the runtime is opened.
LEMMA InitClosed == Init => ClosedInv
BY DEF Init, StoreInit, ClosedInv, LogOrder, PendingOrder, RunsClosed, Idle

\* The calls are closed in every state of the runtime.
LEMMA ClosedInvariance == Spec => []ClosedInv
BY InitClosed, Invariance, GuardExactHolds, OnceInvariance, NextIInv, CoreClosed, PTL DEF Spec

\* Every transcript that run_turn gives to the model answers each call of each of its
\* assistant messages, with a receipt of the same turn behind the message: what a
\* cancelled, dropped or crashed turn left open, recover_thread closed before.
THEOREM TranscriptClosedHolds == Spec => []TranscriptClosed
<1>1. Spec => []ScriptInv
  BY InitScript, Invariance, GuardExactHolds, NextIInv, CoreScript, PTL DEF Spec
<1> QED
  BY <1>1, ClosedInvariance, ClosedSuffices, Invariance, PTL

-----------------------------------------------------------------------------
(* The runtime under the control plane.  The background threads of         *)
(* AppServer begin a turn only once and only with an id that is nowhere in *)
(* the store, so every step of the server is a step of the runtime, and    *)
(* all that holds of the runtime holds of the server.                      *)

\* What holds of the runtime, whoever drives it.
RuntimeInv == IInv /\ GuardExact /\ OnceInv /\ TruthInv /\ ScriptInv /\ ClosedInv

\* The table and the background threads.
TableOK ==
    /\ status \in [Turns -> Results \cup {"none", "running"}]
    /\ background \in [Turns -> [at : Results \cup {"none", "spawned", "running", "done", "dead", "lost"},
                                 thread : Threads \cup {None}]]
    /\ \A t \in Turns : background[t].at = "spawned" => background[t].thread \in Threads

\* Turn t is idle and nothing in the store, or on its way into it, is of turn t.
Unused(t) == run[t].pc = "idle" /\ \A e \in Written : e.turn # t

\* A turn that has not begun is unused.
NewUnused == \A t \in Turns : background[t].at \in {"none", "spawned"} => Unused(t)

\* The durable events say that turn t has ended this way.
Ended(t, how, durable) ==
    \E e \in durable :
        /\ e.turn = t
        /\ e.type = IF how = "completed" THEN "turn_completed" ELSE "turn_cancelled"

\* What a background thread has to publish, or has published, is durable.
EndsTrue ==
    \A t \in Turns : \A how \in {"completed", "cancelled"} :
        background[t].at = how \/ status[t] = how => Ended(t, how, DurableEvents)

ServerInv == RuntimeInv /\ TableOK /\ NewUnused /\ EndsTrue

\* Every step of the runtime keeps what holds of it.
LEMMA CoreRuntime == RuntimeInv /\ Core => RuntimeInv'
BY CoreIInv, CoreGuard, CoreOnce, CoreTruth, CoreScript, CoreClosed DEF RuntimeInv

\* What a step of the runtime does to the store: what it appends, or fails to append, is
\* the first event of a run's queue, or starts a thread.
Writes(e) ==
    /\ StoreAppend(e) \/ StoreFail(e)
    /\ \/ e.turn = None
       \/ \E r \in Runs : /\ AppendOk(r) \/ AppendFail(r)
                          /\ run[r].pc = "append" /\ e = Head(run[r].todo)

\* A step of Core leaves the store alone or writes to it as the runtime does.
LEMMA CoreStore ==
    ASSUME IInv, Core
    PROVE  \/ UNCHANGED storeVars
           \/ \E e \in Events : Writes(e)
           \/ StoreReopen
<1>1. ASSUME NEW th \in Threads, StartThread(th) PROVE \E e \in Events : Writes(e)
  <2> DEFINE e == Event("thread_started", th, None, None, None)
  <2>1. e \in Events /\ e.turn = None
    BY DEF Event, Events, PlainEvents
  <2>2. StoreAppend(e) \/ StoreFail(e)
    BY <1>1 DEF StartThread
  <2> HIDE DEF e
  <2> QED
    BY <2>1, <2>2 DEF Writes
<1>2. ASSUME NEW th \in Threads, NEW r \in Runs, Begins(r, th) PROVE UNCHANGED storeVars
  BY <1>2 DEF Begins, Acquire
<1>3. ASSUME NEW r \in Runs, AppendOk(r) \/ AppendFail(r)
      PROVE  \E e \in Events : Writes(e)
  <2>1. /\ run[r].pc = "append"
        /\ StoreAppend(Head(run[r].todo)) \/ StoreFail(Head(run[r].todo))
    BY <1>3 DEF AppendOk, AppendFail
  <2>2. run[r].todo \in Seq(Events) /\ run[r].todo # <<>>
    BY <2>1 DEF IInv, TypeOK, RunsOK, RunOK, RunStates
  <2>3. Head(run[r].todo) \in Events
    BY <2>2
  <2> QED
    BY <1>3, <2>1, <2>3 DEF Writes
<1>4. ASSUME NEW r \in Runs, RecoverAppend(r) \/ Recovered(r) \/ AppendRefused(r)
      PROVE  UNCHANGED storeVars
  BY <1>4 DEF RecoverAppend, Recovered, AppendRefused, Step
<1>5. ASSUME NEW t \in Turns, Drop(t) PROVE UNCHANGED storeVars
  BY <1>5 DEF Drop
<1> QED
  BY <1>1, <1>2, <1>3, <1>4, <1>5, TurnStepStore DEF Core, RunStep, Restart, Signals

\* What is durable stays, along every step of the runtime.
LEMMA CoreDurable ==
    ASSUME IInv, Core
    PROVE  DurableEvents \subseteq DurableEvents'
<1>1. PrefixKept
  BY CoreStore, StoreStepKeeps DEF Writes, IInv, TypeOK
<1>2. synced \in Nat
  BY DEF IInv, TypeOK
<1> QED
  BY <1>1, <1>2, DurableKept

\* A run that takes a step is not idle.
LEMMA BusySteps ==
    ASSUME IInv, NEW r \in Runs,
           \/ RunStep(r) \/ AppendFail(r) \/ Drop(r)
           \/ /\ r \in Turns
              /\ TurnStep(r) \/ \E decision \in Decisions : Approval(r, decision)
    PROVE  run[r].pc # "idle"
<1>1. CASE RunStep(r) \/ AppendFail(r) \/ Drop(r)
  BY <1>1 DEF RunStep, RecoverAppend, Recovered, AppendOk, AppendRefused, AppendFail, Drop, Awaiting
<1>2. CASE /\ r \in Turns
           /\ TurnStep(r) \/ \E decision \in Decisions : Approval(r, decision)
  BY <1>2, LoopStepsGoOn, CallStepsGoOn DEF TurnStep, GoesOn
<1> QED
  BY <1>1, <1>2

\* What becomes of the store was there, or was in a queue, or starts a thread.
LEMMA CoreWritten ==
    ASSUME IInv, Core, NEW e \in Written'
    PROVE  \/ e \in Written \/ e.turn = None
           \/ \E r \in Runs : /\ AppendOk(r) \/ AppendFail(r)
                              /\ run[r].pc = "append" /\ run[r].todo # <<>>
                              /\ e = Head(run[r].todo)
<1>0. log \in Seq(Events) /\ pending \in Seq(Events) /\ synced \in 0..Len(log)
  BY DEF IInv, TypeOK
<1>1. CASE UNCHANGED storeVars
  BY <1>1 DEF Written, Records, storeVars
<1>2. ASSUME NEW f \in Events, Writes(f)
      PROVE  e \in Written \/ e = f
  <2>1. CASE StoreAppend(f)
    <3>1. log' = Append(log, f) /\ pending' = pending
      BY <2>1 DEF StoreAppend
    <3>2. e \in {log'[i] : i \in DOMAIN log'} \/ e \in {pending[k] : k \in DOMAIN pending}
      BY <3>1 DEF Written, Records
    <3>3. \A i \in DOMAIN log' : log'[i] = f \/ (i \in DOMAIN log /\ log'[i] = log[i])
      BY <1>0, <3>1
    <3> QED
      BY <3>2, <3>3 DEF Written, Records
  <2>2. CASE StoreFail(f)
    <3>1. log' = log /\ (pending' = <<>> \/ pending' = <<f>>)
      BY <2>2 DEF StoreFail
    <3>2. \A k \in DOMAIN pending' : pending'[k] = f
      BY <3>1
    <3> QED
      BY <3>1, <3>2 DEF Written, Records
  <2> QED
    BY <1>2, <2>1, <2>2 DEF Writes
<1>3. CASE StoreReopen
  <2>1. PICK k \in synced..Len(log) + Len(pending) : log' = SubSeq(log \o pending, 1, k)
    BY <1>3 DEF StoreReopen
  <2>2. pending' = <<>>
    BY <1>3 DEF StoreReopen
  <2>3. k \in Nat /\ k =< Len(log \o pending) /\ Len(log) \in Nat /\ Len(pending) \in Nat
    BY <1>0, <2>1
  <2>4. ASSUME NEW i \in DOMAIN log' PROVE log'[i] \in Written
    <3>1. i \in 1..k /\ log'[i] = (log \o pending)[i]
      BY <1>0, <2>1, <2>3, <2>4
    <3>2. CASE i =< Len(log)
      <4>1. log'[i] = log[i] /\ i \in DOMAIN log
        BY <1>0, <2>3, <3>1, <3>2
      <4> QED
        BY <4>1 DEF Written, Records
    <3>3. CASE i > Len(log)
      <4>1. log'[i] = pending[i - Len(log)] /\ i - Len(log) \in DOMAIN pending
        BY <1>0, <2>3, <3>1, <3>3
      <4> QED
        BY <4>1 DEF Written, Records
    <3> QED
      BY <2>3, <3>1, <3>2, <3>3
  <2> QED
    BY <2>2, <2>4 DEF Written, Records
<1>4. ASSUME NEW r \in Runs, run[r].pc = "append" PROVE run[r].todo # <<>>
  BY <1>4 DEF IInv, RunsOK, RunOK
<1> QED
  BY <1>1, <1>2, <1>3, <1>4, CoreStore DEF Writes
\* Nobody else makes a turn that is unused used.
LEMMA UnusedKept ==
    ASSUME RuntimeInv, Core, NEW t \in Turns, Unused(t), ~\E th \in Threads : Begins(t, th)
    PROVE  Unused(t)'
<1>0. /\ IInv /\ ScriptInv /\ t \in Runs /\ run[t].pc = "idle"
      /\ \A e \in Written : e.turn # t
  BY DEF RuntimeInv, Runs, Unused
<1>1. run'[t].pc = "idle"
  <2>1. ASSUME NEW r \in Runs,
               \/ RunStep(r) \/ AppendFail(r) \/ Drop(r) \/ \E th \in Threads : Begins(r, th)
               \/ /\ r \in Turns
                  /\ TurnStep(r) \/ \E decision \in Decisions : Approval(r, decision)
        PROVE  run'[t] = run[t]
    <3>1. r # t
      BY <1>0, <2>1, BusySteps
    <3> QED
      BY <1>0, <2>1, <3>1, OthersKept DEF Begins
  <2>2. CASE Restart
    BY <1>0, <2>2 DEF Restart, Idle
  <2>3. ASSUME NEW th, StartThread(th) PROVE run' = run
    BY <2>3 DEF StartThread
  <2>4. CASE Signals
    BY <1>0, <2>4 DEF Signals
  <2> QED
    BY <1>0, <2>1, <2>2, <2>3, <2>4 DEF Core, Runs
<1>2. ASSUME NEW e \in Written' PROVE e.turn # t
  <2>1. CASE \E r \in Runs : run[r].pc = "append" /\ run[r].todo # <<>> /\ e = Head(run[r].todo)
    <3>1. PICK r \in Runs : run[r].pc = "append" /\ run[r].todo # <<>> /\ e = Head(run[r].todo)
      BY <2>1
    <3>2. run[r].todo \in Seq(Events)
      BY <1>0 DEF IInv, TypeOK, RunStates
    <3>3. e = run[r].todo[1] /\ 1 \in DOMAIN run[r].todo
      BY <3>1, <3>2
    <3>4. e \in Queue(run[r])
      BY <3>3 DEF Queue
    <3>5. QueueOK(r, run[r], Records)
      BY <1>0, <3>1 DEF ScriptInv, QueuesOK
    <3>6. e.turn = r \/ \E f \in Records : f.turn = e.turn
      BY <3>4, <3>5 DEF QueueOK
    <3>7. r # t
      BY <1>0, <3>1
    <3> QED
      BY <1>0, <3>6, <3>7 DEF Written
  <2>2. None # t
    BY NoneAssumption
  <2> QED
    BY <1>0, <2>1, <2>2, CoreWritten
<1> QED
  BY <1>1, <1>2 DEF Unused

\* Every step of the server is a step of the runtime, which begins only turns that are
\* unused.
LEMMA ServerIsCore ==
    ASSUME ServerInv, [ServerNext]_allVars
    PROVE  Core
<1>0. TypeOK
  BY DEF ServerInv, RuntimeInv, IInv
<1>1. ASSUME UNCHANGED vars PROVE Core
  BY <1>0, <1>1, NextIsCore
<1>2. CASE Requests
  <2>1. ASSUME NEW th \in Threads, StartThread(th) PROVE Core
    BY <2>1 DEF Core
  <2>2. ASSUME NEW th \in Threads, NEW r \in Recoveries, BeginRecover(r, th) PROVE Core
    <3>1. Begins(r, th) /\ r \in Runs
      BY <1>0, <2>2, RunsAssumption DEF BeginRecover, Begins, TypeOK, Runs
    <3> QED
      BY <3>1 DEF Core
  <2>3. ASSUME NEW th \in Threads, NEW t \in Turns, TurnStart(t, th) \/ TurnCancel(t) PROVE Core
    <3>1. Signals
      BY <1>0, <2>3 DEF TurnStart, TurnCancel, Signals, TypeOK
    <3> QED
      BY <3>1 DEF Core
  <2>4. ASSUME NEW t \in Turns, TurnCancel(t) PROVE Core
    <3>1. Signals
      BY <1>0, <2>4 DEF TurnCancel, Signals, TypeOK
    <3> QED
      BY <3>1 DEF Core
  <2> QED
    BY <1>2, <2>1, <2>2, <2>3, <2>4 DEF Requests
<1>3. ASSUME NEW r \in Runs, RuntimeStep(r) \/ (AppendFail(r) /\ Returns) PROVE Core
  BY <1>3 DEF RuntimeStep, Core
<1>4. ASSUME NEW t \in Turns, BackgroundBegin(t) PROVE Core
  <2> DEFINE th == background[t].thread
  <2>1. CASE Acquire(t, th) /\ UNCHANGED cancelled
    <3>1. th \in Threads /\ Unused(t)
      BY <1>4 DEF BackgroundBegin, ServerInv, TableOK, NewUnused
    <3>2. Begins(t, th)
      BY <1>0, <2>1, <3>1 DEF Begins, Unused, Written, TypeOK
    <3> HIDE DEF th
    <3> QED
      BY <3>1, <3>2 DEF Core, Runs
  <2> QED
    BY <1>1, <1>4, <2>1 DEF BackgroundBegin
<1>5. ASSUME NEW t \in Turns, Publish(t) PROVE Core
  BY <1>1, <1>5 DEF Publish
<1>6. ASSUME NEW t \in Turns,
             \/ Panic(t) \/ RuntimeTurnStep(t)
             \/ \E decision \in Decisions : Approval(t, decision) /\ Returns
      PROVE  Core
  BY <1>6 DEF Panic, RuntimeTurnStep, Core
<1>7. CASE ServerRestart
  BY <1>7 DEF ServerRestart, Core
<1>8. CASE UNCHANGED allVars
  BY <1>1, <1>8 DEF allVars
<1> QED
  BY <1>2, <1>3, <1>4, <1>5, <1>6, <1>7, <1>8 DEF ServerNext

\* A run that returns without an error has its last event durable.
LEMMA ReturnIsDurable ==
    ASSUME RuntimeInv, NEW r \in Runs, NEW t \in Turns,
           \/ RunStep(r) \/ AppendFail(r)
           \/ /\ r \in Turns
              /\ TurnStep(r) \/ \E decision \in Decisions : Approval(r, decision),
           run[t].pc = "append", run'[t].pc = "idle", ~broken'
    PROVE  /\ run[t].todo # <<>>
           /\ Head(run[t].todo) \in DurableEvents'
           /\ Head(run[t].todo) \in Queue(run[t])
<1>0. IInv /\ t \in Runs
  BY DEF RuntimeInv, Runs
<1>1. r = t
  BY <1>0, OthersKept
<1>2. ~(TurnStep(t) \/ \E decision \in Decisions : Approval(t, decision))
  BY <1>0, LoopStepsGoOn, CallStepsGoOn DEF TurnStep, GoesOn
<1>3. AppendOk(t)
  <2>1. ~RecoverAppend(t) /\ ~Recovered(t)
    BY DEF RecoverAppend, Recovered
  <2>2. ~AppendRefused(t) /\ ~AppendFail(t)
    BY DEF AppendRefused, AppendFail, StoreFail, storeVars
  <2> QED
    BY <1>1, <1>2, <2>1, <2>2 DEF RunStep
<1>4. /\ run[t].todo \in Seq(Events) /\ run[t].todo # <<>>
  BY <1>0 DEF IInv, TypeOK, RunsOK, RunOK, RunStates
<1>5. Head(run[t].todo) \in Queue(run[t])
  <2>1. 1 \in DOMAIN run[t].todo /\ Head(run[t].todo) = run[t].todo[1]
    BY <1>4
  <2> QED
    BY <2>1 DEF Queue
<1>6. /\ log' = Append(log, Head(run[t].todo)) /\ synced' = Len(log) + 1
      /\ log \in Seq(Events) /\ Head(run[t].todo) \in Events
  BY <1>0, <1>3, <1>4 DEF AppendOk, StoreAppend, IInv, TypeOK
<1>7. /\ Len(log) + 1 \in 1..synced' /\ log'[Len(log) + 1] = Head(run[t].todo)
  BY <1>6
<1> QED
  BY <1>4, <1>5, <1>7 DEF DurableEvents

\* What Returns says of a background thread.
LEMMA ReturnsSays ==
    ASSUME ServerInv, NEW r \in Runs,
           \/ RunStep(r) \/ AppendFail(r)
           \/ /\ r \in Turns
              /\ TurnStep(r) \/ \E decision \in Decisions : Approval(r, decision),
           Returns, NEW t \in Turns
    PROVE  \/ background'[t] = background[t]
           \/ /\ run[t].pc # "idle"
              /\ background'[t].at \in Results
              /\ background'[t].thread = background[t].thread
              /\ \A how \in {"completed", "cancelled"} :
                    background'[t].at = how => Ended(t, how, DurableEvents')
<1>1. background'[t] = IF run[t].pc # "idle" /\ run'[t].pc = "idle"
                       THEN [background[t] EXCEPT !.at = Result(t)] ELSE background[t]
  BY DEF Returns
<1>2. CASE run[t].pc # "idle" /\ run'[t].pc = "idle"
  <2>1. background'[t].at = Result(t) /\ background'[t].thread = background[t].thread
    BY <1>1, <1>2 DEF ServerInv, TableOK
  <2>2. Result(t) \in Results
    BY DEF Result, Results
  <2>3. ASSUME NEW how \in {"completed", "cancelled"}, Result(t) = how
        PROVE  Ended(t, how, DurableEvents')
    <3>1. /\ ~broken' /\ run[t].pc = "append"
          /\ Head(run[t].todo).type = IF how = "completed" THEN "turn_completed" ELSE "turn_cancelled"
      BY <2>3 DEF Result
    <3>2. Head(run[t].todo) \in DurableEvents' /\ Head(run[t].todo) \in Queue(run[t])
      BY <1>2, <3>1, ReturnIsDurable DEF ServerInv
    <3>3. QueueOK(t, run[t], Records)
      BY <3>1 DEF ServerInv, RuntimeInv, ScriptInv, QueuesOK, Runs
    <3>4. Head(run[t].todo).turn = t
      BY <3>1, <3>2, <3>3 DEF QueueOK
    <3> QED
      BY <3>1, <3>2, <3>4 DEF Ended
  <2> QED
    BY <1>2, <2>1, <2>2, <2>3
<1> QED
  BY <1>1, <1>2
\* A step of the server, by what it does to the table and to the background threads.
LEMMA TableStep ==
    ASSUME ServerInv, Core,
           status' \in [Turns -> Results \cup {"none", "running"}],
           background' \in [Turns -> [at : Results \cup {"none", "spawned", "running", "done", "dead", "lost"},
                                      thread : Threads \cup {None}]],
           \A t \in Turns : background'[t].at = "spawned" => background'[t].thread \in Threads,
           \A t \in Turns : background'[t].at \in {"none", "spawned"} =>
              /\ background[t].at \in {"none", "spawned"}
              /\ run'[t] = run[t] \/ run'[t].pc = "idle",
           \A t \in Turns : \A how \in {"completed", "cancelled"} :
              background'[t].at = how \/ status'[t] = how =>
                 background[t].at = how \/ status[t] = how \/ Ended(t, how, DurableEvents')
    PROVE  ServerInv'
<1>1. RuntimeInv' /\ DurableEvents \subseteq DurableEvents'
  BY CoreRuntime, CoreDurable DEF ServerInv, RuntimeInv
<1>2. TableOK'
  BY DEF TableOK
<1>3. NewUnused'
  <2> SUFFICES ASSUME NEW t \in Turns, background'[t].at \in {"none", "spawned"}
               PROVE  Unused(t)'
    BY DEF NewUnused
  <2>1. Unused(t)
    BY DEF ServerInv, NewUnused
  <2>2. run'[t].pc = "idle"
    BY <2>1 DEF Unused
  <2>3. ~\E th \in Threads : Begins(t, th)
    <3>1. run \in [Runs -> RunStates] /\ t \in Runs
      BY DEF ServerInv, RuntimeInv, IInv, TypeOK, Runs
    <3> QED
      BY <2>2, <3>1 DEF Begins, Acquire, Idle
  <2> QED
    BY <2>1, <2>3, UnusedKept DEF ServerInv
<1>4. EndsTrue'
  <2> SUFFICES ASSUME NEW t \in Turns, NEW how \in {"completed", "cancelled"},
                      background'[t].at = how \/ status'[t] = how
               PROVE  Ended(t, how, DurableEvents')
    BY DEF EndsTrue
  <2>1. ASSUME Ended(t, how, DurableEvents) PROVE Ended(t, how, DurableEvents')
    BY <1>1, <2>1 DEF Ended
  <2> QED
    BY <2>1 DEF ServerInv, EndsTrue
<1> QED
  BY <1>1, <1>2, <1>3, <1>4 DEF ServerInv

\* The same where the table and the background threads are left alone.
LEMMA TableKept ==
    ASSUME ServerInv, Core, UNCHANGED serverVars,
           \A t \in Turns : run[t].pc = "idle" => run'[t].pc = "idle"
    PROVE  ServerInv'
<1>1. status' = status /\ background' = background
  BY DEF serverVars
<1>2. \A t \in Turns : background'[t].at \in {"none", "spawned"} =>
         background[t].at \in {"none", "spawned"} /\ run'[t].pc = "idle"
  BY <1>1 DEF ServerInv, NewUnused, Unused
<1> QED
  BY <1>1, <1>2, TableStep DEF ServerInv, TableOK

\* A run takes a step, and returns to its background thread if that was its last.
LEMMA ReturnsKeep ==
    ASSUME ServerInv, Core, Returns, NEW r \in Runs,
           \/ RunStep(r) \/ AppendFail(r)
           \/ /\ r \in Turns
              /\ TurnStep(r) \/ \E decision \in Decisions : Approval(r, decision)
    PROVE  ServerInv'
<1>0. /\ IInv /\ status' = status /\ DOMAIN background' = Turns
      /\ background' = [t \in Turns |-> background'[t]]
  BY DEF Returns, ServerInv, RuntimeInv
<1>1. ASSUME NEW t \in Turns
      PROVE  \/ background'[t] = background[t]
             \/ /\ run[t].pc # "idle"
                /\ background'[t].at \in Results
                /\ background'[t].thread = background[t].thread
                /\ \A how \in {"completed", "cancelled"} :
                      background'[t].at = how => Ended(t, how, DurableEvents')
  BY ReturnsSays
<1> DEFINE Bg == [at : Results \cup {"none", "spawned", "running", "done", "dead", "lost"},
                  thread : Threads \cup {None}]
<1>2. ASSUME NEW t \in Turns
      PROVE  background'[t] \in Bg /\ background[t] \in Bg
  <2>1. background[t] \in Bg
    BY DEF ServerInv, TableOK
  <2>2. background'[t] = background[t] \/ background'[t] = [background[t] EXCEPT !.at = Result(t)]
    BY DEF Returns
  <2>3. Result(t) \in Results
    BY DEF Result, Results
  <2> QED
    BY <2>1, <2>2, <2>3
<1>3. background' \in [Turns -> Bg]
  BY <1>0, <1>2
<1>4. ASSUME NEW t \in Turns, background'[t].at \in {"none", "spawned"}
      PROVE  /\ background'[t] = background[t]
             /\ run'[t] = run[t]
  <2>1. background'[t] = background[t]
    BY <1>1, <1>4 DEF Results
  <2>2. run[t].pc = "idle"
    BY <1>4, <2>1 DEF ServerInv, NewUnused, Unused
  <2>3. t # r
    BY <1>0, <2>2, BusySteps
  <2> QED
    BY <1>0, <2>1, <2>3, OthersKept DEF Runs
<1>5. \A t \in Turns : background'[t].at = "spawned" => background'[t].thread \in Threads
  BY <1>4 DEF ServerInv, TableOK
<1>6. ASSUME NEW t \in Turns, NEW how \in {"completed", "cancelled"},
             background'[t].at = how \/ status'[t] = how
      PROVE  background[t].at = how \/ status[t] = how \/ Ended(t, how, DurableEvents')
  BY <1>0, <1>1, <1>6
<1>7. status' \in [Turns -> Results \cup {"none", "running"}]
  BY <1>0 DEF ServerInv, TableOK
<1> QED
  BY <1>3, <1>4, <1>5, <1>6, <1>7, TableStep

\* The background thread of turn t moves to the given place; nothing else of the table.
LEMMA MoveKeeps ==
    ASSUME ServerInv, Core, NEW t \in Turns,
           NEW at \in {"running", "failed", "done", "dead"},
           background' = [background EXCEPT ![t].at = at],
           \/ status' = status
           \/ background[t].at \in Results /\ status' = [status EXCEPT ![t] = background[t].at],
           \A u \in Turns : u # t => run'[u] = run[u]
    PROVE  ServerInv'
<1>1. /\ background \in [Turns -> [at : Results \cup {"none", "spawned", "running", "done", "dead", "lost"},
                                   thread : Threads \cup {None}]]
      /\ status \in [Turns -> Results \cup {"none", "running"}]
      /\ \A u \in Turns : background[u].at = "spawned" => background[u].thread \in Threads
  BY DEF ServerInv, TableOK
<1>2. at \in Results \cup {"none", "spawned", "running", "done", "dead", "lost"}
  BY DEF Results
<1>3. background' \in [Turns -> [at : Results \cup {"none", "spawned", "running", "done", "dead", "lost"},
                                 thread : Threads \cup {None}]]
  BY <1>1, <1>2
<1>4. status' \in [Turns -> Results \cup {"none", "running"}]
  BY <1>1
<1>5. \A u \in Turns : (u # t => background'[u] = background[u]) /\ (u = t => background'[u].at = at)
  BY <1>1
<1>6. \A u \in Turns : background'[u].at \in {"none", "spawned"} =>
         background'[u] = background[u] /\ run'[u] = run[u]
  BY <1>5
<1>7. ASSUME NEW u \in Turns, NEW how \in {"completed", "cancelled"},
             background'[u].at = how \/ status'[u] = how
      PROVE  background[u].at = how \/ status[u] = how
  <2>1. status'[u] = status[u] \/ status'[u] = background[u].at
    BY <1>1
  <2> QED
    BY <1>5, <1>7, <2>1
<1> QED
  BY <1>1, <1>3, <1>4, <1>6, <1>7, TableStep

\* Every step of the server keeps its invariant.
LEMMA ServerStepInv == ServerInv /\ [ServerNext]_allVars => ServerInv'
<1> SUFFICES ASSUME ServerInv, [ServerNext]_allVars PROVE ServerInv'
  OBVIOUS
<1>0. Core /\ IInv /\ Turns \subseteq Runs /\ run \in [Runs -> RunStates]
  BY ServerIsCore DEF ServerInv, RuntimeInv, IInv, TypeOK, Runs
<1>1. ASSUME NEW th \in Threads, StartThread(th), UNCHANGED serverVars PROVE ServerInv'
  BY <1>0, <1>1, TableKept DEF StartThread
<1>2. ASSUME NEW th \in Threads, NEW r \in Recoveries, BeginRecover(r, th), UNCHANGED serverVars
      PROVE  ServerInv'
  <2>1. r \in Runs /\ r \notin Turns /\ Acquire(r, th)
    BY <1>2, RunsAssumption DEF Runs, BeginRecover
  <2>2. \A t \in Turns : run'[t] = run[t]
    BY <1>0, <2>1, OthersKept
  <2> QED
    BY <1>0, <1>2, <2>2, TableKept
<1>3. ASSUME NEW t \in Turns, TurnCancel(t) PROVE ServerInv'
  BY <1>0, <1>3, TableKept DEF TurnCancel
<1>4. ASSUME NEW th \in Threads, NEW t \in Turns, TurnStart(t, th) PROVE ServerInv'
  <2> DEFINE new == [at |-> "spawned", thread |-> th]
             Bg == [at : Results \cup {"none", "spawned", "running", "done", "dead", "lost"},
                    thread : Threads \cup {None}]
  <2>1. /\ status' = [status EXCEPT ![t] = "running"] /\ background' = [background EXCEPT ![t] = new]
        /\ background[t].at = "none" /\ run' = run
    BY <1>4 DEF TurnStart
  <2>2. /\ background \in [Turns -> Bg] /\ status \in [Turns -> Results \cup {"none", "running"}]
        /\ \A u \in Turns : background[u].at = "spawned" => background[u].thread \in Threads
    BY DEF ServerInv, TableOK
  <2>3. new \in Bg /\ new.at = "spawned" /\ new.thread = th
    OBVIOUS
  <2> HIDE DEF new
  <2>4. /\ \A u \in Turns : background'[u] = IF u = t THEN new ELSE background[u]
        /\ \A u \in Turns : status'[u] = IF u = t THEN "running" ELSE status[u]
        /\ background' \in [Turns -> Bg] /\ status' \in [Turns -> Results \cup {"none", "running"}]
    BY <2>1, <2>2, <2>3
  <2>5. /\ \A u \in Turns : background'[u].at = "spawned" => background'[u].thread \in Threads
        /\ \A u \in Turns : background'[u].at \in {"none", "spawned"} =>
              background[u].at \in {"none", "spawned"} /\ run'[u] = run[u]
    BY <2>1, <2>2, <2>3, <2>4
  <2>6. ASSUME NEW u \in Turns, NEW how \in {"completed", "cancelled"},
               background'[u].at = how \/ status'[u] = how
        PROVE  background[u].at = how \/ status[u] = how
    BY <2>3, <2>4, <2>6
  <2> QED
    BY <1>0, <2>4, <2>5, <2>6, TableStep
<1>5. ASSUME NEW t \in Turns, BackgroundBegin(t) PROVE ServerInv'
  <2>1. CASE Acquire(t, background[t].thread) /\ UNCHANGED status
             /\ background' = [background EXCEPT ![t].at = "running"]
    <3>1. \A u \in Turns : u # t => run'[u] = run[u]
      BY <1>0, <2>1, OthersKept
    <3> QED
      BY <1>0, <2>1, <3>1, MoveKeeps
  <2>2. CASE UNCHANGED <<vars, status>> /\ background' = [background EXCEPT ![t].at = "failed"]
    BY <1>0, <2>2, MoveKeeps DEF vars
  <2> QED
    BY <1>5, <2>1, <2>2 DEF BackgroundBegin
<1>6. ASSUME NEW t \in Turns, Publish(t) PROVE ServerInv'
  BY <1>0, <1>6, MoveKeeps DEF Publish, vars
<1>7. ASSUME NEW t \in Turns, Panic(t) PROVE ServerInv'
  <2>1. \A u \in Turns : u # t => run'[u] = run[u]
    BY <1>0, <1>7, OthersKept DEF Panic
  <2> QED
    BY <1>0, <1>7, <2>1, MoveKeeps DEF Panic
<1>8. ASSUME NEW r \in Runs, RuntimeStep(r) \/ (AppendFail(r) /\ Returns) PROVE ServerInv'
  BY <1>0, <1>8, ReturnsKeep DEF RuntimeStep
<1>9. ASSUME NEW t \in Turns,
             RuntimeTurnStep(t) \/ \E decision \in Decisions : Approval(t, decision) /\ Returns
      PROVE  ServerInv'
  BY <1>0, <1>9, ReturnsKeep DEF RuntimeTurnStep
<1>10. CASE ServerRestart
  <2> DEFINE Bg == [at : Results \cup {"none", "spawned", "running", "done", "dead", "lost"},
                    thread : Threads \cup {None}]
  <2>1. /\ status' = [t \in Turns |-> "none"]
        /\ background' = [t \in Turns |->
              IF background[t].at = "none" THEN NoBackground ELSE [NoBackground EXCEPT !.at = "lost"]]
    BY <1>10 DEF ServerRestart
  <2>2. /\ NoBackground \in Bg /\ NoBackground.at = "none"
        /\ [NoBackground EXCEPT !.at = "lost"] \in Bg /\ [NoBackground EXCEPT !.at = "lost"].at = "lost"
    BY DEF NoBackground
  <2>3. /\ status' \in [Turns -> Results \cup {"none", "running"}] /\ background' \in [Turns -> Bg]
        /\ \A t \in Turns : status'[t] = "none"
        /\ \A t \in Turns : background'[t].at = IF background[t].at = "none" THEN "none" ELSE "lost"
    BY <2>1, <2>2
  <2>4. \A t \in Turns : run'[t].pc = "idle"
    BY <1>0, <1>10 DEF ServerRestart, Restart, Idle
  <2> QED
    BY <1>0, <2>3, <2>4, TableStep
<1>11. CASE UNCHANGED allVars
  BY <1>0, <1>11, TableKept DEF allVars, vars
<1> QED
  BY <1>1, <1>2, <1>3, <1>4, <1>5, <1>6, <1>7, <1>8, <1>9, <1>10, <1>11 DEF ServerNext, Requests

\* The server starts with an empty table over an empty log.
LEMMA ServerInitInv == ServerInit => ServerInv
<1> SUFFICES ASSUME ServerInit PROVE ServerInv
  OBVIOUS
<1>1. Init /\ status = [t \in Turns |-> "none"] /\ background = [t \in Turns |-> NoBackground]
  BY DEF ServerInit
<1>2. IInv /\ ScriptInv /\ ClosedInv
  BY <1>1, InitIInv, InitScript, InitClosed
<1>3. GuardExact
  BY <1>1 DEF Init, GuardExact, Idle
<1>4. OnceInv /\ TruthInv
  BY <1>1 DEF Init, StoreInit, OnceInv, LogOnce, PendingOnce, RunsOnce, TruthInv, WrittenTruth,
     RunsTruth, Written, Records, Idle
<1>5. TableOK /\ EndsTrue
  BY <1>1 DEF TableOK, EndsTrue, NoBackground
<1>6. NewUnused
  BY <1>1 DEF NewUnused, Unused, Init, StoreInit, Written, Records, Idle, Runs
<1> QED
  BY <1>2, <1>3, <1>4, <1>5, <1>6 DEF ServerInv, RuntimeInv

\* The invariant holds in every state of the server.
LEMMA ServerInvariance == ServerSpec => []ServerInv
BY ServerInitInv, ServerStepInv, PTL DEF ServerSpec

\* turn/status tells the truth: a turn that is reported as completed or as cancelled has
\* that terminal event among the durable ones, however its last appends went.
THEOREM StatusTruthfulHolds == ServerSpec => []StatusTruthful
<1>1. ServerInv => StatusTruthful
  BY DEF ServerInv, EndsTrue, Ended, DurableEvents, StatusTruthful
<1> QED
  BY <1>1, ServerInvariance, PTL

\* The control plane takes nothing from the runtime: write-ahead, authorisation, the
\* exact guard, single marks, truthful receipts and the transcript hold under the server,
\* with its tokens cancelled early, its busy threads, its panics and its restarts.
THEOREM ServerKeepsRuntime ==
    ServerSpec => [](/\ WriteAhead /\ Authorised /\ GuardExact /\ NoReplay
                     /\ ReceiptsTruthful /\ TranscriptIsReplay /\ TranscriptClosed)
<1>1. ServerInv => /\ WriteAhead /\ Authorised /\ GuardExact /\ NoReplay
                   /\ ReceiptsTruthful /\ TranscriptIsReplay /\ TranscriptClosed
  BY OnceSuffices, TruthSuffices, ScriptSuffices, ClosedSuffices DEF ServerInv, RuntimeInv, IInv
<1> QED
  BY <1>1, ServerInvariance, PTL

-----------------------------------------------------------------------------
(* Cancellation.  A turn that is cancelled before the model's answer is    *)
(* looked at has no way to complete.                                       *)

\* Nothing in the store, or on its way into it, says that turn t has completed.
Uncompleted(t) == \A e \in Written : ~(e.turn = t /\ e.type = "turn_completed")

\* turn_completed is queued alone and as the last event of a run; recovery never
\* queues it.
CompletesLast(s) ==
    /\ s.pc = "append" => \A k \in DOMAIN s.todo : s.todo[k].type = "turn_completed" =>
          s.then = "return" /\ Len(s.todo) = 1
    /\ \A e \in s.failures : e.type # "turn_completed"

\* A turn that works has not completed.
CompleteInv ==
    /\ \A r \in Runs : CompletesLast(run[r])
    /\ \A t \in Turns : run[t].pc # "idle" => Uncompleted(t)

\* Turn t will never complete: it was cancelled in time, or it is over.
Sealed(t) ==
    /\ Uncompleted(t)
    /\ run[t].pc = "append" =>
          \A k \in DOMAIN run[t].todo : run[t].todo[k].type # "turn_completed"
    /\ background[t].at # "none"
    /\ background[t].at = "spawned" \/ run[t].pc # "idle" => t \in cancelled

\* The run is about to append turn_completed.
Completing(s) ==
    s.pc = "append" /\ \E k \in DOMAIN s.todo : s.todo[k].type = "turn_completed"

\* The queue of a run, over a step of the runtime: turn_completed is queued only by a
\* turn that works and is not cancelled.
Completes(r, n) ==
    /\ CompletesLast(n)
    /\ Completing(n) => Completing(run[r]) \/ (run[r].pc # "idle" /\ r \notin cancelled)

\* A run whose queue does not complete its turn.
LEMMA NotCompleting ==
    ASSUME NEW r, NEW n, ~Completing(n), \A e \in n.failures : e.type # "turn_completed"
    PROVE  Completes(r, n)
BY DEF Completes, CompletesLast, Completing

\* The idle run.
LEMMA IdleCompletes ==
    ASSUME NEW r
    PROVE  Completes(r, Idle)
BY NotCompleting DEF Completing, Idle

\* A step of the turn itself.
LEMMA MoveCompletes ==
    ASSUME NEW t, NEW n, TurnMove(t, run[t], n), CompletesLast(run[t])
    PROVE  Completes(t, n)
<1>0. \A e \in n.failures : e.type # "turn_completed"
  BY DEF TurnMove, CompletesLast
<1>1. ASSUME Plain(n) PROVE Completes(t, n)
  BY <1>0, <1>1, NotCompleting DEF Plain, Completing
<1>2. CASE n.todo = <<TurnOf("turn_completed", t)>> /\ t \notin cancelled /\ Returning(t, n)
  <2>1. n.pc = "append" /\ n.then = "return" /\ Len(n.todo) = 1 /\ run[t].pc # "idle"
    BY <1>2 DEF Returning, TurnMove
  <2> QED
    BY <1>0, <1>2, <2>1 DEF Completes, CompletesLast
<1>3. CASE AsksForCalls(t, run[t], n)
  <2>1. \A k \in DOMAIN n.todo : n.todo[k] = AssistantMessage(run[t].thread, t, n.calls)
    BY <1>3 DEF AsksForCalls
  <2>2. ~Completing(n)
    BY <2>1 DEF Completing, AssistantMessage, Event
  <2> QED
    BY <1>0, <2>2, NotCompleting
<1>4. CASE NextRound(run[t], n)
  BY <1>0, <1>4, NotCompleting DEF NextRound, Completing
<1> QED
  BY <1>1, <1>2, <1>3, <1>4 DEF TurnMove, Returning, KeepsCalls, ClosesCall

\* Recovery queues receipts and failed turns, and a turn announces itself.
LEMMA RecoveryCompletes ==
    ASSUME IInv, NEW r \in Runs, CompletesLast(run[r]),
           RecoverAppend(r) \/ (Recovered(r) /\ r \in Turns)
    PROVE  Completes(r, run'[r])
<1> DEFINE s == run[r]
<1>0. s \in RunStates /\ run \in [Runs -> RunStates] /\ \A e \in s.failures : e.type # "turn_completed"
  BY DEF IInv, TypeOK, CompletesLast
<1>1. ASSUME NEW less \in RunStates, NEW events, NEW then, Step(r, Emit(less, events, then)),
             less.failures \subseteq s.failures,
             \A k \in DOMAIN events : events[k].type # "turn_completed"
      PROVE  Completes(r, run'[r])
  <2> DEFINE n == Emit(less, events, then)
  <2>1. run'[r] = n
    BY <1>0, <1>1 DEF Step
  <2>2. n.pc = "append" /\ n.todo = events /\ n.failures = less.failures
    BY <1>1, EmitShape
  <2> HIDE DEF n
  <2>3. ~Completing(n) /\ \A e \in n.failures : e.type # "turn_completed"
    BY <1>0, <1>1, <2>2 DEF Completing
  <2> QED
    BY <2>1, <2>3, NotCompleting
<1>2. ASSUME NEW e \in s.receipts,
             Step(r, Emit([s EXCEPT !.receipts = @ \ {e}], <<e>>, "recover"))
      PROVE  Completes(r, run'[r])
  <2> DEFINE less == [s EXCEPT !.receipts = @ \ {e}]
  <2>1. less \in RunStates /\ less.failures = s.failures
    BY <1>0 DEF RunStates
  <2>2. e.type # "turn_completed"
    BY <1>0 DEF RunStates, ReceiptEvents
  <2>3. \A k \in DOMAIN <<e>> : <<e>>[k].type # "turn_completed"
    BY <2>2
  <2>4. Step(r, Emit(less, <<e>>, "recover"))
    BY <1>2
  <2> HIDE DEF less
  <2> QED
    BY <1>1, <2>1, <2>3, <2>4
<1>3. ASSUME NEW e \in s.failures,
             Step(r, Emit([s EXCEPT !.failures = @ \ {e}], <<e>>, "recover"))
      PROVE  Completes(r, run'[r])
  <2> DEFINE less == [s EXCEPT !.failures = @ \ {e}]
  <2>1. less \in RunStates /\ less.failures \subseteq s.failures
    BY <1>0 DEF RunStates
  <2>2. \A k \in DOMAIN <<e>> : <<e>>[k].type # "turn_completed"
    BY <1>0
  <2>3. Step(r, Emit(less, <<e>>, "recover"))
    BY <1>3
  <2> HIDE DEF less
  <2> QED
    BY <1>1, <2>1, <2>2, <2>3
<1>4. CASE Recovered(r) /\ r \in Turns
  <2> DEFINE events == <<TurnOf("turn_started", r), TurnOf("user", r)>>
  <2>1. Step(r, Emit(s, events, "load"))
    BY <1>4 DEF Recovered
  <2>2. \A k \in DOMAIN events : events[k].type # "turn_completed"
    BY DEF TurnOf, TurnEvent, Event
  <2> HIDE DEF events
  <2> QED
    BY <1>0, <1>1, <2>1, <2>2
<1> QED
  BY <1>2, <1>3, <1>4 DEF RecoverAppend

\* Once the first event of the queue is appended, no turn_completed is left in it.
LEMMA AppendOkCompletes ==
    ASSUME IInv, NEW r \in Runs, CompletesLast(run[r]), AppendOk(r)
    PROVE  /\ Completes(r, run'[r])
           /\ Head(run[r].todo).type = "turn_completed" => run'[r].pc = "idle"
<1> DEFINE s == run[r]
<1>1. /\ run \in [Runs -> RunStates] /\ s \in RunStates /\ s.pc = "append"
      /\ s.todo \in Seq(Events) /\ s.todo # <<>> /\ RunOK(r, s, DurableEvents)
  BY DEF IInv, TypeOK, RunsOK, AppendOk, RunOK, RunStates
<1>2. \/ run' = [run EXCEPT ![r].todo = Tail(s.todo)] /\ Tail(s.todo) # <<>>
      \/ Tail(s.todo) = <<>> /\ s.then = "return" /\ run' = [run EXCEPT ![r] = Idle]
      \/ /\ Tail(s.todo) = <<>> /\ s.then # "return"
         /\ run' = [run EXCEPT ![r].pc = s.then, ![r].then = None, ![r].todo = <<>>]
  BY DEF AppendOk, Leave
<1>3. \A k \in DOMAIN s.todo : s.todo[k].type = "turn_completed" =>
         s.then = "return" /\ Tail(s.todo) = <<>>
  <2>1. Len(s.todo) = 1 => s.todo = <<s.todo[1]>>
    BY <1>1
  <2>2. \A e : Tail(<<e>>) = <<>>
    OBVIOUS
  <2> QED
    BY <1>1, <2>1, <2>2 DEF CompletesLast
<1>4. \A k \in DOMAIN Tail(s.todo) : k + 1 \in DOMAIN s.todo /\ Tail(s.todo)[k] = s.todo[k + 1]
  BY <1>1
<1>5. 1 \in DOMAIN s.todo /\ Head(s.todo) = s.todo[1]
  BY <1>1
<1>6. \A e \in s.failures : e.type # "turn_completed"
  BY DEF CompletesLast
<1>7. CASE run' = [run EXCEPT ![r].todo = Tail(s.todo)] /\ Tail(s.todo) # <<>>
  <2>1. run'[r].todo = Tail(s.todo) /\ run'[r].failures = s.failures
    BY <1>1, <1>7 DEF RunStates
  <2>2. ~Completing(run'[r])
    BY <1>3, <1>4, <1>7, <2>1 DEF Completing
  <2>3. Head(s.todo).type # "turn_completed"
    BY <1>3, <1>5, <1>7
  <2> QED
    BY <1>6, <2>1, <2>2, <2>3, NotCompleting
<1>8. CASE run' = [run EXCEPT ![r] = Idle]
  <2>1. run'[r] = Idle
    BY <1>1, <1>8
  <2>2. Completes(r, run'[r])
    BY <2>1, IdleCompletes
  <2>3. run'[r].pc = "idle"
    BY <2>1 DEF Idle
  <2> QED
    BY <2>2, <2>3
<1>9. CASE /\ Tail(s.todo) = <<>> /\ s.then # "return"
           /\ run' = [run EXCEPT ![r].pc = s.then, ![r].then = None, ![r].todo = <<>>]
  <2>1. run'[r].todo = <<>> /\ run'[r].failures = s.failures
    BY <1>1, <1>9 DEF RunStates
  <2>2. ~Completing(run'[r])
    BY <2>1 DEF Completing
  <2>3. Head(s.todo).type # "turn_completed"
    BY <1>3, <1>5, <1>9
  <2> QED
    BY <1>6, <2>1, <2>2, <2>3, NotCompleting
<1> QED
  BY <1>2, <1>7, <1>8, <1>9

\* Every run, over every step of the runtime.
LEMMA CoreCompletes ==
    ASSUME IInv, OnceInv, Core, NEW r \in Runs, CompletesLast(run[r])
    PROVE  Completes(r, run'[r])
<1>0. run \in [Runs -> RunStates]
  BY DEF IInv, TypeOK
<1>1. ASSUME run'[r] = run[r] PROVE Completes(r, run'[r])
  BY <1>1 DEF Completes
<1>2. ASSUME Leave(r) PROVE Completes(r, run'[r])
  <2>1. run'[r] = Idle
    BY <1>0, <1>2 DEF Leave
  <2> QED
    BY <2>1, IdleCompletes
<1>3. ASSUME NEW th \in Threads, Begins(r, th) PROVE Completes(r, run'[r])
  <2>1. run'[r].pc = "recover" /\ run'[r].failures = RecoveryFailures(log, th)
    BY <1>0, <1>3 DEF Begins, Acquire, Idle
  <2>2. \A e \in RecoveryFailures(log, th) : e.type # "turn_completed"
    BY DEF RecoveryFailures, TurnEvent, Event
  <2> QED
    BY <2>1, <2>2, NotCompleting DEF Completing
<1>4. ASSUME RunStep(r) \/ AppendFail(r) PROVE Completes(r, run'[r])
  BY <1>2, <1>4, RecoveryCompletes, AppendOkCompletes
     DEF RunStep, AppendFail, AppendRefused, Recovered
<1>5. ASSUME r \in Turns, TurnStep(r) \/ \E decision \in Decisions : Approval(r, decision)
      PROVE  Completes(r, run'[r])
  BY <1>5, TurnMoves, MoveCompletes
<1>6. ASSUME NEW q \in Runs, q # r,
             \/ RunStep(q) \/ AppendFail(q) \/ Drop(q) \/ \E th \in Threads : Begins(q, th)
             \/ /\ q \in Turns
                /\ TurnStep(q) \/ \E decision \in Decisions : Approval(q, decision)
      PROVE  Completes(r, run'[r])
  <2>1. run'[r] = run[r]
    BY <1>6, OthersKept DEF Begins
  <2> QED
    BY <1>1, <2>1
<1>7. CASE Restart
  <2>1. run'[r] = Idle
    BY <1>7 DEF Restart
  <2> QED
    BY <2>1, IdleCompletes
<1>8. CASE Signals \/ \E th \in Threads : StartThread(th)
  BY <1>1, <1>8 DEF Signals, StartThread
<1>9. ASSUME Drop(r) PROVE Completes(r, run'[r])
  BY <1>2, <1>9 DEF Drop
<1> QED
  BY <1>3, <1>4, <1>5, <1>6, <1>7, <1>8, <1>9 DEF Core, Runs

\* What new of a turn_completed the store has comes from the queue of that very turn.
LEMMA CompletionWritten ==
    ASSUME RuntimeInv, Core, NEW t \in Turns, Uncompleted(t), ~Uncompleted(t)'
    PROVE  /\ run[t].pc = "append" /\ Completing(run[t])
           /\ AppendOk(t) \/ AppendFail(t)
           /\ run[t].todo # <<>> /\ Head(run[t].todo).type = "turn_completed"
<1>0. IInv /\ ScriptInv
  BY DEF RuntimeInv
<1>1. PICK e \in Written' : e.turn = t /\ e.type = "turn_completed"
  BY DEF Uncompleted
<1>2. e \notin Written
  BY <1>1 DEF Uncompleted
<1>3. PICK r \in Runs : /\ AppendOk(r) \/ AppendFail(r)
                        /\ run[r].pc = "append" /\ run[r].todo # <<>> /\ e = Head(run[r].todo)
  <2>1. e.turn # None
    BY <1>1, NoneAssumption
  <2> QED
    BY <1>0, <1>1, <1>2, <2>1, CoreWritten
<1>4. 1 \in DOMAIN run[r].todo /\ e = run[r].todo[1]
  <2>1. run[r].todo \in Seq(Events)
    BY <1>0 DEF IInv, TypeOK, RunStates
  <2> QED
    BY <1>3, <2>1
<1>5. r = t
  <2>1. e \in Queue(run[r])
    BY <1>4 DEF Queue
  <2>2. QueueOK(r, run[r], Records)
    BY <1>0, <1>3 DEF ScriptInv, QueuesOK
  <2> QED
    BY <1>1, <2>1, <2>2 DEF QueueOK
<1>6. Completing(run[t])
  BY <1>1, <1>3, <1>4, <1>5 DEF Completing
<1> QED
  BY <1>1, <1>3, <1>5, <1>6

\* A turn that is idle begins only in its background thread.
LEMMA ServerBegins ==
    ASSUME ServerInv, [ServerNext]_allVars, NEW t \in Turns, run[t].pc = "idle", run'[t].pc # "idle"
    PROVE  background[t].at = "spawned" /\ UNCHANGED storeVars
<1>0. IInv /\ t \in Runs /\ Turns \subseteq Runs /\ run \in [Runs -> RunStates]
  BY DEF ServerInv, RuntimeInv, IInv, TypeOK, Runs
<1>1. ASSUME run' = run PROVE FALSE
  BY <1>1
<1>2. ASSUME NEW r \in Runs,
             \/ RunStep(r) \/ AppendFail(r) \/ Drop(r)
             \/ /\ r \in Turns
                /\ TurnStep(r) \/ \E decision \in Decisions : Approval(r, decision)
      PROVE  FALSE
  <2>1. r # t
    BY <1>0, <1>2, BusySteps
  <2> QED
    BY <1>0, <1>2, <2>1, OthersKept
<1>3. ASSUME NEW th \in Threads, NEW r \in Recoveries, BeginRecover(r, th) PROVE FALSE
  <2>1. r \in Runs /\ r # t /\ Acquire(r, th)
    BY <1>3, RunsAssumption DEF Runs, BeginRecover
  <2> QED
    BY <1>0, <2>1, OthersKept
<1>4. ASSUME NEW u \in Turns, BackgroundBegin(u)
      PROVE  background[t].at = "spawned" /\ UNCHANGED storeVars
  <2>1. CASE Acquire(u, background[u].thread)
    <3>1. u = t
      BY <1>0, <2>1, OthersKept
    <3> QED
      BY <1>4, <2>1, <3>1 DEF BackgroundBegin, Acquire
  <2> QED
    BY <1>1, <1>4, <2>1 DEF BackgroundBegin, vars
<1>5. CASE Requests
  BY <1>1, <1>3, <1>5 DEF Requests, StartThread, TurnStart, TurnCancel
<1>6. CASE ServerRestart
  <2>1. run'[t] = Idle
    BY <1>0, <1>6 DEF ServerRestart, Restart
  <2> QED
    BY <2>1 DEF Idle
<1>7. ASSUME NEW u \in Turns, Publish(u) PROVE FALSE
  BY <1>1, <1>7 DEF Publish, vars
<1>8. CASE UNCHANGED allVars
  BY <1>1, <1>8 DEF allVars, vars
<1> QED
  BY <1>0, <1>2, <1>4, <1>5, <1>6, <1>7, <1>8
     DEF ServerNext, RuntimeStep, RuntimeTurnStep, Panic

\* A turn that was started keeps its background thread and its cancellation, until a
\* restart forgets both.
LEMMA ServerTokens ==
    ASSUME ServerInv, [ServerNext]_allVars, NEW t \in Turns, background[t].at # "none"
    PROVE  /\ background'[t].at # "none"
           /\ background'[t].at = "spawned" => background[t].at = "spawned"
           /\ t \in cancelled =>
                 t \in cancelled' \/ (run'[t].pc = "idle" /\ background'[t].at # "spawned")
<1> DEFINE Keeps == /\ background'[t].at # "none"
                    /\ background'[t].at = "spawned" => background[t].at = "spawned"
                    /\ t \in cancelled =>
                          t \in cancelled' \/ (run'[t].pc = "idle" /\ background'[t].at # "spawned")
<1>0. /\ IInv /\ t \in Runs /\ DOMAIN background = Turns
      /\ \A u \in Turns : background[u] = [at |-> background[u].at, thread |-> background[u].thread]
  BY DEF ServerInv, RuntimeInv, TableOK, Runs
<1>1. ASSUME UNCHANGED background, t \in cancelled => t \in cancelled' PROVE Keeps
  BY <1>1
<1>2. ASSUME Returns, UNCHANGED cancelled PROVE Keeps
  <2>1. Result(t) \in Results
    BY DEF Result, Results
  <2>2. background'[t] = background[t] \/ background'[t].at = Result(t)
    BY <1>0, <1>2 DEF Returns
  <2> QED
    BY <1>2, <2>1, <2>2 DEF Results
<1>3. ASSUME NEW u \in Turns, NEW at \in {"running", "failed", "done", "dead"},
             background' = [background EXCEPT ![u].at = at], UNCHANGED cancelled
      PROVE  Keeps
  <2>1. background'[t] = background[t] \/ background'[t].at = at
    BY <1>0, <1>3
  <2> QED
    BY <1>3, <2>1
<1>4. CASE Requests
  <2>1. ASSUME NEW th \in Threads, NEW u \in Turns, TurnStart(u, th) PROVE Keeps
    <3>1. u # t
      BY <2>1 DEF TurnStart
    <3> QED
      BY <1>0, <2>1, <3>1 DEF TurnStart
  <2> QED
    BY <1>1, <1>4, <2>1 DEF Requests, StartThread, BeginRecover, TurnCancel, serverVars
<1>5. ASSUME NEW r \in Runs, RuntimeStep(r) \/ (AppendFail(r) /\ Returns) PROVE Keeps
  <2>1. UNCHANGED cancelled
    BY <1>5 DEF RuntimeStep, RunStep, RecoverAppend, Recovered, AppendOk, AppendRefused, AppendFail, Step
  <2> QED
    BY <1>2, <1>5, <2>1 DEF RuntimeStep
<1>6. ASSUME NEW u \in Turns,
             RuntimeTurnStep(u) \/ (\E decision \in Decisions : Approval(u, decision) /\ Returns)
      PROVE  Keeps
  <2>1. UNCHANGED cancelled
    BY <1>0, <1>6, TurnStepStore DEF RuntimeTurnStep
  <2> QED
    BY <1>2, <1>6, <2>1 DEF RuntimeTurnStep
<1>7. ASSUME NEW u \in Turns, BackgroundBegin(u) PROVE Keeps
  BY <1>3, <1>7 DEF BackgroundBegin, vars
<1>8. ASSUME NEW u \in Turns, Publish(u) \/ Panic(u) PROVE Keeps
  BY <1>3, <1>8 DEF Publish, Panic, Drop, vars
<1>9. CASE ServerRestart
  <2>1. run'[t] = Idle
    BY <1>0, <1>9 DEF ServerRestart, Restart
  <2>2. background'[t] = [NoBackground EXCEPT !.at = "lost"]
    BY <1>9 DEF ServerRestart
  <2> QED
    BY <2>1, <2>2 DEF Idle, NoBackground
<1>10. CASE UNCHANGED allVars
  BY <1>1, <1>10 DEF allVars, vars, serverVars
<1> QED
  BY <1>4, <1>5, <1>6, <1>7, <1>8, <1>9, <1>10 DEF ServerNext

\* A turn that works has not completed: what completes it ends it.
LEMMA CompleteStep == ServerInv /\ CompleteInv /\ [ServerNext]_allVars => CompleteInv'
<1> SUFFICES ASSUME ServerInv, CompleteInv, [ServerNext]_allVars PROVE CompleteInv'
  OBVIOUS
<1>0. Core /\ RuntimeInv /\ IInv /\ OnceInv /\ Turns \subseteq Runs /\ run \in [Runs -> RunStates]
  BY ServerIsCore DEF ServerInv, RuntimeInv, IInv, TypeOK, Runs
<1>1. ASSUME NEW r \in Runs PROVE CompletesLast(run'[r])
  BY <1>0, CoreCompletes DEF CompleteInv, Completes
<1>2. ASSUME NEW t \in Turns, run'[t].pc # "idle" PROVE Uncompleted(t)'
  <2>1. CASE run[t].pc = "idle"
    <3>1. Unused(t) /\ UNCHANGED storeVars
      BY <1>2, <2>1, ServerBegins DEF ServerInv, NewUnused
    <3>2. Written' = Written
      BY <3>1 DEF Written, Records, storeVars
    <3> QED
      BY <3>1, <3>2 DEF Unused, Uncompleted
  <2>2. CASE run[t].pc # "idle"
    <3>1. Uncompleted(t) /\ CompletesLast(run[t])
      BY <1>0, <2>2 DEF CompleteInv
    <3> SUFFICES ASSUME ~Uncompleted(t)' PROVE FALSE
      OBVIOUS
    <3>2. /\ AppendOk(t) \/ AppendFail(t)
          /\ Head(run[t].todo).type = "turn_completed"
      BY <1>0, <3>1, CompletionWritten
    <3>3. ~AppendOk(t)
      BY <1>0, <1>2, <3>1, <3>2, AppendOkCompletes
    <3>4. ~AppendFail(t)
      BY <1>0, <1>2 DEF AppendFail, Leave, Idle
    <3> QED
      BY <3>2, <3>3, <3>4
  <2> QED
    BY <2>1, <2>2
<1> QED
  BY <1>1, <1>2 DEF CompleteInv, CompletesLast, Uncompleted

\* What is sealed stays so.
LEMMA SealedKept ==
    ASSUME ServerInv, CompleteInv, [ServerNext]_allVars, NEW t \in Turns, Sealed(t)
    PROVE  Sealed(t)'
<1>0. Core /\ RuntimeInv /\ IInv /\ OnceInv /\ t \in Runs
  BY ServerIsCore DEF ServerInv, RuntimeInv, Runs
<1>1. ~Completing(run[t]) /\ Uncompleted(t) /\ background[t].at # "none"
  BY DEF Sealed, Completing
<1>2. Uncompleted(t)'
  BY <1>0, <1>1, CompletionWritten
<1>3. ~Completing(run'[t])
  <2>1. Completes(t, run'[t])
    BY <1>0, CoreCompletes DEF CompleteInv
  <2> QED
    BY <1>1, <2>1 DEF Completes, Sealed
<1>4. background'[t].at # "none"
  BY <1>1, ServerTokens
<1>5. background'[t].at = "spawned" \/ run'[t].pc # "idle" => t \in cancelled'
  <2> SUFFICES ASSUME background'[t].at = "spawned" \/ run'[t].pc # "idle" PROVE t \in cancelled'
    OBVIOUS
  <2>1. background[t].at = "spawned" \/ run[t].pc # "idle"
    BY <1>1, ServerBegins, ServerTokens
  <2>2. t \in cancelled
    BY <2>1 DEF Sealed
  <2> QED
    BY <1>1, <2>2, ServerTokens
<1> QED
  BY <1>2, <1>3, <1>4, <1>5 DEF Sealed, Completing, Uncompleted

\* A cancellation in time seals the turn.
LEMMA CancelSeals ==
    ASSUME ServerInv, CompleteInv, NEW t \in Turns, t \in cancelled,
           background[t].at = "spawned" \/ run[t].pc \in {"recover", "load", "loop", "model"}
    PROVE  Sealed(t)
<1>1. run[t].pc # "append" /\ Uncompleted(t) /\ background[t].at # "none"
  BY DEF ServerInv, NewUnused, Unused, CompleteInv, Uncompleted
<1> QED
  BY <1>1 DEF Sealed

\* Nothing is completed when the server starts.
LEMMA InitComplete == ServerInit => CompleteInv
BY DEF ServerInit, Init, StoreInit, CompleteInv, CompletesLast, Idle, Runs

\* A cancellation of turn t that comes in time keeps it from ever being completed.
LEMMA CancelledTurn ==
    ASSUME NEW t \in Turns
    PROVE  ServerSpec =>
               [](t \in cancelled /\ (background[t].at = "spawned"
                                      \/ run[t].pc \in {"recover", "load", "loop", "model"}) =>
                     [](\A i \in DOMAIN log : ~(log[i].turn = t /\ log[i].type = "turn_completed")))
<1> DEFINE InTime == /\ t \in cancelled
                     /\ \/ background[t].at = "spawned"
                        \/ run[t].pc \in {"recover", "load", "loop", "model"}
           NotCompleted == \A i \in DOMAIN log : ~(log[i].turn = t /\ log[i].type = "turn_completed")
<1>1. ServerSpec => []CompleteInv
  BY InitComplete, ServerInvariance, CompleteStep, PTL DEF ServerSpec
<1>2. ServerInv /\ CompleteInv /\ InTime => Sealed(t)
  BY CancelSeals
<1>3. ServerInv /\ CompleteInv /\ [ServerNext]_allVars /\ Sealed(t) => Sealed(t)'
  BY SealedKept
<1>4. Sealed(t) => NotCompleted
  BY DEF Sealed, Uncompleted, Written, Records
<1> QED
  BY <1>1, <1>2, <1>3, <1>4, ServerInvariance, PTL DEF ServerSpec

\* A cancellation that turn/cancel accepts before the turn has begun, or while it prepares
\* its request or waits for the model, never becomes a completed turn: run_turn looks at
\* the token again before it queues turn_completed, and the turn id is never used again.
THEOREM CancelHonouredHolds == ServerSpec => CancelHonoured
<1> SUFFICES ASSUME NEW t \in Turns
             PROVE  ServerSpec =>
               [](t \in cancelled /\ (background[t].at = "spawned"
                                      \/ run[t].pc \in {"recover", "load", "loop", "model"}) =>
                     [](\A i \in DOMAIN log : ~(log[i].turn = t /\ log[i].type = "turn_completed")))
  BY DEF CancelHonoured
<1> QED
  BY CancelledTurn

-----------------------------------------------------------------------------
(* Chains of agents: capabilities only shrink along a chain of any length, *)
(* over any set of tools.                                                  *)

\* Access values are totally ordered by Rank, and Restrict takes the smaller.
LEMMA RestrictIsMeet ==
    ASSUME NEW a \in Access, NEW b \in Access
    PROVE  /\ Restrict(a, b) \in Access
           /\ Rank(Restrict(a, b)) <= Rank(a)
           /\ Rank(Restrict(a, b)) <= Rank(b)
           /\ Rank(a) \in Nat /\ Rank("deny") <= Rank(a)
  BY DEF Restrict, Rank, Access

\* A policy answers with an access for every name.
LEMMA PolicyAccessType ==
    ASSUME NEW policy \in CapabilityPolicies, NEW name \in Tools
    PROVE  PolicyAccess(policy, name) \in Access
  <1>1. PICK S \in SUBSET Tools : policy.tools \in [S -> Access]
    BY DEF CapabilityPolicies
  <1>2. policy.default \in Access
    BY DEF CapabilityPolicies
  <1> QED BY <1>1, <1>2 DEF PolicyAccess

\* So does a projection.
LEMMA AccessInType ==
    ASSUME NEW entries \in Projections, NEW name
    PROVE  AccessIn(entries, name) \in Access
  <1>1. PICK S \in SUBSET Tools : entries \in [S -> Access]
    BY DEF Projections
  <1> QED BY <1>1 DEF AccessIn, Access

\* The projection of a child is a projection, nowhere above its parent's.
LEMMA ChildBelowParent ==
    ASSUME NEW names \in SUBSET Tools, NEW policy \in CapabilityPolicies,
           NEW parent \in Projections
    PROVE  LET child == ProjectCapabilities(names, policy, <<parent>>)
           IN  /\ child \in Projections
               /\ \A name \in Tools :
                     Rank(AccessIn(child, name)) <= Rank(AccessIn(parent, name))
  <1> DEFINE child == ProjectCapabilities(names, policy, <<parent>>)
             grant(name) == Restrict(PolicyAccess(policy, name), AccessIn(parent, name))
  <1>1. child = [name \in names |-> grant(name)]
    BY DEF ProjectCapabilities
  <1>2. ASSUME NEW name \in names
        PROVE  grant(name) \in Access /\ Rank(grant(name)) <= Rank(AccessIn(parent, name))
    BY PolicyAccessType, AccessInType, RestrictIsMeet
  <1> HIDE DEF grant
  <1>3. child \in [names -> Access]
    BY <1>1, <1>2
  <1>4. child \in Projections
    BY <1>3 DEF Projections
  <1>5. ASSUME NEW name \in Tools
        PROVE  Rank(AccessIn(child, name)) <= Rank(AccessIn(parent, name))
    <2>1. CASE name \in names
      <3>1. AccessIn(child, name) = grant(name)
        BY <1>1, <2>1 DEF AccessIn
      <3> QED BY <1>2, <2>1, <3>1
    <2>2. CASE name \notin names
      <3>1. AccessIn(child, name) = "deny"
        BY <1>1, <2>2 DEF AccessIn
      <3>2. AccessIn(parent, name) \in Access
        BY AccessInType
      <3> QED BY <3>1, <3>2, RestrictIsMeet
    <2> QED BY <2>1, <2>2
  <1> QED BY <1>4, <1>5

\* The projection of a root agent is a projection.
LEMMA RootType ==
    ASSUME NEW names \in SUBSET Tools, NEW policy \in CapabilityPolicies
    PROVE  ProjectCapabilities(names, policy, <<>>) \in Projections
  <1>1. ProjectCapabilities(names, policy, <<>>) =
            [name \in names |-> PolicyAccess(policy, name)]
    BY DEF ProjectCapabilities
  <1>2. ASSUME NEW name \in names PROVE PolicyAccess(policy, name) \in Access
    BY PolicyAccessType
  <1>3. ProjectCapabilities(names, policy, <<>>) \in [names -> Access]
    BY <1>1, <1>2
  <1> QED BY <1>3 DEF Projections

\* Both conjuncts survive a step of the chain.
LEMMA StepKeepsOrder ==
    ASSUME ChainTypeOK, NoEscalation, [ChainNext]_chain
    PROVE  ChainTypeOK' /\ NoEscalation'
  <1>1. CASE UNCHANGED chain
    BY <1>1 DEF ChainTypeOK, NoEscalation
  <1>2. CASE ChainNext
    <2>1. PICK names \in SUBSET Tools, policy \in CapabilityPolicies :
              SpawnRoot(names, policy) \/ SpawnChild(names, policy)
      BY <1>2 DEF ChainNext
    <2>2. CASE SpawnRoot(names, policy)
      <3> DEFINE root == ProjectCapabilities(names, policy, <<>>)
      <3>1. root \in Projections
        BY RootType
      <3>2. chain' = <<root>>
        BY <2>2 DEF SpawnRoot
      <3> HIDE DEF root
      <3>3. ChainTypeOK'
        BY <3>1, <3>2 DEF ChainTypeOK
      <3>4. ASSUME NEW name \in Tools
            PROVE  Rank(AccessIn(root, name)) <= Rank(AccessIn(root, name))
        BY <3>1, AccessInType, RestrictIsMeet
      <3>5. DOMAIN chain' = {1} /\ chain'[1] = root
        BY <3>2
      <3> QED BY <3>3, <3>4, <3>5 DEF NoEscalation
    <2>3. CASE SpawnChild(names, policy)
      <3> DEFINE n == Len(chain)
                 child == ProjectCapabilities(names, policy, <<chain[n]>>)
      <3>1. n \in Nat /\ n > 0 /\ chain[n] \in Projections
        BY <2>3 DEF SpawnChild, ChainTypeOK
      <3>2. /\ child \in Projections
            /\ \A name \in Tools :
                  Rank(AccessIn(child, name)) <= Rank(AccessIn(chain[n], name))
        BY <3>1, ChildBelowParent
      <3>3. chain' = Append(chain, child)
        BY <2>3 DEF SpawnChild
      <3> HIDE DEF child
      <3>4. ChainTypeOK'
        BY <3>2, <3>3 DEF ChainTypeOK
      <3>5. /\ DOMAIN chain' = 1..n + 1 /\ chain'[n + 1] = child
            /\ \A i \in 1..n : chain'[i] = chain[i] /\ chain[i] \in Projections
        BY <3>2, <3>3 DEF ChainTypeOK
      <3>6. ASSUME NEW i \in DOMAIN chain', NEW j \in DOMAIN chain', i <= j,
                   NEW name \in Tools
            PROVE  Rank(AccessIn(chain'[j], name)) <= Rank(AccessIn(chain'[i], name))
        <4>1. CASE j <= n
          <5>1. i \in 1..n /\ j \in 1..n /\ DOMAIN chain = 1..n
            BY <3>1, <3>5, <3>6, <4>1 DEF ChainTypeOK
          <5> QED BY <3>5, <3>6, <5>1 DEF NoEscalation
        <4>2. CASE j = n + 1 /\ i = n + 1
          BY <3>2, <3>5, <4>2, AccessInType, RestrictIsMeet
        <4>3. CASE j = n + 1 /\ i <= n
          <5>1. i \in 1..n /\ n \in 1..n /\ DOMAIN chain = 1..n
            BY <3>1, <3>5, <3>6, <4>3 DEF ChainTypeOK
          <5>2. Rank(AccessIn(chain[n], name)) <= Rank(AccessIn(chain[i], name))
            BY <3>6, <4>3, <5>1 DEF NoEscalation
          <5>3. Rank(AccessIn(child, name)) <= Rank(AccessIn(chain[n], name))
            BY <3>2
          <5>4. /\ Rank(AccessIn(child, name)) \in Nat
                /\ Rank(AccessIn(chain[n], name)) \in Nat
                /\ Rank(AccessIn(chain[i], name)) \in Nat
            BY <3>2, <3>5, <5>1, AccessInType, RestrictIsMeet
          <5>5. chain'[j] = child /\ chain'[i] = chain[i]
            BY <3>5, <4>3, <5>1
          <5> HIDE DEF n
          <5> QED BY <5>2, <5>3, <5>4, <5>5
        <4> QED BY <3>1, <3>5, <3>6, <4>1, <4>2, <4>3
      <3> QED BY <3>4, <3>6 DEF NoEscalation
    <2> QED BY <2>1, <2>2, <2>3
  <1> QED BY <1>1, <1>2

(***************************************************************************)
(* No agent of a chain, however long, holds more than any agent above it   *)
(* (project_capabilities of crates/harness-core/src/policy.rs).            *)
(***************************************************************************)
THEOREM NoEscalationHolds == ChainSpec => []NoEscalation
  <1>1. ChainInit => ChainTypeOK /\ NoEscalation
    BY DEF ChainInit, ChainTypeOK, NoEscalation
  <1>2. ChainTypeOK /\ NoEscalation /\ [ChainNext]_chain => (ChainTypeOK /\ NoEscalation)'
    BY StepKeepsOrder
  <1> QED BY <1>1, <1>2, PTL DEF ChainSpec
=============================================================================
