------------------------------ MODULE Recovery ------------------------------
(***************************************************************************)
(* The durable events of a thread (crates/harness-core/src/event.rs and    *)
(* protocol.rs), the transcript that runtime.rs rebuilds from them, and    *)
(* what recovery.rs finds open in them.  Message contents, reasons and     *)
(* errors are abstracted; a canonical action is its tool name and one      *)
(* argument.                                                               *)
(***************************************************************************)
EXTENDS Naturals, Sequences

CONSTANTS
    Turns,      \* turn ids
    Calls,      \* tool call ids
    None        \* the absent value

Terminal == {"turn_completed", "turn_failed", "turn_cancelled"}

-----------------------------------------------------------------------------
(* Events (event.rs, protocol.rs).  One shape for all of them: the call an *)
(* event is about and its data, None where the code has neither.           *)

Event(type, thread, turn, call, data) ==
    [type |-> type, thread |-> thread, turn |-> turn, call |-> call, data |-> data]

TurnEvent(type, thread, turn) == Event(type, thread, turn, None, None)

Receipt(thread, turn, call, status, action) ==
    Event("receipt", thread, turn, call, [status |-> status, action |-> action])

Denied(thread, turn, calls) ==
    [i \in 1..Len(calls) |-> Receipt(thread, turn, calls[i].id, "denied", None)]

AssistantMessage(thread, turn, calls) == Event("assistant", thread, turn, None, calls)

\* transcript_from_events over load_thread: the user and assistant messages and
\* the receipts of one thread, pushed one by one.
TranscriptFromEvents(events, thread) ==
    LET IsMessage(e) == /\ e.thread = thread
                        /\ e.type \in {"user", "assistant", "receipt"}
        upTo[n \in 0..Len(events)] ==
            IF n = 0 THEN <<>>
            ELSE IF IsMessage(events[n]) THEN Append(upTo[n - 1], events[n])
            ELSE upTo[n - 1]
    IN  upTo[Len(events)]

-----------------------------------------------------------------------------
(* Recovery (recovery.rs): what a scan of a thread's events finds open.    *)

\* Positions of the thread's events of a type, and the calls they are about.
Places(events, thread, type) ==
    {i \in DOMAIN events : events[i].thread = thread /\ events[i].type = type}

KeysOf(events, thread, type) ==
    {<<events[i].turn, events[i].call>> : i \in Places(events, thread, type)}

AcceptedKeys(events, thread) ==
    {key \in Turns \X Calls :
        \E i \in Places(events, thread, "assistant") :
            /\ events[i].turn = key[1]
            /\ \E k \in DOMAIN events[i].data : events[i].data[k].id = key[2]}

\* The receipts of the given status for the calls keys, each with the action of
\* its last event of a type: insertion into the map overwrites.
ReceiptsFor(events, thread, keys, type, status) ==
    {Receipt(thread, events[i].turn, events[i].call, status, events[i].data) :
        i \in {j \in Places(events, thread, type) :
                  /\ <<events[j].turn, events[j].call>> \in keys
                  /\ \A k \in Places(events, thread, type) : k > j =>
                        <<events[k].turn, events[k].call>>
                            # <<events[j].turn, events[j].call>>}}

\* Mutated form: calls that never got as far as preparation are forgotten.
MissingReceiptsPrepared(events, thread) ==
    LET closed == KeysOf(events, thread, "receipt")
        started == KeysOf(events, thread, "started")
        prepared == KeysOf(events, thread, "prepared")
    IN  ReceiptsFor(events, thread, started \ closed, "started", "unknown")
        \cup ReceiptsFor(events, thread, (prepared \ started) \ closed, "prepared", "failed")

\* Mutated form: an execution that was cut short is reported as not done.
MissingReceiptsFailed(events, thread) ==
    LET closed == KeysOf(events, thread, "receipt")
        prepared == KeysOf(events, thread, "prepared")
        accepted == AcceptedKeys(events, thread)
    IN  ReceiptsFor(events, thread, prepared \ closed, "prepared", "failed")
        \cup {Receipt(thread, key[1], key[2], "failed", None) :
                key \in (accepted \ prepared) \ closed}

\* Started calls are unknown; calls prepared or only accepted were not executed.
MissingReceipts(events, thread) ==
    LET closed == KeysOf(events, thread, "receipt")
        started == KeysOf(events, thread, "started")
        prepared == KeysOf(events, thread, "prepared")
        accepted == AcceptedKeys(events, thread)
    IN  ReceiptsFor(events, thread, started \ closed, "started", "unknown")
        \cup ReceiptsFor(events, thread, (prepared \ started) \ closed, "prepared", "failed")
        \cup {Receipt(thread, key[1], key[2], "failed", None) :
                key \in ((accepted \ prepared) \ started) \ closed}

\* Turns whose turn_started is not followed by a terminal event.
OpenTurns(events, thread) ==
    {t \in Turns : \E i \in Places(events, thread, "turn_started") :
        /\ events[i].turn = t
        /\ \A type \in Terminal : \A j \in Places(events, thread, type) :
              j > i => events[j].turn # t}

RecoveryFailures(events, thread) ==
    {TurnEvent("turn_failed", thread, t) : t \in OpenTurns(events, thread)}
=============================================================================
