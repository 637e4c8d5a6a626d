----------------------------- MODULE DurableLog -----------------------------
(***************************************************************************)
(* What the EventStore trait of crates/harness-core/src/store.rs promises  *)
(* to its users: one append-only log of records, whose sequence numbers    *)
(* are their positions.  EventStore shows that the JSONL store keeps this  *)
(* promise; AgentRuntime is built on it.                                   *)
(***************************************************************************)
EXTENDS Naturals, Sequences

VARIABLES
    log,        \* the events in memory, in sequence order
    synced,     \* how many of them sync_data has made durable
    pending,    \* <<>> or <<the record of a failed append>>, if it is in the file
    broken      \* write_failed: appends are refused until the next open

storeVars == <<log, synced, pending, broken>>

StoreInit == log = <<>> /\ synced = 0 /\ pending = <<>> /\ broken = FALSE

\* Mutated form: append returns without sync_data.
StoreAppendLazy(record) ==
    /\ ~broken
    /\ log' = Append(log, record)
    /\ UNCHANGED <<synced, pending, broken>>

\* append returned Ok: sync_data covers the whole file.
StoreAppend(record) ==
    /\ ~broken
    /\ log' = Append(log, record)
    /\ synced' = Len(log) + 1
    /\ UNCHANGED <<pending, broken>>

\* append returned Err: the whole record may be in the file, or nothing of it
\* that the next open would read.
StoreFail(record) ==
    /\ ~broken
    /\ broken' = TRUE
    /\ pending' \in {<<>>, <<record>>}
    /\ UNCHANGED <<log, synced>>

\* The process ended, or the machine lost power, and the store is opened again:
\* what was synced is there, what was not may be.  Records read back that were
\* never synced stay tentative until the next append.
StoreReopen ==
    /\ \E k \in synced..Len(log) + Len(pending) :
          log' = SubSeq(log \o pending, 1, k)
    /\ pending' = <<>>
    /\ broken' = FALSE
    /\ UNCHANGED synced

StoreNext(Records) ==
    \/ \E record \in Records : StoreAppend(record) \/ StoreFail(record)
    \/ StoreReopen
=============================================================================
