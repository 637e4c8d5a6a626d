--------------------------- MODULE OutputArchive ---------------------------
(***************************************************************************)
(* The archive of large tool outputs (crates/context-fs/src/output.rs) for *)
(* one thread: retain, which publishes a snapshot for a reference in the    *)
(* model's context, so that the model can read it back.                    *)
(*                                                                         *)
(* The file system keeps what was synced.  Power loss may undo directory    *)
(* entries and file contents that were not; the end of the process alone    *)
(* undoes nothing.                                                         *)
(***************************************************************************)
EXTENDS Naturals, Sequences, FiniteSets, FiniteSetsExt, Functions

CONSTANTS
    Absent,         \* nothing
    CallIds,        \* call ids of the thread
    Outputs         \* large outputs

ASSUME ArchiveAssumption == Absent \notin Outputs

VARIABLES
    dir,        \* the thread's directory: "none", "cached" or "durable"
    json,       \* the snapshot of each call
    pending,    \* the temporary file: what it holds, and whether it is synced
    step,       \* where retain is
    job,        \* the call and the output it retains, or Absent
    failed,     \* whether the last retain failed
    published,  \* the references handed out, each with its output
    unsynced    \* ghost: a retain failed between create_dir and the sync of the root

archiveVars == <<dir, json, pending, step, job, failed, published, unsynced>>

NoFile == [entry |-> "none", bytes |-> Absent, synced |-> FALSE]
NoPending == [bytes |-> Absent, synced |-> FALSE]

ArchiveInit ==
    /\ dir = "none" /\ json = [c \in CallIds |-> NoFile]
    /\ pending = NoPending
    /\ step = "idle" /\ job = Absent /\ failed = FALSE
    /\ published = {} /\ unsynced = FALSE

-----------------------------------------------------------------------------
(* retain, one file-system operation at a time, under the writer lock.     *)

Busy == step # "idle"

Retain(c, output) ==
    /\ ~Busy
    /\ step' = "mkdir" /\ job' = [call |-> c, output |-> output] /\ failed' = FALSE
    /\ UNCHANGED <<dir, json, pending, published, unsynced>>

\* Any of the operations may fail; the error fails the compilation.
RetainFails ==
    /\ step' = "idle" /\ job' = Absent /\ failed' = TRUE

\* create_dir: only a directory that is new has its entry synced.
MakeDirectory ==
    /\ step = "mkdir"
    /\ \/ dir = "none" /\ dir' = "cached" /\ step' = "syncroot" /\ UNCHANGED <<job, failed>>
       \/ dir # "none" /\ step' = "look" /\ UNCHANGED <<dir, job, failed>>
       \/ dir = "none" /\ RetainFails /\ UNCHANGED dir
    /\ UNCHANGED <<json, pending, published, unsynced>>

SyncRoot ==
    /\ step = "syncroot"
    /\ \/ dir' = "durable" /\ step' = "look" /\ UNCHANGED <<job, failed, unsynced>>
       \/ RetainFails /\ unsynced' = TRUE /\ UNCHANGED dir
    /\ UNCHANGED <<json, pending, published>>

\* Mutated form: a snapshot that exists is not synced again.
LookShort ==
    /\ step = "look"
    /\ LET c == job.call IN
       IF json[c].entry = "none" THEN step' = "write" /\ UNCHANGED <<json, job, failed, published>>
       ELSE \/ /\ json[c].bytes = job.output
               /\ published' = published \cup {job}
               /\ step' = "idle" /\ job' = Absent
               /\ UNCHANGED <<json, failed>>
            \/ RetainFails /\ UNCHANGED <<json, published>>
    /\ UNCHANGED <<dir, pending, unsynced>>

\* A snapshot that exists must hold the same output, and is synced again.
Look ==
    /\ step = "look"
    /\ LET c == job.call IN
       IF json[c].entry = "none" THEN step' = "write" /\ UNCHANGED <<json, job, failed>>
       ELSE \/ /\ json[c].bytes = job.output
               /\ json' = [json EXCEPT ![c].synced = TRUE]
               /\ step' = "syncdir" /\ UNCHANGED <<job, failed>>
            \/ RetainFails /\ UNCHANGED json
    /\ UNCHANGED <<dir, pending, published, unsynced>>

\* The temporary file is created and written; an error removes it.
WritePending ==
    /\ step = "write"
    /\ \/ /\ pending' = [bytes |-> job.output, synced |-> FALSE]
          /\ step' = "sync" /\ UNCHANGED <<job, failed>>
       \/ RetainFails /\ UNCHANGED pending
    /\ UNCHANGED <<dir, json, published, unsynced>>

SyncPending ==
    /\ step = "sync"
    /\ \/ pending' = [pending EXCEPT !.synced = TRUE] /\ step' = "link" /\ UNCHANGED <<job, failed>>
       \/ RetainFails /\ pending' = NoPending
    /\ UNCHANGED <<dir, json, published, unsynced>>

\* hard_link publishes the inode; the temporary name is removed in any case.  A
\* removal that fails is an error, with the snapshot in place.
Link ==
    /\ step = "link"
    /\ LET linked == [json EXCEPT ![job.call] =
                        [entry |-> "cached", bytes |-> pending.bytes, synced |-> pending.synced]]
       IN  \/ json' = linked /\ step' = "syncdir" /\ UNCHANGED <<job, failed>>
           \/ json' = linked /\ RetainFails
           \/ json' = json /\ RetainFails
    /\ pending' = NoPending
    /\ UNCHANGED <<dir, published, unsynced>>

\* The sync of the thread's directory ends both paths, and the reference is used.
SyncDirectory ==
    /\ step = "syncdir"
    /\ \/ /\ json' = [c \in CallIds |-> IF json[c].entry = "cached"
                                        THEN [json[c] EXCEPT !.entry = "durable"] ELSE json[c]]
          /\ published' = published \cup {job}
          /\ step' = "idle" /\ job' = Absent /\ UNCHANGED failed
       \/ RetainFails /\ UNCHANGED <<json, published>>
    /\ UNCHANGED <<dir, pending, unsynced>>

RetainStep ==
    \/ MakeDirectory \/ SyncRoot \/ Look \/ WritePending \/ SyncPending \/ Link \/ SyncDirectory

-----------------------------------------------------------------------------
(* The end of the process and the loss of power.  A .pending file that is   *)
(* left over is never looked at again.                                     *)

Restarted ==
    /\ step' = "idle" /\ job' = Absent /\ failed' = FALSE
    /\ pending' = NoPending

Kill ==
    /\ Restarted
    /\ unsynced' = (unsynced \/ step = "syncroot")
    /\ UNCHANGED <<dir, json, published>>

\* What is left of a file: with its entry, all of its data if that was synced.
AfterLoss(f) ==
    CASE f.entry = "none" -> {f}
      [] f.entry = "cached" -> {NoFile} \cup {[f EXCEPT !.entry = "durable", !.bytes = b] :
                                   b \in IF f.synced THEN {f.bytes} ELSE {f.bytes, Absent}}
      [] f.entry = "durable" -> {[f EXCEPT !.bytes = b] :
                                   b \in IF f.synced THEN {f.bytes} ELSE {f.bytes, Absent}}

PowerLoss ==
    /\ Restarted
    /\ \/ /\ dir' = (IF dir = "cached" THEN "durable" ELSE dir)
          /\ \E after \in [CallIds -> UNION {AfterLoss(json[c]) : c \in CallIds}] :
                /\ \A c \in CallIds : after[c] \in AfterLoss(json[c])
                /\ json' = after
       \/ dir = "cached" /\ dir' = "none" /\ json' = [c \in CallIds |-> NoFile]
    /\ UNCHANGED <<published, unsynced>>

-----------------------------------------------------------------------------
(* Properties.                                                             *)

\* Type correctness.
ArchiveTypeOK ==
    /\ dir \in {"none", "cached", "durable"}
    /\ \A c \in CallIds : json[c].entry \in {"none", "cached", "durable"}
    /\ step \in {"idle", "mkdir", "syncroot", "look", "write", "sync", "link", "syncdir"}
    /\ job # Absent => job \in [call : CallIds, output : Outputs]
    /\ published \subseteq [call : CallIds, output : Outputs]

\* The output behind a reference that was handed out can be read back unchanged,
\* whatever failed before it and whatever is lost after it; the exception is a
\* retain that stopped between create_dir and the sync of the root, which no later
\* one repeats.  And a crash or a loss of power leaves at most a .pending file, never
\* a partial snapshot, which would fail every later compilation of the thread (retain).
ReferencesResolve ==
    /\ \A r \in published : json[r.call].bytes = r.output \/ unsynced
    /\ \A c \in CallIds : json[c].entry # "none" => json[c].bytes \in Outputs
=============================================================================
