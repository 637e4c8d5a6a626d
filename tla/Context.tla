------------------------------ MODULE Context ------------------------------
(***************************************************************************)
(* The compilation of a model request's context, with the compilers stacked *)
(* as the documentation shows: ExternalOutputCompiler archives the large    *)
(* outputs of the transcript one after the other, MemoryContextCompiler     *)
(* adds what the turn recalls, and FsContextCompiler keeps the last groups  *)
(* of the transcript.                                                      *)
(***************************************************************************)
EXTENDS Memory, OutputArchive

CONSTANTS
    MaxGroups,      \* max_transcript_groups
    MaxMessages,    \* bound: messages of the transcript
    MaxOps          \* bound: operations started, restarts included

ASSUME ContextAssumption == {MaxGroups, MaxMessages, MaxOps} \subseteq Nat

VARIABLES
    transcript, \* the thread's transcript
    compiling,  \* the compile in progress: its turn and the next message, or None
    ops

contextVars == <<transcript, compiling>>
vars == <<memoryVars, archiveVars, contextVars, ops>>

Message(type, calls, call, output) ==
    [type |-> type, calls |-> calls, call |-> call, output |-> output]

Init ==
    /\ MemoryInit /\ ArchiveInit
    /\ transcript = <<>> /\ compiling = None /\ ops = 0

Starts == ops < MaxOps /\ ops' = ops + 1

-----------------------------------------------------------------------------
(* The transcript window.                                                  *)

\* Mutated form: the last receipt of a response is a group of its own.
AbsorbedShort(s, i) ==
    /\ s[i].type = "tool"
    /\ \E a \in 1..(i - 1) :
          /\ s[a].type = "assistant" /\ i - a < s[a].calls
          /\ \A k \in (a + 1)..i : s[k].type = "tool"

\* compact_transcript: a group is a message with, for an assistant, as many of the
\* receipts that follow as it has calls.
Absorbed(s, i) ==
    /\ s[i].type = "tool"
    /\ \E a \in 1..(i - 1) :
          /\ s[a].type = "assistant" /\ i - a <= s[a].calls
          /\ \A k \in (a + 1)..i : s[k].type = "tool"

GroupStarts(s) == {i \in DOMAIN s : ~Absorbed(s, i)}

\* The groups that are kept are the last MaxGroups.
Compacted(s) ==
    LET starts == GroupStarts(s)
        kept == {i \in starts : Cardinality({j \in starts : j >= i}) <= MaxGroups}
    IN  IF kept = {} THEN <<>> ELSE SubSeq(s, Min(kept), Len(s))

-----------------------------------------------------------------------------
(* The transcript grows while nothing is compiled for it; a response comes  *)
(* with the receipts of all its calls before the next request.             *)

Idle == compiling = None

Say ==
    /\ Idle /\ Len(transcript) < MaxMessages
    /\ transcript' = Append(transcript, Message("user", 0, None, None))
    /\ Starts
    /\ UNCHANGED <<memoryVars, archiveVars, compiling>>

\* A receipt's output is small, and stays inline, or large.
Respond(ids, outputs) ==
    /\ Idle /\ Len(transcript) + Len(ids) < MaxMessages
    /\ transcript' = transcript \o <<Message("assistant", Len(ids), None, None)>>
                       \o [i \in DOMAIN ids |-> Message("tool", 0, ids[i], outputs[i])]
    /\ Starts
    /\ UNCHANGED <<memoryVars, archiveVars, compiling>>

-----------------------------------------------------------------------------
(* compile.                                                                *)

CompileStart(t) ==
    /\ Idle /\ store = "open"
    /\ compiling' = [turn |-> t, next |-> 1]
    /\ Starts
    /\ UNCHANGED <<memoryVars, archiveVars, transcript>>

Large(i) == transcript[i].type = "tool" /\ transcript[i].output # None

\* ExternalOutputCompiler: the next message, retained when it is a large output.
CompileMessage ==
    /\ compiling # None /\ ~Busy /\ ~failed
    /\ compiling.next <= Len(transcript)
    /\ compiling' = [compiling EXCEPT !.next = @ + 1]
    /\ IF Large(compiling.next)
       THEN LET m == transcript[compiling.next] IN Retain(m.call, m.output)
       ELSE UNCHANGED archiveVars
    /\ UNCHANGED <<memoryVars, transcript, ops>>

\* An error of the archive fails the compilation.
CompileFails ==
    /\ compiling # None /\ ~Busy /\ failed
    /\ compiling' = None /\ failed' = FALSE
    /\ UNCHANGED <<memoryVars, dir, json, pending, step, job, published, unsynced,
                   transcript, ops>>

CompileEnds ==
    /\ compiling # None /\ ~Busy /\ ~failed
    /\ compiling.next > Len(transcript)
    /\ CompileMemory(compiling.turn)
    /\ compiling' = None
    /\ UNCHANGED <<archiveVars, transcript, ops>>

-----------------------------------------------------------------------------

\* Memory is written by other threads; the archive is not concerned, so that
\* nothing is lost by waiting for retain.
MemoryStep ==
    /\ ~Busy
    /\ \/ Starts /\ \E x \in Ids, text \in Texts : Upsert(x, text)
       \/ Starts /\ \E c \in Clients, x \in Ids : ForgetLook(c, x)
       \/ UNCHANGED ops /\ \E c \in Clients : ForgetAppend(c)
    /\ UNCHANGED <<archiveVars, contextVars>>

ArchiveStep == RetainStep /\ UNCHANGED <<memoryVars, contextVars, ops>>

Restart ==
    /\ Starts
    /\ Kill \/ PowerLoss
    /\ Reopen
    /\ compiling' = None /\ UNCHANGED transcript

Next ==
    \/ Say
    \/ \E n \in 1..2 : \E ids \in [1..n -> CallIds], outputs \in [1..n -> Outputs \cup {None}] :
          IsInjective(ids) /\ Respond(ids, outputs)
    \/ \E t \in Turns : CompileStart(t)
    \/ CompileMessage \/ CompileFails \/ CompileEnds
    \/ MemoryStep \/ ArchiveStep \/ Restart

Spec == Init /\ [][Next]_vars

\* Type correctness.
TypeOK ==
    /\ MemoryTypeOK /\ ArchiveTypeOK
    /\ Len(transcript) <= MaxMessages
    /\ compiling # None => compiling.turn \in Turns
    /\ ops \in 0..MaxOps

\* The window never begins between a response and its receipts, nor ends before
\* them: every receipt it has follows its response, and every call has its receipt
\* (compact_transcript, "one indivisible group").
WindowClosed ==
    LET w == Compacted(transcript) IN
    \A i \in DOMAIN w :
        /\ w[i].type = "tool" => \E a \in 1..(i - 1) : w[a].type = "assistant" /\ i - a <= w[a].calls
        /\ w[i].type = "assistant" =>
              i + w[i].calls <= Len(w) /\ \A k \in 1..w[i].calls : w[i + k].type = "tool"
=============================================================================
