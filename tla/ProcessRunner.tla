---------------------------- MODULE ProcessRunner ----------------------------
(***************************************************************************)
(* One foreground command of the process executor                          *)
(* (crates/executor-process/src/lib.rs): run_command and capture_process on *)
(* Unix, for the local and the bubblewrap runner.                          *)
(*                                                                         *)
(* The worker polls two pipes and the leader of a process group, while     *)
(* exit, cancellation, the command's timeout and the cleanup deadline may   *)
(* come in any order.  The command is a leader, a helper it leaves in the   *)
(* background and a descendant that has escaped the group.  Output is       *)
(* counted in chunks, one for each read.                                   *)
(***************************************************************************)
EXTENDS Naturals, FiniteSets

CONSTANTS
    None,           \* nothing
    Batch,          \* reads of one pipe in one drain
    Maximum,        \* maximum_output_bytes, in chunks
    PipeSize        \* chunks a pipe holds before its writers block

ASSUME RunnerAssumption == {Batch, PipeSize} \subseteq Nat \ {0} /\ Maximum \in Nat

VARIABLES
    runner,     \* "local" or "bubblewrap"
    cancelled,  \* the turn's CancellationToken
    proc,       \* the processes of the command
    signalled,  \* those that a SIGKILL is on its way to
    open,       \* the processes that hold the pipes open for writing
    pipe,       \* the two CapturedPipes, and what waits in them
    pc,         \* where the worker is
    tries,      \* reads of the current drain
    saw,        \* the locals of capture_process: exited, cancelled, timed_out, cleanup
    late,       \* the command's timeout has elapsed
    over,       \* the cleanup deadline has elapsed
    reaper,     \* a background thread waits for the leader
    stale,      \* ghost: a group was signalled after its leader was reaped
    result      \* what run_command returned, or None

processVars == <<proc, signalled, open>>
workerVars == <<pc, tries, saw, result>>
runVars == <<runner, cancelled, processVars, pipe, workerVars, late, over, reaper, stale>>

Pipes == {"stdout", "stderr"}
Processes == {"leader", "helper", "escaped"}

EmptyPipe == [waiting |-> 0, retained |-> 0, truncated |-> FALSE, eof |-> FALSE,
              missed |-> FALSE]
Unseen == [exited |-> FALSE, cancelled |-> FALSE, timedOut |-> FALSE, cleanup |-> FALSE]

RunInit ==
    /\ runner \in {"local", "bubblewrap"}
    /\ cancelled = FALSE
    /\ proc = [q \in Processes |-> "none"]
    /\ signalled = {}
    /\ open = [q \in Processes |-> FALSE]
    /\ pipe = [p \in Pipes |-> EmptyPipe]
    /\ pc = "idle" /\ tries = 0 /\ saw = Unseen
    /\ late = FALSE /\ over = FALSE /\ reaper = FALSE /\ stale = FALSE
    /\ result = None

Alive(q) == proc[q] = "alive"
Running == pc \notin {"idle", "called"}

\* The group run_command signals.  bwrap gives the command a session of its own,
\* so only bwrap is in it; its descendants die with it.
Group == IF runner = "local" THEN {"leader", "helper"} ELSE {"leader"}

-----------------------------------------------------------------------------
(* The command's processes.                                                *)

\* The leader leaves a background process, or one that calls setsid; bwrap's
\* namespace keeps the second kind from outliving it.
Fork(q) ==
    /\ Alive("leader") /\ "leader" \notin signalled
    /\ proc[q] = "none"
    /\ q = "helper" \/ (q = "escaped" /\ runner = "local")
    /\ proc' = [proc EXCEPT ![q] = "alive"]
    /\ open' = [open EXCEPT ![q] = open["leader"]]
    /\ UNCHANGED <<runner, cancelled, signalled, pipe, workerVars, late, over, reaper, stale>>

\* Once the command has returned, its pipes have no reader: what is still written
\* to them is missed.
Write(q, p) ==
    /\ Alive(q) /\ q \notin signalled /\ open[q]
    /\ \/ Running /\ pipe[p].waiting < PipeSize /\ pipe' = [pipe EXCEPT ![p].waiting = @ + 1]
       \/ ~Running /\ result.kind = "ok" /\ ~pipe[p].missed
          /\ pipe' = [pipe EXCEPT ![p].missed = TRUE]
    /\ UNCHANGED <<runner, cancelled, processVars, workerVars, late, over, reaper, stale>>

\* A background process redirects its output.
Close(q) ==
    /\ Running /\ q # "leader" /\ Alive(q) /\ q \notin signalled /\ open[q]
    /\ open' = [open EXCEPT ![q] = FALSE]
    /\ UNCHANGED <<runner, cancelled, proc, signalled, pipe, workerVars, late, over, reaper, stale>>

\* A process ends by itself or because it was signalled.  The leader stays a
\* zombie until someone waits for it.
End(q) ==
    /\ Alive(q)
    /\ proc' = [proc EXCEPT ![q] = IF q = "leader" THEN "zombie" ELSE "gone"]
    /\ open' = [open EXCEPT ![q] = FALSE]
    /\ signalled' = (signalled \ {q}) \cup
                     {h \in {"helper"} : q = "leader" /\ runner = "bubblewrap" /\ Alive(h)}
    /\ UNCHANGED <<runner, cancelled, pipe, workerVars, late, over, reaper, stale>>

Cancel ==
    /\ ~cancelled /\ cancelled' = TRUE
    /\ UNCHANGED <<runner, processVars, pipe, workerVars, late, over, reaper, stale>>

\* Instant::elapsed reaches the timeout, which is not looked at again once the
\* cleanup has started, and then the cleanup deadline.
Elapse ==
    /\ Running /\ ~saw.cleanup /\ ~late /\ late' = TRUE
    /\ UNCHANGED <<runner, cancelled, processVars, pipe, workerVars, over, reaper, stale>>

Overrun ==
    /\ Running /\ saw.cleanup /\ ~over /\ over' = TRUE
    /\ UNCHANGED <<runner, cancelled, processVars, pipe, workerVars, late, reaper, stale>>

-----------------------------------------------------------------------------
(* The worker.                                                             *)

\* Mutated form: an output left unread counts as complete.
TruncatedRead == {p \in Pipes : pipe[p].truncated}

\* An output is truncated also when its pipe was not read to the end.
Truncated == {p \in Pipes : pipe[p].truncated \/ ~pipe[p].eof}

\* run_command's last look at the token: a cancelled command never succeeds.  What
\* is still written after an error is of no interest.
Return(kind) ==
    /\ pc' = "idle" /\ saw' = Unseen /\ late' = FALSE /\ over' = FALSE
    /\ IF cancelled \/ kind # "ok"
       THEN /\ result' = [kind |-> IF cancelled THEN "cancelled" ELSE kind, truncated |-> {}]
            /\ pipe' = [p \in Pipes |-> EmptyPipe]
            /\ open' = [q \in Processes |-> FALSE]
       ELSE /\ result' = [kind |-> "ok", truncated |-> Truncated]
            /\ pipe' = [p \in Pipes |->
                   [EmptyPipe EXCEPT !.missed = pipe[p].missed \/ pipe[p].waiting > 0]]
            /\ open' = open

ReturnEarly(kind) ==
    /\ pc' = "idle"
    /\ result' = [kind |-> kind, truncated |-> {}]
    /\ UNCHANGED <<runner, cancelled, processVars, pipe, tries, saw, late, over, reaper, stale>>

\* kill_process_group: SIGKILL to -pid.  Once the leader is reaped the number may
\* be another group's.
KillGroup ==
    /\ signalled' = signalled \cup {q \in Group : Alive(q)}
    /\ stale' = (stale \/ proc["leader"] = "reaped")

\* run_controlled of both runners: the cancellation check, bubblewrap's check of
\* the working directory, and spawn, which may fail.
Run ==
    /\ pc = "called"
    /\ \/ cancelled /\ ReturnEarly("cancelled")
       \/ ~cancelled /\ runner = "bubblewrap" /\ ReturnEarly("invalid")
       \/ ~cancelled /\ ReturnEarly("io")
       \/ /\ ~cancelled
          /\ proc' = [proc EXCEPT !["leader"] = "alive"]
          /\ open' = [open EXCEPT !["leader"] = TRUE]
          /\ pc' = "stdout"
          /\ UNCHANGED <<runner, cancelled, signalled, pipe, tries, saw, late, over, reaper,
                         stale, result>>

After(p) == IF p = "stdout" THEN "stderr" ELSE "check"
Held == \E q \in Processes : open[q]

\* Mutated form: a drain goes on as long as there is output.
NoLastTry(n) == FALSE

\* drain: at most Batch reads, so that endless output starves nothing.
LastTry(n) == n + 1 = Batch

Fits(p) == pipe[p].retained < Maximum

Drain(p) ==
    /\ pc = p
    /\ \/ /\ ~pipe[p].eof /\ pipe[p].waiting > 0
          /\ pipe' = [pipe EXCEPT ![p].waiting = @ - 1,
                                  ![p].retained = IF Fits(p) THEN @ + 1 ELSE @,
                                  ![p].truncated = @ \/ ~Fits(p),
                                  ![p].missed = @ \/ ~Fits(p)]
          /\ IF LastTry(tries) THEN pc' = After(p) /\ tries' = 0
                               ELSE pc' = pc /\ tries' = (tries + 1) % Batch
       \/ /\ pipe[p].eof \/ pipe[p].waiting = 0
          /\ pipe' = [pipe EXCEPT ![p].eof = @ \/ ~Held]
          /\ pc' = After(p) /\ tries' = 0
    /\ UNCHANGED <<runner, cancelled, processVars, saw, late, over, reaper, stale, result>>

\* Mutated form: the look at the leader reaps it.
CheckExitReaping ==
    /\ pc = "check"
    /\ saw' = [saw EXCEPT !.exited = @ \/ proc["leader"] = "zombie"]
    /\ proc' = [proc EXCEPT !["leader"] = IF @ = "zombie" THEN "reaped" ELSE @]
    /\ pc' = "signal"
    /\ UNCHANGED <<runner, cancelled, signalled, open, pipe, tries, late, over, reaper, stale, result>>

\* child_has_exited looks without reaping (WNOWAIT).
CheckExit ==
    /\ pc = "check"
    /\ saw' = [saw EXCEPT !.exited = @ \/ proc["leader"] = "zombie"]
    /\ pc' = "signal"
    /\ UNCHANGED <<runner, cancelled, processVars, pipe, tries, late, over, reaper, stale, result>>

\* Mutated form: a command that has ended needs no signal.
MustStopUnfinished == ~saw.exited /\ (cancelled \/ late)

\* What ends the command: its own exit, the token or the timeout.
MustStop == saw.exited \/ cancelled \/ late

Signal ==
    /\ pc = "signal"
    /\ IF ~saw.cleanup /\ MustStop
       THEN /\ saw' = [saw EXCEPT !.cancelled = cancelled,
                                  !.timedOut = ~saw.exited /\ ~cancelled,
                                  !.cleanup = TRUE]
            /\ KillGroup
       ELSE UNCHANGED <<saw, signalled, stale>>
    /\ pc' = "leave"
    /\ UNCHANGED <<runner, cancelled, proc, open, pipe, tries, late, over, reaper, result>>

\* The loop ends when everything is read, or at the cleanup deadline.
Drained == \A p \in Pipes : pipe[p].eof
PastCleanup == saw.cleanup /\ over

Leave ==
    /\ pc = "leave"
    /\ pc' = IF (saw.exited /\ Drained) \/ (PastCleanup /\ saw.exited)
             THEN "captured"
             ELSE IF PastCleanup THEN "failed" ELSE "stdout"
    /\ UNCHANGED <<runner, cancelled, processVars, pipe, tries, saw, late, over, reaper, stale,
                   result>>

\* capture_process returns: a cancellation it saw is an error, and only otherwise
\* is the leader reaped.
Captured ==
    /\ pc = "captured"
    /\ IF saw.cancelled
       THEN pc' = "failed" /\ UNCHANGED <<proc, open, pipe, saw, late, over, result>>
       ELSE /\ proc["leader"] = "zombie"
            /\ proc' = [proc EXCEPT !["leader"] = "reaped"]
            /\ Return("ok")
    /\ UNCHANGED <<runner, cancelled, signalled, tries, reaper, stale>>

\* A failed fcntl, read, waitid, kill or wait ends capture_process with an error.
CaptureFails ==
    /\ pc \in {"stdout", "stderr", "check", "signal", "captured"}
    /\ pc' = "failed" /\ tries' = 0
    /\ UNCHANGED <<runner, cancelled, processVars, pipe, saw, late, over, reaper, stale, result>>

\* run_command after an error: the group and the leader are signalled, and a
\* thread is left to wait for the leader.
Fail ==
    /\ pc = "failed"
    /\ KillGroup
    /\ reaper' = TRUE
    /\ Return("io")
    /\ UNCHANGED <<runner, cancelled, proc, tries>>

Reap ==
    /\ reaper /\ proc["leader"] = "zombie"
    /\ proc' = [proc EXCEPT !["leader"] = "reaped"]
    /\ reaper' = FALSE
    /\ UNCHANGED <<runner, cancelled, signalled, open, pipe, workerVars, late, over, stale>>

Worker == Run \/ (\E p \in Pipes : Drain(p)) \/ CheckExit \/ Signal \/ Leave \/ Captured \/ Fail
Command ==
    \/ \E q \in Processes : Fork(q) \/ Close(q) \/ End(q)
    \/ \E q \in Processes, p \in Pipes : Write(q, p)

RunNext == Worker \/ CaptureFails \/ Reap \/ Command \/ Cancel \/ Elapse \/ Overrun

\* The threads are scheduled, clocks advance and a signalled process dies; what
\* has not been signalled may write or live for ever.
RunFairness ==
    /\ WF_runVars(Worker)
    /\ WF_runVars(Elapse) /\ WF_runVars(Overrun)
    /\ WF_runVars(Reap)
    /\ \A q \in Processes : WF_runVars(q \in signalled /\ End(q))
=============================================================================
