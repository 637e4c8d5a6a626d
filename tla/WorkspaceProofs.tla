-------------------------- MODULE WorkspaceProofs --------------------------
(***************************************************************************)
(* Proofs about ProcessRunner and Workspace, for every batch, output limit *)
(* and pipe size and any number of calls and edits: no stale group is      *)
(* signalled, no process of a returned command's group runs on, a complete *)
(* output is complete, and the tools on the file replace and report what   *)
(* they claim.                                                             *)
(*                                                                         *)
(* RunInv is about the command alone; its core is that from the moment the *)
(* cleanup starts every process of the group that lives has been           *)
(* signalled, and that no new one can come.  CallInv says what the stages  *)
(* of a call rely on.                                                      *)
(***************************************************************************)
EXTENDS Workspace, TLAPS

Stages == Pipes \cup {"idle", "called", "check", "signal", "leave", "captured", "failed"}
PipeStates == [waiting : Nat, retained : Nat, truncated : BOOLEAN, eof : BOOLEAN,
               missed : BOOLEAN]

RunTypeOK ==
    /\ runner \in {"local", "bubblewrap"} /\ cancelled \in BOOLEAN
    /\ proc \in [Processes -> {"none", "alive", "zombie", "reaped", "gone"}]
    /\ signalled \subseteq Processes
    /\ open \in [Processes -> BOOLEAN]
    /\ pipe \in [Pipes -> PipeStates]
    /\ pc \in Stages
    /\ saw \in [exited : BOOLEAN, cancelled : BOOLEAN, timedOut : BOOLEAN, cleanup : BOOLEAN]

\* No command has been started.
Fresh ==
    /\ proc = [q \in Processes |-> "none"]
    /\ pipe = [p \in Pipes |-> EmptyPipe]
    /\ saw = Unseen /\ ~reaper /\ result = None

\* Whoever lives in the group has been signalled.
Killed == \A q \in Group : Alive(q) => q \in signalled

\* The leader is reaped only by the step that ends the command, or after it.
LeaderInv ==
    /\ pc = "called" => Fresh
    /\ Running => proc["leader"] \in {"alive", "zombie"} /\ ~reaper /\ result = None
    /\ proc["leader"] = "none" => \A q \in Processes : proc[q] = "none"
    /\ ~stale

\* The group is signalled before the command returns.
GroupInv ==
    /\ ~Running \/ saw.cleanup => Killed
    /\ pc = "leave" /\ saw.exited => saw.cleanup
    /\ pc = "captured" => saw.cleanup
    /\ runner = "bubblewrap" /\ proc["leader"] \notin {"none", "alive"} /\ Alive("helper") =>
          "helper" \in signalled

\* End of file means that nobody can write any more.
OutputInv ==
    /\ Running => \A p \in Pipes :
          /\ pipe[p].missed => pipe[p].truncated
          /\ pipe[p].eof => pipe[p].waiting = 0 /\ ~Held
    /\ result # None /\ result.kind = "ok" =>
          \A p \in Pipes \ result.truncated : ~pipe[p].missed /\ ~Held

RunInv == RunTypeOK /\ LeaderInv /\ GroupInv /\ OutputInv

\* Some process is beyond the signal to the group.
Outside == \E q \in Processes \ Group : proc[q] # "none"

CancelledShell == [tool |-> "shell", kind |-> "cancelled"]

\* A shell call that has not begun to run, or never will, finds no command.
ShellInv ==
    /\ calls \in Nat
    /\ calls = 0 => stage = "none"
    /\ calls = 0 \/ At("shell", "prepared") \/ outcome = CancelledShell =>
          pc = "idle" /\ Fresh

\* What was checked still holds, unless a process has come in between.
Window ==
    /\ stage = "verified" /\ link = "outside" => raced
    /\ stage = "checked" /\ link # "same" => raced
    /\ stage = "compared" /\ file # call.before => raced
    /\ stage = "elsewhere" /\ call.tool = "apply_patch" => raced

\* What a call has done to the file, at each of its stages.
EffectInv ==
    /\ stage # "none" => outcome = None
    /\ stage \notin {"none", "opened", "elsewhere"} => ~touched
    /\ Window
    /\ stage # "none" /\ call.tool = "apply_patch" => ~touched
    /\ blind => raced
    /\ raced => Outside
    /\ outcome # None /\ touched =>
            /\ outcome.kind # "cancelled"
            /\ outcome.tool = "apply_patch" => outcome.kind \in {"ok", "unknown"}

CallInv == ShellInv /\ EffectInv

-----------------------------------------------------------------------------
(* The command.                                                            *)

\* Before the first call no command has been started.
LEMMA RunInitHolds == RunInit => RunInv /\ Fresh /\ pc = "idle"
<1> SUFFICES ASSUME RunInit PROVE RunInv /\ Fresh /\ pc = "idle"
  OBVIOUS
<1>1. Fresh /\ pc = "idle" /\ result = None
  BY DEF RunInit, Fresh
<1>2. RunTypeOK
  BY DEF RunInit, RunTypeOK, Stages, PipeStates, EmptyPipe, Unseen, Processes, Pipes
<1>3. LeaderInv
  BY <1>1 DEF RunInit, LeaderInv, Running, Processes
<1>4. GroupInv
  BY <1>1, <1>2 DEF RunInit, GroupInv, Killed, Alive, Group, Processes
<1>5. OutputInv
  BY <1>1 DEF OutputInv, Running
<1> QED
  BY <1>1, <1>2, <1>3, <1>4, <1>5 DEF RunInv

\* Steps that leave the processes, the pipes and the worker alone.
LEMMA IdleStep ==
    ASSUME RunInv, cancelled' \in BOOLEAN,
           UNCHANGED <<runner, processVars, pipe, pc, saw, result, reaper, stale>>
    PROVE  RunInv'
<1> USE DEF processVars
<1>1. RunTypeOK'
  BY DEF RunInv, RunTypeOK, PipeStates
<1>2. LeaderInv'
  BY DEF RunInv, LeaderInv, Running, Fresh
<1>3. GroupInv'
  BY DEF RunInv, GroupInv, Running, Killed, Alive, Group
<1>4. OutputInv'
  BY DEF RunInv, OutputInv, Running, Held
<1> QED
  BY <1>1, <1>2, <1>3, <1>4 DEF RunInv

\* Run starts the leader, or the command never runs.
LEMMA RunKeeps == RunInv /\ Run => RunInv'
<1> SUFFICES ASSUME RunInv, Run PROVE RunInv'
  OBVIOUS
<1>1. RunTypeOK /\ pc = "called" /\ Fresh /\ ~stale
  BY DEF RunInv, LeaderInv, Run
<1>2. CASE \E kind \in {"cancelled", "invalid", "io"} : ReturnEarly(kind)
  <2>1. /\ pc' = "idle" /\ result'.kind # "ok"
        /\ UNCHANGED <<runner, cancelled, proc, signalled, open, pipe, saw, reaper, stale>>
    BY <1>2 DEF ReturnEarly, processVars
  <2>2. RunTypeOK'
    BY <1>1, <2>1 DEF RunTypeOK, PipeStates, Stages
  <2>3. LeaderInv'
    BY <1>1, <2>1 DEF LeaderInv, RunInv, Running
  <2>4. GroupInv'
    BY <1>1, <2>1 DEF GroupInv, Fresh, Killed, Alive, Group, Processes
  <2>5. OutputInv'
    BY <2>1 DEF OutputInv, Running
  <2> QED
    BY <2>2, <2>3, <2>4, <2>5 DEF RunInv
<1>3. CASE /\ proc' = [proc EXCEPT !["leader"] = "alive"]
           /\ open' = [open EXCEPT !["leader"] = TRUE]
           /\ pc' = "stdout"
           /\ UNCHANGED <<runner, cancelled, signalled, pipe, saw, reaper, stale, result>>
  <2>1. RunTypeOK'
    BY <1>1, <1>3 DEF RunTypeOK, PipeStates, Stages, Pipes, Processes
  <2>2. LeaderInv'
    BY <1>1, <1>3 DEF LeaderInv, Running, RunTypeOK, Processes, Fresh
  <2>3. GroupInv'
    BY <1>1, <1>3 DEF GroupInv, Fresh, Unseen, Running, Killed, Alive, Group, Processes
  <2>4. OutputInv'
    BY <1>1, <1>3 DEF OutputInv, Fresh, EmptyPipe
  <2> QED
    BY <2>1, <2>2, <2>3, <2>4 DEF RunInv
<1> QED
  BY <1>2, <1>3 DEF Run

\* A read or a poll moves the worker on within the command; what it says of the
\* pipes is the rest of the argument.
LEMMA DrainRest ==
    ASSUME RunInv, Running, pc' \in {"stdout", "stderr", "check"},
           UNCHANGED <<runner, cancelled, proc, signalled, open, saw, reaper, stale, result>>,
           pipe' \in [Pipes -> PipeStates], OutputInv'
    PROVE  RunInv'
<1>1. RunTypeOK'
  BY DEF RunInv, RunTypeOK, Stages, Pipes
<1>2. LeaderInv'
  BY DEF RunInv, LeaderInv, Running
<1>3. GroupInv'
  BY DEF RunInv, GroupInv, Running, Killed, Alive, Group
<1> QED
  BY <1>1, <1>2, <1>3 DEF RunInv

\* A pipe's record stays one when its fields change.
LEMMA PipeFields ==
    ASSUME NEW old \in PipeStates, NEW n \in Nat, NEW b \in BOOLEAN
    PROVE  /\ [old EXCEPT !.waiting = n] \in PipeStates
           /\ [old EXCEPT !.retained = n] \in PipeStates
           /\ [old EXCEPT !.truncated = b] \in PipeStates
           /\ [old EXCEPT !.eof = b] \in PipeStates
           /\ [old EXCEPT !.missed = b] \in PipeStates
BY DEF PipeStates

\* A drain reaches the end of file only when nobody holds the pipe.
LEMMA DrainKeeps == ASSUME RunInv, NEW p \in Pipes, Drain(p) PROVE RunInv'
<1>1. /\ RunTypeOK /\ Running /\ pc = p /\ pc' \in {"stdout", "stderr", "check"}
      /\ UNCHANGED <<runner, cancelled, proc, signalled, open, saw, reaper, stale, result>>
  BY DEF RunInv, Drain, processVars, After, Running, Pipes
<1>2. pipe \in [Pipes -> PipeStates] /\ p \in Pipes
  BY <1>1 DEF RunTypeOK
<1>3. CASE /\ pipe[p].waiting > 0 /\ ~pipe[p].eof
           /\ pipe' = [pipe EXCEPT ![p].waiting = @ - 1,
                                   ![p].retained = IF Fits(p) THEN @ + 1 ELSE @,
                                   ![p].truncated = @ \/ ~Fits(p),
                                   ![p].missed = @ \/ ~Fits(p)]
  <2> DEFINE kept == IF Fits(p) THEN pipe[p].retained + 1 ELSE pipe[p].retained
             cut == pipe[p].truncated \/ ~Fits(p)
             lost == pipe[p].missed \/ ~Fits(p)
             read1 == [pipe[p] EXCEPT !.waiting = pipe[p].waiting - 1]
             read2 == [read1 EXCEPT !.retained = kept]
             read3 == [read2 EXCEPT !.truncated = cut]
             read4 == [read3 EXCEPT !.missed = lost]
  <2>1. pipe[p] \in PipeStates
    BY <1>2
  <2>2. pipe[p].waiting - 1 \in Nat /\ kept \in Nat /\ cut \in BOOLEAN /\ lost \in BOOLEAN
    BY <1>3, <2>1 DEF PipeStates
  <2>3. pipe' = [pipe EXCEPT ![p] = read4]
    BY <1>2, <1>3, <2>1 DEF PipeStates
  <2>4. read4 \in PipeStates
    <3>1. read1 \in PipeStates
      BY <2>1, <2>2, PipeFields
    <3>2. read2 \in PipeStates
      BY <2>2, <3>1, PipeFields
    <3>3. read3 \in PipeStates
      BY <2>2, <3>2, PipeFields
    <3> QED
      BY <2>2, <3>3, PipeFields
  <2>5. \A r \in Pipes \ {p} : pipe'[r] = pipe[r]
    BY <1>2, <2>3
  <2>6. /\ pipe'[p].eof = pipe[p].eof
        /\ (pipe[p].missed => pipe[p].truncated) => (pipe'[p].missed => pipe'[p].truncated)
    BY <1>2, <1>3 DEF PipeStates
  <2>7. pipe' \in [Pipes -> PipeStates]
    BY <1>2, <2>3, <2>4
  <2>8. OutputInv'
    BY <1>1, <1>3, <2>5, <2>6 DEF RunInv, LeaderInv, OutputInv, Running, Held
  <2> QED
    BY <1>1, <2>7, <2>8, DrainRest
<1>4. CASE /\ pipe[p].eof \/ pipe[p].waiting = 0
           /\ pipe' = [pipe EXCEPT ![p].eof = @ \/ ~Held]
  <2> DEFINE new == [pipe[p] EXCEPT !.eof = pipe[p].eof \/ ~Held]
  <2>1. pipe' = [pipe EXCEPT ![p] = new]
    BY <1>2, <1>4
  <2>2. new \in PipeStates
    BY <1>2 DEF PipeStates
  <2>3. pipe' \in [Pipes -> PipeStates]
    BY <1>2, <2>1, <2>2
  <2>4. \A r \in Pipes \ {p} : pipe'[r] = pipe[r]
    BY <1>2, <2>1
  <2>5. /\ pipe'[p].missed = pipe[p].missed /\ pipe'[p].truncated = pipe[p].truncated
        /\ pipe'[p].waiting = pipe[p].waiting
        /\ pipe'[p].eof => pipe[p].eof \/ ~Held
    BY <1>2, <2>1 DEF PipeStates
  <2>6. OutputInv'
    BY <1>1, <1>4, <2>4, <2>5 DEF RunInv, LeaderInv, OutputInv, Running, Held
  <2> QED
    BY <1>1, <2>3, <2>6, DrainRest
<1> QED
  BY <1>3, <1>4 DEF Drain

\* The look at the leader and the bookkeeping of the loop signal nobody.
LEMMA CheckLeaveKeeps == RunInv /\ (CheckExit \/ Leave \/ CaptureFails) => RunInv'
<1> SUFFICES ASSUME RunInv, CheckExit \/ Leave \/ CaptureFails PROVE RunInv'
  OBVIOUS
<1>1. /\ RunTypeOK /\ Running /\ Running'
      /\ UNCHANGED <<runner, cancelled, proc, signalled, open, pipe, reaper, stale, result>>
  BY DEF RunInv, CheckExit, Leave, CaptureFails, processVars, Running, Pipes
<1>2. /\ pc' \in Stages \ {"idle", "called"} /\ saw'.cleanup = saw.cleanup
      /\ saw' \in [exited : BOOLEAN, cancelled : BOOLEAN, timedOut : BOOLEAN, cleanup : BOOLEAN]
  BY <1>1 DEF RunTypeOK, CheckExit, Leave, CaptureFails, Stages, Pipes
<1>3. RunTypeOK'
  BY <1>1, <1>2 DEF RunTypeOK
<1>4. LeaderInv'
  BY <1>1, <1>2 DEF RunInv, LeaderInv
<1>5. pc' # "leave" /\ (pc' = "captured" => saw.cleanup)
  BY DEF RunInv, GroupInv, CheckExit, Leave, CaptureFails, PastCleanup
<1>6. GroupInv'
  BY <1>1, <1>2, <1>5 DEF RunInv, GroupInv, Killed, Alive, Group
<1>7. OutputInv'
  BY <1>1 DEF RunInv, OutputInv, Held
<1> QED
  BY <1>3, <1>4, <1>6, <1>7 DEF RunInv

\* The cleanup starts with the signal to the group.
LEMMA SignalKeeps == RunInv /\ Signal => RunInv'
<1> SUFFICES ASSUME RunInv, Signal PROVE RunInv'
  OBVIOUS
<1>1. /\ RunTypeOK /\ Running /\ Running' /\ pc = "signal" /\ pc' = "leave"
      /\ UNCHANGED <<runner, cancelled, proc, open, pipe, reaper, result>>
  BY DEF RunInv, Signal, Running
<1>2. CASE /\ ~saw.cleanup /\ MustStop /\ KillGroup
           /\ saw' = [saw EXCEPT !.cancelled = cancelled,
                                 !.timedOut = ~saw.exited /\ ~cancelled,
                                 !.cleanup = TRUE]
  <2>1. saw'.cleanup /\ saw' \in [exited : BOOLEAN, cancelled : BOOLEAN,
                                 timedOut : BOOLEAN, cleanup : BOOLEAN]
    BY <1>1, <1>2 DEF RunTypeOK
  <2>2. /\ signalled' = signalled \cup {q \in Group : Alive(q)}
        /\ ~stale'
    BY <1>1, <1>2 DEF KillGroup, RunInv, LeaderInv
  <2>3. RunTypeOK'
    BY <1>1, <2>1, <2>2 DEF RunTypeOK, Stages, Group, Processes
  <2>4. LeaderInv'
    BY <1>1, <2>2 DEF RunInv, LeaderInv, Running
  <2>5. GroupInv'
    BY <1>1, <2>1, <2>2 DEF RunInv, GroupInv, Killed, Alive, Group
  <2>6. OutputInv'
    BY <1>1 DEF RunInv, OutputInv, Held
  <2> QED
    BY <2>3, <2>4, <2>5, <2>6 DEF RunInv
<1>3. CASE saw.cleanup /\ UNCHANGED <<saw, signalled, stale>>
  <2>1. RunTypeOK'
    BY <1>1, <1>3 DEF RunTypeOK, Stages
  <2>2. LeaderInv' /\ GroupInv'
    BY <1>1, <1>3 DEF RunInv, LeaderInv, GroupInv, Running, Killed, Alive, Group
  <2>3. OutputInv'
    BY <1>1 DEF RunInv, OutputInv, Held
  <2> QED
    BY <2>1, <2>2, <2>3 DEF RunInv
<1>4. CASE ~saw.cleanup /\ ~MustStop /\ UNCHANGED <<saw, signalled, stale>>
  <2>1. RunTypeOK'
    BY <1>1, <1>4 DEF RunTypeOK, Stages
  <2>2. LeaderInv' /\ GroupInv'
    BY <1>1, <1>4 DEF RunInv, LeaderInv, GroupInv, Running, Killed, Alive, Group, MustStop
  <2>3. OutputInv'
    BY <1>1 DEF RunInv, OutputInv, Held
  <2> QED
    BY <2>1, <2>2, <2>3 DEF RunInv
<1> QED
  BY <1>2, <1>3, <1>4 DEF Signal

\* What Return publishes: a complete output has been read to its end, and nobody
\* can write any more.
LEMMA ReturnHonest ==
    ASSUME RunInv, Running, NEW kind \in {"ok", "io"}, Return(kind)
    PROVE  /\ pc' = "idle" /\ saw' = Unseen /\ pipe' \in [Pipes -> PipeStates]
           /\ open' \in [Processes -> BOOLEAN] /\ OutputInv'
<1>1. RunTypeOK /\ OutputInv
  BY DEF RunInv
<1>2. pc' = "idle" /\ saw' = Unseen /\ ~Running'
  BY DEF Return, Running
<1>3. CASE cancelled \/ kind # "ok"
  <2>1. /\ result'.kind # "ok" /\ pipe' = [p \in Pipes |-> EmptyPipe]
        /\ open' = [q \in Processes |-> FALSE]
    BY <1>3 DEF Return
  <2>2. pipe' \in [Pipes -> PipeStates] /\ open' \in [Processes -> BOOLEAN]
    BY <2>1 DEF PipeStates, EmptyPipe
  <2>3. OutputInv'
    BY <1>2, <2>1 DEF OutputInv
  <2> QED
    BY <1>2, <2>2, <2>3
<1>4. CASE ~(cancelled \/ kind # "ok")
  <2>1. /\ result' = [kind |-> "ok", truncated |-> Truncated] /\ open' = open
        /\ pipe' = [p \in Pipes |->
               [EmptyPipe EXCEPT !.missed = pipe[p].missed \/ pipe[p].waiting > 0]]
    BY <1>4 DEF Return
  <2>2. pipe' \in [Pipes -> PipeStates] /\ open' \in [Processes -> BOOLEAN]
    BY <1>1, <2>1 DEF PipeStates, EmptyPipe, RunTypeOK
  <2>3. ASSUME NEW p \in Pipes \ Truncated
        PROVE  ~pipe'[p].missed /\ ~Held'
    <3>1. pipe[p].eof /\ ~pipe[p].truncated
      BY DEF Truncated
    <3>2. ~pipe[p].missed /\ pipe[p].waiting = 0 /\ ~Held
      BY <1>1, <3>1 DEF OutputInv
    <3>3. ~pipe'[p].missed
      <4>1. (pipe[p].missed \/ pipe[p].waiting > 0) = FALSE
        BY <3>2
      <4>2. pipe'[p] = [EmptyPipe EXCEPT !.missed = FALSE]
        BY <2>1, <4>1
      <4> QED
        BY <4>2 DEF EmptyPipe
    <3> QED
      BY <2>1, <3>2, <3>3 DEF Held
  <2>4. OutputInv'
    BY <1>2, <2>1, <2>3 DEF OutputInv
  <2> QED
    BY <1>2, <2>2, <2>4
<1> QED
  BY <1>3, <1>4

\* After a cleanup the leader is reaped by the step that ends the command.
LEMMA CapturedKeeps == RunInv /\ Captured => RunInv'
<1> SUFFICES ASSUME RunInv, Captured PROVE RunInv'
  OBVIOUS
<1>1. /\ RunTypeOK /\ Running /\ pc = "captured" /\ saw.cleanup /\ Killed
      /\ UNCHANGED <<runner, cancelled, signalled, reaper, stale>>
  BY DEF RunInv, GroupInv, Captured, Running
<1>2. CASE pc' = "failed" /\ UNCHANGED <<proc, open, pipe, saw, result>>
  <2>1. RunTypeOK'
    BY <1>1, <1>2 DEF RunTypeOK, Stages
  <2>2. LeaderInv' /\ GroupInv'
    BY <1>1, <1>2 DEF RunInv, LeaderInv, GroupInv, Running, Killed, Alive, Group
  <2>3. OutputInv'
    BY <1>1, <1>2 DEF RunInv, OutputInv, Held, Running
  <2> QED
    BY <2>1, <2>2, <2>3 DEF RunInv
<1>3. CASE /\ proc["leader"] = "zombie" /\ proc' = [proc EXCEPT !["leader"] = "reaped"]
           /\ Return("ok")
  <2>1. /\ pc' = "idle" /\ saw' = Unseen /\ pipe' \in [Pipes -> PipeStates]
        /\ open' \in [Processes -> BOOLEAN] /\ OutputInv'
    BY <1>1, <1>3, ReturnHonest
  <2>2. RunTypeOK'
    BY <1>1, <1>3, <2>1 DEF RunTypeOK, Stages, Processes, Unseen
  <2>3. LeaderInv'
    BY <1>1, <1>3, <2>1 DEF RunInv, LeaderInv, Running, RunTypeOK, Processes
  <2>4. GroupInv'
    BY <1>1, <1>3, <2>1
       DEF RunInv, GroupInv, Killed, Alive, Group, RunTypeOK, Processes
  <2> QED
    BY <2>1, <2>2, <2>3, <2>4 DEF RunInv
<1> QED
  BY <1>2, <1>3 DEF Captured

\* An error kills the group before the command returns.
LEMMA FailKeeps == RunInv /\ Fail => RunInv'
<1> SUFFICES ASSUME RunInv, Fail PROVE RunInv'
  OBVIOUS
<1>1. /\ RunTypeOK /\ Running /\ pc = "failed" /\ Return("io") /\ KillGroup
      /\ UNCHANGED <<runner, cancelled, proc>>
  BY DEF RunInv, Fail, Running
<1>2. /\ pc' = "idle" /\ saw' = Unseen /\ pipe' \in [Pipes -> PipeStates]
      /\ open' \in [Processes -> BOOLEAN] /\ OutputInv'
  BY <1>1, ReturnHonest
<1>3. signalled' = signalled \cup {q \in Group : Alive(q)} /\ ~stale'
  BY <1>1 DEF KillGroup, RunInv, LeaderInv
<1>4. RunTypeOK'
  BY <1>1, <1>2, <1>3 DEF RunTypeOK, Stages, Processes, Unseen, Group
<1>5. LeaderInv'
  BY <1>1, <1>2, <1>3 DEF RunInv, LeaderInv, Running
<1>6. GroupInv'
  BY <1>1, <1>2, <1>3 DEF RunInv, GroupInv, Killed, Alive, Group
<1> QED
  BY <1>2, <1>4, <1>5, <1>6 DEF RunInv

\* The background thread waits only for the leader of a command that has returned.
LEMMA ReapKeeps == RunInv /\ Reap => RunInv'
<1> SUFFICES ASSUME RunInv, Reap PROVE RunInv'
  OBVIOUS
<1>1. /\ RunTypeOK /\ ~Running /\ ~Running' /\ proc["leader"] = "zombie" /\ ~reaper'
      /\ proc' = [proc EXCEPT !["leader"] = "reaped"]
      /\ UNCHANGED <<runner, cancelled, signalled, open, pipe, pc, saw, result, stale>>
  BY DEF RunInv, LeaderInv, Reap, workerVars, Running
<1>2. RunTypeOK'
  BY <1>1 DEF RunTypeOK, Processes
<1>3. LeaderInv'
  BY <1>1 DEF RunInv, LeaderInv, Running, RunTypeOK, Processes, Fresh
<1>4. GroupInv'
  BY <1>1 DEF RunInv, GroupInv, Running, Killed, Alive, Group, RunTypeOK, Processes
<1>5. OutputInv'
  BY <1>1 DEF RunInv, OutputInv, Running, Held
<1> QED
  BY <1>2, <1>3, <1>4, <1>5 DEF RunInv

\* Nobody is forked into a group that has been signalled.
LEMMA ForkKeeps == ASSUME RunInv, NEW q \in Processes, Fork(q) PROVE RunInv'
<1>1. /\ RunTypeOK /\ Alive("leader") /\ "leader" \notin signalled /\ proc[q] = "none"
      /\ q # "leader"
      /\ proc' = [proc EXCEPT ![q] = "alive"]
      /\ open' = [open EXCEPT ![q] = open["leader"]]
      /\ UNCHANGED <<runner, cancelled, signalled, pipe, pc, saw, result, reaper, stale>>
  BY DEF RunInv, Fork, workerVars
<1>2. ~Killed
  BY <1>1 DEF Killed, Group
<1>3. Running /\ Running' /\ ~saw.cleanup
  BY <1>1, <1>2 DEF RunInv, GroupInv, Running
<1>4. RunTypeOK'
  BY <1>1 DEF RunTypeOK, Processes
<1>5. LeaderInv'
  BY <1>1, <1>3 DEF RunInv, LeaderInv, RunTypeOK, Processes, Alive, Running
<1>6. GroupInv'
  BY <1>1, <1>3 DEF RunInv, GroupInv, RunTypeOK, Processes, Alive
<1>7. ~Held => ~Held'
  BY <1>1 DEF Held, RunTypeOK, Processes
<1>8. OutputInv'
  BY <1>1, <1>3, <1>7 DEF RunInv, OutputInv
<1> QED
  BY <1>4, <1>5, <1>6, <1>8 DEF RunInv

\* Only a pipe that is held open is written to.
LEMMA WriteKeeps == ASSUME RunInv, NEW q \in Processes, NEW p \in Pipes, Write(q, p)
                    PROVE  RunInv'
<1>1. /\ RunTypeOK /\ Held
      /\ UNCHANGED <<runner, cancelled, proc, signalled, open, pc, saw, result, reaper, stale>>
  BY DEF RunInv, Write, Held, processVars, workerVars
<1>2. pipe \in [Pipes -> PipeStates] /\ pipe[p] \in PipeStates
  BY <1>1 DEF RunTypeOK
<1>3. CASE Running /\ pipe' = [pipe EXCEPT ![p].waiting = @ + 1]
  <2>1. pipe' \in [Pipes -> PipeStates]
    <3>1. pipe[p].waiting + 1 \in Nat
      BY <1>2 DEF PipeStates
    <3>2. [pipe[p] EXCEPT !.waiting = pipe[p].waiting + 1] \in PipeStates
      BY <1>2, <3>1, PipeFields
    <3> QED
      BY <1>2, <1>3, <3>2
  <2>2. \A r \in Pipes : /\ pipe'[r].eof = pipe[r].eof /\ pipe'[r].missed = pipe[r].missed
                         /\ pipe'[r].truncated = pipe[r].truncated
    BY <1>2, <1>3 DEF PipeStates
  <2>3. Running /\ Running' /\ result = None /\ result' = None
    BY <1>1, <1>3 DEF RunInv, LeaderInv, Running
  <2>4. OutputInv'
    BY <1>1, <2>2, <2>3 DEF RunInv, OutputInv
  <2>5. RunTypeOK'
    BY <1>1, <2>1 DEF RunTypeOK
  <2>6. LeaderInv' /\ GroupInv'
    BY <1>1, <1>3 DEF RunInv, LeaderInv, GroupInv, Running, Killed, Alive, Group
  <2> QED
    BY <2>4, <2>5, <2>6 DEF RunInv
<1>4. CASE ~Running /\ pipe' = [pipe EXCEPT ![p].missed = TRUE]
  <2>1. pipe' \in [Pipes -> PipeStates]
    <3>1. [pipe[p] EXCEPT !.missed = TRUE] \in PipeStates
      BY <1>2, PipeFields
    <3> QED
      BY <1>2, <1>4, <3>1
  <2>2. OutputInv'
    BY <1>1, <1>4 DEF RunInv, OutputInv, Held, Running
  <2>3. RunTypeOK'
    BY <1>1, <2>1 DEF RunTypeOK
  <2>4. pc # "called"
    BY <1>1 DEF RunInv, LeaderInv, Fresh, Write, Alive, Processes
  <2>5. LeaderInv' /\ GroupInv'
    BY <1>1, <1>4, <2>4 DEF RunInv, LeaderInv, GroupInv, Running, Killed, Alive, Group
  <2> QED
    BY <2>2, <2>3, <2>5 DEF RunInv
<1> QED
  BY <1>3, <1>4 DEF Write

\* A process that closes its output, or ends, can only end the writing.
LEMMA CloseEndKeeps == ASSUME RunInv, NEW q \in Processes, Close(q) \/ End(q) PROVE RunInv'
<1>1. /\ RunTypeOK /\ Alive(q) /\ open' = [open EXCEPT ![q] = FALSE]
      /\ UNCHANGED <<runner, cancelled, pipe, pc, saw, result, reaper, stale>>
  BY DEF RunInv, Close, End, workerVars
<1>2. ~Held => ~Held'
  BY <1>1 DEF Held, RunTypeOK
<1>3. OutputInv'
  BY <1>1, <1>2 DEF RunInv, OutputInv, Running
<1>4. open' \in [Processes -> BOOLEAN]
  BY <1>1 DEF RunTypeOK
<1>5. pc # "called"
  BY <1>1 DEF RunInv, LeaderInv, Fresh, Alive
<1>6. CASE Close(q)
  <2>1. UNCHANGED <<proc, signalled>>
    BY <1>6 DEF Close
  <2>2. RunTypeOK'
    BY <1>1, <1>4, <2>1 DEF RunTypeOK
  <2>3. LeaderInv' /\ GroupInv'
    BY <1>1, <1>5, <2>1 DEF RunInv, LeaderInv, GroupInv, Running, Killed, Alive, Group
  <2> QED
    BY <1>3, <2>2, <2>3 DEF RunInv
<1>7. CASE End(q)
  <2>1. /\ proc' = [proc EXCEPT ![q] = IF q = "leader" THEN "zombie" ELSE "gone"]
        /\ signalled' = (signalled \ {q}) \cup
                     {h \in {"helper"} : q = "leader" /\ runner = "bubblewrap" /\ Alive(h)}
    BY <1>7 DEF End
  <2>2. RunTypeOK'
    BY <1>1, <1>4, <2>1 DEF RunTypeOK, Processes
  <2>3. LeaderInv'
    BY <1>1, <1>5, <2>1 DEF RunInv, LeaderInv, Running, RunTypeOK, Processes, Alive
  <2>4. Killed => Killed'
    BY <1>1, <2>1 DEF Killed, Alive, Group, RunTypeOK, Processes
  <2>5. GroupInv'
    BY <1>1, <2>1, <2>4 DEF RunInv, GroupInv, Running, Alive, RunTypeOK, Processes
  <2> QED
    BY <1>3, <2>2, <2>3, <2>5 DEF RunInv
<1> QED
  BY <1>6, <1>7

\* Every step of the command and its worker keeps RunInv.
LEMMA RunStepKeeps == RunInv /\ RunNext => RunInv'
<1> SUFFICES ASSUME RunInv, RunNext PROVE RunInv'
  OBVIOUS
<1>1. CASE Cancel \/ Elapse \/ Overrun
  <2>1. cancelled' \in BOOLEAN
    BY <1>1 DEF RunInv, RunTypeOK, Cancel, Elapse, Overrun
  <2> QED
    BY <1>1, <2>1, IdleStep DEF Cancel, Elapse, Overrun, workerVars
<1>2. CASE Worker
  BY <1>2, RunKeeps, DrainKeeps, CheckLeaveKeeps, SignalKeeps, CapturedKeeps, FailKeeps DEF Worker
<1>3. CASE Command
  BY <1>3, ForkKeeps, WriteKeeps, CloseEndKeeps DEF Command
<1> QED
  BY <1>1, <1>2, <1>3, CheckLeaveKeeps, ReapKeeps DEF RunNext

\* As long as no command is called, none is started.
LEMMA FreshStays == Fresh /\ pc = "idle" /\ RunNext => Fresh' /\ pc' = "idle"
<1> SUFFICES ASSUME Fresh, pc = "idle", RunNext PROVE Fresh' /\ pc' = "idle"
  OBVIOUS
<1>1. ~Running /\ \A q \in Processes : ~Alive(q)
  BY DEF Fresh, Running, Alive
<1>2. ~Worker
  BY DEF Worker, Run, Drain, CheckExit, Signal, Leave, Captured, Fail, Pipes
<1>3. ~Command
  BY <1>1 DEF Command, Fork, Close, End, Write, Processes
<1>4. ~CaptureFails /\ ~Reap /\ ~Elapse /\ ~Overrun
  BY <1>1 DEF CaptureFails, Reap, Elapse, Overrun, Fresh
<1>5. Cancel
  BY <1>2, <1>3, <1>4 DEF RunNext
<1> QED
  BY <1>5 DEF Cancel, Fresh, processVars, workerVars

\* A process that has once been outside the group is never forgotten.
LEMMA OutsideStays == RunTypeOK /\ RunNext /\ Outside => Outside'
<1> SUFFICES ASSUME RunTypeOK, RunNext, Outside PROVE Outside'
  OBVIOUS
<1>1. PICK q \in Processes \ Group : proc[q] # "none"
  BY DEF Outside
<1>2. proc \in [Processes -> {"none", "alive", "zombie", "reaped", "gone"}]
  BY DEF RunTypeOK
<1>3. runner' = runner /\ proc'[q] # "none"
  <2>1. CASE Worker
    BY <1>1, <1>2, <2>1
       DEF Worker, Run, ReturnEarly, Drain, CheckExit, Signal, Leave, Captured, Fail, processVars
  <2>2. CASE Command
    BY <1>1, <1>2, <2>2 DEF Command, Fork, Close, End, Write, processVars
  <2>3. CASE CaptureFails \/ Reap \/ Cancel \/ Elapse \/ Overrun
    BY <1>1, <1>2, <2>3 DEF CaptureFails, Reap, Cancel, Elapse, Overrun, processVars
  <2> QED
    BY <2>1, <2>2, <2>3 DEF RunNext
<1> QED
  BY <1>1, <1>3 DEF Outside, Group

-----------------------------------------------------------------------------
(* The calls.                                                              *)

\* A call starts from a workspace without a command.
LEMMA InitHolds == Init => RunInv /\ CallInv
<1> SUFFICES ASSUME Init PROVE RunInv /\ CallInv
  OBVIOUS
<1>1. RunInv /\ Fresh /\ pc = "idle"
  BY RunInitHolds DEF Init
<1> QED
  BY <1>1 DEF Init, CallInv, ShellInv, EffectInv, Window

\* Preparation forgets how the last call ended.  A shell call is the first.
LEMMA PrepareKeeps ==
    ASSUME RunInv, CallInv, NEW tool \in Tools, Prepare(tool)
    PROVE  RunInv' /\ CallInv'
<1>1. /\ UNCHANGED <<runner, processVars, proc, pipe, pc, saw, result, reaper, stale>>
      /\ cancelled' \in BOOLEAN /\ ~blind' /\ ~raced'
      /\ stage' = "prepared" /\ outcome' = None /\ ~touched' /\ calls' = calls + 1
      /\ tool = "shell" => calls = 0
      /\ call'.tool = tool
  BY DEF Prepare, workerVars, processVars
<1>2. RunInv'
  BY <1>1, IdleStep
<1>3. At("shell", "prepared")' => calls = 0
  BY <1>1 DEF At
<1>4. None # CancelledShell
  BY WorkspaceAssumption DEF CancelledShell, Tools, Kinds
<1>5. ShellInv'
  BY <1>1, <1>3, <1>4 DEF CallInv, ShellInv, Fresh
<1>6. EffectInv'
  BY <1>1 DEF EffectInv, Window
<1> QED
  BY <1>2, <1>5, <1>6 DEF CallInv

\* What Ends says.
LEMMA EndsSays ==
    ASSUME NEW kind, Ends(kind)
    PROVE  /\ stage' = "none" /\ outcome'.kind = kind /\ outcome'.tool = call.tool
           /\ ~At("shell", "prepared")'
           /\ outcome' = CancelledShell => call.tool = "shell" /\ kind = "cancelled"
BY DEF Ends, At, CancelledShell

\* A shell call that is cancelled before it runs has started nothing.
LEMMA ShellKeeps == RunInv /\ CallInv /\ Shell => RunInv' /\ CallInv'
<1> SUFFICES ASSUME RunInv, CallInv, Shell PROVE RunInv' /\ CallInv'
  OBVIOUS
<1>1. /\ At("shell", "prepared") /\ pc = "idle" /\ Fresh /\ calls # 0 /\ ~touched
      /\ call.tool = "shell" /\ outcome = None
      /\ UNCHANGED <<runner, cancelled, proc, signalled, open, pipe, saw, result, reaper, stale,
                     touched, blind, raced, calls>>
  BY DEF Shell, CallInv, ShellInv, EffectInv, At, processVars
<1>2. cancelled' \in BOOLEAN /\ Fresh'
  BY <1>1 DEF RunInv, RunTypeOK, Fresh
<1>3. CASE Ends("cancelled") /\ pc' = pc
  <2>1. RunInv'
    BY <1>1, <1>2, <1>3, IdleStep DEF processVars
  <2>2. stage' = "none" /\ pc' = "idle"
    BY <1>1, <1>3, EndsSays
  <2>3. ShellInv'
    BY <1>1, <1>2, <2>2 DEF CallInv, ShellInv
  <2>4. EffectInv'
    BY <1>1, <2>2 DEF CallInv, EffectInv, Window, Outside, Group
  <2> QED
    BY <2>1, <2>3, <2>4 DEF CallInv
<1>4. CASE stage' = "running" /\ pc' = "called" /\ UNCHANGED <<call, outcome>>
  <2>1. RunTypeOK'
    BY <1>1, <1>4 DEF RunInv, RunTypeOK, Stages
  <2>2. LeaderInv'
    BY <1>1, <1>2, <1>4 DEF RunInv, LeaderInv, Running
  <2>3. GroupInv'
    BY <1>1, <1>4 DEF RunInv, GroupInv, Running, Killed, Alive, Group, Fresh
  <2>4. OutputInv'
    BY <1>1, <1>4 DEF OutputInv, Running, Fresh
  <2>5. None # CancelledShell
    BY WorkspaceAssumption DEF CancelledShell, Tools, Kinds
  <2>6. ShellInv'
    BY <1>1, <1>4, <2>5 DEF CallInv, ShellInv, At
  <2>7. EffectInv'
    BY <1>1, <1>4 DEF CallInv, EffectInv, Window, Outside, Group
  <2> QED
    BY <2>1, <2>2, <2>3, <2>4, <2>6, <2>7 DEF RunInv, CallInv
<1> QED
  BY <1>3, <1>4 DEF Shell

\* The stages of a call inside its execution.
Working == {"verified", "checked", "compared", "opened", "elsewhere"}

\* The other steps of a call leave the command alone; if they end the call, it is
\* with an outcome that fits what has been done to the file.
LEMMA CallStep ==
    ASSUME RunInv, CallInv, UNCHANGED runVars, UNCHANGED calls, stage # "none",
           ~At("shell", "prepared"),
           \/ \E kind \in Kinds :
                 /\ Ends(kind)
                 /\ call.tool = "shell" => kind # "cancelled"
                 /\ touched' => kind # "cancelled"
                 /\ touched' /\ call.tool = "apply_patch" => kind \in {"ok", "unknown"}
           \/ /\ UNCHANGED <<call, outcome>> /\ stage' \in Working
              /\ stage' \notin {"opened", "elsewhere"} \/ call.tool = "apply_patch" => ~touched'
              /\ Window',
           UNCHANGED raced, blind' => raced
    PROVE  RunInv' /\ CallInv'
<1>1. /\ UNCHANGED <<runner, cancelled, processVars, proc, pipe, pc, saw, result, reaper, stale>>
      /\ calls # 0 /\ outcome = None
  BY DEF CallInv, ShellInv, EffectInv, runVars, workerVars, processVars
<1>2. RunInv'
  BY <1>1, IdleStep DEF RunInv, RunTypeOK
<1>3. Outside <=> Outside'
  BY <1>1 DEF Outside, Group
<1>4. ASSUME NEW kind \in Kinds, Ends(kind),
             call.tool = "shell" => kind # "cancelled",
             touched' => kind # "cancelled",
             touched' /\ call.tool = "apply_patch" => kind \in {"ok", "unknown"}
      PROVE  CallInv'
  <2>1. /\ stage' = "none" /\ outcome'.kind = kind /\ outcome'.tool = call.tool
        /\ ~At("shell", "prepared")' /\ outcome' # CancelledShell
    BY <1>4, EndsSays
  <2>2. ShellInv'
    BY <1>1, <2>1 DEF CallInv, ShellInv
  <2>3. EffectInv'
    BY <1>3, <1>4, <2>1 DEF CallInv, EffectInv, Window
  <2> QED
    BY <2>2, <2>3 DEF CallInv
<1>5. ASSUME UNCHANGED <<call, outcome>>, stage' \in Working,
             stage' \notin {"opened", "elsewhere"} \/ call.tool = "apply_patch" => ~touched',
             Window'
      PROVE  CallInv'
  <2>1. None # CancelledShell
    BY WorkspaceAssumption DEF CancelledShell, Tools, Kinds
  <2>2. ShellInv'
    BY <1>1, <1>5, <2>1 DEF CallInv, ShellInv, At, Working
  <2>3. EffectInv'
    BY <1>1, <1>3, <1>5 DEF CallInv, EffectInv
  <2> QED
    BY <2>2, <2>3 DEF CallInv
<1> QED
  BY <1>2, <1>4, <1>5

\* The end of a command.
LEMMA ShellEndsKeeps == RunInv /\ CallInv /\ ShellEnds => RunInv' /\ CallInv'
<1> SUFFICES ASSUME RunInv, CallInv, ShellEnds PROVE RunInv' /\ CallInv'
  OBVIOUS
<1> DEFINE kind == CASE result.kind = "ok" -> "ok"
                     [] result.kind = "cancelled" -> "unknown"
                     [] OTHER -> "failed"
<1>1. kind \in Kinds \ {"cancelled"} /\ Ends(kind)
  BY DEF ShellEnds, Kinds
<1>2. /\ call.tool = "shell" /\ stage = "running" /\ ~At("shell", "prepared") /\ ~touched'
      /\ UNCHANGED <<runVars, blind, raced, calls>>
  BY DEF ShellEnds, At, CallInv, EffectInv
<1> HIDE DEF kind
<1> QED
  BY <1>1, <1>2, CallStep DEF CallInv, EffectInv

\* The readers change nothing.
LEMMA ReadKeeps == ASSUME RunInv, CallInv, NEW tool \in Readers, NEW resolves, Read(tool, resolves)
                   PROVE  RunInv' /\ CallInv'
<1>1. /\ call.tool # "shell" /\ stage = "prepared" /\ ~touched'
      /\ UNCHANGED <<runVars, blind, raced, calls>>
  BY DEF Read, At, CallInv, EffectInv, Readers
<1>2. \E kind \in Kinds : Ends(kind)
  BY DEF Read, Kinds
<1> QED
  BY <1>1, <1>2, CallStep DEF CallInv, EffectInv, At

\* write_file truncates nothing outside the workspace, unless a process came in between,
\* and a call that has opened a file does not end as cancelled.
LEMMA WriteFileKeeps ==
    RunInv /\ CallInv /\ (WriteFile \/ WriteFileOpens \/ WriteFileEnds) => RunInv' /\ CallInv'
<1> SUFFICES ASSUME RunInv, CallInv, WriteFile \/ WriteFileOpens \/ WriteFileEnds
             PROVE  RunInv' /\ CallInv'
  OBVIOUS
<1>1. /\ call.tool = "write_file" /\ stage # "none" /\ UNCHANGED <<runVars, calls, raced>>
      /\ ~At("shell", "prepared")
  BY DEF WriteFile, WriteFileOpens, WriteFileEnds, At
<1>2. CASE WriteFile
  <2>1. ~touched' /\ UNCHANGED <<link, blind>>
    BY <1>2 DEF WriteFile, At, CallInv, EffectInv, fileVars
  <2>2. \/ \E kind \in Kinds : Ends(kind)
        \/ UNCHANGED <<call, outcome>> /\ stage' = "verified" /\ WriteTarget
    BY <1>2 DEF WriteFile, Kinds
  <2>3. stage' = "verified" /\ WriteTarget => Window'
    BY <2>1 DEF Window, WriteTarget
  <2> QED
    BY <1>1, <2>1, <2>2, <2>3, CallStep DEF CallInv, EffectInv, Working
<1>3. CASE WriteFileOpens
  <2>1. CASE Ends("failed") /\ UNCHANGED <<fileVars, touched, blind>>
    <3>1. "failed" \in Kinds /\ ~touched'
      BY <1>3, <2>1 DEF Kinds, WriteFileOpens, At, CallInv, EffectInv
    <3> QED
      BY <1>1, <2>1, <3>1, CallStep DEF CallInv, EffectInv
  <2>2. CASE ~Ends("failed") \/ ~UNCHANGED <<fileVars, touched, blind>>
    <3>1. /\ UNCHANGED <<call, outcome>> /\ stage' \in {"opened", "elsewhere"}
          /\ stage = "verified" /\ blind' = (link = "outside")
      BY <1>3, <2>2 DEF WriteFileOpens, At, Replaces
    <3>2. Window' /\ (blind' => raced)
      BY <1>1, <3>1 DEF CallInv, EffectInv, Window
    <3> QED
      BY <1>1, <3>1, <3>2, CallStep DEF Working
  <2> QED
    BY <2>1, <2>2
<1>4. CASE WriteFileEnds
  <2>1. (\E kind \in Kinds \ {"cancelled"} : Ends(kind)) /\ UNCHANGED blind
    BY <1>4 DEF WriteFileEnds, Kinds
  <2> QED
    BY <1>1, <2>1, CallStep DEF CallInv, EffectInv
<1> QED
  BY <1>2, <1>3, <1>4

\* apply_patch writes what it has compared, unless a process came in between; from its
\* first write on it does not claim a known failure.
LEMMA PatchKeeps ==
    RunInv /\ CallInv /\ (PatchCheck \/ PatchCompare \/ PatchWrite) => RunInv' /\ CallInv'
<1> SUFFICES ASSUME RunInv, CallInv, PatchCheck \/ PatchCompare \/ PatchWrite
             PROVE  RunInv' /\ CallInv'
  OBVIOUS
<1>1. /\ call.tool = "apply_patch" /\ stage # "none" /\ UNCHANGED <<runVars, calls, raced>>
      /\ ~At("shell", "prepared") /\ ~touched /\ Window /\ (blind => raced)
  BY DEF PatchCheck, PatchCompare, PatchWrite, At, CallInv, EffectInv
<1>2. CASE PatchCheck \/ PatchCompare
  <2>1. ~touched' /\ UNCHANGED <<file, link, blind>>
    BY <1>1, <1>2 DEF PatchCheck, PatchCompare, fileVars
  <2>2. \/ \E kind \in Kinds : Ends(kind)
        \/ /\ UNCHANGED <<call, outcome>>
           /\ \/ stage' = "checked" /\ link = "same"
              \/ stage' = "compared" /\ file = call.before
              \/ stage' = "elsewhere" /\ stage = "checked" /\ link # "same"
    BY <1>2 DEF PatchCheck, PatchCompare, Kinds, Unchanged, ExistingFile, At
  <2>3. CASE \E kind \in Kinds : Ends(kind)
    BY <1>1, <2>1, <2>3, CallStep
  <2>4. CASE ~\E kind \in Kinds : Ends(kind)
    <3>1. UNCHANGED <<call, outcome>> /\ stage' \in Working /\ Window'
      BY <1>1, <2>1, <2>2, <2>4 DEF Window, Working
    <3> QED
      BY <1>1, <2>1, <3>1, CallStep
  <2> QED
    BY <2>3, <2>4
<1>3. CASE PatchWrite
  <2>1. blind' => raced
    BY <1>1, <1>3 DEF PatchWrite, At, Replaces, Window
  <2>2. \/ Ends("cancelled") /\ ~touched'
        \/ Ends("ok") \/ Ends("unknown")
    BY <1>1, <1>3 DEF PatchWrite, PatchError
  <2>3. {"cancelled", "ok", "unknown"} \subseteq Kinds
    BY DEF Kinds
  <2> QED
    BY <1>1, <2>1, <2>2, <2>3, CallStep
<1> QED
  BY <1>2, <1>3

\* A process that changes the file or its path after its command has returned is not in
\* the group, and is noted as coming in between; the user edits only while a call waits.
LEMMA OthersKeep ==
    ASSUME RunInv, CallInv, (\E q \in Processes : Scribble(q)) \/ Edit
    PROVE  RunInv' /\ CallInv'
<1>1. /\ UNCHANGED <<runner, cancelled, processVars, proc, pipe, pc, saw, result, reaper, stale>>
      /\ UNCHANGED <<call, stage, outcome, touched, blind, calls>>
  BY DEF Scribble, Edit, runVars, workerVars, processVars, callVars
<1>2. RunInv'
  BY <1>1, IdleStep DEF RunInv, RunTypeOK
<1>3. ShellInv'
  BY <1>1 DEF CallInv, ShellInv, At, Fresh
<1>4. Outside <=> Outside'
  BY <1>1 DEF Outside, Group
<1>5. CASE \E q \in Processes : Scribble(q)
  <2>1. PICK q \in Processes : Scribble(q)
    BY <1>5
  <2>2. q \notin Group
    BY <2>1 DEF Scribble, RunInv, GroupInv, Killed
  <2>3. Outside
    BY <2>1, <2>2 DEF Scribble, Outside, Alive
  <2>4. raced' = (raced \/ stage \in {"verified", "checked", "compared"})
    BY <2>1 DEF Scribble
  <2>5. Window' /\ (blind' => raced')
    BY <1>1, <2>4 DEF CallInv, EffectInv, Window
  <2>6. EffectInv'
    BY <1>1, <1>4, <2>3, <2>5 DEF CallInv, EffectInv
  <2> QED
    BY <1>2, <1>3, <2>6 DEF CallInv
<1>6. CASE Edit
  <2>1. UNCHANGED raced /\ stage = "prepared"
    BY <1>6 DEF Edit, callVars
  <2>2. EffectInv'
    BY <1>1, <1>4, <2>1 DEF CallInv, EffectInv, Window
  <2> QED
    BY <1>2, <1>3, <2>2 DEF CallInv
<1> QED
  BY <1>5, <1>6

\* The steps of a command respect the calls.
LEMMA RunStepRespects == RunInv /\ CallInv /\ RunStep => RunInv' /\ CallInv'
<1> SUFFICES ASSUME RunInv, CallInv, RunStep PROVE RunInv' /\ CallInv'
  OBVIOUS
<1>1. /\ RunNext /\ UNCHANGED <<file, link, call, stage, outcome, touched, blind, raced, calls>>
  BY DEF RunStep, fileVars, callVars
<1>2. RunInv'
  BY <1>1, RunStepKeeps
<1>3. ShellInv'
  BY <1>1, FreshStays DEF CallInv, ShellInv, At
<1>4. EffectInv'
  BY <1>1, OutsideStays DEF RunInv, CallInv, EffectInv, Window
<1> QED
  BY <1>2, <1>3, <1>4 DEF CallInv

\* RunInv and CallInv are inductive.
LEMMA NextKeeps == RunInv /\ CallInv /\ [Next]_vars => RunInv' /\ CallInv'
<1> SUFFICES ASSUME RunInv, CallInv, [Next]_vars PROVE RunInv' /\ CallInv'
  OBVIOUS
<1>1. CASE Execute
  BY <1>1, ShellKeeps, ShellEndsKeeps, ReadKeeps, WriteFileKeeps, PatchKeeps
     DEF Execute, ReadFile, ReadFilePage, SearchFiles, Readers
<1>2. CASE UNCHANGED vars
  <2>1. /\ UNCHANGED <<runner, cancelled, processVars, proc, pipe, pc, saw, result, reaper, stale>>
        /\ UNCHANGED <<file, link, call, stage, outcome, touched, blind, raced, calls>>
    BY <1>2 DEF vars, runVars, processVars, workerVars, fileVars, callVars
  <2>2. RunInv'
    BY <2>1, IdleStep DEF RunInv, RunTypeOK
  <2>3. ShellInv' /\ EffectInv'
    BY <2>1 DEF CallInv, ShellInv, EffectInv, Window, At, Fresh, Outside, Group
  <2> QED
    BY <2>2, <2>3 DEF CallInv
<1> QED
  BY <1>1, <1>2, PrepareKeeps, RunStepRespects, OthersKeep DEF Next

\* Every reachable state satisfies both.
LEMMA InvariantHolds == Spec => [](RunInv /\ CallInv)
BY InitHolds, NextKeeps, PTL DEF Spec

-----------------------------------------------------------------------------
(* The theorems.                                                           *)

\* The number of a group is used only while its leader has not been waited for, so
\* the SIGKILL of run_command never reaches another process that got the number.
THEOREM NoStaleSignalHolds == Spec => []NoStaleSignal
<1>1. RunInv /\ CallInv => NoStaleSignal
  BY DEF RunInv, LeaderInv, NoStaleSignal
<1> QED
  BY <1>1, InvariantHolds, PTL

\* When run_command has returned, by whatever path, each process of the group has
\* ended or has a SIGKILL on its way; in bubblewrap the death of bwrap takes the rest.
THEOREM GroupGoneHolds == Spec => []GroupGone
<1>1. RunInv /\ CallInv => GroupGone
  <2> SUFFICES ASSUME RunInv, result # None, NEW q \in {"leader", "helper"}, Alive(q)
               PROVE  q \in signalled \/ (runner = "bubblewrap" /\ "leader" \in signalled)
    BY DEF GroupGone
  <2>1. ~Running /\ RunTypeOK
    BY DEF RunInv, LeaderInv
  <2>2. Killed
    BY <2>1 DEF RunInv, GroupInv
  <2>3. CASE q \in Group
    BY <2>2, <2>3 DEF Killed
  <2>4. CASE q \notin Group
    <3>1. runner = "bubblewrap" /\ q = "helper" /\ "leader" \in Group
      BY <2>1, <2>4 DEF Group, RunTypeOK
    <3>2. proc["leader"] # "none"
      BY <3>1 DEF RunInv, LeaderInv, Alive, Processes
    <3>3. CASE Alive("leader")
      BY <2>2, <3>1, <3>3 DEF Killed
    <3>4. CASE ~Alive("leader")
      BY <3>1, <3>2, <3>4 DEF RunInv, GroupInv, Alive
    <3> QED
      BY <3>3, <3>4
  <2> QED
    BY <2>3, <2>4
<1> QED
  BY <1>1, InvariantHolds, PTL

\* Whatever limit, batch and pipe size: an output that capture_process does not mark
\* as truncated has everything that was or will be written to its pipe.
THEOREM OutputHonestHolds == Spec => []OutputHonest
<1>1. RunInv /\ CallInv => OutputHonest
  BY DEF RunInv, OutputInv, OutputHonest
<1> QED
  BY <1>1, InvariantHolds, PTL

\* However often the user edits the file or its path while calls wait, apply_patch
\* replaces the approved snapshot and write_file truncates nothing outside the workspace,
\* unless a process that escaped from its command's group came between the check of that
\* call and its write.
THEOREM NothingUnseenReplacedHolds == Spec => []NothingUnseenReplaced
<1>1. RunInv /\ CallInv => NothingUnseenReplaced
  BY DEF CallInv, EffectInv, Outside, NothingUnseenReplaced
<1> QED
  BY <1>1, InvariantHolds, PTL

\* A cancelled call has changed nothing, a cancelled shell call has started nothing,
\* and apply_patch reports a failure as known only before its first write.
THEOREM KnownFailureIsCleanHolds == Spec => []KnownFailureIsClean
<1>1. RunInv /\ CallInv => KnownFailureIsClean
  <2> SUFFICES ASSUME CallInv PROVE KnownFailureIsClean
    OBVIOUS
  <2>1. outcome = CancelledShell => proc["leader"] = "none"
    BY DEF CallInv, ShellInv, Fresh, Processes
  <2> QED
    BY <2>1 DEF CallInv, EffectInv, KnownFailureIsClean, CancelledShell
<1> QED
  BY <1>1, InvariantHolds, PTL
=============================================================================
