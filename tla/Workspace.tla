------------------------------ MODULE Workspace ------------------------------
(***************************************************************************)
(* The workspace tools (crates/executor-process): shell, read_file,        *)
(* write_file, read_file_page, search_files and apply_patch, as the one     *)
(* worker of a turn executes them on one file.                             *)
(*                                                                         *)
(* A call is prepared, waits for its approval, and is executed later.  What *)
(* happens to the file in between, and what a process left by a shell       *)
(* command does to it while another tool runs, is the subject here.        *)
(***************************************************************************)
EXTENDS ProcessRunner

CONSTANTS
    MaxCalls,       \* bound: tool calls
    MaxEdits        \* bound: changes made by the user

VARIABLES
    file,       \* what the file holds
    link,       \* where its path leads
    call,       \* the PreparedToolCall, or None
    stage,      \* how far its execution is
    outcome,    \* how the last call ended, or None
    touched,    \* ghost: the call has changed the file
    blind,      \* ghost: the call has replaced something it did not check
    raced,      \* ghost: a process came between the call's check and its write
    edits, calls

fileVars == <<file, link>>
callVars == <<call, stage, outcome, touched, blind, raced>>
vars == <<runVars, fileVars, callVars, edits, calls>>

\* Only base holds the patch's old_text exactly once.
Contents == {"base", "twice", "theirs", "torn", "patched", "written"}
Occurrences(c) == CASE c = "base" -> 1 [] c = "twice" -> 2 [] OTHER -> 0
\* The path is the file's own; a link to another file, of the workspace or not; a link
\* to a file outside that does not exist; or nothing.
Links == {"same", "inside", "outside", "dangling", "gone"}
Readers == {"read_file", "read_file_page", "search_files"}
Tools == Readers \cup {"shell", "write_file", "apply_patch"}
Kinds == {"ok", "invalid", "failed", "cancelled", "unknown"}

ASSUME WorkspaceAssumption ==
    /\ {MaxCalls, MaxEdits} \subseteq Nat
    /\ None \notin [tool : Tools, kind : Kinds]

Init ==
    /\ RunInit
    /\ file = "base" /\ link = "same"
    /\ call = None /\ stage = "none" /\ outcome = None
    /\ touched = FALSE /\ blind = FALSE /\ raced = FALSE
    /\ edits = 0 /\ calls = 0

-----------------------------------------------------------------------------
(* Preparation.  A refused preparation changes nothing and is left out.    *)

\* resolve_existing_file, and checked_path, which wants the canonical path to be the
\* prepared one.  A path that leads to another file of the workspace when it is
\* prepared makes a call on that file, and is left out.
ExistingFile == link = "same"

\* verify_write_target follows the path if it exists: of a link that leads nowhere
\* it sees only the directory the link is in.
WriteTarget == link # "outside"

Prepares(tool) ==
    CASE tool = "shell" -> TRUE
      [] tool \in Readers -> ExistingFile
      [] tool = "write_file" -> WriteTarget
      [] tool = "apply_patch" -> ExistingFile /\ Occurrences(file) = 1

\* Each call belongs to a turn with a token of its own.
Prepare(tool) ==
    /\ call = None /\ calls < MaxCalls
    /\ tool = "shell" => calls = 0     \* bound: one command, before the other calls
    /\ Prepares(tool)
    /\ call' = [tool |-> tool, before |-> IF tool = "apply_patch" THEN file ELSE None]
    /\ stage' = "prepared" /\ outcome' = None
    /\ touched' = FALSE /\ blind' = FALSE /\ raced' = FALSE
    /\ cancelled' = FALSE
    /\ calls' = calls + 1
    /\ UNCHANGED <<runner, processVars, pipe, workerVars, late, over, reaper, stale, fileVars,
                   edits>>

Ends(kind) ==
    /\ call' = None /\ stage' = "none"
    /\ outcome' = [tool |-> call.tool, kind |-> kind]

At(tool, s) == call # None /\ call.tool = tool /\ stage = s

-----------------------------------------------------------------------------
(* Execution.                                                              *)

Shell ==
    /\ At("shell", "prepared")
    /\ \/ cancelled /\ Ends("cancelled")
          /\ pc' = pc
       \/ ~cancelled /\ stage' = "running" /\ pc' = "called" /\ UNCHANGED <<call, outcome>>
    /\ UNCHANGED <<runner, cancelled, processVars, pipe, tries, saw, result, late, over, reaper,
                   stale, fileVars, touched, blind, raced, edits, calls>>

\* A cancelled command may have done anything before it was stopped.
ShellEnds ==
    /\ At("shell", "running") /\ result # None
    /\ Ends(CASE result.kind = "ok" -> "ok"
              [] result.kind = "cancelled" -> "unknown"
              [] OTHER -> "failed")
    /\ UNCHANGED <<runVars, fileVars, touched, blind, raced, edits, calls>>

Read(tool, resolves) ==
    /\ At(tool, "prepared")
    /\ \/ cancelled /\ Ends("cancelled")
       \/ ~cancelled /\ ~resolves /\ Ends("invalid")
       \/ ~cancelled /\ Ends("failed")
       \/ ~cancelled /\ resolves /\ link # "gone" /\ Ends("ok")
    /\ UNCHANGED <<runVars, fileVars, touched, blind, raced, edits, calls>>

\* read_file opens the prepared path; the other readers resolve it again.
ReadFile == Read("read_file", TRUE)
ReadFilePage == Read("read_file_page", ExistingFile)
SearchFiles == Read("search_files", ExistingFile)

Replaces(check) == blind' = ~check

\* verify_write_target, once more behind create_dir_all if that is asked for.
WriteFile ==
    /\ At("write_file", "prepared")
    /\ \/ cancelled /\ Ends("cancelled")
       \/ ~cancelled /\ ~WriteTarget /\ Ends("invalid")
       \/ ~cancelled /\ Ends("failed")
       \/ ~cancelled /\ WriteTarget /\ stage' = "verified" /\ UNCHANGED <<call, outcome>>
    /\ UNCHANGED <<runVars, fileVars, touched, blind, raced, edits, calls>>

\* Opening the path truncates the file that is there, or creates one: for a dangling
\* link where the link leads.
WriteFileOpens ==
    /\ At("write_file", "verified")
    /\ \/ Ends("failed") /\ UNCHANGED <<fileVars, touched, blind>>
       \/ /\ touched' = TRUE
          /\ Replaces(link # "outside")
          /\ \/ /\ link \in {"same", "gone"}
                /\ file' = "torn" /\ link' = "same" /\ stage' = "opened"
             \/ /\ link \notin {"same", "gone"}
                /\ link' = IF link = "dangling" THEN "outside" ELSE link
                /\ stage' = "elsewhere" /\ UNCHANGED file
          /\ UNCHANGED <<call, outcome>>
    /\ UNCHANGED <<runVars, raced, edits, calls>>

\* The write and the sync.  A failure is a known one: the call may be repeated.
WriteFileEnds ==
    /\ At("write_file", "opened") \/ At("write_file", "elsewhere")
    /\ \/ file' = (IF stage = "opened" THEN "written" ELSE file) /\ Ends("ok")
       \/ file' \in (IF stage = "opened" THEN {file, "written"} ELSE {file}) /\ Ends("failed")
    /\ UNCHANGED <<runVars, link, touched, blind, raced, edits, calls>>

\* checked_path resolves the path again.
PatchCheck ==
    /\ At("apply_patch", "prepared")
    /\ \/ cancelled /\ Ends("cancelled")
       \/ ~cancelled /\ ~ExistingFile /\ Ends("invalid")
       \/ ~cancelled /\ ExistingFile /\ stage' = "checked" /\ UNCHANGED <<call, outcome>>
    /\ UNCHANGED <<runVars, fileVars, touched, blind, raced, edits, calls>>

\* Mutated form: the content is not compared again.
UnchangedAny == TRUE

\* The file still holds the snapshot that was approved.
Unchanged == file = call.before

\* The path is opened and what is found there compared; another file may hold the same.
PatchCompare ==
    /\ At("apply_patch", "checked")
    /\ \/ Ends("failed")
       \/ link = "same" /\ ~Unchanged /\ Ends("invalid")
       \/ link = "same" /\ Unchanged /\ stage' = "compared" /\ UNCHANGED <<call, outcome>>
       \/ link \in {"inside", "outside"} /\ Ends("invalid")
       \/ link \in {"inside", "outside"} /\ stage' = "elsewhere" /\ UNCHANGED <<call, outcome>>
    /\ UNCHANGED <<runVars, fileVars, touched, blind, raced, edits, calls>>

\* Mutated form: a failed write of a patch is a known failure.
PatchErrorKnown == "failed"

\* Any error after the first write leaves an unknown outcome.
PatchError == "unknown"

\* The token is looked at once more, then the open file is rewritten in place.
PatchWrite ==
    /\ At("apply_patch", "compared") \/ At("apply_patch", "elsewhere")
    /\ \/ cancelled /\ Ends("cancelled") /\ UNCHANGED <<file, touched, blind>>
       \/ /\ ~cancelled /\ stage = "compared"
          /\ \/ file' = "patched" /\ Ends("ok")
             \/ file' \in {file, "torn", "patched"} /\ Ends(PatchError)
          /\ touched' = (file' # file)
          /\ Replaces(file = call.before)
       \/ /\ ~cancelled /\ stage = "elsewhere"
          /\ Ends("ok") \/ Ends(PatchError)
          /\ touched' = TRUE
          /\ Replaces(FALSE)
          /\ UNCHANGED file
    /\ UNCHANGED <<runVars, link, raced, edits, calls>>

-----------------------------------------------------------------------------
(* The other writers of the file.                                          *)

\* A process that has outlived its command changes the file, or where its path leads;
\* the patch goes to the file that was opened, wherever its path leads by then.  What a
\* command does to the file during its own call is left out: no other call sees the file
\* before it returns.
Scribble(q) ==
    /\ ~Running
    /\ Alive(q) /\ q \notin signalled
    /\ \/ file' = "theirs" /\ link' = link
       \/ link' \in Links \ {link} /\ file' = file
    /\ raced' = (raced \/ stage \in {"verified", "checked", "compared"})
    /\ UNCHANGED <<runVars, call, stage, outcome, touched, blind, edits, calls>>

\* Hosts serialize external writers: the user edits while a call waits and no tool
\* is executing.
Edit ==
    /\ stage = "prepared" /\ call.tool # "shell"
    /\ edits < MaxEdits /\ edits' = edits + 1
    /\ \/ file' \in {"base", "twice", "theirs"} /\ link' = link
       \/ link' \in Links /\ file' = file
    /\ UNCHANGED <<runVars, callVars, calls>>

-----------------------------------------------------------------------------

RunStep == RunNext /\ (cancelled' # cancelled => call # None) /\ UNCHANGED <<fileVars, callVars, edits, calls>>

Execute ==
    \/ Shell \/ ShellEnds
    \/ ReadFile \/ ReadFilePage \/ SearchFiles
    \/ WriteFile \/ WriteFileOpens \/ WriteFileEnds
    \/ PatchCheck \/ PatchCompare \/ PatchWrite

Next ==
    \/ \E tool \in Tools : Prepare(tool)
    \/ Execute
    \/ RunStep
    \/ \E q \in Processes : Scribble(q)
    \/ Edit

Spec == Init /\ [][Next]_vars /\ RunFairness /\ WF_vars(Execute)

\* Type correctness.
TypeOK ==
    /\ runner \in {"local", "bubblewrap"}
    /\ signalled \subseteq Processes
    /\ proc \in [Processes -> {"none", "alive", "zombie", "reaped", "gone"}]
    /\ open \in [Processes -> BOOLEAN]
    /\ pipe \in [Pipes -> [waiting : 0..PipeSize, retained : 0..Maximum,
                            truncated : BOOLEAN, eof : BOOLEAN, missed : BOOLEAN]]
    /\ pc \in Pipes \cup {"idle", "called", "check", "signal", "leave", "captured", "failed"}
    /\ tries \in 0..Batch
    /\ file \in Contents /\ link \in Links
    /\ call # None => call.tool \in Tools
    /\ outcome # None => outcome.kind \in Kinds

\* A process group is never signalled after its leader was reaped, when the
\* number may already be another group's (child_has_exited, run_command).
NoStaleSignal == ~stale

\* When a command has returned, no process of its group is left running: what has
\* not ended has a SIGKILL on its way (capture_process: "Background work must use
\* a separate managed execution").
GroupGone ==
    result # None =>
        \A q \in {"leader", "helper"} :
            Alive(q) => q \in signalled \/ (runner = "bubblewrap" /\ "leader" \in signalled)

\* An output that is not reported as truncated is everything that was ever written
\* to the pipe, also by a process that outlives the command (capture_process).
OutputHonest ==
    result # None /\ result.kind = "ok" =>
        \A p \in Pipes \ result.truncated : ~pipe[p].missed

\* apply_patch replaces only the snapshot that was approved, and write_file truncates no
\* file outside the workspace, however the file and its path changed while the call
\* waited, unless a process came between the check of this very call and its write; and
\* only one that the signal to the command's group does not reach can.
NothingUnseenReplaced ==
    /\ blind => raced
    /\ raced => \E q \in Processes \ Group : proc[q] # "none"

\* A call that ends in a known failure, for apply_patch, or as cancelled, for any
\* tool, has not changed the file: what may have is reported as unknown.
KnownFailureIsClean ==
    /\ outcome # None /\ touched =>
            /\ outcome.kind # "cancelled"
            /\ outcome.tool = "apply_patch" => outcome.kind \in {"ok", "unknown"}
    /\ outcome = [tool |-> "shell", kind |-> "cancelled"] => proc["leader"] = "none"

\* A command returns whatever its processes do, write without end, ignore their
\* signals or leave someone holding the pipes, and its leader is waited for in the
\* end (capture_process, run_command).
CommandEnds ==
    /\ Running ~> ~Running
    /\ proc["leader"] = "zombie" ~> proc["leader"] = "reaped"
=============================================================================
