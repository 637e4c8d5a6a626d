---------------------------- MODULE ModelRequest ----------------------------
(***************************************************************************)
(* One request of the OpenAI-compatible provider (crates/provider-openai): *)
(* the future that run_turn awaits, the worker thread behind it, the curl  *)
(* child the worker drives, and the decoder of its event stream.           *)
(*                                                                         *)
(* Five actors meet here: the task that polls or drops the future, the     *)
(* control plane that cancels, the worker, the thread that reads curl's    *)
(* output into a bounded channel, and curl itself, which may answer        *)
(* anything, stop anywhere or never end.  A stream event is a frame; only  *)
(* the last one may lack the blank line that ends it.                      *)
(***************************************************************************)
EXTENDS Naturals, Sequences, FiniteSets, SequencesExt

CONSTANTS
    None,           \* nothing
    Frames,         \* bound: the frames the endpoint may send
    Pieces,         \* what the strings of a tool call are made of
    Json,           \* the strings that are JSON
    MaxEvents,      \* bound: frames in one stream
    MaxIndex,       \* the greatest index of a tool call (127 in the code)
    ChannelSize,    \* the capacity of the sync_channel
    PipeSize        \* bound: frames in curl's output pipe, which blocks it when full

Indexes == 0..MaxIndex
Fields == {"id", "name", "arguments"}
Strings == Seq(Pieces)

\* What a delta adds to the strings of the call at its index: nothing, to one that
\* it lacks or that is null.
Fragment == [index : Indexes, adds : [Fields -> Strings]]
FrameType == [type : {"choice", "done", "usage", "bad"}, text : BOOLEAN,
              frags : Seq(Fragment), finish : BOOLEAN]

\* Only a choice carries text, fragments and a finish reason.
ASSUME FramesAssumption ==
    /\ Frames \subseteq FrameType /\ None \notin Frames
    /\ \A f \in Frames : f.type # "choice" => ~f.text /\ f.frags = <<>> /\ ~f.finish
ASSUME JsonAssumption == Json \subseteq Strings
ASSUME SizesAssumption ==
    {MaxEvents, MaxIndex} \subseteq Nat /\ {ChannelSize, PipeSize} \subseteq Nat \ {0}

VARIABLES
    task,       \* the task that awaits the future
    waker,      \* a waker is stored in the ResultSlot
    slot,       \* the result in the ResultSlot, or None
    reply,      \* what the task was given, or None
    cancelled,  \* the turn's CancellationToken
    abandoned,  \* the token that dropping the future cancels
    late,       \* the deadline of the request has passed
    pc,         \* where the worker is
    result,     \* what complete_blocking has returned, or None
    child,      \* the curl process
    exit,       \* how it ended, or None
    guard,      \* the ChildGuard still owns it
    reaper,     \* a thread waits for it in the background
    stale,      \* ghost: a process group was signalled after its leader was reaped
    sent,       \* the frames curl wrote
    cut,        \* the last of them lacks its blank line
    reader,     \* the thread that reads them
    queued,     \* how many it has put in the channel
    got,        \* how many the worker has taken from it
    decoder,    \* stream::Decoder
    preview     \* the text handed to the observer, by position in the stream

futureVars == <<task, waker, slot, reply>>
childVars == <<child, exit, guard, reaper, stale>>
streamVars == <<sent, cut, reader, queued>>
workVars == <<pc, result, got, decoder, preview>>
tokens == <<cancelled, abandoned, late>>
vars == <<futureVars, childVars, streamVars, workVars, tokens>>

-----------------------------------------------------------------------------
(* The decoder.  Text is named by the position of its frame; the call at   *)
(* an index that was entered collects its three strings, each from the     *)
(* deltas in the order they come, whatever strings they carry.             *)

NoCall == [field \in Fields |-> <<>>]

EmptyDecoder == [data |-> None, texts |-> <<>>,
                 entries |-> {}, calls |-> [i \in Indexes |-> NoCall],
                 finish |-> FALSE, done |-> FALSE]

Failure == [ok |-> FALSE]
Success(d) == [ok |-> TRUE, texts |-> d.texts, entries |-> d.entries, calls |-> d.calls]

\* line: data after [DONE] is refused before it is looked at.
LineRefused(d) == d.done

\* dispatch: [DONE] needs a finish reason, and nothing of the choice follows it.
\* A frame that is no JSON, an error, of another choice or malformed is bad.
DispatchRefused(d, frame) ==
    \/ frame.type = "bad"
    \/ frame.type = "done" /\ ~d.finish
    \/ frame.type = "choice" /\ d.finish

\* What the fragments of a frame add to a string of the call at an index.
PiecesIn(frags, index, field) ==
    FlattenSeq([k \in DOMAIN frags |->
        IF frags[k].index = index THEN frags[k].adds[field] ELSE <<>>])

EntriesIn(frags) == {frags[k].index : k \in DOMAIN frags}

Collect(calls, frags) ==
    [i \in Indexes |-> [field \in Fields |-> calls[i][field] \o PiecesIn(frags, i, field)]]

Dispatch(d, frame, position) ==
    CASE frame.type = "done" -> [d EXCEPT !.data = None, !.done = TRUE]
      [] frame.type = "choice" ->
            [d EXCEPT !.data = None,
                      !.texts = IF frame.text THEN Append(@, position) ELSE @,
                      !.entries = @ \cup EntriesIn(frame.frags),
                      !.calls = Collect(@, frame.frags),
                      !.finish = frame.finish]
      [] OTHER -> [d EXCEPT !.data = None]

\* Every call that was entered has all its strings.
Filled(d) == \A i \in d.entries, field \in Fields : d.calls[i][field] # <<>>

\* Mutated form: the indexes need not be contiguous.
CompleteGaps(d) == d.done /\ Filled(d)

\* Decoder::finish without its dispatch: the stream is done, the indexes are
\* 0, 1, ... and no call lacks its id, its name or its arguments.
Complete(d) ==
    /\ d.done
    /\ d.entries = 0..(Cardinality(d.entries) - 1)
    /\ Filled(d)

\* parse_response: the collected arguments of every call are JSON.
Parses(d) == \A i \in d.entries : d.calls[i]["arguments"] \in Json

\* Decoder::finish, which dispatches an event left without its blank line and
\* previews nothing, then parse_response.
Answer(d) ==
    IF d.data # None /\ DispatchRefused(d, d.data)
    THEN Failure
    ELSE LET last == IF d.data = None THEN d ELSE Dispatch(d, d.data, Len(sent))
         IN  IF Complete(last) /\ Parses(last) THEN Success(last) ELSE Failure

-----------------------------------------------------------------------------
(* The future.                                                             *)

\* post_json_controlled runs curl; it owns the receiver of the channel.
Receiving == pc \in {"check", "pull", "wait", "parse"}

\* worker::start: the thread is spawned, or its error is stored as the result.
Start ==
    /\ task = "unborn"
    /\ task' = "runnable"
    /\ \/ pc' = "prepare" /\ UNCHANGED slot
       \/ pc' = "done" /\ slot' = Failure
    /\ UNCHANGED <<waker, reply, result, got, decoder, preview,
                   childVars, streamVars, tokens>>

\* RequestFuture::poll, by an executor that polls when woken or spuriously.  A
\* future that is ready is dropped with its abandonment token.
Poll ==
    /\ task \in {"runnable", "parked"}
    /\ IF slot # None
       THEN /\ task' = "done" /\ reply' = slot /\ slot' = None
            /\ abandoned' = TRUE
            /\ UNCHANGED waker
       ELSE /\ task' = "parked" /\ waker' = TRUE
            /\ UNCHANGED <<reply, slot, abandoned>>
    /\ UNCHANGED <<childVars, streamVars, workVars, cancelled, late>>

\* Mutated form: the worker is not told.
DropFutureSilently ==
    /\ task \in {"runnable", "parked"}
    /\ task' = "dropped"
    /\ UNCHANGED <<waker, slot, reply, childVars, streamVars, workVars, tokens>>

\* RequestFuture::drop while it is pending.
DropFuture ==
    /\ task \in {"runnable", "parked"}
    /\ task' = "dropped"
    /\ abandoned' = TRUE
    /\ UNCHANGED <<waker, slot, reply, childVars, streamVars, workVars, cancelled, late>>

\* CancellationToken::cancel.
Cancel ==
    /\ task \in {"runnable", "parked"}
    /\ ~cancelled
    /\ cancelled' = TRUE
    /\ UNCHANGED <<futureVars, childVars, streamVars, workVars, abandoned, late>>

\* The clock passes the deadline of post_json_controlled, which starts with curl.
Expire ==
    /\ Receiving
    /\ ~late
    /\ late' = TRUE
    /\ UNCHANGED <<futureVars, childVars, streamVars, workVars, cancelled, abandoned>>

-----------------------------------------------------------------------------
(* The worker: complete_blocking and post_json_controlled.                 *)

\* HttpControl::is_cancelled.
IsCancelled == cancelled \/ abandoned

\* The worker goes on to the given place; everything else it owns stays.
Goto(label) ==
    /\ pc' = label
    /\ UNCHANGED <<futureVars, childVars, streamVars, tokens,
                   result, got, decoder, preview>>

\* post_json_controlled returns: the ChildGuard kills the process group of a
\* child it still owns and leaves the wait to a thread of its own.
Return(value) ==
    /\ pc' = "finished"
    /\ result' = value
    /\ IF guard
       THEN /\ guard' = FALSE /\ reaper' = TRUE
            /\ stale' = (stale \/ child = "reaped")
            /\ child' = IF child = "running" THEN "killed" ELSE child
       ELSE UNCHANGED <<guard, reaper, stale, child>>
    /\ decoder' = EmptyDecoder
    /\ UNCHANGED <<futureVars, streamVars, tokens, exit, got, preview>>

\* complete_blocking up to the call of the transport: the request may be refused
\* by its budget or by a counter that fails.
Prepare ==
    /\ pc = "prepare"
    /\ \/ Return(Failure)
       \/ Goto("spawn")

\* post_json_controlled up to its threads: the URL or a header may be refused
\* and the spawn may fail.  The request is consumed.
Spawn ==
    /\ pc = "spawn"
    /\ \/ Return(Failure)
       \/ /\ ~IsCancelled
          /\ pc' = "check"
          /\ child' = "running" /\ guard' = TRUE
          /\ reader' = "reading"
          /\ UNCHANGED <<futureVars, tokens, exit, reaper, stale, sent, cut, queued,
                         result, got, decoder, preview>>

\* The head of the receive loop.
Check ==
    /\ pc = "check"
    /\ IF IsCancelled \/ late THEN Return(Failure) ELSE Goto("pull")

\* recv_timeout.  A frame goes to the decoder, and its text to the observer, who
\* may panic; the body may exceed its limit or the read fail.  An empty channel
\* times out while the reader lives and is disconnected once it is gone.
Pull ==
    /\ pc = "pull"
    /\ IF got < queued
       THEN LET position == got + 1
                frame == sent[position]
                open == cut /\ position = Len(sent)
            IN  \/ Return(Failure)
                \/ /\ ~LineRefused(decoder)
                   /\ open \/ ~DispatchRefused(decoder, frame)
                   /\ pc' = "check"
                   /\ got' = position
                   /\ decoder' = IF open THEN [decoder EXCEPT !.data = frame]
                                 ELSE Dispatch(decoder, frame, position)
                   /\ preview' = IF ~open /\ frame.text THEN Append(preview, position)
                                 ELSE preview
                   /\ UNCHANGED <<futureVars, childVars, streamVars, tokens, result>>
       ELSE Goto(IF reader = "gone" THEN "wait" ELSE "check")

\* Mutated form: the guard keeps the child that was reaped.
ReapedKept ==
    /\ child' = "reaped"
    /\ UNCHANGED <<exit, guard, reaper, stale>>

\* try_wait reaped the child; the guard gives it up at once.
Reaped ==
    /\ child' = "reaped"
    /\ guard' = FALSE
    /\ UNCHANGED <<exit, reaper, stale>>

\* The loop that waits for curl to exit.
Wait ==
    /\ pc = "wait"
    /\ IF IsCancelled \/ late
       THEN Return(Failure)
       ELSE IF child = "exited"
       THEN /\ Reaped
            /\ pc' = "parse"
            /\ UNCHANGED <<futureVars, streamVars, tokens,
                           result, got, decoder, preview>>
       ELSE UNCHANGED vars

\* The metrics line, the exit status, the HTTP status, then the body.
Parse ==
    /\ pc = "parse"
    /\ Return(IF exit = "success" THEN Answer(decoder) ELSE Failure)

\* Mutated form: the result is stored and nobody is woken.
StoreQuietly ==
    /\ pc = "finished"
    /\ pc' = "done"
    /\ slot' \in {result, Failure}
    /\ result' = None
    /\ UNCHANGED <<task, waker, reply, childVars, streamVars, tokens,
                   got, decoder, preview>>

\* The observer is told the request is finished, and may panic; the result is
\* stored and the stored waker woken.  Waking a task that is gone does nothing.
Store ==
    /\ pc = "finished"
    /\ pc' = "done"
    /\ slot' \in {result, Failure}
    /\ result' = None
    /\ waker' = FALSE
    /\ task' = IF waker /\ task = "parked" THEN "runnable" ELSE task
    /\ UNCHANGED <<reply, childVars, streamVars, tokens, got, decoder, preview>>

WorkerStep == Prepare \/ Spawn \/ Check \/ Pull \/ Wait \/ Parse \/ Store

-----------------------------------------------------------------------------
(* The reader thread, the reaper thread and curl.                          *)

\* The reader thread: a full channel blocks it, a dropped receiver or the end of
\* the pipe ends it.
Read ==
    /\ reader = "reading"
    /\ \/ /\ Receiving
          /\ queued < Len(sent)
          /\ queued - got < ChannelSize
          /\ queued' = queued + 1
          /\ UNCHANGED reader
       \/ /\ IF queued < Len(sent) THEN ~Receiving ELSE child \in {"exited", "reaped"}
          /\ reader' = "gone"
          /\ UNCHANGED queued
    /\ UNCHANGED <<futureVars, childVars, workVars, tokens, sent, cut>>

\* The thread the guard left behind reaps the child.
Reap ==
    /\ reaper
    /\ child = "exited"
    /\ child' = "reaped"
    /\ reaper' = FALSE
    /\ UNCHANGED <<futureVars, streamVars, workVars, tokens, exit, guard, stale>>

\* A killed process ends, without a metrics line.
Die ==
    /\ child = "killed"
    /\ child' = "exited"
    /\ exit' = "failure"
    /\ UNCHANGED <<futureVars, streamVars, workVars, tokens, guard, reaper, stale>>

\* curl writes a frame, the last one possibly without its blank line.
CurlWrites(frame, open) ==
    /\ child = "running"
    /\ ~cut
    /\ Len(sent) < MaxEvents
    /\ Len(sent) - queued < PipeSize
    /\ sent' = Append(sent, frame)
    /\ cut' = open
    /\ UNCHANGED <<futureVars, childVars, workVars, tokens, reader, queued>>

\* curl ends by itself: a 2xx answer, or an error of its own or of the endpoint.
CurlExits(status) ==
    /\ child = "running"
    /\ child' = "exited"
    /\ exit' = status
    /\ UNCHANGED <<futureVars, streamVars, workVars, tokens, guard, reaper, stale>>

-----------------------------------------------------------------------------
Init ==
    /\ task = "unborn" /\ waker = FALSE /\ slot = None /\ reply = None
    /\ cancelled = FALSE /\ abandoned = FALSE /\ late = FALSE
    /\ pc = "unborn" /\ result = None
    /\ child = "none" /\ exit = None /\ guard = FALSE /\ reaper = FALSE /\ stale = FALSE
    /\ sent = <<>> /\ cut = FALSE /\ reader = "none" /\ queued = 0
    /\ got = 0 /\ decoder = EmptyDecoder /\ preview = <<>>

Next ==
    \/ Start \/ Poll \/ DropFuture \/ Cancel \/ Expire
    \/ WorkerStep
    \/ Read \/ Reap \/ Die
    \/ \E frame \in Frames, open \in BOOLEAN : CurlWrites(frame, open)
    \/ \E status \in {"success", "failure"} : CurlExits(status)

Spec == Init /\ [][Next]_vars

\* The worker, its helper threads and an executor that polls what was woken make
\* progress, and a killed process dies.  Nothing is asked of curl, the network,
\* the clock or the user.
FairSpec ==
    /\ Spec
    /\ WF_vars(WorkerStep) /\ WF_vars(Read) /\ WF_vars(Reap) /\ WF_vars(Die)
    /\ WF_vars(task = "runnable" /\ Poll)

-----------------------------------------------------------------------------
(* Properties.                                                             *)

Results == {None, Failure} \cup [ok : {TRUE}, texts : Seq(Nat), entries : SUBSET Indexes,
                                 calls : [Indexes -> [Fields -> Strings]]]

\* Type correctness.
TypeOK ==
    /\ task \in {"unborn", "runnable", "parked", "done", "dropped"}
    /\ waker \in BOOLEAN /\ {slot, reply, result} \subseteq Results
    /\ {cancelled, abandoned, late, guard, reaper, stale, cut} \subseteq BOOLEAN
    /\ pc \in {"unborn", "prepare", "spawn", "check", "pull", "wait", "parse", "finished", "done"}
    /\ child \in {"none", "running", "killed", "exited", "reaped"}
    /\ reader \in {"none", "reading", "gone"}
    /\ sent \in Seq(Frames) /\ got \in 0..queued /\ queued \in 0..Len(sent)
    /\ queued - got <= ChannelSize

\* All that the stream gives a string of the call at an index, in its order.
PiecesOf(frames, index, field) ==
    FlattenSeq([i \in DOMAIN frames |-> PiecesIn(frames[i].frags, index, field)])

\* The indexes of the calls of the stream.
EntriesOf(frames) == UNION {EntriesIn(frames[i].frags) : i \in DOMAIN frames}

\* The first n frames have choices up to the one with the finish reason, and at
\* most usage elsewhere.
Unfinished(frame) ==
    \/ frame.type = "usage"
    \/ frame.type = "choice" /\ ~frame.finish

Finished(frames, n) ==
    \E k \in 1..n :
        /\ frames[k].type = "choice" /\ frames[k].finish
        /\ \A i \in 1..k - 1 : Unfinished(frames[i])
        /\ \A i \in k + 1..n : frames[i].type = "usage"

\* A whole answer: finished, then [DONE] as the last frame; calls numbered from
\* 0, each with an id, a name and arguments that are JSON once joined.
Ended(frames) ==
    LET n == Len(frames)
    IN  n > 0 /\ frames[n].type = "done" /\ Finished(frames, n - 1)

WellFormed(frames) ==
    /\ Ended(frames)
    /\ \A i \in EntriesOf(frames) :
          /\ 0..i \subseteq EntriesOf(frames)
          /\ \A field \in Fields : PiecesOf(frames, i, field) # <<>>
          /\ PiecesOf(frames, i, "arguments") \in Json

\* The positions of the frames that carry text.
TextOf(frames) ==
    FlattenSeq([i \in DOMAIN frames |-> IF frames[i].text THEN <<i>> ELSE <<>>])

(***************************************************************************)
(* "Only complete SSE responses become a provider response": the decoder   *)
(* accepts exactly the well-formed streams, wherever curl stopped writing, *)
(* what it answers is the whole text and every call of the stream, each    *)
(* string of a call being all the pieces sent for it (of a delta that is   *)
(* repeated, the pieces twice), and the task is given a success only when  *)
(* all of its text was previewed.  A preview never runs ahead of the       *)
(* stream or repeats a piece of it.                                        *)
(***************************************************************************)
OnlyComplete ==
    /\ pc = "parse" /\ exit = "success" =>
          LET answer == Answer(decoder)
          IN  /\ answer.ok = WellFormed(sent)
              /\ answer.ok => /\ answer.texts = TextOf(sent)
                              /\ answer.entries = EntriesOf(sent)
                              /\ \A i \in Indexes, field \in Fields :
                                    answer.calls[i][field] = PiecesOf(sent, i, field)
    /\ IsPrefix(preview, TextOf(sent))
    /\ \A given \in {slot, reply} : given # None /\ given.ok => preview = given.texts

(***************************************************************************)
(* The process group of curl is never signalled once its leader has been   *)
(* reaped, whoever reaped it: the id could be another process by then.     *)
(***************************************************************************)
NoStaleSignal == ~stale

(***************************************************************************)
(* Cancellation, abandonment and the deadline end the request by           *)
(* themselves: the task gets its answer, or is gone, even if curl and the  *)
(* network never do anything again, and no wake-up is lost on the way.     *)
(***************************************************************************)
StopEnds ==
    (task # "unborn" /\ (cancelled \/ late)) ~> task \in {"done", "dropped"}

(***************************************************************************)
(* Nothing is left behind by a request that is over, a dropped one         *)
(* included: the worker ends, curl is dead and reaped, and the reader that *)
(* may have been blocked on a full channel is gone.                        *)
(***************************************************************************)
NothingLeaks ==
    task \in {"done", "dropped"} ~>
        /\ pc = "done"
        /\ child \in {"none", "reaped"}
        /\ reader \in {"none", "gone"}
=============================================================================
