----------------------------- MODULE TuiProofs -----------------------------
(***************************************************************************)
(* What the terminal UI of module Tui shows is true, for any number of     *)
(* turns, iterations, bytes and holders of the approval provider: the      *)
(* failure of a turn is told once, a preview is a part of the answer it    *)
(* belongs to, broken at most behind the rest of a character's length, and *)
(* an approval is given to what is on screen.                              *)
(***************************************************************************)
EXTENDS Tui, WellFoundedInduction, TLAPS

-----------------------------------------------------------------------------
(* Types, of what is not a flag.                                           *)

UiPlaces ==
    {"events", "progress", "approvals", "result", "finish", "key", "closing", "exited"}
WorkerPlaces ==
    {"none", "begin", "loop", "request", "model", "answer", "decide", "asking", "return"}
Kinds == Terminal \cup {"TurnStarted", "ModelRequestStarted", "AssistantMessage"}
Events == [kind : Kinds, turn : Nat, iteration : Nat]
Bytes == Nat \X Nat \X Nat \X BOOLEAN

\* A thread that returns has a result.
WorkerStates ==
    {s \in [pc : WorkerPlaces, iteration : Nat, bytes : Nat, result : {"none", "ok", "err"}] :
        s.pc = "return" => s.result # "none"}

\* What the UI's thread keeps.
UiTypeOK ==
    /\ ui \in UiPlaces
    /\ cancellation \in Nat /\ current_turn \in Nat /\ iteration \in Nat /\ turn \in Nat
    /\ told \in Nat
    /\ draft \in Seq(Bytes)
    /\ cancelled \subseteq Nat

\* The prompts, wherever they are.
PromptTypeOK ==
    /\ current_approval \in Requesters \cup {None}
    /\ shown \in Requesters \cup {None}
    /\ queued_approvals \in Seq(Requesters)
    /\ approvals \in Seq(Requesters)
    /\ answer \in [Requesters -> {"idle", "waiting", "approved", "denied", "dropped"}]

\* The turn's thread and what it sends.
WorkerTypeOK ==
    /\ worker \in WorkerStates
    /\ events \in Seq(Events)
    /\ results \in Seq({"ok", "err"})
    /\ ui = "finish" => results # <<>>
    /\ preview \in [request : Nat \X Nat, text : Seq(Bytes)]
    /\ outcome \in {"none", "ok", "err"}

TuiTypeOK == UiTypeOK /\ PromptTypeOK /\ WorkerTypeOK

-----------------------------------------------------------------------------
(* What is told of the end of a turn.  The terminal event of a turn, if    *)
(* its append did not fail, is the last of its events; until it is taken   *)
(* nothing has been told, and then as much as its result asks for.         *)

IsTerminal(i) == events[i].kind \in Terminal

\* The turn's thread has returned a result, sent or not.
Ended == worker.pc = "return" \/ results # <<>>
EndResult == IF worker.pc = "return" THEN worker.result ELSE outcome

Reported(result) ==
    /\ \A i \in DOMAIN events : IsTerminal(i) =>
          /\ i = Len(events) /\ ~terminal_reported /\ told = 0
          /\ result = IF events[i].kind = "TurnCompleted" THEN "ok" ELSE "err"
    /\ (\A i \in DOMAIN events : ~IsTerminal(i)) =>
          IF terminal_reported THEN told = Count(result = "err")
          ELSE told = 0 /\ result = "err"

ToldInv ==
    /\ told <= 1
    /\ ~running => /\ worker.pc = "none" /\ results = <<>> /\ events = <<>>
                   /\ told = Count(outcome = "err")
    /\ worker.pc # "none" => results = <<>> /\ outcome = "none"
    /\ results # <<>> => results = <<outcome>>
    /\ running /\ ui # "exited" /\ ~Ended =>
          /\ told = 0 /\ ~terminal_reported
          /\ \A i \in DOMAIN events : ~IsTerminal(i)
    /\ running /\ ui # "exited" /\ Ended => Reported(EndResult)

-----------------------------------------------------------------------------
(* What is on the screen.                                                  *)

\* Whose turn the UI believes is running, as long as the store works.
TurnInv ==
    /\ running => cancellation = turn /\ turn # 0
    /\ ~running => cancellation = 0
    /\ 0 \notin cancelled
    /\ \A i \in DOMAIN events : events[i].turn = turn
    /\ events # <<>> => current_turn = turn \/ events[1].kind = "TurnStarted"
    /\ worker.pc \notin {"none", "begin", "return"} /\ ui # "exited" =>
          current_turn = turn \/ events # <<>>
    /\ ~settled /\ ~broken => running /\ current_turn = turn
    /\ ~broken /\ ui # "exited" /\ Ended =>
          IF events = <<>> THEN settled ELSE IsTerminal(Len(events))

Unbroken(text) == \A i \in 1..Len(text) - 1 : Follows(text[i], text[i + 1])

\* In its order, and broken only within less than a character of its beginning.
NearlyUnbroken(text) ==
    \A i \in 1..Len(text) - 1 :
        /\ text[i][3] < text[i + 1][3]
        /\ i >= CharBytes => Follows(text[i], text[i + 1])

\* A character starts among any CharBytes bytes.
Spaced(text) ==
    \A i \in DOMAIN text : i + CharBytes - 1 <= Len(text) =>
        \E j \in i..i + CharBytes - 1 : text[j][4]

\* All bytes of the text belong to the request.
Of(request, text) == \A i \in DOMAIN text : <<text[i][1], text[i][2]>> = request

\* The bytes of the text were streamed by requests that the worker w of turn t, or
\* of an earlier one, has begun.
Streamed(text, t, w) ==
    \A i \in DOMAIN text :
        \/ text[i][1] < t
        \/ /\ text[i][1] = t
           /\ w.pc \in {"begin", "loop", "request"} => text[i][2] < w.iteration
           /\ w.pc \in {"model", "answer", "decide", "asking"} => text[i][2] <= w.iteration

TextInv ==
    /\ Len(draft) <= DraftLimit /\ Len(preview.text) <= DraftLimit
    /\ NearlyUnbroken(draft) /\ Unbroken(preview.text) /\ Spaced(preview.text)
    /\ Of(preview.request, preview.text)
    /\ Streamed(draft, turn, worker) /\ Streamed(preview.text, turn, worker)

\* A draft belongs to the request that the UI heard of last.
OwnDraft ==
    draft # <<>> /\ InLoop =>
        /\ ~settled /\ cancellation \notin cancelled
        /\ Of(<<current_turn, iteration>>, draft)

\* The next byte follows the last one of the preview, or of the draft.
NextByte ==
    /\ worker.pc = "model" /\ preview.request = ThisRequest /\ preview.text # <<>> =>
          preview.text[Len(preview.text)][3] = worker.bytes
    /\ /\ worker.pc = "model" /\ InLoop /\ draft # <<>>
       /\ ThisRequest = <<current_turn, iteration>>
       /\ preview.request # ThisRequest \/ preview.text = <<>>
       => draft[Len(draft)][3] = worker.bytes

\* The preview is later than the draft, and follows it or is long enough to displace
\* all of it but less than a character.
PreviewFollows ==
    /\ InLoop /\ draft # <<>> /\ preview.text # <<>>
    /\ preview.request = <<current_turn, iteration>>
    => /\ \A i \in DOMAIN preview.text : draft[Len(draft)][3] < preview.text[i][3]
       /\ \/ Len(preview.text) > DraftLimit - CharBytes
          \/ Follows(draft[Len(draft)], preview.text[1])

DraftInv == TextInv /\ OwnDraft /\ NextByte /\ PreviewFollows

\* What can be answered with a key is on the screen.
PromptInv ==
    /\ InLoop /\ ~dirty => shown = current_approval
    /\ ui = "key" => ~dirty
    /\ InLoop /\ cancellation \in cancelled => current_approval = None

-----------------------------------------------------------------------------
(* The types are kept.                                                     *)

\* A non-empty set of naturals has a least element.
LEMMA LeastExists ==
    ASSUME NEW S, S \subseteq Nat, S # {}
    PROVE  \E x \in S : \A y \in S : x =< y
  <1>1. PICK x \in S : \A y \in S : ~(<<y, x>> \in OpToRel(<, Nat))
    BY NatLessThanWellFounded, WFMin
  <1>2. \A y \in S : ~(y < x)
    BY <1>1 DEF OpToRel
  <1> QED BY <1>2

\* What append_bounded keeps of a text: all, or the end of it, which starts at the
\* first character that makes it short enough.
LEMMA BoundedFacts ==
    ASSUME NEW text \in Seq(Bytes)
    PROVE  /\ Bounded(text) \in Seq(Bytes)
           /\ \E d \in 0..Len(text) :
                 /\ Len(Bounded(text)) = Len(text) - d /\ Len(Bounded(text)) <= DraftLimit
                 /\ \A i \in 1..Len(text) - d : Bounded(text)[i] = text[d + i]
                 /\ Len(text) <= DraftLimit => d = 0 /\ Bounded(text) = text
                 /\ Len(text) > DraftLimit =>
                       /\ d >= Len(text) - DraftLimit
                       /\ \A j \in Len(text) - DraftLimit + 1..d : ~text[j][4]
  <1> DEFINE Cut(d) ==
                 /\ Len(Bounded(text)) = Len(text) - d /\ Len(Bounded(text)) <= DraftLimit
                 /\ \A i \in 1..Len(text) - d : Bounded(text)[i] = text[d + i]
                 /\ Len(text) <= DraftLimit => d = 0 /\ Bounded(text) = text
                 /\ Len(text) > DraftLimit =>
                       /\ d >= Len(text) - DraftLimit
                       /\ \A j \in Len(text) - DraftLimit + 1..d : ~text[j][4]
  <1>1. DraftLimit \in Nat /\ DraftLimit >= 1 /\ Len(text) \in Nat
    BY TuiAssumption
  <1> SUFFICES Bounded(text) \in Seq(Bytes) /\ \E d \in 0..Len(text) : Cut(d)
    OBVIOUS
  <1>2. CASE Len(text) > DraftLimit
    <2> DEFINE least == Len(text) - DraftLimit + 1
               All == least..Len(text) + 1
               start == CHOOSE i \in All : /\ Boundary(text, i)
                                          /\ \A j \in least..i - 1 : ~Boundary(text, j)
               S == {i \in All : Boundary(text, i)}
    <2>1. least \in Nat /\ least >= 1 /\ least <= Len(text) /\ All \subseteq Nat
      BY <1>1, <1>2
    <2>2. S \subseteq Nat /\ S # {}
      <3>1. Len(text) + 1 \in All
        BY <1>1, <2>1
      <3>2. Boundary(text, Len(text) + 1)
        BY DEF Boundary
      <3> HIDE DEF All
      <3> QED BY <2>1, <3>1, <3>2
    <2>3. \E i \in All : Boundary(text, i) /\ \A j \in least..i - 1 : ~Boundary(text, j)
      <3>1. PICK i \in S : \A y \in S : i =< y
        <4> HIDE DEF S
        <4> QED BY <2>2, LeastExists
      <3>2. ASSUME NEW j \in least..i - 1 PROVE ~Boundary(text, j)
        <4>1. i \in All /\ i \in Nat
          BY <2>2, <3>1
        <4>2. j \in All /\ ~(i =< j)
          BY <1>1, <2>1, <4>1
        <4> QED BY <3>1, <4>2
      <3> HIDE DEF All
      <3> QED BY <3>1, <3>2
    <2>4. /\ start \in All /\ \A j \in least..start - 1 : ~Boundary(text, j)
      <3> HIDE DEF All, least
      <3> QED BY <2>3
    <2>5. Bounded(text) = SubSeq(text, start, Len(text))
      BY <1>2 DEF Bounded
    <2> HIDE DEF start
    <2> DEFINE d == start - 1
    <2>6. start \in Nat /\ start >= 1 /\ start <= Len(text) + 1 /\ start >= least
      BY <2>1, <2>4
    <2>7. /\ Len(SubSeq(text, start, Len(text))) = Len(text) - start + 1
          /\ \A i \in 1..(Len(text) - start + 1) :
                SubSeq(text, start, Len(text))[i] = text[start + i - 1]
          /\ SubSeq(text, start, Len(text)) \in Seq(Bytes)
      BY <1>1, <2>6
    <2>8. /\ d \in 0..Len(text) /\ Len(text) - start + 1 = Len(text) - d
          /\ d >= Len(text) - DraftLimit /\ Len(text) - d <= DraftLimit
          /\ \A i \in Int : start + i - 1 = d + i
      BY <1>1, <2>6
    <2>9. ASSUME NEW j \in Len(text) - DraftLimit + 1..d PROVE ~text[j][4]
      BY <2>4 DEF Boundary
    <2> HIDE DEF d
    <2>10. \A i \in 1..Len(text) - d : Bounded(text)[i] = text[d + i]
      BY <2>5, <2>7, <2>8
    <2>11. Cut(d)
      <3>1. ~(Len(text) <= DraftLimit)
        BY <1>1, <1>2
      <3>2. Len(Bounded(text)) = Len(text) - d /\ Len(Bounded(text)) <= DraftLimit
        BY <2>5, <2>7, <2>8
      <3> QED BY <2>8, <2>9, <2>10, <3>1, <3>2
    <2> HIDE DEF Cut
    <2> QED BY <2>5, <2>7, <2>8, <2>11
  <1>3. CASE ~(Len(text) > DraftLimit)
    <2>1. Bounded(text) = text
      BY <1>3 DEF Bounded
    <2>2. 0 \in 0..Len(text) /\ Len(text) - 0 = Len(text) /\ \A i \in 1..Len(text) : 0 + i = i
      BY <1>1
    <2>3. Cut(0)
      <3>1. Len(Bounded(text)) = Len(text) - 0 /\ Len(Bounded(text)) <= DraftLimit
        BY <1>1, <1>3, <2>1, <2>2
      <3>2. \A i \in 1..Len(text) - 0 : Bounded(text)[i] = text[0 + i]
        BY <2>1, <2>2
      <3> QED BY <1>3, <2>1, <3>1, <3>2
    <2> HIDE DEF Cut
    <2> QED BY <2>1, <2>2, <2>3
  <1> QED BY <1>2, <1>3

\* A character is bytes of its request that follow each other, the first of which
\* starts it.
LEMMA CharacterFacts ==
    ASSUME turn \in Nat, worker.iteration \in Nat, worker.bytes \in Nat,
           NEW width \in 1..CharBytes
    PROVE  LET char == Character(width)
           IN  /\ char \in Seq(Bytes) /\ Len(char) = width /\ char # <<>>
               /\ \A k \in 1..width : /\ char[k][1] = turn /\ char[k][2] = worker.iteration
                                       /\ char[k][3] = worker.bytes + k
               /\ char[1][4] /\ Unbroken(char)
  <1> DEFINE char == Character(width)
             byte(k) == <<turn, worker.iteration, worker.bytes + k, k = 1>>
  <1>1. width \in Nat /\ width >= 1
    BY TuiAssumption
  <1>2. char = [k \in 1..width |-> byte(k)]
    BY DEF Character
  <1>3. ASSUME NEW k \in 1..width PROVE byte(k) \in Bytes
    <2>1. worker.bytes + k \in Nat
      BY <1>1
    <2>2. (k = 1) \in BOOLEAN
      OBVIOUS
    <2> QED BY <2>1, <2>2 DEF Bytes
  <1>4. /\ \A k \in 1..width : /\ byte(k)[1] = turn /\ byte(k)[2] = worker.iteration
                                /\ byte(k)[3] = worker.bytes + k
        /\ byte(1)[4]
    OBVIOUS
  <1> HIDE DEF byte, char
  <1>5. char \in Seq(Bytes) /\ Len(char) = width /\ \A k \in 1..width : char[k] = byte(k)
    BY <1>1, <1>2, <1>3
  <1>6. 1 \in 1..width /\ char # <<>>
    BY <1>1, <1>5
  <1>7. Unbroken(char)
    <2> SUFFICES ASSUME NEW i \in 1..width - 1 PROVE Follows(char[i], char[i + 1])
      BY <1>5 DEF Unbroken
    <2>1. i \in 1..width /\ i + 1 \in 1..width /\ worker.bytes + (i + 1) = (worker.bytes + i) + 1
      BY <1>1
    <2> QED BY <1>4, <1>5, <2>1 DEF Follows
  <1> QED BY <1>4, <1>5, <1>6, <1>7 DEF char

\* What joins a channel keeps its type.
LEMMA AppendType ==
    ASSUME NEW S, NEW channel \in Seq(S), NEW message \in S
    PROVE  Append(channel, message) \in Seq(S) /\ <<>> \in Seq(S)
  OBVIOUS

\* The empty text, or channel, has every type.
LEMMA EmptyType == ASSUME NEW S PROVE <<>> \in Seq(S)
  OBVIOUS

\* The types hold when the UI starts.
LEMMA TypeInit == Init => TuiTypeOK
  <1> SUFFICES ASSUME Init PROVE TuiTypeOK
    OBVIOUS
  <1>1. UiTypeOK
    BY DEF Init, UiTypeOK, UiPlaces
  <1>2. PromptTypeOK
    BY DEF Init, PromptTypeOK
  <1>3. WorkerTypeOK
    BY DEF Init, WorkerTypeOK, WorkerStates, NoWorker, NoPreview, WorkerPlaces
  <1> QED BY <1>1, <1>2, <1>3 DEF TuiTypeOK

\* Where the thread goes next is a state of a thread.
LEMMA WorkerMoves ==
    ASSUME TuiTypeOK
    PROVE  /\ \A pc \in WorkerPlaces \ {"return"} : Goto(pc) \in WorkerStates
           /\ \A result \in {"ok", "err"} : Return(result) \in WorkerStates
           /\ NextIteration \in WorkerStates
           /\ (\A width \in Nat : [worker EXCEPT !.bytes = @ + width] \in WorkerStates)
           /\ NoWorker \in WorkerStates
           /\ [NoWorker EXCEPT !.pc = "begin"] \in WorkerStates
           /\ ThisRequest \in Nat \X Nat
  <1>1. worker \in WorkerStates /\ turn \in Nat
    BY DEF TuiTypeOK, WorkerTypeOK, UiTypeOK
  <1>2. \A pc \in WorkerPlaces \ {"return"} : Goto(pc) \in WorkerStates
    BY <1>1 DEF WorkerStates, Goto
  <1>3. \A result \in {"ok", "err"} : Return(result) \in WorkerStates
    BY <1>1 DEF WorkerStates, Return, WorkerPlaces
  <1>4. NextIteration \in WorkerStates
    <2>1. NextIteration = [pc |-> "loop", iteration |-> worker.iteration + 1,
                           bytes |-> worker.bytes, result |-> worker.result]
      <3>1. Goto("loop") = [pc |-> "loop", iteration |-> worker.iteration,
                            bytes |-> worker.bytes, result |-> worker.result]
        BY <1>1 DEF WorkerStates, Goto
      <3> QED BY <3>1 DEF NextIteration
    <2> QED BY <1>1, <2>1 DEF WorkerStates, WorkerPlaces
  <1>5. (\A width \in Nat : [worker EXCEPT !.bytes = @ + width] \in WorkerStates)
    BY <1>1 DEF WorkerStates
  <1>6. NoWorker \in WorkerStates /\ [NoWorker EXCEPT !.pc = "begin"] \in WorkerStates
    BY DEF WorkerStates, NoWorker, WorkerPlaces
  <1>7. ThisRequest \in Nat \X Nat
    BY <1>1 DEF WorkerStates, ThisRequest
  <1> QED BY <1>2, <1>3, <1>4, <1>5, <1>6, <1>7

\* What these moves do to its fields.
LEMMA MoveFields ==
    ASSUME TuiTypeOK
    PROVE  /\ \A pc : /\ Goto(pc).pc = pc /\ Goto(pc).iteration = worker.iteration
                      /\ Goto(pc).bytes = worker.bytes
           /\ \A result : Return(result).pc = "return" /\ Return(result).result = result
           /\ NextIteration.pc = "loop" /\ NextIteration.iteration = worker.iteration + 1
           /\ NoWorker.pc = "none"
  <1>1. worker \in WorkerStates
    BY DEF TuiTypeOK, WorkerTypeOK
  <1>2. \A pc : /\ Goto(pc).pc = pc /\ Goto(pc).iteration = worker.iteration
                /\ Goto(pc).bytes = worker.bytes
    BY <1>1 DEF WorkerStates, Goto
  <1>3. \A result : Return(result).pc = "return" /\ Return(result).result = result
    BY <1>1 DEF WorkerStates, Return
  <1>4. NextIteration.pc = "loop" /\ NextIteration.iteration = worker.iteration + 1
    <2>1. Goto("loop") = [pc |-> "loop", iteration |-> worker.iteration,
                          bytes |-> worker.bytes, result |-> worker.result]
      BY <1>1 DEF WorkerStates, Goto
    <2> QED BY <2>1 DEF NextIteration
  <1>5. NoWorker.pc = "none"
    BY DEF NoWorker
  <1> QED BY <1>2, <1>3, <1>4, <1>5

\* The model streams a character.
Streaming == \E width \in 1..CharBytes : TextDelta(width)

\* The thread of the turn and the other holders of the provider write nothing that
\* the UI's thread owns.
LEMMA WorkerLeavesUi ==
    ASSUME WorkerStep \/ Panic \/ \E o \in Others : OtherAsks(o)
    PROVE  UNCHANGED uiOwned
  BY Zenon DEF WorkerStep, Begin, Request, Started, TextDelta, Finished, Respond, Complete,
     CallTool, AskForCall, Answered, Fail, CancelTurn, SendResult, Panic, OtherAsks, Publish, Quiet

\* A step of a turn's thread keeps the types.
LEMMA WorkerTypeStep ==
    ASSUME TuiTypeOK, WorkerStep \/ Panic \/ \E o \in Others : OtherAsks(o)
    PROVE  TuiTypeOK'
  <1>1. UNCHANGED uiOwned
    BY WorkerLeavesUi
  <1>2. UiTypeOK' /\ UNCHANGED <<current_approval, shown, queued_approvals, ui>>
    BY <1>1 DEF TuiTypeOK, UiTypeOK, uiOwned, turnView, prompts
  <1> USE WorkerMoves
  <1>3. ASSUME NEW kind \in Kinds, NEW STATE next, next \in WorkerStates, Publish(kind, next)
        PROVE  TuiTypeOK'
    <2>1. PromptTypeOK'
      BY <1>2, <1>3 DEF Publish, TuiTypeOK, PromptTypeOK
    <2>2. worker' \in WorkerStates
      BY <1>3 DEF Publish
    <2>3. [kind |-> kind, turn |-> turn, iteration |-> worker.iteration] \in Events
      BY DEF TuiTypeOK, UiTypeOK, WorkerTypeOK, WorkerStates, Events
    <2>4. events' \in Seq(Events)
      <3>1. events \in Seq(Events)
        BY DEF TuiTypeOK, WorkerTypeOK
      <3>2. \/ events' = <<>> \/ events' = events
            \/ events' = Append(events, [kind |-> kind, turn |-> turn,
                                         iteration |-> worker.iteration])
        BY <1>3 DEF Publish
      <3> QED BY <2>3, <3>1, <3>2, AppendType
    <2>5. UNCHANGED <<results, preview, outcome>>
      BY <1>3 DEF Publish, buffer
    <2> QED BY <1>2, <2>1, <2>2, <2>4, <2>5 DEF TuiTypeOK, WorkerTypeOK
  <1>4. ASSUME NEW STATE next, next \in WorkerStates, Quiet(next), UNCHANGED <<approvals, answer>>,
               preview' \in [request : Nat \X Nat, text : Seq(Bytes)],
               results' \in Seq({"ok", "err"}), results' = <<>> => results = <<>>,
               outcome' \in {"none", "ok", "err"}
        PROVE  TuiTypeOK'
    BY <1>2, <1>4 DEF Quiet, TuiTypeOK, PromptTypeOK, WorkerTypeOK, WorkerStates
  <1>5. ASSUME NEW r \in Requesters, SendPrompt(r)
        PROVE  PromptTypeOK'
    <2>1. answer' \in [Requesters -> {"idle", "waiting", "approved", "denied", "dropped"}]
      BY <1>5 DEF SendPrompt, TuiTypeOK, PromptTypeOK
    <2>2. approvals' \in Seq(Requesters)
      <3>1. approvals' = approvals \/ approvals' = Append(approvals, r)
        BY <1>5 DEF SendPrompt
      <3>2. approvals \in Seq(Requesters)
        BY DEF TuiTypeOK, PromptTypeOK
      <3> QED BY <3>1, <3>2, AppendType
    <2> QED BY <1>2, <2>1, <2>2 DEF TuiTypeOK, PromptTypeOK
  <1>6. CASE Begin
    BY <1>3, <1>6 DEF Begin, Kinds, WorkerPlaces
  <1>7. CASE Request
    BY <1>3, <1>7 DEF Request, Kinds, WorkerPlaces
  <1>8. CASE Started
    BY <1>4, <1>8 DEF Started, TuiTypeOK, WorkerTypeOK, WorkerPlaces
  <1>9. CASE Streaming
    <2>1. PICK width \in 1..CharBytes : TextDelta(width)
      BY <1>9 DEF Streaming
    <2>2. turn \in Nat /\ worker.iteration \in Nat /\ worker.bytes \in Nat /\ width \in Nat
      BY TuiAssumption DEF TuiTypeOK, UiTypeOK, WorkerTypeOK, WorkerStates
    <2>3. Join(Character(width)) \in Seq(Bytes)
      <3>1. preview.text \in Seq(Bytes) /\ <<>> \in Seq(Bytes)
        BY DEF TuiTypeOK, WorkerTypeOK
      <3>2. Character(width) \in Seq(Bytes)
        BY <2>2, CharacterFacts
      <3>3. \A text \in Seq(Bytes) : text \o Character(width) \in Seq(Bytes)
        BY <3>2
      <3> QED BY <3>1, <3>3, BoundedFacts DEF Join
    <2>4. preview' \in [request : Nat \X Nat, text : Seq(Bytes)]
      BY <2>1, <2>3 DEF TextDelta
    <2>5. [worker EXCEPT !.bytes = @ + width] \in WorkerStates
      BY <2>2
    <2> QED BY <1>4, <2>1, <2>4, <2>5 DEF TextDelta, TuiTypeOK, WorkerTypeOK
  <1>10. CASE Finished
    BY <1>4, <1>10 DEF Finished, TuiTypeOK, WorkerTypeOK, WorkerPlaces
  <1>11. CASE Respond
    BY <1>3, <1>11 DEF Respond, Kinds, WorkerPlaces
  <1>12. CASE Complete
    BY <1>3, <1>12 DEF Complete, Kinds, Terminal
  <1>13. CASE CallTool
    BY <1>4, <1>13 DEF CallTool, buffer, TuiTypeOK, WorkerTypeOK
  <1>14. CASE AskForCall
    <2>1. PromptTypeOK'
      BY <1>5, <1>14 DEF AskForCall, Requesters
    <2> QED BY <1>2, <1>14, <2>1 DEF AskForCall, Quiet, buffer, TuiTypeOK, WorkerTypeOK,
            WorkerStates, WorkerPlaces
  <1>15. CASE Answered
    <2>1. PromptTypeOK'
      BY <1>2, <1>15 DEF Answered, TuiTypeOK, PromptTypeOK
    <2> QED BY <1>2, <1>15, <2>1 DEF Answered, Quiet, buffer, TuiTypeOK, WorkerTypeOK,
            WorkerStates
  <1>16. CASE Fail
    BY <1>3, <1>16 DEF Fail, Kinds, Terminal
  <1>17. CASE CancelTurn
    BY <1>3, <1>17 DEF CancelTurn, Kinds, Terminal
  <1>18. CASE SendResult
    <2>1. worker.result \in {"ok", "err"}
      BY <1>18 DEF SendResult, At, TuiTypeOK, WorkerTypeOK, WorkerStates
    <2>2. results' \in Seq({"ok", "err"}) /\ results' # <<>>
      BY <1>18, <2>1 DEF SendResult, TuiTypeOK, WorkerTypeOK
    <2> QED BY <1>4, <1>18, <2>1, <2>2 DEF SendResult, buffer, TuiTypeOK, WorkerTypeOK
  <1>19. CASE Panic
    BY <1>4, <1>19 DEF Panic, buffer, TuiTypeOK, WorkerTypeOK
  <1>20. ASSUME NEW o \in Others, OtherAsks(o)
         PROVE  TuiTypeOK'
    <2>1. PromptTypeOK'
      BY <1>5, <1>20 DEF OtherAsks, Requesters
    <2> QED BY <1>2, <1>20, <2>1 DEF OtherAsks, engine, buffer, TuiTypeOK, WorkerTypeOK
  <1> QED BY <1>6, <1>7, <1>8, <1>9, <1>10, <1>11, <1>12, <1>13, <1>14, <1>15, <1>16, <1>17,
             <1>18, <1>19, <1>20 DEF WorkerStep, Streaming

\* Taking the first of a channel keeps its type.
LEMMA TakeType ==
    ASSUME NEW S, NEW channel \in Seq(S), channel # <<>>
    PROVE  /\ Head(channel) \in S /\ Tail(channel) \in Seq(S)
           /\ Len(channel) >= 1 /\ Head(channel) = channel[1]
           /\ Len(Tail(channel)) = Len(channel) - 1
           /\ \A i \in 1..(Len(channel) - 1) : Tail(channel)[i] = channel[i + 1]
           /\ Tail(channel) = <<>> <=> Len(channel) = 1
  <1>1. Len(channel) \in Nat /\ Len(channel) # 0
    OBVIOUS
  <1>2. Tail(channel) \in Seq(S) /\ Len(Tail(channel)) = Len(channel) - 1
    OBVIOUS
  <1>3. Head(channel) = channel[1] /\ channel[1] \in S
    BY <1>1
  <1>4. \A i \in 1..(Len(channel) - 1) : Tail(channel)[i] = channel[i + 1]
    OBVIOUS
  <1>5. Tail(channel) = <<>> <=> Len(channel) = 1
    BY <1>1, <1>2
  <1> QED BY <1>1, <1>2, <1>3, <1>4, <1>5

UiStep ==
    \/ DrainEvents \/ EventsDrained \/ DrainProgress \/ DrainApprovals \/ ApprovalsDrained
    \/ NoResult \/ TryRecv \/ FinishTurn \/ NoKey \/ WindDown \/ Leave \/ TerminalError
    \/ AnswerPrompt \/ Cancel \/ StartTurn \/ Quit

\* A step of the UI's thread keeps the types.
LEMMA UiTypeStep ==
    ASSUME TuiTypeOK, UiStep
    PROVE  TuiTypeOK'
  <1> DEFINE Answers == {"idle", "waiting", "approved", "denied", "dropped"}
  <1>1. ASSUME PromptTypeOK', UNCHANGED <<worker, events, results, outcome>>,
               preview' = preview \/ preview' = NoPreview,
               ui' = "finish" => ui = "finish" \/ results # <<>>, UiTypeOK'
        PROVE  TuiTypeOK'
    <2>1. preview' \in [request : Nat \X Nat, text : Seq(Bytes)]
      <3>1. NoPreview \in [request : Nat \X Nat, text : Seq(Bytes)]
        BY DEF NoPreview
      <3> QED BY <1>1, <3>1 DEF TuiTypeOK, WorkerTypeOK
    <2> QED BY <1>1, <2>1 DEF TuiTypeOK, WorkerTypeOK
  <1>2. ASSUME UNCHANGED <<current_approval, queued_approvals, approvals, answer>>,
               shown' \in {shown, current_approval}
        PROVE  PromptTypeOK'
    BY <1>2 DEF TuiTypeOK, PromptTypeOK
  <1>3. ASSUME NEW unread, DenyPending(unread), shown' \in {shown, None},
               approvals' = approvals \/ approvals' = <<>>
        PROVE  PromptTypeOK'
    <2>1. answer' \in [Requesters -> Answers]
      BY <1>3 DEF DenyPending, TuiTypeOK, PromptTypeOK
    <2>2. approvals' \in Seq(Requesters) /\ queued_approvals' \in Seq(Requesters)
      BY <1>3, EmptyType DEF DenyPending, TuiTypeOK, PromptTypeOK
    <2>3. current_approval' \in Requesters \cup {None} /\ shown' \in Requesters \cup {None}
      BY <1>3 DEF DenyPending, TuiTypeOK, PromptTypeOK
    <2> QED BY <2>1, <2>2, <2>3 DEF PromptTypeOK
  <1>4. ASSUME SetToken, ui' \in UiPlaces, draft' = draft \/ draft' = <<>>,
               UNCHANGED <<cancellation, turnView, turn>>
        PROVE  UiTypeOK'
    <2>1. cancelled' \subseteq Nat
      BY <1>4 DEF SetToken, TuiTypeOK, UiTypeOK
    <2>2. draft' \in Seq(Bytes)
      BY <1>4, EmptyType DEF TuiTypeOK, UiTypeOK
    <2> QED BY <1>4, <2>1, <2>2 DEF turnView, TuiTypeOK, UiTypeOK
  <1>5. CASE DrainEvents
    <2>1. events # <<>> /\ events' = Tail(events)
      BY <1>5 DEF DrainEvents, HandleEvent
    <2>2. Head(events) \in Events /\ Tail(events) \in Seq(Events)
      BY <2>1, TakeType DEF TuiTypeOK, WorkerTypeOK
    <2>3. current_turn' \in Nat /\ iteration' \in Nat /\ told' \in Nat
      BY <1>5, <2>2 DEF DrainEvents, HandleEvent, Events, Count, TuiTypeOK, UiTypeOK
    <2>4. UiTypeOK'
      BY <1>5, <2>3 DEF DrainEvents, HandleEvent, TuiTypeOK, UiTypeOK
    <2>5. PromptTypeOK'
      BY <1>2, <1>5 DEF DrainEvents, HandleEvent, prompts
    <2> QED BY <1>5, <2>1, <2>2, <2>4, <2>5
            DEF DrainEvents, HandleEvent, engine, buffer, TuiTypeOK, WorkerTypeOK
  <1>6. CASE EventsDrained \/ ApprovalsDrained
    BY <1>1, <1>2, <1>6 DEF EventsDrained, ApprovalsDrained, Drained, turnView, prompts, channels,
       buffer, engine, UiPlaces, TuiTypeOK, UiTypeOK
  <1>7. CASE DrainProgress
    <2>1. draft' \in Seq(Bytes)
      <3>1. draft \in Seq(Bytes) /\ preview.text \in Seq(Bytes)
        BY DEF TuiTypeOK, UiTypeOK, WorkerTypeOK
      <3>2. draft \o preview.text \in Seq(Bytes)
        BY <3>1
      <3>3. draft' = draft \/ draft' = Bounded(draft \o preview.text)
        BY <1>7 DEF DrainProgress
      <3> QED BY <3>1, <3>2, <3>3, BoundedFacts
    <2>2. UiTypeOK'
      BY <1>7, <2>1 DEF DrainProgress, turnView, UiPlaces, TuiTypeOK, UiTypeOK
    <2> QED BY <1>1, <1>2, <1>7, <2>2 DEF DrainProgress, prompts, channels, engine
  <1>8. CASE DrainApprovals
    <2>1. approvals # <<>> /\ approvals' = Tail(approvals) /\ shown' = shown
      BY <1>8 DEF DrainApprovals, TakePrompt
    <2>2. Head(approvals) \in Requesters /\ Tail(approvals) \in Seq(Requesters)
      BY <2>1, TakeType DEF TuiTypeOK, PromptTypeOK
    <2>3. answer' \in [Requesters -> Answers]
      BY <1>8, <2>2 DEF DrainApprovals, TakePrompt, TuiTypeOK, PromptTypeOK
    <2>4. current_approval' \in Requesters \cup {None}
      BY <1>8, <2>2 DEF DrainApprovals, TakePrompt, prompts, TuiTypeOK, PromptTypeOK
    <2>5. queued_approvals' \in Seq(Requesters)
      <3>1. \/ queued_approvals' = queued_approvals
            \/ queued_approvals' = Append(queued_approvals, Head(approvals))
        BY <1>8 DEF DrainApprovals, TakePrompt, prompts
      <3>2. queued_approvals \in Seq(Requesters)
        BY DEF TuiTypeOK, PromptTypeOK
      <3> QED BY <2>2, <3>1, <3>2, AppendType
    <2>6. PromptTypeOK'
      BY <2>1, <2>2, <2>3, <2>4, <2>5 DEF TuiTypeOK, PromptTypeOK
    <2>7. UiTypeOK'
      BY <1>8 DEF DrainApprovals, TakePrompt, turnView, TuiTypeOK, UiTypeOK
    <2> QED BY <1>1, <1>8, <2>6, <2>7 DEF DrainApprovals, TakePrompt, engine, buffer
  <1>9. CASE NoResult
    <2>1. UiTypeOK'
      BY <1>9 DEF NoResult, Render, turnView, UiPlaces, TuiTypeOK, UiTypeOK
    <2> QED BY <1>1, <1>2, <1>9, <2>1 DEF NoResult, Render, prompts, channels, engine, buffer
  <1>10. CASE TryRecv
    <2>1. UiTypeOK'
      BY <1>10 DEF TryRecv, turnView, UiPlaces, TuiTypeOK, UiTypeOK
    <2> QED BY <1>1, <1>2, <1>10, <2>1 DEF TryRecv, prompts, channels, engine, buffer
  <1>11. CASE FinishTurn
    <2>1. UiTypeOK'
      BY <1>11 DEF FinishTurn, Finish, Render, Count, UiPlaces, TuiTypeOK, UiTypeOK
    <2>2. PromptTypeOK'
      BY <1>2, <1>11 DEF FinishTurn, Finish, Render, prompts
    <2>3. results' \in Seq({"ok", "err"})
      BY <1>11 DEF FinishTurn, Finish, TuiTypeOK, WorkerTypeOK
    <2> QED BY <1>11, <2>1, <2>2, <2>3 DEF FinishTurn, Finish, Render, buffer, engine,
            TuiTypeOK, WorkerTypeOK
  <1>12. CASE NoKey
    <2>1. UiTypeOK'
      BY <1>12 DEF NoKey, turnView, UiPlaces, TuiTypeOK, UiTypeOK
    <2> QED BY <1>1, <1>2, <1>12, <2>1 DEF NoKey, prompts, channels, engine, buffer
  <1>13. CASE WindDown
    <2>1. UiTypeOK'
      BY <1>13 DEF WindDown, turnView, UiPlaces, TuiTypeOK, UiTypeOK
    <2>2. answer' \in [Requesters -> Answers]
      BY <1>13 DEF WindDown, TuiTypeOK, PromptTypeOK
    <2>3. PromptTypeOK'
      BY <1>13, <2>2 DEF WindDown, prompts, TuiTypeOK, PromptTypeOK
    <2> QED BY <1>1, <1>13, <2>1, <2>3 DEF WindDown, engine, buffer
  <1>14. CASE Leave \/ TerminalError
    <2>1. UiTypeOK'
      BY <1>4, <1>14 DEF Leave, TerminalError, LeaveRun, UiPlaces
    <2>2. PromptTypeOK'
      BY <1>3, <1>14 DEF Leave, TerminalError, LeaveRun
    <2> QED BY <1>14, <2>1, <2>2, EmptyType
            DEF Leave, TerminalError, LeaveRun, engine, buffer, TuiTypeOK, WorkerTypeOK
  <1>15. CASE AnswerPrompt
    <2>1. UiTypeOK'
      BY <1>15 DEF AnswerPrompt, Key, turnView, UiPlaces, TuiTypeOK, UiTypeOK
    <2>2. PICK decision \in {"approved", "denied"} : Resolve(decision)
      BY <1>15 DEF AnswerPrompt
    <2>3. answer' \in [Requesters -> Answers]
      BY <2>2 DEF Resolve, TuiTypeOK, PromptTypeOK
    <2>4. /\ current_approval' \in Requesters \cup {None}
          /\ queued_approvals' \in Seq(Requesters)
      <3>1. CASE queued_approvals = <<>>
        BY <2>2, <3>1, EmptyType DEF Resolve, TuiTypeOK, PromptTypeOK
      <3>2. CASE queued_approvals # <<>>
        <4>1. queued_approvals \in Seq(Requesters)
          BY DEF TuiTypeOK, PromptTypeOK
        <4>2. Head(queued_approvals) \in Requesters /\ Tail(queued_approvals) \in Seq(Requesters)
          BY <3>2, <4>1, TakeType
        <4> QED BY <2>2, <3>2, <4>2 DEF Resolve
      <3> QED BY <3>1, <3>2
    <2>5. PromptTypeOK'
      BY <1>15, <2>3, <2>4 DEF AnswerPrompt, channels, TuiTypeOK, PromptTypeOK
    <2> QED BY <1>1, <1>15, <2>1, <2>5 DEF AnswerPrompt, Key, channels, engine, buffer
  <1>16. CASE Cancel
    <2>1. UiTypeOK'
      BY <1>4, <1>16 DEF Cancel, CancelRunning, Key, UiPlaces
    <2>2. PromptTypeOK'
      BY <1>3, <1>16 DEF Cancel, CancelRunning, channels
    <2> QED BY <1>1, <1>16, <2>1, <2>2 DEF Cancel, CancelRunning, Key, channels, engine, buffer
  <1>17. CASE StartTurn
    <2>1. UiTypeOK'
      BY <1>17 DEF StartTurn, Key, UiPlaces, TuiTypeOK, UiTypeOK
    <2>2. PromptTypeOK'
      BY <1>2, <1>17 DEF StartTurn, prompts, channels
    <2> QED BY <1>17, <2>1, <2>2, WorkerMoves
            DEF StartTurn, Key, channels, buffer, TuiTypeOK, WorkerTypeOK
  <1>18. CASE Quit
    <2>1. UiTypeOK'
      BY <1>4, <1>18 DEF Quit, UiPlaces
    <2>2. PromptTypeOK'
      BY <1>3, <1>18 DEF Quit, channels
    <2> QED BY <1>1, <1>18, <2>1, <2>2 DEF Quit, channels, engine, buffer
  <1> QED BY <1>5, <1>6, <1>7, <1>8, <1>9, <1>10, <1>11, <1>12, <1>13, <1>14, <1>15, <1>16,
             <1>17, <1>18 DEF UiStep

\* Every step is one of the UI's thread or one of the others'.
LEMMA Steps ==
    ASSUME Next
    PROVE  UiStep \/ WorkerStep \/ Panic \/ \E o \in Others : OtherAsks(o)
  BY DEF Next, LoopStep, KeyStep, UiStep

-----------------------------------------------------------------------------
(* A failure is told once.                                                 *)

toldVars == <<told, running, worker, results, events, outcome, terminal_reported>>

\* Steps that touch nothing of this, an exit apart.
LEMMA ToldUnchanged ==
    ASSUME ToldInv, UNCHANGED toldVars, ui = "exited" => ui' = "exited"
    PROVE  ToldInv'
  BY DEF ToldInv, toldVars, Ended, EndResult, Reported, IsTerminal

\* The thread goes on without an event.
LEMMA ToldMove ==
    ASSUME TuiTypeOK, ToldInv, ui' = ui, UNCHANGED <<told, running, results, events, outcome,
           terminal_reported>>, worker.pc \notin {"none", "return"}, worker'.pc # "return"
    PROVE  ToldInv'
  BY DEF ToldInv, Ended, EndResult, Reported, IsTerminal

\* An event is published, or the store fails; the thread goes on or returns.
LEMMA ToldPublish ==
    ASSUME TuiTypeOK, ToldInv, NEW kind \in Kinds, NEW STATE next, next \in WorkerStates, Publish(kind, next),
           worker.pc \notin {"none", "return"}, next.pc # "none",
           IF kind \in Terminal
           THEN /\ next.pc = "return"
                /\ next.result = IF kind = "TurnCompleted" THEN "ok" ELSE "err"
           ELSE next.pc # "return"
    PROVE  ToldInv'
  <1>1. UNCHANGED <<ui, told, running, terminal_reported, results, outcome>>
    BY DEF Publish, uiOwned, turnView
  <1>2. running /\ results = <<>> /\ outcome = "none" /\ ~Ended
    BY DEF ToldInv, Ended
  <1>3. CASE broken' = TRUE /\ worker' = Return("err") /\ UNCHANGED events
    <2>1. worker'.pc = "return" /\ worker'.result = "err"
      BY <1>3 DEF Return, TuiTypeOK, WorkerTypeOK, WorkerStates
    <2>2. ui # "exited" => /\ told = 0 /\ ~terminal_reported
                           /\ \A i \in DOMAIN events : ~IsTerminal(i)
      BY <1>2 DEF ToldInv
    <2>3. Ended' /\ EndResult' = "err"
      BY <2>1 DEF Ended, EndResult
    <2>4. ui # "exited" => Reported(EndResult)'
      BY <1>1, <1>3, <2>2, <2>3 DEF Reported, IsTerminal
    <2> QED BY <1>1, <1>2, <1>3, <2>1, <2>3, <2>4 DEF ToldInv
  <1>4. CASE ui = "exited" /\ worker' = next
    BY <1>1, <1>2, <1>4 DEF ToldInv
  <1>5. CASE /\ ui # "exited" /\ worker' = next
             /\ events' = Append(events, [kind |-> kind, turn |-> turn,
                                          iteration |-> worker.iteration])
    <2>1. events \in Seq(Events)
      BY DEF TuiTypeOK, WorkerTypeOK
    <2>2. /\ Len(events') = Len(events) + 1 /\ Len(events) \in Nat
          /\ \A i \in 1..Len(events) : events'[i] = events[i]
          /\ events'[Len(events) + 1].kind = kind
          /\ DOMAIN events' = 1..(Len(events) + 1) /\ DOMAIN events = 1..Len(events)
      BY <1>5, <2>1
    <2>3. told = 0 /\ ~terminal_reported /\ \A i \in DOMAIN events : ~IsTerminal(i)
      BY <1>2, <1>5 DEF ToldInv
    <2>4. \A i \in DOMAIN events' : IsTerminal(i)' => i = Len(events') /\ kind \in Terminal
      BY <2>2, <2>3 DEF IsTerminal
    <2>5. CASE kind \in Terminal
      <3>1. Ended' /\ EndResult' = next.result
        BY <1>5, <2>5 DEF Ended, EndResult
      <3>2. IsTerminal(Len(events))' /\ Len(events') \in DOMAIN events'
        BY <2>2, <2>5 DEF IsTerminal
      <3>3. Reported(EndResult)'
        <4>1. \A i \in DOMAIN events' : IsTerminal(i)' =>
                 /\ i = Len(events') /\ ~terminal_reported' /\ told' = 0
                 /\ EndResult' = IF events'[i].kind = "TurnCompleted" THEN "ok" ELSE "err"
          BY <1>1, <2>2, <2>3, <2>4, <2>5, <3>1
        <4> QED BY <3>2, <4>1 DEF Reported
      <3> QED BY <1>1, <1>2, <1>5, <2>3, <3>1, <3>3 DEF ToldInv
    <2>6. CASE kind \notin Terminal
      <3>1. ~Ended'
        BY <1>1, <1>2, <1>5, <2>6 DEF Ended
      <3> QED BY <1>1, <1>2, <1>5, <2>3, <2>4, <2>6, <3>1 DEF ToldInv
    <2> QED BY <2>5, <2>6
  <1> QED BY <1>3, <1>4, <1>5 DEF Publish

\* The result is sent.
LEMMA ToldSend ==
    ASSUME TuiTypeOK, ToldInv, SendResult
    PROVE  ToldInv'
  <1>1. /\ UNCHANGED <<ui, told, running, terminal_reported, events>>
        /\ worker.pc = "return" /\ worker' = NoWorker
        /\ outcome' = worker.result
    BY DEF SendResult, Quiet, At, uiOwned, turnView
  <1>2. running /\ results = <<>>
    BY <1>1 DEF ToldInv
  <1>3. results' = <<worker.result>>
    BY <1>2 DEF SendResult
  <1>4. worker'.pc = "none"
    BY <1>1 DEF NoWorker
  <1>5. Ended /\ EndResult = worker.result /\ Ended' /\ EndResult' = worker.result
    BY <1>1, <1>3, <1>4 DEF Ended, EndResult
  <1>6. ui # "exited" => Reported(EndResult)
    BY <1>2, <1>5 DEF ToldInv
  <1>7. ui # "exited" => Reported(EndResult)'
    BY <1>1, <1>5, <1>6 DEF Reported, IsTerminal
  <1> QED BY <1>1, <1>2, <1>3, <1>4, <1>5, <1>7 DEF ToldInv

\* drain_events takes an event.
LEMMA ToldHandle ==
    ASSUME TuiTypeOK, ToldInv, DrainEvents
    PROVE  ToldInv'
  <1> DEFINE e == Head(events)
  <1>1. /\ events # <<>> /\ events' = Tail(events) /\ ui # "exited"
        /\ UNCHANGED <<ui, running, worker, results, outcome>>
        /\ terminal_reported' = (terminal_reported \/ e.kind \in Terminal)
        /\ told' = told + Count(e.kind \in {"TurnFailed", "TurnCancelled"})
    BY DEF DrainEvents, HandleEvent, engine
  <1>2. running
    BY <1>1 DEF ToldInv
  <1>3. /\ e = events[1] /\ Len(events) \in Nat /\ Len(events) >= 1
        /\ Len(events') = Len(events) - 1
        /\ \A i \in 1..(Len(events) - 1) : events'[i] = events[i + 1]
        /\ DOMAIN events = 1..Len(events) /\ DOMAIN events' = 1..(Len(events) - 1)
    BY <1>1, TakeType DEF TuiTypeOK, WorkerTypeOK
  <1>4. Ended' = Ended /\ EndResult' = EndResult
    BY <1>1 DEF Ended, EndResult
  <1>5. e.kind \in Kinds /\ told \in Nat
    <2>1. events \in Seq(Events) /\ told \in Nat
      BY DEF TuiTypeOK, UiTypeOK, WorkerTypeOK
    <2>2. Head(events) \in Events
      BY <1>1, <2>1, TakeType
    <2> QED BY <2>1, <2>2 DEF Events
  <1> HIDE DEF e
  <1>6. \A i \in DOMAIN events' : i + 1 \in DOMAIN events /\ (IsTerminal(i)' <=> IsTerminal(i + 1))
    BY <1>3 DEF IsTerminal
  <1>7. CASE ~Ended
    <2>1. e.kind \notin Terminal
      BY <1>1, <1>2, <1>3, <1>7 DEF ToldInv, IsTerminal
    <2>2. told' = told
      BY <1>1, <1>5, <2>1 DEF Count, Terminal
    <2>3. terminal_reported' <=> terminal_reported
      BY <1>1, <2>1
    <2> QED BY <1>1, <1>2, <1>4, <1>6, <1>7, <2>2, <2>3 DEF ToldInv
  <1>8. CASE Ended /\ e.kind \notin Terminal
    <2>1. told' = told
      BY <1>1, <1>5, <1>8 DEF Count, Terminal
    <2>2. terminal_reported' <=> terminal_reported
      BY <1>1, <1>8
    <2>3. Reported(EndResult)
      BY <1>1, <1>2, <1>8 DEF ToldInv
    <2>4. (\A i \in DOMAIN events' : ~IsTerminal(i)') => \A i \in DOMAIN events : ~IsTerminal(i)
      <3>1. ~IsTerminal(1)
        BY <1>3, <1>8 DEF IsTerminal
      <3>2. \A i \in DOMAIN events : i = 1 \/ (i - 1 \in DOMAIN events' /\ i = (i - 1) + 1)
        BY <1>3
      <3> QED BY <1>6, <3>1, <3>2
    <2>5. \A i \in DOMAIN events' : IsTerminal(i)' =>
             /\ IsTerminal(i + 1) /\ i + 1 \in DOMAIN events
             /\ (i + 1 = Len(events) => i = Len(events'))
             /\ events'[i].kind = events[i + 1].kind
      BY <1>3, <1>6
    <2>6. Reported(EndResult)'
      BY <1>4, <2>1, <2>2, <2>3, <2>4, <2>5 DEF Reported
    <2> QED BY <1>1, <1>2, <1>4, <1>8, <2>1, <2>6 DEF ToldInv
  <1>9. CASE Ended /\ e.kind \in Terminal
    <2>1. Reported(EndResult)
      BY <1>1, <1>2, <1>9 DEF ToldInv
    <2>2. IsTerminal(1) /\ 1 \in DOMAIN events
      BY <1>3, <1>9 DEF IsTerminal
    <2>3. /\ Len(events) = 1 /\ ~terminal_reported /\ told = 0
          /\ EndResult = IF e.kind = "TurnCompleted" THEN "ok" ELSE "err"
      BY <1>3, <2>1, <2>2 DEF Reported
    <2>4. terminal_reported' = TRUE
      BY <1>1, <1>9
    <2>5. told' = Count(EndResult = "err")
      BY <1>1, <1>9, <2>3 DEF Count, Terminal
    <2>6. told' <= 1
      BY <2>5 DEF Count
    <2>7. DOMAIN events' = {}
      BY <1>3, <2>3
    <2>8. Reported(EndResult)'
      BY <1>4, <2>4, <2>5, <2>7 DEF Reported
    <2> QED BY <1>1, <1>2, <1>4, <1>9, <2>6, <2>8 DEF ToldInv
  <1> QED BY <1>7, <1>8, <1>9

\* finish_turn: the events are drained.
LEMMA ToldFinish ==
    ASSUME TuiTypeOK, ToldInv, FinishTurn
    PROVE  ToldInv'
  <1>1. /\ ui = "finish" /\ ui' = "key" /\ events = <<>> /\ events' = <<>>
        /\ told' = told + Count(~terminal_reported /\ Head(results) = "err")
        /\ results' = Tail(results) /\ running' = FALSE
        /\ UNCHANGED <<worker, outcome, terminal_reported>>
    BY DEF FinishTurn, Finish, Render, engine
  <1>2. results # <<>> /\ results = <<outcome>> /\ running /\ worker.pc = "none"
    BY <1>1 DEF ToldInv, TuiTypeOK, WorkerTypeOK
  <1>3. Head(results) = outcome /\ results' = <<>>
    BY <1>1, <1>2
  <1>4. Reported(outcome)
    BY <1>1, <1>2 DEF ToldInv, Ended, EndResult
  <1>5. IF terminal_reported THEN told = Count(outcome = "err") ELSE told = 0 /\ outcome = "err"
    BY <1>1, <1>4 DEF Reported
  <1>6. told' = Count(outcome = "err") /\ told' <= 1
    BY <1>1, <1>3, <1>5 DEF Count
  <1> QED BY <1>1, <1>2, <1>3, <1>6 DEF ToldInv

\* Nothing has been told when the UI starts.
LEMMA ToldInit == Init => ToldInv
  BY DEF Init, ToldInv, NoWorker, Count

\* One step of any of the threads.
LEMMA ToldStep ==
    ASSUME TuiTypeOK, ToldInv, Next
    PROVE  ToldInv'
  <1> USE DEF toldVars, turnView, prompts, channels, buffer, engine
  <1>1. CASE DrainEvents
    BY <1>1, ToldHandle
  <1>2. CASE FinishTurn
    BY <1>2, ToldFinish
  <1>3. CASE StartTurn
    <2>1. ~running /\ worker'.pc = "begin" /\ running' = TRUE /\ told' = 0 /\ outcome' = "none"
          /\ terminal_reported' = FALSE /\ UNCHANGED <<events, results>>
      BY <1>3 DEF StartTurn, NoWorker
    <2>2. events = <<>> /\ results = <<>>
      BY <2>1 DEF ToldInv
    <2> QED BY <2>1, <2>2 DEF ToldInv, Ended
  <1>4. CASE Leave \/ TerminalError
    BY <1>4 DEF Leave, TerminalError, LeaveRun, ToldInv
  <1>5. CASE EventsDrained \/ ApprovalsDrained \/ NoResult \/ TryRecv \/ NoKey
    BY <1>5, ToldUnchanged
       DEF EventsDrained, ApprovalsDrained, Drained, NoResult, Render, TryRecv, NoKey
  <1>6. CASE DrainProgress \/ DrainApprovals \/ WindDown
    BY <1>6, ToldUnchanged DEF DrainProgress, DrainApprovals, TakePrompt, WindDown
  <1>7. CASE AnswerPrompt \/ Cancel \/ Quit
    BY <1>7, ToldUnchanged DEF AnswerPrompt, Key, Cancel, CancelRunning, Quit
  <1>8. CASE WorkerStep \/ Panic
    <2>1. UNCHANGED <<ui, told, running, terminal_reported>>
      BY <1>8, WorkerLeavesUi DEF uiOwned
    <2>2. ASSUME NEW pc \in WorkerPlaces \ {"none", "return"},
                 NEW kind \in {"TurnStarted", "ModelRequestStarted", "AssistantMessage"},
                 worker.pc \notin {"none", "return"}, Publish(kind, Goto(pc))
          PROVE  ToldInv'
      BY <2>2, ToldPublish, WorkerMoves, MoveFields DEF Kinds, Terminal
    <2>3. ASSUME NEW kind \in Terminal, worker.pc \notin {"none", "return"},
                 Publish(kind, Return(IF kind = "TurnCompleted" THEN "ok" ELSE "err"))
          PROVE  ToldInv'
      BY <2>3, ToldPublish, WorkerMoves, MoveFields DEF Kinds
    <2>4. CASE Begin \/ Request \/ Respond
      BY <2>2, <2>4 DEF Begin, Request, Respond, At, WorkerPlaces
    <2>5. CASE Complete \/ Fail \/ CancelTurn
      BY <2>3, <2>5 DEF Complete, Fail, CancelTurn, At, Terminal
    <2>7. CASE Started \/ Streaming \/ Finished
      BY <2>1, <2>7, ToldMove, MoveFields DEF Started, Streaming, TextDelta, Finished, Quiet, At, TuiTypeOK,
         WorkerTypeOK, WorkerStates
    <2>8. CASE CallTool \/ AskForCall \/ Answered \/ Panic
      BY <2>1, <2>8, ToldMove, MoveFields DEF CallTool, AskForCall, Answered, Panic, Quiet, At
    <2>6. CASE SendResult
      BY <2>6, ToldSend
    <2> QED BY <1>8, <2>4, <2>5, <2>6, <2>7, <2>8 DEF WorkerStep, Streaming
  <1>9. ASSUME NEW o \in Others, OtherAsks(o)
        PROVE  ToldInv'
    BY <1>9, ToldUnchanged DEF OtherAsks, uiOwned
  <1> QED BY <1>1, <1>2, <1>3, <1>4, <1>5, <1>6, <1>7, <1>8, <1>9, Steps DEF UiStep

-----------------------------------------------------------------------------
(* What the UI believes of the turn.                                       *)

turnVars == <<running, cancellation, turn, events, worker, results, current_turn, settled>>

\* Steps that touch nothing of this, a token and an exit apart.
LEMMA TurnUnchanged ==
    ASSUME TurnInv, UNCHANGED <<turnVars, broken>>, ui = "exited" => ui' = "exited",
           cancelled' = cancelled \/ SetToken
    PROVE  TurnInv'
  BY DEF TurnInv, turnVars, Ended, IsTerminal, SetToken

\* The thread goes on without an event.
LEMMA TurnMove ==
    ASSUME TurnInv, UNCHANGED uiOwned, UNCHANGED <<results, events, broken>>,
           worker.pc \notin {"none", "begin", "return"}, worker'.pc # "return"
    PROVE  TurnInv'
  <1>1. UNCHANGED <<ui, running, cancellation, turn, current_turn, settled, cancelled>>
    BY DEF uiOwned, turnView
  <1> QED BY <1>1 DEF TurnInv, Ended, IsTerminal

\* An event of the running turn is published; a terminal one is its last.
LEMMA TurnPublish ==
    ASSUME TuiTypeOK, ToldInv, TurnInv, NEW kind \in Kinds, NEW STATE next, Publish(kind, next),
           worker.pc \notin {"none", "return"}, worker.pc = "begin" <=> kind = "TurnStarted",
           next.pc # "none", next.pc = "return" <=> kind \in Terminal
    PROVE  TurnInv'
  <1>1. UNCHANGED <<ui, running, cancellation, turn, current_turn, settled, cancelled, results>>
    BY DEF Publish, uiOwned, turnView
  <1>2. running /\ results = <<>>
    BY DEF ToldInv
  <1>3. CASE broken' = TRUE /\ worker' = Return("err") /\ UNCHANGED events
    <2>1. worker'.pc = "return"
      BY <1>3, MoveFields
    <2> QED BY <1>1, <1>2, <1>3, <2>1 DEF TurnInv
  <1>4. CASE ui = "exited" /\ worker' = next /\ events' = <<>> /\ UNCHANGED broken
    BY <1>1, <1>2, <1>4 DEF TurnInv
  <1>5. CASE /\ ui # "exited" /\ worker' = next /\ UNCHANGED broken
             /\ events' = Append(events, [kind |-> kind, turn |-> turn,
                                          iteration |-> worker.iteration])
    <2>1. events \in Seq(Events)
      BY DEF TuiTypeOK, WorkerTypeOK
    <2>2. /\ Len(events') = Len(events) + 1 /\ Len(events) \in Nat
          /\ \A i \in 1..Len(events) : events'[i] = events[i]
          /\ events'[Len(events) + 1].kind = kind /\ events'[Len(events) + 1].turn = turn
          /\ DOMAIN events' = 1..(Len(events) + 1) /\ DOMAIN events = 1..Len(events)
          /\ events = <<>> <=> Len(events) = 0
          /\ events' # <<>>
      BY <1>5, <2>1
    <2>3. \A i \in DOMAIN events' : events'[i].turn = turn
      BY <2>2 DEF TurnInv
    <2>4. current_turn = turn \/ events'[1].kind = "TurnStarted"
      <3>1. CASE events = <<>>
        BY <1>5, <2>2, <3>1 DEF TurnInv
      <3>2. CASE events # <<>>
        BY <2>2, <3>2 DEF TurnInv
      <3> QED BY <3>1, <3>2
    <2>5. Ended' => IsTerminal(Len(events))'
      BY <1>1, <1>2, <1>5, <2>2 DEF Ended, IsTerminal
    <2> QED BY <1>1, <1>2, <1>5, <2>2, <2>3, <2>4, <2>5 DEF TurnInv
  <1> QED BY <1>3, <1>4, <1>5 DEF Publish

\* drain_events takes an event: those behind it keep their order.
LEMMA TurnHandle ==
    ASSUME TuiTypeOK, ToldInv, TurnInv, DrainEvents
    PROVE  TurnInv'
  <1> DEFINE e == Head(events)
  <1>1. /\ events # <<>> /\ events' = Tail(events) /\ ui # "exited"
        /\ UNCHANGED <<ui, running, cancellation, cancelled, turn, worker, results, broken>>
        /\ current_turn' = IF e.kind = "TurnStarted" THEN e.turn ELSE current_turn
        /\ settled' = (e.kind # "ModelRequestStarted")
    BY DEF DrainEvents, HandleEvent, engine
  <1>2. running
    BY <1>1 DEF ToldInv
  <1>3. /\ e = events[1] /\ Len(events) \in Nat /\ Len(events) >= 1
        /\ Len(events') = Len(events) - 1
        /\ \A i \in 1..(Len(events) - 1) : events'[i] = events[i + 1]
        /\ DOMAIN events = 1..Len(events) /\ DOMAIN events' = 1..(Len(events) - 1)
        /\ events' = <<>> <=> Len(events) = 1
    BY <1>1, TakeType DEF TuiTypeOK, WorkerTypeOK
  <1> HIDE DEF e
  <1>4. e.turn = turn /\ (current_turn = turn \/ e.kind = "TurnStarted")
    BY <1>1, <1>3 DEF TurnInv
  <1>5. current_turn' = turn
    BY <1>1, <1>4
  <1>6. \A i \in DOMAIN events' : events'[i].turn = turn
    BY <1>3 DEF TurnInv
  <1>7. ~broken /\ Ended' => IF events' = <<>> THEN settled' ELSE IsTerminal(Len(events))'
    <2> SUFFICES ASSUME ~broken, Ended'
                 PROVE  IF events' = <<>> THEN settled' ELSE IsTerminal(Len(events))'
      OBVIOUS
    <2>1. IsTerminal(Len(events))
      BY <1>1 DEF TurnInv, Ended
    <2>2. CASE events' = <<>>
      <3>1. e.kind \in Terminal
        BY <1>3, <2>1, <2>2 DEF IsTerminal
      <3> QED BY <1>1, <2>2, <3>1 DEF Terminal
    <2>3. CASE events' # <<>>
      <3>1. events'[Len(events')] = events[Len(events)]
        BY <1>3, <2>3
      <3> QED BY <2>1, <2>3, <3>1 DEF IsTerminal
    <2> QED BY <2>2, <2>3
  <1> QED BY <1>1, <1>2, <1>5, <1>6, <1>7 DEF TurnInv

\* No turn has run when the UI starts.
LEMMA TurnInit == Init => TurnInv
  BY DEF Init, TurnInv, NoWorker, Ended

\* One step of any of the threads keeps the order of a turn's events.
LEMMA TurnStepInv ==
    ASSUME TuiTypeOK, ToldInv, TurnInv, Next
    PROVE  TurnInv'
  <1> USE DEF turnVars, turnView, prompts, channels, buffer, engine
  <1>1. CASE DrainEvents
    BY <1>1, TurnHandle
  <1>2. CASE FinishTurn
    <2>1. /\ ui = "finish" /\ events = <<>> /\ events' = <<>>
          /\ running' = FALSE /\ cancellation' = 0 /\ results' = Tail(results)
          /\ UNCHANGED <<worker, turn, current_turn, settled, cancelled, broken>>
      BY <1>2 DEF FinishTurn, Finish
    <2>2. results # <<>> /\ results = <<outcome>> /\ worker.pc = "none"
      BY <2>1 DEF ToldInv, TuiTypeOK, WorkerTypeOK
    <2>3. ~broken => settled
      BY <2>1, <2>2 DEF TurnInv, Ended
    <2>4. results' = <<>>
      BY <2>1, <2>2
    <2> QED BY <2>1, <2>2, <2>3, <2>4 DEF TurnInv, Ended
  <1>3. CASE StartTurn
    <2>1. /\ ~running /\ worker'.pc = "begin" /\ running' = TRUE /\ turn' = turn + 1
          /\ cancellation' = turn + 1 /\ cancelled' = {}
          /\ UNCHANGED <<events, results, settled, broken>>
      BY <1>3 DEF StartTurn, NoWorker
    <2>2. events = <<>> /\ results = <<>>
      BY <2>1 DEF ToldInv
    <2>3. turn + 1 # 0
      BY DEF TuiTypeOK, UiTypeOK
    <2> QED BY <2>1, <2>2, <2>3 DEF TurnInv, Ended
  <1>4. CASE Leave \/ TerminalError
    BY <1>4 DEF Leave, TerminalError, LeaveRun, TurnInv, SetToken
  <1>5. CASE EventsDrained \/ ApprovalsDrained \/ NoResult \/ TryRecv \/ NoKey
    BY <1>5, TurnUnchanged
       DEF EventsDrained, ApprovalsDrained, Drained, NoResult, Render, TryRecv, NoKey
  <1>6. CASE DrainProgress \/ DrainApprovals \/ WindDown
    BY <1>6, TurnUnchanged DEF DrainProgress, DrainApprovals, TakePrompt, WindDown
  <1>7. CASE AnswerPrompt \/ Cancel \/ Quit
    BY <1>7, TurnUnchanged DEF AnswerPrompt, Key, Cancel, CancelRunning, Quit
  <1>8. CASE WorkerStep \/ Panic
    <2>1. UNCHANGED uiOwned
      BY <1>8, WorkerLeavesUi
    <2>2. ASSUME NEW pc \in WorkerPlaces \ {"none", "return"},
                 NEW kind \in {"TurnStarted", "ModelRequestStarted", "AssistantMessage"},
                 worker.pc \notin {"none", "return"},
                 worker.pc = "begin" <=> kind = "TurnStarted", Publish(kind, Goto(pc))
          PROVE  TurnInv'
      BY <2>2, TurnPublish, MoveFields DEF Kinds, Terminal
    <2>3. ASSUME NEW kind \in Terminal, NEW result,
                 worker.pc \notin {"none", "begin", "return"}, Publish(kind, Return(result))
          PROVE  TurnInv'
      BY <2>3, TurnPublish, MoveFields DEF Kinds, Terminal
    <2>4. CASE Begin \/ Request \/ Respond
      BY <2>2, <2>4 DEF Begin, Request, Respond, At, WorkerPlaces
    <2>5. CASE Complete \/ Fail \/ CancelTurn
      BY <2>3, <2>5 DEF Complete, Fail, CancelTurn, At, Terminal
    <2>6. CASE Started \/ Streaming \/ Finished
      BY <2>1, <2>6, TurnMove, MoveFields DEF Started, Streaming, TextDelta, Finished, Quiet, At, TuiTypeOK,
         WorkerTypeOK, WorkerStates
    <2>7. CASE CallTool \/ AskForCall \/ Answered \/ Panic
      BY <2>1, <2>7, TurnMove, MoveFields DEF CallTool, AskForCall, Answered, Panic, Quiet, At
    <2>8. CASE SendResult
      <3>1. /\ worker.pc = "return" /\ worker'.pc = "none" /\ UNCHANGED <<events, broken>>
            /\ UNCHANGED <<ui, running, cancellation, turn, current_turn, settled, cancelled>>
        BY <2>8 DEF SendResult, Quiet, At, uiOwned, NoWorker
      <3> QED BY <3>1 DEF TurnInv, Ended, IsTerminal
    <2> QED BY <1>8, <2>4, <2>5, <2>6, <2>7, <2>8 DEF WorkerStep, Streaming
  <1>9. ASSUME NEW o \in Others, OtherAsks(o)
        PROVE  TurnInv'
    BY <1>9, TurnUnchanged DEF OtherAsks, uiOwned
  <1> QED BY <1>1, <1>2, <1>3, <1>4, <1>5, <1>6, <1>7, <1>8, <1>9, Steps DEF UiStep

-----------------------------------------------------------------------------
(* What can be answered is on the screen.                                  *)

\* No approval is asked for when the UI starts.
LEMMA PromptInit == Init => PromptInv
  BY DEF Init, PromptInv

\* One step of any of the threads: a key is read under the prompt that is shown.
LEMMA PromptStep ==
    ASSUME TuiTypeOK, TurnInv, PromptInv, Next
    PROVE  PromptInv'
  <1> USE DEF turnView, prompts, channels, buffer, engine, InLoop
  <1>1. CASE DrainEvents \/ EventsDrained \/ ApprovalsDrained \/ NoResult \/ TryRecv \/ NoKey
    BY <1>1 DEF DrainEvents, HandleEvent, EventsDrained, ApprovalsDrained, Drained, NoResult, Render,
       TryRecv, NoKey, PromptInv
  <1>2. CASE DrainProgress \/ WindDown \/ Leave \/ TerminalError \/ Quit
    BY <1>2 DEF DrainProgress, WindDown, Leave, TerminalError, LeaveRun, Quit, PromptInv
  <1>3. CASE DrainApprovals
    BY <1>3 DEF DrainApprovals, TakePrompt, PromptInv
  <1>4. CASE FinishTurn
    BY <1>4 DEF FinishTurn, Finish, Render, PromptInv, TurnInv
  <1>5. CASE AnswerPrompt
    BY <1>5 DEF AnswerPrompt, Key, PromptInv
  <1>6. CASE Cancel
    BY <1>6 DEF Cancel, CancelRunning, Key, DenyPending, PromptInv
  <1>7. CASE StartTurn
    BY <1>7 DEF StartTurn, Key, PromptInv
  <1>8. CASE WorkerStep \/ Panic \/ \E o \in Others : OtherAsks(o)
    BY <1>8, WorkerLeavesUi DEF uiOwned, PromptInv
  <1> QED BY <1>1, <1>2, <1>3, <1>4, <1>5, <1>6, <1>7, <1>8, Steps DEF UiStep

-----------------------------------------------------------------------------
(* A draft is an unbroken part of one answer.                              *)

\* A text that goes on where another one ends.
LEMMA ConcatUnbroken ==
    ASSUME NEW one \in Seq(Bytes), NEW two \in Seq(Bytes), Unbroken(one), Unbroken(two),
           one # <<>>, two # <<>>,
           Follows(one[Len(one)], two[1])
    PROVE  Unbroken(one \o two)
  <1> DEFINE all == one \o two
  <1>1. /\ all \in Seq(Bytes) /\ Len(all) = Len(one) + Len(two)
        /\ \A i \in 1..Len(one) : all[i] = one[i]
        /\ \A i \in 1..Len(two) : all[Len(one) + i] = two[i]
        /\ Len(one) \in Nat /\ Len(two) \in Nat /\ Len(one) >= 1 /\ Len(two) >= 1
    OBVIOUS
  <1> HIDE DEF all
  <1> SUFFICES ASSUME NEW i \in 1..(Len(one) + Len(two) - 1)
               PROVE  Follows(all[i], all[i + 1])
    BY <1>1 DEF Unbroken, all
  <1>2. CASE i < Len(one)
    <2>1. i \in 1..(Len(one) - 1) /\ i \in 1..Len(one) /\ i + 1 \in 1..Len(one)
      BY <1>1, <1>2
    <2> QED BY <1>1, <2>1 DEF Unbroken
  <1>3. CASE i = Len(one)
    <2>1. all[i] = one[Len(one)] /\ all[i + 1] = two[1]
      BY <1>1, <1>3
    <2> QED BY <2>1
  <1>4. CASE i > Len(one)
    <2> DEFINE k == i - Len(one)
    <2>1. /\ k \in 1..(Len(two) - 1) /\ k \in 1..Len(two) /\ k + 1 \in 1..Len(two)
          /\ i = Len(one) + k /\ i + 1 = Len(one) + (k + 1)
      <3>1. Len(one) \in Nat /\ Len(two) \in Nat
        BY <1>1
      <3>2. ASSUME NEW m \in Nat, NEW n \in Nat, NEW x \in 1..(m + n - 1), x > m
            PROVE  /\ x - m \in 1..(n - 1) /\ x - m \in 1..n /\ (x - m) + 1 \in 1..n
                   /\ x = m + (x - m) /\ x + 1 = m + ((x - m) + 1)
        BY <3>2
      <3> QED BY <1>4, <3>1, <3>2
    <2> HIDE DEF k
    <2>2. all[i] = two[k] /\ all[i + 1] = two[k + 1]
      BY <1>1, <2>1
    <2> QED BY <2>1, <2>2 DEF Unbroken
  <1> QED BY <1>1, <1>2, <1>3, <1>4

\* A worker only ever goes on to later requests.
Advances(w, v) ==
    \/ v.pc \in {"none", "return"}
    \/ /\ v.iteration = w.iteration /\ w.pc \notin {"none", "return"}
       /\ w.pc \in {"begin", "loop", "request"} \/ v.pc \notin {"begin", "loop", "request"}
    \/ v.iteration = w.iteration + 1 /\ w.pc \in {"decide", "asking"}

\* Bytes already streamed are still streamed when one more is.
LEMMA StreamedKept ==
    ASSUME NEW text \in Seq(Bytes), NEW t \in Nat, NEW w \in WorkerStates, NEW v \in WorkerStates,
           Advances(w, v), Streamed(text, t, w)
    PROVE  Streamed(text, t, v)
  <1> SUFFICES ASSUME NEW i \in DOMAIN text, text[i][1] = t
               PROVE  /\ v.pc \in {"begin", "loop", "request"} => text[i][2] < v.iteration
                      /\ v.pc \in {"model", "answer", "decide", "asking"} =>
                            text[i][2] <= v.iteration
    BY DEF Streamed
  <1>1. text[i][2] \in Nat /\ w.iteration \in Nat /\ v.iteration \in Nat /\ v.pc \in WorkerPlaces
        /\ w.pc \in WorkerPlaces
    BY DEF Bytes, WorkerStates
  <1>2. /\ w.pc \in {"begin", "loop", "request"} => text[i][2] < w.iteration
        /\ w.pc \in {"model", "answer", "decide", "asking"} => text[i][2] <= w.iteration
    BY DEF Streamed
  <1> QED BY <1>1, <1>2 DEF Advances, WorkerPlaces

draftVars == <<draft, preview, worker, turn, current_turn, iteration, settled>>

\* Steps that touch nothing of this; a token may be set when the loop is left.
LEMMA DraftUnchanged ==
    ASSUME DraftInv, UNCHANGED draftVars,
           InLoop' => InLoop /\ UNCHANGED <<cancelled, cancellation>>
    PROVE  DraftInv'
  <1>1. TextInv'
    BY DEF DraftInv, TextInv, draftVars
  <1>2. OwnDraft'
    BY DEF DraftInv, OwnDraft, draftVars
  <1>3. NextByte'
    BY DEF DraftInv, NextByte, ThisRequest, draftVars
  <1>4. PreviewFollows'
    BY DEF DraftInv, PreviewFollows, draftVars
  <1> QED BY <1>1, <1>2, <1>3, <1>4 DEF DraftInv

\* Steps that clear the draft, of the same turn or of the next.
LEMMA DraftCleared ==
    ASSUME TuiTypeOK, DraftInv, draft' = <<>>, preview' = preview,
           \/ UNCHANGED <<turn, worker>>
           \/ turn' = turn + 1 /\ worker'.pc = "begin"
    PROVE  DraftInv'
  <1>0. DraftLimit \in Nat
    BY TuiAssumption
  <1>1. Len(draft') = 0 /\ DOMAIN draft' = {}
    OBVIOUS
  <1>2. Streamed(preview.text, turn', worker')
    <2>1. CASE UNCHANGED <<turn, worker>>
      BY <2>1 DEF DraftInv, TextInv
    <2>2. CASE turn' = turn + 1
      <3>1. preview.text \in Seq(Bytes) /\ turn \in Nat
        BY DEF TuiTypeOK, UiTypeOK, WorkerTypeOK
      <3>2. ASSUME NEW i \in DOMAIN preview.text
            PROVE  preview.text[i][1] \in Nat /\ preview.text[i][1] <= turn
        <4>1. preview.text[i][1] \in Nat
          BY <3>1 DEF Bytes
        <4>2. preview.text[i][1] < turn \/ preview.text[i][1] = turn
          BY DEF DraftInv, TextInv, Streamed
        <4> QED BY <3>1, <4>1, <4>2
      <3>3. \A i \in DOMAIN preview.text : preview.text[i][1] < turn'
        BY <2>2, <3>1, <3>2
      <3> QED BY <3>3 DEF Streamed
    <2> QED BY <2>1, <2>2
  <1>3. TextInv'
    <2>1. NearlyUnbroken(draft') /\ Streamed(draft', turn', worker')
      BY <1>1 DEF NearlyUnbroken, Streamed
    <2> QED BY <1>0, <1>1, <1>2, <2>1 DEF DraftInv, TextInv
  <1>4. OwnDraft' /\ PreviewFollows'
    BY DEF OwnDraft, PreviewFollows
  <1>5. NextByte'
    BY DEF DraftInv, NextByte, ThisRequest
  <1> QED BY <1>3, <1>4, <1>5 DEF DraftInv

\* The worker goes on, to another place than the stream.
LEMMA DraftMove ==
    ASSUME TuiTypeOK, DraftInv, UNCHANGED uiOwned, preview' = preview,
           worker' \in WorkerStates, Advances(worker, worker'), worker'.pc # "model"
    PROVE  DraftInv'
  <1>1. UNCHANGED <<ui, draft, turn, current_turn, iteration, settled, cancellation, cancelled>>
    BY DEF uiOwned, turnView
  <1>2. Streamed(draft, turn, worker') /\ Streamed(preview.text, turn, worker')
    BY StreamedKept DEF DraftInv, TextInv, TuiTypeOK, UiTypeOK, WorkerTypeOK
  <1>3. TextInv'
    BY <1>1, <1>2 DEF DraftInv, TextInv
  <1>4. OwnDraft' /\ PreviewFollows'
    BY <1>1 DEF DraftInv, OwnDraft, PreviewFollows, InLoop
  <1>5. NextByte'
    BY DEF NextByte
  <1> QED BY <1>3, <1>4, <1>5 DEF DraftInv

\* on_progress, Started: no byte of this request was streamed before.
LEMMA DraftStarted ==
    ASSUME TuiTypeOK, DraftInv, Started
    PROVE  DraftInv'
  <1>1. /\ UNCHANGED <<ui, draft, turn, current_turn, iteration, settled, cancellation, cancelled>>
        /\ worker.pc = "request" /\ worker' = Goto("model")
        /\ preview' = [request |-> ThisRequest, text |-> <<>>]
    BY DEF Started, Quiet, At, uiOwned, turnView
  <1>2. worker' \in WorkerStates /\ worker'.pc = "model" /\ worker'.iteration = worker.iteration
    BY <1>1, WorkerMoves, MoveFields DEF WorkerPlaces
  <1>3. preview'.text = <<>> /\ Len(<<>>) = 0 /\ DOMAIN <<>> = {}
    BY <1>1
  <1>4. Streamed(draft, turn, worker')
    BY <1>1, <1>2, StreamedKept DEF Advances, DraftInv, TextInv, TuiTypeOK, UiTypeOK, WorkerTypeOK
  <1>5. TextInv'
    <2>1. Unbroken(preview'.text) /\ Spaced(preview'.text) /\ Of(preview'.request, preview'.text)
          /\ Streamed(preview'.text, turn', worker')
      BY <1>3 DEF Unbroken, Spaced, Of, Streamed
    <2>2. Len(preview'.text) <= DraftLimit
      BY <1>3, TuiAssumption
    <2> QED BY <1>1, <1>4, <2>1, <2>2 DEF DraftInv, TextInv
  <1>6. OwnDraft' /\ PreviewFollows'
    BY <1>1, <1>3 DEF DraftInv, OwnDraft, PreviewFollows, InLoop
  <1>7. ~(InLoop /\ draft # <<>> /\ ThisRequest = <<current_turn, iteration>>)
    <2> SUFFICES ASSUME InLoop, draft # <<>>, ThisRequest = <<current_turn, iteration>>
                 PROVE  FALSE
      OBVIOUS
    <2>1. draft \in Seq(Bytes) /\ turn \in Nat /\ worker.iteration \in Nat
      BY DEF TuiTypeOK, UiTypeOK, WorkerTypeOK, WorkerStates
    <2>2. 1 \in DOMAIN draft
      BY <2>1
    <2>3. <<draft[1][1], draft[1][2]>> = <<turn, worker.iteration>>
      BY <2>2 DEF DraftInv, OwnDraft, Of, ThisRequest
    <2>4. draft[1][1] < turn \/ draft[1][2] < worker.iteration
      BY <1>1, <2>2 DEF DraftInv, TextInv, Streamed
    <2> QED BY <2>1, <2>3, <2>4
  <1>8. NextByte'
    <2>1. ThisRequest' = ThisRequest
      BY <1>1, <1>2 DEF ThisRequest
    <2> QED BY <1>1, <1>3, <1>7, <2>1 DEF NextByte, InLoop
  <1> QED BY <1>5, <1>6, <1>8 DEF DraftInv

\* What two texts make, one after the other.
LEMMA ConcatFacts ==
    ASSUME NEW S, NEW one \in Seq(S), NEW two \in Seq(S)
    PROVE  /\ one \o two \in Seq(S) /\ Len(one \o two) = Len(one) + Len(two)
           /\ \A i \in 1..Len(one) : (one \o two)[i] = one[i]
           /\ \A k \in 1..Len(two) : (one \o two)[Len(one) + k] = two[k]
           /\ DOMAIN (one \o two) = 1..(Len(one) + Len(two)) /\ DOMAIN one = 1..Len(one)
           /\ one = <<>> <=> Len(one) = 0
  OBVIOUS

\* A character goes on where an unbroken text ends, and leaves it spaced.
LEMMA AddCharacter ==
    ASSUME NEW base \in Seq(Bytes), NEW char \in Seq(Bytes), Unbroken(base), Unbroken(char),
           Spaced(base), char # <<>>, Len(char) <= CharBytes, char[1][4],
           base # <<>> => Follows(base[Len(base)], char[1])
    PROVE  Unbroken(base \o char) /\ Spaced(base \o char)
  <1> DEFINE all == base \o char
  <1>1. /\ Len(base) \in Nat /\ Len(char) \in Nat /\ Len(char) >= 1
        /\ all \in Seq(Bytes) /\ Len(all) = Len(base) + Len(char)
        /\ \A i \in 1..Len(base) : all[i] = base[i]
        /\ \A i \in 1..Len(char) : all[Len(base) + i] = char[i]
        /\ CharBytes \in Nat /\ CharBytes >= 1
    BY TuiAssumption
  <1>2. Unbroken(all)
    <2>1. CASE base = <<>>
      <3>1. all = char
        BY <2>1
      <3> QED BY <3>1
    <2>2. CASE base # <<>>
      BY <2>2, ConcatUnbroken
    <2> QED BY <2>1, <2>2
  <1> HIDE DEF all
  <1>3. ASSUME NEW i \in DOMAIN all, i + CharBytes - 1 <= Len(all)
        PROVE  \E j \in i..i + CharBytes - 1 : all[j][4]
    <2> USE <1>3
    <2>0. i \in 1..Len(all)
      BY <1>1
    <2>1. CASE i + CharBytes - 1 <= Len(base)
      <3>1. i \in DOMAIN base
        BY <1>1, <2>0, <2>1
      <3>2. PICK j \in i..i + CharBytes - 1 : base[j][4]
        BY <2>1, <3>1 DEF Spaced
      <3>3. j \in 1..Len(base)
        BY <1>1, <2>0, <2>1, <3>1
      <3> QED BY <1>1, <3>2, <3>3
    <2>2. CASE i + CharBytes - 1 > Len(base)
      <3>1. Len(base) + 1 \in i..i + CharBytes - 1
        BY <1>1, <2>0, <2>2
      <3>2. all[Len(base) + 1] = char[1]
        BY <1>1
      <3> QED BY <3>1, <3>2
    <2>3. i + CharBytes - 1 <= Len(base) \/ i + CharBytes - 1 > Len(base)
      BY <1>1, <2>0
    <2> QED BY <2>1, <2>2, <2>3
  <1>4. Spaced(all)
    BY <1>3 DEF Spaced
  <1> QED BY <1>2, <1>4 DEF all

\* append_bounded leaves the end of an unbroken text unbroken, and short by less than
\* a character if it cuts.
LEMMA CutUnbroken ==
    ASSUME NEW all \in Seq(Bytes), Unbroken(all), Spaced(all)
    PROVE  LET kept == Bounded(all)
           IN  /\ Unbroken(kept) /\ Spaced(kept) /\ Len(kept) <= DraftLimit
               /\ Len(all) > DraftLimit => Len(kept) > DraftLimit - CharBytes
               /\ \A i \in DOMAIN kept : \E j \in DOMAIN all : kept[i] = all[j]
               /\ kept # <<>> => kept[Len(kept)] = all[Len(all)]
  <1> DEFINE kept == Bounded(all)
  <1>1. PICK d \in 0..Len(all) :
           /\ Len(kept) = Len(all) - d /\ Len(kept) <= DraftLimit
           /\ \A i \in 1..Len(all) - d : kept[i] = all[d + i]
           /\ Len(all) > DraftLimit =>
                 /\ d >= Len(all) - DraftLimit
                 /\ \A j \in Len(all) - DraftLimit + 1..d : ~all[j][4]
    BY BoundedFacts
  <1>2. kept \in Seq(Bytes)
    BY BoundedFacts
  <1>3. /\ Len(all) \in Nat /\ Len(kept) \in Nat /\ d \in Nat /\ d + Len(kept) = Len(all)
        /\ DOMAIN kept = 1..Len(kept) /\ DOMAIN all = 1..Len(all)
        /\ DraftLimit \in Nat /\ CharBytes \in Nat /\ CharBytes >= 1 /\ CharBytes <= DraftLimit
    BY <1>1, <1>2, TuiAssumption
  <1> HIDE DEF kept
  <1>4. \A i \in 1..Len(kept) : kept[i] = all[d + i] /\ d + i \in 1..Len(all)
    BY <1>1, <1>3
  <1>5. Unbroken(kept)
    <2> SUFFICES ASSUME NEW i \in 1..Len(kept) - 1 PROVE Follows(kept[i], kept[i + 1])
      BY DEF Unbroken
    <2>1. /\ i \in 1..Len(kept) /\ i + 1 \in 1..Len(kept) /\ d + i \in 1..Len(all) - 1
          /\ d + (i + 1) = (d + i) + 1
      BY <1>3
    <2>2. kept[i] = all[d + i] /\ kept[i + 1] = all[(d + i) + 1]
      BY <1>4, <2>1
    <2> QED BY <2>1, <2>2 DEF Unbroken
  <1>6. Spaced(kept)
    <2> SUFFICES ASSUME NEW i \in 1..Len(kept), i + CharBytes - 1 <= Len(kept)
                 PROVE  \E j \in i..i + CharBytes - 1 : kept[j][4]
      BY <1>3 DEF Spaced
    <2>1. d + i \in DOMAIN all /\ (d + i) + CharBytes - 1 <= Len(all)
      BY <1>3
    <2>2. PICK m \in d + i..(d + i) + CharBytes - 1 : all[m][4]
      BY <2>1 DEF Spaced
    <2>3. m - d \in i..i + CharBytes - 1 /\ m - d \in 1..Len(kept) /\ d + (m - d) = m
      BY <1>3
    <2> QED BY <1>4, <2>2, <2>3
  <1>7. ASSUME Len(all) > DraftLimit PROVE Len(kept) > DraftLimit - CharBytes
    <2> SUFFICES ASSUME Len(kept) <= DraftLimit - CharBytes PROVE FALSE
      BY <1>3
    <2> DEFINE i == Len(all) - DraftLimit + 1
    <2>1. i \in DOMAIN all /\ i + CharBytes - 1 <= Len(all) /\ i + CharBytes - 1 <= d
      BY <1>3, <1>7
    <2>2. PICK j \in i..i + CharBytes - 1 : all[j][4]
      <3> HIDE DEF i
      <3> QED BY <2>1 DEF Spaced
    <2>3. j \in Len(all) - DraftLimit + 1..d
      BY <1>3, <2>1, <2>2
    <2> QED BY <1>1, <1>7, <2>2, <2>3
  <1>8. \A i \in DOMAIN kept : \E j \in DOMAIN all : kept[i] = all[j]
    BY <1>3, <1>4
  <1>9. ASSUME kept # <<>> PROVE kept[Len(kept)] = all[Len(all)]
    <2>1. Len(kept) \in 1..Len(kept)
      BY <1>2, <1>3, <1>9
    <2> QED BY <1>3, <1>4, <2>1
  <1> QED BY <1>1, <1>5, <1>6, <1>7, <1>8, <1>9 DEF kept

\* A text that ends with a whole character is not cut to nothing.
LEMMA CutKeeps ==
    ASSUME NEW all \in Seq(Bytes), NEW i \in DOMAIN all, all[i][4],
           Len(all) - i < DraftLimit
    PROVE  Bounded(all) # <<>>
  <1>1. PICK d \in 0..Len(all) :
           /\ Len(Bounded(all)) = Len(all) - d
           /\ Len(all) <= DraftLimit => d = 0
           /\ Len(all) > DraftLimit =>
                 /\ d >= Len(all) - DraftLimit
                 /\ \A j \in Len(all) - DraftLimit + 1..d : ~all[j][4]
    BY BoundedFacts
  <1>2. Len(all) \in Nat /\ DraftLimit \in Nat /\ i \in 1..Len(all) /\ d \in 0..Len(all)
    BY TuiAssumption
  <1>3. d < i \/ d = 0
    BY <1>1, <1>2
  <1>4. Len(Bounded(all)) # 0
    BY <1>1, <1>2, <1>3
  <1>5. Len(<<>>) = 0
    OBVIOUS
  <1> QED BY <1>4, <1>5

\* on_progress, TextDelta: the character follows what the buffer holds of its request
\* or, if that was taken, what is displayed.
LEMMA DraftDelta ==
    ASSUME TuiTypeOK, DraftInv, NEW width \in 1..CharBytes, TextDelta(width)
    PROVE  DraftInv'
  <1> DEFINE char == Character(width)
             base == IF preview.request = ThisRequest THEN preview.text ELSE <<>>
             all == base \o char
  <1>1. /\ UNCHANGED <<ui, draft, turn, current_turn, iteration, settled, cancellation, cancelled>>
        /\ worker.pc = "model" /\ worker' = [worker EXCEPT !.bytes = @ + width]
        /\ preview' = [request |-> ThisRequest, text |-> Bounded(all)]
    BY DEF TextDelta, Join, Quiet, At, uiOwned, turnView
  <1>2. /\ turn \in Nat /\ worker.iteration \in Nat /\ worker.bytes \in Nat
        /\ draft \in Seq(Bytes) /\ preview.text \in Seq(Bytes) /\ worker \in WorkerStates
        /\ DraftLimit \in Nat /\ CharBytes \in Nat /\ CharBytes >= 1 /\ CharBytes <= DraftLimit
        /\ width \in Nat /\ width >= 1 /\ width <= CharBytes
    BY TuiAssumption DEF TuiTypeOK, UiTypeOK, WorkerTypeOK, WorkerStates
  <1>3. /\ worker' \in WorkerStates /\ worker'.pc = "model"
        /\ worker'.iteration = worker.iteration /\ worker'.bytes = worker.bytes + width
    BY <1>1, <1>2, WorkerMoves DEF WorkerStates
  <1>4. /\ char \in Seq(Bytes) /\ Len(char) = width /\ char # <<>>
        /\ \A k \in 1..width : /\ char[k][1] = turn /\ char[k][2] = worker.iteration
                                /\ char[k][3] = worker.bytes + k
        /\ char[1][4] /\ Unbroken(char)
    BY <1>2, CharacterFacts
  <1>5. /\ base \in Seq(Bytes) /\ Unbroken(base) /\ Spaced(base) /\ Of(ThisRequest, base)
        /\ base = <<>> \/ (preview.request = ThisRequest /\ base = preview.text)
        /\ Len(base) \in Nat
    <2>1. /\ <<>> \in Seq(Bytes) /\ Unbroken(<<>>) /\ Spaced(<<>>) /\ Of(ThisRequest, <<>>)
          /\ Len(<<>>) \in Nat
      BY DEF Unbroken, Spaced, Of
    <2> QED BY <1>2, <2>1 DEF DraftInv, TextInv
  <1>6. preview.request # ThisRequest => base = <<>>
    OBVIOUS
  <1> HIDE DEF char, base
  <1>7. /\ all \in Seq(Bytes) /\ Len(all) = Len(base) + width
        /\ \A i \in 1..Len(base) : all[i] = base[i]
        /\ \A k \in 1..width : all[Len(base) + k] = char[k]
        /\ DOMAIN all = 1..(Len(base) + width) /\ DOMAIN base = 1..Len(base)
        /\ base = <<>> <=> Len(base) = 0
    <2> HIDE DEF all
    <2>1. /\ all \in Seq(Bytes) /\ Len(all) = Len(base) + Len(char)
          /\ \A i \in 1..Len(base) : all[i] = base[i]
          /\ \A k \in 1..Len(char) : all[Len(base) + k] = char[k]
          /\ DOMAIN all = 1..(Len(base) + Len(char)) /\ DOMAIN base = 1..Len(base)
          /\ base = <<>> <=> Len(base) = 0
      BY <1>4, <1>5, ConcatFacts DEF all
    <2> QED BY <1>4, <2>1
  <1>8. ASSUME base # <<>>
        PROVE  /\ Len(base) \in DOMAIN base /\ base[Len(base)][3] = worker.bytes
               /\ base[Len(base)][1] = turn /\ base[Len(base)][2] = worker.iteration
    <2>1. Len(base) \in DOMAIN base
      BY <1>5, <1>7, <1>8
    <2>2. <<base[Len(base)][1], base[Len(base)][2]>> = <<turn, worker.iteration>>
      BY <1>5, <2>1 DEF Of, ThisRequest
    <2>3. base[Len(base)][3] = worker.bytes
      BY <1>1, <1>5, <1>8 DEF DraftInv, NextByte
    <2> QED BY <2>1, <2>2, <2>3
  <1>9. 1 \in 1..width /\ width \in 1..width
    BY <1>2
  <1>10. Unbroken(all) /\ Spaced(all)
    <2>1. ASSUME base # <<>> PROVE Follows(base[Len(base)], char[1])
      BY <1>4, <1>8, <1>9, <2>1 DEF Follows
    <2> QED BY <1>2, <1>4, <1>5, <2>1, AddCharacter
  <1> HIDE DEF all
  <1>11. ASSUME NEW i \in DOMAIN all
         PROVE  \/ i \in 1..Len(base) /\ all[i] = base[i]
                \/ \E k \in 1..width : all[i] = char[k]
    <2>1. \/ i \in 1..Len(base)
          \/ i - Len(base) \in 1..width /\ Len(base) + (i - Len(base)) = i
      BY <1>2, <1>5, <1>7
    <2> QED BY <1>7, <2>1
  <1>12. \A i \in DOMAIN all : all[i][1] = turn /\ all[i][2] = worker.iteration
    <2>1. ASSUME NEW i \in DOMAIN base PROVE base[i][1] = turn /\ base[i][2] = worker.iteration
      <3>1. <<base[i][1], base[i][2]>> = <<turn, worker.iteration>>
        BY <1>5 DEF Of, ThisRequest
      <3> QED BY <3>1
    <2>2. ASSUME NEW i \in DOMAIN all, i \in 1..Len(base), all[i] = base[i]
          PROVE  all[i][1] = turn /\ all[i][2] = worker.iteration
      <3>1. i \in DOMAIN base
        BY <1>7, <2>2
      <3> QED BY <2>1, <2>2, <3>1
    <2>3. ASSUME NEW i \in DOMAIN all, NEW k \in 1..width, all[i] = char[k]
          PROVE  all[i][1] = turn /\ all[i][2] = worker.iteration
      BY <1>4, <2>3
    <2> QED BY <1>11, <2>2, <2>3
  <1> DEFINE kept == Bounded(all)
  <1>13. /\ Unbroken(kept) /\ Spaced(kept) /\ Len(kept) <= DraftLimit
         /\ Len(all) > DraftLimit => Len(kept) > DraftLimit - CharBytes
         /\ Len(all) <= DraftLimit => kept = all
         /\ \A i \in DOMAIN kept : \E j \in DOMAIN all : kept[i] = all[j]
         /\ kept # <<>> => kept[Len(kept)] = all[Len(all)]
         /\ kept \in Seq(Bytes)
    BY <1>7, <1>10, CutUnbroken, BoundedFacts
  <1>14. kept # <<>>
    <2>1. Len(base) + 1 \in DOMAIN all /\ all[Len(base) + 1] = char[1]
      BY <1>5, <1>7, <1>9
    <2>2. Len(all) - (Len(base) + 1) < DraftLimit
      BY <1>2, <1>5, <1>7
    <2> QED BY <1>4, <1>7, <2>1, <2>2, CutKeeps
  <1>15. kept[Len(kept)][3] = worker'.bytes
    <2>1. all[Len(all)] = char[width]
      BY <1>7, <1>9
    <2> QED BY <1>3, <1>4, <1>9, <1>13, <1>14, <2>1
  <1> HIDE DEF all, kept
  <1>16. \A i \in DOMAIN kept : kept[i][1] = turn /\ kept[i][2] = worker.iteration
    BY <1>12, <1>13
  <1>17. preview'.text = kept /\ preview'.request = ThisRequest /\ ThisRequest' = ThisRequest
    BY <1>1, <1>3 DEF ThisRequest, kept, all
  <1>18. TextInv'
    <2>1. Streamed(draft, turn, worker')
      <3>1. Advances(worker, worker')
        BY <1>1, <1>3 DEF Advances
      <3> QED BY <1>2, <1>3, <3>1, StreamedKept DEF DraftInv, TextInv
    <2>2. Of(ThisRequest, kept)
      BY <1>16 DEF Of, ThisRequest
    <2>3. Streamed(kept, turn, worker')
      BY <1>2, <1>3, <1>16 DEF Streamed
    <2> QED BY <1>1, <1>13, <1>17, <2>1, <2>2, <2>3 DEF DraftInv, TextInv
  <1>19. OwnDraft'
    BY <1>1 DEF DraftInv, OwnDraft, InLoop
  <1>20. NextByte'
    BY <1>14, <1>15, <1>17 DEF NextByte
  <1>21. PreviewFollows'
    <2> SUFFICES ASSUME InLoop, draft # <<>>, ThisRequest = <<current_turn, iteration>>
                 PROVE  /\ \A i \in DOMAIN kept : draft[Len(draft)][3] < kept[i][3]
                        /\ \/ Len(kept) > DraftLimit - CharBytes
                           \/ Follows(draft[Len(draft)], kept[1])
      BY <1>1, <1>17 DEF PreviewFollows, InLoop
    <2> DEFINE last == draft[Len(draft)]
    <2>1. /\ Len(draft) \in DOMAIN draft /\ last[3] \in Nat
          /\ last[1] = turn /\ last[2] = worker.iteration
      <3>1. Len(draft) \in DOMAIN draft
        BY <1>2
      <3>2. last \in Bytes
        BY <1>2, <3>1
      <3>3. <<last[1], last[2]>> = <<turn, worker.iteration>>
        BY <3>1 DEF DraftInv, OwnDraft, Of, ThisRequest
      <3> HIDE DEF last
      <3> QED BY <3>1, <3>2, <3>3 DEF last, Bytes
    <2>2. base = <<>> => last[3] = worker.bytes
      <3>1. preview.request # ThisRequest \/ preview.text = <<>> \/ base # <<>>
        BY <1>5 DEF base
      <3> QED BY <1>1, <3>1 DEF DraftInv, NextByte
    <2>3. base # <<>> =>
             /\ \A i \in DOMAIN base : last[3] < base[i][3]
             /\ Len(base) > DraftLimit - CharBytes \/ Follows(last, base[1])
      BY <1>5 DEF DraftInv, PreviewFollows
    <2> HIDE DEF last
    <2>4. last[3] <= worker.bytes
      <3>1. CASE base # <<>>
        <4>1. last[3] < worker.bytes
          BY <1>8, <2>3, <3>1
        <4> QED BY <1>2, <2>1, <4>1
      <3> QED BY <1>2, <2>1, <2>2, <3>1
    <2>5. \A i \in DOMAIN all : last[3] < all[i][3]
      <3>1. \A k \in 1..width : last[3] < char[k][3]
        BY <1>2, <1>4, <2>1, <2>4
      <3>2. \A i \in DOMAIN base : last[3] < base[i][3]
        BY <1>7, <2>3
      <3> QED BY <1>7, <1>11, <3>1, <3>2
    <2>6. \A i \in DOMAIN kept : last[3] < kept[i][3]
      BY <1>13, <2>5
    <2>7. Len(kept) > DraftLimit - CharBytes \/ Follows(last, kept[1])
      <3>1. CASE Len(all) > DraftLimit
        BY <1>13, <3>1
      <3>2. CASE Len(all) <= DraftLimit /\ base = <<>>
        <4>1. Len(base) + 1 = 1
          BY <1>7, <3>2
        <4>2. kept[1] = char[1]
          BY <1>7, <1>9, <1>13, <3>2, <4>1
        <4> QED BY <1>4, <1>9, <2>1, <2>2, <3>2, <4>2 DEF Follows
      <3>3. CASE Len(all) <= DraftLimit /\ base # <<>>
        <4>1. 1 \in 1..Len(base) /\ kept = all /\ Len(kept) > Len(base)
          BY <1>2, <1>5, <1>7, <1>13, <3>3
        <4>2. kept[1] = base[1]
          BY <1>7, <4>1
        <4> QED BY <1>2, <1>5, <1>7, <2>3, <3>3, <4>1, <4>2
      <3> QED BY <1>2, <1>5, <1>7, <3>1, <3>2, <3>3
    <2> QED BY <2>6, <2>7 DEF last
  <1> QED BY <1>18, <1>19, <1>20, <1>21 DEF DraftInv

\* drain_progress: what was taken joins the draft, or displaces it.
LEMMA DraftTaken ==
    ASSUME TuiTypeOK, DraftInv, DrainProgress
    PROVE  DraftInv'
  <1> DEFINE text == preview.text
             kept == Bounded(draft \o text)
             used == text # <<>> /\ Fits(preview.request)
  <1>1. /\ UNCHANGED <<turn, worker, current_turn, iteration, settled, cancellation, cancelled>>
        /\ draft' = IF used THEN kept ELSE draft
        /\ preview' = NoPreview
        /\ InLoop /\ InLoop'
    BY DEF DrainProgress, turnView, engine, InLoop
  <1>2. /\ draft \in Seq(Bytes) /\ text \in Seq(Bytes) /\ turn \in Nat
        /\ DraftLimit \in Nat /\ CharBytes \in Nat
    BY TuiAssumption DEF TuiTypeOK, UiTypeOK, WorkerTypeOK
  <1>3. preview'.text = <<>> /\ Len(preview'.text) = 0 /\ DOMAIN preview'.text = {}
    BY <1>1 DEF NoPreview
  <1>4. /\ Unbroken(preview'.text) /\ Spaced(preview'.text) /\ Of(preview'.request, preview'.text)
        /\ Streamed(preview'.text, turn', worker') /\ Len(preview'.text) <= DraftLimit
    BY <1>2, <1>3 DEF Unbroken, Spaced, Of, Streamed
  <1>5. PreviewFollows'
    BY <1>3 DEF PreviewFollows
  <1>6. CASE ~used
    <2>1. draft' = draft
      BY <1>1, <1>6
    <2>2. TextInv'
      BY <1>1, <1>4, <2>1 DEF DraftInv, TextInv
    <2>3. OwnDraft'
      BY <1>1, <2>1 DEF DraftInv, OwnDraft
    <2>4. NextByte'
      <3> SUFFICES ASSUME worker.pc = "model", draft # <<>>,
                          ThisRequest = <<current_turn, iteration>>
                   PROVE  draft[Len(draft)][3] = worker.bytes
        BY <1>1, <1>3, <2>1 DEF NextByte, ThisRequest
      <3>1. preview.request # ThisRequest \/ preview.text = <<>>
        BY <1>1, <1>6 DEF DraftInv, OwnDraft, Fits
      <3> QED BY <1>1, <3>1 DEF DraftInv, NextByte
    <2> QED BY <1>5, <2>2, <2>3, <2>4 DEF DraftInv
  <1>7. CASE used
    <2>1. /\ draft' = kept /\ text # <<>> /\ preview.request = <<current_turn, iteration>>
          /\ ~settled /\ cancellation \notin cancelled
      BY <1>1, <1>7 DEF Fits
    <2> DEFINE join == draft \o text
    <2>2. /\ join \in Seq(Bytes) /\ Len(join) = Len(draft) + Len(text)
          /\ Len(draft) \in Nat /\ Len(text) \in Nat /\ Len(text) >= 1
          /\ \A i \in 1..Len(draft) : join[i] = draft[i]
          /\ \A i \in 1..Len(text) : join[Len(draft) + i] = text[i]
          /\ join # <<>>
      BY <1>2, <2>1
    <2> HIDE DEF join
    <2>3. join[Len(join)] = text[Len(text)]
      BY <2>2
    <2>4. \A i \in DOMAIN join : \/ \E j \in DOMAIN draft : join[i] = draft[j]
                                 \/ \E j \in DOMAIN text : join[i] = text[j]
      <3> SUFFICES ASSUME NEW i \in DOMAIN join
                   PROVE  \/ \E j \in DOMAIN draft : join[i] = draft[j]
                          \/ \E j \in DOMAIN text : join[i] = text[j]
        OBVIOUS
      <3>1. i \in 1..(Len(draft) + Len(text))
        BY <2>2
      <3>2. CASE i <= Len(draft)
        BY <1>2, <2>2, <3>1, <3>2
      <3>3. CASE i > Len(draft)
        <4>1. i - Len(draft) \in 1..Len(text) /\ i = Len(draft) + (i - Len(draft))
          BY <2>2, <3>1, <3>3
        <4>2. join[i] = text[i - Len(draft)]
          BY <2>2, <4>1
        <4> QED BY <1>2, <4>1, <4>2
      <3> QED BY <2>2, <3>1, <3>2, <3>3
    <2>5. /\ kept \in Seq(Bytes) /\ Len(kept) <= DraftLimit
          /\ kept # <<>> => kept[Len(kept)] = text[Len(text)]
          /\ \A i \in DOMAIN kept : \E j \in DOMAIN join : kept[i] = join[j]
          /\ NearlyUnbroken(kept)
      <3>1. PICK d \in 0..Len(join) :
               /\ Len(kept) = Len(join) - d /\ Len(kept) <= DraftLimit
               /\ \A i \in 1..Len(join) - d : kept[i] = join[d + i]
        BY <2>2, BoundedFacts DEF join
      <3>2. kept \in Seq(Bytes)
        BY <2>2, BoundedFacts DEF join
      <3>3. /\ Len(join) \in Nat /\ Len(kept) \in Nat /\ d \in Nat /\ d + Len(kept) = Len(join)
            /\ DOMAIN kept = 1..Len(kept) /\ DOMAIN join = 1..Len(join)
            /\ DOMAIN draft = 1..Len(draft) /\ DOMAIN text = 1..Len(text)
        BY <1>2, <2>2, <3>1, <3>2
      <3> HIDE DEF kept
      <3>4. \A i \in 1..Len(kept) : kept[i] = join[d + i] /\ d + i \in 1..Len(join)
        BY <3>1, <3>3
      <3>5. ASSUME kept # <<>> PROVE kept[Len(kept)] = text[Len(text)]
        <4>1. Len(kept) \in 1..Len(kept)
          BY <3>2, <3>3, <3>5
        <4> QED BY <2>3, <3>3, <3>4, <4>1
      <3>6. NearlyUnbroken(kept)
        <4> SUFFICES ASSUME NEW i \in 1..Len(kept) - 1
                     PROVE  /\ kept[i][3] < kept[i + 1][3]
                            /\ i >= CharBytes => Follows(kept[i], kept[i + 1])
          BY DEF NearlyUnbroken
        <4> DEFINE m == d + i
        <4>1. /\ i \in 1..Len(kept) /\ i + 1 \in 1..Len(kept) /\ m \in 1..Len(join) - 1
              /\ d + (i + 1) = m + 1 /\ m >= i /\ m \in Nat
          BY <3>3
        <4>2. kept[i] = join[m] /\ kept[i + 1] = join[m + 1]
          BY <3>4, <4>1
        <4>3. Len(join) - m = Len(kept) - i
          BY <3>3, <4>1
        <4> HIDE DEF m
        <4>4. CASE m < Len(draft)
          <5>1. m \in 1..Len(draft) - 1 /\ m \in 1..Len(draft) /\ m + 1 \in 1..Len(draft)
            BY <2>2, <4>1, <4>4
          <5>2. join[m] = draft[m] /\ join[m + 1] = draft[m + 1]
            BY <2>2, <5>1
          <5>3. NearlyUnbroken(draft)
            BY DEF DraftInv, TextInv
          <5>4. i >= CharBytes => m >= CharBytes
            BY <1>2, <4>1
          <5> QED BY <4>2, <5>1, <5>2, <5>3, <5>4 DEF NearlyUnbroken
        <4>5. CASE m = Len(draft)
          <5>1. /\ draft # <<>> /\ 1 \in 1..Len(text)
                /\ join[m] = draft[Len(draft)] /\ join[m + 1] = text[1]
            <6>1. Len(draft) \in 1..Len(draft) /\ 1 \in 1..Len(text)
              BY <2>2, <4>1, <4>5
            <6>2. join[m] = draft[Len(draft)] /\ join[m + 1] = text[1]
              BY <2>2, <4>5, <6>1
            <6> QED BY <3>3, <6>1, <6>2
          <5>2. /\ draft[Len(draft)][3] < text[1][3]
                /\ Len(text) > DraftLimit - CharBytes \/ Follows(draft[Len(draft)], text[1])
            BY <1>1, <2>1, <3>3, <5>1 DEF DraftInv, PreviewFollows
          <5>3. ASSUME i >= CharBytes PROVE ~(Len(text) > DraftLimit - CharBytes)
            <6>1. Len(text) = Len(kept) - i
              BY <2>2, <4>3, <4>5
            <6> QED BY <1>2, <3>1, <3>3, <5>3, <6>1
          <5> QED BY <4>2, <5>1, <5>2, <5>3
        <4>6. CASE m > Len(draft)
          <5> DEFINE k == m - Len(draft)
          <5>1. /\ k \in 1..Len(text) - 1 /\ k \in 1..Len(text) /\ k + 1 \in 1..Len(text)
                /\ m = Len(draft) + k /\ m + 1 = Len(draft) + (k + 1)
            BY <2>2, <4>1, <4>6
          <5> HIDE DEF k
          <5>2. join[m] = text[k] /\ join[m + 1] = text[k + 1]
            BY <2>2, <5>1
          <5>3. Follows(text[k], text[k + 1])
            BY <5>1 DEF DraftInv, TextInv, Unbroken
          <5>4. text[k] \in Bytes
            BY <1>2, <5>1
          <5>5. text[k][3] < text[k + 1][3]
            BY <5>3, <5>4 DEF Follows, Bytes
          <5> QED BY <4>2, <5>2, <5>3, <5>5
        <4> QED BY <2>2, <4>1, <4>4, <4>5, <4>6
      <3>7. \A i \in DOMAIN kept : \E j \in DOMAIN join : kept[i] = join[j]
        BY <3>3, <3>4
      <3> QED BY <3>1, <3>2, <3>5, <3>6, <3>7
    <2> HIDE DEF kept
    <2>6. \A i \in DOMAIN kept : \/ \E j \in DOMAIN draft : kept[i] = draft[j]
                                 \/ \E j \in DOMAIN text : kept[i] = text[j]
      BY <2>4, <2>5
    <2>7. Of(<<current_turn, iteration>>, kept)
      <3>1. Of(<<current_turn, iteration>>, text)
        BY <2>1 DEF DraftInv, TextInv
      <3>2. Of(<<current_turn, iteration>>, draft)
        <4>1. CASE draft = <<>>
          BY <4>1 DEF Of
        <4>2. CASE draft # <<>>
          BY <1>1, <4>2 DEF DraftInv, OwnDraft
        <4> QED BY <4>1, <4>2
      <3> QED BY <2>6, <3>1, <3>2 DEF Of
    <2>8. Streamed(kept, turn, worker)
      <3>1. Streamed(draft, turn, worker) /\ Streamed(text, turn, worker)
        BY DEF DraftInv, TextInv
      <3> QED BY <2>6, <3>1 DEF Streamed
    <2>9. TextInv'
      BY <1>1, <1>4, <2>1, <2>5, <2>8 DEF TextInv
    <2>10. OwnDraft'
      BY <1>1, <2>1, <2>7 DEF OwnDraft
    <2>11. NextByte'
      <3> SUFFICES ASSUME worker.pc = "model", ThisRequest = <<current_turn, iteration>>,
                          kept # <<>>
                   PROVE  kept[Len(kept)][3] = worker.bytes
        BY <1>1, <1>3, <2>1 DEF NextByte, ThisRequest
      <3>1. text[Len(text)][3] = worker.bytes
        BY <2>1 DEF DraftInv, NextByte
      <3> QED BY <2>5, <3>1
    <2> QED BY <1>5, <2>9, <2>10, <2>11 DEF DraftInv
  <1> QED BY <1>6, <1>7

\* The draft is empty when the UI starts.
LEMMA DraftInit == Init => DraftInv
  <1> SUFFICES ASSUME Init PROVE DraftInv
    OBVIOUS
  <1>1. draft = <<>> /\ preview.text = <<>> /\ worker.pc = "none" /\ DraftLimit \in Nat
    BY TuiAssumption DEF Init, NoPreview, NoWorker
  <1>2. Len(<<>>) = 0 /\ DOMAIN <<>> = {}
    OBVIOUS
  <1>3. TextInv
    BY <1>1, <1>2 DEF TextInv, Unbroken, NearlyUnbroken, Spaced, Of, Streamed
  <1>4. OwnDraft /\ NextByte /\ PreviewFollows
    BY <1>1 DEF OwnDraft, NextByte, PreviewFollows
  <1> QED BY <1>3, <1>4 DEF DraftInv

\* One step of any of the threads keeps the draft honest.
LEMMA DraftStep ==
    ASSUME TuiTypeOK, DraftInv, Next, TuiTypeOK'
    PROVE  DraftInv'
  <1> USE DEF turnView, prompts, channels, buffer, engine, draftVars
  <1>1. CASE DrainEvents
    BY <1>1, DraftCleared DEF DrainEvents, HandleEvent
  <1>2. CASE FinishTurn
    BY <1>2, DraftCleared DEF FinishTurn, Finish
  <1>3. CASE StartTurn
    <2>1. worker'.pc = "begin"
      BY <1>3 DEF StartTurn, NoWorker
    <2> QED BY <1>3, <2>1, DraftCleared DEF StartTurn
  <1>4. CASE Leave \/ TerminalError
    BY <1>4, DraftCleared DEF Leave, TerminalError, LeaveRun
  <1>5. CASE Cancel
    BY <1>5, DraftCleared DEF Cancel, CancelRunning
  <1>6. CASE EventsDrained \/ ApprovalsDrained \/ NoResult \/ TryRecv \/ NoKey
    BY <1>6, DraftUnchanged
       DEF EventsDrained, ApprovalsDrained, Drained, NoResult, Render, TryRecv, NoKey, InLoop
  <1>7. CASE DrainApprovals \/ WindDown \/ AnswerPrompt \/ Quit
    BY <1>7, DraftUnchanged DEF DrainApprovals, TakePrompt, WindDown, AnswerPrompt, Key, Quit, InLoop
  <1>8. CASE DrainProgress
    BY <1>8, DraftTaken
  <1>9. CASE WorkerStep \/ Panic
    <2>1. UNCHANGED uiOwned /\ worker' \in WorkerStates
      BY <1>9, WorkerLeavesUi DEF TuiTypeOK, WorkerTypeOK
    <2>2. ASSUME NEW kind, NEW STATE next, Publish(kind, next), Advances(worker, next),
                 next.pc # "model"
          PROVE  DraftInv'
      <3>1. preview' = preview
        BY <2>2 DEF Publish
      <3>2. worker' = next \/ worker' = Return("err")
        BY <2>2 DEF Publish
      <3>3. Advances(worker, worker') /\ worker'.pc # "model"
        BY <2>2, <3>2, MoveFields DEF Advances
      <3> QED BY <2>1, <3>1, <3>3, DraftMove
    <2>3. CASE Begin \/ Request \/ Respond
      BY <2>2, <2>3, MoveFields DEF Begin, Request, Respond, At, Advances
    <2>4. CASE Complete \/ Fail \/ CancelTurn
      BY <2>2, <2>4, MoveFields DEF Complete, Fail, CancelTurn, Advances
    <2>5. CASE Started
      BY <2>5, DraftStarted
    <2>6. CASE Streaming
      BY <2>6, DraftDelta DEF Streaming
    <2>7. CASE Finished \/ CallTool \/ AskForCall \/ Answered \/ SendResult \/ Panic
      <3>1. preview' = preview
        BY <2>7 DEF Finished, CallTool, AskForCall, Answered, SendResult, Panic
      <3>2. Advances(worker, worker') /\ worker'.pc # "model"
        BY <2>7, MoveFields DEF Finished, CallTool, AskForCall, Answered, SendResult, Panic, Quiet, At,
           Advances
      <3> QED BY <2>1, <3>1, <3>2, DraftMove
    <2> QED BY <1>9, <2>3, <2>4, <2>5, <2>6, <2>7 DEF WorkerStep, Streaming
  <1>10. ASSUME NEW o \in Others, OtherAsks(o)
         PROVE  DraftInv'
    BY <1>10, DraftUnchanged DEF OtherAsks, uiOwned, InLoop
  <1> QED BY <1>1, <1>2, <1>3, <1>4, <1>5, <1>6, <1>7, <1>8, <1>9, <1>10, Steps DEF UiStep

-----------------------------------------------------------------------------
(* The theorems.                                                           *)

TuiInv == TuiTypeOK /\ ToldInv /\ TurnInv /\ PromptInv /\ DraftInv

\* The invariant holds in every state the UI and its threads can reach.
LEMMA TuiInvariance == Spec => []TuiInv
  <1>1. Init => TuiInv
    BY TypeInit, ToldInit, TurnInit, PromptInit, DraftInit DEF TuiInv
  <1>2. TuiInv /\ [Next]_vars => TuiInv'
    <2> SUFFICES ASSUME TuiInv, [Next]_vars PROVE TuiInv'
      OBVIOUS
    <2>1. CASE Next
      <3>1. TuiTypeOK'
        BY <2>1, Steps, UiTypeStep, WorkerTypeStep DEF TuiInv
      <3> QED BY <2>1, <3>1, ToldStep, TurnStepInv, PromptStep, DraftStep DEF TuiInv
    <2>2. CASE UNCHANGED vars
      <3> USE <2>2 DEF vars, TuiInv
      <3>1. TuiTypeOK'
        BY DEF TuiTypeOK, UiTypeOK, PromptTypeOK, WorkerTypeOK
      <3>2. ToldInv'
        BY ToldUnchanged DEF toldVars
      <3>3. TurnInv'
        BY TurnUnchanged DEF turnVars
      <3>4. PromptInv'
        BY DEF PromptInv, InLoop
      <3>5. DraftInv'
        BY DraftUnchanged DEF draftVars, InLoop
      <3> QED BY <3>1, <3>2, <3>3, <3>4, <3>5
    <2> QED BY <2>1, <2>2
  <1> QED BY <1>1, <1>2, PTL DEF Spec

\* The failure or cancellation of a turn is told once, whichever channel brings it
\* first and whether or not its event could be stored (finish_turn).
THEOREM FailureToldOnceHolds == Spec => []FailureToldOnce
  <1>1. TuiInv => FailureToldOnce
    BY DEF TuiInv, ToldInv, FailureToldOnce
  <1> QED BY <1>1, TuiInvariance, PTL

\* What is displayed of an answer is a part of it, in its order and unbroken but for
\* fewer bytes than one character has in front, and belongs to the running,
\* uncancelled turn and its last request (drain_progress, append_bounded).
THEOREM DraftIsHonestHolds == Spec => []DraftIsHonest
  <1>1. TuiInv => DraftIsHonest
    <2> SUFFICES ASSUME TuiInv PROVE DraftIsHonest
      OBVIOUS
    <2>1. Len(draft) <= DraftLimit /\ NearlyUnbroken(draft)
      BY DEF TuiInv, DraftInv, TextInv
    <2>2. ASSUME draft # <<>>, InLoop, ~broken
          PROVE  /\ running /\ turn \notin cancelled /\ ~settled
                 /\ \A p \in Elements(draft) : <<p[1], p[2]>> = <<turn, iteration>>
      <3>1. /\ ~settled /\ cancellation \notin cancelled
            /\ Of(<<current_turn, iteration>>, draft)
        BY <2>2 DEF TuiInv, DraftInv, OwnDraft
      <3>2. running /\ current_turn = turn /\ cancellation = turn
        BY <2>2, <3>1 DEF TuiInv, TurnInv
      <3> QED BY <3>1, <3>2 DEF Of, Elements
    <2> QED BY <2>1, <2>2 DEF DraftIsHonest, NearlyUnbroken
  <1> QED BY <1>1, TuiInvariance, PTL

\* Only the prompt on the screen is approved, and none once the turn is cancelled
\* (handle_key, resolve_approval, drain_approvals).
THEOREM InformedApprovalHolds == Spec => InformedApproval
  <1> DEFINE Informed ==
               \A r \in Requesters : answer'[r] = "approved" /\ answer[r] # "approved" =>
                   shown = r /\ cancellation \notin cancelled
  <1>1. TuiInv /\ [Next]_vars => [Informed]_vars
    <2> SUFFICES ASSUME TuiInv, Next, NEW r \in Requesters,
                        answer'[r] = "approved", answer[r] # "approved"
                 PROVE  shown = r /\ cancellation \notin cancelled
      OBVIOUS
    <2>0. answer \in [Requesters -> {"idle", "waiting", "approved", "denied", "dropped"}]
      BY DEF TuiInv, TuiTypeOK, PromptTypeOK
    <2>1. AnswerPrompt
      <3> USE DEF turnView, prompts, channels, buffer, engine
      <3>1. ASSUME UNCHANGED answer PROVE FALSE
        BY <3>1
      <3>2. ~(DrainEvents \/ EventsDrained \/ DrainProgress \/ ApprovalsDrained \/ NoResult \/ TryRecv
              \/ FinishTurn \/ NoKey \/ StartTurn)
        BY <3>1 DEF DrainEvents, HandleEvent, EventsDrained, DrainProgress, ApprovalsDrained, Drained,
           NoResult, TryRecv, FinishTurn, Finish, NoKey, StartTurn
      <3>3. ~DrainApprovals
        BY <2>0 DEF DrainApprovals, TakePrompt
      <3>4. ~(WindDown \/ Leave \/ TerminalError \/ Cancel \/ Quit)
        BY <2>0 DEF WindDown, Leave, TerminalError, LeaveRun, Cancel, Quit, DenyPending
      <3>5. ~(Begin \/ Request \/ Respond \/ Complete \/ Fail \/ CancelTurn)
        BY <3>1 DEF Begin, Request, Respond, Complete, Fail, CancelTurn, Publish
      <3>6. ~(Started \/ Streaming \/ Finished \/ CallTool \/ SendResult \/ Panic)
        BY <3>1 DEF Started, Streaming, TextDelta, Finished, CallTool, SendResult, Panic
      <3>7. \A o \in Requesters : ~SendPrompt(o)
        BY <2>0 DEF SendPrompt
      <3>8. ~AskForCall /\ ~Answered /\ ~\E o \in Others : OtherAsks(o)
        BY <2>0, <3>7 DEF AskForCall, Answered, OtherAsks, Requesters
      <3> QED BY <3>2, <3>3, <3>4, <3>5, <3>6, <3>8, Steps DEF UiStep, WorkerStep, Streaming
    <2>2. PICK decision \in {"approved", "denied"} : Resolve(decision)
      BY <2>1 DEF AnswerPrompt
    <2>3. r = current_approval
      BY <2>0, <2>2 DEF Resolve
    <2>4. ui = "key" /\ current_approval # None
      BY <2>1 DEF AnswerPrompt, Key
    <2>5. shown = current_approval /\ cancellation \notin cancelled
      BY <2>4 DEF TuiInv, PromptInv, InLoop
    <2> QED BY <2>3, <2>5
  <1> QED BY <1>1, TuiInvariance, PTL DEF Spec, InformedApproval
=============================================================================
