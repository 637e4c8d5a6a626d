---------------------------- MODULE MCTaskLedger ----------------------------
\* Instances of TaskLedger for TLC.
EXTENDS TaskLedger, TLC

\* Workers and keys are interchangeable: no definition tells them apart.
Symmetry == Permutations(Workers) \cup Permutations(Keys)

\* What a state is told apart by.  No step and no property depends on the order of
\* the lines, or of what callers were told, across tasks; on when callers were told
\* something else than LeaseFenced asks about; on what a failed append left, unless
\* it is a lease; or on the lines of a file that no longer opens.
Lines == [n \in DOMAIN (file \o tail) |->
             [event |-> (file \o tail)[n], unsure |-> n \in unsure]]
ToldAt == [n \in DOMAIN told |->
             IF told[n].event.type \in {"Succeeded", "Failed", "Heartbeat"}
             THEN told[n] ELSE [told[n] EXCEPT !.at = 0]]
OfTask(seq, id) == SelectSeq(seq, LAMBDA x : x.event.id = id)
View ==
    <<Readable, IF Readable THEN [id \in TaskIds |-> OfTask(Lines, id)] ELSE <<>>,
      tail, replayed, up, memory, sweep, clock, [id \in TaskIds |-> OfTask(ToldAt, id)],
      {e \in unacked : e.type \in {"Claimed", "Heartbeat"}}, faults>>
=============================================================================
