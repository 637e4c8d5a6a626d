--------------------------- MODULE MCTaskJournal ---------------------------
\* Two criteria on two artifacts, and snapshots that meet both, one, none, or
\* name an artifact twice.
EXTENDS TaskJournal, TLC

MCArtifact == "c1" :> "a" @@ "c2" :> "b"
MCExpected == "c1" :> "new" @@ "c2" :> "new"

Ref(id, content) == [id |-> id, content |-> content]
MCSnapshots ==
    {<<>>, <<Ref("a", "new")>>, <<Ref("a", "new"), Ref("b", "new")>>,
     <<Ref("b", "old"), Ref("a", "new")>>,
     <<Ref("a", "new"), Ref("b", "new"), Ref("b", "old")>>}
=============================================================================
