-------------------------- MODULE MCModelRequest --------------------------
(* An instance of ModelRequest for TLC. *)
EXTENDS ModelRequest

Frame(type, text, frags, finish) ==
    [type |-> type, text |-> text, frags |-> frags, finish |-> finish]
Choice(text, frags, finish) == Frame("choice", text, frags, finish)

\* A delta of the call at an index.
Delta(index, id, name, arguments) ==
    [index |-> index, adds |-> [id |-> id, name |-> name, arguments |-> arguments]]
Lead(index, arguments) == Delta(index, <<"a">>, <<"a">>, arguments)
More(index, arguments) == Delta(index, <<>>, <<>>, arguments)

MCPieces == {"a", "{", "}"}
MCJson == {<<"{", "}">>}

\* Text; interleaved calls at both indexes; a call whose id and name come twice and
\* after its arguments have begun; an index that skips one; ends with and without
\* data; frames that are no choice.
MCFrames ==
    {Choice(TRUE, <<>>, FALSE), Choice(TRUE, <<>>, TRUE),
     Choice(FALSE, <<Lead(0, <<"{">>), Lead(1, <<"{">>)>>, FALSE),
     Choice(FALSE, <<More(1, <<"}">>), More(0, <<"}">>)>>, TRUE),
     Choice(FALSE, <<More(0, <<"{">>), Lead(0, <<>>), Lead(0, <<"}">>)>>, TRUE),
     Choice(FALSE, <<Lead(1, <<"{", "}">>)>>, TRUE),
     Frame("usage", FALSE, <<>>, FALSE), Frame("done", FALSE, <<>>, FALSE),
     Frame("bad", FALSE, <<>>, FALSE)}
=============================================================================
