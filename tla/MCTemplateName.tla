---------------------------- MODULE MCTemplateName ----------------------------
(* Two metadata keys, "p" for project_name and "a" for author_name, in     *)
(* ProjectMetadata's field order; template names of up to three path       *)
(* segments, each a literal or a placeholder; values of up to two or three *)
(* characters.                                                             *)
EXTENDS TemplateName, TLC

MCKeys == <<<<"p">>, <<"a">>>>

\* Segments joined with "/".
JoinPath(segs) ==
    FoldLeft(LAMBDA out, i : IF i = 1 THEN segs[1] ELSE out \o <<"/">> \o segs[i],
             <<>>, [i \in 1..Len(segs) |-> i])

Segments == {<<"x">>, Placeholder(<<"p">>), Placeholder(<<"a">>)}
MCTemplates == {JoinPath(segs) : segs \in BoundedSeq(Segments, 3) \ {<<>>}}
MCExisting == MCTemplates \ {<<"x">>}

\* Values that may contain brackets, like an author "[p]".
BracketValues == BoundedSeq({"[", "]", "p", "a"}, 3)
=============================================================================
