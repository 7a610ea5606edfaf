----------------------------- MODULE MCStreams ------------------------------
\* Small instances of Streams: two stream names besides all_others, and files
\* with a preamble, comments, unmanaged paths and a section behind the paths.
EXTENDS Streams, TLC

CONSTANTS n1, n2, v1, w, r1, r2

MCNames    == {n1, n2, AllOthers}
MCSources  == {[type |-> "ip", input |-> v1], [type |-> "analog", input |-> None]}
MCRequests == {r1, r2}
MCSymmetry == Permutations(MCRequests)

Key(n)  == Line("path", n)
Opt(v)  == Line("opt", v)
Note    == Line("note", None)
Blank   == Line("blank", None)
Preamble == <<Line("top", None), Note, Line("paths", None)>>

\* Untidy files: an empty line inside a block; beside it a comment behind a key, and
\* a last line without newline.
Gap    == Preamble \o <<Key(n1), Key(n2), Opt(w), Blank, Opt(w)>>
Untidy == Preamble \o <<Line("odd", AllOthers), Key(n1), Opt(w), Blank, Opt(w),
                        Key(n2), Line("cut", None)>>

MCHandFiles == {
  Preamble \o <<Note, Key(n1), Opt(w), Opt(w), Note, Key(AllOthers)>>,
  Preamble \o <<Key(n2), Key(n1), Opt(w), Blank, Line("top", None)>>,
  Untidy
}
MCGapFile == {Gap}
=============================================================================
