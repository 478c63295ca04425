----------------------------- MODULE MCChunking -----------------------------
(* Instances of Chunking for TLC.                                          *)
EXTENDS Chunking, TLC

classOf == [x |-> "letter", s |-> "stop", n |-> "newline", b |-> "blank"]

\* A block of a shape, say <<"x", "s">>; its characters are numbered from id.
chars(shape, id) == [k \in DOMAIN shape |-> [class |-> classOf[shape[k]], id |-> id + k]]

block(kind, level, shape, id) ==
    [kind |-> kind, level |-> level, tagged |-> level > 0, text |-> chars(shape, id)]

\* Every text of letters and stops, of lengths below, at, and above the limits.
Shapes == UNION {[1 .. n -> {"x", "s"}] : n \in {1, 8, 9, 11}}

\* White space at the ends, and around the breaks.
WhiteShapes == {<<"b", "x", "n", "b", "x", "x", "x", "x", "n", "x">>,
                <<"n", "n", "n", "n", "n", "n", "n", "n", "n", "n", "x">>,
                <<"x", "x", "x", "x", "x", "b", "b", "b", "b", "b", "x", "x">>}

oneLong == {<<<<block("text", 0, shape, 0)>>>> : shape \in Shapes \union WhiteShapes}

short == {<<"x">>, <<"x", "s">>, <<"x", "x", "s", "x">>}
shortBlocks(id) == {block(k, 0, shape, id) : k \in {"text", "formula"}, shape \in short}
                   \union {block("table", 0, <<"x">>, id), block("text", 1, <<"x">>, id),
                           block("text", 3, <<"x", "x">>, id), block("text", 0, <<"b">>, id)}

\* Three short blocks on one page, or on two.
shortOnes ==
    {<<<<b1, b2, b3>>>> : b1 \in shortBlocks(0), b2 \in shortBlocks(10), b3 \in shortBlocks(20)}
    \union
    {<<<<b1, b2>>, <<b3>>>> : b1 \in shortBlocks(0), b2 \in shortBlocks(10), b3 \in shortBlocks(20)}

\* A long text after a short one, and a short one on the next page.
mixed == {<<<<b1, block("text", 0, shape, 10)>>, <<b3>>>> :
             b1 \in shortBlocks(0), b3 \in {block("text", 0, <<"x", "s">>, 30)},
             shape \in WhiteShapes \union {<<"x", "x", "x", "s", "x", "x", "x", "x", "x", "x", "s", "x">>}}

TheDocuments == oneLong \union shortOnes \union mixed

=============================================================================
