--------------------------- MODULE MCDocumentWork ---------------------------
(***************************************************************************)
(* Every text of up to four characters, four longer ones, and arguments    *)
(* on both sides of every check: budgets of one to five characters, with   *)
(* overlaps up to the largest that is accepted, and summaries of one to    *)
(* five characters.                                                        *)
(***************************************************************************)
EXTENDS DocumentWork

CONSTANT ShortTexts

W == "word"
L == "line"
S == "space"
T == "tab"

MCTexts ==
    UNION {[1 .. n -> Characters] : n \in 0 .. ShortTexts}
      \cup {<<W, W, W, L, L, W, W>>, <<W, S, W, T, W, L, W, W>>,
            <<L, W, L, L, W, S, S, W>>, <<W, W, W, W, W, W, W, W>>}

With(chars, overlap, max, passLimit) ==
    [chunkChars |-> chars, overlap |-> overlap, maxChunks |-> max,
     maxSummaryTokens |-> 1, reduceMaxPasses |-> passLimit]

MCParameters ==
    {With(1, 0, 4, 2), With(2, 1, 5, 1), With(3, 0, 2, 1), With(3, 1, 4, 2),
     With(3, 2, 4, 1), With(4, 1, 4, 2), With(4, 3, 4, 1), With(5, 2, 4, 2)}
      \cup {With(0, 0, 1, 1), With(2, 2, 1, 1), With(2, -1, 1, 1), With(2, 0, 0, 1),
            With(2, 0, 1, 0), [With(2, 0, 1, 1) EXCEPT !.maxSummaryTokens = 0]}
=============================================================================
