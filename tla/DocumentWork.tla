---------------------------- MODULE DocumentWork ----------------------------
(***************************************************************************)
(* One document being summarised: chunk_text of modules/docqa/chunker.py   *)
(* and the map-reduce of modules/docqa/summarizer.py.                      *)
(*                                                                         *)
(* A character is a word character or one of the separators the splitter   *)
(* looks for; an offset counts from 0 as in the code.  A summary is its    *)
(* size and the range of chunks it stands for; a prompt is the same, with  *)
(* the number of texts it joins.  One action is one turn of a loop, or one *)
(* call of the model, which answers with a text of a size in SummarySizes, *)
(* or fails.                                                               *)
(***************************************************************************)
EXTENDS Integers, Sequences, SequencesExt

CONSTANTS
    Texts,          \* the documents
    Parameters,     \* the arguments of the call
    SummarySizes    \* how long a summary of the model may be

Join == 2           \* the two newlines between joined summaries
Characters == {"word", "line", "space", "tab"}
Arguments == [chunkChars : Int, overlap : Int, maxChunks : Int,
              maxSummaryTokens : Int, reduceMaxPasses : Int]

ASSUME TextsAreText == Texts \subseteq Seq(Characters)
ASSUME ParametersAreArguments == Parameters \subseteq Arguments
ASSUME SizesAreSizes == SummarySizes \subseteq Nat

VARIABLES
    text, arg,      \* the document and the arguments
    phase,          \* "check", "chunk", "pack", "ask", then how it ended
    chunks,         \* the chunks cut so far: from, to
    pos,            \* where the next chunk starts
    truncated,      \* the cap dropped the tail of the text
    current,        \* the summaries of the last round, none during the map
    packed,         \* how many of them the packing has placed
    todo,           \* the prompts of this round
    made,           \* the summaries made so far in this round
    passes          \* reduce rounds completed

cutting == <<chunks, pos, truncated>>
vars == <<text, arg, phase, cutting, current, packed, todo, made, passes>>

Size == Len(text)
Ended == {"refused", "done", "failed", "unavailable"}

Valid ==
    /\ arg.chunkChars > 0 /\ arg.overlap >= 0 /\ arg.overlap < arg.chunkChars
    /\ arg.maxChunks > 0 /\ arg.maxSummaryTokens > 0 /\ arg.reduceMaxPasses > 0

Blank == \A i \in 1 .. Size : text[i] # "word"

-----------------------------------------------------------------------------
(* Splitting. *)

\* The first offset a chunk from p may be cut after, and its hard limit.
Fill(p) == p + (IF arg.chunkChars \div 2 > 1 THEN arg.chunkChars \div 2 ELSE 1)
End(p) == p + arg.chunkChars

\* How good a cut at offset c is: after a blank line whose two newlines both
\* lie in the window, a newline, a space, a tab, or nothing.
Preference(p, c) ==
    CASE text[c] = "line" ->
            IF c - 1 > Fill(p) /\ text[c - 1] = "line" THEN 4 ELSE 3
      [] text[c] = "space" -> 2
      [] text[c] = "tab"   -> 1
      [] OTHER             -> 0

\* The last of the best cuts of the window; the hard limit when there is none.
BestCuts(p, candidates) ==
    {c \in candidates :
        \A d \in candidates : \/ Preference(p, d) < Preference(p, c)
                              \/ Preference(p, d) = Preference(p, c) /\ d <= c}

\* Mutant of Cuts: a window without a boundary has no hard cut.
CutsOnlyAtBoundaries(p) ==
    IF End(p) >= Size THEN {Size}
    ELSE IF Fill(p) >= End(p) THEN {End(p)}
    ELSE {c \in BestCuts(p, (Fill(p) + 1) .. End(p)) : Preference(p, c) > 0}

\* Mutant of Cuts: a boundary right after the start of the chunk will do.
CutsAnywhere(p) ==
    IF End(p) >= Size THEN {Size} ELSE BestCuts(p, (p + 1) .. End(p))

\* The offset a chunk from p ends at, as a set of one.
Cuts(p) ==
    IF End(p) >= Size THEN {Size}
    ELSE IF Fill(p) >= End(p) THEN {End(p)}
    ELSE BestCuts(p, (Fill(p) + 1) .. End(p))

\* Mutant of Resume: the overlap is carried even when that does not advance.
ResumeAlways(p, cut) == cut - arg.overlap

\* Where the chunk after the one from p to cut starts.
Resume(p, cut) == IF cut - arg.overlap > p THEN cut - arg.overlap ELSE cut

Init ==
    /\ text \in Texts /\ arg \in Parameters
    /\ phase = "check"
    /\ chunks = <<>> /\ pos = 0 /\ truncated = FALSE
    /\ current = <<>> /\ packed = 0 /\ todo = <<>> /\ made = <<>> /\ passes = 0

Refuse ==
    /\ phase = "check" /\ ~Valid
    /\ phase' = "refused"
    /\ UNCHANGED <<text, arg, cutting, current, packed, todo, made, passes>>

\* Blank text has no chunk and an empty summary, without a model call.
Begin ==
    /\ phase = "check" /\ Valid
    /\ phase' = IF Blank THEN "done" ELSE "chunk"
    /\ UNCHANGED <<text, arg, cutting, current, packed, todo, made, passes>>

\* The map round: one prompt per chunk.
Map(cs) ==
    /\ phase' = "ask"
    /\ todo' = [i \in 1 .. Len(cs) |->
                  [size |-> cs[i].to - cs[i].from, lo |-> i, hi |-> i, n |-> 1]]

Cut ==
    /\ phase = "chunk" /\ Len(chunks) < arg.maxChunks
    /\ \E cut \in Cuts(pos) :
         /\ chunks' = Append(chunks, [from |-> pos, to |-> cut])
         /\ IF cut >= Size
            THEN Map(chunks') /\ pos' = pos
            ELSE pos' = Resume(pos, cut) /\ UNCHANGED <<phase, todo>>
    /\ UNCHANGED <<text, arg, truncated, current, packed, made, passes>>

\* The cap is reached with text left.
DropTail ==
    /\ phase = "chunk" /\ Len(chunks) >= arg.maxChunks
    /\ truncated' = TRUE
    /\ Map(chunks)
    /\ UNCHANGED <<text, arg, chunks, pos, current, packed, made, passes>>

-----------------------------------------------------------------------------
(* Map and reduce. *)

Ask ==
    /\ phase = "ask" /\ Len(made) < Len(todo)
    /\ LET prompt == todo[Len(made) + 1] IN
       \E size \in SummarySizes :
         made' = Append(made, [size |-> size, lo |-> prompt.lo, hi |-> prompt.hi])
    /\ UNCHANGED <<text, arg, phase, cutting, current, packed, todo, passes>>

\* The engine is not ready, or the call or its response is bad: fail fast.
AskFails ==
    /\ phase = "ask" /\ Len(made) < Len(todo)
    /\ phase' \in {"failed", "unavailable"}
    /\ UNCHANGED <<text, arg, cutting, current, packed, todo, made, passes>>

\* Mutant of NextPhase: the number of passes is not capped.
NextPhaseForEver(n) == IF Len(made) = 1 THEN "done" ELSE "pack"

\* What follows a round, with n reduce rounds completed.
NextPhase(n) ==
    IF Len(made) = 1 THEN "done"
    ELSE IF n >= arg.reduceMaxPasses THEN "failed" ELSE "pack"

RoundOver ==
    LET n == IF current = <<>> THEN passes ELSE passes + 1 IN
    /\ phase = "ask" /\ Len(made) = Len(todo)
    /\ passes' = n
    /\ phase' = NextPhase(n)
    /\ current' = made
    /\ packed' = 0 /\ todo' = <<>> /\ made' = <<>>
    /\ UNCHANGED <<text, arg, cutting>>

\* Mutant of Fits: the separator is not counted.
FitsWithoutJoin(group, item) == group.size + item.size <= arg.chunkChars

Fits(group, item) == group.size + Join + item.size <= arg.chunkChars

\* Place the next summary: in the last group while it fits, else in its own.
Pack ==
    /\ phase = "pack" /\ packed < Len(current)
    /\ LET item == current[packed + 1]
           last == todo[Len(todo)]
       IN  todo' = IF todo # <<>> /\ Fits(last, item)
                   THEN [todo EXCEPT ![Len(todo)] =
                           [size |-> last.size + Join + item.size,
                            lo |-> last.lo, hi |-> item.hi, n |-> last.n + 1]]
                   ELSE Append(todo, [size |-> item.size, lo |-> item.lo,
                                      hi |-> item.hi, n |-> 1])
    /\ packed' = packed + 1
    /\ UNCHANGED <<text, arg, phase, cutting, current, made, passes>>

\* The terminal combine joins every summary; it never fits the budget, by how
\* much does not matter.
Combined == [size |-> arg.chunkChars + 1, lo |-> current[1].lo,
             hi |-> current[Len(current)].hi, n |-> Len(current)]

\* Mutant of Prompts: groups that shrink nothing are asked about again.
PromptsAsPacked == todo

\* Mutant of Prompts: the terminal combine keeps the first summary only.
PromptsFirstOnly == IF Len(todo) >= Len(current) THEN <<todo[1]>> ELSE todo

\* When packing does not shrink the set, one terminal prompt joins it all.
Prompts == IF Len(todo) >= Len(current) THEN <<Combined>> ELSE todo

Packed ==
    /\ phase = "pack" /\ packed = Len(current)
    /\ phase' = "ask"
    /\ todo' = Prompts
    /\ UNCHANGED <<text, arg, cutting, current, packed, made, passes>>

Next ==
    \/ Refuse \/ Begin \/ Cut \/ DropTail
    \/ Ask \/ AskFails \/ RoundOver \/ Pack \/ Packed

Spec == Init /\ [][Next]_vars

\* The loops run without a pause, and a call of the model returns or times out.
FairSpec == Spec /\ WF_vars(Next)

-----------------------------------------------------------------------------
(* Properties. *)

Summaries == [size : Nat, lo : Nat \ {0}, hi : Nat \ {0}]
PromptsOver == [size : Nat, lo : Nat \ {0}, hi : Nat \ {0}, n : Nat \ {0}]

\* The type invariant; a reduce never runs more passes than its cap
\* (summarizer.py:164-166), and never more chunks are cut than theirs.
TypeOK ==
    /\ text \in Texts /\ arg \in Parameters
    /\ phase \in {"check", "chunk", "pack", "ask"} \cup Ended
    /\ chunks \in Seq([from : Nat, to : Nat])
    /\ pos \in Nat
    /\ truncated \in BOOLEAN
    /\ current \in Seq(Summaries) /\ made \in Seq(Summaries)
    /\ todo \in Seq(PromptsOver)
    /\ packed \in 0 .. Len(current)
    /\ passes \in Nat
    /\ phase \notin {"check", "refused"} => Valid
    /\ Valid => passes <= arg.reduceMaxPasses /\ Len(chunks) <= arg.maxChunks

\* Every character before the end of the last chunk is in some chunk, no chunk
\* is empty, starts where the one before did or exceeds the budget, and the
\* rest of the text is dropped exactly when the result says truncated
\* (the splitter's promises in chunker.py:14-23, for its every input).
ChunksCoverTheText ==
    /\ \A i \in 1 .. Len(chunks) :
         /\ chunks[i].from < chunks[i].to
         /\ chunks[i].to - chunks[i].from <= arg.chunkChars
         /\ i = 1 => chunks[i].from = 0
         /\ i > 1 => /\ chunks[i - 1].from < chunks[i].from
                     /\ chunks[i].from <= chunks[i - 1].to
    /\ phase = "ask" =>
         /\ chunks # <<>> /\ Last(chunks).to <= Size
         /\ truncated <=> Last(chunks).to < Size

\* With an overlap of at most half a chunk, every chunk reaches further than
\* the one before; with a longer one a chunk may lie inside its predecessor.
EveryChunkReachesFurther ==
    2 * arg.overlap <= arg.chunkChars =>
        \A i \in 2 .. Len(chunks) : chunks[i - 1].to < chunks[i].to

\* A prompt that joins several summaries fits the budget, except the terminal
\* combine, which joins all there are (_pack, summarizer.py:104-120).
PromptsFit ==
    phase = "ask" =>
        \A i \in 1 .. Len(todo) :
            \/ todo[i].size <= arg.chunkChars
            \/ todo[i].n = 1
            \/ Len(todo) = 1 /\ todo[i].n = Len(current)

\* A run of summaries or prompts that stands for the chunks 1 .. k, in order.
Tiles(s, k) ==
    /\ \A i \in 1 .. Len(s) :
         /\ s[i].lo <= s[i].hi
         /\ s[i].lo = IF i = 1 THEN 1 ELSE s[i - 1].hi + 1
    /\ IF s = <<>> THEN k = 0 ELSE Last(s).hi = k

\* The summary that is returned stands for every chunk that was cut, once and
\* in order: no packing, oversize item or terminal combine loses a section.
NoSectionIsLost ==
    phase = "done" /\ chunks # <<>> =>
        Len(current) = 1 /\ Tiles(current, Len(chunks))

\* The splitter in every state: types, coverage and progress of the windows.
SplittingIsSound == TypeOK /\ ChunksCoverTheText /\ EveryChunkReachesFurther

\* The reduction in every state: prompts fit, and nothing is lost on the way.
ReducingIsSound == PromptsFit /\ NoSectionIsLost

\* A reduce pass leaves fewer summaries than it found (summarizer.py:10-11,
\* "each pass strictly shrinks the working set").
EveryPassShrinks ==
    [][passes' # passes => Len(current') < Len(current)]_vars

\* Every summary ends: with a text, refused, or with a typed error.
SummaryEnds == <>(phase \in Ended)
=============================================================================
