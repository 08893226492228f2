-------------------------- MODULE DocumentAnswers --------------------------
(***************************************************************************)
(* Documents on their way into a prompt: listing and loading               *)
(* (docqa/loaders.py), gathering chunks under the caps (docqa/tools.py),   *)
(* choosing those a question is answered from (docqa/qa.py), the bounded   *)
(* reading of an HWPX archive and the bounded rendering of a PDF           *)
(* (docqa/render.py).                                                      *)
(*                                                                         *)
(* A path is a number, which is also its place in the order of names.  A   *)
(* tree is a function from paths to                                        *)
(*   [hidden, supported, leads, size, loads, chunks, cut]:                 *)
(* where the path leads to once links are followed (0: nowhere, or out of  *)
(* the root), and for the file there its size, whether its parser accepts  *)
(* it, how many chunks it is cut into and whether its tail is dropped.     *)
(***************************************************************************)
EXTENDS Ordering, Sequences, SequencesExt

Least(a, b) == IF a < b THEN a ELSE b

Files ==
    [hidden : BOOLEAN, supported : BOOLEAN, leads : Nat, size : Nat, loads : BOOLEAN,
     chunks : Nat, cut : BOOLEAN]
IsTree(tree) ==
    IsFiniteSet(DOMAIN tree) /\ DOMAIN tree \subseteq Nat \ {0} /\ tree \in [DOMAIN tree -> Files]

Chunks == [distinct : Nat, freq : Nat, source : Nat, index : Nat, size : Nat]
Pages == [px : Nat, bytes : Nat, ok : BOOLEAN]

-----------------------------------------------------------------------------
(* Listing and loading. *)

\* list_documents: the names are looked at, the places they lead to returned.
ListDocuments(tree) ==
    LET named == {p \in DOMAIN tree : ~tree[p].hidden /\ tree[p].supported /\ tree[p].leads # 0}
        order == {p \in named \X named :
                    \/ tree[p[1]].leads < tree[p[2]].leads
                    \/ tree[p[1]].leads = tree[p[2]].leads /\ p[1] < p[2]}
    IN  [i \in 1 .. Cardinality(named) |-> tree[InOrder(named, order)[i]].leads]

\* load_document, and load_bytes with the content at hand: the first check
\* that fails names the outcome.
LoadDocument(tree, p, maxBytes) ==
    IF p \notin DOMAIN tree THEN "not_found"
    ELSE IF tree[p].size > maxBytes THEN "too_large"
    ELSE IF ~tree[p].supported THEN "unsupported"
    ELSE IF tree[p].loads THEN "ok" ELSE "load_error"

\* Mutant of HwpxBudget: every section may use the whole budget.
HwpxBudgetWhole(maxBytes, read) == maxBytes

\* What is left to read after the sections so far.
HwpxBudget(maxBytes, read) == maxBytes - read

\* One section; one byte more than is left is read, to see that there is more.
ReadSection(r, size, maxBytes) ==
    IF ~r.ok THEN r
    ELSE [ok |-> size <= HwpxBudget(maxBytes, r.bytes),
          bytes |-> r.bytes + Least(size, HwpxBudget(maxBytes, r.bytes) + 1)]

\* _hwpx_text_from_zip over the true sizes of its sections: how much was
\* decompressed, and whether that was all.  An archive without sections is
\* refused.
HwpxRead(sections, maxBytes) ==
    LET read[n \in 0 .. Len(sections)] ==
          IF n = 0 THEN [ok |-> sections # <<>>, bytes |-> 0]
          ELSE ReadSection(read[n - 1], sections[n], maxBytes)
    IN  read[Len(sections)]

RenderPage(r, page, bounds) ==
    IF r.failed THEN r
    ELSE [failed |-> ~page.ok \/ page.px > bounds.maxPx \/ r.bytes + page.bytes > bounds.maxBytes,
          bytes |-> r.bytes + page.bytes,
          shown |-> r.shown + 1]

\* render_pdf_to_images: a page is [px, bytes, ok], px after zooming down and ok
\* whether it renders in time; the pages rendered, or the error.
RenderPdf(pages, bounds) ==
    LET count == Least(Len(pages), bounds.maxPages)
        rendered[n \in 0 .. count] ==
          IF n = 0 THEN [failed |-> pages = <<>>, bytes |-> 0, shown |-> 0]
          ELSE RenderPage(rendered[n - 1], pages[n], bounds)
    IN  rendered[count]

-----------------------------------------------------------------------------
(* Gathering. *)

\* Mutant of Room: one chunk past the cap.
RoomForOneMore(out, limits) == limits.maxTotal + 1 - Len(out)

Room(out, limits) == limits.maxTotal - Len(out)

\* One document of the loop: its chunks, up to the total cap.
Gathered(tree, limits, r, p) ==
    IF r.failed \/ r.full THEN r
    ELSE IF LoadDocument(tree, p, limits.maxBytes) # "ok" THEN [r EXCEPT !.failed = TRUE]
    ELSE LET n == tree[p].chunks
             room == Room(r.out, limits)
         IN  [r EXCEPT !.out = @ \o [i \in 1 .. Least(n, room) |-> <<p, i>>],
                       !.truncated = @ \/ tree[p].cut \/ n > room,
                       !.full = n > room]

\* gather_sourced_chunks of a directory; one unreadable document fails it all.
Gather(tree, limits) ==
    LET docs == ListDocuments(tree)
        kept == Least(Len(docs), limits.maxDocs)
        gathered[n \in 0 .. kept] ==
          IF n = 0 THEN [out |-> <<>>, truncated |-> Len(docs) > limits.maxDocs,
                         failed |-> FALSE, full |-> FALSE]
          ELSE Gathered(tree, limits, gathered[n - 1], docs[n])
    IN  gathered[kept]

-----------------------------------------------------------------------------
(* Choosing.  A chunk is [distinct, freq, source, index, size]: how many   *)
(* terms of the question it has, and how often.                            *)

\* Where chunk i is ranked against chunk j.
Before(chunks, i, j) ==
    LET a == chunks[i]
        b == chunks[j]
    IN  \/ a.distinct > b.distinct
        \/ a.distinct = b.distinct /\ a.freq > b.freq
        \/ a.distinct = b.distinct /\ a.freq = b.freq /\ a.source < b.source
        \/ a.distinct = b.distinct /\ a.freq = b.freq /\ a.source = b.source
             /\ a.index < b.index
        \/ a.distinct = b.distinct /\ a.freq = b.freq /\ a.source = b.source
             /\ a.index = b.index /\ i < j

Matching(chunks) == {i \in DOMAIN chunks : chunks[i].distinct > 0}
Ranked(chunks) ==
    InOrder(Matching(chunks),
            {p \in Matching(chunks) \X Matching(chunks) : Before(chunks, p[1], p[2])})

\* Mutant of Chosen: a chunk that does not fit ends the choice.
ChosenUntilFull(chunks, limits, r, i) ==
    IF r.stop \/ Len(r.picked) >= limits.topK THEN r
    ELSE IF r.picked # <<>> /\ r.used + chunks[i].size > limits.maxContext
    THEN [r EXCEPT !.stop = TRUE]
    ELSE [r EXCEPT !.picked = Append(@, i), !.used = @ + chunks[i].size]

\* One turn of the loop: the best chunk always, any other while it fits.
Chosen(chunks, limits, r, i) ==
    IF Len(r.picked) >= limits.topK THEN r
    ELSE IF r.picked # <<>> /\ r.used + chunks[i].size > limits.maxContext THEN r
    ELSE [r EXCEPT !.picked = Append(@, i), !.used = @ + chunks[i].size]

\* select_chunks, as positions in the list.
SelectChunks(chunks, limits) ==
    LET count == Cardinality(Matching(chunks))
        selected[n \in 0 .. count] ==
          IF n = 0 THEN [picked |-> <<>>, used |-> 0, stop |-> FALSE]
          ELSE Chosen(chunks, limits, selected[n - 1], Ranked(chunks)[n])
    IN  selected[count].picked

\* answer_question: what the model's reply, or its failure, leads to.
AnswerQuestion(chunks, limits, reply) ==
    LET picked == SelectChunks(chunks, limits) IN
    IF picked = <<>> \/ reply = "NO_ANSWER"
    THEN [outcome |-> "not_found", citations |-> <<>>]
    ELSE CASE reply = "not_ready"         -> [outcome |-> "unavailable", citations |-> <<>>]
           [] reply \in {"fails", "odd"} -> [outcome |-> "failed", citations |-> <<>>]
           [] OTHER                       -> [outcome |-> "answered", citations |-> picked]

-----------------------------------------------------------------------------
(* Properties. *)

Total(sizes) ==
    LET sum[n \in 0 .. Len(sizes)] == IF n = 0 THEN 0 ELSE sum[n - 1] + sizes[n]
    IN  sum[Len(sizes)]

\* A query over a directory gives the first chunks of its first documents, in
\* order, and says so exactly when anything is left out: a document beyond the
\* cap, a chunk beyond the total, the tail of a document.  It fails exactly
\* when a document it has to open, before the chunks are complete, is
\* unreadable: the cap reached exactly does not stop it from opening the next
\* (docqa/tools.py:107-123).
GatheringIsHonest(tree, limits) ==
    LET docs == ListDocuments(tree)
        seen == Least(Len(docs), limits.maxDocs)
        chunksOf(i) == IF docs[i] \in DOMAIN tree THEN tree[docs[i]].chunks ELSE 0
        before(i) == Total([j \in 1 .. i - 1 |-> chunksOf(j)])
        opened == {i \in 1 .. seen : before(i) <= limits.maxTotal}
        result == Gather(tree, limits)
    IN  /\ result.failed <=>
             \E i \in opened : LoadDocument(tree, docs[i], limits.maxBytes) # "ok"
        /\ ~result.failed =>
             /\ Len(result.out) = Least(before(seen + 1), limits.maxTotal)
             /\ \A n \in 2 .. Len(result.out) :
                  \/ result.out[n][1] = result.out[n - 1][1]
                       /\ result.out[n][2] = result.out[n - 1][2] + 1
                  \/ result.out[n - 1][1] <= result.out[n][1] /\ result.out[n][2] = 1
             /\ result.truncated <=> \/ Len(docs) > limits.maxDocs
                                     \/ before(seen + 1) > limits.maxTotal
                                     \/ \E i \in opened : tree[docs[i]].cut

\* The chunks a question is answered from are in the order of their rank, the
\* best one among them; they fit the budget unless that one alone does not; and
\* none that matches is left out while there is room for it in number and in
\* size (docqa/qa.py:89-123).  Citations name those chunks, and only with an
\* answer.
ChunksAreBest(chunks, limits, reply) ==
    LET picked == SelectChunks(chunks, limits)
        used == Total([n \in DOMAIN picked |-> chunks[picked[n]].size])
        matching == Matching(chunks)
        answer == AnswerQuestion(chunks, limits, reply)
    IN  /\ \A n \in 2 .. Len(picked) : Before(chunks, picked[n - 1], picked[n])
        /\ \A i \in matching : picked # <<>> /\ ~Before(chunks, i, picked[1])
        /\ Len(picked) <= limits.topK
        /\ used > limits.maxContext => Len(picked) = 1
        /\ \A i \in matching \ ToSet(picked) :
              Len(picked) = limits.topK \/ used + chunks[i].size > limits.maxContext
        /\ ToSet(picked) \subseteq matching
        /\ answer.citations \in {<<>>, picked}
        /\ answer.citations # <<>> <=> answer.outcome = "answered"

\* An untrusted archive or PDF is parsed within its bounds whatever it holds:
\* never more than the cap is decompressed but for the byte that shows it, and
\* no archive within the cap is refused; the pages rendered are within the
\* number and the bytes allowed, and a whole document in bounds is shown whole
\* (loaders.py:165-189, render.py:32-91).
ParsersStayBounded(sections, pages, bounds) ==
    LET read == HwpxRead(sections, bounds.maxBytes)
        shown == RenderPdf(pages, bounds)
    IN  /\ read.bytes <= bounds.maxBytes + 1
        /\ read.ok <=> sections # <<>> /\ Total(sections) <= bounds.maxBytes
        /\ ~shown.failed => /\ shown.shown = Least(Len(pages), bounds.maxPages)
                            /\ shown.bytes <= bounds.maxBytes
        /\ /\ pages # <<>> /\ Len(pages) <= bounds.maxPages
           /\ \A n \in DOMAIN pages : pages[n].ok /\ pages[n].px <= bounds.maxPx
           /\ Total([n \in DOMAIN pages |-> pages[n].bytes]) <= bounds.maxBytes
           => ~shown.failed
=============================================================================
