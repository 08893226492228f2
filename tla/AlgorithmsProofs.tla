-------------------------- MODULE AlgorithmsProofs -------------------------
(***************************************************************************)
(* Proofs about the parts of Algorithms and about the summary of a         *)
(* document: first web_answer, whatever names resolve to and pages hold;   *)
(* then the summary, for every text, every arguments and every length of   *)
(* the model's answers; then what FunctionProofs shows of the functions,   *)
(* for every input a behaviour of Algorithms may pick.                     *)
(***************************************************************************)
EXTENDS Algorithms, DocumentWork, FunctionProofs

-----------------------------------------------------------------------------
(* web_answer. *)

Request == [url : Urls, checked : SUBSET Addresses, address : Addresses]
Page == [url : Urls, hit : Nat, via : Seq(Request)]

Typed == WebTypeOK /\ sent \in Seq(Request) /\ pages \in Seq(Page)

\* What a hop in progress may rely on: its own check, and a count of the
\* requests made for this hit.
HopIsChecked ==
    stage = "request" =>
        /\ Contained(url, pinned)
        /\ Len(sent) = hops

\* Pages come from hits already started, the current one excepted while its
\* fetch goes on.
PagesFollowHits ==
    /\ Len(hits) <= TopN
    /\ Len(pages) <= hit
    /\ \A i \in 1 .. Len(pages) : pages[i].hit <= hit
    /\ stage = "request" => /\ Len(pages) < hit
                            /\ \A i \in 1 .. Len(pages) : pages[i].hit < hit
    /\ stage = "search" => hit = 0

WebInv ==
    Typed /\ HopIsChecked /\ PagesFollowHits /\ FetchesStayContained /\ AnswersRestOnPages

-----------------------------------------------------------------------------
(* One request more. *)

\* What is in a sequence after an append.
LEMMA AppendToSet ==
    ASSUME NEW S, NEW s \in Seq(S), NEW e \in S
    PROVE  /\ Append(s, e) \in Seq(S) /\ Len(Append(s, e)) = Len(s) + 1
           /\ Append(s, e)[Len(s) + 1] = e
           /\ \A i \in 1 .. Len(s) : Append(s, e)[i] = s[i]
           /\ ToSet(Append(s, e)) = ToSet(s) \cup {e}
  BY DEF ToSet

\* A request of a checked hop keeps the fetch sound, and is for its URL.
LEMMA RequestIsSound ==
    ASSUME WebInv, stage = "request", Requested
    PROVE  /\ sent' \in Seq(Request) /\ Len(sent') = hops + 1
           /\ sent'[Len(sent')].url = url
           /\ Sound(sent')
<1>1. PICK address \in pinned :
        sent' = Append(sent, [url |-> url, checked |-> pinned, address |-> address])
  BY DEF Requested
<1> DEFINE r == [url |-> url, checked |-> pinned, address |-> address]
<1>2. r \in Request
  BY DEF WebInv, Typed, WebTypeOK, Request
<1>3. /\ sent' \in Seq(Request) /\ Len(sent') = Len(sent) + 1
      /\ sent'[Len(sent) + 1] = r
      /\ ToSet(sent') = ToSet(sent) \cup {r}
  BY <1>1, <1>2, AppendToSet DEF WebInv, Typed
<1>4. Len(sent) = hops /\ hops \in 0 .. MaxRedirects
  BY DEF WebInv, Typed, WebTypeOK, HopIsChecked
<1>5. /\ r.address \in r.checked /\ r.checked \subseteq PublicAddresses
      /\ r.url.form = "good"
      /\ AllowedHosts # {} => r.url.host \in AllowedHosts
  BY DEF WebInv, HopIsChecked, Contained
<1>6. Sound(sent')
  <2>1. Len(sent') <= MaxRedirects + 1
    BY <1>3, <1>4, BoundsAreNumbers
  <2> QED
    BY <2>1, <1>3, <1>5 DEF Sound, WebInv, FetchesStayContained
<1> QED
  BY <1>3, <1>4, <1>6

-----------------------------------------------------------------------------
(* The invariant. *)

LEMMA WebInitInv == WebInit => WebInv
<1> SUFFICES ASSUME WebInit PROVE WebInv
  OBVIOUS
<1>1. Unchosen \in Urls
  BY ThereIsAHost DEF Unchosen, Urls
<1>2. ToSet(<<>>) = {}
  BY DEF ToSet
<1>3. Typed
  <2>1. hit \in 0 .. Len(hits) /\ hops \in 0 .. MaxRedirects
    BY BoundsAreNumbers DEF WebInit
  <2>2. <<>> \in Seq(Urls) /\ <<>> \in Seq(Request) /\ <<>> \in Seq(Page)
    OBVIOUS
  <2>3. WebTypeOK
    BY <1>1, <2>1, <2>2 DEF WebInit, WebTypeOK
  <2> QED
    BY <2>2, <2>3 DEF WebInit, Typed
<1> QED
  BY <1>2, <1>3, BoundsAreNumbers
  DEF WebInv, WebInit, HopIsChecked, PagesFollowHits, FetchesStayContained,
      AnswersRestOnPages, Sound

\* Steps that neither fetch nor answer leave pages and citations alone.
LEMMA SearchKeepsInv ==
    ASSUME WebInv, SearchReturns \/ SearchFails PROVE WebInv'
<1>1. CASE SearchReturns
  <2>1. hits' \in Seq(Urls) /\ Len(hits') <= TopN
    BY <1>1, BoundsAreNumbers DEF SearchReturns
  <2> QED
    BY <2>1, <1>1 DEF SearchReturns, WebInv, Typed, WebTypeOK, Ends, HopIsChecked,
       PagesFollowHits, FetchesStayContained, AnswersRestOnPages, Sound
<1>2. CASE SearchFails
  BY <1>2 DEF SearchFails, WebInv, Typed, WebTypeOK, Ends, HopIsChecked,
     PagesFollowHits, FetchesStayContained, AnswersRestOnPages, Sound
<1> QED
  BY <1>1, <1>2

LEMMA NextHitKeepsInv == ASSUME WebInv, NextHit PROVE WebInv'
<1> USE DEF WebInv, Typed, WebTypeOK
<1>1. UNCHANGED <<hits, pages, late, citations>> /\ stage = "page"
  BY DEF NextHit
<1>2. CASE hit < Len(hits) /\ ~late
  <2>1. PICK resolved \in SUBSET Addresses :
          /\ hit' = hit + 1 /\ hops' = 0 /\ sent' = <<>>
          /\ IF Contained(hits[hit + 1], resolved)
             THEN stage' = "request" /\ url' = hits[hit + 1] /\ pinned' = resolved
             ELSE stage' = "page" /\ UNCHANGED <<url, pinned>>
    BY <1>2 DEF NextHit
  <2>2. hits[hit + 1] \in Urls /\ hit' \in 0 .. Len(hits)
    BY <1>2, <2>1
  <2>3. Typed'
    BY <2>1, <2>2, <1>1, BoundsAreNumbers DEF Contained
  <2>4. HopIsChecked'
    BY <2>1 DEF HopIsChecked, Contained
  <2>5. PagesFollowHits'
    <3>1. hit \in Nat /\ Len(pages) \in Nat /\ pages \in Seq(Page)
      OBVIOUS
    <3>2. \A i \in 1 .. Len(pages) : pages[i].hit \in Nat
      <4> SUFFICES ASSUME NEW i \in 1 .. Len(pages) PROVE pages[i].hit \in Nat
        OBVIOUS
      <4>1. pages[i] \in Page
        BY <3>1
      <4> QED
        BY <4>1 DEF Page
    <3>3. /\ Len(hits) <= TopN /\ Len(pages) <= hit
          /\ \A i \in 1 .. Len(pages) : pages[i].hit <= hit
      BY <1>1 DEF PagesFollowHits
    <3>4. Len(pages) < hit' /\ \A i \in 1 .. Len(pages) : pages[i].hit < hit'
      BY <3>1, <3>2, <3>3, <2>1
    <3>5. stage' # "search"
      BY <2>1
    <3> HIDE DEF WebInv, Typed, WebTypeOK
    <3> QED
      BY <3>1, <3>2, <3>3, <3>4, <3>5, <2>1, <1>1 DEF PagesFollowHits
  <2>6. FetchesStayContained'
    <3>1. ToSet(<<>>) = {}
      BY DEF ToSet
    <3> QED
      BY <3>1, <2>1, <1>1, BoundsAreNumbers DEF FetchesStayContained, Sound
  <2>7. AnswersRestOnPages'
    BY <2>1, <1>1 DEF AnswersRestOnPages
  <2> QED
    BY <2>3, <2>4, <2>5, <2>6, <2>7
<1>3. CASE ~(hit < Len(hits) /\ ~late)
  <2>1. /\ UNCHANGED <<hits, hit, url, hops, pinned, sent, pages, late, citations>>
        /\ stage' \in {"no_pages", "answer"}
    BY <1>3 DEF NextHit
  <2> QED
    BY <2>1, <1>1 DEF Ends, HopIsChecked, PagesFollowHits, FetchesStayContained,
       AnswersRestOnPages, Sound
<1> QED
  BY <1>2, <1>3

\* A redirect: what is checked for the next hop is what it may use.
LEMMA RedirectedKeepsInv == ASSUME WebInv, Redirected PROVE WebInv'
<1>1. /\ stage = "request" /\ Requested
      /\ UNCHANGED <<hits, hit, pages, late, citations>>
  BY DEF Redirected
<1>2. sent' \in Seq(Request) /\ Len(sent') = hops + 1 /\ Sound(sent')
  BY <1>1, RequestIsSound
<1>3. PICK target \in Urls, resolved \in SUBSET Addresses :
         IF hops + 1 > MaxRedirects \/ ~Contained(target, resolved)
         THEN stage' = "page" /\ UNCHANGED <<hops, url, pinned>>
         ELSE /\ hops' = hops + 1 /\ url' = target /\ pinned' = resolved
              /\ UNCHANGED stage
  BY DEF Redirected
<1>4. Typed'
  BY <1>1, <1>2, <1>3, BoundsAreNumbers DEF WebInv, Typed, WebTypeOK, Contained
<1>5. HopIsChecked'
  BY <1>1, <1>2, <1>3 DEF HopIsChecked, Contained
<1>6. PagesFollowHits'
  BY <1>1, <1>3 DEF WebInv, PagesFollowHits
<1>7. FetchesStayContained'
  BY <1>1, <1>2 DEF WebInv, FetchesStayContained, Sound
<1>8. AnswersRestOnPages'
  BY <1>1, <1>3 DEF WebInv, AnswersRestOnPages
<1> QED
  BY <1>4, <1>5, <1>6, <1>7, <1>8 DEF WebInv

\* The redirect that cannot be parsed is counted, and is the last request.
LEMMA RedirectMalformedKeepsInv == ASSUME WebInv, RedirectMalformed PROVE WebInv'
<1>1. /\ stage = "request" /\ Requested /\ stage' = "raised"
      /\ hops' = hops + 1 /\ hops + 1 <= MaxRedirects
      /\ UNCHANGED <<hits, hit, url, pinned, pages, late, citations>>
  BY DEF RedirectMalformed
<1>2. sent' \in Seq(Request) /\ Sound(sent')
  BY <1>1, RequestIsSound
<1>3. Typed'
  BY <1>1, <1>2, BoundsAreNumbers DEF WebInv, Typed, WebTypeOK, Ends
<1> QED
  BY <1>1, <1>2, <1>3 DEF WebInv, HopIsChecked, PagesFollowHits, FetchesStayContained,
     AnswersRestOnPages, Sound

LEMMA RequestFailsKeepsInv == ASSUME WebInv, RequestFails PROVE WebInv'
<1>1. /\ stage = "request" /\ Requested /\ stage' = "page"
      /\ UNCHANGED <<hits, hit, url, hops, pinned, pages, late, citations>>
  BY DEF RequestFails
<1>2. sent' \in Seq(Request) /\ Sound(sent')
  BY <1>1, RequestIsSound
<1> QED
  BY <1>1, <1>2 DEF WebInv, Typed, WebTypeOK, HopIsChecked, PagesFollowHits,
     FetchesStayContained, AnswersRestOnPages, Sound

\* A page: the new one comes from a later hit and from its last request's URL.
LEMMA PageArrivesKeepsInv == ASSUME WebInv, PageArrives PROVE WebInv'
<1>1. /\ stage = "request" /\ Requested /\ stage' = "page"
      /\ pages' \in {pages, Append(pages, [url |-> url, hit |-> hit, via |-> sent'])}
      /\ UNCHANGED <<hits, hit, url, hops, pinned, late, citations>>
  BY DEF PageArrives
<1>2. /\ sent' \in Seq(Request) /\ Len(sent') = hops + 1
      /\ sent'[Len(sent')].url = url /\ Sound(sent')
  BY <1>1, RequestIsSound
<1>3. CASE pages' = pages
  BY <1>1, <1>2, <1>3 DEF WebInv, Typed, WebTypeOK, HopIsChecked, PagesFollowHits,
     FetchesStayContained, AnswersRestOnPages, Sound
<1>4. CASE pages' # pages
  <2> DEFINE p == [url |-> url, hit |-> hit, via |-> sent']
  <2>1. p \in Page
    BY <1>2 DEF WebInv, Typed, WebTypeOK, Page
  <2>2. /\ pages' \in Seq(Page) /\ Len(pages') = Len(pages) + 1
        /\ pages'[Len(pages) + 1] = p
        /\ \A i \in 1 .. Len(pages) : pages'[i] = pages[i]
        /\ ToSet(pages') = ToSet(pages) \cup {p}
    <3>1. pages' = Append(pages, p) /\ pages \in Seq(Page)
      BY <1>1, <1>4 DEF WebInv, Typed
    <3> HIDE DEF p
    <3> QED
      BY <2>1, <3>1, AppendToSet
  <2>3. Len(pages) \in Nat /\ hit \in Nat /\ Len(hits) \in Nat /\ hit <= Len(hits)
    BY DEF WebInv, Typed, WebTypeOK
  <2>4. Typed'
    BY <1>1, <1>2, <2>2 DEF WebInv, Typed, WebTypeOK
  <2>5. HopIsChecked'
    BY <1>1 DEF HopIsChecked
  <2>6. PagesFollowHits'
    <3>1. Len(hits) <= TopN /\ Len(pages') <= hit
      BY <1>1, <2>2, <2>3 DEF WebInv, PagesFollowHits
    <3>2. \A i \in 1 .. Len(pages') : pages'[i].hit <= hit
      <4> SUFFICES ASSUME NEW i \in 1 .. Len(pages') PROVE pages'[i].hit <= hit
        OBVIOUS
      <4>1. CASE i \in 1 .. Len(pages)
        BY <4>1, <2>2 DEF WebInv, PagesFollowHits
      <4>2. CASE i = Len(pages) + 1
        BY <4>2, <2>2, <2>3
      <4> QED
        BY <4>1, <4>2, <2>2, <2>3
    <3> QED
      BY <1>1, <3>1, <3>2 DEF PagesFollowHits
  <2>7. FetchesStayContained'
    BY <1>2, <2>2 DEF WebInv, FetchesStayContained, Sound
  <2>8. AnswersRestOnPages'
    <3>1. Len(pages') <= TopN
      BY <1>1, <2>2, <2>3, BoundsAreNumbers DEF WebInv, PagesFollowHits
    <3>2. \A i \in 1 .. Len(pages') :
             /\ pages'[i].url = pages'[i].via[Len(pages'[i].via)].url
             /\ i > 1 => pages'[i - 1].hit < pages'[i].hit
      <4> SUFFICES ASSUME NEW i \in 1 .. Len(pages')
                   PROVE  /\ pages'[i].url = pages'[i].via[Len(pages'[i].via)].url
                          /\ i > 1 => pages'[i - 1].hit < pages'[i].hit
        OBVIOUS
      <4>1. CASE i \in 1 .. Len(pages)
        <5>1. i > 1 => i - 1 \in 1 .. Len(pages)
          BY <4>1, <2>3
        <5>2. /\ pages[i].url = pages[i].via[Len(pages[i].via)].url
              /\ i > 1 => pages[i - 1].hit < pages[i].hit
          BY <4>1 DEF WebInv, AnswersRestOnPages
        <5>3. pages'[i] = pages[i] /\ (i > 1 => pages'[i - 1] = pages[i - 1])
          BY <4>1, <5>1, <2>2
        <5> QED
          BY <5>2, <5>3
      <4>2. CASE i = Len(pages) + 1
        <5>1. pages'[i].url = pages'[i].via[Len(pages'[i].via)].url
          BY <4>2, <2>2, <1>2
        <5>2. i > 1 => pages'[i - 1].hit < hit
          <6> SUFFICES ASSUME i > 1 PROVE pages'[i - 1].hit < hit
            OBVIOUS
          <6>1. i - 1 = Len(pages) /\ Len(pages) \in 1 .. Len(pages)
            BY <4>2, <2>3
          <6>2. pages[Len(pages)].hit < hit
            BY <6>1, <1>1 DEF WebInv, PagesFollowHits
          <6> QED
            BY <6>1, <6>2, <2>2
        <5> QED
          BY <4>2, <5>1, <5>2, <2>2
      <4> QED
        BY <4>1, <4>2, <2>2, <2>3
    <3>3. citations' \subseteq {page.url : page \in ToSet(pages')}
      BY <1>1, <2>2 DEF WebInv, AnswersRestOnPages
    <3>4. stage' = "answered" <=> citations' # {}
      BY <1>1 DEF WebInv, AnswersRestOnPages
    <3> QED
      BY <3>1, <3>2, <3>3, <3>4 DEF AnswersRestOnPages
  <2> QED
    BY <2>4, <2>5, <2>6, <2>7, <2>8 DEF WebInv
<1> QED
  BY <1>3, <1>4

LEMMA AnswerKeepsInv ==
    ASSUME WebInv, TimePasses \/ Answer \/ NoAnswer PROVE WebInv'
<1> USE DEF WebInv, Typed, WebTypeOK, Ends, HopIsChecked, PagesFollowHits,
        FetchesStayContained, AnswersRestOnPages, Sound
<1>1. CASE TimePasses
  BY <1>1 DEF TimePasses
<1>2. CASE Answer
  <2>1. PICK used \in (SUBSET {page.url : page \in ToSet(pages)}) \ {{}} : citations' = used
    BY <1>2 DEF Answer
  <2> QED
    BY <1>2, <2>1 DEF Answer
<1>3. CASE NoAnswer
  BY <1>3 DEF NoAnswer
<1> QED
  BY <1>1, <1>2, <1>3

LEMMA WebInvariant == WebSpec => []WebInv
<1>1. WebInv /\ [WebNext]_webVars => WebInv'
  <2> SUFFICES ASSUME WebInv, [WebNext]_webVars PROVE WebInv'
    OBVIOUS
  <2>1. CASE WebNext
    BY <2>1, SearchKeepsInv, NextHitKeepsInv, RedirectedKeepsInv, RedirectMalformedKeepsInv,
       RequestFailsKeepsInv, PageArrivesKeepsInv, AnswerKeepsInv DEF WebNext
  <2>2. CASE UNCHANGED webVars
    BY <2>2 DEF webVars, WebInv, Typed, WebTypeOK, HopIsChecked, PagesFollowHits,
       FetchesStayContained, AnswersRestOnPages, Sound
  <2> QED
    BY <2>1, <2>2
<1> QED
  BY WebInitInv, <1>1, PTL DEF WebSpec

-----------------------------------------------------------------------------
(* The theorems. *)

\* web_answer's state is well formed, and a request is only ever on its way to
\* addresses that were checked (tools.py:141-199).
THEOREM WebTypes == WebSpec => []WebTypeOK
<1>1. WebInv => WebTypeOK
  BY DEF WebInv, Typed
<1> QED
  BY WebInvariant, <1>1, PTL

\* Every request goes to an address checked for its own hop, on an allowed
\* host, within the bound on redirects, however names and pages change
\* (fetcher.py:276-295, transport.py:34-73).
THEOREM FetchesAreContained == WebSpec => []FetchesStayContained
<1>1. WebInv => FetchesStayContained
  BY DEF WebInv
<1> QED
  BY WebInvariant, <1>1, PTL

\* The answer rests on pages really fetched, at most one for each of the first
\* TopN hits, and cites no other (tools.py:156-198).
THEOREM PagesAreReal == WebSpec => []AnswersRestOnPages
<1>1. WebInv => AnswersRestOnPages
  BY DEF WebInv
<1> QED
  BY WebInvariant, <1>1, PTL

\* The three together: for any hosts, addresses, allowlist and limits.
THEOREM WebAnswersStaySound == WebSpec => []WebAnswersAreSound
BY WebTypes, FetchesAreContained, PagesAreReal, PTL DEF WebAnswersAreSound

-----------------------------------------------------------------------------
(* The summary of a document. *)

Chunk == [from : Nat, to : Nat]

\* What each phase finds of the sequences it works on.
PhaseShape ==
    /\ phase \in {"check", "chunk"} =>
         current = <<>> /\ todo = <<>> /\ made = <<>> /\ packed = 0 /\ passes = 0
    /\ phase = "ask" => todo # <<>> /\ Len(made) <= Len(todo)
    /\ phase = "ask" /\ current # <<>> => Len(todo) < Len(current)
    /\ phase = "pack" => /\ Len(current) > 1
                         /\ made = <<>>
                         /\ packed = 0 <=> todo = <<>>
    /\ phase \in {"pack", "ask"} => passes < arg.reduceMaxPasses

\* Where the splitter stands: the next chunk starts inside the last one or at
\* its end, at most an overlap back.
CutPosition ==
    /\ phase = "check" => chunks = <<>> /\ pos = 0 /\ ~truncated
    /\ phase = "chunk" =>
         /\ pos < Size /\ ~truncated
         /\ chunks = <<>> => pos = 0
         /\ chunks # <<>> => /\ Last(chunks).from < pos
                             /\ pos <= Last(chunks).to
                             /\ Last(chunks).to - arg.overlap <= pos
                             /\ Last(chunks).to < Size
    /\ phase = "pack" => /\ chunks # <<>> /\ Last(chunks).to <= Size
                         /\ truncated <=> Last(chunks).to < Size

\* The packing keeps to the budget from the start.
PackingFits ==
    phase = "pack" =>
        \A i \in 1 .. Len(todo) : todo[i].size <= arg.chunkChars \/ todo[i].n = 1

\* What the summaries and the prompts of each phase stand for.
StandsFor ==
    /\ phase = "ask" =>
         /\ Tiles(todo, Len(chunks))
         /\ \A i \in 1 .. Len(made) : made[i].lo = todo[i].lo /\ made[i].hi = todo[i].hi
    /\ phase = "pack" =>
         /\ Tiles(current, Len(chunks))
         /\ Tiles(todo, IF packed = 0 THEN 0 ELSE current[packed].hi)

\* The inductive invariants: the shape, then the splitting, then the reduce.
Shape == TypeOK /\ PhaseShape
Splitting == ChunksCoverTheText /\ EveryChunkReachesFurther /\ CutPosition
Reducing == PromptsFit /\ PackingFits /\ StandsFor /\ NoSectionIsLost

-----------------------------------------------------------------------------
(* The splitter's arithmetic. *)

\* A cut ends a chunk that is not empty and not over the budget, and, before
\* the end of the text, more than half full.
LEMMA CutInWindow ==
    ASSUME TypeOK, Valid, NEW p \in Nat, p < Size, NEW cut \in Cuts(p)
    PROVE  /\ cut \in Nat /\ p < cut /\ cut <= Size
           /\ cut - p <= arg.chunkChars
           /\ cut < Size => 2 * (cut - p) > arg.chunkChars
<1> DEFINE cc == arg.chunkChars
<1>1. cc \in Nat /\ cc > 0 /\ Size \in Nat
  BY ParametersAreArguments, TextsAreText DEF TypeOK, Valid, Arguments, Size
<1>2. CASE End(p) >= Size
  <2>1. cut = Size
    BY <1>2 DEF Cuts
  <2> QED
    BY <2>1, <1>1, <1>2 DEF End
<1>3. CASE ~(End(p) >= Size) /\ Fill(p) >= End(p)
  <2>1. cut = End(p)
    BY <1>3 DEF Cuts
  <2> QED
    BY <2>1, <1>1, <1>3 DEF End
<1>4. CASE ~(End(p) >= Size) /\ ~(Fill(p) >= End(p))
  <2>1. cut \in (Fill(p) + 1) .. End(p)
    BY <1>4 DEF Cuts, BestCuts
  <2>2. Fill(p) \in Nat /\ Fill(p) > p /\ 2 * (Fill(p) + 1 - p) > cc
    BY <1>1 DEF Fill
  <2> HIDE DEF cc
  <2>3. End(p) = p + cc
    BY DEF End, cc
  <2> QED
    BY <2>1, <2>2, <2>3, <1>1, <1>4 DEF cc
<1> QED
  BY <1>2, <1>3, <1>4

LEMMA ResumeAdvances ==
    ASSUME TypeOK, Valid, NEW p \in Nat, NEW cut \in Nat, p < cut
    PROVE  /\ Resume(p, cut) \in Nat
           /\ p < Resume(p, cut) /\ Resume(p, cut) <= cut
           /\ cut - arg.overlap <= Resume(p, cut)
<1>1. arg.overlap \in Int /\ arg.overlap >= 0
  BY ParametersAreArguments DEF TypeOK, Valid, Arguments
<1> QED
  BY <1>1 DEF Resume

-----------------------------------------------------------------------------
(* The shape of the state. *)

LEMMA ArgumentsTyped ==
    ASSUME TypeOK
    PROVE  /\ arg.chunkChars \in Int /\ arg.maxChunks \in Int
           /\ arg.reduceMaxPasses \in Int /\ Size \in Nat
           /\ Valid => arg.chunkChars \in Nat /\ arg.maxChunks > 0 /\ arg.reduceMaxPasses > 0
BY ParametersAreArguments, TextsAreText DEF TypeOK, Arguments, Size, Valid

\* The prompts of the map round are one per chunk.
LEMMA MapPrompts ==
    ASSUME NEW cs \in Seq(Chunk), cs # <<>>, Map(cs),
           \A i \in 1 .. Len(cs) : cs[i].from < cs[i].to
    PROVE  /\ phase' = "ask" /\ Len(todo') = Len(cs) /\ todo' # <<>>
           /\ todo' \in Seq(PromptsOver)
           /\ \A i \in 1 .. Len(cs) :
                todo'[i] = [size |-> cs[i].to - cs[i].from, lo |-> i, hi |-> i, n |-> 1]
<1>1. \A i \in 1 .. Len(cs) :
        [size |-> cs[i].to - cs[i].from, lo |-> i, hi |-> i, n |-> 1] \in PromptsOver
  <2> SUFFICES ASSUME NEW i \in 1 .. Len(cs)
               PROVE  [size |-> cs[i].to - cs[i].from, lo |-> i, hi |-> i, n |-> 1]
                        \in PromptsOver
    OBVIOUS
  <2>1. cs[i] \in Chunk /\ cs[i].from < cs[i].to
    OBVIOUS
  <2>2. cs[i].to - cs[i].from \in Nat
    BY <2>1 DEF Chunk
  <2>3. i \in Nat \ {0} /\ 1 \in Nat \ {0}
    OBVIOUS
  <2> QED
    BY <2>2, <2>3 DEF PromptsOver
<1>2. todo' = [i \in 1 .. Len(cs) |->
                 [size |-> cs[i].to - cs[i].from, lo |-> i, hi |-> i, n |-> 1]]
  BY DEF Map
<1>3. Len(cs) \in Nat /\ Len(cs) > 0
  OBVIOUS
<1>4. todo' \in Seq(PromptsOver) /\ Len(todo') = Len(cs)
  BY <1>1, <1>2, <1>3
<1> QED
  BY <1>2, <1>3, <1>4 DEF Map

LEMMA ShapeAtStart ==
    ASSUME Init
    PROVE  Shape
<1>1. arg.reduceMaxPasses \in Int /\ arg.maxChunks \in Int
  BY ParametersAreArguments DEF Init, Arguments
<1>2. TypeOK
  <2>1. /\ chunks \in Seq([from : Nat, to : Nat])
        /\ current \in Seq(Summaries) /\ made \in Seq(Summaries)
        /\ todo \in Seq(PromptsOver)
    BY DEF Init
  <2>2. Len(chunks) = 0 /\ packed \in 0 .. Len(current)
    BY DEF Init
  <2>3. Valid => passes <= arg.reduceMaxPasses /\ Len(chunks) <= arg.maxChunks
    BY <1>1, <2>2 DEF Init, Valid
  <2> QED
    BY <2>1, <2>2, <2>3 DEF Init, TypeOK
<1>3. PhaseShape
  BY DEF Init, PhaseShape
<1> QED
  BY <1>2, <1>3 DEF Shape

LEMMA ShapeIsKept ==
    ASSUME Shape, Splitting, [Next]_vars
    PROVE  Shape'
<1> USE DEF Shape
<1> USE ArgumentsTyped
<1>1. CASE Refuse
  BY <1>1 DEF Refuse, TypeOK, PhaseShape, cutting, Ended, Valid
<1>2. CASE Begin
  BY <1>2 DEF Begin, TypeOK, PhaseShape, cutting, Ended, Valid
<1>3. CASE Cut
  <2>1. phase = "chunk" /\ Valid /\ Len(chunks) < arg.maxChunks /\ pos < Size
    BY <1>3 DEF Cut, TypeOK, Splitting, CutPosition
  <2>2. PICK cut \in Cuts(pos) :
          /\ chunks' = Append(chunks, [from |-> pos, to |-> cut])
          /\ IF cut >= Size THEN Map(chunks') /\ pos' = pos
             ELSE pos' = Resume(pos, cut) /\ UNCHANGED <<phase, todo>>
    BY <1>3 DEF Cut
  <2>3. cut \in Nat /\ pos \in Nat /\ pos < cut
    BY <2>1, CutInWindow DEF TypeOK
  <2>4. chunks' \in Seq(Chunk) /\ Len(chunks') = Len(chunks) + 1 /\ chunks' # <<>>
    BY <2>2, <2>3 DEF TypeOK, Chunk
  <2>5. \A i \in 1 .. Len(chunks') : chunks'[i].from < chunks'[i].to
    BY <2>2, <2>3 DEF TypeOK, Splitting, ChunksCoverTheText, Chunk
  <2>6. CASE cut >= Size
    <3>1. /\ phase' = "ask" /\ Len(todo') = Len(chunks') /\ todo' # <<>>
          /\ todo' \in Seq(PromptsOver)
      BY <2>2, <2>4, <2>5, <2>6, MapPrompts
    <3> QED
      BY <1>3, <2>1, <2>2, <2>4, <2>6, <3>1
      DEF Cut, TypeOK, PhaseShape, Ended, Valid, Chunk
  <2>7. CASE ~(cut >= Size)
    <3>1. Resume(pos, cut) \in Nat
      BY <2>1, <2>3, ResumeAdvances
    <3> QED
      BY <1>3, <2>1, <2>2, <2>4, <2>7, <3>1
      DEF Cut, TypeOK, PhaseShape, Ended, Valid, Chunk
  <2> QED
    BY <2>6, <2>7
<1>4. CASE DropTail
  <2>1. phase = "chunk" /\ Valid /\ chunks # <<>> /\ chunks \in Seq(Chunk)
    BY <1>4 DEF DropTail, TypeOK, Chunk
  <2>2. \A i \in 1 .. Len(chunks) : chunks[i].from < chunks[i].to
    BY DEF Splitting, ChunksCoverTheText
  <2>3. /\ phase' = "ask" /\ Len(todo') = Len(chunks) /\ todo' # <<>>
        /\ todo' \in Seq(PromptsOver)
    BY <1>4, <2>1, <2>2, MapPrompts DEF DropTail
  <2> QED
    BY <1>4, <2>1, <2>3 DEF DropTail, TypeOK, PhaseShape, Ended, Valid
<1>5. CASE Ask
  <2>1. phase = "ask" /\ Len(made) < Len(todo) /\ Len(made) + 1 \in 1 .. Len(todo)
    BY <1>5 DEF Ask, TypeOK
  <2>2. todo[Len(made) + 1] \in PromptsOver
    BY <2>1 DEF TypeOK
  <2>3. PICK size \in SummarySizes :
          made' = Append(made, [size |-> size, lo |-> todo[Len(made) + 1].lo,
                                hi |-> todo[Len(made) + 1].hi])
    BY <1>5 DEF Ask
  <2>4. made' \in Seq(Summaries) /\ Len(made') = Len(made) + 1
    BY <2>2, <2>3, SizesAreSizes DEF TypeOK, Summaries, PromptsOver
  <2> QED
    BY <1>5, <2>1, <2>4 DEF Ask, TypeOK, PhaseShape, cutting, Ended, Valid
<1>6. CASE AskFails
  BY <1>6 DEF AskFails, TypeOK, PhaseShape, cutting, Ended, Valid
<1>7. CASE RoundOver
  <2>1. /\ phase = "ask" /\ Len(made) = Len(todo) /\ Len(made) > 0
        /\ phase' \in {"done", "failed", "pack"}
        /\ phase' = NextPhase(passes') /\ passes' \in {passes, passes + 1}
        /\ current = <<>> => passes' = passes
        /\ current' = made /\ packed' = 0 /\ todo' = <<>> /\ made' = <<>>
    BY <1>7 DEF RoundOver, NextPhase, PhaseShape, TypeOK
  <2>2. passes' \in Nat /\ Valid /\ passes' <= arg.reduceMaxPasses
    BY <2>1 DEF TypeOK, PhaseShape
  <2>3. phase' = "pack" => Len(current') > 1 /\ passes' < arg.reduceMaxPasses
    BY <2>1, <2>2 DEF NextPhase, TypeOK
  <2> QED
    BY <1>7, <2>1, <2>2, <2>3 DEF RoundOver, TypeOK, PhaseShape, cutting, Ended, Valid
<1>8. CASE Pack
  <2> DEFINE item == current[packed + 1]
             last == todo[Len(todo)]
             alone == [size |-> item.size, lo |-> item.lo, hi |-> item.hi, n |-> 1]
             joined == [size |-> last.size + Join + item.size,
                        lo |-> last.lo, hi |-> item.hi, n |-> last.n + 1]
  <2>1. phase = "pack" /\ packed < Len(current) /\ packed' = packed + 1
    BY <1>8 DEF Pack
  <2>2. item \in Summaries
    BY <2>1 DEF TypeOK
  <2>3. alone \in PromptsOver
    BY <2>2 DEF Summaries, PromptsOver
  <2>4. ASSUME todo # <<>> PROVE last \in PromptsOver /\ joined \in PromptsOver
    <3>1. todo \in Seq(PromptsOver) /\ Len(todo) \in 1 .. Len(todo)
      BY <2>4 DEF TypeOK
    <3>2. last \in PromptsOver
      BY <3>1
    <3> HIDE DEF last, item
    <3>3. last.size + Join + item.size \in Nat /\ last.n + 1 \in Nat \ {0}
      BY <2>2, <3>2 DEF Summaries, PromptsOver, Join
    <3>4. last.lo \in Nat \ {0} /\ item.hi \in Nat \ {0}
      BY <2>2, <3>2 DEF Summaries, PromptsOver
    <3> QED
      BY <3>2, <3>3, <3>4 DEF PromptsOver
  <2>5. \/ todo # <<>> /\ todo' = [todo EXCEPT ![Len(todo)] = joined]
        \/ todo' = Append(todo, alone)
    <3>1. CASE todo # <<>> /\ Fits(last, item)
      BY <1>8, <3>1 DEF Pack
    <3>2. CASE ~(todo # <<>> /\ Fits(last, item))
      BY <1>8, <3>2 DEF Pack
    <3> QED
      BY <3>1, <3>2
  <2>6. todo' \in Seq(PromptsOver) /\ todo' # <<>>
    <3> HIDE DEF alone, joined
    <3>1. todo \in Seq(PromptsOver)
      BY DEF TypeOK
    <3>2. CASE todo' = Append(todo, alone)
      BY <2>3, <3>1, <3>2
    <3>3. CASE todo # <<>> /\ todo' = [todo EXCEPT ![Len(todo)] = joined]
      BY <2>4, <3>1, <3>3
    <3> QED
      BY <2>5, <3>2, <3>3
  <2>7. UNCHANGED <<text, arg, phase, chunks, pos, truncated, current, made, passes>>
    BY <1>8 DEF Pack, cutting
  <2>10. packed' \in 0 .. Len(current) /\ packed' # 0
    BY <2>1 DEF TypeOK
  <2> HIDE DEF item, last, alone, joined
  <2>8. TypeOK'
    BY <2>6, <2>7, <2>10 DEF TypeOK, Valid
  <2>9. PhaseShape'
    BY <2>1, <2>6, <2>7, <2>10 DEF TypeOK, PhaseShape
  <2> QED
    BY <2>8, <2>9
<1>9. CASE Packed
  <2>1. phase = "pack" /\ Len(current) > 1 /\ todo # <<>> /\ Valid
    BY <1>9 DEF Packed, TypeOK, PhaseShape
  <2>2. Combined \in PromptsOver
    <3>1. current[1] \in Summaries /\ current[Len(current)] \in Summaries
      BY <2>1 DEF TypeOK
    <3>2. Len(current) \in Nat \ {0} /\ arg.chunkChars + 1 \in Nat
      BY <2>1 DEF TypeOK
    <3> QED
      BY <3>1, <3>2 DEF Combined, PromptsOver, Summaries
  <2>3. /\ todo' \in Seq(PromptsOver) /\ todo' # <<>>
        /\ Len(todo') < Len(current)
    BY <1>9, <2>1, <2>2 DEF Packed, Prompts, TypeOK
  <2>4. made = <<>> /\ Len(made) <= Len(todo')
    BY <2>1, <2>3 DEF PhaseShape
  <2> QED
    BY <1>9, <2>1, <2>3, <2>4 DEF Packed, TypeOK, PhaseShape, cutting, Ended, Valid
<1>10. CASE UNCHANGED vars
  BY <1>10 DEF vars, cutting, TypeOK, PhaseShape, Valid, Ended
<1> QED
  BY <1>1, <1>2, <1>3, <1>4, <1>5, <1>6, <1>7, <1>8, <1>9, <1>10 DEF Next

-----------------------------------------------------------------------------
(* The splitting. *)

LEMMA SplittingAtStart ==
    ASSUME Init
    PROVE  Splitting
<1>1. Len(chunks) = 0
  BY DEF Init
<1> QED
  BY <1>1 DEF Init, Splitting, ChunksCoverTheText, EveryChunkReachesFurther, CutPosition

LEMMA SplittingIsKept ==
    ASSUME Shape, Splitting, [Next]_vars
    PROVE  Splitting'
<1> USE DEF Shape
<1>1. CASE Cut
  <2>1. /\ phase = "chunk" /\ Valid /\ pos < Size /\ pos \in Nat /\ ~truncated
        /\ truncated' = truncated /\ arg' = arg /\ text' = text /\ Size' = Size
    BY <1>1 DEF Cut, TypeOK, Splitting, CutPosition, Size
  <2>2. PICK cut \in Cuts(pos) :
          /\ chunks' = Append(chunks, [from |-> pos, to |-> cut])
          /\ IF cut >= Size THEN Map(chunks') /\ pos' = pos
             ELSE pos' = Resume(pos, cut) /\ UNCHANGED <<phase, todo>>
    BY <1>1 DEF Cut
  <2>3. /\ cut \in Nat /\ pos < cut /\ cut <= Size /\ cut - pos <= arg.chunkChars
        /\ cut < Size => 2 * (cut - pos) > arg.chunkChars
    BY <2>1, CutInWindow
  <2>4. /\ arg.chunkChars \in Int /\ arg.overlap \in Int /\ Size \in Nat
        /\ arg.overlap >= 0 /\ arg.chunkChars > 0
    BY <2>1, ArgumentsTyped, ParametersAreArguments DEF TypeOK, Arguments, Valid
  <2>5. chunks \in Seq(Chunk)
    BY DEF TypeOK, Chunk
  <2>6. /\ Len(chunks') = Len(chunks) + 1
        /\ \A i \in 1 .. Len(chunks) : chunks'[i] = chunks[i] /\ chunks[i] \in Chunk
        /\ chunks'[Len(chunks) + 1] = [from |-> pos, to |-> cut]
        /\ Last(chunks') = [from |-> pos, to |-> cut] /\ chunks' # <<>>
    BY <2>2, <2>5 DEF Last
  <2>7. chunks # <<>> => /\ chunks[Len(chunks)].from < pos
                         /\ pos <= chunks[Len(chunks)].to
                         /\ chunks[Len(chunks)].to - arg.overlap <= pos
                         /\ chunks[Len(chunks)].to < Size
                         /\ Len(chunks) > 0
    BY <2>1, <2>5 DEF Splitting, CutPosition, Last
  <2>8. chunks = <<>> => pos = 0 /\ Len(chunks) = 0
    BY <2>1 DEF Splitting, CutPosition
  <2>9. phase' \in {"ask", "chunk"}
    BY <2>1, <2>2 DEF Map
  <2>10. phase' = "ask" => cut >= Size
    BY <2>1, <2>2
  <2>11. ChunksCoverTheText'
    <3>1. \A i \in 1 .. Len(chunks') :
            /\ chunks'[i].from < chunks'[i].to
            /\ chunks'[i].to - chunks'[i].from <= arg.chunkChars
            /\ i = 1 => chunks'[i].from = 0
            /\ i > 1 => /\ chunks'[i - 1].from < chunks'[i].from
                        /\ chunks'[i].from <= chunks'[i - 1].to
      <4> SUFFICES ASSUME NEW i \in 1 .. Len(chunks')
                   PROVE  /\ chunks'[i].from < chunks'[i].to
                          /\ chunks'[i].to - chunks'[i].from <= arg.chunkChars
                          /\ i = 1 => chunks'[i].from = 0
                          /\ i > 1 => /\ chunks'[i - 1].from < chunks'[i].from
                                      /\ chunks'[i].from <= chunks'[i - 1].to
        OBVIOUS
      <4>1. CASE i \in 1 .. Len(chunks)
        <5>1. i > 1 => i - 1 \in 1 .. Len(chunks)
          BY <4>1, <2>5
        <5> QED
          BY <4>1, <5>1, <2>6 DEF Splitting, ChunksCoverTheText
      <4>2. CASE i = Len(chunks) + 1
        <5>1. i > 1 => /\ chunks # <<>> /\ i - 1 = Len(chunks)
                       /\ chunks'[i - 1] = chunks[Len(chunks)]
          BY <4>2, <2>5, <2>6
        <5>2. i = 1 => chunks = <<>>
          BY <4>2, <2>5
        <5> QED
          BY <4>2, <5>1, <5>2, <2>3, <2>6, <2>7, <2>8
      <4> QED
        BY <4>1, <4>2, <2>5, <2>6
    <3>2. phase' = "ask" => /\ chunks' # <<>> /\ Last(chunks').to <= Size'
                            /\ truncated' <=> Last(chunks').to < Size'
      BY <2>1, <2>3, <2>4, <2>6, <2>10
    <3> QED
      BY <2>1, <3>1, <3>2 DEF ChunksCoverTheText, Last
  <2>12. EveryChunkReachesFurther'
    <3> SUFFICES ASSUME 2 * arg.overlap <= arg.chunkChars, NEW i \in 2 .. Len(chunks')
                 PROVE  chunks'[i - 1].to < chunks'[i].to
      BY <2>1 DEF EveryChunkReachesFurther
    <3>1. CASE i \in 1 .. Len(chunks)
      <4>1. i - 1 \in 1 .. Len(chunks) /\ i \in 2 .. Len(chunks)
        BY <3>1, <2>5
      <4> QED
        BY <3>1, <4>1, <2>6 DEF Splitting, EveryChunkReachesFurther
    <3>2. CASE i = Len(chunks) + 1
      <4>1. /\ chunks # <<>> /\ chunks'[i - 1] = chunks[Len(chunks)]
            /\ chunks[Len(chunks)] \in Chunk
        BY <3>2, <2>5, <2>6
      <4>2. chunks[Len(chunks)].to \in Nat
        BY <4>1 DEF Chunk
      <4>3. CASE cut < Size
        BY <3>2, <4>1, <4>2, <4>3, <2>1, <2>3, <2>4, <2>6, <2>7
      <4>4. CASE ~(cut < Size)
        BY <3>2, <4>1, <4>2, <4>4, <2>3, <2>4, <2>6, <2>7
      <4> QED
        BY <4>3, <4>4
    <3> QED
      BY <3>1, <3>2, <2>5, <2>6
  <2>13. CutPosition'
    <3>1. CASE cut >= Size
      <4>1. phase' = "ask"
        BY <2>2, <3>1 DEF Map
      <4> QED
        BY <4>1 DEF CutPosition
    <3>2. CASE ~(cut >= Size)
      <4>1. phase' = "chunk" /\ pos' = Resume(pos, cut)
        BY <2>1, <2>2, <3>2
      <4>2. /\ pos' \in Nat /\ pos < pos' /\ pos' <= cut
            /\ cut - arg.overlap <= pos'
        BY <2>1, <2>3, <4>1, ResumeAdvances
      <4>3. /\ Last(chunks').from = pos /\ Last(chunks').to = cut /\ chunks' # <<>>
            /\ cut < Size /\ pos' < Size
        BY <2>3, <2>4, <2>6, <3>2, <4>2
      <4> QED
        BY <2>1, <4>1, <4>2, <4>3 DEF CutPosition, Last
    <3> QED
      BY <3>1, <3>2
  <2> QED
    BY <2>11, <2>12, <2>13 DEF Splitting
<1>2. CASE DropTail
  <2>1. /\ phase = "chunk" /\ Valid /\ Len(chunks) > 0 /\ chunks # <<>>
        /\ phase' = "ask" /\ truncated' = TRUE /\ chunks' = chunks
        /\ UNCHANGED <<text, arg>>
    BY <1>2, ArgumentsTyped DEF DropTail, TypeOK, Map
  <2>2. Last(chunks).to < Size /\ Last(chunks) \in Chunk /\ Size \in Nat
    <3>1. chunks \in Seq(Chunk) /\ Len(chunks) \in 1 .. Len(chunks)
      BY <2>1 DEF TypeOK, Chunk
    <3>2. Last(chunks) \in Chunk
      BY <3>1 DEF Last
    <3> QED
      BY <2>1, <3>2, ArgumentsTyped DEF Splitting, CutPosition
  <2>3. Last(chunks).to <= Size
    BY <2>2 DEF Chunk
  <2> QED
    BY <2>1, <2>2, <2>3
    DEF Splitting, ChunksCoverTheText, EveryChunkReachesFurther, CutPosition, Last, Size
<1>3. CASE Begin
  <2>1. /\ chunks = <<>> /\ pos = 0 /\ ~truncated /\ Len(chunks) = 0
        /\ phase' \in {"done", "chunk"}
        /\ phase' = "chunk" => ~Blank
        /\ UNCHANGED <<text, arg, chunks, pos, truncated>>
    BY <1>3 DEF Begin, cutting, Splitting, CutPosition
  <2>2. ~Blank => 0 < Size
    BY ArgumentsTyped DEF Blank
  <2> QED
    BY <2>1, <2>2
    DEF Splitting, ChunksCoverTheText, EveryChunkReachesFurther, CutPosition, Size
<1>4. CASE Ask \/ AskFails \/ Packed \/ Pack \/ RoundOver \/ Refuse
  <2>1. UNCHANGED <<text, arg, chunks, pos, truncated>>
    BY <1>4 DEF Ask, AskFails, Packed, Pack, RoundOver, Refuse, cutting
  <2>2. /\ phase' \notin {"check", "chunk"}
        /\ phase' = "pack" => phase \in {"pack", "ask"}
        /\ phase' = "ask" => phase \in {"pack", "ask"}
    BY <1>4 DEF Ask, AskFails, Packed, Pack, RoundOver, Refuse, NextPhase
  <2>3. phase \in {"pack", "ask"} => /\ chunks # <<>> /\ Last(chunks).to <= Size
                                    /\ truncated <=> Last(chunks).to < Size
    BY DEF Splitting, ChunksCoverTheText, CutPosition
  <2> QED
    BY <2>1, <2>2, <2>3
    DEF Splitting, ChunksCoverTheText, EveryChunkReachesFurther, CutPosition, Size, Last
<1>5. CASE UNCHANGED vars
  BY <1>5 DEF vars, cutting, Splitting, ChunksCoverTheText, EveryChunkReachesFurther,
              CutPosition, Size, Last
<1> QED
  BY <1>1, <1>2, <1>3, <1>4, <1>5 DEF Next

-----------------------------------------------------------------------------
(* The map and the reduce. *)

LEMMA ReducingAtStart ==
    ASSUME Init
    PROVE  Reducing
BY DEF Init, Reducing, PromptsFit, PackingFits, StandsFor, NoSectionIsLost

\* The map's prompts stand for the chunks, one each, and fit the budget.
LEMMA MapReduces ==
    ASSUME NEW cs \in Seq(Chunk), cs # <<>>, Map(cs), cs = chunks', made' = <<>>,
           arg' = arg,
           \A i \in 1 .. Len(cs) : /\ cs[i].from < cs[i].to
                                   /\ cs[i].to - cs[i].from <= arg.chunkChars
    PROVE  Reducing'
<1>1. /\ phase' = "ask" /\ Len(todo') = Len(cs) /\ todo' # <<>>
      /\ \A i \in 1 .. Len(cs) :
           todo'[i] = [size |-> cs[i].to - cs[i].from, lo |-> i, hi |-> i, n |-> 1]
  BY MapPrompts
<1>2. Len(cs) \in Nat /\ Len(cs) > 0
  OBVIOUS
<1>5. ASSUME NEW i \in 1 .. Len(todo')
      PROVE  /\ todo'[i].lo = i /\ todo'[i].hi = i
             /\ todo'[i].size = cs[i].to - cs[i].from
             /\ todo'[i].size <= arg.chunkChars
  <2>1. i \in 1 .. Len(cs)
    BY <1>1
  <2>2. todo'[i] = [size |-> cs[i].to - cs[i].from, lo |-> i, hi |-> i, n |-> 1]
    BY <1>1, <2>1
  <2>3. cs[i].to - cs[i].from <= arg.chunkChars
    BY <2>1
  <2> QED
    BY <2>2, <2>3
<1>3. PromptsFit'
  BY <1>5 DEF PromptsFit
<1>4. Tiles(todo', Len(cs))
  <2>1. \A i \in 1 .. Len(todo') : todo'[i].lo = i /\ todo'[i].hi = i
    BY <1>5
  <2>2. \A i \in 1 .. Len(todo') : i # 1 => i - 1 \in 1 .. Len(todo')
    BY <1>1, <1>2
  <2> QED
    BY <1>1, <1>2, <2>1, <2>2 DEF Tiles, Last
<1> QED
  BY <1>1, <1>3, <1>4 DEF Reducing, PackingFits, StandsFor, NoSectionIsLost

LEMMA ReducingIsKept ==
    ASSUME Shape, Splitting, Reducing, [Next]_vars
    PROVE  Reducing'
<1> USE DEF Shape
<1>1. CASE Cut
  <2>1. PICK cut \in Cuts(pos) :
          /\ chunks' = Append(chunks, [from |-> pos, to |-> cut])
          /\ IF cut >= Size THEN Map(chunks') /\ pos' = pos
             ELSE pos' = Resume(pos, cut) /\ UNCHANGED <<phase, todo>>
    BY <1>1 DEF Cut
  <2>2. phase = "chunk" /\ Valid /\ pos < Size /\ pos \in Nat /\ made' = <<>> /\ arg' = arg
    BY <1>1 DEF Cut, TypeOK, PhaseShape, Splitting, CutPosition
  <2>3. cut \in Nat
    BY <2>2, CutInWindow
  <2>4. chunks' \in Seq(Chunk) /\ chunks' # <<>>
    BY <2>1, <2>2, <2>3 DEF TypeOK, Chunk
  <2>5. CASE cut >= Size
    <3>1. Splitting'
      BY SplittingIsKept
    <3> QED
      BY <2>1, <2>2, <2>4, <2>5, <3>1, MapReduces DEF Splitting, ChunksCoverTheText
  <2>6. CASE ~(cut >= Size)
    <3>1. phase' = "chunk"
      BY <2>1, <2>2, <2>6
    <3> QED
      BY <3>1 DEF Reducing, PromptsFit, PackingFits, StandsFor, NoSectionIsLost
  <2> QED
    BY <2>5, <2>6
<1>2. CASE DropTail
  <2>1. /\ chunks \in Seq(Chunk) /\ chunks # <<>> /\ Map(chunks)
        /\ chunks' = chunks /\ made' = <<>> /\ arg' = arg
    BY <1>2, ArgumentsTyped DEF DropTail, TypeOK, PhaseShape, Chunk
  <2> QED
    BY <2>1, MapReduces DEF Splitting, ChunksCoverTheText
<1>3. CASE Ask
  <2>1. /\ phase = "ask" /\ Len(made) + 1 \in 1 .. Len(todo) /\ made \in Seq(Summaries)
        /\ UNCHANGED <<phase, chunks, current, packed, todo, arg>>
    BY <1>3 DEF Ask, TypeOK, cutting
  <2>2. PICK size \in SummarySizes :
          made' = Append(made, [size |-> size, lo |-> todo[Len(made) + 1].lo,
                                hi |-> todo[Len(made) + 1].hi])
    BY <1>3 DEF Ask
  <2>3. \A i \in 1 .. Len(made') : made'[i].lo = todo[i].lo /\ made'[i].hi = todo[i].hi
    <3> SUFFICES ASSUME NEW i \in 1 .. Len(made')
                 PROVE  made'[i].lo = todo[i].lo /\ made'[i].hi = todo[i].hi
      OBVIOUS
    <3>1. CASE i \in 1 .. Len(made)
      BY <2>1, <2>2, <3>1 DEF Reducing, StandsFor
    <3>2. CASE i = Len(made) + 1
      BY <2>1, <2>2, <3>2
    <3> QED
      BY <2>1, <2>2, <3>1, <3>2
  <2> QED
    BY <2>1, <2>3 DEF Reducing, PromptsFit, PackingFits, StandsFor, NoSectionIsLost,
                      Tiles, Last
<1>4. CASE RoundOver
  <2>1. /\ phase = "ask" /\ Len(made) = Len(todo) /\ todo # <<>>
        /\ made \in Seq(Summaries) /\ todo \in Seq(PromptsOver) /\ chunks \in Seq(Chunk)
        /\ phase' \in {"done", "failed", "pack"}
        /\ phase' = "done" => Len(made) = 1
        /\ current' = made /\ packed' = 0 /\ todo' = <<>> /\ chunks' = chunks
    BY <1>4 DEF RoundOver, NextPhase, PhaseShape, TypeOK, cutting, Chunk
  <2>2. Tiles(made, Len(chunks))
    <3>1. \A i \in 1 .. Len(made) : made[i].lo = todo[i].lo /\ made[i].hi = todo[i].hi
      BY <2>1 DEF Reducing, StandsFor
    <3>2. Tiles(todo, Len(chunks))
      BY <2>1 DEF Reducing, StandsFor
    <3>3. made # <<>> /\ Len(made) \in 1 .. Len(made)
      BY <2>1
    <3>4. \A i \in 1 .. Len(made) : i # 1 => i - 1 \in 1 .. Len(made)
      BY <2>1
    <3> QED
      BY <2>1, <3>1, <3>2, <3>3, <3>4 DEF Tiles, Last
  <2>3. Tiles(<<>>, 0)
    BY DEF Tiles
  <2>4. StandsFor' /\ NoSectionIsLost'
    BY <2>1, <2>2, <2>3 DEF StandsFor, NoSectionIsLost, Tiles, Last
  <2>5. PromptsFit' /\ PackingFits'
    BY <2>1 DEF PromptsFit, PackingFits
  <2> QED
    BY <2>4, <2>5 DEF Reducing
<1>5. CASE Pack
  <2> DEFINE item == current[packed + 1]
             last == todo[Len(todo)]
             alone == [size |-> item.size, lo |-> item.lo, hi |-> item.hi, n |-> 1]
             joined == [size |-> last.size + Join + item.size,
                        lo |-> last.lo, hi |-> item.hi, n |-> last.n + 1]
  <2>1. /\ phase = "pack" /\ phase' = "pack" /\ packed < Len(current)
        /\ packed \in Nat /\ packed' = packed + 1
        /\ current \in Seq(Summaries) /\ todo \in Seq(PromptsOver)
        /\ (packed = 0) <=> (todo = <<>>)
        /\ UNCHANGED <<current, chunks, arg>>
    BY <1>5 DEF Pack, TypeOK, PhaseShape, cutting
  <2>2. \/ /\ todo # <<>> /\ Fits(last, item)
           /\ todo' = [todo EXCEPT ![Len(todo)] = joined]
        \/ todo' = Append(todo, alone)
    <3>1. CASE todo # <<>> /\ Fits(last, item)
      BY <1>5, <3>1 DEF Pack
    <3>2. CASE ~(todo # <<>> /\ Fits(last, item))
      BY <1>5, <3>2 DEF Pack
    <3> QED
      BY <3>1, <3>2
  <2>3. /\ packed + 1 \in 1 .. Len(current)
        /\ packed > 0 => packed \in 1 .. Len(current)
    BY <2>1
  <2>4. /\ item.lo <= item.hi
        /\ item.lo = IF packed = 0 THEN 1 ELSE current[packed].hi + 1
        /\ item.lo \in Nat /\ item.hi \in Nat
    <3>1. item \in Summaries
      BY <2>1, <2>3
    <3>2. Tiles(current, Len(chunks))
      BY <2>1 DEF Reducing, StandsFor
    <3>3. /\ item.lo <= item.hi
          /\ item.lo = IF packed + 1 = 1 THEN 1 ELSE current[(packed + 1) - 1].hi + 1
      BY <2>3, <3>2 DEF Tiles
    <3>4. (packed + 1) - 1 = packed /\ (packed + 1 = 1 <=> packed = 0)
      BY <2>1
    <3> HIDE DEF item
    <3> QED
      BY <3>1, <3>3, <3>4 DEF Summaries
  <2>5. Tiles(todo, IF packed = 0 THEN 0 ELSE current[packed].hi)
    BY <2>1 DEF Reducing, StandsFor
  <2>6. todo # <<>> => /\ Len(todo) \in 1 .. Len(todo) /\ last \in PromptsOver
                       /\ last.hi = current[packed].hi /\ packed > 0
                       /\ last.lo <= last.hi /\ last.lo \in Nat /\ last.hi \in Nat
    <3>1. todo # <<>> => Len(todo) \in 1 .. Len(todo)
      BY <2>1
    <3>2. todo # <<>> => last \in PromptsOver
      BY <2>1, <3>1
    <3> QED
      BY <2>1, <2>5, <3>1, <3>2 DEF Tiles, Last, PromptsOver
  <2>7. current'[packed'].hi = item.hi /\ packed' # 0
    BY <2>1
  <2> HIDE DEF item, last
  <2>8. Tiles(todo', item.hi) /\ PackingFits'
    <3>1. CASE todo' = Append(todo, alone)
      <4>1. /\ Len(todo') = Len(todo) + 1 /\ todo' # <<>>
            /\ \A i \in 1 .. Len(todo) : todo'[i] = todo[i]
            /\ todo'[Len(todo) + 1] = alone
        BY <2>1, <3>1
      <4>2. \A i \in 1 .. Len(todo') : i # 1 => i - 1 \in 1 .. Len(todo)
        BY <2>1, <4>1
      <4>3. todo # <<>> => todo'[Len(todo)].hi = current[packed].hi /\ Len(todo) # 0
        BY <2>1, <2>6, <4>1 DEF last
      <4>4. todo = <<>> => Len(todo) = 0
        OBVIOUS
      <4>5. Tiles(todo', item.hi)
        <5> SUFFICES ASSUME NEW i \in 1 .. Len(todo')
                     PROVE  /\ todo'[i].lo <= todo'[i].hi
                            /\ todo'[i].lo = IF i = 1 THEN 1 ELSE todo'[i - 1].hi + 1
          BY <4>1 DEF Tiles, Last
        <5>1. CASE i \in 1 .. Len(todo)
          BY <4>1, <4>2, <5>1, <2>5 DEF Tiles
        <5>2. CASE i = Len(todo) + 1
          BY <4>1, <4>3, <4>4, <5>2, <2>1, <2>4, <2>6
        <5> QED
          BY <5>1, <5>2, <4>1, <2>1
      <4>6. PackingFits'
        BY <2>1, <4>1 DEF Reducing, PackingFits
      <4> QED
        BY <4>5, <4>6
    <3>2. CASE /\ todo # <<>> /\ Fits(last, item)
               /\ todo' = [todo EXCEPT ![Len(todo)] = joined]
      <4>1. /\ Len(todo') = Len(todo) /\ todo' # <<>>
            /\ \A i \in 1 .. Len(todo) : i # Len(todo) => todo'[i] = todo[i]
            /\ todo'[Len(todo)] = joined
        BY <2>1, <2>6, <3>2
      <4>2. \A i \in 1 .. Len(todo') : i # 1 => /\ i - 1 \in 1 .. Len(todo)
                                                /\ i - 1 # Len(todo)
        BY <2>1, <4>1
      <4>3. joined.size <= arg.chunkChars
        BY <3>2 DEF Fits
      <4>4. last = todo[Len(todo)]
        BY DEF last
      <4>5. Tiles(todo', item.hi)
        <5> SUFFICES ASSUME NEW i \in 1 .. Len(todo')
                     PROVE  /\ todo'[i].lo <= todo'[i].hi
                            /\ todo'[i].lo = IF i = 1 THEN 1 ELSE todo'[i - 1].hi + 1
          BY <4>1 DEF Tiles, Last
        <5>1. CASE i # Len(todo)
          BY <4>1, <4>2, <5>1, <2>5 DEF Tiles
        <5>2. CASE i = Len(todo)
          <6>1. todo'[i].lo = last.lo /\ todo'[i].hi = item.hi
            BY <4>1, <5>2
          <6>2. last.lo = IF i = 1 THEN 1 ELSE todo'[i - 1].hi + 1
            BY <4>1, <4>2, <4>4, <5>2, <2>5 DEF Tiles
          <6>3. last.lo <= item.hi
            BY <2>4, <2>6, <3>2
          <6> QED
            BY <6>1, <6>2, <6>3
        <5> QED
          BY <5>1, <5>2
      <4>6. PackingFits'
        BY <2>1, <4>1, <4>3 DEF Reducing, PackingFits
      <4> QED
        BY <4>5, <4>6
    <3> QED
      BY <2>2, <3>1, <3>2
  <2> QED
    BY <2>1, <2>7, <2>8 DEF Reducing, PromptsFit, StandsFor, NoSectionIsLost, Tiles, Last
<1>6. CASE Packed
  <2>1. /\ phase = "pack" /\ phase' = "ask" /\ packed = Len(current)
        /\ Len(current) > 1 /\ current # <<>> /\ todo # <<>> /\ made' = <<>>
        /\ current \in Seq(Summaries)
        /\ todo' = Prompts /\ UNCHANGED <<current, chunks, arg>>
    BY <1>6 DEF Packed, TypeOK, PhaseShape, cutting
  <2>2. Tiles(current, Len(chunks)) /\ Last(current).hi = Len(chunks)
    BY <2>1 DEF Reducing, StandsFor, Tiles
  <2>3. CASE todo' = todo
    <3>1. Tiles(todo, Len(chunks))
      BY <2>1, <2>2 DEF Reducing, StandsFor, Last
    <3> QED
      BY <2>1, <2>3, <3>1 DEF Reducing, PromptsFit, PackingFits, StandsFor, NoSectionIsLost
  <2>4. CASE todo' = <<Combined>>
    <3>1. /\ Len(todo') = 1 /\ todo' # <<>>
          /\ todo'[1].lo = current[1].lo /\ todo'[1].hi = Last(current).hi
          /\ todo'[1].n = Len(current)
      BY <2>4 DEF Combined, Last
    <3>2. current[1].lo = 1 /\ 1 \in 1 .. Len(current)
      BY <2>1, <2>2 DEF Tiles
    <3>3. 1 <= Last(current).hi
      <4>1. Len(current) \in 1 .. Len(current)
        BY <2>1
      <4>2. Last(current) \in Summaries
        BY <2>1, <4>1 DEF Last
      <4> QED
        BY <4>2 DEF Summaries
    <3>4. Tiles(todo', Len(chunks))
      BY <2>2, <3>1, <3>2, <3>3 DEF Tiles, Last
    <3>5. PromptsFit'
      BY <2>1, <3>1 DEF PromptsFit
    <3> QED
      BY <2>1, <3>4, <3>5 DEF Reducing, PackingFits, StandsFor, NoSectionIsLost
  <2> QED
    BY <2>1, <2>3, <2>4 DEF Prompts
<1>7. CASE Refuse \/ AskFails
  <2>1. phase' \in {"refused", "failed", "unavailable"}
    BY <1>7 DEF Refuse, AskFails
  <2> QED
    BY <2>1 DEF Reducing, PromptsFit, PackingFits, StandsFor, NoSectionIsLost
<1>8. CASE Begin
  <2>1. phase' \in {"done", "chunk"} /\ chunks' = <<>>
    BY <1>8 DEF Begin, cutting, Splitting, CutPosition
  <2> QED
    BY <2>1 DEF Reducing, PromptsFit, PackingFits, StandsFor, NoSectionIsLost
<1>9. CASE UNCHANGED vars
  BY <1>9 DEF vars, cutting, Reducing, PromptsFit, PackingFits, StandsFor,
              NoSectionIsLost, Tiles, Last
<1> QED
  BY <1>1, <1>2, <1>3, <1>4, <1>5, <1>6, <1>7, <1>8, <1>9 DEF Next

-----------------------------------------------------------------------------
(* Theorems. *)

LEMMA InvariantsHold == Spec => [](Shape /\ Splitting /\ Reducing)
<1>1. Init => Shape /\ Splitting /\ Reducing
  BY ShapeAtStart, SplittingAtStart, ReducingAtStart
<1>2. Shape /\ Splitting /\ Reducing /\ [Next]_vars => (Shape /\ Splitting /\ Reducing)'
  BY ShapeIsKept, SplittingIsKept, ReducingIsKept
<1> QED
  BY <1>1, <1>2, PTL DEF Spec

\* Types, and the caps on chunks and passes, for every text and arguments.
THEOREM SummaryTypes == Spec => []TypeOK
BY InvariantsHold, PTL DEF Shape

\* The splitter loses no character but a tail it reports, for every text.
THEOREM SplitterCovers == Spec => []ChunksCoverTheText
BY InvariantsHold, PTL DEF Splitting

\* The splitter's windows move forward when the overlap is at most a half.
THEOREM SplitterMovesForward == Spec => []EveryChunkReachesFurther
BY InvariantsHold, PTL DEF Splitting

\* The splitter's promises together, for every text, chunk size and overlap.
THEOREM SplitterIsSound == Spec => []SplittingIsSound
BY SummaryTypes, SplitterCovers, SplitterMovesForward, PTL DEF SplittingIsSound

\* No joined prompt exceeds the budget, except the terminal combine.
THEOREM PromptsStayInBudget == Spec => []PromptsFit
BY InvariantsHold, PTL DEF Reducing

\* The summary stands for every chunk, whatever the model answers.
THEOREM SummaryIsWhole == Spec => []NoSectionIsLost
BY InvariantsHold, PTL DEF Reducing

\* The reduction's promises together, whatever sizes the model answers with.
THEOREM ReductionIsSound == Spec => []ReducingIsSound
BY PromptsStayInBudget, SummaryIsWhole, PTL DEF ReducingIsSound

\* Every reduce pass leaves fewer summaries than it found.
THEOREM PassesShrink == Spec => EveryPassShrinks
<1>1. Shape /\ [Next]_vars => [passes' # passes => Len(current') < Len(current)]_vars
  <2> SUFFICES ASSUME Shape, [Next]_vars, passes' # passes
               PROVE  Len(current') < Len(current)
    OBVIOUS
  <2>1. RoundOver
    BY DEF Next, vars, Refuse, Begin, Cut, DropTail, Ask, AskFails, Pack, Packed
  <2>2. phase = "ask" /\ current # <<>> /\ current' = made /\ Len(made) = Len(todo)
    BY <2>1 DEF RoundOver
  <2> QED
    BY <2>2 DEF Shape, PhaseShape
<1> QED
  BY <1>1, InvariantsHold, PTL DEF Spec, EveryPassShrinks

-----------------------------------------------------------------------------
(* What Algorithms promises of every input.  A behaviour keeps the input   *)
(* it picked; what FunctionProofs shows of all inputs then holds in all of *)
(* its states.                                                             *)

\* The sample is an input, whichever is picked.
LEMMA SampleIsInput == AlgorithmsSpec => []IsInput(sample)
<1>1. AlgorithmsInit => IsInput(sample)
  BY DEF AlgorithmsInit, Nothing, IsInput
<1>2. IsInput(sample) /\ [AlgorithmsNext]_<<sample, webVars, runnerVars>> => IsInput(sample)'
  <2> SUFFICES ASSUME IsInput(sample), [AlgorithmsNext]_<<sample, webVars, runnerVars>>
               PROVE  IsInput(sample')
    BY DEF IsInput
  <2>1. CASE Pick
    <3>1. PICK kind \in Kinds : sample' \in Samples(kind)
      BY <2>1 DEF Pick
    <3> QED
      BY <3>1, SamplesAreInputs
  <2>2. CASE sample' = sample
    BY <2>2
  <2> QED
    BY <2>1, <2>2 DEF AlgorithmsNext
<1> QED
  BY <1>1, <1>2, PTL DEF AlgorithmsSpec

\* Every call goes through the gate's rules in their order, every combination of
\* flags builds modules that fit together, with tools under the gate of their
\* tier, and no two MCP tools share a name (gate.py:258-287, main.py:67-251,
\* mcp/policy.py:127-178): for every pattern, flag and name of any length.
THEOREM EveryToolIsAlwaysGated == AlgorithmsSpec => []EveryToolIsGated
<1>1. IsInput(sample) => EveryToolIsGated
  <2> SUFFICES ASSUME IsInput(sample)
               PROVE  EveryToolIsGated
    OBVIOUS
  <2>1. EveryCallIsGated
    <3> SUFFICES ASSUME sample.kind = "call"
                 PROVE  GateIsStrict(sample.safe, sample.call, sample.more)
      BY DEF EveryCallIsGated
    <3>1. sample.call \in ProposedCalls /\ sample.more \in SUBSET Finds
      BY DEF IsInput
    <3> QED
      BY <3>1, TheGateIsStrict
  <2>2. EveryToolHasItsTier /\ EveryBuildFitsTogether
    BY ToolsAlwaysMatchTheirTier, ModulesAlwaysFitTogether
       DEF EveryToolHasItsTier, EveryBuildFitsTogether
  <2>3. EveryToolKeepsItsName
    <3> SUFFICES ASSUME sample.kind = "name"
                 PROVE  NamesAreKept(sample.server, sample.tool)
      BY DEF EveryToolKeepsItsName
    <3>1. sample.server \in Seq(NameCharacters) /\ sample.tool \in Seq(NameCharacters)
      BY DEF IsInput
    <3>2. "underscore" \in NameCharacters
      BY DEF NameCharacters
    <3> QED
      BY <3>1, <3>2, NamesAreAlwaysKept
  <2> QED
    BY <2>1, <2>2, <2>3 DEF EveryToolIsGated
<1> QED
  BY <1>1, SampleIsInput, PTL

\* Settings that pass the validators suit the components that compute with them,
\* a module starts after what it depends on, and an available one has all it
\* needs (config.py:228-423, registry.py:54-156): for all numbers and for
\* registrations of any size.
THEOREM EverySetupIsAlwaysSound == AlgorithmsSpec => []EverySetupIsSound
<1>1. IsInput(sample) => EverySetupIsSound
  <2> SUFFICES ASSUME IsInput(sample)
               PROVE  EverySetupIsSound
    OBVIOUS
  <2>1. EverySettingSuits
    BY AcceptedSettingsSuit DEF EverySettingSuits, IsInput
  <2>2. EveryStartOrderIsSound
    BY StartOrderIsAlwaysSound DEF EveryStartOrderIsSound, IsInput
  <2>3. EveryAvailabilityIsTransitive
    BY AvailabilityIsAlwaysTransitive DEF EveryAvailabilityIsTransitive, IsInput
  <2> QED
    BY <2>1, <2>2, <2>3 DEF EverySetupIsSound
<1> QED
  BY <1>1, SampleIsInput, PTL

\* The calls of a streamed response are not mixed up and keep their identifiers;
\* no chat of a request or of the agent asks for more tokens than the ceiling, the
\* tools on documents for no other number than theirs (llm_serving.py:51-110 with
\* model_adapter.py:35-91, gateway.py:321-364): for streams and settings of any
\* length.
THEOREM EveryModelCallIsAlwaysFaithful == AlgorithmsSpec => []EveryModelCallIsFaithful
<1>1. IsInput(sample) => EveryModelCallIsFaithful
  <2> SUFFICES ASSUME IsInput(sample)
               PROVE  EveryModelCallIsFaithful
    OBVIOUS
  <2>1. EveryStreamIsUntangled
    BY TurnsAreAlwaysUntangled DEF EveryStreamIsUntangled, IsInput
  <2>2. EveryChatIsClamped
    <3> SUFFICES ASSUME sample.kind = "params"
                 PROVE  TokensAreClamped(sample.settings, sample.caller, sample.own, sample.size,
                                         Ceiling)
      BY DEF EveryChatIsClamped
    <3>1. /\ sample.settings \in Seq(ToSet(sample.settings))
          /\ sample.caller \in Callers /\ sample.size \in Int
          /\ \A p \in ToSet(sample.settings) \cup {sample.own} :
                "max_tokens" \in DOMAIN p => p["max_tokens"] \in Int
      BY DEF IsInput
    <3> QED
      BY <3>1, CeilingIsNumber, TokensAreAlwaysClamped
  <2> QED
    BY <2>1, <2>2 DEF EveryModelCallIsFaithful
<1> QED
  BY <1>1, SampleIsInput, PTL

\* An accepted path lies where it should, a directory query says what it leaves
\* out, the chunks of an answer are the best that fit, and parsers stay within
\* their bounds (the four path checks, docqa/tools.py:107-123, docqa/qa.py:89-123,
\* loaders.py, render.py): for every tree, document and index.
THEOREM EveryDocumentIsAlwaysAccountedFor == AlgorithmsSpec => []EveryDocumentIsAccountedFor
<1>1. IsInput(sample) => EveryDocumentIsAccountedFor
  <2> SUFFICES ASSUME IsInput(sample)
               PROVE  EveryDocumentIsAccountedFor
    OBVIOUS
  <2>1. EveryPathIsContained
    <3> SUFFICES ASSUME sample.kind = "path"
                 PROVE  ContainmentIsReal(sample.root, sample.path, sample.bad)
      BY DEF EveryPathIsContained
    <3>1. /\ sample.root \in Seq(Segments \ {".", ".."})
          /\ sample.path.absolute \in BOOLEAN /\ sample.path.segments \in Seq(Segments)
      BY DEF IsInput
    <3>2. sample.root \in Seq(Plain)
      BY <3>1 DEF Plain, Dots
    <3> QED
      BY <3>1, <3>2, ContainmentIsAlwaysReal
  <2>2. EveryGatheringIsHonest
    <3> SUFFICES ASSUME sample.kind = "tree"
                 PROVE  GatheringIsHonest(sample.tree, sample.limits)
      BY DEF EveryGatheringIsHonest
    <3>1. /\ IsTree(sample.tree)
          /\ sample.limits.maxTotal \in Nat \ {0} /\ sample.limits.maxDocs \in Nat \ {0}
      BY DEF IsInput
    <3> QED
      BY <3>1, GatheringIsAlwaysHonest
  <2>3. EveryChoiceIsBest
    <3> SUFFICES ASSUME sample.kind = "choice"
                 PROVE  ChunksAreBest(sample.chunks, sample.limits, sample.reply)
      BY DEF EveryChoiceIsBest
    <3>1. /\ sample.chunks \in Seq(Chunks)
          /\ sample.limits.topK \in Nat \ {0} /\ sample.limits.maxContext \in Nat
      BY DEF IsInput
    <3> QED
      BY <3>1, ChunksAreAlwaysBest
  <2>4. EveryParserIsBounded
    <3> SUFFICES ASSUME sample.kind = "parse"
                 PROVE  ParsersStayBounded(sample.sections, sample.pages, sample.bounds)
      BY DEF EveryParserIsBounded
    <3>1. /\ sample.sections \in Seq(Nat) /\ sample.pages \in Seq(Pages)
          /\ sample.bounds.maxBytes \in Nat \ {0} /\ sample.bounds.maxPages \in Nat \ {0}
          /\ sample.bounds.maxPx \in Nat
      BY DEF IsInput
    <3> QED
      BY <3>1, ParsersAlwaysStayBounded
  <2> QED
    BY <2>1, <2>2, <2>3, <2>4 DEF EveryDocumentIsAccountedFor
<1> QED
  BY <1>1, SampleIsInput, PTL

\* All transports read a credential alike, a key that cannot be compared failing
\* them all, and the routes answer as discovery offers (auth.py:74-146,
\* gateway.py:169-182 and 321-338): for all settings, tokens and scopes, and all
\* states of the engine and of the modules.
THEOREM EveryRequestIsAlwaysAdmittedAlike == AlgorithmsSpec => []EveryRequestIsAdmittedAlike
<1>1. IsInput(sample) => EveryRequestIsAdmittedAlike
  <2> SUFFICES ASSUME IsInput(sample)
               PROVE  EveryRequestIsAdmittedAlike
    OBVIOUS
  <2>1. EveryCredentialAgrees
    <3> SUFFICES ASSUME sample.kind = "request"
                 PROVE  CredentialsAgree(sample.settings, sample.cred, sample.route, sample.minutes)
      BY DEF EveryCredentialAgrees
    <3>1. /\ sample.settings \in GatewaySettings /\ sample.cred \in Credentials(Scopes)
          /\ sample.route \in Routes /\ sample.minutes \in Int
      BY DEF IsInput
    <3> QED
      BY <3>1, ScopesAreNamed, CredentialsAlwaysAgree
  <2>2. EveryOfferIsServed
    BY OffersAreAlwaysServed DEF EveryOfferIsServed, IsInput
  <2> QED
    BY <2>1, <2>2 DEF EveryRequestIsAdmittedAlike
<1> QED
  BY <1>1, SampleIsInput, PTL
=============================================================================
