----------------------------- MODULE WebAnswer -----------------------------
(***************************************************************************)
(* One run of web_answer (modules/browser/tools.py): a search, then each   *)
(* hit fetched through the guarded fetcher (fetcher.py) over the pinned    *)
(* HTTP fetcher (transport.py), then an answer by the model.               *)
(*                                                                         *)
(* A URL is [host, form].  A host is resolved anew at every hop, with any  *)
(* answer: names may change between two steps.  One action is the code     *)
(* between two awaits, the deadline of the whole passing at any moment.    *)
(***************************************************************************)
EXTENDS Integers, Sequences, SequencesExt, FiniteSets

CONSTANTS
    Hosts,          \* the names a URL may have
    AllowedHosts,   \* the allowlist; empty when there is none
    Addresses,      \* what a name may resolve to
    PublicAddresses,
    TopN,           \* browser_top_n
    MaxRedirects,   \* browser_max_redirects
    ResultCount     \* how many results the search service returns

ASSUME AddressesAreAddresses == PublicAddresses \subseteq Addresses
ASSUME ThereIsAHost == Hosts # {}
ASSUME BoundsAreNumbers == TopN \in Nat /\ MaxRedirects \in Nat /\ ResultCount \in Nat

\* A URL is good, or has a scheme, user, port or shape that is refused.
Urls == [host : Hosts, form : {"good", "refused"}]

VARIABLES
    stage,      \* "search", "page", "request", "answer", then how it ended
    hits,       \* the URLs of the search results
    hit,        \* how many of them have been started
    url,        \* the URL of the hop in progress
    hops,       \* redirects followed for this hit
    pinned,     \* the addresses checked for this hop
    sent,       \* the requests of this hit: host, checked, address
    pages,      \* the texts extracted: url, the requests that led there
    late,       \* the total time budget is used up
    citations

webVars == <<stage, hits, hit, url, hops, pinned, sent, pages, late, citations>>

Unchosen == [host |-> CHOOSE h \in Hosts : TRUE, form |-> "refused"]
Ends == {"answered", "no_pages", "not_found", "search_failed", "model_failed", "raised"}

WebInit ==
    /\ stage = "search" /\ hits = <<>> /\ hit = 0 /\ url = Unchosen /\ hops = 0
    /\ pinned = {} /\ sent = <<>> /\ pages = <<>> /\ late = FALSE /\ citations = {}

-----------------------------------------------------------------------------
(* The search. *)

\* Mutant of SearchReturns: as many hits as the service returns.
SearchReturnsAll ==
    /\ stage = "search"
    /\ \E n \in 0 .. ResultCount : hits' \in [1 .. n -> Urls]
    /\ stage' = "page"
    /\ UNCHANGED <<hit, url, hops, pinned, sent, pages, late, citations>>

\* The service's results are cut to the number asked for.
SearchReturns ==
    /\ stage = "search"
    /\ \E n \in 0 .. ResultCount :
         hits' \in [1 .. (IF n < TopN THEN n ELSE TopN) -> Urls]
    /\ stage' = "page"
    /\ UNCHANGED <<hit, url, hops, pinned, sent, pages, late, citations>>

\* A timeout, an error status, or an answer that is not JSON.
SearchFails ==
    /\ stage = "search"
    /\ stage' = "search_failed"
    /\ UNCHANGED <<hits, hit, url, hops, pinned, sent, pages, late, citations>>

-----------------------------------------------------------------------------
(* One hop. *)

\* contain_url, given what the host resolves to.
Contained(u, resolved) ==
    /\ u.form = "good"
    /\ AllowedHosts = {} \/ u.host \in AllowedHosts
    /\ resolved # {} /\ resolved \subseteq PublicAddresses

\* The next hit, or the end of the loop: all are done or time is up.
NextHit ==
    /\ stage = "page"
    /\ IF hit < Len(hits) /\ ~late
       THEN \* the fetch begins, with the containment of its first hop
            /\ hit' = hit + 1 /\ hops' = 0 /\ sent' = <<>>
            /\ \E resolved \in SUBSET Addresses :
                 IF Contained(hits[hit + 1], resolved)
                 THEN stage' = "request" /\ url' = hits[hit + 1] /\ pinned' = resolved
                 ELSE stage' = "page" /\ UNCHANGED <<url, pinned>>
       ELSE /\ stage' = IF pages = <<>> THEN "no_pages" ELSE "answer"
            /\ UNCHANGED <<hit, hops, sent, url, pinned>>
    /\ UNCHANGED <<hits, pages, late, citations>>

\* The request is sent to one of the addresses that were checked, whatever
\* the name resolves to by now.
Requested == \E address \in pinned :
    sent' = Append(sent, [url |-> url, checked |-> pinned, address |-> address])

\* Mutant of Redirected: redirects are not counted against a bound.
RedirectedUnbounded ==
    /\ stage = "request"
    /\ Requested
    /\ \E target \in Urls, resolved \in SUBSET Addresses :
         IF ~Contained(target, resolved)
         THEN stage' = "page" /\ UNCHANGED <<hops, url, pinned>>
         ELSE /\ hops' = hops + 1 /\ url' = target /\ pinned' = resolved
              /\ UNCHANGED stage
    /\ UNCHANGED <<hits, hit, pages, late, citations>>

\* Mutant of Redirected: a redirect is followed without a check of its target.
RedirectedUnchecked ==
    /\ stage = "request"
    /\ Requested
    /\ \E target \in Urls, resolved \in SUBSET Addresses :
         IF hops + 1 > MaxRedirects \/ resolved = {}
         THEN stage' = "page" /\ UNCHANGED <<hops, url, pinned>>
         ELSE /\ hops' = hops + 1 /\ url' = target /\ pinned' = resolved
              /\ UNCHANGED stage
    /\ UNCHANGED <<hits, hit, pages, late, citations>>

\* The answer is a redirect: its target is contained like the first URL, within
\* the bound on redirects; else the fetch fails and the hit is skipped.
Redirected ==
    /\ stage = "request"
    /\ Requested
    /\ \E target \in Urls, resolved \in SUBSET Addresses :
         IF hops + 1 > MaxRedirects \/ ~Contained(target, resolved)
         THEN stage' = "page" /\ UNCHANGED <<hops, url, pinned>>
         ELSE /\ hops' = hops + 1 /\ url' = target /\ pinned' = resolved
              /\ UNCHANGED stage
    /\ UNCHANGED <<hits, hit, pages, late, citations>>

\* The answer is a redirect to what urljoin cannot parse: its ValueError, which
\* the loop over the hits does not catch, ends the call.
RedirectMalformed ==
    /\ stage = "request" /\ hops + 1 <= MaxRedirects
    /\ Requested
    /\ stage' = "raised" /\ hops' = hops + 1
    /\ UNCHANGED <<hits, hit, url, pinned, pages, late, citations>>

\* A timeout, an oversize body, a connection error or a body that does not
\* parse: the hit is skipped.
RequestFails ==
    /\ stage = "request"
    /\ Requested
    /\ stage' = "page"
    /\ UNCHANGED <<hits, hit, url, hops, pinned, pages, late, citations>>

\* Any other answer is a page, kept when it has text.
PageArrives ==
    /\ stage = "request"
    /\ Requested
    /\ stage' = "page"
    /\ pages' \in {pages, Append(pages, [url |-> url, hit |-> hit, via |-> sent'])}
    /\ UNCHANGED <<hits, hit, url, hops, pinned, late, citations>>

TimePasses ==
    /\ stage \in {"page", "request"} /\ ~late
    /\ late' = TRUE
    /\ UNCHANGED <<stage, hits, hit, url, hops, pinned, sent, pages, citations>>

-----------------------------------------------------------------------------
(* The answer. *)

\* Chunks of some of the pages are put to the model; each page is cited once.
Answer ==
    /\ stage = "answer"
    /\ \E used \in (SUBSET {page.url : page \in ToSet(pages)}) \ {{}} :
         citations' = used
    /\ stage' = "answered"
    /\ UNCHANGED <<hits, hit, url, hops, pinned, sent, pages, late>>

\* No chunk matches, the model has no answer, or the model fails.
NoAnswer ==
    /\ stage = "answer"
    /\ stage' \in {"not_found", "model_failed"}
    /\ UNCHANGED <<hits, hit, url, hops, pinned, sent, pages, late, citations>>

WebNext ==
    \/ SearchReturns \/ SearchFails \/ NextHit
    \/ Redirected \/ RedirectMalformed \/ RequestFails \/ PageArrives \/ TimePasses
    \/ Answer \/ NoAnswer

WebSpec == WebInit /\ [][WebNext]_webVars

-----------------------------------------------------------------------------
(* Properties. *)

WebTypeOK ==
    /\ stage \in {"search", "page", "request", "answer"} \cup Ends
    /\ hits \in Seq(Urls) /\ hit \in 0 .. Len(hits) /\ url \in Urls
    /\ hops \in 0 .. MaxRedirects /\ pinned \subseteq Addresses
    /\ late \in BOOLEAN
    /\ stage = "request" => pinned # {}

\* The requests of one fetch are few enough and each is what its hop was
\* checked for.
Sound(requests) ==
    /\ Len(requests) <= MaxRedirects + 1
    /\ \A r \in ToSet(requests) :
         /\ r.address \in r.checked /\ r.checked \subseteq PublicAddresses
         /\ r.url.form = "good"
         /\ AllowedHosts # {} => r.url.host \in AllowedHosts

\* However names change between a check and a request and across redirects,
\* every request of a fetch goes to an address that was checked for its own
\* hop, all of whose addresses were public, on an allowed host; and a hit costs
\* at most one request more than the redirects that are allowed
\* (fetcher.py:276-295 with transport.py:34-73).
FetchesStayContained == Sound(sent) /\ \A page \in ToSet(pages) : Sound(page.via)

\* The answer rests on pages that were really fetched: in the order of the
\* hits, at most one per hit and no more than TopN, each served by the URL its
\* last request was for; citations name such pages only (tools.py:156-198).
AnswersRestOnPages ==
    /\ Len(pages) <= TopN
    /\ \A i \in 1 .. Len(pages) :
         /\ pages[i].url = pages[i].via[Len(pages[i].via)].url
         /\ i > 1 => pages[i - 1].hit < pages[i].hit
    /\ citations \subseteq {page.url : page \in ToSet(pages)}
    /\ stage = "answered" <=> citations # {}

\* web_answer in every state: types, contained fetches, and an answer that
\* rests on what they brought.
WebAnswersAreSound == WebTypeOK /\ FetchesStayContained /\ AnswersRestOnPages
=============================================================================
