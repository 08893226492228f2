---------------------------- MODULE MCAlgorithms ----------------------------
(***************************************************************************)
(* The bounded sets of inputs on which Algorithms is checked.              *)
(***************************************************************************)
EXTENDS Algorithms, TLC

CONSTANTS evil, wiki, pub, priv

MCHosts == {wiki, evil}
MCAllowedHosts == {wiki}
MCAddresses == {pub, priv}
MCPublicAddresses == {pub}

UpTo(n, S) == UNION {[1 .. k -> S] : k \in 0 .. n}

-----------------------------------------------------------------------------
(* The gate: tools of every class of rules, three allowlists. *)

ConsistentFinds == {finds \in SUBSET Finds : Consistent(finds)}
GateTools == {"read_file", "write_file", "run_command", "http_post", "open_url",
              "storage_delete", McpTool, "save_note", "unheard_of"}

CallInputs ==
    {[kind |-> "call", safe |-> safe, more |-> more,
          call |-> [tool |-> tool, malformed |-> malformed, finds |-> finds]] :
            safe \in {{}, {"read_file"}, GateTools}, tool \in GateTools,
            malformed \in BOOLEAN, finds \in ConsistentFinds,
            more \in {{"secret"}, {"system", "redirect"}, {"tamper"}, {"nonlocal"},
                      {"command", "mutating"}}}

-----------------------------------------------------------------------------
(* The composition root: all 4096 combinations of flags. *)

FlagInputs == {[kind |-> "flags", on |-> on] : on \in SUBSET Flags}

-----------------------------------------------------------------------------
(* Settings: the defaults with one number changed or one text malformed, and *)
(* the numbers the chunk sizes derive from, together.                        *)

With(num) == [Defaults EXCEPT !.num = Over(num, @)]

SettingInputs ==
    {[kind |-> "settings", settings |-> settings] : settings \in
        {With([f \in {field} |-> value]) :
            field \in Numbers, value \in {-1, 0, 1, 99, 100, 8080, 65535, 65536}}
          \cup {[Defaults EXCEPT !.malformed = {text}] : text \in CheckedTexts}
          \cup {With([ctx_size |-> ctx, docqa_prompt_reserve_tokens |-> reserve,
                      docqa_chars_per_token |-> chars, docqa_chunk_overlap_ratio |-> ratio,
                      docqa_qa_chunk_chars |-> qa]) :
                  ctx \in 1 .. 4, reserve \in 0 .. 4, chars \in {1, 40, 100, 250},
                  ratio \in {0, 1, 50, 99, 100}, qa \in 1 .. 2}}

-----------------------------------------------------------------------------
(* Registrations: three modules that may depend on each other, themselves or *)
(* a name nobody registered; two of them provide the same capability.        *)

RegistrationInputs ==
    {[kind |-> "registration", healthy |-> healthy,
          reg |-> [order |-> <<"m1", "m2", "m3">>,
                   deps |-> [m1 |-> SetToSeq(d1), m2 |-> SetToSeq(d2), m3 |-> SetToSeq(d3)],
                   caps |-> [m1 |-> <<"x">>, m2 |-> <<"y">>, m3 |-> <<"x", "z">>]]] :
            d1 \in SUBSET {"m1", "m2", "m3", "ghost"}, d2 \in SUBSET {"m1", "m2", "m3", "ghost"},
            d3 \in SUBSET {"m1", "m2", "m3", "ghost"}, healthy \in SUBSET {"m1", "m2", "m3"}}

-----------------------------------------------------------------------------
(* Paths: up to four segments, from three roots, in a tree with a link out  *)
(* of the root, a link into it and a loop.                                  *)

MCSegments == {".", "..", "a", "ab", "l", Hidden}
MCLinkAt(place) ==
    CASE place = <<"a", "l">>       -> <<"ab">>
      [] place = <<"l">>            -> <<"a">>
      [] place = <<"a", "ab", "l">> -> <<"a", "ab", "l">>
      [] OTHER                      -> NoLink

PathInputs ==
    {[kind |-> "path", root |-> root, bad |-> bad,
          path |-> [absolute |-> absolute, segments |-> segments]] :
            root \in {<<>>, <<"a">>, <<"a", "ab">>}, bad \in BOOLEAN,
            absolute \in BOOLEAN, segments \in UpTo(4, Segments)}

-----------------------------------------------------------------------------
(* Streams of two calls with indexes 0 and 2, each a name with an identifier *)
(* or, the second, without one, then two pieces of arguments, in every order *)
(* that keeps each call's own, cut anywhere, with an odd chunk somewhere and *)
(* text in every chunk.                                                      *)

MCComplete(args) == args \in {<<"p", "q">>, <<"r", "s">>}

Sent(second, id) ==
    [i \in {0, 2} |-> IF i = 0 THEN [id |-> "c0", name |-> "f", args |-> <<"p", "q">>]
                      ELSE [id |-> id, name |-> second, args |-> <<"r", "s">>]]
Fragment(calls, i, n) ==
    [index |-> i, id |-> IF n = 1 THEN calls[i].id ELSE "",
     name |-> IF n = 1 THEN calls[i].name ELSE "",
     args |-> IF n = 1 THEN <<>> ELSE <<calls[i].args[n - 1]>>]

\* The fragments in the order the calls take turns.
Fragments(calls, turns) ==
    [n \in DOMAIN turns |->
       Fragment(calls, turns[n], Cardinality({k \in 1 .. n : turns[k] = turns[n]}))]

Turns == {t \in [1 .. 6 -> {0, 2}] : Cardinality({n \in 1 .. 6 : t[n] = 0}) = 3}

Words == <<"t1", "t2", "t3", "t4", "t5", "t6">>

StreamInputs ==
    {[kind |-> "stream", sent |-> Sent(second, id),
          chunks |-> LET all == Fragments(Sent(second, id), turns)
                         plain == [n \in 1 .. cut |-> [text |-> <<Words[n]>>, calls |-> <<all[n]>>]]
                         pair == IF cut < 2 THEN plain
                                 ELSE <<[text |-> <<Words[1]>>, calls |-> <<Odd, all[1], all[2]>>]>>
                                        \o SubSeq(plain, 3, cut)
                         base == IF paired THEN pair ELSE plain
                     IN  InsertAt(base, Least(odd, Len(base)) + 1, Odd)] :
            second \in {"g", ""}, id \in {"c2", ""}, turns \in Turns, cut \in 0 .. 6,
            paired \in BOOLEAN, odd \in 0 .. 3}

\* Parameters, given up to twice as defaults and once with a chat; ceiling 3,
\* and documents that ask for less and for more.
Params == UNION {[keys -> {1, 5}] : keys \in SUBSET {"max_tokens", "temperature", "model"}}

ParamsInputs ==
    {[kind |-> "params", settings |-> settings, own |-> own, caller |-> caller, size |-> size] :
            settings \in UpTo(2, Params), own \in Params, caller \in Callers, size \in {2, 5}}

-----------------------------------------------------------------------------
(* Documents: trees of three paths, each a file of some kind, a link to      *)
(* another of them, or a link to nowhere.                                    *)

File(p, chunks, cut) ==
    [hidden |-> FALSE, supported |-> TRUE, leads |-> p, size |-> 1, loads |-> TRUE,
     chunks |-> chunks, cut |-> cut]
Nodes(p) ==
    {File(p, n, cut) : n \in 0 .. 2, cut \in BOOLEAN}
      \cup {[File(p, 1, FALSE) EXCEPT !.hidden = TRUE],
            [File(p, 1, FALSE) EXCEPT !.supported = FALSE],
            [File(p, 1, FALSE) EXCEPT !.size = 3],
            [File(p, 1, FALSE) EXCEPT !.loads = FALSE]}
      \cup {[File(p, 0, FALSE) EXCEPT !.leads = q] : q \in (0 .. 3) \ {p}}
Trees ==
    {tree \in [1 .. 3 -> UNION {Nodes(p) : p \in 1 .. 3}] :
        \A p \in 1 .. 3 : /\ tree[p] \in Nodes(p)
                          /\ tree[p].leads \in 1 .. 3 => tree[tree[p].leads].leads = tree[p].leads}

TreeInputs ==
    {[kind |-> "tree", tree |-> tree,
          limits |-> [maxDocs |-> d, maxTotal |-> t, maxBytes |-> 2]] :
            tree \in Trees, d \in 1 .. 3, t \in 1 .. 3}

Ranks == {<<0, 0>>, <<1, 1>>, <<1, 2>>, <<2, 2>>}
Candidate(n, rank, source, size) ==
    [distinct |-> rank[1], freq |-> rank[2], source |-> source, index |-> n, size |-> size]

ChoiceInputs ==
    {[kind |-> "choice", reply |-> reply,
          chunks |-> [i \in 1 .. n |-> Candidate(i, ranks[i], sources[i], sizes[i])],
          limits |-> [topK |-> k, maxContext |-> c]] :
            n \in 1 .. 3, ranks \in [1 .. 3 -> Ranks],
            sources \in {<<1, 1, 1>>, <<2, 1, 1>>, <<1, 2, 1>>},
            sizes \in [1 .. 3 -> 1 .. 2], k \in 1 .. 2, c \in 1 .. 3,
            reply \in {"not_ready", "fails", "odd", "NO_ANSWER", "text"}}

ParseInputs ==
    {[kind |-> "parse", sections |-> sections, pages |-> <<>>,
      bounds |-> [maxBytes |-> b, maxPages |-> 1, maxPx |-> 2]] :
        sections \in UpTo(3, 0 .. 3), b \in 1 .. 4}
      \cup {[kind |-> "parse", sections |-> <<>>, pages |-> shown,
             bounds |-> [maxBytes |-> b, maxPages |-> p, maxPx |-> 2]] :
               shown \in UpTo(3, [px : 1 .. 3, bytes : 1 .. 2, ok : BOOLEAN]),
               b \in 1 .. 4, p \in 1 .. 3}

-----------------------------------------------------------------------------
(* Requests: every credential, with tokens of five sets of scopes, and a     *)
(* route of every need.                                                      *)

Tokens == [signed : BOOLEAN, expired : BOOLEAN,
           scopes : {{}, {"*"}, {"invoke"}, {"agent:run"}, {"model:admin"}}]
Query == {NoToken, [signed |-> TRUE, expired |-> FALSE, scopes |-> {"agent:run"}],
          [signed |-> FALSE, expired |-> FALSE, scopes |-> {"*"}]}

MCScopes == {"*", "read", "invoke", "ingest", "model:admin", "agent:run"}
RequestInputs ==
    {[kind |-> "request", settings |-> settings, route |-> route, minutes |-> minutes,
          cred |-> [key |-> key, bearer |-> bearer, query |-> query]] :
            settings \in GatewaySettings,
            route \in {"GET /health", "POST /auth/token", "GET /modules/m", "POST /model/load",
                       "POST /capabilities/c/invoke", "POST /ingest"},
            minutes \in 0 .. 1, key \in Keys, bearer \in Tokens \cup {NoToken}, query \in Query}

-----------------------------------------------------------------------------
(* Offers: applications with and without the model stack, in every state of  *)
(* the engine, asked by who may do everything, only chat, or nothing.        *)

HealthOf(reg, status) == [m \in Names(reg) \ StackModules |-> status]
OfferedApps ==
    LET bare == RegistrationOf(Rows({"demo_modules"}))
        full == RegistrationOf(Rows({"demo_modules", "model_stack", "docqa", "docs_root"}))
    IN  {[reg |-> bare, health |-> HealthOf(bare, status), engine |-> "absent", store |-> FALSE] :
            status \in {"ok", "degraded", "down", "absent"}}
          \cup {[reg |-> full, health |-> HealthOf(full, status), engine |-> engine, store |-> store] :
                   status \in {"ok", "degraded", "down", "absent"},
                   engine \in Engines \ {"absent"}, store \in BOOLEAN}

OfferInputs ==
    {[kind |-> "offer", app |-> app,
          settings |-> [enabled |-> TRUE, key |-> "plain", secret |-> TRUE],
          cred |-> [key |-> key, bearer |-> bearer, query |-> NoToken],
          request |-> [target |-> target, names |-> names, file |-> file, fails |-> fails]] :
            app \in OfferedApps, key \in {"none", "right"}, bearer \in {NoToken, Mint({}, 1)},
            target \in {"docqa", "ghost"}, names \in BOOLEAN, file \in BOOLEAN,
            fails \in BOOLEAN}

-----------------------------------------------------------------------------
(* Names of servers and tools: all of up to three characters. *)

NameInputs ==
    {[kind |-> "name", server |-> server, tool |-> tool] :
        server \in UpTo(3, NameCharacters), tool \in UpTo(3, NameCharacters)}

-----------------------------------------------------------------------------

MCPieces == {"p", "q", "r", "s"} \cup ToSet(Words)

MCKinds == {"call", "flags", "settings", "registration", "path", "stream", "params", "tree",
            "choice", "parse", "request", "offer", "name"}
MCSamples(kind) ==
    CASE kind = "call"         -> CallInputs
      [] kind = "flags"        -> FlagInputs
      [] kind = "settings"     -> SettingInputs
      [] kind = "registration" -> RegistrationInputs
      [] kind = "path"         -> PathInputs
      [] kind = "stream"       -> StreamInputs
      [] kind = "params"       -> ParamsInputs
      [] kind = "tree"         -> TreeInputs
      [] kind = "choice"       -> ChoiceInputs
      [] kind = "parse"        -> ParseInputs
      [] kind = "request"      -> RequestInputs
      [] kind = "offer"        -> OfferInputs
      [] kind = "name"         -> NameInputs
=============================================================================
