---------------------------- MODULE ModelCalls -----------------------------
(***************************************************************************)
(* The calls of the model: what llm_serving.py sends and how it folds a    *)
(* stream into a response, and what model_adapter.py makes of a response.  *)
(*                                                                         *)
(* A piece of text is an atom; a text is a sequence of pieces.  What is    *)
(* malformed at any level is the value Odd.                                *)
(***************************************************************************)
EXTENDS Ordering, Sequences, SequencesExt, FiniteSetsExt

CONSTANTS
    Odd,        \* a value of the wrong shape
    Pieces,     \* what texts are made of
    Complete(_) \* whether a text of argument pieces is a whole JSON object

\* A tool call, with the identifier the engine gave it or, without one, the
\* one made up from its index; and a response.
Given(id) == <<"given", id>>
MadeUp(index) == <<"call", index>>
Identifiers == ({"given"} \X STRING) \cup ({"call"} \X Int)
Calls == [id : Identifiers, name : STRING, args : Seq(Pieces)]
Responses == [content : Seq(Pieces), calls : Seq(Calls)]

ASSUME OddIsOdd == Odd \notin Calls /\ Odd \notin Responses

-----------------------------------------------------------------------------
(* A streamed response.  A chunk is Odd or [text, calls], a fragment in    *)
(* calls is Odd or [index, id, name, args]; 0, "" and <<>> stand for what  *)
(* is absent, an index that is not a number counting as 0.                 *)

Slot == [id |-> "", name |-> "", args |-> <<>>]
EmptyAccum == [content |-> <<>>, slots |-> [i \in {} |-> Slot]]

Kept(new, old) == IF new # "" THEN new ELSE old

\* Mutant of Folded: the fragments of one call are taken for the call before.
FoldedIntoLast(slots, f) ==
    LET at == IF DOMAIN slots = {} THEN f.index ELSE Max(DOMAIN slots \cup {f.index})
        slot == IF at \in DOMAIN slots THEN slots[at] ELSE Slot
    IN  [i \in DOMAIN slots \cup {at} |->
           IF i = at THEN [id |-> Kept(f.id, slot.id), name |-> Kept(f.name, slot.name),
                           args |-> slot.args \o f.args]
           ELSE slots[i]]

\* Mutant of Folded: a fragment without an identifier takes it away.
FoldedForgettingId(slots, f) ==
    LET slot == IF f.index \in DOMAIN slots THEN slots[f.index] ELSE Slot IN
    [i \in DOMAIN slots \cup {f.index} |->
       IF i = f.index THEN [id |-> f.id, name |-> Kept(f.name, slot.name),
                            args |-> slot.args \o f.args]
       ELSE slots[i]]

\* One fragment of a tool call; a later id or name replaces an earlier one.
Folded(slots, f) ==
    LET slot == IF f.index \in DOMAIN slots THEN slots[f.index] ELSE Slot IN
    [i \in DOMAIN slots \cup {f.index} |->
       IF i = f.index THEN [id |-> Kept(f.id, slot.id), name |-> Kept(f.name, slot.name),
                            args |-> slot.args \o f.args]
       ELSE slots[i]]

\* The slots after the fragments of a chunk.
AllFolded(slots, calls) ==
    LET folded[n \in 0 .. Len(calls)] ==
          IF n = 0 THEN slots
          ELSE IF calls[n] = Odd THEN folded[n - 1] ELSE Folded(folded[n - 1], calls[n])
    IN  folded[Len(calls)]

\* _StreamAccum.add, after _parse_sse_line dropped the lines without a chunk.
Add(accum, chunk) ==
    IF chunk = Odd THEN accum
    ELSE [content |-> accum.content \o chunk.text,
          slots |-> AllFolded(accum.slots, chunk.calls)]

\* What on_token is given for a chunk.
Delta(chunk) == IF chunk = Odd THEN <<>> ELSE chunk.text

\* _StreamAccum.response: the named calls in the order of their index.
Response(accum) ==
    LET named == {i \in DOMAIN accum.slots : accum.slots[i].name # ""} IN
    [content |-> accum.content,
     calls |-> [n \in 1 .. Cardinality(named) |->
                  LET i == Increasing(named)[n] IN
                  [id   |-> IF accum.slots[i].id # "" THEN Given(accum.slots[i].id)
                            ELSE MadeUp(i),
                   name |-> accum.slots[i].name,
                   args |-> accum.slots[i].args]]]

Streamed(chunks) ==
    LET added[n \in 0 .. Len(chunks)] ==
          IF n = 0 THEN EmptyAccum ELSE Add(added[n - 1], chunks[n])
    IN  Response(added[Len(chunks)])

\* _parse_args: the object, or no arguments at all.
ParseArgs(args) == IF Complete(args) THEN args ELSE <<>>

\* parse_turn: the text and the calls of a response; odd calls and calls
\* without a name are left out.
ParseTurn(response) ==
    IF response = Odd THEN [text |-> <<>>, calls |-> <<>>]
    ELSE LET good == {n \in 1 .. Len(response.calls) :
                        response.calls[n] # Odd /\ response.calls[n].name # ""}
         IN  [text  |-> response.content,
              calls |-> [k \in 1 .. Cardinality(good) |->
                           LET call == response.calls[Increasing(good)[k]] IN
                           [id |-> call.id, tool |-> call.name,
                            args |-> ParseArgs(call.args)]]]

-----------------------------------------------------------------------------
(* The request.  Parameters are a function from the keys that are given.   *)

ParamKeys == {"temperature", "top_p", "top_k", "max_tokens"}

Restricted(params, keys) == [k \in DOMAIN params \cap keys |-> params[k]]
Over(new, old) ==
    [k \in DOMAIN new \cup DOMAIN old |-> IF k \in DOMAIN new THEN new[k] ELSE old[k]]

\* set_default_params: known keys replace those set before.
SetDefaultParams(defaults, params) == Over(Restricted(params, ParamKeys), defaults)

\* _build_payload: the call's own parameters win; tool schemas are passed on.
BuildPayload(defaults, params, tools) ==
    [params |-> Over(Restricted(params, ParamKeys), defaults), tools |-> tools]

\* Mutant of Clamped: only a direct chat is clamped, not the defaults it uses.
ClampedNot(params, ceiling) == params

\* What POST /model/params and POST /chat do with max_tokens of a request.
Clamped(params, ceiling) ==
    [k \in DOMAIN params |->
       IF k = "max_tokens" /\ params[k] > ceiling THEN ceiling ELSE params[k]]

\* Who asks for a chat, and the parameters it gives: POST /chat those of its
\* request, the agent's turns none, the tools that answer, summarise or look at
\* documents a configured number of tokens, `size`.
Callers == {"chat", "agent", "documents"}
ParamsOf(caller, own, size, ceiling) ==
    CASE caller = "chat"      -> Clamped(own, ceiling)
      [] caller = "agent"     -> [k \in {} |-> 0]
      [] caller = "documents" -> [k \in {"max_tokens"} |-> size]

\* The defaults after the settings, each a POST /model/params.
Defaulted(settings, ceiling) ==
    LET defaults[n \in 0 .. Len(settings)] ==
          IF n = 0 THEN [k \in {} |-> 0]
          ELSE SetDefaultParams(defaults[n - 1], Clamped(settings[n], ceiling))
    IN  defaults[Len(settings)]

-----------------------------------------------------------------------------
(* What a stream brings: all of its text, and the arguments of one call. *)

TextOf(chunks) ==
    LET text[n \in 0 .. Len(chunks)] ==
          IF n = 0 THEN <<>>
          ELSE IF chunks[n] = Odd THEN text[n - 1] ELSE text[n - 1] \o Delta(chunks[n])
    IN  text[Len(chunks)]

ReceivedIn(args, calls, i) ==
    LET got[n \in 0 .. Len(calls)] ==
          IF n = 0 THEN args
          ELSE IF calls[n] = Odd THEN got[n - 1]
          ELSE IF calls[n].index = i THEN got[n - 1] \o calls[n].args ELSE got[n - 1]
    IN  got[Len(calls)]

Received(chunks, i) ==
    LET got[n \in 0 .. Len(chunks)] ==
          IF n = 0 THEN <<>>
          ELSE IF chunks[n] = Odd THEN got[n - 1]
          ELSE ReceivedIn(got[n - 1], chunks[n].calls, i)
    IN  got[Len(chunks)]

\* `chunks` is the start of a stream that is to bring the calls `sent`: the
\* fragments of a call come in their order, its name and its identifier, if the
\* engine gives it one, each in some of them, and only all of its arguments are
\* a whole object.
IsStream(sent, chunks) ==
    /\ IsFiniteSet(DOMAIN sent) /\ DOMAIN sent \subseteq Int
    /\ \A i \in DOMAIN sent : sent[i].id \in STRING /\ sent[i].name \in STRING
                              /\ sent[i].args \in Seq(Pieces)
    /\ chunks \in Seq(ToSet(chunks))
    /\ \A c \in ToSet(chunks) : c # Odd =>
         /\ c.text \in Seq(Pieces) /\ c.calls \in Seq(ToSet(c.calls))
         /\ \A f \in ToSet(c.calls) : f # Odd =>
              /\ f.index \in DOMAIN sent /\ f.id \in {"", sent[f.index].id}
              /\ f.name \in {"", sent[f.index].name} /\ f.args \in Seq(Pieces)
    /\ \A i \in DOMAIN sent :
         LET got == Received(chunks, i) IN
         IsPrefix(got, sent[i].args) /\ (Complete(got) => got = sent[i].args)

-----------------------------------------------------------------------------
(* Properties. *)

\* The fragments of several calls may arrive in any order that keeps each
\* call's own, with text between them, and the stream may stop anywhere: the
\* turn has exactly the text that was passed to on_token; a call it makes has
\* the name that was sent for its index, the identifier that was sent for it or,
\* while none arrived, the one made up from the index, and the arguments sent
\* for it, whole or none at all; and no call whose name arrived is missing
\* (llm_serving.py:51-110 with model_adapter.py:35-91).  `sent` is what each
\* index was to receive, `chunks` what arrived.
TurnsAreUntangled(sent, chunks) ==
    LET turn == ParseTurn(Streamed(chunks))
        fragments(i) == {f \in (UNION {ToSet(c.calls) : c \in ToSet(chunks) \ {Odd}}) \ {Odd} :
                           f.index = i}
        named == {i \in DOMAIN sent : \E f \in fragments(i) : f.name # ""}
        at(n) == Increasing(named)[n]
        identified(i) == \E f \in fragments(i) : f.id # ""
    IN  /\ turn.text = TextOf(chunks)
        /\ DOMAIN turn.calls = 1 .. Cardinality(named)
        /\ \A n \in DOMAIN turn.calls :
             /\ turn.calls[n].tool = sent[at(n)].name
             /\ turn.calls[n].id = IF identified(at(n)) THEN Given(sent[at(n)].id)
                                   ELSE MadeUp(at(n))
             /\ turn.calls[n].args \in {<<>>, sent[at(n)].args}
             /\ turn.calls[n].args # <<>> => Complete(turn.calls[n].args)

\* However a number of tokens is given, as a default before a chat or with it,
\* and in whatever order: a POST /chat and a turn of the agent ask the engine for
\* no more than the ceiling; the tools on documents ask for their configured
\* number, which neither the ceiling nor a default changes; and any other
\* parameter is the chat's own, or else the last default given for it
\* (gateway.py:327-330 and 358-361, llm_serving.py:201-217, qa.py:178,
\* multimodal.py:97, summarizer.py:94).
TokensAreClamped(settings, caller, own, size, ceiling) ==
    LET given == ParamsOf(caller, own, size, ceiling)
        payload == BuildPayload(Defaulted(settings, ceiling), given, <<>>).params
        givenBy(k) == {n \in DOMAIN settings : k \in DOMAIN settings[n]}
    IN  /\ DOMAIN payload \subseteq ParamKeys
        /\ IF caller = "documents" THEN payload["max_tokens"] = size
           ELSE "max_tokens" \in DOMAIN payload => payload["max_tokens"] <= ceiling
        /\ \A k \in ParamKeys \ {"max_tokens"} :
             IF k \in DOMAIN given THEN payload[k] = own[k]
             ELSE \A n \in givenBy(k) :
                    (\A m \in givenBy(k) : m <= n) => payload[k] = settings[n][k]
=============================================================================
