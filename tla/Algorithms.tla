----------------------------- MODULE Algorithms -----------------------------
(***************************************************************************)
(* The parts of the system that are functions of their input, beside two   *)
(* procedures that run on their own: a behaviour picks one input, kept in  *)
(* `sample`, or is a run of web_answer or of one subprocess.               *)
(***************************************************************************)
EXTENDS WebAnswer, Composition, Configuration, Containment, ModelCalls,
        DocumentAnswers, Endpoints, McpNames, SubprocessRunner

CONSTANTS
    Kinds, Samples(_),  \* the kinds of input, and the inputs of a kind
    Scopes,     \* the scopes of tokens
    Ceiling     \* chat_max_tokens_ceiling

\* What an input of each kind is.
IsInput(s) ==
    /\ s.kind = "call" => s.call \in ProposedCalls /\ s.more \subseteq Finds
    /\ s.kind = "flags" => s.on \subseteq Flags
    /\ s.kind = "settings" => s.settings \in AllSettings
    /\ s.kind = "registration" => IsRegistration(s.reg) /\ RegisteredOnce(s.reg)
    /\ s.kind = "stream" => IsStream(s.sent, s.chunks)
    /\ s.kind = "params" =>
          /\ s.settings \in Seq(ToSet(s.settings))
          /\ s.caller \in Callers /\ s.size \in Nat \ {0}
          /\ \A p \in ToSet(s.settings) \cup {s.own} :
                "max_tokens" \in DOMAIN p => p["max_tokens"] \in Int
    /\ s.kind = "path" =>
          /\ s.root \in Seq(Segments \ {".", ".."})
          /\ s.path.absolute \in BOOLEAN /\ s.path.segments \in Seq(Segments)
    /\ s.kind = "tree" =>
          IsTree(s.tree) /\ {s.limits.maxDocs, s.limits.maxTotal} \subseteq Nat \ {0}
    /\ s.kind = "choice" =>
          s.chunks \in Seq(Chunks) /\ {s.limits.topK, s.limits.maxContext} \subseteq Nat \ {0}
    /\ s.kind = "parse" =>
          /\ s.sections \in Seq(Nat) /\ s.pages \in Seq(Pages)
          /\ {s.bounds.maxBytes, s.bounds.maxPages, s.bounds.maxPx} \subseteq Nat \ {0}
    /\ s.kind = "request" =>
          /\ s.settings \in GatewaySettings /\ s.cred \in Credentials(Scopes)
          /\ s.route \in Routes /\ s.minutes \in Int
    /\ s.kind = "offer" => IsApp(s.app) /\ s.request \in AllRequests
    /\ s.kind = "name" => s.server \in Seq(NameCharacters) /\ s.tool \in Seq(NameCharacters)

ASSUME SamplesAreInputs == \A kind \in Kinds : \A s \in Samples(kind) : IsInput(s)
ASSUME CeilingIsNumber == Ceiling \in Int
ASSUME ScopesAreNamed == ScopesUsed \subseteq Scopes /\ NoToken \notin AllTokens(Scopes)

VARIABLE sample

Nothing == [kind |-> "none"]

AlgorithmsInit == sample = Nothing /\ WebInit /\ RunnerInit

Pick ==
    /\ sample = Nothing /\ stage = "search" /\ runner = "idle"
    /\ \E kind \in Kinds : sample' \in Samples(kind)
    /\ UNCHANGED <<webVars, runnerVars>>

AlgorithmsNext ==
    \/ Pick
    \/ sample = Nothing /\ runner = "idle" /\ WebNext /\ UNCHANGED <<sample, runnerVars>>
    \/ sample = Nothing /\ stage = "search" /\ RunnerNext /\ UNCHANGED <<sample, webVars>>

AlgorithmsSpec == AlgorithmsInit /\ [][AlgorithmsNext]_<<sample, webVars, runnerVars>>

-----------------------------------------------------------------------------
(* The gate and the tools under it. *)

\* Every call is gated strictly (gate.py:258-287).
EveryCallIsGated ==
    sample.kind = "call" => GateIsStrict(sample.safe, sample.call, sample.more)

\* Every combination of flags builds modules that fit together (main.py:67-154).
EveryBuildFitsTogether == sample.kind = "flags" => ModulesFitTogether(sample.on)

\* Every combination gates its tools by what they do (main.py:193-251).
EveryToolHasItsTier == sample.kind = "flags" => ToolsMatchTheirTier(sample.on)

\* No two tools of MCP servers share a name (mcp/policy.py:127-178).
EveryToolKeepsItsName == sample.kind = "name" => NamesAreKept(sample.server, sample.tool)

\* Every tool, however it is named, called and composed, is under its gate.
EveryToolIsGated ==
    EveryCallIsGated /\ EveryToolHasItsTier /\ EveryBuildFitsTogether /\ EveryToolKeepsItsName

-----------------------------------------------------------------------------
(* Settings and registrations. *)

\* Settings that pass the validators suit the components (config.py:228-423).
EverySettingSuits == sample.kind = "settings" => SettingsSuitConsumers(sample.settings)

\* Modules start after what they depend on (registry.py:54-78).
EveryStartOrderIsSound == sample.kind = "registration" => StartOrderIsSound(sample.reg)

\* Availability looks all the way down (registry.py:121-156).
EveryAvailabilityIsTransitive ==
    sample.kind = "registration" => AvailabilityIsTransitive(sample.reg, sample.healthy)

\* Every setting, start order and availability suits what is below and above.
EverySetupIsSound ==
    EverySettingSuits /\ EveryStartOrderIsSound /\ EveryAvailabilityIsTransitive

-----------------------------------------------------------------------------
(* Exchanges with the model. *)

\* The calls of a stream are not mixed up (llm_serving.py:51-110).
EveryStreamIsUntangled ==
    sample.kind = "stream" => TurnsAreUntangled(sample.sent, sample.chunks)

\* Chats ask for no more than they may, and for their own (gateway.py:321-364).
EveryChatIsClamped ==
    sample.kind = "params" =>
      TokensAreClamped(sample.settings, sample.caller, sample.own, sample.size, Ceiling)

\* No stream is mixed up, and each chat asks for the tokens its caller may.
EveryModelCallIsFaithful == EveryStreamIsUntangled /\ EveryChatIsClamped

-----------------------------------------------------------------------------
(* Documents. *)

\* What is accepted lies where it should (the four path checks).
EveryPathIsContained ==
    sample.kind = "path" => ContainmentIsReal(sample.root, sample.path, sample.bad)

\* A directory query says what it leaves out (docqa/tools.py:107-123).
EveryGatheringIsHonest == sample.kind = "tree" => GatheringIsHonest(sample.tree, sample.limits)

\* The chunks of an answer are the best that fit (docqa/qa.py:89-123).
EveryChoiceIsBest ==
    sample.kind = "choice" => ChunksAreBest(sample.chunks, sample.limits, sample.reply)

\* Untrusted archives and PDFs stay within their bounds (loaders.py, render.py).
EveryParserIsBounded ==
    sample.kind = "parse" => ParsersStayBounded(sample.sections, sample.pages, sample.bounds)

\* Every document is where it should be, within bounds, and left out aloud.
EveryDocumentIsAccountedFor ==
    EveryPathIsContained /\ EveryGatheringIsHonest /\ EveryChoiceIsBest /\ EveryParserIsBounded

-----------------------------------------------------------------------------
(* Requests to the gateway. *)

\* Credentials and transports agree (auth.py:74-146).
EveryCredentialAgrees ==
    sample.kind = "request" =>
      CredentialsAgree(sample.settings, sample.cred, sample.route, sample.minutes)

\* What is offered is served (gateway.py:169-182, 238-247 and 321-338).
EveryOfferIsServed ==
    sample.kind = "offer" =>
      OffersAreServed(sample.settings, sample.cred, sample.app, sample.request)

\* Every request is admitted alike on all transports, and finds what is offered.
EveryRequestIsAdmittedAlike == EveryCredentialAgrees /\ EveryOfferIsServed
=============================================================================
