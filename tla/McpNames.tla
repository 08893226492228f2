------------------------------ MODULE McpNames ------------------------------
(***************************************************************************)
(* The names under which tools of MCP servers are registered               *)
(* (mcp/policy.py): "mcp", the server and the tool, joined by "__".  The   *)
(* dispatcher keeps one tool per name and overwrites silently, so a name   *)
(* must have one reading only.  A name is a sequence of characters; those  *)
(* the policy treats alike are one.                                        *)
(***************************************************************************)
EXTENDS Integers, Sequences, SequencesExt

\* A letter or digit, a dot or dash, an underscore, anything else.
NameCharacters == {"letter", "dash", "underscore", "other"}

SeparatorAt(text, i) ==
    i + 1 <= Len(text) /\ text[i] = "underscore" /\ text[i + 1] = "underscore"

HasSeparator(text) == \E i \in DOMAIN text : SeparatorAt(text, i)

\* Mutant of NameComponent: a name may begin like a Python name.
NameComponentPrivate(text) ==
    /\ text # <<>> /\ text[1] \in {"letter", "underscore"}
    /\ "other" \notin ToSet(text) /\ ~HasSeparator(text)

\* _require_name_component: the pattern, over the whole name, without "__".
NameComponent(text) ==
    /\ text # <<>> /\ text[1] = "letter"
    /\ "other" \notin ToSet(text) /\ ~HasSeparator(text)

Namespace(server, tool) == server \o <<"underscore", "underscore">> \o tool

\* What list_tools pins: the tools whose names can be told apart.
Pinned(server, tools) ==
    [name \in {Namespace(server, tool) : tool \in {t \in tools : NameComponent(t)}} |->
        SubSeq(name, Len(server) + 3, Len(name))]

-----------------------------------------------------------------------------

\* The ways a registered name can be read as a server and a tool of it.
Readings(name) ==
    {i \in DOMAIN name : /\ SeparatorAt(name, i)
                         /\ NameComponent(SubSeq(name, 1, i - 1))
                         /\ NameComponent(SubSeq(name, i + 2, Len(name)))}

\* Every tool an accepted server may list is called under a name that no other
\* server and no other tool can have, though a name may end in an underscore
\* next to the separator (policy.py:127-178 with 250-278).
NamesAreKept(server, tool) ==
    LET pinned == Pinned(server, {tool}) IN
    NameComponent(server) =>
      \A name \in DOMAIN pinned :
        pinned[name] = tool /\ Readings(name) = {Len(server) + 1}
=============================================================================
