---------------------------- MODULE Containment ----------------------------
(***************************************************************************)
(* The path checks: contain_remote of the storage connectors, the          *)
(* workspace path of the sandbox, the stored name of an upload, and        *)
(* resolve_within of the document root, which follows symbolic links.      *)
(*                                                                         *)
(* A path is [absolute, segments]; an absolute place is a sequence of      *)
(* segments from the top of the tree.                                      *)
(***************************************************************************)
EXTENDS Integers, Sequences, SequencesExt

CONSTANTS
    Segments,       \* the names a path is made of, with "." and ".."
    LinkAt(_),      \* where the symbolic link at a place leads, or NoLink
    NoLink, MaxLinks

-----------------------------------------------------------------------------
(* posixpath.normpath(posixpath.join(root, path)). *)

Step(place, segment) ==
    CASE segment = "."  -> place
      [] segment = ".." -> IF place = <<>> THEN <<>> ELSE Front(place)
      [] OTHER          -> Append(place, segment)

Start(root, path) == IF path.absolute THEN <<>> ELSE root

Normalized(root, path) ==
    LET walk[n \in 0 .. Len(path.segments)] ==
          IF n = 0 THEN Start(root, path) ELSE Step(walk[n - 1], path.segments[n])
    IN  walk[Len(path.segments)]

Within(root, place) == IsPrefix(root, place)

Lost == [ok |-> FALSE, place |-> <<>>]

\* contain_remote: the contained place, or the error.
ContainRemote(root, path) ==
    LET target == Normalized(root, path) IN
    IF Within(root, target) THEN [ok |-> TRUE, place |-> target] ELSE Lost

\* contain_workspace_path: below the root, which itself is not a file.
ContainWorkspace(root, path) ==
    LET target == Normalized(root, path) IN
    IF path.segments # <<>> /\ root # <<>> /\ target # root /\ Within(root, target)
    THEN [ok |-> TRUE, place |-> target] ELSE Lost

-----------------------------------------------------------------------------
(* Resolution with links: a link is followed before the next segment.      *)

\* A walk that has still `segments` to go from `place`, after `links` links.
Walks == [place : Seq(Segments), segments : Seq(Segments), links : 0 .. MaxLinks]

Resolved ==
    LET resolved[w \in Walks] ==
          IF w.segments = <<>> THEN [ok |-> TRUE, place |-> w.place]
          ELSE LET next == Step(w.place, Head(w.segments))
                   target == LinkAt(next)
               IN  IF Head(w.segments) \in {".", ".."} \/ target = NoLink
                   THEN resolved[[place |-> next, segments |-> Tail(w.segments), links |-> w.links]]
                   ELSE IF w.links = MaxLinks THEN Lost
                   ELSE resolved[[place |-> <<>>, segments |-> target \o Tail(w.segments),
                                  links |-> w.links + 1]]
    IN  resolved

Resolve(root, path) ==
    Resolved[[place |-> Start(root, path), segments |-> path.segments, links |-> 0]]

\* Mutant of ResolveWithin: containment is checked before links are followed.
ResolveWithinLexically(root, path) ==
    LET real == Resolve(root, path) IN
    IF real.ok /\ Within(root, Normalized(root, path)) THEN real ELSE Lost

\* resolve_within: the real place, or the error; a loop of links is an error.
ResolveWithin(root, path) ==
    LET real == Resolve(root, path) IN
    IF real.ok /\ Within(root, real.place) THEN real ELSE Lost

-----------------------------------------------------------------------------
(* The stored name of an upload: the last component under either separator *)
(* (a path here), unless it is empty, relative or hidden; NUL, control     *)
(* characters and length are the flag `bad`.                               *)

Hidden == "hidden"

StoredName(path, bad) ==
    IF bad \/ path.segments = <<>> \/ Last(path.segments) \in {".", "..", Hidden}
    THEN <<>> ELSE <<Last(path.segments)>>

\* Where an upload is written, below the ingest root and an identifier of its
\* own; <<>> when its name is refused.
Destination(ingestRoot, id, path, bad) ==
    IF StoredName(path, bad) = <<>> THEN <<>>
    ELSE (ingestRoot \o <<id>>) \o StoredName(path, bad)

-----------------------------------------------------------------------------
(* Properties. *)

\* The place a walk along the path ends at, one segment after the other,
\* counting how far it is above the root it started from.
EndsWithin(root, path) ==
    LET start == Start(root, path)
        depth[i \in 0 .. Len(path.segments)] ==
            IF i = 0 THEN Len(start)
            ELSE CASE path.segments[i] = "."  -> depth[i - 1]
                   [] path.segments[i] = ".." -> IF depth[i - 1] = 0 THEN 0 ELSE depth[i - 1] - 1
                   [] OTHER                   -> depth[i - 1] + 1
        \* the segment that last entered each depth, if any did since the start
        entered(d) ==
            LET at == {i \in 1 .. Len(path.segments) :
                          path.segments[i] \notin {".", ".."} /\ depth[i] = d}
            IN  IF at = {} THEN start[d]
                ELSE path.segments[CHOOSE i \in at : \A j \in at : j <= i]
    IN  /\ depth[Len(path.segments)] >= Len(root)
        /\ \A d \in 1 .. Len(root) : entered(d) = root[d]

\* A path is accepted exactly when the place it names lies in the root, with
\* ".." and "." resolved away; with links followed, no accepted document lies
\* outside; and an upload is written directly below its own identifier,
\* whatever its name (connector.py:107-116, policy.py:213-229,
\* loaders.py:68-81, ingest.py:138-160).
ContainmentIsReal(root, path, bad) ==
    LET remote == ContainRemote(root, path)
        workspace == ContainWorkspace(root, path)
        document == ResolveWithin(root, path)
        upload == Destination(root, "id", path, bad)
    IN  /\ remote.ok <=> EndsWithin(root, path)
        /\ workspace.ok => remote.ok /\ workspace.place = remote.place
                             /\ Len(workspace.place) > Len(root)
        /\ remote.ok => {".", ".."} \cap ToSet(remote.place) = {}
        /\ document.ok => IsPrefix(root, document.place)
        /\ upload # <<>> => /\ IsPrefix(root \o <<"id">>, upload)
                            /\ Len(upload) = Len(root) + 2
                            /\ Last(upload) \notin {".", "..", Hidden}
=============================================================================
