-------------------------- MODULE SubprocessRunner --------------------------
(***************************************************************************)
(* One subprocess of the execution sandbox: _subprocess_runner of          *)
(* exec/sandbox.py, which drains the child's stdout, then its stderr, then *)
(* waits for its exit, all within one timeout.                             *)
(*                                                                         *)
(* The child, and how much of its output the pipe and the reader's buffer  *)
(* hold, are external.  Output is counted in equal pieces.                 *)
(***************************************************************************)
EXTENDS Integers, Sequences, FiniteSets

CONSTANTS
    Cap,        \* max_output_bytes
    Capacity,   \* what a stream holds that nobody reads
    Writes      \* bound: how much the child writes

ASSUME RunnerNumbers == {Cap, Capacity} \subseteq Nat \ {0} /\ Writes \in Nat

Streams == {"out", "err"}

VARIABLES
    runner,     \* "idle", the stream it drains, "exit", "answered", "timed_out"
    capped,     \* the call has a cap
    script,     \* the streams the child has still to write to, in order
    hangs,      \* and whether it then stays
    pipe,       \* what each stream holds
    got,        \* what was read of each
    clipped,        \* draining stopped before the end
    written     \* what the child has to write to each, over its life

runnerVars == <<runner, capped, script, hangs, pipe, got, clipped, written>>

Empty == [s \in Streams |-> 0]

RunnerInit ==
    /\ runner = "idle" /\ capped = FALSE /\ script = <<>> /\ hangs = FALSE
    /\ pipe = Empty /\ got = Empty /\ clipped = FALSE /\ written = Empty

\* Mutant of Hard: the cap itself.
HardAtCap == Cap

\* Where draining stops: past the cap, so that truncation shows.
Hard == 2 * Cap

Count(s, plan) == Cardinality({i \in DOMAIN plan : plan[i] = s})

\* Mutant of First: the process is waited for before its output is read.
FirstWaits == "exit"

First == "out"

\* What follows the draining of a stream.
After(s) == IF s = "out" THEN "err" ELSE "exit"

Spawn ==
    /\ runner = "idle"
    /\ runner' = First
    /\ capped' \in BOOLEAN /\ hangs' \in BOOLEAN
    /\ script' \in UNION {[1 .. n -> Streams] : n \in 0 .. Writes}
    /\ written' = [s \in Streams |-> Count(s, script')]
    /\ UNCHANGED <<pipe, got, clipped>>

Running == runner \in Streams \cup {"exit"}
ChildEnded == script = <<>> /\ ~hangs

\* The child writes, if its stream has room; else it waits.
ChildWrites ==
    /\ Running /\ script # <<>> /\ pipe[Head(script)] < Capacity
    /\ pipe' = [pipe EXCEPT ![Head(script)] = @ + 1]
    /\ script' = Tail(script)
    /\ UNCHANGED <<runner, capped, hangs, got, clipped, written>>

\* A read returns some of what is there.
Reads ==
    /\ runner \in Streams
    /\ \E n \in 1 .. pipe[runner] :
         /\ pipe' = [pipe EXCEPT ![runner] = @ - n]
         /\ got' = [got EXCEPT ![runner] = @ + n]
    /\ LET enough == capped /\ got'[runner] >= Hard IN
         /\ clipped' = (clipped \/ enough)
         /\ runner' = IF enough THEN After(runner) ELSE runner
    /\ UNCHANGED <<capped, script, hangs, written>>

EndOfStream ==
    /\ runner \in Streams /\ pipe[runner] = 0 /\ ChildEnded
    /\ runner' = After(runner)
    /\ UNCHANGED <<capped, script, hangs, pipe, got, clipped, written>>

Exits ==
    /\ runner = "exit" /\ ChildEnded
    /\ runner' = "answered"
    /\ UNCHANGED <<capped, script, hangs, pipe, got, clipped, written>>

\* The child is killed, and what was read is dropped.
RunnerTimesOut ==
    /\ Running
    /\ runner' = "timed_out" /\ got' = Empty /\ clipped' = FALSE
    /\ UNCHANGED <<capped, script, hangs, pipe, written>>

RunnerNext ==
    \/ Spawn \/ ChildWrites \/ Reads \/ EndOfStream \/ Exits \/ RunnerTimesOut

RunnerSpec == RunnerInit /\ [][RunnerNext]_runnerVars

-----------------------------------------------------------------------------

\* What DockerSandbox.run reports, and read_file raises for.
Truncated == clipped \/ (capped /\ \E s \in Streams : got[s] > Cap)

\* An answer says that output is missing if and only if a stream went over the
\* cap: what it gives without saying so is all the child wrote
\* (sandbox.py:81-112 with 248-277).
TruncationIsTold ==
    runner = "answered" =>
        /\ Truncated <=> capped /\ \E s \in Streams : written[s] > Cap
        /\ ~Truncated => got = written

\* The child waits for room in a stream that the runner is not reading, and
\* the runner for the child: only the timeout ends this.
Deadlocked ==
    /\ Running /\ script # <<>> /\ pipe[Head(script)] = Capacity
    /\ runner # Head(script)
    /\ runner \in Streams => pipe[runner] = 0

\* Draining one stream after the other blocks a child only if it writes more
\* to stderr than a stream holds, or floods a stream past the cap by more than
\* draining goes on for (sandbox.py:84-103).
OnlyFloodsBlock ==
    Deadlocked => \/ written["err"] > Capacity
                  \/ capped /\ \E s \in Streams : written[s] > Hard + Capacity

\* The runner in every state: it tells what it clipped, and only a flood stops
\* it.
OutputIsAccountedFor == TruncationIsTold /\ OnlyFloodsBlock
=============================================================================
