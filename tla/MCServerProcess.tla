-------------------------- MODULE MCServerProcess --------------------------
(***************************************************************************)
(* The modules of a process with the demo modules, DocQA and MCP enabled,  *)
(* in the order main.py registers them; two MCP servers, the second with a *)
(* name the policy may refuse; three uploads under a cap of two files and  *)
(* three units of bytes; two processes.                                    *)
(***************************************************************************)
EXTENDS ServerProcess, TLC

CONSTANTS u1, u2, u3, fs, git

MCUploadIds == {u1, u2, u3}
MCServers == <<fs, git>>
MCMisnamed == {git}

MCOrder == <<"flaky", "dependent", "model-manager", "llm-serving", "docqa", "mcp">>
MCRegistration ==
    [ order |-> MCOrder,
      deps |-> [m \in ToSet(MCOrder) |->
                  CASE m = "dependent"   -> <<"flaky">>
                    [] m = "llm-serving" -> <<"model-manager">>
                    [] m = "docqa"       -> <<"llm-serving">>
                    [] OTHER             -> <<>>],
      caps |-> [m \in ToSet(MCOrder) |->
                  IF m = "llm-serving" THEN <<"chat">> ELSE <<m>>] ]
=============================================================================
