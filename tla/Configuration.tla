--------------------------- MODULE Configuration ---------------------------
(***************************************************************************)
(* The settings (config.py): which values the validators accept, and what  *)
(* the components that receive them raise a ValueError for, when they are  *)
(* built or when a request uses them.                                      *)
(*                                                                         *)
(* Settings are [num, malformed]: the numbers, a fraction counted in       *)
(* hundredths, and the names of the texts that are not well formed.        *)
(***************************************************************************)
EXTENDS Integers

CONSTANT Unset      \* the value of an optional number that is not given

Hundred == 100

\* Validated to be positive, group by group.
Positive ==
    {"tensor_parallel_size", "ctx_size",
     "approval_timeout_seconds", "approval_decision_timeout_seconds",
     "agent_max_history_messages", "agent_history_char_cap",
     "llm_stream_idle_timeout_s", "docqa_max_doc_bytes",
     "multimodal_max_pdf_pages", "multimodal_max_page_px",
     "multimodal_max_render_bytes", "multimodal_render_timeout_s",
     "ingest_max_file_bytes", "ingest_max_files", "ingest_max_total_bytes",
     "docqa_chars_per_token", "docqa_max_chunks",
     "docqa_summary_max_tokens", "docqa_reduce_max_passes",
     "docqa_qa_top_k", "docqa_qa_max_context_chars", "docqa_answer_max_tokens",
     "docqa_qa_chunk_chars", "docqa_max_docs_per_query", "docqa_max_total_chunks",
     "storage_max_bytes",
     "browser_max_bytes", "browser_per_fetch_timeout", "browser_total_timeout",
     "browser_top_n", "browser_max_text_chars",
     "exec_mem_bytes", "exec_cpus", "exec_pids_limit", "exec_timeout",
     "exec_max_output_bytes", "exec_ulimit_nofile", "exec_ulimit_fsize",
     "exec_tmpfs_size_bytes",
     "mcp_call_timeout", "mcp_connect_timeout", "mcp_max_result_bytes",
     "mcp_max_description_chars"}

NonNegative ==
    {"agent_max_steps", "agent_max_tool_calls", "agent_result_char_cap",
     "docqa_prompt_reserve_tokens", "browser_max_redirects"}

Ports == {"serve_port", "api_port"}

\* No validator looks at these.
Unchecked == {"agent_deadline_seconds", "chat_max_tokens_ceiling", "jwt_expiry_minutes"}

Numbers == Positive \cup NonNegative \cup Ports \cup Unchecked \cup {"docqa_chunk_overlap_ratio"}

\* The texts a validator looks at: blank names, a relative workspace, a network.
CheckedTexts == {"exec_image", "exec_user", "exec_workspace_root", "exec_network",
          "model_safetensors_dir", "model_gguf_dir"}

\* Numbers are integers; an optional one may be missing.
AllSettings ==
    {s \in [num : [Numbers -> Int \cup {Unset}], malformed : SUBSET CheckedTexts] :
        \A f \in Numbers \ {"agent_deadline_seconds"} : s.num[f] \in Int}

\* The defaults, where their size matters to a check.
Defaults ==
    [num |-> [f \in Numbers |->
                CASE f = "serve_port" -> 8000
                  [] f = "api_port" -> 8080
                  [] f = "agent_deadline_seconds" -> Unset
                  [] f = "ctx_size" -> 16384
                  [] f = "docqa_prompt_reserve_tokens" -> 2048
                  [] f = "docqa_chars_per_token" -> 3 * Hundred
                  [] f = "docqa_chunk_overlap_ratio" -> 10
                  [] f = "docqa_qa_chunk_chars" -> 2000
                  [] OTHER -> 60],
     malformed |-> {}]

\* Mutant of Accepted: the overlap may be as long as the chunk.
AcceptedUpToOne(s) ==
    /\ \A f \in Positive : s.num[f] > 0
    /\ \A f \in NonNegative : s.num[f] >= 0
    /\ \A f \in Ports : 1 <= s.num[f] /\ s.num[f] <= 65535
    /\ s.num.api_port # s.num.serve_port
    /\ s.num.docqa_chunk_overlap_ratio \in 0 .. Hundred
    /\ s.malformed = {}

Accepted(s) ==
    /\ \A f \in Positive : s.num[f] > 0
    /\ \A f \in NonNegative : s.num[f] >= 0
    /\ \A f \in Ports : 1 <= s.num[f] /\ s.num[f] <= 65535
    /\ s.num.api_port # s.num.serve_port
    /\ s.num.docqa_chunk_overlap_ratio \in 0 .. Hundred - 1
    /\ s.malformed = {}

-----------------------------------------------------------------------------
(* What the document tools derive from them. *)

\* The characters of a chunk, truncated to a whole number.
ChunkChars(s) ==
    ((s.num.ctx_size - s.num.docqa_prompt_reserve_tokens) * s.num.docqa_chars_per_token)
      \div Hundred

DeriveFails(s) ==
    \/ s.num.ctx_size <= 0 \/ s.num.docqa_prompt_reserve_tokens < 0
    \/ s.num.docqa_chars_per_token <= 0
    \/ s.num.ctx_size <= s.num.docqa_prompt_reserve_tokens
    \/ ChunkChars(s) <= 0

Overlap(s, chars) == (chars * s.num.docqa_chunk_overlap_ratio) \div Hundred

OverlapFails(s, chars) ==
    chars <= 0 \/ s.num.docqa_chunk_overlap_ratio \notin 0 .. Hundred - 1

\* chunk_text, called with the overlap derived from the ratio.
SplitFails(s, chars) ==
    \/ OverlapFails(s, chars)
    \/ chars <= 0 \/ Overlap(s, chars) < 0 \/ Overlap(s, chars) >= chars
    \/ s.num.docqa_max_chunks <= 0

-----------------------------------------------------------------------------
(* The components. *)

AllPositive(s, fields) == \A f \in fields : s.num[f] > 0

\* The parts whose construction, while the server starts, raises.
BuildErrors(s) ==
    {part \in {"documents", "approvals", "ingest", "fetcher", "exec", "mcp"} :
        CASE part = "documents" -> DeriveFails(s)
          [] part = "approvals" -> s.num.approval_timeout_seconds <= 0
          [] part = "ingest"    -> ~AllPositive(s, {"ingest_max_file_bytes", "ingest_max_files",
                                             "ingest_max_total_bytes"})
          [] part = "fetcher"   -> \/ ~AllPositive(s, {"browser_max_bytes", "browser_per_fetch_timeout"})
                                   \/ s.num.browser_max_redirects < 0
          [] part = "exec"      -> ~AllPositive(s, {"exec_timeout", "exec_max_output_bytes"})
          [] part = "mcp"       -> ~AllPositive(s, {"mcp_max_description_chars", "mcp_max_result_bytes",
                                             "mcp_call_timeout", "mcp_connect_timeout"})}

\* The requests that raise although the server has started.
RequestErrors(s) ==
    {part \in {"task", "summary", "answer"} :
        CASE part = "task"    -> \/ s.num.agent_max_steps < 0 \/ s.num.agent_max_tool_calls < 0
                                 \/ s.num.agent_result_char_cap < 0
                                 \/ s.num.agent_max_history_messages <= 0
                                 \/ s.num.agent_deadline_seconds # Unset
                                      /\ s.num.agent_deadline_seconds <= 0
          [] part = "summary" -> \/ SplitFails(s, ChunkChars(s))
                                 \/ ~AllPositive(s, {"docqa_summary_max_tokens",
                                              "docqa_reduce_max_passes"})
          [] part = "answer"  -> \/ SplitFails(s, s.num.docqa_qa_chunk_chars)
                                 \/ ~AllPositive(s, {"docqa_qa_top_k", "docqa_qa_max_context_chars",
                                              "docqa_answer_max_tokens"})}

-----------------------------------------------------------------------------
(* Properties. *)

\* Settings the validators accept are not refused by a component later: no
\* construction fails but for a context window the prompt reserve uses up, and
\* no request of a server that started raises, except a task under an optional
\* deadline that is not positive, which no validator looks at.
SettingsSuitConsumers(s) ==
    Accepted(s) =>
      /\ BuildErrors(s) \subseteq {"documents"}
      /\ "documents" \in BuildErrors(s) =>
           (s.num.ctx_size - s.num.docqa_prompt_reserve_tokens) * s.num.docqa_chars_per_token
             < Hundred
      /\ BuildErrors(s) = {} => RequestErrors(s) \subseteq {"task"}
      /\ "task" \in RequestErrors(s) => s.num.agent_deadline_seconds # Unset
=============================================================================
