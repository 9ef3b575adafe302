-------------------------- MODULE CompletionDetail --------------------------
(***************************************************************************)
(* What the plain and the streaming fetch share: the precondition, the     *)
(* log a fetch starts from, the assistant message of a failed one, the     *)
(* node handed to the caller.                                              *)
(***************************************************************************)
EXTENDS CompletionState, ToolCalls

CONSTANTS
    Model,     \* model_info->model
    HttpCodes  \* the http status codes of responses

ASSUME ModelAssumption == Model \in Strings \ {""}
ASSUME HttpCodesAssumption == HttpCodes \subseteq Nat
ASSUME AbsentAssumption == Absent \notin Text \cup Strings

\* The log every fetch starts from: failed until proven successful.
BuildLogSkeleton(model, isStream) ==
    [LocalLog EXCEPT !.status = "kFail", !.model = model,
                     !.is_stream = isStream]

\* An assistant message with no text, no reasoning and no tool calls.
EmptyAssistant == [role |-> "assistant", message |-> <<>>, tool_calls |-> <<>>,
                   reasoning |-> <<>>, tool_call_id |-> ""]

\* Appending one of these to a text or a log field is appending an empty text:
\* the code tells an absent text from an empty one nowhere.
AppendText(text, piece) == IF piece = Absent THEN text ELSE Append(text, piece)

\* The status test, and the same off by one.
MutantIsHttpSuccessStatus(code) == 200 <= code /\ code <= 300

IsHttpSuccessStatus(code) == 200 <= code /\ code < 300

\* The answer to a request that was asked of `state' and given the messages
\* `sent': it continues exactly the conversation that was sent, whatever has
\* been appended to it, or answered from it, in the meantime.
Continues(answer, sent) ==
    CollectMessageChain(nodes, answer) = Append(sent, nodes[answer].message)

\* A fetch's log says kSuccess if and only if it reports no error, and then the
\* response had a success status.
HonestLog(log, isStream) ==
    /\ log.status \in {"kSuccess", "kFail"}
    /\ log.status = "kSuccess" <=> log.error_message = ""
    /\ log.status = "kSuccess" => log.http_status_code \in 200 .. 299
    /\ log.is_stream = isStream
=============================================================================
