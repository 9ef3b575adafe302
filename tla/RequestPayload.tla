--------------------------- MODULE RequestPayload ---------------------------
(***************************************************************************)
(* BuildRequestPayload: the JSON body of a request, made of the messages   *)
(* that the request was asked to send.  The requests and answers are those *)
(* of OaiFactory, so that tool calls received in one answer are sent again *)
(* by the next request.                                                    *)
(*                                                                         *)
(* A JSON object is a function from its keys.  An element of "tool_calls"  *)
(* has the form in which ToolCalls reads it.                               *)
(***************************************************************************)
EXTENDS OaiFactory

CONSTANTS
    Atoms,      \* the pieces that the arguments of a stream's calls consist of
    Serialize,  \* function: the JSON values but strings, to their text
    Params,     \* model_info->params
    ToolLists   \* the lists of OaiToolDefinitions a request may be given

\* A JSON value, which is a string or is read again from its serialisation.
IsJson(value) ==
    IF value.type = "string"
    THEN value = StringValue(value.text) /\ value.text # Absent
    ELSE /\ value \in DOMAIN Serialize
         /\ Serialize[value] \in DOMAIN Parse
         /\ Parse[Serialize[value]] = value

\* A tool call that says something, and a message whose calls do.
IsSendable(call) ==
    /\ call = [id |-> call.id, name |-> call.name,
               arguments |-> call.arguments]
    /\ IsCall(call) /\ Absent \notin {call.id, call.name}
    /\ IsJson(call.arguments)

Sendable(message) ==
    /\ message = [role |-> message.role, message |-> message.message,
                  tool_calls |-> message.tool_calls,
                  reasoning |-> message.reasoning,
                  tool_call_id |-> message.tool_call_id]
    /\ message.tool_calls \in Seq(Range(message.tool_calls))
    /\ \A k \in DOMAIN message.tool_calls : IsSendable(message.tool_calls[k])

ASSUME SerializeAssumption ==
    /\ IsJson(NullValue) /\ Absent \notin DOMAIN Parse
    /\ \A text \in DOMAIN Parse : IsJson(Parse[text])
ASSUME UserCallsAssumption == \A m \in UserMessages : Sendable(m)
ASSUME AtomsAssumption ==
    /\ Absent \notin Seq(Atoms)
    /\ \A p \in Payloads : \A k \in DOMAIN p.tool_calls :
           \/ p.tool_calls[k] = NotAnObject
           \/ p.tool_calls[k].arguments \in Seq(Atoms) \cup {Absent}
ASSUME ToolListsAssumption ==
    \A tools \in ToolLists : tools \in Seq(Range(tools))

\* Strings serialised as well.
MutantEncodeArguments(value) ==
    IF value.type = "string" THEN <<"'">> \o value.text \o <<"'">>
    ELSE Serialize[value]

\* A string is sent as it is, any other value as its serialisation.
EncodeArguments(value) ==
    IF value.type = "string" THEN value.text ELSE Serialize[value]

BuildRequestToolCallObject(call) ==
    [index |-> Absent, id |-> call.id, name |-> call.name,
     arguments |-> EncodeArguments(call.arguments)]

BuildRequestToolCallsArray(calls) ==
    [k \in DOMAIN calls |-> BuildRequestToolCallObject(calls[k])]

\* The key of a field that is left out when it would be empty.
Optional(key, value, empty) == IF value = empty THEN {} ELSE {key}

\* The reasoning of a message is not sent.
BuildRequestMessageObject(message) ==
    LET fields == [role |-> message.role, content |-> message.message,
                   tool_calls |-> BuildRequestToolCallsArray(message.tool_calls),
                   tool_call_id |-> message.tool_call_id]
    IN  Restrict(fields,
                 {"role", "content"}
                 \cup Optional("tool_calls", message.tool_calls, <<>>)
                 \cup Optional("tool_call_id", message.tool_call_id, ""))

BuildRequestMessagesArray(messages) ==
    [k \in DOMAIN messages |-> BuildRequestMessageObject(messages[k])]

BuildRequestToolsArray(tools) ==
    [k \in DOMAIN tools |-> [type |-> "function", function |-> tools[k]]]

\* "tools" not reserved.
MutantIsReservedRequestField(key) == key \in {"model", "stream", "messages"}

IsReservedRequestField(key) == key \in {"model", "stream", "messages", "tools"}

\* The model's parameters never replace a field of the request.
MergeModelParamsIntoRoot(params) ==
    LET keys == {key \in DOMAIN params : ~ IsReservedRequestField(key)}
    IN  [key \in keys |-> params[key]]

BuildRequestPayload(messages, tools, stream) ==
    LET fields == [model |-> Model, stream |-> stream,
                   messages |-> BuildRequestMessagesArray(messages),
                   tools |-> BuildRequestToolsArray(tools)]
        own == {"model", "stream", "messages"} \cup Optional("tools", tools, <<>>)
        params == MergeModelParamsIntoRoot(Params)
    IN  [key \in DOMAIN params \cup own |->
            IF key \in own THEN fields[key] ELSE params[key]]

-----------------------------------------------------------------------------
(* Properties *)

\* What has been sent so far, with any of the tools it may have been given, and
\* the state it was asked of.
Sending(state, messages, stream) ==
    {[state |-> state, messages |-> messages, tools |-> tools,
      stream |-> stream,
      payload |-> BuildRequestPayload(messages, tools, stream)] :
        tools \in ToolLists}

Sent ==
    UNION ({Sending(plain[p].base, plain[p].request_body, FALSE) :
               p \in {q \in PlainRequests : plain[q].base # NullState}}
           \cup {Sending(base[r], request_body[r], TRUE) :
                    r \in {q \in Requests : base[q] # NullState}})

\* A message object as its receiver reads it; tool calls as this library does.
ReadMessage(object) ==
    LET Field(key, default) == IF key \in DOMAIN object THEN object[key]
                               ELSE default
    IN  [role |-> object["role"], message |-> object["content"],
         tool_calls |-> ParseToolCallsFromArray(Field("tool_calls", <<>>)),
         reasoning |-> <<>>, tool_call_id |-> Field("tool_call_id", "")]

ReadBack(payload) == [k \in DOMAIN payload["messages"] |->
                         ReadMessage(payload["messages"][k])]

WithoutReasoning(messages) ==
    [k \in DOMAIN messages |-> [messages[k] EXCEPT !.reasoning = <<>>]]

\* Arguments that are a JSON string whose text is JSON again.
Ambiguous(call) == /\ call.arguments.type = "string"
                   /\ call.arguments.text \in DOMAIN Parse

\* Whoever reads a request's payload gets the conversation it continues, every
\* message once and in order, with the ids, the names and the arguments of the
\* tool calls a provider sent earlier, whether in a response or in fragments
\* of a stream.  BuildRequestPayload against the readers of responses; for
\* conversations without ambiguous arguments.
HistoryReadsBack ==
    \A sent \in Sent :
        (\A k \in DOMAIN sent.messages :
            \A n \in DOMAIN sent.messages[k].tool_calls :
                ~ Ambiguous(sent.messages[k].tool_calls[n]))
        => ReadBack(sent.payload) = WithoutReasoning(sent.messages)

\* One object for each message, in their order, with its role, its text and, if it
\* is a tool's result, the call it answers.
AreMessagesOf(objects, messages) ==
    /\ Len(objects) = Len(messages)
    /\ \A k \in DOMAIN messages :
          LET object == objects[k]
              id == messages[k].tool_call_id
          IN  /\ object["role"] = messages[k].role
              /\ object["content"] = messages[k].message
              /\ IF id = "" THEN "tool_call_id" \notin DOMAIN object
                 ELSE object["tool_call_id"] = id

\* The model, the stream flag, the messages and the tools of a payload are the
\* request's, also when the model's parameters have fields of these names: the
\* messages are those of the conversation it was asked to continue, which has not
\* changed since.  The other parameters are sent unchanged (BuildRequestPayload,
\* MergeModelParamsIntoRoot).
RequestFieldsAreTheRequests ==
    \A sent \in Sent :
        LET payload == sent.payload
            own == {"model", "stream", "messages", "tools"}
        IN  /\ payload["model"] = Model
            /\ payload["stream"] = sent.stream
            /\ AreMessagesOf(payload["messages"],
                             CollectMessageChain(nodes, sent.state))
            /\ IF sent.tools = <<>> THEN "tools" \notin DOMAIN payload
               ELSE /\ Len(payload["tools"]) = Len(sent.tools)
                    /\ \A k \in DOMAIN sent.tools :
                          payload["tools"][k]["function"] = sent.tools[k]
            /\ DOMAIN payload \ own = DOMAIN Params \ own
            /\ \A key \in DOMAIN Params \ own : payload[key] = Params[key]
=============================================================================
