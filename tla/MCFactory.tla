------------------------------ MODULE MCFactory ------------------------------
(***************************************************************************)
(* A small instance of OaiFactory and RequestPayload for TLC: a user's     *)
(* message and a tool message, answers with tool calls, and requests that  *)
(* send them again.                                                        *)
(***************************************************************************)
EXTENDS RequestPayload

MCText == {"hello", "result", "x"}
MCStrings == {"", "a", "b", "assistant", "header"}

Message(role, text, id) ==
    [role |-> role, message |-> <<text>>, tool_calls |-> <<>>,
     reasoning |-> <<>>, tool_call_id |-> id]
MCUserMessages == {Message("user", "hello", ""), Message("tool", "result", "a")}

ObjectValue == [type |-> "object"]

\* JSON texts: an object, with a blank too, null, and two strings, one of which
\* holds the text of an object.  The text "oops" is not JSON.
MCParse ==
    (<<"{}">> :> ObjectValue) @@ (<<" ", "{}">> :> ObjectValue)
        @@ (<<"null">> :> NullValue)
        @@ (<<"'", "x", "'">> :> StringValue(<<"x">>))
        @@ (<<"'", "{}", "'">> :> StringValue(<<"{}">>))
MCAtoms == {" ", "{}", "oops", "'", "x"}
MCSerialize == (ObjectValue :> <<"{}">>) @@ (NullValue :> <<"null">>)

MCParams == ("temperature" :> "0.2") @@ ("stream" :> "x") @@ ("tools" :> "y")
                @@ ("messages" :> "z")

MCToolLists ==
    {<<>>, <<[name |-> "a", description |-> "x", parameters |-> "object"]>>}

Call(id, name, arguments) == [index |-> Absent, id |-> id, name |-> name,
                              arguments |-> arguments]

ToolCallArrays ==
    {<<>>,
     <<Call("a", "b", <<" ", "{}">>), Call("b", Absent, <<"oops">>)>>,
     <<Call("a", "a", Absent), Call("b", "b", <<>>),
       Call("", "b", <<"'", "x", "'">>)>>,
     <<Call("a", "b", <<"'", "{}", "'">>)>>}

Payload(calls) == [id |-> Absent, model |-> Absent, finish_reason |-> "a",
                   content |-> "x", reasoning |-> "x", tool_calls |-> calls]
MCPayloads == {Payload(calls) : calls \in ToolCallArrays}

Body(calls) ==
    [id |-> "a", model |-> Absent, error |-> "",
     choice |-> [finish_reason |-> "a",
                 message |-> [role |-> "assistant", content |-> "x",
                              reasoning |-> "x", tool_calls |-> calls]]]
MCBodies == {Body(calls) : calls \in ToolCallArrays} \cup {NotJson}
=============================================================================
