------------------------------ MODULE MCSession ------------------------------
(***************************************************************************)
(* Small instances of DemoSession for TLC.                                 *)
(***************************************************************************)
EXTENDS DemoSession

MCText == {"hello", "x", "result"}
MCStrings == {"", "a", "b", "c", "header", "assistant"}

Says(role) == [role |-> role, message |-> <<"hello">>, tool_calls |-> <<>>,
               reasoning |-> <<>>, tool_call_id |-> ""]
MCSystem == Says("system")
MCLines == {Says("user")}

MCParse == (<<"{", "}">> :> [type |-> "object"]) @@ (<<"null">> :> NullValue)

CallWith(index, id, arguments) ==
    [index |-> index, id |-> id, name |-> "c", arguments |-> arguments]
CallOf(id) == CallWith(Absent, id, <<"{", "}">>)

\* Bodies: an answer, one that calls two tools, one that calls one, an error.
Answer(content, calls) ==
    [id |-> Absent, model |-> Absent, error |-> "",
     choice |-> [finish_reason |-> Absent,
                 message |-> [role |-> Absent, content |-> content,
                              reasoning |-> Absent, tool_calls |-> calls]]]
MCBodies == {NotJson, Answer("x", <<>>),
             Answer(Absent, <<CallOf("a"), CallOf("b")>>),
             Answer("x", <<CallOf("c")>>)}

\* Payloads: text, and two calls, the arguments of the first only begun: the
\* stream ends inside them.
Delta(content, calls) ==
    [id |-> Absent, model |-> Absent, finish_reason |-> Absent,
     content |-> content, reasoning |-> Absent, tool_calls |-> calls]
MCPayloads == {Delta("x", <<>>),
               Delta(Absent, <<CallWith(0, "a", <<"{">>),
                               CallWith(1, "b", <<"{", "}">>)>>)}

Modes(stream, rounds) ==
    [interactive : BOOLEAN, stream : {stream}, print_reasoning : {FALSE},
     max_round_trips : rounds]
MCModes == Modes(FALSE, 1 .. 3) \cup Modes(TRUE, {3})

\* Streaming sessions have more states: one line.
MCMaxLines == (TRUE :> 1) @@ (FALSE :> 2)
=============================================================================
