------------------------------ MODULE MCStream ------------------------------
(***************************************************************************)
(* Small instances of StreamCompletion for TLC.                            *)
(***************************************************************************)
EXTENDS StreamCompletion

\* Texts and names are strings; a and b are those the provider sends.
MCText == {"hello", "x", "y"}
MCStrings == {"", "a", "b"}

MCUserMessages ==
    {[role |-> "user", message |-> <<"hello">>, tool_calls |-> <<>>,
      reasoning |-> <<>>, tool_call_id |-> ""]}

\* JSON texts, in atoms: an object, null, and a string.
MCParse ==
    (<<"{", "}">> :> [type |-> "object"]) @@ (<<"null">> :> NullValue)
        @@ (<<"quoted">> :> StringValue(<<"inner">>))

Nothing == [id |-> Absent, model |-> Absent, finish_reason |-> Absent,
            content |-> Absent, reasoning |-> Absent, tool_calls |-> <<>>]

\* Content or reasoning or both, and the log fields: given, changed, emptied.
TextPayloads ==
    {[Nothing EXCEPT !.id = "a", !.content = "x"],
     [Nothing EXCEPT !.id = "", !.reasoning = "y", !.model = "b",
                     !.finish_reason = "a"],
     [Nothing EXCEPT !.id = "b", !.content = "y", !.reasoning = "x",
                     !.model = "", !.finish_reason = ""],
     Nothing}

\* One plain payload, for runs about the order of things.
OnePayload == {[Nothing EXCEPT !.content = "x", !.reasoning = "y"]}

Fragment == [index |-> Absent, id |-> Absent, name |-> Absent,
             arguments |-> Absent]

\* Fragments of calls: a beginning, the two halves of its arguments, another
\* index, no index, a null for arguments, an id emptied, elements that are no
\* object, and a call that carries nothing.
ToolPayloads ==
    {[Nothing EXCEPT !.tool_calls = fragments] : fragments \in {
        <<[Fragment EXCEPT !.index = 0, !.id = "a", !.name = "b",
                           !.arguments = <<>>]>>,
        <<[Fragment EXCEPT !.index = 0, !.arguments = <<"{">>],
          [Fragment EXCEPT !.index = 2, !.id = "b"]>>,
        <<[Fragment EXCEPT !.index = 0, !.arguments = <<"}">>]>>,
        <<NotAnObject, [Fragment EXCEPT !.id = "b", !.arguments = <<"null">>]>>,
        <<[Fragment EXCEPT !.index = 1, !.id = "", !.name = "a",
                           !.arguments = <<"quoted">>], Fragment>>}}

Symmetry == Permutations(Requests)
=============================================================================
