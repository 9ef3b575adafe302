------------------------------ MODULE MCPlain ------------------------------
(***************************************************************************)
(* Small instances of PlainCompletion for TLC.                             *)
(***************************************************************************)
EXTENDS PlainCompletion

MCText == {"hello", "x", "y"}
MCStrings == {"", "a", "b", "header", "assistant"}

MCUserMessages ==
    {[role |-> "user", message |-> <<"hello">>, tool_calls |-> <<>>,
      reasoning |-> <<>>, tool_call_id |-> ""]}

MCParse == (<<"{", "}">> :> [type |-> "object"]) @@ (<<"null">> :> NullValue)

Calls == <<NotAnObject,
           [index |-> Absent, id |-> "a", name |-> "b",
            arguments |-> <<"{", "}">>],
           [index |-> Absent, id |-> Absent, name |-> Absent,
            arguments |-> <<"null">>],
           [index |-> Absent, id |-> Absent, name |-> "a", arguments |-> <<>>]>>

\* Bodies that do not parse at each of the depths, one that reports an error,
\* an answer with text and one with tool calls.
Messages ==
    {[role |-> Absent, content |-> "x", reasoning |-> "y",
      tool_calls |-> <<>>],
     [role |-> "assistant", content |-> Absent, reasoning |-> Absent,
      tool_calls |-> Calls]}

MCBodies ==
    {NotJson, NotAnObject}
    \cup [id : {Absent, "a"}, model : {Absent}, error : {"", "b"},
          choice : {Absent}]
    \cup [id : {"a"}, model : {"b"}, error : {""},
          choice : [finish_reason : {"a"}, message : Messages \cup {Absent}]]

Symmetry == Permutations(PlainRequests)
=============================================================================
