------------------------------- MODULE MCTools -------------------------------
(***************************************************************************)
(* Small instances of DemoTools for TLC: integers of 5 bits, doubles of 3  *)
(* significant ones, so that ToDouble(15) is 16 as 2^63 is to 2^63 - 1.    *)
(***************************************************************************)
EXTENDS DemoTools

Str(bytes) == [string |-> bytes]
Obj(fields) == [object |-> fields]
Call(name, arguments) == [name |-> name, arguments |-> arguments]

\* What the JSON parser makes of a number: an int64 or uint64 if it fits.
MCInt64 == {[int64 |-> n] : n \in Ints}
MCUint64 == {[uint64 |-> n] : n \in {MaxInt + 1, 2 * MaxInt + 1}}
MCDoubles == {[double |-> h] : h \in {0, 1, -1, 6, -14, -2 * (MaxInt + 1),
                                      2 * (MaxInt + 1), 4 * (MaxInt + 1)}}
MCNumbers == MCInt64 \cup MCUint64 \cup MCDoubles

MCTextBytes == {"a", "lead", "cont", " ", "newline"}
MCBytes == MCTextBytes \cup {"NUL", "root", "local", "utc", "gmt"}
           \cup {"add", "subtract", "multiply", "divide", "power", "mod"}

\* Texts of up to 4 bytes, well-formed or not, and some with a NUL.
MCTexts == BoundedSeq(MCTextBytes, 4)
           \cup {<<"a", "NUL">>, <<"a", "NUL", " ", "a">>}

MCOther == {Null, Str(<<"a">>), Obj(<<>>)}

Calculates ==
    {Call("calculate", Obj([lhs |-> l, rhs |-> r, op |-> Str(<<op>>)])) :
        l \in MCNumbers, r \in MCNumbers, op \in {"mod"}}
    \cup {Call("calculate", Obj([lhs |-> l, rhs |-> r, op |-> Str(op)])) :
        l \in MCDoubles \cup {Str(<<"a">>)}, r \in MCInt64,
        op \in {<<"add">>, <<"divide">>, <<"mod", "NUL">>, <<"root">>}}

Picks == {Call("random_number", Obj([min |-> l, max |-> r])) :
             l \in MCNumbers, r \in MCNumbers}
         \cup {Call("random_number", Obj(key :> n)) :
             key \in {"min", "max"}, n \in MCNumbers \cup {Str(<<"a">>)}}

Counts == {Call("text_stats", Obj([text |-> Str(text)])) : text \in MCTexts}
          \cup {Call("text_stats", Obj([text |-> [int64 |-> 1]]))}

Clocks == {Call("get_current_time", Obj([clock |-> Str(<<clock>>)])) :
              clock \in {"local", "utc", "gmt"}}

MCToolCalls ==
    Calculates \cup Picks \cup Counts \cup Clocks
    \cup {Call(name, arguments) : arguments \in MCOther,
             name \in DOMAIN Definitions \cup {"no_such_tool"}}
=============================================================================
