------------------------------ MODULE ToolCalls ------------------------------
(***************************************************************************)
(* The tool calls of an assistant message, as operators on values: how     *)
(* they are pieced together from stream deltas and how they are read from  *)
(* a plain response.                                                       *)
(*                                                                         *)
(* An element of a "tool_calls" JSON array is NotAnObject or a record      *)
(*   [index, id, name, arguments]                                          *)
(* where a field the element lacks, or has with a wrong JSON type, is      *)
(* Absent.  `arguments' is otherwise the text of a JSON string, or of the  *)
(* serialisation of any other JSON value: a sequence of atoms, cut         *)
(* finely enough that two texts are equal only as equal sequences.         *)
(***************************************************************************)
EXTENDS Integers, SequencesExt

CONSTANTS
    Absent,  \* a JSON field that is missing or not of the wanted type
    Parse    \* function: the texts that are JSON, to the value they denote

\* An array element that is not a JSON object: it has none of the fields.
NotAnObject == [type |-> "other"]

\* A JSON value is null, a string, or one of the opaque others.
NullValue == [type |-> "null"]
StringValue(text) == [type |-> "string", text |-> text]

\* TryParseJsonValue, and the text itself as a string when it is not JSON.
ParseOrText(text) == IF text \in DOMAIN Parse THEN Parse[text]
                                              ELSE StringValue(text)

\* A field that is present replaces the value so far, an absent one does not.
Overwrite(old, field) == IF field = Absent THEN old ELSE field

EmptyAccumulator == [id |-> "", name |-> "", arguments_text |-> <<>>]

\* The argument text replaced, like id and name, instead of appended to.
MutantAccumulateFragment(accumulators, fragment, position) ==
    IF fragment = NotAnObject THEN accumulators
    ELSE LET index == Overwrite(position, fragment.index)
             acc == IF index \in DOMAIN accumulators
                    THEN accumulators[index] ELSE EmptyAccumulator
             new == [id |-> Overwrite(acc.id, fragment.id),
                     name |-> Overwrite(acc.name, fragment.name),
                     arguments_text |-> Overwrite(acc.arguments_text,
                                                  fragment.arguments)]
         IN  [i \in DOMAIN accumulators \cup {index} |->
                 IF i = index THEN new ELSE accumulators[i]]

\* One array element into the accumulator of its index.  The element's
\* position stands in for an index it does not give.
AccumulateFragment(accumulators, fragment, position) ==
    IF fragment = NotAnObject THEN accumulators
    ELSE LET index == Overwrite(position, fragment.index)
             acc == IF index \in DOMAIN accumulators
                    THEN accumulators[index] ELSE EmptyAccumulator
             new == [id |-> Overwrite(acc.id, fragment.id),
                     name |-> Overwrite(acc.name, fragment.name),
                     arguments_text |-> acc.arguments_text
                         \o Overwrite(<<>>, fragment.arguments)]
         IN  [i \in DOMAIN accumulators \cup {index} |->
                 IF i = index THEN new ELSE accumulators[i]]

AccumulateStreamToolCalls(accumulators, fragments) ==
    LET sofar[k \in 0 .. Len(fragments)] ==
            IF k = 0 THEN accumulators
            ELSE AccumulateFragment(sofar[k - 1], fragments[k], k - 1)
    IN  sofar[Len(fragments)]

\* A call that carries nothing at all is dropped.
NoCall == [id |-> "", name |-> "", arguments |-> NullValue]

IsCall(call) == call # NoCall

\* The elements of a sequence that are not `dropped'.
Without(seq, dropped) ==
    LET kept[n \in 0 .. Len(seq)] ==
            IF n = 0 THEN <<>>
            ELSE IF seq[n] = dropped THEN kept[n - 1]
            ELSE Append(kept[n - 1], seq[n])
    IN  kept[Len(seq)]

\* The n-th index in std::map order.
NthIndex(indices, n) ==
    CHOOSE i \in indices : Cardinality({j \in indices : j < i}) = n - 1

\* The accumulators in the order of their index.
BuildToolCallsFromAccumulation(accumulators) ==
    LET Call(acc) == [id |-> acc.id, name |-> acc.name,
                      arguments |-> IF acc.arguments_text = <<>> THEN NullValue
                                    ELSE ParseOrText(acc.arguments_text)]
    IN  Without([n \in 1 .. Cardinality(DOMAIN accumulators) |->
                    Call(accumulators[NthIndex(DOMAIN accumulators, n)])],
                NoCall)

\* The same array in a plain response: every element is a call of its own, and
\* arguments that are present are parsed even when their text is empty.  One
\* that is not an object is skipped, like a call that carries nothing.
ParseToolCallsFromArray(array) ==
    LET Call(item) ==
            IF item = NotAnObject THEN NoCall
            ELSE [id |-> Overwrite("", item.id),
                  name |-> Overwrite("", item.name),
                  arguments |-> IF item.arguments = Absent THEN NullValue
                                ELSE ParseOrText(item.arguments)]
    IN  Without([k \in DOMAIN array |-> Call(array[k])], NoCall)
=============================================================================
