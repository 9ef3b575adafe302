------------------------------ MODULE DemoTools ------------------------------
(***************************************************************************)
(* The local tools of the demo: ToolRegistry::Execute answers a tool call  *)
(* of the model by a JSON object, whatever the call looks like.            *)
(*                                                                         *)
(* A JSON value is a record whose only field is its kind: null, int64,     *)
(* uint64, double, string or object.  Integers have Width bits and doubles *)
(* Precision significant ones, in the proportion that matters: the largest *)
(* integer is not a double, as 2^63 - 1 is not.  A double is given in      *)
(* halves, so that an odd one is not an integer.  A string is a sequence   *)
(* of bytes, of which only the kind is kept ("lead" and "cont" begin and   *)
(* continue a character of two bytes), or one atom for a name.             *)
(***************************************************************************)
EXTENDS Integers, SequencesExt

CONSTANTS
    Width,       \* the bits of an integer: 64
    Precision,   \* the significant bits of a double: 53
    DefaultMax,  \* random_number's default for max: 100
    Bytes,       \* what strings consist of
    ToolCalls,   \* the calls [name, arguments] the model may make
    None         \* an empty optional

Power2[k \in 0 .. 2 * Width] == IF k = 0 THEN 1 ELSE 2 * Power2[k - 1]
MaxInt == Power2[Width - 1] - 1
MinInt == -Power2[Width - 1]
Ints == MinInt .. MaxInt

\* What the JSON parser makes of a text; an object in an object is not looked into.
IsJson(value) ==
    \/ value \in {[null |-> TRUE]} \cup [int64 : Ints] \cup [double : Int]
    \/ value \in [uint64 : 0 .. 2 * MaxInt + 1] \cup [string : Seq(Bytes)]
    \/ DOMAIN value = {"object"}

ASSUME WidthAssumption == /\ Width \in Nat \ {0}
                          /\ Precision \in 1 .. Width - 2
                          /\ DefaultMax \in 0 .. MaxInt
ASSUME NoneAssumption == None \notin Int \cup Seq(Bytes)
ASSUME CallsAssumption ==
    \A c \in ToolCalls : "object" \in DOMAIN c.arguments =>
        \A key \in DOMAIN c.arguments.object : IsJson(c.arguments.object[key])

VARIABLES
    call,   \* the call that is answered
    result  \* the answer, None before it

toolsVars == <<call, result>>

Null == [null |-> TRUE]
Crash == [crash |-> TRUE]
Abs(n) == IF n < 0 THEN -n ELSE n
Is(value, kind) == kind \in DOMAIN value
Has(obj, key, kind) == key \in DOMAIN obj /\ Is(obj[key], kind)

-----------------------------------------------------------------------------

\* An integer converted to a double, in halves: rounded to nearest, then even.
ToDouble(n) ==
    LET size == Abs(n)
        unit == Power2[Min({k \in 0 .. Width : size < Power2[Precision + k]})]
        low == size \div unit
        up == \/ 2 * (size % unit) > unit
              \/ 2 * (size % unit) = unit /\ low % 2 = 1
    IN  2 * (IF n < 0 THEN -1 ELSE 1) * unit * (IF up THEN low + 1 ELSE low)

\* Made from c_str(): the string ends before its first NUL.
JsonStringField(obj, key) ==
    IF ~ Has(obj, key, "string") THEN None
    ELSE LET nul == SelectInSeq(obj[key].string, LAMBDA byte : byte = "NUL")
         IN  IF nul = 0 THEN obj[key].string
             ELSE SubSeq(obj[key].string, 1, nul - 1)

JsonNumberField(obj, key) ==
    IF Has(obj, key, "int64") THEN ToDouble(obj[key].int64)
    ELSE IF Has(obj, key, "uint64") THEN ToDouble(obj[key].uint64)
    ELSE IF Has(obj, key, "double") THEN obj[key].double
    ELSE None

\* The values it may return: more than one where a cast is undefined, which is
\* for a double above MaxInt that is not above ToDouble(MaxInt).
JsonIntField(obj, key) ==
    IF Has(obj, key, "int64") THEN {obj[key].int64}
    ELSE IF Has(obj, key, "uint64") /\ obj[key].uint64 <= MaxInt
    THEN {obj[key].uint64}
    ELSE IF /\ Has(obj, key, "double")
            /\ obj[key].double % 2 = 0
            /\ obj[key].double \in ToDouble(MinInt) .. ToDouble(MaxInt)
    THEN LET n == obj[key].double \div 2
         IN  IF n <= MaxInt THEN {n} ELSE Ints
    ELSE {None}

ValueOr(optional, default) == IF optional = None THEN default ELSE optional

\* What a handler returns and leaves in error_out, as a set of outcomes.
Fails(error) == {[output |-> Null, error |-> error]}
Returns(output) == {[output |-> [object |-> output], error |-> ""]}

\* A clock that the registry declares refused.
MutantRunCurrentTimeTool(obj) ==
    IF JsonStringField(obj, "clock") \in {None, <<"utc">>}
    THEN Returns([clock |-> <<"utc">>]) ELSE Fails("clock must be utc")

RunCurrentTimeTool(obj) ==
    LET clock == ValueOr(JsonStringField(obj, "clock"), <<"local">>)
    IN  IF clock \in {<<"local">>, <<"utc">>}
        THEN Returns([clock |-> clock])
                \cup Fails("failed to format current time")
        ELSE Fails("clock must be either local or utc")

\* The floored remainder.
MutantRemainder(lhs, rhs) == lhs % Abs(rhs)

\* lhs % rhs of C++, which truncates.
Remainder(lhs, rhs) ==
    IF lhs < 0 THEN -(-lhs % Abs(rhs)) ELSE lhs % Abs(rhs)

\* The quotient of MinInt by -1 overflows: some processors trap, others do not.
Mod(lhs, rhs) ==
    IF lhs = None \/ rhs = None THEN Fails("mod requires integer lhs and rhs")
    ELSE IF rhs = 0 THEN Fails("mod by zero")
    ELSE Returns([value |-> Remainder(lhs, rhs)])
            \cup IF lhs = MinInt /\ rhs = -1 THEN {Crash} ELSE {}

Arithmetic == {<<"add">>, <<"subtract">>, <<"multiply">>, <<"divide">>,
               <<"power">>}

ModOfFields(obj) ==
    UNION {Mod(l, r) :
              l \in JsonIntField(obj, "lhs"), r \in JsonIntField(obj, "rhs")}

\* The value of double arithmetic is left out.
RunCalculatorTool(obj) ==
    LET lhs == JsonNumberField(obj, "lhs")
        rhs == JsonNumberField(obj, "rhs")
        op == JsonStringField(obj, "op")
    IN  IF lhs = None \/ rhs = None \/ op = None
        THEN Fails("calculate requires numeric lhs, numeric rhs, and string op")
        ELSE IF op = <<"divide">> /\ rhs = 0 THEN Fails("division by zero")
        ELSE IF op \in Arithmetic
        THEN Returns([lhs |-> lhs, rhs |-> rhs, op |-> op])
        ELSE IF op = <<"mod">> THEN ModOfFields(obj)
        ELSE Fails("op must be one of")

\* An open interval.
MutantPick(low, high) ==
    IF low >= high THEN Fails("min must be <= max")
    ELSE UNION {Returns([value |-> n]) : n \in low .. high - 1}

Pick(low, high) ==
    IF low > high THEN Fails("min must be <= max")
    ELSE UNION {Returns([value |-> n]) : n \in low .. high}

RunRandomNumberTool(obj) ==
    UNION {Pick(ValueOr(low, 0), ValueOr(high, DefaultMax)) :
              low \in JsonIntField(obj, "min"),
              high \in JsonIntField(obj, "max")}

IsSpace(byte) == byte \in {" ", "newline"}

\* How many marks are set.
Count(marks) ==
    LET count[k \in 0 .. Len(marks)] ==
            IF k = 0 THEN 0 ELSE count[k - 1] + (IF marks[k] THEN 1 ELSE 0)
    IN  count[Len(marks)]

\* Only the characters of one byte.
MutantCountUtf8CodePoints(text) ==
    Count([k \in DOMAIN text |-> text[k] \notin {"lead", "cont"}])

CountUtf8CodePoints(text) == Count([k \in DOMAIN text |-> text[k] # "cont"])

CountWords(text) ==
    LET at[k \in 0 .. Len(text)] ==
            IF k = 0 THEN [count |-> 0, in_word |-> FALSE]
            ELSE IF IsSpace(text[k]) THEN [at[k - 1] EXCEPT !.in_word = FALSE]
            ELSE [count |-> at[k - 1].count + (IF at[k - 1].in_word THEN 0 ELSE 1),
                  in_word |-> TRUE]
    IN  at[Len(text)].count

CountLines(text) ==
    IF text = <<>> THEN 0
    ELSE Count([k \in DOMAIN text |-> text[k] = "newline"]) + 1

RunTextStatsTool(obj) ==
    LET text == JsonStringField(obj, "text")
    IN  IF text = None THEN Fails("text_stats requires string text")
        ELSE Returns(
            [bytes |-> Len(text), characters |-> CountUtf8CodePoints(text),
             words |-> CountWords(text), lines |-> CountLines(text),
             has_non_ascii |-> Range(text) \cap {"lead", "cont"} # {}])

RunSystemInfoTool(obj) == Returns([platform |-> "linux"])

-----------------------------------------------------------------------------

Enum(values) == [type |-> "enum", values |-> values]
Type(type) == [type |-> type, values |-> {}]

\* The tools, and the parameters the registry declares to the model.
Definitions ==
    [get_current_time |->
        [properties |-> [clock |-> Enum({<<"local">>, <<"utc">>})],
         required |-> {}],
     calculate |->
        [properties |-> [lhs |-> Type("number"), rhs |-> Type("number"),
                         op |-> Enum(Arithmetic \cup {<<"mod">>})],
         required |-> {"lhs", "rhs", "op"}],
     random_number |->
        [properties |-> [min |-> Type("integer"), max |-> Type("integer")],
         required |-> {}],
     text_stats |->
        [properties |-> [text |-> Type("string")], required |-> {"text"}],
     system_info |-> [properties |-> <<>>, required |-> {}]]

Handler(name, obj) ==
    CASE name = "get_current_time" -> RunCurrentTimeTool(obj)
      [] name = "calculate" -> RunCalculatorTool(obj)
      [] name = "random_number" -> RunRandomNumberTool(obj)
      [] name = "text_stats" -> RunTextStatsTool(obj)
      [] name = "system_info" -> RunSystemInfoTool(obj)

\* A handler called with anything but an object, and the same with the error
\* text forgotten.
MutantRequireObjectArgs(name, args) ==
    IF Is(args, "object") THEN Handler(name, args.object) ELSE Fails("")

RequireObjectArgs(name, args) ==
    IF Is(args, "object") THEN Handler(name, args.object)
    ELSE Fails("tool arguments must be a JSON object")

MakeToolError(name, input, message) ==
    [ok |-> FALSE, tool |-> name, input |-> input, error |-> message]

MakeToolEnvelope(name, input, output) ==
    [ok |-> TRUE, tool |-> name, input |-> input, output |-> output]

\* The answers Execute may give; a crash ends the program.
Execute(c) ==
    LET input == IF c.arguments = Null THEN [object |-> <<>>] ELSE c.arguments
    IN  IF c.name \notin DOMAIN Definitions
        THEN {MakeToolError(c.name, c.arguments, "unknown tool")}
        ELSE {IF outcome = Crash THEN Crash
              ELSE IF outcome.error # ""
              THEN MakeToolError(c.name, input, outcome.error)
              ELSE MakeToolEnvelope(c.name, input, outcome.output) :
                 outcome \in RequireObjectArgs(c.name, input)}

ToolsInit == call \in ToolCalls /\ result = None

Answer == result = None /\ result' \in Execute(call) /\ UNCHANGED call

ToolsSpec == ToolsInit /\ [][Answer]_toolsVars

-----------------------------------------------------------------------------
(* Properties *)

Answered == result # None
Crashed == result = Crash
Succeeded == Answered /\ ~ Crashed /\ result.ok
Given(key) == call.arguments.object[key]
Output(key) == result.output.object[key]

\* What the model is told of a call is what became of it: an answer that says
\* ok has an output, and one that does not a reason; it names the tool and the
\* arguments it was called with, and a tool that is served was called with an
\* object, which is empty when the call had none.
AnswersAreHonest ==
    Answered /\ ~ Crashed =>
        /\ result.tool = call.name
        /\ result.input # call.arguments =>
              call.arguments = Null /\ result.input = [object |-> <<>>]
        /\ IF result.ok
           THEN result.output # Null /\ Is(result.input, "object")
           ELSE result.error # ""

\* The integer a JSON number is, if it is one.
IsNumber(value) == \E kind \in {"int64", "uint64", "double"} : Is(value, kind)
IsInteger(value) ==
    IsNumber(value) /\ (Is(value, "double") => value.double % 2 = 0)
IntegerOf(value) == IF Is(value, "int64") THEN value.int64
                    ELSE IF Is(value, "uint64") THEN value.uint64
                    ELSE value.double \div 2

Conforms(value, schema) ==
    CASE schema.type = "enum" -> /\ Is(value, "string")
                                 /\ value.string \in schema.values
      [] schema.type = "string" -> Is(value, "string")
      [] schema.type = "number" -> IsNumber(value)
      [] schema.type = "integer" -> IsInteger(value)

\* Errors that are not about the form of the arguments.
Excusable == {"failed to format current time", "division by zero",
              "mod by zero", "mod requires integer lhs and rhs",
              "min must be <= max"}

\* A call that keeps to the parameters the registry declares is served: the
\* schemas of the constructor and what the handlers accept say the same.
DeclaredCallsAreServed ==
    Answered /\ ~ Crashed /\ call.name \in DOMAIN Definitions =>
        LET schema == Definitions[call.name]
            args == result.input.object
        IN  /\ Is(result.input, "object")
            /\ schema.required \subseteq DOMAIN args
            /\ \A key \in DOMAIN args \cap DOMAIN schema.properties :
                  Conforms(args[key], schema.properties[key])
            => result.ok \/ result.error \in Excusable

IsMod == /\ call.name = "calculate" /\ Is(call.arguments, "object")
         /\ "op" \in DOMAIN call.arguments.object
         /\ Given("op") = [string |-> <<"mod">>]

\* value is lhs mod rhs: what is left of lhs after a multiple of rhs, smaller
\* than rhs, with the sign of lhs.
IsRemainder(value, lhs, rhs) ==
    /\ (lhs - value) % Abs(rhs) = 0
    /\ Abs(value) < Abs(rhs)
    /\ value * lhs >= 0

\* The remainder calculate answers is that of the numbers it was given, which
\* may come as integers or as doubles; a double that is no 64-bit integer but
\* passes for one (2^63) is not covered.
ModIsTheRemainder ==
    Succeeded /\ IsMod =>
        LET lhs == IntegerOf(Given("lhs"))
            rhs == IntegerOf(Given("rhs"))
        IN  {lhs, rhs} \subseteq Ints => IsRemainder(Output("value"), lhs, rhs)

\* "Calculate two numbers using add, subtract, multiply, divide, power, or mod"
\* (the tool's description): no two numbers end the program.
CalculateAnswers == ~ Crashed

\* The interval a call of random_number asks for.
Interval ==
    LET Bound(key, default) == IF key \in DOMAIN call.arguments.object
                               THEN IntegerOf(Given(key)) ELSE default
    IN  Bound("min", 0) .. Bound("max", DefaultMax)

AsksForIntegers ==
    /\ call.name = "random_number" /\ Is(call.arguments, "object")
    /\ \A key \in {"min", "max"} \cap DOMAIN call.arguments.object :
          IsInteger(Given(key)) /\ IntegerOf(Given(key)) \in Ints

PicksFrom(interval) ==
    /\ Succeeded <=> interval # {}
    /\ Succeeded => Output("value") \in interval

\* random_number picks from the closed interval it was given, and refuses only
\* an empty one, when its ends are 64-bit integers, written in any way.
SmallIntervalsAreKept ==
    Answered /\ AsksForIntegers => PicksFrom(Interval)

\* Where the characters and the words of a text begin.
Characters(text) == {k \in DOMAIN text : text[k] # "cont"}
WordStarts(text) ==
    {k \in DOMAIN text : /\ ~ IsSpace(text[k])
                         /\ k = 1 \/ IsSpace(text[k - 1])}

CountedRight(text) ==
    /\ Output("bytes") = Len(text)
    /\ Output("characters") = Cardinality(Characters(text))
    /\ Output("words") = Cardinality(WordStarts(text))

CountsText == Succeeded /\ call.name = "text_stats"

\* text_stats counts the bytes, characters and words of its text.
TextIsCounted ==
    CountsText /\ "NUL" \notin Range(Given("text").string) =>
        CountedRight(Given("text").string)
=============================================================================
