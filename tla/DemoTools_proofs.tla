--------------------------- MODULE DemoTools_proofs ---------------------------
(***************************************************************************)
(* For every width of integers and every call, what ToolRegistry::Execute  *)
(* answers is honest.                                                      *)
(***************************************************************************)
EXTENDS DemoTools, FiniteSetTheorems, TLAPS

\* What a handler may leave behind: a crash, an error and no output, or an
\* output that is an object and no error.
HonestOutcome(outcome) ==
    \/ outcome = Crash
    \/ outcome.error # ""
    \/ outcome.error = "" /\ outcome.output # Null

\* An object is not null.
LEMMA ObjectIsNotNull == ASSUME NEW x PROVE [object |-> x] # Null
  <1>1. "object" \in DOMAIN [object |-> x] OBVIOUS
  <1>2. "object" \notin DOMAIN Null BY DEF Null
  <1> QED BY <1>1, <1>2

\* Each of the ways a handler ends is honest.
LEMMA ReturnsAreHonest ==
    ASSUME NEW x, NEW outcome \in Returns(x) PROVE HonestOutcome(outcome)
  <1>1. outcome = [output |-> [object |-> x], error |-> ""] BY DEF Returns
  <1>2. outcome.error = "" /\ outcome.output = [object |-> x] BY <1>1
  <1> QED BY <1>2, ObjectIsNotNull DEF HonestOutcome

\* An error is reported with no output.
LEMMA FailuresAreHonest ==
    ASSUME NEW error, error # "", NEW outcome \in Fails(error)
    PROVE HonestOutcome(outcome)
  <1>1. outcome = [output |-> Null, error |-> error] BY DEF Fails
  <1>2. outcome.error = error BY <1>1
  <1> QED BY <1>2 DEF HonestOutcome

\* Whatever the arguments are, every handler sets an error or returns an
\* object: no path returns null and leaves the error empty.
LEMMA HandlersAreHonest ==
    ASSUME NEW name \in DOMAIN Definitions, NEW obj,
           NEW outcome \in Handler(name, obj)
    PROVE HonestOutcome(outcome)
  <1>1. name \in {"get_current_time", "calculate", "random_number",
                  "text_stats", "system_info"}
    BY DEF Definitions
  <1>2. CASE name = "get_current_time"
    <2>1. outcome \in RunCurrentTimeTool(obj) BY <1>2 DEF Handler
    <2> QED BY <2>1, ReturnsAreHonest, FailuresAreHonest DEF RunCurrentTimeTool
  <1>3. CASE name = "calculate"
    <2>1. outcome \in RunCalculatorTool(obj) BY <1>3 DEF Handler
    <2>2. ASSUME NEW l, NEW r, outcome \in Mod(l, r)
          PROVE HonestOutcome(outcome)
      <3>1. \/ outcome \in Fails("mod requires integer lhs and rhs")
            \/ outcome \in Fails("mod by zero")
            \/ outcome \in Returns([value |-> Remainder(l, r)])
            \/ outcome = Crash
        BY <2>2 DEF Mod
      <3> QED BY <3>1, ReturnsAreHonest, FailuresAreHonest DEF HonestOutcome
    <2> DEFINE lhs == JsonNumberField(obj, "lhs")
               rhs == JsonNumberField(obj, "rhs")
               op == JsonStringField(obj, "op")
    <2>3. \/ outcome \in Fails(
                "calculate requires numeric lhs, numeric rhs, and string op")
          \/ outcome \in Fails("division by zero")
          \/ outcome \in Returns([lhs |-> lhs, rhs |-> rhs, op |-> op])
          \/ outcome \in ModOfFields(obj)
          \/ outcome \in Fails("op must be one of")
      BY <2>1, Zenon DEF RunCalculatorTool
    <2>4. outcome \in ModOfFields(obj) => \E l, r : outcome \in Mod(l, r)
      BY DEF ModOfFields
    <2> HIDE DEF lhs, rhs, op
    <2>5. CASE outcome \in ModOfFields(obj) BY <2>2, <2>4, <2>5
    <2>6. CASE outcome \in Returns([lhs |-> lhs, rhs |-> rhs, op |-> op])
      BY <2>6, ReturnsAreHonest
    <2>7. CASE outcome \in Fails(
                "calculate requires numeric lhs, numeric rhs, and string op")
      BY <2>7, FailuresAreHonest
    <2>8. CASE outcome \in Fails("division by zero") BY <2>8, FailuresAreHonest
    <2>9. CASE outcome \in Fails("op must be one of") BY <2>9, FailuresAreHonest
    <2> QED BY <2>3, <2>5, <2>6, <2>7, <2>8, <2>9
  <1>4. CASE name = "random_number"
    <2>1. outcome \in RunRandomNumberTool(obj) BY <1>4 DEF Handler
    <2>2. ASSUME NEW low, NEW high, outcome \in Pick(low, high)
          PROVE HonestOutcome(outcome)
      BY <2>2, ReturnsAreHonest, FailuresAreHonest DEF Pick
    <2> QED BY <2>1, <2>2 DEF RunRandomNumberTool
  <1>5. CASE name = "text_stats"
    <2>1. outcome \in RunTextStatsTool(obj) BY <1>5 DEF Handler
    <2> QED BY <2>1, ReturnsAreHonest, FailuresAreHonest DEF RunTextStatsTool
  <1>6. CASE name = "system_info"
    <2>1. outcome \in RunSystemInfoTool(obj) BY <1>6 DEF Handler
    <2> QED BY <2>1, ReturnsAreHonest DEF RunSystemInfoTool
  <1> QED BY <1>1, <1>2, <1>3, <1>4, <1>5, <1>6

\* An outcome is an answer's ok or error, and only arguments that are an object
\* come back as the input of an answer that says ok.
LEMMA OutcomesAreHonest ==
    ASSUME NEW name \in DOMAIN Definitions, NEW args,
           NEW outcome \in RequireObjectArgs(name, args)
    PROVE /\ HonestOutcome(outcome)
          /\ Is(args, "object") \/ outcome.error # ""
  <1>1. CASE Is(args, "object")
    BY <1>1, HandlersAreHonest DEF RequireObjectArgs
  <1>2. CASE ~ Is(args, "object")
    <2>1. outcome = [output |-> Null,
                     error |-> "tool arguments must be a JSON object"]
      BY <1>2 DEF RequireObjectArgs, Fails
    <2>2. outcome.error = "tool arguments must be a JSON object"
      BY <2>1
    <2>3. "tool arguments must be a JSON object" # "" OBVIOUS
    <2>4. outcome.error # "" BY <2>2, <2>3
    <2> QED BY <2>4 DEF HonestOutcome
  <1> QED BY <1>1, <1>2

\* What AnswersAreHonest says of an answer.
HonestAnswer(c, answer) ==
    /\ answer.tool = c.name
    /\ answer.input # c.arguments =>
          c.arguments = Null /\ answer.input = [object |-> <<>>]
    /\ IF answer.ok
       THEN answer.output # Null /\ Is(answer.input, "object")
       ELSE answer.error # ""

\* What Execute makes of an outcome is honest, and so is its refusal of a tool it
\* does not know.
LEMMA ExecuteIsHonest ==
    ASSUME NEW c, NEW answer \in Execute(c), answer # Crash
    PROVE HonestAnswer(c, answer)
  <1> DEFINE input == IF c.arguments = Null THEN [object |-> <<>>]
                      ELSE c.arguments
  <1>1. CASE c.name \notin DOMAIN Definitions
    <2>1. answer = MakeToolError(c.name, c.arguments, "unknown tool")
      BY <1>1 DEF Execute
    <2> QED BY <2>1 DEF MakeToolError, HonestAnswer
  <1>2. CASE c.name \in DOMAIN Definitions
    <2>1. PICK outcome \in RequireObjectArgs(c.name, input) :
              answer = IF outcome = Crash THEN Crash
                       ELSE IF outcome.error # ""
                       THEN MakeToolError(c.name, input, outcome.error)
                       ELSE MakeToolEnvelope(c.name, input, outcome.output)
      BY <1>2 DEF Execute
    <2>2. /\ HonestOutcome(outcome)
          /\ Is(input, "object") \/ outcome.error # ""
      BY <1>2, OutcomesAreHonest
    <2>3. outcome # Crash BY <2>1
    <2>4. CASE outcome.error # ""
      <3>1. answer = MakeToolError(c.name, input, outcome.error)
        BY <2>1, <2>3, <2>4
      <3> QED BY <3>1, <2>4 DEF MakeToolError, HonestAnswer
    <2>5. CASE outcome.error = ""
      <3>1. answer = MakeToolEnvelope(c.name, input, outcome.output)
        BY <2>1, <2>3, <2>5
      <3>2. outcome.output # Null BY <2>2, <2>3, <2>5 DEF HonestOutcome
      <3>3. Is(input, "object") BY <2>2, <2>5
      <3> HIDE DEF input
      <3>4. /\ answer.tool = c.name /\ answer.ok /\ answer.input = input
            /\ answer.output # Null
        BY <3>1, <3>2 DEF MakeToolEnvelope
      <3>5. input # c.arguments => c.arguments = Null /\ input = [object |-> <<>>]
        BY DEF input
      <3> QED BY <3>3, <3>4, <3>5 DEF HonestAnswer
    <2> QED BY <2>4, <2>5
  <1> QED BY <1>1, <1>2

\* The invariant: an answer is one that Execute gives to the call.
AnswersTheCall ==
    call \in ToolCalls /\ (result = None \/ result \in Execute(call))

\* Every answer comes from Execute.
LEMMA AnswersComeFromExecute == ToolsSpec => []AnswersTheCall
  <1>1. ToolsInit => AnswersTheCall BY DEF ToolsInit, AnswersTheCall
  <1>2. AnswersTheCall /\ [Answer]_toolsVars => AnswersTheCall'
    <2> SUFFICES ASSUME AnswersTheCall, [Answer]_toolsVars PROVE AnswersTheCall'
      OBVIOUS
    <2>1. CASE Answer
      <3>1. call' = call /\ result' \in Execute(call) BY <2>1 DEF Answer
      <3> QED BY <3>1 DEF AnswersTheCall
    <2>2. CASE UNCHANGED toolsVars BY <2>2 DEF toolsVars, AnswersTheCall
    <2> QED BY <2>1, <2>2
  <1> QED BY <1>1, <1>2, PTL DEF ToolsSpec

\* What the model is told of a call is what became of it.
THEOREM HonestAnswers == ToolsSpec => []AnswersAreHonest
  <1>1. AnswersTheCall => AnswersAreHonest
    <2> SUFFICES ASSUME AnswersTheCall, result # None, result # Crash
                 PROVE AnswersAreHonest
      BY DEF AnswersAreHonest, Answered, Crashed
    <2>1. HonestAnswer(call, result) BY ExecuteIsHonest DEF AnswersTheCall
    <2> QED BY <2>1 DEF HonestAnswer, AnswersAreHonest
  <1> QED BY <1>1, AnswersComeFromExecute, PTL

-----------------------------------------------------------------------------
(* The remainder *)

\* A multiple leaves no remainder.
LEMMA MultiplesLeaveNothing ==
    ASSUME NEW n \in Nat, n # 0, NEW q \in Int PROVE (n * q) % n = 0
  <1> DEFINE a == n * q
             d == a \div n
             m == a % n
  <1>1. a \in Int OBVIOUS
  <1>2. d \in Int /\ m \in Int /\ 0 <= m /\ m < n /\ a = n * d + m
    <2> HIDE DEF a
    <2> QED BY <1>1
  <1> HIDE DEF d, m
  <1>3. n * (q - d) = m BY <1>2
  <1>4. \A k \in Int : k >= 1 => n * k >= n OBVIOUS
  <1>5. \A k \in Int : k <= -1 => n * k <= -n OBVIOUS
  <1>6. q - d \in Int BY <1>2
  <1>7. ~ (q - d >= 1) BY <1>2, <1>3, <1>4, <1>6
  <1>8. ~ (q - d <= -1) BY <1>2, <1>3, <1>5, <1>6
  <1>9. q - d = 0 BY <1>6, <1>7, <1>8
  <1>10. m = 0 BY <1>3, <1>9
  <1> QED BY <1>10 DEF m

\* What calculate computes is what is left, with the sign of the dividend.
LEMMA RemainderIsRight ==
    ASSUME NEW lhs \in Int, NEW rhs \in Int, rhs # 0
    PROVE IsRemainder(Remainder(lhs, rhs), lhs, rhs)
  <1> DEFINE n == Abs(rhs)
  <1>1. n \in Nat /\ n # 0 BY DEF Abs
  <1> HIDE DEF n
  <1>2. ASSUME NEW a \in Nat
        PROVE /\ a % n \in Nat /\ a % n < n
              /\ \E q \in Int : a - (a % n) = n * q
    <2> DEFINE q == a \div n
               m == a % n
    <2>1. q \in Int /\ m \in Nat /\ m < n /\ a = n * q + m BY <1>1
    <2> HIDE DEF q, m
    <2>2. a - m = n * q BY <1>1, <2>1
    <2> QED BY <2>1, <2>2 DEF m
  <1> DEFINE v == Remainder(lhs, rhs)
  <1>3. CASE lhs >= 0
    <2>1. v = lhs % n BY <1>3 DEF Remainder, n
    <2> HIDE DEF v
    <2>2. PICK q \in Int : lhs - v = n * q BY <1>2, <1>3, <2>1
    <2>3. v \in Nat /\ v < n BY <1>2, <1>3, <2>1
    <2>4. (lhs - v) % n = 0 BY <1>1, <2>2, MultiplesLeaveNothing
    <2>5. Abs(v) < n BY <1>1, <2>3 DEF Abs
    <2>6. v * lhs >= 0
      <3>1. \A x, y \in Nat : x * y >= 0 OBVIOUS
      <3> QED BY <1>3, <2>3, <3>1
    <2>7. IsRemainder(v, lhs, rhs) BY <2>4, <2>5, <2>6 DEF IsRemainder, n
    <2> QED BY <2>7 DEF v
  <1>4. CASE lhs < 0
    <2> DEFINE a == -lhs
               m == a % n
    <2>1. a \in Nat /\ lhs = -a BY <1>4
    <2>2. v = -m BY <1>4 DEF Remainder, n
    <2> HIDE DEF a, v
    <2>3. PICK q \in Int : a - m = n * q BY <1>2, <2>1
    <2>4. m \in Nat /\ m < n BY <1>2, <2>1
    <2> HIDE DEF m
    <2>5. lhs - v = n * (-q)
      <3>1. n * (-q) = -(n * q) BY <1>1
      <3> QED BY <1>1, <2>1, <2>2, <2>3, <2>4, <3>1
    <2>6. (lhs - v) % n = 0
      <3>1. -q \in Int OBVIOUS
      <3> QED BY <1>1, <2>5, <3>1, MultiplesLeaveNothing
    <2>7. Abs(v) < n BY <1>1, <2>2, <2>4 DEF Abs
    <2>8. v * lhs >= 0
      <3>1. \A x, y \in Nat : (-x) * (-y) >= 0 OBVIOUS
      <3> QED BY <2>1, <2>2, <2>4, <3>1
    <2>9. IsRemainder(v, lhs, rhs) BY <2>6, <2>7, <2>8 DEF IsRemainder, n
    <2> QED BY <2>9 DEF v
  <1> QED BY <1>3, <1>4

\* An integer that JsonIntField finds is the one the field has, if that fits.
LEMMA IntegerFound ==
    ASSUME NEW obj, NEW key, NEW n \in JsonIntField(obj, key), n # None,
           IntegerOf(obj[key]) \in Ints
    PROVE  n = IntegerOf(obj[key])
  <1>1. \A k \in Ints : k <= MaxInt BY DEF Ints
  <1>2. CASE Has(obj, key, "int64")
    <2>1. n = obj[key].int64 BY <1>2 DEF JsonIntField
    <2> QED BY <1>2, <2>1 DEF IntegerOf, Has
  <1>3. CASE ~ Has(obj, key, "int64") /\ Has(obj, key, "uint64")
    <2>1. IntegerOf(obj[key]) = obj[key].uint64 BY <1>3 DEF IntegerOf, Has
    <2>2. obj[key].uint64 <= MaxInt BY <1>1, <2>1
    <2>3. n = obj[key].uint64 BY <1>3, <2>2 DEF JsonIntField
    <2> QED BY <2>1, <2>3
  <1>4. CASE /\ ~ Has(obj, key, "int64") /\ ~ Has(obj, key, "uint64")
             /\ Has(obj, key, "double")
    <2> DEFINE half == obj[key].double \div 2
    <2>1. IntegerOf(obj[key]) = half BY <1>4 DEF IntegerOf, Has
    <2>2. half <= MaxInt BY <1>1, <2>1
    <2>3. n \in {half} \cup {None} BY <1>4, <2>2 DEF JsonIntField
    <2> QED BY <2>1, <2>3
  <1>5. CASE /\ ~ Has(obj, key, "int64") /\ ~ Has(obj, key, "uint64")
             /\ ~ Has(obj, key, "double")
    BY <1>5 DEF JsonIntField
  <1> QED BY <1>2, <1>3, <1>4, <1>5

\* A text without NUL is read as it is.
LEMMA TextIsRead ==
    ASSUME NEW obj, NEW key, Has(obj, key, "string"),
           \A i \in 1 .. Len(obj[key].string) : obj[key].string[i] # "NUL"
    PROVE  JsonStringField(obj, key) = obj[key].string
  <1> DEFINE text == obj[key].string
  <1>1. {i \in 1 .. Len(text) : text[i] = "NUL"} = {} OBVIOUS
  <1>2. SelectInSeq(text, LAMBDA byte : byte = "NUL") = 0
    BY <1>1 DEF SelectInSeq
  <1> QED BY <1>2 DEF JsonStringField

\* A name is read as it is.
LEMMA NameIsRead ==
    ASSUME NEW obj, NEW key, NEW name, Has(obj, key, "string"),
           obj[key].string = <<name>>, name # "NUL"
    PROVE  JsonStringField(obj, key) = <<name>>
  <1>1. Len(<<name>>) = 1 /\ <<name>>[1] = name OBVIOUS
  <1>2. \A i \in 1 .. 1 : i = 1 OBVIOUS
  <1> QED BY <1>1, <1>2, TextIsRead

\* Whatever the width of integers, the remainder calculate answers is that of
\* the numbers it was given.
THEOREM RemaindersAreRight == ToolsSpec => []ModIsTheRemainder
  <1>1. AnswersTheCall => ModIsTheRemainder
    <2> DEFINE obj == call.arguments.object
               lhs == IntegerOf(obj["lhs"])
               rhs == IntegerOf(obj["rhs"])
    <2> SUFFICES ASSUME AnswersTheCall, Succeeded, IsMod,
                        lhs \in Ints, rhs \in Ints
                 PROVE  IsRemainder(Output("value"), lhs, rhs)
      BY DEF ModIsTheRemainder, Given
    <2>1. /\ result \in Execute(call) /\ result # Crash /\ result.ok
          /\ call.name = "calculate" /\ Is(call.arguments, "object")
          /\ "op" \in DOMAIN obj /\ obj["op"] = [string |-> <<"mod">>]
      BY DEF AnswersTheCall, Succeeded, Answered, Crashed, IsMod, Given
    <2>2. call.arguments # Null /\ call.name \in DOMAIN Definitions
      BY <2>1 DEF Null, Is, Definitions
    <2>3. PICK outcome \in RequireObjectArgs(call.name, call.arguments) :
              result = IF outcome = Crash THEN Crash
                       ELSE IF outcome.error # ""
                       THEN MakeToolError(call.name, call.arguments,
                                          outcome.error)
                       ELSE MakeToolEnvelope(call.name, call.arguments,
                                             outcome.output)
      BY <2>1, <2>2 DEF Execute
    <2>4. outcome.error = ""
      <3>1. CASE outcome.error # ""
        <4>1. result = MakeToolError(call.name, call.arguments, outcome.error)
          BY <2>1, <2>3, <3>1
        <4>2. result.ok = FALSE BY <4>1 DEF MakeToolError
        <4> QED BY <2>1, <4>2
      <3> QED BY <3>1
    <2>5. result.output = outcome.output /\ outcome # Crash
      <3>1. outcome # Crash BY <2>1, <2>3
      <3>2. result = MakeToolEnvelope(call.name, call.arguments, outcome.output)
        BY <2>3, <2>4, <3>1
      <3> QED BY <3>1, <3>2 DEF MakeToolEnvelope
    <2>6. outcome \in RunCalculatorTool(obj)
      BY <2>1 DEF RequireObjectArgs, Handler
    <2>7. \A error : error # "" => outcome \notin Fails(error)
      <3>1. ASSUME NEW error, error # "", outcome \in Fails(error) PROVE FALSE
        <4>1. outcome = [output |-> Null, error |-> error] BY <3>1 DEF Fails
        <4> QED BY <2>4, <3>1, <4>1
      <3> QED BY <3>1
    <2>8. outcome \in ModOfFields(obj)
      <3>1. JsonStringField(obj, "op") = <<"mod">>
        <4>1. Has(obj, "op", "string") /\ obj["op"].string = <<"mod">>
          BY <2>1 DEF Has, Is
        <4>2. "mod" # "NUL" OBVIOUS
        <4> QED BY <4>1, <4>2, NameIsRead
      <3>2. <<"mod">> # <<"divide">> /\ <<"mod">> \notin Arithmetic
        <4>1. \A a, b : <<a>> = <<b>> => a = b OBVIOUS
        <4> QED BY <4>1 DEF Arithmetic
      <3> HIDE DEF obj
      <3>3. \/ outcome \in Fails(
                  "calculate requires numeric lhs, numeric rhs, and string op")
            \/ outcome \in ModOfFields(obj)
        BY <2>6, <3>1, <3>2, Zenon DEF RunCalculatorTool
      <3> QED BY <2>7, <3>3
    <2>9. PICK l \in JsonIntField(obj, "lhs"), r \in JsonIntField(obj, "rhs") :
              outcome \in Mod(l, r)
      BY <2>8 DEF ModOfFields
    <2>10. /\ l # None /\ r # None /\ r # 0
           /\ outcome \in Returns([value |-> Remainder(l, r)])
      BY <2>5, <2>7, <2>9 DEF Mod
    <2>11. l = lhs /\ r = rhs BY <2>9, <2>10, IntegerFound
    <2>12. Output("value") = Remainder(l, r)
      <3>1. outcome = [output |-> [object |-> [value |-> Remainder(l, r)]],
                       error |-> ""]
        BY <2>10 DEF Returns
      <3>2. outcome.output.object["value"] = Remainder(l, r) BY <3>1
      <3> QED BY <2>5, <3>2 DEF Output
    <2>13. lhs \in Int /\ rhs \in Int BY DEF Ints
    <2> HIDE DEF lhs, rhs
    <2>14. IsRemainder(Remainder(lhs, rhs), lhs, rhs)
      BY <2>10, <2>11, <2>13, RemainderIsRight
    <2> QED BY <2>11, <2>12, <2>14
  <1> QED BY <1>1, AnswersComeFromExecute, PTL

-----------------------------------------------------------------------------
(* Loops *)

\* Induction over 0 .. n, for a set: the initial segments are well-founded by
\* inclusion.
LEMMA UpTo ==
    ASSUME NEW n \in Nat, NEW S, 0 \in S,
           \A k \in 1 .. n : k - 1 \in S => k \in S
    PROVE  0 .. n \subseteq S
  <1> DEFINE T == {0 .. k : k \in 0 .. n \ S}
             R == StrictSubsetOrdering(Nat)
  <1>1. T \subseteq FiniteSubsetsOf(Nat)
    <2>1. ASSUME NEW k \in Nat PROVE 0 .. k \in FiniteSubsetsOf(Nat)
      <3>1. IsFiniteSet(0 .. k) BY FS_Interval
      <3> QED BY <3>1 DEF FiniteSubsetsOf
    <2> QED BY <2>1
  <1>2. IsWellFoundedOn(R, FiniteSubsetsOf(Nat))
    BY FS_StrictSubsetOrderingWellFounded
  <1>3. ASSUME T # {} PROVE FALSE
    <2> HIDE DEF T, R
    <2>1. PICK x \in T : \A y \in T : <<y, x>> \notin R
      BY <1>1, <1>2, <1>3, WFMin
    <2>2. PICK m \in 0 .. n \ S : x = 0 .. m BY DEF T
    <2>3. m \in 1 .. n OBVIOUS
    <2>4. m - 1 \in 0 .. n \ S BY <2>3
    <2>5. 0 .. m - 1 \in T BY <2>4 DEF T
    <2>6. 0 .. m - 1 \subseteq 0 .. m /\ m \in 0 .. m /\ m \notin 0 .. m - 1
      BY <2>3
    <2>7. <<0 .. m - 1, 0 .. m>> \in R
      BY <2>3, <2>6 DEF R, StrictSubsetOrdering
    <2> QED BY <2>1, <2>2, <2>5, <2>7
  <1> QED BY <1>3

\* A loop of n rounds that starts with a and goes from a value to the next.
IsLoop(f, n, a, step) ==
    f[0] = a /\ \A k \in 1 .. n : f[k] = step[<<f[k - 1], k>>]

\* There are values for all rounds: those of k - 1 rounds go on to the next.
LEMMA LoopExists ==
    ASSUME NEW n \in Nat, NEW V, NEW a \in V,
           NEW step \in [V \X (1 .. n) -> V]
    PROVE  \E f \in [0 .. n -> V] : IsLoop(f, n, a, step)
  <1> DEFINE S == {m \in 0 .. n : \E f \in [0 .. m -> V] : IsLoop(f, m, a, step)}
  <1>1. 0 \in S
    <2> DEFINE f == [k \in 0 .. 0 |-> a]
    <2>1. f \in [0 .. 0 -> V] /\ f[0] = a OBVIOUS
    <2> HIDE DEF f
    <2> QED BY <2>1 DEF IsLoop
  <1>2. ASSUME NEW k \in 1 .. n, k - 1 \in S PROVE k \in S
    <2>1. PICK f \in [0 .. k - 1 -> V] : IsLoop(f, k - 1, a, step) BY <1>2
    <2> DEFINE g == [m \in 0 .. k |-> IF m = k THEN step[<<f[k - 1], k>>]
                                      ELSE f[m]]
    <2>2. f[k - 1] \in V /\ step[<<f[k - 1], k>>] \in V
      <3>1. f[k - 1] \in V OBVIOUS
      <3>2. <<f[k - 1], k>> \in V \X (1 .. n) BY <3>1
      <3> QED BY <3>1, <3>2
    <2>3. g \in [0 .. k -> V] BY <2>2
    <2>4. g[k] = step[<<f[k - 1], k>>] /\ \A m \in 0 .. k - 1 : g[m] = f[m]
      OBVIOUS
    <2> HIDE DEF g
    <2>5. IsLoop(g, k, a, step)
      <3>1. g[0] = a BY <2>1, <2>4 DEF IsLoop
      <3>2. ASSUME NEW m \in 1 .. k PROVE g[m] = step[<<g[m - 1], m>>]
        <4>1. CASE m = k BY <2>4, <4>1
        <4>2. CASE m # k
          <5>1. m \in 1 .. k - 1 /\ m - 1 \in 0 .. k - 1 BY <4>2
          <5>2. f[m] = step[<<f[m - 1], m>>] BY <2>1, <5>1 DEF IsLoop
          <5>3. g[m] = f[m] BY <2>4, <4>2
          <5>4. g[m - 1] = f[m - 1] BY <2>4, <5>1
          <5> QED BY <5>2, <5>3, <5>4
        <4> QED BY <4>1, <4>2
      <3> QED BY <3>1, <3>2 DEF IsLoop
    <2> QED BY <2>3, <2>5
  <1> HIDE DEF S
  <1>3. n \in S
    <2>1. 0 .. n \subseteq S BY <1>1, <1>2, UpTo
    <2> QED BY <2>1
  <1> QED BY <1>3 DEF S

-----------------------------------------------------------------------------
(* Powers of two *)

\* What the recursion of Power2 computes.
LEMMA Powers ==
    /\ Power2 \in [0 .. 2 * Width -> Nat] /\ Power2[0] = 1
    /\ \A k \in 1 .. 2 * Width : Power2[k] = 2 * Power2[k - 1]
  <1> DEFINE n == 2 * Width
             step == [at \in Nat \X (1 .. n) |-> 2 * at[1]]
             Next2(f) == [k \in 0 .. n |-> IF k = 0 THEN 1 ELSE 2 * f[k - 1]]
  <1>1. n \in Nat BY WidthAssumption
  <1>2. step \in [Nat \X (1 .. n) -> Nat] OBVIOUS
  <1>3. \A x \in Nat, k \in 1 .. n : step[<<x, k>>] = 2 * x OBVIOUS
  <1> HIDE DEF n, step
  <1>4. PICK f \in [0 .. n -> Nat] : IsLoop(f, n, 1, step)
    BY <1>1, <1>2, LoopExists
  <1>5. f = Next2(f)
    <2>1. ASSUME NEW k \in 0 .. n
          PROVE  f[k] = IF k = 0 THEN 1 ELSE 2 * f[k - 1]
      <3>1. CASE k = 0 BY <1>4, <3>1 DEF IsLoop
      <3>2. CASE k # 0
        <4>1. k \in 1 .. n /\ f[k - 1] \in Nat BY <1>1, <3>2
        <4> QED BY <1>3, <1>4, <3>2, <4>1 DEF IsLoop
      <3> QED BY <3>1, <3>2
    <2> QED BY <2>1
  <1>6. Power2 = Next2(Power2)
    <2>1. Power2 = CHOOSE g : g = Next2(g) BY DEF Power2, n
    <2> HIDE DEF Next2
    <2> QED BY <1>5, <2>1
  <1>7. /\ Power2[0] = 1
        /\ \A k \in 1 .. n : Power2[k] = 2 * Power2[k - 1]
    BY <1>1, <1>6
  <1>8. \A k \in 0 .. n : Power2[k] \in Nat
    <2> DEFINE S == {k \in 0 .. n : Power2[k] \in Nat}
    <2>1. 0 \in S BY <1>1, <1>7
    <2>2. \A k \in 1 .. n : k - 1 \in S => k \in S BY <1>7
    <2> HIDE DEF S
    <2>3. 0 .. n \subseteq S BY <1>1, <2>1, <2>2, UpTo
    <2> QED BY <2>3 DEF S
  <1>9. Power2 \in [0 .. n -> Nat] BY <1>6, <1>8
  <1> QED BY <1>7, <1>9 DEF n

\* Powers grow, and are the products of those of two parts of the exponent.
LEMMA PowersGrow ==
    ASSUME NEW j \in 0 .. 2 * Width, NEW k \in 0 .. 2 * Width, j < k
    PROVE  Power2[j] \in Nat \ {0} /\ Power2[j] < Power2[k]
  <1> DEFINE S == {m \in 0 .. 2 * Width :
                      /\ Power2[m] >= 1
                      /\ \A i \in 0 .. m - 1 : Power2[i] < Power2[m]}
  <1>1. Width \in Nat /\ 2 * Width \in Nat BY WidthAssumption
  <1>2. 0 \in S BY <1>1, Powers
  <1>3. ASSUME NEW m \in 1 .. 2 * Width, m - 1 \in S PROVE m \in S
    <2>1. Power2[m] = 2 * Power2[m - 1] /\ Power2[m - 1] >= 1
      BY <1>3, Powers
    <2>2. Power2[m - 1] \in Nat /\ Power2[m] \in Nat
      <3>1. m - 1 \in 0 .. 2 * Width /\ m \in 0 .. 2 * Width BY <1>1
      <3> QED BY <3>1, Powers
    <2>3. Power2[m - 1] < Power2[m] /\ Power2[m] >= 1 BY <2>1, <2>2
    <2>4. ASSUME NEW i \in 0 .. m - 1 PROVE Power2[i] < Power2[m]
      <3>1. i \in 0 .. m - 2 \/ i = m - 1 OBVIOUS
      <3>2. Power2[i] \in Nat
        <4>1. i \in 0 .. 2 * Width BY <1>1
        <4> QED BY <4>1, Powers
      <3>3. i \in 0 .. m - 2 => Power2[i] < Power2[m - 1] BY <1>3
      <3> QED BY <2>2, <2>3, <3>1, <3>2, <3>3
    <2> QED BY <2>3, <2>4
  <1> HIDE DEF S
  <1>4. 0 .. 2 * Width \subseteq S BY <1>1, <1>2, <1>3, UpTo
  <1>5. j \in S /\ k \in S BY <1>4
  <1>6. Power2[j] \in Nat BY Powers
  <1> QED BY <1>5, <1>6 DEF S

LEMMA PowersMultiply ==
    ASSUME NEW j \in 0 .. 2 * Width, NEW k \in 0 .. 2 * Width - j
    PROVE  Power2[j + k] = Power2[j] * Power2[k]
  <1> DEFINE n == 2 * Width - j
             S == {m \in 0 .. n : Power2[j + m] = Power2[j] * Power2[m]}
  <1>1. n \in Nat /\ Width \in Nat BY WidthAssumption
  <1>2. 0 \in S
    <2>1. j + 0 = j /\ Power2[j] \in Nat BY Powers
    <2> QED BY <1>1, <2>1, Powers
  <1>3. ASSUME NEW m \in 1 .. n, m - 1 \in S PROVE m \in S
    <2>1. j + m \in 1 .. 2 * Width /\ m \in 1 .. 2 * Width BY <1>1
    <2>2. j + (m - 1) = (j + m) - 1 OBVIOUS
    <2>3. /\ Power2[j + m] = 2 * Power2[(j + m) - 1]
          /\ Power2[m] = 2 * Power2[m - 1]
      BY <2>1, Powers
    <2>4. Power2[(j + m) - 1] = Power2[j] * Power2[m - 1] BY <1>3, <2>2
    <2>5. Power2[j] \in Nat /\ Power2[m - 1] \in Nat BY <1>1, <2>1, Powers
    <2>6. \A a, b \in Nat : 2 * (a * b) = a * (2 * b) OBVIOUS
    <2> QED BY <2>3, <2>4, <2>5, <2>6
  <1> HIDE DEF S
  <1>4. 0 .. n \subseteq S
    <2> HIDE DEF n
    <2> QED BY <1>1, <1>2, <1>3, UpTo
  <1>5. k \in S BY <1>4
  <1> QED BY <1>5 DEF S

-----------------------------------------------------------------------------
(* Integers and doubles *)

\* The quotient and the remainder of a sum of a multiple and a rest.
LEMMA Quotient ==
    ASSUME NEW u \in Nat, u # 0, NEW q \in Nat, NEW r \in 0 .. u - 1,
           NEW a \in Nat, a = u * q + r
    PROVE  a \div u = q /\ a % u = r
  <1> DEFINE d == a \div u
             m == a % u
  <1>1. d \in Int /\ m \in Int /\ 0 <= m /\ m < u /\ a = u * d + m
    BY Z3
  <1> HIDE DEF d, m
  <1>2. u * (q - d) = m - r
    <2>1. u * (q - d) = u * q - u * d BY <1>1
    <2>2. u * q \in Int /\ u * d \in Int BY <1>1
    <2> QED BY <1>1, <2>1, <2>2
  <1>3. \A k \in Int : k >= 1 => u * k >= u OBVIOUS
  <1>4. \A k \in Int : k <= -1 => u * k <= -u OBVIOUS
  <1>5. q - d \in Int BY <1>1
  <1>6. ~ (q - d >= 1) BY <1>1, <1>2, <1>3, <1>5
  <1>7. ~ (q - d <= -1) BY <1>1, <1>2, <1>4, <1>5
  <1>8. q - d = 0 BY <1>5, <1>6, <1>7
  <1>9. q = d BY <1>1, <1>8
  <1>10. u * (q - d) = 0 BY <1>8
  <1>11. m = r BY <1>1, <1>2, <1>10
  <1> QED BY <1>9, <1>11 DEF d, m

\* The bits that a size has more than the precision, and the double's unit.
Exponents(size) == {k \in 0 .. Width : size < Power2[Precision + k]}

LEMMA WidthIs ==
    /\ Width \in Nat /\ Width >= 3 /\ Precision \in Nat /\ Precision >= 1
    /\ Precision <= Width - 2 /\ 2 * Width \in Nat
    /\ Power2[Width - 1] \in Nat /\ Power2[Width - 1] >= 4
    /\ MaxInt = Power2[Width - 1] - 1 /\ MinInt = -Power2[Width - 1]
    /\ Power2[Width] = 2 * Power2[Width - 1]
  <1>1. /\ Width \in Nat /\ Width >= 3 /\ Precision \in Nat /\ Precision >= 1
        /\ Precision <= Width - 2 /\ 2 * Width \in Nat
    BY WidthAssumption
  <1>2. /\ 0 \in 0 .. 2 * Width /\ 1 \in 0 .. 2 * Width /\ 2 \in 0 .. 2 * Width
        /\ Width - 1 \in 0 .. 2 * Width /\ Width \in 1 .. 2 * Width
    BY <1>1
  <1>3. Power2[1] = 2 /\ Power2[2] = 4
    <2>1. /\ 1 \in 1 .. 2 * Width /\ 2 \in 1 .. 2 * Width
          /\ 1 - 1 = 0 /\ 2 - 1 = 1
      BY <1>1
    <2>2. Power2[1] = 2 * Power2[0] /\ Power2[2] = 2 * Power2[1]
      BY <2>1, Powers
    <2> QED BY <2>2, Powers
  <1>4. Power2[Width - 1] \in Nat BY <1>2, Powers
  <1>5. Power2[Width - 1] >= 4
    <2>1. CASE Width - 1 = 2 BY <1>3, <2>1
    <2>2. CASE 2 < Width - 1 BY <1>2, <1>3, <1>4, <2>2, PowersGrow
    <2> QED BY <1>1, <2>1, <2>2
  <1>6. Power2[Width] = 2 * Power2[Width - 1] BY <1>2, Powers
  <1> QED BY <1>1, <1>4, <1>5, <1>6 DEF MaxInt, MinInt

\* The least exponent, if there is one.
LEMMA ExponentIs ==
    ASSUME NEW size, NEW k \in Exponents(size),
           \A j \in Exponents(size) : k <= j
    PROVE  Min(Exponents(size)) = k
  <1> DEFINE m == Min(Exponents(size))
  <1>1. m = CHOOSE x \in Exponents(size) : \A y \in Exponents(size) : x <= y
    BY DEF Min
  <1> HIDE DEF m
  <1>2. m \in Exponents(size) /\ m <= k BY <1>1
  <1>3. k <= m BY <1>2
  <1>4. m \in Int /\ k \in Int BY <1>2, WidthIs DEF Exponents
  <1> QED BY <1>2, <1>3, <1>4 DEF m

\* An integer of the machine, with or without sign, becomes a double.
LEMMA DoublesAreNumbers ==
    ASSUME NEW n \in Int, Abs(n) < Power2[Width]
    PROVE  ToDouble(n) \in Int
  <1> DEFINE E == Exponents(Abs(n))
             k == Min(E)
             unit == Power2[k]
  <1>1. Abs(n) \in Nat BY DEF Abs
  <1>2. Width \in E
    <2>1. /\ Width \in 0 .. 2 * Width /\ Precision + Width \in 0 .. 2 * Width
          /\ Width < Precision + Width
      BY WidthIs
    <2>2. Power2[Width] < Power2[Precision + Width] BY <2>1, PowersGrow
    <2>3. Power2[Width] \in Nat /\ Power2[Precision + Width] \in Nat
      BY <2>1, Powers
    <2>4. Abs(n) < Power2[Precision + Width] BY <1>1, <2>2, <2>3
    <2> QED BY <2>1, <2>4, WidthIs DEF Exponents
  <1>3. k \in 0 .. Width
    <2>1. E \in SUBSET Nat /\ E \subseteq 0 .. Width BY WidthIs DEF Exponents
    <2> DEFINE T == {j \in 0 .. Width : \A y \in E : j <= y}
    <2>2. \E x \in E : \A y \in E : x <= y
      <3>1. ASSUME ~ \E x \in E : \A y \in E : x <= y PROVE FALSE
        <4>1. 0 \in T BY <2>1, WidthIs
        <4>2. ASSUME NEW j \in 1 .. Width, j - 1 \in T PROVE j \in T
          <5>1. \A y \in E : j - 1 <= y BY <4>2
          <5>2. j - 1 \notin E BY <3>1, <5>1
          <5>3. \A y \in E : j <= y
            <6> HIDE DEF E
            <6> QED BY <2>1, <5>1, <5>2
          <5> QED BY <5>3, WidthIs
        <4> HIDE DEF T, E
        <4>3. 0 .. Width \subseteq T BY <4>1, <4>2, UpTo, WidthIs
        <4>4. Width \in T BY <4>3, WidthIs
        <4>5. \A y \in E : Width <= y BY <4>4 DEF T
        <4>6. \A y \in E : y <= Width BY <2>1, WidthIs
        <4> QED BY <1>2, <3>1, <4>5, <4>6, <2>1, WidthIs
      <3> QED BY <3>1
    <2> HIDE DEF E
    <2>3. k \in E BY <2>2 DEF Min
    <2> QED BY <2>1, <2>3
  <1>4. unit \in Nat \ {0}
    <2>1. k \in 0 .. 2 * Width /\ 2 * Width \in 0 .. 2 * Width /\ k < 2 * Width
      BY <1>3, WidthIs
    <2> HIDE DEF k
    <2> QED BY <2>1, PowersGrow
  <1> DEFINE low == Abs(n) \div unit
             up == \/ 2 * (Abs(n) % unit) > unit
                   \/ 2 * (Abs(n) % unit) = unit /\ low % 2 = 1
  <1>5. ToDouble(n) = 2 * (IF n < 0 THEN -1 ELSE 1) * unit
                        * (IF up THEN low + 1 ELSE low)
    BY DEF ToDouble, Exponents
  <1> HIDE DEF unit, E, k
  <1>6. low \in Int BY <1>1, <1>4
  <1> HIDE DEF low, up
  <1>7. \A a, b, c \in Int : 2 * a * b * c \in Int OBVIOUS
  <1> QED BY <1>4, <1>5, <1>6, <1>7

\* The largest integer is not a double: it becomes the next larger one.
LEMMA LargestIsRounded == ToDouble(MaxInt) = 2 * (MaxInt + 1)
  <1> DEFINE k == Width - 1 - Precision
             u == Power2[k]
             p == Power2[Precision]
  <1>1. /\ k \in 1 .. Width /\ k - 1 \in 0 .. 2 * Width /\ k \in 1 .. 2 * Width
        /\ Precision \in 1 .. 2 * Width /\ k \in 0 .. 2 * Width - Precision
        /\ Precision + k = Width - 1 /\ Precision \in 0 .. 2 * Width
    BY WidthIs
  <1>2. u \in Nat /\ p \in Nat /\ u >= 2 /\ p >= 2
    <2>1. u \in Nat /\ p \in Nat /\ Power2[k - 1] \in Nat BY <1>1, Powers
    <2>2. 0 \in 0 .. 2 * Width /\ 1 \in 0 .. 2 * Width /\ Power2[1] = 2
      <3>1. 1 \in 1 .. 2 * Width /\ 1 - 1 = 0 /\ 0 \in 0 .. 2 * Width
        BY WidthIs
      <3>2. Power2[1] = 2 * Power2[0] BY <3>1, Powers
      <3> QED BY <3>1, <3>2, Powers
    <2>3. \A j \in 1 .. 2 * Width : Power2[j] >= 2
      <3>1. ASSUME NEW j \in 1 .. 2 * Width PROVE Power2[j] >= 2
        <4>1. CASE j = 1 BY <2>2, <4>1
        <4>2. CASE j # 1
          <5>1. j \in 0 .. 2 * Width /\ 1 < j BY <4>2
          <5>2. Power2[1] < Power2[j] BY <2>2, <5>1, PowersGrow
          <5>3. Power2[j] \in Nat BY <5>1, Powers
          <5> QED BY <2>2, <5>2, <5>3
        <4> QED BY <4>1, <4>2
      <3> QED BY <3>1
    <2> QED BY <1>1, <2>1, <2>3
  <1>3. Power2[Width - 1] = p * u BY <1>1, PowersMultiply
  <1>4. MaxInt \in Nat /\ Abs(MaxInt) = MaxInt /\ ~ (MaxInt < 0) BY WidthIs DEF Abs
  <1>5. Min(Exponents(MaxInt)) = k
    <2>1. k \in Exponents(MaxInt) BY <1>1, WidthIs DEF Exponents
    <2>2. ASSUME NEW j \in Exponents(MaxInt), j < k PROVE FALSE
      <3>1. j \in 0 .. Width /\ MaxInt < Power2[Precision + j]
        BY DEF Exponents
      <3>2. /\ Precision + j \in 0 .. 2 * Width /\ Width - 1 \in 0 .. 2 * Width
            /\ Precision + j < Width - 1
        BY <1>1, <2>2, <3>1, WidthIs
      <3>3. /\ Power2[Precision + j] < Power2[Width - 1]
            /\ Power2[Precision + j] \in Nat
        BY <3>2, PowersGrow
      <3> QED BY <3>1, <3>3, WidthIs
    <2>3. \A j \in Exponents(MaxInt) : k <= j
      BY <1>1, <2>2, WidthIs DEF Exponents
    <2> HIDE DEF k
    <2> QED BY <2>1, <2>3, ExponentIs
  <1> HIDE DEF k, u, p
  <1>6. MaxInt \div u = p - 1 /\ MaxInt % u = u - 1
    <2>1. u * p = p * u /\ u * (p - 1) = u * p - u BY <1>2
    <2>2. p * u \in Int BY <1>2
    <2>3. MaxInt = u * (p - 1) + (u - 1) BY <1>2, <1>3, <2>1, <2>2, WidthIs
    <2> DEFINE q == p - 1
               r == u - 1
    <2>4. q \in Nat /\ r \in 0 .. u - 1 /\ u # 0 BY <1>2
    <2> HIDE DEF q, r
    <2>5. MaxInt = u * q + r BY <2>3 DEF q, r
    <2>6. MaxInt \div u = q /\ MaxInt % u = r
      BY <1>2, <1>4, <2>4, <2>5, Quotient
    <2> QED BY <2>6 DEF q, r
  <1>7. (p - 1) % 2 = 1
    <2>1. p = 2 * Power2[Precision - 1] /\ Power2[Precision - 1] \in Nat
      <3>1. Precision - 1 \in 0 .. 2 * Width BY <1>1, WidthIs
      <3> QED BY <1>1, <3>1, Powers DEF p
    <2>2. Power2[Precision - 1] - 1 \in Nat BY <1>2, <2>1
    <2>3. p - 1 = 2 * (Power2[Precision - 1] - 1) + 1 BY <2>1
    <2>4. p - 1 \in Nat /\ 1 \in 0 .. 2 - 1 /\ 2 \in Nat /\ 2 # 0 BY <1>2
    <2> QED BY <2>2, <2>3, <2>4, Quotient
  <1> DEFINE low == MaxInt \div u
             up == \/ 2 * (MaxInt % u) > u
                   \/ 2 * (MaxInt % u) = u /\ low % 2 = 1
  <1>8. ToDouble(MaxInt) = 2 * 1 * u * (IF up THEN low + 1 ELSE low)
    BY <1>4, <1>5 DEF ToDouble, Exponents, u
  <1>9. up
    <2>1. CASE u = 2 BY <1>6, <1>7, <2>1
    <2>2. CASE u > 2 BY <1>2, <1>6, <2>2
    <2> QED BY <1>2, <2>1, <2>2
  <1> HIDE DEF up
  <1>10. low + 1 = p BY <1>2, <1>6
  <1>11. ToDouble(MaxInt) = 2 * 1 * u * p BY <1>8, <1>9, <1>10
  <1>12. 2 * 1 * u * p = 2 * (p * u) BY <1>2
  <1> QED BY <1>2, <1>3, <1>11, <1>12, WidthIs

\* The smallest integer is a double.
LEMMA SmallestIsKept == ToDouble(MinInt) = 2 * MinInt
  <1> DEFINE k == Width - Precision
             u == Power2[k]
             p == Power2[Precision - 1]
             size == Power2[Width - 1]
  <1>1. /\ k \in 1 .. Width /\ k \in 0 .. 2 * Width
        /\ Precision - 1 \in 0 .. 2 * Width
        /\ k \in 0 .. 2 * Width - (Precision - 1)
        /\ (Precision - 1) + k = Width - 1 /\ Precision + k = Width
    BY WidthIs
  <1>2. u \in Nat /\ u >= 1 /\ p \in Nat
    <2>1. 2 * Width \in 0 .. 2 * Width /\ k < 2 * Width BY <1>1, WidthIs
    <2>2. u \in Nat \ {0} BY <1>1, <2>1, PowersGrow
    <2> QED BY <1>1, <2>2, Powers
  <1>3. size = p * u BY <1>1, PowersMultiply
  <1>4. /\ MinInt = -size /\ size \in Nat /\ size >= 4 /\ Abs(MinInt) = size
        /\ MinInt < 0
    BY WidthIs DEF Abs
  <1>5. Min(Exponents(size)) = k
    <2>1. k \in Exponents(size)
      <3>1. size < Power2[Width] BY <1>4, WidthIs
      <3> QED BY <1>1, <3>1, WidthIs DEF Exponents
    <2>2. ASSUME NEW j \in Exponents(size), j < k PROVE FALSE
      <3>1. j \in 0 .. Width /\ size < Power2[Precision + j]
        BY DEF Exponents
      <3>2. /\ Precision + j \in 0 .. 2 * Width /\ Width - 1 \in 0 .. 2 * Width
            /\ Precision + j <= Width - 1
        BY <1>1, <2>2, <3>1, WidthIs
      <3>3. Precision + j = Width - 1 \/ Power2[Precision + j] < size
        BY <3>2, PowersGrow
      <3>4. Power2[Precision + j] \in Nat BY <3>2, Powers
      <3> QED BY <1>4, <3>1, <3>3, <3>4
    <2>3. \A j \in Exponents(size) : k <= j
      BY <1>1, <2>2, WidthIs DEF Exponents
    <2> HIDE DEF k, size
    <2> QED BY <2>1, <2>3, ExponentIs
  <1> HIDE DEF k, u, p, size
  <1>6. size \div u = p /\ size % u = 0
    <2>1. size = u * p + 0 BY <1>2, <1>3
    <2>2. 0 \in 0 .. u - 1 /\ u # 0 /\ u \in Nat \ {0} BY <1>2
    <2> QED BY <1>2, <1>4, <2>1, <2>2, Quotient
  <1> DEFINE low == size \div u
             up == \/ 2 * (size % u) > u
                   \/ 2 * (size % u) = u /\ low % 2 = 1
  <1>7. ToDouble(MinInt) = 2 * (-1) * u * (IF up THEN low + 1 ELSE low)
    BY <1>4, <1>5 DEF ToDouble, Exponents, u
  <1>8. ~ up BY <1>2, <1>6
  <1> HIDE DEF up
  <1>9. ToDouble(MinInt) = 2 * (-1) * u * p BY <1>6, <1>7, <1>8
  <1>10. 2 * (-1) * u * p = 2 * (-(p * u)) BY <1>2
  <1> QED BY <1>2, <1>3, <1>4, <1>9, <1>10

-----------------------------------------------------------------------------
(* What the handlers read *)

\* The kind of a JSON value tells what it holds.
LEMMA JsonHolds ==
    ASSUME NEW value, IsJson(value)
    PROVE  /\ Is(value, "int64") => value.int64 \in Ints
           /\ Is(value, "uint64") => value.uint64 \in 0 .. 2 * MaxInt + 1
           /\ Is(value, "double") => value.double \in Int
           /\ Is(value, "string") => value.string \in Seq(Bytes)
           /\ \A one, other : Is(value, one) /\ Is(value, other) => one = other
  <1>1. CASE value = [null |-> TRUE] BY <1>1 DEF Is
  <1>2. CASE value \in [int64 : Ints] BY <1>2 DEF Is
  <1>3. CASE value \in [double : Int] BY <1>3 DEF Is
  <1>4. CASE value \in [uint64 : 0 .. 2 * MaxInt + 1] BY <1>4 DEF Is
  <1>5. CASE value \in [string : Seq(Bytes)] BY <1>5 DEF Is
  <1>6. CASE DOMAIN value = {"object"} BY <1>6 DEF Is
  <1> QED BY <1>1, <1>2, <1>3, <1>4, <1>5, <1>6 DEF IsJson

\* Any JSON number is read as a double, any string as a text.
LEMMA NumbersAreRead ==
    ASSUME NEW obj, NEW key \in DOMAIN obj, IsJson(obj[key]),
           IsNumber(obj[key])
    PROVE  JsonNumberField(obj, key) # None
  <1>1. ASSUME NEW n \in Int, -Power2[Width] < n, n < Power2[Width]
        PROVE  ToDouble(n) # None
    <2>1. Abs(n) < Power2[Width] BY <1>1, WidthIs DEF Abs
    <2> QED BY <2>1, DoublesAreNumbers, NoneAssumption
  <1>2. CASE Is(obj[key], "int64")
    <2>1. obj[key].int64 \in MinInt .. MaxInt BY <1>2, JsonHolds DEF Ints
    <2>2. JsonNumberField(obj, key) = ToDouble(obj[key].int64)
      BY <1>2 DEF JsonNumberField, Has
    <2> DEFINE n == obj[key].int64
    <2>3. n \in MinInt .. MaxInt BY <2>1
    <2> HIDE DEF n
    <2>4. n \in Int /\ -Power2[Width] < n /\ n < Power2[Width]
      BY <2>3, WidthIs
    <2> QED BY <1>1, <2>2, <2>4 DEF n
  <1>3. CASE Is(obj[key], "uint64") /\ ~ Is(obj[key], "int64")
    <2>1. obj[key].uint64 \in 0 .. 2 * MaxInt + 1 BY <1>3, JsonHolds
    <2>2. JsonNumberField(obj, key) = ToDouble(obj[key].uint64)
      BY <1>3 DEF JsonNumberField, Has
    <2> DEFINE n == obj[key].uint64
    <2>3. n \in 0 .. 2 * MaxInt + 1 BY <2>1
    <2> HIDE DEF n
    <2>4. n \in Int /\ -Power2[Width] < n /\ n < Power2[Width]
      BY <2>3, WidthIs
    <2> QED BY <1>1, <2>2, <2>4 DEF n
  <1>4. CASE /\ Is(obj[key], "double")
             /\ ~ Is(obj[key], "uint64") /\ ~ Is(obj[key], "int64")
    <2>1. obj[key].double \in Int BY <1>4, JsonHolds
    <2>2. JsonNumberField(obj, key) = obj[key].double
      BY <1>4 DEF JsonNumberField, Has
    <2> QED BY <2>1, <2>2, NoneAssumption
  <1> QED BY <1>2, <1>3, <1>4 DEF IsNumber

LEMMA TextsAreRead ==
    ASSUME NEW obj, NEW key \in DOMAIN obj, IsJson(obj[key]),
           Is(obj[key], "string")
    PROVE  /\ JsonStringField(obj, key) \in Seq(Bytes)
           /\ JsonStringField(obj, key) # None
  <1> DEFINE text == obj[key].string
             I == {i \in 1 .. Len(text) : text[i] = "NUL"}
             nul == SelectInSeq(text, LAMBDA byte : byte = "NUL")
  <1>1. text \in Seq(Bytes) BY JsonHolds
  <1>2. /\ Has(obj, key, "string")
        /\ JsonStringField(obj, key)
               = IF nul = 0 THEN text ELSE SubSeq(text, 1, nul - 1)
    BY DEF JsonStringField, Has
  <1>3. nul = 0 \/ nul \in I
    <2>1. nul = IF I # {} THEN Min(I) ELSE 0
      BY DEF SelectInSeq
    <2>2. I # {} => \E i \in I : \A j \in I : i <= j
      <3>1. ASSUME ~ \E i \in I : \A j \in I : i <= j PROVE I = {}
        <4> DEFINE T == {m \in 0 .. Len(text) : \A j \in I : m <= j}
        <4>1. 0 \in T /\ Len(text) \in Nat BY <1>1
        <4>2. ASSUME NEW m \in 1 .. Len(text), m - 1 \in T PROVE m \in T
          <5>1. \A j \in I : m - 1 <= j /\ j \in Int BY <4>2
          <5> HIDE DEF I
          <5>2. m - 1 \notin I BY <3>1, <5>1
          <5>3. \A j \in I : m <= j BY <5>1, <5>2
          <5> QED BY <5>3
        <4> HIDE DEF T
        <4>3. 0 .. Len(text) \subseteq T BY <4>1, <4>2, UpTo
        <4>4. Len(text) \in T BY <4>1, <4>3
        <4>5. \A j \in I : Len(text) <= j /\ j <= Len(text) /\ j \in Int
          BY <4>1, <4>4 DEF T
        <4>6. \A j, m \in I : m <= j BY <4>1, <4>5
        <4> HIDE DEF I
        <4> QED BY <3>1, <4>6
      <3> QED BY <3>1
    <2> HIDE DEF I, nul
    <2> QED BY <2>1, <2>2 DEF Min
  <1> HIDE DEF nul, text
  <1>4. nul = 0 \/ nul - 1 \in 0 .. Len(text) BY <1>1, <1>3
  <1>5. JsonStringField(obj, key) \in Seq(Bytes)
    <2>1. CASE nul = 0 BY <1>1, <1>2, <2>1
    <2>2. CASE nul # 0
      <3>1. SubSeq(text, 1, nul - 1) \in Seq(Bytes)
        BY <1>1, <1>4, <2>2
      <3> QED BY <1>2, <2>2, <3>1
    <2> QED BY <2>1, <2>2
  <1> QED BY <1>5, NoneAssumption

\* An integer of the machine is read as what it is, however it is written.
LEMMA IntegersAreRead ==
    ASSUME NEW obj, NEW key \in DOMAIN obj, IsJson(obj[key]),
           IsInteger(obj[key]), IntegerOf(obj[key]) \in Ints
    PROVE  /\ JsonIntField(obj, key) = {IntegerOf(obj[key])}
           /\ IntegerOf(obj[key]) # None
  <1>1. \A k \in Ints : k \in Int /\ MinInt <= k /\ k <= MaxInt
    BY WidthIs DEF Ints
  <1>2. CASE Is(obj[key], "int64")
    <2>1. JsonIntField(obj, key) = {obj[key].int64}
      BY <1>2 DEF JsonIntField, Has
    <2>2. IntegerOf(obj[key]) = obj[key].int64 BY <1>2 DEF IntegerOf
    <2> QED BY <1>1, <2>1, <2>2, NoneAssumption
  <1>3. CASE Is(obj[key], "uint64") /\ ~ Is(obj[key], "int64")
    <2>1. IntegerOf(obj[key]) = obj[key].uint64 BY <1>3 DEF IntegerOf
    <2>2. obj[key].uint64 <= MaxInt BY <1>1, <2>1
    <2>3. JsonIntField(obj, key) = {obj[key].uint64}
      BY <1>3, <2>2 DEF JsonIntField, Has
    <2> QED BY <1>1, <2>1, <2>3, NoneAssumption
  <1>4. CASE /\ Is(obj[key], "double")
             /\ ~ Is(obj[key], "uint64") /\ ~ Is(obj[key], "int64")
    <2> DEFINE d == obj[key].double
    <2>1. d \in Int /\ d % 2 = 0 BY <1>4, JsonHolds DEF IsInteger
    <2>2. IntegerOf(obj[key]) = d \div 2 BY <1>4 DEF IntegerOf
    <2>3. d \div 2 <= MaxInt /\ MinInt <= d \div 2 BY <1>1, <2>2
    <2>4. d \in ToDouble(MinInt) .. ToDouble(MaxInt)
      <3> HIDE DEF d
      <3>1. d = 2 * (d \div 2) /\ d \div 2 \in Int BY <2>1
      <3>2. MinInt \in Int /\ MaxInt \in Int BY WidthIs
      <3>3. 2 * MinInt <= d /\ d <= 2 * (MaxInt + 1)
        BY <2>3, <3>1, <3>2
      <3> QED BY <2>1, <3>2, <3>3, LargestIsRounded, SmallestIsKept
    <2>5. JsonIntField(obj, key) = {d \div 2}
      BY <1>4, <2>1, <2>3, <2>4 DEF JsonIntField, Has
    <2> QED BY <1>1, <2>2, <2>5, NoneAssumption
  <1> QED BY <1>2, <1>3, <1>4 DEF IsInteger, IsNumber

-----------------------------------------------------------------------------
(* What the model is served *)

\* An answer of a tool there is tells the outcome of its handler.
LEMMA AnswersTellOutcomes ==
    ASSUME NEW c, c.name \in DOMAIN Definitions,
           NEW answer \in Execute(c), answer # Crash
    PROVE  LET input == IF c.arguments = Null THEN [object |-> <<>>]
                        ELSE c.arguments
           IN  /\ answer.input = input
               /\ \E outcome \in RequireObjectArgs(c.name, input) :
                      /\ outcome # Crash
                      /\ answer.ok <=> outcome.error = ""
                      /\ answer.ok => answer.output = outcome.output
                      /\ ~ answer.ok => answer.error = outcome.error
  <1> DEFINE input == IF c.arguments = Null THEN [object |-> <<>>]
                      ELSE c.arguments
  <1>1. PICK outcome \in RequireObjectArgs(c.name, input) :
            answer = IF outcome = Crash THEN Crash
                     ELSE IF outcome.error # ""
                     THEN MakeToolError(c.name, input, outcome.error)
                     ELSE MakeToolEnvelope(c.name, input, outcome.output)
    BY DEF Execute
  <1> HIDE DEF input
  <1>2. outcome # Crash BY <1>1
  <1>3. CASE outcome.error # ""
    <2>1. answer = MakeToolError(c.name, input, outcome.error)
      BY <1>1, <1>2, <1>3
    <2>2. ~ answer.ok /\ answer.error = outcome.error /\ answer.input = input
      BY <2>1 DEF MakeToolError
    <2> QED BY <1>2, <1>3, <2>2 DEF input
  <1>4. CASE outcome.error = ""
    <2>1. answer = MakeToolEnvelope(c.name, input, outcome.output)
      BY <1>1, <1>2, <1>4
    <2>2. answer.ok /\ answer.output = outcome.output /\ answer.input = input
      BY <2>1 DEF MakeToolEnvelope
    <2> QED BY <1>2, <1>4, <2>2 DEF input
  <1> QED BY <1>3, <1>4

\* What the registry promises of arguments.
Declared(name, args) ==
    LET schema == Definitions[name]
    IN  /\ schema.required \subseteq DOMAIN args
        /\ \A key \in DOMAIN args \cap DOMAIN schema.properties :
              Conforms(args[key], schema.properties[key])

\* What is not served for its form is not served for good reason.
Served(outcome) ==
    outcome = Crash \/ outcome.error = "" \/ outcome.error \in Excusable

LEMMA ReturnsServe ==
    ASSUME NEW x, NEW outcome \in Returns(x) PROVE Served(outcome)
  <1>1. outcome = [output |-> [object |-> x], error |-> ""] BY DEF Returns
  <1>2. outcome.error = "" BY <1>1
  <1> QED BY <1>2 DEF Served

LEMMA ExcusesServe ==
    ASSUME NEW error \in Excusable, NEW outcome \in Fails(error)
    PROVE  Served(outcome)
  <1>1. outcome = [output |-> Null, error |-> error] BY DEF Fails
  <1>2. outcome.error = error BY <1>1
  <1> QED BY <1>2 DEF Served

\* A value of an enumeration is read as it is.
LEMMA EnumsAreRead ==
    ASSUME NEW obj, NEW key \in DOMAIN obj, NEW names, "NUL" \notin names,
           Conforms(obj[key], Enum({<<name>> : name \in names}))
    PROVE  \E name \in names : JsonStringField(obj, key) = <<name>>
  <1> DEFINE values == {<<name>> : name \in names}
  <1>1. Is(obj[key], "string") /\ obj[key].string \in values
    <2>1. Conforms(obj[key], Enum(values)) OBVIOUS
    <2> HIDE DEF values
    <2>2. Enum(values).type = "enum" /\ Enum(values).values = values BY DEF Enum
    <2> QED BY <2>1, <2>2 DEF Conforms
  <1>2. PICK name \in names : obj[key].string = <<name>> BY <1>1
  <1>3. name # "NUL" OBVIOUS
  <1>4. Has(obj, key, "string") BY <1>1 DEF Has
  <1> QED BY <1>2, <1>3, <1>4, NameIsRead

LEMMA ClockIsServed ==
    ASSUME NEW obj, Declared("get_current_time", obj),
           NEW outcome \in RunCurrentTimeTool(obj)
    PROVE  Served(outcome)
  <1> DEFINE clock == ValueOr(JsonStringField(obj, "clock"), <<"local">>)
             names == {"local", "utc"}
  <1>1. clock \in {<<"local">>, <<"utc">>}
    <2>1. CASE "clock" \notin DOMAIN obj
      BY <2>1 DEF JsonStringField, Has, ValueOr
    <2>2. CASE "clock" \in DOMAIN obj
      <3>1. Conforms(obj["clock"], Enum({<<"local">>, <<"utc">>}))
        BY <2>2 DEF Declared, Definitions
      <3>2. {<<"local">>, <<"utc">>} = {<<name>> : name \in names} OBVIOUS
      <3>3. "NUL" \notin names OBVIOUS
      <3> HIDE DEF names
      <3>4. Conforms(obj["clock"], Enum({<<name>> : name \in names}))
        BY <3>1, <3>2
      <3>5. \E name \in names : JsonStringField(obj, "clock") = <<name>>
        BY <2>2, <3>3, <3>4, EnumsAreRead
      <3>6. JsonStringField(obj, "clock") \in {<<"local">>, <<"utc">>}
        BY <3>2, <3>5
      <3> QED BY <3>6 DEF ValueOr
    <2> QED BY <2>1, <2>2
  <1>2. \/ outcome \in Returns([clock |-> clock])
        \/ outcome \in Fails("failed to format current time")
    <2> HIDE DEF clock
    <2> QED BY <1>1 DEF RunCurrentTimeTool, clock
  <1>3. "failed to format current time" \in Excusable BY DEF Excusable
  <1> QED BY <1>2, <1>3, ReturnsServe, ExcusesServe

LEMMA CalculationIsServed ==
    ASSUME NEW obj, \A key \in DOMAIN obj : IsJson(obj[key]),
           Declared("calculate", obj), NEW outcome \in RunCalculatorTool(obj)
    PROVE  Served(outcome)
  <1> DEFINE lhs == JsonNumberField(obj, "lhs")
             rhs == JsonNumberField(obj, "rhs")
             op == JsonStringField(obj, "op")
             names == {"add", "subtract", "multiply", "divide", "power", "mod"}
  <1>1. /\ {"lhs", "rhs", "op"} \subseteq DOMAIN obj
        /\ Conforms(obj["lhs"], Type("number"))
        /\ Conforms(obj["rhs"], Type("number"))
        /\ Conforms(obj["op"], Enum(Arithmetic \cup {<<"mod">>}))
    <2>1. /\ Definitions["calculate"].required = {"lhs", "rhs", "op"}
          /\ Definitions["calculate"].properties =
                [lhs |-> Type("number"), rhs |-> Type("number"),
                 op |-> Enum(Arithmetic \cup {<<"mod">>})]
      BY DEF Definitions
    <2> DEFINE P == [lhs |-> Type("number"), rhs |-> Type("number"),
                     op |-> Enum(Arithmetic \cup {<<"mod">>})]
    <2>2. /\ DOMAIN P = {"lhs", "rhs", "op"}
          /\ P["lhs"] = Type("number") /\ P["rhs"] = Type("number")
          /\ P["op"] = Enum(Arithmetic \cup {<<"mod">>})
      OBVIOUS
    <2> HIDE DEF P
    <2>3. /\ {"lhs", "rhs", "op"} \subseteq DOMAIN obj
          /\ \A key \in DOMAIN obj \cap {"lhs", "rhs", "op"} :
                Conforms(obj[key], P[key])
      BY <2>1, <2>2 DEF Declared, P
    <2> QED BY <2>2, <2>3
  <1>2. IsNumber(obj["lhs"]) /\ IsNumber(obj["rhs"])
    <2>1. Type("number").type = "number" BY DEF Type
    <2> QED BY <1>1, <2>1 DEF Conforms
  <1>3. lhs # None /\ rhs # None BY <1>1, <1>2, NumbersAreRead
  <1>4. \E name \in names : op = <<name>>
    <2>1. Arithmetic \cup {<<"mod">>} = {<<name>> : name \in names}
      BY DEF Arithmetic
    <2>2. "NUL" \notin names OBVIOUS
    <2> HIDE DEF names
    <2> QED BY <1>1, <2>1, <2>2, EnumsAreRead
  <1>5. op \in Arithmetic \/ op = <<"mod">> BY <1>4 DEF Arithmetic
  <1>6. op # None
    <2>1. Is(obj["op"], "string")
      <3>1. Enum(Arithmetic \cup {<<"mod">>}).type = "enum" BY DEF Enum
      <3> QED BY <1>1, <3>1 DEF Conforms
    <2> QED BY <1>1, <2>1, TextsAreRead
  <1> HIDE DEF lhs, rhs, op
  <1>7. \/ outcome \in Fails("division by zero")
        \/ outcome \in Returns([lhs |-> lhs, rhs |-> rhs, op |-> op])
        \/ outcome \in ModOfFields(obj)
    BY <1>3, <1>5, <1>6, Zenon DEF RunCalculatorTool, lhs, rhs, op
  <1>8. ASSUME NEW l, NEW r, outcome \in Mod(l, r) PROVE Served(outcome)
    <2>1. \/ outcome \in Fails("mod requires integer lhs and rhs")
          \/ outcome \in Fails("mod by zero")
          \/ outcome \in Returns([value |-> Remainder(l, r)])
          \/ outcome = Crash
      BY <1>8 DEF Mod
    <2>2. {"mod requires integer lhs and rhs", "mod by zero"} \subseteq Excusable
      BY DEF Excusable
    <2> QED BY <2>1, <2>2, ReturnsServe, ExcusesServe DEF Served
  <1>9. outcome \in ModOfFields(obj) => \E l, r : outcome \in Mod(l, r)
    BY DEF ModOfFields
  <1>10. "division by zero" \in Excusable BY DEF Excusable
  <1> QED BY <1>7, <1>8, <1>9, <1>10, ReturnsServe, ExcusesServe

LEMMA PickIsServed ==
    ASSUME NEW obj, NEW outcome \in RunRandomNumberTool(obj)
    PROVE  Served(outcome)
  <1>1. PICK low, high : outcome \in Pick(low, high) BY DEF RunRandomNumberTool
  <1>2. \/ outcome \in Fails("min must be <= max")
        \/ \E n : outcome \in Returns([value |-> n])
    BY <1>1 DEF Pick
  <1>3. "min must be <= max" \in Excusable BY DEF Excusable
  <1> QED BY <1>2, <1>3, ReturnsServe, ExcusesServe

LEMMA CountIsServed ==
    ASSUME NEW obj, \A key \in DOMAIN obj : IsJson(obj[key]),
           Declared("text_stats", obj), NEW outcome \in RunTextStatsTool(obj)
    PROVE  Served(outcome)
  <1>1. "text" \in DOMAIN obj /\ Conforms(obj["text"], Type("string"))
    BY DEF Declared, Definitions
  <1>2. Is(obj["text"], "string")
    <2>1. Type("string").type = "string" BY DEF Type
    <2> QED BY <1>1, <2>1 DEF Conforms
  <1>3. JsonStringField(obj, "text") # None BY <1>1, <1>2, TextsAreRead
  <1>4. \E x : outcome \in Returns(x) BY <1>3 DEF RunTextStatsTool
  <1> QED BY <1>4, ReturnsServe

LEMMA HandlersServe ==
    ASSUME NEW name \in DOMAIN Definitions, NEW obj,
           \A key \in DOMAIN obj : IsJson(obj[key]),
           Declared(name, obj), NEW outcome \in Handler(name, obj)
    PROVE  Served(outcome)
  <1>1. name \in {"get_current_time", "calculate", "random_number",
                  "text_stats", "system_info"}
    BY DEF Definitions
  <1>2. CASE name = "get_current_time"
    <2>1. outcome \in RunCurrentTimeTool(obj) BY <1>2 DEF Handler
    <2> QED BY <1>2, <2>1, ClockIsServed
  <1>3. CASE name = "calculate"
    <2>1. outcome \in RunCalculatorTool(obj) BY <1>3 DEF Handler
    <2> QED BY <1>3, <2>1, CalculationIsServed
  <1>4. CASE name = "random_number"
    <2>1. outcome \in RunRandomNumberTool(obj) BY <1>4 DEF Handler
    <2> QED BY <2>1, PickIsServed
  <1>5. CASE name = "text_stats"
    <2>1. outcome \in RunTextStatsTool(obj) BY <1>5 DEF Handler
    <2> QED BY <1>5, <2>1, CountIsServed
  <1>6. CASE name = "system_info"
    <2>1. outcome \in RunSystemInfoTool(obj) BY <1>6 DEF Handler
    <2> QED BY <2>1, ReturnsServe DEF RunSystemInfoTool
  <1> QED BY <1>1, <1>2, <1>3, <1>4, <1>5, <1>6

\* Whatever the width of integers: a call that keeps to the declared
\* parameters is served.
THEOREM DeclaredAreServed == ToolsSpec => []DeclaredCallsAreServed
  <1>1. AnswersTheCall => DeclaredCallsAreServed
    <2> DEFINE args == result.input.object
               input == IF call.arguments = Null THEN [object |-> <<>>]
                        ELSE call.arguments
    <2> SUFFICES ASSUME AnswersTheCall, Answered, ~ Crashed,
                        call.name \in DOMAIN Definitions,
                        Is(result.input, "object"), Declared(call.name, args)
                 PROVE  result.ok \/ result.error \in Excusable
      BY DEF DeclaredCallsAreServed, Declared
    <2>1. call \in ToolCalls /\ result \in Execute(call) /\ result # Crash
      BY DEF AnswersTheCall, Answered, Crashed
    <2>2. /\ result.input = input
          /\ \E outcome \in RequireObjectArgs(call.name, input) :
                 /\ outcome # Crash
                 /\ result.ok <=> outcome.error = ""
                 /\ ~ result.ok => result.error = outcome.error
      BY <2>1, AnswersTellOutcomes
    <2>3. PICK outcome \in RequireObjectArgs(call.name, input) :
                 /\ outcome # Crash
                 /\ result.ok <=> outcome.error = ""
                 /\ ~ result.ok => result.error = outcome.error
      BY <2>2
    <2>4. \A key \in DOMAIN args : IsJson(args[key])
      <3>1. CASE call.arguments = Null
        <4>1. args = <<>>
          <5>1. result.input = [object |-> <<>>] BY <2>2, <3>1
          <5>2. [object |-> <<>>].object = <<>> OBVIOUS
          <5> QED BY <5>1, <5>2, Zenon
        <4>2. DOMAIN <<>> = {} OBVIOUS
        <4> HIDE DEF args
        <4> QED BY <4>1, <4>2
      <3>2. CASE call.arguments # Null
        <4>1. args = call.arguments.object /\ "object" \in DOMAIN call.arguments
          BY <2>2, <3>2 DEF Is
        <4> QED BY <2>1, <4>1, CallsAssumption
      <3> QED BY <3>1, <3>2
    <2>5. outcome \in Handler(call.name, args)
      BY <2>2, <2>3 DEF RequireObjectArgs
    <2>6. Served(outcome) BY <2>4, <2>5, HandlersServe
    <2> QED BY <2>3, <2>6 DEF Served
  <1> QED BY <1>1, AnswersComeFromExecute, PTL

-----------------------------------------------------------------------------
(* Random numbers *)

\* A number is picked from the interval, or it is empty.
LEMMA PicksAreInside ==
    ASSUME NEW low \in Int, NEW high \in Int, NEW outcome \in Pick(low, high)
    PROVE  /\ outcome # Crash
           /\ outcome.error = "" <=> low .. high # {}
           /\ outcome.error = "" => outcome.output.object["value"] \in low .. high
  <1>1. ASSUME NEW n \in low .. high, outcome \in Returns([value |-> n])
        PROVE  /\ outcome # Crash /\ outcome.error = ""
               /\ outcome.output.object["value"] = n
    <2>1. outcome = [output |-> [object |-> [value |-> n]], error |-> ""]
      BY <1>1 DEF Returns
    <2>2. outcome.error = "" BY <2>1
    <2>3. outcome.output.object["value"] = n BY <2>1
    <2>4. "error" \in DOMAIN outcome /\ "error" \notin DOMAIN Crash
      BY <2>1 DEF Crash
    <2> QED BY <2>2, <2>3, <2>4
  <1>2. ASSUME outcome \in Fails("min must be <= max")
        PROVE  outcome # Crash /\ outcome.error # ""
    <2>1. outcome = [output |-> Null, error |-> "min must be <= max"]
      BY <1>2 DEF Fails
    <2>2. outcome.error = "min must be <= max" BY <2>1
    <2>3. "error" \in DOMAIN outcome /\ "error" \notin DOMAIN Crash
      BY <2>1 DEF Crash
    <2> QED BY <2>2, <2>3
  <1>3. CASE low > high
    <2>1. outcome \in Fails("min must be <= max") BY <1>3 DEF Pick
    <2>2. low .. high = {} BY <1>3
    <2> QED BY <1>2, <2>1, <2>2
  <1>4. CASE ~ (low > high)
    <2>1. PICK n \in low .. high : outcome \in Returns([value |-> n])
      BY <1>4 DEF Pick
    <2> QED BY <1>1, <2>1
  <1> QED BY <1>3, <1>4

\* What a bound is read as.
LEMMA BoundIsRead ==
    ASSUME NEW obj, NEW key, NEW default \in Int,
           key \in DOMAIN obj =>
               /\ IsJson(obj[key]) /\ IsInteger(obj[key])
               /\ IntegerOf(obj[key]) \in Ints,
           NEW n \in JsonIntField(obj, key)
    PROVE  /\ ValueOr(n, default) = IF key \in DOMAIN obj
                                    THEN IntegerOf(obj[key]) ELSE default
           /\ ValueOr(n, default) \in Int
  <1>1. CASE key \in DOMAIN obj
    <2>1. n = IntegerOf(obj[key]) /\ n # None BY <1>1, IntegersAreRead
    <2>2. n \in Int BY <1>1, <2>1 DEF Ints
    <2> QED BY <1>1, <2>1, <2>2 DEF ValueOr
  <1>2. CASE key \notin DOMAIN obj
    <2>1. n = None BY <1>2 DEF JsonIntField, Has
    <2> QED BY <1>2, <2>1 DEF ValueOr
  <1> QED BY <1>1, <1>2

\* Whatever the width of integers: a number is picked from the interval asked for.
THEOREM IntervalsAreKept == ToolsSpec => []SmallIntervalsAreKept
  <1>1. AnswersTheCall => SmallIntervalsAreKept
    <2> DEFINE obj == call.arguments.object
               Bound(key, default) == IF key \in DOMAIN obj
                                      THEN IntegerOf(obj[key]) ELSE default
               low == Bound("min", 0)
               high == Bound("max", DefaultMax)
    <2> SUFFICES ASSUME AnswersTheCall, Answered, AsksForIntegers
                 PROVE  PicksFrom(low .. high)
      BY DEF SmallIntervalsAreKept, Interval, Given
    <2>1. /\ call \in ToolCalls /\ result \in Execute(call)
          /\ call.name = "random_number" /\ Is(call.arguments, "object")
          /\ \A key \in {"min", "max"} \cap DOMAIN obj :
                IsInteger(obj[key]) /\ IntegerOf(obj[key]) \in Ints
      BY DEF AnswersTheCall, Answered, AsksForIntegers, Given
    <2>2. \A key \in DOMAIN obj : IsJson(obj[key])
      BY <2>1, CallsAssumption DEF Is
    <2>3. call.arguments # Null /\ call.name \in DOMAIN Definitions
      BY <2>1 DEF Null, Is, Definitions
    <2>4. ASSUME NEW outcome \in RequireObjectArgs(call.name, call.arguments)
          PROVE  outcome \in Pick(low, high) /\ low \in Int /\ high \in Int
      <3>1. outcome \in RunRandomNumberTool(obj)
        BY <2>1 DEF RequireObjectArgs, Handler
      <3>2. PICK l \in JsonIntField(obj, "min"), h \in JsonIntField(obj, "max") :
                outcome \in Pick(ValueOr(l, 0), ValueOr(h, DefaultMax))
        BY <3>1 DEF RunRandomNumberTool
      <3>3. DefaultMax \in Int BY WidthAssumption, WidthIs
      <3> HIDE DEF obj
      <3>4. ValueOr(l, 0) = low /\ low \in Int BY <2>1, <2>2, BoundIsRead
      <3>5. ValueOr(h, DefaultMax) = high /\ high \in Int
        BY <2>1, <2>2, <3>3, BoundIsRead
      <3> QED BY <3>2, <3>4, <3>5
    <2> HIDE DEF low, high
    <2>5. result # Crash
      <3>1. PICK outcome \in RequireObjectArgs(call.name, call.arguments) :
                result = IF outcome = Crash THEN Crash
                         ELSE IF outcome.error # ""
                         THEN MakeToolError(call.name, call.arguments,
                                            outcome.error)
                         ELSE MakeToolEnvelope(call.name, call.arguments,
                                               outcome.output)
        BY <2>1, <2>3 DEF Execute
      <3>2. outcome # Crash BY <2>4, PicksAreInside
      <3>3. CASE outcome.error # ""
        <4>1. "ok" \in DOMAIN result
          BY <3>1, <3>2, <3>3 DEF MakeToolError
        <4> QED BY <4>1 DEF Crash
      <3>4. CASE outcome.error = ""
        <4>1. "ok" \in DOMAIN result
          BY <3>1, <3>2, <3>4 DEF MakeToolEnvelope
        <4> QED BY <4>1 DEF Crash
      <3> QED BY <3>3, <3>4
    <2>6. PICK outcome \in RequireObjectArgs(call.name, call.arguments) :
              /\ result.ok <=> outcome.error = ""
              /\ result.ok => result.output = outcome.output
      <3>1. \E outcome \in RequireObjectArgs(call.name, call.arguments) :
              /\ result.ok <=> outcome.error = ""
              /\ result.ok => result.output = outcome.output
        BY <2>1, <2>3, <2>5, AnswersTellOutcomes
      <3> QED BY <3>1
    <2>7. /\ outcome.error = "" <=> low .. high # {}
          /\ outcome.error = "" =>
                outcome.output.object["value"] \in low .. high
      BY <2>4, PicksAreInside
    <2>8. Succeeded <=> result.ok BY <2>5 DEF Succeeded, Answered, Crashed
    <2> QED BY <2>6, <2>7, <2>8 DEF PicksFrom, Output
  <1> QED BY <1>1, AnswersComeFromExecute, PTL

-----------------------------------------------------------------------------
(* Counts of a text *)

\* One number more is one element more, or none.
LEMMA OneMore ==
    ASSUME NEW S, NEW k \in Nat \ {0}
    PROVE  /\ IsFiniteSet(S \cap (1 .. k - 1))
           /\ Cardinality(S \cap (1 .. k - 1)) \in Nat
           /\ Cardinality(S \cap (1 .. k))
                  = Cardinality(S \cap (1 .. k - 1))
                    + (IF k \in S THEN 1 ELSE 0)
  <1> DEFINE T == S \cap (1 .. k - 1)
  <1>1. IsFiniteSet(T)
    <2>1. 1 \in Int /\ k - 1 \in Int OBVIOUS
    <2>2. IsFiniteSet(1 .. k - 1) BY <2>1, FS_Interval
    <2> QED BY <2>2, FS_Subset
  <1>2. k \notin T OBVIOUS
  <1>3. Cardinality(T) \in Nat BY <1>1, FS_CardinalityType
  <1>4. Cardinality(S \cap (1 .. k))
            = Cardinality(T) + (IF k \in S THEN 1 ELSE 0)
    <2>1. CASE k \in S
      <3>1. S \cap (1 .. k) = T \cup {k} BY <2>1
      <3> HIDE DEF T
      <3>2. Cardinality(T \cup {k}) = Cardinality(T) + 1
        BY <1>1, <1>2, FS_AddElement
      <3> QED BY <2>1, <3>1, <3>2
    <2>2. CASE k \notin S
      <3>1. S \cap (1 .. k) = T BY <2>2
      <3> DEFINE c == Cardinality(T)
      <3>2. Cardinality(S \cap (1 .. k)) = c BY <3>1
      <3> HIDE DEF c
      <3>3. c \in Nat BY <1>3 DEF c
      <3>4. c = c + (IF k \in S THEN 1 ELSE 0) BY <2>2, <3>3
      <3> QED BY <3>2, <3>4 DEF c
    <2> QED BY <2>1, <2>2
  <1> QED BY <1>1, <1>3, <1>4

LEMMA NoneYet == ASSUME NEW S PROVE Cardinality(S \cap (1 .. 0)) = 0
  <1>1. S \cap (1 .. 0) = {} OBVIOUS
  <1> QED BY <1>1, FS_EmptySet

\* The loop that counts marks counts them all.
LEMMA Counting ==
    ASSUME NEW marks \in Seq(BOOLEAN)
    PROVE  Count(marks) = Cardinality({k \in DOMAIN marks : marks[k]})
  <1> DEFINE n == Len(marks)
             Rec(g) == [k \in 0 .. n |->
                           IF k = 0 THEN 0
                           ELSE g[k - 1] + (IF marks[k] THEN 1 ELSE 0)]
             count == CHOOSE g : g = Rec(g)
             step == [at \in Nat \X (1 .. n) |->
                         at[1] + (IF marks[at[2]] THEN 1 ELSE 0)]
             M == {k \in 1 .. n : marks[k]}
  <1>1. n \in Nat /\ DOMAIN marks = 1 .. n OBVIOUS
  <1>2. Count(marks) = count[n] BY DEF Count
  <1>3. step \in [Nat \X (1 .. n) -> Nat] OBVIOUS
  <1>4. \A x \in Nat, k \in 1 .. n :
            step[<<x, k>>] = x + (IF marks[k] THEN 1 ELSE 0)
    OBVIOUS
  <1>5. count = Rec(count)
    <2> HIDE DEF step, n
    <2>1. PICK f \in [0 .. n -> Nat] : IsLoop(f, n, 0, step)
      BY <1>1, <1>3, LoopExists
    <2>2. ASSUME NEW k \in 0 .. n
          PROVE  f[k] = IF k = 0 THEN 0
                        ELSE f[k - 1] + (IF marks[k] THEN 1 ELSE 0)
      <3>1. CASE k = 0 BY <2>1, <3>1 DEF IsLoop
      <3>2. CASE k # 0
        <4>1. k \in 1 .. n /\ f[k - 1] \in Nat BY <1>1, <3>2
        <4> QED BY <1>4, <2>1, <3>2, <4>1 DEF IsLoop
      <3> QED BY <3>1, <3>2
    <2>3. f = Rec(f) BY <2>2
    <2> HIDE DEF Rec
    <2> QED BY <2>3
  <1>6. /\ count[0] = 0
        /\ \A k \in 1 .. n :
              count[k] = count[k - 1] + (IF marks[k] THEN 1 ELSE 0)
    <2> HIDE DEF count, n
    <2>1. 0 \in 0 .. n BY <1>1
    <2>2. \A k \in 0 .. n :
              count[k] = IF k = 0 THEN 0
                         ELSE count[k - 1] + (IF marks[k] THEN 1 ELSE 0)
      BY <1>5
    <2>3. \A k \in 1 .. n : k \in 0 .. n /\ k # 0 BY <1>1
    <2> QED BY <2>1, <2>2, <2>3
  <1> DEFINE S == {k \in 0 .. n : count[k] = Cardinality(M \cap (1 .. k))}
  <1>7. 0 \in S BY <1>1, <1>6, NoneYet
  <1>8. ASSUME NEW k \in 1 .. n, k - 1 \in S PROVE k \in S
    <2>1. k \in M <=> marks[k] OBVIOUS
    <2>3. count[k - 1] = Cardinality(M \cap (1 .. k - 1)) BY <1>8
    <2> HIDE DEF M, count, n, S
    <2>5. k \in Nat \ {0} BY <1>1
    <2>2. Cardinality(M \cap (1 .. k)) = Cardinality(M \cap (1 .. k - 1))
                                         + (IF k \in M THEN 1 ELSE 0)
      BY <2>5, OneMore
    <2>4. count[k] = Cardinality(M \cap (1 .. k)) BY <1>6, <2>1, <2>2, <2>3
    <2>6. k \in 0 .. n BY <1>1
    <2> QED BY <2>4, <2>6 DEF S
  <1>9. n \in S
    <2> HIDE DEF S, n
    <2>1. 0 .. n \subseteq S BY <1>1, <1>7, <1>8, UpTo
    <2> QED BY <1>1, <2>1
  <1>10. M \cap (1 .. n) = M OBVIOUS
  <1>11. M = {k \in DOMAIN marks : marks[k]} BY <1>1
  <1> HIDE DEF M, count, n
  <1> QED BY <1>2, <1>9, <1>10, <1>11

\* The loop over the words counts where they begin.
LEMMA WordsAreCounted ==
    ASSUME NEW text, Len(text) \in Nat, DOMAIN text = 1 .. Len(text)
    PROVE  CountWords(text) = Cardinality(WordStarts(text))
  <1> DEFINE n == Len(text)
             Word(k) == ~ IsSpace(text[k])
             Go(at, k) == IF IsSpace(text[k])
                          THEN [at EXCEPT !.in_word = FALSE]
                          ELSE [count |-> at.count
                                          + (IF at.in_word THEN 0 ELSE 1),
                                in_word |-> TRUE]
             Rec(g) == [k \in 0 .. n |->
                           IF k = 0 THEN [count |-> 0, in_word |-> FALSE]
                           ELSE Go(g[k - 1], k)]
             at == CHOOSE g : g = Rec(g)
             V == [count : Nat, in_word : BOOLEAN]
             step == [v \in V \X (1 .. n) |-> Go(v[1], v[2])]
             W == WordStarts(text)
  <1>1. CountWords(text) = at[n].count BY DEF CountWords
  <1>2. n \in Nat OBVIOUS
  <1>3. \A v \in V, k \in 1 .. n :
            /\ Go(v, k) \in V
            /\ Go(v, k).in_word = Word(k)
            /\ Go(v, k).count = v.count + (IF Word(k) /\ ~ v.in_word
                                           THEN 1 ELSE 0)
    <2> HIDE DEF n
    <2> SUFFICES ASSUME NEW v \in V, NEW k \in 1 .. n
                 PROVE  /\ Go(v, k) \in V
                        /\ Go(v, k).in_word = Word(k)
                        /\ Go(v, k).count = v.count + (IF Word(k) /\ ~ v.in_word
                                                       THEN 1 ELSE 0)
      OBVIOUS
    <2>0. v = [count |-> v.count, in_word |-> v.in_word] /\ v.count \in Nat
          /\ v.in_word \in BOOLEAN
      OBVIOUS
    <2>1. CASE IsSpace(text[k])
      <3>1. Go(v, k) = [count |-> v.count, in_word |-> FALSE] BY <2>0, <2>1
      <3> HIDE DEF Go, V
      <3>2. Go(v, k) \in V BY <2>0, <3>1 DEF V
      <3>3. Go(v, k).in_word = FALSE /\ Go(v, k).count = v.count BY <3>1
      <3>4. Word(k) = FALSE BY <2>1
      <3>5. v.count = v.count + 0 BY <2>0
      <3> HIDE DEF Word
      <3> QED BY <3>2, <3>3, <3>4, <3>5
    <2>2. CASE ~ IsSpace(text[k])
      <3>1. Go(v, k) = [count |-> v.count + (IF v.in_word THEN 0 ELSE 1),
                        in_word |-> TRUE]
        BY <2>2
      <3> HIDE DEF Go, V
      <3>2. Go(v, k) \in V BY <2>0, <3>1 DEF V
      <3>3. /\ Go(v, k).in_word = TRUE
            /\ Go(v, k).count = v.count + (IF v.in_word THEN 0 ELSE 1)
        BY <3>1
      <3>4. Word(k) = TRUE BY <2>2
      <3> HIDE DEF Word
      <3> QED BY <3>2, <3>3, <3>4
    <2> QED BY <2>1, <2>2
  <1> HIDE DEF Go
  <1>4. step \in [V \X (1 .. n) -> V]
        /\ \A v \in V, k \in 1 .. n : step[<<v, k>>] = Go(v, k)
    <2> HIDE DEF V, n
    <2>1. \A v \in V \X (1 .. n) : Go(v[1], v[2]) \in V BY <1>3
    <2> QED BY <2>1
  <1>5. [count |-> 0, in_word |-> FALSE] \in V OBVIOUS
  <1>6. \A k \in 0 .. n :
            /\ at[k] \in V
            /\ at[k] = IF k = 0 THEN [count |-> 0, in_word |-> FALSE]
                       ELSE Go(at[k - 1], k)
    <2> HIDE DEF step, n, V
    <2>1. PICK f \in [0 .. n -> V] :
              IsLoop(f, n, [count |-> 0, in_word |-> FALSE], step)
      BY <1>2, <1>4, <1>5, LoopExists
    <2>2. ASSUME NEW k \in 0 .. n
          PROVE  f[k] = IF k = 0 THEN [count |-> 0, in_word |-> FALSE]
                        ELSE Go(f[k - 1], k)
      <3>1. CASE k = 0 BY <2>1, <3>1 DEF IsLoop
      <3>2. CASE k # 0
        <4>1. k \in 1 .. n /\ f[k - 1] \in V BY <1>2, <3>2
        <4> QED BY <1>4, <2>1, <3>2, <4>1 DEF IsLoop
      <3> QED BY <3>1, <3>2
    <2>3. f = Rec(f) BY <2>2
    <2>4. at = Rec(at)
      <3> HIDE DEF Rec
      <3> QED BY <2>3
    <2> DEFINE S == {k \in 0 .. n : at[k] \in V}
    <2> HIDE DEF at
    <2>9. \A k \in 0 .. n :
              at[k] = IF k = 0 THEN [count |-> 0, in_word |-> FALSE]
                      ELSE Go(at[k - 1], k)
      BY <2>4
    <2>5. at[0] \in V BY <1>2, <1>5, <2>4
    <2>6. ASSUME NEW k \in 1 .. n, at[k - 1] \in V PROVE at[k] \in V
      <3>1. at[k] = Go(at[k - 1], k)
        <4>1. k \in 0 .. n /\ k # 0 BY <1>2
        <4> QED BY <2>9, <4>1
      <3> QED BY <1>3, <2>6, <3>1
    <2>7. 0 \in S /\ \A k \in 1 .. n : k - 1 \in S => k \in S
      BY <1>2, <2>5, <2>6
    <2> HIDE DEF S
    <2>8. 0 .. n \subseteq S BY <1>2, <2>7, UpTo
    <2> QED BY <2>8, <2>9 DEF S
  <1> DEFINE S == {k \in 0 .. n :
                      /\ at[k].count = Cardinality(W \cap (1 .. k))
                      /\ at[k].in_word <=> k # 0 /\ Word(k)}
  <1> HIDE DEF at, n
  <1>7. 0 \in S
    <2>1. at[0] = [count |-> 0, in_word |-> FALSE] BY <1>2, <1>6
    <2>2. at[0].count = 0 /\ at[0].in_word = FALSE BY <2>1
    <2> QED BY <1>2, <2>2, NoneYet
  <1>8. ASSUME NEW k \in 1 .. n, k - 1 \in S PROVE k \in S
    <2>1. at[k] = Go(at[k - 1], k)
      <3>1. k \in 0 .. n /\ k # 0 BY <1>2
      <3> QED BY <1>6, <3>1
    <2>2. at[k - 1] \in V BY <1>2, <1>6
    <2>3. /\ at[k].in_word = Word(k)
          /\ at[k].count = at[k - 1].count
                           + (IF Word(k) /\ ~ at[k - 1].in_word THEN 1 ELSE 0)
      <3> HIDE DEF V, Word
      <3> QED BY <1>3, <2>1, <2>2
    <2>4. /\ at[k - 1].count = Cardinality(W \cap (1 .. k - 1))
          /\ at[k - 1].in_word <=> k - 1 # 0 /\ Word(k - 1)
      BY <1>8
    <2>5. k \in W <=> Word(k) /\ ~ (k - 1 # 0 /\ Word(k - 1))
      BY DEF WordStarts, n
    <2> HIDE DEF W, V, Word
    <2>6. Cardinality(W \cap (1 .. k)) = Cardinality(W \cap (1 .. k - 1))
                                         + (IF k \in W THEN 1 ELSE 0)
      BY <1>2, OneMore
    <2>7. at[k].count = Cardinality(W \cap (1 .. k))
      BY <2>3, <2>4, <2>5, <2>6
    <2>8. at[k].in_word <=> k # 0 /\ Word(k) BY <2>3
    <2> QED BY <1>2, <2>7, <2>8
  <1>9. n \in S
    <2> HIDE DEF S
    <2>1. 0 .. n \subseteq S BY <1>2, <1>7, <1>8, UpTo
    <2> QED BY <1>2, <2>1
  <1>10. W \cap (1 .. n) = W BY DEF WordStarts, n
  <1> HIDE DEF W
  <1>11. at[n].count = Cardinality(W) BY <1>9, <1>10
  <1> QED BY <1>1, <1>11 DEF W

\* Texts of any length: text_stats counts their bytes, characters and words.
THEOREM TextsAreCounted == ToolsSpec => []TextIsCounted
  <1>1. AnswersTheCall => TextIsCounted
    <2> DEFINE obj == call.arguments.object
               text == obj["text"].string
    <2> SUFFICES ASSUME AnswersTheCall, CountsText,
                        "NUL" \notin Range(text)
                 PROVE  CountedRight(text)
      BY DEF TextIsCounted, Given
    <2>1. /\ call \in ToolCalls /\ result \in Execute(call) /\ result # Crash
          /\ result.ok /\ call.name = "text_stats"
          /\ call.name \in DOMAIN Definitions
      BY DEF AnswersTheCall, CountsText, Succeeded, Answered, Crashed,
             Definitions
    <2> DEFINE input == IF call.arguments = Null THEN [object |-> <<>>]
                        ELSE call.arguments
    <2>2. PICK outcome \in RequireObjectArgs(call.name, input) :
              outcome.error = "" /\ result.output = outcome.output
      <3>1. \E outcome \in RequireObjectArgs(call.name, input) :
              /\ result.ok <=> outcome.error = ""
              /\ result.ok => result.output = outcome.output
        BY <2>1, AnswersTellOutcomes
      <3> QED BY <2>1, <3>1
    <2>3. \A error : error # "" => outcome \notin Fails(error)
      <3>1. ASSUME NEW error, error # "", outcome \in Fails(error) PROVE FALSE
        <4>1. outcome = [output |-> Null, error |-> error] BY <3>1 DEF Fails
        <4> QED BY <2>2, <3>1, <4>1
      <3> QED BY <3>1
    <2>4. Is(input, "object") /\ outcome \in RunTextStatsTool(input.object)
      <3>1. Is(input, "object")
        <4>1. CASE ~ Is(input, "object")
          <5>1. outcome \in Fails("tool arguments must be a JSON object")
            BY <4>1 DEF RequireObjectArgs
          <5> QED BY <2>3, <5>1
        <4> QED BY <4>1
      <3> HIDE DEF input
      <3> QED BY <2>1, <3>1 DEF RequireObjectArgs, Handler
    <2>5. JsonStringField(input.object, "text") # None
      <3>1. CASE JsonStringField(input.object, "text") = None
        <4>1. outcome \in Fails("text_stats requires string text")
          BY <2>4, <3>1 DEF RunTextStatsTool
        <4> QED BY <2>3, <4>1
      <3> QED BY <3>1
    <2>6. Has(input.object, "text", "string")
      BY <2>5 DEF JsonStringField
    <2>7. call.arguments # Null
      <3>1. CASE call.arguments = Null
        <4>1. input.object = <<>>
          <5>1. input = [object |-> <<>>] BY <3>1
          <5>2. [object |-> <<>>].object = <<>> OBVIOUS
          <5> QED BY <5>1, <5>2, Zenon
        <4>2. DOMAIN <<>> = {} OBVIOUS
        <4> HIDE DEF input
        <4>3. "text" \in DOMAIN input.object BY <2>6 DEF Has
        <4> QED BY <4>1, <4>2, <4>3
      <3> QED BY <3>1
    <2>8. /\ input.object = obj /\ Has(obj, "text", "string")
          /\ "text" \in DOMAIN obj /\ Is(obj["text"], "string")
      BY <2>6, <2>7 DEF Has
    <2>9. text \in Seq(Bytes)
      <3>1. IsJson(obj["text"])
        BY <2>1, <2>4, <2>7, <2>8, CallsAssumption DEF Is
      <3> QED BY <2>8, <3>1, JsonHolds
    <2>10. JsonStringField(obj, "text") = text
      <3>1. \A i \in 1 .. Len(text) : text[i] # "NUL" BY <2>9 DEF Range
      <3> HIDE DEF obj
      <3> QED BY <2>8, <3>1, TextIsRead
    <2> HIDE DEF text, obj, input
    <2>11. \E lines, non_ascii :
             outcome \in Returns(
               [bytes |-> Len(text), characters |-> CountUtf8CodePoints(text),
                words |-> CountWords(text), lines |-> lines,
                has_non_ascii |-> non_ascii])
      BY <2>4, <2>5, <2>8, <2>10 DEF RunTextStatsTool
    <2>12. /\ Output("bytes") = Len(text)
           /\ Output("characters") = CountUtf8CodePoints(text)
           /\ Output("words") = CountWords(text)
      <3>1. PICK lines, non_ascii :
             outcome \in Returns(
               [bytes |-> Len(text), characters |-> CountUtf8CodePoints(text),
                words |-> CountWords(text), lines |-> lines,
                has_non_ascii |-> non_ascii])
        BY <2>11
      <3> DEFINE counts ==
               [bytes |-> Len(text), characters |-> CountUtf8CodePoints(text),
                words |-> CountWords(text), lines |-> lines,
                has_non_ascii |-> non_ascii]
      <3>2. /\ counts["bytes"] = Len(text)
            /\ counts["characters"] = CountUtf8CodePoints(text)
            /\ counts["words"] = CountWords(text)
        OBVIOUS
      <3>3. outcome \in Returns(counts) BY <3>1
      <3> HIDE DEF counts
      <3>4. outcome = [output |-> [object |-> counts], error |-> ""]
        BY <3>3 DEF Returns
      <3>5. outcome.output.object = counts BY <3>4
      <3> QED BY <2>2, <3>2, <3>5 DEF Output
    <2>13. Len(text) \in Nat /\ DOMAIN text = 1 .. Len(text) BY <2>9
    <2>14. CountUtf8CodePoints(text) = Cardinality(Characters(text))
      <3> DEFINE marks == [k \in DOMAIN text |-> text[k] # "cont"]
      <3>1. marks \in Seq(BOOLEAN) /\ DOMAIN marks = DOMAIN text BY <2>13
      <3>2. {k \in DOMAIN marks : marks[k]} = Characters(text)
        BY DEF Characters
      <3>3. CountUtf8CodePoints(text) = Count(marks) BY DEF CountUtf8CodePoints
      <3> HIDE DEF marks
      <3> QED BY <3>1, <3>2, <3>3, Counting
    <2> QED BY <2>12, <2>13, <2>14, WordsAreCounted DEF CountedRight
  <1> QED BY <1>1, AnswersComeFromExecute, PTL
=============================================================================
