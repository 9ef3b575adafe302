-------------------------- MODULE DemoOptions_proofs -------------------------
(***************************************************************************)
(* For any command line and any environment: what ParseArgs and main make  *)
(* of them.                                                                *)
(***************************************************************************)
EXTENDS DemoOptions, SequenceTheorems, FiniteSetTheorems, TLAPS

(* The inductive invariant *)

\* What is looked at is an option, and nothing before it stops the program.
ScanIInv ==
    /\ argv \in CommandLines /\ env \in Environments
    /\ at \in 1 .. Len(argv) + 1
    /\ at <= Len(argv) => at \in Positions
    /\ \A k \in Positions : k < at => argv[k] \notin Help /\ ~ Mistaken(k)

\* The last value that was given before the argument looked at, if any was.
LastGiven(name) ==
    \/ /\ options[name] = <<>>
       /\ \A k \in Positions : k < at => ~ Names(k, name)
    \/ \E k \in Positions :
          /\ k < at /\ Names(k, name) /\ options[name] = ValueAt(k)
          /\ \A j \in Positions : j < at /\ Names(j, name) => j <= k

ReadingIInv ==
    stage = "arguments" =>
        /\ error = "" /\ session = NoSession /\ rounds \in Int
        /\ DOMAIN options = TextOptions
        /\ \A name \in TextOptions : LastGiven(name)

\* What PrecedenceIsKept says of an option.
IsInForce(name, text) ==
    IF Given(name) # <<>> THEN text = Given(name)
    ELSE ComesFirst(text, Documented(name))

ParsedIInv ==
    stage \in {"parsed", "listed", "session"} =>
        /\ error = "" /\ at = Len(argv) + 1
        /\ rounds \in Int /\ rounds >= 1
        /\ \A name \in TextOptions : IsInForce(name, options[name])
        /\ \A name \in {"--base_url", "--model", "--system"} :
              options[name] # <<>>
        /\ \/ options["--user"] # <<>>
           \/ "--interactive" \in flags \/ "--list_tools" \in flags

\* Why the usage is printed.
UsageIInv ==
    stage = "usage" =>
        /\ session = NoSession
        /\ at = Len(argv) + 1 => error # ""
        /\ at <= Len(argv) => IF error = "" THEN argv[at] \in Help
                              ELSE Mistaken(at)

SessionIInv ==
    Started => /\ stage = "session"
               /\ session.texts = options /\ session.rounds = rounds
               /\ session.mode = "one_shot" =>
                     "--interactive" \notin flags /\ "--list_tools" \notin flags

OptionsIInv ==
    /\ stage \in {"arguments", "usage", "parsed", "listed", "session"}
    /\ ScanIInv /\ ReadingIInv /\ ParsedIInv /\ UsageIInv /\ SessionIInv

-----------------------------------------------------------------------------
(* Which of the arguments are options *)

\* The least of a set of numbers.
LEMMA Least ==
    ASSUME NEW S \in SUBSET Nat, S # {}
    PROVE  \E m \in S : \A k \in S : m <= k
<1> DEFINE T == {0 .. k : k \in S}
           R == StrictSubsetOrdering(Nat)
<1>1. T \subseteq FiniteSubsetsOf(Nat) /\ T # {}
  <2>1. ASSUME NEW k \in Nat PROVE 0 .. k \in FiniteSubsetsOf(Nat)
    <3>1. IsFiniteSet(0 .. k)
      BY FS_Interval
    <3> QED  BY <3>1 DEF FiniteSubsetsOf
  <2> QED  BY <2>1
<1>2. IsWellFoundedOn(R, FiniteSubsetsOf(Nat))
  BY FS_StrictSubsetOrderingWellFounded
<1> HIDE DEF T, R
<1>3. PICK x \in T : \A y \in T : <<y, x>> \notin R
  BY <1>1, <1>2, WFMin
<1>4. PICK m \in S : x = 0 .. m
  BY DEF T
<1>5. ASSUME NEW k \in S, k < m PROVE FALSE
  <2>1. 0 .. k \in T
    BY DEF T
  <2>2. 0 .. k \subseteq 0 .. m /\ m \in 0 .. m /\ m \notin 0 .. k
    BY <1>5
  <2>3. <<0 .. k, 0 .. m>> \in R
    BY <2>2 DEF R, StrictSubsetOrdering
  <2> QED  BY <1>3, <1>4, <2>1, <2>3
<1> QED  BY <1>5

\* However long the command line is, its arguments divide into options and
\* their values.
LEMMA ArgumentsSplit ==
    ASSUME NEW args, Len(args) \in Nat
    PROVE  /\ OptionsAmong(args) \subseteq 1 .. Len(args)
           /\ Splits(args, Len(args), OptionsAmong(args))
<1> DEFINE Divides(n) == \E set \in SUBSET (1 .. n) : Splits(args, n, set)
           S == {n \in 0 .. Len(args) : ~ Divides(n)}
<1>1. Divides(0)
  BY DEF Splits
<1>2. ASSUME NEW n \in 1 .. Len(args), Divides(n - 1) PROVE Divides(n)
  <2>1. PICK set \in SUBSET (1 .. n - 1) : Splits(args, n - 1, set)
    BY <1>2
  <2> DEFINE last == n = 1 \/ n - 1 \notin set \/ ~ IsBare(args[n - 1])
             more == IF last THEN set \cup {n} ELSE set
  <2>2. more \in SUBSET (1 .. n) /\ n \notin set
    BY <2>1
  <2>3. /\ n \in more <=> last
        /\ \A k \in 1 .. n - 1 : k \in more <=> k \in set
    BY <2>2
  <2>4. ASSUME NEW k \in 1 .. n
        PROVE  k \in more
                   <=> k = 1 \/ k - 1 \notin more \/ ~ IsBare(args[k - 1])
    <3>1. CASE k = n
      <4>1. CASE n = 1
        BY <2>3, <3>1, <4>1
      <4>2. CASE n # 1
        <5>1. n - 1 \in 1 .. n - 1
          BY <4>2
        <5>2. n - 1 \in more <=> n - 1 \in set
          BY <2>3, <5>1
        <5> QED  BY <2>3, <3>1, <5>2
      <4> QED  BY <4>1, <4>2
    <3>2. CASE k # n
      <4>1. k \in 1 .. n - 1
        BY <3>2
      <4>2. k \in set <=> k = 1 \/ k - 1 \notin set \/ ~ IsBare(args[k - 1])
        BY <2>1, <4>1 DEF Splits
      <4>3. k # 1 => k - 1 \in 1 .. n - 1
        BY <4>1
      <4>4. k \in more <=> k \in set
        BY <2>3, <4>1
      <4>5. k # 1 => (k - 1 \in more <=> k - 1 \in set)
        BY <2>3, <4>3
      <4> HIDE DEF more
      <4> QED  BY <4>2, <4>4, <4>5
    <3> QED  BY <3>1, <3>2
  <2> HIDE DEF more
  <2>5. Splits(args, n, more)
    BY <2>4 DEF Splits
  <2> QED  BY <2>2, <2>5
<1>3. ASSUME S # {} PROVE FALSE
  <2>1. S \in SUBSET Nat
    OBVIOUS
  <2>2. PICK m \in S : \A k \in S : m <= k
    <3> HIDE DEF S
    <3> QED  BY <1>3, <2>1, Least
  <2>3. m \in 0 .. Len(args) /\ ~ Divides(m)
    OBVIOUS
  <2>4. m # 0
    BY <1>1, <2>3
  <2>5. m \in 1 .. Len(args) /\ m - 1 \in 0 .. Len(args) /\ m - 1 \notin S
    <3>1. /\ m \in 1 .. Len(args) /\ m - 1 \in 0 .. Len(args)
          /\ ~ (m <= m - 1)
      BY <2>2, <2>3, <2>4
    <3> QED  BY <2>2, <3>1
  <2>6. Divides(m - 1)
    BY <2>5
  <2> QED  BY <1>2, <2>3, <2>5, <2>6
<1>4. Divides(Len(args))
  BY <1>3
<1> HIDE DEF S
<1> QED  BY <1>4 DEF OptionsAmong

-----------------------------------------------------------------------------
(* Reading one more argument *)

\* The same for the arguments of the program.
LEMMA PositionsSplit ==
    ASSUME argv \in CommandLines
    PROVE  /\ Len(argv) \in Nat /\ Positions \subseteq 1 .. Len(argv)
           /\ \A k \in 1 .. Len(argv) : Len(argv[k]) \in Nat
           /\ \A k \in 1 .. Len(argv) :
                  k \in Positions
                      <=> k = 1 \/ k - 1 \notin Positions \/ ~ IsBare(argv[k - 1])
<1>1. Len(argv) \in Nat /\ \A k \in 1 .. Len(argv) : Len(argv[k]) \in Nat
  BY CommandLinesAssumption
<1>2. Splits(argv, Len(argv), Positions) /\ Positions \subseteq 1 .. Len(argv)
  BY <1>1, ArgumentsSplit DEF Positions
<1> QED  BY <1>1, <1>2 DEF Splits

\* The option that is looked at ends with the argument n.
EndsAt(n) == \/ n = at /\ ~ IsBare(argv[at])
             \/ n = at + 1 /\ IsBare(argv[at]) /\ at < Len(argv)

\* After an option and its value comes the next option.
LEMMA NextPosition ==
    ASSUME ScanIInv, at <= Len(argv), NEW n, EndsAt(n)
    PROVE  /\ n + 1 \in 1 .. Len(argv) + 1
           /\ n + 1 <= Len(argv) => n + 1 \in Positions
           /\ \A k \in Positions : k < n + 1 <=> k < at \/ k = at
<1>1. /\ Len(argv) \in Nat /\ Positions \subseteq 1 .. Len(argv)
      /\ at \in 1 .. Len(argv) /\ at \in Positions
      /\ \A k \in 1 .. Len(argv) :
             k \in Positions
                 <=> k = 1 \/ k - 1 \notin Positions \/ ~ IsBare(argv[k - 1])
  BY PositionsSplit DEF ScanIInv
<1>2. CASE n = at /\ ~ IsBare(argv[at])
  <2>1. at + 1 - 1 = at
    BY <1>1
  <2>2. at + 1 <= Len(argv) => at + 1 \in Positions
    BY <1>1, <1>2, <2>1
  <2> QED  BY <1>1, <1>2, <2>2
<1>3. CASE n = at + 1 /\ IsBare(argv[at]) /\ at < Len(argv)
  <2>1. at + 1 \in 1 .. Len(argv) /\ at + 1 - 1 = at /\ at + 1 # 1
        /\ at + 2 - 1 = at + 1 /\ n + 1 = at + 2
    BY <1>1, <1>3
  <2>2. at + 1 \notin Positions
    BY <1>1, <1>3, <2>1
  <2>3. at + 2 <= Len(argv) => at + 2 \in Positions
    BY <1>1, <2>1, <2>2
  <2>4. \A k \in Positions : k \in Int /\ k # at + 1
    BY <1>1, <2>2
  <2> QED  BY <1>1, <2>1, <2>3, <2>4
<1> QED  BY <1>2, <1>3 DEF EndsAt

\* What the arguments mean depends on the arguments alone.
LEMMA ArgumentsStay ==
    ASSUME argv' = argv
    PROVE  /\ Positions' = Positions
           /\ \A k, name : /\ Names(k, name)' <=> Names(k, name)
                           /\ ValueAt(k)' = ValueAt(k)
           /\ \A k : Mistaken(k)' <=> Mistaken(k)
<1>1. Positions' = Positions
  BY DEF Positions
<1>2. \A k, name : Names(k, name)' <=> Names(k, name)
  BY DEF Names
<1>3. \A k : ValueAt(k)' = ValueAt(k)
  BY DEF ValueAt
<1>4. \A k : Mistaken(k)' <=> Mistaken(k)
  BY DEF Mistaken, Names, HasValue, ValueAt
<1> QED  BY <1>1, <1>2, <1>3, <1>4

\* An argument that does not stop the program.
LEMMA ScanGoesOn ==
    ASSUME ScanIInv, at <= Len(argv), NEW n, EndsAt(n), at' = n + 1,
           argv' = argv, env' = env, argv[at] \notin Help, ~ Mistaken(at)
    PROVE  ScanIInv'
<1>1. /\ n + 1 \in 1 .. Len(argv) + 1
      /\ n + 1 <= Len(argv) => n + 1 \in Positions
      /\ \A k \in Positions : k < n + 1 <=> k < at \/ k = at
  BY NextPosition
<1>2. Positions' = Positions /\ \A k : Mistaken(k)' <=> Mistaken(k)
  BY ArgumentsStay
<1>3. ASSUME NEW k \in Positions, k < n + 1
      PROVE  argv[k] \notin Help /\ ~ Mistaken(k)
  BY <1>1, <1>3 DEF ScanIInv
<1> QED  BY <1>1, <1>2, <1>3 DEF ScanIInv

\* The option that is looked at is not this one.
LEMMA LastStays ==
    ASSUME ScanIInv, at <= Len(argv), NEW n, EndsAt(n), at' = n + 1,
           argv' = argv, NEW name, ~ Names(at, name), LastGiven(name),
           options'[name] = options[name]
    PROVE  LastGiven(name)'
<1>1. \A k \in Positions : k < n + 1 <=> k < at \/ k = at
  BY NextPosition
<1>2. \A k \in Positions : (k < n + 1 /\ Names(k, name))
                               <=> (k < at /\ Names(k, name))
  BY <1>1
<1>3. /\ Positions' = Positions
      /\ \A k : Names(k, name)' <=> Names(k, name)
      /\ \A k : ValueAt(k)' = ValueAt(k)
  BY ArgumentsStay
<1> QED  BY <1>2, <1>3 DEF LastGiven

\* It is this one.
LEMMA LastIsNew ==
    ASSUME ScanIInv, at <= Len(argv), NEW n, EndsAt(n), at' = n + 1,
           argv' = argv, NEW name, Names(at, name),
           options'[name] = ValueAt(at)
    PROVE  LastGiven(name)'
<1>1. \A k \in Positions : k < n + 1 <=> k < at \/ k = at
  BY NextPosition
<1>2. /\ Positions' = Positions
      /\ \A k : Names(k, name)' <=> Names(k, name)
      /\ \A k : ValueAt(k)' = ValueAt(k)
  BY ArgumentsStay
<1>3. /\ at \in Positions /\ at \in Int /\ at < n + 1
      /\ \A k \in Positions : k \in Int
  BY <1>1, PositionsSplit DEF ScanIInv
<1>4. \A j \in Positions : j < n + 1 /\ Names(j, name) => j <= at
  BY <1>1, <1>3
<1> QED  BY <1>2, <1>3, <1>4 DEF LastGiven

\* An argument names one option, and is then no flag and asks for no help.
LEMMA NamesOne ==
    ASSUME NEW k, NEW name \in ValueOptions, Names(k, name)
    PROVE  /\ \A other \in ValueOptions : Names(k, other) => other = name
           /\ argv[k] \notin Help /\ ~ IsFlag(argv[k])
           /\ IsBare(argv[k]) <=> argv[k] = <<name>>
<1>1. \A a, b : <<a>> = <<b>> => a = b
  OBVIOUS
<1>2. \A a, b, c : <<a, c>> = <<b, c>> => a = b
  OBVIOUS
<1>3. \A a : Len(<<a>>) = 1
  OBVIOUS
<1>4. \A other : Names(k, other) => other = name
  <2>1. ASSUME NEW other, Names(k, other) PROVE other = name
    <3>1. CASE argv[k] = <<other>> /\ argv[k] = <<name>>
      BY <1>1, <3>1
    <3>2. CASE argv[k] = <<other>> /\ Len(argv[k]) > 2
      BY <1>3, <3>2
    <3>3. CASE argv[k] = <<name>> /\ Len(argv[k]) > 2
      BY <1>3, <3>3
    <3>4. CASE /\ SubSeq(argv[k], 1, 2) = <<name, "=">>
               /\ SubSeq(argv[k], 1, 2) = <<other, "=">>
      BY <1>2, <3>4
    <3> QED  BY <2>1, <3>1, <3>2, <3>3, <3>4 DEF Names
  <2> QED  BY <2>1
<1>5. /\ "-h" \notin ValueOptions /\ "--help" \notin ValueOptions
      /\ \A flag \in Flags : flag \notin ValueOptions
  BY DEF ValueOptions, TextOptions, Flags
<1>6. ASSUME NEW a, argv[k] = <<a>> PROVE a = name
  BY <1>4, <1>6 DEF Names
<1>7. argv[k] \notin Help
  BY <1>5, <1>6 DEF Help
<1>8. ~ IsFlag(argv[k])
  BY <1>5, <1>6 DEF IsFlag
<1>9. IsBare(argv[k]) <=> argv[k] = <<name>>
  BY <1>6 DEF IsBare
<1> QED  BY <1>4, <1>7, <1>8, <1>9

\* Where ReadValueArg finds a value there is one, and it ends with it.
LEMMA ValueIsRead ==
    ASSUME ScanIInv, at <= Len(argv), NEW name \in ValueOptions,
           ReadValueArg(name).ok
    PROVE  /\ Names(at, name) /\ HasValue(at)
           /\ ReadValueArg(name).value = ValueAt(at)
           /\ EndsAt(ReadValueArg(name).last)
<1>1. at \in 1 .. Len(argv) /\ Len(argv) \in Nat /\ Len(argv[at]) \in Nat
  BY PositionsSplit DEF ScanIInv
<1>2. Len(<<name>>) = 1
  OBVIOUS
<1>3. CASE argv[at] = <<name>> /\ at < Len(argv)
  <2>1. Names(at, name) /\ IsBare(argv[at])
    BY <1>3 DEF Names, IsBare
  <2>2. HasValue(at) /\ ~ (Len(argv[at]) > 1)
    BY <1>2, <1>3 DEF HasValue
  <2>3. ReadValueArg(name)
            = [ok |-> TRUE, value |-> argv[at + 1], last |-> at + 1]
    BY <1>3 DEF ReadValueArg
  <2>4. /\ ReadValueArg(name).value = argv[at + 1]
        /\ ReadValueArg(name).last = at + 1
    BY <2>3
  <2> QED  BY <1>3, <2>1, <2>2, <2>4 DEF ValueAt, EndsAt
<1>4. CASE /\ ~ (argv[at] = <<name>> /\ at < Len(argv))
           /\ Len(argv[at]) > 2 /\ SubSeq(argv[at], 1, 2) = <<name, "=">>
  <2>1. Names(at, name) /\ argv[at] # <<name>>
    <3>1. Names(at, name)
      BY <1>4 DEF Names
    <3>2. ASSUME argv[at] = <<name>> PROVE FALSE
      <4>1. Len(argv[at]) = 1
        BY <1>2, <3>2
      <4> QED  BY <1>4, <4>1
    <3> QED  BY <3>1, <3>2
  <2>2. HasValue(at) /\ Len(argv[at]) > 1
    BY <1>1, <1>4 DEF HasValue
  <2>3. ReadValueArg(name)
            = [ok |-> TRUE, value |-> SubSeq(argv[at], 3, Len(argv[at])),
               last |-> at]
    BY <1>4 DEF ReadValueArg
  <2>4. /\ ReadValueArg(name).value = SubSeq(argv[at], 3, Len(argv[at]))
        /\ ReadValueArg(name).last = at
    BY <2>3
  <2>5. ~ IsBare(argv[at])
    BY <2>1, NamesOne
  <2> QED  BY <2>1, <2>2, <2>4, <2>5 DEF ValueAt, EndsAt
<1>5. CASE /\ ~ (argv[at] = <<name>> /\ at < Len(argv))
           /\ ~ (/\ Len(argv[at]) > 2
                 /\ SubSeq(argv[at], 1, 2) = <<name, "=">>)
  <2>1. ReadValueArg(name) = NotThis
    BY <1>5 DEF ReadValueArg
  <2>2. NotThis.ok = FALSE
    BY DEF NotThis
  <2> QED  BY <2>1, <2>2
<1> QED  BY <1>3, <1>4, <1>5

\* Where an option is named and has a value, ReadValueArg finds it.
LEMMA ValueIsFound ==
    ASSUME ScanIInv, at <= Len(argv), NEW name \in ValueOptions,
           Names(at, name), HasValue(at)
    PROVE  ReadValueArg(name).ok /\ ReadValueArg(name).value = ValueAt(at)
<1>1. at \in 1 .. Len(argv) /\ Len(argv) \in Nat /\ Len(argv[at]) \in Nat
  BY PositionsSplit DEF ScanIInv
<1>2. Len(<<name>>) = 1
  OBVIOUS
<1>3. ReadValueArg(name).ok
  <2>1. CASE argv[at] = <<name>>
    <3>1. at < Len(argv)
      BY <1>2, <2>1 DEF HasValue
    <3>2. ReadValueArg(name)
              = [ok |-> TRUE, value |-> argv[at + 1], last |-> at + 1]
      BY <2>1, <3>1 DEF ReadValueArg
    <3> QED  BY <3>2
  <2>2. CASE /\ argv[at] # <<name>>
             /\ Len(argv[at]) > 2 /\ SubSeq(argv[at], 1, 2) = <<name, "=">>
    <3>1. ReadValueArg(name)
              = [ok |-> TRUE, value |-> SubSeq(argv[at], 3, Len(argv[at])),
                 last |-> at]
      BY <2>2 DEF ReadValueArg
    <3> QED  BY <3>1
  <2> QED  BY <2>1, <2>2 DEF Names
<1> QED  BY <1>3, ValueIsRead

-----------------------------------------------------------------------------
(* One step per action *)

\* Before the first argument.
LEMMA OptionsStart == OptionsInit => OptionsIInv
<1> SUFFICES ASSUME OptionsInit PROVE OptionsIInv
  OBVIOUS
<1>1. /\ argv \in CommandLines /\ env \in Environments /\ at = 1
      /\ stage = "arguments" /\ rounds = 8 /\ error = ""
      /\ session = NoSession
  BY DEF OptionsInit
<1>2. /\ Len(argv) \in Nat /\ Positions \subseteq 1 .. Len(argv)
      /\ \A k \in 1 .. Len(argv) :
             k \in Positions
                 <=> k = 1 \/ k - 1 \notin Positions \/ ~ IsBare(argv[k - 1])
  BY <1>1, PositionsSplit
<1>3. 1 \in 1 .. Len(argv) + 1 /\ (1 <= Len(argv) => 1 \in 1 .. Len(argv))
  BY <1>2
<1>4. 1 <= Len(argv) => 1 \in Positions
  BY <1>2, <1>3
<1>5. ASSUME NEW k \in Positions PROVE ~ (k < 1)
  BY <1>2
<1>6. ScanIInv
  BY <1>1, <1>3, <1>4, <1>5 DEF ScanIInv
<1>7. ASSUME NEW name \in TextOptions PROVE LastGiven(name)
  <2>1. options[name] = <<>>
    BY DEF OptionsInit
  <2> QED  BY <1>1, <1>5, <2>1 DEF LastGiven
<1>8. ReadingIInv
  <2>1. DOMAIN options = TextOptions
    BY DEF OptionsInit
  <2>2. rounds \in Int
    <3>1. rounds = 8
      BY DEF OptionsInit
    <3>2. 8 \in Int
      OBVIOUS
    <3> QED  BY <3>1, <3>2, Zenon
  <2> QED  BY <1>1, <1>7, <2>1, <2>2, Zenon DEF ReadingIInv
<1>9. SessionIInv
  BY <1>1 DEF SessionIInv, Started
<1> QED  BY <1>1, <1>6, <1>8, <1>9 DEF OptionsIInv, ParsedIInv, UsageIInv

\* Whatever option was read, and whatever it was kept in.
LEMMA KeepsReading ==
    ASSUME OptionsIInv, Reading, NEW n, EndsAt(n), at' = n + 1,
           UNCHANGED <<argv, env, stage, error, session>>,
           argv[at] \notin Help, ~ Mistaken(at),
           rounds' \in Int, DOMAIN options' = TextOptions,
           \A name \in TextOptions :
               IF Names(at, name) THEN options'[name] = ValueAt(at)
               ELSE options'[name] = options[name]
    PROVE  OptionsIInv'
<1> USE DEF OptionsIInv, Reading
<1>1. at <= Len(argv) /\ argv' = argv /\ env' = env
  OBVIOUS
<1>2. ScanIInv'
  BY <1>1, ScanGoesOn
<1>3. ASSUME NEW name \in TextOptions PROVE LastGiven(name)'
  <2>1. LastGiven(name)
    BY DEF ReadingIInv
  <2>2. CASE Names(at, name)
    <3>1. options'[name] = ValueAt(at)
      BY <2>2
    <3> QED  BY <1>1, <2>2, <3>1, LastIsNew
  <2>3. CASE ~ Names(at, name)
    <3>1. options'[name] = options[name]
      BY <2>3
    <3> QED  BY <1>1, <2>1, <2>3, <3>1, LastStays
  <2> QED  BY <2>2, <2>3
<1>4. ReadingIInv'
  BY <1>3 DEF ReadingIInv
<1>5. SessionIInv'
  BY DEF SessionIInv, ReadingIInv, Started, NoSession
<1> QED  BY <1>2, <1>4, <1>5 DEF ParsedIInv, UsageIInv

\* A flag.
LEMMA FlagStep == ASSUME OptionsIInv, ReadFlag PROVE OptionsIInv'
<1>1. ASSUME NEW name \in ValueOptions PROVE ~ Names(at, name)
  BY NamesOne DEF ReadFlag
<1>2. ~ Mistaken(at) /\ IsFlag(argv[at])
  BY DEF ReadFlag, Mistaken
<1>3. argv[at] \notin Help /\ ~ IsBare(argv[at])
  <2>1. PICK flag \in Flags : argv[at] = <<flag>>
    BY <1>2 DEF IsFlag
  <2>2. flag # "-h" /\ flag # "--help"
    BY DEF Flags
  <2>3. \A a, b : <<a>> = <<b>> => a = b
    OBVIOUS
  <2>4. argv[at] \notin Help
    BY <2>1, <2>2, <2>3 DEF Help
  <2>5. ~ IsBare(argv[at])
    BY <1>1 DEF IsBare, Names
  <2> QED  BY <2>4, <2>5
<1>4. EndsAt(at)
  BY <1>3 DEF EndsAt
<1>5. \A name \in TextOptions : ~ Names(at, name)
  BY <1>1 DEF ValueOptions
<1>6. rounds' \in Int /\ DOMAIN options' = TextOptions /\ options' = options
  BY DEF ReadFlag, Reading, OptionsIInv, ReadingIInv
<1>7. Reading /\ at' = at + 1 /\ UNCHANGED <<argv, env, stage, error, session>>
  BY DEF ReadFlag
<1> QED  BY <1>2, <1>3, <1>4, <1>5, <1>6, <1>7, KeepsReading

\* A text.
LEMMA TextStep ==
    ASSUME OptionsIInv, NEW name \in TextOptions, ReadText(name)
    PROVE  OptionsIInv'
<1>1. name \in ValueOptions /\ Reading /\ ScanIInv /\ at <= Len(argv)
  BY DEF ReadText, Reading, ValueOptions, OptionsIInv
<1>2. /\ Names(at, name) /\ HasValue(at)
      /\ ReadValueArg(name).value = ValueAt(at)
      /\ EndsAt(ReadValueArg(name).last)
  BY <1>1, ValueIsRead DEF ReadText
<1>3. /\ \A other \in ValueOptions : Names(at, other) => other = name
      /\ argv[at] \notin Help
  BY <1>1, <1>2, NamesOne
<1>4. ~ Mistaken(at)
  <2>1. name # "--max_round_trips" /\ name # "--temperature"
    BY DEF TextOptions
  <2> QED  BY <1>1, <1>2, <2>1 DEF Mistaken
<1>5. DOMAIN options = TextOptions /\ rounds \in Int
  BY <1>1 DEF OptionsIInv, ReadingIInv, Reading
<1>6. ASSUME NEW other \in TextOptions
      PROVE  IF Names(at, other) THEN options'[other] = ValueAt(at)
             ELSE options'[other] = options[other]
  <2>1. Names(at, other) <=> other = name
    BY <1>2, <1>3 DEF ValueOptions
  <2>2. options' = [options EXCEPT ![name] = ValueAt(at)]
    BY <1>2 DEF ReadText
  <2> QED  BY <1>5, <2>1, <2>2
<1>7. DOMAIN options' = TextOptions
  BY <1>5 DEF ReadText
<1>8. /\ at' = ReadValueArg(name).last + 1 /\ rounds' = rounds
      /\ UNCHANGED <<argv, env, stage, error, session>>
  BY DEF ReadText
<1> QED  BY <1>1, <1>2, <1>3, <1>4, <1>5, <1>6, <1>7, <1>8, KeepsReading

\* A number of rounds or a temperature: what is read is none of the texts.
LEMMA NumberStep ==
    ASSUME OptionsIInv, Reading,
           NEW name \in {"--max_round_trips", "--temperature"},
           ReadValueArg(name).ok,
           name = "--max_round_trips" => ReadValueArg(name).value \in DOMAIN StoI,
           name = "--temperature" => ReadValueArg(name).value \in StoD,
           at' = ReadValueArg(name).last + 1, rounds' \in Int,
           UNCHANGED <<argv, env, stage, options, error, session>>
    PROVE  OptionsIInv'
<1>1. name \in ValueOptions /\ ScanIInv /\ at <= Len(argv)
  BY DEF Reading, ValueOptions, OptionsIInv
<1>2. /\ Names(at, name) /\ HasValue(at)
      /\ ReadValueArg(name).value = ValueAt(at)
      /\ EndsAt(ReadValueArg(name).last)
  BY <1>1, ValueIsRead
<1>3. /\ \A other \in ValueOptions : Names(at, other) => other = name
      /\ argv[at] \notin Help
  BY <1>1, <1>2, NamesOne
<1>4. ~ Mistaken(at)
  BY <1>1, <1>2 DEF Mistaken
<1>5. \A other \in TextOptions : ~ Names(at, other)
  <2>1. name \notin TextOptions
    BY DEF TextOptions
  <2> QED  BY <1>3, <2>1 DEF ValueOptions
<1>6. DOMAIN options' = TextOptions /\ options' = options
  BY DEF OptionsIInv, ReadingIInv, Reading
<1> QED  BY <1>2, <1>3, <1>4, <1>5, <1>6, KeepsReading

\* A number of rounds.
LEMMA RoundsStep == ASSUME OptionsIInv, ReadRounds PROVE OptionsIInv'
<1> DEFINE name == "--max_round_trips"
           read == ReadValueArg(name)
<1>1. read.ok /\ read.value \in DOMAIN StoI
  <2>1. NotThis.ok = FALSE
    BY DEF NotThis
  <2> QED  BY <2>1 DEF ReadRounds, ParseIntArg
<1>2. ParseIntArg(name) = [read EXCEPT !.value = StoI[@]]
  BY <1>1 DEF ParseIntArg
<1>3. /\ ParseIntArg(name).value = StoI[read.value]
      /\ ParseIntArg(name).last = read.last
  <2>1. /\ DOMAIN read = {"ok", "value", "last"}
    BY DEF ReadValueArg, NotThis
  <2> HIDE DEF read
  <2> QED  BY <1>2, <2>1
<1>4. rounds' \in Int
  BY <1>1, <1>3, StoIAssumption DEF ReadRounds
<1>5. at' = read.last + 1
  BY <1>3 DEF ReadRounds
<1>6. Reading /\ UNCHANGED <<argv, env, stage, options, error, session>>
  BY DEF ReadRounds
<1> QED  BY <1>1, <1>4, <1>5, <1>6, NumberStep

\* A temperature.
LEMMA TemperatureStep == ASSUME OptionsIInv, ReadTemperature PROVE OptionsIInv'
<1> DEFINE name == "--temperature"
           read == ReadValueArg(name)
<1>1. ParseDoubleArg(name) = read /\ read.ok /\ read.value \in StoD
  <2>1. NotThis.ok = FALSE
    BY DEF NotThis
  <2> QED  BY <2>1 DEF ReadTemperature, ParseDoubleArg
<1>2. at' = read.last + 1
  BY <1>1 DEF ReadTemperature
<1>3. /\ Reading /\ UNCHANGED <<argv, env, stage, options, error, session>>
      /\ rounds' = rounds
  BY DEF ReadTemperature
<1>4. rounds \in Int
  BY <1>3 DEF Reading, OptionsIInv, ReadingIInv
<1> QED  BY <1>1, <1>2, <1>3, <1>4, NumberStep

\* What stops the program is what is looked at.
LEMMA ScanStays ==
    ASSUME ScanIInv, UNCHANGED <<argv, env, at>> PROVE ScanIInv'
<1>1. Positions' = Positions /\ \A k : Mistaken(k)' <=> Mistaken(k)
  BY ArgumentsStay
<1> QED  BY <1>1 DEF ScanIInv

\* A question for help.
LEMMA HelpStep == ASSUME OptionsIInv, ReadHelp PROVE OptionsIInv'
<1>1. /\ stage = "arguments" /\ at <= Len(argv) /\ argv[at] \in Help
      /\ stage' = "usage"
      /\ UNCHANGED <<argv, env, at, error, session>>
  BY DEF ReadHelp, Reading
<1>2. ScanIInv'
  BY <1>1, ScanStays DEF OptionsIInv
<1>3. error = "" /\ session = NoSession
  BY <1>1 DEF OptionsIInv, ReadingIInv
<1>4. ~ (at = Len(argv) + 1)
  BY <1>1, PositionsSplit DEF OptionsIInv, ScanIInv
<1>5. UsageIInv'
  BY <1>1, <1>3, <1>4 DEF UsageIInv
<1>6. SessionIInv'
  BY <1>1, <1>3 DEF SessionIInv, Started, NoSession
<1> QED  BY <1>1, <1>2, <1>5, <1>6 DEF OptionsIInv, ReadingIInv, ParsedIInv

\* An argument no reader takes is a mistake.
LEMMA RefusedIsMistaken == ASSUME OptionsIInv, RefuseArgument PROVE Mistaken(at)
<1>1. ScanIInv /\ at <= Len(argv)
  BY DEF RefuseArgument, Reading, OptionsIInv
<1>2. ASSUME NEW name \in ValueOptions, Names(at, name), HasValue(at)
      PROVE  \/ name = "--max_round_trips" /\ ValueAt(at) \notin DOMAIN StoI
             \/ name = "--temperature" /\ ValueAt(at) \notin StoD
  <2>1. ReadValueArg(name).ok /\ ReadValueArg(name).value = ValueAt(at)
    BY <1>1, <1>2, ValueIsFound
  <2>2. CASE name \in TextOptions
    BY <2>1, <2>2 DEF RefuseArgument
  <2>3. CASE name = "--max_round_trips"
    <3>1. ASSUME ValueAt(at) \in DOMAIN StoI PROVE FALSE
      <4> DEFINE read == ReadValueArg(name)
      <4>1. ParseIntArg(name) = [read EXCEPT !.value = StoI[@]]
        BY <2>1, <3>1 DEF ParseIntArg
      <4>2. DOMAIN read = {"ok", "value", "last"}
        BY DEF ReadValueArg, NotThis
      <4> HIDE DEF read
      <4>3. ParseIntArg(name).ok = read.ok
        BY <4>1, <4>2
      <4> QED  BY <2>1, <2>3, <4>3 DEF RefuseArgument, read
    <3> QED  BY <2>3, <3>1
  <2>4. CASE name = "--temperature"
    <3>1. ASSUME ValueAt(at) \in StoD PROVE FALSE
      <4>1. ParseDoubleArg(name) = ReadValueArg(name)
        BY <2>1, <3>1 DEF ParseDoubleArg
      <4> QED  BY <2>1, <2>4, <4>1 DEF RefuseArgument
    <3> QED  BY <2>4, <3>1
  <2> QED  BY <1>2, <2>2, <2>3, <2>4 DEF ValueOptions
<1>3. argv[at] \notin Help /\ ~ IsFlag(argv[at])
  BY DEF RefuseArgument
<1> QED  BY <1>2, <1>3 DEF Mistaken

\* It ends the program.
LEMMA RefuseStep == ASSUME OptionsIInv, RefuseArgument PROVE OptionsIInv'
<1>1. /\ stage = "arguments" /\ at <= Len(argv)
      /\ stage' = "usage" /\ error' = "unknown argument"
      /\ UNCHANGED <<argv, env, at, session>>
  BY DEF RefuseArgument, Reading
<1>2. ScanIInv'
  BY <1>1, ScanStays DEF OptionsIInv
<1>3. session = NoSession
  BY <1>1 DEF OptionsIInv, ReadingIInv
<1>4. Mistaken(at)'
  BY <1>1, RefusedIsMistaken, ArgumentsStay DEF Mistaken, Names, HasValue, ValueAt
<1>5. error' # ""
  BY <1>1
<1>6. UsageIInv'
  BY <1>1, <1>3, <1>4, <1>5 DEF UsageIInv
<1>7. SessionIInv'
  BY <1>1, <1>3 DEF SessionIInv, Started, NoSession
<1> QED  BY <1>1, <1>2, <1>6, <1>7 DEF OptionsIInv, ReadingIInv, ParsedIInv

-----------------------------------------------------------------------------
(* What is missing *)

\* The first text that is not empty.
LEMMA FirstOfMeans ==
    ASSUME NEW S, NEW texts \in Seq(S)
    PROVE  \/ /\ FirstOf(texts) = <<>>
              /\ \A k \in 1 .. Len(texts) : texts[k] = <<>>
           \/ \E k \in 1 .. Len(texts) :
                 /\ texts[k] # <<>> /\ FirstOf(texts) = texts[k]
                 /\ \A j \in 1 .. k - 1 : texts[j] = <<>>
<1> DEFINE I == {i \in 1 .. Len(texts) : texts[i] # <<>>}
           k == SelectInSeq(texts, LAMBDA text : text # <<>>)
<1>1. k = IF I # {} THEN Min(I) ELSE 0
  BY DEF SelectInSeq
<1>2. FirstOf(texts) = IF k = 0 THEN <<>> ELSE texts[k]
  BY DEF FirstOf
<1>3. Len(texts) \in Nat
  OBVIOUS
<1> HIDE DEF k
<1>4. CASE I = {}
  <2>1. FirstOf(texts) = <<>>
    BY <1>1, <1>2, <1>4
  <2> QED  BY <1>4, <2>1
<1>5. CASE I # {}
  <2>1. I \in SUBSET Nat
    OBVIOUS
  <2>2. PICK m \in I : \A i \in I : m <= i
    <3> HIDE DEF I
    <3> QED  BY <1>5, <2>1, Least
  <2>3. Min(I) = m
    <3>1. \A i \in I : (\A j \in I : i <= j) => i = m
      BY <2>1, <2>2
    <3> HIDE DEF I
    <3> QED  BY <2>2, <3>1 DEF Min
  <2>4. /\ m \in 1 .. Len(texts) /\ texts[m] # <<>>
        /\ \A j \in 1 .. m - 1 : texts[j] = <<>>
    BY <2>2
  <2>5. FirstOf(texts) = texts[m]
    BY <1>1, <1>2, <1>5, <2>3, <2>4
  <2> QED  BY <2>4, <2>5
<1> QED  BY <1>4, <1>5

\* A text, those of a list and one more text.
LEMMA Between ==
    ASSUME NEW S, NEW first \in S, NEW list \in Seq(S), NEW last \in S
    PROVE  LET all == <<first>> \o list \o <<last>>
           IN  /\ all \in Seq(S) /\ Len(all) = Len(list) + 2
               /\ all[1] = first /\ all[Len(list) + 2] = last
               /\ \A k \in 1 .. Len(list) : all[k + 1] = list[k]
<1> DEFINE front == <<first>> \o list
           all == front \o <<last>>
<1>1. /\ <<first>> \in Seq(S) /\ Len(<<first>>) = 1 /\ <<first>>[1] = first
      /\ <<last>> \in Seq(S) /\ Len(<<last>>) = 1 /\ <<last>>[1] = last
      /\ Len(list) \in Nat
  OBVIOUS
<1>2. /\ front \in Seq(S) /\ Len(front) = 1 + Len(list)
      /\ \A i \in 1 .. 1 + Len(list) :
             front[i] = IF i <= 1 THEN <<first>>[i] ELSE list[i - 1]
  BY <1>1, ConcatProperties
<1> HIDE DEF front
<1>3. /\ all \in Seq(S) /\ Len(all) = Len(front) + 1
      /\ \A i \in 1 .. Len(front) + 1 :
             all[i] = IF i <= Len(front) THEN front[i]
                      ELSE <<last>>[i - Len(front)]
  BY <1>1, <1>2, ConcatProperties
<1> HIDE DEF all
<1>4. 1 \in 1 .. Len(front) + 1 /\ 1 \in 1 .. 1 + Len(list) /\ 1 <= Len(front)
  BY <1>1, <1>2
<1>5. all[1] = first
  BY <1>1, <1>2, <1>3, <1>4
<1>6. all[Len(list) + 2] = last
  <2>1. /\ Len(list) + 2 \in 1 .. Len(front) + 1
        /\ ~ (Len(list) + 2 <= Len(front)) /\ Len(list) + 2 - Len(front) = 1
    BY <1>1, <1>2
  <2> QED  BY <1>1, <1>3, <2>1
<1>7. ASSUME NEW k \in 1 .. Len(list) PROVE all[k + 1] = list[k]
  <2>1. /\ k + 1 \in 1 .. Len(front) + 1 /\ k + 1 <= Len(front)
        /\ k + 1 \in 1 .. 1 + Len(list) /\ ~ (k + 1 <= 1) /\ k + 1 - 1 = k
    BY <1>1, <1>2
  <2>2. all[k + 1] = front[k + 1]
    BY <1>3, <2>1
  <2> QED  BY <1>2, <2>1, <2>2
<1>8. Len(all) = Len(list) + 2
  BY <1>1, <1>2, <1>3
<1> QED  BY <1>3, <1>5, <1>6, <1>7, <1>8 DEF all, front

\* A list holds what is in the variables, in their order, then the default; where
\* it has none there is none.
Agree(variables, default, list) ==
    /\ Len(variables) \in Nat /\ Len(list) \in Nat
    /\ DOMAIN list = 1 .. Len(list)
    /\ \A k \in 1 .. Len(variables) : list[k] = env[variables[k]]
    /\ \/ Len(list) = Len(variables) /\ default = <<>>
       \/ /\ Len(list) = Len(variables) + 1
          /\ list[Len(variables) + 1] = default

\* What the code looks at is what the usage names.
LEMMA SourcesAgree ==
    ASSUME NEW name \in TextOptions
    PROVE  Agree(EnvironmentOf(name), BuiltIn(name), Documented(name))
<1> DEFINE variables == EnvironmentOf(name)
           list == Documented(name)
           default == BuiltIn(name)
<1> SUFFICES Agree(variables, default, list)
  OBVIOUS
<1>1. CASE name = "--base_url"
  <2>1. /\ variables = <<"DEEPSEEK_BASE_URL">>
        /\ list = <<env["DEEPSEEK_BASE_URL"], default>>
    BY <1>1 DEF EnvironmentOf, Documented
  <2> HIDE DEF variables, list, default
  <2> QED  BY <2>1 DEF Agree
<1>2. CASE name = "--model"
  <2>1. /\ variables = <<"DEEPSEEK_MODEL">>
        /\ list = <<env["DEEPSEEK_MODEL"], default>>
    BY <1>2 DEF EnvironmentOf, Documented
  <2> HIDE DEF variables, list, default
  <2> QED  BY <2>1 DEF Agree
<1>3. CASE name = "--api_key"
  <2>1. /\ variables = <<"DEEPSEEK_API_KEY", "OAI_API_KEY">>
        /\ list = <<env["DEEPSEEK_API_KEY"], env["OAI_API_KEY"]>>
        /\ default = <<>>
    BY <1>3 DEF EnvironmentOf, Documented, BuiltIn
  <2> HIDE DEF variables, list, default
  <2> QED  BY <2>1 DEF Agree
<1>4. CASE name \in {"--proxy_host", "--proxy_port", "--proxy_auth"}
  <2>1. \E v \in Variables : variables = <<v>> /\ list = <<env[v]>>
    BY <1>4 DEF EnvironmentOf, Documented, Variables
  <2>2. default = <<>>
    BY <1>4 DEF BuiltIn
  <2> HIDE DEF variables, list, default
  <2> QED  BY <2>1, <2>2 DEF Agree
<1>5. CASE name = "--system"
  <2>1. variables = <<>> /\ list = <<default>>
    BY <1>5 DEF EnvironmentOf, Documented
  <2> HIDE DEF variables, list, default
  <2> QED  BY <2>1 DEF Agree
<1>6. CASE name \in {"--organization", "--project", "--user"}
  <2>1. variables = <<>> /\ list = <<>> /\ default = <<>>
    BY <1>6 DEF EnvironmentOf, Documented, BuiltIn
  <2> HIDE DEF variables, list, default
  <2> QED  BY <2>1 DEF Agree
<1> QED  BY <1>1, <1>2, <1>3, <1>4, <1>5, <1>6 DEF TextOptions

\* A text that was given stays; otherwise the first that is not empty of those
\* the usage names is taken.
LEMMA FillMeans ==
    ASSUME NEW name \in TextOptions
    PROVE  IF options[name] # <<>> THEN Fill(name) = options[name]
           ELSE ComesFirst(Fill(name), Documented(name))
<1> DEFINE variables == EnvironmentOf(name)
           texts == [k \in DOMAIN variables |-> env[variables[k]]]
           S == {options[name], BuiltIn(name)} \cup {env[v] : v \in Variables}
           all == <<options[name]>> \o texts \o <<BuiltIn(name)>>
<1>1. variables \in Seq(Variables)
  <2>1. \/ name = "--base_url" /\ variables = <<"DEEPSEEK_BASE_URL">>
        \/ name = "--model" /\ variables = <<"DEEPSEEK_MODEL">>
        \/ /\ name = "--api_key"
           /\ variables = <<"DEEPSEEK_API_KEY", "OAI_API_KEY">>
        \/ name = "--proxy_host" /\ variables = <<"BOAI_PROXY_HOST">>
        \/ name = "--proxy_port" /\ variables = <<"BOAI_PROXY_PORT">>
        \/ name = "--proxy_auth" /\ variables = <<"BOAI_PROXY_AUTH">>
        \/ variables = <<>>
    BY DEF EnvironmentOf
  <2> HIDE DEF variables
  <2>2. \A a, b \in Variables : <<a>> \in Seq(Variables)
                               /\ <<a, b>> \in Seq(Variables)
    OBVIOUS
  <2>3. <<>> \in Seq(Variables)
    OBVIOUS
  <2>4. {"DEEPSEEK_BASE_URL", "DEEPSEEK_MODEL", "DEEPSEEK_API_KEY",
         "OAI_API_KEY", "BOAI_PROXY_HOST", "BOAI_PROXY_PORT",
         "BOAI_PROXY_AUTH"} \subseteq Variables
    BY DEF Variables
  <2> QED  BY <2>1, <2>2, <2>3, <2>4
<1>2. /\ DOMAIN variables = 1 .. Len(variables) /\ Len(variables) \in Nat
      /\ \A k \in 1 .. Len(variables) : variables[k] \in Variables
  BY <1>1
<1> HIDE DEF variables
<1>3. /\ texts \in Seq(S) /\ Len(texts) = Len(variables)
      /\ \A k \in 1 .. Len(variables) : texts[k] = env[variables[k]]
  <2>1. texts \in [1 .. Len(variables) -> S]
    BY <1>2
  <2> QED  BY <1>2, <2>1
<1>4. options[name] \in S /\ BuiltIn(name) \in S
  OBVIOUS
<1>5. Fill(name) = FirstOf(all)
  BY DEF Fill, variables
<1> HIDE DEF S, texts
<1>6. /\ all \in Seq(S) /\ Len(all) = Len(variables) + 2
      /\ all[1] = options[name] /\ all[Len(variables) + 2] = BuiltIn(name)
      /\ \A k \in 1 .. Len(variables) : all[k + 1] = env[variables[k]]
  BY <1>3, <1>4, Between
<1> HIDE DEF all
<1>7. \/ /\ FirstOf(all) = <<>>
         /\ \A k \in 1 .. Len(all) : all[k] = <<>>
      \/ \E k \in 1 .. Len(all) :
            /\ all[k] # <<>> /\ FirstOf(all) = all[k]
            /\ \A j \in 1 .. k - 1 : all[j] = <<>>
  BY <1>6, FirstOfMeans
<1>8. 1 \in 1 .. Len(all) /\ Len(variables) + 2 \in 1 .. Len(all)
  BY <1>2, <1>6
<1> DEFINE list == Documented(name)
<1>9. /\ DOMAIN list = 1 .. Len(list) /\ Len(list) \in Nat
      /\ \A k \in 1 .. Len(variables) : list[k] = env[variables[k]]
      /\ \/ Len(list) = Len(variables) /\ BuiltIn(name) = <<>>
         \/ /\ Len(list) = Len(variables) + 1
            /\ list[Len(variables) + 1] = BuiltIn(name)
  <2>1. Agree(variables, BuiltIn(name), list)
    BY SourcesAgree DEF variables
  <2> HIDE DEF list
  <2> QED  BY <2>1 DEF Agree
<1> HIDE DEF list
<1>10. ASSUME NEW k \in 1 .. Len(list)
       PROVE  k + 1 \in 1 .. Len(all) /\ all[k + 1] = list[k]
  <2>1. CASE k <= Len(variables)
    <3>1. k \in 1 .. Len(variables) /\ k + 1 \in 1 .. Len(variables) + 2
      BY <1>2, <2>1
    <3> QED  BY <1>6, <1>9, <3>1
  <2>2. CASE ~ (k <= Len(variables))
    <3>1. Len(list) = Len(variables) + 1
          /\ list[Len(variables) + 1] = BuiltIn(name)
      <4>1. Len(list) # Len(variables)
        BY <1>2, <2>2
      <4> QED  BY <1>9, <4>1
    <3>2. k \in 1 .. Len(variables) + 1
      BY <3>1
    <3>3. k = Len(variables) + 1 /\ k + 1 = Len(variables) + 2
      BY <1>2, <2>2, <3>2
    <3> QED  BY <1>6, <1>8, <3>1, <3>3
  <2> QED  BY <2>1, <2>2
<1>11. ASSUME NEW k \in 1 .. Len(all), k # 1, all[k] # <<>>
       PROVE  k - 1 \in 1 .. Len(list)
  <2>1. CASE k = Len(variables) + 2
    <3>1. Len(list) = Len(variables) + 1
      BY <1>6, <1>9, <1>11, <2>1
    <3> QED  BY <1>2, <2>1, <3>1
  <2>2. CASE k # Len(variables) + 2
    <3>1. k \in 1 .. Len(variables) + 2
      BY <1>6
    <3>2. k - 1 \in 1 .. Len(variables)
      BY <1>2, <1>11, <2>2, <3>1
    <3>3. Len(variables) <= Len(list)
      <4>1. Len(list) \in {Len(variables), Len(variables) + 1}
        BY <1>9
      <4> QED  BY <1>2, <4>1
    <3>4. Len(list) \in Nat
      BY <1>9
    <3> QED  BY <1>2, <3>2, <3>3, <3>4
  <2> QED  BY <2>1, <2>2
<1>12. CASE options[name] # <<>>
  <2>1. \E k \in 1 .. Len(all) : /\ FirstOf(all) = all[k]
                                 /\ \A j \in 1 .. k - 1 : all[j] = <<>>
    BY <1>6, <1>7, <1>8, <1>12
  <2>2. PICK k \in 1 .. Len(all) : /\ FirstOf(all) = all[k]
                                   /\ \A j \in 1 .. k - 1 : all[j] = <<>>
    BY <2>1
  <2>3. k = 1
    <3>1. k # 1 => 1 \in 1 .. k - 1
      BY <1>6
    <3> QED  BY <1>6, <1>12, <2>2, <3>1
  <2> QED  BY <1>5, <1>6, <1>12, <2>2, <2>3
<1>13. CASE options[name] = <<>>
  <2>1. CASE FirstOf(all) = <<>> /\ \A k \in 1 .. Len(all) : all[k] = <<>>
    <3>1. \A k \in DOMAIN list : list[k] = <<>>
      BY <1>9, <1>10, <2>1
    <3>2. ComesFirst(FirstOf(all), list)
      BY <2>1, <3>1 DEF ComesFirst
    <3> QED  BY <1>5, <1>13, <3>2 DEF list
  <2>2. CASE \E k \in 1 .. Len(all) :
                /\ all[k] # <<>> /\ FirstOf(all) = all[k]
                /\ \A j \in 1 .. k - 1 : all[j] = <<>>
    <3>1. PICK k \in 1 .. Len(all) :
              /\ all[k] # <<>> /\ FirstOf(all) = all[k]
              /\ \A j \in 1 .. k - 1 : all[j] = <<>>
      BY <2>2
    <3>2. k # 1
      BY <1>6, <1>13, <3>1
    <3>3. k - 1 \in 1 .. Len(list) /\ k - 1 + 1 = k
      BY <1>6, <1>11, <3>1, <3>2
    <3>4. FirstOf(all) = list[k - 1] /\ FirstOf(all) # <<>>
      BY <1>10, <3>1, <3>3
    <3>5. ASSUME NEW j \in 1 .. k - 1 - 1 PROVE list[j] = <<>>
      <4>1. Len(list) \in Nat
        BY <1>9
      <4>2. k - 1 \in 1 .. Len(list) /\ k \in Nat
        BY <1>6, <3>3
      <4>3. j \in 1 .. Len(list) /\ j + 1 \in 1 .. k - 1
        BY <4>1, <4>2
      <4> QED  BY <1>10, <3>1, <4>3
    <3>6. ComesFirst(FirstOf(all), list)
      BY <1>9, <3>3, <3>4, <3>5 DEF ComesFirst
    <3> QED  BY <1>5, <1>13, <3>6 DEF list
  <2> QED  BY <1>7, <2>1, <2>2
<1> QED  BY <1>12, <1>13

\* After the last argument, what an option holds is the last it was given.
LEMMA GivenIsLast ==
    ASSUME ScanIInv, at = Len(argv) + 1, NEW name, LastGiven(name)
    PROVE  options[name] = Given(name)
<1>1. \A k \in Positions : k \in Int /\ k < at
  BY PositionsSplit DEF ScanIInv
<1>2. CASE /\ options[name] = <<>>
           /\ \A k \in Positions : k < at => ~ Names(k, name)
  <2>1. Named(name) = {}
    BY <1>1, <1>2 DEF Named
  <2> QED  BY <1>2, <2>1 DEF Given
<1>3. CASE \E k \in Positions :
              /\ k < at /\ Names(k, name) /\ options[name] = ValueAt(k)
              /\ \A j \in Positions : j < at /\ Names(j, name) => j <= k
  <2>1. PICK k \in Positions :
            /\ Names(k, name) /\ options[name] = ValueAt(k)
            /\ \A j \in Positions : Names(j, name) => j <= k
    BY <1>1, <1>3
  <2>2. k \in Named(name) /\ \A j \in Named(name) : j \in Int /\ k >= j
    BY <1>1, <2>1 DEF Named
  <2>3. Max(Named(name)) = k
    <3>1. \A i \in Named(name) : (\A j \in Named(name) : i >= j) => i = k
      BY <2>2
    <3> QED  BY <2>2, <3>1 DEF Max
  <2>4. Named(name) # {}
    BY <2>2
  <2> QED  BY <2>1, <2>3, <2>4 DEF Given
<1> QED  BY <1>2, <1>3 DEF LastGiven

\* What is in force depends on the arguments and the environment alone.
LEMMA ForceStays ==
    ASSUME argv' = argv, env' = env
    PROVE  \A name : /\ Given(name)' = Given(name)
                     /\ Documented(name)' = Documented(name)
<1>1. /\ Positions' = Positions
      /\ \A k, name : Names(k, name)' <=> Names(k, name)
      /\ \A k : ValueAt(k)' = ValueAt(k)
  BY ArgumentsStay
<1>2. ASSUME NEW name PROVE Given(name)' = Given(name)
  <2>1. Named(name)' = Named(name)
    BY <1>1 DEF Named
  <2> QED  BY <1>1, <2>1 DEF Given
<1>3. \A name : Documented(name)' = Documented(name)
  BY DEF Documented
<1> QED  BY <1>2, <1>3

\* Filling what is missing.
LEMMA FillStep == ASSUME OptionsIInv, FillOptions PROVE OptionsIInv'
<1>1. /\ stage = "arguments" /\ ~ (at <= Len(argv))
      /\ UNCHANGED <<argv, env, at, rounds, session>>
      /\ options' = [name \in TextOptions |-> Fill(name)]
      /\ flags' = DefaultMode
  <2>1. Len(argv) \in Nat /\ at \in Int
    BY PositionsSplit DEF OptionsIInv, ScanIInv
  <2>2. at > Len(argv)
    BY DEF FillOptions
  <2>3. ~ (at <= Len(argv))
    BY <2>1, <2>2
  <2>4. UNCHANGED <<argv, env, at, rounds, session>>
    BY DEF FillOptions
  <2> QED  BY <2>3, <2>4 DEF FillOptions
<1>2. ScanIInv' /\ ScanIInv
  BY <1>1, ScanStays DEF OptionsIInv
<1>3. at = Len(argv) + 1 /\ Len(argv) \in Nat
  BY <1>1, PositionsSplit DEF OptionsIInv, ScanIInv
<1>4. /\ session = NoSession /\ error = "" /\ rounds \in Int
      /\ \A name \in TextOptions : LastGiven(name)
  BY <1>1 DEF OptionsIInv, ReadingIInv
<1>5. \/ /\ rounds < 1 /\ error' # "" /\ stage' = "usage"
      \/ /\ rounds >= 1 /\ error' = "" /\ stage' = "parsed"
  <2>1. CASE rounds < 1 /\ error' = "--max_round_trips must be >= 1"
    <3>1. error' # ""
      BY <2>1
    <3> QED  BY <2>1, <3>1 DEF FillOptions
  <2>2. CASE rounds >= 1 /\ error' = error
    BY <1>4, <2>2 DEF FillOptions
  <2> QED  BY <2>1, <2>2 DEF FillOptions
<1>6. ASSUME NEW name \in TextOptions PROVE IsInForce(name, options[name])'
  <2>1. options[name] = Given(name)
    BY <1>2, <1>3, <1>4, GivenIsLast
  <2>2. options'[name] = Fill(name)
    BY <1>1
  <2>3. /\ Given(name)' = Given(name)
        /\ Documented(name)' = Documented(name)
    BY <1>1, ForceStays
  <2> QED  BY <2>1, <2>2, <2>3, FillMeans DEF IsInForce
<1>7. ASSUME NEW name \in {"--base_url", "--model", "--system"}
      PROVE  options'[name] # <<>>
  <2>1. name \in TextOptions
    BY DEF TextOptions
  <2>2. BuiltIn(name) # <<>>
    BY DEF BuiltIn
  <2>3. \E k \in DOMAIN Documented(name) : Documented(name)[k] # <<>>
    <3> DEFINE variables == EnvironmentOf(name)
               list == Documented(name)
    <3>1. /\ Len(variables) \in Nat /\ DOMAIN list = 1 .. Len(list)
          /\ Len(list) = Len(variables) + 1
          /\ list[Len(variables) + 1] = BuiltIn(name)
      <4>1. Agree(variables, BuiltIn(name), list)
        BY <2>1, SourcesAgree
      <4> HIDE DEF variables, list
      <4> QED  BY <2>2, <4>1 DEF Agree
    <3> HIDE DEF variables, list
    <3>2. Len(variables) + 1 \in DOMAIN list
      BY <3>1
    <3>3. \E k \in DOMAIN list : list[k] # <<>>
      BY <2>2, <3>1, <3>2
    <3> QED  BY <3>3 DEF list
  <2>4. Fill(name) # <<>>
    <3>1. CASE options[name] # <<>>
      BY <2>1, <3>1, FillMeans
    <3>2. CASE options[name] = <<>>
      BY <2>1, <2>3, <3>2, FillMeans DEF ComesFirst
    <3> QED  BY <3>1, <3>2
  <2> QED  BY <1>1, <2>1, <2>4
<1>8. \/ options'["--user"] # <<>>
      \/ "--interactive" \in flags' \/ "--list_tools" \in flags'
  <2>1. "--user" \in TextOptions
    BY DEF TextOptions
  <2>2. CASE options["--user"] # <<>>
    <3>1. Fill("--user") = options["--user"]
      BY <2>1, <2>2, FillMeans
    <3> QED  BY <1>1, <2>1, <2>2, <3>1
  <2>3. CASE options["--user"] = <<>>
    BY <1>1, <2>3 DEF DefaultMode
  <2> QED  BY <2>2, <2>3
<1>9. ParsedIInv'
  <2>1. at' = Len(argv') + 1 /\ rounds' = rounds
    BY <1>1, <1>3
  <2> QED  BY <1>4, <1>5, <1>6, <1>7, <1>8, <2>1 DEF ParsedIInv
<1>10. UsageIInv'
  <2>1. at' = Len(argv') + 1 /\ ~ (at' <= Len(argv')) /\ session' = NoSession
    BY <1>1, <1>3, <1>4 DEF NoSession
  <2> QED  BY <1>5, <2>1 DEF UsageIInv, NoSession
<1>11. SessionIInv'
  BY <1>1, <1>4 DEF SessionIInv, Started, NoSession
<1> QED  BY <1>2, <1>5, <1>9, <1>10, <1>11 DEF OptionsIInv, ReadingIInv

\* What main does afterwards.
LEMMA ListStep == ASSUME OptionsIInv, ListTools PROVE OptionsIInv'
<1>1. /\ stage = "parsed" /\ stage' = "listed"
      /\ UNCHANGED <<argv, env, at, options, flags, rounds, error, session>>
  BY DEF ListTools
<1>2. ScanIInv'
  BY <1>1, ScanStays DEF OptionsIInv
<1>3. ParsedIInv'
  <2>1. \A name \in TextOptions : IsInForce(name, options[name])'
    BY <1>1, ForceStays DEF OptionsIInv, ParsedIInv, IsInForce
  <2> QED  BY <1>1, <2>1 DEF OptionsIInv, ParsedIInv
<1>4. ~ Started /\ ~ Started'
  BY <1>1 DEF OptionsIInv, SessionIInv, Started
<1>5. SessionIInv'
  BY <1>4 DEF SessionIInv
<1> QED  BY <1>1, <1>2, <1>3, <1>5 DEF OptionsIInv, ReadingIInv, UsageIInv

\* The session that is started.
LEMMA SessionStep == ASSUME OptionsIInv, StartSession PROVE OptionsIInv'
<1>1. /\ stage = "parsed" /\ stage' = "session" /\ "--list_tools" \notin flags
      /\ UNCHANGED <<argv, env, at, options, flags, rounds, error>>
  BY DEF StartSession
<1>2. ScanIInv'
  BY <1>1, ScanStays DEF OptionsIInv
<1>3. ParsedIInv'
  <2>1. \A name \in TextOptions : IsInForce(name, options[name])'
    BY <1>1, ForceStays DEF OptionsIInv, ParsedIInv, IsInForce
  <2> QED  BY <1>1, <2>1 DEF OptionsIInv, ParsedIInv
<1>4. /\ session'.texts = options /\ session'.rounds = rounds
      /\ session'.mode = IF "--interactive" \in flags THEN "interactive"
                         ELSE "one_shot"
  BY DEF StartSession
<1>5. SessionIInv'
  BY <1>1, <1>4 DEF SessionIInv
<1> QED  BY <1>1, <1>2, <1>3, <1>5 DEF OptionsIInv, ReadingIInv, UsageIInv

-----------------------------------------------------------------------------
(* The theorems *)

\* At every step of ParseArgs and main: every option before the argument looked
\* at was accepted, and the options hold the last values they were given.
THEOREM OptionsInvariantHolds == OptionsSpec => []OptionsIInv
<1>1. ASSUME OptionsIInv, [OptionsNext]_optionsVars PROVE OptionsIInv'
  <2>1. CASE ReadHelp
    BY <1>1, <2>1, HelpStep
  <2>2. CASE ReadFlag
    BY <1>1, <2>2, FlagStep
  <2>3. CASE ReadRounds
    BY <1>1, <2>3, RoundsStep
  <2>4. CASE ReadTemperature
    BY <1>1, <2>4, TemperatureStep
  <2>5. CASE RefuseArgument
    BY <1>1, <2>5, RefuseStep
  <2>6. ASSUME NEW name \in TextOptions, ReadText(name) PROVE OptionsIInv'
    BY <1>1, <2>6, TextStep
  <2>7. CASE FillOptions
    BY <1>1, <2>7, FillStep
  <2>8. CASE ListTools
    BY <1>1, <2>8, ListStep
  <2>9. CASE StartSession
    BY <1>1, <2>9, SessionStep
  <2>10. CASE UNCHANGED optionsVars
    <3>1. UNCHANGED <<argv, env, at, stage, options, flags, rounds, error,
                      session>>
      BY <2>10 DEF optionsVars
    <3>2. ScanIInv'
      BY <1>1, <3>1, ScanStays DEF OptionsIInv
    <3>3. \A name : /\ LastGiven(name)' <=> LastGiven(name)
                    /\ IsInForce(name, options[name])'
                           <=> IsInForce(name, options[name])
      <4>1. ASSUME NEW name
            PROVE  /\ LastGiven(name)' <=> LastGiven(name)
                   /\ IsInForce(name, options[name])'
                          <=> IsInForce(name, options[name])
        BY <3>1, ArgumentsStay, ForceStays DEF LastGiven, IsInForce
      <4> QED  BY <4>1
    <3>4. ReadingIInv'
      BY <1>1, <3>1, <3>3 DEF OptionsIInv, ReadingIInv
    <3>5. ParsedIInv'
      BY <1>1, <3>1, <3>3 DEF OptionsIInv, ParsedIInv
    <3>6. UsageIInv'
      BY <1>1, <3>1, ArgumentsStay DEF OptionsIInv, UsageIInv
    <3>7. SessionIInv'
      BY <1>1, <3>1 DEF OptionsIInv, SessionIInv, Started
    <3> QED  BY <1>1, <3>1, <3>2, <3>4, <3>5, <3>6, <3>7 DEF OptionsIInv
  <2> QED  BY <1>1, <2>1, <2>2, <2>3, <2>4, <2>5, <2>6, <2>7, <2>8, <2>9, <2>10
           DEF OptionsNext
<1> QED  BY <1>1, OptionsStart, PTL DEF OptionsSpec

\* A session always has what it needs, whatever the command line and the
\* environment are.
THEOREM SessionsAreUsable == OptionsSpec => []SessionIsUsable
<1>1. ASSUME OptionsIInv PROVE SessionIsUsable
  <2> SUFFICES ASSUME Started
               PROVE  /\ \A name \in {"--base_url", "--model", "--system"} :
                            session.texts[name] # <<>>
                      /\ session.rounds >= 1
                      /\ session.mode = "one_shot"
                            => session.texts["--user"] # <<>>
    BY DEF SessionIsUsable
  <2> QED  BY <1>1 DEF OptionsIInv, SessionIInv, ParsedIInv
<1> QED  BY <1>1, OptionsInvariantHolds, PTL

\* The command line goes before the environment, of two variables the one the
\* usage names first goes before the other, and all of them before the default.
THEOREM Precedence == OptionsSpec => []PrecedenceIsKept
<1>1. ASSUME OptionsIInv PROVE PrecedenceIsKept
  BY <1>1 DEF OptionsIInv, SessionIInv, ParsedIInv, PrecedenceIsKept, IsInForce
<1> QED  BY <1>1, OptionsInvariantHolds, PTL

\* The exit code tells a mistake from a question for help.
THEOREM ExitsTellMistakes == OptionsSpec => []ExitTellsMistakes
<1>1. ASSUME OptionsIInv PROVE ExitTellsMistakes
  <2> DEFINE asks == {k \in Positions : argv[k] \in Help}
             mistakes == {k \in Positions : Mistaken(k)}
             stops == asks \cup mistakes
             first == Min(stops)
  <2>1. SUFFICES ASSUME Done
                 PROVE  IF stops # {}
                        THEN /\ stage = "usage"
                             /\ ExitCode = IF first \in mistakes THEN 2 ELSE 0
                        ELSE stage = "usage" <=> ExitCode = 2
    BY DEF ExitTellsMistakes
  <2>2. /\ Positions \subseteq 1 .. Len(argv) /\ Len(argv) \in Nat
        /\ at \in 1 .. Len(argv) + 1
        /\ at <= Len(argv) => at \in Positions
    BY <1>1, PositionsSplit DEF OptionsIInv, ScanIInv
  <2>3. ASSUME NEW k \in stops
        PROVE  k \in 1 .. Len(argv) /\ at <= k
    <3>1. k \in Positions /\ (argv[k] \in Help \/ Mistaken(k))
      OBVIOUS
    <3>2. ~ (k < at)
      BY <1>1, <3>1 DEF OptionsIInv, ScanIInv
    <3> QED  BY <2>2, <3>1, <3>2
  <2>4. \A k : Mistaken(k) => argv[k] \notin Help
    BY DEF Mistaken
  <2>5. stage \in {"usage", "listed", "session"}
    BY <2>1 DEF Done
  <2>6. CASE stage # "usage"
    <3>1. at = Len(argv) + 1 /\ error = ""
      BY <1>1, <2>5, <2>6 DEF OptionsIInv, ParsedIInv
    <3>2. stops = {}
      <4> HIDE DEF asks, mistakes, stops
      <4>1. ASSUME NEW k \in stops PROVE FALSE
        <5>1. at <= k /\ k \in 1 .. Len(argv)
          BY <2>3
        <5>2. Len(argv) \in Nat
          BY <2>2
        <5>3. at = Len(argv) + 1
          BY <3>1
        <5> QED  BY <5>1, <5>2, <5>3
      <4> QED  BY <4>1
    <3>3. ExitCode # 2
      <4>1. ExitCode = 0
        BY <3>1, Zenon DEF ExitCode
      <4> QED  BY <4>1
    <3> HIDE DEF asks, mistakes, stops, first
    <3> QED  BY <2>6, <3>2, <3>3
  <2>7. CASE stage = "usage" /\ at = Len(argv) + 1
    <3>1. error # ""
      BY <1>1, <2>7 DEF OptionsIInv, UsageIInv
    <3>2. stops = {}
      <4> HIDE DEF asks, mistakes, stops
      <4>1. ASSUME NEW k \in stops PROVE FALSE
        BY <2>2, <2>3, <2>7
      <4> QED  BY <4>1
    <3>3. ExitCode = 2
      BY <3>1 DEF ExitCode
    <3> HIDE DEF asks, mistakes, stops, first
    <3> QED  BY <2>7, <3>2, <3>3
  <2>8. CASE stage = "usage" /\ at # Len(argv) + 1
    <3>1. at \in Positions /\ at <= Len(argv)
      BY <2>2, <2>8
    <3>2. IF error = "" THEN argv[at] \in Help ELSE Mistaken(at)
      BY <1>1, <2>8, <3>1 DEF OptionsIInv, UsageIInv
    <3>3. /\ at \in stops
          /\ at \in mistakes <=> error # ""
      BY <2>4, <3>1, <3>2
    <3>4. first = at
      <4> HIDE DEF asks, mistakes, stops
      <4>1. ASSUME NEW i \in stops,
                   \A j \in stops : i <= j
            PROVE  i = at
        <5>1. i <= at /\ at <= i /\ i \in Int /\ at \in Int
          <6>1. at <= i /\ i \in 1 .. Len(argv)
            BY <2>3
          <6>2. i <= at
            BY <3>3, <4>1
          <6> QED  BY <2>2, <6>1, <6>2
        <5> QED  BY <5>1
      <4>2. \A j \in stops : at <= j
        BY <2>3
      <4> QED  BY <3>3, <4>1, <4>2 DEF Min
    <3>5. ExitCode = IF error = "" THEN 0 ELSE 2
      BY DEF ExitCode
    <3> HIDE DEF asks, mistakes, stops, first
    <3> QED  BY <2>8, <3>3, <3>4, <3>5
  <2> QED  BY <2>6, <2>7, <2>8
<1> QED  BY <1>1, OptionsInvariantHolds, PTL
=============================================================================
