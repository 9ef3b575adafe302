----------------------------- MODULE DemoOptions -----------------------------
(***************************************************************************)
(* The command line of the demo: ParseArgs reads the arguments one after   *)
(* the other, then fills what is missing from the environment, and main    *)
(* exits or starts a session with what they ask for.                       *)
(*                                                                         *)
(* An argument is a sequence of atoms: <<"--user">>, <<"--user", "=",      *)
(* "hi">>, <<"hi">>, or <<>> for an empty one.                             *)
(***************************************************************************)
EXTENDS Integers, SequencesExt

CONSTANTS
    CommandLines,  \* the sequences of arguments the program may be given
    Environments,  \* functions from Variables to their values, <<>> if unset
    StoI,          \* std::stoi, as a function from the texts it accepts
    StoD           \* the texts std::stod accepts

TextOptions == {"--base_url", "--api_key", "--model", "--organization",
                "--project", "--proxy_host", "--proxy_port", "--proxy_auth",
                "--system", "--user"}
Flags == {"--stream", "--interactive", "--list_tools", "--print_reasoning"}
Help == {<<"-h">>, <<"--help">>}

Variables == {"DEEPSEEK_BASE_URL", "DEEPSEEK_MODEL", "DEEPSEEK_API_KEY",
              "OAI_API_KEY", "BOAI_PROXY_HOST", "BOAI_PROXY_PORT",
              "BOAI_PROXY_AUTH"}

\* Arguments are texts, of atoms.
ASSUME CommandLinesAssumption ==
    \A args \in CommandLines :
        /\ Len(args) \in Nat
        /\ \A k \in 1 .. Len(args) : Len(args[k]) \in Nat
ASSUME EnvironmentsAssumption ==
    \A env \in Environments : DOMAIN env = Variables
ASSUME StoIAssumption == \A text \in DOMAIN StoI : StoI[text] \in Int

VARIABLES
    argv,      \* the arguments but for the program's name
    env,       \* the environment
    at,        \* the argument that is looked at
    stage,     \* of ParseArgs and main
    options,   \* the texts of Options
    flags,     \* the booleans of Options that are true
    rounds,    \* max_round_trips
    temperature,  \* temperature, <<>> unless has_temperature
    error,     \* error_out
    session    \* what main calls RunInteractive or RunOneShot with

optionsVars == <<argv, env, at, stage, options, flags, rounds, temperature,
                 error, session>>

NoSession == [mode |-> "none"]

OptionsInit ==
    /\ argv \in CommandLines /\ env \in Environments
    /\ at = 1 /\ stage = "arguments"
    /\ options = [name \in TextOptions |-> <<>>]
    /\ flags = {} /\ rounds = 8 /\ temperature = <<>>
    /\ error = "" /\ session = NoSession

-----------------------------------------------------------------------------

\* What ReadValueArg finds at an argument: the value of the option `name', and
\* the argument it ends with.  There is no value in "--name=".
NotThis == [ok |-> FALSE, value |-> <<>>, last |-> 0]

ReadValueArg(name) ==
    LET arg == argv[at]
    IN  IF arg = <<name>> /\ at < Len(argv)
        THEN [ok |-> TRUE, value |-> argv[at + 1], last |-> at + 1]
        ELSE IF Len(arg) > 2 /\ SubSeq(arg, 1, 2) = <<name, "=">>
        THEN [ok |-> TRUE, value |-> SubSeq(arg, 3, Len(arg)), last |-> at]
        ELSE NotThis

\* A text that is no integer passed over.
MutantParseIntArg(name) ==
    LET read == ReadValueArg(name)
    IN  IF read.ok /\ read.value \notin DOMAIN StoI
        THEN [read EXCEPT !.value = rounds]
        ELSE IF read.ok THEN [read EXCEPT !.value = StoI[@]] ELSE NotThis

ParseIntArg(name) ==
    LET read == ReadValueArg(name)
    IN  IF read.ok /\ read.value \in DOMAIN StoI
        THEN [read EXCEPT !.value = StoI[@]] ELSE NotThis

ParseDoubleArg(name) ==
    LET read == ReadValueArg(name)
    IN  IF read.value \in StoD THEN read ELSE NotThis

IsFlag(arg) == \E flag \in Flags : arg = <<flag>>

Reading == stage = "arguments" /\ at <= Len(argv)

ReadHelp ==
    /\ Reading /\ argv[at] \in Help
    /\ stage' = "usage"
    /\ UNCHANGED <<argv, env, at, options, flags, rounds, temperature, error,
                   session>>

ReadFlag ==
    /\ Reading /\ IsFlag(argv[at])
    /\ flags' = flags \cup {argv[at][1]}
    /\ at' = at + 1
    /\ UNCHANGED <<argv, env, stage, options, rounds, temperature, error,
                   session>>

ReadText(name) ==
    /\ Reading /\ ReadValueArg(name).ok
    /\ options' = [options EXCEPT ![name] = ReadValueArg(name).value]
    /\ at' = ReadValueArg(name).last + 1
    /\ UNCHANGED <<argv, env, stage, flags, rounds, temperature, error,
                   session>>

ReadRounds ==
    /\ Reading /\ ParseIntArg("--max_round_trips").ok
    /\ rounds' = ParseIntArg("--max_round_trips").value
    /\ at' = ParseIntArg("--max_round_trips").last + 1
    /\ UNCHANGED <<argv, env, stage, options, flags, temperature, error,
                   session>>

ReadTemperature ==
    /\ Reading /\ ParseDoubleArg("--temperature").ok
    /\ temperature' = ParseDoubleArg("--temperature").value
    /\ at' = ParseDoubleArg("--temperature").last + 1
    /\ UNCHANGED <<argv, env, stage, options, flags, rounds, error, session>>

\* Whatever a reader that failed had written to error_out is overwritten.
RefuseArgument ==
    /\ Reading
    /\ argv[at] \notin Help /\ ~ IsFlag(argv[at])
    /\ \A name \in TextOptions : ~ ReadValueArg(name).ok
    /\ ~ ParseIntArg("--max_round_trips").ok
    /\ ~ ParseDoubleArg("--temperature").ok
    /\ error' = "unknown argument"
    /\ stage' = "usage"
    /\ UNCHANGED <<argv, env, at, options, flags, rounds, temperature, session>>

-----------------------------------------------------------------------------

EnvironmentOf(name) ==
    CASE name = "--base_url" -> <<"DEEPSEEK_BASE_URL">>
      [] name = "--model" -> <<"DEEPSEEK_MODEL">>
      [] name = "--api_key" -> <<"DEEPSEEK_API_KEY", "OAI_API_KEY">>
      [] name = "--proxy_host" -> <<"BOAI_PROXY_HOST">>
      [] name = "--proxy_port" -> <<"BOAI_PROXY_PORT">>
      [] name = "--proxy_auth" -> <<"BOAI_PROXY_AUTH">>
      [] OTHER -> <<>>

BuiltIn(name) ==
    CASE name = "--base_url" -> <<"https://api.deepseek.com">>
      [] name = "--model" -> <<"deepseek-chat">>
      [] name = "--system" -> <<"You are a DeepSeek tool-calling demo.">>
      [] OTHER -> <<>>

\* The first text of a list that is not empty, if there is one.
FirstOf(texts) ==
    LET k == SelectInSeq(texts, LAMBDA text : text # <<>>)
    IN  IF k = 0 THEN <<>> ELSE texts[k]

\* The defaults filled in before the environment is looked at.
MutantFill(name) ==
    LET variables == EnvironmentOf(name)
    IN  FirstOf(<<options[name], BuiltIn(name)>>
                    \o [k \in DOMAIN variables |-> env[variables[k]]])

Fill(name) ==
    LET variables == EnvironmentOf(name)
    IN  FirstOf(<<options[name]>>
                    \o [k \in DOMAIN variables |-> env[variables[k]]]
                    \o <<BuiltIn(name)>>)

\* The default mode forgotten.
MutantDefaultMode == flags

\* Neither a prompt nor a mode asks for the interactive one.
DefaultMode ==
    flags \cup (IF options["--user"] = <<>>
                   /\ flags \cap {"--interactive", "--list_tools"} = {}
                THEN {"--interactive"} ELSE {})

\* After the last argument.  The check of base_url and model that ends ParseArgs
\* never fails, since both have a default.
FillOptions ==
    /\ stage = "arguments" /\ at > Len(argv)
    /\ options' = [name \in TextOptions |-> Fill(name)]
    /\ flags' = DefaultMode
    /\ \/ rounds < 1 /\ error' = "--max_round_trips must be >= 1"
       \/ rounds >= 1 /\ UNCHANGED error
    /\ stage' = IF error' = "" THEN "parsed" ELSE "usage"
    /\ UNCHANGED <<argv, env, at, rounds, temperature, session>>

ListTools ==
    /\ stage = "parsed" /\ "--list_tools" \in flags
    /\ stage' = "listed"
    /\ UNCHANGED <<argv, env, at, options, flags, rounds, temperature, error,
                   session>>

\* The provider, the model and the mode of the session; without a proxy_host
\* there is no proxy.
StartSession ==
    /\ stage = "parsed" /\ "--list_tools" \notin flags
    /\ stage' = "session"
    /\ session' =
           [mode |-> IF "--interactive" \in flags THEN "interactive"
                     ELSE "one_shot",
            stream |-> "--stream" \in flags, rounds |-> rounds,
            texts |-> options,
            proxy |-> IF options["--proxy_host"] = <<>> THEN <<>>
                      ELSE <<options["--proxy_host"], options["--proxy_port"],
                             options["--proxy_auth"]>>,
            params |-> [tool_choice |-> <<"auto">>,
                        temperature |-> temperature]]
    /\ UNCHANGED <<argv, env, at, options, flags, rounds, temperature, error>>

\* What main returns, but for a session's own exit code.
ExitCode == IF error = "" THEN 0 ELSE 2

OptionsNext ==
    \/ ReadHelp \/ ReadFlag \/ ReadRounds \/ ReadTemperature \/ RefuseArgument
    \/ \E name \in TextOptions : ReadText(name)
    \/ FillOptions \/ ListTools \/ StartSession

OptionsSpec == OptionsInit /\ [][OptionsNext]_optionsVars

-----------------------------------------------------------------------------
(* Properties *)

ValueOptions == TextOptions \cup {"--max_round_trips", "--temperature"}

IsBare(arg) == \E name \in ValueOptions : arg = <<name>>

\* set has, of the first n arguments, the options, not the values of the one
\* before.
Splits(args, n, set) ==
    \A k \in 1 .. n :
        k \in set <=> k = 1 \/ k - 1 \notin set \/ ~ IsBare(args[k - 1])
OptionsAmong(args) ==
    CHOOSE set \in SUBSET (1 .. Len(args)) : Splits(args, Len(args), set)
Positions == OptionsAmong(argv)

\* The option an argument names, and its value, if the arguments give one.
Names(k, name) == \/ argv[k] = <<name>>
                  \/ Len(argv[k]) > 2 /\ SubSeq(argv[k], 1, 2) = <<name, "=">>
HasValue(k) == Len(argv[k]) > 1 \/ k < Len(argv)
ValueAt(k) == IF Len(argv[k]) > 1 THEN SubSeq(argv[k], 3, Len(argv[k]))
              ELSE argv[k + 1]

Mistaken(k) ==
    /\ argv[k] \notin Help /\ ~ IsFlag(argv[k])
    /\ \A name \in ValueOptions : Names(k, name) =>
          \/ ~ HasValue(k)
          \/ name = "--max_round_trips" /\ ValueAt(k) \notin DOMAIN StoI
          \/ name = "--temperature" /\ ValueAt(k) \notin StoD

Started == session # NoSession
Done == stage \in {"usage", "listed", "session"}

\* A session is never started on a command line with a mistake in it, nor on
\* one that asks for help, and the exit code tells the two apart: what comes
\* first, the mistake or the question, decides.
ExitTellsMistakes ==
    Done =>
        LET asks == {k \in Positions : argv[k] \in Help}
            mistakes == {k \in Positions : Mistaken(k)}
            first == Min(asks \cup mistakes)
        IN  IF asks \cup mistakes # {}
            THEN /\ stage = "usage"
                 /\ ExitCode = IF first \in mistakes THEN 2 ELSE 0
            ELSE stage = "usage" <=> ExitCode = 2

\* A session always has what the fetches of the library and its own loops need:
\* a base_url and a model (else every fetch would be rejected), at least one
\* round, a system prompt, and something to ask when it asks only once.
SessionIsUsable ==
    Started =>
        /\ \A name \in {"--base_url", "--model", "--system"} :
              session.texts[name] # <<>>
        /\ session.rounds >= 1
        /\ session.mode = "one_shot" => session.texts["--user"] # <<>>

Named(name) == {k \in Positions : Names(k, name)}
Given(name) == IF Named(name) = {} THEN <<>> ELSE ValueAt(Max(Named(name)))

\* What PrintUsage says an option is taken from when the command line does not
\* give it, in this order.
Documented(name) ==
    CASE name = "--base_url" -> <<env["DEEPSEEK_BASE_URL"], BuiltIn(name)>>
      [] name = "--model" -> <<env["DEEPSEEK_MODEL"], BuiltIn(name)>>
      [] name = "--api_key" -> <<env["DEEPSEEK_API_KEY"], env["OAI_API_KEY"]>>
      [] name = "--proxy_host" -> <<env["BOAI_PROXY_HOST"]>>
      [] name = "--proxy_port" -> <<env["BOAI_PROXY_PORT"]>>
      [] name = "--proxy_auth" -> <<env["BOAI_PROXY_AUTH"]>>
      [] name = "--system" -> <<BuiltIn(name)>>
      [] OTHER -> <<>>

\* The text is the one of these that comes before all others that are not empty.
ComesFirst(text, sources) ==
    \/ text = <<>> /\ \A k \in DOMAIN sources : sources[k] = <<>>
    \/ \E k \in DOMAIN sources :
          /\ text = sources[k] /\ text # <<>>
          /\ \A j \in 1 .. k - 1 : sources[j] = <<>>

\* The last value the command line gives an option is the one in force; if it is
\* empty or there is none, the option's environment variables are, in the order
\* the usage names them, and the default only if none of them is set (ParseArgs
\* against PrintUsage).
PrecedenceIsKept ==
    Started => \A name \in TextOptions :
        IF Given(name) # <<>> THEN session.texts[name] = Given(name)
        ELSE ComesFirst(session.texts[name], Documented(name))
=============================================================================
