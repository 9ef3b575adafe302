----------------------------- MODULE DemoSession -----------------------------
(***************************************************************************)
(* The demo: RunOneShot and RunInteractive, the rounds of requests and     *)
(* tool executions of RunAssistantTurn, and the library they call, all on  *)
(* one thread.  `step' is where the program is:                            *)
(*                                                                         *)
(*   start -> prompt -> asking -> waiting -> tools -> asking -> ...        *)
(*               ^                   |                                     *)
(*               +---- returning <---+        and "exited" at the end      *)
(*                                                                         *)
(* Printing is left out, and with it the command :tools.                   *)
(***************************************************************************)
EXTENDS OaiFactory

CONSTANTS
    Options,      \* the options a session may have: [interactive, stream,
                  \* print_reasoning, max_round_trips]
    System,       \* the system message
    Lines,        \* the user messages
    ToolResults,  \* the serialised results of ToolRegistry::Execute
    MaxLines      \* bound: the lines of a session, by options.stream

IntMax == 2147483647

\* DemoOptions gives a session at least one round, and counts them in an int.
ASSUME OptionsAssumption ==
    \A o \in Options : /\ o.max_round_trips \in 1 .. IntMax
                       /\ o.interactive \in BOOLEAN /\ o.stream \in BOOLEAN
ASSUME ToolResultsAssumption == ToolResults \subseteq Text

\* What the demo itself puts in a conversation but for the results of tools.
ASSUME SystemAssumption ==
    System.role = "system" /\ System.tool_calls = <<>>
        /\ System.message \in Seq(Text)
ASSUME LinesAssumption ==
    \A line \in Lines : /\ line.role = "user" /\ line.tool_calls = <<>>
                        /\ line.message \in Seq(Text)

\* The provider speaks as an assistant.  The code takes its word for it.
ASSUME ProviderAssumption ==
    \A m \in ChoiceMessages : m.role \in {Absent, "assistant"}

VARIABLES
    options,
    step,
    initial_state,  \* the conversation a reset goes back to
    state,          \* RunInteractive's and RunOneShot's state
    turn,           \* RunAssistantTurn's round, state, done, and the tool call
                    \* AppendToolResults is at
    asked,          \* how many requests were made; the last one's name
    lines,          \* how many lines were read
    exit_code

demoVars == <<options, step, initial_state, state, turn, asked, lines,
              exit_code>>
sessionVars == <<factoryVars, demoVars>>

NoTurn == [round |-> 0, state |-> NullState, done |-> NullState, call |-> 0]

SessionInit ==
    /\ FactoryInit
    /\ options \in Options
    /\ step = "start" /\ exit_code = 0 /\ lines = 0 /\ asked = 0
    /\ initial_state = NullState /\ state = NullState /\ turn = NoTurn

\* The system prompt is never empty.
BuildInitialState ==
    /\ step = "start" /\ step' = "prompt"
    /\ AppendMessage(System, NullState)
    /\ initial_state' = NewState /\ state' = NewState
    /\ UNCHANGED <<plain, streamOnly, options, turn, asked, lines, exit_code>>

\* The line of a one-shot session is options.user.
Say(line) ==
    /\ step = "prompt" /\ step' = "asking"
    /\ lines < (IF options.interactive THEN MaxLines[options.stream]
              ELSE 1)
    /\ lines' = lines + 1
    /\ AppendMessage(line, state)
    /\ state' = NewState
    /\ turn' = [NoTurn EXCEPT !.round = 1, !.state = NewState]
    /\ UNCHANGED <<plain, streamOnly, options, initial_state, asked, exit_code>>

\* A reset that forgets the system prompt.
MutantReset ==
    /\ step = "prompt" /\ options.interactive
    /\ state' = NullState
    /\ UNCHANGED <<factoryVars, options, step, initial_state, turn, asked,
                   lines, exit_code>>

Reset ==
    /\ step = "prompt" /\ options.interactive
    /\ state' = initial_state
    /\ UNCHANGED <<factoryVars, options, step, initial_state, turn, asked,
                   lines, exit_code>>

\* :quit, :exit, or the end of the input.
Quit ==
    /\ step = "prompt" /\ options.interactive
    /\ step' = "exited" /\ exit_code' = 0
    /\ UNCHANGED <<factoryVars, options, initial_state, state, turn, asked,
                   lines>>

-----------------------------------------------------------------------------

StreamCallbacks == {"on_done", "on_delta"}
    \cup (IF options.print_reasoning THEN {"on_reasoning_delta"} ELSE {})

\* The names requests may have: a bound, which no run reaches (TurnsEnd).
RequestNames == IF options.stream THEN Requests ELSE PlainRequests

\* A request with the turn's state.  It is always accepted: see Accepts and
\* PlainAccepts, and SessionIsUsable of DemoOptions.
Ask ==
    /\ step = "asking" /\ step' = "waiting"
    /\ turn.round <= options.max_round_trips
    /\ asked + 1 \in RequestNames /\ asked' = asked + 1
    /\ IF options.stream
       THEN /\ FetchStreamCompletion(asked', turn.state, StreamCallbacks, TRUE)
            /\ UNCHANGED plain
       ELSE /\ FetchCompletion(asked', turn.state, TRUE, TRUE)
            /\ UNCHANGED streamOnly
    /\ UNCHANGED <<options, initial_state, state, turn, lines, exit_code>>

\* One round too many.
Exceed ==
    /\ step = "asking" /\ step' = "returning"
    /\ turn.round > options.max_round_trips
    /\ turn' = [turn EXCEPT !.done = NullState]
    /\ UNCHANGED <<factoryVars, options, initial_state, state, asked, lines,
                   exit_code>>

\* ioc.run(): the request's own steps.
RunRequest ==
    /\ step = "waiting"
    /\ IF options.stream
       THEN RequestStep(asked) /\ UNCHANGED plain
       ELSE (PlainAcquire(asked) \/ PlainRespond(asked)) /\ UNCHANGED streamOnly
    /\ UNCHANGED demoVars

\* What on_done was called with, in ioc.run() that is over.
Fulfilled ==
    IF options.stream
    THEN IF stage[asked] = "finished" THEN answers[asked] ELSE <<>>
    ELSE IF plain[asked].stage = "finished" THEN plain[asked].answers ELSE <<>>

Succeeded(node) == node # NullState /\ nodes[node].log.status = "kSuccess"
CallsOf(node) == nodes[node].message.tool_calls

\* The results appended to the state before the answer.
MutantCollect ==
    /\ step = "waiting" /\ Fulfilled # <<>>
    /\ LET done == Fulfilled[1]
           calls == Succeeded(done) /\ CallsOf(done) # <<>>
       IN  /\ step' = IF calls THEN "tools" ELSE "returning"
           /\ turn' = [turn EXCEPT !.done = done, !.call = 1]
    /\ UNCHANGED <<factoryVars, options, initial_state, state, asked, lines,
                   exit_code>>

\* future.get() returns, as it does only after the callback has run, and the
\* answer decides how the turn goes on.
Collect ==
    /\ step = "waiting" /\ Fulfilled # <<>>
    /\ LET done == Fulfilled[1]
           calls == Succeeded(done) /\ CallsOf(done) # <<>>
       IN  /\ step' = IF calls THEN "tools" ELSE "returning"
           /\ turn' = [turn EXCEPT !.done = done, !.call = 1,
                                   !.state = IF calls THEN done ELSE @]
    /\ UNCHANGED <<factoryVars, options, initial_state, state, asked, lines,
                   exit_code>>

ToolMessage(call, result) ==
    [role |-> "tool", message |-> <<result>>, tool_calls |-> <<>>,
     reasoning |-> <<>>, tool_call_id |-> call.id]

\* The results of one answer side by side instead of in a row.
MutantRunTool(result) ==
    /\ step = "tools" /\ turn.call <= Len(CallsOf(turn.done))
    /\ AppendMessage(ToolMessage(CallsOf(turn.done)[turn.call], result),
                     turn.done)
    /\ turn' = [turn EXCEPT !.state = NewState, !.call = @ + 1]
    /\ UNCHANGED <<plain, streamOnly, options, step, initial_state, state,
                   asked, lines, exit_code>>

\* AppendToolResults, call by call; tool_calls stays that of the answer while
\* the state moves on.
RunTool(result) ==
    /\ step = "tools" /\ turn.call <= Len(CallsOf(turn.done))
    /\ AppendMessage(ToolMessage(CallsOf(turn.done)[turn.call], result),
                     turn.state)
    /\ turn' = [turn EXCEPT !.state = NewState, !.call = @ + 1]
    /\ UNCHANGED <<plain, streamOnly, options, step, initial_state, state,
                   asked, lines, exit_code>>

NextRound ==
    /\ step = "tools" /\ turn.call > Len(CallsOf(turn.done))
    /\ step' = "asking"
    /\ turn' = [turn EXCEPT !.round = @ + 1]
    /\ UNCHANGED <<factoryVars, options, initial_state, state, asked, lines,
                   exit_code>>

\* A failed answer taken for a reply.
MutantReturn ==
    /\ step = "returning"
    /\ IF options.interactive /\ turn.done # NullState
       THEN /\ step' = "prompt" /\ state' = turn.done
            /\ UNCHANGED exit_code
       ELSE /\ step' = "exited"
            /\ exit_code' = IF turn.done # NullState THEN 0 ELSE 1
            /\ UNCHANGED state
    /\ UNCHANGED <<factoryVars, options, initial_state, turn, asked, lines>>

\* RunAssistantTurn returns turn.done to RunInteractive or RunOneShot.
Return ==
    /\ step = "returning"
    /\ IF options.interactive /\ Succeeded(turn.done)
       THEN /\ step' = "prompt" /\ state' = turn.done
            /\ UNCHANGED exit_code
       ELSE /\ step' = "exited"
            /\ exit_code' = IF Succeeded(turn.done) THEN 0 ELSE 1
            /\ UNCHANGED state
    /\ UNCHANGED <<factoryVars, options, initial_state, turn, asked, lines>>

Exited == step = "exited" /\ UNCHANGED sessionVars

\* What the program does by itself.
Work == \/ BuildInitialState \/ Ask \/ Exceed \/ Collect \/ NextRound \/ Return
        \/ \E result \in ToolResults : RunTool(result)

SessionNext ==
    \/ \E line \in Lines : Say(line)
    \/ Reset \/ Quit \/ Work \/ RunRequest \/ Exited

SessionSpec == SessionInit /\ [][SessionNext]_sessionVars

\* The program runs, and the transport is as in StreamFairness and in
\* PlainFairness; nobody has to say anything.
LastRead == Read(asked, TRUE) \/ Fail(asked)
SessionFairness ==
    /\ WF_sessionVars(Work)
    /\ WF_sessionVars(RunRequest)
    /\ SF_sessionVars(RunRequest /\ asked > 0 /\ options.stream /\ LastRead)

FairSessionSpec == SessionSpec /\ SessionFairness

-----------------------------------------------------------------------------
(* Properties *)

\* The body of the n-th request.
Body(n) == IF options.stream THEN request_body[n] ELSE plain[n].request_body
AnswerTo(n) == nodes[IF options.stream THEN answers[n][1]
                     ELSE plain[n].answers[1]]

Thinking == step \in {"asking", "waiting", "tools", "returning"}
Kept == IF step = "exited" /\ exit_code = 0 /\ ~ options.interactive
        THEN turn.done ELSE state
DialoguePhase == CASE step = "start" -> "opening"
                   [] step = "prompt" -> "listening"
                   [] Thinking -> "thinking"
                   [] step = "exited" -> IF exit_code = 0 THEN "over"
                                         ELSE "failed"

Talk == INSTANCE Dialogue WITH
    MaxRoundTrips <- Max({o.max_round_trips : o \in Options}),
    conversation <- CollectMessageChain(nodes, Kept),
    phase <- DialoguePhase

\* The session is a Dialogue, in which rounds, failures and resets leave no
\* trace but the messages that belong to the conversation.
IsADialogue == Talk!DialogueSpec

\* The provider gets no request it would refuse: the body begins with the system
\* prompt, each of its tool calls has its results next to it, and what it ends
\* with is the user's line or a tool's result.
RequestsAreWellFormed ==
    \A n \in 1 .. asked :
        /\ Head(Body(n)) = System
        /\ Talk!CallsAreAnswered(Body(n))
        /\ Last(Body(n)).role \in {"user", "tool"}

\* A request after an answer that calls tools is the one that brings it the
\* results: the earlier body, that answer, the results and nothing else.
ResultsReachTheModel ==
    \A n \in 1 .. asked - 1 :
        LET answer == AnswerTo(n)
            calls == answer.message.tool_calls
        IN  Succeeded(IF options.stream THEN answers[n][1]
                      ELSE plain[n].answers[1]) /\ calls # <<>> =>
                /\ IsPrefix(Append(Body(n), answer.message), Body(n + 1))
                /\ Len(Body(n + 1)) = Len(Body(n)) + 1 + Len(calls)

\* A session that was not ended by the user exits with 0 if and only if its last
\* answer is a success that calls no tools: neither an answer nobody has got
\* the results of, nor a failure that came with half a text, passes for one.
ExitIsHonest ==
    step = "exited" /\ (exit_code = 1 \/ ~ options.interactive) =>
        /\ asked > 0
        /\ exit_code = 0 <=> /\ AnswerTo(asked).log.status = "kSuccess"
                             /\ AnswerTo(asked).message.tool_calls = <<>>

\* Whatever is said, the demo comes back to its prompt or exits: ioc.run()
\* returns, with the promise fulfilled, and the rounds of a turn end.
TurnsEnd == step = "asking" ~> step \in {"prompt", "exited"}
=============================================================================
