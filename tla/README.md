# Formal models of boai

`boai` is a small C++ library over `bsrvcore`: an `OaiCompletionFactory`
appends messages to a conversation and asks an OpenAI-compatible provider to
continue it, by one response (`FetchCompletion`) or by a stream of events
(`FetchStreamCompletion`).  This directory holds TLA+ models of it, the TLC
configurations that check them, and proofs that TLAPS checks.  Paths below are
relative to the repository; `oai_completion*` files are in `src/completion/`.

    tlc -config stream_text.cfg MCStream      # check one run
    tlapm StreamCompletion_proofs.tla         # check the proofs of one module

## 1. The system

| Component | State | Operations | Its correctness |
|---|---|---|---|
| Conversation history (`oai_completion_state.cc`, `oai_completion_factory.cc`) | immutable nodes: message, request log, previous node | `AppendMessage`; the walk `CollectMessageChain` | a conversation that somebody holds never changes |
| Streaming completion (`oai_completion.cc:262-442`) | per request: the captured state, the callbacks, a `StreamAggregate` | Fetch, then callbacks of Acquire, Start and Next; `finish` | one answer per accepted request, silence after it, the answer continues what was sent |
| Stream event processing (`oai_completion_response.cc:208-414, 484-557`) | the aggregate: text, reasoning, tool calls by index, id, model, finish reason, count | one call per event | the answer is what the events spell, however they are cut into chunks |
| Plain completion (`oai_completion.cc:61-234`, `oai_completion_response.cc:64-206, 418-482`) | per request: the captured state | Fetch, then callbacks of Acquire and OnDone | one answer, nothing half-parsed in a failure |
| Request payload (`oai_completion_request.cc`) | none | the JSON of messages, tools and parameters | every message is sent once, in order, and can be read back |
| Request assembly (`oai_completion.cc:86-113`, `oai_completion_detail.cc`) | the provider's configuration, shared with the caller | URL, proxy, headers | the request goes where the configuration says, with its headers |
| Demo session (`examples/deepseek_demo/demo_session.cc`) | the current node, the round | turns: request, run the tool calls, append results, again | each call gets one result before the next request; a turn ends |
| Demo tools (`demo_tools.cc`) | a registry | run a tool for a call of the model | every call gets an honest answer; arithmetic at the limits |
| Demo command line (`demo_options.cc`, `deepseek_demo.cc`) | options | parse arguments, fill in the environment, start a session | a mistake never starts a session; precedence of sources |
| Transport (`bsrvcore`, external) | connections | Acquire, Start, Next, OnDone | environment |

How they interact.  Every asynchronous operation is a callback: Fetch returns
at once, and each later step runs on the executor when the transport delivers
something.  A request touches nothing but its own aggregate and the history, to
which it adds one node.  The history is shared, by `shared_ptr`, among the
caller and all requests, possibly on several threads; nodes are const, so that
allocating a node is the only operation that touches it.  User callbacks run
inside the request's steps and may append or fetch again.

What is hard here:

* the number of ways out of a chain of callbacks (a streaming request has a
  dozen), each of which must answer once and stop;
* events of one chunk that follow the one which ends the response;
* the cut of a stream into chunks, which must not matter;
* different accumulation rules for the fields of an event;
* requests that overlap with one another and with appends to the same node;
* configuration objects that are shared, mutable and read at different times;
* texts that are encoded and decoded again: arguments of tool calls, URLs;
* the tool loop of the demo, which must keep the provider's protocol, and the
  failure of a turn half-way through it;
* numbers at the limits of their type, in the tools.

`PROJECT.json` lists these as hazards at the lines where they bite, with the
properties that cover them.

## 2. The modules

| Module | Models |
|---|---|
| `CompletionState` | the heap of nodes, `AppendMessage`, `CollectMessageChain` |
| `ToolCalls` | operators: tool calls from stream fragments, and from a plain response |
| `CompletionDetail` | what both fetches share: log skeleton, status test, empty assistant message |
| `StreamCompletion` | `FetchStreamCompletion`, any number of requests at once |
| `StreamContract` | what `FetchStreamCompletion` promises, without transport or events |
| `PlainCompletion` | `FetchCompletion`, any number of requests at once |
| `OaiFactory` | both kinds of requests and the caller's appends over one history |
| `RequestPayload` | the JSON body of the requests of `OaiFactory` |
| `RequestAssembly` | where a request is sent, with which headers, from a configuration that changes |
| `DemoSession` | the demo's loops over `OaiFactory` |
| `Dialogue` | what the demo is to its user, without requests or rounds |
| `DemoTools` | `ToolRegistry::Execute` and its handlers |
| `DemoOptions` | `ParseArgs` and `main` |
| `MCStream`, `MCPlain`, `MCFactory`, `MCAssembly`, `MCSession`, `MCTools`, `MCOptions` | small instances for TLC |
| `CompletionDetail_proofs` | lemmas about lists, recursive functions and the chains of the heap |
| `StreamCompletion_proofs` | theorems about one streaming request: how often it answers, and what |
| `OaiFactory_proofs` | theorems about plain requests, and about both kinds together |
| `RequestPayload_proofs`, `DemoSession_proofs`, `DemoTools_proofs`, `DemoOptions_proofs`, `RequestAssembly_proofs` | theorems about these modules |

`CompletionState` is at the bottom; `StreamCompletion` and `PlainCompletion`
extend it, `OaiFactory` composes the two, and `RequestPayload` and `DemoSession`
each extend `OaiFactory`.  `RequestAssembly`, `DemoTools` and `DemoOptions`
stand alone: what they are about does not depend on the conversation.

**CompletionState.**  `nodes` is a sequence; a `shared_ptr` is a position in it
and `NullState` is 0.  A node is a record of its message, log and previous
node.  A text is the sequence of the pieces it was received in.  No node is
ever freed: a `shared_ptr` that is held keeps its ancestors alive, and nodes
nobody holds are not visible to anybody.  Timestamps are left out.

**StreamCompletion.**  One action per callback, and inside a chunk one per
event, because the user's callbacks run between the events and may append or
start other requests.

| Action | Code |
|---|---|
| `FetchStreamCompletion`, `RejectStreamCompletion` | `oai_completion.cc:262-339`: the precondition; the message chain is collected now |
| `OnAcquireFailed`, `OnAcquired` | `:340-350`, `:352-416` |
| `OnStart` | `:416-438`: cancelled, error, status, in this order |
| `OnNextFailed`, `OnNext` | `oai_completion_response.cc:516-533`: an error together with eof is no failure |
| `SkipEmptyEvent`, `ProcessDoneMarker`, `ProcessInvalidEvent`, `ProcessPayload` | `:366-414` and the loop `:534-546` |
| `EndOfChunk` | `:549-555`: eof is a success, otherwise the next chunk is pulled |
| `Finish` | `oai_completion.cc:380-414`, part of the action that calls it |

`stage` is the program counter: which callback of the request comes next.  The
aggregate is `agg` and `tool_calls`.  `fed`, `taken` and `eof` stand for the
parser's output and the loop over it.  `request_body`, `heard` and `answers`
record what left the library: the messages sent, the arguments of the delta
callbacks, the nodes passed to `on_done`.  The type invariants `StreamTypeOK` and
`PlainTypeOK` also say that only a caller's message continues nothing: the state
pointer moves from closure to closure, and a closure that used it after it was
moved would answer with a node that has lost its conversation.

The transport may return any result at each step: cancelled or not, failed or
not, any status, any list of events.  `SseEventParser` is external; it is the
sequence of events that `Feed` returns, so that a chunk may complete any number
of them and an event cut off at the end of the body never appears.  An event is
empty, `[DONE]`, not a JSON object, or a payload: a record of the fields the
code reads, each `Absent` when it is missing or has the wrong type.

**ToolCalls.**  An array element is a record of index, id, name and argument
text, or `NotAnObject`.  Argument texts are sequences of atoms, and `Parse` is
the JSON parser on the texts of an instance.

**PlainCompletion.**  The same for `FetchCompletion`: Fetch, Acquire, OnDone.
A body is a record, or one of the shapes that make each test of
`ParseCompletionResponseBody` fail; what was written to the log before the
failure stays in it, as in the code.

**OaiFactory** takes the steps of both over one `nodes`, so that each may be
asked of a node the other answered with.

**StreamContract** has four actions for a request: Accept, Reject, Speak,
Answer.  `StreamCompletion!Contract` maps the aggregate's texts to `spoken`,
`stage` to `phase`, `base` to `asked` and the nodes passed to `on_done` to
`answers`.

**RequestPayload** adds operators to `OaiFactory`: `BuildRequestPayload` and the
functions it calls (`oai_completion_request.cc:34-161, 186-216`).  A JSON object
is a function from its keys.  `Serialize` is the serialiser on the values that
`Parse` knows, and an assumption says that the two agree.  Its properties look at
every payload that was sent, for every list of tools in `ToolLists`, and read it
with the readers of responses.

**RequestAssembly.**  `info` is what `*info_` and `*model_info` hold, which
`Configure` changes at any time.

| Action | Code |
|---|---|
| `Fetch` | `oai_completion.cc:70-119`, `:272-331`: payload, URL, assembler and builder |
| `SendPlain` | `:134-162`: a new request, from the assembled host and target |
| `SendStream` | `:352-378`: the assembled request, with fields set over it |
| `Answer` | the log skeleton of the answer, on every way out |

A URL is a sequence of atoms, among them `:` and `/`; `ParseUrl` searches it as
the code does.  bsrvcore's two assemblers are external: `Assemble` gives an http
request for a proxy its absolute form and the proxy's credentials, and leaves
the credentials of a tunnel to the CONNECT of `ProxyStreamBuilder`.  Headers are
a function from the names in `Fields`, `None` where nothing is set.

**DemoSession.**  The demo runs on one thread, and `step` is where it is.

| Action | Code in `demo_session.cc` |
|---|---|
| `BuildInitialState`, `Say`, `Reset`, `Quit` | `:47-57`; the loop of `RunInteractive`, `:247-275`, and `RunOneShot`, `:293-298` |
| `Ask`, `Exceed` | the head of the loop over rounds, `:196-202`, `:231` |
| `RunRequest` | `ioc.run()`, `:82`, `:142`: a step of the request in flight |
| `Collect` | `future.get()` and the tests of the answer, `:83`, `:203-224` |
| `RunTool`, `NextRound` | `AppendToolResults`, one call at a time, `:156-186` |
| `Return` | `:276-284`, `:300-306` |

The n-th request of a session is named n, and the names (`RequestNames`) bound
their number: `Ask` waits for one that is free.

`Dialogue` is what the demo is to the person in front of it: somebody says
something, and the assistant replies or the demo gives up.  A reply is a run of
messages in which each call of a tool is followed by its result and only the
last message calls none.  `DemoSession!Talk` maps the chain of the state that is
kept to `conversation`, so that rounds and failed turns leave no trace in it.

**DemoTools.**  One state per call.  Integers have `Width` bits and doubles
`Precision` significant ones, so that the largest integer is not a double, as
2^63 - 1 is not.  An undefined operation gives a set of outcomes: any integer
for a cast out of range, the end of the program or the result for the smallest
integer modulo -1.  The arguments of a call are JSON values: null, an integer of
either signedness, a double, a string of `Bytes`, or an object.

**DemoOptions.**  One action per form of an argument.  `ReadValueArg` and the
two parsers are operators that say what they find at `at`, and `FillOptions` is
the rest of `ParseArgs`.

Three pieces of dead code are left out.  Neither fetch can fail to build its
payload (`oai_completion.cc:70-84`, `:272-286`): the only failure is an empty
model name, which the precondition has excluded.  `finish` is never called for a
finished request, nor is Next's callback run for one; the models keep both tests
(`Finish`, the guards of `OnNext`), and the proofs use the first.
`CreateConnectionPipeline` is never called.  In the demo, the check of `base_url`
and `model` at the end of `ParseArgs` never fails, for both have a default, and a
fetch is never rejected.

## 3. The runs

| Run | Instance | Shows |
|---|---|---|
| `stream_text` | 1 request, 4 payloads with text and log fields, streams of up to 4 events, statuses 200 and 300 | `AnswerIsWhatWasStreamed`: the answer equals a definition over the whole list of events that knows no chunks and no accumulation; `DeltasSpellTheAnswer`; `StatusAgreesWithError`; `SilentAfterDone`; `KeepsTheContract` |
| `stream_tools` | 1 request, 5 payloads with fragments of tool calls, up to 4 events | `CallsAreWhatWasStreamed`, the same for calls: interleaved indices, no index, an emptied id, `null` and string arguments, dropped calls |
| `stream_pair` | 2 requests, 2 appended nodes, 1 event each, statuses 200 and 300, with fairness | `AnsweredExactlyOnce`, `AnswerContinuesTheRequest`, `KeepsTheContract`, `EventuallyAnswered` |
| `plain` | 2 requests, 2 appended nodes, 9 bodies, with fairness | `PlainAnsweredExactlyOnce`, `PlainAnswerContinuesTheRequest`, `PlainFailureIsEmpty`, `PlainEventuallyAnswered` |
| `factory` | 1 plain and 1 streaming request, 2 appended nodes; calls whose arguments are an object, `null`, missing, malformed or a string; parameters named `stream`, `tools` and `messages`; with and without tools | `ConversationsAreImmutable`, `AnswersKeepApart`, `HistoryReadsBack`, `RequestFieldsAreTheRequests` |
| `assembly` | 3 providers: direct, tunnelled, and by an http proxy; 2 plain and 1 streaming call | `BaseUrlIsJoined`, `UndisturbedIsOfOneProvider`, `ProxyIsAuthenticated` |
| `session` | plain sessions of 2 lines and 1 to 3 rounds, answers with no, one and two calls; streaming sessions of 1 line, 3 rounds and 2 events, which may end inside the arguments of a call; with fairness | `RequestsAreWellFormed`, `ResultsReachTheModel`, `ExitIsHonest`, `IsADialogue`, `TurnsEnd`, no deadlock |
| `tools` | 5-bit integers, doubles of 3 bits, texts of 4 bytes | `AnswersAreHonest`, `DeclaredCallsAreServed`, `ModIsTheRemainder`, `SmallIntervalsAreKept`, `TextIsCounted` |
| `options` | 15 arguments, up to 3 on a line, 4 environments | `ExitTellsMistakes`, `SessionIsUsable`, `PrecedenceIsKept` |

Three more runs check what a document or a comment of the repository says and the
code does not do.  TLC finds a counterexample in each; `PROJECT.json` quotes the
sentence under "findings".

| Run | Property | Counterexample |
|---|---|---|
| `assembly_url` | `BaseUrlIsJoined` | a `:` in the path of `base_url` ends the host (`oai_completion_detail.cc:47`) |
| `assembly_proxy` | `ProxyAuthenticationIsSent` | a plain request to an http provider reaches its proxy without credentials (`oai_completion.cc:145`) |
| `tools_mod` | `CalculateAnswers` | the smallest integer modulo -1 may end the program (`demo_tools.cc:259`) |

Four smaller ones were met while modelling and have no run of their own.  Arguments
of a call that are a JSON string whose text is JSON again are sent without their
quotes, and so read as another value (`oai_completion_request.cc:46`).  An end of
an interval beyond 64 bits is replaced by the default (`demo_tools.cc:289`).  A
text is counted up to its first NUL (`demo_tools.cc:29`).  An option whose value is
missing or wrong is reported as an unknown argument (`demo_options.cc:200`).  The
models do each of these as the code does.

Beside each divergence there is a passing property that holds of every case but
this one: `BaseUrlIsJoined` in `assembly`, whose paths have no `:`,
`ProxyIsAuthenticated`, `ModIsTheRemainder`, `HistoryReadsBack`,
`SmallIntervalsAreKept`, `TextIsCounted`; `ExitTellsMistakes` looks at the exit
code and not at the message.  `UndisturbedIsOfOneProvider` is such a property too:
nothing in the documents promises anything about a request in whose flight the
configuration changes, and the model shows that it may carry the key of one
provider to the host of another.

`session` checks for deadlock: a session can always go on, up to its exit.
The others set `CHECK_DEADLOCK FALSE`: when every request has finished and the
bound on nodes is reached, or the one call or command line has been dealt with,
the system has nothing left to do.

**Bounds.**  `MaxNodes` stops the caller's appends, never an answer: with two
nodes a request can be asked of the node the other is about, of the node appended
to it, or of the other's answer.  `MaxEvents` limits the events of one response:
four are enough for an id that is given twice and a field that is emptied, for two
halves of an argument text with another call's fragment in between, and for events
that follow `[DONE]`.  The events of one request reach another through the history
only, so one event each is enough for `stream_pair`.  Status 300 is the first code
after the successful ones.  Calls of a kind are alike in `assembly`, which uses
symmetry; the other runs of several requests check liveness, or have one request
of each kind, and do not.

In `factory`, two appended nodes and two requests let the answer of either
request, with its calls, be in the body of the other.  In `session`, `MaxNodes` is
large enough never to stop anything (six requests and their results), two lines
(`MaxLines`, by mode) give a turn after a turn and after a reset, and three rounds
give two rounds with calls before an answer.  In `assembly`, three calls are two
that share a configuration and one across a change.  In `tools` the width is the
least at which an integer is rounded both up and down to a double, and four bytes
give a character of two bytes next to a space on either side.  In `options`, three
arguments give an option, its value, and another option of the same name.

**Fairness.**  `FetchCompletion` and `FetchStreamCompletion` give every
operation a timeout (`oai_completion.cc:100-103`, `:302-305`) and an
`io_context` that runs calls every handler, hence weak fairness of each kind of
step of a request.  A body that ends is the provider's doing; `StreamFairness`
says so by a strong fairness of the last chunk or an error: without it a
provider could send chunks for ever, and the code would read them for ever.  That
the executor is run, and that user callbacks return, is assumed of the caller.
`SessionFairness` makes the demo that caller: it is one thread that runs, by weak
fairness of its own steps and of those of the request it waits for, with the same
strong fairness of a body's end.  Nobody is obliged to say anything.

Each property has a mutant of the code that breaks it (`Mutant...` definitions,
next to what they change): a missing return, a forgotten test, a field
overwritten where it should be kept, a node linked to the wrong one.

## 4. The proofs

All theorems are for any number of requests, any payloads, bodies, messages and
bounds.  The assumptions on the constants are named, stated where the constant is
declared, and evaluated by TLC in every run:

* data are of their types: the empty string is a string, texts and lists of tool
  calls are finite lists, `Absent` is no text and no string, the markers are no
  payloads;
* in a fragment of a tool call the index is a number of at least 0 or absent, as
  the code takes any other for absent, and the argument text is a list
  (`FragmentsAssumption`);
* payloads of requests: a JSON value is a string or is read again from its
  serialisation, which is what `SerializeAssumption` asks of the two external
  functions; the calls in the messages that the caller appends say something,
  since a call without id, name or arguments is dropped when it is read
  (`UserCallsAssumption`); argument texts consist of atoms, and lists of tools are
  lists;
* the model has a name, and statuses are numbers;
* the demo: limits on rounds are an `int` and at least 1, which `ParseArgs` sees to;
  the system prompt and the lines of the user are what the code makes of them; and
  the provider's messages have the role of an assistant or none
  (`ProviderAssumption`).  The code takes a role from a response as it is; a
  provider that says "tool" breaks the conversation it is sent next;
* the tools: a double is shorter than an integer; the default limit is an integer;
  the arguments of a call are JSON values of these widths, and `None` is neither a
  number nor a text;
* arguments of the command line are texts, and `stoi` returns integers;
* a provider's path is empty or begins with a slash, the slashes that end it being
  counted apart, its host and port are no separators, and plain and streaming calls
  have different names (`RequestAssembly`).

| Theorem | States |
|---|---|
| `TypeCorrect` | `StreamSpec => []StreamTypeOK` |
| `InvariantHolds` | `StreamSpec => []StreamIInv` |
| `ExactlyOnce` | `StreamSpec => []AnsweredExactlyOnce` |
| `DeltasSpell` | `StreamSpec => []DeltasSpellTheAnswer` |
| `Silent` | `StreamSpec => SilentAfterDone` |
| `Refinement` | `StreamSpec => KeepsTheContract` |
| `AnswersInvariantHolds` | `StreamSpec => []AnswersIInv` |
| `StatusAgrees` | `StreamSpec => []StatusAgreesWithError` |
| `AnswersContinue` | `StreamSpec => []AnswerContinuesTheRequest` |
| `StreamedInvariantHolds` | `StreamSpec => []StreamedIInv` |
| `AnswersAreStreamed` | `StreamSpec => []AnswerIsWhatWasStreamed` |
| `CallsAreStreamed` | `StreamSpec => []CallsAreWhatWasStreamed` |
| `PlainInvariantHolds` | `PlainSpec => []PlainIInv` |
| `PlainTypeCorrect` | `PlainSpec => []PlainTypeOK` |
| `PlainExactlyOnce` | `PlainSpec => []PlainAnsweredExactlyOnce` |
| `PlainFailureEmpty` | `PlainSpec => []PlainFailureIsEmpty` |
| `PlainAnswersContinue` | `PlainSpec => []PlainAnswerContinuesTheRequest` |
| `FactoryInvariantHolds` | `FactorySpec => []FactoryIInv` |
| `Immutable` | `FactorySpec => ConversationsAreImmutable` |
| `KeepApart` | `FactorySpec => []AnswersKeepApart` |
| `FieldsAreTheRequests` | `FactorySpec => []RequestFieldsAreTheRequests` |
| `PayloadInvariantHolds` | `FactorySpec => []PayloadIInv` |
| `HistoriesReadBack` | `FactorySpec => []HistoryReadsBack` |
| `SessionInvariantHolds` | `SessionSpec => []SessionIInv` |
| `RequestsWellFormed` | `SessionSpec => []RequestsAreWellFormed` |
| `ResultsReach` | `SessionSpec => []ResultsReachTheModel` |
| `HonestExit` | `SessionSpec => []ExitIsHonest` |
| `SessionIsADialogue` | `SessionSpec => IsADialogue` |
| `AssemblyInvariantHolds` | `AssemblySpec => []AssemblyIInv` |
| `UndisturbedHasOneProvider` | `AssemblySpec => []UndisturbedIsOfOneProvider` |
| `ProxiesAreAuthenticated` | `AssemblySpec => []ProxyIsAuthenticated` |
| `BaseUrlsAreJoined` | `AssemblySpec => []BaseUrlIsJoined`, if schemes are http and https and no path has a colon |
| `HonestAnswers` | `ToolsSpec => []AnswersAreHonest` |
| `RemaindersAreRight` | `ToolsSpec => []ModIsTheRemainder` |
| `DeclaredAreServed` | `ToolsSpec => []DeclaredCallsAreServed` |
| `IntervalsAreKept` | `ToolsSpec => []SmallIntervalsAreKept` |
| `TextsAreCounted` | `ToolsSpec => []TextIsCounted` |
| `OptionsInvariantHolds` | `OptionsSpec => []OptionsIInv` |
| `SessionsAreUsable` | `OptionsSpec => []SessionIsUsable` |
| `Precedence` | `OptionsSpec => []PrecedenceIsKept` |
| `ExitsTellMistakes` | `OptionsSpec => []ExitTellsMistakes` |

The argument.  `AnsweredExactlyOnce` is not inductive: it says nothing of
`agg[r].done`, and `Finish` answers only if that is false.
`DeltasSpellTheAnswer` speaks of answered requests only and says nothing of how
the two texts came to agree.  `StreamIInv` adds, for each request:

* `Control`: no aggregate is done before its request has finished, and nothing
  is accumulated before the response is open;
* `HeardIsSpoken`: at any time a callback has heard what has been accumulated;
* `AnswerIsSpoken`: the answer holds what was accumulated, after the base.

Lemma `StepKinds` sorts the steps of a request into three kinds: quiet ones, those
that speak (one payload is accumulated and passed on), and those that answer.
It rests on `Control`, which shows that `Finish` always finds the aggregate not
done.  Every later proof has one case per kind instead of one per action: the
invariant (`RequestStepIInv`), silence, and the refinement, where a quiet step
stutters, one that speaks is `Speak`, and one that answers is `Answer`.
`Untouched` handles the requests that a step is not about; it needs that the
heap only grows (`AppendNode`).

**Recursive functions.**  `CollectMessageChain` over the heap, `Without` and
`FlattenSeq` over lists, the accumulation of fragments and the loops of the tools are
recursive functions, so that nothing can be proved of them before they are known to
exist.  Lemma `Least` gets the least element of a set of numbers from the
library's fact that strict inclusion of finite sets is well-founded, which needs no
operator as parameter.  By it `ChainExists` extends a solution of the recursion node
by node (a node's previous node is older), `ChainRecurrence` says what the function
computes, and `ChainsAgree` that a heap that has grown gives the same chains; the
lemmas about lists go the same way, up to `WithoutAppend` and `FlattenAppend`.
What such a function keeps to its end is proved by the least argument at which it
does not.
`ConversationsStay` and `NodeContinues` are what the modules above use.

**Answers.**  `AnswersIInv` adds to `StreamIInv` that no error is noted before a
request finishes, that a response is read only after a success status, and that
the body sent is the chain of the base.  The first two make the answer's log
honest when `Finish` writes it, the third makes the answer continue the request,
because the base's chain stays what it is while the heap grows.

**Streams.**  `AnswerIsWhatWasStreamed` defines an answer from the whole list of
events, without chunks and without an accumulator; the code goes through it once.
`StreamedIInv` adds to `StreamIInv` what an aggregate is in between (`ReadsOn`):
it spells the payloads of the events that were looked at (`Spells`), none of these
ended the response, and between two chunks there are no others.  A payload more
spells one more in every column, each by its own rule (`SpellsOn`): texts grow,
the first id that is not empty stays, the last model and finish reason win.  At
an event that ends the response, or the end of the body, what was looked at is the
part of the list that the definition speaks of (`EventEnds`, `BodyEnds`).

**Streamed calls.**  `CallsAreWhatWasStreamed` defines the calls of an answer from
all elements of all arrays, index by index.  The aggregate keeps an accumulator for
each index, and what these are in between is `Accumulates`: their indices are those
of the elements so far, and each holds the last id, the last name and the argument
texts that its index was given.  One element more changes one index
(`ElementIsAccumulated`), an array is as many elements (`ArrayIsAccumulated`), and
an array more is its elements after the others (`ElementsAppend`).  An index that is
missing is the position in its own array, which is why positions are counted by
array.  At the end the code orders the indices and then drops the calls that say
nothing, while the definition orders those whose call says something:
`RemainsInOrder` shows that this is the same, by the ranks of the indices.

**Plain requests.**  `PlainIInv` says of each answer that its message and log go
together (`Answerable`), which the failures prove from an empty assistant message
and a log that is still unfinished, and the success from `IsHttpSuccessStatus`.

**Factory.**  A step of either kind of request leaves the other's variables alone
and grows the heap (`AllocationGrows`), which is all that the two invariants need
(`FactoryStepKeeps`).  The proofs of the parts are used unchanged.

**Payloads.**  `FieldsAreTheRequests` says that the fields the library sets are
set after the parameters, or the parameters of that name are left out, and that
the messages are those of the conversation the request continues.  The latter needs
`FactoryIInv`: the history a request carries is the one that its base still leads
to (`SentConversation`), and each message object of the array is made of the message
at its place (`MessageFields`, `ArrayIsOfMessages`).  `HistoryReadsBack` needs
more: a call that says nothing, or whose arguments cannot be read again, would not come back from the
payload.  `PayloadIInv` is `FactoryIInv` and two parts: every message of the history
is `Sendable`, and the accumulators of the streams are such that the calls made of
them will be.  A caller's message is sendable by assumption, an answer's because
both readers of tool calls drop what says nothing and give arguments that were
parsed or are a string (`StreamedIsSendable`, `PlainIsSendable`).

**The session.**  Its properties speak of requests that were sent; whether the next
one will be well formed depends on where the program is in a turn.  `SessionIInv`
is `FactoryIInv` and four parts: `SessionControl`, which requests are made and
answered; `Held`, that the states the program holds are conversations that begin as
they should; `Past`, that the properties hold of what was sent; and `Turn`.  That
last one says, step by step of a turn, what the conversation at hand still owes:
while `AppendToolResults` runs, all calls up to the one at hand have their result
and the rest have none (`Owing`), and what was said since the turn began is results
and assistants that call tools, no more of these than rounds (`UnderWay`).  `ReplyEnds` makes of this, at the turn's end, the reply of
`Dialogue`: hence the refinement, in which a failed turn and every round
stutter.  The library enters by `FactoryIInv` alone: an answer is there exactly once
and continues what was sent.

**Request assembly.**  `AssemblyIInv` says that a call keeps what was assembled for
the provider it was made under, that this one is still configured unless the call
was disturbed, and that what is sent differs from what was assembled by the fields
set over it.  About URLs: `UrlIsJoined`, that the slashes that end a base_url are
dropped, however many there are; `SchemeIsParsed`, which needs nothing of the path
and is all that the proxy's credentials depend on; and `UrlIsParsed`, that a URL is
taken apart where it was put together, which fails for a path with a colon
(`assembly_url`) and has that as its only condition besides the scheme.

**Tools.**  `HandlersAreHonest`: each branch of each handler either returns an
object or names an error, so that the convention between `Execute` and the
handlers holds for any width of integers and any arguments.  `IntegerFound` says
that an integer is read as what it is, also from a double, and `RemainderIsRight`
that the remainder which truncates has the sign of the dividend, which is
arithmetic with products and needs `MultiplesLeaveNothing`.  `IntervalsAreKept` and
`DeclaredAreServed` rest on what rounding to a double does at the limits: powers of
two are doubles, the smallest integer is one and the largest rounds up to the next,
so that a double which is an integer of the machine passes the range test of
`JsonIntField` and is read as what it is (`IntegersAreRead`).  `TextsAreCounted` shows that each of the handler's
loops counts the set of positions that the property speaks of.

**The command line.**  The properties speak of `Positions`, the arguments that are
options and not values of the one before, without going through them in order;
`ArgumentsSplit` shows that any command line divides in this way.  `OptionsIInv`
goes through them with `ParseArgs`: what is looked at is an option (`NextPosition`:
an option ends with its value, so that the next is one again), none before it stops
the program, and each text is the last one given (`LastGiven`).  After the last
argument this is the value in force (`GivenIsLast`), and `FillMeans` says what the
environment and the defaults add.  `PrecedenceIsKept` takes the sources of a value
from the usage text, in its order; `SourcesAgree` shows that `ParseArgs`, which asks
them one after the other, asks the same in the same order.  `RefusedIsMistaken` is the converse: what no
reader takes is a mistake.

Model-checked only is liveness (`EventuallyAnswered`, `PlainEventuallyAnswered`,
`TurnsEnd`), since its proofs need ENABLED and rules for fairness that the prover
does not have.  Every invariant, action property and refinement that a passing run
checks is a theorem, `BaseUrlIsJoined` under the condition named above, which is
that of the run.

## 5. Not modelled

* Wording of error messages, timestamps, and JSON text as characters.  One hazard
  stays without a property because of it: the library reads the strings of a
  response, as the demo reads those of a call, up to their first NUL.
* The transport, the SSE parser, the request assemblers, the JSON parser and
  serialiser are external; the models let them do anything the callers can tell
  apart.
* The Host field: the plain path sets it to the host connected to, the assembler of
  streaming requests is external.  A base_url without a scheme is in `ParseUrl`,
  but among no run's providers: nothing in the repository says what it should mean.
* Exceptions thrown by user callbacks, and allocation failures: the library
  catches neither, and what the program does next is its caller's.
* The lifetime of the factory, whose `this` the Acquire callback keeps, and its TLS
  context.  The documents do not say how long a factory must live; a model would
  restate the caller's obligation.
* In the demo: what is printed (and `:tools`, which only prints), the values of
  the operations on doubles, the formatting of the time, and doubles that differ
  from an integer by less than 1e-9.
* Build files and tests keep no state of the system.
