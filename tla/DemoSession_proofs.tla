-------------------------- MODULE DemoSession_proofs --------------------------
(***************************************************************************)
(* The demo over the library: every request it makes is well formed, the   *)
(* results of its tools reach the model that asked for them, its exit code *)
(* is honest, and the session is a Dialogue.  The library's part is taken  *)
(* from the proofs about the factory; the rest is an invariant of where    *)
(* the program is.                                                         *)
(***************************************************************************)
EXTENDS DemoSession, OaiFactory_proofs

Chain(s) == CollectMessageChain(nodes, s)

\* The answers of the n-th request, whichever way it was made.
AnswersTo(n) == IF options.stream THEN answers[n] ELSE plain[n].answers
AnswerState(n) == AnswersTo(n)[1]
MessageOf(n) == nodes[AnswerState(n)].message

AsksForTools(n) ==
    Succeeded(AnswerState(n)) /\ CallsOf(AnswerState(n)) # <<>>

-----------------------------------------------------------------------------
(* Conversations with calls in them *)

\* Every call is answered but those of message `j' from the c-th on, and every
\* result answers a call.
Owing(messages, j, c) ==
    /\ \A k \in DOMAIN messages :
          \A n \in DOMAIN messages[k].tool_calls : k # j \/ n < c =>
             /\ k + n \in DOMAIN messages
             /\ messages[k + n].role = "tool"
             /\ messages[k + n].tool_call_id = messages[k].tool_calls[n].id
    /\ \A k \in DOMAIN messages : messages[k].role = "tool" =>
          \E i \in 1 .. k - 1 : k - i \in DOMAIN messages[i].tool_calls

Begun(messages) ==
    /\ IsList(messages) /\ Len(messages) > 0 /\ messages[1] = System
    /\ \A k \in DOMAIN messages : IsList(messages[k].tool_calls)

\* What a request's body must be.
Ready(messages) ==
    /\ Begun(messages) /\ Talk!CallsAreAnswered(messages)
    /\ messages[Len(messages)].role \in {"user", "tool"}

\* The n-th request and its answer, then `results' messages.
Brings(messages, n, results) ==
    /\ IsPrefix(Append(Body(n), MessageOf(n)), messages)
    /\ Len(messages) = Len(Body(n)) + 1 + results

Since(start, messages) == SubSeq(messages, Len(start) + 1, Len(messages))

Assistants(replies) == {k \in DOMAIN replies : replies[k].role = "assistant"}

\* A reply under way: it calls tools, and no more often than `rounds'.
UnderWay(start, messages, rounds) ==
    /\ IsPrefix(start, messages)
    /\ LET replies == Since(start, messages)
       IN  /\ \A k \in DOMAIN replies :
                 /\ replies[k].role \in {"assistant", "tool"}
                 /\ k \in Assistants(replies) => replies[k].tool_calls # <<>>
           /\ IsFiniteSet(Assistants(replies))
           /\ Cardinality(Assistants(replies)) <= rounds

-----------------------------------------------------------------------------
(* The inductive invariant *)

Steps == {"start", "prompt", "asking", "waiting", "tools", "returning", "exited"}

SessionControl ==
    /\ options \in Options /\ step \in Steps
    /\ asked \in Nat /\ 1 .. asked \subseteq RequestNames
    /\ DOMAIN turn = {"round", "state", "done", "call"}
    /\ turn.round \in Nat /\ turn.call \in Nat
    /\ step = "start" => asked = 0 /\ state = NullState
    /\ step \in {"waiting", "tools", "returning"} => asked > 0

\* The conversation in front of the user, and the one a reset goes back to.
Held ==
    step # "start" =>
        /\ initial_state \in States /\ Chain(initial_state) = <<System>>
        /\ state \in States
        /\ Begun(Chain(state)) /\ Talk!CallsAreAnswered(Chain(state))

\* The requests so far.
Past ==
    /\ \A n \in 1 .. asked :
          /\ Ready(Body(n))
          /\ n < asked \/ step # "waiting" => AnswersTo(n) # <<>>
    /\ \A n \in 1 .. asked - 1 :
          AsksForTools(n) => Brings(Body(n + 1), n, Len(CallsOf(AnswerState(n))))

\* No results are owed to the provider.
NothingOwed == asked > 0 => ~ AsksForTools(asked)

\* The turn's state, in the steps that go on from it.
TurnState ==
    /\ turn.state \in States
    /\ step = "asking" =>
          /\ Ready(Chain(turn.state)) /\ turn.round > 0
          /\ turn.round = 1 => NothingOwed
          /\ turn.round > 1 =>
                /\ asked > 0 /\ AsksForTools(asked)
                /\ Brings(Chain(turn.state), asked,
                          Len(CallsOf(AnswerState(asked))))
          /\ UnderWay(Chain(state), Chain(turn.state), turn.round - 1)
    /\ step = "waiting" => Body(asked) = Chain(turn.state)
    /\ step = "tools" =>
          /\ turn.done = AnswerState(asked) /\ AsksForTools(asked)
          /\ turn.call \in 1 .. Len(CallsOf(turn.done)) + 1
          /\ Begun(Chain(turn.state))
          /\ Owing(Chain(turn.state), Len(Body(asked)) + 1, turn.call)
          /\ Brings(Chain(turn.state), asked, turn.call - 1)
          /\ UnderWay(Chain(state), Chain(turn.state), turn.round)

InRounds == turn.round \in 1 .. options.max_round_trips

\* What a turn comes back with: nothing after too many rounds, or the answer.
Returned ==
    \/ turn.done = NullState /\ AsksForTools(asked)
    \/ /\ turn.done = AnswerState(asked) /\ ~ AsksForTools(asked)
       /\ InRounds
       /\ UnderWay(Chain(state), Body(asked), turn.round - 1)

Turn ==
    /\ step = "prompt" => NothingOwed
    /\ step \in {"asking", "waiting", "tools"} => TurnState
    /\ step \in {"waiting", "tools"} => InRounds
    /\ step = "waiting" => UnderWay(Chain(state), Body(asked), turn.round - 1)
    /\ step = "returning" => Returned
    /\ ExitIsHonest

SessionIInv == FactoryIInv /\ SessionControl /\ Held /\ Past /\ Turn

-----------------------------------------------------------------------------
(* Calls and their results *)

\* Once its last call has its result, a message owes nothing.
LEMMA OwingNothing ==
    ASSUME NEW messages, NEW j, NEW c,
           Owing(messages, j, c),
           \A n \in DOMAIN messages[j].tool_calls : n < c
    PROVE  Talk!CallsAreAnswered(messages)
BY DEF Owing, Talk!CallsAreAnswered

\* A message that neither calls tools nor is a result leaves all calls answered.
LEMMA SettledWith ==
    ASSUME NEW messages, IsList(messages), Talk!CallsAreAnswered(messages),
           NEW message, message.role # "tool", message.tool_calls = <<>>
    PROVE  Talk!CallsAreAnswered(Append(messages, message))
<1> DEFINE longer == Append(messages, message)
<1>1. /\ Len(messages) \in Nat /\ DOMAIN messages = 1 .. Len(messages)
      /\ DOMAIN longer = 1 .. Len(messages) + 1
      /\ \A k \in 1 .. Len(messages) : longer[k] = messages[k]
      /\ longer[Len(messages) + 1] = message
  BY ListAppend
<1> HIDE DEF longer
<1>2. ASSUME NEW k \in DOMAIN longer, NEW n \in DOMAIN longer[k].tool_calls
      PROVE  /\ k + n \in DOMAIN longer
             /\ longer[k + n].role = "tool"
             /\ longer[k + n].tool_call_id = longer[k].tool_calls[n].id
  <2>1. k \in DOMAIN messages
    BY <1>1, <1>2
  <2> QED  BY <1>1, <1>2, <2>1 DEF Talk!CallsAreAnswered
<1>3. ASSUME NEW k \in DOMAIN longer, longer[k].role = "tool"
      PROVE  \E i \in 1 .. k - 1 : k - i \in DOMAIN longer[i].tool_calls
  <2>1. k \in DOMAIN messages /\ messages[k].role = "tool"
    BY <1>1, <1>3
  <2>2. PICK i \in 1 .. k - 1 : k - i \in DOMAIN messages[i].tool_calls
    BY <2>1 DEF Talk!CallsAreAnswered
  <2>3. longer[i] = messages[i]
    BY <1>1, <2>1
  <2> QED  BY <2>2, <2>3
<1>4. Talk!CallsAreAnswered(longer)
  BY <1>2, <1>3 DEF Talk!CallsAreAnswered
<1> QED  BY <1>4 DEF longer

\* An answer that calls tools leaves its own calls to be answered.
LEMMA OwingWith ==
    ASSUME NEW messages, IsList(messages), Talk!CallsAreAnswered(messages),
           NEW message, message.role # "tool", IsList(message.tool_calls)
    PROVE  Owing(Append(messages, message), Len(messages) + 1, 1)
<1> DEFINE longer == Append(messages, message)
           j == Len(messages) + 1
<1>1. /\ Len(messages) \in Nat /\ DOMAIN messages = 1 .. Len(messages)
      /\ DOMAIN longer = 1 .. j
      /\ \A k \in 1 .. Len(messages) : longer[k] = messages[k]
      /\ longer[j] = message
      /\ \A n \in DOMAIN message.tool_calls : n \in Nat /\ n >= 1
  BY ListAppend, ListFacts
<1> HIDE DEF longer
<1>2. ASSUME NEW k \in DOMAIN longer, NEW n \in DOMAIN longer[k].tool_calls,
             k # j \/ n < 1
      PROVE  /\ k + n \in DOMAIN longer
             /\ longer[k + n].role = "tool"
             /\ longer[k + n].tool_call_id = longer[k].tool_calls[n].id
  <2>1. k \in DOMAIN messages
    BY <1>1, <1>2
  <2> QED  BY <1>1, <1>2, <2>1 DEF Talk!CallsAreAnswered
<1>3. ASSUME NEW k \in DOMAIN longer, longer[k].role = "tool"
      PROVE  \E i \in 1 .. k - 1 : k - i \in DOMAIN longer[i].tool_calls
  <2>1. k \in DOMAIN messages /\ messages[k].role = "tool"
    BY <1>1, <1>3
  <2>2. PICK i \in 1 .. k - 1 : k - i \in DOMAIN messages[i].tool_calls
    BY <2>1 DEF Talk!CallsAreAnswered
  <2>3. longer[i] = messages[i]
    BY <1>1, <2>1
  <2> QED  BY <2>2, <2>3
<1>4. Owing(longer, j, 1)
  BY <1>2, <1>3 DEF Owing
<1> QED  BY <1>4 DEF longer

\* The next result, right behind those that are there.
LEMMA OwingLess ==
    ASSUME NEW messages, IsList(messages), NEW j \in 1 .. Len(messages),
           NEW c \in DOMAIN messages[j].tool_calls,
           IsList(messages[j].tool_calls),
           Owing(messages, j, c), Len(messages) + 1 = j + c,
           NEW message, message.role = "tool", message.tool_calls = <<>>,
           message.tool_call_id = messages[j].tool_calls[c].id
    PROVE  Owing(Append(messages, message), j, c + 1)
<1> DEFINE longer == Append(messages, message)
<1>1. /\ Len(messages) \in Nat /\ DOMAIN messages = 1 .. Len(messages)
      /\ DOMAIN longer = 1 .. Len(messages) + 1
      /\ \A k \in 1 .. Len(messages) : longer[k] = messages[k]
      /\ longer[Len(messages) + 1] = message
      /\ DOMAIN messages[j].tool_calls \subseteq Nat
  BY ListAppend, ListFacts
<1> HIDE DEF longer
<1>2. ASSUME NEW k \in DOMAIN longer, NEW n \in DOMAIN longer[k].tool_calls,
             k # j \/ n < c + 1
      PROVE  /\ k + n \in DOMAIN longer
             /\ longer[k + n].role = "tool"
             /\ longer[k + n].tool_call_id = longer[k].tool_calls[n].id
  <2>1. k \in DOMAIN messages
    BY <1>1, <1>2
  <2>2. CASE k # j \/ n < c
    BY <1>1, <1>2, <2>1, <2>2 DEF Owing
  <2>3. CASE k = j /\ ~ n < c
    <3>1. n = c
      BY <1>1, <1>2, <2>1, <2>3
    <3> QED  BY <1>1, <2>3, <3>1
  <2> QED  BY <2>2, <2>3
<1>3. ASSUME NEW k \in DOMAIN longer, longer[k].role = "tool"
      PROVE  \E i \in 1 .. k - 1 : k - i \in DOMAIN longer[i].tool_calls
  <2>1. CASE k \in DOMAIN messages
    <3>1. PICK i \in 1 .. k - 1 : k - i \in DOMAIN messages[i].tool_calls
      BY <1>1, <1>3, <2>1 DEF Owing
    <3>2. longer[i] = messages[i]
      BY <1>1, <2>1
    <3> QED  BY <3>1, <3>2
  <2>2. CASE k = Len(messages) + 1
    <3>1. j \in 1 .. k - 1 /\ k - j = c /\ longer[j] = messages[j]
      BY <1>1, <2>2
    <3> QED  BY <3>1
  <2> QED  BY <1>1, <2>1, <2>2
<1>4. Owing(longer, j, c + 1)
  BY <1>2, <1>3 DEF Owing
<1> QED  BY <1>4 DEF longer

\* A reply's messages are those behind the beginning.
LEMMA SinceMeans ==
    ASSUME NEW start, IsList(start), NEW messages, IsList(messages),
           IsPrefix(start, messages)
    PROVE  /\ Len(start) \in Nat /\ Len(messages) \in Nat
           /\ Len(start) <= Len(messages)
           /\ DOMAIN start = 1 .. Len(start)
           /\ DOMAIN messages = 1 .. Len(messages)
           /\ \A k \in 1 .. Len(start) : messages[k] = start[k]
           /\ IsList(Since(start, messages))
           /\ Len(Since(start, messages)) = Len(messages) - Len(start)
           /\ DOMAIN Since(start, messages) = 1 .. Len(messages) - Len(start)
           /\ \A k \in 1 .. Len(messages) - Len(start) :
                  Since(start, messages)[k] = messages[Len(start) + k]
<1>1. /\ Len(start) \in Nat /\ Len(messages) \in Nat
      /\ DOMAIN start = 1 .. Len(start) /\ DOMAIN messages = 1 .. Len(messages)
  BY ListFacts
<1>2. /\ Len(start) <= Len(messages)
      /\ \A k \in 1 .. Len(start) : messages[k] = start[k]
  BY PrefixMeans
<1>3. /\ Len(start) + 1 \in 1 .. Len(messages) + 1
      /\ Len(messages) \in 0 .. Len(messages)
      /\ Len(start) + 1 <= Len(messages) + 1
      /\ Len(messages) - (Len(start) + 1) + 1 = Len(messages) - Len(start)
      /\ \A k \in 1 .. Len(messages) - Len(start) :
             Len(start) + 1 + k - 1 = Len(start) + k
  BY <1>1, <1>2
<1>4. /\ IsList(Since(start, messages))
      /\ Len(Since(start, messages)) = Len(messages) - (Len(start) + 1) + 1
      /\ \A k \in 1 .. Len(messages) - (Len(start) + 1) + 1 :
             Since(start, messages)[k] = messages[Len(start) + 1 + k - 1]
  BY <1>3, PieceOf DEF Since
<1>5. DOMAIN Since(start, messages) = 1 .. Len(messages) - Len(start)
  BY <1>3, <1>4, ListFacts
<1> QED  BY <1>1, <1>2, <1>3, <1>4, <1>5

\* The calls before the reply are answered before it, so that the reply's
\* results answer calls of its own.
LEMMA SettledSince ==
    ASSUME NEW start, IsList(start), Talk!CallsAreAnswered(start),
           NEW messages, Begun(messages), Talk!CallsAreAnswered(messages),
           IsPrefix(start, messages)
    PROVE  Talk!CallsAreAnswered(Since(start, messages))
<1> DEFINE replies == Since(start, messages)
           a == Len(start)
           b == Len(messages)
<1>1. /\ a \in Nat /\ b \in Nat /\ a <= b
      /\ DOMAIN start = 1 .. a /\ DOMAIN messages = 1 .. b
      /\ \A k \in 1 .. a : messages[k] = start[k]
      /\ DOMAIN replies = 1 .. b - a
      /\ \A k \in 1 .. b - a : replies[k] = messages[a + k]
  BY SinceMeans DEF Begun
<1>2. \A k \in 1 .. b : DOMAIN messages[k].tool_calls \subseteq Nat
  BY <1>1, ListFacts DEF Begun
<1> HIDE DEF replies, a, b
<1>4. ASSUME NEW k \in DOMAIN replies, NEW n \in DOMAIN replies[k].tool_calls
      PROVE  /\ k + n \in DOMAIN replies
             /\ replies[k + n].role = "tool"
             /\ replies[k + n].tool_call_id = replies[k].tool_calls[n].id
  <2>1. k \in Nat /\ a + k \in 1 .. b /\ replies[k] = messages[a + k] /\ k >= 1
    BY <1>1
  <2>2. /\ (a + k) + n \in DOMAIN messages
        /\ messages[(a + k) + n].role = "tool"
        /\ messages[(a + k) + n].tool_call_id = messages[a + k].tool_calls[n].id
    BY <1>1, <1>4, <2>1 DEF Talk!CallsAreAnswered
  <2>3. n \in Nat
    BY <1>2, <1>4, <2>1
  <2>4. k + n \in 1 .. b - a /\ (a + k) + n = a + (k + n)
    BY <1>1, <2>1, <2>2, <2>3
  <2>5. replies[k + n] = messages[(a + k) + n]
    BY <1>1, <2>4
  <2> QED  BY <1>1, <2>1, <2>2, <2>4, <2>5
<1>5. ASSUME NEW k \in DOMAIN replies, replies[k].role = "tool"
      PROVE  \E i \in 1 .. k - 1 : k - i \in DOMAIN replies[i].tool_calls
  <2>1. k \in Nat /\ a + k \in DOMAIN messages /\ messages[a + k].role = "tool"
    BY <1>1, <1>5
  <2>2. PICK i \in 1 .. (a + k) - 1 :
            (a + k) - i \in DOMAIN messages[i].tool_calls
    BY <2>1 DEF Talk!CallsAreAnswered
  <2>3. ~ i <= a
    <3>1. SUFFICES ASSUME i <= a PROVE FALSE
      OBVIOUS
    <3>2. i \in DOMAIN start /\ start[i] = messages[i]
      BY <1>1, <2>1, <3>1
    <3>3. i + ((a + k) - i) \in DOMAIN start
      BY <2>2, <3>2 DEF Talk!CallsAreAnswered
    <3> QED  BY <1>1, <1>5, <2>1, <3>3
  <2>4. i - a \in 1 .. k - 1 /\ k - (i - a) = (a + k) - i
    BY <1>1, <1>5, <2>1, <2>3
  <2>5. replies[i - a] = messages[i]
    <3>1. i - a \in 1 .. b - a /\ a + (i - a) = i
      BY <1>1, <1>5, <2>1, <2>4
    <3> QED  BY <1>1, <3>1
  <2> QED  BY <2>2, <2>4, <2>5
<1>6. Talk!CallsAreAnswered(replies)
  BY <1>4, <1>5 DEF Talk!CallsAreAnswered
<1> QED  BY <1>6 DEF replies

-----------------------------------------------------------------------------
(* Replies under way *)

\* Prefixes of lists: an order ...
LEMMA PrefixIsTransitive ==
    ASSUME NEW p, IsList(p), NEW s, IsList(s), NEW t, IsList(t),
           IsPrefix(p, s), IsPrefix(s, t)
    PROVE  IsPrefix(p, t)
<1>1. Len(p) \in Nat /\ Len(s) \in Nat /\ Len(t) \in Nat
  BY ListFacts
<1>2. /\ Len(p) <= Len(s) /\ \A k \in 1 .. Len(p) : s[k] = p[k]
      /\ Len(s) <= Len(t) /\ \A k \in 1 .. Len(s) : t[k] = s[k]
  BY PrefixMeans
<1>3. Len(p) <= Len(t) /\ \A k \in 1 .. Len(p) : t[k] = p[k]
  BY <1>1, <1>2
<1> QED  BY <1>3, PrefixMeans

\* ... in which a list begins itself ...
LEMMA PrefixSelf == ASSUME NEW s, IsList(s) PROVE IsPrefix(s, s)
<1>1. Len(s) <= Len(s) /\ \A k \in 1 .. Len(s) : s[k] = s[k]
  BY ListFacts
<1> QED  BY <1>1, PrefixMeans

\* ... and whatever is appended to it.
LEMMA PrefixOfAppend ==
    ASSUME NEW s, IsList(s), NEW x
    PROVE  IsPrefix(s, Append(s, x))
<1>1. /\ IsList(Append(s, x)) /\ Len(s) <= Len(Append(s, x))
      /\ \A k \in 1 .. Len(s) : Append(s, x)[k] = s[k]
  BY ListAppend
<1> QED  BY <1>1, PrefixMeans

\* A conversation that has begun goes on.
LEMMA BegunWith ==
    ASSUME NEW messages, Begun(messages), NEW message,
           IsList(message.tool_calls)
    PROVE  Begun(Append(messages, message))
<1> DEFINE longer == Append(messages, message)
<1>1. /\ Len(messages) \in Nat /\ Len(messages) > 0
      /\ DOMAIN messages = 1 .. Len(messages)
      /\ IsList(longer) /\ Len(longer) = Len(messages) + 1
      /\ DOMAIN longer = 1 .. Len(messages) + 1
      /\ \A k \in 1 .. Len(messages) : longer[k] = messages[k]
      /\ longer[Len(messages) + 1] = message
  BY ListAppend DEF Begun
<1> HIDE DEF longer
<1>2. ASSUME NEW k \in DOMAIN longer PROVE IsList(longer[k].tool_calls)
  BY <1>1 DEF Begun
<1>3. Begun(longer)
  BY <1>1, <1>2 DEF Begun
<1> QED  BY <1>3 DEF longer

\* One more message of a reply.
LEMMA SinceAppend ==
    ASSUME NEW start, IsList(start), NEW messages, IsList(messages),
           IsPrefix(start, messages), NEW x
    PROVE  LET old == Since(start, messages)
               new == Since(start, Append(messages, x))
           IN  /\ IsPrefix(start, Append(messages, x))
               /\ Len(old) \in Nat /\ DOMAIN old = 1 .. Len(old)
               /\ Len(new) = Len(old) + 1 /\ DOMAIN new = 1 .. Len(old) + 1
               /\ \A k \in 1 .. Len(old) : new[k] = old[k]
               /\ new[Len(old) + 1] = x
<1> DEFINE longer == Append(messages, x)
           old == Since(start, messages)
           new == Since(start, longer)
           a == Len(start)
           b == Len(messages)
<1>1. /\ IsList(longer) /\ Len(longer) = b + 1
      /\ \A k \in 1 .. b : longer[k] = messages[k]
      /\ longer[b + 1] = x
  BY ListAppend
<1>2. IsPrefix(start, longer)
  BY <1>1, PrefixOfAppend, PrefixIsTransitive
<1>3. /\ a \in Nat /\ b \in Nat /\ a <= b
      /\ Len(old) = b - a /\ DOMAIN old = 1 .. b - a
      /\ \A k \in 1 .. b - a : old[k] = messages[a + k]
  BY SinceMeans
<1> HIDE DEF longer
<1>4. /\ Len(new) = Len(longer) - a /\ DOMAIN new = 1 .. Len(longer) - a
      /\ \A k \in 1 .. Len(longer) - a : new[k] = longer[a + k]
  <2>1. ASSUME NEW t, IsList(t), IsPrefix(start, t)
        PROVE  /\ Len(Since(start, t)) = Len(t) - Len(start)
               /\ DOMAIN Since(start, t) = 1 .. Len(t) - Len(start)
               /\ \A k \in 1 .. Len(t) - Len(start) :
                      Since(start, t)[k] = t[Len(start) + k]
    BY <2>1, SinceMeans
  <2> QED  BY <1>1, <1>2, <2>1
<1> HIDE DEF old, new, a, b
<1>5. /\ Len(old) \in Nat /\ DOMAIN old = 1 .. Len(old)
      /\ Len(new) = Len(old) + 1 /\ DOMAIN new = 1 .. Len(old) + 1
  BY <1>1, <1>3, <1>4
<1>6. ASSUME NEW k \in 1 .. Len(old) PROVE new[k] = old[k]
  <2>1. /\ k \in 1 .. b - a /\ k \in 1 .. Len(longer) - a
        /\ a + k \in 1 .. b
    BY <1>1, <1>3, <1>6
  <2>2. old[k] = messages[a + k]
    BY <1>3, <2>1
  <2>3. new[k] = longer[a + k]
    BY <1>4, <2>1
  <2>4. longer[a + k] = messages[a + k]
    BY <1>1, <2>1
  <2> QED  BY <2>2, <2>3, <2>4
<1>7. new[Len(old) + 1] = x
  <2>1. Len(old) + 1 \in 1 .. Len(longer) - a /\ a + (Len(old) + 1) = b + 1
    BY <1>1, <1>3
  <2>2. new[Len(old) + 1] = longer[a + (Len(old) + 1)]
    BY <1>4, <2>1
  <2> QED  BY <1>1, <2>1, <2>2
<1> QED  BY <1>2, <1>5, <1>6, <1>7 DEF old, new, longer

\* A turn begins with no reply.
LEMMA UnderWayStart ==
    ASSUME NEW start, IsList(start) PROVE UnderWay(start, start, 0)
<1>1. IsPrefix(start, start)
  BY PrefixSelf
<1>2. DOMAIN Since(start, start) = {}
  BY <1>1, SinceMeans
<1>3. Assistants(Since(start, start)) = {}
  BY <1>2 DEF Assistants
<1>4. IsFiniteSet({}) /\ Cardinality({}) = 0
  BY FS_EmptySet
<1> QED  BY <1>1, <1>2, <1>3, <1>4 DEF UnderWay

\* An answer that calls tools takes one round more ...
LEMMA UnderWayAnswer ==
    ASSUME NEW start, IsList(start), NEW messages, IsList(messages),
           NEW rounds \in Int, UnderWay(start, messages, rounds),
           NEW x, x.role = "assistant", x.tool_calls # <<>>
    PROVE  UnderWay(start, Append(messages, x), rounds + 1)
<1> DEFINE old == Since(start, messages)
           new == Since(start, Append(messages, x))
<1>1. /\ IsPrefix(start, Append(messages, x))
      /\ Len(old) \in Nat /\ DOMAIN old = 1 .. Len(old)
      /\ DOMAIN new = 1 .. Len(old) + 1
      /\ \A k \in 1 .. Len(old) : new[k] = old[k]
      /\ new[Len(old) + 1] = x
  BY SinceAppend DEF UnderWay
<1>2. /\ \A k \in DOMAIN old :
             /\ old[k].role \in {"assistant", "tool"}
             /\ old[k].role = "assistant" => old[k].tool_calls # <<>>
      /\ IsFiniteSet(Assistants(old))
      /\ Cardinality(Assistants(old)) <= rounds
  BY DEF UnderWay, Assistants
<1> HIDE DEF old, new
<1>3. ASSUME NEW k \in DOMAIN new
      PROVE  /\ new[k].role \in {"assistant", "tool"}
             /\ new[k].role = "assistant" => new[k].tool_calls # <<>>
  BY <1>1, <1>2
<1>4. Assistants(new) = Assistants(old) \cup {Len(old) + 1}
  BY <1>1 DEF Assistants
<1>5. Len(old) + 1 \notin Assistants(old)
  BY <1>1 DEF Assistants
<1>6. /\ IsFiniteSet(Assistants(new))
      /\ Cardinality(Assistants(new)) = Cardinality(Assistants(old)) + 1
  BY <1>2, <1>4, <1>5, FS_AddElement
<1>7. Cardinality(Assistants(new)) <= rounds + 1
  BY <1>2, <1>6, FS_CardinalityType
<1> QED  BY <1>1, <1>3, <1>6, <1>7 DEF UnderWay, new, Assistants

\* ... and a result takes none.
LEMMA UnderWayResult ==
    ASSUME NEW start, IsList(start), NEW messages, IsList(messages),
           NEW rounds, UnderWay(start, messages, rounds),
           NEW x, x.role = "tool"
    PROVE  UnderWay(start, Append(messages, x), rounds)
<1> DEFINE old == Since(start, messages)
           new == Since(start, Append(messages, x))
<1>1. /\ IsPrefix(start, Append(messages, x))
      /\ Len(old) \in Nat /\ DOMAIN old = 1 .. Len(old)
      /\ DOMAIN new = 1 .. Len(old) + 1
      /\ \A k \in 1 .. Len(old) : new[k] = old[k]
      /\ new[Len(old) + 1] = x
  BY SinceAppend DEF UnderWay
<1>2. /\ \A k \in DOMAIN old :
             /\ old[k].role \in {"assistant", "tool"}
             /\ old[k].role = "assistant" => old[k].tool_calls # <<>>
      /\ IsFiniteSet(Assistants(old))
      /\ Cardinality(Assistants(old)) <= rounds
  BY DEF UnderWay, Assistants
<1> HIDE DEF old, new
<1>3. ASSUME NEW k \in DOMAIN new
      PROVE  /\ new[k].role \in {"assistant", "tool"}
             /\ new[k].role = "assistant" => new[k].tool_calls # <<>>
  BY <1>1, <1>2
<1>4. Assistants(new) = Assistants(old)
  BY <1>1 DEF Assistants
<1> QED  BY <1>1, <1>2, <1>3, <1>4 DEF UnderWay, new, Assistants

\* Round limits are positive and have a bound: they are ints.
LEMMA OptionsAreTyped ==
    /\ \A o \in Options : /\ o.max_round_trips \in Nat
                          /\ o.max_round_trips >= 1
                          /\ o.interactive \in BOOLEAN /\ o.stream \in BOOLEAN
    /\ \E u \in Nat : \A o \in Options : o.max_round_trips <= u
<1>1. IntMax \in Nat
  BY SMT DEF IntMax
<1>2. \A o \in Options : o.max_round_trips \in 1 .. IntMax
  BY OptionsAssumption
<1> QED  BY <1>1, <1>2, OptionsAssumption

\* The largest round limit is one: there are some, and ints have a largest.
LEMMA RoundLimit ==
    ASSUME NEW o \in Options
    PROVE  /\ o.max_round_trips <= Max({p.max_round_trips : p \in Options})
           /\ Max({p.max_round_trips : p \in Options}) \in Nat
<1> DEFINE S == {p.max_round_trips : p \in Options}
           T == {u \in Nat : \A y \in S : y <= u}
<1>1. /\ o.max_round_trips \in S
      /\ \A y \in S : y \in Nat /\ y >= 1
      /\ \E u \in Nat : \A y \in S : y <= u
  BY OptionsAreTyped
<1> HIDE DEF S
<1>2. T \in SUBSET Nat /\ T # {}
  BY <1>1
<1>3. PICK m \in T : \A u \in T : m <= u
  <2> HIDE DEF T
  <2> QED  BY <1>2, Least
<1>4. m \in Nat /\ m >= 1 /\ \A y \in S : y <= m
  BY <1>1, <1>3
<1>5. m \in S
  <2>1. SUFFICES ASSUME m \notin S PROVE FALSE
    OBVIOUS
  <2>2. m - 1 \in Nat /\ \A y \in S : y <= m - 1
    BY <1>1, <1>4, <2>1
  <2>3. m - 1 \in T
    BY <2>2
  <2> QED  BY <1>3, <1>4, <2>3
<1>6. \E x \in S : \A y \in S : x >= y
  BY <1>1, <1>4, <1>5
<1>7. \A y \in S : Max(S) >= y
  BY <1>6 DEF Max
<1>8. Max(S) \in S
  BY <1>6 DEF Max
<1> QED  BY <1>1, <1>7, <1>8 DEF S

\* A reply under way ends with an answer that calls no tools.
LEMMA ReplyEnds ==
    ASSUME NEW start, IsList(start), Talk!CallsAreAnswered(start),
           NEW messages, Begun(messages), Talk!CallsAreAnswered(messages),
           NEW o \in Options, NEW rounds \in 1 .. o.max_round_trips,
           UnderWay(start, messages, rounds - 1),
           NEW x, x.role = "assistant", x.tool_calls = <<>>
    PROVE  /\ IsPrefix(start, Append(messages, x))
           /\ Talk!IsReply(Since(start, Append(messages, x)))
<1> DEFINE old == Since(start, messages)
           new == Since(start, Append(messages, x))
           M == Max({p.max_round_trips : p \in Options})
<1>1. /\ IsPrefix(start, Append(messages, x))
      /\ Len(old) \in Nat /\ DOMAIN old = 1 .. Len(old)
      /\ Len(new) = Len(old) + 1 /\ DOMAIN new = 1 .. Len(old) + 1
      /\ \A k \in 1 .. Len(old) : new[k] = old[k]
      /\ new[Len(old) + 1] = x
  BY SinceAppend DEF UnderWay, Begun
<1>2. /\ \A k \in DOMAIN old :
             /\ old[k].role \in {"assistant", "tool"}
             /\ old[k].role = "assistant" => old[k].tool_calls # <<>>
      /\ IsFiniteSet(Assistants(old))
      /\ Cardinality(Assistants(old)) <= rounds - 1
  BY DEF UnderWay, Assistants
<1>3. Talk!CallsAreAnswered(new)
  <2>1. IsList(x.tool_calls)
    BY DEF IsList
  <2>2. Begun(Append(messages, x)) /\ Talk!CallsAreAnswered(Append(messages, x))
    BY <2>1, BegunWith, SettledWith DEF Begun
  <2> QED  BY <1>1, <2>2, SettledSince
<1>4. rounds \in Nat /\ rounds <= o.max_round_trips
  BY OptionsAreTyped
<1>5. o.max_round_trips \in Nat /\ o.max_round_trips <= M /\ M \in Nat
  BY RoundLimit, OptionsAreTyped
<1> HIDE DEF old, new, M
<1>6. Assistants(new) = Assistants(old) \cup {Len(old) + 1}
  BY <1>1 DEF Assistants
<1>7. Len(old) + 1 \notin Assistants(old)
  BY <1>1 DEF Assistants
<1>8. Cardinality(Assistants(new)) = Cardinality(Assistants(old)) + 1
  BY <1>2, <1>6, <1>7, FS_AddElement
<1>9. Cardinality(Assistants(new)) <= M
  BY <1>2, <1>4, <1>5, <1>8, FS_CardinalityType
<1>10. /\ new # <<>>
       /\ \A k \in DOMAIN new : new[k].role \in {"assistant", "tool"}
       /\ \A k \in DOMAIN new :
             new[k].role = "assistant" /\ new[k].tool_calls = <<>>
                 <=> k = Len(new)
  <2>1. new # <<>>
    BY <1>1
  <2>2. ASSUME NEW k \in DOMAIN new
        PROVE  /\ new[k].role \in {"assistant", "tool"}
               /\ new[k].role = "assistant" /\ new[k].tool_calls = <<>>
                      <=> k = Len(new)
    <3>1. CASE k \in DOMAIN old
      BY <1>1, <1>2, <3>1
    <3>2. CASE k = Len(old) + 1
      BY <1>1, <3>2
    <3> QED  BY <1>1, <3>1, <3>2
  <2> QED  BY <2>1, <2>2
<1>11. Talk!Cardinality(Assistants(new)) = Cardinality(Assistants(new))
  BY DEF Talk!Cardinality, Cardinality
<1>12. Talk!IsReply(new)
  BY <1>3, <1>9, <1>10, <1>11 DEF Talk!IsReply, Assistants, M
<1> QED  BY <1>1, <1>12 DEF new

-----------------------------------------------------------------------------
(* What the library does for the session *)

\* An answer: the assistant's, in a node that continues what was sent.
LEMMA AnswerFacts ==
    ASSUME FactoryIInv, NEW n \in RequestNames, AnswersTo(n) # <<>>
    PROVE  /\ AnswerState(n) \in States /\ AnswerState(n) # NullState
           /\ Chain(AnswerState(n)) = Append(Body(n), MessageOf(n))
           /\ MessageOf(n).role = "assistant" /\ IsList(MessageOf(n).tool_calls)
<1>1. StateTypeOK /\ AnswersIInv /\ PlainIInv
  BY DEF FactoryIInv, PlainIInv, PlainTypeOK
<1>2. \A k \in States : k # NullState
  BY <1>1 DEF StateTypeOK, States, NullState
<1>3. CASE options.stream
  <2>1. n \in Requests /\ Answered(n) /\ AnswerState(n) = answers[n][1]
    BY <1>3 DEF RequestNames, AnswersTo, AnswerState, Answered
  <2>2. /\ answers[n] \in Seq(Nat) /\ answers[n] # <<>>
        /\ \A k \in DOMAIN answers[n] : answers[n][k] \in States
        /\ AnswerIsSpoken(n) /\ AnswerIsHonest(n)
    BY <1>1, <2>1 DEF AnswersIInv, StreamIInv, StreamTypeOK, Answered
  <2>3. answers[n][1] \in States
    BY <2>2
  <2>4. Continues(answers[n][1], request_body[n])
    BY <1>1, <2>1, StreamContinues DEF AnswerContinuesTheRequest
  <2>5. /\ nodes[answers[n][1]].message.role = "assistant"
        /\ IsList(nodes[answers[n][1]].message.tool_calls)
    BY <2>1, <2>2 DEF AnswerIsSpoken, AnswerIsHonest, AnswerOf
  <2> QED  BY <1>2, <1>3, <2>1, <2>3, <2>4, <2>5
           DEF Chain, Body, MessageOf, Continues
<1>4. CASE ~ options.stream
  <2>1. n \in PlainRequests /\ PlainAnswered(n)
        /\ AnswerState(n) = plain[n].answers[1]
    BY <1>4 DEF RequestNames, AnswersTo, AnswerState, PlainAnswered
  <2>2. /\ plain[n].answers \in Seq(States) /\ plain[n].answers # <<>>
        /\ Answerable(PlainAnswerOf(n).message, PlainAnswerOf(n).log)
    BY <1>1, <2>1 DEF PlainIInv, PlainTypeOK, PlainAnswered, AnswerIsAnswerable
  <2>3. plain[n].answers[1] \in States
    BY <2>2
  <2>4. Continues(plain[n].answers[1], plain[n].request_body)
    BY <1>1, <2>1, PlainContinues DEF PlainAnswerContinuesTheRequest
  <2>5. ASSUME NEW message,
               \/ message = EmptyAssistant
               \/ \E m \in ChoiceMessages : message = AssistantMessage(m)
        PROVE  message.role = "assistant" /\ IsList(message.tool_calls)
    <3>1. CASE message = EmptyAssistant
      BY <3>1, NoCallsAreAList DEF EmptyAssistant
    <3>2. CASE \E m \in ChoiceMessages : message = AssistantMessage(m)
      <4>1. PICK m \in ChoiceMessages : message = AssistantMessage(m)
        BY <3>2
      <4>2. message.role = "assistant"
        BY <4>1, ProviderAssumption DEF AssistantMessage, Overwrite
      <4>3. IsList(m.tool_calls)
        BY BodiesAssumption DEF IsList
      <4>4. message.tool_calls = ParseToolCallsFromArray(m.tool_calls)
        BY <4>1 DEF AssistantMessage
      <4> QED  BY <4>2, <4>3, <4>4, ParsedCallsAreAList
    <3> QED  BY <2>5, <3>1, <3>2
  <2>6. \/ PlainAnswerOf(n).message = EmptyAssistant
        \/ \E m \in ChoiceMessages :
              PlainAnswerOf(n).message = AssistantMessage(m)
    BY <2>2 DEF Answerable, HonestLog
  <2> QED  BY <1>2, <1>4, <2>1, <2>3, <2>4, <2>5, <2>6
           DEF Chain, Body, MessageOf, Continues, PlainAnswerOf
<1> QED  BY <1>3, <1>4

\* Nothing that happens afterwards changes an answer.
LEMMA AnswerStays ==
    ASSUME FactoryIInv, Grows, NEW n \in RequestNames, AnswersTo(n) # <<>>,
           AnswersTo(n)' = AnswersTo(n)
    PROVE  /\ AnswerState(n)' = AnswerState(n)
           /\ MessageOf(n)' = MessageOf(n)
           /\ nodes'[AnswerState(n)] = nodes[AnswerState(n)]
           /\ AsksForTools(n)' <=> AsksForTools(n)
<1>1. AnswerState(n)' = AnswerState(n)
  BY DEF AnswerState
<1>2. AnswerState(n) \in States
  BY AnswerFacts
<1>3. nodes'[AnswerState(n)] = nodes[AnswerState(n)]
  BY <1>2 DEF Grows
<1> QED  BY <1>1, <1>3 DEF MessageOf, AsksForTools, Succeeded, CallsOf

\* A message the demo appends continues the conversation it is appended to.
LEMMA DemoAppends ==
    ASSUME FactoryIInv, NEW prev \in States \cup {NullState},
           NEW msg, msg.message \in Seq(Text),
           AppendMessage(msg, prev), UNCHANGED <<plain, streamOnly>>
    PROVE  /\ FactoryIInv' /\ Grows /\ NewState \in States'
           /\ CollectMessageChain(nodes', NewState) = Append(Chain(prev), msg)
<1>1. StateTypeOK /\ AnswersIInv /\ PlainIInv
  BY DEF FactoryIInv, PlainIInv, PlainTypeOK
<1>2. States = 1 .. Len(nodes) /\ Len(nodes) \in Nat /\ prev \in 0 .. Len(nodes)
  BY <1>1 DEF StateTypeOK, States, NullState
<1>3. /\ LocalLog.status \in Statuses /\ LocalLog.http_status_code \in Nat
      /\ LocalLog.delta_count \in Nat /\ LocalLog.status = "kLocal"
  BY DEF LocalLog, Statuses
<1>4. /\ StateTypeOK' /\ Len(nodes') = Len(nodes) + 1
      /\ States' = States \cup {NewState}
      /\ \A n \in States : nodes'[n] = nodes[n]
      /\ nodes'[NewState] = [message |-> msg, log |-> LocalLog,
                             previous |-> prev]
  BY <1>1, <1>2, <1>3, AppendNode DEF AppendMessage
<1>5. Grows
  BY <1>1, <1>4 DEF Grows
<1>6. FactoryIInv'
  BY <1>1, <1>5, StreamUnchangedKeeps, PlainUnchangedKeeps
     DEF FactoryIInv, streamOnly
<1>7. IsHistory(nodes')
  BY <1>5 DEF Grows, StateTypeOK, States, IsHistory
<1>8. NewState \in 0 .. Len(nodes') /\ NewState # NullState
  BY <1>2, <1>4 DEF NewState, NullState
<1>9. CollectMessageChain(nodes', NewState)
          = Append(CollectMessageChain(nodes', prev), msg)
  BY <1>4, <1>7, <1>8, ChainRecurrence
<1>10. CollectMessageChain(nodes', prev) = Chain(prev)
  BY <1>5, ConversationsStay DEF Chain
<1> QED  BY <1>4, <1>5, <1>6, <1>9, <1>10

\* The demo keeps its conversations, whatever is allocated.
LEMMA ChainStays ==
    ASSUME Grows, NEW s \in States \cup {NullState}
    PROVE  /\ CollectMessageChain(nodes', s) = Chain(s)
           /\ s \in States' \cup {NullState}
           /\ s \in States => s \in States'
BY ConversationsStay DEF Chain, Grows

\* A request's own steps leave what it was sent, and the other requests, alone.
LEMMA StreamStepLeaves ==
    ASSUME AnswersIInv, NEW r \in Requests, RequestStep(r)
    PROVE  /\ UNCHANGED request_body
           /\ \A n \in Requests \ {r} : answers'[n] = answers[n]
<1>1. /\ StreamTypeOK /\ CallsAreFinite /\ Control(r) /\ StatusControl(r)
      /\ answers \in [Requests -> Seq(Nat)]
  BY DEF AnswersIInv, StreamIInv, StreamTypeOK
<1>2. OnwardStep(r) \/ HonestStep(r)
  BY <1>1, StepsAreHonest
<1> QED  BY <1>1, <1>2 DEF OnwardStep, HonestStep, AnswerWith

\* The same of a plain request: bodies stay, and so do the answers of the others.
LEMMA PlainStepLeaves ==
    ASSUME PlainIInv, NEW r \in PlainRequests, PlainAcquire(r) \/ PlainRespond(r)
    PROVE  \A n \in PlainRequests :
              /\ plain'[n].request_body = plain[n].request_body
              /\ n # r => plain'[n].answers = plain[n].answers
<1> DEFINE Goal == \A n \in PlainRequests :
                      /\ plain'[n].request_body = plain[n].request_body
                      /\ n # r => plain'[n].answers = plain[n].answers
<1>1. ASSUME NEW message, NEW log, PlainAnswer(r, message, log) PROVE Goal
  BY <1>1 DEF PlainAnswer, PlainIInv, PlainTypeOK
<1>2. ASSUME OnPlainAcquired(r) PROVE Goal
  BY <1>2 DEF OnPlainAcquired, PlainIInv, PlainTypeOK
<1> HIDE DEF Goal
<1>3. ASSUME NEW log, NEW error, PlainFailure(r, log, error) PROVE Goal
  BY <1>1, <1>3 DEF PlainFailure
<1>4. ASSUME PlainAcquire(r) PROVE Goal
  BY <1>2, <1>3, <1>4 DEF PlainAcquire, OnPlainAcquireFailed
<1>5. ASSUME PlainRespond(r) PROVE Goal
  <2>1. PICK failed \in BOOLEAN, cancelled \in BOOLEAN, code \in HttpCodes,
             requestId \in {Absent, "header"}, body \in Bodies :
             OnDone(r, failed, cancelled, code, requestId, body)
    BY <1>5 DEF PlainRespond
  <2>2. \/ \E log, error : PlainFailure(r, log, error)
        \/ \E log : ParseBody(r, log, body)
    BY <2>1 DEF OnDone
  <2>3. ASSUME NEW log, ParseBody(r, log, body) PROVE Goal
    BY <1>1, <1>3, <2>3 DEF ParseBody
  <2> QED  BY <1>3, <2>2, <2>3
<1> QED  BY <1>4, <1>5 DEF Goal

\* What ioc.run() does to the requests so far: it may answer the last one.
LEMMA RunRequestFacts ==
    ASSUME FactoryIInv, SessionControl, RunRequest
    PROVE  /\ FactoryIInv' /\ Grows
           /\ \A n \in 1 .. asked :
                 /\ Body(n)' = Body(n)
                 /\ n # asked => AnswersTo(n)' = AnswersTo(n)
<1>1. AnswersIInv /\ PlainIInv /\ asked \in 1 .. asked
      /\ 1 .. asked \subseteq RequestNames /\ UNCHANGED options
  BY DEF FactoryIInv, SessionControl, RunRequest, demoVars
<1>2. CASE options.stream
  <2>1. asked \in Requests /\ RequestStep(asked) /\ UNCHANGED plain
    BY <1>1, <1>2 DEF RunRequest, RequestNames
  <2>2. FactoryIInv' /\ Grows
    BY <2>1, FactoryStepKeeps DEF FactoryNext
  <2>3. /\ UNCHANGED request_body
        /\ \A n \in Requests \ {asked} : answers'[n] = answers[n]
    BY <1>1, <2>1, StreamStepLeaves
  <2> QED  BY <1>1, <1>2, <2>2, <2>3 DEF Body, AnswersTo, RequestNames
<1>3. CASE ~ options.stream
  <2>1. /\ asked \in PlainRequests /\ UNCHANGED streamOnly
        /\ PlainAcquire(asked) \/ PlainRespond(asked)
    BY <1>1, <1>3 DEF RunRequest, RequestNames
  <2>2. FactoryIInv' /\ Grows
    BY <2>1, FactoryStepKeeps DEF FactoryNext
  <2>3. \A n \in PlainRequests :
            /\ plain'[n].request_body = plain[n].request_body
            /\ n # asked => plain'[n].answers = plain[n].answers
    BY <1>1, <2>1, PlainStepLeaves
  <2> QED  BY <1>1, <1>3, <2>2, <2>3 DEF Body, AnswersTo, RequestNames
<1> QED  BY <1>2, <1>3

\* What a fetch does to them: nothing, and its body is the conversation of the turn.
LEMMA AskFacts ==
    ASSUME FactoryIInv, SessionControl, Ask, turn.state \in States
    PROVE  /\ FactoryIInv' /\ Grows
           /\ Body(asked)' = Chain(turn.state)
           /\ \A n \in 1 .. asked : /\ Body(n)' = Body(n)
                                    /\ AnswersTo(n)' = AnswersTo(n)
<1>1. /\ asked \in Nat /\ asked' = asked + 1 /\ asked' \in RequestNames
      /\ 1 .. asked \subseteq RequestNames /\ UNCHANGED options
      /\ asked' \notin 1 .. asked
  BY DEF SessionControl, Ask
<1>2. AnswersIInv /\ PlainIInv
  BY DEF FactoryIInv
<1>3. CASE options.stream
  <2>1. /\ asked' \in Requests /\ UNCHANGED plain
        /\ FetchStreamCompletion(asked', turn.state, StreamCallbacks, TRUE)
    BY <1>1, <1>3 DEF Ask, RequestNames
  <2>2. StreamCallbacks \in SUBSET Callbacks
    BY DEF StreamCallbacks, Callbacks
  <2>3. StreamFetch
    BY <2>1, <2>2 DEF StreamFetch
  <2>4. FactoryIInv' /\ Grows
    BY <2>1, <2>3, FactoryStepKeeps DEF FactoryNext
  <2>5. /\ DOMAIN request_body = Requests /\ UNCHANGED answers
        /\ request_body' = [request_body EXCEPT ![asked'] = Chain(turn.state)]
    BY <1>2, <2>1 DEF FetchStreamCompletion, AnswersIInv, Chain
  <2> QED  BY <1>1, <1>3, <2>1, <2>4, <2>5 DEF Body, AnswersTo, RequestNames
<1>4. CASE ~ options.stream
  <2>1. /\ asked' \in PlainRequests /\ UNCHANGED streamOnly
        /\ FetchCompletion(asked', turn.state, TRUE, TRUE)
    BY <1>1, <1>4 DEF Ask, RequestNames
  <2>2. PlainFetch
    BY <2>1 DEF PlainFetch
  <2>3. FactoryIInv' /\ Grows
    BY <2>1, <2>2, FactoryStepKeeps DEF FactoryNext
  <2>4. /\ DOMAIN plain = PlainRequests
        /\ DOMAIN plain[asked'] = {"stage", "base", "request_body", "answers"}
    BY <1>2, <2>1 DEF PlainIInv, PlainTypeOK
  <2>5. /\ plain'[asked'].request_body = Chain(turn.state)
        /\ \A n \in PlainRequests : n # asked' => plain'[n] = plain[n]
    BY <2>1, <2>4 DEF FetchCompletion, Chain
  <2> QED  BY <1>1, <1>4, <2>3, <2>5 DEF Body, AnswersTo, RequestNames
<1> QED  BY <1>3, <1>4

-----------------------------------------------------------------------------
(* What stays as it was *)

\* Steps of the demo alone leave the library as it is ...
LEMMA QuietLibrary ==
    ASSUME FactoryIInv, UNCHANGED factoryVars
    PROVE  FactoryIInv' /\ Grows /\ UNCHANGED <<plain, streamOnly>>
<1>1. UNCHANGED <<plain, streamOnly>>
  BY DEF factoryVars, streamOnly
<1> QED  BY <1>1, FactoryStepKeeps

\* ... and the requests, with their answers.
LEMMA RequestsStay ==
    ASSUME UNCHANGED <<plain, streamOnly>>, UNCHANGED options, NEW n
    PROVE  Body(n)' = Body(n) /\ AnswersTo(n)' = AnswersTo(n)
BY DEF streamOnly, Body, AnswersTo

\* What is held stays what it is while the heap grows.
LEMMA HeldStays ==
    ASSUME Held, Grows, step # "start", UNCHANGED <<initial_state, state>>
    PROVE  Held'
<1>1. /\ initial_state \in States /\ Chain(initial_state) = <<System>>
      /\ state \in States
      /\ Begun(Chain(state)) /\ Talk!CallsAreAnswered(Chain(state))
  BY DEF Held
<1>2. /\ Chain(initial_state)' = Chain(initial_state)
      /\ Chain(state)' = Chain(state)
      /\ initial_state' \in States' /\ state' \in States'
  BY <1>1, ChainStays DEF Chain
<1> QED  BY <1>1, <1>2 DEF Held, Begun, Talk!CallsAreAnswered

\* The past stays, if the answers that are there do.
LEMMA PastStays ==
    ASSUME FactoryIInv, SessionControl, Past, Grows, UNCHANGED asked,
           \A n \in 1 .. asked :
              /\ Body(n)' = Body(n)
              /\ n < asked \/ step' # "waiting" =>
                    AnswersTo(n) # <<>> /\ AnswersTo(n)' = AnswersTo(n)
    PROVE  Past'
<1>1. asked \in Nat /\ 1 .. asked \subseteq RequestNames
  BY DEF SessionControl
<1>2. ASSUME NEW n \in 1 .. asked
      PROVE  /\ Ready(Body(n))'
             /\ n < asked \/ step' # "waiting" => AnswersTo(n)' # <<>>
  BY <1>2 DEF Past, Ready, Begun, Talk!CallsAreAnswered
<1>3. ASSUME NEW n \in 1 .. asked - 1, AsksForTools(n)'
      PROVE  Brings(Body(n + 1), n, Len(CallsOf(AnswerState(n))))'
  <2>1. n \in 1 .. asked /\ n + 1 \in 1 .. asked /\ n < asked
    BY <1>1
  <2>2. /\ AnswersTo(n) # <<>> /\ AnswersTo(n)' = AnswersTo(n)
        /\ Body(n)' = Body(n) /\ Body(n + 1)' = Body(n + 1)
    BY <2>1
  <2>3. /\ AnswerState(n)' = AnswerState(n) /\ MessageOf(n)' = MessageOf(n)
        /\ nodes'[AnswerState(n)] = nodes[AnswerState(n)] /\ AsksForTools(n)
    BY <1>1, <1>3, <2>1, <2>2, AnswerStays
  <2>4. Brings(Body(n + 1), n, Len(CallsOf(AnswerState(n))))
    BY <2>3 DEF Past
  <2> QED  BY <2>2, <2>3, <2>4 DEF Brings, CallsOf, IsPrefix
<1> QED  BY <1>2, <1>3 DEF Past

\* The last answer, once it is there.
LEMMA LastAnswer ==
    ASSUME FactoryIInv, SessionControl, Past, Grows, asked > 0,
           step # "waiting" \/ AnswersTo(asked) # <<>>,
           UNCHANGED <<plain, streamOnly, options, asked>>
    PROVE  /\ asked \in RequestNames /\ AnswersTo(asked) # <<>>
           /\ AnswerState(asked)' = AnswerState(asked)
           /\ MessageOf(asked)' = MessageOf(asked)
           /\ nodes'[AnswerState(asked)] = nodes[AnswerState(asked)]
           /\ AsksForTools(asked)' <=> AsksForTools(asked)
           /\ Body(asked)' = Body(asked)
           /\ CallsOf(AnswerState(asked))' = CallsOf(AnswerState(asked))
<1>1. asked \in 1 .. asked /\ asked \in RequestNames
  BY DEF SessionControl
<1>2. AnswersTo(asked) # <<>>
  BY <1>1 DEF Past
<1>3. /\ Body(asked)' = Body(asked)
      /\ AnswersTo(asked)' = AnswersTo(asked)
  BY DEF streamOnly, Body, AnswersTo
<1>4. AnswerState(asked)' = AnswerState(asked)
  BY <1>3 DEF AnswerState
<1>5. AnswerState(asked) \in States
  BY <1>1, <1>2, AnswerFacts
<1>6. nodes'[AnswerState(asked)] = nodes[AnswerState(asked)]
  BY <1>5 DEF Grows
<1> QED  BY <1>1, <1>2, <1>3, <1>4, <1>6
         DEF MessageOf, AsksForTools, Succeeded, CallsOf

\* The history and the requests of a step that leaves the requests alone.
LEMMA PastAlone ==
    ASSUME FactoryIInv, SessionControl, Past, Grows,
           step # "waiting" \/ asked = 0 \/ AnswersTo(asked) # <<>>,
           UNCHANGED <<plain, streamOnly, options, asked>>
    PROVE  Past'
<1>1. ASSUME NEW n \in 1 .. asked
      PROVE  /\ Body(n)' = Body(n) /\ AnswersTo(n)' = AnswersTo(n)
             /\ AnswersTo(n) # <<>>
  <2>1. Body(n)' = Body(n) /\ AnswersTo(n)' = AnswersTo(n)
    BY RequestsStay
  <2>2. AnswersTo(n) # <<>>
    BY DEF Past, SessionControl
  <2> QED  BY <2>1, <2>2
<1> QED  BY <1>1, PastStays

-----------------------------------------------------------------------------
(* One lemma for each kind of step *)

\* A session that has not begun.
LEMMA InitKeeps == SessionInit => SessionIInv
<1> SUFFICES ASSUME SessionInit PROVE SessionIInv
  OBVIOUS
<1>1. FactoryIInv
  BY PlainInitKeeps, StreamInitKeeps DEF SessionInit, FactoryInit, FactoryIInv
<1>2. /\ step = "start" /\ asked = 0 /\ options \in Options
      /\ turn = NoTurn /\ state = NullState
  BY DEF SessionInit
<1>3. SessionControl
  BY <1>2 DEF SessionControl, Steps, NoTurn
<1>4. Held /\ Past /\ Turn
  BY <1>2 DEF Held, Past, Turn, ExitIsHonest
<1> QED  BY <1>1, <1>3, <1>4 DEF SessionIInv

\* What every lemma about a step starts from.
LEMMA Parts ==
    ASSUME SessionIInv
    PROVE  /\ FactoryIInv /\ SessionControl /\ Held /\ Past /\ Turn
           /\ StateTypeOK
           /\ options \in Options /\ options.max_round_trips \in Nat
           /\ options.interactive \in BOOLEAN
           /\ asked \in Nat
           /\ turn.round \in Nat /\ turn.call \in Nat
           /\ DOMAIN turn = {"round", "state", "done", "call"}
BY OptionsAreTyped
   DEF SessionIInv, FactoryIInv, PlainIInv, PlainTypeOK, SessionControl

\* The system prompt alone is a conversation, with no calls in it.
LEMMA SystemIsSettled ==
    /\ Begun(<<System>>) /\ Talk!CallsAreAnswered(<<System>>)
    /\ Append(<<>>, System) = <<System>>
<1>1. IsList(<<System>>)
  <2>1. <<System>> \in Seq({System})
    OBVIOUS
  <2> QED  BY <2>1, ListOf
<1>2. /\ DOMAIN <<System>> = {1} /\ Len(<<System>>) = 1
      /\ <<System>>[1] = System
  BY <1>1, ListFacts
<1>3. System.tool_calls = <<>> /\ System.role = "system" /\ IsList(<<>>)
  BY SystemAssumption DEF IsList
<1>4. Begun(<<System>>)
  BY <1>1, <1>2, <1>3 DEF Begun
<1>5. Talk!CallsAreAnswered(<<System>>)
  BY <1>2, <1>3 DEF Talk!CallsAreAnswered
<1>6. Append(<<>>, System) = <<System>>
  OBVIOUS
<1> QED  BY <1>4, <1>5, <1>6

\* BuildInitialState: the conversation is the system prompt.
LEMMA BuildKeeps == ASSUME SessionIInv, BuildInitialState PROVE SessionIInv'
<1>1. /\ FactoryIInv /\ SessionControl /\ Past /\ StateTypeOK /\ asked = 0
      /\ step = "start" /\ step' = "prompt"
      /\ AppendMessage(System, NullState)
      /\ initial_state' = NewState /\ state' = NewState
      /\ UNCHANGED <<plain, streamOnly, options, turn, asked, exit_code>>
  BY Parts DEF BuildInitialState, SessionControl
<1>2. /\ FactoryIInv' /\ Grows /\ NewState \in States'
      /\ CollectMessageChain(nodes', NewState) = Append(Chain(NullState), System)
  <2>1. NullState \in States \cup {NullState} /\ System.message \in Seq(Text)
    BY SystemAssumption
  <2> QED  BY <1>1, <2>1, DemoAppends
<1>3. Chain(NullState) = <<>>
  <2>1. IsHistory(nodes) /\ NullState \in 0 .. Len(nodes)
    BY <1>1, StatesAreAHistory DEF NullState, IsHistory
  <2> QED  BY <2>1, ChainRecurrence DEF Chain
<1>4. Chain(state)' = <<System>> /\ Chain(initial_state)' = <<System>>
  BY <1>1, <1>2, <1>3, SystemIsSettled DEF Chain
<1>5. Held'
  BY <1>1, <1>2, <1>4, SystemIsSettled DEF Held, Begun, Talk!CallsAreAnswered
<1>6. Past'
  BY <1>1, <1>2, PastAlone
<1>7. SessionControl'
  BY <1>1 DEF SessionControl, Steps, RequestNames
<1>8. Turn'
  BY <1>1 DEF Turn, NothingOwed, ExitIsHonest
<1> QED  BY <1>2, <1>5, <1>6, <1>7, <1>8 DEF SessionIInv

\* Say: the user's line begins the turn, and nothing is owed.
LEMMA SayKeeps ==
    ASSUME SessionIInv, NEW line \in Lines, Say(line) PROVE SessionIInv'
<1>1. /\ FactoryIInv /\ SessionControl /\ Held /\ Past /\ Turn
      /\ step = "prompt" /\ step' = "asking"
      /\ AppendMessage(line, state) /\ state' = NewState
      /\ turn' = [NoTurn EXCEPT !.round = 1, !.state = NewState]
      /\ UNCHANGED <<plain, streamOnly, options, asked, initial_state>>
  BY Parts DEF Say
<1>2. /\ state \in States /\ initial_state \in States
      /\ Chain(initial_state) = <<System>>
      /\ Begun(Chain(state)) /\ Talk!CallsAreAnswered(Chain(state))
  BY <1>1 DEF Held
<1> DEFINE said == Append(Chain(state), line)
<1>3. /\ FactoryIInv' /\ Grows /\ NewState \in States'
      /\ CollectMessageChain(nodes', NewState) = said
  BY <1>1, <1>2, LinesAssumption, DemoAppends
<1>4. line.role = "user" /\ line.tool_calls = <<>> /\ IsList(<<>>)
  BY LinesAssumption DEF IsList
<1>5. /\ Begun(said) /\ IsList(said) /\ Talk!CallsAreAnswered(said)
      /\ said[Len(said)] = line
  BY <1>2, <1>4, BegunWith, SettledWith, ListAppend DEF Begun
<1>6. UnderWay(said, said, 0)
  BY <1>5, UnderWayStart
<1> HIDE DEF said
<1>7. /\ turn'.round = 1 /\ turn'.state = NewState /\ turn'.call = 0
      /\ DOMAIN turn' = {"round", "state", "done", "call"}
  BY <1>1 DEF NoTurn
<1>8. Chain(state)' = said /\ Chain(turn.state)' = said
  BY <1>1, <1>3, <1>7 DEF Chain
<1>9. Held'
  <2>1. initial_state' \in States' /\ Chain(initial_state)' = <<System>>
    BY <1>1, <1>2, <1>3, ChainStays DEF Chain
  <2> QED  BY <1>1, <1>3, <1>5, <1>8, <2>1 DEF Held, Begun, Talk!CallsAreAnswered
<1>10. Past'
  BY <1>1, <1>3, PastAlone
<1>11. SessionControl'
  BY <1>1, <1>7 DEF SessionControl, Steps, RequestNames
<1>12. NothingOwed'
  BY <1>1, <1>3, LastAnswer DEF NothingOwed, Turn
<1>13. TurnState'
  <2>1. Ready(Chain(turn.state))'
    BY <1>4, <1>5, <1>8 DEF Ready, Begun, Talk!CallsAreAnswered
  <2>2. UnderWay(Chain(state), Chain(turn.state), turn.round - 1)'
    BY <1>6, <1>7, <1>8 DEF UnderWay, Since, Assistants, IsPrefix
  <2> QED  BY <1>1, <1>3, <1>7, <1>12, <2>1, <2>2 DEF TurnState
<1>14. Turn'
  BY <1>1, <1>13 DEF Turn, ExitIsHonest
<1> QED  BY <1>3, <1>9, <1>10, <1>11, <1>14 DEF SessionIInv

\* Reset: back to the system prompt, whose chain has stayed.
LEMMA ResetKeeps == ASSUME SessionIInv, Reset PROVE SessionIInv'
<1>1. /\ FactoryIInv /\ SessionControl /\ Held /\ Past /\ Turn
      /\ step = "prompt" /\ step' = "prompt" /\ state' = initial_state
      /\ UNCHANGED <<factoryVars, options, initial_state, turn, asked>>
  BY Parts DEF Reset
<1>2. FactoryIInv' /\ Grows /\ UNCHANGED <<plain, streamOnly>>
  BY <1>1, QuietLibrary
<1>3. Held'
  <2>1. initial_state \in States /\ Chain(initial_state) = <<System>>
    BY <1>1 DEF Held
  <2>2. /\ initial_state' \in States' /\ state' \in States'
        /\ Chain(initial_state)' = <<System>> /\ Chain(state)' = <<System>>
    BY <1>1, <1>2, <2>1, ChainStays DEF Chain
  <2> QED  BY <2>2, SystemIsSettled DEF Held, Begun, Talk!CallsAreAnswered
<1>4. Past'
  BY <1>1, <1>2, PastAlone
<1>5. SessionControl'
  BY <1>1 DEF SessionControl, Steps, RequestNames
<1>6. NothingOwed'
  BY <1>1, <1>2, LastAnswer DEF NothingOwed, Turn
<1>7. Turn'
  BY <1>1, <1>6 DEF Turn, ExitIsHonest
<1> QED  BY <1>2, <1>3, <1>4, <1>5, <1>7 DEF SessionIInv

\* Quit: the exit code says nothing of the answers.
LEMMA QuitKeeps == ASSUME SessionIInv, Quit PROVE SessionIInv'
<1>1. /\ FactoryIInv /\ SessionControl /\ Held /\ Past
      /\ step = "prompt" /\ options.interactive
      /\ step' = "exited" /\ exit_code' = 0
      /\ UNCHANGED <<factoryVars, options, initial_state, state, turn, asked>>
  BY Parts DEF Quit
<1>2. FactoryIInv' /\ Grows /\ UNCHANGED <<plain, streamOnly>>
  BY <1>1, QuietLibrary
<1>3. Held' /\ Past'
  BY <1>1, <1>2, HeldStays, PastAlone
<1>4. SessionControl'
  BY <1>1 DEF SessionControl, Steps, RequestNames
<1>5. Turn'
  BY <1>1 DEF Turn, ExitIsHonest
<1> QED  BY <1>2, <1>3, <1>4, <1>5 DEF SessionIInv

\* Ask: the new body is well formed, and brings the results of the last answer.
LEMMA AskKeeps == ASSUME SessionIInv, Ask PROVE SessionIInv'
<1>1. /\ FactoryIInv /\ SessionControl /\ Held /\ Past /\ Turn
      /\ asked \in Nat /\ turn.round \in Nat /\ asked' = asked + 1
      /\ step = "asking" /\ step' = "waiting"
      /\ turn.round <= options.max_round_trips
      /\ UNCHANGED <<options, initial_state, state, turn>>
      /\ asked + 1 \in RequestNames
  BY Parts DEF Ask
<1>2. /\ turn.state \in States
      /\ Ready(Chain(turn.state)) /\ turn.round > 0
      /\ turn.round = 1 => NothingOwed
      /\ turn.round > 1 =>
            Brings(Chain(turn.state), asked, Len(CallsOf(AnswerState(asked))))
      /\ UnderWay(Chain(state), Chain(turn.state), turn.round - 1)
  BY <1>1 DEF Turn, TurnState
<1>3. /\ FactoryIInv' /\ Grows
      /\ Body(asked)' = Chain(turn.state)
      /\ \A n \in 1 .. asked : /\ Body(n)' = Body(n)
                               /\ AnswersTo(n)' = AnswersTo(n)
  BY <1>1, <1>2, AskFacts
<1>4. Held'
  BY <1>1, <1>3, HeldStays
<1>5. SessionControl'
  <2>1. 1 .. asked' \subseteq RequestNames'
    BY <1>1 DEF SessionControl, RequestNames
  <2> QED  BY <1>1, <2>1 DEF SessionControl, Steps
<1>6. \A n \in 1 .. asked : /\ n \in RequestNames /\ AnswersTo(n) # <<>>
                            /\ Ready(Body(n))
  BY <1>1 DEF Past, SessionControl
<1>7. ASSUME NEW n \in 1 .. asked
      PROVE  /\ AnswerState(n)' = AnswerState(n) /\ MessageOf(n)' = MessageOf(n)
             /\ nodes'[AnswerState(n)] = nodes[AnswerState(n)]
             /\ AsksForTools(n)' <=> AsksForTools(n)
  BY <1>1, <1>3, <1>6, <1>7, AnswerStays
<1>8. ASSUME NEW n \in 1 .. asked' PROVE Ready(Body(n))'
  <2>1. CASE n \in 1 .. asked
    BY <1>3, <1>6, <2>1 DEF Ready, Begun, Talk!CallsAreAnswered
  <2>2. CASE n = asked'
    BY <1>2, <1>3, <2>2 DEF Ready, Begun, Talk!CallsAreAnswered
  <2> QED  BY <1>1, <2>1, <2>2
<1>9. ASSUME NEW n \in 1 .. asked' - 1, AsksForTools(n)'
      PROVE  Brings(Body(n + 1), n, Len(CallsOf(AnswerState(n))))'
  <2>1. n \in 1 .. asked /\ AsksForTools(n)
    BY <1>1, <1>7, <1>9
  <2>2. Brings(IF n = asked THEN Chain(turn.state) ELSE Body(n + 1), n,
               Len(CallsOf(AnswerState(n))))
    <3>1. CASE n = asked
      BY <1>1, <1>2, <2>1, <3>1 DEF NothingOwed
    <3>2. CASE n # asked
      BY <1>1, <2>1, <3>2 DEF Past
    <3> QED  BY <3>1, <3>2
  <2>3. Body(n + 1)' = IF n = asked THEN Chain(turn.state) ELSE Body(n + 1)
    <3>1. CASE n = asked
      <4>1. n + 1 = asked'
        BY <1>1, <3>1
      <4> QED  BY <1>3, <3>1, <4>1 DEF Body
    <3>2. CASE n # asked
      <4>1. n + 1 \in 1 .. asked
        BY <1>1, <2>1, <3>2
      <4> QED  BY <1>3, <3>2, <4>1
    <3> QED  BY <3>1, <3>2
  <2> QED  BY <1>3, <1>7, <2>1, <2>2, <2>3 DEF Brings, CallsOf, IsPrefix
<1>10. \A n \in 1 .. asked' : n < asked' => AnswersTo(n)' # <<>>
  BY <1>1, <1>3, <1>6
<1>11. Past'
  BY <1>1, <1>8, <1>9, <1>10 DEF Past
<1>12. /\ turn'.state \in States' /\ Chain(turn.state)' = Chain(turn.state)
       /\ Chain(state)' = Chain(state)
  <2>1. state \in States
    BY <1>1 DEF Held
  <2> QED  BY <1>1, <1>2, <1>3, <2>1, ChainStays DEF Chain
<1>13. TurnState'
  BY <1>1, <1>3, <1>12 DEF TurnState
<1>14. UnderWay(Chain(state), Body(asked), turn.round - 1)'
  BY <1>1, <1>2, <1>3, <1>12 DEF UnderWay, Since, Assistants, IsPrefix
<1>15. InRounds'
  BY <1>1, <1>2, Parts DEF InRounds
<1>16. Turn'
  BY <1>1, <1>13, <1>14, <1>15 DEF Turn, ExitIsHonest
<1> QED  BY <1>3, <1>4, <1>5, <1>11, <1>16 DEF SessionIInv

\* Exceed: the turn comes back with nothing, its last answer still asking for tools.
LEMMA ExceedKeeps == ASSUME SessionIInv, Exceed PROVE SessionIInv'
<1>1. /\ FactoryIInv /\ SessionControl /\ Held /\ Past /\ Turn
      /\ step = "asking" /\ step' = "returning"
      /\ turn.round > options.max_round_trips
      /\ turn' = [turn EXCEPT !.done = NullState]
      /\ UNCHANGED <<factoryVars, options, initial_state, state, asked>>
  BY Parts DEF Exceed
<1>2. FactoryIInv' /\ Grows /\ UNCHANGED <<plain, streamOnly>>
  BY <1>1, QuietLibrary
<1>3. Held' /\ Past'
  BY <1>1, <1>2, HeldStays, PastAlone
<1>4. asked > 0 /\ AsksForTools(asked)
  <2>1. turn.round > 1
    BY <1>1, Parts, OptionsAreTyped
  <2> QED  BY <1>1, <2>1 DEF Turn, TurnState
<1>5. /\ DOMAIN turn' = DOMAIN turn /\ turn'.done = NullState
      /\ turn'.round = turn.round /\ turn'.call = turn.call
  BY <1>1, Parts
<1>6. SessionControl'
  BY <1>1, <1>4, <1>5 DEF SessionControl, Steps, RequestNames
<1>7. Returned'
  BY <1>1, <1>2, <1>4, <1>5, LastAnswer DEF Returned
<1>8. Turn'
  BY <1>1, <1>7 DEF Turn, ExitIsHonest
<1> QED  BY <1>2, <1>3, <1>6, <1>8 DEF SessionIInv

\* RunRequest: the last request may be answered, by an answer that asks or not.
LEMMA RunKeeps == ASSUME SessionIInv, RunRequest PROVE SessionIInv'
<1>1. /\ FactoryIInv /\ SessionControl /\ Held /\ Past /\ Turn
      /\ asked \in Nat
      /\ step = "waiting" /\ UNCHANGED demoVars
      /\ UNCHANGED <<options, step, initial_state, state, turn, asked>>
  BY Parts DEF RunRequest, demoVars
<1>2. /\ FactoryIInv' /\ Grows
      /\ \A n \in 1 .. asked : /\ Body(n)' = Body(n)
                               /\ n # asked => AnswersTo(n)' = AnswersTo(n)
  BY <1>1, RunRequestFacts
<1>3. Held'
  BY <1>1, <1>2, HeldStays
<1>4. Past'
  <2>1. \A n \in 1 .. asked : n < asked => n # asked /\ AnswersTo(n) # <<>>
    BY <1>1 DEF Past
  <2> QED  BY <1>1, <1>2, <2>1, PastStays
<1>5. SessionControl'
  BY <1>1 DEF SessionControl, Steps, RequestNames
<1>6. asked > 0 /\ turn.state \in States /\ state \in States
      /\ Body(asked) = Chain(turn.state) /\ InRounds
      /\ UnderWay(Chain(state), Body(asked), turn.round - 1)
  BY <1>1 DEF Turn, TurnState, SessionControl, Held
<1>7. /\ turn'.state \in States' /\ Chain(turn.state)' = Chain(turn.state)
      /\ Chain(state)' = Chain(state) /\ Body(asked)' = Body(asked)
  <2>1. asked \in 1 .. asked
    BY <1>1, <1>6
  <2>2. request_body'[asked] = request_body[asked] \/ ~ options.stream
    BY <1>1, <1>2, <2>1 DEF Body
  <2>3. plain'[asked].request_body = plain[asked].request_body
        \/ options.stream
    BY <1>1, <1>2, <2>1 DEF Body
  <2>4. Body(asked)' = Body(asked)
    BY <1>1, <2>2, <2>3 DEF Body
  <2> QED  BY <1>1, <1>2, <1>6, <2>4, ChainStays DEF Chain
<1>8. TurnState'
  BY <1>1, <1>6, <1>7 DEF TurnState
<1>9. UnderWay(Chain(state), Body(asked), turn.round - 1)'
  BY <1>1, <1>6, <1>7 DEF UnderWay, Since, Assistants, IsPrefix
<1>10. InRounds'
  BY <1>1, <1>6 DEF InRounds
<1>11. Turn'
  BY <1>1, <1>8, <1>9, <1>10 DEF Turn, ExitIsHonest
<1> QED  BY <1>2, <1>3, <1>4, <1>5, <1>11 DEF SessionIInv

\* The list of an answer that calls tools is not empty.
LEMMA SomeCalls ==
    ASSUME NEW calls, IsList(calls), calls # <<>> PROVE Len(calls) > 0
<1>1. Len(calls) \in Nat /\ calls \in Seq(Range(calls))
  BY ListFacts DEF IsList
<1>2. Len(calls) = 0 => calls = <<>>
  BY <1>1
<1> QED  BY <1>1, <1>2

\* Collect: an answer that asks for tools owes all its results, another is returned.
LEMMA CollectKeeps == ASSUME SessionIInv, Collect PROVE SessionIInv'
<1>1. /\ FactoryIInv /\ SessionControl /\ Held /\ Past /\ Turn /\ StateTypeOK
      /\ asked \in Nat /\ turn.round \in Nat
      /\ step = "waiting" /\ Fulfilled # <<>>
      /\ DOMAIN turn = {"round", "state", "done", "call"}
      /\ UNCHANGED <<factoryVars, options, initial_state, state, asked>>
  BY Parts DEF Collect
<1>2. FactoryIInv' /\ Grows /\ UNCHANGED <<plain, streamOnly>>
  BY <1>1, QuietLibrary
<1>3. asked > 0 /\ state \in States
      /\ Body(asked) = Chain(turn.state) /\ InRounds
      /\ UnderWay(Chain(state), Body(asked), turn.round - 1)
  BY <1>1 DEF Turn, TurnState, SessionControl, Held
<1>4. /\ Fulfilled = AnswersTo(asked) /\ AnswersTo(asked) # <<>>
      /\ Fulfilled[1] = AnswerState(asked)
  <2>1. Fulfilled = AnswersTo(asked)
    BY <1>1 DEF Fulfilled, AnswersTo
  <2> QED  BY <1>1, <2>1 DEF AnswerState
<1>5. /\ asked \in 1 .. asked /\ asked \in RequestNames /\ Ready(Body(asked))
  BY <1>1, <1>3 DEF SessionControl, Past
<1>6. /\ AnswerState(asked) \in States
      /\ Chain(AnswerState(asked)) = Append(Body(asked), MessageOf(asked))
      /\ MessageOf(asked).role = "assistant"
      /\ IsList(MessageOf(asked).tool_calls)
      /\ CallsOf(AnswerState(asked)) = MessageOf(asked).tool_calls
  BY <1>1, <1>4, <1>5, AnswerFacts DEF CallsOf, MessageOf
<1>7. /\ AnswerState(asked)' = AnswerState(asked)
      /\ MessageOf(asked)' = MessageOf(asked)
      /\ AsksForTools(asked)' <=> AsksForTools(asked)
      /\ Body(asked)' = Body(asked)
      /\ CallsOf(AnswerState(asked))' = CallsOf(AnswerState(asked))
  BY <1>1, <1>2, <1>3, <1>4, LastAnswer
<1>8. Held' /\ Past'
  BY <1>1, <1>2, <1>3, <1>4, HeldStays, PastAlone
<1>9. /\ DOMAIN turn' = DOMAIN turn /\ turn'.done = AnswerState(asked)
      /\ turn'.call = 1 /\ turn'.round = turn.round
      /\ \/ /\ AsksForTools(asked) /\ step' = "tools"
            /\ turn'.state = AnswerState(asked)
         \/ /\ ~ AsksForTools(asked) /\ step' = "returning"
            /\ turn'.state = turn.state
  <2>1. CASE AsksForTools(asked)
    BY <1>1, <1>4, <2>1 DEF Collect, AsksForTools
  <2>2. CASE ~ AsksForTools(asked)
    BY <1>1, <1>4, <2>2 DEF Collect, AsksForTools
  <2> QED  BY <2>1, <2>2
<1>10. SessionControl'
  BY <1>1, <1>3, <1>9 DEF SessionControl, Steps, RequestNames
<1>11. Chain(state)' = Chain(state)
  BY <1>1, <1>2, <1>3, ChainStays DEF Chain
<1>12. InRounds'
  BY <1>1, <1>3, <1>9 DEF InRounds
<1>13. CASE ~ AsksForTools(asked)
  <2>1. UnderWay(Chain(state), Body(asked), turn.round - 1)'
    BY <1>3, <1>7, <1>9, <1>11 DEF UnderWay, Since, Assistants, IsPrefix
  <2>2. Returned'
    BY <1>4, <1>7, <1>9, <1>12, <1>13, <2>1 DEF Returned
  <2>3. Turn'
    BY <1>9, <1>13, <2>2 DEF Turn, ExitIsHonest
  <2> QED  BY <1>2, <1>8, <1>10, <2>3 DEF SessionIInv
<1>14. CASE AsksForTools(asked)
  <2> DEFINE messages == Append(Body(asked), MessageOf(asked))
  <2>1. Chain(turn.state)' = messages /\ turn'.state \in States'
    BY <1>2, <1>6, <1>9, <1>14, ChainStays DEF Chain
  <2>2. MessageOf(asked).tool_calls # <<>>
    BY <1>6, <1>14 DEF AsksForTools
  <2>3. /\ IsList(Body(asked)) /\ Begun(Body(asked))
        /\ Talk!CallsAreAnswered(Body(asked)) /\ Len(Body(asked)) \in Nat
    BY <1>5, ListFacts DEF Ready, Begun
  <2>4. /\ Begun(messages) /\ IsList(messages)
        /\ Len(messages) = Len(Body(asked)) + 1
    BY <1>6, <2>3, BegunWith, ListAppend
  <2>5. Owing(messages, Len(Body(asked)) + 1, 1)
    BY <1>6, <2>3, OwingWith
  <2>6. Brings(messages, asked, 0)
    BY <2>3, <2>4, PrefixSelf DEF Brings
  <2>7. UnderWay(Chain(state), messages, turn.round)
    <3>1. IsList(Chain(state))
      BY <1>1, <1>3, ConversationIsList DEF Chain
    <3>2. turn.round - 1 \in Int /\ (turn.round - 1) + 1 = turn.round
      BY <1>1
    <3> QED  BY <1>3, <1>6, <2>2, <2>3, <3>1, <3>2, UnderWayAnswer
  <2> HIDE DEF messages
  <2>8. /\ Len(CallsOf(AnswerState(asked))) \in Nat
        /\ 1 \in 1 .. Len(CallsOf(AnswerState(asked))) + 1
    BY <1>6, ListFacts
  <2>9. TurnState'
    <3>1. Begun(Chain(turn.state))'
      BY <2>1, <2>4 DEF Begun
    <3>2. Owing(Chain(turn.state), Len(Body(asked)) + 1, turn.call)'
      BY <1>7, <1>9, <2>1, <2>5 DEF Owing
    <3>3. Brings(Chain(turn.state), asked, turn.call - 1)'
      BY <1>7, <1>9, <2>1, <2>6 DEF Brings, IsPrefix
    <3>4. UnderWay(Chain(state), Chain(turn.state), turn.round)'
      BY <1>9, <1>11, <2>1, <2>7 DEF UnderWay, Since, Assistants, IsPrefix
    <3>5. turn'.call \in 1 .. Len(CallsOf(turn.done)') + 1
      BY <1>7, <1>9, <2>8 DEF CallsOf
    <3>6. turn'.done = AnswerState(asked)' /\ AsksForTools(asked)'
      BY <1>7, <1>9, <1>14
    <3>7. step' = "tools"
      BY <1>9, <1>14
    <3> QED  BY <2>1, <3>1, <3>2, <3>3, <3>4, <3>5, <3>6, <3>7 DEF TurnState
  <2>10. Turn'
    BY <1>9, <1>12, <1>14, <2>9 DEF Turn, ExitIsHonest
  <2> QED  BY <1>2, <1>8, <1>10, <2>10 DEF SessionIInv
<1> QED  BY <1>13, <1>14

\* What the steps that serve an answer's calls start from.
LEMMA Serving ==
    ASSUME SessionIInv, step = "tools"
    PROVE  LET messages == Chain(turn.state)
               j == Len(Body(asked)) + 1
               calls == MessageOf(asked).tool_calls
           IN  /\ asked > 0 /\ turn.state \in States /\ state \in States
               /\ CallsOf(turn.done) = calls /\ IsList(calls) /\ Len(calls) > 0
               /\ turn.call \in 1 .. Len(calls) + 1
               /\ Begun(messages) /\ IsList(messages)
               /\ IsList(Chain(state))
               /\ j \in 1 .. Len(messages) /\ messages[j] = MessageOf(asked)
               /\ Len(messages) + 1 = j + turn.call
               /\ Owing(messages, j, turn.call)
               /\ Brings(messages, asked, turn.call - 1)
               /\ UnderWay(Chain(state), messages, turn.round)
               /\ AsksForTools(asked) /\ InRounds
               /\ turn.done = AnswerState(asked)
<1>1. /\ FactoryIInv /\ SessionControl /\ Held /\ Past /\ Turn /\ StateTypeOK
      /\ asked \in Nat
  BY Parts
<1>2. TurnState /\ InRounds /\ state \in States /\ asked > 0
  BY <1>1 DEF Turn, SessionControl, Held
<1>3. /\ asked \in RequestNames /\ AnswersTo(asked) # <<>>
      /\ Ready(Body(asked))
  <2>1. asked \in 1 .. asked
    BY <1>1, <1>2
  <2> QED  BY <1>1, <2>1 DEF SessionControl, Past
<1>4. /\ CallsOf(AnswerState(asked)) = MessageOf(asked).tool_calls
      /\ IsList(MessageOf(asked).tool_calls)
  BY <1>1, <1>3, AnswerFacts DEF CallsOf, MessageOf
<1> DEFINE messages == Chain(turn.state)
           j == Len(Body(asked)) + 1
           calls == MessageOf(asked).tool_calls
<1>5. /\ turn.state \in States /\ turn.done = AnswerState(asked)
      /\ AsksForTools(asked) /\ turn.call \in 1 .. Len(calls) + 1
      /\ Begun(messages) /\ Owing(messages, j, turn.call)
      /\ Brings(messages, asked, turn.call - 1)
      /\ UnderWay(Chain(state), messages, turn.round)
  BY <1>2, <1>4 DEF TurnState
<1>6. IsList(Chain(state)) /\ IsList(messages)
  BY <1>1, <1>2, <1>5, ConversationIsList DEF Chain
<1>7. Len(calls) > 0 /\ Len(calls) \in Nat
  BY <1>4, <1>5, SomeCalls, ListFacts DEF AsksForTools
<1>8. /\ Len(messages) = j + (turn.call - 1) /\ Len(Body(asked)) \in Nat
      /\ IsPrefix(Append(Body(asked), MessageOf(asked)), messages)
      /\ IsList(Body(asked))
  BY <1>3, <1>5, ListFacts DEF Brings, Ready, Begun
<1>9. /\ IsList(Append(Body(asked), MessageOf(asked)))
      /\ Len(Append(Body(asked), MessageOf(asked))) = j
      /\ Append(Body(asked), MessageOf(asked))[j] = MessageOf(asked)
  BY <1>8, ListAppend
<1> HIDE DEF messages, j, calls
<1>10. j <= Len(messages) /\ \A k \in 1 .. j :
           messages[k] = Append(Body(asked), MessageOf(asked))[k]
  <2>1. ASSUME NEW p, IsList(p), IsPrefix(p, messages)
        PROVE  /\ Len(p) <= Len(messages)
               /\ \A k \in 1 .. Len(p) : messages[k] = p[k]
    BY <1>6, <2>1, PrefixMeans
  <2> QED  BY <1>8, <1>9, <2>1
<1>11. j \in 1 .. Len(messages) /\ Len(messages) + 1 = j + turn.call
       /\ messages[j] = MessageOf(asked)
  <2>1. j \in Nat /\ j >= 1 /\ turn.call \in Nat /\ turn.call >= 1
    BY <1>1, <1>5, <1>7, <1>8 DEF j
  <2>2. Len(messages) = j + (turn.call - 1)
    BY <1>8 DEF j
  <2> QED  BY <1>9, <1>10, <2>1, <2>2
<1> QED  BY <1>2, <1>4, <1>5, <1>6, <1>7, <1>11 DEF messages, j, calls

\* RunTool: one result more, right behind those that are there.
LEMMA RunToolKeeps ==
    ASSUME SessionIInv, NEW result \in ToolResults, RunTool(result)
    PROVE  SessionIInv'
<1> DEFINE messages == Chain(turn.state)
           j == Len(Body(asked)) + 1
           calls == MessageOf(asked).tool_calls
           x == ToolMessage(calls[turn.call], result)
           longer == Append(messages, x)
<1>1. /\ FactoryIInv /\ SessionControl /\ Held /\ Past /\ Turn
      /\ asked \in Nat /\ turn.round \in Nat /\ turn.call \in Nat
      /\ DOMAIN turn = {"round", "state", "done", "call"}
      /\ step = "tools" /\ step' = "tools"
      /\ turn.call <= Len(CallsOf(turn.done))
      /\ AppendMessage(ToolMessage(CallsOf(turn.done)[turn.call], result),
                       turn.state)
      /\ turn' = [turn EXCEPT !.state = NewState, !.call = @ + 1]
      /\ UNCHANGED <<plain, streamOnly, options, initial_state, state, asked>>
  BY Parts DEF RunTool
<1>2. /\ asked > 0 /\ turn.state \in States /\ state \in States
      /\ CallsOf(turn.done) = calls /\ IsList(calls)
      /\ Begun(messages) /\ IsList(messages) /\ IsList(Chain(state))
      /\ j \in 1 .. Len(messages) /\ messages[j] = MessageOf(asked)
      /\ Len(messages) + 1 = j + turn.call
      /\ Owing(messages, j, turn.call)
      /\ Brings(messages, asked, turn.call - 1)
      /\ UnderWay(Chain(state), messages, turn.round)
      /\ AsksForTools(asked) /\ InRounds /\ turn.done = AnswerState(asked)
      /\ turn.call \in 1 .. Len(calls) + 1
  BY <1>1, Serving
<1>3. /\ x.role = "tool" /\ x.tool_calls = <<>> /\ IsList(<<>>)
      /\ x.tool_call_id = calls[turn.call].id /\ x.message \in Seq(Text)
  <2>1. /\ x.role = "tool" /\ x.tool_calls = <<>>
        /\ x.tool_call_id = calls[turn.call].id /\ x.message = <<result>>
    BY DEF ToolMessage
  <2>2. <<result>> \in Seq(Text)
    BY ToolResultsAssumption
  <2> QED  BY <2>1, <2>2 DEF IsList
<1>4. AppendMessage(x, turn.state)
  BY <1>1, <1>2
<1> HIDE DEF x
<1>5. /\ FactoryIInv' /\ Grows /\ NewState \in States'
      /\ CollectMessageChain(nodes', NewState) = longer
  BY <1>1, <1>2, <1>3, <1>4, DemoAppends
<1>6. Begun(longer)
  BY <1>2, <1>3, BegunWith
<1>7. /\ Len(longer) = Len(messages) + 1 /\ IsList(longer)
      /\ Len(messages) \in Nat
  BY <1>2, ListAppend
<1>8. turn.call \in DOMAIN calls
  BY <1>1, <1>2, ListFacts
<1>9. Owing(longer, j, turn.call + 1)
  BY <1>2, <1>3, <1>8, OwingLess
<1>10. Brings(longer, asked, turn.call)
  <2>1. IsPrefix(messages, longer)
    BY <1>2, PrefixOfAppend
  <2>2. IsPrefix(Append(Body(asked), MessageOf(asked)), messages)
    BY <1>2 DEF Brings
  <2>3. IsList(Append(Body(asked), MessageOf(asked)))
    <3>1. asked \in 1 .. asked
      BY <1>1, <1>2
    <3>2. IsList(Body(asked))
      BY <1>1, <3>1 DEF Past, Ready, Begun
    <3> QED  BY <3>2, ListAppend
  <2>4. IsPrefix(Append(Body(asked), MessageOf(asked)), longer)
    BY <1>2, <1>7, <2>1, <2>2, <2>3, PrefixIsTransitive
  <2>5. Len(longer) = j + turn.call
    BY <1>2, <1>7
  <2> QED  BY <2>4, <2>5 DEF Brings
<1>11. UnderWay(Chain(state), longer, turn.round)
  BY <1>2, <1>3, UnderWayResult
<1> HIDE DEF longer, calls
<1>12. /\ turn'.state = NewState /\ turn'.call = turn.call + 1
       /\ turn'.done = turn.done /\ turn'.round = turn.round
       /\ DOMAIN turn' = DOMAIN turn
  BY <1>1
<1>13. /\ AnswerState(asked)' = AnswerState(asked)
       /\ MessageOf(asked)' = MessageOf(asked)
       /\ AsksForTools(asked)' <=> AsksForTools(asked)
       /\ Body(asked)' = Body(asked)
       /\ CallsOf(AnswerState(asked))' = CallsOf(AnswerState(asked))
  BY <1>1, <1>2, <1>5, LastAnswer
<1>14. Held' /\ Past'
  BY <1>1, <1>5, HeldStays, PastAlone
<1>15. SessionControl'
  BY <1>1, <1>2, <1>12 DEF SessionControl, Steps, RequestNames
<1>16. /\ Chain(state)' = Chain(state) /\ Chain(turn.state)' = longer
       /\ turn'.state \in States'
  BY <1>1, <1>2, <1>5, <1>12, ChainStays DEF Chain
<1>17. TurnState'
  <2>1. Begun(Chain(turn.state))'
    BY <1>6, <1>16 DEF Begun
  <2>2. Owing(Chain(turn.state), Len(Body(asked)) + 1, turn.call)'
    BY <1>9, <1>12, <1>13, <1>16 DEF Owing
  <2>3. Brings(Chain(turn.state), asked, turn.call - 1)'
    <3>1. turn'.call - 1 = turn.call
      BY <1>1, <1>12
    <3> QED  BY <1>10, <1>13, <1>16, <3>1 DEF Brings, IsPrefix
  <2>4. UnderWay(Chain(state), Chain(turn.state), turn.round)'
    BY <1>11, <1>12, <1>16 DEF UnderWay, Since, Assistants, IsPrefix
  <2>5. turn'.call \in 1 .. Len(CallsOf(turn.done)') + 1
    <3>1. CallsOf(turn.done)' = calls
      BY <1>2, <1>12, <1>13 DEF CallsOf
    <3>2. Len(calls) \in Nat
      BY <1>2, ListFacts
    <3> QED  BY <1>1, <1>2, <1>12, <3>1, <3>2
  <2>6. turn'.done = AnswerState(asked)' /\ AsksForTools(asked)'
    BY <1>2, <1>12, <1>13
  <2> QED  BY <1>1, <1>16, <2>1, <2>2, <2>3, <2>4, <2>5, <2>6 DEF TurnState
<1>18. InRounds'
  BY <1>1, <1>2, <1>12 DEF InRounds
<1>19. Turn'
  BY <1>1, <1>17, <1>18 DEF Turn, ExitIsHonest
<1> QED  BY <1>5, <1>14, <1>15, <1>19 DEF SessionIInv

\* NextRound: all results are there, and one round is over.
LEMMA NextRoundKeeps == ASSUME SessionIInv, NextRound PROVE SessionIInv'
<1> DEFINE messages == Chain(turn.state)
           j == Len(Body(asked)) + 1
           calls == MessageOf(asked).tool_calls
<1>1. /\ FactoryIInv /\ SessionControl /\ Held /\ Past /\ Turn
      /\ asked \in Nat /\ turn.round \in Nat /\ turn.call \in Nat
      /\ DOMAIN turn = {"round", "state", "done", "call"}
      /\ step = "tools" /\ step' = "asking"
      /\ turn.call > Len(CallsOf(turn.done))
      /\ turn' = [turn EXCEPT !.round = @ + 1]
      /\ UNCHANGED <<factoryVars, options, initial_state, state, asked>>
  BY Parts DEF NextRound
<1>2. /\ asked > 0 /\ turn.state \in States /\ state \in States
      /\ CallsOf(turn.done) = calls /\ IsList(calls) /\ Len(calls) > 0
      /\ turn.call \in 1 .. Len(calls) + 1
      /\ Begun(messages) /\ IsList(messages)
      /\ j \in 1 .. Len(messages) /\ messages[j] = MessageOf(asked)
      /\ Len(messages) + 1 = j + turn.call
      /\ Owing(messages, j, turn.call)
      /\ Brings(messages, asked, turn.call - 1)
      /\ UnderWay(Chain(state), messages, turn.round)
      /\ AsksForTools(asked) /\ InRounds /\ turn.done = AnswerState(asked)
  BY <1>1, Serving
<1>3. FactoryIInv' /\ Grows /\ UNCHANGED <<plain, streamOnly>>
  BY <1>1, QuietLibrary
<1> HIDE DEF messages, j, calls
<1>4. Len(calls) \in Nat /\ DOMAIN calls = 1 .. Len(calls)
      /\ turn.call = Len(calls) + 1
  <2>1. Len(calls) \in Nat /\ DOMAIN calls = 1 .. Len(calls)
    BY <1>2, ListFacts
  <2> QED  BY <1>1, <1>2, <2>1
<1>5. messages[j].tool_calls = calls
  BY <1>2 DEF calls
<1>6. Talk!CallsAreAnswered(messages)
  <2>1. \A n \in DOMAIN messages[j].tool_calls : n < turn.call
    BY <1>4, <1>5
  <2> QED  BY <1>2, <2>1, OwingNothing
<1>7. messages[Len(messages)].role = "tool"
  <2>1. Len(messages) \in Nat /\ DOMAIN messages = 1 .. Len(messages)
    BY <1>2, ListFacts
  <2>2. /\ j \in DOMAIN messages /\ Len(calls) \in DOMAIN messages[j].tool_calls
        /\ Len(calls) < turn.call
    BY <1>2, <1>4, <1>5, <2>1
  <2>3. messages[j + Len(calls)].role = "tool"
    BY <1>2, <2>2 DEF Owing
  <2>4. j + Len(calls) = Len(messages)
    <3>1. j \in Nat /\ Len(messages) + 1 = j + turn.call
      BY <1>2, <2>1
    <3>2. turn.call \in Nat /\ Len(calls) = turn.call - 1
      BY <1>1, <1>4
    <3> QED  BY <2>1, <3>1, <3>2
  <2> QED  BY <2>3, <2>4
<1>8. Ready(messages)
  BY <1>2, <1>6, <1>7 DEF Ready
<1>9. /\ turn'.state = turn.state /\ turn'.call = turn.call
      /\ turn'.round = turn.round + 1 /\ DOMAIN turn' = DOMAIN turn
  BY <1>1
<1>10. /\ AnswerState(asked)' = AnswerState(asked)
       /\ MessageOf(asked)' = MessageOf(asked)
       /\ AsksForTools(asked)' <=> AsksForTools(asked)
       /\ Body(asked)' = Body(asked)
       /\ CallsOf(AnswerState(asked))' = CallsOf(AnswerState(asked))
  BY <1>1, <1>2, <1>3, LastAnswer
<1>11. Held' /\ Past'
  BY <1>1, <1>3, HeldStays, PastAlone
<1>12. SessionControl'
  BY <1>1, <1>2, <1>9 DEF SessionControl, Steps, RequestNames
<1>13. /\ Chain(state)' = Chain(state) /\ Chain(turn.state)' = messages
       /\ turn'.state \in States'
  BY <1>1, <1>2, <1>3, <1>9, ChainStays DEF Chain, messages
<1>14. TurnState'
  <2>1. Ready(Chain(turn.state))'
    BY <1>8, <1>13 DEF Ready, Begun, Talk!CallsAreAnswered
  <2>2. Brings(Chain(turn.state), asked, Len(CallsOf(AnswerState(asked))))'
    <3>1. Len(CallsOf(AnswerState(asked))) = turn.call - 1
      BY <1>2, <1>4
    <3> QED  BY <1>2, <1>10, <1>13, <3>1 DEF Brings, IsPrefix
  <2>3. UnderWay(Chain(state), Chain(turn.state), turn.round - 1)'
    <3>1. turn'.round - 1 = turn.round
      BY <1>1, <1>9
    <3> QED  BY <1>2, <1>13, <3>1 DEF UnderWay, Since, Assistants, IsPrefix
  <2>4. turn'.round > 1 /\ asked' > 0 /\ AsksForTools(asked)'
    BY <1>1, <1>2, <1>9, <1>10 DEF InRounds
  <2> QED  BY <1>1, <1>13, <2>1, <2>2, <2>3, <2>4 DEF TurnState
<1>15. Turn'
  BY <1>1, <1>14 DEF Turn, ExitIsHonest
<1> QED  BY <1>3, <1>11, <1>12, <1>15 DEF SessionIInv

\* What a turn that succeeded comes back with: the end of a reply.
LEMMA TurnSucceeded ==
    ASSUME SessionIInv, step = "returning", Succeeded(turn.done)
    PROVE  /\ turn.done \in States
           /\ Chain(turn.done) = Append(Body(asked), MessageOf(asked))
           /\ MessageOf(asked).role = "assistant"
           /\ MessageOf(asked).tool_calls = <<>>
           /\ Ready(Body(asked)) /\ InRounds
           /\ UnderWay(Chain(state), Body(asked), turn.round - 1)
<1>1. FactoryIInv /\ SessionControl /\ Past /\ Turn /\ asked \in Nat
  BY Parts
<1>2. /\ asked \in RequestNames /\ AnswersTo(asked) # <<>>
      /\ Ready(Body(asked))
  <2>1. asked \in 1 .. asked
    BY <1>1 DEF SessionControl
  <2> QED  BY <1>1, <2>1 DEF SessionControl, Past
<1>3. turn.done # NullState
  BY DEF Succeeded
<1>4. /\ turn.done = AnswerState(asked) /\ ~ AsksForTools(asked) /\ InRounds
      /\ UnderWay(Chain(state), Body(asked), turn.round - 1)
  BY <1>1, <1>3 DEF Turn, Returned
<1>5. CallsOf(turn.done) = <<>>
  BY <1>4 DEF AsksForTools
<1> QED  BY <1>1, <1>2, <1>4, <1>5, AnswerFacts DEF CallsOf, MessageOf

\* Return: a success becomes the conversation, a failure ends the session.
LEMMA ReturnKeeps == ASSUME SessionIInv, Return PROVE SessionIInv'
<1>1. /\ FactoryIInv /\ SessionControl /\ Held /\ Past /\ Turn
      /\ asked \in Nat /\ step = "returning" /\ asked > 0
      /\ UNCHANGED <<factoryVars, options, initial_state, turn, asked>>
  BY Parts DEF Return, SessionControl
<1>2. FactoryIInv' /\ Grows /\ UNCHANGED <<plain, streamOnly>>
  BY <1>1, QuietLibrary
<1>3. /\ AnswerState(asked)' = AnswerState(asked)
      /\ nodes'[AnswerState(asked)] = nodes[AnswerState(asked)]
      /\ AsksForTools(asked)' <=> AsksForTools(asked)
      /\ asked \in RequestNames /\ AnswersTo(asked) # <<>>
  BY <1>1, <1>2, LastAnswer
<1>4. Past'
  BY <1>1, <1>2, PastAlone
<1>5. CASE options.interactive /\ Succeeded(turn.done)
  <2>1. step' = "prompt" /\ state' = turn.done
    BY <1>5 DEF Return
  <2>2. /\ turn.done \in States
        /\ Chain(turn.done) = Append(Body(asked), MessageOf(asked))
        /\ MessageOf(asked).role = "assistant"
        /\ MessageOf(asked).tool_calls = <<>>
        /\ Begun(Body(asked)) /\ IsList(Body(asked))
        /\ Talk!CallsAreAnswered(Body(asked))
    BY <1>1, <1>5, TurnSucceeded DEF Ready, Begun
  <2>3. IsList(MessageOf(asked).tool_calls)
    BY <2>2 DEF IsList
  <2>4. Begun(Chain(turn.done)) /\ Talk!CallsAreAnswered(Chain(turn.done))
    BY <2>2, <2>3, BegunWith, SettledWith
  <2>5. Held'
    <3>1. initial_state \in States /\ Chain(initial_state) = <<System>>
      BY <1>1 DEF Held
    <3>2. /\ initial_state' \in States' /\ state' \in States'
          /\ Chain(initial_state)' = <<System>>
          /\ Chain(state)' = Chain(turn.done)
      BY <1>1, <1>2, <2>1, <2>2, <3>1, ChainStays DEF Chain
    <3> QED  BY <2>4, <3>2 DEF Held, Begun, Talk!CallsAreAnswered
  <2>6. SessionControl'
    BY <1>1, <2>1 DEF SessionControl, Steps, RequestNames
  <2>7. ~ AsksForTools(asked)
    BY <1>1, <1>5 DEF Turn, Returned, Succeeded
  <2>8. Turn'
    BY <1>1, <1>3, <2>1, <2>7 DEF Turn, NothingOwed, ExitIsHonest
  <2> QED  BY <1>2, <1>4, <2>5, <2>6, <2>8 DEF SessionIInv
<1>6. CASE ~ (options.interactive /\ Succeeded(turn.done))
  <2>1. /\ step' = "exited" /\ UNCHANGED state
        /\ Succeeded(turn.done) => exit_code' = 0
        /\ ~ Succeeded(turn.done) => exit_code' = 1
    BY <1>6 DEF Return
  <2>2. Held'
    BY <1>1, <1>2, <2>1, HeldStays
  <2>3. SessionControl'
    BY <1>1, <2>1 DEF SessionControl, Steps, RequestNames
  <2>4. AnswerTo(asked)' = nodes[AnswerState(asked)]
    BY <1>1, <1>3 DEF AnswerTo, AnswerState, AnswersTo
  <2>5. AnswerState(asked) # NullState
    BY <1>1, <1>3, AnswerFacts
  <2>6. Succeeded(turn.done) <=>
            /\ nodes[AnswerState(asked)].log.status = "kSuccess"
            /\ nodes[AnswerState(asked)].message.tool_calls = <<>>
    BY <1>1, <2>5 DEF Turn, Returned, AsksForTools, Succeeded, CallsOf
  <2>7. exit_code' = 0 <=>
            /\ AnswerTo(asked)'.log.status = "kSuccess"
            /\ AnswerTo(asked)'.message.tool_calls = <<>>
    BY <2>1, <2>4, <2>6
  <2>8. ExitIsHonest'
    BY <1>1, <2>7 DEF ExitIsHonest
  <2>9. Turn'
    BY <2>1, <2>8 DEF Turn
  <2> QED  BY <1>2, <1>4, <2>2, <2>3, <2>9 DEF SessionIInv
<1> QED  BY <1>5, <1>6

\* Nothing happens.
LEMMA StutterKeeps == ASSUME SessionIInv, UNCHANGED sessionVars PROVE SessionIInv'
<1>1. /\ FactoryIInv /\ SessionControl /\ Held /\ Past /\ Turn
      /\ UNCHANGED factoryVars
      /\ UNCHANGED <<options, step, initial_state, state, turn, asked, exit_code>>
  BY Parts DEF sessionVars, demoVars
<1>2. /\ UNCHANGED <<nodes, plain, streamOnly>>
      /\ FactoryIInv' /\ Grows
  BY <1>1, QuietLibrary DEF factoryVars
<1>3. SessionControl' /\ Held' /\ Past'
  <2>1. SessionControl'
    BY <1>1 DEF SessionControl, RequestNames
  <2>2. Held'
    <3>1. CASE step = "start"
      BY <1>1, <3>1 DEF Held
    <3>2. CASE step # "start"
      BY <1>1, <1>2, <3>2, HeldStays
    <3> QED  BY <3>1, <3>2
  <2>3. \A n \in 1 .. asked :
            /\ Body(n)' = Body(n) /\ AnswersTo(n)' = AnswersTo(n)
            /\ n < asked \/ step' # "waiting" => AnswersTo(n) # <<>>
    BY <1>1, <1>2, RequestsStay DEF Past
  <2> QED  BY <1>1, <1>2, <2>1, <2>2, <2>3, PastStays
<1>4. /\ NothingOwed' <=> NothingOwed
      /\ InRounds' <=> InRounds
      /\ ExitIsHonest' <=> ExitIsHonest
      /\ \A r : UnderWay(Chain(state), Body(asked), r)'
                    <=> UnderWay(Chain(state), Body(asked), r)
  BY <1>1, <1>2
     DEF NothingOwed, InRounds, ExitIsHonest, UnderWay, Chain, Body,
         AnswerState, AnswersTo, AnswerTo, AsksForTools, Succeeded, CallsOf,
         Since, Assistants, IsPrefix, streamOnly
<1>5. TurnState' <=> TurnState
  BY <1>1, <1>2
     DEF TurnState, NothingOwed, Ready, Begun, Brings, Owing, UnderWay, Chain,
         States, Talk!CallsAreAnswered, IsPrefix, Body, MessageOf, AnswerState,
         AnswersTo, AsksForTools, Succeeded, CallsOf, Since, Assistants,
         streamOnly
<1>6. Returned' <=> Returned
  BY <1>1, <1>2
     DEF Returned, InRounds, UnderWay, Chain, Body, AnswerState, AnswersTo,
         AsksForTools, Succeeded, CallsOf, Since, Assistants, IsPrefix,
         streamOnly
<1>7. Turn'
  BY <1>1, <1>4, <1>5, <1>6 DEF Turn
<1> QED  BY <1>2, <1>3, <1>7 DEF SessionIInv

\* Every step keeps the invariant.
LEMMA SessionStepKeeps ==
    SessionIInv /\ [SessionNext]_sessionVars => SessionIInv'
BY SayKeeps, ResetKeeps, QuitKeeps, BuildKeeps, AskKeeps, ExceedKeeps,
   CollectKeeps, NextRoundKeeps, ReturnKeeps, RunToolKeeps, RunKeeps,
   StutterKeeps
   DEF SessionNext, Work, Exited

-----------------------------------------------------------------------------
(* The refinement *)

ThinkingSteps == {"asking", "waiting", "tools", "returning"}

\* The dialogue does not see what happens between a line and its reply.
LEMMA ThinkingStutters ==
    ASSUME SessionIInv, Grows, step \in ThinkingSteps, step' \in ThinkingSteps,
           UNCHANGED <<state, options>>
    PROVE  UNCHANGED Talk!dialogueVars
<1>1. state \in States
  BY DEF SessionIInv, Held, ThinkingSteps
<1>2. Kept = state /\ Kept' = state
  BY DEF Kept, ThinkingSteps
<1>3. CollectMessageChain(nodes, Kept)' = CollectMessageChain(nodes, Kept)
  BY <1>1, <1>2, ConversationsStay
<1>4. DialoguePhase = "thinking" /\ DialoguePhase' = "thinking"
  BY DEF DialoguePhase, Thinking, ThinkingSteps
<1> QED  BY <1>3, <1>4 DEF Talk!dialogueVars

\* Requests, rounds and tools are steps of that kind.
LEMMA WorkStutters ==
    ASSUME SessionIInv,
           \/ Ask \/ Exceed \/ RunRequest \/ Collect \/ NextRound
           \/ \E result \in ToolResults : RunTool(result)
    PROVE  UNCHANGED Talk!dialogueVars
<1>1. FactoryIInv /\ SessionControl /\ Held /\ Past /\ Turn
  BY Parts
<1>2. CASE Ask
  <2>1. turn.state \in States
    BY <1>1, <1>2 DEF Ask, Turn, TurnState
  <2> QED  BY <1>1, <1>2, <2>1, AskFacts, ThinkingStutters
           DEF Ask, ThinkingSteps
<1>3. CASE Exceed \/ Collect \/ NextRound
  <2>1. Grows
    BY <1>1, <1>3, QuietLibrary DEF Exceed, Collect, NextRound
  <2> QED  BY <1>3, <2>1, ThinkingStutters
           DEF Exceed, Collect, NextRound, ThinkingSteps
<1>4. CASE RunRequest
  <2>1. UNCHANGED <<step, state, options>> /\ step = "waiting"
    BY <1>4 DEF RunRequest, demoVars
  <2> QED  BY <1>1, <1>4, <2>1, RunRequestFacts, ThinkingStutters
           DEF ThinkingSteps
<1>5. ASSUME NEW result \in ToolResults, RunTool(result)
      PROVE  UNCHANGED Talk!dialogueVars
  <2>1. /\ step = "tools" /\ step' = "tools" /\ UNCHANGED <<state, options>>
        /\ AppendMessage(ToolMessage(CallsOf(turn.done)[turn.call], result),
                         turn.state)
        /\ UNCHANGED <<plain, streamOnly>>
    BY <1>5 DEF RunTool
  <2>2. turn.state \in States
    BY <1>1, <2>1 DEF Turn, TurnState
  <2>3. ToolMessage(CallsOf(turn.done)[turn.call], result).message \in Seq(Text)
    <3>1. <<result>> \in Seq(Text)
      BY ToolResultsAssumption
    <3> QED  BY <3>1 DEF ToolMessage
  <2>4. Grows
    BY <1>1, <2>1, <2>2, <2>3, DemoAppends
  <2> QED  BY <2>1, <2>4, ThinkingStutters DEF ThinkingSteps
<1> QED  BY <1>2, <1>3, <1>4, <1>5

\* The dialogue opens with the system prompt ...
LEMMA BuildOpens == ASSUME SessionIInv, BuildInitialState PROVE Talk!Open
<1>1. /\ FactoryIInv /\ StateTypeOK /\ step = "start" /\ step' = "prompt"
      /\ AppendMessage(System, NullState) /\ state' = NewState
      /\ UNCHANGED <<plain, streamOnly>>
  BY Parts DEF BuildInitialState
<1>2. CollectMessageChain(nodes', NewState) = Append(Chain(NullState), System)
  <2>1. NullState \in States \cup {NullState} /\ System.message \in Seq(Text)
    BY SystemAssumption
  <2> QED  BY <1>1, <2>1, DemoAppends
<1>3. Chain(NullState) = <<>>
  <2>1. IsHistory(nodes) /\ NullState \in 0 .. Len(nodes)
    BY <1>1, StatesAreAHistory DEF NullState, IsHistory
  <2> QED  BY <2>1, ChainRecurrence DEF Chain
<1>4. CollectMessageChain(nodes, Kept)' = <<System>>
  <2>1. Kept' = NewState
    BY <1>1 DEF Kept
  <2> QED  BY <1>2, <1>3, <2>1, SystemIsSettled
<1>5. DialoguePhase = "opening" /\ DialoguePhase' = "listening"
  BY <1>1 DEF DialoguePhase, Thinking
<1> QED  BY <1>4, <1>5 DEF Talk!Open

\* ... goes on with the line of the user ...
LEMMA SaySays ==
    ASSUME SessionIInv, NEW line \in Lines, Say(line) PROVE Talk!Say
<1>1. /\ FactoryIInv /\ Held /\ step = "prompt" /\ step' = "asking"
      /\ AppendMessage(line, state) /\ state' = NewState
      /\ UNCHANGED <<plain, streamOnly>>
  BY Parts DEF Say
<1>2. state \in States /\ line.message \in Seq(Text)
  BY <1>1, LinesAssumption DEF Held
<1>3. CollectMessageChain(nodes', NewState) = Append(Chain(state), line)
  BY <1>1, <1>2, DemoAppends
<1>4. Kept = state /\ Kept' = NewState
  BY <1>1 DEF Kept
<1>5. CollectMessageChain(nodes, Kept)'
          = Append(CollectMessageChain(nodes, Kept), line)
  BY <1>3, <1>4 DEF Chain
<1>6. DialoguePhase = "listening" /\ DialoguePhase' = "thinking"
  BY <1>1 DEF DialoguePhase, Thinking
<1> QED  BY <1>5, <1>6 DEF Talk!Say

\* ... begins again ...
LEMMA ResetResets == ASSUME SessionIInv, Reset PROVE Talk!Reset
<1>1. /\ FactoryIInv /\ Held /\ step = "prompt" /\ step' = "prompt"
      /\ state' = initial_state /\ UNCHANGED factoryVars
  BY Parts DEF Reset
<1>2. Kept' = initial_state /\ initial_state \in States
      /\ Chain(initial_state) = <<System>>
  BY <1>1 DEF Kept, Held
<1>3. CollectMessageChain(nodes, Kept)' = <<System>>
  BY <1>1, <1>2 DEF Chain, factoryVars
<1>4. DialoguePhase = "listening" /\ DialoguePhase' = "listening"
  BY <1>1 DEF DialoguePhase, Thinking
<1> QED  BY <1>3, <1>4 DEF Talk!Reset

\* ... or is left.
LEMMA QuitLeaves == ASSUME SessionIInv, Quit PROVE Talk!Leave
<1>1. /\ step = "prompt" /\ step' = "exited" /\ options.interactive
      /\ exit_code' = 0 /\ UNCHANGED <<factoryVars, state, options>>
  BY DEF Quit
<1>2. Kept = state /\ Kept' = state
  BY <1>1 DEF Kept
<1>3. CollectMessageChain(nodes, Kept)' = CollectMessageChain(nodes, Kept)
  BY <1>1, <1>2 DEF factoryVars
<1>4. DialoguePhase = "listening" /\ DialoguePhase' = "over"
  BY <1>1 DEF DialoguePhase, Thinking
<1> QED  BY <1>3, <1>4 DEF Talk!Leave

\* A turn that comes back is a reply, within the rounds a session may have, or the
\* demo gives up, and the conversation is what it was before the line.
LEMMA ReturnReplies ==
    ASSUME SessionIInv, Return PROVE Talk!Reply \/ Talk!GiveUp
<1>1. /\ FactoryIInv /\ Held /\ Past /\ StateTypeOK /\ options \in Options
      /\ step = "returning" /\ UNCHANGED <<factoryVars, options, turn>>
  BY Parts DEF Return
<1>2. Kept = state /\ state \in States /\ nodes' = nodes
      /\ Talk!CallsAreAnswered(Chain(state))
  BY <1>1 DEF Kept, Held, factoryVars
<1>3. DialoguePhase = "thinking"
  BY <1>1 DEF DialoguePhase, Thinking
<1>4. CASE Succeeded(turn.done)
  <2>1. /\ \/ step' = "prompt" /\ state' = turn.done
           \/ /\ step' = "exited" /\ exit_code' = 0 /\ ~ options'.interactive
        /\ UNCHANGED turn
    BY <1>1, <1>4 DEF Return
  <2>2. Kept' = turn.done /\ DialoguePhase' \in {"listening", "over"}
    BY <2>1 DEF Kept, DialoguePhase, Thinking
  <2>3. /\ Chain(turn.done) = Append(Body(asked), MessageOf(asked))
        /\ MessageOf(asked).role = "assistant"
        /\ MessageOf(asked).tool_calls = <<>>
        /\ Ready(Body(asked)) /\ InRounds
        /\ UnderWay(Chain(state), Body(asked), turn.round - 1)
    BY <1>1, <1>4, TurnSucceeded
  <2>4. IsList(Chain(state))
    BY <1>1, <1>2, ConversationIsList DEF Chain
  <2>5. /\ IsPrefix(Chain(state), Chain(turn.done))
        /\ Talk!IsReply(Since(Chain(state), Chain(turn.done)))
    BY <1>1, <1>2, <2>3, <2>4, ReplyEnds DEF Ready, InRounds
  <2>6. /\ CollectMessageChain(nodes, Kept) = Chain(state)
        /\ CollectMessageChain(nodes, Kept)' = Chain(turn.done)
    BY <1>2, <2>2 DEF Chain
  <2>7. Talk!Reply
    BY <1>3, <2>2, <2>5, <2>6 DEF Talk!Reply, Since, Talk!IsPrefix, IsPrefix
  <2> QED  BY <2>7
<1>5. CASE ~ Succeeded(turn.done)
  <2>1. step' = "exited" /\ exit_code' = 1 /\ UNCHANGED state
    BY <1>5 DEF Return
  <2>2. Kept' = state /\ DialoguePhase' = "failed"
    BY <2>1 DEF Kept, DialoguePhase, Thinking
  <2>3. CollectMessageChain(nodes, Kept)' = CollectMessageChain(nodes, Kept)
    BY <1>2, <2>2
  <2> QED  BY <1>3, <2>2, <2>3 DEF Talk!GiveUp
<1> QED  BY <1>4, <1>5

\* The dialogue is a function of what the session is.
LEMMA StutterStutters ==
    ASSUME UNCHANGED sessionVars PROVE UNCHANGED Talk!dialogueVars
BY DEF sessionVars, demoVars, factoryVars, Talk!dialogueVars, Kept,
       DialoguePhase, Thinking

\* Nothing is said in the beginning.
LEMMA InitOpens == ASSUME SessionInit PROVE Talk!DialogueInit
<1>1. SessionIInv /\ step = "start" /\ state = NullState
  BY InitKeeps DEF SessionInit
<1>2. Kept = NullState /\ DialoguePhase = "opening"
  BY <1>1 DEF Kept, DialoguePhase, Thinking
<1>3. CollectMessageChain(nodes, NullState) = <<>>
  <2>1. IsHistory(nodes) /\ NullState \in 0 .. Len(nodes)
    BY <1>1, Parts, StatesAreAHistory DEF NullState, IsHistory
  <2> QED  BY <2>1, ChainRecurrence
<1> QED  BY <1>2, <1>3 DEF Talk!DialogueInit

\* Every step of a session is a step of the dialogue, or none.
LEMMA SessionStepRefines ==
    SessionIInv /\ [SessionNext]_sessionVars
        => [Talk!DialogueNext]_Talk!dialogueVars
BY WorkStutters, BuildOpens, SaySays, ResetResets, QuitLeaves, ReturnReplies,
   StutterStutters
   DEF SessionNext, Work, Exited, Talk!DialogueNext

-----------------------------------------------------------------------------
(* Theorems *)

\* The invariant of a session: where the program is, the conversations it holds,
\* the requests it has made and what it owes the model.
THEOREM SessionInvariantHolds == SessionSpec => []SessionIInv
BY InitKeeps, SessionStepKeeps, PTL DEF SessionSpec

\* Every request begins with the system prompt, ends with the user's line or a
\* tool's result, and has the results of every call it contains next to it,
\* however many turns, rounds, calls and resets came before.
THEOREM RequestsWellFormed == SessionSpec => []RequestsAreWellFormed
<1>1. SessionIInv => RequestsAreWellFormed
  <2> SUFFICES ASSUME SessionIInv, NEW n \in 1 .. asked
               PROVE  /\ Head(Body(n)) = System
                      /\ Talk!CallsAreAnswered(Body(n))
                      /\ Last(Body(n)).role \in {"user", "tool"}
    BY DEF RequestsAreWellFormed
  <2>1. Ready(Body(n))
    BY DEF SessionIInv, Past
  <2>2. Head(Body(n)) = Body(n)[1]
    <3>1. Body(n) \in Seq(Range(Body(n))) /\ Len(Body(n)) > 0
      BY <2>1 DEF Ready, Begun, IsList
    <3> QED  BY <3>1
  <2> QED  BY <2>1, <2>2 DEF Ready, Begun, Last
<1> QED  BY <1>1, SessionInvariantHolds, PTL

\* The request after an answer that calls tools brings the model exactly the
\* results it asked for, behind the conversation it was asked in.
THEOREM ResultsReach == SessionSpec => []ResultsReachTheModel
<1>1. SessionIInv => ResultsReachTheModel
  <2> SUFFICES ASSUME SessionIInv, NEW n \in 1 .. asked - 1, AsksForTools(n)
               PROVE  /\ IsPrefix(Append(Body(n), MessageOf(n)), Body(n + 1))
                      /\ Len(Body(n + 1)) = Len(Body(n)) + 1
                                + Len(CallsOf(AnswerState(n)))
    BY DEF ResultsReachTheModel, AsksForTools, CallsOf, MessageOf, AnswerState,
           AnswersTo, AnswerTo
  <2> QED  BY DEF SessionIInv, Past, Brings
<1> QED  BY <1>1, SessionInvariantHolds, PTL

\* The exit code is 0 exactly when the last answer is a reply, unless the user
\* ended the session.
THEOREM HonestExit == SessionSpec => []ExitIsHonest
<1>1. SessionIInv => ExitIsHonest
  BY DEF SessionIInv, Turn
<1> QED  BY <1>1, SessionInvariantHolds, PTL

\* The session is a dialogue: rounds, failures and resets leave no trace but the
\* messages that belong to the conversation, and a reply takes no more rounds
\* than the session may have.
THEOREM SessionIsADialogue == SessionSpec => IsADialogue
<1>1. SessionInit => Talk!DialogueInit
  BY InitOpens
<1>2. SessionIInv /\ [SessionNext]_sessionVars
          => [Talk!DialogueNext]_Talk!dialogueVars
  BY SessionStepRefines
<1> QED
  BY <1>1, <1>2, SessionInvariantHolds, PTL
     DEF SessionSpec, IsADialogue, Talk!DialogueSpec
=============================================================================
