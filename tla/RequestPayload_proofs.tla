------------------------- MODULE RequestPayload_proofs -------------------------
(***************************************************************************)
(* The body of a request, for any messages, tools and parameters: its own  *)
(* fields are the request's, and the conversation in it reads back as the  *)
(* one that is continued.  The latter rests on what is known of every tool *)
(* call in the history, wherever it came from.                             *)
(***************************************************************************)
EXTENDS RequestPayload, OaiFactory_proofs

-----------------------------------------------------------------------------
(* The fields of a payload *)

\* Which fields a payload has, and what they hold.
LEMMA PayloadFields ==
    ASSUME NEW messages, NEW tools, NEW stream
    PROVE  LET payload == BuildRequestPayload(messages, tools, stream)
               own == {"model", "stream", "messages", "tools"}
           IN  /\ payload["model"] = Model
               /\ payload["stream"] = stream
               /\ payload["messages"] = BuildRequestMessagesArray(messages)
               /\ tools # <<>> =>
                      payload["tools"] = BuildRequestToolsArray(tools)
               /\ "tools" \in DOMAIN payload <=> tools # <<>>
               /\ DOMAIN payload \ own = DOMAIN Params \ own
               /\ \A key \in DOMAIN Params \ own : payload[key] = Params[key]
<1> DEFINE payload == BuildRequestPayload(messages, tools, stream)
           names == {"model", "stream", "messages", "tools"}
           fields == [model |-> Model, stream |-> stream,
                      messages |-> BuildRequestMessagesArray(messages),
                      tools |-> BuildRequestToolsArray(tools)]
           own == {"model", "stream", "messages"}
                  \cup Optional("tools", tools, <<>>)
           params == MergeModelParamsIntoRoot(Params)
<1>1. payload = [key \in DOMAIN params \cup own |->
                    IF key \in own THEN fields[key] ELSE params[key]]
  BY DEF BuildRequestPayload
<1>2. /\ fields["model"] = Model /\ fields["stream"] = stream
      /\ fields["messages"] = BuildRequestMessagesArray(messages)
      /\ fields["tools"] = BuildRequestToolsArray(tools)
  OBVIOUS
<1>3. /\ DOMAIN params = DOMAIN Params \ names
      /\ \A key \in DOMAIN params : params[key] = Params[key]
  BY DEF MergeModelParamsIntoRoot, IsReservedRequestField
<1>4. /\ own \subseteq names
      /\ "model" \in own /\ "stream" \in own /\ "messages" \in own
      /\ "tools" \in own <=> tools # <<>>
  BY DEF Optional
<1> HIDE DEF payload, fields, own, params
<1>5. /\ payload["model"] = Model /\ payload["stream"] = stream
      /\ payload["messages"] = BuildRequestMessagesArray(messages)
      /\ tools # <<>> => payload["tools"] = BuildRequestToolsArray(tools)
  BY <1>1, <1>2, <1>4
<1>6. DOMAIN payload = (DOMAIN Params \ names) \cup own
  BY <1>1, <1>3
<1>7. \A key \in DOMAIN Params \ names : payload[key] = Params[key]
  BY <1>1, <1>3, <1>4
<1> QED  BY <1>4, <1>5, <1>6, <1>7 DEF payload

\* What was sent is the payload of its messages and tools.
LEMMA SentPayload ==
    ASSUME NEW sent \in Sent
    PROVE  /\ sent.tools \in ToolLists
           /\ sent.payload
                  = BuildRequestPayload(sent.messages, sent.tools, sent.stream)
           /\ \/ \E p \in PlainRequests :
                     /\ plain[p].base # NullState /\ sent.state = plain[p].base
                     /\ sent.messages = plain[p].request_body
              \/ \E r \in Requests :
                     /\ base[r] # NullState /\ sent.state = base[r]
                     /\ sent.messages = request_body[r]
<1>1. ASSUME NEW state, NEW messages, NEW stream,
             sent \in Sending(state, messages, stream)
      PROVE  /\ sent.tools \in ToolLists /\ sent.messages = messages
             /\ sent.state = state
             /\ sent.payload
                  = BuildRequestPayload(sent.messages, sent.tools, sent.stream)
  <2>1. PICK tools \in ToolLists :
            sent = [state |-> state, messages |-> messages, tools |-> tools,
                    stream |-> stream,
                    payload |-> BuildRequestPayload(messages, tools, stream)]
    BY <1>1 DEF Sending
  <2> QED  BY <2>1
<1>2. \/ \E p \in PlainRequests :
             /\ plain[p].base # NullState
             /\ sent \in Sending(plain[p].base, plain[p].request_body, FALSE)
      \/ \E r \in Requests :
             /\ base[r] # NullState
             /\ sent \in Sending(base[r], request_body[r], TRUE)
  BY DEF Sent
<1> QED  BY <1>1, <1>2

\* ... which are the conversation of the state it was asked of.
LEMMA SentConversation ==
    ASSUME FactoryIInv, NEW sent \in Sent
    PROVE  /\ sent.state \in States \cup {NullState}
           /\ sent.messages = CollectMessageChain(nodes, sent.state)
<1>1. ASSUME NEW p \in PlainRequests, plain[p].base # NullState
      PROVE  /\ plain[p].base \in States \cup {NullState}
             /\ plain[p].request_body = CollectMessageChain(nodes, plain[p].base)
  BY <1>1 DEF FactoryIInv, PlainIInv, Continuing, PlainTypeOK
<1>2. ASSUME NEW r \in Requests, base[r] # NullState
      PROVE  /\ base[r] \in States \cup {NullState}
             /\ request_body[r] = CollectMessageChain(nodes, base[r])
  BY <1>2 DEF FactoryIInv, AnswersIInv, SentItsConversation, StreamIInv,
              StreamTypeOK
<1> QED  BY <1>1, <1>2, SentPayload

\* The fields of a message's object, and what they hold.
LEMMA MessageFields ==
    ASSUME NEW m
    PROVE  LET object == BuildRequestMessageObject(m)
           IN  /\ object["role"] = m.role /\ object["content"] = m.message
               /\ "tool_calls" \in DOMAIN object <=> m.tool_calls # <<>>
               /\ m.tool_calls # <<>> =>
                      object["tool_calls"]
                          = BuildRequestToolCallsArray(m.tool_calls)
               /\ "tool_call_id" \in DOMAIN object <=> m.tool_call_id # ""
               /\ m.tool_call_id # "" =>
                      object["tool_call_id"] = m.tool_call_id
<1> DEFINE object == BuildRequestMessageObject(m)
           calls == BuildRequestToolCallsArray(m.tool_calls)
           fields == [role |-> m.role, content |-> m.message,
                      tool_calls |-> calls, tool_call_id |-> m.tool_call_id]
           keys == {"role", "content"}
                   \cup Optional("tool_calls", m.tool_calls, <<>>)
                   \cup Optional("tool_call_id", m.tool_call_id, "")
<1>1. object = Restrict(fields, keys)
  BY DEF BuildRequestMessageObject
<1>2. DOMAIN object = keys /\ \A key \in keys : object[key] = fields[key]
  BY <1>1 DEF Restrict
<1>3. /\ fields["role"] = m.role /\ fields["content"] = m.message
      /\ fields["tool_calls"] = calls
      /\ fields["tool_call_id"] = m.tool_call_id
  OBVIOUS
<1>4. /\ "role" \in keys /\ "content" \in keys
      /\ "tool_calls" \in keys <=> m.tool_calls # <<>>
      /\ "tool_call_id" \in keys <=> m.tool_call_id # ""
  BY DEF Optional
<1> HIDE DEF object, fields, keys, calls
<1>5. /\ object["role"] = m.role /\ object["content"] = m.message
      /\ "tool_calls" \in DOMAIN object <=> m.tool_calls # <<>>
      /\ m.tool_calls # <<>> => object["tool_calls"] = calls
      /\ "tool_call_id" \in DOMAIN object <=> m.tool_call_id # ""
      /\ m.tool_call_id # "" => object["tool_call_id"] = m.tool_call_id
  BY <1>2, <1>3, <1>4
<1> QED  BY <1>5 DEF object, calls

\* The objects of a list of messages are theirs.
LEMMA ArrayIsOfMessages ==
    ASSUME NEW messages, IsList(messages)
    PROVE  AreMessagesOf(BuildRequestMessagesArray(messages), messages)
<1> DEFINE objects == BuildRequestMessagesArray(messages)
<1>1. Len(messages) \in Nat /\ DOMAIN messages = 1 .. Len(messages)
  BY DEF IsList
<1>2. objects = [k \in 1 .. Len(messages) |->
                     BuildRequestMessageObject(messages[k])]
  BY <1>1 DEF BuildRequestMessagesArray
<1> HIDE DEF objects
<1>3. Len(objects) = Len(messages)
  BY <1>1, <1>2
<1>4. \A k \in DOMAIN messages :
          objects[k] = BuildRequestMessageObject(messages[k])
  BY <1>1, <1>2
<1>5. AreMessagesOf(objects, messages)
  BY <1>3, <1>4, MessageFields DEF AreMessagesOf
<1> QED  BY <1>5 DEF objects

\* Whatever parameters the model has, the fields of every payload sent are the
\* request's, its messages are those of the conversation it continues, and the
\* other parameters are all there (BuildRequestPayload).
THEOREM FieldsAreTheRequests == FactorySpec => []RequestFieldsAreTheRequests
<1>1. ASSUME NEW sent \in Sent
      PROVE  sent.tools # <<>> =>
                 /\ Len(sent.payload["tools"]) = Len(sent.tools)
                 /\ \A k \in DOMAIN sent.tools :
                        sent.payload["tools"][k]["function"] = sent.tools[k]
  <2> SUFFICES ASSUME sent.tools # <<>>
               PROVE  /\ Len(sent.payload["tools"]) = Len(sent.tools)
                      /\ \A k \in DOMAIN sent.tools :
                             sent.payload["tools"][k]["function"] = sent.tools[k]
    OBVIOUS
  <2>1. sent.payload["tools"] = BuildRequestToolsArray(sent.tools)
    BY SentPayload, PayloadFields
  <2>2. sent.tools \in Seq(Range(sent.tools))
    BY SentPayload, ToolListsAssumption
  <2> QED  BY <2>1, <2>2 DEF BuildRequestToolsArray
<1>2. ASSUME FactoryIInv, NEW sent \in Sent
      PROVE  AreMessagesOf(sent.payload["messages"],
                           CollectMessageChain(nodes, sent.state))
  <2>1. sent.payload["messages"] = BuildRequestMessagesArray(sent.messages)
    BY SentPayload, PayloadFields
  <2>2. StateTypeOK
    BY <1>2 DEF FactoryIInv, PlainIInv, PlainTypeOK
  <2> QED  BY <1>2, <2>1, <2>2, SentConversation, ConversationIsList,
              ArrayIsOfMessages
<1>3. FactoryIInv => RequestFieldsAreTheRequests
  BY <1>1, <1>2, SentPayload, PayloadFields DEF RequestFieldsAreTheRequests
<1> QED  BY <1>3, FactoryInvariantHolds, PTL

-----------------------------------------------------------------------------
(* Tool calls that are read are ones that can be sent *)

\* An argument text that is present is read as a JSON value.
LEMMA ReadIsJson ==
    ASSUME NEW text, text # Absent
    PROVE  IsJson(ParseOrText(text))
<1>1. CASE text \in DOMAIN Parse
  BY <1>1, SerializeAssumption DEF ParseOrText
<1>2. CASE text \notin DOMAIN Parse
  BY <1>2 DEF ParseOrText, IsJson, StringValue
<1> QED  BY <1>1, <1>2

\* A call read with an id and a name is sendable unless it is dropped.
LEMMA ReadIsSendable ==
    ASSUME NEW id, id # Absent, NEW name, name # Absent,
           NEW arguments, IsJson(arguments),
           [id |-> id, name |-> name, arguments |-> arguments] # NoCall
    PROVE  IsSendable([id |-> id, name |-> name, arguments |-> arguments])
<1> DEFINE call == [id |-> id, name |-> name, arguments |-> arguments]
<1>1. call.id = id /\ call.name = name /\ call.arguments = arguments
  OBVIOUS
<1>2. call = [id |-> call.id, name |-> call.name, arguments |-> call.arguments]
  OBVIOUS
<1>3. call # NoCall
  OBVIOUS
<1> HIDE DEF call
<1>4. IsSendable(call)
  BY <1>1, <1>2, <1>3 DEF IsSendable, IsCall
<1> QED  BY <1>4 DEF call

\* What an absent field leaves in place is not absent either.
LEMMA OverwriteIsPresent ==
    ASSUME NEW old, old # Absent, NEW field
    PROVE  Overwrite(old, field) # Absent
BY DEF Overwrite

LEMMA EmptyIsPresent == "" # Absent
BY StringsAssumption, AbsentAssumption

\* The calls of a plain response are sendable, whatever the response holds.
LEMMA ParsedAreSendable ==
    ASSUME NEW array, IsList(array)
    PROVE  \A k \in DOMAIN ParseToolCallsFromArray(array) :
               IsSendable(ParseToolCallsFromArray(array)[k])
<1> DEFINE Call(item) ==
               IF item = NotAnObject THEN NoCall
               ELSE [id |-> Overwrite("", item.id),
                     name |-> Overwrite("", item.name),
                     arguments |-> IF item.arguments = Absent THEN NullValue
                                   ELSE ParseOrText(item.arguments)]
           read == [k \in DOMAIN array |-> Call(array[k])]
<1>1. ParseToolCallsFromArray(array) = Without(read, NoCall)
  BY DEF ParseToolCallsFromArray
<1>2. ASSUME NEW item, Call(item) # NoCall PROVE IsSendable(Call(item))
  <2>1. item # NotAnObject
    BY <1>2
  <2>2. Overwrite("", item.id) # Absent /\ Overwrite("", item.name) # Absent
    BY EmptyIsPresent, OverwriteIsPresent
  <2>3. IsJson(IF item.arguments = Absent THEN NullValue
               ELSE ParseOrText(item.arguments))
    BY ReadIsJson, SerializeAssumption
  <2> QED  BY <1>2, <2>1, <2>2, <2>3, ReadIsSendable
<1> HIDE DEF Call
<1>3. Len(read) \in Nat /\ DOMAIN read = 1 .. Len(read)
  BY DEF IsList
<1> HIDE DEF read
<1>4. /\ IsList(Without(read, NoCall))
      /\ \A k \in 1 .. Len(Without(read, NoCall)) :
             /\ Without(read, NoCall)[k] # NoCall
             /\ \E j \in 1 .. Len(read) : Without(read, NoCall)[k] = read[j]
  BY <1>3, WithoutIsList, WithoutIsFrom
<1>5. \A j \in 1 .. Len(read) : read[j] = Call(array[j])
  BY <1>3 DEF read
<1>6. DOMAIN Without(read, NoCall) = 1 .. Len(Without(read, NoCall))
  BY <1>4 DEF IsList
<1> QED  BY <1>1, <1>2, <1>4, <1>5, <1>6

\* What is known of accumulated calls: there are finitely many, by index, their
\* ids and names are there and their argument texts consist of atoms.
Accumulated(accumulators) ==
    /\ IsFiniteSet(DOMAIN accumulators) /\ DOMAIN accumulators \subseteq Nat
    /\ \A i \in DOMAIN accumulators :
          /\ accumulators[i].id # Absent /\ accumulators[i].name # Absent
          /\ accumulators[i].arguments_text \in Seq(Atoms)

\* So are the calls of a stream, whatever was streamed.
LEMMA BuiltAreSendable ==
    ASSUME NEW accumulators, Accumulated(accumulators)
    PROVE  \A k \in DOMAIN BuildToolCallsFromAccumulation(accumulators) :
               IsSendable(BuildToolCallsFromAccumulation(accumulators)[k])
<1> DEFINE Call(acc) ==
               [id |-> acc.id, name |-> acc.name,
                arguments |-> IF acc.arguments_text = <<>> THEN NullValue
                              ELSE ParseOrText(acc.arguments_text)]
           N == Cardinality(DOMAIN accumulators)
           Nth(n) == NthIndex(DOMAIN accumulators, n)
           read == [n \in 1 .. N |-> Call(accumulators[Nth(n)])]
<1>1. BuildToolCallsFromAccumulation(accumulators) = Without(read, NoCall)
  BY DEF BuildToolCallsFromAccumulation
<1>2. ASSUME NEW i \in DOMAIN accumulators, Call(accumulators[i]) # NoCall
      PROVE  IsSendable(Call(accumulators[i]))
  <2> DEFINE acc == accumulators[i]
  <2>1. acc.id # Absent /\ acc.name # Absent /\ acc.arguments_text # Absent
    BY AtomsAssumption DEF Accumulated
  <2>2. IsJson(IF acc.arguments_text = <<>> THEN NullValue
               ELSE ParseOrText(acc.arguments_text))
    BY <2>1, ReadIsJson, SerializeAssumption
  <2> QED  BY <1>2, <2>1, <2>2, ReadIsSendable
<1> HIDE DEF Call
<1>3. N \in Nat
  BY FS_CardinalityType DEF Accumulated
<1>4. ASSUME NEW n \in 1 .. N PROVE Nth(n) \in DOMAIN accumulators
  BY <1>3, NthIsAnIndex DEF Accumulated
<1> HIDE DEF N, Nth
<1>5. Len(read) = N
  BY <1>3
<1>6. \A j \in 1 .. Len(read) : read[j] = Call(accumulators[Nth(j)])
  BY <1>5
<1> HIDE DEF read
<1>7. /\ IsList(Without(read, NoCall))
      /\ \A k \in 1 .. Len(Without(read, NoCall)) :
             /\ Without(read, NoCall)[k] # NoCall
             /\ \E j \in 1 .. Len(read) : Without(read, NoCall)[k] = read[j]
  BY <1>3, <1>5, WithoutIsList, WithoutIsFrom
<1>8. DOMAIN Without(read, NoCall) = 1 .. Len(Without(read, NoCall))
  BY <1>7 DEF IsList
<1> QED  BY <1>1, <1>2, <1>4, <1>5, <1>6, <1>7, <1>8

\* A fragment whose argument text, if any, consists of atoms.
IsOfAtoms(fragment) ==
    /\ IsFragment(fragment)
    /\ fragment # NotAnObject =>
           fragment.arguments \in Seq(Atoms) \cup {Absent}

\* One more fragment keeps what is known of the accumulated calls ...
LEMMA FragmentIsAccumulated ==
    ASSUME NEW acc, Accumulated(acc), NEW fragment, IsOfAtoms(fragment),
           NEW position \in Nat
    PROVE  Accumulated(AccumulateFragment(acc, fragment, position))
<1>1. CASE fragment = NotAnObject
  BY <1>1 DEF AccumulateFragment
<1>2. CASE fragment # NotAnObject
  <2> DEFINE index == Overwrite(position, fragment.index)
             old == IF index \in DOMAIN acc THEN acc[index]
                    ELSE EmptyAccumulator
             new == [id |-> Overwrite(old.id, fragment.id),
                     name |-> Overwrite(old.name, fragment.name),
                     arguments_text |-> old.arguments_text
                         \o Overwrite(<<>>, fragment.arguments)]
             next == AccumulateFragment(acc, fragment, position)
  <2>1. next = [i \in DOMAIN acc \cup {index} |->
                   IF i = index THEN new ELSE acc[i]]
    BY <1>2 DEF AccumulateFragment
  <2>2. index \in Nat
    BY <1>2 DEF Overwrite, IsOfAtoms, IsFragment
  <2>3. /\ old.id # Absent /\ old.name # Absent
        /\ old.arguments_text \in Seq(Atoms)
    <3>1. CASE index \in DOMAIN acc
      BY <3>1 DEF Accumulated
    <3>2. CASE index \notin DOMAIN acc
      <4>1. old = EmptyAccumulator
        BY <3>2
      <4>2. /\ EmptyAccumulator.id = "" /\ EmptyAccumulator.name = ""
            /\ EmptyAccumulator.arguments_text = <<>>
        BY DEF EmptyAccumulator
      <4>3. <<>> \in Seq(Atoms)
        OBVIOUS
      <4> QED  BY <4>1, <4>2, <4>3, EmptyIsPresent
    <3> QED  BY <3>1, <3>2
  <2>4. Overwrite(<<>>, fragment.arguments) \in Seq(Atoms)
    BY <1>2 DEF Overwrite, IsOfAtoms, IsFragment
  <2>5. new.id # Absent /\ new.name # Absent
    BY <2>3, OverwriteIsPresent
  <2> HIDE DEF index, old
  <2>6. new.arguments_text \in Seq(Atoms)
    BY <2>3, <2>4
  <2> HIDE DEF new, next
  <2>7. DOMAIN next = DOMAIN acc \cup {index}
    BY <2>1
  <2>8. IsFiniteSet(DOMAIN next) /\ DOMAIN next \subseteq Nat
    BY <2>2, <2>7, FS_AddElement DEF Accumulated
  <2>9. ASSUME NEW i \in DOMAIN next
        PROVE  /\ next[i].id # Absent /\ next[i].name # Absent
               /\ next[i].arguments_text \in Seq(Atoms)
    BY <2>1, <2>5, <2>6, <2>7 DEF Accumulated
  <2>10. Accumulated(next)
    BY <2>8, <2>9 DEF Accumulated
  <2> QED  BY <2>10 DEF next
<1> QED  BY <1>1, <1>2

\* ... and so do all the fragments of a payload.
LEMMA PayloadIsAccumulated ==
    ASSUME NEW acc, Accumulated(acc), NEW fragments, IsList(fragments),
           \A k \in DOMAIN fragments : IsOfAtoms(fragments[k])
    PROVE  Accumulated(AccumulateStreamToolCalls(acc, fragments))
<1> DEFINE sofar == CHOOSE g : AreSofar(acc, fragments, g)
           S == {n \in 0 .. Len(fragments) : ~ Accumulated(sofar[n])}
<1>1. Len(fragments) \in Nat /\ DOMAIN fragments = 1 .. Len(fragments)
  BY DEF IsList
<1>2. AreSofar(acc, fragments, sofar)
  BY <1>1, SofarExists
<1>3. AccumulateStreamToolCalls(acc, fragments) = sofar[Len(fragments)]
  BY DEF AccumulateStreamToolCalls, AreSofar, SofarStep
<1> HIDE DEF sofar
<1>4. \A n \in 0 .. Len(fragments) :
          sofar[n] = SofarStep(acc, fragments, sofar, n)
  BY <1>2 DEF AreSofar
<1>5. ASSUME S # {} PROVE FALSE
  <2>1. PICK m \in S : \A k \in S : m <= k
    <3>1. S \in SUBSET Nat
      BY <1>1
    <3> HIDE DEF S
    <3> QED  BY <1>5, <3>1, Least
  <2>2. CASE m = 0
    BY <1>4, <2>1, <2>2 DEF SofarStep
  <2>3. CASE m # 0
    <3>1. /\ m - 1 \in 0 .. Len(fragments) /\ ~ (m <= m - 1)
          /\ m - 1 \in Nat /\ m \in 1 .. Len(fragments)
      BY <1>1, <2>1, <2>3
    <3>2. Accumulated(sofar[m - 1]) /\ IsOfAtoms(fragments[m])
      BY <1>1, <2>1, <3>1
    <3>3. sofar[m] = AccumulateFragment(sofar[m - 1], fragments[m], m - 1)
      BY <1>4, <2>1, <2>3 DEF SofarStep
    <3>4. Accumulated(sofar[m])
      BY <3>1, <3>2, <3>3, FragmentIsAccumulated
    <3> QED  BY <2>1, <3>4
  <2> QED  BY <2>2, <2>3
<1> QED  BY <1>1, <1>3, <1>5

-----------------------------------------------------------------------------
(* Messages that can be sent *)

\* Every message of a conversation is that of a node.
LEMMA ConversationIsOfNodes ==
    ASSUME StateTypeOK, NEW s \in States \cup {NullState}
    PROVE  \A k \in DOMAIN CollectMessageChain(nodes, s) :
               \E n \in States :
                   CollectMessageChain(nodes, s)[k] = nodes[n].message
<1> DEFINE Chain(n) == CollectMessageChain(nodes, n)
           OfNodes(list) == \A k \in DOMAIN list :
                                \E n \in States : list[k] = nodes[n].message
           S == {n \in 0 .. Len(nodes) : ~ OfNodes(Chain(n))}
<1>1. IsHistory(nodes) /\ States = 1 .. Len(nodes) /\ Len(nodes) \in Nat
  BY StatesAreAHistory DEF IsHistory
<1>2. ASSUME S # {} PROVE FALSE
  <2>1. PICK m \in S : \A k \in S : m <= k
    <3>1. S \in SUBSET Nat
      BY <1>1
    <3> HIDE DEF S
    <3> QED  BY <1>2, <3>1, Least
  <2>2. m \in 0 .. Len(nodes) /\ ~ OfNodes(Chain(m))
    BY <2>1
  <2>3. CASE m = NullState
    <3>1. Chain(m) = <<>>
      BY <1>1, <2>2, <2>3, ChainRecurrence
    <3> QED  BY <2>2, <3>1
  <2>4. CASE m # NullState
    <3>1. m \in States
      BY <1>1, <2>2, <2>4 DEF NullState
    <3>2. nodes[m].previous \in 0 .. m - 1
      BY <1>1, <3>1 DEF IsHistory
    <3>3. /\ nodes[m].previous \in 0 .. Len(nodes)
          /\ ~ (m <= nodes[m].previous)
      BY <1>1, <2>2, <3>2
    <3>4. OfNodes(Chain(nodes[m].previous))
      BY <2>1, <3>3
    <3>5. Chain(m) = Append(Chain(nodes[m].previous), nodes[m].message)
      BY <3>1, NodeContinues
    <3>6. IsList(Chain(nodes[m].previous))
      BY <3>1, NodeContinues, ConversationIsList
    <3>7. ASSUME NEW list, IsList(list), OfNodes(list)
          PROVE  OfNodes(Append(list, nodes[m].message))
      BY <3>1, <3>7, ListAppend
    <3> HIDE DEF OfNodes, Chain
    <3> QED  BY <2>2, <3>4, <3>5, <3>6, <3>7
  <2> QED  BY <2>3, <2>4
<1>3. s \in 0 .. Len(nodes)
  BY <1>1 DEF NullState
<1> QED  BY <1>2, <1>3

\* The messages the library makes: an empty one, that of a plain response, and
\* that of a stream.
IsMessage(m) == m = [role |-> m.role, message |-> m.message,
                     tool_calls |-> m.tool_calls, reasoning |-> m.reasoning,
                     tool_call_id |-> m.tool_call_id]

LEMMA EmptyIsSendable == Sendable(EmptyAssistant)
<1>1. EmptyAssistant.tool_calls = <<>>
  BY DEF EmptyAssistant
<1>2. <<>> \in Seq(Range(<<>>))
  OBVIOUS
<1>3. IsMessage(EmptyAssistant)
  BY DEF IsMessage, EmptyAssistant
<1> QED  BY <1>1, <1>2, <1>3 DEF Sendable, IsMessage

LEMMA PlainIsSendable ==
    ASSUME NEW m \in ChoiceMessages
    PROVE  Sendable(AssistantMessage(m))
<1>1. IsList(m.tool_calls)
  BY BodiesAssumption DEF IsList
<1>2. AssistantMessage(m).tool_calls = ParseToolCallsFromArray(m.tool_calls)
  BY DEF AssistantMessage
<1>3. IsMessage(AssistantMessage(m))
  BY DEF AssistantMessage, IsMessage
<1>4. IsList(ParseToolCallsFromArray(m.tool_calls))
  BY <1>1, ParsedCallsAreAList
<1> QED
  BY <1>1, <1>2, <1>3, <1>4, ParsedAreSendable DEF Sendable, IsMessage, IsList

LEMMA StreamedIsSendable ==
    ASSUME NEW a, NEW calls, Accumulated(calls)
    PROVE  Sendable(FinishedMessage(a, calls))
<1>1. FinishedMessage(a, calls).tool_calls
          = BuildToolCallsFromAccumulation(calls)
  BY DEF FinishedMessage, EmptyAssistant
<1>2. IsMessage(FinishedMessage(a, calls))
  <2> DEFINE m == FinishedMessage(a, calls)
  <2>1. DOMAIN m = {"role", "message", "tool_calls", "reasoning",
                    "tool_call_id"}
    BY DEF FinishedMessage, EmptyAssistant
  <2>2. m = [key \in DOMAIN m |-> m[key]]
    BY DEF FinishedMessage, EmptyAssistant
  <2> HIDE DEF m
  <2>3. IsMessage(m)
    BY <2>1, <2>2 DEF IsMessage
  <2> QED  BY <2>3 DEF m
<1>3. IsList(BuildToolCallsFromAccumulation(calls))
  BY BuiltCallsAreAList DEF Accumulated
<1> QED  BY <1>1, <1>2, <1>3, BuiltAreSendable DEF Sendable, IsMessage, IsList

\* The inductive invariant.
PayloadIInv ==
    /\ FactoryIInv
    /\ \A n \in States : Sendable(nodes[n].message)
    /\ \A r \in Requests : Accumulated(tool_calls[r])

\* A step adds no message but one that can be sent.
AddsSendable ==
    \/ UNCHANGED nodes
    \/ \E message, log, prev :
          AllocateState(message, log, prev) /\ Sendable(message)

LEMMA PlainAddsSendable ==
    ASSUME NEW r \in PlainRequests, PlainAcquire(r) \/ PlainRespond(r)
    PROVE  AddsSendable
<1>1. ASSUME NEW message, NEW log, PlainAnswer(r, message, log),
             Sendable(message)
      PROVE  AddsSendable
  BY <1>1 DEF PlainAnswer, AddsSendable
<1>2. ASSUME NEW log, NEW error, PlainFailure(r, log, error)
      PROVE  AddsSendable
  BY <1>1, <1>2, EmptyIsSendable DEF PlainFailure
<1>3. ASSUME PlainAcquire(r) PROVE AddsSendable
  BY <1>2, <1>3 DEF PlainAcquire, OnPlainAcquired, OnPlainAcquireFailed,
                    AddsSendable
<1>4. ASSUME PlainRespond(r) PROVE AddsSendable
  <2>1. PICK failed \in BOOLEAN, cancelled \in BOOLEAN, code \in HttpCodes,
             requestId \in {Absent, "header"}, body \in Bodies :
             OnDone(r, failed, cancelled, code, requestId, body)
    BY <1>4 DEF PlainRespond
  <2>2. \/ \E log, error : PlainFailure(r, log, error)
        \/ \E log : ParseBody(r, log, body)
    BY <2>1 DEF OnDone
  <2>3. ASSUME NEW log, ParseBody(r, log, body) PROVE AddsSendable
    <3>1. \/ \E l, error : PlainFailure(r, l, error)
          \/ /\ body \notin {NotJson, NotAnObject}
             /\ body.choice # Absent /\ body.choice.message # Absent
             /\ \E l : PlainAnswer(r, AssistantMessage(body.choice.message), l)
      BY <2>3 DEF ParseBody
    <3>2. ASSUME body \notin {NotJson, NotAnObject},
                 body.choice # Absent, body.choice.message # Absent,
                 NEW l,
                 PlainAnswer(r, AssistantMessage(body.choice.message), l)
          PROVE  AddsSendable
      <4>1. body.choice.message \in ChoiceMessages
        BY <3>2 DEF ChoiceMessages
      <4> QED  BY <1>1, <3>2, <4>1, PlainIsSendable
    <3> QED  BY <1>2, <3>1, <3>2
  <2> QED  BY <1>2, <2>2, <2>3
<1> QED  BY <1>3, <1>4

LEMMA StreamAddsSendable ==
    ASSUME NEW r \in Requests, Accumulated(tool_calls[r]), RequestStep(r)
    PROVE  AddsSendable
<1>1. ASSUME NEW a, NEW success, NEW error, Finish(r, a, success, error)
      PROVE  AddsSendable
  <2>1. \/ UNCHANGED nodes
        \/ \E b, log : AnswerWith(r, FinishedMessage(b, tool_calls[r]), log)
    BY <1>1 DEF Finish
  <2> QED  BY <2>1, StreamedIsSendable DEF AnswerWith, AddsSendable
<1>2. CASE Acquire(r)
  BY <1>2, EmptyIsSendable DEF Acquire, OnAcquired, OnAcquireFailed, AnswerWith,
                               AddsSendable
<1>3. CASE Start(r)
  <2>1. PICK cancelled \in BOOLEAN, failed \in BOOLEAN, code \in HttpCodes :
            OnStart(r, cancelled, failed, code)
    BY <1>3 DEF Start
  <2>2. \/ UNCHANGED nodes
        \/ \E a, success, error : Finish(r, a, success, error)
    BY <2>1 DEF OnStart
  <2> QED  BY <1>1, <2>2 DEF AddsSendable
<1>4. CASE Fail(r)
  BY <1>1, <1>4 DEF Fail, OnNextFailed
<1>5. CASE Drain(r)
  <2>1. \/ UNCHANGED nodes
        \/ \E a, success, error : Finish(r, a, success, error)
    BY <1>5 DEF Drain, SkipEmptyEvent, ProcessDoneMarker, ProcessInvalidEvent,
                ProcessPayload, EndOfChunk
  <2> QED  BY <1>1, <2>1 DEF AddsSendable
<1>6. CASE Read(r, TRUE) \/ Read(r, FALSE)
  BY <1>6 DEF Read, OnNext, AddsSendable
<1> QED  BY <1>2, <1>3, <1>4, <1>5, <1>6 DEF RequestStep

\* Only a payload adds tool calls.
LEMMA StreamAccumulates ==
    ASSUME DOMAIN tool_calls = Requests,
           \A r \in Requests : Accumulated(tool_calls[r]),
           NEW r \in Requests, RequestStep(r)
    PROVE  \A s \in Requests : Accumulated(tool_calls'[s])
<1>1. CASE UNCHANGED tool_calls
  BY <1>1
<1>2. CASE ProcessPayload(r)
  <2> DEFINE fragments == NextEvent(r).tool_calls
             calls == AccumulateStreamToolCalls(tool_calls[r], fragments)
  <2>1. /\ fragments \in Seq(Range(fragments))
        /\ tool_calls' = [tool_calls EXCEPT ![r] = calls]
    BY <1>2, PayloadsAssumption DEF ProcessPayload
  <2>2. \A k \in DOMAIN fragments : IsOfAtoms(fragments[k])
    BY <1>2, AtomsAssumption, FragmentsAssumption
       DEF ProcessPayload, IsOfAtoms
  <2> HIDE DEF fragments
  <2>3. Accumulated(calls)
    BY <2>1, <2>2, PayloadIsAccumulated DEF IsList
  <2> HIDE DEF calls
  <2> QED  BY <2>1, <2>3
<1> QED
  BY <1>1, <1>2
     DEF RequestStep, Acquire, OnAcquired, OnAcquireFailed, Start, OnStart, Fail,
         OnNextFailed, Drain, SkipEmptyEvent, ProcessDoneMarker,
         ProcessInvalidEvent, EndOfChunk, Read, OnNext

LEMMA PayloadStepKeeps ==
    ASSUME PayloadIInv, [FactoryNext]_factoryVars
    PROVE  PayloadIInv'
<1>1. FactoryIInv' /\ Grows
  BY FactoryStepKeeps DEF PayloadIInv
<1>2. DOMAIN tool_calls = Requests
  BY DEF PayloadIInv, FactoryIInv, AnswersIInv, CallsAreFinite
<1>3. AddsSendable
  <2>1. CASE CallerAppends /\ UNCHANGED plain /\ UNCHANGED streamOnly
    BY <2>1, UserCallsAssumption DEF CallerAppends, AppendMessage, AddsSendable
  <2>2. CASE PlainFetch /\ UNCHANGED streamOnly
    BY <2>2 DEF PlainFetch, FetchCompletion, RejectCompletion, AddsSendable
  <2>3. CASE StreamFetch /\ UNCHANGED plain
    BY <2>3 DEF StreamFetch, FetchStreamCompletion, RejectStreamCompletion,
                AddsSendable
  <2>4. ASSUME NEW r \in PlainRequests, PlainAcquire(r) \/ PlainRespond(r)
        PROVE  AddsSendable
    BY <2>4, PlainAddsSendable
  <2>5. ASSUME NEW r \in Requests, RequestStep(r) PROVE AddsSendable
    BY <2>5, StreamAddsSendable DEF PayloadIInv
  <2>6. CASE UNCHANGED factoryVars
    BY <2>6 DEF factoryVars, AddsSendable
  <2> QED  BY <2>1, <2>2, <2>3, <2>4, <2>5, <2>6 DEF FactoryNext
<1>4. \A s \in Requests : Accumulated(tool_calls'[s])
  <2>1. CASE UNCHANGED tool_calls
    BY <2>1 DEF PayloadIInv
  <2>2. ASSUME NEW r \in Requests, RequestStep(r)
        PROVE  \A s \in Requests : Accumulated(tool_calls'[s])
    BY <1>2, <2>2, StreamAccumulates DEF PayloadIInv
  <2>3. CASE StreamFetch
    BY <2>1, <2>3 DEF StreamFetch, FetchStreamCompletion,
                      RejectStreamCompletion
  <2> QED  BY <2>1, <2>2, <2>3 DEF FactoryNext, streamOnly, factoryVars
<1>5. ASSUME NEW n \in States' PROVE Sendable(nodes'[n].message)
  <2>1. \A k \in States : nodes'[k] = nodes[k] /\ Sendable(nodes[k].message)
    BY <1>1 DEF PayloadIInv, Grows
  <2>2. CASE n \in States
    BY <2>1, <2>2
  <2>3. CASE n \notin States
    <3>1. States' # States
      BY <2>3
    <3>2. PICK message, log, prev :
              AllocateState(message, log, prev) /\ Sendable(message)
      BY <1>3, <3>1 DEF AddsSendable, States
    <3>3. /\ nodes \in Seq(Range(nodes)) /\ States = 1 .. Len(nodes)
      BY <1>1 DEF Grows, StateTypeOK, States
    <3> DEFINE node == [message |-> message, log |-> log, previous |-> prev]
    <3>4. nodes' = Append(nodes, node) /\ node.message = message
      BY <3>2 DEF AllocateState
    <3> HIDE DEF node
    <3>5. /\ DOMAIN nodes' = 1 .. Len(nodes) + 1
          /\ nodes'[Len(nodes) + 1] = node
      BY <3>3, <3>4, ListAppend DEF IsList
    <3>6. n = Len(nodes) + 1
      BY <2>3, <3>3, <3>5 DEF States
    <3> QED  BY <3>2, <3>4, <3>5, <3>6
  <2> QED  BY <2>2, <2>3
<1> QED  BY <1>1, <1>4, <1>5 DEF PayloadIInv

\* In every reachable state all tool calls in the history, whether appended by
\* a caller, answered in a response or streamed, can be sent again.
THEOREM PayloadInvariantHolds == FactorySpec => []PayloadIInv
<1>1. FactoryInit => PayloadIInv
  <2> SUFFICES ASSUME FactoryInit PROVE PayloadIInv
    OBVIOUS
  <2>1. FactoryIInv
    BY PlainInitKeeps, StreamInitKeeps DEF FactoryInit, FactoryIInv
  <2>2. States = {}
    BY DEF FactoryInit, PlainInit, StateInit, States
  <2>3. \A r \in Requests : tool_calls[r] = <<>>
    BY DEF FactoryInit, StreamInit
  <2>4. IsFiniteSet({})
    BY FS_EmptySet
  <2>5. Accumulated(<<>>)
    BY <2>4 DEF Accumulated
  <2> QED  BY <2>1, <2>2, <2>3, <2>5 DEF PayloadIInv
<1>2. PayloadIInv /\ [FactoryNext]_factoryVars => PayloadIInv'
  BY PayloadStepKeeps
<1> QED  BY <1>1, <1>2, PTL DEF FactorySpec

-----------------------------------------------------------------------------
(* Reading back what is sent *)

\* The text that is sent of a call's arguments is read as these arguments.
LEMMA ArgumentsReadBack ==
    ASSUME NEW call, IsSendable(call), ~ Ambiguous(call)
    PROVE  /\ EncodeArguments(call.arguments) # Absent
           /\ ParseOrText(EncodeArguments(call.arguments)) = call.arguments
<1>1. IsJson(call.arguments)
  BY DEF IsSendable
<1>2. CASE call.arguments.type = "string"
  BY <1>1, <1>2 DEF IsJson, EncodeArguments, Ambiguous, ParseOrText
<1>3. CASE call.arguments.type # "string"
  BY <1>1, <1>3, SerializeAssumption DEF IsJson, EncodeArguments, ParseOrText
<1> QED  BY <1>2, <1>3

\* A list of calls reads back: every one, once, in order.
LEMMA CallsReadBack ==
    ASSUME NEW calls, IsList(calls),
           \A k \in DOMAIN calls : IsSendable(calls[k]) /\ ~ Ambiguous(calls[k])
    PROVE  ParseToolCallsFromArray(BuildRequestToolCallsArray(calls)) = calls
<1> DEFINE Call(item) ==
               IF item = NotAnObject THEN NoCall
               ELSE [id |-> Overwrite("", item.id),
                     name |-> Overwrite("", item.name),
                     arguments |-> IF item.arguments = Absent THEN NullValue
                                   ELSE ParseOrText(item.arguments)]
           array == BuildRequestToolCallsArray(calls)
           read == [k \in DOMAIN array |-> Call(array[k])]
<1>1. ParseToolCallsFromArray(array) = Without(read, NoCall)
  BY DEF ParseToolCallsFromArray
<1>2. ASSUME NEW call, IsSendable(call), ~ Ambiguous(call)
      PROVE  Call(BuildRequestToolCallObject(call)) = call
  <2> DEFINE item == BuildRequestToolCallObject(call)
  <2>1. /\ item.id = call.id /\ item.name = call.name
        /\ item.arguments = EncodeArguments(call.arguments)
        /\ DOMAIN item = {"index", "id", "name", "arguments"}
    BY DEF BuildRequestToolCallObject
  <2>2. item # NotAnObject
    <3>1. "id" \in DOMAIN item /\ "id" \notin DOMAIN NotAnObject
      BY <2>1 DEF NotAnObject
    <3> QED  BY <3>1
  <2> HIDE DEF item
  <2>3. item.id # Absent /\ item.name # Absent
    BY <1>2, <2>1 DEF IsSendable
  <2>4. item.arguments # Absent /\ ParseOrText(item.arguments) = call.arguments
    BY <1>2, <2>1, ArgumentsReadBack
  <2>5. Call(item) = [id |-> call.id, name |-> call.name,
                      arguments |-> call.arguments]
    BY <2>1, <2>2, <2>3, <2>4 DEF Overwrite
  <2> QED  BY <1>2, <2>5 DEF IsSendable, item
<1>3. /\ DOMAIN array = DOMAIN calls
      /\ \A k \in DOMAIN calls :
             array[k] = BuildRequestToolCallObject(calls[k])
  BY DEF BuildRequestToolCallsArray
<1> HIDE DEF Call, array
<1>4. calls \in Seq(Range(calls)) /\ DOMAIN calls = 1 .. Len(calls)
  BY DEF IsList
<1>5. DOMAIN read = DOMAIN calls /\ \A k \in DOMAIN calls : read[k] = calls[k]
  BY <1>2, <1>3
<1>6. read = [k \in DOMAIN calls |-> calls[k]]
  BY <1>5
<1>7. read = calls
  BY <1>4, <1>6
<1>8. \A k \in 1 .. Len(calls) : calls[k] # NoCall
  BY <1>4 DEF IsSendable, IsCall
<1> QED  BY <1>1, <1>7, <1>8, WithoutKeepsAll DEF array

\* A message reads back, but for its reasoning.
LEMMA MessageReadsBack ==
    ASSUME NEW m, Sendable(m),
           \A k \in DOMAIN m.tool_calls : ~ Ambiguous(m.tool_calls[k])
    PROVE  ReadMessage(BuildRequestMessageObject(m))
               = [m EXCEPT !.reasoning = <<>>]
<1> DEFINE object == BuildRequestMessageObject(m)
           calls == BuildRequestToolCallsArray(m.tool_calls)
           Field(key, default) == IF key \in DOMAIN object THEN object[key]
                                  ELSE default
<1>1. /\ object["role"] = m.role /\ object["content"] = m.message
      /\ "tool_calls" \in DOMAIN object <=> m.tool_calls # <<>>
      /\ m.tool_calls # <<>> => object["tool_calls"] = calls
      /\ "tool_call_id" \in DOMAIN object <=> m.tool_call_id # ""
      /\ m.tool_call_id # "" => object["tool_call_id"] = m.tool_call_id
  BY MessageFields
<1> HIDE DEF object
<1>2. Field("tool_call_id", "") = m.tool_call_id
  BY <1>1
<1>3. ParseToolCallsFromArray(Field("tool_calls", <<>>)) = m.tool_calls
  <2>1. Field("tool_calls", <<>>) = calls
    <3>1. CASE m.tool_calls = <<>>
      <4>1. calls = <<>>
        BY <3>1 DEF BuildRequestToolCallsArray
      <4> QED  BY <1>1, <3>1, <4>1
    <3>2. CASE m.tool_calls # <<>>
      BY <1>1, <3>2
    <3> QED  BY <3>1, <3>2
  <2>2. IsList(m.tool_calls)
    BY DEF Sendable, IsList
  <2>3. \A k \in DOMAIN m.tool_calls : IsSendable(m.tool_calls[k])
    BY DEF Sendable
  <2> HIDE DEF Field
  <2> QED  BY <2>1, <2>2, <2>3, CallsReadBack
<1>4. ReadMessage(object) =
          [role |-> m.role, message |-> m.message, tool_calls |-> m.tool_calls,
           reasoning |-> <<>>, tool_call_id |-> m.tool_call_id]
  BY <1>1, <1>2, <1>3 DEF ReadMessage
<1>5. DOMAIN m = {"role", "message", "tool_calls", "reasoning", "tool_call_id"}
  <2> DEFINE r == [role |-> m.role, message |-> m.message,
                   tool_calls |-> m.tool_calls, reasoning |-> m.reasoning,
                   tool_call_id |-> m.tool_call_id]
  <2>1. m = r
    BY DEF Sendable
  <2>2. DOMAIN r = {"role", "message", "tool_calls", "reasoning",
                    "tool_call_id"}
    OBVIOUS
  <2> HIDE DEF r
  <2> QED  BY <2>1, <2>2
<1>6. [m EXCEPT !.reasoning = <<>>] =
          [role |-> m.role, message |-> m.message, tool_calls |-> m.tool_calls,
           reasoning |-> <<>>, tool_call_id |-> m.tool_call_id]
  BY <1>5
<1> QED  BY <1>4, <1>6 DEF object

\* Whoever reads a request's payload gets the conversation it continues, but
\* for the reasoning, if no arguments in it are ambiguous
\* (BuildRequestPayload, ParseToolCallsFromArray, ParseOrText).
THEOREM HistoriesReadBack == FactorySpec => []HistoryReadsBack
<1>1. ASSUME PayloadIInv, NEW sent \in Sent,
             \A k \in DOMAIN sent.messages :
                 \A n \in DOMAIN sent.messages[k].tool_calls :
                     ~ Ambiguous(sent.messages[k].tool_calls[n])
      PROVE  ReadBack(sent.payload) = WithoutReasoning(sent.messages)
  <2>1. PICK s \in States \cup {NullState} :
            sent.messages = CollectMessageChain(nodes, s)
    BY <1>1, SentConversation DEF PayloadIInv
  <2>2. \A k \in DOMAIN sent.messages : Sendable(sent.messages[k])
    <3>1. StateTypeOK
      BY <1>1 DEF PayloadIInv, FactoryIInv, PlainIInv, PlainTypeOK
    <3> QED  BY <1>1, <2>1, <3>1, ConversationIsOfNodes DEF PayloadIInv
  <2>3. sent.payload["messages"] = BuildRequestMessagesArray(sent.messages)
    BY SentPayload, PayloadFields
  <2>4. /\ DOMAIN sent.payload["messages"] = DOMAIN sent.messages
        /\ \A k \in DOMAIN sent.messages :
               sent.payload["messages"][k]
                   = BuildRequestMessageObject(sent.messages[k])
    BY <2>3 DEF BuildRequestMessagesArray
  <2>5. \A k \in DOMAIN sent.messages :
            ReadMessage(sent.payload["messages"][k])
                = [sent.messages[k] EXCEPT !.reasoning = <<>>]
    BY <1>1, <2>2, <2>4, MessageReadsBack
  <2> QED  BY <2>4, <2>5 DEF ReadBack, WithoutReasoning
<1>2. PayloadIInv => HistoryReadsBack
  BY <1>1 DEF HistoryReadsBack
<1> QED  BY <1>2, PayloadInvariantHolds, PTL
=============================================================================
