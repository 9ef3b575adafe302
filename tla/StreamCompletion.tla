-------------------------- MODULE StreamCompletion --------------------------
(***************************************************************************)
(* OaiCompletionFactory::FetchStreamCompletion: any number of streaming    *)
(* requests, each one asked of a node of the history they share.           *)
(*                                                                         *)
(* A request is a chain of callbacks, every one started by the one before: *)
(*                                                                         *)
(*   idle --Fetch--> acquiring --Acquire--> opening --Start--> reading     *)
(*                                                                         *)
(*   reading --Next--> draining --the events of the chunk--> reading ...   *)
(*                                                                         *)
(* and it ends in "finished" from any stage after the first, or in         *)
(* "rejected" when Fetch returns false.  The transport (bsrvcore) may give *)
(* each operation any result.  A chunk is drained event by event, since    *)
(* the user's callbacks run in between and may append messages or start    *)
(* other requests, and other requests may run on other threads.            *)
(***************************************************************************)
EXTENDS CompletionDetail

CONSTANTS
    Requests,     \* the calls of FetchStreamCompletion
    Payloads,     \* the JSON payloads the provider may send
    EmptyData,    \* an event without data
    DoneMarker,   \* an event whose data is [DONE]
    InvalidData,  \* an event whose data is not a JSON object
    MaxEvents     \* bound: events in one response

Callbacks == {"on_done", "on_delta", "on_reasoning_delta"}

\* What ApplyStreamDeltaPayload looks at.  The text fields are Absent when they
\* are missing or empty: the code never tells these apart.
PayloadType ==
    [id : Strings \cup {Absent}, model : Strings \cup {Absent},
     finish_reason : Strings \cup {Absent},
     content : Text \cup {Absent}, reasoning : Text \cup {Absent},
     tool_calls : {p.tool_calls : p \in Payloads}]

\* An element of a "tool_calls" array: an index is a number of at least 0, any
\* other counts as absent; an argument text is a list.
IsFragment(fragment) ==
    \/ fragment = NotAnObject
    \/ /\ fragment.index \in Nat \cup {Absent}
       /\ \/ fragment.arguments = Absent
          \/ fragment.arguments \in Seq(Range(fragment.arguments))

Events == Payloads \cup {EmptyData, DoneMarker, InvalidData}

ASSUME PayloadsAssumption ==
    /\ Payloads \subseteq PayloadType
    /\ \A p \in Payloads : p.tool_calls \in Seq(Range(p.tool_calls))
    /\ {EmptyData, DoneMarker, InvalidData} \cap Payloads = {}
    /\ EmptyData # DoneMarker /\ EmptyData # InvalidData
    /\ DoneMarker # InvalidData
ASSUME FragmentsAssumption ==
    \A p \in Payloads : \A k \in DOMAIN p.tool_calls :
        IsFragment(p.tool_calls[k])
ASSUME MaxEventsAssumption == MaxEvents \in Nat

VARIABLES
    stage,       \* where the chain of callbacks of a request is
    base,        \* the `state' it was asked of, captured by its closures
    callbacks,   \* the callbacks it was given
    request_body,\* the messages put in its body
    agg,         \* its StreamAggregate, but for ...
    tool_calls,  \* ... its accumulated tool calls
    fed,         \* the events parser->Feed has returned so far
    taken,       \* how many of those it has processed
    eof,         \* whether the last chunk was
    heard,       \* the texts on_delta and on_reasoning_delta were called with
    answers      \* the nodes on_done was called with

streamVars == <<nodes, stage, base, callbacks, request_body, agg, tool_calls,
                fed, taken, eof, heard, answers>>

Stages == {"idle", "rejected", "acquiring", "opening", "reading", "draining",
           "finished"}

\* The causes an error message may name; their wording is left out.
Errors == {"", "stream cancelled", "transport error", "HTTP status",
           "invalid stream delta JSON payload"}

StreamAggregate ==
    [done : BOOLEAN, http_status_code : Nat, delta_count : Nat,
     accumulated_message : Seq(Text), accumulated_reasoning : Seq(Text),
     request_id : Strings, finish_reason : Strings, model : Strings,
     error_message : Errors]

EmptyAggregate ==
    [done |-> FALSE, http_status_code |-> 0, delta_count |-> 0,
     accumulated_message |-> <<>>, accumulated_reasoning |-> <<>>,
     request_id |-> "", finish_reason |-> "", model |-> "",
     error_message |-> ""]

StreamInit ==
    /\ StateInit
    /\ stage = [r \in Requests |-> "idle"]
    /\ base = [r \in Requests |-> NullState]
    /\ callbacks = [r \in Requests |-> {}]
    /\ request_body = [r \in Requests |-> <<>>]
    /\ agg = [r \in Requests |-> EmptyAggregate]
    /\ tool_calls = [r \in Requests |-> <<>>]
    /\ fed = [r \in Requests |-> <<>>]
    /\ taken = [r \in Requests |-> 0]
    /\ eof = [r \in Requests |-> FALSE]
    /\ heard = [r \in Requests |-> [delta |-> <<>>, reasoning |-> <<>>]]
    /\ answers = [r \in Requests |-> <<>>]

\* Fetch's precondition.  `configured' stands for a model_info and an info that
\* are there and name a model and a base_url.
Accepts(state, cbs, configured) ==
    /\ state # NullState
    /\ "on_done" \in cbs
    /\ "on_delta" \in cbs \/ "on_reasoning_delta" \in cbs
    /\ configured

FetchStreamCompletion(r, state, cbs, configured) ==
    /\ stage[r] = "idle"
    /\ Accepts(state, cbs, configured)
    /\ stage' = [stage EXCEPT ![r] = "acquiring"]
    /\ base' = [base EXCEPT ![r] = state]
    /\ callbacks' = [callbacks EXCEPT ![r] = cbs]
    /\ request_body' = [request_body EXCEPT ![r] =
                            CollectMessageChain(nodes, state)]
    /\ UNCHANGED <<nodes, agg, tool_calls, fed, taken, eof, heard, answers>>

RejectStreamCompletion(r, state, cbs, configured) ==
    /\ stage[r] = "idle"
    /\ ~ Accepts(state, cbs, configured)
    /\ stage' = [stage EXCEPT ![r] = "rejected"]
    /\ UNCHANGED <<nodes, base, callbacks, request_body, agg, tool_calls, fed,
                   taken, eof, heard, answers>>

-----------------------------------------------------------------------------

\* The answer linked to the newest node instead of the request's base.
MutantAnswerWith(r, message, log) ==
    /\ AllocateState(message, log, Len(nodes))
    /\ answers' = [answers EXCEPT ![r] = Append(@, NewState)]

\* The pointer to the base moved from before the answer is made.
MutantMovedAnswerWith(r, message, log) ==
    /\ AllocateState(message, log, NullState)
    /\ answers' = [answers EXCEPT ![r] = Append(@, NewState)]

\* A new node after the request's base, handed to on_done.
AnswerWith(r, message, log) ==
    /\ AllocateState(message, log, base[r])
    /\ answers' = [answers EXCEPT ![r] = Append(@, NewState)]

OnAcquired(r) ==
    /\ stage[r] = "acquiring"
    /\ stage' = [stage EXCEPT ![r] = "opening"]
    /\ UNCHANGED <<nodes, base, callbacks, request_body, agg, tool_calls, fed,
                   taken, eof, heard, answers>>

\* A missing return: the request goes on after its answer.
MutantOnAcquireFailed(r) ==
    /\ stage[r] = "acquiring"
    /\ stage' = [stage EXCEPT ![r] = "opening"]
    /\ AnswerWith(r, EmptyAssistant, BuildLogSkeleton(Model, TRUE))
    /\ UNCHANGED <<base, callbacks, request_body, agg, tool_calls, fed, taken,
                   eof, heard>>

OnAcquireFailed(r) ==
    /\ stage[r] = "acquiring"
    /\ stage' = [stage EXCEPT ![r] = "finished"]
    /\ AnswerWith(r, EmptyAssistant,
                  [BuildLogSkeleton(Model, TRUE) EXCEPT
                      !.error_message = "transport error"])
    /\ UNCHANGED <<base, callbacks, request_body, agg, tool_calls, fed, taken,
                   eof, heard>>

\* The reasoning forgotten.
MutantFinishedMessage(a, calls) ==
    [EmptyAssistant EXCEPT !.message = a.accumulated_message,
                           !.tool_calls = BuildToolCallsFromAccumulation(calls)]

\* The node Finish makes from the aggregate `a' and the accumulated calls.
FinishedMessage(a, calls) ==
    [EmptyAssistant EXCEPT !.message = a.accumulated_message,
                           !.reasoning = a.accumulated_reasoning,
                           !.tool_calls = BuildToolCallsFromAccumulation(calls)]

FinishedLog(a, success) ==
    [BuildLogSkeleton(IF a.model = "" THEN Model ELSE a.model, TRUE) EXCEPT
        !.status = IF success THEN "kSuccess" ELSE "kFail",
        !.http_status_code = a.http_status_code,
        !.error_message = a.error_message,
        !.request_id = a.request_id,
        !.finish_reason = a.finish_reason,
        !.delta_count = a.delta_count]

\* (*finish)(success, error), called with the aggregate in state `a'; the
\* caller returns after it, which ends the chain of callbacks.
Finish(r, a, success, error) ==
    LET b == [a EXCEPT !.done = TRUE,
                       !.error_message = IF error = "" THEN @ ELSE error]
    IN  /\ stage' = [stage EXCEPT ![r] = "finished"]
        /\ agg' = [agg EXCEPT ![r] = b]
        /\ IF a.done
           THEN UNCHANGED <<nodes, answers>>
           ELSE AnswerWith(r, FinishedMessage(b, tool_calls[r]),
                           FinishedLog(b, success))

\* client->Start's callback: the response header has arrived, or has not.
OnStart(r, cancelled, failed, code) ==
    LET a == [agg[r] EXCEPT !.http_status_code = code]
    IN  /\ stage[r] = "opening"
        /\ \/ cancelled /\ Finish(r, a, FALSE, "stream cancelled")
           \/ ~cancelled /\ failed /\ Finish(r, a, FALSE, "transport error")
           \/ /\ ~cancelled /\ ~failed /\ ~IsHttpSuccessStatus(code)
              /\ Finish(r, a, FALSE, "HTTP status")
           \/ /\ ~cancelled /\ ~failed /\ IsHttpSuccessStatus(code)
              /\ stage' = [stage EXCEPT ![r] = "reading"]
              /\ agg' = [agg EXCEPT ![r] = a]
              /\ UNCHANGED <<nodes, answers>>
        /\ UNCHANGED <<base, callbacks, request_body, tool_calls, fed, taken,
                       eof, heard>>

\* A failed read that returns without finish.
MutantOnNextFailed(r, error) ==
    /\ stage[r] = "reading" /\ ~agg[r].done
    /\ error \in {"stream cancelled", "transport error"}
    /\ stage' = [stage EXCEPT ![r] = "finished"]
    /\ UNCHANGED <<nodes, base, callbacks, request_body, agg, tool_calls, fed,
                   taken, eof, heard, answers>>

\* client->Next's callback, with no chunk to look at: cancelled or failed.
\* An answered request ignores it.
OnNextFailed(r, error) ==
    /\ stage[r] = "reading" /\ ~agg[r].done
    /\ error \in {"stream cancelled", "transport error"}
    /\ Finish(r, agg[r], FALSE, error)
    /\ UNCHANGED <<base, callbacks, request_body, tool_calls, fed, taken, eof,
                   heard>>

\* client->Next's callback with a chunk: the bytes complete `events', perhaps
\* none.  A chunk that comes with an error and eof is treated as this one.
OnNext(r, events, last) ==
    /\ stage[r] = "reading" /\ ~agg[r].done
    /\ Len(fed[r]) + Len(events) <= MaxEvents
    /\ stage' = [stage EXCEPT ![r] = "draining"]
    /\ fed' = [fed EXCEPT ![r] = @ \o events]
    /\ eof' = [eof EXCEPT ![r] = last]
    /\ UNCHANGED <<nodes, base, callbacks, request_body, agg, tool_calls, taken,
                   heard, answers>>

-----------------------------------------------------------------------------

\* The id of the last payload instead of the first.
MutantApplyStreamDeltaPayload(a, payload) ==
    [a EXCEPT !.request_id = Overwrite(@, payload.id),
              !.model = Overwrite(@, payload.model),
              !.finish_reason = Overwrite(@, payload.finish_reason)]

\* Root, choice and delta fields of a payload, but for the text.
ApplyStreamDeltaPayload(a, payload) ==
    [a EXCEPT !.request_id = IF @ = "" THEN Overwrite(@, payload.id) ELSE @,
              !.model = Overwrite(@, payload.model),
              !.finish_reason = Overwrite(@, payload.finish_reason)]

\* The reasoning, then the content, each accumulated and passed to its callback
\* if there is one.
AppendDelta(a, payload) ==
    [a EXCEPT
        !.accumulated_message = AppendText(@, payload.content),
        !.accumulated_reasoning = AppendText(@, payload.reasoning)]

\* Reasoning passed to on_delta when there is no on_reasoning_delta.
MutantCallBack(cbs, texts, payload) ==
    [delta |-> IF "on_reasoning_delta" \in cbs
               THEN AppendText(texts.delta, payload.content)
               ELSE AppendText(AppendText(texts.delta, payload.reasoning),
                               payload.content),
     reasoning |-> IF "on_reasoning_delta" \in cbs
                   THEN AppendText(texts.reasoning, payload.reasoning)
                   ELSE texts.reasoning]

CallBack(cbs, texts, payload) ==
    [delta |-> IF "on_delta" \in cbs
               THEN AppendText(texts.delta, payload.content)
               ELSE texts.delta,
     reasoning |-> IF "on_reasoning_delta" \in cbs
                   THEN AppendText(texts.reasoning, payload.reasoning)
                   ELSE texts.reasoning]

NextEvent(r) == fed[r][taken[r] + 1]

Drains(r) == stage[r] = "draining" /\ taken[r] < Len(fed[r])

SkipEmptyEvent(r) ==
    /\ Drains(r) /\ NextEvent(r) = EmptyData
    /\ taken' = [taken EXCEPT ![r] = @ + 1]
    /\ UNCHANGED <<nodes, stage, base, callbacks, request_body, agg, tool_calls,
                   fed, eof, heard, answers>>

\* A missing return: the events after [DONE] are still processed.
MutantProcessDoneMarker(r) ==
    /\ Drains(r) /\ NextEvent(r) = DoneMarker
    /\ taken' = [taken EXCEPT ![r] = @ + 1]
    /\ agg' = [agg EXCEPT ![r].done = TRUE]
    /\ AnswerWith(r, FinishedMessage(agg[r], tool_calls[r]),
                  FinishedLog(agg[r], TRUE))
    /\ UNCHANGED <<stage, base, callbacks, request_body, tool_calls, fed, eof,
                   heard>>

\* [DONE] ends the response, whatever the chunk still holds.
ProcessDoneMarker(r) ==
    /\ Drains(r) /\ NextEvent(r) = DoneMarker
    /\ taken' = [taken EXCEPT ![r] = @ + 1]
    /\ Finish(r, agg[r], TRUE, "")
    /\ UNCHANGED <<base, callbacks, request_body, tool_calls, fed, eof, heard>>

\* ++agg->delta_count.
Counted(a) == [a EXCEPT !.delta_count = @ + 1]

\* An event that does not parse is counted, and ends the response as a failure.
ProcessInvalidEvent(r) ==
    /\ Drains(r) /\ NextEvent(r) = InvalidData
    /\ taken' = [taken EXCEPT ![r] = @ + 1]
    /\ Finish(r, Counted(agg[r]), FALSE, "invalid stream delta JSON payload")
    /\ UNCHANGED <<base, callbacks, request_body, tool_calls, fed, eof, heard>>

ProcessPayload(r) ==
    LET payload == NextEvent(r)
    IN  /\ Drains(r) /\ payload \in Payloads
        /\ taken' = [taken EXCEPT ![r] = @ + 1]
        /\ agg' = [agg EXCEPT ![r] =
                      AppendDelta(ApplyStreamDeltaPayload(Counted(agg[r]),
                                                          payload),
                                  payload)]
        /\ tool_calls' = [tool_calls EXCEPT ![r] =
                             AccumulateStreamToolCalls(@, payload.tool_calls)]
        /\ heard' = [heard EXCEPT ![r] = CallBack(callbacks[r], @, payload)]
        /\ UNCHANGED <<nodes, stage, base, callbacks, request_body, fed, eof,
                       answers>>

\* The end of the body not noticed: only [DONE] or an error ends the response.
MutantEndOfChunk(r) ==
    /\ stage[r] = "draining" /\ taken[r] = Len(fed[r])
    /\ stage' = [stage EXCEPT ![r] = "reading"]
    /\ UNCHANGED <<nodes, base, callbacks, request_body, agg, tool_calls, fed,
                   taken, eof, heard, answers>>

\* All events of the chunk processed: the end of the body is a success, even
\* without a [DONE]; otherwise the next chunk is pulled.
EndOfChunk(r) ==
    /\ stage[r] = "draining" /\ taken[r] = Len(fed[r])
    /\ IF eof[r]
       THEN Finish(r, agg[r], TRUE, "")
       ELSE /\ stage' = [stage EXCEPT ![r] = "reading"]
            /\ UNCHANGED <<nodes, agg, answers>>
    /\ UNCHANGED <<base, callbacks, request_body, tool_calls, fed, taken, eof,
                   heard>>

-----------------------------------------------------------------------------

\* The caller's operations.  AppendMessage touches nothing but the history.
StreamFetch ==
    \E r \in Requests, state \in States \cup {NullState},
       cbs \in SUBSET Callbacks, configured \in BOOLEAN :
        \/ FetchStreamCompletion(r, state, cbs, configured)
        \/ RejectStreamCompletion(r, state, cbs, configured)

\* What the transport delivers to a request.
EventLists(n) == UNION {[1 .. k -> Events] : k \in 0 .. n}

Acquire(r) == OnAcquired(r) \/ OnAcquireFailed(r)

Start(r) == \E cancelled, failed \in BOOLEAN, code \in HttpCodes :
                OnStart(r, cancelled, failed, code)

Read(r, last) == \E events \in EventLists(MaxEvents - Len(fed[r])) :
                     OnNext(r, events, last)

Fail(r) == \E error \in {"stream cancelled", "transport error"} :
               OnNextFailed(r, error)

Drain(r) == \/ SkipEmptyEvent(r) \/ ProcessDoneMarker(r)
            \/ ProcessInvalidEvent(r) \/ ProcessPayload(r) \/ EndOfChunk(r)

RequestStep(r) == \/ Acquire(r) \/ Start(r) \/ Fail(r) \/ Drain(r)
                  \/ Read(r, TRUE) \/ Read(r, FALSE)

StreamNext ==
    \/ /\ CallerAppends
       /\ UNCHANGED <<stage, base, callbacks, request_body, agg, tool_calls,
                      fed, taken, eof, heard, answers>>
    \/ StreamFetch
    \/ \E r \in Requests : RequestStep(r)

StreamSpec == StreamInit /\ [][StreamNext]_streamVars

\* The transport completes every operation it is given (each has a timeout),
\* the io_context runs every handler, and the body of a response ends: a
\* request that keeps reading gets the last chunk, or an error, at last.
StreamFairness ==
    \A r \in Requests :
        /\ WF_streamVars(Acquire(r))
        /\ WF_streamVars(Start(r))
        /\ WF_streamVars(Drain(r))
        /\ WF_streamVars(Read(r, TRUE) \/ Read(r, FALSE) \/ Fail(r))
        /\ SF_streamVars(Read(r, TRUE) \/ Fail(r))

FairStreamSpec == StreamSpec /\ StreamFairness

-----------------------------------------------------------------------------
(* Properties *)

\* Every variable has the shape its C++ counterpart has; accumulated tool calls
\* are keyed by index, no request takes more events than it was fed, and no
\* answer has lost the state it was asked of.
StreamTypeOK ==
    /\ StateTypeOK
    /\ stage \in [Requests -> Stages]
    /\ base \in [Requests -> Nat]
    /\ callbacks \in [Requests -> SUBSET Callbacks]
    /\ agg \in [Requests -> StreamAggregate]
    /\ fed \in [Requests -> Seq(Events)]
    /\ taken \in [Requests -> Nat]
    /\ eof \in [Requests -> BOOLEAN]
    /\ heard \in [Requests -> [delta : Seq(Text), reasoning : Seq(Text)]]
    /\ answers \in [Requests -> Seq(Nat)]
    /\ \A r \in Requests :
          /\ base[r] \in States \cup {NullState}
          /\ base[r] = NullState <=> stage[r] \in {"idle", "rejected"}
          /\ taken[r] <= Len(fed[r])
          /\ \A k \in DOMAIN answers[r] : answers[r][k] \in States

Answered(r) == answers[r] # <<>>

AnswerOf(r) == nodes[answers[r][1]]

\* on_done is called exactly once for an accepted request, whichever of the
\* many ways out of the chain of callbacks it takes, and never for another:
\* a request whose chain has ended has one answer, any other has none.
AnsweredExactlyOnce ==
    \A r \in Requests :
        Len(answers[r]) = IF stage[r] = "finished" THEN 1 ELSE 0

\* The pieces passed to on_delta are the text of the message on_done receives,
\* in order and with none missing, also when the stream fails half-way; so are
\* those of on_reasoning_delta.  A callback that was not given hears nothing.
DeltasSpellTheAnswer ==
    \A r \in Requests : Answered(r) =>
        /\ heard[r].delta = IF "on_delta" \in callbacks[r]
                            THEN AnswerOf(r).message.message ELSE <<>>
        /\ heard[r].reasoning = IF "on_reasoning_delta" \in callbacks[r]
                                THEN AnswerOf(r).message.reasoning ELSE <<>>

\* The answer continues exactly the conversation that was sent, whatever has
\* been appended to it, or answered from it, in the meantime.
AnswerContinuesTheRequest ==
    \A r \in Requests : Answered(r) =>
        Continues(answers[r][1], request_body[r])

\* An answer is a success if and only if it reports no error, and it is one
\* only for a response with a success status.
StatusAgreesWithError ==
    \A r \in Requests : Answered(r) => HonestLog(AnswerOf(r).log, TRUE)

\* After on_done no callback of the request is called again, not even for the
\* events that follow [DONE] in the same chunk.
SilentAfterDone ==
    [][\A r \in Requests :
           Answered(r) => heard'[r] = heard[r] /\ answers'[r] = answers[r]
      ]_streamVars

\* An accepted request is answered at last, given that the transport completes
\* every operation and that response bodies end.
EventuallyAnswered ==
    \A r \in Requests : stage[r] = "acquiring" ~> Answered(r)

-----------------------------------------------------------------------------
(* What an answer must be, defined from the events alone *)

Present(fields) == Without(fields, Absent)

LastOr(default, seq) == IF seq = <<>> THEN default ELSE Last(seq)

\* The first event that ends the response, and the payloads before it.
Ends(event) == event \in {DoneMarker, InvalidData}
EndPosition(events) == SelectInSeq(events, Ends)
EndedBy(events) == IF EndPosition(events) = 0 THEN EmptyData
                   ELSE events[EndPosition(events)]
PayloadsBeforeEnd(events) ==
    Without(IF EndPosition(events) = 0 THEN events
            ELSE SubSeq(events, 1, EndPosition(events) - 1),
            EmptyData)

\* The values of one field in all the payloads.
Column(said, field) == [k \in DOMAIN said |-> said[k][field]]

\* The answer is the one the events spell, however they were cut into chunks:
\* text and reasoning of everything before the end of the response; the first
\* id, the last model and finish_reason; a count of the deltas that were looked
\* at; a success if and only if [DONE] or the end of the body came.
AnswerIsWhatWasStreamed ==
    \A r \in Requests : Answered(r) =>
        LET said == PayloadsBeforeEnd(fed[r])
            ended == EndedBy(fed[r])
            models == LastOr("", Present(Column(said, "model")))
            ids == Without(Present(Column(said, "id")), "")
            answer == AnswerOf(r)
        IN  /\ answer.message.role = "assistant"
            /\ answer.message.message = Present(Column(said, "content"))
            /\ answer.message.reasoning = Present(Column(said, "reasoning"))
            /\ answer.log.request_id = IF ids = <<>> THEN "" ELSE Head(ids)
            /\ answer.log.model = IF models = "" THEN Model ELSE models
            /\ answer.log.finish_reason
                   = LastOr("", Present(Column(said, "finish_reason")))
            /\ answer.log.delta_count
                   = Len(said) + (IF ended = InvalidData THEN 1 ELSE 0)
            /\ answer.log.status = "kSuccess" <=>
                   ended = DoneMarker \/ (ended = EmptyData /\ eof[r])

\* The elements of "tool_calls" arrays one after the other, each with the index
\* it is for: the one it gives, or its position.
Tagged(array) ==
    [k \in DOMAIN array |->
        [index |-> IF array[k] # NotAnObject /\ array[k].index # Absent
                   THEN array[k].index ELSE k - 1,
         item |-> array[k]]]

Elements(arrays) == FlattenSeq([n \in DOMAIN arrays |-> Tagged(arrays[n])])

\* The indices that calls were given at, and what was given for one of them.
Indices(elements) ==
    {elements[k].index :
        k \in {j \in DOMAIN elements : elements[j].item # NotAnObject}}

Given(elements, index, field) ==
    Present([k \in DOMAIN elements |->
                IF elements[k].item # NotAnObject /\ elements[k].index = index
                THEN elements[k].item[field] ELSE Absent])

\* The call at an index: the last id and name given for it and all its argument
\* texts.
SpelledCall(elements, index) ==
    LET text == FlattenSeq(Given(elements, index, "arguments"))
    IN  [id |-> LastOr("", Given(elements, index, "id")),
         name |-> LastOr("", Given(elements, index, "name")),
         arguments |-> IF text = <<>> THEN NullValue ELSE ParseOrText(text)]

\* The calls spelled by a sequence of arrays, in the order of their indices.
ToolCallsSpelledBy(arrays) ==
    LET all == Elements(arrays)
        indices == {i \in Indices(all) : IsCall(SpelledCall(all, i))}
    IN  [n \in 1 .. Cardinality(indices) |->
            SpelledCall(all, NthIndex(indices, n))]

\* The same of the tool calls of the answer.
CallsAreWhatWasStreamed ==
    \A r \in Requests : Answered(r) =>
        AnswerOf(r).message.tool_calls =
            ToolCallsSpelledBy(Column(PayloadsBeforeEnd(fed[r]), "tool_calls"))

-----------------------------------------------------------------------------
(* The refinement: what a caller sees of all this *)

Phase(r) == CASE stage[r] \in {"idle", "rejected"} -> stage[r]
              [] stage[r] = "finished" -> "answered"
              [] OTHER -> "pending"

Spoken(r) == [delta |-> agg[r].accumulated_message,
              reasoning |-> agg[r].accumulated_reasoning]

Seen(n) == [previous |-> nodes[n].previous, role |-> nodes[n].message.role,
            message |-> nodes[n].message.message,
            reasoning |-> nodes[n].message.reasoning,
            status |-> nodes[n].log.status]

Contract == INSTANCE StreamContract WITH
    phase <- [r \in Requests |-> Phase(r)],
    asked <- base,
    listens <- callbacks,
    spoken <- [r \in Requests |-> Spoken(r)],
    heard <- heard,
    answers <- [r \in Requests |->
                   [k \in DOMAIN answers[r] |-> Seen(answers[r][k])]]

\* Every behaviour of the requests is one the contract allows.
KeepsTheContract == Contract!ContractSpec
=============================================================================
