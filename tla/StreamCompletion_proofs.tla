----------------------- MODULE StreamCompletion_proofs ------------------------
(***************************************************************************)
(* A streaming request as its caller sees it: proofs for any number of     *)
(* requests, any payloads and any bounds.  The types come first.  Then a   *)
(* step of a request is quiet, speaks, or answers, and every property      *)
(* follows from these three kinds of steps: how often a request answers;   *)
(* what it answers with, a log that tells the truth about the outcome and  *)
(* a list of calls, in a node that continues the conversation that was     *)
(* sent; the text, the reasoning, the id and the model that the events     *)
(* spell.  And FetchStreamCompletion implements StreamContract: a quiet    *)
(* step is a stuttering step of the contract, a step that speaks is its    *)
(* Speak and one that answers its Answer.                                  *)
(***************************************************************************)
EXTENDS StreamCompletion, CompletionDetail_proofs

-----------------------------------------------------------------------------
(* Types *)

\* What is known of the message and the log of any answer.
LEMMA FinishedTypes ==
    ASSUME NEW a \in StreamAggregate, NEW calls, NEW success \in BOOLEAN
    PROVE  /\ FinishedMessage(a, calls).message \in Seq(Text)
           /\ FinishedMessage(a, calls).role = "assistant"
           /\ FinishedMessage(a, calls).message = a.accumulated_message
           /\ FinishedMessage(a, calls).reasoning = a.accumulated_reasoning
           /\ FinishedLog(a, success).status \in Statuses
           /\ FinishedLog(a, success).status \in {"kSuccess", "kFail"}
           /\ FinishedLog(a, success).http_status_code \in Nat
           /\ FinishedLog(a, success).delta_count \in Nat
<1>1. /\ FinishedMessage(a, calls).role = "assistant"
      /\ FinishedMessage(a, calls).message = a.accumulated_message
      /\ FinishedMessage(a, calls).reasoning = a.accumulated_reasoning
  BY DEF FinishedMessage, EmptyAssistant
<1>2. /\ FinishedLog(a, success).status \in {"kSuccess", "kFail"}
      /\ FinishedLog(a, success).http_status_code = a.http_status_code
      /\ FinishedLog(a, success).delta_count = a.delta_count
  BY DEF FinishedLog, BuildLogSkeleton, LocalLog
<1>3. /\ a.accumulated_message \in Seq(Text)
      /\ a.http_status_code \in Nat
      /\ a.delta_count \in Nat
  BY DEF StreamAggregate
<1>4. {"kSuccess", "kFail"} \subseteq Statuses
  BY DEF Statuses
<1> QED  BY <1>1, <1>2, <1>3, <1>4

\* An answer to an accepted request is a new node after the request's base; the
\* older nodes and the other requests' answers are left alone.
LEMMA AnswerNode ==
    ASSUME StreamTypeOK, NEW r \in Requests, base[r] # NullState,
           NEW message, NEW log,
           message.message \in Seq(Text),
           log.status \in Statuses, log.http_status_code \in Nat,
           log.delta_count \in Nat,
           AnswerWith(r, message, log)
    PROVE  /\ StateTypeOK'
           /\ States' = States \cup {NewState}
           /\ NewState \in Nat
           /\ \A n \in States : nodes'[n] = nodes[n]
           /\ nodes'[NewState] = [message |-> message, log |-> log,
                                  previous |-> base[r]]
           /\ answers' \in [Requests -> Seq(Nat)]
           /\ answers'[r] = Append(answers[r], NewState)
           /\ \A s \in Requests \ {r} : answers'[s] = answers[s]
           /\ \A s \in Requests : \A k \in DOMAIN answers'[s] :
                  answers'[s][k] \in States'
<1>1. /\ StateTypeOK /\ base[r] \in 0 .. Len(nodes) /\ Len(nodes) \in Nat
      /\ answers \in [Requests -> Seq(Nat)]
  BY DEF StreamTypeOK, StateTypeOK, States, NullState
<1>2. /\ AllocateState(message, log, base[r])
      /\ answers' = [answers EXCEPT ![r] = Append(@, NewState)]
  BY DEF AnswerWith
<1>3. /\ StateTypeOK'
      /\ States' = States \cup {NewState}
      /\ \A n \in States : nodes'[n] = nodes[n]
      /\ nodes'[NewState] = [message |-> message, log |-> log,
                             previous |-> base[r]]
  BY <1>1, <1>2, AppendNode
<1>4. NewState \in Nat
  BY <1>1 DEF NewState
<1>5. /\ answers' \in [Requests -> Seq(Nat)]
      /\ answers'[r] = Append(answers[r], NewState)
      /\ \A s \in Requests \ {r} : answers'[s] = answers[s]
  BY <1>1, <1>2, <1>4
<1>6. ASSUME NEW s \in Requests, NEW k \in DOMAIN answers'[s]
      PROVE  answers'[s][k] \in States'
  <2>1. \A t \in Requests : \A i \in DOMAIN answers[t] : answers[t][i] \in States
    BY DEF StreamTypeOK
  <2>2. CASE s # r
    BY <2>1, <2>2, <1>3, <1>5
  <2>3. CASE s = r
    <3>1. answers[r] \in Seq(Nat) /\ Len(answers[r]) \in Nat
      BY <1>1
    <3>2. k \in 1 .. Len(answers[r]) + 1
      BY <1>5, <2>3, <3>1
    <3>3. CASE k = Len(answers[r]) + 1
      BY <1>3, <1>5, <2>3, <3>1, <3>3
    <3>4. CASE k # Len(answers[r]) + 1
      <4>1. k \in 1 .. Len(answers[r])
        BY <3>1, <3>2, <3>4
      <4>2. Append(answers[r], NewState)[k] = answers[r][k]
        BY <1>4, <3>1, <4>1
      <4>3. k \in DOMAIN answers[r] /\ answers'[r][k] = answers[r][k]
        BY <1>5, <3>1, <4>1, <4>2
      <4> QED  BY <1>3, <2>1, <2>3, <4>3
    <3> QED  BY <3>3, <3>4
  <2> QED  BY <2>2, <2>3
<1> QED  BY <1>3, <1>4, <1>5, <1>6

\* The aggregate Finish leaves behind.
FinishedAggregate(a, error) ==
    [a EXCEPT !.done = TRUE,
              !.error_message = IF error = "" THEN @ ELSE error]

\* Finish keeps the types, whoever calls it.
LEMMA FinishTypes ==
    ASSUME StreamTypeOK, NEW r \in Requests, base[r] # NullState,
           NEW a \in StreamAggregate, NEW success \in BOOLEAN,
           NEW error \in Errors,
           Finish(r, a, success, error),
           UNCHANGED <<base, callbacks, fed, eof, heard>>,
           taken' \in [Requests -> Nat],
           \A s \in Requests : taken'[s] <= Len(fed[s])
    PROVE  StreamTypeOK'
<1> DEFINE b == FinishedAggregate(a, error)
<1>1. b \in StreamAggregate
  BY DEF FinishedAggregate, StreamAggregate
<1>2. /\ stage' = [stage EXCEPT ![r] = "finished"]
      /\ agg' = [agg EXCEPT ![r] = b]
  BY DEF Finish, FinishedAggregate
<1> HIDE DEF b
<1>3. /\ stage' \in [Requests -> Stages]
      /\ agg' \in [Requests -> StreamAggregate]
      /\ base' \in [Requests -> Nat]
      /\ callbacks' \in [Requests -> SUBSET Callbacks]
      /\ fed' \in [Requests -> Seq(Events)]
      /\ eof' \in [Requests -> BOOLEAN]
      /\ heard' \in [Requests -> [delta : Seq(Text), reasoning : Seq(Text)]]
  BY <1>1, <1>2 DEF StreamTypeOK, Stages
<1>4. \A s \in Requests :
          base'[s] = NullState <=> stage'[s] \in {"idle", "rejected"}
  BY <1>2 DEF StreamTypeOK
<1>5. /\ StateTypeOK' /\ answers' \in [Requests -> Seq(Nat)]
      /\ States \subseteq States'
      /\ \A s \in Requests : \A k \in DOMAIN answers'[s] :
             answers'[s][k] \in States'
  <2>1. CASE a.done
    <3>1. UNCHANGED <<nodes, answers>>
      BY <2>1 DEF Finish
    <3> QED  BY <3>1 DEF StreamTypeOK, StateTypeOK, States
  <2>2. CASE ~ a.done
    <3>1. AnswerWith(r, FinishedMessage(b, tool_calls[r]),
                     FinishedLog(b, success))
      BY <2>2 DEF Finish, FinishedAggregate, b
    <3>2. /\ FinishedMessage(b, tool_calls[r]).message \in Seq(Text)
          /\ FinishedLog(b, success).status \in Statuses
          /\ FinishedLog(b, success).http_status_code \in Nat
          /\ FinishedLog(b, success).delta_count \in Nat
      BY <1>1, FinishedTypes
    <3> QED  BY <3>1, <3>2, AnswerNode
  <2> QED  BY <2>1, <2>2
<1>6. \A s \in Requests : base'[s] \in States' \cup {NullState}
  BY <1>5 DEF StreamTypeOK
<1> QED  BY <1>3, <1>4, <1>5, <1>6 DEF StreamTypeOK

\* Payloads leave the aggregate and the callbacks' texts of their types.
LEMMA PayloadTypes ==
    ASSUME NEW a \in StreamAggregate, NEW payload \in Payloads, NEW cbs,
           NEW texts \in [delta : Seq(Text), reasoning : Seq(Text)]
    PROVE  /\ AppendDelta(ApplyStreamDeltaPayload(a, payload), payload)
                  \in StreamAggregate
           /\ CallBack(cbs, texts, payload)
                  \in [delta : Seq(Text), reasoning : Seq(Text)]
<1>1. /\ payload.content \in Text \cup {Absent}
      /\ payload.reasoning \in Text \cup {Absent}
      /\ payload.id \in Strings \cup {Absent}
      /\ payload.model \in Strings \cup {Absent}
      /\ payload.finish_reason \in Strings \cup {Absent}
  BY PayloadsAssumption DEF PayloadType
<1>2. ASSUME NEW t \in Seq(Text), NEW piece \in Text \cup {Absent}
      PROVE  AppendText(t, piece) \in Seq(Text)
  BY DEF AppendText
<1>3. ASSUME NEW old \in Strings, NEW field \in Strings \cup {Absent}
      PROVE  Overwrite(old, field) \in Strings
  BY DEF Overwrite
<1>4. ApplyStreamDeltaPayload(a, payload) \in StreamAggregate
  BY <1>1, <1>3 DEF ApplyStreamDeltaPayload, StreamAggregate
<1>5. ASSUME NEW b \in StreamAggregate
      PROVE  AppendDelta(b, payload) \in StreamAggregate
  BY <1>1, <1>2 DEF AppendDelta, StreamAggregate
<1>6. CallBack(cbs, texts, payload) \in [delta : Seq(Text), reasoning : Seq(Text)]
  BY <1>1, <1>2 DEF CallBack
<1> QED  BY <1>4, <1>5, <1>6

\* The steps that change no more than the stage, the aggregate and what has been
\* read keep the types.
LEMMA QuietStepTypes ==
    ASSUME StreamTypeOK, NEW r \in Requests, base[r] # NullState,
           UNCHANGED <<nodes, base, callbacks, answers>>,
           NEW s \in Stages \ {"idle", "rejected"},
           stage' = [stage EXCEPT ![r] = s],
           agg' \in [Requests -> StreamAggregate],
           fed' \in [Requests -> Seq(Events)],
           taken' \in [Requests -> Nat],
           eof' \in [Requests -> BOOLEAN],
           heard' \in [Requests -> [delta : Seq(Text), reasoning : Seq(Text)]],
           \A t \in Requests : taken'[t] <= Len(fed'[t])
    PROVE  StreamTypeOK'
<1>1. StateTypeOK' /\ States' = States
  BY DEF StreamTypeOK, StateTypeOK, States
<1>2. stage' \in [Requests -> Stages]
  BY DEF StreamTypeOK
<1>3. \A t \in Requests :
          base[t] = NullState <=> stage'[t] \in {"idle", "rejected"}
  BY DEF StreamTypeOK
<1> QED  BY <1>1, <1>2, <1>3 DEF StreamTypeOK

\* The types hold before the first fetch.
LEMMA InitTypes == StreamInit => StreamTypeOK
<1> SUFFICES ASSUME StreamInit PROVE StreamTypeOK
  OBVIOUS
<1>1. StateTypeOK /\ States = {}
  BY DEF StreamInit, StateInit, StateTypeOK, States, Range
<1>2. EmptyAggregate \in StreamAggregate
  <2>1. <<>> \in Seq(Text)
    OBVIOUS
  <2>2. "" \in Errors
    BY DEF Errors
  <2> QED
    BY <2>1, <2>2, StringsAssumption DEF EmptyAggregate, StreamAggregate
<1>3. agg \in [Requests -> StreamAggregate]
  BY <1>2 DEF StreamInit
<1>4. /\ stage \in [Requests -> Stages]
      /\ base \in [Requests -> Nat]
      /\ callbacks \in [Requests -> SUBSET Callbacks]
      /\ fed \in [Requests -> Seq(Events)]
      /\ taken \in [Requests -> Nat]
      /\ eof \in [Requests -> BOOLEAN]
      /\ heard \in [Requests -> [delta : Seq(Text), reasoning : Seq(Text)]]
      /\ answers \in [Requests -> Seq(Nat)]
  BY DEF StreamInit, Stages, NullState
<1>5. ASSUME NEW r \in Requests
      PROVE  /\ base[r] = NullState /\ stage[r] = "idle"
             /\ taken[r] <= Len(fed[r])
             /\ answers[r] = <<>>
  BY DEF StreamInit
<1> QED  BY <1>1, <1>3, <1>4, <1>5 DEF StreamTypeOK

\* Counting a delta leaves the aggregate well typed.
LEMMA CountedTypes ==
    ASSUME NEW a \in StreamAggregate
    PROVE  Counted(a) \in StreamAggregate
<1>1. a.delta_count + 1 \in Nat
  BY DEF StreamAggregate
<1>2. Counted(a) = [a EXCEPT !.delta_count = a.delta_count + 1]
  BY DEF Counted
<1> QED  BY <1>1, <1>2 DEF StreamAggregate

\* What the transport feeds is a sequence of events.
LEMMA ReadFeeds ==
    ASSUME NEW n, NEW events \in EventLists(n)
    PROVE  events \in Seq(Events)
BY DEF EventLists

\* Every step of an accepted request keeps the types.
LEMMA RequestStepTypes ==
    ASSUME StreamTypeOK, NEW r \in Requests, RequestStep(r)
    PROVE  StreamTypeOK'
<1>1. base[r] # NullState
  <2>1. stage[r] \in {"acquiring", "opening", "reading", "draining"}
    BY DEF RequestStep, Acquire, OnAcquired, OnAcquireFailed, Start, OnStart,
           Fail, OnNextFailed, Drain, Drains, SkipEmptyEvent, ProcessDoneMarker,
           ProcessInvalidEvent, ProcessPayload, EndOfChunk, Read, OnNext
  <2> QED  BY <2>1 DEF StreamTypeOK
<1>2. /\ agg \in [Requests -> StreamAggregate] /\ agg[r] \in StreamAggregate
      /\ fed \in [Requests -> Seq(Events)] /\ taken \in [Requests -> Nat]
      /\ eof \in [Requests -> BOOLEAN]
      /\ heard \in [Requests -> [delta : Seq(Text), reasoning : Seq(Text)]]
      /\ \A t \in Requests : taken[t] <= Len(fed[t])
  BY DEF StreamTypeOK
<1>3. \A t \in Requests : Len(fed[t]) \in Nat
  BY <1>2
<1>4. /\ "stream cancelled" \in Errors /\ "transport error" \in Errors
      /\ "HTTP status" \in Errors /\ "" \in Errors
      /\ "invalid stream delta JSON payload" \in Errors
  BY DEF Errors
<1>5. CASE OnAcquired(r)
  BY <1>1, <1>2, <1>5, QuietStepTypes DEF OnAcquired, Stages
<1>6. CASE OnAcquireFailed(r)
  <2> DEFINE log == [BuildLogSkeleton(Model, TRUE) EXCEPT
                        !.error_message = "transport error"]
  <2>1. AnswerWith(r, EmptyAssistant, log)
    BY <1>6 DEF OnAcquireFailed
  <2>2. /\ EmptyAssistant.message \in Seq(Text)
        /\ log.status \in Statuses /\ log.http_status_code \in Nat
        /\ log.delta_count \in Nat
    BY DEF EmptyAssistant, BuildLogSkeleton, LocalLog, Statuses
  <2> HIDE DEF log
  <2>3. /\ StateTypeOK' /\ States \subseteq States'
        /\ answers' \in [Requests -> Seq(Nat)]
        /\ \A s \in Requests : \A k \in DOMAIN answers'[s] :
               answers'[s][k] \in States'
    BY <1>1, <2>1, <2>2, AnswerNode
  <2>4. /\ stage' = [stage EXCEPT ![r] = "finished"]
        /\ UNCHANGED <<base, callbacks, agg, fed, taken, eof, heard>>
    BY <1>6 DEF OnAcquireFailed
  <2>5. stage' \in [Requests -> Stages]
    BY <2>4 DEF StreamTypeOK, Stages
  <2>6. \A s \in Requests :
            /\ base'[s] \in States' \cup {NullState}
            /\ base'[s] = NullState <=> stage'[s] \in {"idle", "rejected"}
    BY <1>1, <2>3, <2>4 DEF StreamTypeOK
  <2> QED  BY <1>2, <2>3, <2>4, <2>5, <2>6 DEF StreamTypeOK
<1>7. CASE Start(r)
  <2>1. PICK cancelled \in BOOLEAN, failed \in BOOLEAN, code \in HttpCodes :
            OnStart(r, cancelled, failed, code)
    BY <1>7 DEF Start
  <2> DEFINE a == [agg[r] EXCEPT !.http_status_code = code]
  <2>2. a \in StreamAggregate
    BY <1>2, HttpCodesAssumption DEF StreamAggregate
  <2>3. UNCHANGED <<base, callbacks, fed, taken, eof, heard>>
    BY <2>1 DEF OnStart
  <2>4. \/ \E error \in Errors : Finish(r, a, FALSE, error)
        \/ /\ stage' = [stage EXCEPT ![r] = "reading"]
           /\ agg' = [agg EXCEPT ![r] = a]
           /\ UNCHANGED <<nodes, answers>>
    BY <2>1, <1>4 DEF OnStart
  <2> HIDE DEF a
  <2>5. CASE \E error \in Errors : Finish(r, a, FALSE, error)
    BY <1>1, <1>2, <2>2, <2>3, <2>5, FinishTypes
  <2>6. CASE /\ stage' = [stage EXCEPT ![r] = "reading"]
             /\ agg' = [agg EXCEPT ![r] = a]
             /\ UNCHANGED <<nodes, answers>>
    BY <1>1, <1>2, <2>2, <2>3, <2>6, QuietStepTypes DEF Stages
  <2> QED  BY <2>4, <2>5, <2>6
<1>8. CASE Fail(r)
  <2>1. PICK error \in {"stream cancelled", "transport error"} :
            OnNextFailed(r, error)
    BY <1>8 DEF Fail
  <2> QED  BY <1>1, <1>2, <1>4, <2>1, FinishTypes DEF OnNextFailed
<1>9. CASE \E last \in BOOLEAN : Read(r, last)
  <2>1. PICK last \in BOOLEAN : Read(r, last)
    BY <1>9
  <2>2. PICK events \in EventLists(MaxEvents - Len(fed[r])) :
            OnNext(r, events, last)
    BY <2>1 DEF Read
  <2>3. events \in Seq(Events)
    BY ReadFeeds
  <2>4. /\ stage' = [stage EXCEPT ![r] = "draining"]
        /\ fed' = [fed EXCEPT ![r] = @ \o events]
        /\ eof' = [eof EXCEPT ![r] = last]
        /\ UNCHANGED <<nodes, base, callbacks, agg, taken, heard, answers>>
    BY <2>2 DEF OnNext
  <2>5. fed' \in [Requests -> Seq(Events)] /\ eof' \in [Requests -> BOOLEAN]
    BY <1>2, <2>3, <2>4
  <2>6. \A t \in Requests : taken'[t] <= Len(fed'[t])
    BY <1>2, <1>3, <2>3, <2>4
  <2> QED  BY <1>1, <1>2, <2>4, <2>5, <2>6, QuietStepTypes DEF Stages
<1>10. ASSUME Drains(r), taken' = [taken EXCEPT ![r] = @ + 1]
       PROVE  /\ taken' \in [Requests -> Nat]
              /\ \A t \in Requests : taken'[t] <= Len(fed[t])
  BY <1>2, <1>3, <1>10 DEF Drains
<1>11. CASE SkipEmptyEvent(r)
  <2>1. stage[r] = "draining" /\ stage \in [Requests -> Stages]
    BY <1>11 DEF SkipEmptyEvent, Drains, StreamTypeOK
  <2>2. stage' = [stage EXCEPT ![r] = "draining"]
    BY <1>11, <2>1 DEF SkipEmptyEvent
  <2> QED  BY <1>1, <1>2, <1>10, <1>11, <2>2, QuietStepTypes
           DEF SkipEmptyEvent, Stages
<1>12. CASE ProcessDoneMarker(r)
  BY <1>1, <1>2, <1>4, <1>10, <1>12, FinishTypes DEF ProcessDoneMarker
<1>13. CASE ProcessInvalidEvent(r)
  <2>1. Counted(agg[r]) \in StreamAggregate
    BY <1>2, CountedTypes
  <2> QED  BY <1>1, <1>2, <1>4, <1>10, <1>13, <2>1, FinishTypes
           DEF ProcessInvalidEvent
<1>14. CASE ProcessPayload(r)
  <2> DEFINE payload == NextEvent(r)
             a == Counted(agg[r])
             b == AppendDelta(ApplyStreamDeltaPayload(a, payload), payload)
             texts == CallBack(callbacks[r], heard[r], payload)
  <2>1. /\ Drains(r) /\ payload \in Payloads
        /\ taken' = [taken EXCEPT ![r] = @ + 1]
        /\ agg' = [agg EXCEPT ![r] = b]
        /\ heard' = [heard EXCEPT ![r] = texts]
        /\ UNCHANGED <<nodes, stage, base, callbacks, fed, eof, answers>>
    BY <1>2, <1>14 DEF ProcessPayload
  <2>2. a \in StreamAggregate
    BY <1>2, CountedTypes
  <2> HIDE DEF a, payload
  <2>3. /\ b \in StreamAggregate
        /\ texts \in [delta : Seq(Text), reasoning : Seq(Text)]
    BY <1>2, <2>1, <2>2, PayloadTypes
  <2> HIDE DEF b, texts
  <2>4. /\ agg' \in [Requests -> StreamAggregate]
        /\ heard' \in [Requests -> [delta : Seq(Text), reasoning : Seq(Text)]]
    BY <1>2, <2>1, <2>3
  <2>5. stage' = [stage EXCEPT ![r] = "draining"]
    BY <2>1 DEF Drains, StreamTypeOK
  <2> QED  BY <1>1, <1>2, <1>10, <2>1, <2>4, <2>5, QuietStepTypes DEF Stages
<1>15. CASE EndOfChunk(r)
  <2>1. UNCHANGED <<base, callbacks, fed, taken, eof, heard>>
    BY <1>15 DEF EndOfChunk
  <2>2. CASE eof[r]
    BY <1>1, <1>2, <1>4, <1>15, <2>1, <2>2, FinishTypes DEF EndOfChunk
  <2>3. CASE ~ eof[r]
    BY <1>1, <1>2, <1>15, <2>1, <2>3, QuietStepTypes DEF EndOfChunk, Stages
  <2> QED  BY <2>2, <2>3
<1> QED
  BY <1>5, <1>6, <1>7, <1>8, <1>9, <1>11, <1>12, <1>13, <1>14, <1>15
     DEF RequestStep, Acquire, Drain

\* So do the caller's steps, and hence every step.
LEMMA StepTypes == StreamTypeOK /\ [StreamNext]_streamVars => StreamTypeOK'
<1> SUFFICES ASSUME StreamTypeOK, [StreamNext]_streamVars
             PROVE  StreamTypeOK'
  OBVIOUS
<1>1. CASE CallerAppends /\ UNCHANGED <<stage, base, callbacks, request_body,
                                        agg, tool_calls, fed, taken, eof,
                                        heard, answers>>
  <2>1. StateTypeOK' /\ States \subseteq States'
    BY <1>1, CallerAppendsNode DEF StreamTypeOK
  <2> QED  BY <1>1, <2>1 DEF StreamTypeOK
<1>2. CASE StreamFetch
  <2>1. PICK r \in Requests, state \in States \cup {NullState},
             cbs \in SUBSET Callbacks, configured \in BOOLEAN :
             \/ FetchStreamCompletion(r, state, cbs, configured)
             \/ RejectStreamCompletion(r, state, cbs, configured)
    BY <1>2 DEF StreamFetch
  <2>2. /\ StateTypeOK' /\ States' = States
        /\ UNCHANGED <<agg, fed, taken, eof, heard, answers>>
    BY <2>1 DEF FetchStreamCompletion, RejectStreamCompletion, StreamTypeOK,
                StateTypeOK, States
  <2>3. States \subseteq Nat
    BY DEF StreamTypeOK, StateTypeOK, States
  <2>4. CASE FetchStreamCompletion(r, state, cbs, configured)
    <3>1. /\ state # NullState /\ state \in States
          /\ stage' = [stage EXCEPT ![r] = "acquiring"]
          /\ base' = [base EXCEPT ![r] = state]
          /\ callbacks' = [callbacks EXCEPT ![r] = cbs]
      BY <2>4 DEF FetchStreamCompletion, Accepts
    <3> QED  BY <2>2, <2>3, <3>1 DEF StreamTypeOK, Stages
  <2>5. CASE RejectStreamCompletion(r, state, cbs, configured)
    <3>1. /\ stage[r] = "idle"
          /\ stage' = [stage EXCEPT ![r] = "rejected"]
          /\ UNCHANGED <<base, callbacks>>
      BY <2>5 DEF RejectStreamCompletion
    <3> QED  BY <2>2, <3>1 DEF StreamTypeOK, Stages
  <2> QED  BY <2>1, <2>4, <2>5
<1>3. CASE \E r \in Requests : RequestStep(r)
  BY <1>3, RequestStepTypes
<1>4. CASE UNCHANGED streamVars
  BY <1>4 DEF streamVars, StreamTypeOK, StateTypeOK, States
<1> QED  BY <1>1, <1>2, <1>3, <1>4 DEF StreamNext

\* Every variable always has the shape of its C++ counterpart, an accepted
\* request refers to an existing node, and so does each of its answers.
THEOREM TypeCorrect == StreamSpec => []StreamTypeOK
<1>1. StreamInit => StreamTypeOK
  BY InitTypes
<1>2. StreamTypeOK /\ [StreamNext]_streamVars => StreamTypeOK'
  BY StepTypes
<1> QED  BY <1>1, <1>2, PTL DEF StreamSpec

-----------------------------------------------------------------------------
(* A step as its caller sees it *)

Pending(r) == stage[r] \in {"acquiring", "opening", "reading", "draining"}

SameTexts(r) ==
    /\ agg'[r].accumulated_message = agg[r].accumulated_message
    /\ agg'[r].accumulated_reasoning = agg[r].accumulated_reasoning

QuietStep(r) ==
    /\ Pending(r) /\ stage'[r] \in {"opening", "reading", "draining"}
    /\ \A s \in Requests \ {r} : stage'[s] = stage[s]
    /\ \A s \in Requests : SameTexts(s) /\ agg'[s].done = agg[s].done
    /\ UNCHANGED <<nodes, base, callbacks, heard, answers>>

SpeakStep(r) ==
    /\ stage[r] = "draining"
    /\ \E payload \in Payloads :
          /\ agg'[r].accumulated_message
                 = AppendText(agg[r].accumulated_message, payload.content)
          /\ agg'[r].accumulated_reasoning
                 = AppendText(agg[r].accumulated_reasoning, payload.reasoning)
          /\ heard' = [heard EXCEPT ![r] = CallBack(callbacks[r], @, payload)]
    /\ agg'[r].done = agg[r].done
    /\ \A s \in Requests \ {r} : agg'[s] = agg[s]
    /\ UNCHANGED <<nodes, stage, base, callbacks, answers>>

AnswerStep(r) ==
    /\ Pending(r)
    /\ stage' = [stage EXCEPT ![r] = "finished"]
    /\ \A s \in Requests : SameTexts(s)
    /\ \A s \in Requests \ {r} : agg'[s].done = agg[s].done
    /\ UNCHANGED <<base, callbacks, heard>>
    /\ \E message, log :
          /\ AnswerWith(r, message, log)
          /\ message.role = "assistant"
          /\ message.message = agg[r].accumulated_message
          /\ message.reasoning = agg[r].accumulated_reasoning
          /\ log.status \in {"kSuccess", "kFail"}
          /\ log.http_status_code \in Nat /\ log.delta_count \in Nat

\* Where a request stands and what it has said: no aggregate is done before its
\* request has finished, and nothing is spoken before the response is opened.
Control(r) ==
    /\ Len(answers[r]) = IF stage[r] = "finished" THEN 1 ELSE 0
    /\ agg[r].done => stage[r] = "finished"
    /\ stage[r] \in {"idle", "rejected", "acquiring"} =>
           /\ agg[r].accumulated_message = <<>>
           /\ agg[r].accumulated_reasoning = <<>>

\* At any time a callback has heard what has been accumulated so far.
HeardIsSpoken(r) ==
    /\ heard[r].delta = IF "on_delta" \in callbacks[r]
                        THEN agg[r].accumulated_message ELSE <<>>
    /\ heard[r].reasoning = IF "on_reasoning_delta" \in callbacks[r]
                            THEN agg[r].accumulated_reasoning ELSE <<>>

\* The answer is what has been accumulated, after the request's base.
AnswerIsSpoken(r) ==
    Answered(r) =>
        /\ AnswerOf(r).previous = base[r]
        /\ AnswerOf(r).message.role = "assistant"
        /\ AnswerOf(r).message.message = agg[r].accumulated_message
        /\ AnswerOf(r).message.reasoning = agg[r].accumulated_reasoning

StreamIInv ==
    /\ StreamTypeOK
    /\ \A r \in Requests : Control(r) /\ HeardIsSpoken(r) /\ AnswerIsSpoken(r)

-----------------------------------------------------------------------------
(* The three kinds of steps *)

\* Finish, called for a request that is not done, answers it.
LEMMA FinishAnswers ==
    ASSUME StreamTypeOK, NEW r \in Requests, Pending(r),
           NEW a \in StreamAggregate, ~ a.done,
           a.accumulated_message = agg[r].accumulated_message,
           a.accumulated_reasoning = agg[r].accumulated_reasoning,
           NEW success \in BOOLEAN, NEW error \in Errors,
           Finish(r, a, success, error),
           UNCHANGED <<base, callbacks, heard>>
    PROVE  AnswerStep(r)
<1> DEFINE b == FinishedAggregate(a, error)
<1>1. /\ b \in StreamAggregate
      /\ b.accumulated_message = a.accumulated_message
      /\ b.accumulated_reasoning = a.accumulated_reasoning
  BY DEF FinishedAggregate, StreamAggregate
<1>2. /\ stage' = [stage EXCEPT ![r] = "finished"]
      /\ agg' = [agg EXCEPT ![r] = b]
      /\ AnswerWith(r, FinishedMessage(b, tool_calls[r]),
                    FinishedLog(b, success))
  BY DEF Finish, FinishedAggregate
<1> HIDE DEF b
<1>3. agg \in [Requests -> StreamAggregate]
  BY DEF StreamTypeOK
<1>4. /\ \A s \in Requests : SameTexts(s)
      /\ \A s \in Requests \ {r} : agg'[s].done = agg[s].done
  BY <1>1, <1>2, <1>3 DEF SameTexts
<1>5. /\ FinishedMessage(b, tool_calls[r]).role = "assistant"
      /\ FinishedMessage(b, tool_calls[r]).message = b.accumulated_message
      /\ FinishedMessage(b, tool_calls[r]).reasoning = b.accumulated_reasoning
      /\ FinishedLog(b, success).status \in {"kSuccess", "kFail"}
      /\ FinishedLog(b, success).http_status_code \in Nat
      /\ FinishedLog(b, success).delta_count \in Nat
  BY <1>1, FinishedTypes
<1> QED  BY <1>1, <1>2, <1>4, <1>5 DEF AnswerStep

\* Every step of a request is of one of the three kinds; that finish() finds
\* the aggregate not done yet follows from Control.
LEMMA StepKinds ==
    ASSUME StreamTypeOK, NEW r \in Requests, Control(r), RequestStep(r)
    PROVE  QuietStep(r) \/ SpeakStep(r) \/ AnswerStep(r)
<1>1. /\ agg \in [Requests -> StreamAggregate] /\ agg[r] \in StreamAggregate
      /\ agg[r].done \in BOOLEAN
      /\ stage \in [Requests -> Stages]
      /\ heard \in [Requests -> [delta : Seq(Text), reasoning : Seq(Text)]]
  BY DEF StreamTypeOK, StreamAggregate
<1>2. stage[r] # "finished" => ~ agg[r].done
  BY DEF Control
<1>3. /\ "stream cancelled" \in Errors /\ "transport error" \in Errors
      /\ "HTTP status" \in Errors /\ "" \in Errors
      /\ "invalid stream delta JSON payload" \in Errors
  BY DEF Errors
<1>4. CASE OnAcquired(r)
  <2> QED  BY <1>1, <1>4 DEF OnAcquired, QuietStep, Pending, SameTexts
<1>5. CASE OnAcquireFailed(r)
  <2> DEFINE log == [BuildLogSkeleton(Model, TRUE) EXCEPT
                        !.error_message = "transport error"]
  <2>1. /\ stage[r] = "acquiring"
        /\ stage' = [stage EXCEPT ![r] = "finished"]
        /\ AnswerWith(r, EmptyAssistant, log)
        /\ UNCHANGED <<base, callbacks, agg, heard>>
    BY <1>5 DEF OnAcquireFailed
  <2>2. /\ EmptyAssistant.role = "assistant"
        /\ EmptyAssistant.message = <<>> /\ EmptyAssistant.reasoning = <<>>
        /\ log.status \in {"kSuccess", "kFail"}
        /\ log.http_status_code \in Nat /\ log.delta_count \in Nat
    BY DEF EmptyAssistant, BuildLogSkeleton, LocalLog
  <2> HIDE DEF log
  <2>3. /\ EmptyAssistant.message = agg[r].accumulated_message
        /\ EmptyAssistant.reasoning = agg[r].accumulated_reasoning
    BY <2>1, <2>2 DEF Control
  <2> QED  BY <2>1, <2>2, <2>3 DEF AnswerStep, Pending, SameTexts
<1>6. CASE Start(r)
  <2>1. PICK cancelled \in BOOLEAN, failed \in BOOLEAN, code \in HttpCodes :
            OnStart(r, cancelled, failed, code)
    BY <1>6 DEF Start
  <2> DEFINE a == [agg[r] EXCEPT !.http_status_code = code]
  <2>2. /\ a \in StreamAggregate
        /\ a.accumulated_message = agg[r].accumulated_message
        /\ a.accumulated_reasoning = agg[r].accumulated_reasoning
        /\ a.done = agg[r].done
    BY <1>1, HttpCodesAssumption DEF StreamAggregate
  <2>3. stage[r] = "opening" /\ UNCHANGED <<base, callbacks, heard>>
    BY <2>1 DEF OnStart
  <2>4. \/ \E error \in Errors : Finish(r, a, FALSE, error)
        \/ /\ stage' = [stage EXCEPT ![r] = "reading"]
           /\ agg' = [agg EXCEPT ![r] = a]
           /\ UNCHANGED <<nodes, answers>>
    BY <2>1, <1>3 DEF OnStart
  <2> HIDE DEF a
  <2>5. CASE \E error \in Errors : Finish(r, a, FALSE, error)
    BY <1>2, <2>2, <2>3, <2>5, FinishAnswers DEF Pending
  <2>6. CASE /\ stage' = [stage EXCEPT ![r] = "reading"]
             /\ agg' = [agg EXCEPT ![r] = a]
             /\ UNCHANGED <<nodes, answers>>
    BY <1>1, <2>2, <2>3, <2>6 DEF QuietStep, Pending, SameTexts
  <2> QED  BY <2>4, <2>5, <2>6
<1>7. CASE Fail(r)
  BY <1>1, <1>2, <1>3, <1>7, FinishAnswers DEF Fail, OnNextFailed, Pending
<1>8. CASE Read(r, TRUE) \/ Read(r, FALSE)
  BY <1>1, <1>8 DEF Read, OnNext, QuietStep, Pending, SameTexts
<1>9. CASE SkipEmptyEvent(r)
  BY <1>1, <1>9 DEF SkipEmptyEvent, Drains, QuietStep, Pending, SameTexts
<1>10. CASE ProcessDoneMarker(r)
  BY <1>1, <1>2, <1>3, <1>10, FinishAnswers
     DEF ProcessDoneMarker, Drains, Pending
<1>11. /\ Counted(agg[r]) \in StreamAggregate
       /\ Counted(agg[r]).accumulated_message = agg[r].accumulated_message
       /\ Counted(agg[r]).accumulated_reasoning = agg[r].accumulated_reasoning
       /\ Counted(agg[r]).done = agg[r].done
  <2>1. Counted(agg[r])
            = [agg[r] EXCEPT !.delta_count = agg[r].delta_count + 1]
    BY DEF Counted
  <2> QED  BY <1>1, <2>1, CountedTypes DEF StreamAggregate
<1>12. CASE ProcessInvalidEvent(r)
  BY <1>2, <1>3, <1>11, <1>12, FinishAnswers
     DEF ProcessInvalidEvent, Drains, Pending
<1>13. CASE ProcessPayload(r)
  <2> DEFINE payload == NextEvent(r)
             a == Counted(agg[r])
             b == ApplyStreamDeltaPayload(a, payload)
             c == AppendDelta(b, payload)
  <2>1. /\ Drains(r) /\ payload \in Payloads
        /\ agg' = [agg EXCEPT ![r] = c]
        /\ heard' = [heard EXCEPT ![r] = CallBack(callbacks[r], @, payload)]
        /\ UNCHANGED <<nodes, stage, base, callbacks, answers>>
    BY <1>13 DEF ProcessPayload
  <2> HIDE DEF payload
  <2>2. /\ b.accumulated_message = a.accumulated_message
        /\ b.accumulated_reasoning = a.accumulated_reasoning
        /\ b.done = a.done
        /\ DOMAIN b = DOMAIN a
    BY <1>11 DEF ApplyStreamDeltaPayload, StreamAggregate
  <2>3. /\ c.accumulated_message
               = AppendText(b.accumulated_message, payload.content)
        /\ c.accumulated_reasoning
               = AppendText(b.accumulated_reasoning, payload.reasoning)
        /\ c.done = b.done
    BY <1>11, <2>2 DEF AppendDelta, StreamAggregate
  <2> HIDE DEF a, b, c
  <2>4. /\ a.accumulated_message = agg[r].accumulated_message
        /\ a.accumulated_reasoning = agg[r].accumulated_reasoning
        /\ a.done = agg[r].done
    BY <1>11 DEF a
  <2>5. agg'[r] = c /\ \A s \in Requests \ {r} : agg'[s] = agg[s]
    BY <1>1, <2>1
  <2> QED  BY <2>1, <2>2, <2>3, <2>4, <2>5 DEF SpeakStep, Drains
<1>14. CASE EndOfChunk(r)
  <2>1. CASE eof[r]
    BY <1>1, <1>2, <1>3, <1>14, <2>1, FinishAnswers DEF EndOfChunk, Pending
  <2>2. CASE ~ eof[r]
    BY <1>1, <1>14, <2>2 DEF EndOfChunk, QuietStep, Pending, SameTexts
  <2> QED  BY <2>1, <2>2
<1> QED
  BY <1>4, <1>5, <1>6, <1>7, <1>8, <1>9, <1>10, <1>12, <1>13, <1>14
     DEF RequestStep, Acquire, Drain

-----------------------------------------------------------------------------
(* The inductive invariant *)

\* The invariant holds before the first fetch ...
LEMMA InitIInv == StreamInit => StreamIInv
<1> SUFFICES ASSUME StreamInit PROVE StreamIInv
  OBVIOUS
<1>1. StreamTypeOK
  BY InitTypes
<1>2. ASSUME NEW r \in Requests
      PROVE  /\ stage[r] = "idle" /\ answers[r] = <<>> /\ callbacks[r] = {}
             /\ heard[r].delta = <<>> /\ heard[r].reasoning = <<>>
             /\ agg[r].accumulated_message = <<>>
             /\ agg[r].accumulated_reasoning = <<>>
             /\ agg[r].done = FALSE
  BY DEF StreamInit, EmptyAggregate
<1>3. ASSUME NEW r \in Requests
      PROVE  Control(r) /\ HeardIsSpoken(r) /\ AnswerIsSpoken(r)
  <2>1. Len(<<>>) = 0
    OBVIOUS
  <2>2. Control(r)
    BY <1>2, <2>1 DEF Control
  <2>3. HeardIsSpoken(r)
    BY <1>2 DEF HeardIsSpoken
  <2>4. AnswerIsSpoken(r)
    BY <1>2 DEF AnswerIsSpoken, Answered
  <2> QED  BY <2>2, <2>3, <2>4
<1> QED  BY <1>1, <1>3 DEF StreamIInv

\* A request of which nothing changes but, perhaps, the heap around its answer
\* keeps its part of the invariant.
LEMMA Untouched ==
    ASSUME StreamTypeOK, NEW r \in Requests,
           Control(r), HeardIsSpoken(r), AnswerIsSpoken(r),
           stage'[r] = stage[r], base'[r] = base[r],
           callbacks'[r] = callbacks[r], SameTexts(r),
           agg'[r].done = agg[r].done, heard'[r] = heard[r],
           answers'[r] = answers[r],
           \A n \in States : nodes'[n] = nodes[n]
    PROVE  Control(r)' /\ HeardIsSpoken(r)' /\ AnswerIsSpoken(r)'
<1>1. Control(r)' /\ HeardIsSpoken(r)'
  BY DEF Control, HeardIsSpoken, SameTexts
<1>2. ASSUME Answered(r)' PROVE AnswerOf(r)' = AnswerOf(r) /\ Answered(r)
  <2>1. answers[r] \in Seq(Nat) /\ answers[r] # <<>>
    BY <1>2 DEF Answered, StreamTypeOK
  <2>2. 1 \in DOMAIN answers[r]
    BY <2>1
  <2>3. answers[r][1] \in States
    BY <2>2 DEF StreamTypeOK
  <2> QED  BY <2>1, <2>3 DEF AnswerOf, Answered
<1>3. AnswerIsSpoken(r)'
  BY <1>2 DEF AnswerIsSpoken, SameTexts
<1> QED  BY <1>1, <1>3

\* ... a step of one request keeps its parts, for any other ...
LEMMA RequestStepIInv ==
    ASSUME StreamIInv, NEW r \in Requests, RequestStep(r),
           NEW s \in Requests
    PROVE  Control(s)' /\ HeardIsSpoken(s)' /\ AnswerIsSpoken(s)'
<1>1. /\ StreamTypeOK /\ Control(s) /\ HeardIsSpoken(s) /\ AnswerIsSpoken(s)
      /\ Control(r) /\ HeardIsSpoken(r) /\ AnswerIsSpoken(r)
  BY DEF StreamIInv
<1>2. /\ stage \in [Requests -> Stages]
      /\ answers \in [Requests -> Seq(Nat)]
      /\ heard \in [Requests -> [delta : Seq(Text), reasoning : Seq(Text)]]
  BY <1>1 DEF StreamTypeOK
<1>3. CASE QuietStep(r)
  <2>1. CASE s # r
    BY <1>1, <1>3, <2>1, Untouched DEF QuietStep
  <2>2. CASE s = r
    <3>1. /\ Pending(r) /\ stage'[r] \in {"opening", "reading", "draining"}
          /\ SameTexts(r) /\ agg'[r].done = agg[r].done
          /\ UNCHANGED <<nodes, base, callbacks, heard, answers>>
      BY <1>3 DEF QuietStep
    <3>2. Control(r)' /\ HeardIsSpoken(r)'
      BY <1>1, <3>1 DEF Control, HeardIsSpoken, SameTexts, Pending
    <3>3. AnswerIsSpoken(r)'
      BY <1>1, <3>1 DEF AnswerIsSpoken, SameTexts, Answered, AnswerOf
    <3> QED  BY <2>2, <3>2, <3>3
  <2> QED  BY <2>1, <2>2
<1>4. CASE SpeakStep(r)
  <2>1. CASE s # r
    <3>1. heard'[s] = heard[s] /\ SameTexts(s) /\ agg'[s].done = agg[s].done
      BY <1>2, <1>4, <2>1 DEF SpeakStep, SameTexts
    <3> QED  BY <1>1, <1>4, <2>1, <3>1, Untouched DEF SpeakStep
  <2>2. CASE s = r
    <3>1. PICK payload \in Payloads :
              /\ agg'[r].accumulated_message
                     = AppendText(agg[r].accumulated_message, payload.content)
              /\ agg'[r].accumulated_reasoning
                     = AppendText(agg[r].accumulated_reasoning,
                                  payload.reasoning)
              /\ heard' = [heard EXCEPT ![r] =
                               CallBack(callbacks[r], @, payload)]
      BY <1>4 DEF SpeakStep
    <3>2. /\ stage[r] = "draining" /\ agg'[r].done = agg[r].done
          /\ UNCHANGED <<nodes, stage, base, callbacks, answers>>
      BY <1>4 DEF SpeakStep
    <3>3. Control(r)'
      BY <1>1, <3>2 DEF Control
    <3>4. heard'[r] = CallBack(callbacks[r], heard[r], payload)
      BY <1>2, <3>1
    <3>5. /\ heard'[r].delta = IF "on_delta" \in callbacks[r]
                               THEN AppendText(heard[r].delta, payload.content)
                               ELSE heard[r].delta
          /\ heard'[r].reasoning =
                 IF "on_reasoning_delta" \in callbacks[r]
                 THEN AppendText(heard[r].reasoning, payload.reasoning)
                 ELSE heard[r].reasoning
      BY <3>4 DEF CallBack
    <3>6. HeardIsSpoken(r)'
      BY <1>1, <3>1, <3>2, <3>5 DEF HeardIsSpoken
    <3>7. answers[r] \in Seq(Nat) /\ Len(answers[r]) = 0
      BY <1>1, <1>2, <3>2 DEF Control
    <3>8. ~ Answered(r)'
      BY <3>2, <3>7 DEF Answered
    <3> QED  BY <2>2, <3>3, <3>6, <3>8 DEF AnswerIsSpoken
  <2> QED  BY <2>1, <2>2
<1>5. CASE AnswerStep(r)
  <2>1. PICK message, log :
            /\ AnswerWith(r, message, log)
            /\ message.role = "assistant"
            /\ message.message = agg[r].accumulated_message
            /\ message.reasoning = agg[r].accumulated_reasoning
            /\ log.status \in {"kSuccess", "kFail"}
            /\ log.http_status_code \in Nat /\ log.delta_count \in Nat
    BY <1>5 DEF AnswerStep
  <2>2. /\ base[r] # NullState
        /\ message.message \in Seq(Text) /\ log.status \in Statuses
    BY <1>1, <1>5, <2>1 DEF AnswerStep, Pending, StreamTypeOK, StreamAggregate,
                            Statuses
  <2>3. /\ NewState \in Nat
        /\ \A n \in States : nodes'[n] = nodes[n]
        /\ nodes'[NewState] = [message |-> message, log |-> log,
                               previous |-> base[r]]
        /\ answers'[r] = Append(answers[r], NewState)
        /\ \A t \in Requests \ {r} : answers'[t] = answers[t]
    BY <1>1, <2>1, <2>2, AnswerNode
  <2>4. /\ Pending(r)
        /\ stage' = [stage EXCEPT ![r] = "finished"]
        /\ \A t \in Requests : SameTexts(t)
        /\ \A t \in Requests \ {r} : agg'[t].done = agg[t].done
        /\ UNCHANGED <<base, callbacks, heard>>
    BY <1>5 DEF AnswerStep
  <2>5. CASE s # r
    <3>1. stage'[s] = stage[s]
      BY <1>2, <2>4, <2>5
    <3> QED  BY <1>1, <2>3, <2>4, <2>5, <3>1, Untouched
  <2>6. CASE s = r
    <3>1. answers[r] \in Seq(Nat) /\ Len(answers[r]) = 0
      BY <1>1, <1>2, <2>4 DEF Control, Pending
    <3>2. Len(answers'[r]) = 1 /\ answers'[r][1] = NewState
      BY <2>3, <3>1
    <3>3. stage'[r] = "finished"
      BY <1>2, <2>4
    <3>4. Control(r)'
      BY <3>2, <3>3 DEF Control
    <3>5. HeardIsSpoken(r)'
      BY <1>1, <2>4 DEF HeardIsSpoken, SameTexts
    <3>6. AnswerOf(r)' = [message |-> message, log |-> log,
                          previous |-> base[r]]
      BY <2>3, <3>2 DEF AnswerOf
    <3>7. AnswerIsSpoken(r)'
      BY <2>1, <2>4, <3>6 DEF AnswerIsSpoken, SameTexts
    <3> QED  BY <2>6, <3>4, <3>5, <3>7
  <2> QED  BY <2>5, <2>6
<1> QED  BY <1>1, <1>3, <1>4, <1>5, StepKinds

\* The other steps, the caller's, are quiet too.
LEMMA FetchIInv ==
    ASSUME StreamIInv, StreamFetch, NEW s \in Requests
    PROVE  Control(s)' /\ HeardIsSpoken(s)' /\ AnswerIsSpoken(s)'
<1>1. /\ StreamTypeOK /\ Control(s) /\ HeardIsSpoken(s) /\ AnswerIsSpoken(s)
      /\ stage \in [Requests -> Stages]
      /\ base \in [Requests -> Nat]
      /\ callbacks \in [Requests -> SUBSET Callbacks]
      /\ answers \in [Requests -> Seq(Nat)]
  BY DEF StreamIInv, StreamTypeOK
<1>2. PICK r \in Requests, state \in States \cup {NullState},
           cbs \in SUBSET Callbacks, configured \in BOOLEAN :
           \/ FetchStreamCompletion(r, state, cbs, configured)
           \/ RejectStreamCompletion(r, state, cbs, configured)
  BY DEF StreamFetch
<1>3. /\ stage[r] = "idle"
      /\ \A t \in Requests \ {r} : /\ stage'[t] = stage[t]
                                   /\ base'[t] = base[t]
                                   /\ callbacks'[t] = callbacks[t]
      /\ stage'[r] \in {"acquiring", "rejected"}
      /\ UNCHANGED <<nodes, agg, heard, answers>>
  BY <1>1, <1>2 DEF FetchStreamCompletion, RejectStreamCompletion
<1>4. CASE s # r
  BY <1>1, <1>3, <1>4, Untouched DEF SameTexts
<1>5. CASE s = r
  <2>1. /\ Control(s)'
        /\ answers[s] \in Seq(Nat) /\ Len(answers[s]) = 0
    BY <1>1, <1>3, <1>5 DEF Control
  <2>2. ~ Answered(s)'
    BY <1>3, <2>1 DEF Answered
  <2>3. heard'[s].delta = <<>> /\ heard'[s].reasoning = <<>>
    BY <1>1, <1>3, <1>5 DEF Control, HeardIsSpoken
  <2>4. HeardIsSpoken(s)'
    BY <1>1, <1>3, <1>5, <2>3 DEF HeardIsSpoken, Control
  <2> QED  BY <2>1, <2>2, <2>4 DEF AnswerIsSpoken
<1> QED  BY <1>4, <1>5

\* ... and so does every step.
LEMMA StepIInv == StreamIInv /\ [StreamNext]_streamVars => StreamIInv'
<1> SUFFICES ASSUME StreamIInv, [StreamNext]_streamVars PROVE StreamIInv'
  OBVIOUS
<1>1. StreamTypeOK /\ StreamTypeOK'
  BY StepTypes DEF StreamIInv
<1>2. ASSUME NEW s \in Requests
      PROVE  Control(s)' /\ HeardIsSpoken(s)' /\ AnswerIsSpoken(s)'
  <2>1. Control(s) /\ HeardIsSpoken(s) /\ AnswerIsSpoken(s)
    BY DEF StreamIInv
  <2>2. CASE CallerAppends /\ UNCHANGED <<stage, base, callbacks, agg, heard,
                                          answers>>
    <3>1. \A n \in States : nodes'[n] = nodes[n]
      BY <1>1, <2>2, CallerAppendsNode DEF StreamTypeOK
    <3> QED  BY <1>1, <2>1, <2>2, <3>1, Untouched DEF SameTexts
  <2>3. CASE StreamFetch
    BY <2>3, FetchIInv
  <2>4. CASE \E r \in Requests : RequestStep(r)
    BY <2>4, RequestStepIInv
  <2>5. CASE UNCHANGED streamVars
    BY <1>1, <2>1, <2>5, Untouched DEF SameTexts, streamVars
  <2> QED  BY <2>2, <2>3, <2>4, <2>5 DEF StreamNext
<1> QED  BY <1>1, <1>2 DEF StreamIInv

\* In every reachable state a request that has not finished has no answer and
\* has told its callbacks all it has accumulated; one that has finished has one
\* answer, which holds all it has accumulated.
THEOREM InvariantHolds == StreamSpec => []StreamIInv
<1>1. StreamInit => StreamIInv
  BY InitIInv
<1>2. StreamIInv /\ [StreamNext]_streamVars => StreamIInv'
  BY StepIInv
<1> QED  BY <1>1, <1>2, PTL DEF StreamSpec

-----------------------------------------------------------------------------
(* The properties *)

\* on_done is called exactly once for an accepted request and never for
\* another, for any number of requests, any payloads and chunks of any size,
\* and whatever the transport does.
THEOREM ExactlyOnce == StreamSpec => []AnsweredExactlyOnce
<1>1. StreamIInv => AnsweredExactlyOnce
  BY DEF StreamIInv, Control, AnsweredExactlyOnce
<1> QED  BY <1>1, InvariantHolds, PTL

\* The pieces the callbacks were called with spell the message and the
\* reasoning on_done receives.
THEOREM DeltasSpell == StreamSpec => []DeltasSpellTheAnswer
<1>1. StreamIInv => DeltasSpellTheAnswer
  BY DEF StreamIInv, HeardIsSpoken, AnswerIsSpoken, DeltasSpellTheAnswer
<1> QED  BY <1>1, InvariantHolds, PTL

\* After on_done no callback of the request is called again.
THEOREM Silent == StreamSpec => SilentAfterDone
<1>1. ASSUME StreamIInv, [StreamNext]_streamVars, NEW r \in Requests,
             Answered(r)
      PROVE  heard'[r] = heard[r] /\ answers'[r] = answers[r]
  <2>1. /\ StreamTypeOK
        /\ heard \in [Requests -> [delta : Seq(Text), reasoning : Seq(Text)]]
        /\ answers[r] \in Seq(Nat)
    BY <1>1 DEF StreamIInv, StreamTypeOK
  <2>2. stage[r] = "finished"
    <3>1. answers[r] # <<>>
      BY <1>1 DEF Answered
    <3>2. Len(answers[r]) # 0
      BY <2>1, <3>1
    <3> QED  BY <1>1, <3>2 DEF StreamIInv, Control
  <2>3. CASE UNCHANGED <<heard, answers>>
    BY <2>3
  <2>4. ASSUME NEW s \in Requests, RequestStep(s)
        PROVE  heard'[r] = heard[r] /\ answers'[r] = answers[r]
    <3>1. QuietStep(s) \/ SpeakStep(s) \/ AnswerStep(s)
      BY <1>1, <2>4, StepKinds DEF StreamIInv
    <3>2. CASE QuietStep(s)
      BY <3>2 DEF QuietStep
    <3>3. CASE SpeakStep(s)
      BY <2>1, <2>2, <3>3 DEF SpeakStep
    <3>4. CASE AnswerStep(s)
      <4>1. s # r /\ heard' = heard
        BY <2>2, <3>4 DEF AnswerStep, Pending
      <4>2. answers'[r] = answers[r]
        BY <2>1, <3>4, <4>1 DEF AnswerStep, AnswerWith, StreamTypeOK
      <4> QED  BY <4>1, <4>2
    <3> QED  BY <3>1, <3>2, <3>3, <3>4
  <2> QED
    BY <1>1, <2>3, <2>4
       DEF StreamNext, StreamFetch, FetchStreamCompletion,
           RejectStreamCompletion, streamVars
<1>2. ASSUME StreamIInv, [StreamNext]_streamVars
      PROVE  [\A r \in Requests :
                 Answered(r) => heard'[r] = heard[r] /\ answers'[r] = answers[r]
             ]_streamVars
  BY <1>1, <1>2
<1> QED  BY <1>2, InvariantHolds, PTL DEF StreamSpec, SilentAfterDone

-----------------------------------------------------------------------------
(* What a request answers with *)

\* No error is noted before a request finishes, and no response is read unless
\* its status was a success.
StatusControl(r) ==
    /\ stage[r] # "finished" => agg[r].error_message = ""
    /\ stage[r] \in {"reading", "draining"} =>
          agg[r].http_status_code \in 200 .. 299

AnswerIsHonest(r) ==
    Answered(r) => /\ HonestLog(AnswerOf(r).log, TRUE)
                   /\ IsList(AnswerOf(r).message.tool_calls)

\* Finitely many calls have been seen, in every stream.
CallsAreFinite ==
    /\ DOMAIN tool_calls = Requests
    /\ \A r \in Requests : IsFiniteSet(DOMAIN tool_calls[r])

SentItsConversation(r) ==
    base[r] # NullState =>
        request_body[r] = CollectMessageChain(nodes, base[r])

\* The inductive invariant.
AnswersIInv ==
    /\ StreamIInv
    /\ CallsAreFinite
    /\ DOMAIN request_body = Requests
    /\ \A r \in Requests :
          StatusControl(r) /\ AnswerIsHonest(r) /\ SentItsConversation(r)

\* A step that does not answer, and one that does.
OnwardStep(r) ==
    /\ Pending(r)
    /\ \A s \in Requests \ {r} : agg'[s] = agg[s] /\ stage'[s] = stage[s]
    /\ stage'[r] # "finished" /\ StatusControl(r)'
    /\ UNCHANGED <<nodes, answers, base, request_body>>

HonestStep(r) ==
    /\ Pending(r)
    /\ \A s \in Requests \ {r} : agg'[s] = agg[s] /\ stage'[s] = stage[s]
    /\ stage'[r] = "finished"
    /\ UNCHANGED <<base, request_body>>
    /\ \E message, log : /\ AnswerWith(r, message, log)
                         /\ HonestLog(log, TRUE) /\ IsList(message.tool_calls)

-----------------------------------------------------------------------------
(* The tool calls *)

\* Only a payload adds calls, and only finitely many.
LEMMA StepsAccumulateFinitely ==
    ASSUME CallsAreFinite, NEW r \in Requests, RequestStep(r)
    PROVE  CallsAreFinite'
<1>1. CASE UNCHANGED tool_calls
  BY <1>1 DEF CallsAreFinite
<1>2. CASE ProcessPayload(r)
  <2> DEFINE fragments == NextEvent(r).tool_calls
             calls == AccumulateStreamToolCalls(tool_calls[r], fragments)
  <2>1. /\ fragments \in Seq(Range(fragments))
        /\ tool_calls' = [tool_calls EXCEPT ![r] = calls]
    BY <1>2, PayloadsAssumption DEF ProcessPayload
  <2> HIDE DEF fragments
  <2>2. Len(fragments) \in Nat
    BY <2>1
  <2>3. IsFiniteSet(DOMAIN calls)
    BY <2>2, AccumulationStaysFinite DEF CallsAreFinite
  <2> HIDE DEF calls
  <2> QED  BY <2>1, <2>3 DEF CallsAreFinite
<1> QED
  BY <1>1, <1>2
     DEF RequestStep, Acquire, OnAcquired, OnAcquireFailed, Start, OnStart, Fail,
         OnNextFailed, Drain, SkipEmptyEvent, ProcessDoneMarker,
         ProcessInvalidEvent, EndOfChunk, Read, OnNext

\* The empty assistant message calls no tools.
LEMMA NoCallsAreAList == IsList(EmptyAssistant.tool_calls)
<1>1. EmptyAssistant.tool_calls = <<>>
  BY DEF EmptyAssistant
<1> QED  BY <1>1 DEF IsList

-----------------------------------------------------------------------------
(* The two kinds of steps *)

\* Finish is told of a success by no error, after a success status, or of a
\* failure by an error: its log is honest.
LEMMA FinishIsHonest ==
    ASSUME StreamTypeOK, CallsAreFinite, NEW r \in Requests, Pending(r),
           NEW a \in StreamAggregate, ~ a.done, a.error_message = "",
           NEW success \in BOOLEAN, NEW error \in Errors,
           success <=> error = "",
           success => a.http_status_code \in 200 .. 299,
           Finish(r, a, success, error), UNCHANGED <<base, request_body>>
    PROVE  HonestStep(r)
<1> DEFINE b == FinishedAggregate(a, error)
           log == FinishedLog(b, success)
<1>1. /\ b.error_message = error
      /\ b.http_status_code = a.http_status_code
  BY DEF FinishedAggregate, StreamAggregate
<1>2. /\ stage' = [stage EXCEPT ![r] = "finished"]
      /\ agg' = [agg EXCEPT ![r] = b]
      /\ AnswerWith(r, FinishedMessage(b, tool_calls[r]), log)
  BY DEF Finish, FinishedAggregate
<1> HIDE DEF b
<1>3. /\ log.status = IF success THEN "kSuccess" ELSE "kFail"
      /\ log.error_message = b.error_message
      /\ log.http_status_code = b.http_status_code
      /\ log.is_stream = TRUE
  BY DEF FinishedLog, BuildLogSkeleton, LocalLog
<1> HIDE DEF log
<1>4. HonestLog(log, TRUE)
  BY <1>1, <1>3 DEF HonestLog
<1>5. agg \in [Requests -> StreamAggregate] /\ stage \in [Requests -> Stages]
  BY DEF StreamTypeOK
<1>6. IsList(FinishedMessage(b, tool_calls[r]).tool_calls)
  <2>1. FinishedMessage(b, tool_calls[r]).tool_calls
            = BuildToolCallsFromAccumulation(tool_calls[r])
    BY DEF FinishedMessage, EmptyAssistant
  <2> QED  BY <2>1, BuiltCallsAreAList DEF CallsAreFinite
<1> QED  BY <1>2, <1>4, <1>5, <1>6 DEF HonestStep

\* Every step of a request goes on without an error, or answers honestly.
LEMMA StepsAreHonest ==
    ASSUME StreamTypeOK, CallsAreFinite, NEW r \in Requests, Control(r),
           StatusControl(r), RequestStep(r)
    PROVE  OnwardStep(r) \/ HonestStep(r)
<1>1. /\ agg \in [Requests -> StreamAggregate] /\ agg[r] \in StreamAggregate
      /\ agg[r].done \in BOOLEAN
      /\ stage \in [Requests -> Stages]
  BY DEF StreamTypeOK, StreamAggregate
<1>2. /\ stage[r] # "finished" => ~ agg[r].done /\ agg[r].error_message = ""
      /\ stage[r] \in {"reading", "draining"} =>
             agg[r].http_status_code \in 200 .. 299
  BY DEF Control, StatusControl
<1>3. /\ "stream cancelled" \in Errors \ {""}
      /\ "transport error" \in Errors \ {""} /\ "HTTP status" \in Errors \ {""}
      /\ "invalid stream delta JSON payload" \in Errors \ {""} /\ "" \in Errors
  BY DEF Errors
<1>4. CASE OnAcquired(r)
  BY <1>1, <1>2, <1>4 DEF OnAcquired, OnwardStep, Pending, StatusControl
<1>5. CASE OnAcquireFailed(r)
  <2> DEFINE log == [BuildLogSkeleton(Model, TRUE) EXCEPT
                        !.error_message = "transport error"]
  <2>1. log.status = "kFail" /\ log.is_stream = TRUE
        /\ log.error_message = "transport error"
    BY DEF BuildLogSkeleton, LocalLog
  <2>2. /\ stage[r] = "acquiring"
        /\ stage' = [stage EXCEPT ![r] = "finished"]
        /\ AnswerWith(r, EmptyAssistant, log)
        /\ UNCHANGED <<base, request_body, agg>>
    BY <1>5 DEF OnAcquireFailed
  <2> HIDE DEF log
  <2>3. HonestLog(log, TRUE)
    BY <2>1 DEF HonestLog
  <2> QED  BY <1>1, <2>2, <2>3, NoCallsAreAList DEF HonestStep, Pending
<1>6. CASE Start(r)
  <2>1. PICK cancelled \in BOOLEAN, failed \in BOOLEAN, code \in HttpCodes :
            OnStart(r, cancelled, failed, code)
    BY <1>6 DEF Start
  <2> DEFINE a == [agg[r] EXCEPT !.http_status_code = code]
  <2>2. /\ a \in StreamAggregate /\ a.done = agg[r].done
        /\ a.error_message = agg[r].error_message /\ a.http_status_code = code
    BY <1>1, HttpCodesAssumption DEF StreamAggregate
  <2>3. /\ stage[r] = "opening" /\ UNCHANGED <<base, request_body>>
        /\ \/ \E error \in Errors \ {""} : Finish(r, a, FALSE, error)
           \/ /\ IsHttpSuccessStatus(code)
              /\ stage' = [stage EXCEPT ![r] = "reading"]
              /\ agg' = [agg EXCEPT ![r] = a]
              /\ UNCHANGED <<nodes, answers>>
    BY <2>1, <1>3 DEF OnStart
  <2> HIDE DEF a
  <2>4. CASE \E error \in Errors \ {""} : Finish(r, a, FALSE, error)
    BY <1>2, <2>2, <2>3, <2>4, FinishIsHonest DEF Pending
  <2>5. CASE /\ IsHttpSuccessStatus(code)
             /\ stage' = [stage EXCEPT ![r] = "reading"]
             /\ agg' = [agg EXCEPT ![r] = a]
             /\ UNCHANGED <<nodes, answers>>
    <3>1. code \in 200 .. 299
      BY <2>5, HttpCodesAssumption DEF IsHttpSuccessStatus
    <3> QED  BY <1>1, <1>2, <2>2, <2>3, <2>5, <3>1
             DEF OnwardStep, Pending, StatusControl
  <2> QED  BY <2>3, <2>4, <2>5
<1>7. CASE Fail(r)
  BY <1>1, <1>2, <1>3, <1>7, FinishIsHonest DEF Fail, OnNextFailed, Pending
<1>8. CASE \E last \in BOOLEAN : Read(r, last)
  BY <1>1, <1>2, <1>8 DEF Read, OnNext, OnwardStep, Pending, StatusControl
<1>9. CASE SkipEmptyEvent(r)
  BY <1>1, <1>2, <1>9 DEF SkipEmptyEvent, Drains, OnwardStep, Pending,
                          StatusControl
<1>10. CASE ProcessDoneMarker(r)
  BY <1>1, <1>2, <1>3, <1>10, FinishIsHonest
     DEF ProcessDoneMarker, Drains, Pending
<1>11. /\ Counted(agg[r]) \in StreamAggregate
       /\ Counted(agg[r]).done = agg[r].done
       /\ Counted(agg[r]).error_message = agg[r].error_message
       /\ Counted(agg[r]).http_status_code = agg[r].http_status_code
  <2>1. Counted(agg[r])
            = [agg[r] EXCEPT !.delta_count = agg[r].delta_count + 1]
    BY DEF Counted
  <2> QED  BY <1>1, <2>1, CountedTypes DEF StreamAggregate
<1>12. CASE ProcessInvalidEvent(r)
  BY <1>2, <1>3, <1>11, <1>12, FinishIsHonest
     DEF ProcessInvalidEvent, Drains, Pending
<1>13. CASE ProcessPayload(r)
  <2> DEFINE payload == NextEvent(r)
             a == Counted(agg[r])
             b == ApplyStreamDeltaPayload(a, payload)
             c == AppendDelta(b, payload)
  <2>1. /\ stage[r] = "draining"
        /\ agg' = [agg EXCEPT ![r] = c]
        /\ UNCHANGED <<nodes, stage, base, request_body, answers>>
    BY <1>13 DEF ProcessPayload, Drains
  <2> HIDE DEF payload
  <2>2. /\ b.error_message = a.error_message
        /\ b.http_status_code = a.http_status_code /\ DOMAIN b = DOMAIN a
    BY <1>11 DEF ApplyStreamDeltaPayload, StreamAggregate
  <2>3. /\ c.error_message = b.error_message
        /\ c.http_status_code = b.http_status_code
    BY <1>11, <2>2 DEF AppendDelta, StreamAggregate
  <2> HIDE DEF b, c
  <2>4. /\ a.error_message = agg[r].error_message
        /\ a.http_status_code = agg[r].http_status_code
    BY <1>11
  <2> HIDE DEF a
  <2>5. agg'[r] = c /\ \A s \in Requests \ {r} : agg'[s] = agg[s]
    BY <1>1, <2>1
  <2>6. /\ stage' = stage /\ stage'[r] = "draining"
        /\ agg'[r].error_message = "" /\ agg'[r].http_status_code \in 200 .. 299
    <3>1. stage' = stage /\ stage'[r] = "draining"
      BY <2>1
    <3>2. /\ c.error_message = agg[r].error_message
          /\ c.http_status_code = agg[r].http_status_code
      BY <2>2, <2>3, <2>4
    <3> QED  BY <1>2, <2>1, <2>5, <3>1, <3>2
  <2>7. StatusControl(r)'
    BY <2>6 DEF StatusControl
  <2> QED  BY <2>1, <2>5, <2>6, <2>7 DEF OnwardStep, Pending
<1>14. CASE EndOfChunk(r)
  <2>1. CASE eof[r]
    BY <1>1, <1>2, <1>3, <1>14, <2>1, FinishIsHonest DEF EndOfChunk, Pending
  <2>2. CASE ~ eof[r]
    BY <1>1, <1>2, <1>14, <2>2 DEF EndOfChunk, OnwardStep, Pending,
                                   StatusControl
  <2> QED  BY <2>1, <2>2
<1> QED
  BY <1>4, <1>5, <1>6, <1>7, <1>8, <1>9, <1>10, <1>12, <1>13, <1>14
     DEF RequestStep, Acquire, Drain

-----------------------------------------------------------------------------
(* The invariant *)

\* Every step of a streaming request only adds nodes.
LEMMA RequestGrows ==
    ASSUME StreamIInv, NEW r \in Requests, RequestStep(r)
    PROVE  Grows
<1>1. StreamTypeOK /\ StateTypeOK /\ Control(r)
  BY DEF StreamIInv, StreamTypeOK
<1>2. StateTypeOK'
  BY <1>1, RequestStepTypes DEF StreamTypeOK
<1>3. CASE UNCHANGED nodes
  BY <1>1, <1>2, <1>3 DEF Grows, States
<1>4. CASE AnswerStep(r)
  <2>1. PICK message, log :
            /\ AnswerWith(r, message, log)
            /\ message.message = agg[r].accumulated_message
            /\ log.status \in {"kSuccess", "kFail"}
            /\ log.http_status_code \in Nat /\ log.delta_count \in Nat
    BY <1>4 DEF AnswerStep
  <2>2. /\ base[r] # NullState
        /\ message.message \in Seq(Text) /\ log.status \in Statuses
    BY <1>1, <1>4, <2>1 DEF AnswerStep, Pending, StreamTypeOK, StreamAggregate,
                            Statuses
  <2> QED  BY <1>1, <1>2, <2>1, <2>2, AnswerNode DEF Grows
<1> QED
  BY <1>1, <1>3, <1>4, StepKinds DEF QuietStep, SpeakStep

\* A request that a step is not about keeps its part.
LEMMA OthersStayHonest ==
    ASSUME StreamTypeOK, Grows, NEW r \in Requests,
           StatusControl(r), AnswerIsHonest(r), SentItsConversation(r),
           stage'[r] = stage[r], agg'[r] = agg[r], base'[r] = base[r],
           request_body'[r] = request_body[r], answers'[r] = answers[r]
    PROVE  StatusControl(r)' /\ AnswerIsHonest(r)' /\ SentItsConversation(r)'
<1>1. StatusControl(r)'
  BY DEF StatusControl
<1>2. ASSUME Answered(r)' PROVE AnswerOf(r)' = AnswerOf(r) /\ Answered(r)
  <2>1. answers[r] \in Seq(Nat) /\ answers[r] # <<>>
    BY <1>2 DEF Answered, StreamTypeOK
  <2>2. 1 \in DOMAIN answers[r]
    BY <2>1
  <2>3. answers[r][1] \in States
    BY <2>2 DEF StreamTypeOK
  <2> QED  BY <2>1, <2>3 DEF AnswerOf, Answered, Grows
<1>3. AnswerIsHonest(r)'
  BY <1>2 DEF AnswerIsHonest
<1>4. CollectMessageChain(nodes', base[r]) = CollectMessageChain(nodes, base[r])
  BY ConversationsStay DEF StreamTypeOK
<1>5. SentItsConversation(r)'
  BY <1>4 DEF SentItsConversation
<1> QED  BY <1>1, <1>3, <1>5

\* A step of one request keeps the parts of the invariant, for any other.
LEMMA RequestStepAnswers ==
    ASSUME AnswersIInv, NEW r \in Requests, RequestStep(r), NEW s \in Requests
    PROVE  StatusControl(s)' /\ AnswerIsHonest(s)' /\ SentItsConversation(s)'
<1>1. /\ StreamIInv /\ StreamTypeOK /\ CallsAreFinite /\ Control(r)
      /\ StatusControl(r) /\ AnswerIsHonest(r) /\ SentItsConversation(r)
      /\ StatusControl(s) /\ AnswerIsHonest(s) /\ SentItsConversation(s)
      /\ answers \in [Requests -> Seq(Nat)]
  BY DEF AnswersIInv, StreamIInv, StreamTypeOK
<1>2. Grows
  BY <1>1, RequestGrows
<1>3. /\ \A t \in Requests \ {r} : agg'[t] = agg[t] /\ stage'[t] = stage[t]
      /\ UNCHANGED <<base, request_body>>
  BY <1>1, StepsAreHonest DEF OnwardStep, HonestStep
<1>4. answers[r] = <<>>
  <2>1. Len(answers[r]) = 0 /\ answers[r] \in Seq(Nat)
    BY <1>1, StepsAreHonest DEF OnwardStep, HonestStep, Pending, Control
  <2> QED  BY <2>1
<1>5. CASE s # r
  <2>1. answers'[s] = answers[s]
    BY <1>1, <1>5, StepsAreHonest DEF OnwardStep, HonestStep, AnswerWith
  <2> QED  BY <1>1, <1>2, <1>3, <1>5, <2>1, OthersStayHonest
<1>6. CASE s = r
  <2>1. CollectMessageChain(nodes', base[r])
            = CollectMessageChain(nodes, base[r])
    BY <1>1, <1>2, ConversationsStay DEF StreamTypeOK
  <2>2. SentItsConversation(r)'
    BY <1>1, <1>3, <2>1 DEF SentItsConversation
  <2>3. CASE OnwardStep(r)
    <3>1. ~ Answered(r)'
      BY <1>4, <2>3 DEF OnwardStep, Answered
    <3> QED  BY <1>6, <2>2, <2>3, <3>1 DEF OnwardStep, AnswerIsHonest
  <2>4. CASE HonestStep(r)
    <3>1. PICK message, log :
              /\ AnswerWith(r, message, log)
              /\ HonestLog(log, TRUE) /\ IsList(message.tool_calls)
      BY <2>4 DEF HonestStep
    <3>2. PICK n : n = NewState
      OBVIOUS
    <3>3. answers'[r] = <<n>>
      BY <1>1, <1>4, <3>1, <3>2 DEF AnswerWith
    <3>4. nodes'[n] = [message |-> message, log |-> log, previous |-> base[r]]
      <4>1. nodes \in Seq(Range(nodes))
        BY <1>2 DEF Grows, StateTypeOK
      <4>2. nodes' = Append(nodes, [message |-> message, log |-> log,
                                    previous |-> base[r]])
        BY <3>1 DEF AnswerWith, AllocateState
      <4> QED  BY <3>2, <4>1, <4>2 DEF NewState
    <3>5. AnswerOf(r)'.log = log /\ AnswerOf(r)'.message = message
      BY <3>3, <3>4 DEF AnswerOf
    <3>6. AnswerIsHonest(r)'
      BY <3>1, <3>5 DEF AnswerIsHonest
    <3>7. StatusControl(r)'
      BY <2>4 DEF HonestStep, StatusControl
    <3> QED  BY <1>6, <2>2, <3>6, <3>7
  <2> QED  BY <1>1, <2>3, <2>4, StepsAreHonest
<1> QED  BY <1>5, <1>6

\* A request is sent the conversation it is asked of.
LEMMA FetchAnswers ==
    ASSUME AnswersIInv, StreamFetch, NEW s \in Requests
    PROVE  /\ StatusControl(s)' /\ AnswerIsHonest(s)' /\ SentItsConversation(s)'
           /\ DOMAIN request_body' = Requests
<1>1. /\ DOMAIN request_body = Requests /\ StreamTypeOK /\ Control(s)
      /\ StatusControl(s) /\ AnswerIsHonest(s) /\ SentItsConversation(s)
      /\ stage \in [Requests -> Stages] /\ base \in [Requests -> Nat]
      /\ answers \in [Requests -> Seq(Nat)]
  BY DEF AnswersIInv, StreamIInv, StreamTypeOK
<1>2. PICK r \in Requests, state \in States \cup {NullState},
           cbs \in SUBSET Callbacks, configured \in BOOLEAN :
           \/ FetchStreamCompletion(r, state, cbs, configured)
           \/ RejectStreamCompletion(r, state, cbs, configured)
  BY DEF StreamFetch
<1>3. UNCHANGED <<nodes, agg, answers>>
  BY <1>2 DEF FetchStreamCompletion, RejectStreamCompletion
<1>4. AnswerIsHonest(s)'
  BY <1>1, <1>3 DEF AnswerIsHonest, Answered, AnswerOf
<1>5. /\ stage[r] = "idle" /\ stage'[r] \in {"acquiring", "rejected"}
      /\ \A t \in Requests \ {r} : /\ stage'[t] = stage[t]
                                   /\ base'[t] = base[t]
                                   /\ request_body'[t] = request_body[t]
      /\ DOMAIN request_body' = Requests
  BY <1>1, <1>2 DEF FetchStreamCompletion, RejectStreamCompletion
<1>6. StatusControl(s)'
  BY <1>1, <1>3, <1>5 DEF StatusControl
<1>7. base'[r] # NullState =>
          request_body'[r] = CollectMessageChain(nodes, base'[r])
  <2>1. CASE FetchStreamCompletion(r, state, cbs, configured)
    BY <1>1, <2>1 DEF FetchStreamCompletion
  <2>2. CASE RejectStreamCompletion(r, state, cbs, configured)
    BY <1>1, <2>2 DEF RejectStreamCompletion, StreamTypeOK
  <2> QED  BY <1>2, <2>1, <2>2
<1>8. SentItsConversation(s)'
  BY <1>1, <1>3, <1>5, <1>7 DEF SentItsConversation
<1> QED  BY <1>4, <1>5, <1>6, <1>8

\* What others do to the history does not disturb the streaming requests.
LEMMA StreamUnchangedKeeps ==
    ASSUME AnswersIInv, Grows,
           UNCHANGED <<stage, base, callbacks, request_body, agg, tool_calls,
                       fed, taken, eof, heard, answers>>
    PROVE  AnswersIInv'
<1>1. StreamTypeOK
  BY DEF AnswersIInv, StreamIInv
<1>2. StreamTypeOK'
  BY <1>1 DEF StreamTypeOK, Grows
<1>3. ASSUME NEW r \in Requests
      PROVE  Control(r)' /\ HeardIsSpoken(r)' /\ AnswerIsSpoken(r)'
  BY <1>1, Untouched DEF AnswersIInv, StreamIInv, Grows, SameTexts
<1>4. ASSUME NEW r \in Requests
      PROVE  StatusControl(r)' /\ AnswerIsHonest(r)' /\ SentItsConversation(r)'
  BY <1>1, OthersStayHonest DEF AnswersIInv
<1>5. CallsAreFinite'
  BY DEF AnswersIInv, CallsAreFinite
<1> QED  BY <1>2, <1>3, <1>4, <1>5 DEF AnswersIInv, StreamIInv

\* Every step keeps the invariant ...
LEMMA StreamStepKeeps == AnswersIInv /\ [StreamNext]_streamVars => AnswersIInv'
<1> SUFFICES ASSUME AnswersIInv, [StreamNext]_streamVars PROVE AnswersIInv'
  OBVIOUS
<1>1. StreamIInv /\ StreamIInv' /\ StateTypeOK
  BY StepIInv DEF AnswersIInv, StreamIInv, StreamTypeOK
<1>2. CASE CallerAppends /\ UNCHANGED <<stage, base, callbacks, request_body,
                                        agg, tool_calls, fed, taken, eof,
                                        heard, answers>>
  BY <1>1, <1>2, CallerGrows, StreamUnchangedKeeps
<1>3. CASE UNCHANGED streamVars
  <2>1. Grows
    BY <1>1, <1>3 DEF Grows, streamVars, StateTypeOK, States
  <2> QED  BY <1>3, <2>1, StreamUnchangedKeeps DEF streamVars
<1>4. CASE StreamFetch
  <2>1. DOMAIN request_body' = Requests
    <3>1. \E s \in Requests : TRUE
      BY <1>4 DEF StreamFetch
    <3> QED  BY <1>4, <3>1, FetchAnswers
  <2>2. CallsAreFinite'
    BY <1>4 DEF AnswersIInv, CallsAreFinite, StreamFetch, FetchStreamCompletion,
                RejectStreamCompletion
  <2> QED  BY <1>1, <1>4, <2>1, <2>2, FetchAnswers DEF AnswersIInv
<1>5. CASE \E r \in Requests : RequestStep(r)
  <2>1. UNCHANGED request_body
    BY <1>1, <1>5, StepsAreHonest
       DEF AnswersIInv, StreamIInv, OnwardStep, HonestStep
  <2>2. CallsAreFinite'
    BY <1>5, StepsAccumulateFinitely DEF AnswersIInv
  <2> QED  BY <1>1, <1>5, <2>1, <2>2, RequestStepAnswers DEF AnswersIInv
<1> QED  BY <1>2, <1>3, <1>4, <1>5 DEF StreamNext

\* ... which holds before the first fetch.
LEMMA StreamInitKeeps == StreamInit => AnswersIInv
<1> SUFFICES ASSUME StreamInit PROVE AnswersIInv
  OBVIOUS
<1>1. ASSUME NEW r \in Requests
      PROVE  /\ stage[r] = "idle" /\ base[r] = NullState /\ answers[r] = <<>>
             /\ agg[r].error_message = ""
  BY DEF StreamInit, EmptyAggregate
<1>2. ASSUME NEW r \in Requests
      PROVE  StatusControl(r) /\ AnswerIsHonest(r) /\ SentItsConversation(r)
  BY <1>1 DEF StatusControl, AnswerIsHonest, Answered, SentItsConversation
<1>3. DOMAIN request_body = Requests
  BY DEF StreamInit
<1>4. CallsAreFinite
  <2>1. IsFiniteSet(DOMAIN <<>>)
    BY FS_EmptySet
  <2> QED  BY <2>1 DEF StreamInit, CallsAreFinite
<1> QED  BY <1>2, <1>3, <1>4, InitIInv DEF AnswersIInv

-----------------------------------------------------------------------------
(* The properties *)

\* In every reachable state a request was sent the conversation it was asked
\* of, and its answer reports its outcome.
THEOREM AnswersInvariantHolds == StreamSpec => []AnswersIInv
BY StreamInitKeeps, StreamStepKeeps, PTL DEF StreamSpec

\* An answer is a success if and only if it reports no error, and only after a
\* success status, for any number of requests and whatever the stream holds.
THEOREM StatusAgrees == StreamSpec => []StatusAgreesWithError
<1>1. AnswersIInv => StatusAgreesWithError
  BY DEF AnswersIInv, AnswerIsHonest, StatusAgreesWithError
<1> QED  BY <1>1, AnswersInvariantHolds, PTL

\* The invariant implies that answers continue their requests.
LEMMA StreamContinues == AnswersIInv => AnswerContinuesTheRequest
<1> SUFFICES ASSUME AnswersIInv, NEW r \in Requests, Answered(r)
             PROVE  Continues(answers[r][1], request_body[r])
  BY DEF AnswerContinuesTheRequest
<1>1. /\ StateTypeOK /\ answers[r] \in Seq(Nat) /\ Control(r)
      /\ AnswerIsSpoken(r) /\ SentItsConversation(r)
      /\ base[r] = NullState <=> stage[r] \in {"idle", "rejected"}
      /\ \A k \in DOMAIN answers[r] : answers[r][k] \in States
  BY DEF AnswersIInv, StreamIInv, StreamTypeOK
<1>2. answers[r] # <<>>
  BY DEF Answered
<1>3. answers[r][1] \in States /\ Len(answers[r]) # 0
  BY <1>1, <1>2
<1>4. stage[r] = "finished"
  BY <1>1, <1>3 DEF Control
<1>5. /\ nodes[answers[r][1]].previous = base[r]
      /\ request_body[r] = CollectMessageChain(nodes, base[r])
  BY <1>1, <1>4 DEF AnswerIsSpoken, SentItsConversation, AnswerOf
<1> QED  BY <1>1, <1>3, <1>5, NodeContinues DEF Continues

\* The answer continues exactly the conversation that was sent, whatever was
\* appended to it or answered from it while the request was in flight.
THEOREM AnswersContinue == StreamSpec => []AnswerContinuesTheRequest
BY StreamContinues, AnswersInvariantHolds, PTL

-----------------------------------------------------------------------------
(* What was streamed *)

\* The payloads a request has looked at so far.
SaidSoFar(r) == Without(SubSeq(fed[r], 1, taken[r]), EmptyData)

\* What an aggregate is that was told `said'.
Spells(a, said) ==
    LET ids == Without(Present(Column(said, "id")), "")
    IN  /\ a.accumulated_message = Present(Column(said, "content"))
        /\ a.accumulated_reasoning = Present(Column(said, "reasoning"))
        /\ a.request_id = IF ids = <<>> THEN "" ELSE Head(ids)
        /\ a.model = LastOr("", Present(Column(said, "model")))
        /\ a.finish_reason = LastOr("", Present(Column(said, "finish_reason")))
        /\ a.delta_count = Len(said)

\* What a call has been accumulated to from the elements given for its index.
SpelledAccumulator(elements, index) ==
    [id |-> LastOr("", Given(elements, index, "id")),
     name |-> LastOr("", Given(elements, index, "name")),
     arguments_text |-> FlattenSeq(Given(elements, index, "arguments"))]

Accumulation(elements) ==
    [i \in Indices(elements) |-> SpelledAccumulator(elements, i)]

\* Finitely many indices, and a text for each.
AreSpelled(elements) ==
    /\ IsList(elements)
    /\ Indices(elements) \in SUBSET Int /\ IsFiniteSet(Indices(elements))
    /\ \A i \in Indices(elements) :
           IsList(FlattenSeq(Given(elements, i, "arguments")))

\* What the accumulated calls are after `said'.
Accumulates(calls, said) ==
    LET all == Elements(Column(said, "tool_calls"))
    IN  AreSpelled(all) /\ calls = Accumulation(all)

\* A request has accumulated what it was told.
Told(r) == /\ Spells(agg[r], SaidSoFar(r))
           /\ Accumulates(tool_calls[r], SaidSoFar(r))

\* The bodies of AnswerIsWhatWasStreamed and CallsAreWhatWasStreamed.
AsStreamed(message, log, events, last) ==
    LET said == PayloadsBeforeEnd(events)
        ended == EndedBy(events)
        models == LastOr("", Present(Column(said, "model")))
        ids == Without(Present(Column(said, "id")), "")
    IN  /\ message.role = "assistant"
        /\ message.message = Present(Column(said, "content"))
        /\ message.reasoning = Present(Column(said, "reasoning"))
        /\ message.tool_calls = ToolCallsSpelledBy(Column(said, "tool_calls"))
        /\ log.request_id = IF ids = <<>> THEN "" ELSE Head(ids)
        /\ log.model = IF models = "" THEN Model ELSE models
        /\ log.finish_reason
               = LastOr("", Present(Column(said, "finish_reason")))
        /\ log.delta_count
               = Len(said) + (IF ended = InvalidData THEN 1 ELSE 0)
        /\ log.status = "kSuccess" <=>
               ended = DoneMarker \/ (ended = EmptyData /\ last)

\* A request that has not finished has passed no event that ends a response, and
\* it has accumulated what it was told; between two chunks it has looked at all it
\* was fed, and the last chunk has not come.
ReadsOn(r) ==
    stage[r] # "finished" =>
        /\ Told(r)
        /\ \A k \in 1 .. taken[r] : ~ Ends(fed[r][k])
        /\ stage[r] # "draining" => taken[r] = Len(fed[r]) /\ ~ eof[r]
        /\ stage[r] \notin {"reading", "draining"} => fed[r] = <<>>

AnswerAsStreamed(r) ==
    Answered(r) => AsStreamed(AnswerOf(r).message, AnswerOf(r).log,
                              fed[r], eof[r])

\* The inductive invariant.
StreamedIInv ==
    /\ StreamIInv
    /\ CallsAreFinite
    /\ \A r \in Requests : ReadsOn(r) /\ AnswerAsStreamed(r)

-----------------------------------------------------------------------------
(* One payload more *)

\* A column has a value for each payload.
LEMMA ColumnIsList ==
    ASSUME NEW said, IsList(said), NEW field
    PROVE  IsList(Column(said, field)) /\ Len(Column(said, field)) = Len(said)
<1> DEFINE column == Column(said, field)
           S == {said[k][field] : k \in 1 .. Len(said)}
<1>1. Len(said) \in Nat /\ column = [k \in 1 .. Len(said) |-> said[k][field]]
  BY ListFacts DEF Column
<1>2. \A k \in 1 .. Len(said) : said[k][field] \in S
  OBVIOUS
<1> HIDE DEF column, S
<1>3. column \in Seq(S) /\ Len(column) = Len(said)
  <2>1. column \in [1 .. Len(said) -> S]
    BY <1>1, <1>2
  <2> QED  BY <1>1, <2>1
<1>4. IsList(column)
  BY <1>3, ListOf
<1> QED  BY <1>3, <1>4 DEF column

\* A column of one payload more.
LEMMA ColumnAppend ==
    ASSUME NEW said, IsList(said), NEW payload, NEW field
    PROVE  Column(Append(said, payload), field)
               = Append(Column(said, field), payload[field])
<1> DEFINE column == Column(said, field)
           longer == Append(said, payload)
           left == Column(longer, field)
           right == Append(column, payload[field])
<1>1. /\ Len(said) \in Nat /\ DOMAIN said = 1 .. Len(said)
      /\ IsList(longer) /\ Len(longer) = Len(said) + 1
      /\ DOMAIN longer = 1 .. Len(said) + 1
      /\ \A k \in 1 .. Len(said) : longer[k] = said[k]
      /\ longer[Len(said) + 1] = payload
  BY ListAppend
<1> HIDE DEF longer
<1>2. IsList(column) /\ Len(column) = Len(said)
  BY ColumnIsList
<1>3. IsList(left) /\ Len(left) = Len(said) + 1
  BY <1>1, ColumnIsList
<1>4. \A k \in 1 .. Len(said) : column[k] = said[k][field]
  BY <1>1 DEF Column
<1>5. \A k \in 1 .. Len(said) + 1 : left[k] = longer[k][field]
  BY <1>1 DEF Column
<1> HIDE DEF column, left
<1>6. /\ IsList(right) /\ Len(right) = Len(said) + 1
      /\ \A k \in 1 .. Len(said) : right[k] = column[k]
      /\ right[Len(said) + 1] = payload[field]
  BY <1>2, ListAppend
<1> HIDE DEF right
<1>7. ASSUME NEW k \in 1 .. Len(said) + 1 PROVE left[k] = right[k]
  BY <1>1, <1>4, <1>5, <1>6
<1>8. left = right
  BY <1>3, <1>6, <1>7, ListsAreEqual
<1> QED  BY <1>8 DEF left, right, column, longer

\* The fields present are appended, like texts.
LEMMA PresentAppend ==
    ASSUME NEW fields, IsList(fields), NEW field
    PROVE  /\ IsList(Present(fields))
           /\ Present(Append(fields, field)) = AppendText(Present(fields), field)
BY ListFacts, WithoutIsList, WithoutAppend DEF Present, AppendText

\* A list that is not empty begins with its first element.
LEMMA HeadIsFirst ==
    ASSUME NEW s, IsList(s), s # <<>>
    PROVE  1 \in 1 .. Len(s) /\ Head(s) = s[1]
<1>1. Len(s) \in Nat /\ Len(s) # 0 /\ Head(s) = s[1]
  BY DEF IsList
<1> QED  BY <1>1

\* The first and the last of one element more.
LEMMA EndsOfAppend ==
    ASSUME NEW s, IsList(s), NEW x, NEW default
    PROVE  /\ Append(s, x) # <<>>
           /\ LastOr(default, Append(s, x)) = x
           /\ Head(Append(s, x)) = IF s = <<>> THEN x ELSE Head(s)
<1> DEFINE t == Append(s, x)
<1>1. /\ Len(s) \in Nat /\ IsList(t)
      /\ Len(t) = Len(s) + 1 /\ t[Len(s) + 1] = x
      /\ \A k \in 1 .. Len(s) : t[k] = s[k]
  BY ListAppend
<1> HIDE DEF t
<1>2. t # <<>>
  <2>1. Len(<<>>) = 0
    OBVIOUS
  <2> QED  BY <1>1, <2>1
<1>3. LastOr(default, t) = x
  BY <1>1, <1>2 DEF LastOr, Last
<1>4. Head(t) = t[1]
  BY <1>1, <1>2 DEF IsList
<1>5. Head(t) = IF s = <<>> THEN x ELSE Head(s)
  <2>1. CASE s = <<>>
    <3>1. Len(s) = 0
      BY <2>1
    <3> QED  BY <1>1, <1>4, <2>1, <3>1
  <2>2. CASE s # <<>>
    <3>1. 1 \in 1 .. Len(s) /\ Head(s) = s[1]
      BY <2>2, HeadIsFirst
    <3> QED  BY <1>1, <1>4, <2>2, <3>1
  <2> QED  BY <2>1, <2>2
<1> QED  BY <1>2, <1>3, <1>5 DEF t

\* Overwriting keeps the last of the fields present.
LEMMA LastPresent ==
    ASSUME NEW fields, IsList(fields), NEW field, NEW default
    PROVE  LastOr(default, Present(Append(fields, field)))
               = Overwrite(LastOr(default, Present(fields)), field)
<1>1. /\ IsList(Present(fields))
      /\ Present(Append(fields, field)) = AppendText(Present(fields), field)
  BY PresentAppend
<1>2. CASE field = Absent
  BY <1>1, <1>2 DEF AppendText, Overwrite
<1>3. CASE field # Absent
  <2>1. LastOr(default, Append(Present(fields), field)) = field
    BY <1>1, EndsOfAppend
  <2> QED  BY <1>1, <1>3, <2>1 DEF AppendText, Overwrite
<1> QED  BY <1>2, <1>3

\* The first id that is not empty.
FirstId(fields) == LET ids == Without(Present(fields), "")
                   IN  IF ids = <<>> THEN "" ELSE Head(ids)

\* Overwriting what is still empty keeps the first that is not.
LEMMA FirstPresent ==
    ASSUME NEW fields, IsList(fields), NEW field
    PROVE  FirstId(Append(fields, field))
               = IF FirstId(fields) = "" THEN Overwrite(FirstId(fields), field)
                 ELSE FirstId(fields)
<1> DEFINE old == Present(fields)
           ids == Without(old, "")
           first == FirstId(fields)
           new == Present(Append(fields, field))
<1>1. IsList(old) /\ new = AppendText(old, field)
  BY PresentAppend
<1> HIDE DEF old, new
<1>2. IsList(ids) /\ \A k \in 1 .. Len(ids) : ids[k] # ""
  BY <1>1, ListFacts, WithoutIsList
<1>3. Without(new, "") = IF field = Absent \/ field = "" THEN ids
                         ELSE Append(ids, field)
  <2>1. CASE field = Absent
    BY <1>1, <2>1 DEF AppendText
  <2>2. CASE field # Absent
    <3>1. new = Append(old, field)
      BY <1>1, <2>2 DEF AppendText
    <3>2. Without(Append(old, field), "")
              = IF field = "" THEN ids ELSE Append(ids, field)
      BY <1>1, WithoutAppend
    <3> QED  BY <2>2, <3>1, <3>2
  <2> QED  BY <2>1, <2>2
<1> HIDE DEF ids, first
<1>4. first = IF ids = <<>> THEN "" ELSE Head(ids)
  BY DEF ids, old, first, FirstId
<1>5. first = "" <=> ids = <<>>
  <2>1. CASE ids # <<>>
    <3>1. 1 \in 1 .. Len(ids) /\ Head(ids) = ids[1]
      BY <1>2, <2>1, HeadIsFirst
    <3> QED  BY <1>2, <1>4, <2>1, <3>1
  <2> QED  BY <1>4, <2>1
<1>6. (IF Without(new, "") = <<>> THEN "" ELSE Head(Without(new, "")))
          = IF first = "" THEN Overwrite(first, field) ELSE first
  <2>1. CASE field = Absent
    BY <1>3, <1>4, <1>5, <2>1 DEF Overwrite
  <2>2. CASE field # Absent /\ field = ""
    BY <1>3, <1>4, <1>5, <2>2 DEF Overwrite
  <2>3. CASE field # Absent /\ field # ""
    <3>1. Append(ids, field) # <<>>
          /\ Head(Append(ids, field)) = IF ids = <<>> THEN field ELSE Head(ids)
      BY <1>2, EndsOfAppend
    <3> QED  BY <1>3, <1>4, <1>5, <2>3, <3>1 DEF Overwrite
  <2> QED  BY <2>1, <2>2, <2>3
<1> QED  BY <1>6 DEF new, first, FirstId

\* A payload takes the aggregate from what was told before to what is told with
\* it.
LEMMA SpellsOn ==
    ASSUME NEW a \in StreamAggregate, NEW said, IsList(said), Spells(a, said),
           NEW payload \in Payloads
    PROVE  Spells(AppendDelta(ApplyStreamDeltaPayload(Counted(a), payload),
                              payload),
                  Append(said, payload))
<1> DEFINE b == AppendDelta(ApplyStreamDeltaPayload(Counted(a), payload),
                            payload)
           more == Append(said, payload)
<1>1. /\ b.accumulated_message
             = AppendText(a.accumulated_message, payload.content)
      /\ b.accumulated_reasoning
             = AppendText(a.accumulated_reasoning, payload.reasoning)
      /\ b.request_id = IF a.request_id = ""
                        THEN Overwrite(a.request_id, payload.id)
                        ELSE a.request_id
      /\ b.model = Overwrite(a.model, payload.model)
      /\ b.finish_reason = Overwrite(a.finish_reason, payload.finish_reason)
      /\ b.delta_count = a.delta_count + 1
  BY DEF AppendDelta, ApplyStreamDeltaPayload, Counted, StreamAggregate
<1> HIDE DEF b
<1>2. Len(more) = Len(said) + 1
  BY ListAppend
<1>3. ASSUME NEW field
      PROVE  /\ IsList(Column(said, field))
             /\ Column(more, field) = Append(Column(said, field), payload[field])
  BY <1>3, ColumnIsList, ColumnAppend
<1> HIDE DEF more
<1>4. ASSUME NEW field
      PROVE  /\ Present(Column(more, field))
                    = AppendText(Present(Column(said, field)), payload[field])
             /\ LastOr("", Present(Column(more, field)))
                    = Overwrite(LastOr("", Present(Column(said, field))),
                                payload[field])
  <2> DEFINE fields == Column(said, field)
  <2>1. IsList(fields) /\ Column(more, field) = Append(fields, payload[field])
    BY <1>3
  <2> HIDE DEF fields
  <2>2. Present(Append(fields, payload[field]))
            = AppendText(Present(fields), payload[field])
    BY <2>1, PresentAppend
  <2>3. LastOr("", Present(Append(fields, payload[field])))
            = Overwrite(LastOr("", Present(fields)), payload[field])
    BY <2>1, LastPresent
  <2> QED  BY <2>1, <2>2, <2>3 DEF fields
<1>5. /\ b.accumulated_message = Present(Column(more, "content"))
      /\ b.accumulated_reasoning = Present(Column(more, "reasoning"))
      /\ b.model = LastOr("", Present(Column(more, "model")))
      /\ b.finish_reason = LastOr("", Present(Column(more, "finish_reason")))
  <2>1. /\ Present(Column(more, "content"))
               = AppendText(Present(Column(said, "content")), payload.content)
        /\ Present(Column(more, "reasoning"))
               = AppendText(Present(Column(said, "reasoning")),
                            payload.reasoning)
    BY <1>4
  <2>2. /\ LastOr("", Present(Column(more, "model")))
               = Overwrite(LastOr("", Present(Column(said, "model"))),
                           payload.model)
        /\ LastOr("", Present(Column(more, "finish_reason")))
               = Overwrite(LastOr("", Present(Column(said, "finish_reason"))),
                           payload.finish_reason)
    BY <1>4
  <2>3. /\ a.accumulated_message = Present(Column(said, "content"))
        /\ a.accumulated_reasoning = Present(Column(said, "reasoning"))
        /\ a.model = LastOr("", Present(Column(said, "model")))
        /\ a.finish_reason
               = LastOr("", Present(Column(said, "finish_reason")))
    BY DEF Spells
  <2> QED  BY <1>1, <2>1, <2>2, <2>3
<1>6. b.request_id = FirstId(Column(more, "id"))
  <2> DEFINE fields == Column(said, "id")
  <2>1. /\ IsList(fields) /\ Column(more, "id") = Append(fields, payload.id)
        /\ a.request_id = FirstId(fields)
    BY <1>3 DEF Spells, FirstId
  <2> HIDE DEF fields
  <2>2. FirstId(Append(fields, payload.id))
            = IF FirstId(fields) = "" THEN Overwrite(FirstId(fields), payload.id)
              ELSE FirstId(fields)
    BY <2>1, FirstPresent
  <2> QED  BY <1>1, <2>1, <2>2
<1>7. b.delta_count = Len(more)
  BY <1>1, <1>2 DEF Spells
<1> QED  BY <1>5, <1>6, <1>7 DEF Spells, FirstId, b, more

-----------------------------------------------------------------------------
(* Where a response ends *)

\* A prefix of a list, and the same with the next element.
LEMMA PrefixGrows ==
    ASSUME NEW s, IsList(s), NEW n \in 0 .. Len(s)
    PROVE  /\ IsList(SubSeq(s, 1, n)) /\ Len(SubSeq(s, 1, n)) = n
           /\ n < Len(s) => SubSeq(s, 1, n + 1)
                                = Append(SubSeq(s, 1, n), s[n + 1])
<1> DEFINE t == SubSeq(s, 1, n)
<1>1. Len(s) \in Nat
  BY ListFacts
<1>2. IsList(t) /\ Len(t) = n /\ \A k \in 1 .. n : t[k] = s[k]
  BY FirstOf
<1>3. ASSUME n < Len(s) PROVE SubSeq(s, 1, n + 1) = Append(t, s[n + 1])
  <2> DEFINE u == SubSeq(s, 1, n + 1)
             v == Append(t, s[n + 1])
  <2>1. n + 1 \in 0 .. Len(s)
    BY <1>1, <1>3
  <2>2. IsList(u) /\ Len(u) = n + 1 /\ \A k \in 1 .. n + 1 : u[k] = s[k]
    BY <2>1, FirstOf
  <2> HIDE DEF t, u
  <2>3. /\ IsList(v) /\ Len(v) = n + 1 /\ v[n + 1] = s[n + 1]
        /\ \A k \in 1 .. n : v[k] = t[k]
    BY <1>2, ListAppend
  <2> HIDE DEF v
  <2>4. ASSUME NEW k \in 1 .. n + 1 PROVE u[k] = v[k]
    BY <1>2, <2>2, <2>3
  <2>5. u = v
    BY <2>2, <2>3, <2>4, ListsAreEqual
  <2> QED  BY <2>5 DEF u, v
<1> QED  BY <1>2, <1>3

\* A list is its longest prefix.
LEMMA WholeList ==
    ASSUME NEW s, IsList(s)
    PROVE  SubSeq(s, 1, Len(s)) = s
<1>1. Len(s) \in Nat
  BY ListFacts
<1>2. /\ IsList(SubSeq(s, 1, Len(s))) /\ Len(SubSeq(s, 1, Len(s))) = Len(s)
      /\ \A k \in 1 .. Len(s) : SubSeq(s, 1, Len(s))[k] = s[k]
  BY <1>1, FirstOf
<1> QED  BY <1>2, ListsAreEqual

\* A response without [DONE] and without an event that does not parse ends with
\* its body.
LEMMA BodyEnds ==
    ASSUME NEW events, IsList(events),
           \A k \in 1 .. Len(events) : ~ Ends(events[k])
    PROVE  /\ EndedBy(events) = EmptyData
           /\ PayloadsBeforeEnd(events) = Without(events, EmptyData)
<1>1. EndPosition(events) = 0
  BY DEF EndPosition, SelectInSeq
<1> QED  BY <1>1 DEF EndedBy, PayloadsBeforeEnd

\* Any other ends with the first of these.
LEMMA EventEnds ==
    ASSUME NEW events, IsList(events), NEW n \in 0 .. Len(events),
           n < Len(events), Ends(events[n + 1]),
           \A k \in 1 .. n : ~ Ends(events[k])
    PROVE  /\ EndedBy(events) = events[n + 1]
           /\ PayloadsBeforeEnd(events)
                  = Without(SubSeq(events, 1, n), EmptyData)
<1>1. Len(events) \in Nat
  BY ListFacts
<1>2. EndPosition(events) = n + 1
  <2> DEFINE I == {i \in 1 .. Len(events) : Ends(events[i])}
  <2>1. n + 1 \in I /\ \A i \in I : n + 1 <= i
    BY <1>1
  <2>2. I \subseteq Nat
    OBVIOUS
  <2>3. EndPosition(events) = IF I # {} THEN Min(I) ELSE 0
    BY DEF EndPosition, SelectInSeq
  <2> HIDE DEF I
  <2>4. \A m \in I : (\A i \in I : m <= i) => m = n + 1
    BY <2>1, <2>2
  <2> QED  BY <2>1, <2>3, <2>4 DEF Min
<1>3. n + 1 # 0 /\ n + 1 - 1 = n
  BY <1>1
<1> QED  BY <1>2, <1>3 DEF EndedBy, PayloadsBeforeEnd

-----------------------------------------------------------------------------
(* What the fragments of calls spell *)

\* The field of an element, if the element is for this index.
FieldFor(element, index, field) ==
    IF element.item # NotAnObject /\ element.index = index
    THEN element.item[field] ELSE Absent

\* The fields that one element more gives.
LEMMA GivenAppend ==
    ASSUME NEW elements, IsList(elements), NEW x, NEW index, NEW field
    PROVE  LET old == Given(elements, index, field)
               new == Given(Append(elements, x), index, field)
           IN  /\ IsList(old)
               /\ new = AppendText(old, FieldFor(x, index, field))
               /\ LastOr("", new)
                      = Overwrite(LastOr("", old), FieldFor(x, index, field))
<1> DEFINE longer == Append(elements, x)
           s == [k \in DOMAIN elements |-> FieldFor(elements[k], index, field)]
           t == [k \in DOMAIN longer |-> FieldFor(longer[k], index, field)]
           value == FieldFor(x, index, field)
           N == Len(elements)
<1>1. /\ Given(elements, index, field) = Present(s)
      /\ Given(longer, index, field) = Present(t)
  BY DEF Given, FieldFor
<1>2. /\ N \in Nat /\ DOMAIN elements = 1 .. N
      /\ DOMAIN longer = 1 .. N + 1
      /\ \A k \in 1 .. N : longer[k] = elements[k]
      /\ longer[N + 1] = x
  BY ListAppend
<1> HIDE DEF longer, N
<1>3. /\ DOMAIN s = 1 .. N /\ s = [k \in DOMAIN s |-> s[k]]
      /\ \A k \in 1 .. N : s[k] = FieldFor(elements[k], index, field)
  BY <1>2
<1>4. /\ DOMAIN t = 1 .. N + 1 /\ t = [k \in DOMAIN t |-> t[k]]
      /\ \A k \in 1 .. N : t[k] = FieldFor(elements[k], index, field)
      /\ t[N + 1] = value
  <2>1. N + 1 \in 1 .. N + 1 /\ \A k \in 1 .. N : k \in 1 .. N + 1
    BY <1>2
  <2> QED  BY <1>2, <2>1
<1> HIDE DEF s, t, value
<1>5. IsList(s) /\ Len(s) = N
  BY <1>2, <1>3, FunctionIsList
<1>6. IsList(t) /\ Len(t) = N + 1
  <2>1. N + 1 \in Nat
    BY <1>2
  <2> QED  BY <1>4, <2>1, FunctionIsList
<1>7. t = Append(s, value)
  <2>1. \A k \in 1 .. Len(s) : t[k] = s[k]
    BY <1>3, <1>4, <1>5
  <2>2. t = Append(s, t[Len(s) + 1])
    BY <1>5, <1>6, <2>1, OneLonger
  <2> QED  BY <1>4, <1>5, <2>2
<1>8. IsList(Present(s)) /\ Present(t) = AppendText(Present(s), value)
  BY <1>5, <1>7, PresentAppend
<1>9. LastOr("", Present(t)) = Overwrite(LastOr("", Present(s)), value)
  BY <1>5, <1>7, LastPresent
<1> QED  BY <1>1, <1>8, <1>9 DEF longer, value

\* Nothing is given for an index that no element is for.
LEMMA NothingGiven ==
    ASSUME NEW elements, IsList(elements),
           NEW index, index \notin Indices(elements), NEW field
    PROVE  Given(elements, index, field) = <<>>
<1> DEFINE s == [k \in DOMAIN elements |-> FieldFor(elements[k], index, field)]
<1>1. Given(elements, index, field) = Present(s)
  BY DEF Given, FieldFor
<1>2. /\ Len(elements) \in Nat /\ DOMAIN elements = 1 .. Len(elements)
  BY ListFacts
<1>3. /\ DOMAIN s = 1 .. Len(elements) /\ s = [k \in DOMAIN s |-> s[k]]
      /\ \A k \in 1 .. Len(elements) : s[k] = Absent
  <2>1. \A k \in DOMAIN elements :
            ~ (elements[k].item # NotAnObject /\ elements[k].index = index)
    BY DEF Indices
  <2> QED  BY <1>2, <2>1 DEF FieldFor
<1> HIDE DEF s
<1>4. IsList(s) /\ Len(s) = Len(elements)
  BY <1>2, <1>3, FunctionIsList
<1> QED  BY <1>1, <1>3, <1>4, WithoutAny DEF Present

\* So such a call is accumulated to nothing.
LEMMA NothingAccumulated ==
    ASSUME NEW elements, IsList(elements),
           NEW index, index \notin Indices(elements)
    PROVE  SpelledAccumulator(elements, index) = EmptyAccumulator
<1>1. \A field : Given(elements, index, field) = <<>>
  BY NothingGiven
<1>2. LastOr("", <<>>) = "" /\ FlattenSeq(<<>>) = <<>>
  BY DEF LastOr, FlattenSeq
<1> QED  BY <1>1, <1>2 DEF SpelledAccumulator, EmptyAccumulator

\* The indices that one element more is for.
LEMMA IndicesAppend ==
    ASSUME NEW elements, IsList(elements), NEW x
    PROVE  Indices(Append(elements, x))
               = IF x.item = NotAnObject THEN Indices(elements)
                 ELSE Indices(elements) \cup {x.index}
<1> DEFINE longer == Append(elements, x)
           N == Len(elements)
<1>1. /\ N \in Nat /\ DOMAIN elements = 1 .. N
      /\ DOMAIN longer = 1 .. N + 1
      /\ \A k \in 1 .. N : longer[k] = elements[k]
      /\ longer[N + 1] = x
  BY ListAppend
<1> HIDE DEF longer, N
<1>2. DOMAIN longer = (1 .. N) \cup {N + 1}
  BY <1>1
<1>3. ASSUME NEW i
      PROVE  i \in Indices(longer) <=>
                 i \in Indices(elements) \/ (x.item # NotAnObject /\ i = x.index)
  <2>1. i \in Indices(longer) <=>
            \E k \in DOMAIN longer :
                longer[k].item # NotAnObject /\ longer[k].index = i
    BY DEF Indices
  <2>2. i \in Indices(elements) <=>
            \E k \in DOMAIN elements :
                elements[k].item # NotAnObject /\ elements[k].index = i
    BY DEF Indices
  <2> QED  BY <1>1, <1>2, <2>1, <2>2
<1> QED  BY <1>3 DEF longer

\* An array element with the index it is for.
Tag(fragment, position) ==
    [index |-> IF fragment # NotAnObject /\ fragment.index # Absent
               THEN fragment.index ELSE position,
     item |-> fragment]

\* The texts given for an index, and one more or none.
LEMMA TextGrows ==
    ASSUME NEW texts, IsList(texts), IsList(FlattenSeq(texts)),
           NEW text, text = Absent \/ IsList(text)
    PROVE  /\ FlattenSeq(AppendText(texts, text))
                  = FlattenSeq(texts) \o Overwrite(<<>>, text)
           /\ IsList(FlattenSeq(AppendText(texts, text)))
<1>1. CASE text = Absent
  <2>1. FlattenSeq(texts) \o <<>> = FlattenSeq(texts)
    <3>1. IsList(<<>>)
      BY DEF IsList
    <3> QED  BY <3>1, ListJoin
  <2> QED  BY <1>1, <2>1 DEF AppendText, Overwrite
<1>2. CASE text # Absent
  <2>1. /\ FlattenSeq(Append(texts, text)) = FlattenSeq(texts) \o text
        /\ IsList(FlattenSeq(texts) \o text)
    BY <1>2, FlattenAppend, ListJoin
  <2> QED  BY <1>2, <2>1 DEF AppendText, Overwrite
<1> QED  BY <1>1, <1>2

\* One array element more, in the accumulators and in what they should hold.
LEMMA ElementIsAccumulated ==
    ASSUME NEW elements, AreSpelled(elements),
           NEW fragment, IsFragment(fragment), NEW position \in Nat
    PROVE  LET more == Append(elements, Tag(fragment, position))
           IN  /\ AreSpelled(more)
               /\ AccumulateFragment(Accumulation(elements), fragment, position)
                      = Accumulation(more)
<1> DEFINE x == Tag(fragment, position)
           more == Append(elements, x)
           index == Overwrite(position, fragment.index)
<1>1. /\ IsList(elements) /\ Indices(elements) \in SUBSET Int
      /\ IsFiniteSet(Indices(elements))
      /\ \A i \in Indices(elements) :
             IsList(FlattenSeq(Given(elements, i, "arguments")))
  BY DEF AreSpelled
<1>2. x.item = fragment /\ (fragment # NotAnObject => x.index = index)
  BY DEF Tag, Overwrite
<1>3. \A i, field :
          LET old == Given(elements, i, field)
              new == Given(more, i, field)
          IN  /\ IsList(old)
              /\ new = AppendText(old, FieldFor(x, i, field))
              /\ LastOr("", new)
                     = Overwrite(LastOr("", old), FieldFor(x, i, field))
  BY <1>1, GivenAppend
<1>4. /\ IsList(more)
      /\ Indices(more) = IF fragment = NotAnObject THEN Indices(elements)
                         ELSE Indices(elements) \cup {index}
  BY <1>1, <1>2, ListAppend, IndicesAppend
<1> HIDE DEF x, more
<1>5. ASSUME NEW i, ~ (fragment # NotAnObject /\ i = index)
      PROVE  /\ SpelledAccumulator(more, i) = SpelledAccumulator(elements, i)
             /\ Given(more, i, "arguments") = Given(elements, i, "arguments")
  <2>1. \A field : FieldFor(x, i, field) = Absent
    BY <1>2, <1>5 DEF FieldFor
  <2>2. \A field : Given(more, i, field) = Given(elements, i, field)
    BY <1>3, <2>1 DEF AppendText
  <2> QED  BY <2>2 DEF SpelledAccumulator
<1>6. CASE fragment = NotAnObject
  <2>1. Indices(more) = Indices(elements)
    BY <1>4, <1>6
  <2>2. AreSpelled(more)
    BY <1>1, <1>4, <1>5, <1>6, <2>1 DEF AreSpelled
  <2>3. Accumulation(more) = Accumulation(elements)
    BY <1>5, <1>6, <2>1 DEF Accumulation
  <2> QED  BY <1>6, <2>2, <2>3 DEF AccumulateFragment, x, more
<1>7. CASE fragment # NotAnObject
  <2> DEFINE acc == Accumulation(elements)
             old == IF index \in DOMAIN acc THEN acc[index]
                    ELSE EmptyAccumulator
             new == [id |-> Overwrite(old.id, fragment.id),
                     name |-> Overwrite(old.name, fragment.name),
                     arguments_text |-> old.arguments_text
                         \o Overwrite(<<>>, fragment.arguments)]
             texts == Given(elements, index, "arguments")
  <2>1. DOMAIN acc = Indices(elements)
    BY DEF Accumulation
  <2>2. old = SpelledAccumulator(elements, index)
    <3>1. CASE index \in Indices(elements)
      BY <2>1, <3>1 DEF Accumulation
    <3>2. CASE index \notin Indices(elements)
      BY <1>1, <2>1, <3>2, NothingAccumulated
    <3> QED  BY <3>1, <3>2
  <2>3. IsList(FlattenSeq(texts)) /\ IsList(texts)
    <3>1. IsList(texts)
      BY <1>3
    <3>2. CASE index \in Indices(elements)
      BY <1>1, <3>1, <3>2
    <3>3. CASE index \notin Indices(elements)
      <4>1. texts = <<>>
        BY <1>1, <3>3, NothingGiven
      <4>2. FlattenSeq(texts) = <<>>
        BY <4>1 DEF FlattenSeq
      <4>3. IsList(<<>>)
        BY DEF IsList
      <4> QED  BY <3>1, <4>2, <4>3
    <3> QED  BY <3>2, <3>3
  <2>4. /\ FieldFor(x, index, "id") = fragment.id
        /\ FieldFor(x, index, "name") = fragment.name
        /\ FieldFor(x, index, "arguments") = fragment.arguments
    BY <1>2, <1>7 DEF FieldFor
  <2>5. /\ FlattenSeq(Given(more, index, "arguments"))
               = FlattenSeq(texts) \o Overwrite(<<>>, fragment.arguments)
        /\ IsList(FlattenSeq(Given(more, index, "arguments")))
    <3>1. Given(more, index, "arguments")
              = AppendText(texts, fragment.arguments)
      BY <1>3, <2>4
    <3>2. fragment.arguments = Absent \/ IsList(fragment.arguments)
      BY <1>7 DEF IsFragment, IsList
    <3> HIDE DEF texts
    <3> QED  BY <2>3, <3>1, <3>2, TextGrows
  <2>6. /\ LastOr("", Given(more, index, "id"))
               = Overwrite(LastOr("", Given(elements, index, "id")),
                           fragment.id)
        /\ LastOr("", Given(more, index, "name"))
               = Overwrite(LastOr("", Given(elements, index, "name")),
                           fragment.name)
    BY <1>3, <2>4
  <2>7. new = SpelledAccumulator(more, index)
    <3> HIDE DEF old
    <3>1. /\ old.id = LastOr("", Given(elements, index, "id"))
          /\ old.name = LastOr("", Given(elements, index, "name"))
          /\ old.arguments_text = FlattenSeq(texts)
      BY <2>2 DEF SpelledAccumulator
    <3> HIDE DEF texts
    <3> QED  BY <2>5, <2>6, <3>1 DEF SpelledAccumulator
  <2>8. AccumulateFragment(acc, fragment, position)
            = [i \in DOMAIN acc \cup {index} |->
                  IF i = index THEN new ELSE acc[i]]
    BY <1>7 DEF AccumulateFragment
  <2> HIDE DEF new, old
  <2>9. \A i \in Indices(elements) : acc[i] = SpelledAccumulator(elements, i)
    BY DEF Accumulation
  <2> HIDE DEF acc, index
  <2>10. \A i \in Indices(elements) \cup {index} :
             (IF i = index THEN new ELSE acc[i]) = SpelledAccumulator(more, i)
    BY <1>5, <2>7, <2>9
  <2>11. Indices(more) = Indices(elements) \cup {index}
    BY <1>4, <1>7
  <2>12. AccumulateFragment(acc, fragment, position) = Accumulation(more)
    BY <2>1, <2>8, <2>10, <2>11 DEF Accumulation
  <2>13. AreSpelled(more)
    <3>1. index \in Nat
      BY <1>7 DEF IsFragment, Overwrite, index
    <3>2. IsFiniteSet(Indices(more)) /\ Indices(more) \in SUBSET Int
      BY <1>1, <2>11, <3>1, FS_AddElement
    <3>3. \A i \in Indices(more) :
              IsList(FlattenSeq(Given(more, i, "arguments")))
      BY <1>1, <1>5, <2>5, <2>11
    <3> QED  BY <1>4, <3>2, <3>3 DEF AreSpelled
  <2> QED  BY <2>12, <2>13 DEF acc, more, x
<1> QED  BY <1>6, <1>7

\* A whole array more.
LEMMA ArrayIsAccumulated ==
    ASSUME NEW elements, AreSpelled(elements), NEW array, IsList(array),
           \A k \in DOMAIN array : IsFragment(array[k])
    PROVE  /\ AreSpelled(elements \o Tagged(array))
           /\ AccumulateStreamToolCalls(Accumulation(elements), array)
                  = Accumulation(elements \o Tagged(array))
<1> DEFINE acc == Accumulation(elements)
           N == Len(array)
           t == Tagged(array)
           sofar == CHOOSE g : AreSofar(acc, array, g)
           Upto(n) == elements \o SubSeq(t, 1, n)
           S == {n \in 0 .. N : ~ (/\ AreSpelled(Upto(n))
                                   /\ sofar[n] = Accumulation(Upto(n)))}
<1>1. N \in Nat /\ DOMAIN array = 1 .. N
  BY ListFacts
<1>2. AreSofar(acc, array, sofar)
  BY <1>1, SofarExists
<1>3. AccumulateStreamToolCalls(acc, array) = sofar[N]
  BY DEF AccumulateStreamToolCalls, AreSofar, SofarStep
<1> HIDE DEF sofar
<1>4. \A n \in 0 .. N : sofar[n] = SofarStep(acc, array, sofar, n)
  BY <1>2 DEF AreSofar
<1>5. /\ IsList(t) /\ Len(t) = N
      /\ \A k \in 1 .. N : t[k] = Tag(array[k], k - 1)
  <2>1. /\ DOMAIN t = 1 .. N /\ t = [k \in DOMAIN t |-> t[k]]
        /\ \A k \in 1 .. N : t[k] = Tag(array[k], k - 1)
    BY <1>1 DEF Tagged, Tag
  <2> HIDE DEF t
  <2> QED  BY <1>1, <2>1, FunctionIsList
<1> HIDE DEF t, acc, N
<1>6. IsList(elements)
  BY DEF AreSpelled
<1>7. ASSUME S # {} PROVE FALSE
  <2>1. PICK m \in S : \A k \in S : m <= k
    <3>1. S \in SUBSET Nat
      OBVIOUS
    <3> HIDE DEF S
    <3> QED  BY <1>7, <3>1, Least
  <2>2. CASE m = 0
    <3>1. SubSeq(t, 1, 0) = <<>>
      BY <1>5 DEF IsList
    <3>2. elements \o <<>> = elements
      <4>1. IsList(<<>>)
        BY DEF IsList
      <4> QED  BY <1>6, <4>1, ListJoin
    <3>3. Upto(m) = elements
      BY <2>2, <3>1, <3>2
    <3>4. sofar[m] = acc
      BY <1>4, <2>1, <2>2 DEF SofarStep
    <3> HIDE DEF Upto
    <3> QED  BY <2>1, <3>3, <3>4 DEF acc
  <2>3. CASE m # 0
    <3>1. /\ m - 1 \in 0 .. N /\ ~ (m <= m - 1) /\ m \in 1 .. N
          /\ m - 1 \in Nat /\ m - 1 < Len(t) /\ m - 1 + 1 = m
      BY <1>1, <1>5, <2>1, <2>3
    <3>2. AreSpelled(Upto(m - 1)) /\ sofar[m - 1] = Accumulation(Upto(m - 1))
      BY <2>1, <3>1
    <3>3. Upto(m) = Append(Upto(m - 1), Tag(array[m], m - 1))
      <4>1. m - 1 \in 0 .. Len(t)
        BY <1>5, <3>1
      <4>2. /\ IsList(SubSeq(t, 1, m - 1))
            /\ SubSeq(t, 1, m - 1 + 1) = Append(SubSeq(t, 1, m - 1), t[m - 1 + 1])
        BY <1>5, <3>1, <4>1, PrefixGrows
      <4>3. SubSeq(t, 1, m) = Append(SubSeq(t, 1, m - 1), Tag(array[m], m - 1))
        BY <1>5, <3>1, <4>2
      <4> QED  BY <1>6, <4>2, <4>3, ListJoin
    <3>4. sofar[m] = AccumulateFragment(sofar[m - 1], array[m], m - 1)
      BY <1>4, <2>1, <2>3 DEF SofarStep
    <3>5. IsFragment(array[m])
      BY <1>1, <3>1
    <3> HIDE DEF Upto
    <3>6. AreSpelled(Upto(m)) /\ sofar[m] = Accumulation(Upto(m))
      BY <3>1, <3>2, <3>3, <3>4, <3>5, ElementIsAccumulated
    <3> QED  BY <2>1, <3>6
  <2> QED  BY <2>2, <2>3
<1>8. Upto(N) = elements \o t
  BY <1>5, WholeList
<1>9. N \in 0 .. N
  BY <1>1
<1>10. AreSpelled(Upto(N)) /\ sofar[N] = Accumulation(Upto(N))
  BY <1>7, <1>9
<1> QED  BY <1>3, <1>8, <1>10 DEF t, acc

\* The elements of one array more come after all others.
LEMMA ElementsAppend ==
    ASSUME NEW arrays, IsList(arrays), NEW array, IsList(array)
    PROVE  Elements(Append(arrays, array)) = Elements(arrays) \o Tagged(array)
<1> DEFINE longer == Append(arrays, array)
           s == [n \in DOMAIN arrays |-> Tagged(arrays[n])]
           t == [n \in DOMAIN longer |-> Tagged(longer[n])]
           N == Len(arrays)
<1>1. /\ N \in Nat /\ DOMAIN arrays = 1 .. N /\ DOMAIN longer = 1 .. N + 1
      /\ \A k \in 1 .. N : longer[k] = arrays[k]
      /\ longer[N + 1] = array
  BY ListAppend
<1>2. Elements(arrays) = FlattenSeq(s) /\ Elements(longer) = FlattenSeq(t)
  BY DEF Elements
<1> HIDE DEF longer, N
<1>3. /\ DOMAIN s = 1 .. N /\ s = [k \in DOMAIN s |-> s[k]]
      /\ \A k \in 1 .. N : s[k] = Tagged(arrays[k])
  BY <1>1
<1>4. /\ DOMAIN t = 1 .. N + 1 /\ t = [k \in DOMAIN t |-> t[k]]
      /\ \A k \in 1 .. N : t[k] = Tagged(arrays[k])
      /\ t[N + 1] = Tagged(array)
  <2>1. N + 1 \in 1 .. N + 1 /\ \A k \in 1 .. N : k \in 1 .. N + 1
    BY <1>1
  <2> QED  BY <1>1, <2>1
<1> HIDE DEF s, t
<1>5. IsList(s) /\ Len(s) = N
  BY <1>1, <1>3, FunctionIsList
<1>6. IsList(t) /\ Len(t) = N + 1
  <2>1. N + 1 \in Nat
    BY <1>1
  <2> QED  BY <1>4, <2>1, FunctionIsList
<1>7. t = Append(s, Tagged(array))
  <2>1. \A k \in 1 .. Len(s) : t[k] = s[k]
    BY <1>3, <1>4, <1>5
  <2>2. t = Append(s, t[Len(s) + 1])
    BY <1>5, <1>6, <2>1, OneLonger
  <2> QED  BY <1>4, <1>5, <2>2
<1>8. IsList(Tagged(array))
  <2> DEFINE u == Tagged(array)
  <2>1. Len(array) \in Nat /\ DOMAIN array = 1 .. Len(array)
    BY ListFacts
  <2>2. DOMAIN u = 1 .. Len(array) /\ u = [k \in DOMAIN u |-> u[k]]
    BY <2>1 DEF Tagged
  <2> HIDE DEF u
  <2>3. IsList(u)
    BY <2>1, <2>2, FunctionIsList
  <2> QED  BY <2>3 DEF u
<1> QED  BY <1>2, <1>5, <1>7, <1>8, FlattenAppend DEF longer

\* The calls built from what was accumulated are those that were spelled.
LEMMA BuiltIsSpelled ==
    ASSUME NEW arrays, AreSpelled(Elements(arrays))
    PROVE  BuildToolCallsFromAccumulation(Accumulation(Elements(arrays)))
               = ToolCallsSpelledBy(arrays)
<1> DEFINE all == Elements(arrays)
           acc == Accumulation(all)
           D == Indices(all)
           Call(a) == [id |-> a.id, name |-> a.name,
                       arguments |-> IF a.arguments_text = <<>> THEN NullValue
                                     ELSE ParseOrText(a.arguments_text)]
           f == [i \in D |-> SpelledCall(all, i)]
           I == {i \in D : f[i] # NoCall}
<1>1. D \in SUBSET Int /\ IsFiniteSet(D) /\ Cardinality(D) \in Nat
  BY FS_CardinalityType DEF AreSpelled
<1>2. ASSUME NEW i \in D PROVE Call(acc[i]) = f[i]
  <2>1. acc[i] = SpelledAccumulator(all, i) /\ f[i] = SpelledCall(all, i)
    BY DEF Accumulation
  <2>2. Call(SpelledAccumulator(all, i)) = SpelledCall(all, i)
    BY DEF SpelledAccumulator, SpelledCall
  <2> HIDE DEF acc, f, Call, D
  <2> QED  BY <2>1, <2>2
<1>3. BuildToolCallsFromAccumulation(acc)
          = Without([n \in 1 .. Cardinality(DOMAIN acc) |->
                        Call(acc[NthIndex(DOMAIN acc, n)])], NoCall)
  BY DEF BuildToolCallsFromAccumulation
<1>4. DOMAIN acc = D
  BY DEF Accumulation
<1>5. ToolCallsSpelledBy(arrays)
          = [n \in 1 .. Cardinality(I) |->
                SpelledCall(all, NthIndex(I, n))]
  <2>1. I = {i \in D : IsCall(SpelledCall(all, i))}
    BY DEF IsCall
  <2> HIDE DEF I
  <2> QED  BY <2>1 DEF ToolCallsSpelledBy
<1> HIDE DEF acc, Call
<1>6. I \in SUBSET D /\ I \in SUBSET Int /\ IsFiniteSet(I)
      /\ Cardinality(I) \in Nat
  <2>1. I \in SUBSET D
    OBVIOUS
  <2> HIDE DEF I, D
  <2> QED  BY <1>1, <2>1, FS_Subset, FS_CardinalityType
<1>7. \A n \in 1 .. Cardinality(D) : NthIndex(D, n) \in D
  BY <1>1, NthIsAnIndex
<1>8. \A n \in 1 .. Cardinality(I) : NthIndex(I, n) \in D
  <2> HIDE DEF I
  <2> QED  BY <1>6, NthIsAnIndex
<1>9. \A i \in D : f[i] = SpelledCall(all, i)
  OBVIOUS
<1>10. Without(InOrder(D, f), NoCall) = InOrder(I, f)
  <2> HIDE DEF f, D
  <2> QED  BY <1>1, RemainsInOrder
<1> HIDE DEF f, I, D
<1>11. BuildToolCallsFromAccumulation(acc) = Without(InOrder(D, f), NoCall)
  BY <1>2, <1>3, <1>4, <1>7 DEF InOrder
<1>12. ToolCallsSpelledBy(arrays) = InOrder(I, f)
  BY <1>5, <1>8, <1>9 DEF InOrder
<1> QED  BY <1>10, <1>11, <1>12 DEF acc

\* A payload takes the accumulated calls from what was told before to what is told
\* with it.
LEMMA AccumulatesOn ==
    ASSUME NEW calls, NEW said, IsList(said), Accumulates(calls, said),
           NEW payload \in Payloads
    PROVE  Accumulates(AccumulateStreamToolCalls(calls, payload.tool_calls),
                       Append(said, payload))
<1> DEFINE arrays == Column(said, "tool_calls")
           array == payload.tool_calls
<1>1. /\ AreSpelled(Elements(arrays))
      /\ calls = Accumulation(Elements(arrays))
  BY DEF Accumulates
<1>2. /\ IsList(array) /\ \A k \in DOMAIN array : IsFragment(array[k])
  BY PayloadsAssumption, FragmentsAssumption DEF IsList
<1>3. /\ IsList(arrays)
      /\ Column(Append(said, payload), "tool_calls") = Append(arrays, array)
  BY ColumnIsList, ColumnAppend
<1> HIDE DEF arrays, array
<1>4. Elements(Append(arrays, array)) = Elements(arrays) \o Tagged(array)
  BY <1>2, <1>3, ElementsAppend
<1>5. /\ AreSpelled(Elements(arrays) \o Tagged(array))
      /\ AccumulateStreamToolCalls(calls, array)
             = Accumulation(Elements(arrays) \o Tagged(array))
  BY <1>1, <1>2, ArrayIsAccumulated
<1>6. Accumulates(AccumulateStreamToolCalls(calls, array),
                  Append(said, payload))
  BY <1>3, <1>4, <1>5 DEF Accumulates
<1> QED  BY <1>6 DEF array

\* Nothing told, no calls.
LEMMA NothingCalled ==
    /\ Accumulates(<<>>, <<>>)
    /\ \A calls : Accumulates(calls, <<>>) =>
           BuildToolCallsFromAccumulation(calls) = <<>>
<1>1. IsList(<<>>) /\ Len(<<>>) = 0
  BY DEF IsList
<1>2. Column(<<>>, "tool_calls") = <<>>
  <2>1. /\ IsList(Column(<<>>, "tool_calls"))
        /\ Len(Column(<<>>, "tool_calls")) = 0
    BY <1>1, ColumnIsList
  <2> QED  BY <1>1, <2>1, ListsAreEqual
<1>3. ASSUME NEW f, DOMAIN f = 1 .. 0, f = [k \in DOMAIN f |-> f[k]]
      PROVE  f = <<>>
  <2>1. IsList(f) /\ Len(f) = 0
    BY <1>3, FunctionIsList
  <2> QED  BY <1>1, <2>1, ListsAreEqual
<1>4. Elements(<<>>) = <<>>
  <2> DEFINE s == [n \in DOMAIN <<>> |-> Tagged(<<>>[n])]
  <2>1. DOMAIN s = 1 .. 0 /\ s = [n \in DOMAIN s |-> s[n]]
    BY <1>1, ListFacts
  <2>2. Elements(<<>>) = FlattenSeq(s)
    BY DEF Elements
  <2> HIDE DEF s
  <2>3. s = <<>>
    BY <1>3, <2>1
  <2> QED  BY <1>1, <2>2, <2>3 DEF FlattenSeq
<1>5. Indices(<<>>) = {}
  BY <1>1, ListFacts DEF Indices
<1>6. Accumulation(<<>>) = <<>>
  <2>1. DOMAIN Accumulation(<<>>) = 1 .. 0
    BY <1>5 DEF Accumulation
  <2>2. Accumulation(<<>>) = [k \in DOMAIN Accumulation(<<>>) |->
                                 Accumulation(<<>>)[k]]
    BY DEF Accumulation
  <2> QED  BY <1>3, <2>1, <2>2
<1>7. AreSpelled(<<>>)
  BY <1>1, <1>5, FS_EmptySet DEF AreSpelled
<1>8. Accumulates(<<>>, <<>>)
  BY <1>2, <1>4, <1>6, <1>7 DEF Accumulates
<1>9. ToolCallsSpelledBy(<<>>) = <<>>
  <2> DEFINE indices == {i \in Indices(<<>>) : IsCall(SpelledCall(<<>>, i))}
             f == [n \in 1 .. Cardinality(indices) |->
                      SpelledCall(<<>>, NthIndex(indices, n))]
  <2>1. ToolCallsSpelledBy(<<>>) = f
    BY <1>4 DEF ToolCallsSpelledBy
  <2>2. Cardinality(indices) = 0
    BY <1>5, FS_EmptySet
  <2> HIDE DEF indices
  <2>3. DOMAIN f = 1 .. 0 /\ f = [n \in DOMAIN f |-> f[n]]
    BY <2>2
  <2> HIDE DEF f
  <2> QED  BY <1>3, <2>1, <2>3
<1>10. ASSUME NEW calls, Accumulates(calls, <<>>)
       PROVE  BuildToolCallsFromAccumulation(calls) = <<>>
  BY <1>2, <1>4, <1>7, <1>9, <1>10, BuiltIsSpelled DEF Accumulates
<1> QED  BY <1>8, <1>10

-----------------------------------------------------------------------------
(* The two kinds of steps *)

\* What a step of a request leaves as it was for another.
SameRequest(s) ==
    /\ stage'[s] = stage[s] /\ agg'[s] = agg[s] /\ fed'[s] = fed[s]
    /\ taken'[s] = taken[s] /\ eof'[s] = eof[s]
    /\ tool_calls'[s] = tool_calls[s]

\* A step that goes on, and one that answers.
ReadingStep(r) ==
    /\ \A s \in Requests \ {r} : SameRequest(s)
    /\ ReadsOn(r)' /\ UNCHANGED <<nodes, answers>>

EndingStep(r) ==
    /\ \A s \in Requests \ {r} : SameRequest(s)
    /\ stage'[r] = "finished" /\ fed'[r] = fed[r] /\ eof'[r] = eof[r]
    /\ \E message, log : /\ AnswerWith(r, message, log)
                         /\ AsStreamed(message, log, fed[r], eof[r])

\* How a response must have been taken for an outcome.
Outcome(r, success) ==
    /\ PayloadsBeforeEnd(fed[r]) = SaidSoFar(r)
    /\ success <=> \/ EndedBy(fed[r]) = DoneMarker
                   \/ EndedBy(fed[r]) = EmptyData /\ eof[r]

InvalidCount(r) == IF EndedBy(fed[r]) = InvalidData THEN 1 ELSE 0

\* A node with what the aggregate says is the answer to what was streamed.
LEMMA AnswerSpelled ==
    ASSUME NEW r \in Requests, Told(r),
           NEW success \in BOOLEAN, Outcome(r, success),
           NEW message, NEW log,
           message.role = "assistant",
           message.message = agg[r].accumulated_message,
           message.reasoning = agg[r].accumulated_reasoning,
           message.tool_calls = BuildToolCallsFromAccumulation(tool_calls[r]),
           log.request_id = agg[r].request_id,
           log.model = IF agg[r].model = "" THEN Model ELSE agg[r].model,
           log.finish_reason = agg[r].finish_reason,
           log.delta_count = agg[r].delta_count + InvalidCount(r),
           log.status = "kSuccess" <=> success
    PROVE  AsStreamed(message, log, fed[r], eof[r])
<1>1. message.tool_calls = ToolCallsSpelledBy(Column(SaidSoFar(r), "tool_calls"))
  BY BuiltIsSpelled DEF Told, Accumulates
<1> QED  BY <1>1 DEF AsStreamed, Told, Spells, Outcome, InvalidCount

\* Finish answers with what was streamed.
LEMMA FinishSpells ==
    ASSUME StreamTypeOK, NEW r \in Requests, Told(r),
           NEW a \in StreamAggregate, ~ a.done,
           a.accumulated_message = agg[r].accumulated_message,
           a.accumulated_reasoning = agg[r].accumulated_reasoning,
           a.request_id = agg[r].request_id, a.model = agg[r].model,
           a.finish_reason = agg[r].finish_reason,
           a.delta_count = agg[r].delta_count + InvalidCount(r),
           NEW success \in BOOLEAN, NEW error, Outcome(r, success),
           Finish(r, a, success, error), UNCHANGED <<tool_calls, fed, eof>>,
           \A s \in Requests \ {r} : taken'[s] = taken[s]
    PROVE  EndingStep(r)
<1> DEFINE b == FinishedAggregate(a, error)
           message == FinishedMessage(b, tool_calls[r])
           log == FinishedLog(b, success)
<1>1. /\ stage' = [stage EXCEPT ![r] = "finished"]
      /\ agg' = [agg EXCEPT ![r] = b]
      /\ AnswerWith(r, message, log)
  BY DEF Finish, FinishedAggregate
<1>2. /\ b.accumulated_message = a.accumulated_message
      /\ b.accumulated_reasoning = a.accumulated_reasoning
      /\ b.request_id = a.request_id /\ b.model = a.model
      /\ b.finish_reason = a.finish_reason /\ b.delta_count = a.delta_count
  BY DEF FinishedAggregate, StreamAggregate
<1> HIDE DEF b
<1>3. /\ message.role = "assistant"
      /\ message.message = b.accumulated_message
      /\ message.reasoning = b.accumulated_reasoning
      /\ message.tool_calls = BuildToolCallsFromAccumulation(tool_calls[r])
  BY DEF FinishedMessage, EmptyAssistant
<1>4. /\ log.request_id = b.request_id
      /\ log.model = IF b.model = "" THEN Model ELSE b.model
      /\ log.finish_reason = b.finish_reason /\ log.delta_count = b.delta_count
      /\ log.status = "kSuccess" <=> success
  BY DEF FinishedLog, BuildLogSkeleton, LocalLog
<1> HIDE DEF message, log
<1>5. AsStreamed(message, log, fed[r], eof[r])
  BY <1>2, <1>3, <1>4, AnswerSpelled
<1>6. \A s \in Requests \ {r} : SameRequest(s)
  BY <1>1 DEF SameRequest, StreamTypeOK
<1>7. stage'[r] = "finished"
  BY <1>1 DEF StreamTypeOK
<1> QED  BY <1>1, <1>5, <1>6, <1>7 DEF EndingStep

\* A request that has looked at all it was fed has passed no end.
LEMMA TakenAll ==
    ASSUME StreamTypeOK, NEW r \in Requests, ReadsOn(r),
           stage[r] # "finished", taken[r] = Len(fed[r])
    PROVE  /\ Outcome(r, eof[r]) /\ InvalidCount(r) = 0
           /\ Told(r)
<1>1. IsList(fed[r]) /\ \A k \in 1 .. Len(fed[r]) : ~ Ends(fed[r][k])
  BY ListOf DEF StreamTypeOK, ReadsOn
<1>2. SaidSoFar(r) = Without(fed[r], EmptyData)
  BY <1>1, WholeList DEF SaidSoFar
<1>3. /\ EndedBy(fed[r]) = EmptyData
      /\ PayloadsBeforeEnd(fed[r]) = Without(fed[r], EmptyData)
  BY <1>1, BodyEnds
<1>4. eof[r] \in BOOLEAN
  BY DEF StreamTypeOK
<1> QED  BY <1>2, <1>3, <1>4, PayloadsAssumption
         DEF Outcome, InvalidCount, ReadsOn

\* One that comes to an event that ends the response has passed no other.
LEMMA TakenUpTo ==
    ASSUME StreamTypeOK, NEW r \in Requests, ReadsOn(r), Drains(r),
           Ends(NextEvent(r))
    PROVE  /\ Outcome(r, NextEvent(r) = DoneMarker)
           /\ InvalidCount(r) = IF NextEvent(r) = InvalidData THEN 1 ELSE 0
           /\ Told(r)
<1>1. /\ IsList(fed[r]) /\ taken[r] \in 0 .. Len(fed[r])
      /\ taken[r] < Len(fed[r]) /\ stage[r] # "finished"
  <2>1. IsList(fed[r]) /\ Len(fed[r]) \in Nat
    BY ListOf DEF StreamTypeOK
  <2> QED  BY <2>1 DEF StreamTypeOK, Drains
<1>2. \A k \in 1 .. taken[r] : ~ Ends(fed[r][k])
  BY <1>1 DEF ReadsOn
<1>3. /\ EndedBy(fed[r]) = NextEvent(r)
      /\ PayloadsBeforeEnd(fed[r]) = SaidSoFar(r)
  BY <1>1, <1>2, EventEnds DEF NextEvent, SaidSoFar
<1> QED  BY <1>1, <1>3, PayloadsAssumption DEF Outcome, InvalidCount, ReadsOn, Ends

\* What a chunk brings comes after what has been looked at.
LEMMA ChunkComesAfter ==
    ASSUME NEW s \in Seq(Events), NEW events \in Seq(Events),
           NEW n \in 0 .. Len(s)
    PROVE  /\ SubSeq(s \o events, 1, n) = SubSeq(s, 1, n)
           /\ \A k \in 1 .. n : (s \o events)[k] = s[k]
<1> DEFINE longer == s \o events
<1>1. /\ longer \in Seq(Events) /\ Len(longer) = Len(s) + Len(events)
      /\ Len(s) \in Nat /\ Len(events) \in Nat
      /\ \A k \in 1 .. Len(s) : longer[k] = s[k]
  OBVIOUS
<1> HIDE DEF longer
<1>2. IsList(longer) /\ IsList(s)
  BY <1>1, ListOf
<1>3. /\ IsList(SubSeq(s, 1, n)) /\ Len(SubSeq(s, 1, n)) = n
      /\ \A k \in 1 .. n : SubSeq(s, 1, n)[k] = s[k]
  BY <1>2, FirstOf
<1>4. n \in 0 .. Len(longer)
  BY <1>1
<1>5. /\ IsList(SubSeq(longer, 1, n)) /\ Len(SubSeq(longer, 1, n)) = n
      /\ \A k \in 1 .. n : SubSeq(longer, 1, n)[k] = longer[k]
  BY <1>2, <1>4, FirstOf
<1>6. \A k \in 1 .. n : longer[k] = s[k]
  BY <1>1
<1>7. SubSeq(longer, 1, n) = SubSeq(s, 1, n)
  BY <1>3, <1>5, <1>6, ListsAreEqual
<1> QED  BY <1>6, <1>7 DEF longer

\* What is said with one event more.
LEMMA OneEventMore ==
    ASSUME StreamTypeOK, NEW r \in Requests, Drains(r),
           taken' = [taken EXCEPT ![r] = @ + 1], UNCHANGED fed
    PROVE  /\ IsList(SaidSoFar(r))
           /\ taken'[r] = taken[r] + 1 /\ taken[r] \in Nat
           /\ SaidSoFar(r)' = IF NextEvent(r) = EmptyData THEN SaidSoFar(r)
                              ELSE Append(SaidSoFar(r), NextEvent(r))
<1> DEFINE t == SubSeq(fed[r], 1, taken[r])
<1>1. /\ IsList(fed[r]) /\ Len(fed[r]) \in Nat /\ taken[r] \in Nat
      /\ taken'[r] = taken[r] + 1 /\ taken[r] < Len(fed[r])
  BY ListOf DEF StreamTypeOK, Drains
<1>2. taken[r] \in 0 .. Len(fed[r])
  BY <1>1
<1>3. /\ IsList(t) /\ Len(t) \in Nat
      /\ SubSeq(fed[r], 1, taken[r] + 1) = Append(t, NextEvent(r))
  BY <1>1, <1>2, PrefixGrows DEF NextEvent
<1>4. SaidSoFar(r)' = Without(Append(t, NextEvent(r)), EmptyData)
  BY <1>1, <1>3 DEF SaidSoFar
<1>5. SaidSoFar(r) = Without(t, EmptyData)
  BY DEF SaidSoFar
<1> HIDE DEF t
<1> QED  BY <1>1, <1>3, <1>4, <1>5, WithoutIsList, WithoutAppend

\* An aggregate was told nothing if and only if it says nothing.
LEMMA NothingSpelled ==
    ASSUME NEW a
    PROVE  Spells(a, <<>>) <=>
               /\ a.accumulated_message = <<>>
               /\ a.accumulated_reasoning = <<>>
               /\ a.request_id = "" /\ a.model = "" /\ a.finish_reason = ""
               /\ a.delta_count = 0
<1>1. ASSUME NEW field PROVE Column(<<>>, field) = <<>>
  <2>1. IsList(<<>>) /\ Len(<<>>) = 0
    BY DEF IsList
  <2>2. IsList(Column(<<>>, field)) /\ Len(Column(<<>>, field)) = 0
    BY <2>1, ColumnIsList
  <2> QED  BY <2>1, <2>2, ListsAreEqual
<1>2. /\ Present(<<>>) = <<>> /\ Without(<<>>, "") = <<>>
      /\ LastOr("", <<>>) = "" /\ Len(<<>>) = 0
  BY WithoutNothing DEF Present, LastOr
<1>3. Spells(a, <<>>) <=>
          /\ a.accumulated_message = Present(Column(<<>>, "content"))
          /\ a.accumulated_reasoning = Present(Column(<<>>, "reasoning"))
          /\ a.request_id = FirstId(Column(<<>>, "id"))
          /\ a.model = LastOr("", Present(Column(<<>>, "model")))
          /\ a.finish_reason = LastOr("", Present(Column(<<>>, "finish_reason")))
          /\ a.delta_count = Len(<<>>)
  BY DEF Spells, FirstId
<1>4. FirstId(<<>>) = ""
  BY <1>2 DEF FirstId
<1> QED  BY <1>1, <1>2, <1>3, <1>4

\* Every step of a request goes on or answers.
LEMMA StepsSpell ==
    ASSUME StreamTypeOK, CallsAreFinite, NEW r \in Requests, Control(r),
           ReadsOn(r), RequestStep(r)
    PROVE  ReadingStep(r) \/ EndingStep(r)
<1>1. /\ agg \in [Requests -> StreamAggregate] /\ agg[r] \in StreamAggregate
      /\ stage \in [Requests -> Stages] /\ fed \in [Requests -> Seq(Events)]
      /\ taken \in [Requests -> Nat] /\ eof \in [Requests -> BOOLEAN]
      /\ fed[r] \in Seq(Events) /\ Len(fed[r]) \in Nat
      /\ taken[r] \in 0 .. Len(fed[r])
  <2>1. fed[r] \in Seq(Events)
    BY DEF StreamTypeOK
  <2> QED  BY <2>1 DEF StreamTypeOK
<1>2. stage[r] # "finished" => ~ agg[r].done
  BY DEF Control
<1>3. ASSUME stage[r] \in {"acquiring", "opening", "reading"}
      PROVE  /\ taken[r] = Len(fed[r]) /\ ~ eof[r]
             /\ Outcome(r, FALSE) /\ InvalidCount(r) = 0
             /\ Told(r)
  <2>1. taken[r] = Len(fed[r]) /\ ~ eof[r] /\ stage[r] # "finished"
    BY <1>3 DEF ReadsOn
  <2> QED  BY <2>1, TakenAll DEF Outcome
<1>4. CASE OnAcquired(r)
  BY <1>1, <1>4 DEF OnAcquired, ReadingStep, SameRequest, ReadsOn, Told,
                      SaidSoFar
<1>5. CASE OnAcquireFailed(r)
  <2> DEFINE log == [BuildLogSkeleton(Model, TRUE) EXCEPT
                        !.error_message = "transport error"]
  <2>1. /\ log.status = "kFail" /\ log.request_id = "" /\ log.model = Model
        /\ log.finish_reason = "" /\ log.delta_count = 0
    BY DEF BuildLogSkeleton, LocalLog
  <2>2. /\ stage[r] = "acquiring"
        /\ stage' = [stage EXCEPT ![r] = "finished"]
        /\ AnswerWith(r, EmptyAssistant, log)
        /\ UNCHANGED <<agg, tool_calls, fed, taken, eof>>
    BY <1>5 DEF OnAcquireFailed
  <2> HIDE DEF log
  <2>3. /\ BuildToolCallsFromAccumulation(tool_calls[r]) = <<>>
        /\ agg[r].accumulated_message = <<>>
        /\ agg[r].accumulated_reasoning = <<>>
        /\ agg[r].request_id = "" /\ agg[r].model = ""
        /\ agg[r].finish_reason = "" /\ agg[r].delta_count = 0
    <3>1. SaidSoFar(r) = <<>>
      <4>1. fed[r] = <<>> /\ taken[r] = 0
        BY <1>3, <2>2 DEF ReadsOn
      <4>2. SubSeq(fed[r], 1, 0) = <<>>
        BY <4>1
      <4> QED  BY <4>1, <4>2, WithoutNothing DEF SaidSoFar
    <3>2. Spells(agg[r], <<>>) /\ Accumulates(tool_calls[r], <<>>)
      BY <1>3, <2>2, <3>1 DEF Told
    <3> QED  BY <3>2, NothingSpelled, NothingCalled
  <2>4. /\ EmptyAssistant.role = "assistant" /\ EmptyAssistant.message = <<>>
        /\ EmptyAssistant.reasoning = <<>> /\ EmptyAssistant.tool_calls = <<>>
    BY DEF EmptyAssistant
  <2>5. AsStreamed(EmptyAssistant, log, fed[r], eof[r])
    <3>1. /\ Told(r) /\ Outcome(r, FALSE)
          /\ InvalidCount(r) = 0
      BY <1>3, <2>2
    <3>2. agg[r].delta_count + InvalidCount(r) = 0
      <4> DEFINE d == agg[r].delta_count
                 i == InvalidCount(r)
      <4>1. d = 0 /\ i = 0
        BY <2>3, <3>1
      <4> HIDE DEF d, i
      <4> QED  BY <4>1 DEF d, i
    <3> QED  BY <2>1, <2>3, <2>4, <3>1, <3>2, AnswerSpelled
  <2> QED  BY <1>1, <2>2, <2>5 DEF EndingStep, SameRequest
<1>6. CASE Start(r)
  <2>1. PICK cancelled \in BOOLEAN, failed \in BOOLEAN, code \in HttpCodes :
            OnStart(r, cancelled, failed, code)
    BY <1>6 DEF Start
  <2> DEFINE a == [agg[r] EXCEPT !.http_status_code = code]
  <2>2. /\ a \in StreamAggregate /\ a.done = agg[r].done
        /\ a.accumulated_message = agg[r].accumulated_message
        /\ a.accumulated_reasoning = agg[r].accumulated_reasoning
        /\ a.request_id = agg[r].request_id /\ a.model = agg[r].model
        /\ a.finish_reason = agg[r].finish_reason
        /\ a.delta_count = agg[r].delta_count
    BY <1>1, HttpCodesAssumption DEF StreamAggregate
  <2>3. /\ stage[r] = "opening" /\ UNCHANGED <<tool_calls, fed, taken, eof>>
        /\ \/ \E error : Finish(r, a, FALSE, error)
           \/ /\ stage' = [stage EXCEPT ![r] = "reading"]
              /\ agg' = [agg EXCEPT ![r] = a]
              /\ UNCHANGED <<nodes, answers>>
    BY <2>1 DEF OnStart
  <2> HIDE DEF a
  <2>4. CASE \E error : Finish(r, a, FALSE, error)
    <3>1. a.delta_count = agg[r].delta_count + InvalidCount(r)
      BY <1>1, <1>3, <2>2, <2>3 DEF StreamAggregate
    <3> QED  BY <1>2, <1>3, <2>2, <2>3, <2>4, <3>1, FinishSpells
  <2>5. CASE /\ stage' = [stage EXCEPT ![r] = "reading"]
             /\ agg' = [agg EXCEPT ![r] = a]
             /\ UNCHANGED <<nodes, answers>>
    <3>1. Spells(a, SaidSoFar(r))
      BY <1>3, <2>2, <2>3 DEF Told, Spells
    <3>2. Told(r)'
      BY <1>1, <1>3, <2>3, <2>5, <3>1 DEF Told, SaidSoFar
    <3> QED  BY <1>1, <2>3, <2>5, <3>2 DEF ReadingStep, SameRequest, ReadsOn
  <2> QED  BY <2>3, <2>4, <2>5
<1>7. CASE Fail(r)
  <2>1. PICK error : /\ stage[r] = "reading"
                     /\ UNCHANGED <<tool_calls, fed, taken, eof>>
                     /\ Finish(r, agg[r], FALSE, error)
    BY <1>7 DEF Fail, OnNextFailed
  <2>2. agg[r].delta_count = agg[r].delta_count + InvalidCount(r)
    BY <1>1, <1>3, <2>1 DEF StreamAggregate
  <2> QED  BY <1>1, <1>2, <1>3, <2>1, <2>2, FinishSpells
<1>8. CASE \E last \in BOOLEAN : Read(r, last)
  <2>1. PICK last \in BOOLEAN,
             events \in EventLists(MaxEvents - Len(fed[r])) :
                 OnNext(r, events, last)
    BY <1>8 DEF Read
  <2>2. /\ stage[r] = "reading"
        /\ UNCHANGED <<nodes, agg, tool_calls, taken, answers>>
        /\ stage' = [stage EXCEPT ![r] = "draining"]
        /\ fed' = [fed EXCEPT ![r] = fed[r] \o events]
        /\ eof' = [eof EXCEPT ![r] = last]
    BY <2>1 DEF OnNext
  <2>3. events \in Seq(Events)
    BY DEF EventLists
  <2>4. fed'[r] = fed[r] \o events /\ stage'[r] = "draining"
    BY <1>1, <2>2
  <2>5. /\ SubSeq(fed'[r], 1, taken[r]) = SubSeq(fed[r], 1, taken[r])
        /\ \A k \in 1 .. taken[r] : fed'[r][k] = fed[r][k]
    BY <1>1, <2>3, <2>4, ChunkComesAfter
  <2>6. ReadsOn(r)'
    BY <1>3, <2>2, <2>4, <2>5 DEF ReadsOn, Told, SaidSoFar
  <2>7. \A s \in Requests \ {r} : SameRequest(s)
    BY <1>1, <2>2 DEF SameRequest
  <2> QED  BY <2>2, <2>6, <2>7 DEF ReadingStep
<1>9. CASE SkipEmptyEvent(r)
  <2>1. /\ Drains(r) /\ NextEvent(r) = EmptyData
        /\ taken' = [taken EXCEPT ![r] = @ + 1]
        /\ UNCHANGED <<nodes, stage, agg, tool_calls, fed, eof, answers>>
    BY <1>9 DEF SkipEmptyEvent
  <2>2. stage[r] = "draining" /\ ~ Ends(NextEvent(r))
    BY <2>1, PayloadsAssumption DEF Drains, Ends
  <2>3. taken'[r] = taken[r] + 1 /\ SaidSoFar(r)' = SaidSoFar(r)
    BY <2>1, OneEventMore
  <2>4. \A k \in 1 .. taken[r] + 1 : ~ Ends(fed[r][k])
    BY <1>1, <2>2 DEF ReadsOn, NextEvent
  <2>5. ReadsOn(r)'
    BY <2>1, <2>2, <2>3, <2>4 DEF ReadsOn, Told
  <2>6. \A s \in Requests \ {r} : SameRequest(s)
    BY <1>1, <2>1 DEF SameRequest
  <2> QED  BY <2>1, <2>5, <2>6 DEF ReadingStep
<1>10. CASE ProcessDoneMarker(r)
  <2>1. /\ Drains(r) /\ NextEvent(r) = DoneMarker
        /\ taken' = [taken EXCEPT ![r] = @ + 1]
        /\ Finish(r, agg[r], TRUE, "") /\ UNCHANGED <<tool_calls, fed, eof>>
    BY <1>10 DEF ProcessDoneMarker
  <2>2. /\ Outcome(r, TRUE) /\ InvalidCount(r) = 0
        /\ Told(r)
    <3>1. Ends(NextEvent(r)) /\ NextEvent(r) # InvalidData
      BY <2>1, PayloadsAssumption DEF Ends
    <3> QED  BY <2>1, <3>1, TakenUpTo DEF Outcome
  <2>3. ~ agg[r].done
    BY <1>2, <2>1 DEF Drains
  <2>4. \A s \in Requests \ {r} : taken'[s] = taken[s]
    BY <1>1, <2>1
  <2>5. agg[r].delta_count = agg[r].delta_count + InvalidCount(r)
    BY <1>1, <2>2 DEF StreamAggregate
  <2> QED  BY <1>1, <2>1, <2>2, <2>3, <2>4, <2>5, FinishSpells
<1>11. CASE ProcessInvalidEvent(r)
  <2> DEFINE a == Counted(agg[r])
  <2>1. /\ Drains(r) /\ NextEvent(r) = InvalidData
        /\ taken' = [taken EXCEPT ![r] = @ + 1]
        /\ \E error : Finish(r, a, FALSE, error)
        /\ UNCHANGED <<tool_calls, fed, eof>>
    BY <1>11 DEF ProcessInvalidEvent
  <2>2. /\ a \in StreamAggregate /\ a.done = agg[r].done
        /\ a.accumulated_message = agg[r].accumulated_message
        /\ a.accumulated_reasoning = agg[r].accumulated_reasoning
        /\ a.request_id = agg[r].request_id /\ a.model = agg[r].model
        /\ a.finish_reason = agg[r].finish_reason
        /\ a.delta_count = agg[r].delta_count + 1
    BY <1>1, CountedTypes DEF Counted, StreamAggregate
  <2> HIDE DEF a
  <2>3. /\ Outcome(r, FALSE) /\ InvalidCount(r) = 1
        /\ Told(r)
    <3>1. Ends(NextEvent(r)) /\ NextEvent(r) # DoneMarker
      BY <2>1, PayloadsAssumption DEF Ends
    <3> QED  BY <2>1, <3>1, TakenUpTo DEF Outcome
  <2>4. ~ a.done
    BY <1>2, <2>1, <2>2 DEF Drains
  <2>5. \A s \in Requests \ {r} : taken'[s] = taken[s]
    BY <1>1, <2>1
  <2> QED  BY <2>1, <2>2, <2>3, <2>4, <2>5, FinishSpells
<1>12. CASE ProcessPayload(r)
  <2> DEFINE payload == NextEvent(r)
             c == AppendDelta(ApplyStreamDeltaPayload(Counted(agg[r]), payload),
                              payload)
             calls == AccumulateStreamToolCalls(tool_calls[r],
                                                payload.tool_calls)
  <2>1. /\ Drains(r) /\ payload \in Payloads
        /\ taken' = [taken EXCEPT ![r] = @ + 1]
        /\ agg' = [agg EXCEPT ![r] = c]
        /\ tool_calls' = [tool_calls EXCEPT ![r] = calls]
        /\ UNCHANGED <<nodes, stage, fed, eof, answers>>
    BY <1>12 DEF ProcessPayload
  <2>2. stage[r] = "draining" /\ ~ Ends(NextEvent(r)) /\ payload # EmptyData
    BY <2>1, PayloadsAssumption DEF Drains, Ends
  <2>3. /\ IsList(SaidSoFar(r)) /\ taken'[r] = taken[r] + 1
        /\ SaidSoFar(r)' = Append(SaidSoFar(r), payload)
    BY <2>1, <2>2, OneEventMore
  <2>4. /\ Spells(c, Append(SaidSoFar(r), payload))
        /\ Accumulates(calls, Append(SaidSoFar(r), payload))
    <3>1. /\ Spells(agg[r], SaidSoFar(r))
          /\ Accumulates(tool_calls[r], SaidSoFar(r))
      BY <2>2 DEF ReadsOn, Told
    <3> QED  BY <1>1, <2>1, <2>3, <3>1, SpellsOn, AccumulatesOn
  <2>5. \A k \in 1 .. taken[r] + 1 : ~ Ends(fed[r][k])
    BY <1>1, <2>2 DEF ReadsOn, NextEvent
  <2> HIDE DEF payload, c, calls
  <2>6. ReadsOn(r)'
    <3>1. agg'[r] = c /\ tool_calls'[r] = calls
      BY <1>1, <2>1 DEF CallsAreFinite
    <3>2. Told(r)'
      BY <2>3, <2>4, <3>1 DEF Told
    <3> QED  BY <2>1, <2>2, <2>3, <2>5, <3>2 DEF ReadsOn
  <2>7. \A s \in Requests \ {r} : SameRequest(s)
    BY <1>1, <2>1 DEF SameRequest, CallsAreFinite
  <2> QED  BY <2>1, <2>6, <2>7 DEF ReadingStep
<1>13. CASE EndOfChunk(r)
  <2>1. /\ stage[r] = "draining" /\ taken[r] = Len(fed[r])
        /\ UNCHANGED <<tool_calls, fed, taken, eof>>
    BY <1>13 DEF EndOfChunk
  <2>2. /\ Outcome(r, eof[r]) /\ InvalidCount(r) = 0
        /\ Told(r)
    BY <2>1, TakenAll
  <2>3. CASE eof[r]
    <3>1. Finish(r, agg[r], TRUE, "") /\ Outcome(r, TRUE)
      BY <1>13, <2>2, <2>3 DEF EndOfChunk, Outcome
    <3>2. agg[r].delta_count = agg[r].delta_count + InvalidCount(r)
      BY <1>1, <2>2 DEF StreamAggregate
    <3> QED  BY <1>1, <1>2, <2>1, <2>2, <3>1, <3>2, FinishSpells
  <2>4. CASE ~ eof[r]
    <3>1. /\ stage' = [stage EXCEPT ![r] = "reading"]
          /\ UNCHANGED <<nodes, agg, answers>>
      BY <1>13, <2>4 DEF EndOfChunk
    <3> QED  BY <1>1, <2>1, <2>4, <3>1
             DEF ReadingStep, SameRequest, ReadsOn, Told, SaidSoFar
  <2> QED  BY <2>3, <2>4
<1> QED
  BY <1>4, <1>5, <1>6, <1>7, <1>8, <1>9, <1>10, <1>11, <1>12, <1>13
     DEF RequestStep, Acquire, Drain

-----------------------------------------------------------------------------
(* The invariant of what was streamed *)

\* A request that a step is not about keeps its part.
LEMMA OthersReadOn ==
    ASSUME StreamTypeOK, Grows, NEW s \in Requests, SameRequest(s),
           answers'[s] = answers[s], ReadsOn(s), AnswerAsStreamed(s)
    PROVE  ReadsOn(s)' /\ AnswerAsStreamed(s)'
<1>1. ReadsOn(s)'
  BY DEF SameRequest, ReadsOn, Told, SaidSoFar
<1>2. ASSUME Answered(s)' PROVE AnswerOf(s)' = AnswerOf(s) /\ Answered(s)
  <2>1. answers[s] \in Seq(Nat) /\ answers[s] # <<>>
    BY <1>2 DEF Answered, StreamTypeOK
  <2>2. 1 \in DOMAIN answers[s]
    BY <2>1
  <2>3. answers[s][1] \in States
    BY <2>2 DEF StreamTypeOK
  <2> QED  BY <2>1, <2>3 DEF AnswerOf, Answered, Grows
<1>3. AnswerAsStreamed(s)'
  BY <1>2 DEF AnswerAsStreamed, SameRequest
<1> QED  BY <1>1, <1>3

\* A step of one request keeps the parts of the invariant, for any other.
LEMMA RequestStepSpells ==
    ASSUME StreamedIInv, NEW r \in Requests, RequestStep(r), NEW s \in Requests
    PROVE  ReadsOn(s)' /\ AnswerAsStreamed(s)'
<1>1. /\ StreamIInv /\ StreamTypeOK /\ Control(r)
      /\ ReadsOn(r) /\ ReadsOn(s) /\ AnswerAsStreamed(s)
      /\ answers \in [Requests -> Seq(Nat)]
  BY DEF StreamedIInv, StreamIInv, StreamTypeOK
<1>2. Grows /\ (ReadingStep(r) \/ EndingStep(r))
  BY <1>1, RequestGrows, StepsSpell DEF StreamedIInv
<1>3. answers[r] = <<>>
  <2>1. Len(answers[r]) = 0 /\ answers[r] \in Seq(Nat)
    BY <1>1, StepKinds DEF QuietStep, SpeakStep, AnswerStep, Pending, Control
  <2> QED  BY <2>1
<1>4. CASE s # r
  <2>1. SameRequest(s) /\ answers'[s] = answers[s]
    BY <1>1, <1>2, <1>4 DEF ReadingStep, EndingStep, AnswerWith
  <2> QED  BY <1>1, <1>2, <2>1, OthersReadOn
<1>5. CASE s = r /\ ReadingStep(r)
  BY <1>3, <1>5 DEF ReadingStep, AnswerAsStreamed, Answered
<1>6. CASE s = r /\ EndingStep(r)
  <2>1. PICK message, log : /\ AnswerWith(r, message, log)
                            /\ AsStreamed(message, log, fed[r], eof[r])
    BY <1>6 DEF EndingStep
  <2>2. PICK n : n = NewState
    OBVIOUS
  <2>3. answers'[r] = <<n>>
    BY <1>1, <1>3, <2>1, <2>2 DEF AnswerWith
  <2>4. nodes'[n] = [message |-> message, log |-> log, previous |-> base[r]]
    <3>1. nodes \in Seq(Range(nodes))
      BY <1>1 DEF StreamTypeOK, StateTypeOK
    <3>2. nodes' = Append(nodes, [message |-> message, log |-> log,
                                  previous |-> base[r]])
      BY <2>1 DEF AnswerWith, AllocateState
    <3> QED  BY <2>2, <3>1, <3>2 DEF NewState
  <2>5. AnswerOf(r)'.log = log /\ AnswerOf(r)'.message = message
    BY <2>3, <2>4 DEF AnswerOf
  <2>6. AnswerAsStreamed(r)'
    BY <1>6, <2>1, <2>5 DEF EndingStep, AnswerAsStreamed
  <2>7. ReadsOn(r)'
    BY <1>6 DEF EndingStep, ReadsOn
  <2> QED  BY <1>6, <2>6, <2>7
<1> QED  BY <1>2, <1>4, <1>5, <1>6

\* Every step keeps the invariant ...
LEMMA StreamedStep == StreamedIInv /\ [StreamNext]_streamVars => StreamedIInv'
<1> SUFFICES ASSUME StreamedIInv, [StreamNext]_streamVars PROVE StreamedIInv'
  OBVIOUS
<1>1. StreamIInv /\ StreamIInv' /\ StreamTypeOK /\ StateTypeOK
  BY StepIInv DEF StreamedIInv, StreamIInv, StreamTypeOK
<1>2. ASSUME Grows,
             UNCHANGED <<stage, agg, tool_calls, fed, taken, eof, answers>>,
             NEW s \in Requests
      PROVE  ReadsOn(s)' /\ AnswerAsStreamed(s)'
  BY <1>1, <1>2, OthersReadOn DEF StreamedIInv, SameRequest
<1>3. CASE CallerAppends /\ UNCHANGED <<stage, base, callbacks, request_body,
                                        agg, tool_calls, fed, taken, eof,
                                        heard, answers>>
  BY <1>1, <1>2, <1>3, CallerGrows DEF StreamedIInv, CallsAreFinite
<1>4. CASE UNCHANGED streamVars
  <2>1. Grows
    BY <1>1, <1>4 DEF Grows, streamVars, StateTypeOK, States
  <2> QED  BY <1>1, <1>2, <1>4, <2>1
           DEF StreamedIInv, CallsAreFinite, streamVars
<1>5. CASE StreamFetch
  <2>1. PICK r \in Requests, state \in States \cup {NullState},
             cbs \in SUBSET Callbacks, configured \in BOOLEAN :
             \/ FetchStreamCompletion(r, state, cbs, configured)
             \/ RejectStreamCompletion(r, state, cbs, configured)
    BY <1>5 DEF StreamFetch
  <2>2. /\ stage[r] = "idle" /\ stage'[r] \in {"acquiring", "rejected"}
        /\ \A s \in Requests \ {r} : stage'[s] = stage[s]
        /\ UNCHANGED <<nodes, agg, tool_calls, fed, taken, eof, answers>>
    BY <1>1, <2>1 DEF FetchStreamCompletion, RejectStreamCompletion,
                      StreamTypeOK
  <2>3. ASSUME NEW s \in Requests
        PROVE  ReadsOn(s)' /\ AnswerAsStreamed(s)'
    <3>1. ReadsOn(s) /\ AnswerAsStreamed(s)
      BY DEF StreamedIInv
    <3>2. AnswerAsStreamed(s)'
      BY <2>2, <3>1 DEF AnswerAsStreamed, Answered, AnswerOf
    <3>3. ReadsOn(s)'
      BY <2>2, <3>1 DEF ReadsOn, Told, SaidSoFar
    <3> QED  BY <3>2, <3>3
  <2>4. CallsAreFinite'
    BY <2>2 DEF StreamedIInv, CallsAreFinite
  <2> QED  BY <1>1, <2>3, <2>4 DEF StreamedIInv
<1>6. CASE \E r \in Requests : RequestStep(r)
  BY <1>1, <1>6, RequestStepSpells, StepsAccumulateFinitely DEF StreamedIInv
<1> QED  BY <1>3, <1>4, <1>5, <1>6 DEF StreamNext

\* ... which holds before the first fetch.
LEMMA StreamedInit == StreamInit => StreamedIInv
<1> SUFFICES ASSUME StreamInit PROVE StreamedIInv
  OBVIOUS
<1>1. ASSUME NEW r \in Requests
      PROVE  /\ agg[r] = EmptyAggregate /\ fed[r] = <<>> /\ taken[r] = 0
             /\ ~ eof[r] /\ answers[r] = <<>> /\ tool_calls[r] = <<>>
  BY DEF StreamInit
<1>2. ASSUME NEW r \in Requests PROVE SaidSoFar(r) = <<>>
  <2>1. SubSeq(fed[r], 1, taken[r]) = <<>>
    BY <1>1, <1>2
  <2> QED  BY <2>1, WithoutNothing DEF SaidSoFar
<1>3. Spells(EmptyAggregate, <<>>) /\ Accumulates(<<>>, <<>>)
  BY NothingSpelled, NothingCalled DEF EmptyAggregate
<1>4. ASSUME NEW r \in Requests PROVE ReadsOn(r) /\ AnswerAsStreamed(r)
  BY <1>1, <1>2, <1>3, <1>4 DEF ReadsOn, Told, AnswerAsStreamed, Answered
<1>5. CallsAreFinite
  BY StreamInitKeeps DEF AnswersIInv
<1> QED  BY <1>4, <1>5, InitIInv DEF StreamedIInv

\* In every reachable state a request has accumulated what it has been told.
THEOREM StreamedInvariantHolds == StreamSpec => []StreamedIInv
<1>1. StreamInit => StreamedIInv
  BY StreamedInit
<1>2. StreamedIInv /\ [StreamNext]_streamVars => StreamedIInv'
  BY StreamedStep
<1> QED  BY <1>1, <1>2, PTL DEF StreamSpec

\* The answer is the one the events spell, however they are cut into chunks, and
\* whatever other requests and the caller do in the meantime.
THEOREM AnswersAreStreamed == StreamSpec => []AnswerIsWhatWasStreamed
<1>1. StreamedIInv => AnswerIsWhatWasStreamed
  BY DEF StreamedIInv, AnswerAsStreamed, AsStreamed, AnswerIsWhatWasStreamed
<1> QED  BY <1>1, StreamedInvariantHolds, PTL

\* So are its tool calls: for each index, in order, the last id and name given for
\* it and all its argument texts, but none for a call that says nothing.
THEOREM CallsAreStreamed == StreamSpec => []CallsAreWhatWasStreamed
<1>1. StreamedIInv => CallsAreWhatWasStreamed
  BY DEF StreamedIInv, AnswerAsStreamed, AsStreamed, CallsAreWhatWasStreamed
<1> QED  BY <1>1, StreamedInvariantHolds, PTL

-----------------------------------------------------------------------------
(* The refinement *)

\* The contract's variables, as StreamCompletion's Contract maps them.
Phases == [r \in Requests |-> Phase(r)]
SpokenTexts == [r \in Requests |-> Spoken(r)]
SeenAnswers(r) == [k \in DOMAIN answers[r] |-> Seen(answers[r][k])]
AllAnswers == [r \in Requests |-> SeenAnswers(r)]

\* Nothing that is done to the heap changes an answer that was given.
LEMMA SeenOnce ==
    ASSUME StreamTypeOK, NEW r \in Requests, answers'[r] = answers[r],
           \A n \in States : nodes'[n] = nodes[n]
    PROVE  SeenAnswers(r)' = SeenAnswers(r)
<1>1. \A k \in DOMAIN answers[r] : answers[r][k] \in States
  BY DEF StreamTypeOK
<1>2. \A k \in DOMAIN answers[r] :
          Seen(answers[r][k])' = Seen(answers[r][k])
  BY <1>1 DEF Seen
<1> QED  BY <1>2 DEF SeenAnswers

\* A step in which no request changes what its caller sees is a stutter.
LEMMA Stutter ==
    ASSUME StreamTypeOK,
           \A r \in Requests : Phase(r)' = Phase(r) /\ SameTexts(r),
           UNCHANGED <<base, callbacks, heard, answers>>,
           \A n \in States : nodes'[n] = nodes[n]
    PROVE  UNCHANGED Contract!contractVars
<1>1. \A r \in Requests : SeenAnswers(r)' = SeenAnswers(r)
  BY SeenOnce
<1>2. \A r \in Requests : Spoken(r)' = Spoken(r)
  BY DEF Spoken, SameTexts
<1>3. /\ Phases' = Phases /\ SpokenTexts' = SpokenTexts
      /\ AllAnswers' = AllAnswers
  BY <1>1, <1>2 DEF Phases, SpokenTexts, AllAnswers
<1> QED
  BY <1>3 DEF Contract!contractVars, Phases, SpokenTexts, AllAnswers,
              SeenAnswers

\* Nothing has been promised in the beginning.
LEMMA InitRefines == StreamInit => Contract!ContractInit
<1> SUFFICES ASSUME StreamInit PROVE Contract!ContractInit
  OBVIOUS
<1>1. \A r \in Requests : Phase(r) = "idle"
  BY DEF StreamInit, Phase
<1>2. \A r \in Requests : Spoken(r) = [delta |-> <<>>, reasoning |-> <<>>]
  BY DEF StreamInit, EmptyAggregate, Spoken
<1>3. ASSUME NEW r \in Requests PROVE SeenAnswers(r) = <<>>
  <2>1. DOMAIN answers[r] = {}
    BY DEF StreamInit
  <2>2. SeenAnswers(r) = [k \in {} |-> Seen(answers[r][k])]
    BY <2>1 DEF SeenAnswers
  <2> QED  BY <2>2
<1>4. /\ Phases = [r \in Requests |-> "idle"]
      /\ SpokenTexts = [r \in Requests |-> [delta |-> <<>>, reasoning |-> <<>>]]
      /\ AllAnswers = [r \in Requests |-> <<>>]
  BY <1>1, <1>2, <1>3 DEF Phases, SpokenTexts, AllAnswers
<1>5. /\ base = [r \in Requests |-> 0] /\ callbacks = [r \in Requests |-> {}]
      /\ heard = [r \in Requests |-> [delta |-> <<>>, reasoning |-> <<>>]]
  BY DEF StreamInit, NullState
<1> QED
  BY <1>4, <1>5 DEF Contract!ContractInit, Contract!Silence, Phases,
                    SpokenTexts, AllAnswers, SeenAnswers

\* Fetch is Accept or Reject.
LEMMA FetchRefines ==
    ASSUME StreamTypeOK, NEW r \in Requests,
           NEW state \in States \cup {NullState},
           NEW cbs \in SUBSET Callbacks, NEW configured \in BOOLEAN,
           \/ FetchStreamCompletion(r, state, cbs, configured)
           \/ RejectStreamCompletion(r, state, cbs, configured)
    PROVE  Contract!Accept(r) \/ Contract!Reject(r)
<1>1. /\ stage \in [Requests -> Stages] /\ base \in [Requests -> Nat]
      /\ callbacks \in [Requests -> SUBSET Callbacks]
      /\ States \subseteq Nat \ {0}
  <2>1. States \subseteq Nat \ {0}
    BY DEF StreamTypeOK, StateTypeOK, States
  <2> QED  BY <2>1 DEF StreamTypeOK
<1>2. /\ stage[r] = "idle" /\ UNCHANGED <<nodes, agg, heard, answers>>
  BY DEF FetchStreamCompletion, RejectStreamCompletion
<1>3. Phase(r) = "idle"
  BY <1>2 DEF Phase
<1>4. SpokenTexts' = SpokenTexts /\ AllAnswers' = AllAnswers
  BY <1>2 DEF SpokenTexts, AllAnswers, Spoken, SeenAnswers, Seen
<1>5. CASE FetchStreamCompletion(r, state, cbs, configured)
  <2>1. /\ stage' = [stage EXCEPT ![r] = "acquiring"]
        /\ base' = [base EXCEPT ![r] = state]
        /\ callbacks' = [callbacks EXCEPT ![r] = cbs]
        /\ state \in Nat \ {0}
        /\ "on_done" \in cbs /\ cbs # {"on_done"}
    BY <1>1, <1>5 DEF FetchStreamCompletion, Accepts, NullState
  <2>2. Phases' = [Phases EXCEPT ![r] = "pending"]
    <3>1. \A s \in Requests :
              Phase(s)' = IF s = r THEN "pending" ELSE Phase(s)
      BY <1>1, <2>1 DEF Phase
    <3> QED  BY <3>1 DEF Phases
  <2>3. base'[r] = state /\ base' = [base EXCEPT ![r] = base'[r]]
    BY <1>1, <2>1
  <2> QED
    BY <1>2, <1>3, <1>4, <2>1, <2>2, <2>3
       DEF Contract!Accept, Phases, SpokenTexts, AllAnswers, SeenAnswers,
           Callbacks
<1>6. CASE RejectStreamCompletion(r, state, cbs, configured)
  <2>1. /\ stage' = [stage EXCEPT ![r] = "rejected"]
        /\ UNCHANGED <<base, callbacks>>
    BY <1>6 DEF RejectStreamCompletion
  <2>2. Phases' = [Phases EXCEPT ![r] = "rejected"]
    <3>1. \A s \in Requests :
              Phase(s)' = IF s = r THEN "rejected" ELSE Phase(s)
      BY <1>1, <2>1 DEF Phase
    <3> QED  BY <3>1 DEF Phases
  <2> QED
    BY <1>2, <1>3, <1>4, <2>1, <2>2
       DEF Contract!Reject, Phases, SpokenTexts, AllAnswers, SeenAnswers
<1> QED  BY <1>5, <1>6

\* A step that speaks is Speak.
LEMMA SpeakRefines ==
    ASSUME StreamTypeOK, NEW r \in Requests, SpeakStep(r)
    PROVE  \E content, reasoning \in Text \cup {Absent} :
               Contract!Speak(r, content, reasoning)
<1>1. PICK payload \in Payloads :
          /\ agg'[r].accumulated_message
                 = AppendText(agg[r].accumulated_message, payload.content)
          /\ agg'[r].accumulated_reasoning
                 = AppendText(agg[r].accumulated_reasoning, payload.reasoning)
          /\ heard' = [heard EXCEPT ![r] = CallBack(callbacks[r], @, payload)]
  BY DEF SpeakStep
<1>2. /\ stage[r] = "draining"
      /\ \A s \in Requests \ {r} : agg'[s] = agg[s]
      /\ UNCHANGED <<nodes, stage, base, callbacks, answers>>
  BY DEF SpeakStep
<1>3. /\ payload.content \in Text \cup {Absent}
      /\ payload.reasoning \in Text \cup {Absent}
  BY PayloadsAssumption DEF PayloadType
<1>4. \A text, piece : Contract!With(text, piece) = AppendText(text, piece)
  BY DEF Contract!With, AppendText
<1>5. Phase(r) = "pending" /\ Phases' = Phases /\ AllAnswers' = AllAnswers
  BY <1>2 DEF Phase, Phases, AllAnswers, SeenAnswers, Seen
<1>6. SpokenTexts' = [SpokenTexts EXCEPT
          ![r].delta = Contract!With(@, payload.content),
          ![r].reasoning = Contract!With(@, payload.reasoning)]
  <2>1. Spoken(r)' = [delta |-> AppendText(Spoken(r).delta, payload.content),
                      reasoning |-> AppendText(Spoken(r).reasoning,
                                               payload.reasoning)]
    BY <1>1 DEF Spoken
  <2>2. \A s \in Requests \ {r} : Spoken(s)' = Spoken(s)
    BY <1>2 DEF Spoken
  <2>3. \A s \in Requests :
            DOMAIN Spoken(s) = {"delta", "reasoning"}
    BY DEF Spoken
  <2> QED  BY <1>4, <2>1, <2>2, <2>3 DEF SpokenTexts, Spoken
<1>7. heard' = [heard EXCEPT
          ![r].delta = IF "on_delta" \in callbacks[r]
                       THEN Contract!With(@, payload.content) ELSE @,
          ![r].reasoning = IF "on_reasoning_delta" \in callbacks[r]
                           THEN Contract!With(@, payload.reasoning) ELSE @]
  <2>1. heard \in [Requests -> [delta : Seq(Text), reasoning : Seq(Text)]]
    BY DEF StreamTypeOK
  <2> QED  BY <1>1, <1>4, <2>1 DEF CallBack
<1>8. Contract!Speak(r, payload.content, payload.reasoning)
  BY <1>2, <1>5, <1>6, <1>7
     DEF Contract!Speak, Phases, SpokenTexts, AllAnswers, SeenAnswers
<1> QED  BY <1>3, <1>8

\* A step that answers is Answer: the node it allocates is seen as the record
\* the contract asks for.
LEMMA AnswerRefines ==
    ASSUME StreamIInv, NEW r \in Requests, AnswerStep(r)
    PROVE  \E status \in {"kSuccess", "kFail"} : Contract!Answer(r, status)
<1>1. /\ StreamTypeOK /\ Control(r)
      /\ stage \in [Requests -> Stages]
      /\ answers[r] \in Seq(Nat)
      /\ agg[r] \in StreamAggregate
  BY DEF StreamIInv, StreamTypeOK
<1>2. /\ Pending(r)
      /\ stage' = [stage EXCEPT ![r] = "finished"]
      /\ \A s \in Requests : SameTexts(s)
      /\ UNCHANGED <<base, callbacks, heard>>
  BY DEF AnswerStep
<1>3. PICK message, log :
          /\ AnswerWith(r, message, log)
          /\ message.role = "assistant"
          /\ message.message = agg[r].accumulated_message
          /\ message.reasoning = agg[r].accumulated_reasoning
          /\ log.status \in {"kSuccess", "kFail"}
          /\ log.http_status_code \in Nat /\ log.delta_count \in Nat
  BY DEF AnswerStep
<1>4. /\ base[r] # NullState
      /\ message.message \in Seq(Text) /\ log.status \in Statuses
  BY <1>1, <1>2, <1>3 DEF Pending, StreamTypeOK, StreamAggregate, Statuses
<1>5. PICK n \in Nat :
          /\ \A m \in States : nodes'[m] = nodes[m]
          /\ nodes'[n] = [message |-> message, log |-> log,
                          previous |-> base[r]]
          /\ answers'[r] = Append(answers[r], n)
          /\ \A s \in Requests \ {r} : answers'[s] = answers[s]
  <2>1. /\ NewState \in Nat
        /\ \A m \in States : nodes'[m] = nodes[m]
        /\ nodes'[NewState] = [message |-> message, log |-> log,
                               previous |-> base[r]]
        /\ answers'[r] = Append(answers[r], NewState)
        /\ \A s \in Requests \ {r} : answers'[s] = answers[s]
    BY <1>1, <1>3, <1>4, AnswerNode
  <2> QED  BY <2>1
<1>6. \A s \in Requests \ {r} : SeenAnswers(s)' = SeenAnswers(s)
  BY <1>1, <1>5, SeenOnce
<1> DEFINE record == [previous |-> base[r], role |-> "assistant",
                      message |-> Spoken(r).delta,
                      reasoning |-> Spoken(r).reasoning,
                      status |-> log.status]
<1>7. SeenAnswers(r)' = <<record>>
  <2>1. Len(answers[r]) = 0
    BY <1>1, <1>2 DEF Control, Pending
  <2>2. DOMAIN answers'[r] = 1 .. 1 /\ answers'[r][1] = n
    BY <1>1, <1>5, <2>1
  <2>3. Seen(n)' = record
    BY <1>3, <1>5 DEF Seen, Spoken
  <2> HIDE DEF record
  <2>4. SeenAnswers(r)' = [k \in 1 .. 1 |-> record]
    BY <2>2, <2>3 DEF SeenAnswers, Seen
  <2> QED  BY <2>4
<1>8. AllAnswers' = [AllAnswers EXCEPT ![r] = <<record>>]
  BY <1>6, <1>7 DEF AllAnswers
<1>9. Phase(r) = "pending" /\ Phases' = [Phases EXCEPT ![r] = "answered"]
  <2>1. \A s \in Requests :
            Phase(s)' = IF s = r THEN "answered" ELSE Phase(s)
    BY <1>1, <1>2 DEF Phase
  <2> QED  BY <1>2, <2>1 DEF Phases, Phase, Pending
<1>10. SpokenTexts' = SpokenTexts
  <2>1. \A s \in Requests : Spoken(s)' = Spoken(s)
    BY <1>2 DEF Spoken, SameTexts
  <2> QED  BY <2>1 DEF SpokenTexts
<1>11. Contract!Answer(r, log.status)
  BY <1>2, <1>8, <1>9, <1>10
     DEF Contract!Answer, Phases, SpokenTexts, AllAnswers, SeenAnswers
<1> QED  BY <1>3, <1>11

\* Every step is one of the contract, or none.
LEMMA StepRefines ==
    StreamIInv /\ [StreamNext]_streamVars
        => [Contract!ContractNext]_(Contract!contractVars)
<1> SUFFICES ASSUME StreamIInv, [StreamNext]_streamVars
             PROVE  \/ Contract!ContractNext
                    \/ UNCHANGED Contract!contractVars
  OBVIOUS
<1>1. StreamTypeOK /\ stage \in [Requests -> Stages]
  BY DEF StreamIInv, StreamTypeOK
<1>2. CASE CallerAppends /\ UNCHANGED <<stage, base, callbacks, request_body,
                                        agg, tool_calls, fed, taken, eof,
                                        heard, answers>>
  <2>1. \A n \in States : nodes'[n] = nodes[n]
    BY <1>1, <1>2, CallerAppendsNode DEF StreamTypeOK
  <2> QED  BY <1>1, <1>2, <2>1, Stutter DEF Phase, SameTexts
<1>3. CASE StreamFetch
  <2>1. PICK r \in Requests, state \in States \cup {NullState},
             cbs \in SUBSET Callbacks, configured \in BOOLEAN :
             \/ FetchStreamCompletion(r, state, cbs, configured)
             \/ RejectStreamCompletion(r, state, cbs, configured)
    BY <1>3 DEF StreamFetch
  <2> QED  BY <1>1, <2>1, FetchRefines DEF Contract!ContractNext
<1>4. CASE \E r \in Requests : RequestStep(r)
  <2>1. PICK r \in Requests : RequestStep(r)
    BY <1>4
  <2>2. QuietStep(r) \/ SpeakStep(r) \/ AnswerStep(r)
    BY <1>1, <2>1, StepKinds DEF StreamIInv
  <2>3. CASE QuietStep(r)
    <3>1. \A s \in Requests : Phase(s)' = Phase(s)
      BY <2>3 DEF QuietStep, Pending, Phase
    <3> QED  BY <1>1, <2>3, <3>1, Stutter DEF QuietStep
  <2>4. CASE SpeakStep(r)
    BY <1>1, <2>4, SpeakRefines DEF Contract!ContractNext
  <2>5. CASE AnswerStep(r)
    BY <2>5, AnswerRefines DEF Contract!ContractNext
  <2> QED  BY <2>2, <2>3, <2>4, <2>5
<1>5. CASE UNCHANGED streamVars
  BY <1>1, <1>5, Stutter DEF streamVars, Phase, SameTexts
<1> QED  BY <1>2, <1>3, <1>4, <1>5 DEF StreamNext

\* Whatever the provider sends and however it is cut into chunks, whatever the
\* transport does, and whatever other requests and the caller do to the history
\* they share, FetchStreamCompletion does only what its contract allows.
THEOREM Refinement == StreamSpec => KeepsTheContract
<1>1. StreamInit => Contract!ContractInit
  BY InitRefines
<1>2. StreamIInv /\ [StreamNext]_streamVars
          => [Contract!ContractNext]_(Contract!contractVars)
  BY StepRefines
<1> QED
  BY <1>1, <1>2, InvariantHolds, PTL
     DEF StreamSpec, KeepsTheContract, Contract!ContractSpec
=============================================================================
