--------------------------- MODULE PlainCompletion ---------------------------
(***************************************************************************)
(* OaiCompletionFactory::FetchCompletion: requests answered by one         *)
(* response, over the history they share.  A request is in `stage'         *)
(*                                                                         *)
(*   idle --Fetch--> acquiring --Acquire--> waiting --OnDone--> finished   *)
(*                                                                         *)
(* or is rejected by Fetch, or finishes when no connection is acquired.    *)
(***************************************************************************)
EXTENDS CompletionDetail

CONSTANTS
    PlainRequests,  \* the calls of FetchCompletion
    Bodies,         \* the bodies responses may have
    NotJson         \* a body that is not JSON

\* A body is NotJson, NotAnObject or a record of what the code reads in it.  An
\* `error' is the text found by ExtractErrorMessageFromJsonBody, "" if none;
\* a `choice' is Absent unless choices is an array that begins with an object.
ChoiceMessages ==
    {b.choice.message : b \in {c \in Bodies : /\ c \notin {NotJson, NotAnObject}
                                             /\ c.choice # Absent
                                             /\ c.choice.message # Absent}}
MessageType == [role : Strings \cup {Absent}, content : Text \cup {Absent},
                reasoning : Text \cup {Absent},
                tool_calls : {m.tool_calls : m \in ChoiceMessages}]
ChoiceType == [finish_reason : Strings \cup {Absent},
               message : MessageType \cup {Absent}]
BodyType == [id : Strings \cup {Absent}, model : Strings \cup {Absent},
             error : Strings, choice : ChoiceType \cup {Absent}]

ASSUME BodiesAssumption ==
    /\ Bodies \subseteq BodyType \cup {NotJson, NotAnObject}
    /\ \A m \in ChoiceMessages : m.tool_calls \in Seq(Range(m.tool_calls))

VARIABLE plain

plainVars == <<nodes, plain>>

PlainInit ==
    /\ StateInit
    /\ plain = [r \in PlainRequests |->
                   [stage |-> "idle", base |-> NullState, request_body |-> <<>>,
                    answers |-> <<>>]]

\* The test for a null state forgotten.
MutantPlainAccepts(state, hasCallback, configured) == hasCallback /\ configured

PlainAccepts(state, hasCallback, configured) ==
    state # NullState /\ hasCallback /\ configured

FetchCompletion(r, state, hasCallback, configured) ==
    /\ plain[r].stage = "idle"
    /\ PlainAccepts(state, hasCallback, configured)
    /\ plain' = [plain EXCEPT
                    ![r].stage = "acquiring",
                    ![r].base = state,
                    ![r].request_body = CollectMessageChain(nodes, state)]
    /\ UNCHANGED nodes

RejectCompletion(r, state, hasCallback, configured) ==
    /\ plain[r].stage = "idle"
    /\ ~ PlainAccepts(state, hasCallback, configured)
    /\ plain' = [plain EXCEPT ![r].stage = "rejected"]
    /\ UNCHANGED nodes

-----------------------------------------------------------------------------

\* The answer after the newest node instead of the one the request captured.
MutantPlainAnswer(r, message, log) ==
    /\ AllocateState(message, log, Len(nodes))
    /\ plain' = [plain EXCEPT ![r].stage = "finished",
                              ![r].answers = Append(@, NewState)]

\* A new node after the request's base, handed to cb.
PlainAnswer(r, message, log) ==
    /\ AllocateState(message, log, plain[r].base)
    /\ plain' = [plain EXCEPT ![r].stage = "finished",
                              ![r].answers = Append(@, NewState)]

\* A failure that returns without calling cb.
MutantPlainFailure(r, log, error) ==
    /\ plain' = [plain EXCEPT ![r].stage = "finished"]
    /\ UNCHANGED nodes

PlainFailure(r, log, error) ==
    PlainAnswer(r, EmptyAssistant, [log EXCEPT !.error_message = error])

OnPlainAcquired(r) ==
    /\ plain[r].stage = "acquiring"
    /\ plain' = [plain EXCEPT ![r].stage = "waiting"]
    /\ UNCHANGED nodes

\* A missing return: the task is started although the request was answered.
MutantOnPlainAcquireFailed(r) ==
    /\ plain[r].stage = "acquiring"
    /\ AllocateState(EmptyAssistant, BuildLogSkeleton(Model, FALSE),
                     plain[r].base)
    /\ plain' = [plain EXCEPT ![r].stage = "waiting",
                              ![r].answers = Append(@, NewState)]

OnPlainAcquireFailed(r) ==
    /\ plain[r].stage = "acquiring"
    /\ PlainFailure(r, BuildLogSkeleton(Model, FALSE), "transport error")

\* The log fields of a body's root, then those of its choice if there is one.
RootLog(log, body) ==
    [log EXCEPT !.request_id = Overwrite(@, body.id),
                !.model = Overwrite(@, body.model)]

ChoiceLog(log, body) ==
    [RootLog(log, body) EXCEPT
        !.finish_reason = Overwrite(@, body.choice.finish_reason)]

AssistantMessage(message) ==
    [role |-> Overwrite("assistant", message.role),
     message |-> AppendText(<<>>, message.content),
     tool_calls |-> ParseToolCallsFromArray(message.tool_calls),
     reasoning |-> AppendText(<<>>, message.reasoning),
     tool_call_id |-> ""]

\* A response with a success status: the log keeps what was read of the body up
\* to the point where it does not parse.
ParseBody(r, log, body) ==
    \/ /\ body = NotJson
       /\ PlainFailure(r, log, "invalid JSON response body")
    \/ /\ body = NotAnObject
       /\ PlainFailure(r, log, "response root is not JSON object")
    \/ /\ body \notin {NotJson, NotAnObject}
       /\ \/ /\ body.choice = Absent
             /\ PlainFailure(r, RootLog(log, body), "response choices")
          \/ /\ body.choice # Absent
             /\ body.choice.message = Absent
             /\ PlainFailure(r, ChoiceLog(log, body),
                             "response choice[0].message is missing")
          \/ /\ body.choice # Absent
             /\ body.choice.message # Absent
             /\ PlainAnswer(r, AssistantMessage(body.choice.message),
                            [ChoiceLog(log, body) EXCEPT !.status = "kSuccess"])

\* The text of an error response; the bare status when the body gives none.
ErrorText(body) == IF body \in {NotJson, NotAnObject} \/ body.error = ""
                   THEN "HTTP status" ELSE body.error

\* task->OnDone's callback.
OnDone(r, failed, cancelled, code, requestId, body) ==
    LET log == [BuildLogSkeleton(Model, FALSE) EXCEPT
                   !.http_status_code = code,
                   !.request_id = Overwrite(@, requestId)]
    IN  /\ plain[r].stage = "waiting"
        /\ \/ failed /\ PlainFailure(r, log, "transport error")
           \/ ~failed /\ cancelled /\ PlainFailure(r, log, "request cancelled")
           \/ /\ ~failed /\ ~cancelled /\ ~IsHttpSuccessStatus(code)
              /\ PlainFailure(r, log, ErrorText(body))
           \/ /\ ~failed /\ ~cancelled /\ IsHttpSuccessStatus(code)
              /\ ParseBody(r, log, body)

-----------------------------------------------------------------------------

PlainFetch ==
    \E r \in PlainRequests, state \in States \cup {NullState},
       hasCallback, configured \in BOOLEAN :
        \/ FetchCompletion(r, state, hasCallback, configured)
        \/ RejectCompletion(r, state, hasCallback, configured)

PlainAcquire(r) == OnPlainAcquired(r) \/ OnPlainAcquireFailed(r)

PlainRespond(r) ==
    \E failed, cancelled \in BOOLEAN, code \in HttpCodes,
       requestId \in {Absent, "header"}, body \in Bodies :
        OnDone(r, failed, cancelled, code, requestId, body)

PlainNext ==
    \/ CallerAppends /\ UNCHANGED plain
    \/ PlainFetch
    \/ \E r \in PlainRequests : PlainAcquire(r) \/ PlainRespond(r)

PlainSpec == PlainInit /\ [][PlainNext]_plainVars

\* The transport completes every operation: each has a timeout.
PlainFairness == \A r \in PlainRequests : /\ WF_plainVars(PlainAcquire(r))
                                          /\ WF_plainVars(PlainRespond(r))

FairPlainSpec == PlainSpec /\ PlainFairness

-----------------------------------------------------------------------------
(* Properties *)

PlainStages == {"idle", "rejected", "acquiring", "waiting", "finished"}

\* Every request is in one of its stages, one that was accepted refers to nodes
\* that exist, and no answer has lost the state it was asked of.
PlainTypeOK ==
    /\ StateTypeOK
    /\ DOMAIN plain = PlainRequests
    /\ \A r \in PlainRequests :
          /\ plain[r].stage \in PlainStages
          /\ plain[r].base \in States \cup {NullState}
          /\ plain[r].base = NullState <=>
                 plain[r].stage \in {"idle", "rejected"}
          /\ plain[r].answers \in Seq(States)

PlainAnswered(r) == plain[r].answers # <<>>

PlainAnswerOf(r) == nodes[plain[r].answers[1]]

\* cb is called exactly once for an accepted request, whichever way it
\* ends, and never for another.
PlainAnsweredExactlyOnce ==
    \A r \in PlainRequests :
        Len(plain[r].answers) = IF plain[r].stage = "finished" THEN 1 ELSE 0

\* The answer continues exactly the conversation that was sent.
PlainAnswerContinuesTheRequest ==
    \A r \in PlainRequests : PlainAnswered(r) =>
        Continues(plain[r].answers[1], plain[r].request_body)

\* A failed answer carries an error and nothing of a response's message; a
\* success carries none, and came with a success status.
PlainFailureIsEmpty ==
    \A r \in PlainRequests : PlainAnswered(r) =>
        LET answer == PlainAnswerOf(r)
        IN  /\ HonestLog(answer.log, FALSE)
            /\ answer.log.status = "kFail" => answer.message = EmptyAssistant

\* An accepted request is answered at last.
PlainEventuallyAnswered ==
    \A r \in PlainRequests :
        plain[r].stage = "acquiring" ~> PlainAnswered(r)
=============================================================================
