-------------------------- MODULE OaiFactory_proofs --------------------------
(***************************************************************************)
(* Plain requests, for any number of them, any bodies and any bounds; and  *)
(* plain and streaming requests over one history: neither kind disturbs    *)
(* the other, because a step of either only adds nodes.                    *)
(***************************************************************************)
EXTENDS OaiFactory, StreamCompletion_proofs

(* Plain requests *)

\* The log of a request that has not ended: failed until proven successful.
UnfinishedLog(log) ==
    /\ DOMAIN log = DOMAIN LocalLog
    /\ log.status = "kFail" /\ log.error_message = ""
    /\ log.is_stream = FALSE
    /\ log.http_status_code \in Nat /\ log.delta_count \in Nat

\* What may be answered: an honest log, with a message of the provider in a
\* success and an empty one in a failure.
Answerable(message, log) ==
    /\ message.message \in Seq(Text)
    /\ HonestLog(log, FALSE)
    /\ log.status = "kFail" => message = EmptyAssistant
    /\ log.status = "kSuccess" =>
          \E m \in ChoiceMessages : message = AssistantMessage(m)
    /\ log.http_status_code \in Nat /\ log.delta_count \in Nat

\* A request that has finished has one answer, another none.
OneAnswer(r) ==
    Len(plain[r].answers) = IF plain[r].stage = "finished" THEN 1 ELSE 0

AnswerIsAnswerable(r) ==
    PlainAnswered(r) => Answerable(PlainAnswerOf(r).message, PlainAnswerOf(r).log)

\* The messages sent are those of the base's conversation, which the answer is
\* linked to.
Continuing(r) ==
    /\ plain[r].base # NullState =>
          plain[r].request_body = CollectMessageChain(nodes, plain[r].base)
    /\ PlainAnswered(r) => PlainAnswerOf(r).previous = plain[r].base

\* The inductive invariant.
PlainIInv ==
    /\ PlainTypeOK
    /\ \A r \in PlainRequests :
          /\ DOMAIN plain[r] = {"stage", "base", "request_body", "answers"}
          /\ OneAnswer(r)
          /\ AnswerIsAnswerable(r)
          /\ Continuing(r)

-----------------------------------------------------------------------------
(* Logs and messages *)

\* The log skeleton has neither a status nor an error yet.
LEMMA SkeletonIsUnfinished == UnfinishedLog(BuildLogSkeleton(Model, FALSE))
BY DEF BuildLogSkeleton, LocalLog, UnfinishedLog

\* What is read of a response leaves the log unfinished.
LEMMA LogsStayUnfinished ==
    ASSUME NEW log, UnfinishedLog(log), NEW body
    PROVE  /\ UnfinishedLog(RootLog(log, body))
           /\ UnfinishedLog(ChoiceLog(log, body))
<1>1. ASSUME NEW l, UnfinishedLog(l) PROVE UnfinishedLog(RootLog(l, body))
  BY <1>1 DEF RootLog, UnfinishedLog, LocalLog
<1>2. UnfinishedLog(RootLog(log, body))
  BY <1>1
<1>3. UnfinishedLog(ChoiceLog(log, body))
  BY <1>2 DEF ChoiceLog, UnfinishedLog, LocalLog
<1> QED  BY <1>2, <1>3

\* The empty assistant message of a failure has a text.
LEMMA EmptyTextIsText == EmptyAssistant.message \in Seq(Text)
<1>1. <<>> \in Seq(Text)
  OBVIOUS
<1>2. EmptyAssistant.message = <<>>
  BY DEF EmptyAssistant
<1> QED  BY <1>1, <1>2

\* A failure is answerable.
LEMMA FailureIsAnswerable ==
    ASSUME NEW log, UnfinishedLog(log), NEW error, error # ""
    PROVE  Answerable(EmptyAssistant, [log EXCEPT !.error_message = error])
<1> DEFINE failed == [log EXCEPT !.error_message = error]
<1>1. /\ failed.status = "kFail" /\ failed.error_message = error
      /\ failed.is_stream = log.is_stream
      /\ failed.http_status_code \in Nat /\ failed.delta_count \in Nat
  BY DEF UnfinishedLog, LocalLog
<1>2. EmptyAssistant.message \in Seq(Text)
  BY EmptyTextIsText
<1> HIDE DEF failed
<1>3. HonestLog(failed, FALSE)
  BY <1>1 DEF HonestLog, UnfinishedLog
<1>4. Answerable(EmptyAssistant, failed)
  BY <1>1, <1>2, <1>3 DEF Answerable
<1> QED  BY <1>4 DEF failed

\* So is a success.
LEMMA SuccessIsAnswerable ==
    ASSUME NEW log, UnfinishedLog(log), log.http_status_code \in 200 .. 299,
           NEW message \in MessageType \cap ChoiceMessages
    PROVE  Answerable(AssistantMessage(message),
                      [log EXCEPT !.status = "kSuccess"])
<1> DEFINE success == [log EXCEPT !.status = "kSuccess"]
<1>1. /\ success.status = "kSuccess" /\ success.error_message = ""
      /\ success.is_stream = log.is_stream
      /\ success.http_status_code = log.http_status_code
      /\ success.delta_count \in Nat
  BY DEF UnfinishedLog, LocalLog
<1>2. message.content \in Text \cup {Absent}
  BY DEF MessageType
<1>3. AssistantMessage(message).message \in Seq(Text)
  <2>1. AssistantMessage(message).message = AppendText(<<>>, message.content)
    BY DEF AssistantMessage
  <2> QED  BY <1>2, <2>1 DEF AppendText
<1> HIDE DEF success
<1>4. HonestLog(success, FALSE)
  BY <1>1 DEF HonestLog, UnfinishedLog
<1>5. Answerable(AssistantMessage(message), success)
  BY <1>1, <1>3, <1>4 DEF Answerable, UnfinishedLog
<1> QED  BY <1>5 DEF success

-----------------------------------------------------------------------------
(* Steps *)

\* A request of which nothing changes but, perhaps, the heap around its answer
\* keeps its part of the invariant.
LEMMA PlainUntouched ==
    ASSUME PlainIInv, NEW r \in PlainRequests, plain'[r] = plain[r], Grows
    PROVE  /\ plain'[r].stage \in PlainStages
           /\ plain'[r].base \in States' \cup {NullState}
           /\ plain'[r].base = NullState <=>
                  plain'[r].stage \in {"idle", "rejected"}
           /\ plain'[r].answers \in Seq(States')
           /\ DOMAIN plain'[r] = {"stage", "base", "request_body", "answers"}
           /\ OneAnswer(r)' /\ AnswerIsAnswerable(r)' /\ Continuing(r)'
<1>1. /\ plain[r].stage \in PlainStages
      /\ plain[r].base \in States \cup {NullState}
      /\ plain[r].base = NullState <=> plain[r].stage \in {"idle", "rejected"}
      /\ plain[r].answers \in Seq(States)
      /\ DOMAIN plain[r] = {"stage", "base", "request_body", "answers"}
      /\ OneAnswer(r) /\ AnswerIsAnswerable(r) /\ Continuing(r)
      /\ States \subseteq States' /\ \A n \in States : nodes'[n] = nodes[n]
  BY DEF PlainIInv, PlainTypeOK, Grows
<1>2. plain'[r].answers \in Seq(States')
  <2> DEFINE s == plain[r].answers
  <2>1. s \in Seq(States) BY <1>1
  <2> HIDE DEF s
  <2>2. s \in Seq(States') BY <1>1, <2>1
  <2> QED  BY <2>2 DEF s
<1>3. OneAnswer(r)'
  BY <1>1 DEF OneAnswer
<1>4. ASSUME PlainAnswered(r)'
      PROVE  PlainAnswered(r) /\ PlainAnswerOf(r)' = PlainAnswerOf(r)
  <2>1. plain[r].answers # <<>>
    BY <1>4 DEF PlainAnswered
  <2>2. plain[r].answers[1] \in States
    BY <1>1, <2>1
  <2> QED  BY <1>1, <2>1, <2>2 DEF PlainAnswered, PlainAnswerOf
<1>5. AnswerIsAnswerable(r)'
  BY <1>1, <1>4 DEF AnswerIsAnswerable
<1>6. Continuing(r)'
  <2>1. CollectMessageChain(nodes', plain[r].base)
            = CollectMessageChain(nodes, plain[r].base)
    BY <1>1, ConversationsStay
  <2> QED  BY <1>1, <1>4, <2>1 DEF Continuing
<1> QED  BY <1>1, <1>2, <1>3, <1>5, <1>6

\* A request that is answered keeps the invariant.
LEMMA AnswerKeeps ==
    ASSUME PlainIInv, NEW r \in PlainRequests,
           plain[r].stage \in {"acquiring", "waiting"},
           NEW message, NEW log, Answerable(message, log),
           PlainAnswer(r, message, log)
    PROVE  PlainIInv'
<1>1. /\ StateTypeOK /\ DOMAIN plain = PlainRequests
      /\ plain[r].base \in States /\ plain[r].base # NullState
      /\ plain[r].answers \in Seq(States) /\ Len(plain[r].answers) = 0
      /\ DOMAIN plain[r] = {"stage", "base", "request_body", "answers"}
  BY DEF PlainIInv, PlainTypeOK, OneAnswer
<1>2. /\ AllocateState(message, log, plain[r].base)
      /\ plain' = [plain EXCEPT ![r].stage = "finished",
                                ![r].answers = Append(@, NewState)]
  BY DEF PlainAnswer
<1>3. /\ plain[r].base \in 0 .. Len(nodes)
      /\ message.message \in Seq(Text) /\ log.status \in Statuses
      /\ log.http_status_code \in Nat /\ log.delta_count \in Nat
  <2>1. plain[r].base \in 0 .. Len(nodes)
    BY <1>1 DEF States, StateTypeOK
  <2> QED  BY <2>1 DEF Answerable, HonestLog, Statuses
<1>4. /\ StateTypeOK' /\ States' = States \cup {NewState}
      /\ \A n \in States : nodes'[n] = nodes[n]
      /\ nodes'[NewState] = [message |-> message, log |-> log,
                             previous |-> plain[r].base]
  BY <1>1, <1>2, <1>3, AppendNode
<1>5. PICK n : n = NewState
  OBVIOUS
<1>6. /\ DOMAIN plain' = PlainRequests
      /\ \A s \in PlainRequests \ {r} : plain'[s] = plain[s]
      /\ DOMAIN plain'[r] = {"stage", "base", "request_body", "answers"}
      /\ plain'[r].stage = "finished"
      /\ plain'[r].base = plain[r].base
      /\ plain'[r].answers = Append(plain[r].answers, n)
  BY <1>1, <1>2, <1>5
<1>7. /\ plain'[r].answers \in Seq(States')
      /\ Len(plain'[r].answers) = 1 /\ plain'[r].answers[1] = n
  <2> DEFINE s == plain[r].answers
             S == States'
  <2>1. s \in Seq(S) /\ Len(s) = 0 /\ n \in S
    BY <1>1, <1>4, <1>5
  <2> HIDE DEF s, S
  <2>2. Append(s, n) \in Seq(S) /\ Len(Append(s, n)) = 1 /\ Append(s, n)[1] = n
    BY <2>1
  <2> QED  BY <1>6, <2>2 DEF s, S
<1>8. OneAnswer(r)'
  BY <1>6, <1>7 DEF OneAnswer
<1>9. AnswerIsAnswerable(r)'
  <2>1. PlainAnswerOf(r)' = [message |-> message, log |-> log,
                             previous |-> plain[r].base]
    BY <1>4, <1>5, <1>7 DEF PlainAnswerOf
  <2>2. PlainAnswerOf(r)'.message = message /\ PlainAnswerOf(r)'.log = log
    BY <2>1
  <2> QED  BY <2>2 DEF AnswerIsAnswerable
<1>10. Grows
  BY <1>1, <1>4 DEF Grows
<1>11. Continuing(r)'
  <2>1. CollectMessageChain(nodes', plain[r].base)
            = CollectMessageChain(nodes, plain[r].base)
    BY <1>1, <1>10, ConversationsStay
  <2>2. PlainAnswerOf(r)' = [message |-> message, log |-> log,
                             previous |-> plain[r].base]
    BY <1>4, <1>5, <1>7 DEF PlainAnswerOf
  <2>3. plain'[r].request_body = plain[r].request_body
    BY <1>1, <1>2
  <2> QED
    BY <1>1, <1>6, <2>1, <2>2, <2>3 DEF Continuing, PlainIInv
<1>12. /\ plain'[r].stage \in PlainStages
       /\ plain'[r].base \in States' \cup {NullState}
       /\ plain'[r].base = NullState <=>
              plain'[r].stage \in {"idle", "rejected"}
  BY <1>1, <1>4, <1>6 DEF PlainStages
<1>13. \A s \in PlainRequests \ {r} :
          /\ plain'[s].stage \in PlainStages
          /\ plain'[s].base \in States' \cup {NullState}
          /\ plain'[s].base = NullState <=>
                 plain'[s].stage \in {"idle", "rejected"}
          /\ plain'[s].answers \in Seq(States')
          /\ DOMAIN plain'[s] = {"stage", "base", "request_body", "answers"}
          /\ OneAnswer(s)' /\ AnswerIsAnswerable(s)' /\ Continuing(s)'
  BY <1>6, <1>10, PlainUntouched
<1> QED
  BY <1>4, <1>6, <1>7, <1>8, <1>9, <1>11, <1>12, <1>13
     DEF PlainIInv, PlainTypeOK

\* So does one that fails.
LEMMA FailureKeeps ==
    ASSUME PlainIInv, NEW r \in PlainRequests,
           plain[r].stage \in {"acquiring", "waiting"},
           NEW log, UnfinishedLog(log), NEW error, error # "",
           PlainFailure(r, log, error)
    PROVE  PlainIInv'
BY FailureIsAnswerable, AnswerKeeps DEF PlainFailure

\* A body answers the request, whatever it is.
LEMMA BodyKeeps ==
    ASSUME PlainIInv, NEW r \in PlainRequests, plain[r].stage = "waiting",
           NEW log, UnfinishedLog(log), log.http_status_code \in 200 .. 299,
           NEW body \in Bodies, ParseBody(r, log, body)
    PROVE  PlainIInv'
<1>1. UnfinishedLog(RootLog(log, body)) /\ UnfinishedLog(ChoiceLog(log, body))
  BY LogsStayUnfinished
<1>2. CASE PlainFailure(r, log, "invalid JSON response body")
  BY <1>2, FailureKeeps
<1>3. CASE PlainFailure(r, log, "response root is not JSON object")
  BY <1>3, FailureKeeps
<1>4. CASE PlainFailure(r, RootLog(log, body), "response choices")
  BY <1>1, <1>4, FailureKeeps
<1>5. CASE PlainFailure(r, ChoiceLog(log, body),
                        "response choice[0].message is missing")
  BY <1>1, <1>5, FailureKeeps
<1>6. CASE /\ body \notin {NotJson, NotAnObject}
           /\ body.choice # Absent /\ body.choice.message # Absent
           /\ PlainAnswer(r, AssistantMessage(body.choice.message),
                          [ChoiceLog(log, body) EXCEPT !.status = "kSuccess"])
  <2>1. body.choice.message \in MessageType \cap ChoiceMessages
    BY <1>6, BodiesAssumption DEF BodyType, ChoiceType, ChoiceMessages
  <2>2. ChoiceLog(log, body).http_status_code \in 200 .. 299
    BY DEF ChoiceLog, RootLog, UnfinishedLog, LocalLog
  <2> QED  BY <1>1, <1>6, <2>1, <2>2, SuccessIsAnswerable, AnswerKeeps
<1> QED  BY <1>2, <1>3, <1>4, <1>5, <1>6 DEF ParseBody

\* OnDone's callback, on every way out.
LEMMA RespondKeeps ==
    ASSUME PlainIInv, NEW r \in PlainRequests, PlainRespond(r)
    PROVE  PlainIInv'
<1>1. PICK failed \in BOOLEAN, cancelled \in BOOLEAN, code \in HttpCodes,
           requestId \in {Absent, "header"}, body \in Bodies :
           OnDone(r, failed, cancelled, code, requestId, body)
  BY DEF PlainRespond
<1> DEFINE log == [BuildLogSkeleton(Model, FALSE) EXCEPT
                      !.http_status_code = code,
                      !.request_id = Overwrite(@, requestId)]
<1>2. UnfinishedLog(log) /\ log.http_status_code = code
  BY SkeletonIsUnfinished, HttpCodesAssumption DEF UnfinishedLog, LocalLog
<1>3. /\ plain[r].stage = "waiting"
      /\ \/ PlainFailure(r, log, "transport error")
         \/ PlainFailure(r, log, "request cancelled")
         \/ PlainFailure(r, log, ErrorText(body))
         \/ IsHttpSuccessStatus(code) /\ ParseBody(r, log, body)
  BY <1>1 DEF OnDone
<1> HIDE DEF log
<1>4. ErrorText(body) # ""
  BY DEF ErrorText
<1>5. CASE IsHttpSuccessStatus(code) /\ ParseBody(r, log, body)
  <2>1. code \in 200 .. 299
    BY <1>5, HttpCodesAssumption DEF IsHttpSuccessStatus
  <2> QED  BY <1>2, <1>3, <1>5, <2>1, BodyKeeps
<1> QED  BY <1>2, <1>3, <1>4, <1>5, FailureKeeps

\* A step of a request that does not answer it.
LEMMA UnansweredKeeps ==
    ASSUME PlainIInv, NEW r \in PlainRequests, plain[r].stage # "finished",
           UNCHANGED nodes, DOMAIN plain' = PlainRequests,
           \A s \in PlainRequests \ {r} : plain'[s] = plain[s],
           DOMAIN plain'[r] = DOMAIN plain[r],
           plain'[r].answers = plain[r].answers,
           plain'[r].stage \in PlainStages \ {"finished"},
           plain'[r].base \in States \cup {NullState},
           plain'[r].base = NullState <=>
               plain'[r].stage \in {"idle", "rejected"},
           plain'[r].base # NullState =>
               plain'[r].request_body
                   = CollectMessageChain(nodes, plain'[r].base)
    PROVE  PlainIInv'
<1>1. States' = States /\ StateTypeOK'
  BY DEF States, StateTypeOK, PlainIInv, PlainTypeOK
<1>2. ASSUME NEW s \in PlainRequests \ {r}
      PROVE  /\ plain'[s] = plain[s]
             /\ OneAnswer(s)' /\ AnswerIsAnswerable(s)' /\ Continuing(s)'
  BY DEF PlainIInv, OneAnswer, AnswerIsAnswerable, Continuing, PlainAnswered,
         PlainAnswerOf
<1>3. plain[r].answers = <<>>
  BY DEF PlainIInv, PlainTypeOK, OneAnswer
<1>4. OneAnswer(r)' /\ AnswerIsAnswerable(r)' /\ Continuing(r)'
  BY <1>3 DEF OneAnswer, AnswerIsAnswerable, Continuing, PlainAnswered
<1>5. \A s \in PlainRequests :
          /\ plain[s].stage \in PlainStages
          /\ plain[s].base \in States \cup {NullState}
          /\ plain[s].base = NullState <=>
                 plain[s].stage \in {"idle", "rejected"}
          /\ plain[s].answers \in Seq(States)
          /\ DOMAIN plain[s] = {"stage", "base", "request_body", "answers"}
  BY DEF PlainIInv, PlainTypeOK
<1>6. \A s \in PlainRequests :
          /\ plain'[s].stage \in PlainStages
          /\ plain'[s].base \in States \cup {NullState}
          /\ plain'[s].base = NullState <=>
                 plain'[s].stage \in {"idle", "rejected"}
          /\ plain'[s].answers \in Seq(States)
          /\ DOMAIN plain'[s] = {"stage", "base", "request_body", "answers"}
  BY <1>2, <1>5
<1> QED  BY <1>1, <1>2, <1>4, <1>6 DEF PlainIInv, PlainTypeOK

\* Acquire's callback, on every way out.
LEMMA AcquireKeeps ==
    ASSUME PlainIInv, NEW r \in PlainRequests, PlainAcquire(r)
    PROVE  PlainIInv'
<1>1. CASE OnPlainAcquireFailed(r)
  BY <1>1, SkeletonIsUnfinished, FailureKeeps DEF OnPlainAcquireFailed
<1>2. CASE OnPlainAcquired(r)
  <2>1. /\ DOMAIN plain = PlainRequests
        /\ DOMAIN plain[r] = {"stage", "base", "request_body", "answers"}
        /\ plain[r].base \in States /\ plain[r].base # NullState
        /\ plain[r].request_body = CollectMessageChain(nodes, plain[r].base)
    BY <1>2 DEF OnPlainAcquired, PlainIInv, PlainTypeOK, Continuing
  <2>2. plain' = [plain EXCEPT ![r].stage = "waiting"]
    BY <1>2 DEF OnPlainAcquired
  <2>3. /\ DOMAIN plain' = PlainRequests
        /\ \A s \in PlainRequests \ {r} : plain'[s] = plain[s]
        /\ DOMAIN plain'[r] = DOMAIN plain[r]
        /\ plain'[r].stage = "waiting" /\ plain'[r].base = plain[r].base
        /\ plain'[r].request_body = plain[r].request_body
        /\ plain'[r].answers = plain[r].answers
    BY <2>1, <2>2
  <2>4. plain[r].stage # "finished" /\ UNCHANGED nodes
    BY <1>2 DEF OnPlainAcquired
  <2> QED  BY <2>1, <2>3, <2>4, UnansweredKeeps DEF PlainStages
<1> QED  BY <1>1, <1>2 DEF PlainAcquire

\* A fetch, accepted or not.
LEMMA PlainFetchKeeps ==
    ASSUME PlainIInv, PlainFetch
    PROVE  PlainIInv'
<1>0. /\ DOMAIN plain = PlainRequests
      /\ \A r \in PlainRequests :
             DOMAIN plain[r] = {"stage", "base", "request_body", "answers"}
  BY DEF PlainIInv, PlainTypeOK
<1>1. PICK r \in PlainRequests, state \in States \cup {NullState},
           hasCallback \in BOOLEAN, configured \in BOOLEAN :
           \/ FetchCompletion(r, state, hasCallback, configured)
           \/ RejectCompletion(r, state, hasCallback, configured)
  BY DEF PlainFetch
<1>2. CASE FetchCompletion(r, state, hasCallback, configured)
  <2>1. /\ plain[r].stage # "finished" /\ UNCHANGED nodes
        /\ state \in States /\ state # NullState
        /\ plain' = [plain EXCEPT
                        ![r].stage = "acquiring",
                        ![r].base = state,
                        ![r].request_body = CollectMessageChain(nodes, state)]
    BY <1>2 DEF FetchCompletion, PlainAccepts
  <2>2. /\ DOMAIN plain' = PlainRequests
        /\ \A s \in PlainRequests \ {r} : plain'[s] = plain[s]
        /\ DOMAIN plain'[r] = DOMAIN plain[r]
        /\ plain'[r].stage = "acquiring" /\ plain'[r].base = state
        /\ plain'[r].request_body = CollectMessageChain(nodes, state)
        /\ plain'[r].answers = plain[r].answers
    BY <1>0, <2>1
  <2> QED  BY <2>1, <2>2, UnansweredKeeps DEF PlainStages
<1>3. CASE RejectCompletion(r, state, hasCallback, configured)
  <2>1. /\ plain[r].stage = "idle" /\ UNCHANGED nodes
        /\ plain' = [plain EXCEPT ![r].stage = "rejected"]
    BY <1>3 DEF RejectCompletion
  <2>2. /\ DOMAIN plain' = PlainRequests
        /\ \A s \in PlainRequests \ {r} : plain'[s] = plain[s]
        /\ DOMAIN plain'[r] = DOMAIN plain[r]
        /\ plain'[r].stage = "rejected" /\ plain'[r].base = plain[r].base
        /\ plain'[r].answers = plain[r].answers
    BY <1>0, <2>1
  <2>3. plain[r].base = NullState
    BY <2>1 DEF PlainIInv, PlainTypeOK
  <2> QED  BY <2>1, <2>2, <2>3, UnansweredKeeps DEF PlainStages
<1> QED  BY <1>1, <1>2, <1>3

\* What others do to the history does not disturb the plain requests.
LEMMA PlainUnchangedKeeps ==
    ASSUME PlainIInv, UNCHANGED plain, Grows PROVE PlainIInv'
<1>1. StateTypeOK' /\ DOMAIN plain' = PlainRequests
  BY DEF Grows, PlainIInv, PlainTypeOK
<1> QED  BY <1>1, PlainUntouched DEF PlainIInv, PlainTypeOK

\* Every step keeps the invariant ...
LEMMA PlainStepKeeps == PlainIInv /\ [PlainNext]_plainVars => PlainIInv'
<1> SUFFICES ASSUME PlainIInv, [PlainNext]_plainVars PROVE PlainIInv'
  OBVIOUS
<1>1. ASSUME UNCHANGED plain, Grows PROVE PlainIInv'
  BY <1>1, PlainUnchangedKeeps
<1>2. StateTypeOK
  BY DEF PlainIInv, PlainTypeOK
<1>3. CASE CallerAppends /\ UNCHANGED plain
  BY <1>1, <1>2, <1>3, CallerGrows
<1>4. CASE UNCHANGED plainVars
  BY <1>1, <1>2, <1>4 DEF plainVars, StateTypeOK, States, Grows
<1> QED
  BY <1>3, <1>4, PlainFetchKeeps, AcquireKeeps, RespondKeeps DEF PlainNext

\* ... which holds before the first fetch.
LEMMA PlainInitKeeps == PlainInit => PlainIInv
<1> SUFFICES ASSUME PlainInit PROVE PlainIInv
  OBVIOUS
<1>1. StateTypeOK
  BY DEF PlainInit, StateInit, StateTypeOK, States, Range
<1>2. ASSUME NEW r \in PlainRequests
      PROVE  /\ plain[r].stage = "idle" /\ plain[r].base = NullState
             /\ plain[r].answers = <<>>
             /\ DOMAIN plain[r] = {"stage", "base", "request_body", "answers"}
  BY <1>2 DEF PlainInit
<1>3. <<>> \in Seq(States) /\ Len(<<>>) = 0
  OBVIOUS
<1>4. DOMAIN plain = PlainRequests
  BY DEF PlainInit
<1>5. PlainTypeOK
  BY <1>1, <1>2, <1>3, <1>4 DEF PlainTypeOK, PlainStages
<1>6. \A r \in PlainRequests :
          OneAnswer(r) /\ AnswerIsAnswerable(r) /\ Continuing(r)
  BY <1>2, <1>3 DEF OneAnswer, AnswerIsAnswerable, Continuing, PlainAnswered
<1> QED  BY <1>2, <1>5, <1>6 DEF PlainIInv

-----------------------------------------------------------------------------
(* The properties *)

\* In every reachable state a plain request that has finished has one answer,
\* whose log is honest and whose message is empty if it failed.
THEOREM PlainInvariantHolds == PlainSpec => []PlainIInv
BY PlainInitKeeps, PlainStepKeeps, PTL DEF PlainSpec

\* The shape of a request: one that was accepted refers to a node that exists,
\* and so does its answer.
THEOREM PlainTypeCorrect == PlainSpec => []PlainTypeOK
<1>1. PlainIInv => PlainTypeOK
  BY DEF PlainIInv
<1> QED  BY <1>1, PlainInvariantHolds, PTL

\* cb is called exactly once for an accepted request and never for another,
\* whatever the transport does and whatever the body is.
THEOREM PlainExactlyOnce == PlainSpec => []PlainAnsweredExactlyOnce
<1>1. PlainIInv => PlainAnsweredExactlyOnce
  BY DEF PlainIInv, OneAnswer, PlainAnsweredExactlyOnce
<1> QED  BY <1>1, PlainInvariantHolds, PTL

\* A failure carries an error and nothing of the response's message; a success
\* carries no error and came with a success status.
THEOREM PlainFailureEmpty == PlainSpec => []PlainFailureIsEmpty
<1>1. PlainIInv => PlainFailureIsEmpty
  BY DEF PlainIInv, AnswerIsAnswerable, Answerable, PlainFailureIsEmpty
<1> QED  BY <1>1, PlainInvariantHolds, PTL

\* The answer continues exactly the conversation that was sent, whatever was
\* appended to it or answered from it in the meantime.
LEMMA PlainContinues == PlainIInv => PlainAnswerContinuesTheRequest
<1> SUFFICES ASSUME PlainIInv, NEW r \in PlainRequests, PlainAnswered(r)
             PROVE  Continues(plain[r].answers[1], plain[r].request_body)
  BY DEF PlainAnswerContinuesTheRequest
<1>1. /\ StateTypeOK /\ plain[r].answers \in Seq(States) /\ OneAnswer(r)
      /\ plain[r].base = NullState <=> plain[r].stage \in {"idle", "rejected"}
      /\ Continuing(r)
  BY DEF PlainIInv, PlainTypeOK
<1>2. plain[r].answers # <<>>
  BY DEF PlainAnswered
<1>3. plain[r].answers[1] \in States /\ Len(plain[r].answers) # 0
  BY <1>1, <1>2
<1>4. plain[r].stage = "finished"
  BY <1>1, <1>3 DEF OneAnswer
<1>5. /\ nodes[plain[r].answers[1]].previous = plain[r].base
      /\ plain[r].request_body = CollectMessageChain(nodes, plain[r].base)
  BY <1>1, <1>4 DEF Continuing, PlainAnswerOf
<1> QED  BY <1>1, <1>3, <1>5, NodeContinues DEF Continues

\* Hence, in every reachable state, for histories and requests of any number.
THEOREM PlainAnswersContinue == PlainSpec => []PlainAnswerContinuesTheRequest
BY PlainContinues, PlainInvariantHolds, PTL

-----------------------------------------------------------------------------
(* Plain and streaming requests *)

FactoryIInv == AnswersIInv /\ PlainIInv

\* A step of a plain request leaves the history alone or adds one node.
LEMMA PlainStepAllocates ==
    ASSUME NEW r \in PlainRequests, PlainAcquire(r) \/ PlainRespond(r)
    PROVE  \/ UNCHANGED nodes
           \/ \E message, log, prev : AllocateState(message, log, prev)
<1> DEFINE Allocates == \E message, log, prev :
                            AllocateState(message, log, prev)
<1>1. ASSUME NEW message, NEW log, PlainAnswer(r, message, log)
      PROVE  Allocates
  BY <1>1 DEF PlainAnswer
<1>2. ASSUME NEW log, NEW error, PlainFailure(r, log, error)
      PROVE  Allocates
  BY <1>1, <1>2 DEF PlainFailure
<1> HIDE DEF Allocates
<1>3. ASSUME PlainAcquire(r) PROVE UNCHANGED nodes \/ Allocates
  BY <1>2, <1>3 DEF PlainAcquire, OnPlainAcquired, OnPlainAcquireFailed
<1>4. ASSUME PlainRespond(r) PROVE Allocates
  <2>1. PICK failed \in BOOLEAN, cancelled \in BOOLEAN, code \in HttpCodes,
             requestId \in {Absent, "header"}, body \in Bodies :
             OnDone(r, failed, cancelled, code, requestId, body)
    BY <1>4 DEF PlainRespond
  <2>2. \/ \E log, error : PlainFailure(r, log, error)
        \/ \E log : ParseBody(r, log, body)
    BY <2>1 DEF OnDone
  <2>3. ASSUME NEW log, ParseBody(r, log, body) PROVE Allocates
    BY <1>1, <1>2, <2>3 DEF ParseBody
  <2> QED  BY <1>2, <2>2, <2>3
<1> QED  BY <1>3, <1>4 DEF Allocates

\* A step that adds a node to a well-formed history, and leaves it well formed,
\* grows it.
LEMMA AllocationGrows ==
    ASSUME StateTypeOK, StateTypeOK',
           \/ UNCHANGED nodes
           \/ \E message, log, prev : AllocateState(message, log, prev)
    PROVE  Grows
<1>1. CASE UNCHANGED nodes
  BY <1>1 DEF Grows, States
<1>2. CASE \E message, log, prev : AllocateState(message, log, prev)
  <2>1. PICK node : nodes' = Append(nodes, node)
    BY <1>2 DEF AllocateState
  <2>2. PICK S : nodes \in Seq(S) /\ node \in S
    <3> DEFINE S == Range(nodes) \cup {node}
    <3>1. nodes \in Seq(S) /\ node \in S
      BY DEF StateTypeOK
    <3> QED  BY <3>1
  <2> QED  BY <2>1, <2>2 DEF Grows, States
<1> QED  BY <1>1, <1>2

\* Every step of the factory grows the history and keeps the invariants of both
\* kinds of requests.
LEMMA FactoryStepKeeps ==
    ASSUME FactoryIInv, [FactoryNext]_factoryVars
    PROVE  FactoryIInv' /\ Grows
<1>1. AnswersIInv /\ StreamIInv /\ PlainIInv /\ StateTypeOK
  BY DEF FactoryIInv, PlainIInv, PlainTypeOK, AnswersIInv
<1>2. ASSUME UNCHANGED streamOnly, PlainIInv',
             \/ UNCHANGED nodes
             \/ \E message, log, prev : AllocateState(message, log, prev)
      PROVE  FactoryIInv' /\ Grows
  <2>1. Grows
    BY <1>1, <1>2, AllocationGrows DEF PlainIInv, PlainTypeOK
  <2>2. AnswersIInv'
    BY <1>1, <1>2, <2>1, StreamUnchangedKeeps DEF streamOnly
  <2> QED  BY <1>2, <2>1, <2>2 DEF FactoryIInv
<1>3. ASSUME UNCHANGED plain, AnswersIInv', Grows
      PROVE  FactoryIInv' /\ Grows
  BY <1>1, <1>3, PlainUnchangedKeeps DEF FactoryIInv
<1>4. CASE CallerAppends /\ UNCHANGED plain /\ UNCHANGED streamOnly
  <2>1. Grows
    BY <1>1, <1>4, CallerGrows
  <2> QED  BY <1>1, <1>3, <1>4, <2>1, StreamUnchangedKeeps DEF streamOnly
<1>5. CASE PlainFetch /\ UNCHANGED streamOnly
  <2>1. UNCHANGED nodes
    BY <1>5 DEF PlainFetch, FetchCompletion, RejectCompletion
  <2> QED  BY <1>1, <1>2, <1>5, <2>1, PlainFetchKeeps
<1>6. CASE StreamFetch /\ UNCHANGED plain
  <2>1. AnswersIInv'
    BY <1>1, <1>6, StreamStepKeeps DEF StreamNext
  <2>2. UNCHANGED nodes
    BY <1>6 DEF StreamFetch, FetchStreamCompletion, RejectStreamCompletion
  <2>3. Grows
    BY <1>1, <2>2 DEF Grows, States, StateTypeOK
  <2> QED  BY <1>3, <1>6, <2>1, <2>3
<1>7. ASSUME NEW r \in PlainRequests, PlainAcquire(r) \/ PlainRespond(r),
             UNCHANGED streamOnly
      PROVE  FactoryIInv' /\ Grows
  BY <1>1, <1>2, <1>7, AcquireKeeps, RespondKeeps, PlainStepAllocates
<1>8. ASSUME NEW r \in Requests, RequestStep(r), UNCHANGED plain
      PROVE  FactoryIInv' /\ Grows
  <2>1. AnswersIInv'
    BY <1>1, <1>8, StreamStepKeeps DEF StreamNext
  <2> QED  BY <1>1, <1>3, <1>8, <2>1, RequestGrows
<1>9. CASE UNCHANGED factoryVars
  <2>1. Grows
    BY <1>1, <1>9 DEF Grows, States, StateTypeOK, factoryVars
  <2>2. AnswersIInv'
    BY <1>1, <1>9, <2>1, StreamUnchangedKeeps DEF factoryVars
  <2> QED  BY <1>3, <1>9, <2>1, <2>2 DEF factoryVars
<1> QED  BY <1>4, <1>5, <1>6, <1>7, <1>8, <1>9 DEF FactoryNext

\* In every reachable state of a factory both kinds of requests keep what each
\* keeps alone.
THEOREM FactoryInvariantHolds == FactorySpec => []FactoryIInv
<1>1. FactoryInit => FactoryIInv
  BY PlainInitKeeps, StreamInitKeeps DEF FactoryInit, FactoryIInv
<1>2. FactoryIInv /\ [FactoryNext]_factoryVars => FactoryIInv'
  BY FactoryStepKeeps
<1> QED  BY <1>1, <1>2, PTL DEF FactorySpec

\* The conversation that ends in a node never changes, whatever is appended to
\* it, asked of it or answered from it.
THEOREM Immutable == FactorySpec => ConversationsAreImmutable
<1>1. ASSUME Grows, NEW n \in States
      PROVE  /\ n \in States'
             /\ CollectMessageChain(nodes', n) = CollectMessageChain(nodes, n)
  BY <1>1, ConversationsStay DEF Grows
<1>2. ASSUME FactoryIInv, [FactoryNext]_factoryVars
      PROVE  [\A n \in States :
                 /\ n \in States'
                 /\ CollectMessageChain(nodes', n)
                        = CollectMessageChain(nodes, n)
             ]_factoryVars
  BY <1>1, <1>2, FactoryStepKeeps
<1> QED
  BY <1>2, FactoryInvariantHolds, PTL DEF FactorySpec, ConversationsAreImmutable

\* Every answer continues the conversation it was asked of, and no plain request
\* shares its answer with a streaming one.
THEOREM KeepApart == FactorySpec => []AnswersKeepApart
<1>1. FactoryIInv => AnswersKeepApart
  <2> SUFFICES ASSUME FactoryIInv PROVE AnswersKeepApart
    OBVIOUS
  <2>1. PlainAnswerContinuesTheRequest /\ AnswerContinuesTheRequest
    BY PlainContinues, StreamContinues DEF FactoryIInv
  <2>2. ASSUME NEW p \in PlainRequests, NEW r \in Requests,
               PlainAnswered(p), Answered(r)
        PROVE  /\ plain[p].answers[1] # answers[r][1]
               /\ PlainAnswerOf(p).log.is_stream # AnswerOf(r).log.is_stream
    <3>1. PlainAnswerOf(p).log.is_stream = FALSE
      BY <2>2 DEF FactoryIInv, PlainIInv, AnswerIsAnswerable, Answerable,
                  HonestLog
    <3>2. AnswerOf(r).log.is_stream = TRUE
      BY <2>2 DEF FactoryIInv, AnswersIInv, AnswerIsHonest, HonestLog
    <3> QED  BY <3>1, <3>2 DEF PlainAnswerOf, AnswerOf
  <2> QED  BY <2>1, <2>2 DEF AnswersKeepApart
<1> QED  BY <1>1, FactoryInvariantHolds, PTL
=============================================================================
