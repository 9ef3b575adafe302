----------------------------- MODULE OaiFactory -----------------------------
(***************************************************************************)
(* An OaiCompletionFactory as its callers use it: messages appended, plain *)
(* and streaming requests in flight at the same time, all over one         *)
(* history, where each may be asked of a node another one answered with.   *)
(***************************************************************************)
EXTENDS PlainCompletion, StreamCompletion

factoryVars == <<nodes, plain, stage, base, callbacks, request_body, agg,
                 tool_calls, fed, taken, eof, heard, answers>>

streamOnly == <<stage, base, callbacks, request_body, agg, tool_calls, fed,
                taken, eof, heard, answers>>

FactoryInit == PlainInit /\ StreamInit

FactoryNext ==
    \/ CallerAppends /\ UNCHANGED plain /\ UNCHANGED streamOnly
    \/ PlainFetch /\ UNCHANGED streamOnly
    \/ StreamFetch /\ UNCHANGED plain
    \/ \E r \in PlainRequests :
          (PlainAcquire(r) \/ PlainRespond(r)) /\ UNCHANGED streamOnly
    \/ \E r \in Requests : RequestStep(r) /\ UNCHANGED plain

FactorySpec == FactoryInit /\ [][FactoryNext]_factoryVars

\* The conversation that ends in a node never changes, whatever is appended to
\* it, asked of it or answered from it (the "immutable linked state node" of
\* oai_completion.h).
ConversationsAreImmutable ==
    [][\A n \in States :
           /\ n \in States'
           /\ CollectMessageChain(nodes', n) = CollectMessageChain(nodes, n)
      ]_factoryVars

\* Whichever way it was asked for, an answer continues the conversation that
\* was sent, by an assistant's message of its own: no two requests share one.
AnswersKeepApart ==
    /\ PlainAnswerContinuesTheRequest
    /\ AnswerContinuesTheRequest
    /\ \A p \in PlainRequests, r \in Requests :
          PlainAnswered(p) /\ Answered(r) =>
              /\ plain[p].answers[1] # answers[r][1]
              /\ PlainAnswerOf(p).log.is_stream # AnswerOf(r).log.is_stream
=============================================================================
