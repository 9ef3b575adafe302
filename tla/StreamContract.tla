--------------------------- MODULE StreamContract ---------------------------
(***************************************************************************)
(* What FetchStreamCompletion promises its caller (oai_completion.h and    *)
(* docs/manual/oai-completion.md), with no transport, chunk or event in    *)
(* sight.  A request is accepted or rejected; an accepted one speaks some  *)
(* pieces of content and reasoning, each passed to the callback that asks  *)
(* for it, and is then answered, once, by a message that consists of what  *)
(* was spoken and continues the node the caller asked about.  After the    *)
(* answer it stays silent.                                                 *)
(***************************************************************************)
EXTENDS Integers, Sequences

CONSTANTS
    Requests,
    Text,    \* non-empty pieces of text
    Absent   \* no piece

VARIABLES
    phase,      \* of a request: idle, rejected, pending or answered
    asked,      \* the node it is about
    listens,    \* the callbacks it was given
    spoken,     \* the content and the reasoning spoken
    heard,      \* what its callbacks were called with
    answers     \* what on_done was called with

contractVars == <<phase, asked, listens, spoken, heard, answers>>

Silence == [delta |-> <<>>, reasoning |-> <<>>]

ContractInit ==
    /\ phase = [r \in Requests |-> "idle"]
    /\ asked = [r \in Requests |-> 0]
    /\ listens = [r \in Requests |-> {}]
    /\ spoken = [r \in Requests |-> Silence]
    /\ heard = [r \in Requests |-> Silence]
    /\ answers = [r \in Requests |-> <<>>]

\* A request needs a node, on_done, and something to listen with.
Accept(r) ==
    /\ phase[r] = "idle"
    /\ phase' = [phase EXCEPT ![r] = "pending"]
    /\ asked'[r] \in Nat \ {0}
    /\ asked' = [asked EXCEPT ![r] = asked'[r]]
    /\ \E cbs \in SUBSET {"on_done", "on_delta", "on_reasoning_delta"} :
          /\ "on_done" \in cbs
          /\ cbs # {"on_done"}
          /\ listens' = [listens EXCEPT ![r] = cbs]
    /\ UNCHANGED <<spoken, heard, answers>>

Reject(r) ==
    /\ phase[r] = "idle"
    /\ phase' = [phase EXCEPT ![r] = "rejected"]
    /\ UNCHANGED <<asked, listens, spoken, heard, answers>>

With(text, piece) == IF piece = Absent THEN text ELSE Append(text, piece)

Speak(r, content, reasoning) ==
    /\ phase[r] = "pending"
    /\ spoken' = [spoken EXCEPT
                     ![r].delta = With(@, content),
                     ![r].reasoning = With(@, reasoning)]
    /\ heard' = [heard EXCEPT
                    ![r].delta = IF "on_delta" \in listens[r]
                                 THEN With(@, content) ELSE @,
                    ![r].reasoning = IF "on_reasoning_delta" \in listens[r]
                                     THEN With(@, reasoning) ELSE @]
    /\ UNCHANGED <<phase, asked, listens, answers>>

Answer(r, status) ==
    /\ phase[r] = "pending"
    /\ phase' = [phase EXCEPT ![r] = "answered"]
    /\ answers' = [answers EXCEPT ![r] =
                      <<[previous |-> asked[r], role |-> "assistant",
                         message |-> spoken[r].delta,
                         reasoning |-> spoken[r].reasoning,
                         status |-> status]>>]
    /\ UNCHANGED <<asked, listens, spoken, heard>>

ContractNext ==
    \E r \in Requests :
        \/ Accept(r)
        \/ Reject(r)
        \/ \E content, reasoning \in Text \cup {Absent} :
              Speak(r, content, reasoning)
        \/ \E status \in {"kSuccess", "kFail"} : Answer(r, status)

ContractSpec == ContractInit /\ [][ContractNext]_contractVars
=============================================================================
