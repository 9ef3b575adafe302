------------------------------- MODULE Dialogue -------------------------------
(***************************************************************************)
(* What the demo is to the person in front of it (docs/manual/             *)
(* oai-completion.md, "deepseek-demo"): a conversation, with no request,   *)
(* round or history in sight.  Somebody says something, and the assistant  *)
(* either replies, perhaps after having its tools executed, or the demo    *)
(* gives up and nothing of the attempt is kept.                            *)
(***************************************************************************)
EXTENDS Integers, SequencesExt

CONSTANTS
    System,        \* the message a conversation begins with
    Lines,         \* the messages that may be said
    MaxRoundTrips  \* the replies a turn may take

VARIABLES
    conversation,  \* the messages so far
    phase          \* opening, listening, thinking, over or failed

dialogueVars == <<conversation, phase>>

DialogueInit == conversation = <<>> /\ phase = "opening"

Open == /\ phase = "opening" /\ phase' = "listening"
        /\ conversation' = <<System>>

Say == /\ phase = "listening" /\ phase' = "thinking"
       /\ \E line \in Lines : conversation' = Append(conversation, line)

\* Every message that calls tools is followed by one result for each call, in
\* the order of the calls, and there are no other results.
CallsAreAnswered(messages) ==
    /\ \A k \in DOMAIN messages :
          LET calls == messages[k].tool_calls
          IN  \A n \in DOMAIN calls :
                 /\ k + n \in DOMAIN messages
                 /\ messages[k + n].role = "tool"
                 /\ messages[k + n].tool_call_id = calls[n].id
    /\ \A k \in DOMAIN messages : messages[k].role = "tool" =>
          \E j \in 1 .. k - 1 : k - j \in DOMAIN messages[j].tool_calls

\* The assistant's part of a turn: it ends with a message that calls no tools.
IsReply(messages) ==
    /\ messages # <<>>
    /\ CallsAreAnswered(messages)
    /\ \A k \in DOMAIN messages : messages[k].role \in {"assistant", "tool"}
    /\ \A k \in DOMAIN messages :
          messages[k].role = "assistant" /\ messages[k].tool_calls = <<>>
              <=> k = Len(messages)
    /\ Cardinality({k \in DOMAIN messages : messages[k].role = "assistant"})
           <= MaxRoundTrips

\* An interactive dialogue goes on after the reply, another is over.
Reply == /\ phase = "thinking" /\ phase' \in {"listening", "over"}
         /\ IsPrefix(conversation, conversation')
         /\ IsReply(SubSeq(conversation', Len(conversation) + 1,
                           Len(conversation')))

GiveUp == /\ phase = "thinking" /\ phase' = "failed"
          /\ UNCHANGED conversation

Reset == /\ phase = "listening" /\ UNCHANGED phase
         /\ conversation' = <<System>>

Leave == /\ phase = "listening" /\ phase' = "over"
         /\ UNCHANGED conversation

DialogueNext == Open \/ Say \/ Reply \/ GiveUp \/ Reset \/ Leave

DialogueSpec == DialogueInit /\ [][DialogueNext]_dialogueVars
=============================================================================
