--------------------------- MODULE CompletionState ---------------------------
(***************************************************************************)
(* The conversation history: a heap of OaiCompletionState nodes, each      *)
(* linked to the node it continues.  A node is built once, by its          *)
(* constructor, and all its members are const; std::shared_ptr keeps it    *)
(* alive as long as anybody holds it, so nothing is ever freed here.       *)
(*                                                                         *)
(* A shared_ptr<OaiCompletionState> is the position of the node in         *)
(* `nodes'; NullState is the null pointer.  A text is the sequence of the  *)
(* pieces it was received in, so that the empty text is <<>>.              *)
(* Timestamps and the info/model_info handles of a node are left out.      *)
(***************************************************************************)
EXTENDS Integers, SequencesExt

CONSTANTS
    Text,          \* non-empty pieces of message or reasoning text
    Strings,       \* ids, names, models, finish reasons; "" is the empty one
    UserMessages,  \* the OaiMessages callers append
    MaxNodes       \* bound: callers append only while the heap is smaller

ASSUME StringsAssumption == "" \in Strings
ASSUME UserMessagesAssumption ==
    \A m \in UserMessages : m.message \in Seq(Text)
ASSUME MaxNodesAssumption == MaxNodes \in Nat

VARIABLE nodes

NullState == 0

States == DOMAIN nodes

Statuses == {"kLocal", "kSuccess", "kFail"}

\* The log AppendMessage gives a node: no request was made for it.
LocalLog == [status |-> "kLocal", http_status_code |-> 0,
             error_message |-> "", request_id |-> "", finish_reason |-> "",
             model |-> "", is_stream |-> FALSE, delta_count |-> 0]

\* AllocateShared<OaiCompletionState>(.., message, log, previous).  The new
\* node is at NewState.
NewState == Len(nodes) + 1

AllocateState(message, log, previous) ==
    nodes' = Append(nodes, [message |-> message, log |-> log,
                            previous |-> previous])

\* Editing the last message in place instead of linking a new node to it.
MutantAppendMessage(msg, prev) ==
    /\ Len(nodes) < MaxNodes
    /\ IF prev # NullState /\ nodes[prev].log.status = "kLocal"
       THEN nodes' = [nodes EXCEPT ![prev].message = msg]
       ELSE AllocateState(msg, LocalLog, prev)

AppendMessage(msg, prev) ==
    /\ Len(nodes) < MaxNodes
    /\ AllocateState(msg, LocalLog, prev)

\* The messages from the oldest ancestor of `state' down to `state'.
CollectMessageChain(heap, state) ==
    LET chain[n \in 0 .. Len(heap)] ==
            IF n = NullState THEN <<>>
            ELSE Append(chain[heap[n].previous], heap[n].message)
    IN  chain[state]

-----------------------------------------------------------------------------

StateInit == nodes = <<>>

CallerAppends ==
    \E msg \in UserMessages, prev \in States \cup {NullState} :
        AppendMessage(msg, prev)

\* The shape of the heap.  A node continues an older one, so that the walk of
\* CollectMessageChain ends, and only what a caller appended may continue none:
\* a fetch is refused without a state, and its answer follows that state, through
\* however many closures the pointer was moved in between.
StateTypeOK ==
    /\ nodes \in Seq(Range(nodes))
    /\ \A n \in States :
          /\ nodes[n].previous \in 0 .. n - 1
          /\ nodes[n].message.message \in Seq(Text)
          /\ nodes[n].log.status \in Statuses
          /\ nodes[n].log.status # "kLocal" => nodes[n].previous # NullState
          /\ nodes[n].log.http_status_code \in Nat
          /\ nodes[n].log.delta_count \in Nat
=============================================================================
