----------------------- MODULE CompletionDetail_proofs ----------------------
(***************************************************************************)
(* What the proofs about all requests share: what allocating a node does   *)
(* to a well-formed history and to the conversations it holds, and that    *)
(* the tool calls of a message are a list of calls.                        *)
(***************************************************************************)
EXTENDS CompletionDetail, SequenceTheorems, FiniteSetTheorems, TLAPS

\* A new node that continues an existing one, or none, leaves the heap well
\* formed and every older node as it was.
LEMMA AppendNode ==
    ASSUME StateTypeOK, NEW message, NEW log, NEW prev \in 0 .. Len(nodes),
           message.message \in Seq(Text),
           log.status \in Statuses, log.http_status_code \in Nat,
           log.delta_count \in Nat, log.status # "kLocal" => prev # NullState,
           AllocateState(message, log, prev)
    PROVE  /\ StateTypeOK'
           /\ Len(nodes') = Len(nodes) + 1
           /\ States' = States \cup {NewState}
           /\ NewState \notin States
           /\ \A n \in States : nodes'[n] = nodes[n]
           /\ nodes'[NewState] = [message |-> message, log |-> log,
                                  previous |-> prev]
<1> DEFINE node == [message |-> message, log |-> log, previous |-> prev]
           S == Range(nodes) \cup {node}
<1>1. nodes \in Seq(S) /\ node \in S
  BY DEF StateTypeOK
<1>2. nodes' = Append(nodes, node)
  BY DEF AllocateState
<1> HIDE DEF node, S
<1>3. /\ nodes' \in Seq(S)
      /\ Len(nodes') = Len(nodes) + 1
      /\ \A n \in 1 .. Len(nodes) : nodes'[n] = nodes[n]
      /\ nodes'[Len(nodes) + 1] = node
  BY <1>1, <1>2
<1>4. nodes' \in Seq(Range(nodes'))
  BY <1>3 DEF Range
<1>5. /\ States = 1 .. Len(nodes) /\ States' = 1 .. Len(nodes')
      /\ Len(nodes) \in Nat
  BY <1>1, <1>3 DEF States
<1>6. ASSUME NEW n \in States'
      PROVE  /\ nodes'[n].previous \in 0 .. n - 1
             /\ nodes'[n].message.message \in Seq(Text)
             /\ nodes'[n].log.status \in Statuses
             /\ nodes'[n].log.status # "kLocal"
                   => nodes'[n].previous # NullState
             /\ nodes'[n].log.http_status_code \in Nat
             /\ nodes'[n].log.delta_count \in Nat
  <2>1. CASE n \in States
    BY <2>1, <1>3, <1>5 DEF StateTypeOK
  <2>2. CASE n = Len(nodes) + 1
    BY <2>2, <1>3, <1>5 DEF node
  <2> QED  BY <2>1, <2>2, <1>3, <1>5
<1> QED
  BY <1>3, <1>4, <1>5, <1>6 DEF StateTypeOK, NewState, node

\* AppendMessage (oai_completion_factory.cc) keeps the history well formed.
LEMMA CallerAppendsNode ==
    ASSUME StateTypeOK, CallerAppends
    PROVE  /\ StateTypeOK'
           /\ States \subseteq States'
           /\ \A n \in States : nodes'[n] = nodes[n]
<1>1. PICK msg \in UserMessages, prev \in States \cup {NullState} :
          AppendMessage(msg, prev)
  BY DEF CallerAppends
<1>2. prev \in 0 .. Len(nodes)
  BY DEF StateTypeOK, States, NullState
<1>3. msg.message \in Seq(Text)
  BY UserMessagesAssumption
<1>4. /\ LocalLog.status \in Statuses /\ LocalLog.http_status_code \in Nat
      /\ LocalLog.delta_count \in Nat /\ LocalLog.status = "kLocal"
  BY DEF LocalLog, Statuses
<1>5. AllocateState(msg, LocalLog, prev)
  BY <1>1 DEF AppendMessage
<1> QED  BY <1>2, <1>3, <1>4, <1>5, AppendNode

-----------------------------------------------------------------------------
(* Conversations *)

\* A set of natural numbers has a least element, because the finite sets 0 .. k
\* are well-founded by inclusion.
LEMMA Least ==
    ASSUME NEW S \in SUBSET Nat, S # {}
    PROVE  \E m \in S : \A k \in S : m <= k
<1> DEFINE T == {0 .. k : k \in S}
           R == StrictSubsetOrdering(Nat)
<1>1. ASSUME NEW k \in Nat PROVE 0 .. k \in FiniteSubsetsOf(Nat)
  <2>1. IsFiniteSet(0 .. k)
    BY FS_Interval
  <2> QED  BY <2>1 DEF FiniteSubsetsOf
<1>2. T \subseteq FiniteSubsetsOf(Nat) /\ T # {}
  BY <1>1
<1>3. IsWellFoundedOn(R, FiniteSubsetsOf(Nat))
  BY FS_StrictSubsetOrderingWellFounded
<1> HIDE DEF T, R
<1>4. PICK x \in T : \A y \in T : <<y, x>> \notin R
  BY <1>2, <1>3, WFMin
<1>5. PICK m \in S : x = 0 .. m
  BY DEF T
<1>6. ASSUME NEW k \in S PROVE m <= k
  <2>1. SUFFICES ASSUME k < m PROVE FALSE
    OBVIOUS
  <2>2. 0 .. k \in T
    BY DEF T
  <2>3. 0 .. k \subseteq 0 .. m /\ m \in 0 .. m /\ m \notin 0 .. k
    BY <2>1
  <2>4. <<0 .. k, 0 .. m>> \in R
    BY <2>3 DEF R, StrictSubsetOrdering
  <2> QED  BY <1>4, <1>5, <2>2, <2>4
<1> QED  BY <1>6

\* Every node continues an older one, so that a walk back ends.
IsHistory(heap) ==
    /\ Len(heap) \in Nat
    /\ \A n \in 1 .. Len(heap) : heap[n].previous \in 0 .. n - 1

\* One step of CollectMessageChain's walk, given the chains of older nodes.
ChainStep(heap, chain, n) ==
    IF n = NullState THEN <<>>
    ELSE Append(chain[heap[n].previous], heap[n].message)

IsChain(heap, chain) ==
    chain = [n \in 0 .. Len(heap) |-> ChainStep(heap, chain, n)]

\* The recursion of CollectMessageChain has a solution: one for the first nodes
\* extends to the next.
LEMMA ChainExists ==
    ASSUME NEW heap, IsHistory(heap)
    PROVE  \E chain : IsChain(heap, chain)
<1> DEFINE Chains(m, g) == \A n \in 0 .. m : g[n] = ChainStep(heap, g, n)
           S == {m \in 0 .. Len(heap) : ~ \E g : Chains(m, g)}
<1>1. ASSUME S # {} PROVE FALSE
  <2>1. PICK m \in S : \A k \in S : m <= k
    <3>1. S \in SUBSET Nat
      BY DEF IsHistory
    <3> HIDE DEF S
    <3> QED  BY <1>1, <3>1, Least
  <2>2. m \in 0 .. Len(heap) /\ ~ \E g : Chains(m, g)
    BY <2>1
  <2>3. PICK g : \A n \in 0 .. m - 1 : g[n] = ChainStep(heap, g, n)
    <3>1. CASE m = 0
      BY <2>2, <3>1
    <3>2. CASE m # 0
      <4>1. m - 1 \in 0 .. Len(heap) /\ ~ (m <= m - 1)
        BY <2>2, <3>2 DEF IsHistory
      <4>2. m - 1 \notin S
        BY <2>1, <4>1
      <4> QED  BY <4>1, <4>2
    <3> QED  BY <3>1, <3>2
  <2> DEFINE h == [n \in 0 .. m |-> IF n = m THEN ChainStep(heap, g, m)
                                    ELSE g[n]]
  <2>4. ASSUME NEW n \in 0 .. m PROVE h[n] = ChainStep(heap, h, n)
    <3>1. h[n] = ChainStep(heap, g, n)
      BY <2>2, <2>3
    <3>2. CASE n = NullState
      BY <3>1, <3>2 DEF ChainStep
    <3>3. CASE n # NullState
      <4>1. heap[n].previous \in 0 .. n - 1
        BY <2>2, <3>3 DEF IsHistory, NullState
      <4>2. heap[n].previous \in 0 .. m /\ heap[n].previous # m
        BY <2>2, <4>1
      <4>3. h[heap[n].previous] = g[heap[n].previous]
        BY <4>2
      <4> QED  BY <3>1, <4>3 DEF ChainStep
    <3> QED  BY <3>2, <3>3
  <2> QED  BY <2>2, <2>4
<1>2. PICK g : Chains(Len(heap), g)
  BY <1>1 DEF IsHistory
<1> DEFINE chain == [n \in 0 .. Len(heap) |-> g[n]]
<1>3. ASSUME NEW n \in 0 .. Len(heap)
      PROVE  chain[n] = ChainStep(heap, chain, n)
  <2>1. CASE n = NullState
    BY <1>2, <2>1 DEF ChainStep
  <2>2. CASE n # NullState
    <3>1. heap[n].previous \in 0 .. Len(heap)
      BY <2>2 DEF IsHistory, NullState
    <3> QED  BY <1>2, <3>1 DEF ChainStep
  <2> QED  BY <2>1, <2>2
<1>4. IsChain(heap, chain)
  BY <1>3 DEF IsChain
<1> QED  BY <1>4

\* What CollectMessageChain computes, for every history.
LEMMA ChainRecurrence ==
    ASSUME NEW heap, IsHistory(heap), NEW n \in 0 .. Len(heap)
    PROVE  CollectMessageChain(heap, n) =
               IF n = NullState THEN <<>>
               ELSE Append(CollectMessageChain(heap, heap[n].previous),
                           heap[n].message)
<1> DEFINE chain == CHOOSE g : IsChain(heap, g)
<1>1. IsChain(heap, chain)
  BY ChainExists
<1>2. \A k : CollectMessageChain(heap, k) = chain[k]
  BY DEF CollectMessageChain, IsChain, ChainStep
<1> HIDE DEF chain
<1>3. chain[n] = ChainStep(heap, chain, n)
  BY <1>1 DEF IsChain
<1> QED  BY <1>2, <1>3 DEF ChainStep

\* A conversation is read from the nodes it consists of: it is the same in two
\* histories that agree on them.
LEMMA ChainsAgree ==
    ASSUME NEW heap, IsHistory(heap), NEW grown, IsHistory(grown),
           Len(heap) <= Len(grown),
           \A k \in 1 .. Len(heap) : grown[k] = heap[k],
           NEW n \in 0 .. Len(heap)
    PROVE  CollectMessageChain(grown, n) = CollectMessageChain(heap, n)
<1> DEFINE S == {k \in 0 .. Len(heap) :
                    CollectMessageChain(grown, k) # CollectMessageChain(heap, k)}
<1>1. ASSUME S # {} PROVE FALSE
  <2>1. PICK m \in S : \A k \in S : m <= k
    <3>1. S \in SUBSET Nat
      BY DEF IsHistory
    <3> HIDE DEF S
    <3> QED  BY <1>1, <3>1, Least
  <2>2. m \in 0 .. Len(heap) /\ m \in 0 .. Len(grown)
    BY DEF IsHistory
  <2>3. /\ CollectMessageChain(heap, m) =
               IF m = NullState THEN <<>>
               ELSE Append(CollectMessageChain(heap, heap[m].previous),
                           heap[m].message)
        /\ CollectMessageChain(grown, m) =
               IF m = NullState THEN <<>>
               ELSE Append(CollectMessageChain(grown, grown[m].previous),
                           grown[m].message)
    BY <2>2, ChainRecurrence
  <2>4. CASE m = NullState
    BY <2>1, <2>3, <2>4
  <2>5. CASE m # NullState
    <3>1. grown[m] = heap[m] /\ heap[m].previous \in 0 .. m - 1
      BY <2>2, <2>5 DEF IsHistory, NullState
    <3>2. heap[m].previous \in 0 .. Len(heap) /\ heap[m].previous \notin S
      BY <2>1, <2>2, <3>1 DEF IsHistory
    <3>3. CollectMessageChain(grown, heap[m].previous)
              = CollectMessageChain(heap, heap[m].previous)
      BY <3>2
    <3> QED  BY <2>1, <2>3, <2>5, <3>1, <3>3
  <2> QED  BY <2>4, <2>5
<1> QED  BY <1>1

\* A step that only adds nodes, whatever it does besides.
Grows ==
    /\ StateTypeOK /\ StateTypeOK'
    /\ States \subseteq States'
    /\ \A n \in States : nodes'[n] = nodes[n]

\* The heap is a history: every node continues an older one, or none.
LEMMA StatesAreAHistory ==
    ASSUME StateTypeOK
    PROVE  IsHistory(nodes) /\ States = 1 .. Len(nodes)
BY DEF StateTypeOK, States, IsHistory

\* The conversation a caller holds survives such a step.
LEMMA ConversationsStay ==
    ASSUME Grows, NEW n \in States \cup {NullState}
    PROVE  CollectMessageChain(nodes', n) = CollectMessageChain(nodes, n)
<1>1. /\ IsHistory(nodes) /\ States = 1 .. Len(nodes)
      /\ IsHistory(nodes') /\ States' = 1 .. Len(nodes')
  <2>1. IsHistory(nodes) /\ States = 1 .. Len(nodes)
    BY StatesAreAHistory DEF Grows
  <2>2. IsHistory(nodes') /\ States' = 1 .. Len(nodes')
    BY DEF Grows, StateTypeOK, States, IsHistory
  <2> QED  BY <2>1, <2>2
<1>2. Len(nodes) <= Len(nodes') /\ n \in 0 .. Len(nodes)
  BY <1>1 DEF Grows, IsHistory, NullState
<1> QED  BY <1>1, <1>2, ChainsAgree DEF Grows

\* The conversation that ends in a node continues the one before it.
LEMMA NodeContinues ==
    ASSUME StateTypeOK, NEW n \in States
    PROVE  /\ CollectMessageChain(nodes, n) =
                  Append(CollectMessageChain(nodes, nodes[n].previous),
                         nodes[n].message)
           /\ nodes[n].previous \in States \cup {NullState}
<1>1. IsHistory(nodes) /\ States = 1 .. Len(nodes)
  BY StatesAreAHistory
<1>2. n \in 0 .. Len(nodes) /\ n # NullState
  BY <1>1 DEF NullState, IsHistory
<1>3. nodes[n].previous \in States \cup {NullState}
  BY <1>1 DEF IsHistory, NullState
<1> QED  BY <1>1, <1>2, <1>3, ChainRecurrence

\* AppendMessage adds a node.
LEMMA CallerGrows == ASSUME StateTypeOK, CallerAppends PROVE Grows
BY CallerAppendsNode DEF Grows

-----------------------------------------------------------------------------
(* Lists *)

IsList(s) == s \in Seq(Range(s))

\* A sequence over any set is a list.
LEMMA ListOf == ASSUME NEW S, NEW s \in Seq(S) PROVE IsList(s)
<1>1. /\ Len(s) \in Nat /\ s = [k \in 1 .. Len(s) |-> s[k]]
      /\ \A k \in 1 .. Len(s) : s[k] \in Range(s)
  BY DEF Range
<1> HIDE DEF IsList
<1>2. s \in Seq(Range(s))
  BY <1>1, IsASeq
<1> QED  BY <1>2 DEF IsList

\* What is known of a list with one more element.
LEMMA ListAppend ==
    ASSUME NEW s, IsList(s), NEW x
    PROVE  /\ Len(s) \in Nat /\ DOMAIN s = 1 .. Len(s)
           /\ IsList(Append(s, x))
           /\ Len(Append(s, x)) = Len(s) + 1
           /\ DOMAIN Append(s, x) = 1 .. Len(s) + 1
           /\ \A k \in 1 .. Len(s) : Append(s, x)[k] = s[k]
           /\ Append(s, x)[Len(s) + 1] = x
<1> DEFINE S == Range(s) \cup {x}
<1>1. s \in Seq(S) /\ x \in S
  BY DEF IsList
<1> HIDE DEF S
<1>2. /\ Len(s) \in Nat /\ DOMAIN s = 1 .. Len(s)
      /\ Append(s, x) \in Seq(S)
      /\ Len(Append(s, x)) = Len(s) + 1
      /\ \A k \in 1 .. Len(s) : Append(s, x)[k] = s[k]
      /\ Append(s, x)[Len(s) + 1] = x
  BY <1>1
<1>3. DOMAIN Append(s, x) = 1 .. Len(s) + 1
  BY <1>2
<1>4. IsList(Append(s, x))
  BY <1>2, ListOf
<1> QED  BY <1>2, <1>3, <1>4

\* The positions of a list.
LEMMA ListFacts ==
    ASSUME NEW s, IsList(s)
    PROVE  Len(s) \in Nat /\ DOMAIN s = 1 .. Len(s)
BY DEF IsList

\* Lists are equal that agree at every position.
LEMMA ListsAreEqual ==
    ASSUME NEW s, IsList(s), NEW t, IsList(t), Len(s) = Len(t),
           \A k \in 1 .. Len(s) : s[k] = t[k]
    PROVE  s = t
<1> DEFINE S == Range(s) \cup Range(t)
<1>1. s \in Seq(S) /\ t \in Seq(S)
  BY DEF IsList
<1> HIDE DEF S
<1> QED  BY <1>1, SeqEqual

\* A function on the first n numbers is a list.
LEMMA FunctionIsList ==
    ASSUME NEW n \in Nat, NEW f, DOMAIN f = 1 .. n,
           f = [k \in DOMAIN f |-> f[k]]
    PROVE  IsList(f) /\ Len(f) = n
<1> DEFINE T == {f[k] : k \in 1 .. n}
<1>1. \A k \in 1 .. n : f[k] \in T
  OBVIOUS
<1> HIDE DEF T
<1>2. f \in [1 .. n -> T]
  BY <1>1
<1>3. f \in Seq(T) /\ Len(f) = n
  BY <1>2
<1> QED  BY <1>3, ListOf

\* Two lists one after the other.
LEMMA ListJoin ==
    ASSUME NEW s, IsList(s), NEW t, IsList(t)
    PROVE  /\ IsList(s \o t) /\ Len(s \o t) = Len(s) + Len(t)
           /\ s \o <<>> = s /\ <<>> \o t = t
           /\ \A x : s \o Append(t, x) = Append(s \o t, x)
<1> DEFINE U == Range(s) \cup Range(t)
<1>1. s \in Seq(U) /\ t \in Seq(U)
  BY DEF IsList
<1> HIDE DEF U
<1>2. s \o t \in Seq(U) /\ Len(s \o t) = Len(s) + Len(t)
  BY <1>1
<1>3. s \o <<>> = s /\ <<>> \o t = t
  BY <1>1
<1>4. ASSUME NEW x PROVE s \o Append(t, x) = Append(s \o t, x)
  <2> DEFINE V == U \cup {x}
  <2>1. s \in Seq(V) /\ t \in Seq(V) /\ x \in V
    BY <1>1
  <2> HIDE DEF V
  <2>2. s \o Append(t, x) = Append(s \o t, x)
    BY <2>1
  <2> QED  BY <2>2
<1> QED  BY <1>2, <1>3, <1>4, ListOf

\* A list that agrees with another and has one element more.
LEMMA OneLonger ==
    ASSUME NEW s, IsList(s), NEW t, IsList(t), Len(t) = Len(s) + 1,
           \A k \in 1 .. Len(s) : t[k] = s[k]
    PROVE  t = Append(s, t[Len(s) + 1])
<1> DEFINE x == t[Len(s) + 1]
           u == Append(s, x)
<1>1. /\ Len(s) \in Nat /\ IsList(u) /\ Len(u) = Len(s) + 1
      /\ \A k \in 1 .. Len(s) : u[k] = s[k]
      /\ u[Len(s) + 1] = x
  BY ListAppend
<1> HIDE DEF u
<1>2. ASSUME NEW k \in 1 .. Len(s) + 1 PROVE t[k] = u[k]
  BY <1>1
<1>3. t = u
  BY <1>1, <1>2, ListsAreEqual
<1> QED  BY <1>3 DEF u

\* A piece of a list, element by element.
LEMMA PieceOf ==
    ASSUME NEW s, IsList(s), NEW m \in 1 .. Len(s) + 1, NEW n \in 0 .. Len(s),
           m <= n + 1
    PROVE  /\ IsList(SubSeq(s, m, n))
           /\ Len(SubSeq(s, m, n)) = n - m + 1
           /\ \A k \in 1 .. n - m + 1 : SubSeq(s, m, n)[k] = s[m + k - 1]
<1>1. Len(s) \in Nat
  BY ListFacts
<1>2. \A k \in m .. n : s[k] \in Range(s)
  BY <1>1 DEF IsList
<1>3. /\ SubSeq(s, m, n) \in Seq(Range(s))
      /\ Len(SubSeq(s, m, n)) = IF m <= n THEN n - m + 1 ELSE 0
      /\ \A k \in 1 .. n - m + 1 : SubSeq(s, m, n)[k] = s[m + k - 1]
  BY <1>1, <1>2, SubSeqProperties
<1>4. IsList(SubSeq(s, m, n))
  BY <1>3, ListOf
<1> QED  BY <1>1, <1>3, <1>4

\* The same for a piece from the beginning.
LEMMA FirstOf ==
    ASSUME NEW s, IsList(s), NEW n \in 0 .. Len(s)
    PROVE  /\ IsList(SubSeq(s, 1, n)) /\ Len(SubSeq(s, 1, n)) = n
           /\ \A k \in 1 .. n : SubSeq(s, 1, n)[k] = s[k]
<1>1. Len(s) \in Nat
  BY ListFacts
<1>2. 1 \in 1 .. Len(s) + 1 /\ 1 <= n + 1
  BY <1>1
<1>3. n - 1 + 1 = n /\ \A k \in 1 .. n : 1 + k - 1 = k
  BY <1>1
<1>4. /\ IsList(SubSeq(s, 1, n)) /\ Len(SubSeq(s, 1, n)) = n - 1 + 1
      /\ \A k \in 1 .. n - 1 + 1 : SubSeq(s, 1, n)[k] = s[1 + k - 1]
  BY <1>2, PieceOf
<1> QED  BY <1>3, <1>4

\* What a prefix of a list is, position by position.
LEMMA PrefixMeans ==
    ASSUME NEW p, IsList(p), NEW s, IsList(s)
    PROVE  IsPrefix(p, s) <=> /\ Len(p) <= Len(s)
                              /\ \A k \in 1 .. Len(p) : s[k] = p[k]
<1>1. Len(p) \in Nat /\ Len(s) \in Nat
  BY ListFacts
<1>2. ASSUME Len(p) <= Len(s)
      PROVE  /\ IsList(SubSeq(s, 1, Len(p))) /\ IsList(SubSeq(p, 1, Len(p)))
             /\ Len(SubSeq(s, 1, Len(p))) = Len(p)
             /\ Len(SubSeq(p, 1, Len(p))) = Len(p)
             /\ \A k \in 1 .. Len(p) : /\ SubSeq(s, 1, Len(p))[k] = s[k]
                                       /\ SubSeq(p, 1, Len(p))[k] = p[k]
  <2>1. Len(p) \in 0 .. Len(s) /\ Len(p) \in 0 .. Len(p)
    BY <1>1, <1>2
  <2> QED  BY <2>1, FirstOf
<1>3. IsPrefix(p, s) <=> /\ Len(p) <= Len(s)
                         /\ SubSeq(p, 1, Len(p)) = SubSeq(s, 1, Len(p))
  BY DEF IsPrefix
<1>4. ASSUME Len(p) <= Len(s)
      PROVE  SubSeq(p, 1, Len(p)) = SubSeq(s, 1, Len(p)) <=>
                 \A k \in 1 .. Len(p) : s[k] = p[k]
  <2>1. ASSUME \A k \in 1 .. Len(p) : s[k] = p[k]
        PROVE  SubSeq(p, 1, Len(p)) = SubSeq(s, 1, Len(p))
    <3>1. \A k \in 1 .. Len(p) :
              SubSeq(p, 1, Len(p))[k] = SubSeq(s, 1, Len(p))[k]
      BY <1>2, <1>4, <2>1
    <3> QED  BY <1>2, <1>4, <3>1, ListsAreEqual
  <2>2. ASSUME SubSeq(p, 1, Len(p)) = SubSeq(s, 1, Len(p)),
               NEW k \in 1 .. Len(p)
        PROVE  s[k] = p[k]
    BY <1>2, <1>4, <2>2
  <2> QED  BY <2>1, <2>2
<1> QED  BY <1>3, <1>4

\* So is every conversation of a well-formed history.
LEMMA ConversationIsList ==
    ASSUME StateTypeOK, NEW s \in States \cup {NullState}
    PROVE  IsList(CollectMessageChain(nodes, s))
<1>1. IsHistory(nodes) /\ States = 1 .. Len(nodes) /\ Len(nodes) \in Nat
  BY StatesAreAHistory DEF IsHistory
<1> DEFINE S == {n \in 0 .. Len(nodes) :
                    ~ IsList(CollectMessageChain(nodes, n))}
<1>2. ASSUME S # {} PROVE FALSE
  <2>1. PICK m \in S : \A k \in S : m <= k
    <3>1. S \in SUBSET Nat
      BY <1>1
    <3> HIDE DEF S
    <3> QED  BY <1>2, <3>1, Least
  <2>2. m \in 0 .. Len(nodes) /\ ~ IsList(CollectMessageChain(nodes, m))
    BY <2>1
  <2>3. CASE m = NullState
    <3>1. CollectMessageChain(nodes, m) = <<>>
      BY <1>1, <2>2, <2>3, ChainRecurrence
    <3> QED  BY <2>2, <3>1 DEF IsList
  <2>4. CASE m # NullState
    <3>1. nodes[m].previous \in 0 .. m - 1
      BY <1>1, <2>2, <2>4 DEF IsHistory, NullState
    <3>2. nodes[m].previous \in 0 .. Len(nodes) /\ ~ (m <= nodes[m].previous)
      BY <1>1, <2>2, <3>1
    <3>3. IsList(CollectMessageChain(nodes, nodes[m].previous))
      BY <2>1, <3>2
    <3>4. CollectMessageChain(nodes, m) =
              Append(CollectMessageChain(nodes, nodes[m].previous),
                     nodes[m].message)
      BY <1>1, <2>2, <2>4, ChainRecurrence
    <3> QED  BY <2>2, <3>3, <3>4, ListAppend
  <2> QED  BY <2>3, <2>4
<1>3. s \in 0 .. Len(nodes)
  BY <1>1 DEF NullState
<1> QED  BY <1>2, <1>3

-----------------------------------------------------------------------------
(* Tool calls *)

KeptStep(seq, dropped, kept, n) ==
    IF n = 0 THEN <<>>
    ELSE IF seq[n] = dropped THEN kept[n - 1]
    ELSE Append(kept[n - 1], seq[n])

AreKept(seq, dropped, kept) ==
    kept = [n \in 0 .. Len(seq) |-> KeptStep(seq, dropped, kept, n)]

\* The recursion of Without has a solution.
LEMMA KeptExists ==
    ASSUME NEW seq, Len(seq) \in Nat, NEW dropped
    PROVE  \E kept : AreKept(seq, dropped, kept)
<1> DEFINE Partly(m, g) == \A n \in 0 .. m :
                               g[n] = KeptStep(seq, dropped, g, n)
           S == {m \in 0 .. Len(seq) : ~ \E g : Partly(m, g)}
<1>1. ASSUME S # {} PROVE FALSE
  <2>1. PICK m \in S : \A k \in S : m <= k
    <3>1. S \in SUBSET Nat
      OBVIOUS
    <3> HIDE DEF S
    <3> QED  BY <1>1, <3>1, Least
  <2>2. m \in 0 .. Len(seq) /\ ~ \E g : Partly(m, g)
    BY <2>1
  <2>3. PICK g : \A n \in 0 .. m - 1 : g[n] = KeptStep(seq, dropped, g, n)
    <3>1. CASE m = 0
      BY <2>2, <3>1
    <3>2. CASE m # 0
      <4>1. m - 1 \in 0 .. Len(seq) /\ ~ (m <= m - 1)
        BY <2>2, <3>2
      <4>2. m - 1 \notin S
        BY <2>1, <4>1
      <4> QED  BY <4>1, <4>2
    <3> QED  BY <3>1, <3>2
  <2> DEFINE h == [n \in 0 .. m |-> IF n = m
                                    THEN KeptStep(seq, dropped, g, m)
                                    ELSE g[n]]
  <2>4. ASSUME NEW n \in 0 .. m PROVE h[n] = KeptStep(seq, dropped, h, n)
    <3>1. h[n] = KeptStep(seq, dropped, g, n)
      BY <2>2, <2>3
    <3>2. CASE n = 0
      BY <3>1, <3>2 DEF KeptStep
    <3>3. CASE n # 0
      <4>1. n - 1 \in 0 .. m /\ n - 1 # m
        BY <2>2, <3>3
      <4>2. h[n - 1] = g[n - 1]
        BY <4>1
      <4> QED  BY <3>1, <4>2 DEF KeptStep
    <3> QED  BY <3>2, <3>3
  <2> QED  BY <2>2, <2>4
<1>2. PICK g : Partly(Len(seq), g)
  BY <1>1
<1> DEFINE kept == [n \in 0 .. Len(seq) |-> g[n]]
<1>3. ASSUME NEW n \in 0 .. Len(seq)
      PROVE  kept[n] = KeptStep(seq, dropped, kept, n)
  <2>1. CASE n = 0
    BY <1>2, <2>1 DEF KeptStep
  <2>2. CASE n # 0
    <3>1. n - 1 \in 0 .. Len(seq)
      BY <2>2
    <3> QED  BY <1>2, <3>1 DEF KeptStep
  <2> QED  BY <2>1, <2>2
<1>4. AreKept(seq, dropped, kept)
  BY <1>3 DEF AreKept
<1> QED  BY <1>4

Remains(seq, dropped) == CHOOSE kept : AreKept(seq, dropped, kept)

\* What Without computes, step by step.
LEMMA RemainsRecurrence ==
    ASSUME NEW seq, Len(seq) \in Nat, NEW dropped
    PROVE  /\ Without(seq, dropped) = Remains(seq, dropped)[Len(seq)]
           /\ \A n \in 0 .. Len(seq) :
                  Remains(seq, dropped)[n]
                      = KeptStep(seq, dropped, Remains(seq, dropped), n)
<1>1. AreKept(seq, dropped, Remains(seq, dropped))
  BY KeptExists DEF Remains
<1>2. Without(seq, dropped) = Remains(seq, dropped)[Len(seq)]
  BY DEF Without, Remains, AreKept, KeptStep
<1> QED  BY <1>1, <1>2 DEF AreKept

\* What it keeps is a list, without what it drops.
LEMMA WithoutIsList ==
    ASSUME NEW seq, Len(seq) \in Nat, NEW dropped
    PROVE  /\ IsList(Without(seq, dropped))
           /\ \A k \in 1 .. Len(Without(seq, dropped)) :
                  Without(seq, dropped)[k] # dropped
<1> DEFINE kept == Remains(seq, dropped)
           Free(s) == /\ IsList(s)
                      /\ \A k \in 1 .. Len(s) : s[k] # dropped
           S == {n \in 0 .. Len(seq) : ~ Free(kept[n])}
<1>1. \A n \in 0 .. Len(seq) : kept[n] = KeptStep(seq, dropped, kept, n)
  BY RemainsRecurrence
<1> HIDE DEF kept
<1>2. ASSUME S # {} PROVE FALSE
  <2>1. PICK m \in S : \A k \in S : m <= k
    <3>1. S \in SUBSET Nat
      OBVIOUS
    <3> HIDE DEF S
    <3> QED  BY <1>2, <3>1, Least
  <2>2. CASE m = 0
    <3>1. kept[m] = <<>>
      BY <1>1, <2>1, <2>2 DEF KeptStep
    <3>2. Free(<<>>)
      BY DEF IsList
    <3> QED  BY <2>1, <3>1, <3>2
  <2>3. CASE m # 0
    <3>1. m - 1 \in 0 .. Len(seq) /\ m - 1 \notin S
      <4>1. m - 1 \in 0 .. Len(seq) /\ ~ (m <= m - 1)
        BY <2>3
      <4>2. m - 1 \notin S
        BY <2>1, <4>1
      <4> QED  BY <4>1, <4>2
    <3>2. Free(kept[m - 1])
      BY <3>1
    <3>3. \/ kept[m] = kept[m - 1]
          \/ seq[m] # dropped /\ kept[m] = Append(kept[m - 1], seq[m])
      BY <1>1, <2>1, <2>3 DEF KeptStep
    <3>4. ASSUME NEW s, Free(s), NEW x, x # dropped
          PROVE  Free(Append(s, x))
      <4>1. /\ Len(s) \in Nat /\ IsList(Append(s, x))
            /\ Len(Append(s, x)) = Len(s) + 1
            /\ \A k \in 1 .. Len(s) : Append(s, x)[k] = s[k]
            /\ Append(s, x)[Len(s) + 1] = x
        BY <3>4, ListAppend
      <4>2. ASSUME NEW k \in 1 .. Len(s) + 1 PROVE Append(s, x)[k] # dropped
        BY <3>4, <4>1, <4>2
      <4> QED  BY <4>1, <4>2
    <3> HIDE DEF Free
    <3>5. Free(kept[m])
      BY <3>2, <3>3, <3>4
    <3> QED  BY <2>1, <3>5
  <2> QED  BY <2>2, <2>3
<1>3. Free(kept[Len(seq)])
  BY <1>2
<1> QED  BY <1>3, RemainsRecurrence DEF kept

\* Nothing of nothing; and of a list with one more element, what was kept of the
\* list, and the element if it is not dropped.
LEMMA WithoutNothing == ASSUME NEW dropped PROVE Without(<<>>, dropped) = <<>>
<1>1. Len(<<>>) = 0
  OBVIOUS
<1> QED  BY <1>1, RemainsRecurrence DEF KeptStep

\* What is left of a list with one element more.
LEMMA WithoutAppend ==
    ASSUME NEW seq, IsList(seq), NEW x, NEW dropped
    PROVE  Without(Append(seq, x), dropped)
               = IF x = dropped THEN Without(seq, dropped)
                 ELSE Append(Without(seq, dropped), x)
<1> DEFINE longer == Append(seq, x)
           g == Remains(seq, dropped)
           h == Remains(longer, dropped)
           S == {n \in 0 .. Len(seq) : g[n] # h[n]}
<1>1. /\ Len(seq) \in Nat /\ Len(longer) = Len(seq) + 1
      /\ \A k \in 1 .. Len(seq) : longer[k] = seq[k]
      /\ longer[Len(seq) + 1] = x
  BY ListAppend
<1> HIDE DEF longer
<1>2. /\ Without(seq, dropped) = g[Len(seq)]
      /\ \A n \in 0 .. Len(seq) : g[n] = KeptStep(seq, dropped, g, n)
  BY <1>1, RemainsRecurrence
<1>3. /\ Without(longer, dropped) = h[Len(seq) + 1]
      /\ \A n \in 0 .. Len(seq) + 1 : h[n] = KeptStep(longer, dropped, h, n)
  <2>1. Len(longer) \in Nat
    BY <1>1
  <2> QED  BY <1>1, <2>1, RemainsRecurrence
<1> HIDE DEF g, h
<1>4. ASSUME S # {} PROVE FALSE
  <2>1. PICK m \in S : \A k \in S : m <= k
    <3>1. S \in SUBSET Nat
      BY <1>1
    <3> HIDE DEF S
    <3> QED  BY <1>4, <3>1, Least
  <2>2. /\ m \in 0 .. Len(seq) /\ g[m] # h[m]
        /\ g[m] = KeptStep(seq, dropped, g, m)
        /\ h[m] = KeptStep(longer, dropped, h, m)
    BY <1>1, <1>2, <1>3, <2>1
  <2>3. CASE m = 0
    BY <2>2, <2>3 DEF KeptStep
  <2>4. CASE m # 0
    <3>1. m - 1 \in 0 .. Len(seq) /\ m - 1 \notin S /\ m \in 1 .. Len(seq)
      <4>1. m - 1 \in 0 .. Len(seq) /\ m \in 1 .. Len(seq) /\ ~ (m <= m - 1)
        BY <1>1, <2>2, <2>4
      <4>2. m - 1 \notin S
        BY <2>1, <4>1
      <4> QED  BY <4>1, <4>2
    <3>2. g[m - 1] = h[m - 1] /\ longer[m] = seq[m]
      BY <1>1, <3>1
    <3> QED  BY <2>2, <2>4, <3>2 DEF KeptStep
  <2> QED  BY <2>3, <2>4
<1>5. g[Len(seq)] = h[Len(seq)]
  BY <1>1, <1>4
<1>6. /\ h[Len(seq) + 1] = KeptStep(longer, dropped, h, Len(seq) + 1)
      /\ Len(seq) + 1 # 0 /\ Len(seq) + 1 - 1 = Len(seq)
  BY <1>1, <1>3
<1>7. h[Len(seq) + 1] = IF x = dropped THEN h[Len(seq)]
                        ELSE Append(h[Len(seq)], x)
  BY <1>1, <1>6 DEF KeptStep
<1> QED  BY <1>2, <1>3, <1>5, <1>7 DEF longer

\* What remains of a list was in it.
LEMMA WithoutIsFrom ==
    ASSUME NEW seq, Len(seq) \in Nat, NEW dropped
    PROVE  \A k \in 1 .. Len(Without(seq, dropped)) :
               \E j \in 1 .. Len(seq) : Without(seq, dropped)[k] = seq[j]
<1> DEFINE kept == Remains(seq, dropped)
           From(s) == /\ IsList(s)
                      /\ \A k \in 1 .. Len(s) :
                             \E j \in 1 .. Len(seq) : s[k] = seq[j]
           S == {n \in 0 .. Len(seq) : ~ From(kept[n])}
<1>1. \A n \in 0 .. Len(seq) : kept[n] = KeptStep(seq, dropped, kept, n)
  BY RemainsRecurrence
<1> HIDE DEF kept
<1>2. ASSUME S # {} PROVE FALSE
  <2>1. PICK m \in S : \A k \in S : m <= k
    <3>1. S \in SUBSET Nat
      OBVIOUS
    <3> HIDE DEF S
    <3> QED  BY <1>2, <3>1, Least
  <2>2. CASE m = 0
    <3>1. kept[m] = <<>>
      BY <1>1, <2>1, <2>2 DEF KeptStep
    <3>2. From(<<>>)
      BY DEF IsList
    <3> QED  BY <2>1, <3>1, <3>2
  <2>3. CASE m # 0
    <3>1. m - 1 \in 0 .. Len(seq) /\ m - 1 \notin S /\ m \in 1 .. Len(seq)
      <4>1. m - 1 \in 0 .. Len(seq) /\ m \in 1 .. Len(seq) /\ ~ (m <= m - 1)
        BY <2>3
      <4>2. m - 1 \notin S
        BY <2>1, <4>1
      <4> QED  BY <4>1, <4>2
    <3>2. From(kept[m - 1])
      BY <3>1
    <3>3. \/ kept[m] = kept[m - 1]
          \/ kept[m] = Append(kept[m - 1], seq[m])
      BY <1>1, <2>1, <2>3 DEF KeptStep
    <3>4. ASSUME NEW s, From(s), NEW j \in 1 .. Len(seq)
          PROVE  From(Append(s, seq[j]))
      <4>1. /\ Len(s) \in Nat /\ IsList(Append(s, seq[j]))
            /\ Len(Append(s, seq[j])) = Len(s) + 1
            /\ \A k \in 1 .. Len(s) : Append(s, seq[j])[k] = s[k]
            /\ Append(s, seq[j])[Len(s) + 1] = seq[j]
        BY <3>4, ListAppend
      <4>2. ASSUME NEW k \in 1 .. Len(s) + 1
            PROVE  \E i \in 1 .. Len(seq) : Append(s, seq[j])[k] = seq[i]
        BY <3>4, <4>1, <4>2
      <4> QED  BY <4>1, <4>2
    <3> HIDE DEF From
    <3>5. From(kept[m])
      BY <3>1, <3>2, <3>3, <3>4
    <3> QED  BY <2>1, <3>5
  <2> QED  BY <2>2, <2>3
<1>3. From(kept[Len(seq)])
  BY <1>2
<1> QED  BY <1>3, RemainsRecurrence DEF kept

\* A list of which nothing is dropped remains as it is.
LEMMA WithoutKeepsAll ==
    ASSUME NEW seq, IsList(seq), NEW dropped,
           \A k \in 1 .. Len(seq) : seq[k] # dropped
    PROVE  Without(seq, dropped) = seq
<1> DEFINE kept == Remains(seq, dropped)
           S == {n \in 0 .. Len(seq) : kept[n] # SubSeq(seq, 1, n)}
<1>1. /\ Len(seq) \in Nat /\ seq \in Seq(Range(seq))
      /\ DOMAIN seq = 1 .. Len(seq)
  BY DEF IsList
<1>2. \A n \in 0 .. Len(seq) : kept[n] = KeptStep(seq, dropped, kept, n)
  BY <1>1, RemainsRecurrence
<1> HIDE DEF kept
<1>3. ASSUME S # {} PROVE FALSE
  <2>1. PICK m \in S : \A k \in S : m <= k
    <3>1. S \in SUBSET Nat
      BY <1>1
    <3> HIDE DEF S
    <3> QED  BY <1>3, <3>1, Least
  <2>2. CASE m = 0
    <3>1. kept[m] = <<>> /\ SubSeq(seq, 1, m) = <<>>
      BY <1>1, <1>2, <2>1, <2>2 DEF KeptStep
    <3> QED  BY <2>1, <3>1
  <2>3. CASE m # 0
    <3>1. m - 1 \in 0 .. Len(seq) /\ m - 1 \notin S /\ m \in 1 .. Len(seq)
      <4>1. m - 1 \in 0 .. Len(seq) /\ m \in 1 .. Len(seq) /\ ~ (m <= m - 1)
        BY <1>1, <2>3
      <4>2. m - 1 \notin S
        BY <2>1, <4>1
      <4> QED  BY <4>1, <4>2
    <3>2. kept[m] = Append(SubSeq(seq, 1, m - 1), seq[m])
      BY <1>2, <2>3, <3>1 DEF KeptStep
    <3>3. Append(SubSeq(seq, 1, m - 1), seq[m]) = SubSeq(seq, 1, m)
      BY <1>1, <3>1
    <3> QED  BY <2>1, <3>2, <3>3
  <2> QED  BY <2>2, <2>3
<1>4. kept[Len(seq)] = SubSeq(seq, 1, Len(seq))
  BY <1>1, <1>3
<1>5. SubSeq(seq, 1, Len(seq)) = seq
  BY <1>1
<1> QED  BY <1>1, <1>4, <1>5, RemainsRecurrence DEF kept

\* If every element is dropped, nothing is left.
LEMMA WithoutAny ==
    ASSUME NEW seq, IsList(seq), NEW dropped,
           \A k \in 1 .. Len(seq) : seq[k] = dropped
    PROVE  Without(seq, dropped) = <<>>
<1> DEFINE left == Without(seq, dropped)
<1>1. Len(seq) \in Nat
  BY ListFacts
<1>2. /\ IsList(left) /\ \A k \in 1 .. Len(left) : left[k] # dropped
      /\ \A k \in 1 .. Len(left) : \E j \in 1 .. Len(seq) : left[k] = seq[j]
  BY <1>1, WithoutIsList, WithoutIsFrom
<1> HIDE DEF left
<1>3. 1 \notin 1 .. Len(left)
  BY <1>2
<1>4. left = <<>>
  BY <1>2, <1>3, ListFacts DEF IsList
<1> QED  BY <1>4 DEF left

-----------------------------------------------------------------------------
(* Lists put together *)

FlatStep(seqs, flat, i) ==
    IF i = 1 THEN seqs[i] ELSE flat[i - 1] \o seqs[i]

AreFlat(seqs, flat) ==
    flat = [i \in 1 .. Len(seqs) |-> FlatStep(seqs, flat, i)]

\* The recursion of FlattenSeq has a solution.
LEMMA FlatExists ==
    ASSUME NEW seqs, Len(seqs) \in Nat
    PROVE  \E flat : AreFlat(seqs, flat)
<1> DEFINE Partly(m, g) == \A n \in 1 .. m : g[n] = FlatStep(seqs, g, n)
           S == {m \in 0 .. Len(seqs) : ~ \E g : Partly(m, g)}
<1>1. ASSUME S # {} PROVE FALSE
  <2>1. PICK m \in S : \A k \in S : m <= k
    <3>1. S \in SUBSET Nat
      OBVIOUS
    <3> HIDE DEF S
    <3> QED  BY <1>1, <3>1, Least
  <2>2. m \in 0 .. Len(seqs) /\ ~ \E g : Partly(m, g)
    BY <2>1
  <2>3. m # 0
    BY <2>2
  <2>4. PICK g : \A n \in 1 .. m - 1 : g[n] = FlatStep(seqs, g, n)
    <3>1. m - 1 \in 0 .. Len(seqs) /\ ~ (m <= m - 1)
      BY <2>2, <2>3
    <3>2. m - 1 \notin S
      BY <2>1, <3>1
    <3> QED  BY <3>1, <3>2
  <2> DEFINE h == [n \in 1 .. m |-> IF n = m THEN FlatStep(seqs, g, m)
                                    ELSE g[n]]
  <2>5. ASSUME NEW n \in 1 .. m PROVE h[n] = FlatStep(seqs, h, n)
    <3>1. h[n] = FlatStep(seqs, g, n)
      BY <2>2, <2>4
    <3>2. CASE n = 1
      BY <3>1, <3>2 DEF FlatStep
    <3>3. CASE n # 1
      <4>1. n - 1 \in 1 .. m /\ n - 1 # m
        BY <2>2, <3>3
      <4>2. h[n - 1] = g[n - 1]
        BY <4>1
      <4> QED  BY <3>1, <4>2 DEF FlatStep
    <3> QED  BY <3>2, <3>3
  <2> QED  BY <2>2, <2>5
<1>2. PICK g : Partly(Len(seqs), g)
  BY <1>1
<1> DEFINE flat == [n \in 1 .. Len(seqs) |-> g[n]]
<1>3. ASSUME NEW n \in 1 .. Len(seqs)
      PROVE  flat[n] = FlatStep(seqs, flat, n)
  <2>1. CASE n = 1
    BY <1>2, <2>1 DEF FlatStep
  <2>2. CASE n # 1
    <3>1. n - 1 \in 1 .. Len(seqs)
      BY <2>2
    <3> QED  BY <1>2, <3>1 DEF FlatStep
  <2> QED  BY <2>1, <2>2
<1>4. AreFlat(seqs, flat)
  BY <1>3 DEF AreFlat
<1> QED  BY <1>4

Flat(seqs) == CHOOSE flat : AreFlat(seqs, flat)

\* What FlattenSeq computes, step by step.
LEMMA FlatRecurrence ==
    ASSUME NEW seqs, IsList(seqs), seqs # <<>>
    PROVE  /\ FlattenSeq(seqs) = Flat(seqs)[Len(seqs)]
           /\ \A i \in 1 .. Len(seqs) :
                  Flat(seqs)[i] = FlatStep(seqs, Flat(seqs), i)
<1>1. Len(seqs) \in Nat /\ Len(seqs) # 0
  BY DEF IsList
<1>2. AreFlat(seqs, Flat(seqs))
  BY <1>1, FlatExists DEF Flat
<1>3. FlattenSeq(seqs) = Flat(seqs)[Len(seqs)]
  BY <1>1 DEF FlattenSeq, Flat, AreFlat, FlatStep
<1> QED  BY <1>2, <1>3 DEF AreFlat

\* One sequence more is appended to all before it.
LEMMA FlattenAppend ==
    ASSUME NEW seqs, IsList(seqs), NEW t, IsList(t)
    PROVE  FlattenSeq(Append(seqs, t)) = FlattenSeq(seqs) \o t
<1> DEFINE longer == Append(seqs, t)
           g == Flat(seqs)
           h == Flat(longer)
           S == {n \in 1 .. Len(seqs) : g[n] # h[n]}
<1>1. /\ Len(seqs) \in Nat /\ IsList(longer) /\ Len(longer) = Len(seqs) + 1
      /\ \A k \in 1 .. Len(seqs) : longer[k] = seqs[k]
      /\ longer[Len(seqs) + 1] = t
  BY ListAppend
<1> HIDE DEF longer
<1>2. longer # <<>>
  BY <1>1
<1>3. /\ FlattenSeq(longer) = h[Len(seqs) + 1]
      /\ \A n \in 1 .. Len(seqs) + 1 : h[n] = FlatStep(longer, h, n)
  BY <1>1, <1>2, FlatRecurrence
<1>4. CASE seqs = <<>>
  <2>1. FlattenSeq(seqs) = <<>> /\ Len(seqs) = 0
    BY <1>4 DEF FlattenSeq
  <2>2. h[Len(seqs) + 1] = t
    BY <1>1, <1>3, <2>1 DEF FlatStep
  <2>3. <<>> \o t = t
    BY ListJoin
  <2> QED  BY <1>3, <2>1, <2>2, <2>3 DEF longer
<1>5. CASE seqs # <<>>
  <2>1. /\ FlattenSeq(seqs) = g[Len(seqs)]
        /\ \A n \in 1 .. Len(seqs) : g[n] = FlatStep(seqs, g, n)
    BY <1>5, FlatRecurrence
  <2> HIDE DEF g, h
  <2>2. ASSUME S # {} PROVE FALSE
    <3>1. PICK m \in S : \A k \in S : m <= k
      <4>1. S \in SUBSET Nat
        OBVIOUS
      <4> HIDE DEF S
      <4> QED  BY <2>2, <4>1, Least
    <3>2. /\ m \in 1 .. Len(seqs) /\ g[m] # h[m]
          /\ g[m] = FlatStep(seqs, g, m) /\ h[m] = FlatStep(longer, h, m)
      BY <1>1, <1>3, <2>1, <3>1
    <3>3. CASE m = 1
      BY <1>1, <3>2, <3>3 DEF FlatStep
    <3>4. CASE m # 1
      <4>1. m - 1 \in 1 .. Len(seqs) /\ ~ (m <= m - 1)
        BY <1>1, <3>2, <3>4
      <4>2. g[m - 1] = h[m - 1]
        BY <3>1, <4>1
      <4> QED  BY <1>1, <3>2, <3>4, <4>2 DEF FlatStep
    <3> QED  BY <3>3, <3>4
  <2>3. Len(seqs) # 0 /\ Len(seqs) \in 1 .. Len(seqs)
    BY <1>1, <1>5 DEF IsList
  <2>4. g[Len(seqs)] = h[Len(seqs)]
    BY <2>2, <2>3
  <2>5. /\ h[Len(seqs) + 1] = FlatStep(longer, h, Len(seqs) + 1)
        /\ Len(seqs) + 1 # 1 /\ Len(seqs) + 1 - 1 = Len(seqs)
    BY <1>1, <1>3, <2>3
  <2>6. h[Len(seqs) + 1] = h[Len(seqs)] \o t
    BY <1>1, <2>5 DEF FlatStep
  <2> QED  BY <1>3, <2>1, <2>4, <2>6 DEF longer
<1> QED  BY <1>4, <1>5

-----------------------------------------------------------------------------
(* Indices in their order *)

Below(indices, i) == {j \in indices : j < i}

Rank(indices, i) == Cardinality(Below(indices, i))

\* The greater index has more indices below it.
LEMMA RankGrows ==
    ASSUME NEW indices \in SUBSET Int, IsFiniteSet(indices),
           NEW i \in indices, NEW j \in indices, i < j
    PROVE  /\ Rank(indices, i) \in Nat /\ Rank(indices, j) \in Nat
           /\ Rank(indices, i) < Rank(indices, j)
<1>1. \A k \in indices : Below(indices, k) \in SUBSET indices
  BY DEF Below
<1>2. /\ IsFiniteSet(Below(indices, i)) /\ IsFiniteSet(Below(indices, j))
  BY <1>1, FS_Subset
<1>3. /\ Rank(indices, i) \in Nat /\ Rank(indices, j) \in Nat
  BY <1>2, FS_CardinalityType DEF Rank
<1> DEFINE T == Below(indices, i) \cup {i}
<1>4. i \notin Below(indices, i) /\ T \in SUBSET Below(indices, j)
  <2>1. i \in Int /\ j \in Int
    OBVIOUS
  <2>2. i \notin Below(indices, i) /\ i \in Below(indices, j)
    BY <2>1 DEF Below
  <2>3. ASSUME NEW k \in Below(indices, i) PROVE k \in Below(indices, j)
    <3>1. k \in Int /\ k \in indices /\ k < i
      BY DEF Below
    <3> QED  BY <2>1, <3>1 DEF Below
  <2> QED  BY <2>2, <2>3
<1>5. Cardinality(T) = Rank(indices, i) + 1
  BY <1>2, <1>4, FS_AddElement DEF Rank
<1> HIDE DEF T
<1>6. Cardinality(T) <= Rank(indices, j)
  BY <1>2, <1>4, FS_Subset DEF Rank
<1> QED  BY <1>3, <1>5, <1>6

\* Every index has less below it than there are indices.
LEMMA RankIsSmaller ==
    ASSUME NEW indices \in SUBSET Int, IsFiniteSet(indices), NEW i \in indices
    PROVE  Rank(indices, i) \in Nat /\ Rank(indices, i) < Cardinality(indices)
<1>1. Below(indices, i) \in SUBSET indices /\ i \notin Below(indices, i)
  BY DEF Below
<1>2. /\ IsFiniteSet(Below(indices, i))
      /\ Rank(indices, i) <= Cardinality(indices)
      /\ Rank(indices, i) # Cardinality(indices)
  BY <1>1, FS_Subset DEF Rank
<1>3. Rank(indices, i) \in Nat /\ Cardinality(indices) \in Nat
  BY <1>2, FS_CardinalityType DEF Rank
<1> QED  BY <1>2, <1>3

\* The ranks of n indices are the numbers below n, one each: the n-th index
\* exists (BuildToolCallsFromAccumulation visits each accumulator once).
LEMMA NthIsAnIndex ==
    ASSUME NEW indices \in SUBSET Int, IsFiniteSet(indices),
           NEW n \in 1 .. Cardinality(indices)
    PROVE  /\ NthIndex(indices, n) \in indices
           /\ Rank(indices, NthIndex(indices, n)) = n - 1
<1> DEFINE N == Cardinality(indices)
           f == [i \in indices |-> Rank(indices, i)]
<1>1. N \in Nat
  BY FS_CardinalityType
<1>2. ASSUME NEW i \in indices PROVE Rank(indices, i) \in 0 .. N - 1
  BY <1>1, RankIsSmaller
<1>3. IsFiniteSet(0 .. N - 1) /\ Cardinality(0 .. N - 1) = N
  <2> HIDE DEF N
  <2>1. 0 \in Int /\ N - 1 \in Int /\ (0 > N - 1 <=> N = 0)
    BY <1>1
  <2>2. /\ IsFiniteSet(0 .. N - 1)
        /\ Cardinality(0 .. N - 1) = IF 0 > N - 1 THEN 0 ELSE N - 1 - 0 + 1
    BY <2>1, FS_Interval
  <2> QED  BY <1>1, <2>1, <2>2
<1>4. ASSUME NEW i \in indices, NEW j \in indices, f[i] = f[j] PROVE i = j
  <2>1. ASSUME i < j PROVE FALSE
    BY <1>4, <2>1, RankGrows
  <2>2. ASSUME j < i PROVE FALSE
    BY <1>4, <2>2, RankGrows
  <2> QED  BY <2>1, <2>2
<1>5. f \in Injection(indices, 0 .. N - 1)
  BY <1>2, <1>4 DEF Injection, IsInjective
<1>6. f \in Surjection(indices, 0 .. N - 1)
  BY <1>3, <1>5, FS_Injection
<1>7. \E i \in indices : Rank(indices, i) = n - 1
  <2>1. n - 1 \in 0 .. N - 1
    BY <1>1
  <2> QED  BY <1>6, <2>1 DEF Surjection
<1> QED  BY <1>7 DEF NthIndex, Rank, Below

\* An index is the n-th if n - 1 are below it.
LEMMA NthHasRank ==
    ASSUME NEW indices \in SUBSET Int, IsFiniteSet(indices),
           NEW i \in indices, NEW n \in Nat, Rank(indices, i) = n - 1
    PROVE  NthIndex(indices, n) = i
<1> DEFINE j == NthIndex(indices, n)
<1>1. j \in indices /\ Rank(indices, j) = n - 1
  BY DEF NthIndex, Rank, Below
<1> HIDE DEF j
<1>2. ASSUME i < j PROVE FALSE
  BY <1>1, <1>2, RankGrows
<1>3. ASSUME j < i PROVE FALSE
  BY <1>1, <1>3, RankGrows
<1>4. j = i
  BY <1>1, <1>2, <1>3
<1> QED  BY <1>4 DEF j

\* A greatest index comes last, and the others stay where they were.
LEMMA GreatestComesLast ==
    ASSUME NEW indices \in SUBSET Int, IsFiniteSet(indices),
           NEW top \in Int, \A i \in indices : i < top
    PROVE  LET more == indices \cup {top}
           IN  /\ IsFiniteSet(more) /\ more \in SUBSET Int
               /\ Cardinality(indices) \in Nat
               /\ Cardinality(more) = Cardinality(indices) + 1
               /\ NthIndex(more, Cardinality(indices) + 1) = top
               /\ \A n \in 1 .. Cardinality(indices) :
                      NthIndex(more, n) = NthIndex(indices, n)
<1> DEFINE more == indices \cup {top}
           N == Cardinality(indices)
<1>1. top \notin indices
  OBVIOUS
<1>2. /\ IsFiniteSet(more) /\ more \in SUBSET Int
      /\ N \in Nat /\ Cardinality(more) = N + 1
  BY <1>1, FS_AddElement, FS_CardinalityType
<1>3. Below(more, top) = indices
  <2>1. \A j \in more : j < top <=> j \in indices
    OBVIOUS
  <2> QED  BY <2>1 DEF Below
<1>4. ASSUME NEW i \in indices PROVE Below(more, i) = Below(indices, i)
  BY DEF Below
<1> HIDE DEF N
<1>5. NthIndex(more, N + 1) = top
  <2>1. Rank(more, top) = N + 1 - 1
    BY <1>2, <1>3 DEF Rank, N
  <2>2. N + 1 \in Nat /\ top \in more
    BY <1>2
  <2> HIDE DEF more
  <2> QED  BY <1>2, <2>1, <2>2, NthHasRank
<1>6. ASSUME NEW n \in 1 .. N
      PROVE  NthIndex(more, n) = NthIndex(indices, n)
  <2> DEFINE i == NthIndex(indices, n)
  <2>1. i \in indices /\ Rank(indices, i) = n - 1
    BY NthIsAnIndex DEF N
  <2> HIDE DEF i
  <2>2. i \in more /\ Rank(more, i) = n - 1 /\ n \in Nat
    BY <1>2, <1>4, <2>1 DEF Rank
  <2> HIDE DEF more
  <2>3. NthIndex(more, n) = i
    BY <1>2, <2>2, NthHasRank
  <2> QED  BY <2>3 DEF i
<1> QED  BY <1>2, <1>5, <1>6 DEF N

\* The elements of a family in the order of their indices.
InOrder(indices, f) ==
    [n \in 1 .. Cardinality(indices) |-> f[NthIndex(indices, n)]]

\* The element at a greatest index comes last.
LEMMA OneMoreInOrder ==
    ASSUME NEW indices \in SUBSET Int, IsFiniteSet(indices),
           NEW top \in Int, \A i \in indices : i < top, NEW f
    PROVE  InOrder(indices \cup {top}, f) = Append(InOrder(indices, f), f[top])
<1> DEFINE more == indices \cup {top}
           N == Cardinality(indices)
           s == InOrder(indices, f)
           t == InOrder(more, f)
<1>1. /\ IsFiniteSet(more) /\ more \in SUBSET Int /\ N \in Nat
      /\ Cardinality(more) = N + 1 /\ NthIndex(more, N + 1) = top
      /\ \A n \in 1 .. N : NthIndex(more, n) = NthIndex(indices, n)
  BY GreatestComesLast
<1> HIDE DEF more, N
<1>2. /\ DOMAIN s = 1 .. N /\ s = [n \in DOMAIN s |-> s[n]]
      /\ \A n \in 1 .. N : s[n] = f[NthIndex(indices, n)]
  BY DEF InOrder, N
<1>3. /\ DOMAIN t = 1 .. N + 1 /\ t = [n \in DOMAIN t |-> t[n]]
      /\ \A n \in 1 .. N + 1 : t[n] = f[NthIndex(more, n)]
  BY <1>1 DEF InOrder
<1> HIDE DEF s, t
<1>4. IsList(s) /\ Len(s) = N
  BY <1>1, <1>2, FunctionIsList
<1>5. IsList(t) /\ Len(t) = N + 1
  <2>1. N + 1 \in Nat
    BY <1>1
  <2> QED  BY <1>3, <2>1, FunctionIsList
<1>6. \A k \in 1 .. N : t[k] = s[k]
  BY <1>1, <1>2, <1>3
<1>7. t[N + 1] = f[top]
  BY <1>1, <1>3
<1>8. t = Append(s, t[Len(s) + 1])
  BY <1>4, <1>5, <1>6, OneLonger
<1> QED  BY <1>4, <1>7, <1>8 DEF s, t, more

\* What remains of a family in order is, in order, the family at the indices
\* where it is not dropped.
LEMMA RemainsInOrder ==
    ASSUME NEW indices \in SUBSET Int, IsFiniteSet(indices), NEW f,
           NEW dropped
    PROVE  Without(InOrder(indices, f), dropped)
               = InOrder({i \in indices : f[i] # dropped}, f)
<1> DEFINE N == Cardinality(indices)
           seq == InOrder(indices, f)
           I == {i \in indices : f[i] # dropped}
           First(n) == {i \in I : Rank(indices, i) < n}
           kept == Remains(seq, dropped)
           S == {n \in 0 .. N : kept[n] # InOrder(First(n), f)}
<1>1. N \in Nat
  BY FS_CardinalityType
<1>2. /\ IsList(seq) /\ Len(seq) = N
      /\ \A n \in 1 .. N : seq[n] = f[NthIndex(indices, n)]
  <2>1. /\ DOMAIN seq = 1 .. N /\ seq = [n \in DOMAIN seq |-> seq[n]]
        /\ \A n \in 1 .. N : seq[n] = f[NthIndex(indices, n)]
    BY DEF InOrder
  <2> HIDE DEF seq, N
  <2> QED  BY <1>1, <2>1, FunctionIsList
<1> HIDE DEF seq
<1>3. /\ Without(seq, dropped) = kept[N]
      /\ \A n \in 0 .. N : kept[n] = KeptStep(seq, dropped, kept, n)
  BY <1>1, <1>2, RemainsRecurrence
<1> HIDE DEF kept
<1>4. \A i \in indices : Rank(indices, i) \in Nat /\ Rank(indices, i) < N
  BY RankIsSmaller
<1>5. ASSUME NEW n \in Nat
      PROVE  First(n) \in SUBSET Int /\ IsFiniteSet(First(n))
  <2>1. First(n) \in SUBSET indices
    OBVIOUS
  <2> HIDE DEF First
  <2> QED  BY <2>1, FS_Subset
<1> HIDE DEF N
<1>6. ASSUME S # {} PROVE FALSE
  <2>1. PICK m \in S : \A k \in S : m <= k
    <3>1. S \in SUBSET Nat
      BY <1>1
    <3> HIDE DEF S
    <3> QED  BY <1>6, <3>1, Least
  <2>2. m \in 0 .. N /\ kept[m] # InOrder(First(m), f)
    BY <2>1
  <2>3. CASE m = 0
    <3>1. First(m) = {}
      <4>1. \A i \in indices : ~ (Rank(indices, i) < 0)
        BY <1>4
      <4> QED  BY <2>3, <4>1
    <3>2. kept[m] = <<>>
      BY <1>3, <2>2, <2>3 DEF KeptStep
    <3>3. InOrder({}, f) = <<>>
      <4> DEFINE t == InOrder({}, f)
      <4>1. Cardinality({}) = 0
        BY FS_EmptySet
      <4>2. DOMAIN t = 1 .. 0 /\ t = [n \in DOMAIN t |-> t[n]] /\ 0 \in Nat
        BY <4>1 DEF InOrder
      <4> HIDE DEF t
      <4>3. IsList(t) /\ Len(t) = 0
        BY <4>2, FunctionIsList
      <4>4. t = <<>>
        BY <4>3 DEF IsList
      <4> QED  BY <4>4 DEF t
    <3> QED  BY <2>2, <3>1, <3>2, <3>3
  <2>4. CASE m # 0
    <3> DEFINE top == NthIndex(indices, m)
    <3>1. m \in 1 .. N /\ m - 1 \in 0 .. N /\ ~ (m <= m - 1) /\ m - 1 \in Nat
      BY <1>1, <2>2, <2>4
    <3>2. kept[m - 1] = InOrder(First(m - 1), f)
      BY <2>1, <3>1
    <3>3. top \in indices /\ Rank(indices, top) = m - 1
      BY <3>1, NthIsAnIndex DEF N
    <3>4. kept[m] = IF f[top] = dropped THEN kept[m - 1]
                    ELSE Append(kept[m - 1], f[top])
      BY <1>2, <1>3, <2>2, <2>4, <3>1 DEF KeptStep
    <3> HIDE DEF top
    <3>5. \A i \in indices : Rank(indices, i) = m - 1 => i = top
      <4> SUFFICES ASSUME NEW i \in indices, Rank(indices, i) = m - 1
                   PROVE  i = top
        OBVIOUS
      <4>1. NthIndex(indices, m) = i
        BY <3>1, NthHasRank
      <4> QED  BY <4>1 DEF top
    <3>6. \A i \in indices : Rank(indices, i) < m <=>
                                 Rank(indices, i) < m - 1 \/ i = top
      BY <1>4, <3>1, <3>3, <3>5
    <3>7. CASE f[top] = dropped
      <4>1. First(m) = First(m - 1)
        BY <3>6, <3>7
      <4> QED  BY <2>2, <3>2, <3>4, <3>7, <4>1
    <3>8. CASE f[top] # dropped
      <4>1. First(m) = First(m - 1) \cup {top}
        BY <3>3, <3>6, <3>8, <1>4, <3>1
      <4>2. ASSUME NEW i \in First(m - 1) PROVE i < top
        <5>1. i \in indices /\ Rank(indices, i) < Rank(indices, top)
          BY <3>3
        <5>2. ASSUME top < i PROVE FALSE
          BY <3>3, <5>1, <5>2, RankGrows
        <5>3. i # top /\ i \in Int /\ top \in Int
          BY <3>3, <5>1, <1>4
        <5> QED  BY <5>2, <5>3
      <4>3. top \in Int
        BY <3>3
      <4>4. First(m - 1) \in SUBSET Int /\ IsFiniteSet(First(m - 1))
        BY <1>5, <3>1
      <4> HIDE DEF First
      <4>5. InOrder(First(m - 1) \cup {top}, f)
                = Append(InOrder(First(m - 1), f), f[top])
        BY <4>2, <4>3, <4>4, OneMoreInOrder
      <4> QED  BY <2>2, <3>2, <3>4, <3>8, <4>1, <4>5
    <3> QED  BY <3>7, <3>8
  <2> QED  BY <2>3, <2>4
<1>7. kept[N] = InOrder(First(N), f)
  <2>1. N \in 0 .. N
    BY <1>1
  <2> QED  BY <1>6, <2>1
<1>8. First(N) = I
  <2>1. \A i \in indices : Rank(indices, i) < N
    BY <1>4
  <2> QED  BY <2>1
<1> QED  BY <1>3, <1>7, <1>8 DEF seq, kept

-----------------------------------------------------------------------------
(* The calls of a message *)

\* The calls of a plain response are a list.
LEMMA ParsedCallsAreAList ==
    ASSUME NEW array, IsList(array)
    PROVE  IsList(ParseToolCallsFromArray(array))
<1>1. ASSUME NEW f, DOMAIN f = DOMAIN array, f = [k \in DOMAIN f |-> f[k]]
      PROVE  Len(f) \in Nat
  <2>1. array \in Seq(Range(array))
    BY DEF IsList
  <2>2. Len(array) \in Nat /\ DOMAIN array = 1 .. Len(array)
    BY <2>1
  <2> QED  BY <1>1, <2>2
<1> QED  BY <1>1, WithoutIsList DEF ParseToolCallsFromArray

SofarStep(accumulators, fragments, sofar, k) ==
    IF k = 0 THEN accumulators
    ELSE AccumulateFragment(sofar[k - 1], fragments[k], k - 1)

AreSofar(accumulators, fragments, sofar) ==
    sofar = [k \in 0 .. Len(fragments) |->
                SofarStep(accumulators, fragments, sofar, k)]

\* The recursion of AccumulateStreamToolCalls has a solution.
LEMMA SofarExists ==
    ASSUME NEW acc, NEW fragments, Len(fragments) \in Nat
    PROVE  \E sofar : AreSofar(acc, fragments, sofar)
<1> DEFINE Partly(m, g) == \A n \in 0 .. m :
                               g[n] = SofarStep(acc, fragments, g, n)
           S == {m \in 0 .. Len(fragments) : ~ \E g : Partly(m, g)}
<1>1. ASSUME S # {} PROVE FALSE
  <2>1. PICK m \in S : \A k \in S : m <= k
    <3>1. S \in SUBSET Nat
      OBVIOUS
    <3> HIDE DEF S
    <3> QED  BY <1>1, <3>1, Least
  <2>2. m \in 0 .. Len(fragments) /\ ~ \E g : Partly(m, g)
    BY <2>1
  <2>3. PICK g : \A n \in 0 .. m - 1 : g[n] = SofarStep(acc, fragments, g, n)
    <3>1. CASE m = 0
      BY <2>2, <3>1
    <3>2. CASE m # 0
      <4>1. m - 1 \in 0 .. Len(fragments) /\ ~ (m <= m - 1)
        BY <2>2, <3>2
      <4>2. m - 1 \notin S
        BY <2>1, <4>1
      <4> QED  BY <4>1, <4>2
    <3> QED  BY <3>1, <3>2
  <2> DEFINE h == [n \in 0 .. m |-> IF n = m
                                    THEN SofarStep(acc, fragments, g, m)
                                    ELSE g[n]]
  <2>4. ASSUME NEW n \in 0 .. m PROVE h[n] = SofarStep(acc, fragments, h, n)
    <3>1. h[n] = SofarStep(acc, fragments, g, n)
      BY <2>2, <2>3
    <3>2. CASE n = 0
      BY <3>1, <3>2 DEF SofarStep
    <3>3. CASE n # 0
      <4>1. n - 1 \in 0 .. m /\ n - 1 # m
        BY <2>2, <3>3
      <4>2. h[n - 1] = g[n - 1]
        BY <4>1
      <4> QED  BY <3>1, <4>2 DEF SofarStep
    <3> QED  BY <3>2, <3>3
  <2> QED  BY <2>2, <2>4
<1>2. PICK g : Partly(Len(fragments), g)
  BY <1>1
<1> DEFINE sofar == [n \in 0 .. Len(fragments) |-> g[n]]
<1>3. ASSUME NEW n \in 0 .. Len(fragments)
      PROVE  sofar[n] = SofarStep(acc, fragments, sofar, n)
  <2>1. CASE n = 0
    BY <1>2, <2>1 DEF SofarStep
  <2>2. CASE n # 0
    <3>1. n - 1 \in 0 .. Len(fragments)
      BY <2>2
    <3> QED  BY <1>2, <3>1 DEF SofarStep
  <2> QED  BY <2>1, <2>2
<1>4. AreSofar(acc, fragments, sofar)
  BY <1>3 DEF AreSofar
<1> QED  BY <1>4

\* A fragment adds at most one index to the accumulated ones.
LEMMA FragmentStaysFinite ==
    ASSUME NEW acc, IsFiniteSet(DOMAIN acc), NEW fragment, NEW position
    PROVE  IsFiniteSet(DOMAIN AccumulateFragment(acc, fragment, position))
<1>1. CASE fragment = NotAnObject
  BY <1>1 DEF AccumulateFragment
<1>2. CASE fragment # NotAnObject
  <2>1. DOMAIN AccumulateFragment(acc, fragment, position)
            = DOMAIN acc \cup {Overwrite(position, fragment.index)}
    BY <1>2 DEF AccumulateFragment
  <2> QED  BY <2>1, FS_AddElement
<1> QED  BY <1>1, <1>2

\* However many fragments come, finitely many indices have been seen.
LEMMA AccumulationStaysFinite ==
    ASSUME NEW acc, IsFiniteSet(DOMAIN acc),
           NEW fragments, Len(fragments) \in Nat
    PROVE  IsFiniteSet(DOMAIN AccumulateStreamToolCalls(acc, fragments))
<1> DEFINE sofar == CHOOSE g : AreSofar(acc, fragments, g)
<1>1. AreSofar(acc, fragments, sofar)
  BY SofarExists
<1>2. AccumulateStreamToolCalls(acc, fragments) = sofar[Len(fragments)]
  BY DEF AccumulateStreamToolCalls, AreSofar, SofarStep
<1> HIDE DEF sofar
<1>3. \A n \in 0 .. Len(fragments) :
          sofar[n] = SofarStep(acc, fragments, sofar, n)
  BY <1>1 DEF AreSofar
<1> DEFINE S == {n \in 0 .. Len(fragments) : ~ IsFiniteSet(DOMAIN sofar[n])}
<1>4. ASSUME S # {} PROVE FALSE
  <2>1. PICK m \in S : \A k \in S : m <= k
    <3>1. S \in SUBSET Nat
      OBVIOUS
    <3> HIDE DEF S
    <3> QED  BY <1>4, <3>1, Least
  <2>2. CASE m = 0
    BY <1>3, <2>1, <2>2 DEF SofarStep
  <2>3. CASE m # 0
    <3>1. m - 1 \in 0 .. Len(fragments) /\ ~ (m <= m - 1)
      BY <2>1, <2>3
    <3>2. IsFiniteSet(DOMAIN sofar[m - 1])
      BY <2>1, <3>1
    <3>3. sofar[m] = AccumulateFragment(sofar[m - 1], fragments[m], m - 1)
      BY <1>3, <2>1, <2>3 DEF SofarStep
    <3>4. IsFiniteSet(DOMAIN sofar[m])
      BY <3>2, <3>3, FragmentStaysFinite
    <3> QED  BY <2>1, <3>4
  <2> QED  BY <2>2, <2>3
<1> QED  BY <1>2, <1>4

\* The calls of a streamed answer are a list.
LEMMA BuiltCallsAreAList ==
    ASSUME NEW acc, IsFiniteSet(DOMAIN acc)
    PROVE  IsList(BuildToolCallsFromAccumulation(acc))
<1>1. Cardinality(DOMAIN acc) \in Nat
  BY FS_CardinalityType
<1> DEFINE N == Cardinality(DOMAIN acc)
<1>2. ASSUME NEW f, DOMAIN f = 1 .. N, f = [k \in DOMAIN f |-> f[k]]
      PROVE  Len(f) \in Nat
  BY <1>1, <1>2
<1> HIDE DEF N
<1> QED  BY <1>2, WithoutIsList DEF BuildToolCallsFromAccumulation, N
=============================================================================
