----------------------- MODULE RequestAssembly_proofs -----------------------
(***************************************************************************)
(* For any number of calls and any providers: where the base_url of a      *)
(* provider makes a request go, that a request nobody disturbs is one      *)
(* provider's in all its parts, and that a proxy gets its credentials.     *)
(***************************************************************************)
EXTENDS RequestAssembly, SequenceTheorems, TLAPS

(* URLs *)

\* What each half of a joined sequence holds.
LEMMA Joined ==
    ASSUME NEW S, NEW a \in Seq(S), NEW b \in Seq(S)
    PROVE  /\ a \o b \in Seq(S) /\ Len(a \o b) = Len(a) + Len(b)
           /\ Len(a) \in Nat /\ Len(b) \in Nat
           /\ \A k \in 1 .. Len(a) : (a \o b)[k] = a[k]
           /\ \A k \in 1 .. Len(b) : (a \o b)[Len(a) + k] = b[k]
  OBVIOUS

\* The atoms of a provider's URLs.
Atoms(p) == {p.scheme, p.host, p.port, ":", "/", "chat", "completions"}
                \cup Range(p.path)

PortOf(p) == IF p.port = None THEN <<>> ELSE <<":", p.port>>

\* The part of a base_url before its path, and the part before the slashes that
\* end it.
Authority(p) == <<p.scheme, ":", "/", "/", p.host>> \o PortOf(p)
Stem(p) == Authority(p) \o p.path
Url(p) == Stem(p) \o Completions

\* Three lists joined, in either order.
LEMMA JoinedTwice ==
    ASSUME NEW T, NEW x \in Seq(T), NEW y \in Seq(T), NEW z \in Seq(T)
    PROVE  (x \o y) \o z = x \o (y \o z)
  BY ConcatAssociative

\* The least of a set of numbers.
LEMMA LeastIsMin ==
    ASSUME NEW I, I \subseteq Nat, NEW n \in I, \A i \in I : n <= i
    PROVE  Min(I) = n
<1>1. \A m \in I : (\A i \in I : m <= i) => m = n
  OBVIOUS
<1> QED  BY <1>1 DEF Min

\* A part of a list that is one element.
LEMMA SubSeqOfOne ==
    ASSUME NEW S, NEW s \in Seq(S), NEW m \in 1 .. Len(s)
    PROVE  SubSeq(s, m, m) = <<s[m]>>
<1>1. /\ SubSeq(s, m, m) \in Seq(S) /\ Len(SubSeq(s, m, m)) = 1
      /\ \A i \in 1 .. 1 : SubSeq(s, m, m)[i] = s[m + i - 1]
  <2>1. \A i \in m .. m : s[i] \in S
    OBVIOUS
  <2>2. m \in Int /\ m - m + 1 = 1
    OBVIOUS
  <2> QED  BY <2>1, <2>2, SubSeqProperties
<1>2. m + 1 - 1 = m /\ s[m] \in S
  OBVIOUS
<1> DEFINE t == SubSeq(s, m, m)
           u == <<s[m]>>
<1>3. u \in Seq(S) /\ Len(u) = 1 /\ u[1] = s[m]
  BY <1>2
<1> HIDE DEF t, u
<1>4. t \in Seq(S) /\ Len(t) = 1 /\ \A i \in 1 .. 1 : t[i] = s[m + i - 1]
  BY <1>1 DEF t
<1>5. t[1] = u[1]
  BY <1>2, <1>3, <1>4
<1>6. \A i \in 1 .. 1 : t[i] = u[i]
  BY <1>5
<1>7. t = u
  BY <1>3, <1>4, <1>6, SeqEqual
<1> QED  BY <1>7 DEF t, u

\* A part of a list that is three elements.
LEMMA SubSeqOfThree ==
    ASSUME NEW S, NEW s \in Seq(S), NEW m \in 1 .. Len(s) - 2
    PROVE  SubSeq(s, m, m + 2) = <<s[m], s[m + 1], s[m + 2]>>
<1> DEFINE t == SubSeq(s, m, m + 2)
           u == <<s[m], s[m + 1], s[m + 2]>>
<1>1. /\ t \in Seq(S) /\ Len(t) = 3
      /\ \A i \in 1 .. 3 : t[i] = s[m + i - 1]
  <2>1. \A i \in m .. m + 2 : s[i] \in S
    OBVIOUS
  <2>2. m \in Int /\ m + 2 \in Int /\ m + 2 - m + 1 = 3 /\ m <= m + 2
    OBVIOUS
  <2>3. t \in Seq(S)
    BY <2>1, <2>2, SubSeqProperties
  <2>4. Len(t) = 3
    BY <2>1, <2>2, SubSeqProperties
  <2>5. \A i \in 1 .. 3 : t[i] = s[m + i - 1]
    BY <2>1, <2>2, SubSeqProperties
  <2> QED  BY <2>3, <2>4, <2>5
<1>2. /\ s[m] \in S /\ s[m + 1] \in S /\ s[m + 2] \in S
      /\ m + 1 - 1 = m /\ m + 2 - 1 = m + 1 /\ m + 3 - 1 = m + 2
  OBVIOUS
<1>3. /\ u \in Seq(S) /\ Len(u) = 3
      /\ u[1] = s[m] /\ u[2] = s[m + 1] /\ u[3] = s[m + 2]
  BY <1>2
<1> HIDE DEF t, u
<1>4. \A i \in 1 .. 3 : t[i] = u[i]
  BY <1>1, <1>2, <1>3
<1>5. t = u
  BY <1>1, <1>3, <1>4, SeqEqual
<1> QED  BY <1>5 DEF t, u

\* A host with nothing after it.
LEMMA FiveAtoms ==
    ASSUME NEW a, NEW b, NEW c, NEW d, NEW e
    PROVE  <<a, b, c, d, e>> \o <<>> = <<a, b, c, d, e>>
<1> DEFINE S == {a, b, c, d, e}
<1>1. <<a, b, c, d, e>> \in Seq(S)
  OBVIOUS
<1> QED  BY <1>1, ConcatEmptySeq

\* A host with a port after it.
LEMMA SevenAtoms ==
    ASSUME NEW a, NEW b, NEW c, NEW d, NEW e, NEW f, NEW g
    PROVE  <<a, b, c, d, e>> \o <<f, g>> = <<a, b, c, d, e, f, g>>
<1> DEFINE S == {a, b, c, d, e, f, g}
           s == <<a, b, c, d, e>>
           t == <<f, g>>
           u == <<a, b, c, d, e, f, g>>
<1>1. /\ s \in Seq(S) /\ t \in Seq(S) /\ u \in Seq(S)
      /\ Len(s) = 5 /\ Len(t) = 2 /\ Len(u) = 7
  OBVIOUS
<1>2. /\ s \o t \in Seq(S) /\ Len(s \o t) = 7
      /\ \A k \in 1 .. 5 : (s \o t)[k] = s[k]
      /\ \A k \in 1 .. 2 : (s \o t)[5 + k] = t[k]
  BY <1>1, Joined
<1>3. \A k \in 1 .. 7 : (s \o t)[k] = u[k]
  BY <1>2
<1> QED  BY <1>1, <1>2, <1>3, SeqEqual

\* The length of the authority, and the atoms in it.
LEMMA AuthorityAtoms ==
    ASSUME NEW p \in Providers
    PROVE  /\ Authority(p) \in Seq(Atoms(p))
           /\ Len(Authority(p)) = IF p.port = None THEN 5 ELSE 7
           /\ Authority(p)[1] = p.scheme /\ Authority(p)[2] = ":"
           /\ Authority(p)[3] = "/" /\ Authority(p)[4] = "/"
           /\ Authority(p)[5] = p.host
           /\ p.port # None => /\ Authority(p)[6] = ":"
                               /\ Authority(p)[7] = p.port
<1> DEFINE S == Atoms(p)
<1>1. /\ p.scheme \in S /\ p.host \in S /\ p.port \in S
      /\ ":" \in S /\ "/" \in S
  BY DEF Atoms
<1> HIDE DEF S
<1>2. CASE p.port = None
  <2>1. Authority(p) = <<p.scheme, ":", "/", "/", p.host>>
    BY <1>1, <1>2, FiveAtoms DEF Authority, PortOf
  <2> QED  BY <1>1, <1>2, <2>1 DEF S
<1>3. CASE p.port # None
  <2>1. Authority(p) = <<p.scheme, ":", "/", "/", p.host, ":", p.port>>
    BY <1>1, <1>3, SevenAtoms DEF Authority, PortOf
  <2> QED  BY <1>1, <1>3, <2>1 DEF S
<1> QED  BY <1>2, <1>3

\* The path, and what is put after it.
LEMMA StemAtoms ==
    ASSUME NEW p \in Providers
    PROVE  /\ Stem(p) \in Seq(Atoms(p))
           /\ Len(Stem(p)) = Len(Authority(p)) + Len(p.path)
           /\ \A k \in 1 .. Len(Authority(p)) : Stem(p)[k] = Authority(p)[k]
           /\ \A k \in 1 .. Len(p.path) :
                  Stem(p)[Len(Authority(p)) + k] = p.path[k]
           /\ Stem(p)[Len(Stem(p))] # "/"
<1> DEFINE S == Atoms(p)
           a == Authority(p)
           s == Stem(p)
<1>1. a \in Seq(S) /\ Len(a) \in {5, 7}
  BY AuthorityAtoms
<1>2. p.path \in Seq(S) /\ Len(p.path) \in Nat
  <2>1. p.path \in Seq(Range(p.path)) /\ Range(p.path) \subseteq S
    BY ProvidersAssumption DEF Atoms
  <2> QED  BY <2>1
<1>3. s = a \o p.path
  BY DEF Stem
<1> HIDE DEF S, a, s
<1>4. /\ s \in Seq(S) /\ Len(s) = Len(a) + Len(p.path)
      /\ \A k \in 1 .. Len(a) : s[k] = a[k]
      /\ \A k \in 1 .. Len(p.path) : s[Len(a) + k] = p.path[k]
  BY <1>1, <1>2, <1>3, Joined
<1>5. s[Len(s)] # "/"
  <2>1. CASE p.path = <<>>
    <3>1. Len(p.path) = 0 /\ Len(s) = Len(a)
      BY <1>1, <1>4, <2>1
    <3>2. s[Len(s)] = a[Len(a)]
      BY <1>1, <1>4, <3>1
    <3>3. a[Len(a)] \in {p.host, p.port}
      BY AuthorityAtoms DEF a
    <3> QED  BY <3>2, <3>3, ProvidersAssumption
  <2>2. CASE p.path # <<>>
    <3>1. Len(p.path) # 0
      BY <1>2, <2>2
    <3>2. Len(p.path) \in 1 .. Len(p.path)
      BY <1>2, <3>1
    <3>3. s[Len(s)] = p.path[Len(p.path)]
      BY <1>4, <3>2
    <3>4. Last(p.path) # "/" /\ Last(p.path) = p.path[Len(p.path)]
      BY <2>2, ProvidersAssumption DEF Last
    <3> QED  BY <3>3, <3>4
  <2> QED  BY <2>1, <2>2
<1> QED  BY <1>4, <1>5 DEF S, a, s

\* The slashes that end a base_url are dropped, however many there are.
LEMMA UrlIsJoined ==
    ASSUME NEW p \in Providers
    PROVE  BuildCompletionsUrl(BaseUrl(p)) = Url(p)
<1> DEFINE S == Atoms(p)
           s == Stem(p)
           slashes == [n \in 1 .. p.slashes |-> "/"]
           url == s \o slashes
<1>1. s \in Seq(S) /\ Len(s) \in Nat \ {0} /\ s[Len(s)] # "/"
  <2>1. Len(s) = Len(Authority(p)) + Len(p.path)
    BY StemAtoms
  <2>2. Len(Authority(p)) \in Nat /\ Len(Authority(p)) > 0
    BY AuthorityAtoms
  <2> Len(p.path) \in Nat
    BY ProvidersAssumption
  <2>3. s \in Seq(S) /\ s[Len(s)] # "/"
    BY StemAtoms
  <2>4. Len(s) = Len(Authority(p)) + Len(p.path)
    BY <2>1
  <2> HIDE DEF S, s, slashes, url
  <2>5. Len(s) \in Nat \ {0}
    BY <2>2, <2>4
  <2> QED  BY <2>3, <2>5
<1>2. /\ slashes \in Seq(S) /\ Len(slashes) = p.slashes /\ p.slashes \in Nat
      /\ \A k \in 1 .. p.slashes : slashes[k] = "/"
  <2>1. p.slashes \in Nat /\ "/" \in S
    BY ProvidersAssumption DEF Atoms
  <2> HIDE DEF S
  <2> QED  BY <2>1
<1>3. BaseUrl(p) = url
  BY DEF BaseUrl, Stem, Authority, PortOf
<1> HIDE DEF S, s, slashes
<1>4. /\ url \in Seq(S) /\ Len(url) = Len(s) + p.slashes
      /\ \A k \in 1 .. Len(s) : url[k] = s[k]
      /\ \A k \in 1 .. p.slashes : url[Len(s) + k] = slashes[k]
  BY <1>1, <1>2
<1> HIDE DEF url
<1>5. SelectLastInSeq(url, LAMBDA atom : atom # "/") = Len(s)
  <2> DEFINE I == {i \in 1 .. Len(url) : url[i] # "/"}
  <2>1. Len(s) \in I
    <3>1. Len(s) \in 1 .. Len(s) /\ Len(s) \in 1 .. Len(url)
      BY <1>1, <1>2, <1>4
    <3>2. url[Len(s)] = s[Len(s)]
      BY <1>4, <3>1
    <3> QED  BY <1>1, <3>1, <3>2
  <2>2. ASSUME NEW i \in I PROVE i <= Len(s)
    <3>1. SUFFICES ASSUME i > Len(s) PROVE FALSE
      BY <1>1, <1>4
    <3>2. i - Len(s) \in 1 .. p.slashes /\ Len(s) + (i - Len(s)) = i
      BY <1>1, <1>2, <1>4, <3>1
    <3>3. url[i] = slashes[i - Len(s)]
      BY <1>4, <3>2
    <3> QED  BY <1>2, <3>2, <3>3
  <2>3. SelectLastInSeq(url, LAMBDA atom : atom # "/")
            = IF I # {} THEN Max(I) ELSE 0
    BY DEF SelectLastInSeq
  <2>4. I \subseteq Nat
    OBVIOUS
  <2> HIDE DEF I
  <2>5. \A m \in I : (\A i \in I : m >= i) => m = Len(s)
    BY <1>1, <2>1, <2>2, <2>4
  <2> QED  BY <1>1, <2>1, <2>2, <2>3, <2>4, <2>5 DEF Max
<1>6. SubSeq(url, 1, Len(s)) = s
  <2>1. /\ SubSeq(url, 1, Len(s)) \in Seq(S)
        /\ Len(SubSeq(url, 1, Len(s))) = Len(s)
        /\ \A k \in 1 .. Len(s) : SubSeq(url, 1, Len(s))[k] = url[k]
    <3>1. 1 \in 1 .. Len(url) + 1 /\ Len(s) \in 0 .. Len(url)
      BY <1>1, <1>2, <1>4
    <3> QED  BY <1>1, <1>4, <3>1, SubSeqProperties
  <2> QED  BY <1>1, <1>4, <2>1, SeqEqual
<1> QED  BY <1>3, <1>5, <1>6 DEF BuildCompletionsUrl, Url, s

\* The target of a provider's requests.
LEMMA TargetAtoms ==
    ASSUME NEW p \in Providers
    PROVE  /\ PathOf(p) \in Seq(Atoms(p))
           /\ Len(PathOf(p)) = Len(p.path) + 4 /\ Len(p.path) \in Nat
           /\ \A k \in 1 .. Len(p.path) : PathOf(p)[k] = p.path[k]
           /\ \A k \in 1 .. 4 :
                  PathOf(p)[Len(p.path) + k] = Completions[k]
<1> DEFINE Set == Atoms(p)
           tgt == PathOf(p)
<1>1. p.path \in Seq(Set) /\ Completions \in Seq(Set)
  <2>1. p.path \in Seq(Range(p.path)) /\ Range(p.path) \subseteq Set
    BY ProvidersAssumption DEF Atoms
  <2>2. "/" \in Set /\ "chat" \in Set /\ "completions" \in Set
    BY DEF Atoms
  <2> HIDE DEF Set
  <2> QED  BY <2>1, <2>2 DEF Completions
<1>2. Len(Completions) = 4
  BY DEF Completions
<1>3. tgt = p.path \o Completions
  BY DEF PathOf
<1> HIDE DEF Set, tgt
<1>4. tgt \in Seq(Set)
  BY <1>1, <1>3, Joined
<1>5. Len(tgt) = Len(p.path) + 4 /\ Len(p.path) \in Nat
  <2>1. Len(p.path \o Completions) = Len(p.path) + Len(Completions)
    BY <1>1, Joined
  <2>2. Len(p.path) \in Nat
    BY <1>1
  <2> QED  BY <1>2, <1>3, <2>1, <2>2
<1>6. \A k \in 1 .. Len(p.path) : tgt[k] = p.path[k]
  BY <1>1, <1>3, Joined
<1>7. \A k \in 1 .. 4 : tgt[Len(p.path) + k] = Completions[k]
  BY <1>1, <1>2, <1>3, Joined
<1> QED  BY <1>4, <1>5, <1>6, <1>7 DEF Set, tgt

\* A URL is the authority and the target.
LEMMA UrlAtoms ==
    ASSUME NEW p \in Providers
    PROVE  /\ Url(p) \in Seq(Atoms(p)) /\ PathOf(p) \in Seq(Atoms(p))
           /\ Len(Url(p)) = Len(Authority(p)) + Len(PathOf(p))
           /\ Len(Authority(p)) \in {5, 7} /\ Len(PathOf(p)) \in Nat \ {0}
           /\ \A k \in 1 .. Len(Authority(p)) : Url(p)[k] = Authority(p)[k]
           /\ \A k \in 1 .. Len(PathOf(p)) :
                  Url(p)[Len(Authority(p)) + k] = PathOf(p)[k]
           /\ PathOf(p)[1] = "/"
<1> DEFINE Set == Atoms(p)
           auth == Authority(p)
           tgt == PathOf(p)
<1>1. auth \in Seq(Set) /\ Len(auth) \in {5, 7}
  BY AuthorityAtoms
<1>2. p.path \in Seq(Set) /\ Completions \in Seq(Set)
  <2>1. p.path \in Seq(Range(p.path)) /\ Range(p.path) \subseteq Set
    BY ProvidersAssumption DEF Atoms
  <2>2. "/" \in Set /\ "chat" \in Set /\ "completions" \in Set
    BY DEF Atoms
  <2> HIDE DEF Set
  <2> QED  BY <2>1, <2>2 DEF Completions
<1>3. Len(Completions) = 4 /\ Completions[1] = "/"
  BY DEF Completions
<1>4. tgt = p.path \o Completions
  BY DEF PathOf
<1>5. Url(p) = auth \o tgt
  <2>1. /\ auth \in Seq(Set) /\ p.path \in Seq(Set)
        /\ Completions \in Seq(Set)
    BY <1>1, <1>2
  <2> HIDE DEF Set, auth, tgt
  <2>2. auth \o (p.path \o Completions) = (auth \o p.path) \o Completions
    <3>1. \A x, y, z \in Seq(Set) : (x \o y) \o z = x \o (y \o z)
      BY JoinedTwice
    <3> QED  BY <2>1, <3>1
  <2> QED  BY <2>2, <1>4 DEF Url, Stem, auth
<1> HIDE DEF Set, auth, tgt
<1>6. /\ tgt \in Seq(Set) /\ Len(tgt) = Len(p.path) + 4
      /\ Len(p.path) \in Nat
      /\ \A k \in 1 .. Len(p.path) : tgt[k] = p.path[k]
      /\ \A k \in 1 .. 4 : tgt[Len(p.path) + k] = Completions[k]
  BY TargetAtoms DEF Set, tgt
<1>8. tgt[1] = "/"
  <2>1. CASE p.path = <<>>
    BY <1>3, <1>6, <2>1
  <2>2. CASE p.path # <<>>
    <3>1. p.path[1] = "/"
      BY <2>2, ProvidersAssumption
    <3>2. 1 \in 1 .. Len(p.path)
      BY <1>2, <2>2
    <3> QED  BY <1>6, <3>1, <3>2
  <2> QED  BY <2>1, <2>2
<1>9. /\ auth \o tgt \in Seq(Set) /\ Len(auth \o tgt) = Len(auth) + Len(tgt)
      /\ \A k \in 1 .. Len(auth) : (auth \o tgt)[k] = auth[k]
      /\ \A k \in 1 .. Len(tgt) : (auth \o tgt)[Len(auth) + k] = tgt[k]
  <2>1. auth \in Seq(Set) /\ tgt \in Seq(Set)
    BY <1>1, <1>6
  <2>2. auth \o tgt \in Seq(Set)
    BY <2>1, Joined
  <2>3. Len(auth \o tgt) = Len(auth) + Len(tgt)
    BY <2>1, Joined
  <2>4. \A k \in 1 .. Len(auth) : (auth \o tgt)[k] = auth[k]
    BY <2>1, Joined
  <2>5. \A k \in 1 .. Len(tgt) : (auth \o tgt)[Len(auth) + k] = tgt[k]
    BY <2>1, Joined
  <2> QED  BY <2>2, <2>3, <2>4, <2>5
<1>10. Len(tgt) \in Nat \ {0}
  BY <1>6
<1> QED  BY <1>1, <1>5, <1>6, <1>8, <1>9, <1>10 DEF Set, auth, tgt

\* The scheme of a URL ends at its second atom.
LEMMA SchemeEnds ==
    ASSUME NEW p \in Providers
    PROVE  /\ FindSchemeEnd(Url(p)) = 2
           /\ SubSeq(Url(p), 1, 1) = <<p.scheme>>
<1> DEFINE S == Atoms(p)
           url == Url(p)
           A == Len(Authority(p))
           at == {k \in 1 .. Len(url) - 2 :
                      SubSeq(url, k, k + 2) = <<":", "/", "/">>}
<1>1. /\ url \in Seq(S) /\ Len(url) \in Nat /\ Len(url) > 5
      /\ \A k \in 1 .. 5 : url[k] = Authority(p)[k]
  <2>1. /\ A \in {5, 7} /\ Len(PathOf(p)) \in Nat \ {0}
        /\ Len(url) = A + Len(PathOf(p))
        /\ \A k \in 1 .. A : url[k] = Authority(p)[k]
        /\ url \in Seq(S)
    BY UrlAtoms
  <2> HIDE DEF url, A, S
  <2> QED  BY <2>1
<1>2. /\ url[1] = p.scheme /\ url[2] = ":" /\ url[3] = "/" /\ url[4] = "/"
  <2> HIDE DEF url
  <2> QED  BY <1>1, AuthorityAtoms
<1> HIDE DEF S, url
<1>3. 2 \in at
  <2>1. SubSeq(url, 2, 4) = <<url[2], url[3], url[4]>>
    BY <1>1, SubSeqOfThree
  <2> QED  BY <1>1, <1>2, <2>1
<1>4. 1 \notin at
  <2>1. SubSeq(url, 1, 3) = <<url[1], url[2], url[3]>>
    BY <1>1, SubSeqOfThree
  <2> QED  BY <1>2, <2>1
<1>5. at \subseteq Nat \ {0}
  OBVIOUS
<1>6. FindSchemeEnd(url) = IF at = {} THEN 0 ELSE Min(at)
  BY DEF FindSchemeEnd
<1> HIDE DEF at
<1>7. FindSchemeEnd(url) = 2
  <2>1. \A k \in at : 2 <= k
    BY <1>4, <1>5
  <2>2. \A m \in at : (\A k \in at : m <= k) => m = 2
    BY <1>3, <1>5, <2>1
  <2> QED  BY <1>3, <1>6, <2>1, <2>2 DEF Min
<1>8. SubSeq(url, 1, 1) = <<p.scheme>>
  BY <1>1, <1>2, SubSeqOfOne
<1> QED  BY <1>7, <1>8 DEF url

\* Whatever the path of a base_url, the URL that is made of it keeps the scheme.
LEMMA SchemeIsParsed ==
    ASSUME NEW p \in Providers
    PROVE  ParseUrl(Url(p)).scheme = <<p.scheme>>
<1>1. SubSeq(Url(p), 1, FindSchemeEnd(Url(p)) - 1) = <<p.scheme>>
  BY SchemeEnds
<1> QED  BY <1>1, SchemeEnds DEF ParseUrl

\* A base_url can be joined to a target if no colon follows its host and port.
Joinable(p) == p.scheme \in {"http", "https"} /\ ":" \notin Range(p.path)

\* The URL of such a provider is taken apart where it was put together: the
\* first slash after the scheme begins the target, and a colon comes before it
\* if there is a port, and only then.
LEMMA SeparatorsFound ==
    ASSUME NEW p \in Providers, ":" \notin Range(p.path)
    PROVE  /\ Find(Url(p), "/", 5) = Len(Authority(p)) + 1
           /\ Find(Url(p), ":", 5) = IF p.port = None THEN 0 ELSE 6
<1> DEFINE url == Url(p)
           front == Authority(p)
           tgt == PathOf(p)
           slashes == {i \in 5 .. Len(url) : url[i] = "/"}
           colons == {i \in 5 .. Len(url) : url[i] = ":"}
<1>1. /\ Len(front) = IF p.port = None THEN 5 ELSE 7
      /\ front[5] = p.host
      /\ p.port # None => front[6] = ":" /\ front[7] = p.port
  BY AuthorityAtoms
<1>2. /\ Len(url) = Len(front) + Len(tgt) /\ Len(tgt) \in Nat \ {0}
      /\ \A k \in 1 .. Len(front) : url[k] = front[k]
      /\ \A k \in 1 .. Len(tgt) : url[Len(front) + k] = tgt[k]
      /\ tgt[1] = "/"
  BY UrlAtoms
<1>3. p.host # "/" /\ p.host # ":" /\ p.port # "/" /\ p.port # ":"
  BY ProvidersAssumption
<1>4. \A k \in 1 .. Len(tgt) : tgt[k] # ":"
  <2>1. /\ p.path \in Seq(Range(p.path)) /\ Len(p.path) \in Nat
        /\ \A k \in 1 .. Len(p.path) : p.path[k] # ":"
    BY ProvidersAssumption DEF Range
  <2>2. /\ Len(Completions) = 4
        /\ \A k \in 1 .. 4 : Completions[k] # ":"
    BY DEF Completions
  <2>3. /\ Len(tgt) = Len(p.path) + 4
        /\ \A k \in 1 .. Len(p.path) : tgt[k] = p.path[k]
        /\ \A k \in 1 .. 4 : tgt[Len(p.path) + k] = Completions[k]
    BY TargetAtoms
  <2> HIDE DEF tgt
  <2> TAKE k \in 1 .. Len(tgt)
  <2>4. CASE k <= Len(p.path)
    <3>1. k \in 1 .. Len(p.path)
      BY <2>1, <2>3, <2>4
    <3> QED  BY <2>1, <2>3, <3>1
  <2>5. CASE k > Len(p.path)
    <3> Len(p.path) \in Nat /\ Len(tgt) = Len(p.path) + 4
      BY <2>1, <2>3
    <3> HIDE DEF url, front, slashes, colons
    <3> k \in Int /\ k <= Len(p.path) + 4
      OBVIOUS
    <3>1. k - Len(p.path) \in 1 .. 4 /\ Len(p.path) + (k - Len(p.path)) = k
      BY <2>5
    <3>2. tgt[k] = Completions[k - Len(p.path)]
      BY <2>3, <3>1
    <3> QED  BY <2>2, <3>1, <3>2
  <2> QED  BY <2>1, <2>4, <2>5
<1>5. /\ Find(url, "/", 5) = IF slashes # {} THEN Min(slashes) ELSE 0
      /\ Find(url, ":", 5) = IF colons # {} THEN Min(colons) ELSE 0
  BY DEF Find, SelectInSubSeq
<1>6. slashes \subseteq Nat /\ colons \subseteq Nat
  OBVIOUS
<1> HIDE DEF url, front, tgt
<1>7. /\ Len(front) + 1 \in slashes
      /\ \A i \in slashes : Len(front) + 1 <= i
  <2>1. url[Len(front) + 1] = "/"
    BY <1>2
  <2>2. Len(front) + 1 \in 5 .. Len(url)
    BY <1>1, <1>2
  <2>3. ASSUME NEW i \in 5 .. Len(front) PROVE url[i] # "/"
    <3>1. url[i] = front[i]
      BY <1>1, <1>2
    <3>2. CASE p.port = None
      <4>1. i = 5
        BY <1>1, <3>2
      <4> QED  BY <1>1, <1>3, <3>1, <4>1
    <3>3. CASE p.port # None
      <4>1. i \in {5, 6, 7}
        BY <1>1, <3>3
      <4> QED  BY <1>1, <1>3, <3>1, <3>3, <4>1
    <3> QED  BY <3>2, <3>3
  <2> QED  BY <1>1, <2>1, <2>2, <2>3
<1>8. CASE p.port = None
  <2>1. colons = {}
    <3>1. SUFFICES ASSUME NEW i \in 5 .. Len(url) PROVE url[i] # ":"
      OBVIOUS
    <3>2. CASE i = 5
      <4>1. url[5] = front[5]
        BY <1>1, <1>2, <1>8
      <4> QED  BY <1>1, <1>3, <3>2, <4>1
    <3>3. CASE i # 5
      <4>1. /\ Len(front) = 5 /\ i - 5 \in 1 .. Len(tgt)
            /\ 5 + (i - 5) = i
        BY <1>1, <1>2, <1>8, <3>3
      <4>2. url[i] = tgt[i - 5]
        BY <1>2, <4>1
      <4> QED  BY <1>4, <4>1, <4>2
    <3> QED  BY <3>2, <3>3
  <2>2. Find(url, ":", 5) = 0
    BY <1>5, <2>1
  <2>3. Find(url, "/", 5) = Len(front) + 1
    <3>1. Min(slashes) = Len(front) + 1
      BY <1>6, <1>7, LeastIsMin
    <3> QED  BY <1>5, <1>7, <3>1
  <2> QED  BY <1>8, <2>2, <2>3 DEF url, front
<1>9. CASE p.port # None
  <2>1. 6 \in colons /\ \A i \in colons : 6 <= i
    <3>1. url[5] = front[5] /\ url[6] = front[6]
      BY <1>1, <1>2, <1>9
    <3>2. 6 \in 5 .. Len(url)
      BY <1>1, <1>2, <1>9
    <3> QED  BY <1>1, <1>3, <1>9, <3>1, <3>2
  <2>2. Find(url, ":", 5) = 6
    <3>1. Min(colons) = 6
      BY <1>6, <2>1, LeastIsMin
    <3> QED  BY <1>5, <2>1, <3>1
  <2>3. Find(url, "/", 5) = Len(front) + 1
    <3>1. Min(slashes) = Len(front) + 1
      BY <1>6, <1>7, LeastIsMin
    <3> QED  BY <1>5, <1>7, <3>1
  <2> QED  BY <1>9, <2>2, <2>3 DEF url, front
<1> QED  BY <1>8, <1>9

\* The port of a provider, or its scheme's.
PortNumber(p) ==
    IF p.port # None THEN p.port ELSE IF p.scheme = "https" THEN "443" ELSE "80"

\* What is after the host and the port of a URL is the target.
LEMMA TargetIsRest ==
    ASSUME NEW p \in Providers
    PROVE  SubSeq(Url(p), Len(Authority(p)) + 1, Len(Url(p))) = PathOf(p)
<1> DEFINE url == Url(p)
           n == Len(Authority(p))
           tgt == PathOf(p)
           rest == SubSeq(url, n + 1, Len(url))
           Set == Atoms(p)
<1>1. /\ url \in Seq(Set) /\ tgt \in Seq(Set) /\ n \in Nat
      /\ Len(url) = n + Len(tgt) /\ Len(tgt) \in Nat \ {0}
      /\ \A k \in 1 .. Len(tgt) : url[n + k] = tgt[k]
  BY UrlAtoms
<1> HIDE DEF url, n, tgt, Set
<1>2. \A i \in n + 1 .. Len(url) : url[i] \in Set
  BY <1>1
<1>3. /\ n + 1 \in Int /\ Len(url) \in Int /\ n + 1 <= Len(url)
      /\ Len(url) - (n + 1) + 1 = Len(tgt)
  BY <1>1
<1>4. rest \in Seq(Set)
  BY <1>2, <1>3, SubSeqProperties
<1>5. Len(rest) = Len(tgt)
  BY <1>2, <1>3, SubSeqProperties
<1>6. \A i \in 1 .. Len(tgt) : rest[i] = url[n + 1 + i - 1]
  BY <1>2, <1>3, SubSeqProperties
<1> HIDE DEF rest
<1>7. \A i \in 1 .. Len(tgt) : rest[i] = tgt[i]
  <2> TAKE i \in 1 .. Len(tgt)
  <2>1. n + 1 + i - 1 = n + i
    BY <1>1
  <2> QED  BY <1>1, <1>6, <2>1
<1>8. rest = tgt
  BY <1>1, <1>4, <1>5, <1>7, SeqEqual
<1> QED  BY <1>8 DEF rest, url, n, tgt

\* A provider's URL is parsed into its scheme, host, port and path.
LEMMA UrlIsParsed ==
    ASSUME NEW p \in Providers, Joinable(p)
    PROVE  /\ ParseUrl(Url(p)).scheme = <<p.scheme>>
           /\ ParseUrl(Url(p)).host = <<p.host>>
           /\ ParseUrl(Url(p)).port = <<PortNumber(p)>>
           /\ ParseUrl(Url(p)).target = PathOf(p)
<1> DEFINE url == Url(p)
           n == Len(Authority(p))
           path_start == Find(url, "/", 5)
           port_sep == Find(url, ":", 5)
           UpTo(position) == IF position = 0 THEN Len(url) ELSE position - 1
           has_port == port_sep # 0 /\ (path_start = 0 \/ port_sep < path_start)
           Set == Atoms(p)
<1>1. path_start = n + 1 /\ port_sep = IF p.port = None THEN 0 ELSE 6
  BY SeparatorsFound DEF Joinable
<1>2. /\ n = IF p.port = None THEN 5 ELSE 7
      /\ Authority(p)[5] = p.host
      /\ p.port # None => Authority(p)[7] = p.port
  BY AuthorityAtoms
<1>3. /\ url \in Seq(Set) /\ Len(url) = n + Len(PathOf(p))
      /\ Len(PathOf(p)) \in Nat \ {0}
      /\ \A k \in 1 .. n : url[k] = Authority(p)[k]
  BY UrlAtoms
<1>4. /\ FindSchemeEnd(url) = 2 /\ SubSeq(url, 1, 2 - 1) = <<p.scheme>>
  BY SchemeEnds
<1>5. /\ ParseUrl(url).scheme = SubSeq(url, 1, 2 - 1)
      /\ ParseUrl(url).host =
             SubSeq(url, 5, UpTo(IF port_sep # 0 THEN port_sep
                                 ELSE path_start))
      /\ ParseUrl(url).port =
             IF has_port THEN SubSeq(url, port_sep + 1, UpTo(path_start))
             ELSE IF SubSeq(url, 1, 2 - 1) = <<"https">> THEN <<"443">>
             ELSE <<"80">>
      /\ ParseUrl(url).target = IF path_start = 0 THEN <<"/">>
                                ELSE SubSeq(url, path_start, Len(url))
  <2>1. FindSchemeEnd(url) = 2 /\ 2 + 3 = 5 /\ 2 # 0
    BY <1>4
  <2> HIDE DEF url
  <2>2. ParseUrl(url).scheme = SubSeq(url, 1, 2 - 1)
    BY <2>1 DEF ParseUrl
  <2>3. ParseUrl(url).host =
             SubSeq(url, 5, UpTo(IF port_sep # 0 THEN port_sep
                                 ELSE path_start))
    BY <2>1 DEF ParseUrl
  <2>4. ParseUrl(url).port =
             IF has_port THEN SubSeq(url, port_sep + 1, UpTo(path_start))
             ELSE IF SubSeq(url, 1, 2 - 1) = <<"https">> THEN <<"443">>
             ELSE <<"80">>
    BY <2>1 DEF ParseUrl
  <2>5. ParseUrl(url).target = IF path_start = 0 THEN <<"/">>
                                ELSE SubSeq(url, path_start, Len(url))
    BY <2>1 DEF ParseUrl
  <2> QED  BY <2>2, <2>3, <2>4, <2>5
<1>6. SubSeq(url, n + 1, Len(url)) = PathOf(p)
  BY TargetIsRest
<1>7. <<p.scheme>> = <<"https">> <=> p.scheme = "https"
  OBVIOUS
<1> HIDE DEF url, n, path_start, port_sep, Set
<1>8. ParseUrl(url).target = PathOf(p)
  <2>1. path_start # 0
    BY <1>1, <1>2
  <2> QED  BY <1>1, <1>5, <1>6, <2>1
<1>9. ParseUrl(url).host = <<p.host>>
  <2>1. UpTo(IF port_sep # 0 THEN port_sep ELSE path_start) = 5
    BY <1>1, <1>2
  <2>2. 5 \in 1 .. Len(url) /\ url[5] = p.host
    BY <1>2, <1>3
  <2>3. SubSeq(url, 5, 5) = <<p.host>>
    BY <1>3, <2>2, SubSeqOfOne
  <2> HIDE DEF UpTo
  <2> QED  BY <1>5, <2>1, <2>3
<1>10. ParseUrl(url).port = <<PortNumber(p)>>
  <2>1. CASE p.port = None
    <3>1. ~ has_port
      BY <1>1, <2>1
    <3> HIDE DEF has_port
    <3> QED  BY <1>4, <1>5, <1>7, <2>1, <3>1 DEF PortNumber
  <2>2. CASE p.port # None
    <3>1. has_port /\ port_sep + 1 = 7 /\ UpTo(path_start) = 7
      BY <1>1, <1>2, <2>2
    <3>2. 7 \in 1 .. Len(url) /\ url[7] = p.port
      BY <1>2, <1>3, <2>2
    <3>3. SubSeq(url, 7, 7) = <<p.port>>
      BY <1>3, <3>2, SubSeqOfOne
    <3> HIDE DEF has_port, UpTo
    <3> QED  BY <1>5, <2>2, <3>1, <3>3 DEF PortNumber
  <2> QED  BY <2>1, <2>2
<1> QED  BY <1>4, <1>5, <1>8, <1>9, <1>10 DEF url

-----------------------------------------------------------------------------
(* The inductive invariant *)

\* The request a provider's configuration is assembled into.
AssembledFor(p) == Assemble(ParseUrl(BuildCompletionsUrl(BaseUrl(p))), p)

\* EXCEPT changes what is in a domain only.
HasFields ==
    /\ info \in Providers
    /\ DOMAIN calls = Calls
    /\ \A r \in Calls : DOMAIN calls[r] = DOMAIN Idle

\* A call that was fetched keeps what was assembled for its provider; until it
\* is answered its provider is still configured, unless it was disturbed.
Fetched(r) ==
    LET p == calls[r].fetched
    IN  /\ calls[r].stage \in {"acquiring", "sent", "answered"}
        /\ p \in Providers
        /\ calls[r].assembled = AssembledFor(p)
        /\ calls[r].body_model = p.model
        /\ ~ calls[r].disturbed =>
               IF calls[r].stage = "answered" THEN calls[r].log_model = p.model
               ELSE info = p

\* What is sent is what was assembled but for the fields that are set over it,
\* those of the provider unless the call was disturbed before.
SentAsAssembled(r) ==
    LET p == calls[r].fetched
        sent == calls[r].sent
        assembled == calls[r].assembled
    IN  /\ calls[r].stage \in {"sent", "answered"}
        /\ sent.connection = assembled.connection
        /\ sent.target = assembled.target
        /\ r \in StreamCalls => sent.headers["proxy-authorization"]
                                    = assembled.headers["proxy-authorization"]
        /\ ~ calls[r].disturbed =>
               /\ sent.headers["authorization"] = p.key
               /\ sent.headers["openai-organization"] = p.organization
               /\ sent.headers["openai-project"] = p.project

AssemblyIInv ==
    /\ HasFields
    /\ \A r \in Calls :
           /\ calls[r].sent # NoRequest => SentAsAssembled(r)
           /\ calls[r].stage = "idle" \/ Fetched(r)

\* It is enough to look at the call a step is about, if the provider configured
\* stays.
LEMMA OneCallChanges ==
    ASSUME AssemblyIInv, NEW r \in Calls, info' = info,
           DOMAIN calls' = Calls, DOMAIN calls'[r] = DOMAIN Idle,
           \A q \in Calls \ {r} : calls'[q] = calls[q],
           Fetched(r)', calls'[r].sent # NoRequest => SentAsAssembled(r)'
    PROVE  AssemblyIInv'
<1>1. HasFields'
  BY DEF AssemblyIInv, HasFields, Idle
<1>2. ASSUME NEW q \in Calls
      PROVE  /\ (calls[q].sent # NoRequest => SentAsAssembled(q))'
             /\ (calls[q].stage = "idle" \/ Fetched(q))'
  <2>1. CASE q = r
    BY <2>1
  <2>2. CASE q # r
    <3>1. calls'[q] = calls[q]
      BY <2>2
    <3>2. /\ calls[q].sent # NoRequest => SentAsAssembled(q)
          /\ calls[q].stage = "idle" \/ Fetched(q)
      BY DEF AssemblyIInv
    <3> QED  BY <3>1, <3>2 DEF SentAsAssembled, Fetched
  <2> QED  BY <2>1, <2>2
<1> QED  BY <1>1, <1>2 DEF AssemblyIInv

\* At first no call was made.
LEMMA AssemblyInitHolds == AssemblyInit => AssemblyIInv
<1> SUFFICES ASSUME AssemblyInit PROVE AssemblyIInv
  OBVIOUS
<1>1. HasFields
  BY DEF AssemblyInit, HasFields
<1>2. ASSUME NEW r \in Calls
      PROVE  calls[r].sent = NoRequest /\ calls[r].stage = "idle"
  BY DEF AssemblyInit, Idle
<1> QED  BY <1>1, <1>2 DEF AssemblyIInv

\* The caller disturbs the calls in flight, and only those.
LEMMA ConfigureKeeps ==
    ASSUME AssemblyIInv, NEW p \in Providers, Configure(p)
    PROVE  AssemblyIInv'
<1>1. /\ info' = p
      /\ calls' = [r \in Calls |->
                      [calls[r] EXCEPT !.disturbed =
                          @ \/ calls[r].stage \in {"acquiring", "sent"}]]
  BY DEF Configure
<1>2. ASSUME NEW r \in Calls
      PROVE  /\ DOMAIN calls'[r] = DOMAIN Idle
             /\ calls'[r].stage = calls[r].stage
             /\ calls'[r].fetched = calls[r].fetched
             /\ calls'[r].assembled = calls[r].assembled
             /\ calls'[r].sent = calls[r].sent
             /\ calls'[r].body_model = calls[r].body_model
             /\ calls'[r].log_model = calls[r].log_model
             /\ calls'[r].disturbed =
                    (\/ calls[r].disturbed
                     \/ calls[r].stage \in {"acquiring", "sent"})
  <2>1. DOMAIN calls[r] = DOMAIN Idle
    BY DEF AssemblyIInv, HasFields
  <2> QED  BY <1>1, <2>1 DEF Idle
<1>3. HasFields'
  BY <1>1, <1>2 DEF HasFields, Idle
<1>4. ASSUME NEW r \in Calls
      PROVE  /\ (calls[r].sent # NoRequest => SentAsAssembled(r))'
             /\ (calls[r].stage = "idle" \/ Fetched(r))'
  <2>1. /\ calls[r].sent # NoRequest => SentAsAssembled(r)
        /\ calls[r].stage = "idle" \/ Fetched(r)
    BY DEF AssemblyIInv
  <2>2. (calls[r].sent # NoRequest => SentAsAssembled(r))'
    BY <1>2, <2>1 DEF SentAsAssembled
  <2>3. CASE calls[r].stage = "idle"
    BY <1>2, <2>2, <2>3
  <2>4. CASE Fetched(r)
    BY <1>2, <2>2, <2>4 DEF Fetched
  <2> QED  BY <2>1, <2>3, <2>4
<1> QED  BY <1>3, <1>4 DEF AssemblyIInv

\* A call that is made is assembled for the provider configured.
LEMMA FetchKeeps ==
    ASSUME AssemblyIInv, NEW r \in Calls, Fetch(r)
    PROVE  AssemblyIInv'
<1>1. /\ DOMAIN calls = Calls /\ DOMAIN calls[r] = DOMAIN Idle
      /\ info \in Providers /\ info' = info
  BY DEF AssemblyIInv, HasFields, Fetch
<1>2. /\ DOMAIN calls' = Calls /\ DOMAIN calls'[r] = DOMAIN Idle
      /\ \A q \in Calls \ {r} : calls'[q] = calls[q]
  BY <1>1 DEF Fetch
<1>3. /\ calls'[r].stage = "acquiring" /\ calls'[r].fetched = info
      /\ calls'[r].assembled = AssembledFor(info)
      /\ calls'[r].body_model = info.model
      /\ calls'[r].sent = calls[r].sent
  BY <1>1 DEF Fetch, AssembledFor, Idle
<1>4. calls[r].sent = NoRequest
  <2>1. calls[r].stage = "idle" /\ "idle" \notin {"sent", "answered"}
    BY DEF Fetch
  <2> QED  BY <2>1 DEF AssemblyIInv, SentAsAssembled
<1>5. Fetched(r)'
  BY <1>1, <1>3 DEF Fetched
<1> QED  BY <1>1, <1>2, <1>3, <1>4, <1>5, OneCallChanges

\* The fields a provider configures are its own in what is sent; credentials for
\* the proxy stay.
LEMMA HeadersSet ==
    ASSUME NEW p, NEW accept, NEW headers, DOMAIN headers = Fields,
           headers["authorization"] = None,
           headers["openai-organization"] = None,
           headers["openai-project"] = None
    PROVE  LET set == SetHeaders(headers, p, accept)
           IN  /\ set["authorization"] = p.key
               /\ set["openai-organization"] = p.organization
               /\ set["openai-project"] = p.project
               /\ set["proxy-authorization"] = headers["proxy-authorization"]
  BY DEF SetHeaders, SetField, Fields

\* Of what was assembled, only the proxy's credentials are headers.
LEMMA HeadersAssembled ==
    ASSUME NEW p
    PROVE  LET assembled == AssembledFor(p)
           IN  /\ DOMAIN assembled = {"connection", "target", "headers"}
               /\ DOMAIN assembled.headers = Fields
               /\ assembled.headers["authorization"] = None
               /\ assembled.headers["openai-organization"] = None
               /\ assembled.headers["openai-project"] = None
  BY DEF AssembledFor, Assemble, NoHeaders, Fields

\* A call that is sent is sent as it was assembled.
LEMMA SendKeeps ==
    ASSUME AssemblyIInv, NEW r \in Calls, SendPlain(r) \/ SendStream(r)
    PROVE  AssemblyIInv'
<1> DEFINE p == calls[r].fetched
           headers == IF r \in StreamCalls THEN calls[r].assembled.headers
                      ELSE NoHeaders
           accept == IF r \in StreamCalls THEN "text/event-stream"
                     ELSE "application/json"
<1>1. /\ DOMAIN calls = Calls /\ DOMAIN calls[r] = DOMAIN Idle
      /\ info' = info
  BY DEF AssemblyIInv, HasFields, SendPlain, SendStream
<1>2. calls' = [calls EXCEPT
          ![r].stage = "sent",
          ![r].sent = [calls[r].assembled EXCEPT
                          !.headers = SetHeaders(headers, info, accept)]]
  <2>1. CASE SendPlain(r)
    <3>1. r \notin StreamCalls
      BY <2>1, CallsAssumption DEF SendPlain
    <3> QED  BY <2>1, <3>1 DEF SendPlain
  <2>2. CASE SendStream(r)
    <3>1. r \in StreamCalls
      BY <2>2 DEF SendStream
    <3>2. [calls[r].assembled EXCEPT
               !.headers = SetHeaders(@, info, "text/event-stream")]
              = [calls[r].assembled EXCEPT
                     !.headers = SetHeaders(calls[r].assembled.headers, info,
                                            "text/event-stream")]
      OBVIOUS
    <3> QED  BY <2>2, <3>1, <3>2 DEF SendStream
  <2> QED  BY <2>1, <2>2
<1>3. calls[r].stage = "acquiring"
  BY DEF SendPlain, SendStream
<1>4. Fetched(r)
  BY <1>3 DEF AssemblyIInv
<1>5. /\ DOMAIN calls' = Calls /\ DOMAIN calls'[r] = DOMAIN Idle
      /\ \A q \in Calls \ {r} : calls'[q] = calls[q]
  <2> HIDE DEF headers, accept
  <2> QED  BY <1>1, <1>2
<1>6. /\ calls'[r].stage = "sent" /\ calls'[r].fetched = p
      /\ calls'[r].disturbed = calls[r].disturbed
      /\ calls'[r].assembled = calls[r].assembled
      /\ calls'[r].body_model = calls[r].body_model
      /\ calls'[r].sent = [calls[r].assembled EXCEPT
                              !.headers = SetHeaders(headers, info, accept)]
  <2> HIDE DEF headers, accept
  <2> QED  BY <1>1, <1>2 DEF Idle
<1>7. Fetched(r)'
  BY <1>1, <1>3, <1>4, <1>6 DEF Fetched
<1>8. /\ calls[r].assembled = AssembledFor(p)
      /\ ~ calls[r].disturbed => info = p
  BY <1>3, <1>4 DEF Fetched
<1>9. /\ calls'[r].sent.connection = calls[r].assembled.connection
      /\ calls'[r].sent.target = calls[r].assembled.target
      /\ calls'[r].sent.headers = SetHeaders(headers, info, accept)
  <2>1. DOMAIN calls[r].assembled = {"connection", "target", "headers"}
    BY <1>8, HeadersAssembled
  <2> HIDE DEF headers, accept
  <2> QED  BY <1>6, <2>1
<1>10. LET set == SetHeaders(headers, info, accept)
       IN  /\ set["authorization"] = info.key
           /\ set["openai-organization"] = info.organization
           /\ set["openai-project"] = info.project
           /\ set["proxy-authorization"] = headers["proxy-authorization"]
  <2>1. /\ DOMAIN headers = Fields /\ headers["authorization"] = None
        /\ headers["openai-organization"] = None
        /\ headers["openai-project"] = None
    <3>1. CASE r \in StreamCalls
      BY <1>8, <3>1, HeadersAssembled
    <3>2. CASE r \notin StreamCalls
      BY <3>2 DEF NoHeaders, Fields
    <3> QED  BY <3>1, <3>2
  <2> HIDE DEF headers, accept
  <2> QED  BY <2>1, HeadersSet
<1>11. SentAsAssembled(r)'
  <2>1. r \in StreamCalls => headers["proxy-authorization"]
                 = calls[r].assembled.headers["proxy-authorization"]
    OBVIOUS
  <2> HIDE DEF headers, accept
  <2> QED  BY <1>6, <1>8, <1>9, <1>10, <2>1 DEF SentAsAssembled
<1> QED  BY <1>1, <1>5, <1>7, <1>11, OneCallChanges

\* A call is answered from the provider configured, its own if not disturbed.
LEMMA AnswerKeeps ==
    ASSUME AssemblyIInv, NEW r \in Calls, Answer(r)
    PROVE  AssemblyIInv'
<1>1. /\ DOMAIN calls = Calls /\ DOMAIN calls[r] = DOMAIN Idle
      /\ info' = info /\ calls[r].stage \in {"acquiring", "sent"}
  BY DEF AssemblyIInv, HasFields, Answer
<1>2. /\ DOMAIN calls' = Calls /\ DOMAIN calls'[r] = DOMAIN Idle
      /\ \A q \in Calls \ {r} : calls'[q] = calls[q]
  BY <1>1 DEF Answer
<1>3. /\ calls'[r].stage = "answered" /\ calls'[r].log_model = info.model
      /\ calls'[r].fetched = calls[r].fetched
      /\ calls'[r].disturbed = calls[r].disturbed
      /\ calls'[r].assembled = calls[r].assembled
      /\ calls'[r].body_model = calls[r].body_model
      /\ calls'[r].sent = calls[r].sent
  BY <1>1 DEF Answer, Idle
<1>4. Fetched(r)
  BY <1>1 DEF AssemblyIInv
<1>5. Fetched(r)'
  BY <1>1, <1>3, <1>4 DEF Fetched
<1>6. calls'[r].sent # NoRequest => SentAsAssembled(r)'
  BY <1>3 DEF AssemblyIInv, SentAsAssembled
<1> QED  BY <1>1, <1>2, <1>5, <1>6, OneCallChanges

\* Every call keeps to one provider.
THEOREM AssemblyInvariantHolds == AssemblySpec => []AssemblyIInv
<1>1. ASSUME AssemblyIInv, [AssemblyNext]_assemblyVars PROVE AssemblyIInv'
  <2>1. CASE \E p \in Providers : Configure(p)
    BY <1>1, <2>1, ConfigureKeeps
  <2>2. ASSUME NEW r \in Calls, Fetch(r) PROVE AssemblyIInv'
    BY <1>1, <2>2, FetchKeeps
  <2>3. ASSUME NEW r \in Calls, SendPlain(r) \/ SendStream(r)
        PROVE  AssemblyIInv'
    BY <1>1, <2>3, SendKeeps
  <2>4. ASSUME NEW r \in Calls, Answer(r) PROVE AssemblyIInv'
    BY <1>1, <2>4, AnswerKeeps
  <2>5. CASE UNCHANGED assemblyVars
    BY <1>1, <2>5 DEF assemblyVars, AssemblyIInv, HasFields, Fetched,
                      SentAsAssembled
  <2> QED  BY <1>1, <2>1, <2>2, <2>3, <2>4, <2>5 DEF AssemblyNext
<1> QED  BY <1>1, AssemblyInitHolds, PTL DEF AssemblySpec

-----------------------------------------------------------------------------
(* What is sent *)

\* What a sent call's parts are, disturbed or not.
LEMMA SentParts ==
    ASSUME AssemblyIInv, NEW r \in SentCalls
    PROVE  /\ r \in Calls /\ calls[r].fetched \in Providers
           /\ Fetched(r) /\ SentAsAssembled(r)
           /\ calls[r].assembled = AssembledFor(calls[r].fetched)
<1>1. r \in Calls /\ SentAsAssembled(r)
  BY DEF SentCalls, AssemblyIInv
<1>2. calls[r].stage # "idle"
  BY <1>1 DEF SentAsAssembled
<1>3. Fetched(r)
  BY <1>1, <1>2 DEF AssemblyIInv
<1> QED  BY <1>1, <1>3 DEF Fetched

\* UndisturbedIsOfOneProvider (RequestAssembly): a request is one provider's in
\* all its parts, unless the caller changes what is configured while the call
\* waits for its connection or its answer.
THEOREM UndisturbedHasOneProvider ==
    AssemblySpec => []UndisturbedIsOfOneProvider
<1>1. ASSUME AssemblyIInv PROVE UndisturbedIsOfOneProvider
  <2>1. SUFFICES ASSUME NEW r \in SentCalls, ~ calls[r].disturbed
                 PROVE  LET p == calls[r].fetched
                            sent == calls[r].sent
                        IN  /\ sent.headers["authorization"] = p.key
                            /\ sent.headers["openai-organization"]
                                   = p.organization
                            /\ sent.headers["openai-project"] = p.project
                            /\ sent.connection.proxy = p.proxy
                            /\ calls[r].body_model = p.model
                            /\ calls[r].stage = "answered"
                                   => calls[r].log_model = p.model
    BY DEF UndisturbedIsOfOneProvider
  <2>2. /\ Fetched(r) /\ SentAsAssembled(r)
        /\ calls[r].assembled = AssembledFor(calls[r].fetched)
    BY <1>1, SentParts
  <2>3. calls[r].sent.connection.proxy = calls[r].fetched.proxy
    BY <2>2 DEF SentAsAssembled, AssembledFor, Assemble
  <2> QED  BY <2>1, <2>2, <2>3 DEF SentAsAssembled, Fetched
<1> QED  BY <1>1, AssemblyInvariantHolds, PTL

\* ProxyIsAuthenticated (RequestAssembly): whatever the base_url is, a streaming
\* request and a request through a tunnel carry the proxy's credentials.
THEOREM ProxiesAreAuthenticated == AssemblySpec => []ProxyIsAuthenticated
<1>1. ASSUME AssemblyIInv PROVE ProxyIsAuthenticated
  <2>1. SUFFICES ASSUME NEW r \in SentCalls,
                        r \in StreamCalls \/ calls[r].fetched.scheme = "https"
                 PROVE  ProxyKnows(r)
    BY DEF ProxyIsAuthenticated
  <2> DEFINE p == calls[r].fetched
             url == ParseUrl(BuildCompletionsUrl(BaseUrl(p)))
             connection == calls[r].sent.connection
             headers == calls[r].sent.headers
  <2>2. /\ SentAsAssembled(r) /\ p \in Providers
        /\ calls[r].assembled = AssembledFor(p)
    BY <1>1, SentParts
  <2>3. url.scheme = <<"https">> <=> p.scheme = "https"
    <3>1. url.scheme = <<p.scheme>>
      BY <2>2, UrlIsJoined, SchemeIsParsed
    <3> HIDE DEF url, p
    <3> QED  BY <3>1
  <2>4. /\ connection = AssembledFor(p).connection
        /\ r \in StreamCalls => headers["proxy-authorization"]
                     = AssembledFor(p).headers["proxy-authorization"]
    BY <2>2 DEF SentAsAssembled
  <2>5. SUFFICES ASSUME p.proxy # None, p.auth # None
                 PROVE  IF p.scheme = "https" THEN connection.connect = p.auth
                        ELSE headers["proxy-authorization"] = p.auth
    BY DEF ProxyKnows
  <2>6. AssembledFor(p) = Assemble(url, p)
    BY DEF AssembledFor
  <2> HIDE DEF url, p, connection, headers
  <2>7. CASE p.scheme = "https"
    <3>1. Assemble(url, p).connection.connect = p.auth
      BY <2>3, <2>5, <2>7 DEF Assemble
    <3> QED  BY <2>4, <2>6, <2>7, <3>1
  <2>8. CASE p.scheme # "https"
    <3>1. Assemble(url, p).headers["proxy-authorization"] = p.auth
      BY <2>3, <2>5, <2>8 DEF Assemble, NoHeaders, Fields
    <3>2. r \in StreamCalls
      BY <2>1, <2>8 DEF p
    <3> QED  BY <2>4, <2>6, <2>8, <3>1, <3>2
  <2> QED  BY <2>7, <2>8
<1> QED  BY <1>1, AssemblyInvariantHolds, PTL

\* A list with one element put after it.
LEMMA OneMore ==
    ASSUME NEW T, NEW x \in Seq(T), NEW last \in T, NEW y \in Seq(T),
           Len(y) = Len(x) + 1, y[Len(x) + 1] = last,
           \A k \in 1 .. Len(x) : y[k] = x[k]
    PROVE  x \o <<last>> = y
<1> DEFINE z == x \o <<last>>
<1>1. /\ <<last>> \in Seq(T) /\ Len(<<last>>) = 1 /\ <<last>>[1] = last
      /\ 1 \in 1 .. 1 /\ Len(x) \in Nat
  OBVIOUS
<1>2. z \in Seq(T)
  BY <1>1, Joined
<1>3. Len(z) = Len(x) + 1
  BY <1>1, Joined
<1>4. \A k \in 1 .. Len(x) : z[k] = x[k]
  BY <1>1, Joined
<1>5. z[Len(x) + 1] = last
  BY <1>1, Joined
<1> HIDE DEF z
<1>6. \A k \in 1 .. Len(x) + 1 : z[k] = y[k]
  BY <1>1, <1>4, <1>5
<1>7. z = y
  BY <1>2, <1>3, <1>6, SeqEqual
<1> QED  BY <1>7 DEF z

\* A request to a proxy is addressed in the absolute form of its URL.
LEMMA OriginAtoms ==
    ASSUME NEW a, NEW e, NEW g
    PROVE  <<a>> \o <<":", "/", "/">> \o <<e>> \o <<":">> \o <<g>>
               = <<a, ":", "/", "/", e, ":", g>>
<1> DEFINE Set == {a, e, g, ":", "/"}
           s1 == <<a>>
           s2 == <<a, ":", "/", "/">>
           s3 == <<a, ":", "/", "/", e>>
           s4 == <<a, ":", "/", "/", e, ":">>
           s5 == <<a, ":", "/", "/", e, ":", g>>
           t1 == <<":", "/", "/">>
<1>1. s1 \o t1 = s2
  <2>1. /\ s1 \in Seq(Set) /\ t1 \in Seq(Set) /\ s2 \in Seq(Set)
        /\ Len(s1) = 1 /\ Len(t1) = 3 /\ Len(s2) = 4
    OBVIOUS
  <2> DEFINE u == s1 \o t1
  <2>2. /\ u \in Seq(Set) /\ Len(u) = 4
        /\ \A k \in 1 .. 1 : u[k] = s1[k]
        /\ \A k \in 1 .. 3 : u[1 + k] = t1[k]
    BY <2>1, Joined
  <2> HIDE DEF u
  <2>3. u[1] = a /\ u[2] = ":" /\ u[3] = "/" /\ u[4] = "/"
    <3>1. u[1] = s1[1] /\ u[1 + 1] = t1[1] /\ u[1 + 2] = t1[2]
          /\ u[1 + 3] = t1[3]
      BY <2>2
    <3> QED  BY <3>1
  <2>4. \A k \in 1 .. 4 : u[k] = s2[k]
    BY <2>3
  <2>5. u = s2
    BY <2>1, <2>2, <2>4, SeqEqual
  <2> QED  BY <2>5 DEF u
<1>2. s2 \o <<e>> = s3
  <2>1. /\ s2 \in Seq(Set) /\ s3 \in Seq(Set) /\ e \in Set
        /\ Len(s2) = 4 /\ Len(s3) = 4 + 1
        /\ \A k \in 1 .. 4 : s3[k] = s2[k]
        /\ s3[4 + 1] = e
    OBVIOUS
  <2> HIDE DEF s2, s3, Set
  <2> QED  BY <2>1, OneMore
<1>3. s3 \o <<":">> = s4
  <2>1. /\ s3 \in Seq(Set) /\ s4 \in Seq(Set) /\ ":" \in Set
        /\ Len(s3) = 5 /\ Len(s4) = 5 + 1
        /\ \A k \in 1 .. 5 : s4[k] = s3[k]
        /\ s4[5 + 1] = ":"
    OBVIOUS
  <2> HIDE DEF s3, s4, Set
  <2> QED  BY <2>1, OneMore
<1>4. s4 \o <<g>> = s5
  <2>1. /\ s4 \in Seq(Set) /\ s5 \in Seq(Set) /\ g \in Set
        /\ Len(s4) = 6 /\ Len(s5) = 6 + 1
        /\ \A k \in 1 .. 6 : s5[k] = s4[k]
        /\ s5[6 + 1] = g
    OBVIOUS
  <2> HIDE DEF s4, s5, Set
  <2> QED  BY <2>1, OneMore
<1> QED  BY <1>1, <1>2, <1>3, <1>4, Zenon

\* BaseUrlIsJoined (RequestAssembly): if no path that is configured has a colon,
\* every request goes to the host, port and path that its base_url names, with
\* or without slashes that end it, directly or by a proxy.
THEOREM BaseUrlsAreJoined ==
    ASSUME \A p \in Providers : Joinable(p)
    PROVE  AssemblySpec => []BaseUrlIsJoined
<1>1. ASSUME AssemblyIInv PROVE BaseUrlIsJoined
  <2>1. SUFFICES ASSUME NEW r \in SentCalls
                 PROVE  LET p == calls[r].fetched
                            sent == calls[r].sent
                            port == IF p.port # None THEN p.port
                                    ELSE IF p.scheme = "https" THEN "443"
                                    ELSE "80"
                            origin == <<p.scheme, ":", "/", "/", p.host, ":",
                                        port>>
                        IN  /\ sent.connection.scheme = <<p.scheme>>
                            /\ sent.connection.host = <<p.host>>
                            /\ sent.connection.port = <<port>>
                            /\ sent.target =
                                   (IF p.proxy # None /\ p.scheme = "http"
                                    THEN origin ELSE <<>>) \o PathOf(p)
    BY DEF BaseUrlIsJoined
  <2> DEFINE p == calls[r].fetched
             url == ParseUrl(BuildCompletionsUrl(BaseUrl(p)))
             sent == calls[r].sent
             origin == <<p.scheme, ":", "/", "/", p.host, ":", PortNumber(p)>>
  <2>2. /\ SentAsAssembled(r) /\ p \in Providers
        /\ calls[r].assembled = AssembledFor(p)
    BY <1>1, SentParts
  <2>3. Joinable(p) /\ p.scheme \in {"http", "https"}
    BY <2>2 DEF Joinable
  <2>4. /\ url.scheme = <<p.scheme>> /\ url.host = <<p.host>>
        /\ url.port = <<PortNumber(p)>> /\ url.target = PathOf(p)
    BY <2>2, <2>3, UrlIsJoined, UrlIsParsed
  <2>5. AssembledFor(p) = Assemble(url, p)
    BY DEF AssembledFor
  <2>6. /\ sent.connection = AssembledFor(p).connection
        /\ sent.target = AssembledFor(p).target
    BY <2>2 DEF SentAsAssembled
  <2>7. PathOf(p) \in Seq(Atoms(p))
    BY <2>2, TargetAtoms
  <2> HIDE DEF p, url, sent
  <2>8. url.scheme = <<"https">> <=> p.scheme = "https"
    BY <2>4
  <2>9. /\ sent.connection.scheme = <<p.scheme>>
        /\ sent.connection.host = <<p.host>>
        /\ sent.connection.port = <<PortNumber(p)>>
    BY <2>4, <2>5, <2>6 DEF Assemble
  <2>10. AbsoluteForm(url) = origin \o PathOf(p)
    BY <2>4, OriginAtoms DEF AbsoluteForm
  <2>11. <<>> \o PathOf(p) = PathOf(p)
    BY <2>7, ConcatEmptySeq
  <2> HIDE DEF origin
  <2>12. sent.target = (IF p.proxy # None /\ p.scheme = "http"
                        THEN origin ELSE <<>>) \o PathOf(p)
    <3>0. Assemble(url, p).target =
              IF /\ p.proxy # None
                 /\ ~ (p.proxy # None /\ url.scheme = <<"https">>)
              THEN AbsoluteForm(url) ELSE url.target
      BY DEF Assemble
    <3>1. CASE p.proxy # None /\ p.scheme = "http"
      <4>1. sent.target = AbsoluteForm(url)
        BY <2>5, <2>6, <2>8, <3>0, <3>1
      <4> QED  BY <2>10, <3>1, <4>1
    <3>2. CASE ~ (p.proxy # None /\ p.scheme = "http")
      <4>1. sent.target = PathOf(p)
        BY <2>3, <2>4, <2>5, <2>6, <2>8, <3>0, <3>2
      <4> QED  BY <2>11, <3>2, <4>1
    <3> QED  BY <3>1, <3>2
  <2> QED  BY <2>9, <2>12 DEF PortNumber, p, sent, origin
<1> QED  BY <1>1, AssemblyInvariantHolds, PTL
=============================================================================
