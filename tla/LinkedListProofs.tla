-------------------------- MODULE LinkedListProofs --------------------------
(***************************************************************************)
(* Proofs about LinkedList.  The chain of nodes is defined by a walk along *)
(* the next pointers, which no invariant can be stated about directly: the *)
(* first part shows that a sequence with the local properties of a chain   *)
(* is the one that the walk finds.  The second part says what each way to  *)
(* change head and next does to the chain, and the third has the inductive *)
(* invariant and one lemma per operation.                                  *)
(***************************************************************************)
EXTENDS LinkedList, FiniteSetTheorems, SequenceTheorems, NumberLemmas, TLAPS

-----------------------------------------------------------------------------
(* The walk and the chain *)

\* The definition of Chain for any head and next pointers and N + 1 turns.
Walks(h, nx, N) ==
    CHOOSE w : w = [k \in 0 .. N |->
      IF k = 0 THEN IF h = NULL THEN <<>> ELSE <<h>>
      ELSE LET p == w[k - 1] IN
           IF p = <<>> THEN p
           ELSE IF nx[p[Len(p)]] = NULL THEN p
           ELSE Append(p, nx[p[Len(p)]])]

\* s is a sequence of distinct nodes that starts at h, follows the pointers
\* nx and ends in NULL.
IsChain(s, h, nx) ==
    /\ s \in Seq(Nodes)
    /\ \A i, j \in 1 .. Len(s) : s[i] = s[j] => i = j
    /\ h = IF s = <<>> THEN NULL ELSE s[1]
    /\ s # <<>> => nx[s[Len(s)]] = NULL
    /\ \A k \in 1 .. Len(s) - 1 : nx[s[k]] = s[k + 1]

\* The first n elements of a sequence.
Prefix(s, n) == [i \in 1 .. n |-> s[i]]

\* A prefix is a sequence of that length.
LEMMA PrefixSeq ==
    ASSUME NEW S, NEW s \in Seq(S), NEW n \in 0 .. Len(s)
    PROVE  /\ Prefix(s, n) \in Seq(S)
           /\ Len(Prefix(s, n)) = n
           /\ \A i \in 1 .. n : Prefix(s, n)[i] = s[i]
           /\ Prefix(s, n) = <<>> <=> n = 0
<1>1. Len(s) \in Nat /\ \A i \in 1 .. Len(s) : s[i] \in S
  BY LenProperties, ElementOfSeq
<1>2. n \in Nat /\ \A i \in 1 .. n : s[i] \in S
  BY <1>1
<1>3. Prefix(s, n) \in Seq(S)
  BY <1>2, IsASeq DEF Prefix
<1>4. Len(Prefix(s, n)) = n
  BY <1>2, <1>3 DEF Prefix
<1>5. \A i \in 1 .. n : Prefix(s, n)[i] = s[i]
  BY DEF Prefix
<1>6. Prefix(s, n) = <<>> <=> n = 0
  BY <1>3, <1>4, EmptySeq
<1> QED
  BY <1>3, <1>4, <1>5, <1>6

\* Distinct nodes: no more of them than addresses, and the set of them has as
\* many members as the sequence.
LEMMA ChainLength ==
    ASSUME NEW s \in Seq(Nodes),
           \A i, j \in 1 .. Len(s) : s[i] = s[j] => i = j
    PROVE  /\ Len(s) =< Cardinality(Nodes)
           /\ Cardinality(NodesOf(s)) = Len(s)
<1>1. Len(s) \in Nat /\ s \in [1 .. Len(s) -> Nodes] /\ DOMAIN s = 1 .. Len(s)
  BY LenProperties
<1>2. IsFiniteSet(1 .. Len(s)) /\ Cardinality(1 .. Len(s)) = Len(s)
  BY <1>1, FS_Interval
<1>3. s \in Injection(1 .. Len(s), Nodes)
  BY <1>1 DEF Injection, IsInjective
<1>4. Cardinality(1 .. Len(s)) =< Cardinality(Nodes)
  BY <1>3, FS_Injection, ListAssumption
<1>5. s \in Bijection(1 .. Len(s), NodesOf(s))
  BY <1>1 DEF Bijection, Injection, Surjection, IsInjective, NodesOf
<1>6. Cardinality(NodesOf(s)) = Cardinality(1 .. Len(s))
  BY <1>2, <1>5, FS_Bijection DEF ExistsBijection
<1> QED
  BY <1>1, <1>2, <1>4, <1>6

\* One turn of the walk: the prefix grows by one node until the chain ends.
LEMMA WalkTurn ==
    ASSUME NEW s, NEW h, NEW nx, IsChain(s, h, nx), NEW n \in 1 .. Len(s)
    PROVE  LET p == Prefix(s, n) IN
             /\ p # <<>>
             /\ nx[p[Len(p)]] = NULL => n = Len(s)
             /\ n = Len(s) => nx[p[Len(p)]] = NULL
             /\ n < Len(s) => Append(p, nx[p[Len(p)]]) = Prefix(s, n + 1)
<1>1. s \in Seq(Nodes) /\ Len(s) \in Nat /\ s # <<>>
  BY LenProperties DEF IsChain
<1>2. n \in 0 .. Len(s) /\ n \in Nat
  BY <1>1
<1> DEFINE p == Prefix(s, n)
<1>3. p \in Seq(Nodes) /\ Len(p) = n /\ p # <<>>
  BY <1>1, <1>2, PrefixSeq
<1>4. p[Len(p)] = s[n]
  BY <1>1, <1>2, <1>3, PrefixSeq
<1>5. ASSUME n = Len(s) PROVE nx[p[Len(p)]] = NULL
  BY <1>1, <1>4, <1>5 DEF IsChain
<1>6. ASSUME n < Len(s)
      PROVE  nx[p[Len(p)]] # NULL /\ Append(p, nx[p[Len(p)]]) = Prefix(s, n + 1)
  <2>1. n \in 1 .. Len(s) - 1 /\ n + 1 \in 0 .. Len(s) /\ n + 1 \in 1 .. Len(s)
    BY <1>1, <1>2, <1>6
  <2>2. nx[p[Len(p)]] = s[n + 1]
    BY <1>4, <2>1 DEF IsChain
  <2>3. s[n + 1] \in Nodes
    BY <1>1, <2>1, ElementOfSeq
  <2>4. nx[p[Len(p)]] # NULL
    BY <2>2, <2>3, ListAssumption
  <2> DEFINE a == Append(p, s[n + 1])
  <2> DEFINE b == Prefix(s, n + 1)
  <2>5. /\ a \in Seq(Nodes) /\ Len(a) = n + 1 /\ a[n + 1] = s[n + 1]
        /\ \A i \in 1 .. n : a[i] = p[i]
    BY <1>3, <2>3, AppendProperties
  <2>6. /\ b \in Seq(Nodes) /\ Len(b) = n + 1
        /\ \A i \in 1 .. n + 1 : b[i] = s[i]
    BY <1>1, <2>1, PrefixSeq
  <2>7. \A i \in 1 .. n : p[i] = s[i]
    BY <1>1, <1>2, PrefixSeq
  <2> HIDE DEF a, b, p
  <2>8. \A i \in 1 .. Len(a) : a[i] = b[i]
    BY <1>2, <2>5, <2>6, <2>7
  <2>9. a = b
    BY <2>5, <2>6, <2>8, SeqEqual
  <2> QED
    BY <2>2, <2>4, <2>9 DEF a, b
<1> QED
  BY <1>2, <1>3, <1>5, <1>6

\* The walk over a chain goes through its prefixes, and finds all of it.
LEMMA WalkFinds ==
    ASSUME NEW s, NEW h, NEW nx, IsChain(s, h, nx)
    PROVE  Walks(h, nx, Cardinality(Nodes))[Cardinality(Nodes) - 1] = s
<1> DEFINE N == Cardinality(Nodes)
<1> DEFINE Upto(k) == IF k + 1 < Len(s) THEN k + 1 ELSE Len(s)
<1> DEFINE Turn(w, k) ==
             IF k = 0 THEN IF h = NULL THEN <<>> ELSE <<h>>
             ELSE LET p == w[k - 1] IN
                  IF p = <<>> THEN p
                  ELSE IF nx[p[Len(p)]] = NULL THEN p
                  ELSE Append(p, nx[p[Len(p)]])
<1> DEFINE g == [k \in 0 .. N |-> Prefix(s, Upto(k))]
<1> DEFINE W == Walks(h, nx, N)
<1>1. N \in Nat \ {0}
  BY FS_CardinalityType, FS_EmptySet, ListAssumption
<1>2. s \in Seq(Nodes) /\ Len(s) \in Nat /\ Len(s) =< N
  BY ChainLength, LenProperties DEF IsChain
<1> HIDE DEF N
<1>3. \A k \in 0 .. N : g[k] = Turn(g, k)
  <2> SUFFICES ASSUME NEW k \in 0 .. N PROVE g[k] = Turn(g, k)
    OBVIOUS
  <2>1. Upto(k) \in 0 .. Len(s) /\ g[k] = Prefix(s, Upto(k))
    BY <1>1, <1>2
  <2>2. CASE s = <<>>
    <3>1. Len(s) = 0 /\ h = NULL
      BY <2>2 DEF IsChain
    <3>2. Upto(k) = 0
      BY <1>1, <3>1
    <3>3. 0 \in 0 .. Len(s)
      BY <3>1
    <3>4. Prefix(s, 0) = <<>>
      BY <1>2, <3>3, PrefixSeq
    <3>5. g[k] = <<>>
      BY <2>1, <3>2, <3>4
    <3>6. k # 0 => g[k - 1] = <<>>
      <4>1. SUFFICES ASSUME k # 0 PROVE g[k - 1] = <<>>
        OBVIOUS
      <4>2. k - 1 \in 0 .. N /\ Upto(k - 1) = 0
        BY <1>1, <3>1, <4>1
      <4>3. g[k - 1] = Prefix(s, 0)
        BY <4>2
      <4> QED
        BY <3>4, <4>3
    <3> HIDE DEF g
    <3> QED
      BY <3>1, <3>5, <3>6
  <2>3. CASE s # <<>> /\ k = 0
    <3>1. h = s[1] /\ Len(s) >= 1
      BY <1>2, <2>3, EmptySeq DEF IsChain
    <3>2. s[1] \in Nodes
      BY <1>2, <3>1, ElementOfSeq
    <3>3. Upto(k) = 1
      BY <1>2, <2>3, <3>1
    <3>4. Prefix(s, 1) = <<s[1]>>
      BY DEF Prefix
    <3> HIDE DEF g
    <3> QED
      BY <2>1, <2>3, <3>1, <3>2, <3>3, <3>4, ListAssumption
  <2>4. CASE s # <<>> /\ k # 0
    <3>1. Len(s) >= 1 /\ k \in 1 .. N
      BY <1>1, <1>2, <2>4, EmptySeq
    <3> DEFINE n == Upto(k - 1)
    <3>2. /\ k - 1 \in 0 .. N /\ n \in 1 .. Len(s)
          /\ n = Len(s) => Upto(k) = n
          /\ n < Len(s) => Upto(k) = n + 1
      BY <1>1, <1>2, <3>1
    <3>3. g[k - 1] = Prefix(s, n)
      BY <3>2
    <3> HIDE DEF n, g
    <3> DEFINE p == Prefix(s, n)
    <3>4. /\ p # <<>>
          /\ nx[p[Len(p)]] = NULL <=> n = Len(s)
          /\ n < Len(s) => Append(p, nx[p[Len(p)]]) = Prefix(s, n + 1)
      BY <3>2, WalkTurn
    <3> HIDE DEF p
    <3>5. CASE n = Len(s)
      <4>1. g[k] = p
        BY <2>1, <3>2, <3>5 DEF p
      <4>2. Turn(g, k) = p
        BY <2>4, <3>3, <3>4, <3>5 DEF p
      <4> QED
        BY <4>1, <4>2
    <3>6. CASE n < Len(s)
      <4>1. g[k] = Prefix(s, n + 1)
        BY <2>1, <3>2, <3>6
      <4>2. n # Len(s)
        BY <1>2, <3>2, <3>6
      <4>3. Turn(g, k) = Append(p, nx[p[Len(p)]])
        BY <2>4, <3>3, <3>4, <4>2 DEF p
      <4> QED
        BY <3>4, <3>6, <4>1, <4>3
    <3> QED
      BY <1>2, <3>2, <3>5, <3>6
  <2> QED
    BY <2>2, <2>3, <2>4
<1>4. g = [k \in 0 .. N |-> Turn(g, k)]
  <2>1. g = [k \in 0 .. N |-> g[k]]
    OBVIOUS
  <2> HIDE DEF g
  <2> QED
    BY <1>3, <2>1
<1> HIDE DEF g
<1>5. W = [k \in 0 .. N |-> Turn(W, k)]
  BY <1>4 DEF Walks
<1>6. \A k \in 0 .. N : W[k] = Turn(W, k)
  <2> HIDE DEF W
  <2> QED
    BY <1>5
<1> HIDE DEF W
<1>7. \A k \in 0 .. N : W[k] = g[k]
  <2> DEFINE Bad == {k \in 0 .. N : W[k] # g[k]}
  <2> SUFFICES ASSUME Bad # {} PROVE FALSE
    OBVIOUS
  <2>1. Bad \subseteq Nat
    BY <1>1
  <2>2. PICK k \in Bad : \A j \in Bad : k =< j
    <3> HIDE DEF Bad
    <3> QED
      BY <2>1, LeastNat
  <2>3. k \in 0 .. N /\ W[k] # g[k]
    OBVIOUS
  <2>4. k # 0 => W[k - 1] = g[k - 1]
    <3>1. SUFFICES ASSUME k # 0, W[k - 1] # g[k - 1] PROVE FALSE
      OBVIOUS
    <3>2. k - 1 \in 0 .. N
      BY <1>1, <2>3, <3>1
    <3>3. k =< k - 1
      BY <2>2, <3>1, <3>2
    <3> QED
      BY <1>1, <2>3, <3>3
  <2>5. Turn(W, k) = Turn(g, k)
    BY <2>4
  <2>6. W[k] = Turn(W, k) /\ g[k] = Turn(g, k)
    BY <1>3, <1>6, <2>3
  <2> HIDE DEF Turn
  <2> QED
    BY <2>3, <2>5, <2>6
<1>8. g[N - 1] = s
  <2>1. N - 1 \in 0 .. N /\ Upto(N - 1) = Len(s)
    BY <1>1, <1>2
  <2>2. g[N - 1] = Prefix(s, Len(s))
    BY <2>1 DEF g
  <2>3. Len(s) \in 0 .. Len(s)
    BY <1>2
  <2>4. /\ Prefix(s, Len(s)) \in Seq(Nodes) /\ Len(Prefix(s, Len(s))) = Len(s)
        /\ \A i \in 1 .. Len(s) : Prefix(s, Len(s))[i] = s[i]
    BY <1>2, <2>3, PrefixSeq
  <2>5. Prefix(s, Len(s)) = s
    BY <1>2, <2>4, SeqEqual
  <2> QED
    BY <2>2, <2>5
<1>9. N - 1 \in 0 .. N
  BY <1>1
<1>10. W[N - 1] = s
  BY <1>7, <1>8, <1>9
<1> QED
  BY <1>10 DEF W, N

\* A sequence with the properties of a chain is the chain, before and after a
\* step.
LEMMA ChainIs ==
    ASSUME NEW s
    PROVE  /\ IsChain(s, head, next) => Chain = s
           /\ IsChain(s, head', next') => Chain' = s
<1>1. Chain = Walks(head, next, Cardinality(Nodes))[Cardinality(Nodes) - 1]
  BY DEF Chain, Walks
<1>2. Chain' = Walks(head', next', Cardinality(Nodes))[Cardinality(Nodes) - 1]
  BY DEF Chain, Walks
<1> QED
  BY <1>1, <1>2, WalkFinds

-----------------------------------------------------------------------------
(* What the operations do to the chain *)

\* The parts of a chain: its ends, and its nodes as a set.
LEMMA ChainEnds ==
    ASSUME NEW s, NEW h, NEW nx, IsChain(s, h, nx)
    PROVE  /\ s \in Seq(Nodes) /\ Len(s) \in Nat
           /\ DOMAIN s = 1 .. Len(s)
           /\ NodesOf(s) \subseteq Nodes
           /\ \A k \in 1 .. Len(s) : s[k] \in NodesOf(s)
           /\ s = <<>> <=> h = NULL
           /\ s = <<>> <=> Len(s) = 0
           /\ s = <<>> => NodesOf(s) = {}
           /\ s # <<>> => /\ h = s[1] /\ Len(s) >= 1
                          /\ s[1] \in NodesOf(s) /\ s[Len(s)] \in NodesOf(s)
<1>1. /\ s \in Seq(Nodes) /\ Len(s) \in Nat /\ DOMAIN s = 1 .. Len(s)
      /\ \A k \in 1 .. Len(s) : s[k] \in Nodes
  BY LenProperties, ElementOfSeq DEF IsChain
<1>2. s = <<>> <=> Len(s) = 0
  BY <1>1, EmptySeq
<1>3. /\ NodesOf(s) \subseteq Nodes
      /\ \A k \in 1 .. Len(s) : s[k] \in NodesOf(s)
  BY <1>1 DEF NodesOf
<1>4. s # <<>> => 1 \in 1 .. Len(s) /\ Len(s) \in 1 .. Len(s)
  BY <1>1, <1>2
<1>5. s # <<>> => h = s[1] /\ h # NULL
  BY <1>1, <1>4, ListAssumption DEF IsChain
<1>6. s = <<>> => NodesOf(s) = {} /\ h = NULL
  BY <1>1, <1>2 DEF NodesOf, IsChain
<1> QED
  BY <1>1, <1>2, <1>3, <1>4, <1>5, <1>6

\* The pointers of other nodes do not matter.
LEMMA OtherChain ==
    ASSUME NEW s, NEW h, NEW nx \in [Nodes -> Nodes \cup {NULL}],
           IsChain(s, h, nx), NEW n, n \notin NodesOf(s), NEW v
    PROVE  IsChain(s, h, [nx EXCEPT ![n] = v])
<1>1. /\ Len(s) \in Nat /\ \A k \in 1 .. Len(s) : s[k] \in Nodes /\ s[k] # n
      /\ s # <<>> => Len(s) \in 1 .. Len(s)
      /\ \A k \in 1 .. Len(s) - 1 : k \in 1 .. Len(s)
  BY ChainEnds
<1>2. \A k \in 1 .. Len(s) : [nx EXCEPT ![n] = v][s[k]] = nx[s[k]]
  BY <1>1
<1> QED
  BY <1>1, <1>2 DEF IsChain

\* A node linked in front of the chain (llist_insert_front, llist_push).
LEMMA FrontChain ==
    ASSUME NEW s, NEW h, NEW nx \in [Nodes -> Nodes \cup {NULL}],
           IsChain(s, h, nx), NEW n \in Nodes, n \notin NodesOf(s)
    PROVE  /\ IsChain(<<n>> \o s, n, [nx EXCEPT ![n] = h])
           /\ NodesOf(<<n>> \o s) = NodesOf(s) \cup {n}
           /\ Len(<<n>> \o s) = Len(s) + 1
<1> DEFINE r == <<n>> \o s
<1> DEFINE nx2 == [nx EXCEPT ![n] = h]
<1>1. /\ s \in Seq(Nodes) /\ Len(s) \in Nat /\ DOMAIN s = 1 .. Len(s)
      /\ \A k \in 1 .. Len(s) : s[k] \in Nodes /\ s[k] # n
  BY ChainEnds
<1>2. <<n>> \in Seq(Nodes) /\ Len(<<n>>) = 1 /\ <<n>>[1] = n
  OBVIOUS
<1>3. /\ r \in Seq(Nodes) /\ Len(r) = Len(s) + 1
      /\ \A i \in 1 .. Len(s) + 1 : r[i] = IF i =< 1 THEN n ELSE s[i - 1]
  BY <1>1, <1>2, ConcatProperties
<1>4. DOMAIN r = 1 .. Len(s) + 1
  BY <1>3, LenProperties
<1> HIDE DEF r
<1>5. r[1] = n /\ \A k \in 1 .. Len(s) : r[k + 1] = s[k]
  BY <1>1, <1>3
<1>6. nx2[n] = h /\ \A k \in 1 .. Len(s) : nx2[s[k]] = nx[s[k]]
  BY <1>1
<1> HIDE DEF nx2
<1>7. \A i, j \in 1 .. Len(r) : r[i] = r[j] => i = j
  <2> SUFFICES ASSUME NEW i \in 1 .. Len(r), NEW j \in 1 .. Len(r), r[i] = r[j]
               PROVE  i = j
    OBVIOUS
  <2>1. CASE i = 1 \/ j = 1
    <3>1. \A k \in 1 .. Len(r) : k # 1 => k - 1 \in 1 .. Len(s) /\ r[k] # n
      BY <1>1, <1>3
    <3> QED
      BY <1>5, <2>1, <3>1
  <2>2. CASE i # 1 /\ j # 1
    <3>1. i - 1 \in 1 .. Len(s) /\ j - 1 \in 1 .. Len(s)
      BY <1>1, <1>3, <2>2
    <3>2. s[i - 1] = s[j - 1]
      BY <1>1, <1>3, <2>2
    <3>3. i - 1 = j - 1
      BY <3>1, <3>2 DEF IsChain
    <3> QED
      BY <1>1, <1>3, <3>3
  <2> QED
    BY <2>1, <2>2
<1>8. r # <<>>
  BY <1>1, <1>3
<1>9. nx2[r[Len(r)]] = NULL
  <2>1. CASE s = <<>>
    BY <1>3, <1>5, <1>6, <2>1 DEF IsChain
  <2>2. CASE s # <<>>
    <3>1. Len(s) \in 1 .. Len(s)
      BY <1>1, <2>2, ChainEnds
    <3>2. r[Len(r)] = s[Len(s)]
      BY <1>3, <1>5, <3>1
    <3> QED
      BY <1>6, <2>2, <3>1, <3>2 DEF IsChain
  <2> QED
    BY <2>1, <2>2
<1>10. \A k \in 1 .. Len(r) - 1 : nx2[r[k]] = r[k + 1]
  <2> SUFFICES ASSUME NEW k \in 1 .. Len(s) PROVE nx2[r[k]] = r[k + 1]
    BY <1>1, <1>3
  <2>1. CASE k = 1
    <3>1. s # <<>> /\ h = s[1]
      BY <1>1, ChainEnds
    <3> QED
      BY <1>5, <1>6, <2>1, <3>1
  <2>2. CASE k # 1
    <3>1. k - 1 \in 1 .. Len(s) - 1 /\ k - 1 \in 1 .. Len(s) /\ (k - 1) + 1 = k
      BY <1>1, <2>2
    <3>2. r[k] = s[k - 1]
      BY <1>5, <3>1
    <3>3. nx[s[k - 1]] = s[k]
      BY <3>1 DEF IsChain
    <3> QED
      BY <1>5, <1>6, <3>1, <3>2, <3>3
  <2> QED
    BY <2>1, <2>2
<1>11. IsChain(r, n, nx2)
  BY <1>3, <1>5, <1>7, <1>8, <1>9, <1>10 DEF IsChain
<1>12. NodesOf(r) = NodesOf(s) \cup {n}
  <2>1. \A k \in 1 .. Len(s) : k + 1 \in 1 .. Len(s) + 1
    BY <1>1
  <2>2. 1 \in 1 .. Len(s) + 1
    BY <1>1
  <2>3. \A k \in 1 .. Len(s) + 1 :
          k # 1 => k - 1 \in 1 .. Len(s) /\ r[k] = s[k - 1]
    BY <1>1, <1>3
  <2>4. NodesOf(r) \subseteq NodesOf(s) \cup {n}
    BY <1>1, <1>4, <1>5, <2>3 DEF NodesOf
  <2>5. NodesOf(s) \cup {n} \subseteq NodesOf(r)
    BY <1>1, <1>4, <1>5, <2>1, <2>2 DEF NodesOf
  <2> QED
    BY <2>4, <2>5
<1> QED
  BY <1>3, <1>11, <1>12 DEF r, nx2

\* The nodes of a chain with one more at its end.
LEMMA AppendNodes ==
    ASSUME NEW s \in Seq(Nodes), NEW n \in Nodes
    PROVE  NodesOf(Append(s, n)) = NodesOf(s) \cup {n}
<1> DEFINE r == Append(s, n)
<1>1. Len(s) \in Nat /\ DOMAIN s = 1 .. Len(s)
  BY LenProperties
<1>2. /\ r \in Seq(Nodes) /\ Len(r) = Len(s) + 1
      /\ \A i \in 1 .. Len(s) : r[i] = s[i]
      /\ r[Len(s) + 1] = n
  BY AppendProperties
<1> HIDE DEF r
<1>3. DOMAIN r = 1 .. Len(s) + 1
  BY <1>2, LenProperties
<1>4. 1 .. Len(s) + 1 = (1 .. Len(s)) \cup {Len(s) + 1}
  BY <1>1
<1>5. NodesOf(r) = NodesOf(s) \cup {n}
  BY <1>1, <1>2, <1>3, <1>4 DEF NodesOf
<1> QED
  BY <1>5 DEF r

\* A node linked after the last one (llist_insert_back, llist_enqueue).
LEMMA BackChain ==
    ASSUME NEW s, NEW h, NEW nx \in [Nodes -> Nodes \cup {NULL}],
           IsChain(s, h, nx), NEW n \in Nodes, n \notin NodesOf(s),
           nx[n] = NULL
    PROVE  /\ h = NULL => IsChain(Append(s, n), n, nx)
           /\ h # NULL => IsChain(Append(s, n), h, [nx EXCEPT ![s[Len(s)]] = n])
           /\ NodesOf(Append(s, n)) = NodesOf(s) \cup {n}
           /\ Len(Append(s, n)) = Len(s) + 1
           /\ Append(s, n) # <<>>
           /\ Append(s, n)[Len(Append(s, n))] = n
<1> DEFINE r == Append(s, n)
<1> DEFINE nx2 == [nx EXCEPT ![s[Len(s)]] = n]
<1>1. /\ s \in Seq(Nodes) /\ Len(s) \in Nat /\ DOMAIN s = 1 .. Len(s)
      /\ \A k \in 1 .. Len(s) : s[k] \in Nodes /\ s[k] # n
  BY ChainEnds
<1>2. /\ r \in Seq(Nodes) /\ r # <<>> /\ Len(r) = Len(s) + 1
      /\ \A i \in 1 .. Len(s) : r[i] = s[i]
      /\ r[Len(s) + 1] = n
  BY <1>1, AppendProperties
<1> HIDE DEF r
<1>4. \A i, j \in 1 .. Len(r) : r[i] = r[j] => i = j
  <2>1. \A k \in 1 .. Len(r) : k \in 1 .. Len(s) \/ k = Len(s) + 1
    BY <1>1, <1>2
  <2> QED
    BY <1>1, <1>2, <2>1 DEF IsChain
<1>5. ASSUME h = NULL PROVE IsChain(r, n, nx)
  <2>1. s = <<>> /\ Len(s) = 0
    BY <1>5, ChainEnds
  <2>2. Len(r) = 1 /\ r[1] = n
    BY <1>2, <2>1
  <2> QED
    BY <1>2, <1>4, <2>2 DEF IsChain
<1>6. ASSUME h # NULL PROVE IsChain(r, h, nx2)
  <2>1. s # <<>> /\ h = s[1] /\ Len(s) \in 1 .. Len(s) /\ 1 \in 1 .. Len(s)
    BY <1>1, <1>6, ChainEnds
  <2>2. nx2[s[Len(s)]] = n /\ nx2[n] = NULL
    BY <1>1, <2>1
  <2>3. \A k \in 1 .. Len(s) - 1 : s[k] # s[Len(s)] /\ k \in 1 .. Len(s)
    BY <1>1, <2>1 DEF IsChain
  <2>4. \A k \in 1 .. Len(s) - 1 : nx2[s[k]] = nx[s[k]]
    BY <1>1, <2>3
  <2> HIDE DEF nx2
  <2>5. \A k \in 1 .. Len(r) - 1 : nx2[r[k]] = r[k + 1]
    <3> SUFFICES ASSUME NEW k \in 1 .. Len(s) PROVE nx2[r[k]] = r[k + 1]
      BY <1>1, <1>2
    <3>1. CASE k = Len(s)
      BY <1>2, <2>2, <3>1
    <3>2. CASE k # Len(s)
      <4>1. Len(s) \in Nat
        BY <1>1
      <4>2. k \in 1 .. Len(s) - 1 /\ k + 1 \in 1 .. Len(s)
        BY <3>2, <4>1
      <4>3. nx[s[k]] = s[k + 1]
        BY <4>2 DEF IsChain
      <4> QED
        BY <1>2, <2>4, <4>2, <4>3
    <3> QED
      BY <3>1, <3>2
  <2>6. nx2[r[Len(r)]] = NULL
    BY <1>2, <2>2
  <2>7. h = r[1]
    BY <1>2, <2>1
  <2> QED
    BY <1>2, <1>4, <2>5, <2>6, <2>7 DEF IsChain
<1>7. NodesOf(r) = NodesOf(s) \cup {n}
  BY <1>1, AppendNodes DEF r
<1> QED
  BY <1>2, <1>5, <1>6, <1>7 DEF r, nx2

\* The first node unlinked (llist_remove_front, llist_pop, llist_dequeue).
LEMMA TailChain ==
    ASSUME NEW s, NEW h, NEW nx, IsChain(s, h, nx), s # <<>>
    PROVE  /\ IsChain(Tail(s), nx[h], nx)
           /\ NodesOf(Tail(s)) = NodesOf(s) \ {h}
           /\ Len(Tail(s)) = Len(s) - 1
           /\ Tail(s) # <<>> => Tail(s)[Len(Tail(s))] = s[Len(s)]
<1> DEFINE r == Tail(s)
<1>1. /\ s \in Seq(Nodes) /\ Len(s) \in Nat /\ DOMAIN s = 1 .. Len(s)
      /\ h = s[1] /\ Len(s) >= 1 /\ \A k \in 1 .. Len(s) : s[k] \in Nodes
  BY ChainEnds
<1>2. /\ r \in Seq(Nodes) /\ Len(r) = Len(s) - 1
      /\ \A i \in 1 .. Len(r) : r[i] = s[i + 1]
  BY <1>1, HeadTailProperties
<1>3. DOMAIN r = 1 .. Len(s) - 1 /\ (r = <<>> <=> Len(r) = 0)
  BY <1>1, <1>2, LenProperties, EmptySeq
<1> HIDE DEF r
<1>4. \A i, j \in 1 .. Len(r) : r[i] = r[j] => i = j
  <2> SUFFICES ASSUME NEW i \in 1 .. Len(r), NEW j \in 1 .. Len(r), r[i] = r[j]
               PROVE  i = j
    OBVIOUS
  <2>1. i + 1 \in 1 .. Len(s) /\ j + 1 \in 1 .. Len(s) /\ s[i + 1] = s[j + 1]
    BY <1>1, <1>2
  <2>2. i + 1 = j + 1
    BY <2>1 DEF IsChain
  <2> QED
    BY <1>1, <1>2, <2>2
<1>5. r # <<>> => /\ Len(r) \in 1 .. Len(r) /\ r[Len(r)] = s[Len(s)]
                  /\ 1 \in 1 .. Len(r) /\ r[1] = s[2] /\ 1 \in 1 .. Len(s) - 1
  BY <1>1, <1>2, <1>3
<1>6. nx[h] = IF r = <<>> THEN NULL ELSE r[1]
  <2>1. CASE r = <<>>
    <3>1. Len(r) = 0
      BY <1>3, <2>1
    <3>2. Len(s) \in Nat /\ Len(r) = Len(s) - 1
      BY <1>1, <1>2
    <3>3. Len(s) = 1
      BY <3>1, <3>2
    <3> QED
      BY <1>1, <2>1, <3>3 DEF IsChain
  <2>2. CASE r # <<>>
    BY <1>1, <1>5, <2>2 DEF IsChain
  <2> QED
    BY <2>1, <2>2
<1>7. \A k \in 1 .. Len(r) - 1 : nx[r[k]] = r[k + 1]
  <2> SUFFICES ASSUME NEW k \in 1 .. Len(r) - 1 PROVE nx[r[k]] = r[k + 1]
    OBVIOUS
  <2>1. k + 1 \in 1 .. Len(s) - 1 /\ k \in 1 .. Len(r) /\ k + 1 \in 1 .. Len(r)
    BY <1>1, <1>2
  <2>2. nx[s[k + 1]] = s[(k + 1) + 1]
    BY <2>1 DEF IsChain
  <2> QED
    BY <1>2, <2>1, <2>2
<1>8. IsChain(r, nx[h], nx)
  BY <1>2, <1>4, <1>5, <1>6, <1>7 DEF IsChain
<1>9. NodesOf(r) = NodesOf(s) \ {h}
  <2>1. NodesOf(r) \subseteq NodesOf(s) \ {h}
    <3> SUFFICES ASSUME NEW k \in 1 .. Len(r) PROVE r[k] \in NodesOf(s) \ {h}
      BY <1>2, <1>3 DEF NodesOf
    <3>1. k + 1 \in 1 .. Len(s) /\ 1 \in 1 .. Len(s) /\ r[k] = s[k + 1] /\ k + 1 # 1
      BY <1>1, <1>2
    <3>2. s[k + 1] # s[1]
      BY <3>1 DEF IsChain
    <3> QED
      BY <1>1, <3>1, <3>2 DEF NodesOf
  <2>2. NodesOf(s) \ {h} \subseteq NodesOf(r)
    <3> SUFFICES ASSUME NEW k \in 1 .. Len(s), s[k] # h PROVE s[k] \in NodesOf(r)
      BY <1>1 DEF NodesOf
    <3>1. k - 1 \in 1 .. Len(r) /\ r[k - 1] = s[k]
      BY <1>1, <1>2
    <3> QED
      BY <1>2, <1>3, <3>1 DEF NodesOf
  <2> QED
    BY <2>1, <2>2
<1> QED
  BY <1>2, <1>5, <1>8, <1>9 DEF r

-----------------------------------------------------------------------------
(* The inductive invariant *)

\* How the callers must use the list for it to be sound: one thread removes
\* and reads, none calls llist_peek_tail, and llist_enqueue is not mixed with
\* the other insertions, which do not keep tail at the last node.
Disciplined ==
    \A u \in Uses :
      /\ \A a, b \in u.consumers : a = b
      /\ "peek_tail" \notin u.reads
      /\ "enqueue" \in u.ops => u.ops = {"enqueue"}

\* The place of a thread says which operation it is in, and that it may call it.
LabelsOK ==
    \A t \in Threads :
      /\ pc[t] \in {"lock", "locked"} => op[t] \in use.ops \cup {"remove"}
      /\ pc[t] = "release" => op[t] = "remove"
      /\ pc[t] = "read" => op[t] \in {"peek", "display"}
      /\ (pc[t] # "idle" /\ op[t] \notin Inserts) => t \in use.consumers

\* The holder of the mutex is the thread in a critical section.
MutexOK == \A t \in Threads : mlock = t <=> pc[t] = "locked"

\* Calls are under way only while the llist_t is allocated.
ObjectOK ==
    /\ object = "alive" => handle = "llist"
    /\ object # "alive" => head = NULL /\ \A t \in Threads : pc[t] = "idle"
    /\ object = "none" => count = 0

\* A node in the hands of a thread is allocated, not on the chain, and in no
\* other thread's hands; one that is to be inserted has its fields set.
HoldersOK ==
    \A t \in Threads : Holding(t) =>
      /\ node[t] \in heap /\ node[t] \notin NodesOf(Chain)
      /\ \A u \in Threads : Holding(u) /\ node[u] = node[t] => u = t
      /\ op[t] \in Inserts => next[node[t]] = NULL /\ data[node[t]] \in Items

\* Every allocated node is on the chain or in the hands of a thread.
HeapOK ==
    /\ NodesOf(Chain) \subseteq heap
    /\ \A n \in heap : n \in NodesOf(Chain)
                         \/ \E t \in Threads : Holding(t) /\ node[t] = n

\* What the consumer saw outside the mutex is still true when it uses it:
\* there is a node to remove, and the node that it reads is on the chain.
ConsumerOK ==
    \A t \in Threads :
      /\ (pc[t] \in {"lock", "locked"} /\ op[t] = "remove") => Chain # <<>>
      /\ pc[t] = "read" => node[t] \in NodesOf(Chain)

ChainOK ==
    /\ IsChain(Chain, head, next)
    /\ object = "alive" => count = Len(Chain)

Inv ==
    /\ TypeOK /\ NoFault /\ LabelsOK /\ MutexOK /\ ObjectOK
    /\ ChainOK /\ HoldersOK /\ HeapOK /\ ConsumerOK /\ TailIsLast

-----------------------------------------------------------------------------
(* Types, for all callers *)

\* Init: count is 0, which is in its range because there are nodes.
LEMMA InitTypes ==
    ASSUME Init
    PROVE  TypeOK
<1>1. Cardinality(Nodes) \in Nat
  BY FS_CardinalityType, ListAssumption
<1>2. 0 \in 0 .. COUNT_MOD - 1
  BY <1>1, ListAssumption
<1> QED
  BY <1>2 DEF Init, TypeOK

\* Every step keeps the types, disciplined callers or not.
LEMMA TypeStep ==
    ASSUME TypeOK, [Next]_vars
    PROVE  TypeOK'
<1>1. CASE UNCHANGED vars
  BY <1>1 DEF TypeOK, vars, listVars, heapVars
<1>2. CASE Next
  <2>1. use' = use
    BY <1>2 DEF Next
  <2>2. CASE LlistCreate \/ LlistDestroy
    BY <2>1, <2>2 DEF LlistCreate, LlistDestroy, TypeOK, heapVars
  <2>3. ASSUME NEW t \in Threads, ThreadStep(t) PROVE TypeOK'
    <3> USE DEF TypeOK, listVars, heapVars, Goto, Set, Enter
    <3>1. ASSUME NEW p, Undefined(p) PROVE TypeOK'
      BY <2>1, <3>1 DEF Undefined
    <3>2. ASSUME NEW x \in Items, InsertReject(t, x) PROVE TypeOK'
      BY <2>1, <3>2 DEF InsertReject
    <3>3. ASSUME NEW o \in use.ops, NEW x \in Items, NEW n \in Nodes,
                 CreateNode(t, o, x, n)
          PROVE  TypeOK'
      <4>1. o \in Inserts
        BY ListAssumption
      <4> QED
        BY <2>1, <3>3, <4>1 DEF CreateNode
    <3>4. CASE Lock(t)
      BY <2>1, <3>4 DEF Lock
    <3>5. ASSUME CountAndUnlock(t), head' \in Nodes \cup {NULL},
                 tail' \in Nodes \cup {NULL},
                 next' \in [Nodes -> Nodes \cup {NULL}]
          PROVE  TypeOK'
      <4>1. (count + 1) % COUNT_MOD \in 0 .. COUNT_MOD - 1
        BY ListAssumption
      <4> QED
        BY <2>1, <3>5, <4>1 DEF CountAndUnlock
    <3>6. CASE InsertFront(t) \/ Push(t)
      BY <3>5, <3>6 DEF InsertFront, Push, LinkFront
    <3>7. CASE InsertBack(t)
      BY <3>5, <3>7 DEF InsertBack
    <3>8. CASE Enqueue(t)
      BY <3>1, <3>5, <3>8 DEF Enqueue
    <3>9. CASE RemoveTest(t)
      BY <2>1, <3>9 DEF RemoveTest
    <3>10. CASE RemoveUnlink(t)
      <4>1. (count - 1) % COUNT_MOD \in 0 .. COUNT_MOD - 1
        BY ListAssumption
      <4> QED
        BY <2>1, <3>1, <3>10, <4>1 DEF RemoveUnlink
    <3>11. CASE RemoveRelease(t)
      BY <2>1, <3>1, <3>11 DEF RemoveRelease
    <3>12. ASSUME NEW r \in use.reads, ReadLoad(t, r) PROVE TypeOK'
      <4>1. r \in {"peek", "peek_tail", "display"}
        BY ListAssumption
      <4> QED
        BY <2>1, <3>12, <4>1 DEF ReadLoad
    <3>13. CASE PeekReturn(t)
      BY <2>1, <3>1, <3>13 DEF PeekReturn
    <3>14. CASE DisplayStep(t)
      BY <2>1, <3>1, <3>14 DEF DisplayStep
    <3> QED
      BY <2>3, <3>2, <3>3, <3>4, <3>6, <3>7, <3>8, <3>9, <3>10, <3>11, <3>12,
         <3>13, <3>14 DEF ThreadStep
  <2> QED
    BY <1>2, <2>2, <2>3 DEF Next
<1> QED
  BY <1>1, <1>2

\* Whatever the callers do, even past the point where the chain is broken, the
\* variables keep their types: a pointer is NULL or the address of a node, and
\* count stays in its range.
THEOREM TypeCorrect == Spec => []TypeOK
<1>1. Init => TypeOK
  BY InitTypes
<1> QED
  BY <1>1, TypeStep, PTL DEF Spec

-----------------------------------------------------------------------------
(* What a step leaves of the chain *)

\* A step that changes neither head nor a next pointer keeps the chain.
LEMMA ChainKept ==
    ASSUME IsChain(Chain, head, next), head' = head, next' = next
    PROVE  Chain' = Chain /\ IsChain(Chain', head', next')
BY ChainIs

\* Following a next pointer stays on the chain or ends.
LEMMA NextOnChain ==
    ASSUME NEW s, NEW h, NEW nx, IsChain(s, h, nx), NEW n \in NodesOf(s)
    PROVE  nx[n] = NULL \/ nx[n] \in NodesOf(s)
<1>1. Len(s) \in Nat /\ DOMAIN s = 1 .. Len(s) /\ (s = <<>> <=> Len(s) = 0)
  BY ChainEnds
<1>2. PICK k \in 1 .. Len(s) : n = s[k]
  BY <1>1 DEF NodesOf
<1>3. CASE k = Len(s)
  BY <1>1, <1>2, <1>3 DEF IsChain
<1>4. CASE k # Len(s)
  <2>1. Len(s) \in Nat
    BY <1>1
  <2>2. k \in 1 .. Len(s) - 1 /\ k + 1 \in 1 .. Len(s)
    BY <1>4, <2>1
  <2>3. nx[s[k]] = s[k + 1]
    BY <2>2 DEF IsChain
  <2> QED
    BY <1>1, <1>2, <2>2, <2>3 DEF NodesOf
<1> QED
  BY <1>3, <1>4

\* What holds of the chain and the allocated nodes in a state of the invariant.
LEMMA InvChain ==
    ASSUME Inv
    PROVE  /\ IsChain(Chain, head, next) /\ next \in [Nodes -> Nodes \cup {NULL}]
           /\ Chain \in Seq(Nodes) /\ Len(Chain) \in Nat
           /\ NodesOf(Chain) \subseteq Nodes /\ NodesOf(Chain) \subseteq heap
           /\ Chain = <<>> <=> head = NULL
           /\ Chain = <<>> => NodesOf(Chain) = {} /\ Len(Chain) = 0
           /\ Chain # <<>> => /\ head = Chain[1] /\ head \in NodesOf(Chain)
                              /\ Chain[Len(Chain)] \in NodesOf(Chain)
                              /\ Len(Chain) >= 1
           /\ Len(Chain) =< Cardinality(Nodes)
<1>1. /\ IsChain(Chain, head, next) /\ next \in [Nodes -> Nodes \cup {NULL}]
      /\ NodesOf(Chain) \subseteq heap
  BY DEF Inv, ChainOK, TypeOK, HeapOK
<1>2. Len(Chain) =< Cardinality(Nodes)
  BY <1>1, ChainLength DEF IsChain
<1> QED
  BY <1>1, <1>2, ChainEnds

\* Linking a node that thread t holds, at the front.
LEMMA AfterLinkFront ==
    ASSUME Inv, NEW t \in Threads, pc[t] = "locked", op[t] \in Inserts,
           LinkFront(t)
    PROVE  /\ Chain' = <<node[t]>> \o Chain
           /\ IsChain(Chain', head', next')
           /\ NodesOf(Chain') = NodesOf(Chain) \cup {node[t]}
           /\ Len(Chain') = Len(Chain) + 1
           /\ node[t] \in Nodes
           /\ \A n \in Nodes : n # node[t] => next'[n] = next[n]
<1>1. /\ IsChain(Chain, head, next) /\ next \in [Nodes -> Nodes \cup {NULL}]
  BY InvChain
<1>2. node[t] \in Nodes /\ node[t] \notin NodesOf(Chain)
  BY DEF Inv, HoldersOK, Holding, TypeOK
<1>3. head' = node[t] /\ next' = [next EXCEPT ![node[t]] = head]
  BY DEF LinkFront
<1> DEFINE s == <<node[t]>> \o Chain
<1>4. /\ IsChain(s, head', next')
      /\ NodesOf(s) = NodesOf(Chain) \cup {node[t]}
      /\ Len(s) = Len(Chain) + 1
  BY <1>1, <1>2, <1>3, FrontChain
<1>5. Chain' = s
  BY <1>4, ChainIs
<1> QED
  BY <1>1, <1>2, <1>3, <1>4, <1>5

\* Linking a node that thread t holds, after the last one.
LEMMA AfterLinkBack ==
    ASSUME Inv, NEW t \in Threads, pc[t] = "locked", op[t] \in Inserts,
           IF head = NULL
           THEN head' = node[t] /\ next' = next
           ELSE /\ next' = [next EXCEPT ![Chain[Len(Chain)]] = node[t]]
                /\ head' = head
    PROVE  /\ Chain' = Append(Chain, node[t])
           /\ IsChain(Chain', head', next')
           /\ NodesOf(Chain') = NodesOf(Chain) \cup {node[t]}
           /\ Len(Chain') = Len(Chain) + 1
           /\ node[t] \in Nodes
           /\ Chain'[Len(Chain')] = node[t]
           /\ \A n \in Nodes : n \notin NodesOf(Chain) => next'[n] = next[n]
<1>1. /\ IsChain(Chain, head, next) /\ next \in [Nodes -> Nodes \cup {NULL}]
      /\ head # NULL => Chain[Len(Chain)] \in NodesOf(Chain)
  BY InvChain
<1>2. node[t] \in Nodes /\ node[t] \notin NodesOf(Chain) /\ next[node[t]] = NULL
  BY DEF Inv, HoldersOK, Holding, TypeOK
<1> DEFINE s == Append(Chain, node[t])
<1>3. /\ IsChain(s, head', next')
      /\ NodesOf(s) = NodesOf(Chain) \cup {node[t]}
      /\ Len(s) = Len(Chain) + 1
      /\ s[Len(s)] = node[t]
  <2>1. /\ NodesOf(s) = NodesOf(Chain) \cup {node[t]}
        /\ Len(s) = Len(Chain) + 1 /\ s[Len(s)] = node[t]
    <3>1. NodesOf(s) = NodesOf(Chain) \cup {node[t]}
      BY <1>2, InvChain, AppendNodes
    <3>2. Len(s) = Len(Chain) + 1 /\ s[Len(Chain) + 1] = node[t]
      BY <1>2, InvChain, AppendProperties
    <3> QED
      BY <3>1, <3>2
  <2>2. CASE head = NULL
    BY <1>1, <1>2, <2>1, <2>2, BackChain
  <2>3. CASE head # NULL
    <3>1. IsChain(s, head, [next EXCEPT ![Chain[Len(Chain)]] = node[t]])
      BY <1>1, <1>2, <2>3, BackChain
    <3> QED
      BY <2>1, <2>3, <3>1
  <2> QED
    BY <2>2, <2>3
<1>4. Chain' = s
  BY <1>3, ChainIs
<1>5. \A n \in Nodes : n \notin NodesOf(Chain) => next'[n] = next[n]
  BY <1>1
<1> HIDE DEF s
<1> QED
  BY <1>2, <1>3, <1>4, <1>5 DEF s

\* Unlinking the first node.
LEMMA AfterUnlink ==
    ASSUME Inv, Chain # <<>>, head' = next[head], next' = next
    PROVE  /\ Chain' = Tail(Chain)
           /\ IsChain(Chain', head', next')
           /\ NodesOf(Chain') = NodesOf(Chain) \ {head}
           /\ Len(Chain') = Len(Chain) - 1
           /\ Chain' # <<>> => Chain'[Len(Chain')] = Chain[Len(Chain)]
<1>1. IsChain(Chain, head, next)
  BY InvChain
<1> DEFINE s == Tail(Chain)
<1>2. /\ IsChain(s, head', next')
      /\ NodesOf(s) = NodesOf(Chain) \ {head}
      /\ Len(s) = Len(Chain) - 1
      /\ s # <<>> => s[Len(s)] = Chain[Len(Chain)]
  BY <1>1, TailChain
<1>3. Chain' = s
  BY <1>2, ChainIs
<1> QED
  BY <1>2, <1>3

-----------------------------------------------------------------------------
(* One lemma per operation: it keeps the invariant *)

\* A step of thread t leaves the place and the locals of the others alone.
Alone(t) ==
    \A u \in Threads :
      u # t => pc'[u] = pc[u] /\ op'[u] = op[u] /\ node'[u] = node[u]

\* llist_create: the list is empty.
LEMMA CreateKeepsInv ==
    ASSUME Inv, use' = use, LlistCreate, TypeOK'
    PROVE  Inv'
<1>1. Chain' = Chain /\ IsChain(Chain', head', next')
  BY ChainKept DEF Inv, ChainOK, LlistCreate, heapVars
<1>2. head = NULL /\ count = 0 /\ Len(Chain) = 0
  BY InvChain DEF Inv, ObjectOK, LlistCreate
<1>3. /\ pc' = pc /\ op' = op /\ node' = node /\ heap' = heap /\ next' = next
      /\ data' = data /\ head' = head /\ tail' = tail /\ count' = count
      /\ mlock' = mlock /\ fault' = fault
      /\ object' = "alive" /\ handle' = "llist"
  BY DEF LlistCreate, heapVars
<1>4. LabelsOK' /\ MutexOK' /\ ObjectOK' /\ NoFault'
  BY <1>3 DEF Inv, LabelsOK, MutexOK, ObjectOK, NoFault
<1>5. ChainOK'
  BY <1>1, <1>2, <1>3 DEF ChainOK
<1>6. HoldersOK' /\ HeapOK' /\ ConsumerOK' /\ TailIsLast'
  BY <1>1, <1>3 DEF Inv, HoldersOK, HeapOK, ConsumerOK, TailIsLast, Holding
<1> QED
  BY <1>4, <1>5, <1>6 DEF Inv

\* llist_destroy: no thread holds a node, so the chain is all that is left.
LEMMA DestroyKeepsInv ==
    ASSUME Inv, use' = use, LlistDestroy, TypeOK'
    PROVE  Inv' /\ Chain' = <<>>
<1>1. /\ pc' = pc /\ op' = op /\ node' = node /\ next' = next /\ data' = data
      /\ head' = NULL /\ object' = "freed" /\ mlock' = mlock /\ fault' = fault
      /\ heap' = heap \ NodesOf(Chain) /\ \A t \in Threads : pc[t] = "idle"
  BY DEF LlistDestroy
<1>2. IsChain(<<>>, head', next')
  BY <1>1 DEF IsChain
<1>3. Chain' = <<>>
  BY <1>2, ChainIs
<1>4. \A t \in Threads : ~Holding(t) /\ ~Holding(t)'
  BY <1>1 DEF Holding
<1>5. heap' = {}
  BY <1>1, <1>4 DEF Inv, HeapOK
<1>6. NodesOf(Chain') = {}
  BY <1>3 DEF NodesOf
<1>7. LabelsOK' /\ MutexOK' /\ ObjectOK' /\ NoFault'
  BY <1>1 DEF Inv, LabelsOK, MutexOK, ObjectOK, NoFault
<1>8. ChainOK'
  BY <1>1, <1>2, <1>3 DEF ChainOK
<1>9. HoldersOK' /\ HeapOK' /\ ConsumerOK' /\ TailIsLast'
  BY <1>1, <1>3, <1>4, <1>5, <1>6 DEF HoldersOK, HeapOK, ConsumerOK, TailIsLast
<1> QED
  BY <1>3, <1>7, <1>8, <1>9 DEF Inv

\* A node is made: it is on no chain and in no other thread's hands.
LEMMA CreateNodeKeepsInv ==
    ASSUME Inv, use' = use, TypeOK', NEW t \in Threads, NEW o \in use.ops,
           NEW x \in Items, NEW n \in Nodes, CreateNode(t, o, x, n)
    PROVE  /\ Inv' /\ Chain' = Chain
           /\ \A m \in NodesOf(Chain) : data'[m] = data[m]
<1>1. /\ pc[t] = "idle" /\ object = "alive" /\ n \notin heap
      /\ heap' = heap \cup {n} /\ next' = [next EXCEPT ![n] = NULL]
      /\ data' = [data EXCEPT ![n] = x]
      /\ pc' = [pc EXCEPT ![t] = "lock"] /\ op' = [op EXCEPT ![t] = o]
      /\ node' = [node EXCEPT ![t] = n]
      /\ object' = object /\ handle' = handle /\ head' = head /\ tail' = tail
      /\ count' = count /\ mlock' = mlock /\ fault' = fault
  BY DEF CreateNode, Callable, Set, Enter, Goto, listVars
<1>2. o \in Inserts
  BY ListAssumption DEF Inv, TypeOK
<1>3. /\ Alone(t) /\ pc'[t] = "lock" /\ op'[t] = o /\ node'[t] = n
      /\ next'[n] = NULL /\ data'[n] = x
      /\ \A m \in Nodes : m # n => next'[m] = next[m] /\ data'[m] = data[m]
  BY <1>1 DEF Alone, Inv, TypeOK
<1>4. NodesOf(Chain) \subseteq Nodes /\ n \notin NodesOf(Chain)
  BY <1>1, InvChain
<1>5. IsChain(Chain, head', next')
  BY <1>1, <1>4, InvChain, OtherChain
<1>6. Chain' = Chain
  BY <1>5, ChainIs
<1>7. LabelsOK'
  BY <1>2, <1>3 DEF Inv, LabelsOK, Alone
<1>8. MutexOK' /\ NoFault' /\ ObjectOK'
  BY <1>1, <1>3 DEF Inv, MutexOK, NoFault, ObjectOK, Alone
<1>9. ChainOK' /\ TailIsLast'
  BY <1>1, <1>5, <1>6 DEF Inv, ChainOK, TailIsLast
<1>10. \A u \in Threads : u # t => Holding(u)' <=> Holding(u)
  BY <1>3 DEF Holding, Alone
<1>11. Holding(t)' /\ ~Holding(t)
  BY <1>1, <1>2, <1>3 DEF Holding
<1>12. \A u \in Threads : (u # t /\ Holding(u)) => node[u] \in heap /\ node[u] # n
  BY <1>1 DEF Inv, HoldersOK
<1>13. HoldersOK'
  <2> SUFFICES ASSUME NEW u \in Threads, Holding(u)'
               PROVE  /\ node'[u] \in heap' /\ node'[u] \notin NodesOf(Chain')
                      /\ \A v \in Threads :
                           Holding(v)' /\ node'[v] = node'[u] => v = u
                      /\ op'[u] \in Inserts =>
                           next'[node'[u]] = NULL /\ data'[node'[u]] \in Items
    BY DEF HoldersOK
  <2>1. CASE u = t
    BY <1>1, <1>3, <1>4, <1>6, <1>10, <1>12, <2>1 DEF Alone
  <2>2. CASE u # t
    <3>1. Holding(u) /\ node'[u] = node[u] /\ op'[u] = op[u] /\ node[u] # n
      BY <1>3, <1>10, <1>12, <2>2 DEF Alone
    <3>2. /\ node[u] \in heap /\ node[u] \in Nodes /\ node[u] \notin NodesOf(Chain)
          /\ \A v \in Threads : Holding(v) /\ node[v] = node[u] => v = u
          /\ op[u] \in Inserts => next[node[u]] = NULL /\ data[node[u]] \in Items
      BY <3>1 DEF Inv, HoldersOK, TypeOK
    <3>3. \A v \in Threads : Holding(v)' /\ node'[v] = node'[u] => v = u
      BY <1>3, <1>10, <3>1, <3>2 DEF Alone
    <3> QED
      BY <1>1, <1>3, <1>6, <3>1, <3>2, <3>3
  <2> QED
    BY <2>1, <2>2
<1>14. HeapOK'
  <2>1. NodesOf(Chain') \subseteq heap'
    BY <1>1, <1>6, InvChain
  <2>2. ASSUME NEW m \in heap'
        PROVE  m \in NodesOf(Chain')
                 \/ \E u \in Threads : Holding(u)' /\ node'[u] = m
    <3>1. CASE m = n
      BY <1>3, <1>11, <3>1
    <3>2. CASE m \in heap
      BY <1>3, <1>6, <1>10, <1>11, <3>2 DEF Inv, HeapOK, Alone
    <3> QED
      BY <1>1, <3>1, <3>2
  <2> QED
    BY <2>1, <2>2 DEF HeapOK
<1>15. ConsumerOK'
  BY <1>2, <1>3, <1>6 DEF Inv, ConsumerOK, Alone, Inserts
<1> QED
  BY <1>3, <1>4, <1>6, <1>7, <1>8, <1>9, <1>13, <1>14, <1>15 DEF Inv

\* A step of thread t that changes neither the list nor the nodes, nor what t
\* holds: what is left to show is about t alone.
LEMMA QuietKeepsInv ==
    ASSUME Inv, TypeOK', use' = use, NEW t \in Threads, Alone(t),
           UNCHANGED <<listVars, heapVars, fault>>,
           Holding(t)' <=> Holding(t),
           Holding(t) => node'[t] = node[t] /\ op'[t] = op[t],
           LabelsOK', MutexOK', object = "alive" \/ pc' = pc,
           (pc'[t] \in {"lock", "locked"} /\ op'[t] = "remove") => Chain # <<>>,
           pc'[t] = "read" => node'[t] \in NodesOf(Chain)
    PROVE  Inv' /\ Chain' = Chain /\ data' = data
<1>1. /\ object' = object /\ handle' = handle /\ head' = head /\ tail' = tail
      /\ count' = count /\ next' = next /\ data' = data /\ heap' = heap
      /\ fault' = fault
  BY DEF listVars, heapVars
<1>2. Chain' = Chain /\ IsChain(Chain', head', next')
  BY <1>1, ChainKept DEF Inv, ChainOK
<1>3. NoFault' /\ ObjectOK'
  BY <1>1 DEF Inv, NoFault, ObjectOK
<1>4. ChainOK' /\ TailIsLast'
  BY <1>1, <1>2 DEF Inv, ChainOK, TailIsLast
<1>5. \A u \in Threads : Holding(u)' <=> Holding(u)
  BY DEF Holding, Alone
<1>6. \A u \in Threads : Holding(u) => node'[u] = node[u] /\ op'[u] = op[u]
  BY DEF Alone
<1>7. HoldersOK'
  <2> SUFFICES ASSUME NEW u \in Threads, Holding(u)'
               PROVE  /\ node'[u] \in heap' /\ node'[u] \notin NodesOf(Chain')
                      /\ \A v \in Threads :
                           Holding(v)' /\ node'[v] = node'[u] => v = u
                      /\ op'[u] \in Inserts =>
                           next'[node'[u]] = NULL /\ data'[node'[u]] \in Items
    BY DEF HoldersOK
  <2>1. Holding(u) /\ node'[u] = node[u] /\ op'[u] = op[u]
    BY <1>5, <1>6
  <2>2. /\ node[u] \in heap /\ node[u] \notin NodesOf(Chain)
        /\ \A v \in Threads : Holding(v) /\ node[v] = node[u] => v = u
        /\ op[u] \in Inserts => next[node[u]] = NULL /\ data[node[u]] \in Items
    BY <2>1 DEF Inv, HoldersOK
  <2> QED
    BY <1>1, <1>2, <1>5, <1>6, <2>1, <2>2
<1>8. HeapOK'
  <2>1. NodesOf(Chain') \subseteq heap'
    BY <1>1, <1>2, InvChain
  <2>2. ASSUME NEW m \in heap'
        PROVE  m \in NodesOf(Chain')
                 \/ \E u \in Threads : Holding(u)' /\ node'[u] = m
    BY <1>1, <1>2, <1>5, <1>6 DEF Inv, HeapOK
  <2> QED
    BY <2>1, <2>2 DEF HeapOK
<1>9. ConsumerOK'
  BY <1>2 DEF Inv, ConsumerOK, Alone
<1> QED
  BY <1>1, <1>2, <1>3, <1>4, <1>7, <1>8, <1>9 DEF Inv

\* A refused insertion.
LEMMA RejectKeepsInv ==
    ASSUME Inv, TypeOK', use' = use, NEW t \in Threads, NEW x \in Items,
           InsertReject(t, x)
    PROVE  Inv' /\ Chain' = Chain /\ data' = data
<1>1. /\ pc' = pc /\ op' = op /\ node' = node /\ mlock' = mlock
      /\ UNCHANGED <<listVars, heapVars, fault>> /\ pc[t] = "idle"
  BY DEF InsertReject
<1>2. /\ Alone(t)
      /\ Holding(t)' <=> Holding(t)
      /\ Holding(t) => node'[t] = node[t] /\ op'[t] = op[t]
      /\ (pc'[t] \in {"lock", "locked"} /\ op'[t] = "remove") => Chain # <<>>
      /\ pc'[t] = "read" => node'[t] \in NodesOf(Chain)
  BY <1>1 DEF Alone, Holding
<1>3. LabelsOK' /\ MutexOK'
  BY <1>1 DEF Inv, LabelsOK, MutexOK
<1> QED
  BY <1>1, <1>2, <1>3, QuietKeepsInv

\* pthread_mutex_lock.
LEMMA LockKeepsInv ==
    ASSUME Inv, TypeOK', use' = use, NEW t \in Threads, Lock(t)
    PROVE  Inv' /\ Chain' = Chain /\ data' = data
<1>1. /\ pc' = [pc EXCEPT ![t] = "locked"] /\ op' = op /\ node' = node
      /\ UNCHANGED <<listVars, heapVars, fault>>
      /\ pc[t] = "lock" /\ mlock = NULL /\ mlock' = t
  BY DEF Lock, Goto
<1>2. /\ Alone(t) /\ pc'[t] = "locked"
      /\ Holding(t)' <=> Holding(t)
  BY <1>1 DEF Alone, Holding, Inv, TypeOK
<1>3. LabelsOK'
  BY <1>1, <1>2 DEF Inv, LabelsOK, Alone
<1>4. MutexOK'
  BY <1>1, <1>2, ListAssumption DEF Inv, MutexOK, Alone
<1>5. object = "alive" /\ (op[t] = "remove" => Chain # <<>>)
  BY <1>1 DEF Inv, ObjectOK, ConsumerOK
<1>6. /\ Holding(t) => node'[t] = node[t] /\ op'[t] = op[t]
      /\ (pc'[t] \in {"lock", "locked"} /\ op'[t] = "remove") => Chain # <<>>
      /\ pc'[t] = "read" => node'[t] \in NodesOf(Chain)
  BY <1>1, <1>2, <1>5
<1> QED
  BY <1>1, <1>2, <1>3, <1>4, <1>5, <1>6, QuietKeepsInv

\* The emptiness test of a removal: count is the length of the chain.
LEMMA TestKeepsInv ==
    ASSUME Inv, TypeOK', use' = use, NEW t \in Threads, RemoveTest(t)
    PROVE  Inv' /\ Chain' = Chain /\ data' = data
<1>1. /\ pc' = [pc EXCEPT ![t] = "lock"] /\ op' = [op EXCEPT ![t] = "remove"]
      /\ node' = node /\ mlock' = mlock
      /\ UNCHANGED <<listVars, heapVars, fault>>
      /\ pc[t] = "idle" /\ object = "alive" /\ count > 0 /\ t \in use.consumers
  BY DEF RemoveTest, Callable, Enter, Goto, is_llist_empty
<1>2. /\ Alone(t) /\ pc'[t] = "lock" /\ op'[t] = "remove"
  BY <1>1 DEF Alone, Inv, TypeOK
<1>3. ~Holding(t) /\ ~Holding(t)'
  BY <1>1, <1>2 DEF Holding, Inserts
<1>4. LabelsOK' /\ MutexOK'
  BY <1>1, <1>2 DEF Inv, LabelsOK, MutexOK, Alone
<1>5. count = Len(Chain)
  BY <1>1 DEF Inv, ChainOK
<1>6. Chain # <<>>
  BY <1>1, <1>5, InvChain
<1>7. /\ Holding(t)' <=> Holding(t)
      /\ Holding(t) => node'[t] = node[t] /\ op'[t] = op[t]
      /\ (pc'[t] \in {"lock", "locked"} /\ op'[t] = "remove") => Chain # <<>>
      /\ pc'[t] = "read" => node'[t] \in NodesOf(Chain)
  BY <1>2, <1>3, <1>6
<1> QED
  BY <1>1, <1>2, <1>4, <1>7, QuietKeepsInv

\* A read loads the first node.
LEMMA LoadKeepsInv ==
    ASSUME Inv, Disciplined, TypeOK', use' = use, NEW t \in Threads,
           NEW r \in use.reads, ReadLoad(t, r)
    PROVE  Inv' /\ Chain' = Chain /\ data' = data
<1>1. r \in {"peek", "display"}
  BY ListAssumption DEF Inv, TypeOK, Disciplined
<1>2. /\ pc' = [pc EXCEPT ![t] = "read"] /\ op' = [op EXCEPT ![t] = r]
      /\ node' = [node EXCEPT ![t] = head] /\ head # NULL /\ mlock' = mlock
      /\ UNCHANGED <<listVars, heapVars, fault>>
      /\ pc[t] = "idle" /\ object = "alive" /\ t \in use.consumers
  BY <1>1 DEF ReadLoad, Callable, Enter, Goto, Set
<1>3. Alone(t) /\ pc'[t] = "read" /\ op'[t] = r /\ node'[t] = head
  BY <1>2 DEF Alone, Inv, TypeOK
<1>4. ~Holding(t) /\ ~Holding(t)'
  BY <1>1, <1>2, <1>3 DEF Holding, Inserts
<1>5. LabelsOK' /\ MutexOK'
  BY <1>1, <1>2, <1>3 DEF Inv, LabelsOK, MutexOK, Alone
<1>6. node'[t] \in NodesOf(Chain)
  BY <1>2, <1>3, InvChain
<1>7. /\ Holding(t)' <=> Holding(t)
      /\ Holding(t) => node'[t] = node[t] /\ op'[t] = op[t]
      /\ (pc'[t] \in {"lock", "locked"} /\ op'[t] = "remove") => Chain # <<>>
      /\ pc'[t] = "read" => node'[t] \in NodesOf(Chain)
  BY <1>3, <1>4, <1>6
<1> QED
  BY <1>2, <1>3, <1>5, <1>7, QuietKeepsInv

\* The read of the node's data, or one turn of llist_display: the node is on
\* the chain, hence allocated, and so is the next one.
LEMMA ReadKeepsInv ==
    ASSUME Inv, TypeOK', use' = use, NEW t \in Threads,
           PeekReturn(t) \/ DisplayStep(t)
    PROVE  Inv' /\ Chain' = Chain /\ data' = data
<1>1. pc[t] = "read"
  BY DEF PeekReturn, DisplayStep
<1>2. /\ node[t] \in NodesOf(Chain) /\ node[t] \in heap /\ object = "alive"
      /\ op[t] \in {"peek", "display"} /\ t \in use.consumers
  BY <1>1, InvChain DEF Inv, ConsumerOK, LabelsOK, ObjectOK, Inserts
<1>3. ~Undefined(node[t])
  BY <1>2 DEF Undefined
<1>4. /\ UNCHANGED <<listVars, heapVars, fault>> /\ op' = op /\ mlock' = mlock
      /\ \/ /\ pc' = [pc EXCEPT ![t] = "idle"]
         \/ /\ pc' = [pc EXCEPT ![t] = "read"]
            /\ node' = [node EXCEPT ![t] = next[node[t]]]
            /\ next[node[t]] # NULL
      /\ node' \in {[node EXCEPT ![t] = NULL], [node EXCEPT ![t] = next[node[t]]]}
  BY <1>3 DEF PeekReturn, DisplayStep, Goto, Set
<1>5. /\ Alone(t) /\ pc'[t] \in {"idle", "read"}
      /\ pc'[t] = "read" => node'[t] = next[node[t]] /\ next[node[t]] # NULL
  BY <1>4 DEF Alone, Inv, TypeOK
<1>6. ~Holding(t) /\ ~Holding(t)'
  BY <1>1, <1>2, <1>4, <1>5 DEF Holding, Inserts
<1>7. LabelsOK' /\ MutexOK'
  BY <1>1, <1>2, <1>4, <1>5 DEF Inv, LabelsOK, MutexOK, Alone
<1>8. pc'[t] = "read" => node'[t] \in NodesOf(Chain)
  BY <1>2, <1>5, InvChain, NextOnChain
<1> QED
  BY <1>2, <1>4, <1>5, <1>6, <1>7, <1>8, QuietKeepsInv

\* The end of an insertion, wherever the node was linked: it goes from the
\* hands of thread t to the chain.
LEMMA LinkedKeepsInv ==
    ASSUME Inv, TypeOK', use' = use, NEW t \in Threads, pc[t] = "locked",
           op[t] \in Inserts, CountAndUnlock(t),
           IsChain(Chain', head', next'),
           NodesOf(Chain') = NodesOf(Chain) \cup {node[t]},
           Len(Chain') = Len(Chain) + 1,
           \A n \in Nodes : (n # node[t] /\ n \notin NodesOf(Chain))
                              => next'[n] = next[n],
           "enqueue" \in use.ops => tail' = Chain'[Len(Chain')]
    PROVE  Inv'
<1>1. /\ pc' = [pc EXCEPT ![t] = "idle"] /\ op' = op
      /\ node' = [node EXCEPT ![t] = NULL] /\ mlock' = NULL
      /\ object' = object /\ handle' = handle /\ data' = data /\ heap' = heap
      /\ fault' = fault /\ count' = (count + 1) % COUNT_MOD
  BY DEF CountAndUnlock, Goto, Set
<1>2. Alone(t) /\ pc'[t] = "idle"
  BY <1>1 DEF Alone, Inv, TypeOK
<1>3. Holding(t) /\ ~Holding(t)'
  BY <1>2 DEF Holding
<1>4. \A u \in Threads : u # t => Holding(u)' <=> Holding(u)
  BY <1>2 DEF Holding, Alone
<1>5. LabelsOK'
  BY <1>1, <1>2 DEF Inv, LabelsOK, Alone
<1>6. MutexOK'
  BY <1>1, <1>2, ListAssumption DEF Inv, MutexOK, Alone
<1>7. object = "alive"
  BY DEF Inv, ObjectOK
<1>8. NoFault' /\ ObjectOK'
  BY <1>1, <1>7 DEF Inv, NoFault, ObjectOK
<1>9. ChainOK'
  <2>1. count = Len(Chain) /\ Len(Chain) \in Nat
    BY <1>7, InvChain DEF Inv, ChainOK
  <2>2. Len(Chain') =< Cardinality(Nodes)
    BY ChainLength DEF IsChain
  <2>3. Cardinality(Nodes) \in Nat /\ COUNT_MOD \in Nat
        /\ Cardinality(Nodes) < COUNT_MOD
    BY FS_CardinalityType, ListAssumption
  <2>4. Len(Chain) + 1 < COUNT_MOD
    BY <2>1, <2>2, <2>3
  <2>5. (count + 1) % COUNT_MOD = Len(Chain) + 1
    BY <2>1, <2>3, <2>4
  <2> QED
    BY <1>1, <2>5 DEF ChainOK
<1>10. node[t] \in heap /\ \A u \in Threads :
         (u # t /\ Holding(u)) => node[u] # node[t]
  BY <1>3 DEF Inv, HoldersOK
<1>11. HoldersOK'
  <2> SUFFICES ASSUME NEW u \in Threads, Holding(u)'
               PROVE  /\ node'[u] \in heap' /\ node'[u] \notin NodesOf(Chain')
                      /\ \A v \in Threads :
                           Holding(v)' /\ node'[v] = node'[u] => v = u
                      /\ op'[u] \in Inserts =>
                           next'[node'[u]] = NULL /\ data'[node'[u]] \in Items
    BY DEF HoldersOK
  <2>1. /\ u # t /\ Holding(u) /\ node'[u] = node[u] /\ op'[u] = op[u]
        /\ node[u] # node[t]
    BY <1>2, <1>3, <1>4, <1>10 DEF Alone
  <2>2. /\ node[u] \in heap /\ node[u] \in Nodes /\ node[u] \notin NodesOf(Chain)
        /\ \A v \in Threads : Holding(v) /\ node[v] = node[u] => v = u
        /\ op[u] \in Inserts => next[node[u]] = NULL /\ data[node[u]] \in Items
    BY <2>1 DEF Inv, HoldersOK, TypeOK
  <2>3. \A v \in Threads : Holding(v)' /\ node'[v] = node'[u] => v = u
    BY <1>2, <1>3, <1>4, <2>1, <2>2 DEF Alone
  <2> QED
    BY <1>1, <2>1, <2>2, <2>3
<1>12. HeapOK'
  <2>1. NodesOf(Chain') \subseteq heap'
    BY <1>1, <1>10, InvChain
  <2>2. ASSUME NEW m \in heap'
        PROVE  m \in NodesOf(Chain')
                 \/ \E u \in Threads : Holding(u)' /\ node'[u] = m
    <3>1. m \in NodesOf(Chain) \/ \E u \in Threads : Holding(u) /\ node[u] = m
      BY <1>1 DEF Inv, HeapOK
    <3> QED
      BY <1>2, <1>4, <3>1 DEF Alone
  <2> QED
    BY <2>1, <2>2 DEF HeapOK
<1>13. ConsumerOK'
  <2>1. Chain' # <<>>
    BY InvChain
  <2> QED
    BY <1>2, <2>1 DEF Inv, ConsumerOK, Alone
<1>14. TailIsLast'
  BY DEF TailIsLast
<1> QED
  BY <1>5, <1>6, <1>8, <1>9, <1>11, <1>12, <1>13, <1>14 DEF Inv

\* llist_insert_front and llist_push: with them llist_enqueue is not used.
LEMMA FrontKeepsInv ==
    ASSUME Inv, Disciplined, TypeOK', use' = use, NEW t \in Threads,
           InsertFront(t) \/ Push(t)
    PROVE  Inv'
<1>1. /\ pc[t] = "locked" /\ op[t] \in {"insert_front", "push"} /\ LinkFront(t)
      /\ CountAndUnlock(t)
  BY DEF InsertFront, Push, LinkFront
<1>2. op[t] \in Inserts /\ "enqueue" \notin use.ops
  BY <1>1 DEF Inv, LabelsOK, TypeOK, Disciplined, Inserts
<1>3. /\ IsChain(Chain', head', next')
      /\ NodesOf(Chain') = NodesOf(Chain) \cup {node[t]}
      /\ Len(Chain') = Len(Chain) + 1
      /\ \A n \in Nodes : n # node[t] => next'[n] = next[n]
  BY <1>1, <1>2, AfterLinkFront
<1> QED
  BY <1>1, <1>2, <1>3, LinkedKeepsInv

\* llist_insert_back, which leaves tail alone.
LEMMA BackKeepsInv ==
    ASSUME Inv, Disciplined, TypeOK', use' = use, NEW t \in Threads,
           InsertBack(t)
    PROVE  /\ Inv' /\ op[t] \in Inserts /\ op[t] \in use.ops
           /\ Chain' = Append(Chain, node[t])
<1>1. /\ pc[t] = "locked" /\ op[t] = "insert_back" /\ CountAndUnlock(t)
      /\ IF head = NULL
         THEN head' = node[t] /\ next' = next
         ELSE /\ next' = [next EXCEPT ![Chain[Len(Chain)]] = node[t]]
              /\ head' = head
  BY DEF InsertBack
<1>2. op[t] \in Inserts /\ op[t] \in use.ops /\ "enqueue" \notin use.ops
  BY <1>1 DEF Inv, LabelsOK, TypeOK, Disciplined, Inserts
<1>3. /\ Chain' = Append(Chain, node[t])
      /\ IsChain(Chain', head', next')
      /\ NodesOf(Chain') = NodesOf(Chain) \cup {node[t]}
      /\ Len(Chain') = Len(Chain) + 1
      /\ \A n \in Nodes : n \notin NodesOf(Chain) => next'[n] = next[n]
  BY <1>1, <1>2, AfterLinkBack
<1> QED
  BY <1>1, <1>2, <1>3, LinkedKeepsInv

\* llist_enqueue: tail is the last node, so the write through it is defined
\* and links the new node at the end.
LEMMA EnqueueKeepsInv ==
    ASSUME Inv, TypeOK', use' = use, NEW t \in Threads, Enqueue(t)
    PROVE  /\ Inv' /\ op[t] \in Inserts /\ op[t] \in use.ops
           /\ Chain' = Append(Chain, node[t]) /\ CountAndUnlock(t)
<1>1. pc[t] = "locked" /\ op[t] = "enqueue"
  BY DEF Enqueue
<1>2. op[t] \in Inserts /\ op[t] \in use.ops
  BY <1>1 DEF Inv, LabelsOK, Inserts
<1>3. head # NULL => tail = Chain[Len(Chain)] /\ tail \in heap
  BY <1>1, <1>2, InvChain DEF Inv, TailIsLast
<1>4. ~(head # NULL /\ Undefined(tail))
  BY <1>3 DEF Undefined
<1>5. /\ CountAndUnlock(t) /\ tail' = node[t]
      /\ IF head = NULL
         THEN head' = node[t] /\ next' = next
         ELSE /\ next' = [next EXCEPT ![Chain[Len(Chain)]] = node[t]]
              /\ head' = head
  BY <1>3, <1>4 DEF Enqueue
<1>6. /\ Chain' = Append(Chain, node[t])
      /\ IsChain(Chain', head', next')
      /\ NodesOf(Chain') = NodesOf(Chain) \cup {node[t]}
      /\ Len(Chain') = Len(Chain) + 1
      /\ Chain'[Len(Chain')] = node[t]
      /\ \A n \in Nodes : n \notin NodesOf(Chain) => next'[n] = next[n]
  BY <1>1, <1>2, <1>5, AfterLinkBack
<1> QED
  BY <1>1, <1>2, <1>5, <1>6, LinkedKeepsInv

\* The first node is unlinked: it goes from the chain to the hands of thread
\* t.  No other thread removes or reads, so nobody relied on it.
LEMMA UnlinkKeepsInv ==
    ASSUME Inv, Disciplined, TypeOK', use' = use, NEW t \in Threads,
           RemoveUnlink(t)
    PROVE  Inv' /\ Chain # <<>> /\ Chain' = Tail(Chain) /\ data' = data
<1>1. pc[t] = "locked" /\ op[t] = "remove" /\ t \in use.consumers
  BY DEF RemoveUnlink, Inv, LabelsOK, Inserts
<1>2. /\ Chain # <<>> /\ head \in NodesOf(Chain) /\ head \in heap
      /\ Len(Chain) \in Nat /\ Len(Chain) >= 1
      /\ Len(Chain) =< Cardinality(Nodes)
  BY <1>1, InvChain DEF Inv, ConsumerOK
<1>3. ~Undefined(head)
  BY <1>2 DEF Undefined
<1>4. /\ pc' = [pc EXCEPT ![t] = "release"] /\ op' = op
      /\ node' = [node EXCEPT ![t] = head] /\ mlock' = NULL
      /\ head' = next[head] /\ next' = next /\ data' = data /\ heap' = heap
      /\ object' = object /\ handle' = handle /\ tail' = tail
      /\ fault' = fault /\ count' = (count - 1) % COUNT_MOD
  BY <1>3 DEF RemoveUnlink, Goto, Set, heapVars
<1>5. /\ Alone(t) /\ pc'[t] = "release" /\ node'[t] = head /\ op'[t] = "remove"
  BY <1>1, <1>4 DEF Alone, Inv, TypeOK
<1>6. /\ Chain' = Tail(Chain)
      /\ IsChain(Chain', head', next')
      /\ NodesOf(Chain') = NodesOf(Chain) \ {head}
      /\ Len(Chain') = Len(Chain) - 1
      /\ Chain' # <<>> => Chain'[Len(Chain')] = Chain[Len(Chain)]
  BY <1>2, <1>4, AfterUnlink
<1>7. ~Holding(t) /\ Holding(t)' /\ "remove" \notin Inserts
  BY <1>1, <1>5 DEF Holding, Inserts
<1>8. \A u \in Threads : u # t => Holding(u)' <=> Holding(u)
  BY <1>5 DEF Holding, Alone
<1>9. LabelsOK'
  BY <1>1, <1>4, <1>5 DEF Inv, LabelsOK, Alone
<1>10. MutexOK'
  BY <1>1, <1>4, <1>5, ListAssumption DEF Inv, MutexOK, Alone
<1>11. object = "alive"
  BY <1>1 DEF Inv, ObjectOK
<1>12. NoFault' /\ ObjectOK'
  BY <1>4, <1>11 DEF Inv, NoFault, ObjectOK
<1>13. ChainOK'
  <2>1. count = Len(Chain)
    BY <1>11 DEF Inv, ChainOK
  <2>2. Cardinality(Nodes) \in Nat /\ COUNT_MOD \in Nat
        /\ Cardinality(Nodes) < COUNT_MOD
    BY FS_CardinalityType, ListAssumption
  <2>3. (count - 1) % COUNT_MOD = Len(Chain) - 1
    BY <1>2, <2>1, <2>2
  <2> QED
    BY <1>4, <1>6, <2>3 DEF ChainOK
<1>14. \A u \in Threads : (u # t /\ Holding(u)) => node[u] # head
  BY <1>2 DEF Inv, HoldersOK
<1>15. HoldersOK'
  <2> SUFFICES ASSUME NEW u \in Threads, Holding(u)'
               PROVE  /\ node'[u] \in heap' /\ node'[u] \notin NodesOf(Chain')
                      /\ \A v \in Threads :
                           Holding(v)' /\ node'[v] = node'[u] => v = u
                      /\ op'[u] \in Inserts =>
                           next'[node'[u]] = NULL /\ data'[node'[u]] \in Items
    BY DEF HoldersOK
  <2>1. CASE u = t
    BY <1>2, <1>4, <1>5, <1>6, <1>7, <1>8, <1>14, <2>1 DEF Alone
  <2>2. CASE u # t
    <3>1. Holding(u) /\ node'[u] = node[u] /\ op'[u] = op[u] /\ node[u] # head
      BY <1>5, <1>8, <1>14, <2>2 DEF Alone
    <3>2. /\ node[u] \in heap /\ node[u] \notin NodesOf(Chain)
          /\ \A v \in Threads : Holding(v) /\ node[v] = node[u] => v = u
          /\ op[u] \in Inserts => next[node[u]] = NULL /\ data[node[u]] \in Items
      BY <3>1 DEF Inv, HoldersOK
    <3>3. \A v \in Threads : Holding(v)' /\ node'[v] = node'[u] => v = u
      BY <1>5, <1>8, <3>1, <3>2 DEF Alone
    <3> QED
      BY <1>4, <1>6, <3>1, <3>2, <3>3
  <2> QED
    BY <2>1, <2>2
<1>16. HeapOK'
  <2>1. NodesOf(Chain') \subseteq heap'
    BY <1>4, <1>6, InvChain
  <2>2. ASSUME NEW m \in heap'
        PROVE  m \in NodesOf(Chain')
                 \/ \E u \in Threads : Holding(u)' /\ node'[u] = m
    <3>1. m \in NodesOf(Chain) \/ \E u \in Threads : Holding(u) /\ node[u] = m
      BY <1>4 DEF Inv, HeapOK
    <3> QED
      BY <1>5, <1>6, <1>7, <1>8, <3>1 DEF Alone
  <2> QED
    BY <2>1, <2>2 DEF HeapOK
<1>17. ConsumerOK'
  <2>1. \A a, b \in use.consumers : a = b
    BY DEF Inv, TypeOK, Disciplined
  <2>2. \A u \in Threads : u # t => u \notin use.consumers
    BY <1>1, <2>1
  <2>3. ASSUME NEW u \in Threads, u # t
        PROVE  pc'[u] # "read" /\ ~(pc'[u] \in {"lock", "locked"} /\ op'[u] = "remove")
    BY <1>5, <2>2, <2>3 DEF Inv, LabelsOK, Alone, Inserts
  <2> QED
    BY <1>5, <2>3 DEF ConsumerOK
<1>18. TailIsLast'
  BY <1>2, <1>4, <1>6 DEF Inv, TailIsLast
<1> QED
  BY <1>2, <1>4, <1>6, <1>9, <1>10, <1>12, <1>13, <1>15, <1>16, <1>17, <1>18
  DEF Inv

\* The node that was unlinked is freed: it is allocated, and in no other
\* thread's hands.
LEMMA ReleaseKeepsInv ==
    ASSUME Inv, TypeOK', use' = use, NEW t \in Threads, RemoveRelease(t)
    PROVE  Inv' /\ Chain' = Chain /\ data' = data
<1>1. pc[t] = "release" /\ Holding(t)
  BY DEF RemoveRelease, Holding
<1>2. /\ node[t] \in heap /\ node[t] \notin NodesOf(Chain)
      /\ \A u \in Threads : (u # t /\ Holding(u)) => node[u] # node[t]
  BY <1>1 DEF Inv, HoldersOK
<1>3. ~Undefined(node[t])
  BY <1>2 DEF Undefined
<1>4. /\ pc' = [pc EXCEPT ![t] = "idle"] /\ op' = op
      /\ node' = [node EXCEPT ![t] = NULL] /\ mlock' = mlock
      /\ head' = head /\ next' = next /\ data' = data
      /\ heap' = heap \ {node[t]}
      /\ object' = object /\ handle' = handle /\ tail' = tail
      /\ fault' = fault /\ count' = count
  BY <1>3 DEF RemoveRelease, Goto, Set, listVars
<1>5. Alone(t) /\ pc'[t] = "idle"
  BY <1>4 DEF Alone, Inv, TypeOK
<1>6. Chain' = Chain /\ IsChain(Chain', head', next')
  BY <1>4, ChainKept DEF Inv, ChainOK
<1>7. ~Holding(t)'
  BY <1>5 DEF Holding
<1>8. \A u \in Threads : u # t => Holding(u)' <=> Holding(u)
  BY <1>5 DEF Holding, Alone
<1>9. LabelsOK' /\ MutexOK'
  BY <1>1, <1>4, <1>5 DEF Inv, LabelsOK, MutexOK, Alone
<1>10. object = "alive"
  BY <1>1 DEF Inv, ObjectOK
<1>11. NoFault' /\ ObjectOK'
  BY <1>4, <1>10 DEF Inv, NoFault, ObjectOK
<1>12. ChainOK' /\ TailIsLast'
  BY <1>4, <1>6 DEF Inv, ChainOK, TailIsLast
<1>13. HoldersOK'
  <2> SUFFICES ASSUME NEW u \in Threads, Holding(u)'
               PROVE  /\ node'[u] \in heap' /\ node'[u] \notin NodesOf(Chain')
                      /\ \A v \in Threads :
                           Holding(v)' /\ node'[v] = node'[u] => v = u
                      /\ op'[u] \in Inserts =>
                           next'[node'[u]] = NULL /\ data'[node'[u]] \in Items
    BY DEF HoldersOK
  <2>1. /\ u # t /\ Holding(u) /\ node'[u] = node[u] /\ op'[u] = op[u]
        /\ node[u] # node[t]
    BY <1>2, <1>5, <1>7, <1>8 DEF Alone
  <2>2. /\ node[u] \in heap /\ node[u] \notin NodesOf(Chain)
        /\ \A v \in Threads : Holding(v) /\ node[v] = node[u] => v = u
        /\ op[u] \in Inserts => next[node[u]] = NULL /\ data[node[u]] \in Items
    BY <2>1 DEF Inv, HoldersOK
  <2>3. \A v \in Threads : Holding(v)' /\ node'[v] = node'[u] => v = u
    BY <1>5, <1>7, <1>8, <2>1, <2>2 DEF Alone
  <2> QED
    BY <1>4, <1>6, <2>1, <2>2, <2>3
<1>14. HeapOK'
  <2>1. NodesOf(Chain') \subseteq heap'
    BY <1>2, <1>4, <1>6, InvChain
  <2>2. ASSUME NEW m \in heap'
        PROVE  m \in NodesOf(Chain')
                 \/ \E u \in Threads : Holding(u)' /\ node'[u] = m
    <3>1. /\ m # node[t]
          /\ m \in NodesOf(Chain) \/ \E u \in Threads : Holding(u) /\ node[u] = m
      BY <1>4 DEF Inv, HeapOK
    <3> QED
      BY <1>5, <1>6, <1>8, <3>1 DEF Alone
  <2> QED
    BY <2>1, <2>2 DEF HeapOK
<1>15. ConsumerOK'
  BY <1>5, <1>6 DEF Inv, ConsumerOK, Alone
<1> QED
  BY <1>4, <1>6, <1>9, <1>11, <1>12, <1>13, <1>14, <1>15 DEF Inv

-----------------------------------------------------------------------------
(* The invariant, and what follows from it *)

\* Init: no node, no call.
LEMMA InitInv ==
    ASSUME Init
    PROVE  Inv /\ Chain = <<>>
<1>1. TypeOK
  BY InitTypes
<1>2. IsChain(<<>>, head, next)
  BY DEF Init, IsChain
<1>3. Chain = <<>>
  BY <1>2, ChainIs
<1>4. NodesOf(Chain) = {}
  BY <1>3 DEF NodesOf
<1>5. \A t \in Threads : pc[t] = "idle" /\ ~Holding(t)
  BY DEF Init, Holding
<1>6. LabelsOK /\ MutexOK /\ ObjectOK /\ NoFault
  BY <1>5, ListAssumption DEF Init, LabelsOK, MutexOK, ObjectOK, NoFault
<1>7. ChainOK
  BY <1>2, <1>3 DEF Init, ChainOK
<1>8. HoldersOK /\ HeapOK /\ ConsumerOK /\ TailIsLast
  BY <1>3, <1>4, <1>5 DEF Init, HoldersOK, HeapOK, ConsumerOK, TailIsLast
<1> QED
  BY <1>1, <1>3, <1>6, <1>7, <1>8 DEF Inv

\* Every step of disciplined callers keeps the invariant.
LEMMA NextKeepsInv ==
    ASSUME Disciplined, Inv, [Next]_vars
    PROVE  Inv'
<1>1. TypeOK'
  BY TypeStep DEF Inv
<1>2. CASE UNCHANGED vars
  <2>1. Chain' = Chain
    BY <1>2, ChainKept DEF vars, listVars, heapVars, Inv, ChainOK
  <2> QED
    BY <1>1, <1>2, <2>1
    DEF Inv, NoFault, LabelsOK, MutexOK, ObjectOK, ChainOK, HoldersOK, HeapOK,
        ConsumerOK, TailIsLast, Holding, vars, listVars, heapVars
<1>3. CASE Next
  <2>1. use' = use
    BY <1>3 DEF Next
  <2>2. CASE LlistCreate
    BY <1>1, <2>1, <2>2, CreateKeepsInv
  <2>3. CASE LlistDestroy
    BY <1>1, <2>1, <2>3, DestroyKeepsInv
  <2>4. ASSUME NEW t \in Threads, ThreadStep(t) PROVE Inv'
    BY <1>1, <2>1, <2>4, RejectKeepsInv, CreateNodeKeepsInv, LockKeepsInv,
       FrontKeepsInv, BackKeepsInv, EnqueueKeepsInv, TestKeepsInv,
       UnlinkKeepsInv, ReleaseKeepsInv, LoadKeepsInv, ReadKeepsInv
    DEF ThreadStep
  <2> QED
    BY <1>3, <2>2, <2>3, <2>4 DEF Next
<1> QED
  BY <1>2, <1>3

\* The invariant holds for disciplined callers.
LEMMA Invariance ==
    ASSUME Disciplined
    PROVE  Spec => []Inv
BY InitInv, NextKeepsInv, PTL DEF Spec

\* For any number of nodes, items and threads, and every interleaving: when
\* one thread removes and reads, llist_peek_tail is not called and
\* llist_enqueue is not mixed with other insertions, no operation dereferences
\* NULL or a freed node and none frees a node twice.  The unlocked emptiness
\* test and the unlocked reads are safe then.
THEOREM FaultFree ==
    ASSUME Disciplined
    PROVE  Spec => []NoFault
<1>1. Inv => NoFault
  BY DEF Inv
<1> QED
  BY <1>1, Invariance, PTL

\* For the same callers the list always is a chain of distinct nodes that ends
\* in NULL, llist_size is its length, and every allocated node is on the chain
\* or in the hands of one thread: none leaks, also through llist_destroy.
THEOREM SoundChain ==
    ASSUME Disciplined
    PROVE  Spec => []ChainIsSound
<1>1. ASSUME Inv PROVE ChainIsSound
  <2>1. /\ IsChain(Chain, head, next) /\ NodesOf(Chain) \subseteq heap
    BY <1>1, InvChain
  <2>2. Cardinality(NodesOf(Chain)) = Len(Chain)
    BY <2>1, ChainLength DEF IsChain
  <2>3. Chain # <<>> => next[Chain[Len(Chain)]] = NULL
    BY <2>1 DEF IsChain
  <2>4. NodesOf(Chain) \cap Held = {} /\ Held \subseteq heap
    BY <1>1 DEF Inv, HoldersOK, Held
  <2>5. heap \subseteq NodesOf(Chain) \cup Held
    BY <1>1 DEF Inv, HeapOK, Held
  <2>6. object = "alive" => llist_size = Len(Chain)
    BY <1>1, ListAssumption DEF Inv, ChainOK, ObjectOK, llist_size
  <2> QED
    BY <2>1, <2>2, <2>3, <2>4, <2>5, <2>6 DEF ChainIsSound
<1> QED
  BY <1>1, Invariance, PTL

\* In a queue of one consumer tail is the last node whenever there is one, so
\* that llist_enqueue, which writes through it, links at the end: removal
\* leaves tail alone, and that is right until the list is empty.
THEOREM TailStaysLast ==
    ASSUME Disciplined
    PROVE  Spec => []TailIsLast
<1>1. Inv => TailIsLast
  BY DEF Inv
<1> QED
  BY <1>1, Invariance, PTL

-----------------------------------------------------------------------------
(* The list implements a sequence *)

\* The data along a chain of nodes.
DataOf(s, d) == [k \in DOMAIN s |-> d[s[k]]]

\* It is a sequence as long as the chain.
LEMMA DataSeq ==
    ASSUME NEW s \in Seq(Nodes), NEW d \in [Nodes -> Items \cup {NULL}]
    PROVE  /\ DataOf(s, d) \in Seq(Items \cup {NULL})
           /\ Len(DataOf(s, d)) = Len(s)
           /\ \A k \in 1 .. Len(s) : DataOf(s, d)[k] = d[s[k]]
           /\ DataOf(s, d) = <<>> <=> s = <<>>
<1>1. /\ Len(s) \in Nat /\ DOMAIN s = 1 .. Len(s)
      /\ \A k \in 1 .. Len(s) : s[k] \in Nodes
  BY LenProperties, ElementOfSeq
<1>2. \A k \in 1 .. Len(s) : d[s[k]] \in Items \cup {NULL}
  BY <1>1
<1> DEFINE c == [k \in 1 .. Len(s) |-> d[s[k]]]
<1>3. DataOf(s, d) = c
  BY <1>1 DEF DataOf
<1>4. c \in Seq(Items \cup {NULL})
  BY <1>1, <1>2, IsASeq
<1>5. Len(c) = Len(s)
  BY <1>1, <1>4
<1>6. \A k \in 1 .. Len(s) : c[k] = d[s[k]]
  OBVIOUS
<1> HIDE DEF c
<1>7. c = <<>> <=> s = <<>>
  BY <1>4, <1>5, EmptySeq
<1> QED
  BY <1>3, <1>4, <1>5, <1>6, <1>7

\* A node at the front adds its data at the front.
LEMMA DataFront ==
    ASSUME NEW s \in Seq(Nodes), NEW d \in [Nodes -> Items \cup {NULL}],
           NEW n \in Nodes
    PROVE  DataOf(<<n>> \o s, d) = <<d[n]>> \o DataOf(s, d)
<1> DEFINE S == Items \cup {NULL}
<1> DEFINE a == DataOf(<<n>> \o s, d)
<1> DEFINE c == DataOf(s, d)
<1> DEFINE b == <<d[n]>> \o c
<1>1. Len(s) \in Nat /\ <<n>> \in Seq(Nodes) /\ Len(<<n>>) = 1 /\ <<n>>[1] = n
  BY LenProperties
<1>2. /\ <<n>> \o s \in Seq(Nodes) /\ Len(<<n>> \o s) = Len(s) + 1
      /\ \A i \in 1 .. Len(s) + 1 :
           (<<n>> \o s)[i] = IF i =< 1 THEN n ELSE s[i - 1]
  BY <1>1, ConcatProperties
<1>3. c \in Seq(S) /\ Len(c) = Len(s) /\ \A i \in 1 .. Len(s) : c[i] = d[s[i]]
  BY DataSeq
<1>4. /\ a \in Seq(S) /\ Len(a) = Len(s) + 1
      /\ \A i \in 1 .. Len(s) + 1 : a[i] = d[(<<n>> \o s)[i]]
  BY <1>2, DataSeq
<1>5. <<d[n]>> \in Seq(S) /\ Len(<<d[n]>>) = 1 /\ <<d[n]>>[1] = d[n]
  OBVIOUS
<1> HIDE DEF a, c, S
<1>6. /\ b \in Seq(S) /\ Len(b) = Len(s) + 1
      /\ \A i \in 1 .. Len(s) + 1 : b[i] = IF i =< 1 THEN d[n] ELSE c[i - 1]
  BY <1>1, <1>3, <1>5, ConcatProperties
<1> HIDE DEF b
<1>7. ASSUME NEW i \in 1 .. Len(s) + 1 PROVE a[i] = b[i]
  <2>1. CASE i =< 1
    BY <1>2, <1>4, <1>6, <2>1
  <2>2. CASE ~(i =< 1)
    <3>1. i - 1 \in 1 .. Len(s)
      BY <1>1, <2>2
    <3> QED
      BY <1>2, <1>3, <1>4, <1>6, <2>2, <3>1
  <2> QED
    BY <2>1, <2>2
<1>8. a = b
  BY <1>4, <1>6, <1>7, SeqEqual
<1> QED
  BY <1>8 DEF a, b, c

\* A node at the back adds its data at the back.
LEMMA DataBack ==
    ASSUME NEW s \in Seq(Nodes), NEW d \in [Nodes -> Items \cup {NULL}],
           NEW n \in Nodes
    PROVE  DataOf(Append(s, n), d) = Append(DataOf(s, d), d[n])
<1> DEFINE S == Items \cup {NULL}
<1> DEFINE r == Append(s, n)
<1> DEFINE a == DataOf(r, d)
<1> DEFINE c == DataOf(s, d)
<1> DEFINE b == Append(c, d[n])
<1>1. Len(s) \in Nat /\ d[n] \in S
  BY LenProperties
<1>2. /\ r \in Seq(Nodes) /\ Len(r) = Len(s) + 1
      /\ \A i \in 1 .. Len(s) : r[i] = s[i]
      /\ r[Len(s) + 1] = n
  BY AppendProperties
<1>3. c \in Seq(S) /\ Len(c) = Len(s) /\ \A i \in 1 .. Len(s) : c[i] = d[s[i]]
  BY DataSeq
<1> HIDE DEF r
<1>4. /\ a \in Seq(S) /\ Len(a) = Len(s) + 1
      /\ \A i \in 1 .. Len(s) + 1 : a[i] = d[r[i]]
  BY <1>2, DataSeq
<1> HIDE DEF a, c, S
<1>5. /\ b \in Seq(S) /\ Len(b) = Len(s) + 1
      /\ \A i \in 1 .. Len(s) : b[i] = c[i]
      /\ b[Len(s) + 1] = d[n]
  BY <1>1, <1>3, AppendProperties
<1> HIDE DEF b
<1>6. ASSUME NEW i \in 1 .. Len(s) + 1 PROVE a[i] = b[i]
  <2>1. i \in 1 .. Len(s) \/ i = Len(s) + 1
    BY <1>1
  <2> QED
    BY <1>2, <1>3, <1>4, <1>5, <2>1
<1>7. a = b
  BY <1>4, <1>5, <1>6, SeqEqual
<1> QED
  BY <1>7 DEF a, b, c, r

\* Without its first node the chain carries the tail of its data.
LEMMA DataTail ==
    ASSUME NEW s \in Seq(Nodes), NEW d \in [Nodes -> Items \cup {NULL}],
           s # <<>>
    PROVE  DataOf(Tail(s), d) = Tail(DataOf(s, d))
<1> DEFINE S == Items \cup {NULL}
<1> DEFINE r == Tail(s)
<1> DEFINE a == DataOf(r, d)
<1> DEFINE c == DataOf(s, d)
<1> DEFINE b == Tail(c)
<1>1. Len(s) \in Nat \ {0}
  BY EmptySeq
<1>2. /\ r \in Seq(Nodes) /\ Len(r) = Len(s) - 1
      /\ \A i \in 1 .. Len(r) : r[i] = s[i + 1]
  BY HeadTailProperties
<1>3. /\ c \in Seq(S) /\ Len(c) = Len(s) /\ c # <<>>
      /\ \A i \in 1 .. Len(s) : c[i] = d[s[i]]
  BY DataSeq
<1> HIDE DEF r
<1>4. /\ a \in Seq(S) /\ Len(a) = Len(s) - 1
      /\ \A i \in 1 .. Len(s) - 1 : a[i] = d[r[i]]
  BY <1>2, DataSeq
<1> HIDE DEF a, c, S
<1>5. /\ b \in Seq(S) /\ Len(b) = Len(s) - 1
      /\ \A i \in 1 .. Len(s) - 1 : b[i] = c[i + 1]
  BY <1>3, HeadTailProperties
<1> HIDE DEF b
<1>6. ASSUME NEW i \in 1 .. Len(s) - 1 PROVE a[i] = b[i]
  <2>1. i + 1 \in 1 .. Len(s)
    BY <1>1
  <2> QED
    BY <1>2, <1>3, <1>4, <1>5, <2>1
<1>7. a = b
  BY <1>4, <1>5, <1>6, SeqEqual
<1> QED
  BY <1>7 DEF a, b, c, r

\* The data along the chain only depends on the nodes of the chain.
LEMMA DataKept ==
    ASSUME NEW s, NEW d, NEW e, \A m \in NodesOf(s) : e[m] = d[m]
    PROVE  DataOf(s, e) = DataOf(s, d)
<1>1. \A k \in DOMAIN s : e[s[k]] = d[s[k]]
  BY DEF NodesOf
<1> QED
  BY <1>1 DEF DataOf

\* A step of the list is a step of the sequence, or leaves it unchanged.
LEMMA StepRefines ==
    ASSUME Disciplined, Inv, [Next]_vars
    PROVE  [Abstract!DequeNext]_(Abstract!dequeVars)
<1> DEFINE Ends == {EndOf(o) : o \in use.ops}
<1>1. Inv' /\ TypeOK' /\ TypeOK
  BY NextKeepsInv DEF Inv
<1>2. /\ Chain \in Seq(Nodes) /\ data \in [Nodes -> Items \cup {NULL}]
      /\ data' \in [Nodes -> Items \cup {NULL}]
  BY <1>1, InvChain DEF TypeOK
<1>3. use' = use
  BY DEF Next, vars
<1>4. ASSUME DataOf(Chain', data') = DataOf(Chain, data)
      PROVE  UNCHANGED Abstract!dequeVars
  BY <1>3, <1>4 DEF Abstract!dequeVars, DataOf
<1>5. ASSUME \/ /\ DataOf(Chain, data) # <<>>
                /\ DataOf(Chain', data') = Tail(DataOf(Chain, data))
             \/ DataOf(Chain', data') = <<>>
             \/ \E x \in Items :
                  \/ /\ "front" \in Ends
                     /\ DataOf(Chain', data') = <<x>> \o DataOf(Chain, data)
                  \/ /\ "back" \in Ends
                     /\ DataOf(Chain', data') = Append(DataOf(Chain, data), x)
      PROVE  Abstract!DequeNext
  BY <1>3, <1>5 DEF Abstract!DequeNext, Abstract!Shrink, Abstract!Clear,
     Abstract!Grow, DataOf
<1>6. ASSUME Chain' = Chain, \A m \in NodesOf(Chain) : data'[m] = data[m]
      PROVE  UNCHANGED Abstract!dequeVars
  BY <1>4, <1>6, DataKept
<1>7. CASE UNCHANGED vars
  <2>1. Chain' = Chain /\ data' = data
    BY <1>7, ChainKept DEF vars, listVars, heapVars, Inv, ChainOK
  <2> QED
    BY <1>6, <2>1
<1>8. CASE LlistCreate
  <2>1. Chain' = Chain /\ data' = data
    BY <1>8, ChainKept DEF LlistCreate, heapVars, Inv, ChainOK
  <2> QED
    BY <1>6, <2>1
<1>9. CASE LlistDestroy
  <2>1. Chain' = <<>>
    BY <1>1, <1>3, <1>9, DestroyKeepsInv
  <2>2. DataOf(<<>>, data') = <<>>
    BY <1>2, EmptySeq, DataSeq
  <2> QED
    BY <1>5, <2>1, <2>2
<1>10. ASSUME NEW t \in Threads, ThreadStep(t)
       PROVE  UNCHANGED Abstract!dequeVars \/ Abstract!DequeNext
  <2>1. ASSUME NEW o \in use.ops, NEW x \in Items, NEW n \in Nodes,
               CreateNode(t, o, x, n)
        PROVE  UNCHANGED Abstract!dequeVars
    BY <1>1, <1>3, <1>6, <2>1, CreateNodeKeepsInv
  <2>2. CASE \/ \E x \in Items : InsertReject(t, x)
             \/ Lock(t) \/ RemoveTest(t) \/ RemoveRelease(t)
             \/ \E r \in use.reads : ReadLoad(t, r)
             \/ PeekReturn(t) \/ DisplayStep(t)
    <3>1. Chain' = Chain /\ data' = data
      BY <1>1, <1>3, <2>2, RejectKeepsInv, LockKeepsInv, TestKeepsInv,
         ReleaseKeepsInv, LoadKeepsInv, ReadKeepsInv
    <3> QED
      BY <1>6, <3>1
  <2>3. ASSUME pc[t] = "locked", op[t] \in Inserts
        PROVE  node[t] \in Nodes /\ data[node[t]] \in Items
    BY <1>1, <2>3 DEF Inv, HoldersOK, Holding, TypeOK
  <2>4. CASE InsertFront(t) \/ Push(t)
    <3>1. /\ pc[t] = "locked" /\ op[t] \in {"insert_front", "push"}
          /\ LinkFront(t) /\ data' = data
      BY <2>4 DEF InsertFront, Push, LinkFront, CountAndUnlock
    <3>2. op[t] \in Inserts /\ op[t] \in use.ops /\ EndOf(op[t]) = "front"
      BY <3>1 DEF Inv, LabelsOK, Inserts, EndOf
    <3>3. "front" \in Ends
      BY <3>2
    <3>4. Chain' = <<node[t]>> \o Chain
      BY <3>1, <3>2, AfterLinkFront
    <3>5. DataOf(Chain', data') = <<data[node[t]]>> \o DataOf(Chain, data)
      BY <1>2, <2>3, <3>1, <3>2, <3>4, DataFront
    <3> QED
      BY <1>5, <2>3, <3>1, <3>2, <3>3, <3>5
  <2>5. CASE InsertBack(t) \/ Enqueue(t)
    <3>1. /\ pc[t] = "locked" /\ op[t] \in {"insert_back", "enqueue"}
      BY <2>5 DEF InsertBack, Enqueue
    <3>2. /\ op[t] \in Inserts /\ op[t] \in use.ops
          /\ Chain' = Append(Chain, node[t])
      BY <1>1, <1>3, <2>5, BackKeepsInv, EnqueueKeepsInv
    <3>3. data' = data
      <4>1. CountAndUnlock(t)
        BY <1>1, <1>3, <2>5, EnqueueKeepsInv DEF InsertBack
      <4> QED
        BY <4>1 DEF CountAndUnlock
    <3>4. EndOf(op[t]) = "back"
      BY <3>1 DEF EndOf
    <3>5. "back" \in Ends
      BY <3>2, <3>4
    <3>6. DataOf(Chain', data') = Append(DataOf(Chain, data), data[node[t]])
      BY <1>2, <2>3, <3>1, <3>2, <3>3, DataBack
    <3> QED
      BY <1>5, <2>3, <3>1, <3>2, <3>5, <3>6
  <2>6. CASE RemoveUnlink(t)
    <3>1. Chain # <<>> /\ Chain' = Tail(Chain) /\ data' = data
      BY <1>1, <1>3, <2>6, UnlinkKeepsInv
    <3>2. DataOf(Chain, data) # <<>>
      BY <1>2, <3>1, DataSeq
    <3>3. DataOf(Chain', data') = Tail(DataOf(Chain, data))
      BY <1>2, <3>1, DataTail
    <3> QED
      BY <1>5, <3>2, <3>3
  <2> QED
    BY <1>10, <2>1, <2>2, <2>4, <2>5, <2>6 DEF ThreadStep
<1> QED
  BY <1>7, <1>8, <1>9, <1>10 DEF Next

\* Every behaviour of the list with disciplined callers is one of Deque: each
\* item appears at the end that its insertion names, and removal takes items
\* off the front, in every interleaving, although the emptiness test and the
\* allocation are outside the mutex.
THEOREM ListRefines ==
    ASSUME Disciplined
    PROVE  Spec => ImplementsDeque
<1>1. Init => Abstract!DequeInit
  <2> SUFFICES ASSUME Init PROVE Abstract!DequeInit
    OBVIOUS
  <2>1. Chain = <<>> /\ TypeOK
    BY InitInv DEF Inv
  <2>2. DataOf(<<>>, data) = <<>>
    BY <2>1, EmptySeq, DataSeq DEF TypeOK
  <2> QED
    BY <2>1, <2>2 DEF Abstract!DequeInit, DataOf
<1>2. Inv /\ [Next]_vars => [Abstract!DequeNext]_(Abstract!dequeVars)
  BY StepRefines
<1> QED
  BY <1>1, <1>2, Invariance, PTL DEF Spec, ImplementsDeque, Abstract!DequeSpec

=============================================================================
