----------------------------- MODULE EngineProofs -----------------------------
(***************************************************************************)
(* Proofs about Engine, for any workflows and bounds.                      *)
(***************************************************************************)
EXTENDS Engine, SequenceTheorems, FiniteSetTheorems, WellFoundedInduction, TLAPS

-----------------------------------------------------------------------------
(* Smallest and greatest elements.                                         *)

LEMMA NatMin ==
  ASSUME NEW T, T \subseteq Nat, T # {}
  PROVE  \E m \in T : \A n \in T : m <= n
<1>1. \E m \in T : \A n \in T : <<n, m>> \notin OpToRel(<, Nat)
  BY NatLessThanWellFounded, WFMin
<1>2. PICK m \in T : \A n \in T : <<n, m>> \notin OpToRel(<, Nat)
  BY <1>1
<1>3. \A n \in T : ~(n < m)
  BY <1>2 DEF OpToRel
<1> QED BY <1>3

LEMMA MinOf ==
  ASSUME NEW T, T \subseteq Nat, T # {}
  PROVE  Min(T) \in T /\ \A n \in T : Min(T) <= n
BY NatMin DEF Min

LEMMA MaxOf ==
  ASSUME NEW T, T \subseteq Nat, T # {}, IsFiniteSet(T)
  PROVE  Max(T) \in T /\ \A n \in T : n <= Max(T)
<1> DEFINE U == {T \ (0..n) : n \in T}
<1>1. U \subseteq FiniteSubsetsOf(T) /\ U # {}
  BY FS_Difference DEF FiniteSubsetsOf
<1>2. PICK x \in U : \A y \in U : <<y, x>> \notin StrictSubsetOrdering(T)
  BY <1>1, WFMin, FS_StrictSubsetOrderingWellFounded
<1>3. PICK m \in T : x = T \ (0..m)
  BY DEF U
<1>4. ASSUME NEW n \in T, ~(n <= m) PROVE FALSE
  <2>1. T \ (0..n) \in U /\ T \ (0..n) \subseteq T \ (0..m) /\ n \in T \ (0..m) /\ n \notin T \ (0..n)
    BY <1>4, <1>3
  <2>2. <<T \ (0..n), T \ (0..m)>> \in StrictSubsetOrdering(T)
    BY <2>1 DEF StrictSubsetOrdering
  <2> QED BY <1>2, <1>3, <2>1, <2>2
<1>5. \E k \in T : \A n \in T : k >= n
  BY <1>4
<1> QED BY <1>5 DEF Max

LEMMA UpTo ==
  ASSUME NEW n \in Nat
  PROVE  IsFiniteSet(1..n) /\ Cardinality(1..n) = n
BY FS_Interval

-----------------------------------------------------------------------------
(* How many elements of a sequence are in a set.                           *)

Count(seq, P) == Cardinality({i \in DOMAIN seq : seq[i] \in P})

LEMMA CountType ==
  ASSUME NEW S, NEW s \in Seq(S), NEW P
  PROVE  /\ IsFiniteSet({i \in DOMAIN s : s[i] \in P}) /\ Count(s, P) \in Nat
         /\ Count(s, P) = 0 <=> \A i \in DOMAIN s : s[i] \notin P
<1>1. IsFiniteSet(DOMAIN s)
  BY FS_Interval, LenProperties
<1>2. IsFiniteSet({i \in DOMAIN s : s[i] \in P})
  BY <1>1, FS_Subset
<1> QED BY <1>2, FS_CardinalityType, FS_EmptySet DEF Count

LEMMA CountConcat ==
  ASSUME NEW S, NEW s \in Seq(S), NEW t \in Seq(S), NEW P
  PROVE  Count(s \o t, P) = Count(s, P) + Count(t, P)
<1> DEFINE A == {i \in DOMAIN s : s[i] \in P}
           B == {i \in DOMAIN t : t[i] \in P}
           C == {i \in DOMAIN (s \o t) : (s \o t)[i] \in P}
           D == C \ A
           f == [i \in B |-> i + Len(s)]
<1>0. /\ Len(s) \in Nat /\ Len(t) \in Nat /\ DOMAIN s = 1..Len(s) /\ DOMAIN t = 1..Len(t)
      /\ s \o t \in Seq(S) /\ Len(s \o t) = Len(s) + Len(t)
      /\ DOMAIN (s \o t) = 1 .. Len(s) + Len(t)
      /\ \A i \in 1 .. Len(s) + Len(t) : (s \o t)[i] = IF i <= Len(s) THEN s[i] ELSE t[i - Len(s)]
  BY ConcatProperties, LenProperties
<1>1. IsFiniteSet(A) /\ IsFiniteSet(B) /\ IsFiniteSet(C)
  BY <1>0, CountType
<1>2. A \subseteq C
  BY <1>0
<1>3. D = {i \in Len(s) + 1 .. Len(s) + Len(t) : t[i - Len(s)] \in P}
  BY <1>0
<1>4. f \in Bijection(B, D)
  <2>1. f \in [B -> D]
    BY <1>0, <1>3
  <2>2. \A i, j \in B : f[i] = f[j] => i = j
    BY <1>0
  <2>3. \A d \in D : \E i \in B : f[i] = d
    <3> SUFFICES ASSUME NEW d \in D PROVE \E i \in B : f[i] = d
      OBVIOUS
    <3>1. d - Len(s) \in B /\ f[d - Len(s)] = d
      BY <1>0, <1>3
    <3> QED BY <3>1
  <2> QED BY <2>1, <2>2, <2>3 DEF Bijection, Injection, Surjection, IsInjective
<1>5. Cardinality(D) = Cardinality(B) /\ IsFiniteSet(D)
  BY <1>1, <1>4, FS_Bijection DEF ExistsBijection
<1>6. A \cup D = C /\ A \cap D = {}
  BY <1>2
<1>7. Cardinality(C) = Cardinality(A) + Cardinality(D)
  <2>1. Cardinality(A \cap D) = 0
    BY <1>6, FS_EmptySet
  <2>2. Cardinality(A) \in Nat /\ Cardinality(D) \in Nat
    BY <1>1, <1>5, FS_CardinalityType
  <2> HIDE DEF A, D, C
  <2>3. Cardinality(A \cup D) = Cardinality(A) + Cardinality(D) - Cardinality(A \cap D)
    BY <1>1, <1>5, FS_Union
  <2>4. Cardinality(A \cup D) = Cardinality(C)
    BY <1>6, Zenon
  <2> QED BY ONLY <2>1, <2>2, <2>3, <2>4
<1> QED BY <1>5, <1>7 DEF Count

LEMMA CountOne ==
  ASSUME NEW x, NEW P
  PROVE  Count(<<x>>, P) = IF x \in P THEN 1 ELSE 0
<1>1. CASE x \in P
  <2>1. {i \in DOMAIN <<x>> : <<x>>[i] \in P} = {1}
    BY <1>1
  <2> QED BY <1>1, <2>1, FS_Singleton DEF Count
<1>2. CASE x \notin P
  <2>1. {i \in DOMAIN <<x>> : <<x>>[i] \in P} = {}
    BY <1>2
  <2> QED BY <1>2, <2>1, FS_EmptySet DEF Count
<1> QED BY <1>1, <1>2

LEMMA CountEmpty == \A P : Count(<<>>, P) = 0
<1>1. \A P : {i \in DOMAIN <<>> : <<>>[i] \in P} = {}
  OBVIOUS
<1> QED BY <1>1, FS_EmptySet DEF Count

LEMMA CountAppend ==
  ASSUME NEW S, NEW s \in Seq(S), NEW x \in S, NEW P
  PROVE  Count(Append(s, x), P) = Count(s, P) + IF x \in P THEN 1 ELSE 0
<1>1. Append(s, x) = s \o <<x>> /\ <<x>> \in Seq(S)
  BY AppendIsConcat
<1>2. Count(s \o <<x>>, P) = Count(s, P) + Count(<<x>>, P)
  BY <1>1, CountConcat
<1>3. Count(<<x>>, P) = IF x \in P THEN 1 ELSE 0
  BY CountOne
<1> QED BY ONLY <1>1, <1>2, <1>3

LEMMA CountTail ==
  ASSUME NEW S, NEW s \in Seq(S), s # <<>>, NEW P
  PROVE  Count(s, P) = Count(Tail(s), P) + IF Head(s) \in P THEN 1 ELSE 0
<1>1. Head(s) \in S /\ Tail(s) \in Seq(S) /\ <<Head(s)>> \in Seq(S)
  BY HeadTailProperties
<1>2. s = <<Head(s)>> \o Tail(s)
  <2> DEFINE t == <<Head(s)>> \o Tail(s)
  <2>1. /\ t \in Seq(S) /\ Len(t) = 1 + Len(Tail(s)) /\ Len(Tail(s)) = Len(s) - 1 /\ Len(s) \in Nat
        /\ \A i \in 1 .. 1 + Len(Tail(s)) : t[i] = IF i <= 1 THEN Head(s) ELSE Tail(s)[i - 1]
        /\ \A i \in 1 .. Len(Tail(s)) : Tail(s)[i] = s[i + 1]
        /\ Head(s) = s[1]
    BY <1>1, ConcatProperties, HeadTailProperties, LenProperties
  <2>2. Len(t) = Len(s) /\ \A i \in 1..Len(s) : t[i] = s[i]
    BY <2>1
  <2> HIDE DEF t
  <2>3. t = s
    BY <2>1, <2>2, SeqEqual
  <2> QED BY <2>3 DEF t
<1>3. Count(<<Head(s)>> \o Tail(s), P) = Count(<<Head(s)>>, P) + Count(Tail(s), P)
  BY <1>1, CountConcat
<1>4. Count(<<Head(s)>>, P) = (IF Head(s) \in P THEN 1 ELSE 0) /\ Count(Tail(s), P) \in Nat
  BY <1>1, CountOne, CountType
<1>5. Count(<<Head(s)>> \o Tail(s), P) = Count(s, P)
  BY ONLY <1>2, Zenon
<1> QED BY ONLY <1>3, <1>4, <1>5

\* The parts before and after a place.
LEMMA CountSplit ==
  ASSUME NEW S, NEW s \in Seq(S), NEW k \in 0..Len(s), NEW P
  PROVE  /\ SubSeq(s, 1, k) \in Seq(S) /\ SubSeq(s, k + 1, Len(s)) \in Seq(S)
         /\ Count(s, P) = Count(SubSeq(s, 1, k), P) + Count(SubSeq(s, k + 1, Len(s)), P)
<1>0. Len(s) \in Nat /\ \A i \in 1..Len(s) : s[i] \in S
  BY LenProperties, ElementOfSeq
<1>1. SubSeq(s, 1, k) \in Seq(S) /\ SubSeq(s, k + 1, Len(s)) \in Seq(S)
  BY <1>0, SubSeqProperties
<1>2. SubSeq(s, 1, k) \o SubSeq(s, k + 1, Len(s)) = s
  <2>1. /\ 1 \in 1 .. Len(s) + 1 /\ k \in 1 - 1 .. Len(s) /\ Len(s) \in k .. Len(s)
    BY <1>0
  <2>2. SubSeq(s, 1, k) \o SubSeq(s, k + 1, Len(s)) = SubSeq(s, 1, Len(s))
    BY <2>1, ConcatAdjacentSubSeq
  <2> QED BY <2>2, SubSeqFull
<1>3. Count(SubSeq(s, 1, k) \o SubSeq(s, k + 1, Len(s)), P)
        = Count(SubSeq(s, 1, k), P) + Count(SubSeq(s, k + 1, Len(s)), P)
  BY <1>1, CountConcat
<1> QED BY ONLY <1>1, <1>2, <1>3

LEMMA CountInsert ==
  ASSUME NEW S, NEW s \in Seq(S), NEW k \in 1 .. Len(s) + 1, NEW x \in S, NEW P
  PROVE  /\ InsertAt(s, k, x) \in Seq(S)
         /\ Count(InsertAt(s, k, x), P) = Count(s, P) + IF x \in P THEN 1 ELSE 0
<1>0. Len(s) \in Nat /\ k - 1 \in 0..Len(s) /\ (k - 1) + 1 = k
  BY LenProperties
<1> DEFINE a == SubSeq(s, 1, k - 1)
           b == SubSeq(s, k, Len(s))
<1>1. a \in Seq(S) /\ b \in Seq(S) /\ Count(s, P) = Count(a, P) + Count(b, P)
  BY <1>0, CountSplit
<1>2. InsertAt(s, k, x) = a \o <<x>> \o b
  BY DEF InsertAt
<1> HIDE DEF a, b
<1>3. <<x>> \in Seq(S) /\ a \o <<x>> \in Seq(S)
  BY <1>1, ConcatProperties
<1>4. /\ Count(a \o <<x>> \o b, P) = Count(a \o <<x>>, P) + Count(b, P)
      /\ Count(a \o <<x>>, P) = Count(a, P) + Count(<<x>>, P)
      /\ a \o <<x>> \o b \in Seq(S)
  <2> DEFINE c == a \o <<x>>
  <2>0. a \in Seq(S) /\ <<x>> \in Seq(S) /\ c \in Seq(S)
    BY <1>1, <1>3
  <2>1. c \in Seq(S) /\ Count(c, P) = Count(a, P) + Count(<<x>>, P)
    BY ONLY <2>0, CountConcat DEF c
  <2> HIDE DEF c
  <2>2. c \o b \in Seq(S) /\ Count(c \o b, P) = Count(c, P) + Count(b, P)
    BY <1>1, <2>1, CountConcat, ConcatProperties
  <2> QED BY <2>1, <2>2 DEF c
<1>5. Count(a, P) \in Nat /\ Count(b, P) \in Nat
  BY <1>1, CountType
<1> QED BY <1>1, <1>2, <1>4, <1>5, CountOne

LEMMA CountRemove ==
  ASSUME NEW S, NEW s \in Seq(S), NEW k \in 1..Len(s), NEW P
  PROVE  /\ RemoveAt(s, k) \in Seq(S)
         /\ Count(s, P) = Count(RemoveAt(s, k), P) + IF s[k] \in P THEN 1 ELSE 0
<1>0. Len(s) \in Nat /\ k - 1 \in 0..Len(s) /\ k \in 0..Len(s) /\ (k - 1) + 1 = k
  BY LenProperties
<1> DEFINE a == SubSeq(s, 1, k - 1)
           b == SubSeq(s, k + 1, Len(s))
           c == SubSeq(s, k, Len(s))
<1>1. a \in Seq(S) /\ b \in Seq(S) /\ c \in Seq(S) /\ Count(s, P) = Count(a, P) + Count(c, P)
  BY <1>0, CountSplit
<1>2. Head(c) = s[k] /\ Tail(c) = b /\ c # <<>>
  <2>1. Head(c) = s[k] /\ Tail(c) = b
    BY <1>0, HeadTailOfSubSeq
  <2>2. \A i \in k..Len(s) : s[i] \in S
    BY <1>0, ElementOfSeq
  <2>3. Len(c) = Len(s) - k + 1
    BY <1>0, <2>2, SubSeqProperties
  <2>4. Len(c) # 0
    BY ONLY <1>0, <2>3
  <2> QED BY <2>1, <2>4, EmptySeq
<1>3. RemoveAt(s, k) = a \o b
  BY DEF RemoveAt
<1> HIDE DEF a, b, c
<1>4. Count(c, P) = Count(b, P) + IF s[k] \in P THEN 1 ELSE 0
  <2>1. Count(c, P) = Count(Tail(c), P) + IF Head(c) \in P THEN 1 ELSE 0
    BY <1>1, <1>2, CountTail
  <2> QED BY ONLY <1>2, <2>1
<1>5. Count(a \o b, P) = Count(a, P) + Count(b, P) /\ a \o b \in Seq(S)
  BY <1>1, CountConcat, ConcatProperties
<1>6. Count(a, P) \in Nat /\ Count(b, P) \in Nat
  BY <1>1, CountType
<1> QED BY <1>1, <1>3, <1>4, <1>5, <1>6

\* Replacing an element: those in other places count as before.
LEMMA CountReplace ==
  ASSUME NEW S, NEW s \in Seq(S), NEW k \in 1..Len(s), NEW x \in S, NEW P
  PROVE  /\ [s EXCEPT ![k] = x] \in Seq(S)
         /\ Count([s EXCEPT ![k] = x], P) + (IF s[k] \in P THEN 1 ELSE 0)
              = Count(s, P) + IF x \in P THEN 1 ELSE 0
<1> DEFINE t == [s EXCEPT ![k] = x]
<1>1. /\ t \in Seq(S) /\ Len(t) = Len(s) /\ \A j \in 1..Len(s) : t[j] = IF j = k THEN x ELSE s[j]
  BY ExceptSeq
<1>2. DOMAIN t = 1..Len(s) /\ DOMAIN s = 1..Len(s)
  BY <1>1, LenProperties
<1> HIDE DEF t
<1> DEFINE R == {j \in 1..Len(s) : j # k /\ s[j] \in P}
           A == {j \in DOMAIN s : s[j] \in P}
           B == {j \in DOMAIN t : t[j] \in P}
<1>3. IsFiniteSet(R) /\ IsFiniteSet(A) /\ IsFiniteSet(B) /\ R \subseteq A
  <2>1. R \subseteq A
    BY <1>2
  <2> QED BY <1>1, <2>1, CountType, FS_Subset
<1>4. Cardinality(A) = Cardinality(R) + IF s[k] \in P THEN 1 ELSE 0
  <2>1. CASE s[k] \in P
    <3>1. A = R \cup {k} /\ k \notin R
      BY <1>2, <2>1
    <3> HIDE DEF A, R
    <3>2. Cardinality(R \cup {k}) = Cardinality(R) + 1
      BY <1>3, <3>1, FS_AddElement
    <3> QED BY <2>1, <3>1, <3>2
  <2>2. CASE s[k] \notin P
    <3>1. A = R
      BY <1>2, <2>2
    <3>2. Cardinality(R) \in Nat
      BY <1>3, FS_CardinalityType
    <3> HIDE DEF A, B, R
    <3> QED BY ONLY <2>2, <3>1, <3>2
  <2> QED BY <2>1, <2>2
<1>5. Cardinality(B) = Cardinality(R) + IF x \in P THEN 1 ELSE 0
  <2>1. CASE x \in P
    <3>1. B = R \cup {k} /\ k \notin R
      BY <1>1, <1>2, <2>1
    <3> HIDE DEF B, R
    <3>2. Cardinality(R \cup {k}) = Cardinality(R) + 1
      BY <1>3, <3>1, FS_AddElement
    <3> QED BY <2>1, <3>1, <3>2
  <2>2. CASE x \notin P
    <3>1. B = R
      BY <1>1, <1>2, <2>2
    <3>2. Cardinality(R) \in Nat
      BY <1>3, FS_CardinalityType
    <3> HIDE DEF A, B, R
    <3> QED BY ONLY <2>2, <3>1, <3>2
  <2> QED BY <2>1, <2>2
<1>6. Cardinality(R) \in Nat
  BY <1>3, FS_CardinalityType
<1>7. Count(s, P) = Cardinality(A) /\ Count(t, P) = Cardinality(B)
  BY DEF Count
<1> HIDE DEF A, B, R
<1>8. Count(t, P) + (IF s[k] \in P THEN 1 ELSE 0) = Count(s, P) + IF x \in P THEN 1 ELSE 0
  BY <1>4, <1>5, <1>6, <1>7
<1> QED BY <1>1, <1>8 DEF t

-----------------------------------------------------------------------------
(* Workflows and the inputs of their nodes.                                *)

LEMMA WorkflowFacts ==
  ASSUME wf \in Workflows
  PROVE  /\ wf.edges \in Seq(Edge) /\ DOMAIN wf.edges = 1..Len(wf.edges) /\ Len(wf.edges) \in Nat
         /\ \A i \in DOMAIN wf.edges : wf.edges[i] \in Edge
         /\ \A e \in Edges : e \in Edge /\ \E i \in DOMAIN wf.edges : wf.edges[i] = e
         /\ wf.start \in Nodes /\ wf.v1 \in BOOLEAN /\ wf.given \in BOOLEAN
         /\ wf.rank \in [Nodes -> Nat] /\ wf.outputs \in [Nodes -> Nat]
         /\ wf.tries \in [Nodes -> 1..5]
         /\ wf.destination \in Nodes \cup {None}
<1>1. wf \in WorkflowType
  BY WorkflowsAssumption
<1>2. /\ wf.edges \in Seq(Edge)
      /\ wf.start \in Nodes /\ wf.v1 \in BOOLEAN /\ wf.given \in BOOLEAN
      /\ wf.rank \in [Nodes -> Nat] /\ wf.outputs \in [Nodes -> Nat]
      /\ wf.tries \in [Nodes -> 1..5]
      /\ wf.destination \in Nodes \cup {None}
  BY ONLY <1>1 DEF WorkflowType
<1>3. /\ DOMAIN wf.edges = 1..Len(wf.edges) /\ Len(wf.edges) \in Nat
      /\ \A i \in DOMAIN wf.edges : wf.edges[i] \in Edge
  BY ONLY <1>2, LenProperties, ElementOfSeq
<1>4. \A e \in Edges : \E i \in DOMAIN wf.edges : wf.edges[i] = e
  BY DEF Edges, Range
<1> QED BY <1>2, <1>3, <1>4

\* Every input that has an edge is counted.
LEMMA InputsOf ==
  ASSUME wf \in Workflows, NEW n
  PROVE  /\ ConnectedInputs(n) \in Nat
         /\ \A e \in Edges : e.to = n => e.input \in Nat /\ e.input + 1 \in 1..ConnectedInputs(n)
<1> DEFINE D == {i \in DOMAIN wf.edges : wf.edges[i].to = n}
           T == {e.input + 1 : e \in {f \in Edges : f.to = n}}
           g == [i \in D |-> wf.edges[i].input + 1]
<1>1. IsFiniteSet(D)
  <2>1. IsFiniteSet(DOMAIN wf.edges)
    BY WorkflowFacts, UpTo
  <2> QED BY <2>1, FS_Subset
<1>2. g \in Surjection(D, T)
  <2>1. \A i \in D : wf.edges[i] \in Edges
    BY DEF Edges, Range
  <2>2. g \in [D -> T]
    BY <2>1
  <2>3. \A t \in T : \E i \in D : g[i] = t
    <3> SUFFICES ASSUME NEW t \in T PROVE \E i \in D : g[i] = t
      OBVIOUS
    <3>1. PICK e \in Edges : e.to = n /\ t = e.input + 1
      OBVIOUS
    <3>2. PICK i \in DOMAIN wf.edges : wf.edges[i] = e
      BY WorkflowFacts
    <3>3. i \in D /\ g[i] = t
      BY <3>1, <3>2
    <3> QED BY <3>3
  <2> QED BY <2>2, <2>3 DEF Surjection
<1>3. IsFiniteSet(T)
  BY <1>1, <1>2, FS_Surjection
<1>4. IsFiniteSet({0} \cup T)
  BY <1>3, FS_Singleton, FS_Union
<1>5. \A e \in Edges : e.input \in Nat
  BY WorkflowFacts DEF Edge
<1>6. {0} \cup T \subseteq Nat
  BY <1>5
<1>7. Max({0} \cup T) \in {0} \cup T /\ \A m \in {0} \cup T : m <= Max({0} \cup T)
  BY <1>4, <1>6, MaxOf
<1>8. ConnectedInputs(n) = Max({0} \cup T)
  BY DEF ConnectedInputs
<1>9. \A e \in Edges : e.to = n => e.input + 1 \in T
  OBVIOUS
<1> HIDE DEF T
<1> QED BY <1>5, <1>6, <1>7, <1>8, <1>9

-----------------------------------------------------------------------------
(* Types, and what holds at each point of the loop.                        *)

\* The entries that name every input of their node.
Whole == {x \in Entry : Len(x.source) = ConnectedInputs(x.node)}

Shape ==
  /\ waiting \in Seq(Whole)
  /\ pc # "deliver" => todo = {} /\ ready = <<>>
  /\ status = "running" <=> pc # "end"
  /\ pc \in {"before", "running", "deliver"} => runs >= 1
  /\ status = "success" /\ wf.destination = None => stack = <<>> /\ waiting = <<>>

\* The entries and the runs that have a batch at an input of a node.
Held(n, slot, b) == {x \in Entry : EntryHas(x, n, slot, b)}

Kept(slot, b) == {r \in Run : slot \in DOMAIN r.source /\ r.source[slot] = b}

LEMMA WholeIsEntry ==
  ASSUME NEW s \in Seq(Whole)
  PROVE  s \in Seq(Entry)
BY SeqMonotonic DEF Whole

LEMMA MakeReadyEffect ==
  ASSUME TypeOK, NEW x \in Entry, MakeReady(x)
  PROVE  /\ ready' \in Seq(Entry)
         /\ \A P : Count(ready', P) = Count(ready, P) + IF x \in P THEN 1 ELSE 0
<1>0. ready \in Seq(Entry)
  BY DEF TypeOK
<1>1. CASE ~wf.v1
  <2>1. ready' = Append(ready, x)
    BY <1>1 DEF MakeReady
  <2> QED BY <1>0, <2>1, AppendProperties, CountAppend
<1>2. CASE wf.v1
  <2> DEFINE T == {i \in DOMAIN ready : wf.rank[ready[i].node] <= wf.rank[x.node]}
             k == Cardinality(T) + 1
  <2>1. ready' = InsertAt(ready, k, x)
    BY <1>2 DEF MakeReady, InsertByRank
  <2>2. k \in 1 .. Len(ready) + 1
    <3>1. DOMAIN ready = 1..Len(ready) /\ Len(ready) \in Nat
      BY <1>0, LenProperties
    <3>2. IsFiniteSet(1..Len(ready)) /\ Cardinality(1..Len(ready)) = Len(ready)
      BY <3>1, UpTo
    <3>3. IsFiniteSet(T) /\ Cardinality(T) <= Len(ready)
      BY <3>1, <3>2, FS_Subset
    <3>4. Cardinality(T) \in Nat
      BY <3>3, FS_CardinalityType
    <3> HIDE DEF T
    <3> QED BY <3>1, <3>3, <3>4
  <2> HIDE DEF k
  <2> QED BY <1>0, <2>1, <2>2, CountInsert
<1> QED BY <1>1, <1>2

LEMMA FilledOf ==
  ASSUME NEW x \in Whole, NEW slot \in DOMAIN x.source, x.source[slot] = None, NEW b \in Batch
  PROVE  /\ Filled(x, slot, b) \in Whole /\ Filled(x, slot, b).node = x.node
         /\ \A m, s : \A c \in Batch :
              /\ Filled(x, slot, b) \in Held(m, s, c) <=>
                   x \in Held(m, s, c) \/ (m = x.node /\ s = slot /\ c = b)
              /\ ~(x \in Held(m, s, c) /\ m = x.node /\ s = slot /\ c = b)
<1> DEFINE y == Filled(x, slot, b)
           t == [x.source EXCEPT ![slot] = b]
<1>1. /\ x \in [node : Nodes, source : Seq(Batch \cup {None})]
      /\ Len(x.source) = ConnectedInputs(x.node)
  BY DEF Whole, Entry
<1>2. y = [node |-> x.node, source |-> t]
  <2>1. y = [x EXCEPT !.source = t]
    BY DEF Filled
  <2> HIDE DEF y, t
  <2> QED BY ONLY <1>1, <2>1
<1>3. x.source \in Seq(Batch \cup {None}) /\ slot \in 1..Len(x.source) /\ b \in Batch \cup {None}
      /\ DOMAIN x.source = 1..Len(x.source) /\ x.node \in Nodes
  BY <1>1, LenProperties
<1>4. t \in Seq(Batch \cup {None}) /\ Len(t) = Len(x.source) /\ DOMAIN t = DOMAIN x.source
      /\ \A j \in 1..Len(x.source) : t[j] = IF j = slot THEN b ELSE x.source[j]
  <2>1. t \in Seq(Batch \cup {None}) /\ Len(t) = Len(x.source)
        /\ \A j \in 1..Len(x.source) : t[j] = IF j = slot THEN b ELSE x.source[j]
    BY <1>3, ExceptSeq
  <2> QED BY <1>3, <2>1, LenProperties
<1> HIDE DEF t
<1>5. y.node = x.node /\ y.source = t /\ y \in Whole
  BY <1>1, <1>2, <1>3, <1>4 DEF Whole, Entry
<1>6. None \notin Batch
  BY NoneAssumption DEF Batch
<1> HIDE DEF y
<1>7. ASSUME NEW m, NEW s, NEW c \in Batch
      PROVE  /\ y \in Held(m, s, c) <=>
                  x \in Held(m, s, c) \/ (m = x.node /\ s = slot /\ c = b)
             /\ ~(x \in Held(m, s, c) /\ m = x.node /\ s = slot /\ c = b)
  <2>1. y \in Held(m, s, c) <=> x.node = m /\ s \in DOMAIN x.source /\ t[s] = c
    BY <1>4, <1>5 DEF Held, EntryHas, Whole
  <2>2. x \in Held(m, s, c) <=> x.node = m /\ s \in DOMAIN x.source /\ x.source[s] = c
    BY DEF Held, EntryHas, Whole
  <2>3. c # None
    BY <1>6
  <2> QED BY ONLY <1>3, <1>4, <2>1, <2>2, <2>3, x.source[slot] = None
<1> QED BY <1>5, <1>7 DEF y

\* An entry that misses every input.
LEMMA FreshEntry ==
  ASSUME wf \in Workflows, NEW n \in Nodes
  PROVE  LET x == [node |-> n, source |-> [j \in 1..ConnectedInputs(n) |-> None]]
         IN  /\ x \in Whole
             /\ DOMAIN x.source = 1..ConnectedInputs(n)
             /\ \A j \in 1..ConnectedInputs(n) : x.source[j] = None
             /\ \A m, s : \A c \in Batch : x \notin Held(m, s, c)
<1> DEFINE q == [j \in 1..ConnectedInputs(n) |-> None]
           x == [node |-> n, source |-> q]
<1>1. ConnectedInputs(n) \in Nat
  BY InputsOf
<1>2. q \in [1..ConnectedInputs(n) -> Batch \cup {None}] /\ DOMAIN q = 1..ConnectedInputs(n)
      /\ \A j \in 1..ConnectedInputs(n) : q[j] = None
  OBVIOUS
<1> HIDE DEF q
<1>3. q \in Seq(Batch \cup {None}) /\ Len(q) = ConnectedInputs(n)
  <2>1. q \in Seq(Batch \cup {None})
    BY <1>1, <1>2, SeqDef
  <2>2. DOMAIN q = 1..Len(q) /\ Len(q) \in Nat
    BY <2>1, LenProperties
  <2> QED BY <1>1, <1>2, <2>1, <2>2
<1>4. x \in Whole
  BY <1>3 DEF Whole, Entry
<1>5. None \notin Batch
  BY NoneAssumption DEF Batch
<1>6. \A m, s : \A c \in Batch : x \notin Held(m, s, c)
  BY <1>2, <1>5 DEF Held, EntryHas
<1> QED BY <1>2, <1>4, <1>6 DEF q

\* Filling an input of a waiting entry, or of a new one, puts the batch there
\* and moves everything else at most from waiting to ready.
LEMMA FillEffect ==
  ASSUME TypeOK, waiting \in Seq(Whole), NEW n \in Nodes, NEW slot \in 1..ConnectedInputs(n),
         NEW b \in Batch, FillWaiting(n, slot, b)
  PROVE  /\ waiting' \in Seq(Whole) /\ ready' \in Seq(Entry)
         /\ \A m, s : \A c \in Batch :
              Count(waiting', Held(m, s, c)) + Count(ready', Held(m, s, c))
                = Count(waiting, Held(m, s, c)) + Count(ready, Held(m, s, c))
                  + IF m = n /\ s = slot /\ c = b THEN 1 ELSE 0
<1> DEFINE i == Pending(n, slot)
           e == IF i > Len(waiting)
                THEN [node |-> n, source |-> [j \in 1..ConnectedInputs(n) |-> None]]
                ELSE waiting[i]
           f == Filled(e, slot, b)
           Old(m, s, c) == IF i <= Len(waiting) /\ e \in Held(m, s, c) THEN 1 ELSE 0
           New(m, s, c) == IF f \in Held(m, s, c) THEN 1 ELSE 0
<1>0. wf \in Workflows /\ Len(waiting) \in Nat /\ DOMAIN waiting = 1..Len(waiting)
      /\ ready \in Seq(Entry) /\ \A j \in 1..Len(waiting) : waiting[j] \in Whole
  BY LenProperties, ElementOfSeq DEF TypeOK
<1>1. \/ i = Len(waiting) + 1
      \/ i \in 1..Len(waiting) /\ waiting[i].node = n /\ waiting[i].source[slot] = None
  <2>1. CASE Missing(n, slot) = {}
    BY <2>1 DEF Pending
  <2>2. CASE Missing(n, slot) # {}
    <3>1. Missing(n, slot) \subseteq Nat
      BY <1>0 DEF Missing
    <3>2. Min(Missing(n, slot)) \in Missing(n, slot)
      BY <2>2, <3>1, MinOf
    <3>3. i \in Missing(n, slot)
      BY <2>2, <3>2 DEF Pending
    <3> HIDE DEF i
    <3> QED BY <1>0, <3>3 DEF Missing
  <2> QED BY <2>1, <2>2
<1>2. f = Filled(e, slot, b)
  OBVIOUS
<1>3. e \in Whole /\ e.node = n /\ slot \in DOMAIN e.source /\ e.source[slot] = None
      /\ (i > Len(waiting) => \A m, s : \A c \in Batch : e \notin Held(m, s, c))
  <2>1. CASE i = Len(waiting) + 1
    <3>1. i > Len(waiting)
      BY ONLY <1>0, <2>1
    <3>2. e = [node |-> n, source |-> [j \in 1..ConnectedInputs(n) |-> None]]
      BY ONLY <3>1
    <3> HIDE DEF i, e
    <3> QED BY <1>0, <3>2, FreshEntry
  <2>2. CASE i \in 1..Len(waiting) /\ waiting[i].node = n /\ waiting[i].source[slot] = None
    <3>1. ~(i > Len(waiting))
      BY ONLY <1>0, <2>2
    <3>2. e = waiting[i]
      BY ONLY <3>1
    <3>3. e \in Whole
      BY <1>0, <2>2, <3>2
    <3>4. DOMAIN e.source = 1..Len(e.source) /\ Len(e.source) = ConnectedInputs(e.node)
      BY <3>3, LenProperties DEF Whole, Entry
    <3> HIDE DEF i, e
    <3> QED BY <2>2, <3>1, <3>2, <3>3, <3>4
  <2> QED BY <1>1, <2>1, <2>2
<1>4. f \in Whole /\ f \in Entry
      /\ \A m, s : \A c \in Batch :
           New(m, s, c) = Old(m, s, c) + IF m = n /\ s = slot /\ c = b THEN 1 ELSE 0
  <2> HIDE DEF e, i
  <2>1. f \in Whole
        /\ \A m, s : \A c \in Batch :
             /\ f \in Held(m, s, c) <=>
                  e \in Held(m, s, c) \/ (m = e.node /\ s = slot /\ c = b)
             /\ ~(e \in Held(m, s, c) /\ m = e.node /\ s = slot /\ c = b)
    BY <1>3, FilledOf
  <2> HIDE DEF f
  <2>2. \A m, s : \A c \in Batch : e \in Held(m, s, c) => i <= Len(waiting)
    BY <1>0, <1>1, <1>3
  <2> QED BY <1>3, <2>1, <2>2 DEF Whole
<1>5. CASE Full(f)
  <2>1. waiting' = TakeWaiting(i) /\ MakeReady(f)
    BY <1>5 DEF FillWaiting
  <2> HIDE DEF f, e, i
  <2>2. /\ ready' \in Seq(Entry)
        /\ \A P : Count(ready', P) = Count(ready, P) + IF f \in P THEN 1 ELSE 0
    BY <1>4, <2>1, MakeReadyEffect
  <2>3. /\ waiting' \in Seq(Whole)
        /\ \A m, s : \A c \in Batch :
             Count(waiting, Held(m, s, c)) = Count(waiting', Held(m, s, c)) + Old(m, s, c)
    <3>1. CASE i = Len(waiting) + 1
      <4>1. waiting' = waiting /\ ~(i <= Len(waiting))
        BY <1>0, <2>1, <3>1 DEF TakeWaiting
      <4>2. \A m, s, c : Old(m, s, c) = 0
        BY <4>1
      <4>3. \A P : Count(waiting', P) = Count(waiting, P) /\ Count(waiting, P) \in Nat
        BY <4>1, CountType
      <4> HIDE DEF Old
      <4> QED BY <4>1, <4>2, <4>3
    <3>2. CASE i \in 1..Len(waiting)
      <4>1. waiting' = RemoveAt(waiting, i) /\ i <= Len(waiting) /\ waiting[i] = e
        BY <1>0, <2>1, <3>2 DEF TakeWaiting, e
      <4> QED BY <3>2, <4>1, CountRemove
    <3> QED BY <1>1, <3>1, <3>2
  <2>4. \A m, s : \A c \in Batch : Count(waiting', Held(m, s, c)) \in Nat
                                   /\ Count(ready, Held(m, s, c)) \in Nat
    BY <1>0, <2>3, CountType
  <2> QED BY <1>4, <2>2, <2>3, <2>4
<1>6. CASE ~Full(f)
  <2>1. /\ waiting' = IF i > Len(waiting) THEN Append(waiting, f) ELSE [waiting EXCEPT ![i] = f]
        /\ ready' = ready
    BY <1>6 DEF FillWaiting
  <2> HIDE DEF f, e, i
  <2>2. /\ waiting' \in Seq(Whole)
        /\ \A m, s : \A c \in Batch :
             Count(waiting', Held(m, s, c)) + Old(m, s, c)
               = Count(waiting, Held(m, s, c)) + New(m, s, c)
    <3>1. CASE i = Len(waiting) + 1
      <4>0. i > Len(waiting) /\ ~(i <= Len(waiting))
        BY ONLY <1>0, <3>1
      <4>1. waiting' = Append(waiting, f)
        BY ONLY <4>0, <2>1
      <4>2. waiting' \in Seq(Whole)
        BY <1>4, <4>1, AppendProperties
      <4>3. \A P : Count(waiting', P) = Count(waiting, P) + IF f \in P THEN 1 ELSE 0
        BY <1>4, <4>1, CountAppend
      <4>4. \A P : Count(waiting', P) \in Nat /\ Count(waiting, P) \in Nat
        BY <4>2, CountType
      <4>5. \A m, s, c : Old(m, s, c) = 0
        BY <4>0
      <4> HIDE DEF Old
      <4> QED BY <4>2, <4>3, <4>4, <4>5
    <3>2. CASE i \in 1..Len(waiting)
      <4>0. ~(i > Len(waiting)) /\ i <= Len(waiting)
        BY ONLY <1>0, <3>2
      <4>1. waiting' = [waiting EXCEPT ![i] = f]
        BY ONLY <4>0, <2>1
      <4>4. waiting[i] = e
        BY ONLY <4>0 DEF e
      <4>2. waiting' \in Seq(Whole)
        BY <1>4, <3>2, <4>1, CountReplace
      <4>3. \A P : Count([waiting EXCEPT ![i] = f], P) + (IF waiting[i] \in P THEN 1 ELSE 0)
                     = Count(waiting, P) + IF f \in P THEN 1 ELSE 0
        BY <1>4, <3>2, CountReplace
      <4>5. \A P : Count(waiting', P) + (IF e \in P THEN 1 ELSE 0)
                     = Count(waiting, P) + IF f \in P THEN 1 ELSE 0
        BY ONLY <4>1, <4>3, <4>4
      <4>6. \A m, s, c : Old(m, s, c) = IF e \in Held(m, s, c) THEN 1 ELSE 0
        BY <4>0
      <4> HIDE DEF Old
      <4> QED BY <4>2, <4>5, <4>6
    <3> QED BY <1>1, <3>1, <3>2
  <2>3. \A m, s : \A c \in Batch : /\ Count(waiting, Held(m, s, c)) \in Nat
                                   /\ Count(waiting', Held(m, s, c)) \in Nat
                                   /\ Count(ready, Held(m, s, c)) \in Nat
    BY <1>0, <2>2, CountType
  <2>4. \A m, s, c : Old(m, s, c) \in Nat
    OBVIOUS
  <2>5. ready' = ready
    BY <2>1
  <2> HIDE DEF Old, New
  <2>6. \A m, s : \A c \in Batch :
          Count(waiting', Held(m, s, c))
            = Count(waiting, Held(m, s, c)) + IF m = n /\ s = slot /\ c = b THEN 1 ELSE 0
    BY ONLY <1>4, <2>2, <2>3, <2>4
  <2>7. \A P : Count(ready', P) = Count(ready, P)
    BY ONLY <2>5
  <2> QED BY <1>0, <2>2, <2>3, <2>5, <2>6, <2>7
<1> QED BY <1>5, <1>6

\* What push_task and the choice after it do.
LEMMA RecordEffect ==
  ASSUME TypeOK, NEW x \in Entry, NEW outs \in SUBSET Nat, runs' \in 1..MaxNodeRuns,
         Record(x, outs, x.source)
  PROVE  /\ [source |-> x.source, outs |-> outs, index |-> runs' - 1] \in Run
         /\ runData' \in [Nodes -> Seq(Run)] /\ ranOn' \in Nat
         /\ \/ /\ x.node = wf.destination /\ pauses = 0
               /\ status' = "success" /\ pc' = "end" /\ todo' = todo
            \/ /\ ~(x.node = wf.destination /\ pauses = 0)
               /\ status' = status /\ pc' = "deliver"
               /\ todo' = {i \in DOMAIN wf.edges :
                             wf.edges[i].from = x.node /\ wf.edges[i].output \in outs}
<1> DEFINE r == [source |-> x.source, outs |-> outs, index |-> runs' - 1]
<1>0. MaxNodeRuns \in Nat /\ runs' \in 1..MaxNodeRuns
  BY BoundsAssumption
<1>1. runs' - 1 \in Nat
  <2>1. PICK k \in 1..MaxNodeRuns : runs' = k
    BY <1>0
  <2>2. k - 1 \in Nat
    BY <1>0
  <2> QED BY ONLY <2>1, <2>2
<1>2. r \in Run /\ x.node \in Nodes /\ r.source = x.source /\ r.outs = outs
  BY <1>1 DEF Run, Entry
<1>3. runData' = [runData EXCEPT ![x.node] = Append(runData[x.node], r)]
  BY DEF Record
<1> HIDE DEF r
<1>4. runData' \in [Nodes -> Seq(Run)]
  <2>1. runData \in [Nodes -> Seq(Run)]
    BY DEF TypeOK
  <2>2. Append(runData[x.node], r) \in Seq(Run)
    BY <1>2, <2>1, AppendProperties
  <2> QED BY ONLY <1>2, <1>3, <2>1, <2>2
<1>5. ranOn' \in Nat
  BY DEF Record, TypeOK
<1>6. \/ /\ x.node = wf.destination /\ pauses = 0
         /\ status' = "success" /\ pc' = "end" /\ todo' = todo
      \/ /\ ~(x.node = wf.destination /\ pauses = 0)
         /\ status' = status /\ pc' = "deliver"
         /\ todo' = {i \in DOMAIN wf.edges :
                       wf.edges[i].from = x.node /\ wf.edges[i].output \in outs}
  BY DEF Record, Ends
<1> QED BY <1>2, <1>4, <1>5, <1>6 DEF r

Typed == TypeOK /\ Shape

\* What a run of a node can put its items on.
LEMMA OutputsAreNat ==
  ASSUME wf \in Workflows, NEW n \in Nodes
  PROVE  Outputs(n) \in SUBSET Nat /\ wf.outputs[n] \in Nat
BY WorkflowFacts DEF Outputs

\* The batch that Deliver takes, and the edge.
LEMMA NextEdge ==
  ASSUME Typed, todo # {}
  PROVE  LET i == Min(todo)
             t == wf.edges[i]
             b == [node |-> t.from, output |-> t.output, run |-> Len(runData[t.from])]
         IN  /\ i \in todo /\ i \in DOMAIN wf.edges /\ t \in Edge /\ t \in Edges
             /\ b \in Batch /\ t.to \in Nodes /\ t.input + 1 \in 1..ConnectedInputs(t.to)
             /\ [node |-> t.to, source |-> <<b>>] \in Entry
<1> DEFINE i == Min(todo)
           t == wf.edges[i]
           b == [node |-> t.from, output |-> t.output, run |-> Len(runData[t.from])]
<1>1. wf \in Workflows /\ todo \subseteq DOMAIN wf.edges /\ runData \in [Nodes -> Seq(Run)]
  BY DEF Typed, TypeOK
<1>2. todo \subseteq Nat
  BY <1>1, WorkflowFacts
<1>3. i \in todo
  BY <1>2, MinOf
<1> HIDE DEF i
<1>4. i \in DOMAIN wf.edges /\ t \in Edge /\ t \in Edges
  BY <1>1, <1>3, WorkflowFacts DEF Edges, Range
<1>5. t.from \in Nodes /\ t.to \in Nodes /\ t.output \in Nat
  BY <1>4 DEF Edge
<1>6. t.input + 1 \in 1..ConnectedInputs(t.to)
  BY <1>1, <1>4, InputsOf
<1>7. Len(runData[t.from]) \in Nat
  BY <1>1, <1>5, LenProperties
<1>8. b \in Batch
  BY <1>5, <1>7 DEF Batch
<1> HIDE DEF b
<1>9. [node |-> t.to, source |-> <<b>>] \in Entry
  BY <1>5, <1>8 DEF Entry
<1> QED BY <1>3, <1>4, <1>5, <1>6, <1>8, <1>9 DEF i, b

LEMMA TypedInit == Init => Typed
<1> SUFFICES ASSUME Init PROVE Typed
  OBVIOUS
<1>1. wf \in Workflows /\ wf.start \in Nodes /\ wf.given \in BOOLEAN
  BY WorkflowFacts DEF Init
<1>2. StartEntry \in Entry
  BY <1>1 DEF StartEntry, Entry
<1>3. <<StartEntry>> \in Seq(Entry)
  BY <1>2
<1>4. TypeOK
  <2>1. MaxNodeRuns \in Nat /\ MaxPauses \in Nat
    BY BoundsAssumption
  <2>2. /\ wf \in Workflows /\ entry \in Entry /\ given \in BOOLEAN
        /\ stack \in Seq(Entry) /\ waiting \in Seq(Entry) /\ ready \in Seq(Entry)
        /\ runData \in [Nodes -> Seq(Run)] /\ todo \subseteq DOMAIN wf.edges
    BY <1>1, <1>2, <1>3 DEF Init
  <2>3. /\ pc = "top" /\ attempt = 0 /\ runs = 0 /\ status = "running" /\ late = FALSE
        /\ cancel = "no" /\ heard = FALSE /\ ranOn = 0 /\ pauses = 0
    BY DEF Init
  <2>4. {given, late, heard} \subseteq BOOLEAN
    BY <2>2, <2>3
  <2>5. attempt \in 0..5 /\ runs \in 0..MaxNodeRuns /\ pauses \in 0..MaxPauses /\ ranOn \in Nat
    BY <2>1, <2>3
  <2>6. /\ pc \in {"top", "before", "running", "deliver", "end"}
        /\ status \in {"running", "success", "error", "canceled", "waiting"}
        /\ cancel \in {"no", "flagged", "notified"}
    BY <2>3
  <2> QED BY ONLY <2>2, <2>4, <2>5, <2>6 DEF TypeOK
<1>5. Shape
  BY DEF Init, Shape
<1> QED BY <1>4, <1>5 DEF Typed

LEMMA TypedNext == Typed /\ [Next]_vars => Typed'
<1> SUFFICES ASSUME Typed, [Next]_vars PROVE Typed'
  OBVIOUS
<1> USE BoundsAssumption
<1>0. MaxNodeRuns \in Nat /\ MaxPauses \in Nat
  OBVIOUS
<1>a. /\ wf \in Workflows
      /\ stack \in Seq(Entry) /\ waiting \in Seq(Entry) /\ ready \in Seq(Entry)
      /\ runData \in [Nodes -> Seq(Run)]
      /\ pc \in {"top", "before", "running", "deliver", "end"}
      /\ entry \in Entry
      /\ attempt \in 0..5
      /\ todo \subseteq DOMAIN wf.edges
      /\ runs \in 0..MaxNodeRuns
      /\ status \in {"running", "success", "error", "canceled", "waiting"}
      /\ given \in BOOLEAN /\ late \in BOOLEAN /\ heard \in BOOLEAN
      /\ cancel \in {"no", "flagged", "notified"}
      /\ ranOn \in Nat
      /\ pauses \in 0..MaxPauses
  BY DEF Typed, TypeOK
<1>b. /\ waiting \in Seq(Whole)
      /\ pc # "deliver" => todo = {} /\ ready = <<>>
      /\ status = "running" <=> pc # "end"
      /\ pc \in {"before", "running", "deliver"} => runs >= 1
      /\ status = "success" /\ wf.destination = None => stack = <<>> /\ waiting = <<>>
  BY DEF Typed, Shape
<1>c. entry.node \in Nodes
  BY <1>a DEF Entry
<1>d. wf' = wf
  BY DEF Next, Step, vars, queues, SeeCancel, NothingLeft, TooManyRuns, Pop, PopFrom, Begin,
         Complete, Retry, FailOn, Fail, Pause, Abort, Deliver, Schedule, Cancel, Notify, TimeOut,
         Resume
<1>e. Whole' = Whole
  BY <1>d DEF Whole, ConnectedInputs, Edges
<1>f. ASSUME waiting' \in Seq(Whole) PROVE waiting' \in Seq(Whole')
  BY <1>e, <1>f
<1>1. ASSUME SeeCancel PROVE Typed'
  <2>1. TypeOK'
    BY <1>1, <1>a DEF SeeCancel, Ends, queues, TypeOK
  <2>2. Shape'
    BY <1>1, <1>b, <1>e DEF SeeCancel, Ends, queues, Shape
  <2> QED BY <2>1, <2>2 DEF Typed
<1>2. ASSUME NothingLeft PROVE Typed'
  <2>1. TypeOK'
    BY <1>2, <1>a DEF NothingLeft, AtTop, Ends, queues, TypeOK
  <2>2. Shape'
    BY <1>2, <1>b, <1>e DEF NothingLeft, AtTop, Ends, queues, Shape
  <2> QED BY <2>1, <2>2 DEF Typed
<1>3. ASSUME TooManyRuns PROVE Typed'
  <2>1. stack' \in Seq(Entry) /\ waiting' \in Seq(Whole)
    BY <1>3, <1>a, <1>b, HeadTailProperties DEF TooManyRuns
  <2>2. waiting' \in Seq(Entry)
    BY <2>1, WholeIsEntry
  <2>3. TypeOK'
    BY <1>3, <1>a, <2>1, <2>2 DEF TooManyRuns, AtTop, Ends, TypeOK
  <2>4. Shape'
    BY <1>3, <1>b, <1>f, <2>1 DEF TooManyRuns, AtTop, Ends, Shape
  <2> QED BY <2>3, <2>4 DEF Typed
<1>4. ASSUME Pop PROVE Typed'
  <2> DEFINE x == IF stack = <<>> THEN Head(waiting) ELSE Head(stack)
             outs == IF AtHand(x) THEN {0} ELSE {}
  <2>1. /\ stack # <<>> \/ waiting # <<>>
        /\ runs' = runs + 1 /\ runs < MaxNodeRuns
        /\ entry' = x /\ pc = "top" /\ cancel = "no"
        /\ \/ stack = <<>> /\ waiting' = Tail(waiting) /\ stack' = stack
           \/ stack # <<>> /\ stack' = Tail(stack) /\ waiting' = waiting
        /\ \/ Record(x, outs, x.source)
           \/ pc' = "before" /\ runData' = runData /\ todo' = todo /\ status' = status /\ ranOn' = ranOn
        /\ ready' = ready /\ attempt' = attempt /\ given' = given /\ late' = late
        /\ cancel' = cancel /\ heard' = heard /\ pauses' = pauses
    BY <1>4 DEF Pop, PopFrom, AtTop
  <2>2. x \in Entry
    BY <1>a, <2>1, HeadTailProperties
  <2>3. stack' \in Seq(Entry) /\ waiting' \in Seq(Whole)
    <3>1. CASE stack = <<>> /\ waiting' = Tail(waiting) /\ stack' = stack
      <4>1. Tail(waiting) \in Seq(Whole)
        BY <1>b, <2>1, <3>1, HeadTailProperties
      <4> QED BY <1>a, <3>1, <4>1
    <3>2. CASE stack # <<>> /\ stack' = Tail(stack) /\ waiting' = waiting
      <4>1. Tail(stack) \in Seq(Entry)
        BY <1>a, <3>2, HeadTailProperties
      <4> QED BY <1>b, <3>2, <4>1
    <3> QED BY <2>1, <3>1, <3>2
  <2>4. waiting' \in Seq(Entry)
    BY <2>3, WholeIsEntry
  <2>5. runs' \in 1..MaxNodeRuns /\ outs \in SUBSET Nat
    BY <1>a, <2>1
  <2> HIDE DEF x, outs
  <2>6. CASE Record(x, outs, x.source)
    <3>1. /\ runData' \in [Nodes -> Seq(Run)] /\ ranOn' \in Nat
          /\ \/ /\ x.node = wf.destination /\ pauses = 0
                /\ status' = "success" /\ pc' = "end" /\ todo' = todo
             \/ /\ ~(x.node = wf.destination /\ pauses = 0)
                /\ status' = status /\ pc' = "deliver"
                /\ todo' = {i \in DOMAIN wf.edges :
                              wf.edges[i].from = x.node /\ wf.edges[i].output \in outs}
      BY <2>2, <2>5, <2>6, RecordEffect DEF Typed
    <3>2. TypeOK'
      BY <1>a, <1>d, <2>1, <2>2, <2>3, <2>4, <2>5, <3>1 DEF TypeOK
    <3>3. x.node # None
      BY <2>2, NoneAssumption DEF Entry
    <3>4. Shape'
      BY <1>a, <1>b, <1>d, <1>f, <2>1, <2>3, <2>5, <3>1, <3>3 DEF Shape
    <3> QED BY <3>2, <3>4 DEF Typed
  <2>7. CASE pc' = "before" /\ runData' = runData /\ todo' = todo /\ status' = status /\ ranOn' = ranOn
    <3>1. TypeOK'
      BY <1>a, <1>d, <2>1, <2>2, <2>3, <2>4, <2>5, <2>7 DEF TypeOK
    <3>2. Shape'
      BY <1>a, <1>b, <1>d, <1>f, <2>1, <2>3, <2>5, <2>7 DEF Shape
    <3> QED BY <3>1, <3>2 DEF Typed
  <2> QED BY <2>1, <2>6, <2>7
<1>5. ASSUME Begin PROVE Typed'
  <2>0. /\ pc' = "running" /\ heard' = FALSE /\ attempt' = 1
        /\ UNCHANGED <<wf, queues, runData, entry, runs, status, given, late, cancel, ranOn, pauses>>
    BY <1>5 DEF Begin
  <2>1. TypeOK'
    <3>1. attempt' \in 0..5
      BY <2>0
    <3>2. given' \in BOOLEAN /\ late' \in BOOLEAN /\ heard' \in BOOLEAN
      BY <1>a, <2>0
    <3>3. {given', late', heard'} \subseteq BOOLEAN
      BY <3>2
    <3> QED BY ONLY <1>a, <2>0, <3>1, <3>3 DEF queues, TypeOK
  <2>2. Shape'
    BY <1>5, <1>b, <1>e DEF Begin, queues, Shape
  <2> QED BY <2>1, <2>2 DEF Typed
<1>6. ASSUME NEW outs \in SUBSET Nat, pc = "running", UNCHANGED runs,
             Record(entry, outs, entry.source),
             UNCHANGED <<wf, stack, waiting, ready, entry, attempt, given, late, cancel, heard, pauses>>
      PROVE  Typed'
  <2>1. runs' \in 1..MaxNodeRuns
    BY <1>6, <1>a, <1>b
  <2>2. /\ runData' \in [Nodes -> Seq(Run)] /\ ranOn' \in Nat
        /\ \/ /\ entry.node = wf.destination /\ pauses = 0
              /\ status' = "success" /\ pc' = "end" /\ todo' = todo
           \/ /\ ~(entry.node = wf.destination /\ pauses = 0)
              /\ status' = status /\ pc' = "deliver"
              /\ todo' = {i \in DOMAIN wf.edges :
                            wf.edges[i].from = entry.node /\ wf.edges[i].output \in outs}
    BY <1>6, <1>a, <2>1, RecordEffect DEF Typed
  <2>3. TypeOK'
    BY <1>6, <1>a, <2>1, <2>2 DEF TypeOK
  <2>4. entry.node # None
    BY <1>c, NoneAssumption
  <2>5. Shape'
    BY <1>6, <1>a, <1>b, <1>e, <2>1, <2>2, <2>4 DEF Shape
  <2> QED BY <2>3, <2>5 DEF Typed
<1>7. ASSUME NEW outs \in SUBSET Outputs(entry.node), Complete(outs) PROVE Typed'
  <2>1. outs \in SUBSET Nat /\ (IF entry.node \in wf.always /\ outs = {} THEN {0} ELSE outs) \in SUBSET Nat
    BY <1>a, <1>c, OutputsAreNat
  <2> QED BY <1>6, <1>7, <2>1 DEF Complete
<1>8. ASSUME FailOn PROVE Typed'
  <2>1. (IF wf.onError[entry.node] = "output" THEN {wf.outputs[entry.node]} ELSE {0}) \in SUBSET Nat
    BY <1>a, <1>c, OutputsAreNat
  <2> QED BY <1>6, <1>8, <2>1 DEF FailOn
<1>9. ASSUME Retry PROVE Typed'
  <2>1. wf.tries[entry.node] \in 1..5
    BY <1>a, <1>c, WorkflowFacts
  <2>2. attempt' \in 0..5
    BY <1>9, <1>a, <2>1 DEF Retry
  <2>3. TypeOK'
    BY <1>9, <1>a, <2>2 DEF Retry, queues, TypeOK
  <2>4. Shape'
    BY <1>9, <1>b, <1>e DEF Retry, queues, Shape
  <2> QED BY <2>3, <2>4 DEF Typed
<1>10. ASSUME Fail PROVE Typed'
  <2> DEFINE r == [source |-> entry.source, outs |-> {}, index |-> runs - 1]
  <2>1. runs - 1 \in Nat
    BY <1>10, <1>a, <1>b DEF Fail
  <2>2. r \in Run
    BY <1>a, <2>1 DEF Run, Entry
  <2>3. runData' = [runData EXCEPT ![entry.node] = Append(runData[entry.node], r)]
    BY <1>10 DEF Fail
  <2> HIDE DEF r
  <2>4. Append(runData[entry.node], r) \in Seq(Run)
    BY <1>a, <1>c, <2>2, AppendProperties
  <2>5. runData' \in [Nodes -> Seq(Run)]
    BY ONLY <1>a, <1>c, <2>3, <2>4
  <2>6. TypeOK'
    BY <1>10, <1>a, <2>5 DEF Fail, Ends, queues, TypeOK
  <2>7. Shape'
    BY <1>10, <1>b, <1>e DEF Fail, Ends, queues, Shape
  <2> QED BY <2>6, <2>7 DEF Typed
<1>11. ASSUME Pause PROVE Typed'
  <2>1. TypeOK'
    BY <1>11, <1>a DEF Pause, Ends, queues, TypeOK
  <2>2. Shape'
    BY <1>11, <1>b, <1>e DEF Pause, Ends, queues, Shape
  <2> QED BY <2>1, <2>2 DEF Typed
<1>12. ASSUME Abort PROVE Typed'
  <2>1. TypeOK'
    BY <1>12, <1>a DEF Abort, Ends, queues, TypeOK
  <2>2. Shape'
    BY <1>12, <1>b, <1>e DEF Abort, Ends, queues, Shape
  <2> QED BY <2>1, <2>2 DEF Typed
<1>13. ASSUME Deliver PROVE Typed'
  <2> DEFINE i == Min(todo)
             t == wf.edges[i]
             b == [node |-> t.from, output |-> t.output, run |-> Len(runData[t.from])]
  <2>1. /\ i \in todo /\ i \in DOMAIN wf.edges
        /\ b \in Batch /\ t.to \in Nodes /\ t.input + 1 \in 1..ConnectedInputs(t.to)
        /\ [node |-> t.to, source |-> <<b>>] \in Entry
    BY <1>13, NextEdge DEF Deliver
  <2>2. /\ pc = "deliver" /\ todo' = todo \ {i}
        /\ \/ MakeReady([node |-> t.to, source |-> <<b>>]) /\ waiting' = waiting
           \/ FillWaiting(t.to, t.input + 1, b)
        /\ UNCHANGED <<wf, stack, runData, pc, entry, attempt, runs, status, given, late, cancel,
                       heard, ranOn, pauses>>
    BY <1>13 DEF Deliver
  <2> HIDE DEF i, t, b
  <2>3. waiting' \in Seq(Whole) /\ ready' \in Seq(Entry)
    <3>1. CASE MakeReady([node |-> t.to, source |-> <<b>>]) /\ waiting' = waiting
      BY <1>b, <2>1, <3>1, MakeReadyEffect DEF Typed
    <3>2. CASE FillWaiting(t.to, t.input + 1, b)
      BY <1>b, <2>1, <3>2, FillEffect DEF Typed
    <3> QED BY <2>2, <3>1, <3>2
  <2>4. waiting' \in Seq(Entry)
    BY <2>3, WholeIsEntry
  <2>5. TypeOK'
    BY <1>a, <2>2, <2>3, <2>4 DEF TypeOK
  <2>6. status' # "success"
    BY <1>b, <2>2
  <2>7. Shape'
    BY <1>b, <1>f, <2>2, <2>3, <2>6 DEF Shape
  <2> QED BY <2>5, <2>7 DEF Typed
<1>14. ASSUME Schedule PROVE Typed'
  <2>1. stack' \in Seq(Entry)
    BY <1>14, <1>a, ConcatProperties DEF Schedule
  <2>2. TypeOK'
    BY <1>14, <1>a, <2>1 DEF Schedule, TypeOK
  <2>3. Shape'
    BY <1>14, <1>b, <1>e DEF Schedule, Shape
  <2> QED BY <2>2, <2>3 DEF Typed
<1>15. ASSUME Cancel PROVE Typed'
  <2>1. TypeOK'
    BY <1>15, <1>a DEF Cancel, queues, TypeOK
  <2>2. Shape'
    BY <1>15, <1>b, <1>e DEF Cancel, queues, Shape
  <2> QED BY <2>1, <2>2 DEF Typed
<1>16. ASSUME Notify PROVE Typed'
  <2>1. TypeOK'
    BY <1>16, <1>a DEF Notify, queues, TypeOK
  <2>2. Shape'
    BY <1>16, <1>b, <1>e DEF Notify, queues, Shape
  <2> QED BY <2>1, <2>2 DEF Typed
<1>17. ASSUME TimeOut PROVE Typed'
  <2>1. TypeOK'
    BY <1>17, <1>a DEF TimeOut, queues, TypeOK
  <2>2. Shape'
    BY <1>17, <1>b, <1>e DEF TimeOut, queues, Shape
  <2> QED BY <2>1, <2>2 DEF Typed
<1>18. ASSUME Resume PROVE Typed'
  <2>1. runData' \in [Nodes -> Seq(Run)]
    <3>1. <<>> \in Seq(Run) /\ runData' = [runData EXCEPT ![entry.node] = <<>>]
      BY <1>18 DEF Resume
    <3> QED BY ONLY <1>a, <1>c, <3>1
  <2>2. pauses' \in 0..MaxPauses /\ runs' \in 0..MaxNodeRuns
    BY <1>0, <1>18, <1>a DEF Resume
  <2>4. stack' \in Seq(Entry) /\ waiting' \in Seq(Entry) /\ ready' \in Seq(Entry)
    BY <1>18, <1>a DEF Resume
  <2>5. TypeOK'
    BY <1>18, <1>a, <2>1, <2>2, <2>4 DEF Resume, TypeOK
  <2>3. Shape'
    BY <1>18, <1>f DEF Resume, Shape
  <2> QED BY <2>5, <2>3 DEF Typed
<1>19. ASSUME UNCHANGED vars PROVE Typed'
  <2>1. TypeOK'
    BY <1>19, <1>a DEF vars, queues, TypeOK
  <2>2. Shape'
    BY <1>19, <1>b, <1>e DEF vars, queues, Shape
  <2> QED BY <2>1, <2>2 DEF Typed
<1> QED
  BY <1>1, <1>2, <1>3, <1>4, <1>5, <1>7, <1>8, <1>9, <1>10, <1>11, <1>12, <1>13, <1>14, <1>15,
     <1>16, <1>17, <1>18, <1>19 DEF Next, Step

\* Every variable keeps its type, whatever the workflow.
THEOREM TypeCorrect == Spec => []TypeOK
<1>1. Typed => TypeOK
  BY DEF Typed
<1> QED BY <1>1, TypedInit, TypedNext, PTL DEF Spec

-----------------------------------------------------------------------------
(* A cancellation is heeded.                                               *)

\* Nothing is popped once a cancellation is flagged, so that the node that is
\* about to run, or runs, is the only one that may still end.
HeedInv ==
  /\ cancel # "notified" => ranOn = 0
  /\ pc \in {"before", "running"} => ranOn = 0
  /\ ranOn <= 1

LEMMA HeedNext == Typed /\ HeedInv /\ [Next]_vars => HeedInv'
<1> SUFFICES ASSUME Typed, HeedInv, [Next]_vars PROVE HeedInv'
  OBVIOUS
<1>a. /\ cancel # "notified" => ranOn = 0
      /\ pc \in {"before", "running"} => ranOn = 0
      /\ ranOn <= 1 /\ ranOn \in Nat
  BY DEF HeedInv, Typed, TypeOK
<1>1. ASSUME NEW x, NEW outs, Record(x, outs, x.source), ranOn = 0, cancel' = cancel
      PROVE  HeedInv'
  <2>1. pc' \in {"end", "deliver"} /\ ranOn' = IF cancel = "notified" THEN ranOn + 1 ELSE ranOn
    BY <1>1 DEF Record, Ends
  <2> QED BY <1>1, <2>1 DEF HeedInv
<1>2. ASSUME Pop PROVE HeedInv'
  <2> DEFINE x == IF stack = <<>> THEN Head(waiting) ELSE Head(stack)
             outs == IF AtHand(x) THEN {0} ELSE {}
  <2>1. /\ cancel = "no" /\ cancel' = cancel
        /\ \/ Record(x, outs, x.source)
           \/ pc' = "before" /\ ranOn' = ranOn
    BY <1>2 DEF Pop, PopFrom, AtTop
  <2>2. ranOn = 0
    BY <1>a, <2>1
  <2> HIDE DEF x, outs
  <2> QED BY <1>1, <2>1, <2>2 DEF HeedInv
<1>3. ASSUME NEW outs, Complete(outs) PROVE HeedInv'
  BY <1>1, <1>3, <1>a DEF Complete
<1>4. ASSUME FailOn PROVE HeedInv'
  BY <1>1, <1>4, <1>a DEF FailOn
<1>5. CASE SeeCancel \/ NothingLeft \/ TooManyRuns \/ Fail \/ Pause \/ Abort
  BY <1>5, <1>a DEF HeedInv, SeeCancel, NothingLeft, TooManyRuns, Fail, Pause, Abort, AtTop, Ends
<1>6. CASE Begin \/ Retry \/ Deliver \/ Schedule
  BY <1>6, <1>a DEF HeedInv, Begin, Retry, Deliver, Schedule
<1>7. CASE Cancel \/ Notify \/ TimeOut \/ Resume
  BY <1>7, <1>a DEF HeedInv, Cancel, Notify, TimeOut, Resume
<1>8. CASE UNCHANGED vars
  BY <1>8, <1>a DEF HeedInv, vars
<1> QED BY <1>2, <1>3, <1>4, <1>5, <1>6, <1>7, <1>8 DEF Next, Step

\* A cancellation that falls between the look at the flag and the creation of
\* notified() is not lost: at most one node ends after cancel() has returned.
THEOREM HeedsCancel == Spec => []CancelHeeded
<1>1. Init => HeedInv
  BY DEF Init, HeedInv
<1>2. HeedInv => CancelHeeded
  BY DEF HeedInv, CancelHeeded
<1> QED BY <1>1, <1>2, TypedInit, TypedNext, HeedNext, PTL DEF Spec

-----------------------------------------------------------------------------
(* Nothing is lost or doubled on its way to the children.                  *)

\* What a run of a node put on the output of an edge.
BatchOf(f, r) == [node |-> f.from, output |-> f.output, run |-> r]

HeldFor(f, r) == Held(f.to, f.input + 1, BatchOf(f, r))

\* The places it may be in: the entry being run, the edges to be served, the
\* recorded runs.
Hand(f, r) == IF pc \in {"before", "running"} /\ entry \in HeldFor(f, r) THEN 1 ELSE 0

Carried(f, r) == Cardinality({i \in todo : wf.edges[i] = f /\ r = Len(runData[f.from])})

Ran(f, r) == Count(runData[f.to], Kept(f.input + 1, BatchOf(f, r)))

\* In how many of them it has to be.
Owed(f, r) ==
  IF r \in DOMAIN runData[f.from] /\ f.output \in runData[f.from][r].outs THEN Copies(f) ELSE 0

Balance(f, r) ==
  Count(stack, HeldFor(f, r)) + Count(waiting, HeldFor(f, r)) + Count(ready, HeldFor(f, r))
    + Hand(f, r) + Carried(f, r) + Ran(f, r) = Owed(f, r)

Balanced ==
  status \in {"running", "success"} /\ pauses = 0 =>
    \A f \in Edges : f.from # wf.destination => \A r \in Nat : Balance(f, r)

LEMMA BalanceTypes ==
  ASSUME Typed, NEW f \in Edges, NEW r \in Nat
  PROVE  /\ Count(stack, HeldFor(f, r)) \in Nat /\ Count(waiting, HeldFor(f, r)) \in Nat
         /\ Count(ready, HeldFor(f, r)) \in Nat
         /\ Hand(f, r) \in Nat /\ Carried(f, r) \in Nat /\ Ran(f, r) \in Nat /\ Owed(f, r) \in Nat
         /\ Copies(f) \in Nat \ {0}
<1>1. /\ wf \in Workflows /\ stack \in Seq(Entry) /\ waiting \in Seq(Entry) /\ ready \in Seq(Entry)
      /\ runData \in [Nodes -> Seq(Run)] /\ todo \subseteq DOMAIN wf.edges
  BY DEF Typed, TypeOK
<1>2. f \in Edge /\ f.to \in Nodes /\ IsFiniteSet(DOMAIN wf.edges)
      /\ \E i \in DOMAIN wf.edges : wf.edges[i] = f
  BY <1>1, WorkflowFacts, UpTo DEF Edge
<1>3. Count(stack, HeldFor(f, r)) \in Nat /\ Count(waiting, HeldFor(f, r)) \in Nat
      /\ Count(ready, HeldFor(f, r)) \in Nat
  BY <1>1, CountType
<1>4. Ran(f, r) \in Nat
  <2>1. runData[f.to] \in Seq(Run)
    BY <1>1, <1>2
  <2> QED BY <2>1, CountType DEF Ran
<1>5. Carried(f, r) \in Nat
  <2>1. IsFiniteSet({i \in todo : wf.edges[i] = f /\ r = Len(runData[f.from])})
    BY <1>1, <1>2, FS_Subset
  <2> QED BY <2>1, FS_CardinalityType DEF Carried
<1>6. Copies(f) \in Nat \ {0}
  <2> DEFINE C == {i \in DOMAIN wf.edges : wf.edges[i] = f}
  <2>1. IsFiniteSet(C) /\ C # {}
    BY <1>2, FS_Subset
  <2> HIDE DEF C
  <2>2. Cardinality(C) \in Nat \ {0}
    BY <2>1, FS_CardinalityType, FS_EmptySet
  <2> QED BY <2>2 DEF Copies, C
<1>7. Hand(f, r) \in Nat /\ Owed(f, r) \in Nat
  BY <1>6 DEF Hand, Owed
<1> QED BY <1>3, <1>4, <1>5, <1>6, <1>7

\* A run that is recorded moves what its entry held to the recorded runs, and
\* what it put on its outputs to the edges to be served.
LEMMA RecordBalance ==
  ASSUME Typed, todo = {}, pauses = 0, wf' = wf, NEW x \in Entry, NEW outs \in SUBSET Nat,
         runs' \in 1..MaxNodeRuns, Record(x, outs, x.source),
         NEW f \in Edges, f.from # wf.destination, NEW r \in Nat
  PROVE  /\ Hand(f, r)' = 0 /\ Carried(f, r) = 0
         /\ Ran(f, r)' = Ran(f, r) + IF x \in HeldFor(f, r) THEN 1 ELSE 0
         /\ Carried(f, r)' + Owed(f, r) = Owed(f, r)'
<1> DEFINE u == [source |-> x.source, outs |-> outs, index |-> runs' - 1]
<1>1. /\ u \in Run /\ u.source = x.source /\ u.outs = outs
      /\ runData' = [runData EXCEPT ![x.node] = Append(runData[x.node], u)]
  BY RecordEffect DEF Typed, Record
<1> HIDE DEF u
<1>2. \/ /\ x.node = wf.destination /\ pc' = "end" /\ todo' = todo
      \/ /\ pc' = "deliver"
         /\ todo' = {i \in DOMAIN wf.edges :
                       wf.edges[i].from = x.node /\ wf.edges[i].output \in outs}
  BY RecordEffect DEF Typed
<1>3. /\ wf \in Workflows /\ runData \in [Nodes -> Seq(Run)] /\ x.node \in Nodes
      /\ f \in Edge /\ f.from \in Nodes /\ f.to \in Nodes
  BY WorkflowFacts DEF Typed, TypeOK, Entry, Edge
<1>4. Hand(f, r)' = 0
  BY <1>2 DEF Hand
<1>5. Carried(f, r) = 0
  BY FS_EmptySet DEF Carried
<1>6. Ran(f, r)' = Ran(f, r) + IF x \in HeldFor(f, r) THEN 1 ELSE 0
  <2> DEFINE K == Kept(f.input + 1, BatchOf(f, r))
  <2>1. runData[f.to] \in Seq(Run)
    BY <1>3
  <2>2. Ran(f, r) = Count(runData[f.to], K) /\ Ran(f, r)' = Count(runData'[f.to], K)
        /\ Count(runData[f.to], K) \in Nat
    BY <2>1, CountType DEF Ran
  <2>3. CASE f.to = x.node
    <3>1. runData'[f.to] = Append(runData[f.to], u)
      BY <1>1, <1>3, <2>3
    <3>2. u \in K <=> x \in HeldFor(f, r)
      BY <1>1, <2>3 DEF Kept, HeldFor, Held, EntryHas
    <3> HIDE DEF K
    <3>3. Count(Append(runData[f.to], u), K) = Count(runData[f.to], K) + IF u \in K THEN 1 ELSE 0
      BY <1>1, <2>1, CountAppend
    <3> QED BY ONLY <2>2, <3>1, <3>2, <3>3
  <2>4. CASE f.to # x.node
    <3>1. runData'[f.to] = runData[f.to]
      BY <1>1, <1>3, <2>4
    <3>2. x \notin HeldFor(f, r)
      BY <2>4 DEF HeldFor, Held, EntryHas
    <3> HIDE DEF K
    <3> QED BY ONLY <2>2, <3>1, <3>2
  <2> QED BY <2>3, <2>4
<1>7. Carried(f, r)' + Owed(f, r) = Owed(f, r)'
  <2> DEFINE D == runData[f.from]
             D1 == runData'[f.from]
             C == {i \in todo' : wf.edges[i] = f /\ r = Len(D1)}
  <2>1. Carried(f, r)' = Cardinality(C)
    BY DEF Carried
  <2>2. Owed(f, r) = (IF r \in DOMAIN D /\ f.output \in D[r].outs THEN Copies(f) ELSE 0)
        /\ Owed(f, r)' = IF r \in DOMAIN D1 /\ f.output \in D1[r].outs THEN Copies(f) ELSE 0
    BY DEF Owed, Copies
  <2>3. Copies(f) \in Nat
    BY BalanceTypes
  <2>4. CASE f.from # x.node
    <3>1. D1 = D
      BY <1>1, <1>3, <2>4
    <3>2. C = {}
      BY <1>2, <2>4
    <3>3. Cardinality(C) = 0
      BY <3>2, FS_EmptySet
    <3> HIDE DEF C, D, D1
    <3> QED BY ONLY <2>1, <2>2, <2>3, <3>1, <3>3
  <2>5. CASE f.from = x.node
    <3>1. todo' = {i \in DOMAIN wf.edges :
                     wf.edges[i].from = x.node /\ wf.edges[i].output \in outs}
      BY <1>2, <2>5
    <3>2. D1 = Append(D, u) /\ D \in Seq(Run)
      BY <1>1, <1>3, <2>5
    <3>3. /\ Len(D) \in Nat /\ DOMAIN D = 1..Len(D) /\ Len(D1) = Len(D) + 1 /\ DOMAIN D1 = 1 .. Len(D) + 1
          /\ \A k \in 1..Len(D) : D1[k] = D[k]
          /\ D1[Len(D) + 1] = u
      <4>1. Len(D) \in Nat /\ DOMAIN D = 1..Len(D)
        BY <3>2, LenProperties
      <4>2. D1 \in Seq(Run) /\ Len(D1) = Len(D) + 1 /\ (\A k \in 1..Len(D) : D1[k] = D[k])
            /\ D1[Len(D) + 1] = u
        BY <1>1, <3>2, AppendProperties
      <4>3. DOMAIN D1 = 1..Len(D1)
        BY <4>2, LenProperties
      <4> QED BY <4>1, <4>2, <4>3
    <3>4. CASE r = Len(D) + 1 /\ f.output \in outs
      <4>1. C = {i \in DOMAIN wf.edges : wf.edges[i] = f}
        BY <2>5, <3>1, <3>3, <3>4
      <4>2. Cardinality(C) = Copies(f)
        BY <4>1 DEF Copies
      <4>3. Owed(f, r) = 0 /\ Owed(f, r)' = Copies(f)
        BY <1>1, <2>2, <3>3, <3>4
      <4> QED BY ONLY <2>1, <2>3, <4>2, <4>3
    <3>5. CASE r = Len(D) + 1 /\ f.output \notin outs
      <4>1. C = {}
        BY <3>1, <3>5
      <4>2. Cardinality(C) = 0
        BY <4>1, FS_EmptySet
      <4>3. Owed(f, r) = 0 /\ Owed(f, r)' = 0
        BY <1>1, <2>2, <3>3, <3>5
      <4> QED BY ONLY <2>1, <4>2, <4>3
    <3>6. CASE r # Len(D) + 1
      <4>1. C = {}
        BY <3>3, <3>6
      <4>2. Cardinality(C) = 0
        BY <4>1, FS_EmptySet
      <4>3. r \in DOMAIN D1 <=> r \in DOMAIN D
        BY <3>3, <3>6
      <4>4. r \in DOMAIN D => D1[r] = D[r]
        BY <3>3
      <4> HIDE DEF C, D, D1
      <4>5. Owed(f, r) = Owed(f, r)'
        BY ONLY <2>2, <4>3, <4>4
      <4>6. Owed(f, r) \in Nat
        BY <2>2, <2>3
      <4> QED BY ONLY <2>1, <4>2, <4>5, <4>6
    <3> QED BY <3>4, <3>5, <3>6
  <2> QED BY <2>4, <2>5
<1> QED BY <1>4, <1>5, <1>6, <1>7

\* Serving an edge moves its batch from the edge to an entry of the child.
LEMMA DeliverBalance ==
  ASSUME Typed, Deliver, NEW f \in Edges, NEW r \in Nat
  PROVE  /\ Hand(f, r)' = Hand(f, r) /\ Ran(f, r)' = Ran(f, r) /\ Owed(f, r)' = Owed(f, r)
         /\ Count(waiting', HeldFor(f, r)) + Count(ready', HeldFor(f, r)) + Carried(f, r)'
              = Count(waiting, HeldFor(f, r)) + Count(ready, HeldFor(f, r)) + Carried(f, r)
<1> DEFINE i == Min(todo)
           t == wf.edges[i]
           b == [node |-> t.from, output |-> t.output, run |-> Len(runData[t.from])]
           y == [node |-> t.to, source |-> <<b>>]
           c == BatchOf(f, r)
           S == HeldFor(f, r)
           gain == IF f = t /\ r = Len(runData[t.from]) THEN 1 ELSE 0
<1>1. /\ i \in todo /\ i \in DOMAIN wf.edges /\ t \in Edge
      /\ b \in Batch /\ t.to \in Nodes /\ t.input + 1 \in 1..ConnectedInputs(t.to)
      /\ y \in Entry
  BY NextEdge DEF Deliver
<1>2. /\ pc = "deliver" /\ todo' = todo \ {i}
      /\ \/ ConnectedInputs(t.to) <= 1 /\ MakeReady(y) /\ waiting' = waiting
         \/ FillWaiting(t.to, t.input + 1, b)
      /\ UNCHANGED <<wf, stack, runData, pc, entry, attempt, runs, status, given, late, cancel,
                     heard, ranOn, pauses>>
  BY DEF Deliver
<1>b. b = [node |-> t.from, output |-> t.output, run |-> Len(runData[t.from])]
  OBVIOUS
<1>y. y = [node |-> t.to, source |-> <<b>>]
  OBVIOUS
<1> HIDE DEF i, t, b, y
<1>3. /\ f \in [from : Nodes, output : Nat, to : Nodes, input : Nat]
      /\ t \in [from : Nodes, output : Nat, to : Nodes, input : Nat]
  BY <1>1, WorkflowFacts DEF Typed, TypeOK, Edge
<1>4. c \in Batch
  BY <1>3 DEF Batch, BatchOf
<1>5. f.to = t.to /\ f.input + 1 = t.input + 1 /\ c = b <=> f = t /\ r = Len(runData[t.from])
  <2>1. c = b <=> f.from = t.from /\ f.output = t.output /\ r = Len(runData[t.from])
    BY <1>b DEF BatchOf
  <2>2. f = t <=> f.from = t.from /\ f.output = t.output /\ f.to = t.to /\ f.input = t.input
    BY ONLY <1>3
  <2>3. f.input \in Nat /\ t.input \in Nat
    BY ONLY <1>3
  <2>4. f.input + 1 = t.input + 1 <=> f.input = t.input
    BY ONLY <2>3
  <2> QED BY ONLY <2>1, <2>2, <2>4
<1>6. Hand(f, r)' = Hand(f, r) /\ Ran(f, r)' = Ran(f, r) /\ Owed(f, r)' = Owed(f, r)
  BY <1>2 DEF Hand, Ran, Owed, Copies
<1>7. Count(waiting', S) + Count(ready', S) = Count(waiting, S) + Count(ready, S) + gain
  <2>1. CASE ConnectedInputs(t.to) <= 1 /\ MakeReady(y) /\ waiting' = waiting
    <3>1. Count(ready', S) = Count(ready, S) + IF y \in S THEN 1 ELSE 0
      BY <1>1, <2>1, MakeReadyEffect DEF Typed
    <3>2. t.input + 1 = 1
      <4>1. ConnectedInputs(t.to) \in Nat /\ t.input \in Nat
        BY <1>3, InputsOf DEF Typed, TypeOK
      <4> QED BY ONLY <1>1, <2>1, <4>1
    <3>3. y \in S <=> f.to = t.to /\ f.input + 1 = 1 /\ c = b
      <4>1. y.node = t.to /\ y.source = <<b>> /\ DOMAIN y.source = {1} /\ y.source[1] = b
        BY <1>y
      <4> QED BY <1>1, <4>1 DEF HeldFor, Held, EntryHas
    <3>4. y \in S <=> f = t /\ r = Len(runData[t.from])
      BY ONLY <1>5, <3>2, <3>3
    <3>5. Count(waiting, S) \in Nat /\ Count(ready, S) \in Nat
      BY BalanceTypes
    <3>6. Count(waiting', S) = Count(waiting, S)
      BY <2>1
    <3> HIDE DEF S
    <3> QED BY ONLY <3>1, <3>4, <3>5, <3>6
  <2>2. CASE FillWaiting(t.to, t.input + 1, b)
    <3>1. waiting \in Seq(Whole) /\ TypeOK
      BY DEF Typed, Shape
    <3>2. \A m, s : \A d \in Batch :
            Count(waiting', Held(m, s, d)) + Count(ready', Held(m, s, d))
              = Count(waiting, Held(m, s, d)) + Count(ready, Held(m, s, d))
                + IF m = t.to /\ s = t.input + 1 /\ d = b THEN 1 ELSE 0
      BY <1>1, <2>2, <3>1, FillEffect
    <3>3. Count(waiting', S) + Count(ready', S)
            = Count(waiting, S) + Count(ready, S)
              + IF f.to = t.to /\ f.input + 1 = t.input + 1 /\ c = b THEN 1 ELSE 0
      BY <1>4, <3>2 DEF HeldFor
    <3> QED BY ONLY <1>5, <3>3
  <2> QED BY <1>2, <2>1, <2>2
<1>8. Carried(f, r) = Carried(f, r)' + gain
  <2> DEFINE C == {k \in todo : wf.edges[k] = f /\ r = Len(runData[f.from])}
             C1 == {k \in todo \ {i} : wf.edges[k] = f /\ r = Len(runData[f.from])}
  <2>1. Carried(f, r) = Cardinality(C) /\ Carried(f, r)' = Cardinality(C1)
    BY <1>2 DEF Carried
  <2>2. IsFiniteSet(C) /\ IsFiniteSet(C1)
    <3>1. IsFiniteSet(DOMAIN wf.edges)
      BY WorkflowFacts, UpTo DEF Typed, TypeOK
    <3>2. C \subseteq DOMAIN wf.edges /\ C1 \subseteq DOMAIN wf.edges
      BY DEF Typed, TypeOK
    <3> QED BY <3>1, <3>2, FS_Subset
  <2>3. CASE f = t /\ r = Len(runData[t.from])
    <3>1. C = C1 \cup {i} /\ i \notin C1
      BY <1>1, <2>3 DEF t
    <3> HIDE DEF C, C1
    <3>2. Cardinality(C1 \cup {i}) = Cardinality(C1) + 1
      BY <2>2, <3>1, FS_AddElement
    <3> QED BY <2>1, <2>3, <3>1, <3>2
  <2>4. CASE ~(f = t /\ r = Len(runData[t.from]))
    <3>1. C = C1
      BY <1>1, <2>4 DEF t
    <3>2. Cardinality(C1) \in Nat
      BY <2>2, FS_CardinalityType
    <3> HIDE DEF C, C1
    <3> QED BY ONLY <2>1, <2>4, <3>1, <3>2
  <2> QED BY <2>3, <2>4
<1>9. Carried(f, r)' \in Nat /\ gain \in Nat
  <2>1. IsFiniteSet(DOMAIN wf.edges)
    BY WorkflowFacts, UpTo DEF Typed, TypeOK
  <2>2. {k \in todo \ {i} : wf.edges[k] = f /\ r = Len(runData[f.from])} \in SUBSET DOMAIN wf.edges
    BY DEF Typed, TypeOK
  <2>3. IsFiniteSet({k \in todo \ {i} : wf.edges[k] = f /\ r = Len(runData[f.from])})
    BY <2>1, <2>2, FS_Subset
  <2> QED BY <1>2, <2>3, FS_CardinalityType DEF Carried
<1>10. /\ Count(waiting, S) \in Nat /\ Count(ready, S) \in Nat
       /\ Count(waiting', S) \in Nat /\ Count(ready', S) \in Nat
  <2>1. waiting' \in Seq(Entry) /\ ready' \in Seq(Entry)
    <3>1. Typed'
      BY TypedNext DEF Next, Step
    <3> QED BY <3>1 DEF Typed, TypeOK
  <2> QED BY <2>1, CountType, BalanceTypes
<1> HIDE DEF S, gain
<1>11. Count(waiting', S) + Count(ready', S) + Carried(f, r)'
         = Count(waiting, S) + Count(ready, S) + Carried(f, r)
  BY ONLY <1>7, <1>8, <1>9, <1>10
<1> QED BY <1>6, <1>11 DEF S

LEMMA BalancedInit == Init => Balanced
<1> SUFFICES ASSUME Init, NEW f \in Edges, NEW r \in Nat PROVE Balance(f, r)
  BY DEF Balanced
<1>1. Typed
  BY TypedInit
<1>2. f.from \in Nodes /\ f.to \in Nodes
  BY <1>1, WorkflowFacts DEF Typed, TypeOK, Edge
<1>3. /\ stack = <<StartEntry>> /\ waiting = <<>> /\ ready = <<>> /\ todo = {} /\ pc = "top"
      /\ runData[f.from] = <<>> /\ runData[f.to] = <<>>
  BY <1>2 DEF Init
<1>4. StartEntry \notin HeldFor(f, r)
  BY DEF StartEntry, HeldFor, Held, EntryHas
<1>5. Count(stack, HeldFor(f, r)) = 0
  BY <1>3, <1>4, CountOne
<1>6. Count(waiting, HeldFor(f, r)) = 0 /\ Count(ready, HeldFor(f, r)) = 0 /\ Ran(f, r) = 0
  BY <1>3, CountEmpty DEF Ran
<1>7. Carried(f, r) = 0
  BY <1>3, FS_EmptySet DEF Carried
<1>8. Hand(f, r) = 0 /\ Owed(f, r) = 0
  BY <1>3 DEF Hand, Owed
<1> QED BY ONLY <1>5, <1>6, <1>7, <1>8 DEF Balance

LEMMA BalancedNext == Typed /\ Balanced /\ [Next]_vars => Balanced'
<1> SUFFICES ASSUME Typed, Balanced, [Next]_vars,
                    status' \in {"running", "success"}, pauses' = 0,
                    NEW f \in Edges', f.from # wf'.destination, NEW r \in Nat
             PROVE  Balance(f, r)'
  BY DEF Balanced
<1> DEFINE S == HeldFor(f, r)
<1>1. wf' = wf
  BY DEF Next, Step, vars, queues, SeeCancel, NothingLeft, TooManyRuns, Pop, PopFrom, Begin,
         Complete, Retry, FailOn, Fail, Pause, Abort, Deliver, Schedule, Cancel, Notify, TimeOut,
         Resume
<1>2. f \in Edges /\ f.from # wf.destination
  BY <1>1 DEF Edges
<1>3. /\ Count(stack, S) \in Nat /\ Count(waiting, S) \in Nat /\ Count(ready, S) \in Nat
      /\ Hand(f, r) \in Nat /\ Carried(f, r) \in Nat /\ Ran(f, r) \in Nat /\ Owed(f, r) \in Nat
  BY <1>2, BalanceTypes
<1>4. ASSUME status \in {"running", "success"}, pauses = 0
      PROVE  Count(stack, S) + Count(waiting, S) + Count(ready, S)
               + Hand(f, r) + Carried(f, r) + Ran(f, r) = Owed(f, r)
  BY <1>2, <1>4 DEF Balanced, Balance
<1>5. /\ stack \in Seq(Entry) /\ waiting \in Seq(Entry) /\ ready \in Seq(Entry) /\ entry \in Entry
      /\ wf \in Workflows /\ pauses \in Nat
      /\ status = "running" <=> pc # "end"
      /\ pc # "deliver" => todo = {} /\ ready = <<>>
      /\ pc \in {"before", "running", "deliver"} => runs >= 1
      /\ runs \in 0..MaxNodeRuns /\ MaxNodeRuns \in Nat
  BY BoundsAssumption DEF Typed, TypeOK, Shape
<1>6. ASSUME UNCHANGED <<stack, waiting, ready, todo, runData>>, Hand(f, r)' = Hand(f, r),
             status \in {"running", "success"}, pauses = 0
      PROVE  Balance(f, r)'
  <2>1. Carried(f, r)' = Carried(f, r) /\ Ran(f, r)' = Ran(f, r) /\ Owed(f, r)' = Owed(f, r)
    BY <1>1, <1>6 DEF Carried, Ran, Owed, Copies
  <2>2. Count(stack', S) = Count(stack, S) /\ Count(waiting', S) = Count(waiting, S)
        /\ Count(ready', S) = Count(ready, S)
    BY <1>6
  <2> QED BY <1>4, <1>6, <2>1, <2>2 DEF Balance
<1>7. CASE SeeCancel \/ TooManyRuns \/ Fail \/ Pause \/ Abort
  BY <1>7 DEF SeeCancel, TooManyRuns, Fail, Pause, Abort, Ends
<1>8. CASE NothingLeft
  <2>1. Hand(f, r)' = Hand(f, r) /\ status = "running"
    BY <1>5, <1>8 DEF NothingLeft, AtTop, Ends, Hand
  <2> QED BY <1>6, <1>8, <2>1 DEF NothingLeft, queues
<1>9. CASE Begin
  <2>1. Hand(f, r)' = Hand(f, r) /\ status = "running"
    BY <1>5, <1>9 DEF Begin, Hand
  <2> QED BY <1>6, <1>9, <2>1 DEF Begin, queues
<1>10. CASE Retry \/ Cancel \/ Notify \/ TimeOut \/ UNCHANGED vars
  <2>1. UNCHANGED <<stack, waiting, ready, todo, runData, pc, entry, status, pauses>>
    BY <1>10 DEF Retry, Cancel, Notify, TimeOut, vars, queues
  <2>2. Hand(f, r)' = Hand(f, r)
    BY <2>1 DEF Hand
  <2> QED BY <1>6, <2>1, <2>2
<1>11. CASE Resume
  BY <1>5, <1>11 DEF Resume
<1>12. CASE Pop
  <2> DEFINE x == IF stack = <<>> THEN Head(waiting) ELSE Head(stack)
             outs == IF AtHand(x) THEN {0} ELSE {}
  <2>1. /\ stack # <<>> \/ waiting # <<>>
        /\ runs' = runs + 1 /\ runs < MaxNodeRuns
        /\ entry' = x /\ pc = "top" /\ pauses = 0
        /\ \/ stack = <<>> /\ waiting' = Tail(waiting) /\ stack' = stack
           \/ stack # <<>> /\ stack' = Tail(stack) /\ waiting' = waiting
        /\ \/ Record(x, outs, x.source)
           \/ pc' = "before" /\ runData' = runData /\ todo' = todo
        /\ ready' = ready
    BY <1>12 DEF Pop, PopFrom, AtTop
  <2>2. x \in Entry
    BY <1>5, <2>1, HeadTailProperties
  <2>3. Count(stack, S) + Count(waiting, S)
          = Count(stack', S) + Count(waiting', S) + (IF x \in S THEN 1 ELSE 0)
        /\ Count(stack', S) \in Nat /\ Count(waiting', S) \in Nat
    <3>1. CASE stack = <<>> /\ waiting' = Tail(waiting) /\ stack' = stack
      <4>1. x = Head(waiting) /\ waiting # <<>>
        BY <2>1, <3>1
      <4>2. Count(waiting, S) = Count(Tail(waiting), S) + IF Head(waiting) \in S THEN 1 ELSE 0
        BY <1>5, <4>1, CountTail
      <4>3. Count(Tail(waiting), S) \in Nat
        BY <1>5, <4>1, HeadTailProperties, CountType
      <4>4. Count(stack', S) = Count(stack, S)
        BY <3>1
      <4> HIDE DEF S, x
      <4> QED BY <1>3, <3>1, <4>1, <4>2, <4>3, <4>4
    <3>2. CASE stack # <<>> /\ stack' = Tail(stack) /\ waiting' = waiting
      <4>1. x = Head(stack)
        BY <2>1, <3>2
      <4>2. Count(stack, S) = Count(Tail(stack), S) + IF Head(stack) \in S THEN 1 ELSE 0
        BY <1>5, <3>2, CountTail
      <4>3. Count(Tail(stack), S) \in Nat
        BY <1>5, <3>2, HeadTailProperties, CountType
      <4>4. Count(waiting', S) = Count(waiting, S)
        BY <3>2
      <4> HIDE DEF S, x
      <4> QED BY <1>3, <3>2, <4>1, <4>2, <4>3, <4>4
    <3> QED BY <2>1, <3>1, <3>2
  <2>4. Count(ready', S) = Count(ready, S)
    BY <2>1
  <2>5. Hand(f, r) = 0 /\ status = "running" /\ todo = {} /\ outs \in SUBSET Nat
        /\ runs' \in 1..MaxNodeRuns
    BY <1>5, <2>1 DEF Hand
  <2>6. Count(stack, S) + Count(waiting, S) + Count(ready, S)
          + Hand(f, r) + Carried(f, r) + Ran(f, r) = Owed(f, r)
    BY <1>4, <2>1, <2>5
  <2> HIDE DEF outs
  <2>7. CASE Record(x, outs, x.source)
    <3>1. /\ Hand(f, r)' = 0 /\ Carried(f, r) = 0
          /\ Ran(f, r)' = Ran(f, r) + IF x \in S THEN 1 ELSE 0
          /\ Carried(f, r)' + Owed(f, r) = Owed(f, r)'
      BY <1>1, <1>2, <2>1, <2>2, <2>5, <2>7, RecordBalance
    <3>2. Carried(f, r)' \in Nat
      <4>1. Typed' /\ f \in Edges'
        BY TypedNext
      <4>2. IsFiniteSet(todo')
        <5>1. IsFiniteSet(DOMAIN wf'.edges)
          BY <1>1, <1>5, WorkflowFacts, UpTo
        <5>2. todo' \subseteq DOMAIN wf'.edges
          BY <4>1 DEF Typed, TypeOK
        <5> QED BY <5>1, <5>2, FS_Subset
      <4>3. IsFiniteSet({i \in todo' : wf'.edges[i] = f /\ r = Len(runData'[f.from])})
        BY <4>2, FS_Subset
      <4> QED BY <4>3, FS_CardinalityType DEF Carried
    <3> HIDE DEF S, x
    <3>3. Count(stack', S) + Count(waiting', S) + Count(ready', S)
            + Hand(f, r)' + Carried(f, r)' + Ran(f, r)' = Owed(f, r)'
      BY ONLY <1>3, <2>3, <2>4, <2>5, <2>6, <3>1, <3>2
    <3> QED BY <3>3 DEF Balance, S
  <2>8. CASE pc' = "before" /\ runData' = runData /\ todo' = todo
    <3>1. Hand(f, r)' = IF x \in S THEN 1 ELSE 0
      BY <2>1, <2>8 DEF Hand
    <3>2. Carried(f, r)' = Carried(f, r) /\ Ran(f, r)' = Ran(f, r) /\ Owed(f, r)' = Owed(f, r)
      BY <1>1, <2>8 DEF Carried, Ran, Owed, Copies
    <3> HIDE DEF S, x
    <3>3. Count(stack', S) + Count(waiting', S) + Count(ready', S)
            + Hand(f, r)' + Carried(f, r)' + Ran(f, r)' = Owed(f, r)'
      BY ONLY <1>3, <2>3, <2>4, <2>5, <2>6, <3>1, <3>2
    <3> QED BY <3>3 DEF Balance, S
  <2> QED BY <2>1, <2>7, <2>8
<1>13. ASSUME NEW outs \in SUBSET Nat, pc = "running", UNCHANGED runs,
              Record(entry, outs, entry.source), UNCHANGED <<stack, waiting, ready, pauses>>
       PROVE  Balance(f, r)'
  <2>1. Hand(f, r) = (IF entry \in S THEN 1 ELSE 0) /\ status = "running" /\ todo = {} /\ pauses = 0
        /\ runs' \in 1..MaxNodeRuns
    BY <1>5, <1>13 DEF Hand
  <2>2. Count(stack, S) + Count(waiting, S) + Count(ready, S)
          + Hand(f, r) + Carried(f, r) + Ran(f, r) = Owed(f, r)
    BY <1>4, <2>1
  <2>3. /\ Hand(f, r)' = 0 /\ Carried(f, r) = 0
        /\ Ran(f, r)' = Ran(f, r) + IF entry \in S THEN 1 ELSE 0
        /\ Carried(f, r)' + Owed(f, r) = Owed(f, r)'
    BY <1>1, <1>2, <1>5, <1>13, <2>1, RecordBalance
  <2>4. Carried(f, r)' \in Nat
    <3>1. IsFiniteSet(DOMAIN wf'.edges)
      BY <1>1, <1>5, WorkflowFacts, UpTo
    <3>2. todo' \subseteq DOMAIN wf'.edges
      <4>1. Typed'
        BY TypedNext
      <4> QED BY <4>1 DEF Typed, TypeOK
    <3>3. IsFiniteSet({i \in todo' : wf'.edges[i] = f /\ r = Len(runData'[f.from])})
      BY <3>1, <3>2, FS_Subset
    <3> QED BY <3>3, FS_CardinalityType DEF Carried
  <2>5. Count(stack', S) = Count(stack, S) /\ Count(waiting', S) = Count(waiting, S)
        /\ Count(ready', S) = Count(ready, S)
    BY <1>13
  <2> HIDE DEF S
  <2>6. Count(stack', S) + Count(waiting', S) + Count(ready', S)
          + Hand(f, r)' + Carried(f, r)' + Ran(f, r)' = Owed(f, r)'
    BY ONLY <1>3, <2>1, <2>2, <2>3, <2>4, <2>5
  <2> QED BY <2>6 DEF Balance, S
<1>c. entry.node \in Nodes
  BY <1>5 DEF Entry
<1>14. ASSUME NEW outs \in SUBSET Outputs(entry.node), Complete(outs) PROVE Balance(f, r)'
  <2>1. (IF entry.node \in wf.always /\ outs = {} THEN {0} ELSE outs) \in SUBSET Nat
    BY <1>5, <1>c, OutputsAreNat
  <2> QED BY <1>13, <1>14, <2>1 DEF Complete
<1>15. CASE FailOn
  <2>1. (IF wf.onError[entry.node] = "output" THEN {wf.outputs[entry.node]} ELSE {0}) \in SUBSET Nat
    BY <1>5, <1>c, OutputsAreNat
  <2> QED BY <1>13, <1>15, <2>1 DEF FailOn
<1>16. CASE Deliver
  <2>1. /\ Hand(f, r)' = Hand(f, r) /\ Ran(f, r)' = Ran(f, r) /\ Owed(f, r)' = Owed(f, r)
        /\ Count(waiting', S) + Count(ready', S) + Carried(f, r)'
             = Count(waiting, S) + Count(ready, S) + Carried(f, r)
    BY <1>2, <1>16, DeliverBalance
  <2>2. stack' = stack /\ status = "running" /\ pauses = 0
    BY <1>5, <1>16 DEF Deliver
  <2>3. Typed'
    BY TypedNext
  <2>4. waiting' \in Seq(Entry) /\ ready' \in Seq(Entry) /\ todo' \subseteq DOMAIN wf'.edges
    BY <2>3 DEF Typed, TypeOK
  <2>5. Count(waiting', S) \in Nat /\ Count(ready', S) \in Nat
    BY <2>4, CountType
  <2>6. Carried(f, r)' \in Nat
    <3>1. IsFiniteSet(DOMAIN wf'.edges)
      BY <1>1, <1>5, WorkflowFacts, UpTo
    <3>2. IsFiniteSet({i \in todo' : wf'.edges[i] = f /\ r = Len(runData'[f.from])})
      BY <2>4, <3>1, FS_Subset
    <3> QED BY <3>2, FS_CardinalityType DEF Carried
  <2>7. Count(stack', S) = Count(stack, S)
    BY <2>2
  <2>8. Count(stack, S) + Count(waiting, S) + Count(ready, S)
          + Hand(f, r) + Carried(f, r) + Ran(f, r) = Owed(f, r)
    BY <1>4, <2>2
  <2> HIDE DEF S
  <2>9. Count(stack', S) + Count(waiting', S) + Count(ready', S)
          + Hand(f, r)' + Carried(f, r)' + Ran(f, r)' = Owed(f, r)'
    BY ONLY <1>3, <2>1, <2>5, <2>6, <2>7, <2>8
  <2> QED BY <2>9 DEF Balance, S
<1>17. CASE Schedule
  <2>1. /\ pc = "deliver" /\ pc' = "top" /\ ready' = <<>> /\ pauses = 0
        /\ stack' = ready \o stack \/ stack' = stack \o ready
        /\ UNCHANGED <<wf, waiting, runData, todo, entry, status>>
    BY <1>17 DEF Schedule
  <2>2. status = "running"
    BY <1>5, <2>1
  <2>3. Count(stack', S) = Count(stack, S) + Count(ready, S)
    <3>1. Count(ready \o stack, S) = Count(ready, S) + Count(stack, S)
      BY <1>5, CountConcat
    <3>2. Count(stack \o ready, S) = Count(stack, S) + Count(ready, S)
      BY <1>5, CountConcat
    <3>3. Count(stack', S) = Count(ready \o stack, S) \/ Count(stack', S) = Count(stack \o ready, S)
      BY <2>1
    <3> HIDE DEF S
    <3> QED BY ONLY <1>3, <3>1, <3>2, <3>3
  <2>4. Count(ready', S) = 0
    BY <2>1, CountEmpty
  <2>5. Hand(f, r)' = 0 /\ Hand(f, r) = 0
    BY <2>1 DEF Hand
  <2>6. Carried(f, r)' = Carried(f, r) /\ Ran(f, r)' = Ran(f, r) /\ Owed(f, r)' = Owed(f, r)
        /\ Count(waiting', S) = Count(waiting, S)
    BY <2>1 DEF Carried, Ran, Owed, Copies
  <2>7. Count(stack, S) + Count(waiting, S) + Count(ready, S)
          + Hand(f, r) + Carried(f, r) + Ran(f, r) = Owed(f, r)
    BY <1>4, <2>1, <2>2
  <2> HIDE DEF S
  <2>8. Count(stack', S) + Count(waiting', S) + Count(ready', S)
          + Hand(f, r)' + Carried(f, r)' + Ran(f, r)' = Owed(f, r)'
    BY ONLY <1>3, <2>3, <2>4, <2>5, <2>6, <2>7
  <2> QED BY <2>8 DEF Balance, S
<1> QED
  BY <1>7, <1>8, <1>9, <1>10, <1>11, <1>12, <1>14, <1>15, <1>16, <1>17 DEF Next, Step

LEMMA HoldersCount ==
  ASSUME NEW s \in Seq(Entry), NEW f, NEW r
  PROVE  Holders(s, f.to, f.input + 1, BatchOf(f, r)) = Count(s, HeldFor(f, r))
<1>1. DOMAIN s = 1..Len(s) /\ \A i \in 1..Len(s) : s[i] \in Entry
  BY LenProperties, ElementOfSeq
<1>2. {i \in DOMAIN s : EntryHas(s[i], f.to, f.input + 1, BatchOf(f, r))}
        = {i \in DOMAIN s : s[i] \in HeldFor(f, r)}
  BY <1>1 DEF HeldFor, Held
<1> QED BY <1>2 DEF Holders, Count

\* Places counts what Balance does.
LEMMA PlacesSum ==
  ASSUME Typed, NEW f \in Edges, NEW r \in Nat
  PROVE  Places(f, BatchOf(f, r))
           = Count(stack, HeldFor(f, r)) + Count(waiting, HeldFor(f, r)) + Count(ready, HeldFor(f, r))
             + Hand(f, r) + Carried(f, r) + Ran(f, r)
<1> DEFINE b == BatchOf(f, r)
           slot == f.input + 1
           D == runData[f.to]
<1>1. /\ stack \in Seq(Entry) /\ waiting \in Seq(Entry) /\ ready \in Seq(Entry) /\ entry \in Entry
      /\ runData \in [Nodes -> Seq(Run)] /\ f.to \in Nodes
  BY WorkflowFacts DEF Typed, TypeOK, Edge
<1>2. /\ Holders(stack, f.to, slot, b) = Count(stack, HeldFor(f, r))
      /\ Holders(waiting, f.to, slot, b) = Count(waiting, HeldFor(f, r))
      /\ Holders(ready, f.to, slot, b) = Count(ready, HeldFor(f, r))
  BY <1>1, HoldersCount
<1>3. (IF pc \in {"before", "running"} /\ EntryHas(entry, f.to, slot, b) THEN 1 ELSE 0) = Hand(f, r)
  BY <1>1 DEF Hand, HeldFor, Held
<1>4. Cardinality({i \in todo : wf.edges[i] = f /\ b.run = Len(runData[f.from])}) = Carried(f, r)
  <2>1. b.run = r
    BY DEF BatchOf
  <2> HIDE DEF b
  <2> QED BY <2>1 DEF Carried
<1>5. Cardinality({i \in DOMAIN D : slot \in DOMAIN D[i].source /\ D[i].source[slot] = b}) = Ran(f, r)
  <2>1. D \in Seq(Run)
    BY <1>1
  <2>2. DOMAIN D = 1..Len(D) /\ \A i \in 1..Len(D) : D[i] \in Run
    BY <2>1, LenProperties, ElementOfSeq
  <2>3. {i \in DOMAIN D : slot \in DOMAIN D[i].source /\ D[i].source[slot] = b}
          = {i \in DOMAIN D : D[i] \in Kept(slot, b)}
    BY <2>2 DEF Kept
  <2> QED BY <2>3 DEF Ran, Count
<1>6. Places(f, b)
        = Holders(stack, f.to, slot, b) + Holders(waiting, f.to, slot, b) + Holders(ready, f.to, slot, b)
          + (IF pc \in {"before", "running"} /\ EntryHas(entry, f.to, slot, b) THEN 1 ELSE 0)
          + Cardinality({i \in todo : wf.edges[i] = f /\ b.run = Len(runData[f.from])})
          + Cardinality({i \in DOMAIN D : slot \in DOMAIN D[i].source /\ D[i].source[slot] = b})
  BY DEF Places
<1> QED BY ONLY <1>2, <1>3, <1>4, <1>5, <1>6

\* Whatever the shape of the workflow: what a node put on an output is in one
\* place for each child that is to have it, never lost and never doubled, as
\* long as the execution goes on; and when it ends in success every child has
\* run on it.
THEOREM DeliversOnce == Spec => []DeliveredOnce
<1>1. Typed /\ Balanced => DeliveredOnce
  <2> SUFFICES ASSUME Typed, Balanced, status \in {"running", "success"}, pauses = 0,
                      NEW f \in Edges, f.from # wf.destination, NEW b \in BatchesOf(f)
               PROVE  /\ Places(f, b) = Copies(f)
                      /\ status = "success" /\ wf.destination = None =>
                           \E k \in DOMAIN runData[f.to] : b \in Range(runData[f.to][k].source)
    BY DEF DeliveredOnce
  <2>1. PICK r \in DOMAIN runData[f.from] :
          f.output \in runData[f.from][r].outs /\ b = BatchOf(f, r)
    BY DEF BatchesOf, BatchOf
  <2>2. /\ runData \in [Nodes -> Seq(Run)] /\ f.from \in Nodes /\ f.to \in Nodes
        /\ status = "running" <=> pc # "end"
        /\ pc # "deliver" => todo = {} /\ ready = <<>>
        /\ status = "success" /\ wf.destination = None => stack = <<>> /\ waiting = <<>>
    BY WorkflowFacts DEF Typed, TypeOK, Shape, Edge
  <2>3. r \in Nat
    <3>1. runData[f.from] \in Seq(Run)
      BY <2>2
    <3>2. DOMAIN runData[f.from] = 1..Len(runData[f.from])
      BY <3>1, LenProperties
    <3> QED BY <2>1, <3>2
  <2>4. Balance(f, r) /\ Owed(f, r) = Copies(f)
    BY <2>1, <2>3 DEF Balanced, Owed
  <2>5. Places(f, b) = Copies(f)
    <3>1. Places(f, BatchOf(f, r)) = Owed(f, r)
      BY <2>3, <2>4, PlacesSum DEF Balance
    <3> QED BY <2>1, <2>4, <3>1
  <2>6. ASSUME status = "success", wf.destination = None
        PROVE  \E k \in DOMAIN runData[f.to] : b \in Range(runData[f.to][k].source)
    <3>1. stack = <<>> /\ waiting = <<>> /\ ready = <<>> /\ todo = {} /\ pc = "end"
      BY <2>2, <2>6
    <3>2. Count(stack, HeldFor(f, r)) = 0 /\ Count(waiting, HeldFor(f, r)) = 0
          /\ Count(ready, HeldFor(f, r)) = 0
      BY <3>1, CountEmpty
    <3>3. Hand(f, r) = 0 /\ Carried(f, r) = 0
      BY <3>1, FS_EmptySet DEF Hand, Carried
    <3>4. Ran(f, r) \in Nat /\ Copies(f) \in Nat \ {0}
      BY <2>3, BalanceTypes
    <3>5. Ran(f, r) # 0
      BY ONLY <2>4, <3>2, <3>3, <3>4 DEF Balance
    <3> DEFINE K == Kept(f.input + 1, BatchOf(f, r))
    <3>6. PICK k \in DOMAIN runData[f.to] : runData[f.to][k] \in K
      <4>1. runData[f.to] \in Seq(Run)
        BY <2>2
      <4>2. Count(runData[f.to], K) # 0
        BY <3>5 DEF Ran
      <4> HIDE DEF K
      <4> QED BY <4>1, <4>2, CountType
    <3>7. b \in Range(runData[f.to][k].source)
      BY <2>1, <3>6 DEF Kept, Range
    <3> QED BY <3>7
  <2> QED BY <2>5, <2>6
<1> QED BY <1>1, TypedInit, TypedNext, BalancedInit, BalancedNext, PTL DEF Spec

-----------------------------------------------------------------------------
(* Joins take what belongs together.                                       *)

Into(n) == {e \in Edges : e.to = n}

\* How many of the batches of an edge have been delivered.
Sent(e) == {u \in Run : e.output \in u.outs}

Undelivered(e) == IF \E i \in todo : wf.edges[i] = e THEN 1 ELSE 0

Delivered(e) == Count(runData[e.from], Sent(e)) - Undelivered(e)

Known(e, b) == b # None /\ b.run \in 1..Len(runData[e.from])

\* The inputs of a full entry are of one round.
Synced(n, source) ==
  source = <<>> \/ \A e, f \in Into(n) :
                     /\ Known(e, source[e.input + 1])
                     /\ Round(e, source[e.input + 1]) = Round(f, source[f.input + 1])

\* An entry has its inputs of a round as far as they have been delivered.
Fills(n, x, v) ==
  \A e \in Into(n) :
    LET b == x.source[e.input + 1]
    IN  /\ b # None <=> v <= Delivered(e)
        /\ b # None => Known(e, b) /\ Round(e, b) = v

Wired(n, x) == \A s \in DOMAIN x.source : x.source[s] # None => \E e \in Into(n) : e.input + 1 = s

\* The waiting entries of a node are, in their order, those of the rounds
\* first + 1 to last; round says of which each is.
Lined(n, w, round, first, last) ==
  /\ first \in Nat /\ last \in Nat /\ round \in [DOMAIN w -> Nat]
  /\ \A i \in DOMAIN w : w[i].node = n =>
       /\ round[i] \in first + 1 .. last
       /\ ~Full(w[i]) /\ Wired(n, w[i]) /\ Fills(n, w[i], round[i])
  /\ \A v \in first + 1 .. last : \E i \in DOMAIN w : w[i].node = n /\ round[i] = v
  /\ \A i, j \in DOMAIN w : w[i].node = n /\ w[j].node = n /\ i < j => round[i] < round[j]
  /\ \A e \in Into(n) : Delivered(e) \in first..last

Grows ==
  /\ wf' = wf
  /\ \A m \in Nodes :
       /\ runData'[m] \in Seq(Run) /\ Len(runData[m]) <= Len(runData'[m])
       /\ \A k \in 1..Len(runData[m]) : runData'[m][k] = runData[m][k]

LEMMA AppendGrows ==
  ASSUME Typed, wf' = wf, NEW n \in Nodes, NEW u \in Run,
         runData' = [runData EXCEPT ![n] = Append(runData[n], u)]
  PROVE  Grows
<1>1. runData \in [Nodes -> Seq(Run)]
  BY DEF Typed, TypeOK
<1>2. ASSUME NEW m \in Nodes
      PROVE  /\ runData'[m] \in Seq(Run) /\ Len(runData[m]) <= Len(runData'[m])
             /\ \A k \in 1..Len(runData[m]) : runData'[m][k] = runData[m][k]
  <2>1. runData[m] \in Seq(Run) /\ Len(runData[m]) \in Nat
    BY <1>1, LenProperties
  <2>2. CASE m = n
    <3>1. runData'[m] = Append(runData[m], u)
      BY <1>1, <2>2
    <3>2. /\ Append(runData[m], u) \in Seq(Run) /\ Len(Append(runData[m], u)) = Len(runData[m]) + 1
          /\ \A k \in 1..Len(runData[m]) : Append(runData[m], u)[k] = runData[m][k]
      BY <2>1, AppendProperties
    <3> QED BY ONLY <2>1, <3>1, <3>2
  <2>3. CASE m # n
    <3>1. runData'[m] = runData[m]
      BY <1>1, <2>3
    <3> QED BY ONLY <2>1, <3>1
  <2> QED BY <2>2, <2>3
<1> QED BY <1>2 DEF Grows

LEMMA GrowsNext ==
  ASSUME Typed, [Next]_vars, pauses' = 0
  PROVE  Grows
<1>1. wf' = wf
  BY DEF Next, Step, vars, queues, SeeCancel, NothingLeft, TooManyRuns, Pop, PopFrom, Begin,
         Complete, Retry, FailOn, Fail, Pause, Abort, Deliver, Schedule, Cancel, Notify, TimeOut,
         Resume
<1>2. /\ runData \in [Nodes -> Seq(Run)] /\ pauses \in Nat
      /\ stack \in Seq(Entry) /\ waiting \in Seq(Entry) /\ entry \in Entry /\ wf \in Workflows
      /\ runs \in Nat /\ runs <= MaxNodeRuns /\ MaxNodeRuns \in Nat
      /\ pc \in {"before", "running", "deliver"} => runs >= 1
  BY BoundsAssumption DEF Typed, TypeOK, Shape
<1>3. ASSUME runData' = runData PROVE Grows
  <2>1. \A m \in Nodes : runData[m] \in Seq(Run) /\ Len(runData[m]) \in Nat
    BY <1>2, LenProperties
  <2> QED BY <1>1, <1>3, <2>1 DEF Grows
<1>4. ASSUME NEW x \in Entry, NEW outs \in SUBSET Nat, runs' \in 1..MaxNodeRuns,
             Record(x, outs, x.source)
      PROVE  Grows
  <2> DEFINE u == [source |-> x.source, outs |-> outs, index |-> runs' - 1]
  <2>1. u \in Run /\ x.node \in Nodes
    BY <1>4, RecordEffect DEF Typed, Entry
  <2>2. runData' = [runData EXCEPT ![x.node] = Append(runData[x.node], u)]
    BY <1>4 DEF Record
  <2> HIDE DEF u
  <2> QED BY <1>1, <2>1, <2>2, AppendGrows
<1>5. ASSUME Pop PROVE Grows
  <2> DEFINE x == IF stack = <<>> THEN Head(waiting) ELSE Head(stack)
             outs == IF AtHand(x) THEN {0} ELSE {}
  <2>1. /\ stack # <<>> \/ waiting # <<>>
        /\ runs' = runs + 1 /\ runs < MaxNodeRuns
        /\ Record(x, outs, x.source) \/ runData' = runData
    BY <1>5 DEF Pop, PopFrom
  <2>2. x \in Entry /\ outs \in SUBSET Nat
    BY <1>2, <2>1, HeadTailProperties
  <2>3. runs' \in 1..MaxNodeRuns
    BY <1>2, <2>1
  <2> HIDE DEF x, outs
  <2> QED BY <1>3, <1>4, <2>1, <2>2, <2>3
<1>6. entry.node \in Nodes
  BY <1>2 DEF Entry
<1>7. ASSUME NEW outs \in SUBSET Outputs(entry.node), Complete(outs) PROVE Grows
  <2>1. (IF entry.node \in wf.always /\ outs = {} THEN {0} ELSE outs) \in SUBSET Nat
    BY <1>2, <1>6, OutputsAreNat
  <2>2. runs' \in 1..MaxNodeRuns
    BY <1>2, <1>7 DEF Complete
  <2> QED BY <1>2, <1>4, <1>7, <2>1, <2>2 DEF Complete
<1>8. ASSUME FailOn PROVE Grows
  <2>1. (IF wf.onError[entry.node] = "output" THEN {wf.outputs[entry.node]} ELSE {0}) \in SUBSET Nat
    BY <1>2, <1>6, OutputsAreNat
  <2>2. runs' \in 1..MaxNodeRuns
    BY <1>2, <1>8 DEF FailOn
  <2> QED BY <1>2, <1>4, <1>8, <2>1, <2>2 DEF FailOn
<1>9. ASSUME Fail PROVE Grows
  <2> DEFINE u == [source |-> entry.source, outs |-> {}, index |-> runs - 1]
  <2>1. runs - 1 \in Nat
    BY <1>2, <1>9 DEF Fail
  <2>2. u \in Run
    BY <1>2, <2>1 DEF Run, Entry
  <2>3. runData' = [runData EXCEPT ![entry.node] = Append(runData[entry.node], u)]
    BY <1>9 DEF Fail
  <2> HIDE DEF u
  <2> QED BY <1>1, <1>6, <2>2, <2>3, AppendGrows
<1>10. ~Resume
  BY <1>2 DEF Resume
<1>11. CASE SeeCancel \/ NothingLeft \/ TooManyRuns \/ Begin \/ Retry \/ Pause \/ Abort
  BY <1>3, <1>11 DEF SeeCancel, NothingLeft, TooManyRuns, Begin, Retry, Pause, Abort
<1>12. CASE Deliver \/ Schedule \/ Cancel \/ Notify \/ TimeOut \/ UNCHANGED vars
  BY <1>3, <1>12 DEF Deliver, Schedule, Cancel, Notify, TimeOut, vars
<1> QED BY <1>5, <1>7, <1>8, <1>9, <1>10, <1>11, <1>12 DEF Next, Step

\* What is known of a batch does not change.
LEMMA KnownStable ==
  ASSUME Typed, Grows, NEW e \in Edges, NEW b, Known(e, b)
  PROVE  Known(e, b)' /\ Round(e, b)' = Round(e, b)
<1> DEFINE D == runData[e.from]
           D1 == runData'[e.from]
<1>1. e.from \in Nodes
  BY WorkflowFacts DEF Typed, TypeOK, Edge
<1>2. /\ D \in Seq(Run) /\ D1 \in Seq(Run) /\ Len(D) <= Len(D1)
      /\ \A k \in 1..Len(D) : D1[k] = D[k]
  BY <1>1 DEF Typed, TypeOK, Grows
<1>3. Len(D) \in Nat /\ Len(D1) \in Nat
  BY <1>2, LenProperties
<1>4. b # None /\ b.run \in 1..Len(D)
  BY DEF Known
<1>5. b.run \in 1..Len(D1)
  BY ONLY <1>2, <1>3, <1>4
<1>6. {k \in 1..b.run : e.output \in D1[k].outs} = {k \in 1..b.run : e.output \in D[k].outs}
  BY <1>2, <1>3, <1>4
<1> QED BY <1>4, <1>5, <1>6 DEF Known, Round

LEMMA SyncedStable ==
  ASSUME Typed, Grows, NEW n, NEW source, Synced(n, source)
  PROVE  Synced(n, source)'
<1>1. Into(n)' = Into(n) /\ Into(n) \subseteq Edges
  BY DEF Into, Edges, Grows
<1>2. CASE source = <<>>
  BY <1>2 DEF Synced
<1>3. CASE source # <<>>
  <2>1. ASSUME NEW e \in Into(n)
        PROVE  Known(e, source[e.input + 1])
               /\ Known(e, source[e.input + 1])'
               /\ Round(e, source[e.input + 1])' = Round(e, source[e.input + 1])
    <3>1. Known(e, source[e.input + 1])
      BY <1>3 DEF Synced
    <3> QED BY <1>1, <3>1, KnownStable
  <2>2. \A e, f \in Into(n) : Round(e, source[e.input + 1]) = Round(f, source[f.input + 1])
    BY <1>3 DEF Synced
  <2> QED BY <1>1, <2>1, <2>2 DEF Synced
<1> QED BY <1>2, <1>3

LEMMA FillsStable ==
  ASSUME Typed, Grows, NEW n, \A e \in Into(n) : Delivered(e)' = Delivered(e),
         NEW x, NEW v, Fills(n, x, v)
  PROVE  Fills(n, x, v)'
<1>1. Into(n)' = Into(n) /\ Into(n) \subseteq Edges
  BY DEF Into, Edges, Grows
<1>2. ASSUME NEW e \in Into(n)
      PROVE  LET b == x.source[e.input + 1]
             IN  /\ b # None <=> v <= Delivered(e)'
                 /\ b # None => Known(e, b)' /\ Round(e, b)' = v
  <2> DEFINE b == x.source[e.input + 1]
  <2>1. (b # None <=> v <= Delivered(e)) /\ (b # None => Known(e, b) /\ Round(e, b) = v)
    BY DEF Fills
  <2>2. b # None => Known(e, b)' /\ Round(e, b)' = Round(e, b)
    BY <1>1, <2>1, KnownStable
  <2> HIDE DEF b
  <2>3. Delivered(e)' = Delivered(e)
    OBVIOUS
  <2> QED BY <2>1, <2>2, <2>3 DEF b
<1> QED BY <1>1, <1>2 DEF Fills

LEMMA LinedStable ==
  ASSUME Typed, Grows, NEW n, \A e \in Into(n) : Delivered(e)' = Delivered(e),
         NEW w, NEW round, NEW first, NEW last, Lined(n, w, round, first, last)
  PROVE  Lined(n, w, round, first, last)'
<1>1. Into(n)' = Into(n)
  BY DEF Into, Edges, Grows
<1>2. \A x : Wired(n, x)' = Wired(n, x)
  BY <1>1 DEF Wired
<1>3. \A x, v : Fills(n, x, v) => Fills(n, x, v)'
  BY FillsStable
<1>4. /\ first \in Nat /\ last \in Nat /\ round \in [DOMAIN w -> Nat]
      /\ \A i \in DOMAIN w : w[i].node = n =>
           /\ round[i] \in first + 1 .. last
           /\ ~Full(w[i]) /\ Wired(n, w[i]) /\ Fills(n, w[i], round[i])
      /\ \A v \in first + 1 .. last : \E i \in DOMAIN w : w[i].node = n /\ round[i] = v
      /\ \A i, j \in DOMAIN w : w[i].node = n /\ w[j].node = n /\ i < j => round[i] < round[j]
      /\ \A e \in Into(n) : Delivered(e) \in first..last
  BY DEF Lined
<1>5. \A e \in Into(n)' : Delivered(e)' \in first..last
  BY <1>1, <1>4
<1>6. \A i \in DOMAIN w : w[i].node = n =>
        /\ round[i] \in first + 1 .. last
        /\ ~Full(w[i]) /\ Wired(n, w[i])' /\ Fills(n, w[i], round[i])'
  BY <1>2, <1>3, <1>4
<1> QED BY <1>4, <1>5, <1>6 DEF Lined

\* Entries of other nodes come and go.
LEMMA LinedDrop ==
  ASSUME NEW w \in Seq(Entry), NEW w1 \in Seq(Entry), NEW k \in 1..Len(w), NEW n,
         Len(w1) = Len(w) - 1,
         \A i \in 1..Len(w1) : w1[i] = IF i < k THEN w[i] ELSE w[i + 1],
         w[k].node # n, NEW round, NEW first, NEW last, Lined(n, w, round, first, last)
  PROVE  \E other : Lined(n, w1, other, first, last)
<1> DEFINE other == [i \in DOMAIN w1 |-> IF i < k THEN round[i] ELSE round[i + 1]]
<1>1. /\ Len(w) \in Nat /\ Len(w1) \in Nat /\ DOMAIN w = 1..Len(w) /\ DOMAIN w1 = 1..Len(w1)
  BY LenProperties
<1>2. /\ first \in Nat /\ last \in Nat /\ round \in [DOMAIN w -> Nat]
      /\ \A i \in DOMAIN w : w[i].node = n =>
           /\ round[i] \in first + 1 .. last
           /\ ~Full(w[i]) /\ Wired(n, w[i]) /\ Fills(n, w[i], round[i])
      /\ \A v \in first + 1 .. last : \E i \in DOMAIN w : w[i].node = n /\ round[i] = v
      /\ \A i, j \in DOMAIN w : w[i].node = n /\ w[j].node = n /\ i < j => round[i] < round[j]
      /\ \A e \in Into(n) : Delivered(e) \in first..last
  BY DEF Lined
<1> DEFINE old(i) == IF i < k THEN i ELSE i + 1
<1>3. \A i \in DOMAIN w1 : /\ old(i) \in DOMAIN w /\ w1[i] = w[old(i)] /\ other[i] = round[old(i)]
  BY <1>1
<1>4. \A i, j \in DOMAIN w1 : i < j => old(i) < old(j)
  BY <1>1
<1>5. \A i \in DOMAIN w : i # k => \E j \in DOMAIN w1 : old(j) = i
  <2> SUFFICES ASSUME NEW i \in DOMAIN w, i # k PROVE \E j \in DOMAIN w1 : old(j) = i
    OBVIOUS
  <2>1. CASE i < k
    <3>1. i \in DOMAIN w1 /\ old(i) = i
      BY <1>1, <2>1
    <3> QED BY <3>1
  <2>2. CASE i > k
    <3>1. i - 1 \in DOMAIN w1 /\ old(i - 1) = i
      BY <1>1, <2>2
    <3> QED BY <3>1
  <2> QED BY <1>1, <2>1, <2>2
<1>6. other \in [DOMAIN w1 -> Nat]
  <2>1. \A i \in DOMAIN w1 : round[old(i)] \in Nat
    BY <1>2, <1>3
  <2> QED BY <2>1
<1> HIDE DEF old, other
<1>7. \A i \in DOMAIN w1 : w1[i].node = n =>
        /\ other[i] \in first + 1 .. last
        /\ ~Full(w1[i]) /\ Wired(n, w1[i]) /\ Fills(n, w1[i], other[i])
  BY <1>2, <1>3
<1>8. \A v \in first + 1 .. last : \E i \in DOMAIN w1 : w1[i].node = n /\ other[i] = v
  <2> SUFFICES ASSUME NEW v \in first + 1 .. last
               PROVE  \E i \in DOMAIN w1 : w1[i].node = n /\ other[i] = v
    OBVIOUS
  <2>1. PICK i \in DOMAIN w : w[i].node = n /\ round[i] = v
    BY <1>2
  <2>2. PICK j \in DOMAIN w1 : old(j) = i
    BY <1>5, <2>1
  <2> QED BY <1>3, <2>1, <2>2
<1>9. \A i, j \in DOMAIN w1 : w1[i].node = n /\ w1[j].node = n /\ i < j => other[i] < other[j]
  BY <1>2, <1>3, <1>4
<1> QED BY <1>2, <1>6, <1>7, <1>8, <1>9 DEF Lined

LEMMA LinedAppend ==
  ASSUME NEW w \in Seq(Entry), NEW x \in Entry, NEW n, x.node # n,
         NEW round, NEW first, NEW last, Lined(n, w, round, first, last)
  PROVE  \E other : Lined(n, Append(w, x), other, first, last)
<1> DEFINE w1 == Append(w, x)
           other == [i \in DOMAIN w1 |-> IF i <= Len(w) THEN round[i] ELSE 0]
<1>1. /\ Len(w) \in Nat /\ DOMAIN w = 1..Len(w) /\ DOMAIN w1 = 1 .. Len(w) + 1
      /\ (\A i \in 1..Len(w) : w1[i] = w[i]) /\ w1[Len(w) + 1] = x
  <2>1. w1 \in Seq(Entry) /\ Len(w1) = Len(w) + 1
        /\ (\A i \in 1..Len(w) : w1[i] = w[i]) /\ w1[Len(w) + 1] = x
    BY AppendProperties
  <2> HIDE DEF w1
  <2>2. DOMAIN w1 = 1..Len(w1) /\ Len(w) \in Nat /\ DOMAIN w = 1..Len(w)
    BY <2>1, LenProperties
  <2> QED BY <2>1, <2>2
<1>2. /\ first \in Nat /\ last \in Nat /\ round \in [DOMAIN w -> Nat]
      /\ \A i \in DOMAIN w : w[i].node = n =>
           /\ round[i] \in first + 1 .. last
           /\ ~Full(w[i]) /\ Wired(n, w[i]) /\ Fills(n, w[i], round[i])
      /\ \A v \in first + 1 .. last : \E i \in DOMAIN w : w[i].node = n /\ round[i] = v
      /\ \A i, j \in DOMAIN w : w[i].node = n /\ w[j].node = n /\ i < j => round[i] < round[j]
      /\ \A e \in Into(n) : Delivered(e) \in first..last
  BY DEF Lined
<1> HIDE DEF w1
<1>3. \A i \in DOMAIN w1 : w1[i].node = n => i \in DOMAIN w /\ w1[i] = w[i] /\ other[i] = round[i]
  BY <1>1
<1>4. \A i \in DOMAIN w : i \in DOMAIN w1 /\ w1[i] = w[i] /\ other[i] = round[i]
  BY <1>1
<1>5. other \in [DOMAIN w1 -> Nat]
  BY <1>1, <1>2
<1> HIDE DEF other
<1>6. \A i \in DOMAIN w1 : w1[i].node = n =>
        /\ other[i] \in first + 1 .. last
        /\ ~Full(w1[i]) /\ Wired(n, w1[i]) /\ Fills(n, w1[i], other[i])
  BY <1>2, <1>3
<1>7. \A v \in first + 1 .. last : \E i \in DOMAIN w1 : w1[i].node = n /\ other[i] = v
  BY <1>2, <1>4
<1>8. \A i, j \in DOMAIN w1 : w1[i].node = n /\ w1[j].node = n /\ i < j => other[i] < other[j]
  BY <1>2, <1>3
<1>9. Lined(n, w1, other, first, last)
  BY <1>2, <1>5, <1>6, <1>7, <1>8 DEF Lined
<1> QED BY <1>9 DEF w1

LEMMA LinedReplace ==
  ASSUME NEW w \in Seq(Entry), NEW k \in 1..Len(w), NEW x \in Entry, NEW n, x.node # n, w[k].node # n,
         NEW round, NEW first, NEW last, Lined(n, w, round, first, last)
  PROVE  Lined(n, [w EXCEPT ![k] = x], round, first, last)
<1> DEFINE w1 == [w EXCEPT ![k] = x]
<1>1. /\ Len(w) \in Nat /\ DOMAIN w = 1..Len(w) /\ DOMAIN w1 = 1..Len(w)
      /\ \A i \in 1..Len(w) : w1[i] = IF i = k THEN x ELSE w[i]
  BY LenProperties, ExceptSeq
<1> HIDE DEF w1
<1>2. \A i \in DOMAIN w1 : i \in DOMAIN w /\ (w1[i].node = n <=> w[i].node = n)
                           /\ (w1[i].node = n => w1[i] = w[i])
  BY <1>1
<1>3. /\ first \in Nat /\ last \in Nat /\ round \in [DOMAIN w -> Nat]
      /\ \A i \in DOMAIN w : w[i].node = n =>
           /\ round[i] \in first + 1 .. last
           /\ ~Full(w[i]) /\ Wired(n, w[i]) /\ Fills(n, w[i], round[i])
      /\ \A v \in first + 1 .. last : \E i \in DOMAIN w : w[i].node = n /\ round[i] = v
      /\ \A i, j \in DOMAIN w : w[i].node = n /\ w[j].node = n /\ i < j => round[i] < round[j]
      /\ \A e \in Into(n) : Delivered(e) \in first..last
  BY DEF Lined
<1>4. DOMAIN w1 = DOMAIN w
  BY <1>1
<1>5. Lined(n, w1, round, first, last)
  BY <1>2, <1>3, <1>4 DEF Lined
<1> QED BY <1>5 DEF w1

LEMMA RemoveAtElements ==
  ASSUME NEW S, NEW s \in Seq(S), NEW k \in 1..Len(s)
  PROVE  /\ RemoveAt(s, k) \in Seq(S) /\ Len(RemoveAt(s, k)) = Len(s) - 1
         /\ \A i \in 1 .. Len(s) - 1 : RemoveAt(s, k)[i] = IF i < k THEN s[i] ELSE s[i + 1]
<1> DEFINE a == SubSeq(s, 1, k - 1)
           b == SubSeq(s, k + 1, Len(s))
<1>1. Len(s) \in Nat /\ \A i \in 1..Len(s) : s[i] \in S
  BY LenProperties, ElementOfSeq
<1>2. /\ a \in Seq(S) /\ Len(a) = k - 1 /\ \A i \in 1 .. k - 1 : a[i] = s[i]
  <2>1. /\ SubSeq(s, 1, k - 1) \in Seq(S)
        /\ Len(SubSeq(s, 1, k - 1)) = IF 1 <= k - 1 THEN (k - 1) - 1 + 1 ELSE 0
        /\ \A i \in 1 .. (k - 1) - 1 + 1 : SubSeq(s, 1, k - 1)[i] = s[1 + i - 1]
    <3>1. 1 \in Int /\ k - 1 \in Int /\ \A i \in 1 .. k - 1 : s[i] \in S
      BY <1>1
    <3> QED BY <3>1, SubSeqProperties
  <2> HIDE DEF a
  <2> QED BY <1>1, <2>1 DEF a
<1>3. /\ b \in Seq(S) /\ Len(b) = Len(s) - k /\ \A i \in 1 .. Len(s) - k : b[i] = s[k + i]
  <2>1. /\ SubSeq(s, k + 1, Len(s)) \in Seq(S)
        /\ Len(SubSeq(s, k + 1, Len(s))) = IF k + 1 <= Len(s) THEN Len(s) - (k + 1) + 1 ELSE 0
        /\ \A i \in 1 .. Len(s) - (k + 1) + 1 : SubSeq(s, k + 1, Len(s))[i] = s[(k + 1) + i - 1]
    <3>1. k + 1 \in Int /\ Len(s) \in Int /\ \A i \in k + 1 .. Len(s) : s[i] \in S
      BY <1>1
    <3> QED BY <3>1, SubSeqProperties
  <2> QED BY <1>1, <2>1 DEF b
<1>4. RemoveAt(s, k) = a \o b
  BY DEF RemoveAt
<1> HIDE DEF a, b
<1>5. /\ a \o b \in Seq(S) /\ Len(a \o b) = Len(a) + Len(b)
      /\ \A i \in 1 .. Len(a) + Len(b) : (a \o b)[i] = IF i <= Len(a) THEN a[i] ELSE b[i - Len(a)]
  BY <1>2, <1>3, ConcatProperties
<1>6. Len(a) + Len(b) = Len(s) - 1
  BY <1>1, <1>2, <1>3
<1>7. ASSUME NEW i \in 1 .. Len(s) - 1
      PROVE  (a \o b)[i] = IF i < k THEN s[i] ELSE s[i + 1]
  <2>1. CASE i < k
    <3>1. i <= Len(a) /\ i \in 1 .. k - 1 /\ i \in 1 .. Len(a) + Len(b)
      BY <1>1, <1>2, <1>6, <2>1
    <3> QED BY <1>2, <1>5, <2>1, <3>1
  <2>2. CASE ~(i < k)
    <3>1. ~(i <= Len(a)) /\ i - Len(a) \in 1 .. Len(s) - k /\ i \in 1 .. Len(a) + Len(b)
          /\ k + (i - Len(a)) = i + 1
      BY <1>1, <1>2, <1>6, <2>2
    <3> QED BY <1>3, <1>5, <2>2, <3>1
  <2> QED BY <2>1, <2>2
<1> QED BY <1>4, <1>5, <1>6, <1>7

\* What FillWaiting does: x is the entry it fills, a new one or the oldest
\* that misses the input, and y is x with the input filled.
Fresh(n) == [node |-> n, source |-> [j \in 1..ConnectedInputs(n) |-> None]]

Moved(y, without, with) ==
  \/ Full(y) /\ waiting' = without /\ MakeReady(y)
  \/ ~Full(y) /\ waiting' = with /\ ready' = ready

LEMMA FillCases ==
  ASSUME Typed, NEW n \in Nodes, NEW slot \in 1..ConnectedInputs(n), NEW b \in Batch,
         FillWaiting(n, slot, b)
  PROVE  \/ /\ Missing(n, slot) = {}
            /\ Moved(Filled(Fresh(n), slot, b), waiting, Append(waiting, Filled(Fresh(n), slot, b)))
         \/ \E i \in Missing(n, slot) :
              /\ i \in 1..Len(waiting) /\ \A j \in Missing(n, slot) : i <= j
              /\ Moved(Filled(waiting[i], slot, b), RemoveAt(waiting, i),
                       [waiting EXCEPT ![i] = Filled(waiting[i], slot, b)])
<1> DEFINE i == Pending(n, slot)
           e == IF i > Len(waiting)
                THEN [node |-> n, source |-> [j \in 1..ConnectedInputs(n) |-> None]]
                ELSE waiting[i]
           f == Filled(e, slot, b)
<1>0. Len(waiting) \in Nat /\ DOMAIN waiting = 1..Len(waiting)
  BY LenProperties DEF Typed, TypeOK
<1>1. \/ Full(f) /\ waiting' = TakeWaiting(i) /\ MakeReady(f)
      \/ ~Full(f) /\ ready' = ready
         /\ waiting' = IF i > Len(waiting) THEN Append(waiting, f) ELSE [waiting EXCEPT ![i] = f]
  BY DEF FillWaiting
<1>2. CASE Missing(n, slot) = {}
  <2>1. i = Len(waiting) + 1
    BY <1>2 DEF Pending
  <2>2. i > Len(waiting)
    BY ONLY <1>0, <2>1
  <2> HIDE DEF i
  <2>3. e = Fresh(n)
    BY <2>2 DEF Fresh
  <2>4. TakeWaiting(i) = waiting
    BY <2>2 DEF TakeWaiting
  <2> HIDE DEF e
  <2>5. Moved(f, waiting, Append(waiting, f))
    BY <1>1, <2>2, <2>4 DEF Moved
  <2> QED BY <1>2, <2>3, <2>5
<1>3. CASE Missing(n, slot) # {}
  <2>1. Missing(n, slot) \subseteq Nat /\ Missing(n, slot) \subseteq 1..Len(waiting)
    BY <1>0 DEF Missing
  <2>2. Min(Missing(n, slot)) \in Missing(n, slot) /\ \A j \in Missing(n, slot) : Min(Missing(n, slot)) <= j
    BY <1>3, <2>1, MinOf
  <2>3. i = Min(Missing(n, slot))
    BY <1>3 DEF Pending
  <2> HIDE DEF i
  <2>4. i \in Missing(n, slot) /\ i \in 1..Len(waiting) /\ \A j \in Missing(n, slot) : i <= j
    BY <2>1, <2>2, <2>3
  <2>5. ~(i > Len(waiting))
    BY ONLY <1>0, <2>4
  <2>6. e = waiting[i]
    BY ONLY <2>5
  <2>7. TakeWaiting(i) = RemoveAt(waiting, i)
    BY <2>5 DEF TakeWaiting
  <2> HIDE DEF e
  <2>8. Moved(f, RemoveAt(waiting, i), [waiting EXCEPT ![i] = f])
    BY <1>1, <2>5, <2>7 DEF Moved
  <2> QED BY <2>4, <2>6, <2>8
<1> QED BY <1>2, <1>3

\* The waiting entries of a node while another node is served.
LEMMA FillOther ==
  ASSUME Typed, NEW m \in Nodes, NEW slot \in 1..ConnectedInputs(m), NEW b \in Batch,
         FillWaiting(m, slot, b), NEW n, n # m,
         NEW round, NEW first, NEW last, Lined(n, waiting, round, first, last)
  PROVE  \E other : Lined(n, waiting', other, first, last)
<1>1. waiting \in Seq(Entry) /\ waiting \in Seq(Whole) /\ wf \in Workflows
  BY DEF Typed, TypeOK, Shape
<1>2. CASE Missing(m, slot) = {}
           /\ Moved(Filled(Fresh(m), slot, b), waiting, Append(waiting, Filled(Fresh(m), slot, b)))
  <2> DEFINE y == Filled(Fresh(m), slot, b)
  <2>1. Fresh(m) \in Whole /\ Fresh(m).node = m /\ slot \in DOMAIN Fresh(m).source
        /\ Fresh(m).source[slot] = None
    BY <1>1, FreshEntry DEF Fresh
  <2>2. y \in Whole /\ y.node = m
    BY <2>1, FilledOf
  <2> HIDE DEF y
  <2>3. y \in Entry /\ y.node # n
    BY <2>2 DEF Whole
  <2>4. \/ waiting' = waiting
        \/ waiting' = Append(waiting, y)
    BY <1>2 DEF Moved, y
  <2>5. \E other : Lined(n, Append(waiting, y), other, first, last)
    BY <1>1, <2>3, LinedAppend
  <2> QED BY <2>4, <2>5
<1>3. CASE \E i \in Missing(m, slot) :
             /\ i \in 1..Len(waiting) /\ \A j \in Missing(m, slot) : i <= j
             /\ Moved(Filled(waiting[i], slot, b), RemoveAt(waiting, i),
                      [waiting EXCEPT ![i] = Filled(waiting[i], slot, b)])
  <2>1. PICK i \in Missing(m, slot) :
          /\ i \in 1..Len(waiting)
          /\ Moved(Filled(waiting[i], slot, b), RemoveAt(waiting, i),
                   [waiting EXCEPT ![i] = Filled(waiting[i], slot, b)])
    BY <1>3
  <2> DEFINE y == Filled(waiting[i], slot, b)
  <2>2. waiting[i] \in Whole /\ waiting[i].node = m /\ waiting[i].source[slot] = None
    BY <1>1, <2>1, ElementOfSeq DEF Missing
  <2>3. slot \in DOMAIN waiting[i].source
    <3>1. DOMAIN waiting[i].source = 1..Len(waiting[i].source)
      BY <2>2, LenProperties DEF Whole, Entry
    <3> QED BY <2>2, <3>1 DEF Whole
  <2>4. y \in Whole /\ y.node = m
    BY <2>2, <2>3, FilledOf
  <2> HIDE DEF y
  <2>5. y \in Entry /\ y.node # n /\ waiting[i].node # n
    BY <2>2, <2>4 DEF Whole
  <2>6. \/ waiting' = RemoveAt(waiting, i)
        \/ waiting' = [waiting EXCEPT ![i] = y]
    BY <2>1 DEF Moved, y
  <2>7. Lined(n, [waiting EXCEPT ![i] = y], round, first, last)
    BY <1>1, <2>1, <2>5, LinedReplace
  <2>8. \E other : Lined(n, RemoveAt(waiting, i), other, first, last)
    <3> DEFINE w1 == RemoveAt(waiting, i)
    <3>1. w1 \in Seq(Entry) /\ Len(w1) = Len(waiting) - 1
          /\ \A j \in 1 .. Len(waiting) - 1 : w1[j] = IF j < i THEN waiting[j] ELSE waiting[j + 1]
      BY <1>1, <2>1, RemoveAtElements
    <3> HIDE DEF w1
    <3>2. \A j \in 1..Len(w1) : w1[j] = IF j < i THEN waiting[j] ELSE waiting[j + 1]
      BY <3>1
    <3>3. \E other : Lined(n, w1, other, first, last)
      BY <1>1, <2>1, <2>5, <3>1, <3>2, LinedDrop
    <3> QED BY <3>3 DEF w1
  <2> QED BY <2>6, <2>7, <2>8
<1> QED BY <1>2, <1>3, FillCases

\* Delivering counts one batch of the edge as delivered: the last of its rounds.
LEMMA DeliveredTypes ==
  ASSUME Typed, NEW e \in Edges
  PROVE  /\ Count(runData[e.from], Sent(e)) \in Nat /\ Delivered(e) \in Int
         /\ \A b : b.run = Len(runData[e.from]) => Round(e, b) = Count(runData[e.from], Sent(e))
<1>1. runData[e.from] \in Seq(Run)
  BY WorkflowFacts DEF Typed, TypeOK, Edge
<1>2. Count(runData[e.from], Sent(e)) \in Nat
  BY <1>1, CountType
<1>3. DOMAIN runData[e.from] = 1..Len(runData[e.from])
      /\ \A k \in 1..Len(runData[e.from]) : runData[e.from][k] \in Run
  BY <1>1, LenProperties, ElementOfSeq
<1>4. ASSUME NEW b, b.run = Len(runData[e.from])
      PROVE  Round(e, b) = Count(runData[e.from], Sent(e))
  <2>1. {k \in 1..b.run : e.output \in runData[e.from][k].outs}
          = {k \in DOMAIN runData[e.from] : runData[e.from][k] \in Sent(e)}
    BY <1>3, <1>4 DEF Sent
  <2> QED BY <2>1 DEF Round, Count
<1>5. Delivered(e) \in Int
  BY <1>2 DEF Delivered, Undelivered
<1> QED BY <1>2, <1>4, <1>5

LEMMA DeliverCounts ==
  ASSUME Typed, Deliver, NEW n, NEW e \in Into(n)
  PROVE  LET t == wf.edges[Min(todo)]
         IN  /\ n # t.to => Delivered(e)' = Delivered(e)
             /\ n = t.to /\ OneEdgeEach(n) /\ e # t => Delivered(e)' = Delivered(e) /\ e.input # t.input
             /\ n = t.to /\ OneEdgeEach(n) /\ e = t =>
                  /\ Delivered(e)' = Delivered(e) + 1
                  /\ Delivered(e) + 1 = Count(runData[e.from], Sent(e))
<1> DEFINE i == Min(todo)
           t == wf.edges[i]
<1>1. i \in todo /\ i \in DOMAIN wf.edges /\ t \in Edges
  BY NextEdge DEF Deliver
<1>2. todo' = todo \ {i} /\ runData' = runData /\ wf' = wf /\ todo \subseteq DOMAIN wf.edges
  BY DEF Deliver, Typed, TypeOK
<1>3. e \in Edges /\ e.to = n /\ \E k \in DOMAIN wf.edges : wf.edges[k] = e
  BY WorkflowFacts DEF Into, Typed, TypeOK
<1>4. Count(runData[e.from], Sent(e)) \in Nat
  BY <1>3, DeliveredTypes
<1> HIDE DEF i
<1>5. CASE e # t
  <2>1. Undelivered(e)' = Undelivered(e)
    BY <1>1, <1>2, <1>5 DEF Undelivered
  <2>2. Delivered(e)' = Delivered(e)
    BY <1>2, <2>1 DEF Delivered
  <2>3. n = t.to /\ OneEdgeEach(n) => e.input # t.input
    BY <1>1, <1>3, <1>5 DEF OneEdgeEach
  <2> QED BY <1>5, <2>2, <2>3 DEF i
<1>6. CASE e = t
  <2>1. Undelivered(e) = 1
    BY <1>1, <1>6 DEF Undelivered
  <2>2. Delivered(e) = Count(runData[e.from], Sent(e)) - 1
    BY <2>1 DEF Delivered
  <2>3. ASSUME OneEdgeEach(n)
        PROVE  Delivered(e)' = Count(runData[e.from], Sent(e))
    <3>1. \A k \in todo \ {i} : wf.edges[k] # e
      BY <1>1, <1>2, <1>3, <1>6, <2>3 DEF OneEdgeEach
    <3>2. Undelivered(e)' = 0
      BY <1>2, <3>1 DEF Undelivered
    <3>3. Delivered(e)' = Count(runData[e.from], Sent(e)) - 0
      BY <1>2, <3>2 DEF Delivered
    <3> QED BY <1>4, <3>3
  <2>4. n = t.to
    BY <1>3, <1>6
  <2> QED BY <1>4, <1>6, <2>2, <2>3, <2>4 DEF i
<1> QED BY <1>5, <1>6

\* The same, said of the queue after the step.
LEMMA LinedNow ==
  ASSUME NEW n, NEW w, w = waiting', NEW round, NEW first, NEW last, Lined(n, w, round, first, last)'
  PROVE  Lined(n, waiting, round, first, last)'
BY DEF Lined, Fills, Wired, Known, Delivered, Undelivered, Into

\* The batch being served is the last of its edge.
LEMMA ServedBatch ==
  ASSUME Typed, Deliver, NEW t, t = wf.edges[Min(todo)], NEW n, n = t.to, OneEdgeEach(n),
         Delivered(t) \in Nat,
         NEW b, b = [node |-> t.from, output |-> t.output, run |-> Len(runData[t.from])]
  PROVE  /\ t \in Into(n) /\ b \in Batch /\ b # None
         /\ Known(t, b)' /\ Round(t, b)' = Delivered(t) + 1
         /\ Delivered(t)' = Delivered(t) + 1
<1>1. t \in Edges /\ b \in Batch /\ t \in Into(n)
  BY NextEdge DEF Deliver, Into
<1>2. b # None
  BY <1>1, NoneAssumption DEF Batch
<1>3. Delivered(t)' = Delivered(t) + 1 /\ Delivered(t) + 1 = Count(runData[t.from], Sent(t))
  BY <1>1, DeliverCounts
<1>4. runData[t.from] \in Seq(Run) /\ Len(runData[t.from]) \in Nat
  <2>1. runData[t.from] \in Seq(Run)
    BY <1>1, WorkflowFacts DEF Typed, TypeOK, Edge
  <2> QED BY <2>1, LenProperties
<1>5. runData[t.from] # <<>>
  <2>1. Delivered(t) + 1 # 0
    OBVIOUS
  <2>2. CASE runData[t.from] = <<>>
    <3>1. Count(runData[t.from], Sent(t)) = 0
      BY <2>2, CountEmpty
    <3> QED BY ONLY <1>3, <2>1, <3>1
  <2> QED BY <2>2
<1>6. Len(runData[t.from]) \in 1..Len(runData[t.from])
  <2>1. Len(runData[t.from]) # 0
    BY <1>4, <1>5, EmptySeq
  <2> QED BY <1>4, <2>1
<1>7. b.run = Len(runData[t.from])
  OBVIOUS
<1>8. Round(t, b) = Delivered(t) + 1
  BY <1>1, <1>3, <1>7, DeliveredTypes
<1>9. runData' = runData
  BY DEF Deliver
<1>10. Known(t, b)' /\ Round(t, b)' = Round(t, b)
  BY <1>2, <1>6, <1>7, <1>9 DEF Known, Round
<1> QED BY <1>1, <1>2, <1>3, <1>8, <1>10

\* Serving an edge leaves the entries of other rounds as they are.
LEMMA FillsSkip ==
  ASSUME Typed, Deliver, NEW t, t = wf.edges[Min(todo)], NEW n, n = t.to, OneEdgeEach(n),
         Delivered(t) \in Nat,
         NEW x, NEW v \in Nat, Fills(n, x, v), v # Delivered(t) + 1
  PROVE  Fills(n, x, v)' /\ Wired(n, x)' = Wired(n, x)
<1>1. runData' = runData /\ wf' = wf
  BY DEF Deliver
<1>2. Into(n)' = Into(n) /\ Into(n) \subseteq Edges
  BY <1>1 DEF Into, Edges
<1>3. Delivered(t)' = Delivered(t) + 1 /\ t \in Into(n)
  <2>1. \E b : b = [node |-> t.from, output |-> t.output, run |-> Len(runData[t.from])]
    OBVIOUS
  <2> QED BY <2>1, ServedBatch
<1>4. ASSUME NEW e \in Into(n)
      PROVE  LET b == x.source[e.input + 1]
             IN  /\ b # None <=> v <= Delivered(e)'
                 /\ b # None => Known(e, b)' /\ Round(e, b)' = v
  <2> DEFINE b == x.source[e.input + 1]
  <2>1. (b # None <=> v <= Delivered(e)) /\ (b # None => Known(e, b) /\ Round(e, b) = v)
    BY DEF Fills
  <2>2. Known(e, b)' = Known(e, b) /\ Round(e, b)' = Round(e, b)
    BY <1>1 DEF Known, Round
  <2> HIDE DEF b
  <2>3. v <= Delivered(e) <=> v <= Delivered(e)'
    <3>1. CASE e = t
      BY <1>3, <3>1
    <3>2. CASE e # t
      BY <3>2, DeliverCounts
    <3> QED BY <3>1, <3>2
  <2> QED BY <2>1, <2>2, <2>3 DEF b
<1>5. Wired(n, x)' = Wired(n, x)
  BY <1>2 DEF Wired
<1> QED BY <1>2, <1>4, <1>5 DEF Fills

\* The edge t, into input slot of n, is served with the batch b.
Serves(t, n, slot, b) ==
  /\ t = wf.edges[Min(todo)]
  /\ n = t.to
  /\ slot = t.input + 1
  /\ b = [node |-> t.from, output |-> t.output, run |-> Len(runData[t.from])]

\* The entries of n that have a place for each of its inputs.
WholeOf(n) == {x \in Whole : x.node = n}

\* The round of t that is delivered next.
IsNextRound(t, v) == Delivered(t) \in Nat /\ v = Delivered(t) + 1

\* The entry of n that is the first to miss the input.
IsOldest(n, slot, k) == k \in Missing(n, slot) /\ \A j \in Missing(n, slot) : k <= j

\* It fills the input of the entry of its round.
LEMMA FillsServe ==
  ASSUME Typed, Deliver, NEW t, NEW n \in Nodes, NEW slot, NEW b, Serves(t, n, slot, b),
         OneEdgeEach(n), NEW v, IsNextRound(t, v),
         NEW x \in WholeOf(n), Wired(n, x), x.source[slot] = None, Fills(n, x, v),
         NEW y, y = Filled(x, slot, b)
  PROVE  /\ y \in WholeOf(n) /\ Wired(n, y)' /\ Wired(n, y) /\ Fills(n, y, v)'
         /\ Full(y) => Synced(n, y.source)' /\ \A e \in Into(n) : v <= Delivered(e)'
<1> DEFINE q == [x.source EXCEPT ![slot] = b]
<1>0. /\ t = wf.edges[Min(todo)] /\ n = t.to /\ slot = t.input + 1
      /\ b = [node |-> t.from, output |-> t.output, run |-> Len(runData[t.from])]
      /\ v \in Nat /\ v = Delivered(t) + 1 /\ Delivered(t) \in Nat
  BY DEF Serves, IsNextRound
<1>x. x \in Whole /\ x.node = n
  BY DEF WholeOf
<1>1. /\ t \in Into(n) /\ b \in Batch /\ b # None /\ Known(t, b)' /\ Round(t, b)' = v
      /\ Delivered(t)' = v /\ v \in Nat
  BY <1>0, ServedBatch
<1>2. /\ wf' = wf /\ runData' = runData /\ wf \in Workflows /\ Into(n) \subseteq Edges
      /\ Into(n)' = Into(n) /\ ConnectedInputs(n)' = ConnectedInputs(n)
  BY DEF Deliver, Into, Edges, ConnectedInputs, Typed, TypeOK
<1>3. \A e \in Into(n) : e.input \in Nat /\ e.input + 1 \in 1..ConnectedInputs(n)
  BY <1>2, InputsOf DEF Into
<1>4. x.source \in Seq(Batch \cup {None}) /\ Len(x.source) = ConnectedInputs(n)
      /\ DOMAIN x.source = 1..ConnectedInputs(n)
  <2>1. x.source \in Seq(Batch \cup {None}) /\ Len(x.source) = ConnectedInputs(n)
    BY <1>x DEF Whole, Entry
  <2> QED BY <2>1, LenProperties
<1>5. slot \in 1..ConnectedInputs(n)
  BY ONLY <1>0, <1>1, <1>3
<1>6. y \in Whole /\ y.node = n
  <2>1. slot \in DOMAIN x.source
    BY ONLY <1>4, <1>5
  <2> QED BY <1>x, <1>1, <2>1, FilledOf
<1>7. y.source = q
  <2>1. x \in [node : Nodes, source : Seq(Batch \cup {None})]
    BY <1>x DEF Whole, Entry
  <2>2. y = [node |-> x.node, source |-> q]
    BY <2>1 DEF Filled
  <2> QED BY ONLY <2>2
<1>8. /\ DOMAIN y.source = 1..ConnectedInputs(n) /\ y.source[slot] = b
      /\ \A s \in 1..ConnectedInputs(n) : s # slot => y.source[s] = x.source[s]
  BY ONLY <1>4, <1>5, <1>7
<1> HIDE DEF q
<1>9. Wired(n, y) /\ Wired(n, y)'
  <2>1. ASSUME NEW s \in DOMAIN y.source, y.source[s] # None
        PROVE  \E e \in Into(n) : e.input + 1 = s
    <3>1. CASE s = slot
      BY ONLY <1>0, <1>1, <3>1
    <3>2. CASE s # slot
      <4>1. s \in DOMAIN x.source /\ x.source[s] # None
        BY <1>4, <1>8, <2>1, <3>2
      <4> QED BY <4>1 DEF Wired
    <3> QED BY <3>1, <3>2
  <2>2. Wired(n, y)
    BY <2>1 DEF Wired
  <2> QED BY ONLY <1>2, <2>2 DEF Wired
<1>10. ASSUME NEW e \in Into(n)
       PROVE  LET c == y.source[e.input + 1]
              IN  /\ c # None <=> v <= Delivered(e)'
                  /\ c # None => Known(e, c)' /\ Round(e, c)' = v
  <2>1. CASE e = t
    BY ONLY <1>0, <1>1, <1>8, <2>1
  <2>2. CASE e # t
    <3>1. Delivered(e)' = Delivered(e) /\ e.input # t.input
      BY <1>0, <2>2, DeliverCounts
    <3>2. e.input + 1 # slot /\ e.input + 1 \in 1..ConnectedInputs(n)
      BY ONLY <1>0, <1>1, <1>3, <3>1, <1>10
    <3>3. y.source[e.input + 1] = x.source[e.input + 1]
      BY <1>8, <3>2
    <3> DEFINE c == x.source[e.input + 1]
    <3>4. (c # None <=> v <= Delivered(e)) /\ (c # None => Known(e, c) /\ Round(e, c) = v)
      BY DEF Fills
    <3>5. Known(e, c)' = Known(e, c) /\ Round(e, c)' = Round(e, c)
      BY <1>2 DEF Known, Round
    <3> QED BY <3>1, <3>3, <3>4, <3>5
  <2> QED BY <2>1, <2>2
<1>11. Fills(n, y, v)'
  BY <1>2, <1>10 DEF Fills
<1>12. ASSUME Full(y)
       PROVE  Synced(n, y.source)' /\ \A e \in Into(n) : v <= Delivered(e)'
  <2>1. \A e \in Into(n) : y.source[e.input + 1] # None
    BY <1>3, <1>8, <1>12 DEF Full
  <2> QED BY ONLY <1>2, <1>10, <2>1 DEF Synced
<1>13. y \in WholeOf(n)
  BY <1>6 DEF WholeOf
<1> QED BY <1>9, <1>11, <1>12, <1>13

\* What serving an edge of n says of the entries of n that wait.
LEMMA ServeLined ==
  ASSUME Typed, Deliver, NEW t, t = wf.edges[Min(todo)], NEW n, n = t.to, OneEdgeEach(n),
         NEW round, NEW first, NEW last,
         NEW q, q = waiting, Lined(n, q, round, first, last)
  PROVE  /\ Delivered(t) \in Nat /\ Delivered(t) \in first..last /\ t \in Into(n)
         /\ Into(n)' = Into(n)
         /\ \A e \in Into(n) : Delivered(e)' = IF e = t THEN Delivered(t) + 1 ELSE Delivered(e)
         /\ \A i \in DOMAIN q : q[i].node = n =>
              /\ i \in Missing(n, t.input + 1) <=> Delivered(t) + 1 <= round[i]
              /\ Wired(n, q[i])'
              /\ round[i] # Delivered(t) + 1 => Fills(n, q[i], round[i])'
<1>1. /\ first \in Nat /\ last \in Nat /\ round \in [DOMAIN q -> Nat]
      /\ \A i \in DOMAIN q : q[i].node = n => Wired(n, q[i]) /\ Fills(n, q[i], round[i])
      /\ \A e \in Into(n) : Delivered(e) \in first..last
  <2>1. Lined(n, q, round, first, last)
    OBVIOUS
  <2> QED BY ONLY <2>1 DEF Lined
<1>2. t \in Into(n)
  BY NextEdge DEF Deliver, Into
<1>3. Delivered(t) \in first..last /\ first \in Nat /\ last \in Nat
  BY <1>1, <1>2
<1>4. Delivered(t) \in Nat
  BY <1>3
<1>5. wf' = wf
  BY DEF Deliver
<1>6. Into(n)' = Into(n) /\ \A x : Wired(n, x)' = Wired(n, x)
  BY <1>5 DEF Into, Edges, Wired
<1>7. ASSUME NEW e \in Into(n)
      PROVE  Delivered(e)' = IF e = t THEN Delivered(t) + 1 ELSE Delivered(e)
  BY DeliverCounts
<1>8. ASSUME NEW i \in DOMAIN q, q[i].node = n
      PROVE  /\ i \in Missing(n, t.input + 1) <=> Delivered(t) + 1 <= round[i]
             /\ Wired(n, q[i])'
             /\ round[i] # Delivered(t) + 1 => Fills(n, q[i], round[i])'
  <2>1. round[i] \in Nat /\ Wired(n, q[i]) /\ Fills(n, q[i], round[i])
    BY <1>1, <1>8
  <2>2. q[i].source[t.input + 1] # None <=> round[i] <= Delivered(t)
    BY <1>2, <2>1 DEF Fills
  <2>3. i \in Missing(n, t.input + 1) <=> q[i].source[t.input + 1] = None
    BY <1>8 DEF Missing
  <2>4. round[i] <= Delivered(t) <=> ~(Delivered(t) + 1 <= round[i])
    BY <1>4, <2>1
  <2>5. round[i] # Delivered(t) + 1 => Fills(n, q[i], round[i])'
    BY <1>4, <2>1, FillsSkip
  <2> QED BY <1>6, <2>1, <2>2, <2>3, <2>4, <2>5
<1> QED BY <1>1, <1>2, <1>3, <1>4, <1>6, <1>7, <1>8

\* No entry waits for the edge: a new one, of the next round.
LEMMA ServeNew ==
  ASSUME Typed, Deliver, NEW t, NEW n \in Nodes, NEW slot, NEW b, Serves(t, n, slot, b),
         OneEdgeEach(n), ConnectedInputs(n) > 1,
         NEW round, NEW first, NEW last,
         NEW q, q = waiting, Lined(n, q, round, first, last),
         Missing(n, slot) = {},
         NEW x, x = Fresh(n), NEW y, y = Filled(x, slot, b),
         NEW w, w = Append(waiting, y)
  PROVE  ~Full(y) /\ \E other, to : Lined(n, w, other, first, to)'
<1> DEFINE other(v) == [i \in DOMAIN w |-> IF i <= Len(q) THEN round[i] ELSE v]
<1>s. /\ t = wf.edges[Min(todo)] /\ n = t.to /\ slot = t.input + 1
      /\ b = [node |-> t.from, output |-> t.output, run |-> Len(runData[t.from])]
  BY DEF Serves
<1>0. q \in Seq(Whole) /\ wf \in Workflows /\ ConnectedInputs(n) \in Nat
  BY InputsOf DEF Typed, TypeOK, Shape
<1>1. /\ Delivered(t) \in Nat /\ Delivered(t) \in first..last /\ t \in Into(n)
      /\ Into(n)' = Into(n)
      /\ \A e \in Into(n) : Delivered(e)' = IF e = t THEN Delivered(t) + 1 ELSE Delivered(e)
      /\ \A i \in DOMAIN q : q[i].node = n =>
           /\ i \in Missing(n, slot) <=> Delivered(t) + 1 <= round[i]
           /\ Wired(n, q[i])'
           /\ round[i] # Delivered(t) + 1 => Fills(n, q[i], round[i])'
  BY <1>s, ServeLined
<1>a. /\ first \in Nat /\ last \in Nat /\ round \in [DOMAIN q -> Nat]
      /\ \A i \in DOMAIN q : q[i].node = n => round[i] \in first + 1 .. last /\ ~Full(q[i])
      /\ \A v \in first + 1 .. last : \E i \in DOMAIN q : q[i].node = n /\ round[i] = v
      /\ \A i, j \in DOMAIN q : q[i].node = n /\ q[j].node = n /\ i < j => round[i] < round[j]
      /\ \A e \in Into(n) : Delivered(e) \in first..last
  <2>1. Lined(n, q, round, first, last)
    OBVIOUS
  <2> QED BY ONLY <2>1 DEF Lined
<1>2. PICK v : v = Delivered(t) + 1
  OBVIOUS
<1>3. v \in Nat /\ v >= 1 /\ first \in Nat /\ last \in Nat /\ first <= v - 1 /\ v - 1 <= last
  <2>1. Delivered(t) \in Nat /\ Delivered(t) \in first..last
    BY <1>1
  <2>2. first \in Nat /\ last \in Nat
    BY <1>a
  <2> QED BY ONLY <1>2, <2>1, <2>2
<1>4. last = v - 1
  <2>1. ASSUME v <= last PROVE FALSE
    <3>1. v \in first + 1 .. last
      BY <1>3, <2>1
    <3>2. PICK j \in DOMAIN q : q[j].node = n /\ round[j] = v
      BY <1>1, <1>a, <3>1
    <3>3. v <= round[j]
      BY <1>3, <3>2
    <3> QED BY <1>1, <1>a, <1>2, <3>2, <3>3
  <2> QED BY <1>3, <2>1
<1>5. t \in Edges /\ slot \in 1..ConnectedInputs(n)
  <2>1. t \in Edges /\ t.to = n
    BY ONLY <1>1 DEF Into
  <2>2. t.input \in Nat /\ t.input + 1 \in 1..ConnectedInputs(t.to)
    BY ONLY <1>0, <2>1, InputsOf
  <2> QED BY ONLY <1>s, <2>1, <2>2
<1>6. x \in Whole /\ x.node = n /\ DOMAIN x.source = 1..ConnectedInputs(n)
      /\ \A j \in 1..ConnectedInputs(n) : x.source[j] = None
  BY <1>0, FreshEntry DEF Fresh
<1>7. Wired(n, x) /\ x.source[slot] = None
  BY <1>5, <1>6 DEF Wired
<1>8. Fills(n, x, v)
  <2>1. \A e \in Into(n) : e.input + 1 \in 1..ConnectedInputs(n) /\ Delivered(e) \in first..last
    BY <1>0, <1>1, <1>a, InputsOf DEF Into
  <2>2. \A e \in Into(n) : ~(v <= Delivered(e))
    BY <1>3, <1>4, <2>1
  <2> QED BY <1>6, <2>1, <2>2 DEF Fills
<1>9. y \in Whole /\ y.node = n /\ Wired(n, y)' /\ Fills(n, y, v)'
  <2>1. IsNextRound(t, v)
    BY <1>1, <1>2 DEF IsNextRound
  <2>2. Typed /\ Deliver /\ n \in Nodes /\ Serves(t, n, slot, b) /\ OneEdgeEach(n)
    OBVIOUS
  <2>3. x \in WholeOf(n) /\ Wired(n, x) /\ x.source[slot] = None /\ Fills(n, x, v)
    BY <1>6, <1>7, <1>8 DEF WholeOf
  <2>4. y = Filled(x, slot, b)
    OBVIOUS
  <2>5. y \in WholeOf(n) /\ Wired(n, y)' /\ Fills(n, y, v)'
    BY ONLY <2>1, <2>2, <2>3, <2>4, FillsServe
  <2> QED BY <2>5 DEF WholeOf
<1>b. q = waiting /\ w = Append(q, y)
  OBVIOUS
<1>10. ~Full(y)
  <2>2. y.source = [x.source EXCEPT ![slot] = b]
    <3>1. x \in [node : Nodes, source : Seq(Batch \cup {None})] /\ y = Filled(x, slot, b)
      BY <1>6 DEF Whole, Entry
    <3> QED BY ONLY <3>1 DEF Filled
  <2>3. /\ DOMAIN y.source = 1..ConnectedInputs(n)
        /\ \A s \in 1..ConnectedInputs(n) : s # slot => y.source[s] = x.source[s]
    BY ONLY <1>6, <2>2
  <2>1. \E s \in 1..ConnectedInputs(n) : s # slot
    <3>1. 1 \in 1..ConnectedInputs(n) /\ 2 \in 1..ConnectedInputs(n)
      BY <1>0
    <3> QED BY <1>5, <3>1
  <2> QED BY ONLY <1>6, <2>1, <2>3 DEF Full
<1>11. /\ Len(q) \in Nat /\ DOMAIN q = 1..Len(q) /\ DOMAIN w = 1 .. Len(q) + 1
       /\ (\A i \in 1..Len(q) : w[i] = q[i]) /\ w[Len(q) + 1] = y
  <2>1. w \in Seq(Whole) /\ Len(w) = Len(q) + 1
        /\ (\A i \in 1..Len(q) : w[i] = q[i]) /\ w[Len(q) + 1] = y
    BY ONLY <1>0, <1>9, <1>b, AppendProperties
  <2>2. DOMAIN w = 1..Len(w) /\ Len(q) \in Nat /\ DOMAIN q = 1..Len(q)
    BY <1>0, <2>1, LenProperties
  <2> QED BY <2>1, <2>2
<1>12. \A i \in DOMAIN w : \/ /\ i \in DOMAIN q /\ w[i] = q[i] /\ other(v)[i] = round[i]
                           \/ /\ i = Len(q) + 1 /\ w[i] = y /\ other(v)[i] = v
  BY <1>11
<1>13. /\ \A i \in DOMAIN q : i \in DOMAIN w /\ w[i] = q[i] /\ other(v)[i] = round[i]
       /\ Len(q) + 1 \in DOMAIN w /\ other(v)[Len(q) + 1] = v
  BY <1>11
<1>14. other(v) \in [DOMAIN w -> Nat]
  <2>1. round \in [DOMAIN q -> Nat] /\ v \in Nat
    BY <1>a, <1>3
  <2> QED BY ONLY <1>11, <2>1 DEF other
<1>15. PICK to : to = other(v)
  OBVIOUS
<1> HIDE DEF other
<1>16. \A i \in DOMAIN w : w[i].node = n =>
         /\ to[i] \in first + 1 .. v
         /\ ~Full(w[i]) /\ Wired(n, w[i])' /\ Fills(n, w[i], to[i])'
  <2>1. ASSUME NEW i \in DOMAIN q, q[i].node = n
        PROVE  /\ round[i] \in first + 1 .. v
               /\ ~Full(q[i]) /\ Wired(n, q[i])' /\ Fills(n, q[i], round[i])'
    <3>1. round[i] \in first + 1 .. last /\ ~Full(q[i])
      BY <1>1, <1>a, <2>1
    <3>2. round[i] \in first + 1 .. v /\ round[i] # v
      BY <1>3, <1>4, <3>1
    <3> QED BY <1>1, <1>a, <1>2, <2>1, <3>1, <3>2
  <2>2. v \in first + 1 .. v
    BY <1>3
  <2> QED BY ONLY <1>9, <1>10, <1>12, <1>15, <2>1, <2>2
<1>17. \A r \in first + 1 .. v : \E i \in DOMAIN w : w[i].node = n /\ to[i] = r
  <2> SUFFICES ASSUME NEW r \in first + 1 .. v
               PROVE  \E i \in DOMAIN w : w[i].node = n /\ to[i] = r
    OBVIOUS
  <2>1. CASE r = v
    BY ONLY <1>9, <1>11, <1>13, <1>15, <2>1
  <2>2. CASE r # v
    <3>1. r \in first + 1 .. last
      BY <1>3, <1>4, <2>2
    <3>2. PICK i \in DOMAIN q : q[i].node = n /\ round[i] = r
      BY <1>1, <1>a, <3>1
    <3> QED BY <1>13, <1>15, <3>2
  <2> QED BY <2>1, <2>2
<1>18. \A i, j \in DOMAIN w : w[i].node = n /\ w[j].node = n /\ i < j => to[i] < to[j]
  <2>0. ASSUME NEW i \in DOMAIN w, NEW j \in DOMAIN w, w[i].node = n, w[j].node = n, i < j
        PROVE  to[i] < to[j]
    <3>1. i \in DOMAIN q /\ w[i] = q[i] /\ to[i] = round[i]
      <4>1. i \in 1 .. Len(q) + 1 /\ j \in 1 .. Len(q) + 1 /\ i < j
        BY <1>11, <2>0
      <4> QED BY ONLY <1>11, <1>12, <1>15, <2>0, <4>1
    <3>2. CASE j \in DOMAIN q
      <4>1. w[j] = q[j] /\ to[j] = round[j]
        BY <1>13, <1>15, <3>2
      <4>2. \A k, m \in DOMAIN q : q[k].node = n /\ q[m].node = n /\ k < m => round[k] < round[m]
        BY <1>a
      <4>3. q[i].node = n /\ q[j].node = n
        BY <2>0, <3>1, <4>1
      <4>4. i \in DOMAIN q /\ j \in DOMAIN q /\ i < j
        BY <2>0, <3>1, <3>2
      <4>5. round[i] < round[j]
        BY ONLY <4>2, <4>3, <4>4
      <4> QED BY ONLY <3>1, <4>1, <4>5
    <3>3. CASE j \notin DOMAIN q
      <4>1. to[j] = v
        BY <1>12, <1>15, <3>3
      <4>2. round[i] \in first + 1 .. last
        BY <1>1, <1>a, <2>0, <3>1
      <4> QED BY <1>3, <1>4, <3>1, <4>1, <4>2
    <3> QED BY <3>2, <3>3
  <2> QED BY ONLY <2>0
<1>19. \A e \in Into(n) : Delivered(e)' \in first..v
  <2>1. \A e \in Into(n) : Delivered(e) \in first..last
    BY <1>1, <1>a
  <2>2. \A e \in Into(n) : Delivered(e)' = IF e = t THEN v ELSE Delivered(e)
    BY <1>1, <1>a, <1>2
  <2> QED BY <1>3, <1>4, <2>1, <2>2
<1>20. Lined(n, w, to, first, v)'
  BY ONLY <1>1, <1>a, <1>3, <1>14, <1>15, <1>16, <1>17, <1>18, <1>19 DEF Lined
<1> QED BY <1>10, <1>20

\* The oldest entry that waits for the edge is the one of its next round.
LEMMA ServeOldest ==
  ASSUME Typed, Deliver, NEW t, NEW n \in Nodes, NEW slot, NEW b, Serves(t, n, slot, b),
         OneEdgeEach(n),
         NEW round, NEW first, NEW last,
         NEW q, q = waiting, Lined(n, q, round, first, last),
         NEW k, IsOldest(n, slot, k),
         NEW y, y = Filled(q[k], slot, b)
  PROVE  /\ k \in DOMAIN q /\ q[k] \in WholeOf(n) /\ IsNextRound(t, round[k])
         /\ y \in WholeOf(n)
         /\ Wired(n, y)' /\ Wired(n, y) /\ Fills(n, y, round[k])'
         /\ Full(y) => Synced(n, y.source)' /\ \A e \in Into(n) : round[k] <= Delivered(e)'
<1>s. /\ t = wf.edges[Min(todo)] /\ n = t.to /\ slot = t.input + 1
      /\ b = [node |-> t.from, output |-> t.output, run |-> Len(runData[t.from])]
  BY DEF Serves
<1>0. q \in Seq(Whole) /\ DOMAIN q = 1..Len(q) /\ Len(q) \in Nat
  BY LenProperties DEF Typed, Shape
<1>1. /\ Delivered(t) \in Nat /\ Delivered(t) \in first..last
      /\ \A i \in DOMAIN q : q[i].node = n =>
           (i \in Missing(n, slot) <=> Delivered(t) + 1 <= round[i])
  BY <1>s, ServeLined
<1>2. /\ first \in Nat /\ last \in Nat /\ round \in [DOMAIN q -> Nat]
      /\ \A i \in DOMAIN q : q[i].node = n =>
           round[i] \in first + 1 .. last /\ Wired(n, q[i]) /\ Fills(n, q[i], round[i])
      /\ \A v \in first + 1 .. last : \E i \in DOMAIN q : q[i].node = n /\ round[i] = v
      /\ \A i, j \in DOMAIN q : q[i].node = n /\ q[j].node = n /\ i < j => round[i] < round[j]
  <2>1. Lined(n, q, round, first, last)
    OBVIOUS
  <2> QED BY ONLY <2>1 DEF Lined
<1>3. k \in DOMAIN q /\ q[k].node = n /\ q[k].source[slot] = None
  BY DEF IsOldest, Missing
<1>4. PICK v : v = Delivered(t) + 1
  OBVIOUS
<1>5. v \in Nat /\ round[k] \in Nat /\ v <= round[k] /\ round[k] <= last /\ first + 1 <= v
  <2>0. k \in Missing(n, slot)
    BY DEF IsOldest
  <2>1. v <= round[k] /\ round[k] \in first + 1 .. last
    BY ONLY <1>1, <1>2, <1>3, <1>4, <2>0
  <2> QED BY ONLY <1>1, <1>2, <1>4, <2>1
<1>6. round[k] = v
  <2>1. v \in first + 1 .. last
    BY ONLY <1>2, <1>5
  <2>2. PICK j \in DOMAIN q : q[j].node = n /\ round[j] = v
    BY ONLY <1>2, <2>1
  <2>3. j \in Missing(n, slot)
    BY <1>1, <1>4, <1>5, <2>2
  <2>4. k <= j
    BY <2>3 DEF IsOldest
  <2>5. ASSUME k < j PROVE FALSE
    <3>1. round[k] < round[j]
      BY ONLY <1>2, <1>3, <2>2, <2>5
    <3> QED BY ONLY <1>5, <2>2, <3>1
  <2>6. k = j
    BY ONLY <1>0, <1>3, <2>2, <2>4, <2>5
  <2> QED BY ONLY <2>2, <2>6
<1>7. PICK x : x = q[k]
  OBVIOUS
<1>8. x \in Whole
  BY ONLY <1>0, <1>3, <1>7, ElementOfSeq
<1>9. /\ y \in WholeOf(n)
      /\ Wired(n, y)' /\ Wired(n, y) /\ Fills(n, y, v)'
      /\ Full(y) => Synced(n, y.source)' /\ \A e \in Into(n) : v <= Delivered(e)'
  <2>1. IsNextRound(t, v)
    BY <1>1, <1>4 DEF IsNextRound
  <2>2. y = Filled(x, slot, b)
    BY <1>7
  <2>3. Wired(n, x) /\ x.source[slot] = None /\ Fills(n, x, v)
    BY ONLY <1>2, <1>3, <1>6, <1>7
  <2>4. x \in WholeOf(n)
    BY ONLY <1>3, <1>7, <1>8 DEF WholeOf
  <2> QED BY <2>1, <2>2, <2>3, <2>4, FillsServe
<1>10. q[k] \in WholeOf(n)
  BY ONLY <1>3, <1>7, <1>8 DEF WholeOf
<1>11. IsNextRound(t, round[k])
  BY ONLY <1>1, <1>4, <1>6 DEF IsNextRound
<1> QED BY ONLY <1>3, <1>6, <1>9, <1>10, <1>11

\* It waits on when it still misses an input.
LEMMA ServeKeep ==
  ASSUME Typed, Deliver, NEW t, NEW n \in Nodes, NEW slot, NEW b, Serves(t, n, slot, b),
         OneEdgeEach(n),
         NEW round, NEW first, NEW last,
         NEW q, q = waiting, Lined(n, q, round, first, last),
         NEW k, IsOldest(n, slot, k),
         NEW y, y = Filled(q[k], slot, b), ~Full(y),
         NEW w, w = [q EXCEPT ![k] = y]
  PROVE  Lined(n, w, round, first, last)'
<1>s. /\ t = wf.edges[Min(todo)] /\ n = t.to /\ slot = t.input + 1
      /\ b = [node |-> t.from, output |-> t.output, run |-> Len(runData[t.from])]
  BY DEF Serves
<1>0. q \in Seq(Whole) /\ DOMAIN q = 1..Len(q) /\ Len(q) \in Nat
  BY LenProperties DEF Typed, Shape
<1>1. /\ Delivered(t) \in Nat /\ Delivered(t) \in first..last
      /\ Into(n)' = Into(n)
      /\ \A e \in Into(n) : Delivered(e)' = IF e = t THEN Delivered(t) + 1 ELSE Delivered(e)
      /\ \A i \in DOMAIN q : q[i].node = n =>
           /\ Wired(n, q[i])'
           /\ round[i] # Delivered(t) + 1 => Fills(n, q[i], round[i])'
  BY <1>s, ServeLined
<1>2. /\ first \in Nat /\ last \in Nat /\ round \in [DOMAIN q -> Nat]
      /\ \A i \in DOMAIN q : q[i].node = n => round[i] \in first + 1 .. last /\ ~Full(q[i])
      /\ \A v \in first + 1 .. last : \E i \in DOMAIN q : q[i].node = n /\ round[i] = v
      /\ \A i, j \in DOMAIN q : q[i].node = n /\ q[j].node = n /\ i < j => round[i] < round[j]
      /\ \A e \in Into(n) : Delivered(e) \in first..last
  <2>1. Lined(n, q, round, first, last)
    OBVIOUS
  <2> QED BY ONLY <2>1 DEF Lined
<1>3. /\ k \in DOMAIN q /\ q[k].node = n /\ round[k] = Delivered(t) + 1
      /\ y.node = n /\ Wired(n, y)' /\ Fills(n, y, round[k])'
  <2>1. /\ k \in DOMAIN q /\ q[k] \in WholeOf(n) /\ IsNextRound(t, round[k])
        /\ y \in WholeOf(n) /\ Wired(n, y)' /\ Fills(n, y, round[k])'
    BY ServeOldest
  <2> QED BY ONLY <2>1 DEF WholeOf, IsNextRound
<1>4. DOMAIN w = DOMAIN q /\ \A i \in DOMAIN q : w[i] = IF i = k THEN y ELSE q[i]
  BY <1>3
<1>b. ~Full(y)
  OBVIOUS
<1>5. \A i \in DOMAIN q : w[i].node = n <=> q[i].node = n
  BY ONLY <1>3, <1>4
<1>6. ASSUME NEW i \in DOMAIN w, w[i].node = n
      PROVE  /\ round[i] \in first + 1 .. last
             /\ ~Full(w[i]) /\ Wired(n, w[i])' /\ Fills(n, w[i], round[i])'
  <2>1. i \in DOMAIN q /\ q[i].node = n /\ round[i] \in first + 1 .. last
    BY ONLY <1>2, <1>4, <1>5, <1>6
  <2>2. CASE i = k
    BY ONLY <1>b, <1>3, <1>4, <2>1, <2>2
  <2>3. CASE i # k
    <3>1. CASE i < k
      <4>1. round[i] < round[k] /\ round[i] \in Nat /\ round[k] \in Nat
        BY ONLY <1>2, <1>3, <2>1, <3>1
      <4>2. round[i] # Delivered(t) + 1
        BY ONLY <1>3, <4>1
      <4> QED BY ONLY <1>1, <1>2, <1>4, <2>1, <2>3, <4>2
    <3>2. CASE k < i
      <4>1. round[k] < round[i] /\ round[i] \in Nat /\ round[k] \in Nat
        BY ONLY <1>2, <1>3, <2>1, <3>2
      <4>2. round[i] # Delivered(t) + 1
        BY ONLY <1>3, <4>1
      <4> QED BY ONLY <1>1, <1>2, <1>4, <2>1, <2>3, <4>2
    <3> QED BY ONLY <1>0, <1>3, <2>1, <2>3, <3>1, <3>2
  <2> QED BY <2>2, <2>3
<1>7. \A v \in first + 1 .. last : \E i \in DOMAIN w : w[i].node = n /\ round[i] = v
  BY ONLY <1>2, <1>4, <1>5
<1>8. \A i, j \in DOMAIN w : w[i].node = n /\ w[j].node = n /\ i < j => round[i] < round[j]
  BY ONLY <1>2, <1>4, <1>5
<1>9. \A e \in Into(n) : Delivered(e)' \in first..last
  <2>1. Delivered(t) + 1 \in first..last
    <3>1. round[k] \in first + 1 .. last
      BY ONLY <1>2, <1>3
    <3> QED BY ONLY <1>1, <1>2, <1>3, <3>1
  <2> QED BY ONLY <1>1, <1>2, <2>1
<1> QED BY ONLY <1>1, <1>2, <1>4, <1>6, <1>7, <1>8, <1>9 DEF Lined

\* It leaves when it misses no input any more, and is the first.
LEMMA ServeTake ==
  ASSUME Typed, Deliver, NEW t, NEW n \in Nodes, NEW slot, NEW b, Serves(t, n, slot, b),
         OneEdgeEach(n),
         NEW round, NEW first, NEW last,
         NEW q, q = waiting, Lined(n, q, round, first, last),
         NEW k, IsOldest(n, slot, k),
         NEW y, y = Filled(q[k], slot, b), Full(y),
         NEW w, w = RemoveAt(q, k)
  PROVE  \E other, from : Lined(n, w, other, from, last)'
<1> DEFINE other == [i \in DOMAIN w |-> IF i < k THEN round[i] ELSE round[i + 1]]
           old(i) == IF i < k THEN i ELSE i + 1
<1>s. /\ t = wf.edges[Min(todo)] /\ n = t.to /\ slot = t.input + 1
      /\ b = [node |-> t.from, output |-> t.output, run |-> Len(runData[t.from])]
  BY DEF Serves
<1>0. q \in Seq(Whole) /\ DOMAIN q = 1..Len(q) /\ Len(q) \in Nat
  BY LenProperties DEF Typed, Shape
<1>1. /\ Delivered(t) \in Nat /\ Delivered(t) \in first..last
      /\ Into(n)' = Into(n)
      /\ \A e \in Into(n) : Delivered(e)' = IF e = t THEN Delivered(t) + 1 ELSE Delivered(e)
      /\ \A i \in DOMAIN q : q[i].node = n =>
           /\ Wired(n, q[i])'
           /\ round[i] # Delivered(t) + 1 => Fills(n, q[i], round[i])'
  BY <1>s, ServeLined
<1>2. /\ first \in Nat /\ last \in Nat /\ round \in [DOMAIN q -> Nat]
      /\ \A i \in DOMAIN q : q[i].node = n =>
           round[i] \in first + 1 .. last /\ ~Full(q[i]) /\ Wired(n, q[i]) /\ Fills(n, q[i], round[i])
      /\ \A v \in first + 1 .. last : \E i \in DOMAIN q : q[i].node = n /\ round[i] = v
      /\ \A i, j \in DOMAIN q : q[i].node = n /\ q[j].node = n /\ i < j => round[i] < round[j]
      /\ \A e \in Into(n) : Delivered(e) \in first..last
  <2>1. Lined(n, q, round, first, last)
    OBVIOUS
  <2> QED BY ONLY <2>1 DEF Lined
<1>3. /\ k \in DOMAIN q /\ q[k].node = n /\ round[k] = Delivered(t) + 1
      /\ y \in WholeOf(n) /\ Wired(n, y)
      /\ \A e \in Into(n) : round[k] <= Delivered(e)'
  <2>1. /\ k \in DOMAIN q /\ q[k] \in WholeOf(n) /\ IsNextRound(t, round[k])
        /\ y \in WholeOf(n) /\ Wired(n, y)
    BY ServeOldest
  <2>2. \A e \in Into(n) : round[k] <= Delivered(e)'
    <3>1. Full(y)
      OBVIOUS
    <3> QED BY <3>1, ServeOldest
  <2> QED BY ONLY <2>1, <2>2 DEF WholeOf, IsNextRound
<1>4. round[k] \in Nat /\ first + 1 <= round[k] /\ round[k] <= last
  <2>1. round[k] \in first + 1 .. last
    BY ONLY <1>2, <1>3
  <2> QED BY ONLY <1>2, <2>1
<1>5. round[k] = first + 1
  <2> SUFFICES ASSUME round[k] # first + 1 PROVE FALSE
    OBVIOUS
  <2>a. round[k] # first + 1
    OBVIOUS
  <2>0. first + 1 < round[k]
    BY ONLY <1>2, <1>4, <2>a
  <2>1. first + 1 \in first + 1 .. last
    BY ONLY <1>2, <1>4, <2>0
  <2>2. PICK j \in DOMAIN q : q[j].node = n /\ round[j] = first + 1
    BY ONLY <1>2, <2>1
  <2>3. ~Full(q[j]) /\ Fills(n, q[j], first + 1)
    BY ONLY <1>2, <2>2
  <2>4. \A e \in Into(n) : first + 1 <= Delivered(e)
    <3>1. ASSUME NEW e \in Into(n) PROVE first + 1 <= Delivered(e)
      <4>1. Delivered(e) \in first..last /\ round[k] <= Delivered(e)'
        BY ONLY <1>2, <1>3, <3>1
      <4>2. Delivered(e)' = IF e = t THEN Delivered(t) + 1 ELSE Delivered(e)
        BY ONLY <1>1, <3>1
      <4> QED BY ONLY <1>1, <1>2, <1>3, <1>4, <2>0, <4>1, <4>2
    <3> QED BY ONLY <3>1
  <2>5. \A e \in Into(n) : q[j].source[e.input + 1] # None
    BY ONLY <2>3, <2>4 DEF Fills
  <2>6. q[j] \in Whole
    BY ONLY <1>0, <2>2, ElementOfSeq
  <2>7. DOMAIN q[j].source = 1..ConnectedInputs(n)
    <3>1. q[j].source \in Seq(Batch \cup {None}) /\ Len(q[j].source) = ConnectedInputs(n)
      BY ONLY <2>2, <2>6 DEF Whole, Entry
    <3> QED BY ONLY <3>1, LenProperties
  <2>8. \A s \in DOMAIN y.source : \E e \in Into(n) : e.input + 1 = s
    <3>1. Full(y)
      OBVIOUS
    <3> QED BY ONLY <1>3, <3>1 DEF Full, Wired
  <2>9. DOMAIN y.source = 1..ConnectedInputs(n)
    <3>1. y.source \in Seq(Batch \cup {None}) /\ Len(y.source) = ConnectedInputs(n)
      BY ONLY <1>3 DEF WholeOf, Whole, Entry
    <3> QED BY ONLY <3>1, LenProperties
  <2>10. Full(q[j])
    BY ONLY <2>5, <2>7, <2>8, <2>9 DEF Full
  <2> QED BY ONLY <2>3, <2>10
<1>6. w \in Seq(Whole) /\ Len(w) = Len(q) - 1 /\ DOMAIN w = 1 .. Len(q) - 1
      /\ \A i \in 1 .. Len(q) - 1 : w[i] = q[old(i)]
  <2>1. w = RemoveAt(q, k) /\ k \in 1..Len(q)
    BY <1>0, <1>3
  <2>2. /\ RemoveAt(q, k) \in Seq(Whole) /\ Len(RemoveAt(q, k)) = Len(q) - 1
        /\ \A i \in 1 .. Len(q) - 1 : RemoveAt(q, k)[i] = IF i < k THEN q[i] ELSE q[i + 1]
    BY ONLY <1>0, <2>1, RemoveAtElements
  <2>3. w \in Seq(Whole) /\ Len(w) = Len(q) - 1
    BY ONLY <2>1, <2>2
  <2>4. DOMAIN w = 1..Len(w)
    BY ONLY <2>3, LenProperties
  <2> QED BY ONLY <2>1, <2>2, <2>3, <2>4
<1>7. \A i \in DOMAIN w : /\ old(i) \in DOMAIN q /\ old(i) # k
                          /\ w[i] = q[old(i)] /\ other[i] = round[old(i)]
  BY ONLY <1>0, <1>3, <1>6
<1>8. \A i, j \in DOMAIN w : i < j => old(i) < old(j)
  BY ONLY <1>0, <1>3, <1>6
<1>9. \A i \in DOMAIN q : i # k => \E j \in DOMAIN w : old(j) = i
  <2>1. ASSUME NEW i \in DOMAIN q, i # k PROVE \E j \in DOMAIN w : old(j) = i
    <3>1. CASE i < k
      <4>1. i \in DOMAIN w /\ old(i) = i
        BY ONLY <1>0, <1>3, <1>6, <2>1, <3>1
      <4> QED BY ONLY <4>1
    <3>2. CASE i > k
      <4>1. i - 1 \in DOMAIN w /\ old(i - 1) = i
        BY ONLY <1>0, <1>3, <1>6, <2>1, <3>2
      <4> QED BY ONLY <4>1
    <3> QED BY ONLY <1>0, <1>3, <2>1, <3>1, <3>2
  <2> QED BY ONLY <2>1
<1>10. other \in [DOMAIN w -> Nat]
  <2>1. \A i \in DOMAIN w : round[old(i)] \in Nat
    BY ONLY <1>2, <1>7
  <2> QED BY <2>1
<1> HIDE DEF old, other
<1>11. \A i \in DOMAIN q : q[i].node = n /\ i # k => round[i] # round[k] /\ round[i] \in round[k] + 1 .. last
  <2>1. ASSUME NEW i \in DOMAIN q, q[i].node = n, i # k
        PROVE  round[i] # round[k] /\ round[i] \in round[k] + 1 .. last
    <3>1. round[i] \in first + 1 .. last
      BY ONLY <1>2, <2>1
    <3>2. CASE i < k
      <4>1. round[i] < round[k]
        BY ONLY <1>2, <1>3, <2>1, <3>2
      <4> QED BY ONLY <1>2, <1>4, <1>5, <3>1, <4>1
    <3>3. CASE k < i
      <4>1. round[k] < round[i]
        BY ONLY <1>2, <1>3, <2>1, <3>3
      <4> QED BY ONLY <1>2, <1>4, <1>5, <3>1, <4>1
    <3> QED BY ONLY <1>0, <1>3, <2>1, <3>2, <3>3
  <2> QED BY ONLY <2>1
<1>12. \A i \in DOMAIN w : w[i].node = n =>
         /\ other[i] \in round[k] + 1 .. last
         /\ ~Full(w[i]) /\ Wired(n, w[i])' /\ Fills(n, w[i], other[i])'
  BY ONLY <1>1, <1>2, <1>3, <1>7, <1>11
<1>13. \A v \in round[k] + 1 .. last : \E i \in DOMAIN w : w[i].node = n /\ other[i] = v
  <2>1. ASSUME NEW v \in round[k] + 1 .. last
        PROVE  \E i \in DOMAIN w : w[i].node = n /\ other[i] = v
    <3>1. v \in first + 1 .. last /\ v # round[k]
      BY ONLY <1>2, <1>4, <2>1
    <3>2. PICK i \in DOMAIN q : q[i].node = n /\ round[i] = v
      BY ONLY <1>2, <3>1
    <3>3. PICK j \in DOMAIN w : old(j) = i
      BY ONLY <1>9, <3>1, <3>2
    <3> QED BY ONLY <1>7, <3>2, <3>3
  <2> QED BY ONLY <2>1
<1>14. \A i, j \in DOMAIN w : w[i].node = n /\ w[j].node = n /\ i < j => other[i] < other[j]
  BY ONLY <1>2, <1>7, <1>8
<1>15. \A e \in Into(n) : Delivered(e)' \in round[k] .. last
  <2>1. ASSUME NEW e \in Into(n) PROVE Delivered(e)' \in round[k] .. last
    <3>1. Delivered(e) \in first..last /\ round[k] <= Delivered(e)'
      BY ONLY <1>2, <1>3, <2>1
    <3>2. Delivered(e)' = IF e = t THEN Delivered(t) + 1 ELSE Delivered(e)
      BY ONLY <1>1, <2>1
    <3> QED BY ONLY <1>1, <1>2, <1>3, <1>4, <3>1, <3>2
  <2> QED BY ONLY <2>1
<1>16. PICK to, from : to = other /\ from = round[k]
  OBVIOUS
<1>17. Lined(n, w, to, from, last)'
  BY ONLY <1>1, <1>2, <1>4, <1>10, <1>12, <1>13, <1>14, <1>15, <1>16 DEF Lined
<1> QED BY ONLY <1>17

\* The waiting entries of the node that is served, and what becomes ready.
LEMMA FillSame ==
  ASSUME Typed, Deliver, NEW n \in Nodes, n = wf.edges[Min(todo)].to,
         OneEdgeEach(n), ConnectedInputs(n) > 1,
         NEW round, NEW first, NEW last, Lined(n, waiting, round, first, last)
  PROVE  /\ \E other, from, to : Lined(n, waiting, other, from, to)'
         /\ ready' = ready \/ \E y \in Entry : y.node = n /\ Synced(n, y.source)' /\ MakeReady(y)
<1>1. PICK t : t = wf.edges[Min(todo)]
  OBVIOUS
<1>2. PICK b : b = [node |-> t.from, output |-> t.output, run |-> Len(runData[t.from])]
  OBVIOUS
<1>s. PICK slot : slot = t.input + 1
  OBVIOUS
<1>t. Serves(t, n, slot, b)
  BY <1>1, <1>2, <1>s DEF Serves
<1>3. PICK q : q = waiting
  OBVIOUS
<1>4. Lined(n, q, round, first, last)
  BY <1>3
<1>5. FillWaiting(n, slot, b)
  <2>1. ~(ConnectedInputs(n) <= 1)
    <3>1. wf \in Workflows
      BY DEF Typed, TypeOK
    <3>2. ConnectedInputs(n) \in Nat
      BY <3>1, InputsOf
    <3> QED BY <3>2
  <2> QED BY <1>1, <1>2, <1>s, <2>1 DEF Deliver
<1>6. slot \in 1..ConnectedInputs(n) /\ b \in Batch
  BY <1>1, <1>2, <1>s, NextEdge DEF Deliver
<1>7. CASE /\ Missing(n, slot) = {}
           /\ Moved(Filled(Fresh(n), slot, b), waiting,
                    Append(waiting, Filled(Fresh(n), slot, b)))
  <2>1. PICK x : x = Fresh(n)
    OBVIOUS
  <2>2. PICK y : y = Filled(x, slot, b)
    OBVIOUS
  <2>3. PICK w : w = Append(waiting, y)
    OBVIOUS
  <2>4. ~Full(y) /\ \E other, to : Lined(n, w, other, first, to)'
    BY <1>t, <1>3, <1>4, <1>7, <2>1, <2>2, <2>3, ServeNew
  <2>5. waiting' = w /\ ready' = ready
    BY <1>7, <2>1, <2>2, <2>3, <2>4 DEF Moved
  <2>6. PICK other, to : Lined(n, w, other, first, to)'
    BY <2>4
  <2>7. Lined(n, waiting, other, first, to)'
    BY ONLY <2>5, <2>6, LinedNow
  <2> QED BY <2>5, <2>7
<1>8. CASE \E k \in Missing(n, slot) :
             /\ k \in 1..Len(waiting) /\ \A j \in Missing(n, slot) : k <= j
             /\ Moved(Filled(waiting[k], slot, b), RemoveAt(waiting, k),
                      [waiting EXCEPT ![k] = Filled(waiting[k], slot, b)])
  <2>1. PICK k \in Missing(n, slot) :
             /\ \A j \in Missing(n, slot) : k <= j
             /\ Moved(Filled(waiting[k], slot, b), RemoveAt(waiting, k),
                      [waiting EXCEPT ![k] = Filled(waiting[k], slot, b)])
    BY <1>8
  <2>k. IsOldest(n, slot, k)
    BY ONLY <2>1 DEF IsOldest
  <2>2. PICK y : y = Filled(q[k], slot, b)
    OBVIOUS
  <2>3. y \in WholeOf(n) /\ (Full(y) => Synced(n, y.source)')
    <3>1. Typed /\ Deliver /\ n \in Nodes /\ OneEdgeEach(n)
      OBVIOUS
    <3> QED BY ONLY <1>t, <1>3, <1>4, <2>k, <2>2, <3>1, ServeOldest
  <2>4. \/ Full(y) /\ waiting' = RemoveAt(q, k) /\ MakeReady(y)
        \/ ~Full(y) /\ waiting' = [q EXCEPT ![k] = y] /\ ready' = ready
    BY <1>3, <2>1, <2>2 DEF Moved
  <2>5. CASE ~Full(y)
    <3>1. PICK w : w = [q EXCEPT ![k] = y]
      OBVIOUS
    <3>2. Lined(n, w, round, first, last)'
      BY <1>t, <1>3, <1>4, <2>k, <2>2, <2>5, <3>1, ServeKeep
    <3>3. waiting' = w /\ ready' = ready
      BY <2>4, <2>5, <3>1
    <3>4. Lined(n, waiting, round, first, last)'
      BY ONLY <3>2, <3>3, LinedNow
    <3> QED BY <3>3, <3>4
  <2>6. CASE Full(y)
    <3>1. PICK w : w = RemoveAt(q, k)
      OBVIOUS
    <3>2. PICK other, from : Lined(n, w, other, from, last)'
      BY <1>t, <1>3, <1>4, <2>k, <2>2, <2>6, <3>1, ServeTake
    <3>3. waiting' = w /\ MakeReady(y)
      BY <2>4, <2>6, <3>1
    <3>4. Lined(n, waiting, other, from, last)'
      BY ONLY <3>2, <3>3, LinedNow
    <3>5. y \in Entry /\ y.node = n
      BY <2>3 DEF WholeOf, Whole
    <3> QED BY <2>3, <2>6, <3>3, <3>4, <3>5
  <2> QED BY <2>5, <2>6
<1> QED BY <1>5, <1>6, <1>7, <1>8, FillCases

\* A run adds to what is sent what is then still to be served.
LEMMA RecordCounts ==
  ASSUME Typed, todo = {}, wf' = wf, NEW x \in Entry, NEW outs \in SUBSET Nat,
         runs' \in 1..MaxNodeRuns, Record(x, outs, x.source), pc' # "end", NEW e \in Edges
  PROVE  Delivered(e)' = Delivered(e)
<1> DEFINE u == [source |-> x.source, outs |-> outs, index |-> runs' - 1]
<1>1. u \in Run /\ x.node \in Nodes /\ u.outs = outs
  BY RecordEffect DEF Typed, Entry
<1>2. runData' = [runData EXCEPT ![x.node] = Append(runData[x.node], u)]
  BY DEF Record
<1>3. todo' = {i \in DOMAIN wf.edges : wf.edges[i].from = x.node /\ wf.edges[i].output \in outs}
  BY RecordEffect DEF Typed
<1> HIDE DEF u
<1>4. runData \in [Nodes -> Seq(Run)] /\ e.from \in Nodes
      /\ \E k \in DOMAIN wf.edges : wf.edges[k] = e
  BY WorkflowFacts DEF Typed, TypeOK, Edge
<1>5. Count(runData[e.from], Sent(e)) \in Nat
  BY <1>4, CountType
<1>6. Undelivered(e) = 0
  BY DEF Undelivered
<1>7. Undelivered(e)' = IF e.from = x.node /\ e.output \in outs THEN 1 ELSE 0
  <2>1. (\E i \in todo' : wf.edges[i] = e) <=> e.from = x.node /\ e.output \in outs
    BY <1>3, <1>4
  <2> QED BY <2>1 DEF Undelivered
<1>8. CASE e.from = x.node
  <2>1. runData'[e.from] = Append(runData[e.from], u)
    BY <1>2, <1>4, <1>8
  <2>2. Count(Append(runData[e.from], u), Sent(e))
          = Count(runData[e.from], Sent(e)) + IF u \in Sent(e) THEN 1 ELSE 0
    BY <1>1, <1>4, CountAppend
  <2>3. u \in Sent(e) <=> e.output \in outs
    BY <1>1 DEF Sent
  <2>4. Count(runData'[e.from], Sent(e))
          = Count(runData[e.from], Sent(e)) + IF e.output \in outs THEN 1 ELSE 0
    BY ONLY <2>1, <2>2, <2>3
  <2> QED BY <1>5, <1>6, <1>7, <1>8, <2>4 DEF Delivered
<1>9. CASE e.from # x.node
  <2>1. runData'[e.from] = runData[e.from]
    BY <1>2, <1>4, <1>9
  <2> QED BY <1>5, <1>6, <1>7, <1>9, <2>1 DEF Delivered
<1> QED BY <1>8, <1>9

-----------------------------------------------------------------------------
(* The entries of a join, in every queue, as long as it ran with all its   *)
(* inputs.                                                                 *)

InHand(n) == pc \in {"before", "running"} /\ entry.node = n

Regular(n) == RunsAreFull(n) /\ (InHand(n) => None \notin Range(entry.source))

JoinQueue(n) ==
  /\ \A i \in DOMAIN stack : stack[i].node = n => Synced(n, stack[i].source)
  /\ \A i \in DOMAIN ready : ready[i].node = n => Synced(n, ready[i].source)
  /\ InHand(n) => Synced(n, entry.source)
  /\ \E round, first, last : Lined(n, waiting, round, first, last)

QueueInv ==
  pauses = 0 /\ pc # "end" =>
    \A n \in Joins : OneEdgeEach(n) /\ Regular(n) => JoinQueue(n)

RunsInv ==
  pauses = 0 =>
    \A n \in Joins : OneEdgeEach(n) /\ RunsAreFull(n) =>
      \A k \in DOMAIN runData[n] : Synced(n, runData[n][k].source)

LEMMA JoinFacts ==
  ASSUME Typed, NEW n \in Joins
  PROVE  n \in Nodes /\ ConnectedInputs(n) \in Nat /\ ConnectedInputs(n) > 1
         /\ \A x \in Whole : x.node = n /\ ~Full(x) => None \in Range(x.source)
<1>1. n \in Nodes /\ ConnectedInputs(n) \in Nat /\ ConnectedInputs(n) > 1
  BY InputsOf DEF Joins, Typed, TypeOK
<1>2. \A x \in Whole : x.node = n /\ ~Full(x) => None \in Range(x.source)
  BY DEF Full, Range
<1> QED BY <1>1, <1>2

\* What becomes ready keeps out of a set if the entry does.
LEMMA ReadyOff ==
  ASSUME TypeOK, NEW x \in Entry, MakeReady(x), NEW P, x \notin P,
         \A i \in DOMAIN ready : ready[i] \notin P
  PROVE  \A i \in DOMAIN ready' : ready'[i] \notin P
<1>1. /\ ready' \in Seq(Entry) /\ ready \in Seq(Entry)
      /\ Count(ready', P) = Count(ready, P) + IF x \in P THEN 1 ELSE 0
  BY MakeReadyEffect DEF TypeOK
<1>2. Count(ready, P) = 0
  BY <1>1, CountType
<1>3. Count(ready', P) = 0
  BY <1>1, <1>2
<1> QED BY <1>1, <1>3, CountType

LEMMA FillReady ==
  ASSUME Typed, NEW m \in Nodes, NEW slot \in 1..ConnectedInputs(m), NEW b \in Batch,
         FillWaiting(m, slot, b)
  PROVE  ready' = ready \/ \E y \in Entry : y.node = m /\ MakeReady(y)
<1>1. waiting \in Seq(Whole) /\ wf \in Workflows
  BY DEF Typed, TypeOK, Shape
<1>2. CASE Moved(Filled(Fresh(m), slot, b), waiting, Append(waiting, Filled(Fresh(m), slot, b)))
  <2>1. Fresh(m) \in Whole /\ Fresh(m).node = m /\ slot \in DOMAIN Fresh(m).source
        /\ Fresh(m).source[slot] = None
    BY <1>1, FreshEntry DEF Fresh
  <2>2. Filled(Fresh(m), slot, b) \in Whole /\ Filled(Fresh(m), slot, b).node = m
    BY <2>1, FilledOf
  <2> QED BY <1>2, <2>2 DEF Moved, Whole
<1>3. CASE \E i \in Missing(m, slot) :
             /\ i \in 1..Len(waiting)
             /\ Moved(Filled(waiting[i], slot, b), RemoveAt(waiting, i),
                      [waiting EXCEPT ![i] = Filled(waiting[i], slot, b)])
  <2>1. PICK i \in Missing(m, slot) :
          /\ i \in 1..Len(waiting)
          /\ Moved(Filled(waiting[i], slot, b), RemoveAt(waiting, i),
                   [waiting EXCEPT ![i] = Filled(waiting[i], slot, b)])
    BY <1>3
  <2>2. waiting[i] \in Whole /\ waiting[i].node = m /\ waiting[i].source[slot] = None
    BY <1>1, <2>1, ElementOfSeq DEF Missing
  <2>3. slot \in DOMAIN waiting[i].source
    <3>1. DOMAIN waiting[i].source = 1..Len(waiting[i].source)
      BY <2>2, LenProperties DEF Whole, Entry
    <3> QED BY <2>2, <3>1 DEF Whole
  <2>4. Filled(waiting[i], slot, b) \in Whole /\ Filled(waiting[i], slot, b).node = m
    BY <2>2, <2>3, FilledOf
  <2> QED BY <2>1, <2>4 DEF Moved, Whole
<1> QED BY <1>2, <1>3, FillCases

\* A step after which the queues hold what they held keeps them in order.
LEMMA KeepQueue ==
  ASSUME Typed, Grows, NEW n, \A e \in Into(n) : Delivered(e)' = Delivered(e),
         \A i \in DOMAIN stack' : stack'[i].node = n => Synced(n, stack'[i].source),
         \A i \in DOMAIN ready' : ready'[i].node = n => Synced(n, ready'[i].source),
         InHand(n)' => Synced(n, entry'.source),
         \E round, first, last : Lined(n, waiting', round, first, last)
  PROVE  JoinQueue(n)'
<1>1. \A s : Synced(n, s) => Synced(n, s)'
  BY SyncedStable
<1>2. \E round, first, last : Lined(n, waiting, round, first, last)'
  <2>1. PICK w : w = waiting'
    OBVIOUS
  <2>2. PICK round, first, last : Lined(n, w, round, first, last)
    BY <2>1
  <2>3. Lined(n, w, round, first, last)'
    BY <2>2, LinedStable
  <2>4. Lined(n, waiting, round, first, last)'
    BY ONLY <2>1, <2>3, LinedNow
  <2> QED BY <2>4
<1>3. PICK s, r, x : s = stack' /\ r = ready' /\ x = entry'
  OBVIOUS
<1>4. /\ \A i \in DOMAIN s : s[i].node = n => Synced(n, s[i].source)'
      /\ \A i \in DOMAIN r : r[i].node = n => Synced(n, r[i].source)'
      /\ InHand(n)' => Synced(n, x.source)'
  BY <1>1, <1>3
<1>5. /\ \A i \in DOMAIN stack' : stack'[i].node = n => Synced(n, stack[i].source)'
      /\ \A i \in DOMAIN ready' : ready'[i].node = n => Synced(n, ready[i].source)'
      /\ InHand(n)' => Synced(n, entry.source)'
  <2>1. ASSUME NEW i \in DOMAIN stack', stack'[i].node = n PROVE Synced(n, stack[i].source)'
    <3>1. PICK v : v = stack'[i].source
      OBVIOUS
    <3>2. Synced(n, v)'
      BY <1>3, <1>4, <2>1, <3>1
    <3> QED BY ONLY <3>1, <3>2 DEF Synced, Known, Round, Into, Edges
  <2>2. ASSUME NEW i \in DOMAIN ready', ready'[i].node = n PROVE Synced(n, ready[i].source)'
    <3>1. PICK v : v = ready'[i].source
      OBVIOUS
    <3>2. Synced(n, v)'
      BY <1>3, <1>4, <2>2, <3>1
    <3> QED BY ONLY <3>1, <3>2 DEF Synced, Known, Round, Into, Edges
  <2>3. ASSUME InHand(n)' PROVE Synced(n, entry.source)'
    <3>1. PICK v : v = entry'.source
      OBVIOUS
    <3>2. Synced(n, v)'
      BY <1>3, <1>4, <2>3, <3>1
    <3> QED BY ONLY <3>1, <3>2 DEF Synced, Known, Round, Into, Edges
  <2> QED BY <2>1, <2>2, <2>3
<1> QED BY ONLY <1>2, <1>5 DEF JoinQueue

\* The steps of an execution that goes on.
Ongoing ==
  \/ /\ UNCHANGED <<wf, queues, runData, entry, runs, pauses>>
     /\ pc' = pc \/ (pc = "before" /\ pc' = "running")
  \/ Pop
  \/ /\ pc = "running" /\ runs' \in 1..MaxNodeRuns
     /\ UNCHANGED <<wf, stack, waiting, ready, entry, runs, pauses>>
     /\ \E outs \in SUBSET Nat : Record(entry, outs, entry.source)
  \/ Deliver
  \/ Schedule

LEMMA OngoingStep ==
  ASSUME Typed, [Next]_vars, pauses' = 0, pc' # "end"
  PROVE  Ongoing /\ pauses = 0 /\ pc # "end"
<1>1. /\ pauses \in Nat /\ wf \in Workflows /\ entry.node \in Nodes /\ runs \in Nat
      /\ runs <= MaxNodeRuns /\ MaxNodeRuns \in Nat
      /\ pc \in {"before", "running", "deliver"} => runs >= 1
  BY BoundsAssumption DEF Typed, TypeOK, Shape, Entry
<1>2. ~Resume
  BY <1>1 DEF Resume
<1>3. ASSUME NEW outs \in SUBSET Outputs(entry.node), Complete(outs)
      PROVE  Ongoing /\ pauses = 0 /\ pc # "end"
  <2>1. (IF entry.node \in wf.always /\ outs = {} THEN {0} ELSE outs) \in SUBSET Nat
    BY <1>1, OutputsAreNat
  <2>2. runs' \in 1..MaxNodeRuns
    BY <1>1, <1>3 DEF Complete
  <2>3. /\ pc = "running" /\ UNCHANGED <<wf, stack, waiting, ready, entry, runs, pauses>>
        /\ Record(entry, IF entry.node \in wf.always /\ outs = {} THEN {0} ELSE outs, entry.source)
    BY <1>3 DEF Complete
  <2> QED BY <2>1, <2>2, <2>3 DEF Ongoing
<1>4. ASSUME FailOn PROVE Ongoing /\ pauses = 0 /\ pc # "end"
  <2>1. (IF wf.onError[entry.node] = "output" THEN {wf.outputs[entry.node]} ELSE {0}) \in SUBSET Nat
    BY <1>1, OutputsAreNat
  <2>2. runs' \in 1..MaxNodeRuns
    BY <1>1, <1>4 DEF FailOn
  <2>3. /\ pc = "running" /\ UNCHANGED <<wf, stack, waiting, ready, entry, runs, pauses>>
        /\ Record(entry, IF wf.onError[entry.node] = "output" THEN {wf.outputs[entry.node]} ELSE {0},
                  entry.source)
    BY <1>4 DEF FailOn
  <2> QED BY <2>1, <2>2, <2>3 DEF Ongoing
<1>5. CASE SeeCancel \/ NothingLeft \/ TooManyRuns \/ Fail \/ Pause \/ Abort
  BY <1>5 DEF SeeCancel, NothingLeft, TooManyRuns, Fail, Pause, Abort, Ends
<1>6. CASE Begin \/ Retry \/ Cancel \/ Notify \/ TimeOut \/ UNCHANGED vars
  BY <1>6 DEF Begin, Retry, Cancel, Notify, TimeOut, vars, queues, Ongoing
<1>7. CASE Pop \/ Deliver \/ Schedule
  BY <1>7 DEF Pop, PopFrom, AtTop, Deliver, Schedule, Ongoing
<1> QED BY <1>2, <1>3, <1>4, <1>5, <1>6, <1>7 DEF Next, Step

LEMMA RegularBefore ==
  ASSUME Typed, [Next]_vars, pauses' = 0, NEW n \in Nodes, RunsAreFull(n)'
  PROVE  RunsAreFull(n) /\ (pc' # "end" /\ Regular(n)' => Regular(n))
<1>1. /\ runData[n] \in Seq(Run) /\ runData'[n] \in Seq(Run) /\ Len(runData[n]) <= Len(runData'[n])
      /\ \A k \in 1..Len(runData[n]) : runData'[n][k] = runData[n][k]
  BY GrowsNext DEF Grows, Typed, TypeOK
<1>2. /\ DOMAIN runData[n] = 1..Len(runData[n]) /\ DOMAIN runData'[n] = 1..Len(runData'[n])
      /\ Len(runData[n]) \in Nat /\ Len(runData'[n]) \in Nat
  BY <1>1, LenProperties
<1>3. \A k \in DOMAIN runData'[n] : None \notin Range(runData'[n][k].source)
  BY DEF RunsAreFull
<1>4. RunsAreFull(n)
  <2>1. \A k \in DOMAIN runData[n] : k \in DOMAIN runData'[n] /\ runData'[n][k] = runData[n][k]
    BY ONLY <1>1, <1>2
  <2> QED BY <1>3, <2>1 DEF RunsAreFull
<1>5. ASSUME pc' # "end", Regular(n)', InHand(n) PROVE None \notin Range(entry.source)
  <2>1. Ongoing
    BY <1>5, OngoingStep
  <2>2. pc \in {"before", "running"} /\ entry.node = n
    BY <1>5 DEF InHand
  <2>3. CASE /\ UNCHANGED <<wf, queues, runData, entry, pauses>>
             /\ pc' = pc \/ (pc = "before" /\ pc' = "running")
    <3>1. InHand(n)' /\ entry' = entry
      BY <2>2, <2>3 DEF InHand
    <3> QED BY <1>5, <3>1 DEF Regular
  <2>4. CASE /\ runs' \in 1..MaxNodeRuns
             /\ \E outs \in SUBSET Nat : Record(entry, outs, entry.source)
    <3>1. PICK outs \in SUBSET Nat : Record(entry, outs, entry.source)
      BY <2>4
    <3> DEFINE u == [source |-> entry.source, outs |-> outs, index |-> runs' - 1]
    <3>2. runData' = [runData EXCEPT ![n] = Append(runData[n], u)]
      BY <2>2, <3>1 DEF Record
    <3>3. u \in Run /\ u.source = entry.source
      BY <2>4, <3>1, RecordEffect DEF Typed, TypeOK
    <3> HIDE DEF u
    <3>4. runData'[n] = Append(runData[n], u)
      BY <3>2 DEF Typed, TypeOK
    <3>5. Len(runData[n]) + 1 \in DOMAIN runData'[n] /\ runData'[n][Len(runData[n]) + 1] = u
      BY <1>1, <1>2, <3>3, <3>4, AppendProperties
    <3> QED BY <1>3, <3>3, <3>5
  <2>5. CASE Pop \/ Deliver \/ Schedule
    BY <2>2, <2>5 DEF Pop, PopFrom, AtTop, Deliver, Schedule
  <2> QED BY <2>1, <2>3, <2>4, <2>5 DEF Ongoing
<1> QED BY <1>4, <1>5 DEF Regular

LEMMA QuietQueue ==
  ASSUME Typed, Grows, NEW n, JoinQueue(n),
         UNCHANGED <<wf, queues, runData, entry, pauses>>,
         pc' = pc \/ (pc = "before" /\ pc' = "running")
  PROVE  JoinQueue(n)'
<1>1. \A e \in Into(n) : Delivered(e)' = Delivered(e)
  BY DEF Delivered, Undelivered, queues
<1>2. stack' = stack /\ waiting' = waiting /\ ready' = ready /\ entry' = entry
  BY DEF queues
<1>3. InHand(n)' => InHand(n)
  BY DEF InHand
<1>4. /\ \A i \in DOMAIN stack' : stack'[i].node = n => Synced(n, stack'[i].source)
      /\ \A i \in DOMAIN ready' : ready'[i].node = n => Synced(n, ready'[i].source)
      /\ InHand(n)' => Synced(n, entry'.source)
      /\ \E round, first, last : Lined(n, waiting', round, first, last)
  BY <1>2, <1>3 DEF JoinQueue
<1> QED BY <1>1, <1>4, KeepQueue

\* A waiting entry of a join is popped with an input missing.
LEMMA PoppedIsShort ==
  ASSUME Typed, NEW n \in Joins, JoinQueue(n), waiting # <<>>, Head(waiting).node = n
  PROVE  None \in Range(Head(waiting).source)
<1>1. waiting \in Seq(Whole) /\ Head(waiting) \in Whole /\ Head(waiting) = waiting[1] /\ 1 \in DOMAIN waiting
  <2>1. waiting \in Seq(Whole)
    BY DEF Typed, Shape
  <2>2. Head(waiting) \in Whole /\ Head(waiting) = waiting[1]
    BY <2>1, HeadTailProperties
  <2>3. Len(waiting) \in Nat /\ Len(waiting) # 0 /\ DOMAIN waiting = 1..Len(waiting)
    BY <2>1, LenProperties, EmptySeq
  <2> QED BY <2>1, <2>2, <2>3
<1>2. PICK round, first, last : Lined(n, waiting, round, first, last)
  BY DEF JoinQueue
<1>3. ~Full(waiting[1])
  BY <1>1, <1>2 DEF Lined
<1> QED BY <1>1, <1>3, JoinFacts

LEMMA PopQueue ==
  ASSUME Typed, Grows, NEW n \in Joins, OneEdgeEach(n), JoinQueue(n),
         Pop, pc' # "end", Regular(n)'
  PROVE  JoinQueue(n)'
<1> DEFINE x == IF stack = <<>> THEN Head(waiting) ELSE Head(stack)
           outs == IF AtHand(x) THEN {0} ELSE {}
<1>0. /\ stack \in Seq(Entry) /\ waiting \in Seq(Entry) /\ waiting \in Seq(Whole) /\ runs \in Nat
      /\ MaxNodeRuns \in Nat /\ runData \in [Nodes -> Seq(Run)] /\ (pc = "top" => todo = {})
  BY BoundsAssumption DEF Typed, TypeOK, Shape
<1>1. /\ stack # <<>> \/ waiting # <<>>
      /\ runs' = runs + 1 /\ runs < MaxNodeRuns
      /\ entry' = x /\ pc = "top" /\ wf' = wf /\ ready' = ready
      /\ \/ stack = <<>> /\ waiting' = Tail(waiting) /\ stack' = stack
         \/ stack # <<>> /\ stack' = Tail(stack) /\ waiting' = waiting
      /\ \/ Record(x, outs, x.source)
         \/ pc' = "before" /\ runData' = runData /\ todo' = todo
  BY DEF Pop, PopFrom, AtTop
<1>2. x \in Entry /\ outs \in SUBSET Nat /\ runs' \in 1..MaxNodeRuns
  BY <1>0, <1>1, HeadTailProperties
<1> HIDE DEF outs
<1>3. n \in Nodes /\ \A e \in Into(n) : e \in Edges
  BY JoinFacts DEF Into
<1>4. \A e \in Into(n) : Delivered(e)' = Delivered(e)
  <2>1. CASE Record(x, outs, x.source)
    <3>1. PICK y : y = x
      OBVIOUS
    <3>2. Record(y, outs, y.source) /\ y \in Entry
      BY <1>2, <2>1, <3>1
    <3> QED BY <1>0, <1>1, <1>2, <1>3, <3>2, RecordCounts
  <2>2. CASE pc' = "before" /\ runData' = runData /\ todo' = todo
    BY <1>1, <2>2 DEF Delivered, Undelivered
  <2> QED BY <1>1, <2>1, <2>2
<1>5. CASE stack = <<>>
  <2>1. x = Head(waiting) /\ waiting # <<>> /\ waiting' = Tail(waiting) /\ stack' = stack
    BY <1>1, <1>5
  <2>2. x.node # n
    <3>1. ASSUME x.node = n PROVE FALSE
      <4>1. None \in Range(x.source)
        BY <2>1, <3>1, PoppedIsShort
      <4>2. CASE pc' = "before"
        BY <1>1, <3>1, <4>1, <4>2 DEF Regular, InHand
      <4>3. CASE Record(x, outs, x.source)
        <5> DEFINE u == [source |-> x.source, outs |-> outs, index |-> runs' - 1]
        <5>1. PICK y : y = x
          OBVIOUS
        <5>2. u \in Run /\ u.source = x.source
          BY <1>2, <4>3, <5>1, RecordEffect DEF Typed
        <5>3. runData' = [runData EXCEPT ![n] = Append(runData[n], u)]
          BY <3>1, <4>3 DEF Record
        <5> HIDE DEF u
        <5>4. runData[n] \in Seq(Run) /\ runData'[n] = Append(runData[n], u)
          BY <1>0, <1>3, <5>3
        <5>5. /\ Append(runData[n], u) \in Seq(Run) /\ Len(Append(runData[n], u)) = Len(runData[n]) + 1
              /\ Append(runData[n], u)[Len(runData[n]) + 1] = u
          BY <5>2, <5>4, AppendProperties
        <5>6. Len(runData[n]) + 1 \in DOMAIN Append(runData[n], u)
          BY <5>4, <5>5, LenProperties
        <5>7. None \notin Range(u.source)
          BY <5>4, <5>5, <5>6 DEF Regular, RunsAreFull
        <5> QED BY <4>1, <5>2, <5>7
      <4> QED BY <1>1, <4>2, <4>3
    <3> QED BY <3>1
  <2>3. \E round, first, last : Lined(n, waiting', round, first, last)
    <3>1. PICK round, first, last : Lined(n, waiting, round, first, last)
      BY DEF JoinQueue
    <3>2. /\ Tail(waiting) \in Seq(Entry) /\ Len(Tail(waiting)) = Len(waiting) - 1
          /\ Head(waiting) = waiting[1]
          /\ \A i \in 1..Len(Tail(waiting)) : Tail(waiting)[i] = waiting[i + 1]
      BY <1>0, <2>1, HeadTailProperties
    <3>3. Len(waiting) \in Nat /\ 1 \in 1..Len(waiting)
      BY <1>0, <2>1, LenProperties, EmptySeq
    <3> DEFINE w == Tail(waiting)
    <3>4. w \in Seq(Entry) /\ Len(w) = Len(waiting) - 1
          /\ \A i \in 1..Len(w) : w[i] = IF i < 1 THEN waiting[i] ELSE waiting[i + 1]
      BY <3>2, <3>3
    <3> HIDE DEF w
    <3>5. waiting[1].node # n
      BY <2>1, <2>2, <3>2
    <3>6. \E other : Lined(n, w, other, first, last)
      BY <1>0, <3>1, <3>3, <3>4, <3>5, LinedDrop
    <3> QED BY <2>1, <3>6 DEF w
  <2>4. ~InHand(n)'
    BY <1>1, <2>2 DEF InHand
  <2>5. /\ \A i \in DOMAIN stack' : stack'[i].node = n => Synced(n, stack'[i].source)
        /\ \A i \in DOMAIN ready' : ready'[i].node = n => Synced(n, ready'[i].source)
    BY <1>1, <2>1 DEF JoinQueue
  <2> QED BY <1>4, <2>3, <2>4, <2>5, KeepQueue
<1>6. CASE stack # <<>>
  <2>1. x = Head(stack) /\ stack' = Tail(stack) /\ waiting' = waiting
    BY <1>1, <1>6
  <2>2. /\ Tail(stack) \in Seq(Entry) /\ Len(Tail(stack)) = Len(stack) - 1 /\ Head(stack) = stack[1]
        /\ \A i \in 1..Len(Tail(stack)) : Tail(stack)[i] = stack[i + 1]
    BY <1>0, <1>6, HeadTailProperties
  <2>3. Len(stack) \in Nat /\ 1 \in 1..Len(stack) /\ DOMAIN stack = 1..Len(stack)
    BY <1>0, <1>6, LenProperties, EmptySeq
  <2>4. DOMAIN Tail(stack) = 1..Len(Tail(stack))
    BY <2>2, LenProperties
  <2>5. \A i \in DOMAIN Tail(stack) : i + 1 \in DOMAIN stack /\ Tail(stack)[i] = stack[i + 1]
    BY <2>2, <2>3, <2>4
  <2>6. /\ \A i \in DOMAIN stack' : stack'[i].node = n => Synced(n, stack'[i].source)
        /\ x.node = n => Synced(n, x.source)
    BY <2>1, <2>2, <2>3, <2>5 DEF JoinQueue
  <2>7. InHand(n)' => Synced(n, entry'.source)
    BY <1>1, <2>6 DEF InHand
  <2>8. /\ \A i \in DOMAIN ready' : ready'[i].node = n => Synced(n, ready'[i].source)
        /\ \E round, first, last : Lined(n, waiting', round, first, last)
    BY <1>1, <2>1 DEF JoinQueue
  <2> QED BY <1>4, <2>6, <2>7, <2>8, KeepQueue
<1> QED BY <1>5, <1>6

LEMMA RecordQueue ==
  ASSUME Typed, Grows, NEW n \in Joins, JoinQueue(n), pc = "running", pc' # "end",
         runs' \in 1..MaxNodeRuns, UNCHANGED <<wf, stack, waiting, ready, entry, pauses>>,
         NEW outs \in SUBSET Nat, Record(entry, outs, entry.source)
  PROVE  JoinQueue(n)'
<1>1. entry \in Entry /\ todo = {}
  BY DEF Typed, TypeOK, Shape
<1>2. ASSUME NEW e \in Into(n) PROVE Delivered(e)' = Delivered(e)
  <2>1. e \in Edges
    BY DEF Into
  <2>2. PICK y : y = entry
    OBVIOUS
  <2>3. y \in Entry /\ Record(y, outs, y.source)
    BY <1>1, <2>2
  <2> QED BY <1>1, <2>1, <2>3, RecordCounts
<1>3. ~InHand(n)'
  BY DEF Record, Ends, InHand
<1>4. /\ \A i \in DOMAIN stack' : stack'[i].node = n => Synced(n, stack'[i].source)
      /\ \A i \in DOMAIN ready' : ready'[i].node = n => Synced(n, ready'[i].source)
      /\ \E round, first, last : Lined(n, waiting', round, first, last)
  BY DEF JoinQueue
<1> QED BY <1>2, <1>3, <1>4, KeepQueue

LEMMA ScheduleQueue ==
  ASSUME Typed, Grows, NEW n \in Joins, JoinQueue(n), Schedule
  PROVE  JoinQueue(n)'
<1>1. stack \in Seq(Entry) /\ ready \in Seq(Entry)
  BY DEF Typed, TypeOK
<1>2. \A e \in Into(n) : Delivered(e)' = Delivered(e)
  BY DEF Schedule, Delivered, Undelivered
<1>3. ASSUME NEW s \in Seq(Entry), NEW r \in Seq(Entry),
             \A i \in DOMAIN s : s[i].node = n => Synced(n, s[i].source),
             \A i \in DOMAIN r : r[i].node = n => Synced(n, r[i].source)
      PROVE  \A i \in DOMAIN (s \o r) : (s \o r)[i].node = n => Synced(n, (s \o r)[i].source)
  <2>1. /\ Len(s) \in Nat /\ Len(r) \in Nat /\ DOMAIN s = 1..Len(s) /\ DOMAIN r = 1..Len(r)
        /\ s \o r \in Seq(Entry) /\ Len(s \o r) = Len(s) + Len(r)
        /\ \A i \in 1 .. Len(s) + Len(r) : (s \o r)[i] = IF i <= Len(s) THEN s[i] ELSE r[i - Len(s)]
    BY ConcatProperties, LenProperties
  <2>2. DOMAIN (s \o r) = 1 .. Len(s) + Len(r)
    BY <2>1, LenProperties
  <2>3. \A i \in DOMAIN (s \o r) : \/ i \in DOMAIN s /\ (s \o r)[i] = s[i]
                                   \/ i - Len(s) \in DOMAIN r /\ (s \o r)[i] = r[i - Len(s)]
    BY <2>1, <2>2
  <2> QED BY ONLY <1>3, <2>3
<1>4. stack' = ready \o stack \/ stack' = stack \o ready
  BY DEF Schedule
<1>5. /\ \A i \in DOMAIN stack : stack[i].node = n => Synced(n, stack[i].source)
      /\ \A i \in DOMAIN ready : ready[i].node = n => Synced(n, ready[i].source)
  BY DEF JoinQueue
<1>6. \A i \in DOMAIN stack' : stack'[i].node = n => Synced(n, stack'[i].source)
  BY <1>1, <1>3, <1>4, <1>5
<1>7. ready' = <<>> /\ waiting' = waiting /\ pc' = "top"
  BY DEF Schedule
<1>8. /\ \A i \in DOMAIN ready' : ready'[i].node = n => Synced(n, ready'[i].source)
      /\ ~InHand(n)'
      /\ \E round, first, last : Lined(n, waiting', round, first, last)
  BY <1>7 DEF JoinQueue, InHand
<1> QED BY <1>2, <1>6, <1>8, KeepQueue

LEMMA DeliverQueue ==
  ASSUME Typed, Grows, NEW n \in Joins, OneEdgeEach(n), JoinQueue(n), Deliver
  PROVE  JoinQueue(n)'
<1>1. PICK t : t = wf.edges[Min(todo)]
  OBVIOUS
<1>2. PICK b : b = [node |-> t.from, output |-> t.output, run |-> Len(runData[t.from])]
  OBVIOUS
<1>3. /\ t.to \in Nodes /\ t.input + 1 \in 1..ConnectedInputs(t.to) /\ b \in Batch
      /\ [node |-> t.to, source |-> <<b>>] \in Entry
  BY <1>1, <1>2, NextEdge DEF Deliver
<1>4. \/ MakeReady([node |-> t.to, source |-> <<b>>]) /\ waiting' = waiting /\ ConnectedInputs(t.to) <= 1
      \/ FillWaiting(t.to, t.input + 1, b)
  BY <1>1, <1>2 DEF Deliver
<1>5. n \in Nodes /\ ConnectedInputs(n) \in Nat /\ ConnectedInputs(n) > 1
  BY JoinFacts
<1>6. stack' = stack /\ ~InHand(n)' /\ TypeOK
  BY DEF Deliver, InHand, Typed
<1>7. PICK round, first, last : Lined(n, waiting, round, first, last)
  BY DEF JoinQueue
<1>8. CASE t.to # n
  <2>1. \A e \in Into(n) : Delivered(e)' = Delivered(e)
    BY <1>1, <1>8, DeliverCounts
  <2>2. \E other : Lined(n, waiting', other, first, last)
    BY <1>3, <1>4, <1>7, <1>8, FillOther
  <2>3. ready' = ready \/ \E y \in Entry : y.node = t.to /\ MakeReady(y)
    <3>1. CASE FillWaiting(t.to, t.input + 1, b)
      BY <1>3, <3>1, FillReady
    <3>2. CASE MakeReady([node |-> t.to, source |-> <<b>>])
      BY <1>3, <3>2
    <3> QED BY <1>4, <3>1, <3>2
  <2>4. \A i \in DOMAIN ready' : ready'[i].node = n => Synced(n, ready'[i].source)
    <3> DEFINE P == {y \in Entry : y.node = n /\ ~Synced(n, y.source)}
    <3>1. \A i \in DOMAIN ready : ready[i] \notin P
      BY DEF JoinQueue
    <3>2. \A y \in Entry : y.node = t.to => y \notin P
      BY <1>8
    <3> HIDE DEF P
    <3>3. ready' = ready \/ \E y \in Entry : y \notin P /\ MakeReady(y)
      BY <2>3, <3>2
    <3>4. \A i \in DOMAIN ready' : ready'[i] \notin P
      BY <1>6, <3>1, <3>3, ReadyOff
    <3>5. \A i \in DOMAIN ready' : ready'[i] \in Entry
      <4>1. ready' \in Seq(Entry)
        BY <1>6, <2>3, MakeReadyEffect DEF TypeOK
      <4> QED BY <4>1, ElementOfSeq, LenProperties
    <3> QED BY <3>4, <3>5 DEF P
  <2>5. \A i \in DOMAIN stack' : stack'[i].node = n => Synced(n, stack'[i].source)
    BY <1>6 DEF JoinQueue
  <2> QED BY <1>6, <2>1, <2>2, <2>4, <2>5, KeepQueue
<1>9. CASE t.to = n
  <2>1. /\ \E other, from, to : Lined(n, waiting, other, from, to)'
        /\ ready' = ready \/ \E y \in Entry : y.node = n /\ Synced(n, y.source)' /\ MakeReady(y)
    BY <1>1, <1>5, <1>7, <1>9, FillSame
  <2>2. \A i \in DOMAIN ready' : ready'[i].node = n => Synced(n, ready[i].source)'
    <3>1. PICK P : P = {y \in Entry : y.node = n /\ ~Synced(n, y.source)'}
      OBVIOUS
    <3>2. \A i \in DOMAIN ready : ready[i] \notin P
      <4>1. ASSUME NEW i \in DOMAIN ready PROVE ready[i] \notin P
        <5>1. PICK y : y = ready[i]
          OBVIOUS
        <5>2. y.node = n => Synced(n, y.source)
          BY <5>1 DEF JoinQueue
        <5>3. y.node = n => Synced(n, y.source)'
          BY <5>2, SyncedStable
        <5> QED BY ONLY <3>1, <5>1, <5>3
      <4> QED BY ONLY <4>1
    <3>3. ready' = ready \/ \E y \in Entry : y \notin P /\ MakeReady(y)
      BY <2>1, <3>1
    <3>4. \A i \in DOMAIN ready' : ready'[i] \notin P
      BY <1>6, <3>2, <3>3, ReadyOff
    <3>5. \A i \in DOMAIN ready' : ready'[i] \in Entry
      <4>1. ready' \in Seq(Entry)
        BY <1>6, <2>1, MakeReadyEffect DEF TypeOK
      <4> QED BY <4>1, ElementOfSeq, LenProperties
    <3>6. ASSUME NEW i \in DOMAIN ready', ready'[i].node = n PROVE Synced(n, ready[i].source)'
      <4>1. PICK y : y = ready'[i]
        OBVIOUS
      <4>2. Synced(n, y.source)'
        BY ONLY <3>1, <3>4, <3>5, <3>6, <4>1
      <4> QED BY ONLY <4>1, <4>2 DEF Synced, Known, Round, Into, Edges
    <3> QED BY <3>6
  <2>3. \A i \in DOMAIN stack' : stack'[i].node = n => Synced(n, stack[i].source)'
    <3>1. ASSUME NEW i \in DOMAIN stack', stack'[i].node = n PROVE Synced(n, stack[i].source)'
      <4>1. PICK y : y = stack[i] /\ y = stack'[i]
        BY <1>6
      <4>2. Synced(n, y.source)
        BY <1>6, <3>1, <4>1 DEF JoinQueue
      <4>3. Synced(n, y.source)'
        BY <4>2, SyncedStable
      <4> QED BY ONLY <4>1, <4>3 DEF Synced, Known, Round, Into, Edges
    <3> QED BY <3>1
  <2> QED BY <1>6, <2>1, <2>2, <2>3 DEF JoinQueue
<1> QED BY <1>8, <1>9

LEMMA QueueInit == Init => QueueInv /\ RunsInv
<1> SUFFICES ASSUME Init PROVE QueueInv /\ RunsInv
  OBVIOUS
<1>1. /\ stack = <<StartEntry>> /\ ready = <<>> /\ waiting = <<>> /\ todo = {} /\ pc = "top"
      /\ runData = [n \in Nodes |-> <<>>] /\ wf \in Workflows
  BY DEF Init
<1>2. ASSUME NEW n \in Joins PROVE JoinQueue(n)
  <2>1. \A i \in DOMAIN stack : Synced(n, stack[i].source)
    BY <1>1 DEF StartEntry, Synced
  <2>2. ASSUME NEW e \in Into(n) PROVE Delivered(e) \in 0..0
    <3>1. e.from \in Nodes
      BY <1>1, WorkflowFacts DEF Into, Edge
    <3>2. Count(runData[e.from], Sent(e)) = 0
      BY <1>1, <3>1, CountEmpty
    <3>3. Undelivered(e) = 0
      BY <1>1 DEF Undelivered
    <3> QED BY <3>2, <3>3 DEF Delivered
  <2>3. DOMAIN waiting = {}
    BY <1>1
  <2>4. PICK round : round = [i \in DOMAIN waiting |-> 0]
    OBVIOUS
  <2>5. Lined(n, waiting, round, 0, 0)
    BY <2>2, <2>3, <2>4 DEF Lined
  <2>6. ~InHand(n) /\ \A i \in DOMAIN ready : ready[i].node = n => Synced(n, ready[i].source)
    BY <1>1 DEF InHand
  <2> QED BY <2>1, <2>5, <2>6 DEF JoinQueue
<1>3. RunsInv
  BY <1>1, \A n \in Joins : n \in Nodes DEF RunsInv, Joins
<1> QED BY <1>2, <1>3 DEF QueueInv

LEMMA QueueNext == Typed /\ QueueInv /\ [Next]_vars => QueueInv'
<1> SUFFICES ASSUME Typed, QueueInv, [Next]_vars, pauses' = 0, pc' # "end"
             PROVE  \A n \in Joins' : OneEdgeEach(n)' /\ Regular(n)' => JoinQueue(n)'
  BY DEF QueueInv
<1>1. Grows /\ Ongoing /\ pauses = 0 /\ pc # "end"
  BY GrowsNext, OngoingStep
<1>2. wf' = wf
  BY <1>1 DEF Grows
<1>3. Joins' = Joins
  BY <1>2 DEF Joins, ConnectedInputs, Edges
<1> SUFFICES ASSUME NEW n \in Joins, OneEdgeEach(n)', Regular(n)' PROVE JoinQueue(n)'
  BY <1>3
<1>4. OneEdgeEach(n) /\ n \in Nodes
  BY <1>2 DEF OneEdgeEach, Joins
<1>5. Regular(n)
  BY <1>4, RegularBefore DEF Regular
<1>6. JoinQueue(n)
  BY <1>1, <1>4, <1>5 DEF QueueInv
<1>7. CASE /\ UNCHANGED <<wf, queues, runData, entry, pauses>>
           /\ pc' = pc \/ (pc = "before" /\ pc' = "running")
  BY <1>1, <1>6, <1>7, QuietQueue
<1>8. CASE Pop
  BY <1>1, <1>4, <1>6, <1>8, PopQueue
<1>9. CASE /\ pc = "running" /\ runs' \in 1..MaxNodeRuns
           /\ UNCHANGED <<wf, stack, waiting, ready, entry, pauses>>
           /\ \E outs \in SUBSET Nat : Record(entry, outs, entry.source)
  BY <1>1, <1>6, <1>9, RecordQueue
<1>10. CASE Deliver
  BY <1>1, <1>4, <1>6, <1>10, DeliverQueue
<1>11. CASE Schedule
  BY <1>1, <1>6, <1>11, ScheduleQueue
<1> QED BY <1>1, <1>7, <1>8, <1>9, <1>10, <1>11 DEF Ongoing

\* The run that a step adds: of the entry in hand, or of the one popped.
LEMMA AddedRun ==
  ASSUME Typed, [Next]_vars, pauses' = 0
  PROVE  \/ runData' = runData
         \/ \E x \in Entry, outs \in SUBSET Nat, k \in Nat :
              /\ runData' = [runData EXCEPT ![x.node] =
                   Append(runData[x.node], [source |-> x.source, outs |-> outs, index |-> k])]
              /\ pauses = 0 /\ pc # "end" /\ k = (IF pc = "running" THEN runs - 1 ELSE runs)
              /\ \/ pc = "running" /\ x = entry
                 \/ pc = "top" /\ stack # <<>> /\ x = Head(stack)
                 \/ pc = "top" /\ stack = <<>> /\ waiting # <<>> /\ x = Head(waiting)
<1>1. /\ stack \in Seq(Entry) /\ waiting \in Seq(Entry) /\ entry \in Entry /\ wf \in Workflows
      /\ pauses \in Nat /\ runs \in Nat /\ MaxNodeRuns \in Nat /\ runs <= MaxNodeRuns
      /\ entry.node \in Nodes
      /\ pc \in {"before", "running", "deliver"} => runs >= 1
  BY BoundsAssumption DEF Typed, TypeOK, Shape, Entry
<1>2. ~Resume
  BY <1>1 DEF Resume
<1>3. ASSUME NEW x \in Entry, NEW outs \in SUBSET Nat, runs' \in 1..MaxNodeRuns,
             Record(x, outs, x.source)
      PROVE  \E k \in Nat : k = runs' - 1 /\ runData' = [runData EXCEPT ![x.node] =
               Append(runData[x.node], [source |-> x.source, outs |-> outs, index |-> k])]
  <2>1. PICK k : k = runs' - 1
    OBVIOUS
  <2>2. k \in Nat
    <3>1. PICK j \in 1..MaxNodeRuns : runs' = j
      BY <1>3
    <3> QED BY ONLY <1>1, <2>1, <3>1
  <2>3. runData' = [runData EXCEPT ![x.node] =
          Append(runData[x.node], [source |-> x.source, outs |-> outs, index |-> k])]
    BY <1>3, <2>1 DEF Record
  <2> QED BY <2>1, <2>2, <2>3
<1>4. CASE Pop
  <2> DEFINE outs == IF AtHand(entry') THEN {0} ELSE {}
  <2>1. /\ stack # <<>> \/ waiting # <<>>
        /\ runs' = runs + 1 /\ runs < MaxNodeRuns
        /\ entry' = (IF stack = <<>> THEN Head(waiting) ELSE Head(stack))
        /\ pc = "top" /\ pauses' = pauses
        /\ Record(entry', outs, entry'.source) \/ runData' = runData
    BY <1>4 DEF Pop, PopFrom, AtTop
  <2>2. PICK x : x = entry'
    OBVIOUS
  <2>3. x \in Entry /\ outs \in SUBSET Nat /\ runs' \in 1..MaxNodeRuns
    BY <1>1, <2>1, <2>2, HeadTailProperties
  <2>4. /\ x = (IF stack = <<>> THEN Head(waiting) ELSE Head(stack))
        /\ Record(x, outs, x.source) \/ runData' = runData
    BY <2>1, <2>2
  <2> HIDE DEF outs
  <2>5. CASE Record(x, outs, x.source)
    <3>1. PICK k \in Nat : k = runs' - 1 /\ runData' = [runData EXCEPT ![x.node] =
            Append(runData[x.node], [source |-> x.source, outs |-> outs, index |-> k])]
      BY <1>3, <2>3, <2>5
    <3>2. /\ pauses = 0 /\ pc # "end"
          /\ \/ pc = "top" /\ stack # <<>> /\ x = Head(stack)
             \/ pc = "top" /\ stack = <<>> /\ waiting # <<>> /\ x = Head(waiting)
      BY <2>1, <2>4
    <3>3. k = (IF pc = "running" THEN runs - 1 ELSE runs)
      BY <1>1, <2>1, <3>1
    <3> QED BY <2>3, <3>1, <3>2, <3>3
  <2> QED BY <2>4, <2>5
<1>5. ASSUME pc = "running", runs' \in 1..MaxNodeRuns, pauses' = pauses, runs' = runs,
             NEW outs \in SUBSET Nat, Record(entry, outs, entry.source)
      PROVE  \E k \in Nat :
               /\ runData' = [runData EXCEPT ![entry.node] =
                    Append(runData[entry.node], [source |-> entry.source, outs |-> outs, index |-> k])]
               /\ pauses = 0 /\ pc # "end" /\ pc = "running" /\ k = runs - 1
  <2>1. PICK x : x = entry
    OBVIOUS
  <2>2. x \in Entry /\ Record(x, outs, x.source)
    BY <1>1, <1>5, <2>1
  <2>3. PICK k \in Nat : k = runs' - 1 /\ runData' = [runData EXCEPT ![x.node] =
          Append(runData[x.node], [source |-> x.source, outs |-> outs, index |-> k])]
    BY <1>3, <1>5, <2>2
  <2> QED BY <1>5, <2>1, <2>3
<1>6. ASSUME NEW outs \in SUBSET Outputs(entry.node), Complete(outs)
      PROVE  \E o \in SUBSET Nat : Record(entry, o, entry.source)
             /\ pc = "running" /\ runs' \in 1..MaxNodeRuns /\ runs' = runs /\ pauses' = pauses
  <2>1. (IF entry.node \in wf.always /\ outs = {} THEN {0} ELSE outs) \in SUBSET Nat
    BY <1>1, OutputsAreNat
  <2>2. runs' \in 1..MaxNodeRuns
    BY <1>1, <1>6 DEF Complete
  <2> QED BY <1>6, <2>1, <2>2 DEF Complete
<1>7. ASSUME FailOn
      PROVE  \E o \in SUBSET Nat : Record(entry, o, entry.source)
             /\ pc = "running" /\ runs' \in 1..MaxNodeRuns /\ runs' = runs /\ pauses' = pauses
  <2>1. (IF wf.onError[entry.node] = "output" THEN {wf.outputs[entry.node]} ELSE {0}) \in SUBSET Nat
    BY <1>1, OutputsAreNat
  <2>2. runs' \in 1..MaxNodeRuns
    BY <1>1, <1>7 DEF FailOn
  <2> QED BY <1>7, <2>1, <2>2 DEF FailOn
<1>8. CASE Fail
  <2>1. /\ pc = "running" /\ pauses' = pauses
        /\ runData' = [runData EXCEPT ![entry.node] =
             Append(runData[entry.node], [source |-> entry.source, outs |-> {}, index |-> runs - 1])]
    BY <1>8 DEF Fail
  <2>2. PICK k : k = runs - 1
    OBVIOUS
  <2>3. k \in Nat /\ {} \in SUBSET Nat
    BY <1>1, <2>1, <2>2
  <2> QED BY <1>1, <2>1, <2>2, <2>3
<1>9. CASE SeeCancel \/ NothingLeft \/ TooManyRuns \/ Begin \/ Retry \/ Pause \/ Abort
  BY <1>9 DEF SeeCancel, NothingLeft, TooManyRuns, Begin, Retry, Pause, Abort
<1>10. CASE Deliver \/ Schedule \/ Cancel \/ Notify \/ TimeOut \/ UNCHANGED vars
  BY <1>10 DEF Deliver, Schedule, Cancel, Notify, TimeOut, vars
<1>11. ASSUME \E o \in SUBSET Nat : Record(entry, o, entry.source)
              /\ pc = "running" /\ runs' \in 1..MaxNodeRuns /\ runs' = runs /\ pauses' = pauses
       PROVE  \E outs \in SUBSET Nat, k \in Nat :
               /\ runData' = [runData EXCEPT ![entry.node] =
                    Append(runData[entry.node], [source |-> entry.source, outs |-> outs, index |-> k])]
               /\ pauses = 0 /\ pc # "end" /\ pc = "running" /\ k = runs - 1
  BY <1>5, <1>11
<1> QED BY <1>1, <1>2, <1>4, <1>6, <1>7, <1>8, <1>9, <1>10, <1>11 DEF Next, Step

LEMMA RunsNext == Typed /\ QueueInv /\ RunsInv /\ [Next]_vars => RunsInv'
<1> SUFFICES ASSUME Typed, QueueInv, RunsInv, [Next]_vars, pauses' = 0
             PROVE  \A n \in Joins' : OneEdgeEach(n)' /\ RunsAreFull(n)' =>
                      \A k \in DOMAIN runData'[n] : Synced(n, runData[n][k].source)'
  BY DEF RunsInv
<1>1. Grows /\ wf' = wf
  BY GrowsNext DEF Grows
<1>2. Joins' = Joins
  BY <1>1 DEF Joins, ConnectedInputs, Edges
<1> SUFFICES ASSUME NEW n \in Joins, OneEdgeEach(n)', RunsAreFull(n)', NEW k \in DOMAIN runData'[n]
             PROVE  Synced(n, runData[n][k].source)'
  BY <1>2
<1>3. OneEdgeEach(n) /\ n \in Nodes
  BY <1>1 DEF OneEdgeEach, Joins
<1>4. RunsAreFull(n)
  BY <1>3, RegularBefore
<1>5. pauses = 0
  BY BoundsAssumption DEF Next, Step, vars, queues, SeeCancel, NothingLeft, TooManyRuns, Pop,
     PopFrom, Begin, Complete, Retry, FailOn, Fail, Pause, Abort, Deliver, Schedule, Cancel, Notify,
     TimeOut, Resume, Typed, TypeOK
<1>6. PICK s : s = runData'[n][k].source
  OBVIOUS
<1>7. SUFFICES Synced(n, s)
  <2>1. Synced(n, s)'
    BY <1>1, <1>7, SyncedStable
  <2> QED BY ONLY <1>6, <2>1 DEF Synced, Known, Round, Into, Edges
<1>8. ASSUME k \in DOMAIN runData[n], runData'[n][k] = runData[n][k] PROVE Synced(n, s)
  BY <1>3, <1>4, <1>5, <1>6, <1>8 DEF RunsInv
<1>9. CASE runData' = runData
  BY <1>8, <1>9
<1>10. CASE \E x \in Entry, outs \in SUBSET Nat, j \in Nat :
              /\ runData' = [runData EXCEPT ![x.node] =
                   Append(runData[x.node], [source |-> x.source, outs |-> outs, index |-> j])]
              /\ pauses = 0 /\ pc # "end"
              /\ \/ pc = "running" /\ x = entry
                 \/ pc = "top" /\ stack # <<>> /\ x = Head(stack)
                 \/ pc = "top" /\ stack = <<>> /\ waiting # <<>> /\ x = Head(waiting)
  <2>1. PICK x \in Entry, outs \in SUBSET Nat, j \in Nat :
              /\ runData' = [runData EXCEPT ![x.node] =
                   Append(runData[x.node], [source |-> x.source, outs |-> outs, index |-> j])]
              /\ pauses = 0 /\ pc # "end"
              /\ \/ pc = "running" /\ x = entry
                 \/ pc = "top" /\ stack # <<>> /\ x = Head(stack)
                 \/ pc = "top" /\ stack = <<>> /\ waiting # <<>> /\ x = Head(waiting)
    BY <1>10
  <2>2. PICK u : u = [source |-> x.source, outs |-> outs, index |-> j]
    OBVIOUS
  <2>3. u \in Run /\ u.source = x.source /\ runData \in [Nodes -> Seq(Run)]
    BY <2>2 DEF Run, Entry, Typed, TypeOK
  <2>4. runData' = [runData EXCEPT ![x.node] = Append(runData[x.node], u)]
    BY <2>1, <2>2
  <2>5. CASE x.node # n
    <3>1. runData'[n] = runData[n]
      BY <1>3, <2>3, <2>4, <2>5
    <3> QED BY <1>8, <3>1
  <2>6. CASE x.node = n
    <3>1. runData[n] \in Seq(Run) /\ runData'[n] = Append(runData[n], u)
      BY <1>3, <2>3, <2>4, <2>6
    <3>2. /\ Append(runData[n], u) \in Seq(Run) /\ Len(Append(runData[n], u)) = Len(runData[n]) + 1
          /\ Append(runData[n], u)[Len(runData[n]) + 1] = u
          /\ \A i \in 1..Len(runData[n]) : Append(runData[n], u)[i] = runData[n][i]
      BY <2>3, <3>1, AppendProperties
    <3>3. DOMAIN runData[n] = 1..Len(runData[n]) /\ DOMAIN runData'[n] = 1 .. Len(runData[n]) + 1
          /\ Len(runData[n]) \in Nat
      BY <3>1, <3>2, LenProperties
    <3>4. None \notin Range(x.source)
      <4>1. Len(runData[n]) + 1 \in DOMAIN runData'[n] /\ runData'[n][Len(runData[n]) + 1] = u
        BY <3>1, <3>2, <3>3
      <4> QED BY <2>3, <4>1 DEF RunsAreFull
    <3>5. Regular(n)
      BY <1>4, <2>1, <3>4 DEF Regular, InHand
    <3>6. JoinQueue(n)
      BY <1>3, <2>1, <3>5 DEF QueueInv
    <3>7. Synced(n, x.source)
      <4>1. CASE pc = "running" /\ x = entry
        BY <2>6, <3>6, <4>1 DEF JoinQueue, InHand
      <4>2. CASE stack # <<>> /\ x = Head(stack)
        <5>1. stack \in Seq(Entry)
          BY DEF Typed, TypeOK
        <5>2. 1 \in DOMAIN stack /\ x = stack[1]
          BY <4>2, <5>1, LenProperties, EmptySeq, HeadTailProperties
        <5> QED BY <2>6, <3>6, <5>2 DEF JoinQueue
      <4>3. CASE waiting # <<>> /\ x = Head(waiting)
        BY <2>6, <3>4, <3>6, <4>3, PoppedIsShort
      <4> QED BY <2>1, <4>1, <4>2, <4>3
    <3>8. CASE k \in DOMAIN runData[n]
      <4>1. runData'[n][k] = runData[n][k]
        BY <3>1, <3>2, <3>3, <3>8
      <4> QED BY <1>8, <3>8, <4>1
    <3>9. CASE k \notin DOMAIN runData[n]
      <4>1. k = Len(runData[n]) + 1
        BY <3>3, <3>9
      <4>2. s = x.source
        BY <1>6, <2>3, <3>1, <3>2, <4>1
      <4> QED BY <3>7, <4>2
    <3> QED BY <3>8, <3>9
  <2> QED BY <2>5, <2>6
<1> QED BY <1>9, <1>10, AddedRun

\* A node that has one edge at each input and never ran with an input missing
\* took, in each run, inputs of one round: schedule_children fills the oldest
\* entry that misses the input, which pairs the k-th items of one branch with
\* the k-th items of the other.
THEOREM JoinsTakeRounds == Spec => []JoinsRounds
<1>1. Typed /\ RunsInv => JoinsRounds
  <2> SUFFICES ASSUME Typed, RunsInv, pauses = 0, NEW n \in Nodes, ConnectedInputs(n) > 1,
                      OneEdgeEach(n), RunsAreFull(n), NEW e \in Edges, NEW f \in Edges,
                      e.to = n, f.to = n, NEW k \in DOMAIN runData[n],
                      runData[n][k].source # <<>>
               PROVE  Round(e, runData[n][k].source[e.input + 1])
                        = Round(f, runData[n][k].source[f.input + 1])
    BY DEF JoinsRounds
  <2>1. n \in Joins /\ e \in Into(n) /\ f \in Into(n)
    BY DEF Joins, Into
  <2>2. Synced(n, runData[n][k].source)
    BY <2>1 DEF RunsInv
  <2> QED BY <2>1, <2>2 DEF Synced
<1> QED BY <1>1, TypedInit, TypedNext, QueueInit, QueueNext, RunsNext, PTL DEF Spec

-----------------------------------------------------------------------------
(* The order of the runs in a workflow without joins.                      *)

\* What has this source was scheduled by the run of index p.
Origin(s, p) ==
  /\ s # <<>> /\ s[1] \in Batch
  /\ s[1].run \in DOMAIN runData[s[1].node]
  /\ p = runData[s[1].node][s[1].run].index

Traced(s) == s = <<>> \/ \E p \in Nat : Origin(s, p)

Recorded(n, u) == \E k \in DOMAIN runData[n] : runData[n][k] = u

\* The entry of m, scheduled by p, is to run before that of n, scheduled by q.
Before(m, p, n, q) ==
  IF wf.v1 THEN p > q \/ (p = q /\ wf.rank[m] <= wf.rank[n]) ELSE p <= q

\* A run of m of index k, scheduled by p, is behind the entry of n, by q.
Behind(m, p, k, n, q) ==
  IF wf.v1 THEN (p < q => k <= q) /\ (p = q => wf.rank[m] <= wf.rank[n]) ELSE p <= q

\* OrderKept, of two runs.
InOrder(m, p, k, n, q, l) ==
  IF wf.v1
  THEN (p < q /\ q < k => l < k) /\ (p = q /\ wf.rank[m] < wf.rank[n] => k < l)
  ELSE p < q => k < l

\* Every recorded run is behind the entry.
AllBehind(x) ==
  \A n \in Nodes, u \in Run : Recorded(n, u) =>
    \A p, q \in Nat : Origin(u.source, p) /\ Origin(x.source, q) => Behind(n, p, u.index, x.node, q)

First(x, y) ==
  \A p, q \in Nat : Origin(x.source, p) /\ Origin(y.source, q) => Before(x.node, p, y.node, q)

RunsOrdered ==
  /\ \A n \in Nodes, u \in Run : Recorded(n, u) =>
       Traced(u.source) /\ \A p \in Nat : Origin(u.source, p) => p < u.index
  /\ \A m, n \in Nodes, t, u \in Run : Recorded(m, t) /\ Recorded(n, u) =>
       \A p, q \in Nat : Origin(t.source, p) /\ Origin(u.source, q) =>
         InOrder(m, p, t.index, n, q, u.index)

\* The index the next run will have.
Coming == IF pc \in {"before", "running"} THEN runs - 1 ELSE runs

InRank(q) ==
  wf.v1 => \A i, j \in DOMAIN q : i < j => wf.rank[q[i].node] <= wf.rank[q[j].node]

\* The batches of the run that is being scheduled.
Served(b) == b \in Batch /\ b.node = entry.node /\ b.run = Len(runData[entry.node])

\* What the loop is about to schedule comes from the run of index p, the last.
Branching(p) ==
  /\ \A b : Served(b) => Origin(<<b>>, p)
  /\ \A i \in todo : wf.edges[i].from = entry.node
  /\ \A i \in DOMAIN ready : Origin(ready[i].source, p)
  /\ InRank(ready)
  /\ \A i \in DOMAIN stack : \A q \in Nat : Origin(stack[i].source, q) => q < p

StackOrdered ==
  /\ \A i \in DOMAIN stack : Traced(stack[i].source) /\ AllBehind(stack[i])
  /\ \A i, j \in DOMAIN stack : i < j => First(stack[i], stack[j])

HandOrdered ==
  /\ Traced(entry.source) /\ AllBehind(entry)
  /\ \A i \in DOMAIN stack : First(entry, stack[i])

QueueOrdered ==
  /\ waiting = <<>>
  /\ \A n \in Nodes, u \in Run : Recorded(n, u) => u.index < Coming
  /\ StackOrdered
  /\ pc \in {"before", "running"} => HandOrdered
  /\ pc = "deliver" => \A p \in Nat : p + 1 = runs => Branching(p)

OrderInv == pauses = 0 /\ Joins = {} => RunsOrdered /\ (pc # "end" => QueueOrdered)

\* A source tells one run, and goes on telling it.
LEMMA OriginOne ==
  ASSUME Typed, NEW s, NEW p, Origin(s, p)
  PROVE  p \in Nat /\ \A q : Origin(s, q) => q = p
<1>1. /\ s[1].node \in Nodes /\ s[1].run \in DOMAIN runData[s[1].node]
      /\ p = runData[s[1].node][s[1].run].index
  BY DEF Origin, Batch
<1>2. runData[s[1].node] \in Seq(Run)
  BY <1>1 DEF Typed, TypeOK
<1>3. runData[s[1].node][s[1].run] \in Run
  BY ONLY <1>1, <1>2, ElementOfSeq, LenProperties
<1>4. p \in Nat
  BY <1>1, <1>3 DEF Run
<1> QED BY <1>4 DEF Origin

LEMMA OriginStable ==
  ASSUME Typed, Grows, NEW s, Traced(s)
  PROVE  Traced(s)' /\ \A p : Origin(s, p)' <=> Origin(s, p)
<1>1. CASE s = <<>>
  BY <1>1 DEF Traced, Origin
<1>2. CASE \E p \in Nat : Origin(s, p)
  <2>1. PICK n, k : n = s[1].node /\ k = s[1].run
    OBVIOUS
  <2>2. s # <<>> /\ s[1] \in Batch /\ n \in Nodes /\ k \in DOMAIN runData[n]
    BY <1>2, <2>1 DEF Origin, Batch
  <2>3. /\ runData[n] \in Seq(Run) /\ runData'[n] \in Seq(Run) /\ Len(runData[n]) <= Len(runData'[n])
        /\ \A j \in 1..Len(runData[n]) : runData'[n][j] = runData[n][j]
    BY <2>2 DEF Grows, Typed, TypeOK
  <2>4. /\ DOMAIN runData[n] = 1..Len(runData[n]) /\ DOMAIN runData'[n] = 1..Len(runData'[n])
        /\ Len(runData[n]) \in Nat /\ Len(runData'[n]) \in Nat
    BY ONLY <2>3, LenProperties
  <2>5. k \in DOMAIN runData'[n] /\ runData'[n][k] = runData[n][k]
    BY ONLY <2>2, <2>3, <2>4
  <2>6. \A p : Origin(s, p)' <=> Origin(s, p)
    BY <2>1, <2>2, <2>5 DEF Origin
  <2> QED BY <1>2, <2>6 DEF Traced
<1> QED BY <1>1, <1>2 DEF Traced

LEMMA OriginRecorded ==
  ASSUME Typed, NEW s, NEW p, Origin(s, p)
  PROVE  \E n \in Nodes, v \in Run : Recorded(n, v) /\ v.index = p
<1>1. PICK n, k : n = s[1].node /\ k = s[1].run
  OBVIOUS
<1>2. n \in Nodes /\ k \in DOMAIN runData[n] /\ p = runData[n][k].index
  BY <1>1 DEF Origin, Batch
<1>3. runData[n] \in Seq(Run)
  BY <1>2 DEF Typed, TypeOK
<1>4. runData[n][k] \in Run
  BY ONLY <1>2, <1>3, ElementOfSeq, LenProperties
<1> QED BY <1>2, <1>4 DEF Recorded

LEMMA RecordedAppend ==
  ASSUME Typed, NEW m \in Nodes, NEW u \in Run,
         runData' = [runData EXCEPT ![m] = Append(runData[m], u)]
  PROVE  \A n \in Nodes : \A v : Recorded(n, v)' <=> Recorded(n, v) \/ (n = m /\ v = u)
<1>1. runData \in [Nodes -> Seq(Run)]
  BY DEF Typed, TypeOK
<1>2. ASSUME NEW n \in Nodes, NEW v
      PROVE  Recorded(n, v)' <=> Recorded(n, v) \/ (n = m /\ v = u)
  <2>1. CASE n = m
    <3>1. PICK s : s = runData[n]
      OBVIOUS
    <3>2. runData'[n] = Append(s, u) /\ s \in Seq(Run)
      BY <1>1, <2>1, <3>1
    <3>3. /\ Len(s) \in Nat /\ DOMAIN s = 1..Len(s)
          /\ DOMAIN Append(s, u) = 1 .. Len(s) + 1 /\ Append(s, u)[Len(s) + 1] = u
          /\ \A k \in 1..Len(s) : Append(s, u)[k] = s[k]
      <4>1. Len(s) \in Nat /\ DOMAIN s = 1..Len(s)
        BY ONLY <3>2, LenProperties
      <4>2. /\ Append(s, u) \in Seq(Run) /\ Len(Append(s, u)) = Len(s) + 1
            /\ \A k \in 1..Len(s) : Append(s, u)[k] = s[k]
            /\ Append(s, u)[Len(s) + 1] = u
        BY ONLY <3>2, AppendProperties
      <4>3. DOMAIN Append(s, u) = 1 .. Len(Append(s, u))
        BY ONLY <4>2, LenProperties
      <4> QED BY ONLY <4>1, <4>2, <4>3
    <3>4. (\E k \in DOMAIN Append(s, u) : Append(s, u)[k] = v) <=> (\E k \in DOMAIN s : s[k] = v) \/ v = u
      <4>1. \A k \in DOMAIN Append(s, u) : k \in DOMAIN s \/ k = Len(s) + 1
        BY ONLY <3>3
      <4>2. Len(s) + 1 \in DOMAIN Append(s, u) /\ \A k \in DOMAIN s : k \in DOMAIN Append(s, u)
        BY ONLY <3>3
      <4> QED BY ONLY <3>3, <4>1, <4>2
    <3> QED BY <2>1, <3>1, <3>2, <3>4 DEF Recorded
  <2>2. CASE n # m
    <3>1. runData'[n] = runData[n]
      BY <1>1, <2>2
    <3> QED BY <2>2, <3>1 DEF Recorded
  <2> QED BY <2>1, <2>2
<1> QED BY <1>2

\* A new run, behind which all others are, keeps the order.
LEMMA AddRun ==
  ASSUME Typed, Grows, RunsOrdered, NEW x \in Entry, Traced(x.source), AllBehind(x),
         NEW u \in Run, u.source = x.source,
         \A n \in Nodes, v \in Run : Recorded(n, v) => v.index < u.index,
         runData' = [runData EXCEPT ![x.node] = Append(runData[x.node], u)]
  PROVE  RunsOrdered'
<1>0. x.node \in Nodes /\ wf' = wf /\ u.index \in Nat
  BY DEF Entry, Grows, Run
<1>1. \A n \in Nodes : \A v : Recorded(n, v)' <=> Recorded(n, v) \/ (n = x.node /\ v = u)
  BY <1>0, RecordedAppend
<1>2. ASSUME NEW n \in Nodes, NEW v \in Run, Recorded(n, v)
      PROVE  /\ Traced(v.source) /\ Traced(v.source)'
             /\ \A p \in Nat : /\ Origin(v.source, p)' <=> Origin(v.source, p)
                               /\ Origin(v.source, p) => p < v.index
  <2>1. Traced(v.source) /\ \A p \in Nat : Origin(v.source, p) => p < v.index
    BY <1>2 DEF RunsOrdered
  <2> QED BY <2>1, OriginStable
<1>3. /\ Traced(u.source)'
      /\ \A p \in Nat : Origin(u.source, p)' <=> Origin(x.source, p)
  BY OriginStable
<1>4. ASSUME NEW p \in Nat, Origin(u.source, p)'
      PROVE  p < u.index
  <2>1. Origin(x.source, p)
    BY <1>3, <1>4
  <2> QED BY <2>1, OriginRecorded
<1>5. ASSUME NEW n \in Nodes, NEW v \in Run, Recorded(n, v)'
      PROVE  Traced(v.source)' /\ \A p \in Nat : Origin(v.source, p)' => p < v.index
  BY <1>1, <1>2, <1>3, <1>4, <1>5
<1>6. ASSUME NEW m \in Nodes, NEW n \in Nodes, NEW t \in Run, NEW v \in Run,
             Recorded(m, t)', Recorded(n, v)', NEW p \in Nat, NEW q \in Nat,
             Origin(t.source, p)', Origin(v.source, q)'
      PROVE  InOrder(m, p, t.index, n, q, v.index)
  <2>0. t.index \in Nat /\ v.index \in Nat /\ wf.rank[m] \in Nat /\ wf.rank[n] \in Nat
    BY WorkflowFacts DEF Run, Typed, TypeOK
  <2>1. CASE Recorded(m, t) /\ Recorded(n, v)
    <3>1. Origin(t.source, p) /\ Origin(v.source, q)
      BY <1>2, <1>6, <2>1
    <3> QED BY <2>1, <3>1 DEF RunsOrdered
  <2>2. CASE Recorded(m, t) /\ n = x.node /\ v = u
    <3>1. Origin(t.source, p) /\ Origin(x.source, q)
      BY <1>2, <1>3, <1>6, <2>2
    <3>2. Behind(m, p, t.index, x.node, q) /\ t.index < u.index
      BY <2>2, <3>1 DEF AllBehind
    <3> QED BY ONLY <2>0, <2>2, <3>2 DEF Behind, InOrder
  <2>3. CASE m = x.node /\ t = u /\ Recorded(n, v)
    <3>1. Origin(x.source, p) /\ Origin(v.source, q)
      BY <1>2, <1>3, <1>6, <2>3
    <3>2. Behind(n, q, v.index, x.node, p) /\ v.index < u.index
      BY <2>3, <3>1 DEF AllBehind
    <3> QED BY ONLY <1>6, <2>0, <2>3, <3>2 DEF Behind, InOrder
  <2>4. CASE m = x.node /\ t = u /\ n = x.node /\ v = u
    <3>1. p = q
      <4>1. Origin(x.source, p) /\ Origin(x.source, q)
        BY <1>3, <1>6, <2>4
      <4> QED BY <4>1, OriginOne
    <3> QED BY <2>0, <2>4, <3>1 DEF InOrder
  <2> QED BY <1>1, <1>6, <2>1, <2>2, <2>3, <2>4
<1>7. \A m, n, p, k, q, l : InOrder(m, p, k, n, q, l)' <=> InOrder(m, p, k, n, q, l)
  BY <1>0 DEF InOrder
<1> QED BY <1>5, <1>6, <1>7 DEF RunsOrdered

LEMMA FirstStable ==
  ASSUME Typed, Grows, NEW x, NEW y, Traced(x.source), Traced(y.source), First(x, y)
  PROVE  First(x, y)'
<1>1. /\ \A p : Origin(x.source, p)' <=> Origin(x.source, p)
      /\ \A q : Origin(y.source, q)' <=> Origin(y.source, q)
  BY OriginStable
<1>2. \A m, p, n, q : Before(m, p, n, q)' <=> Before(m, p, n, q)
  BY DEF Before, Grows
<1> QED BY <1>1, <1>2 DEF First

\* A new run is behind what comes after its entry.
LEMMA AddBehind ==
  ASSUME Typed, Grows, RunsOrdered, NEW h \in Entry, Traced(h.source), NEW u \in Run, u.source = h.source,
         runData' = [runData EXCEPT ![h.node] = Append(runData[h.node], u)],
         NEW x \in Entry, Traced(x.source), AllBehind(x), First(h, x)
  PROVE  AllBehind(x)'
<1>0. h.node \in Nodes /\ x.node \in Nodes /\ wf' = wf /\ u.index \in Nat /\ wf.rank \in [Nodes -> Nat]
  BY WorkflowFacts DEF Entry, Grows, Run, Typed, TypeOK
<1>1. \A n \in Nodes : \A v : Recorded(n, v)' <=> Recorded(n, v) \/ (n = h.node /\ v = u)
  BY <1>0, RecordedAppend
<1>2. /\ \A p : Origin(h.source, p)' <=> Origin(h.source, p)
      /\ \A q : Origin(x.source, q)' <=> Origin(x.source, q)
  BY OriginStable
<1>3. ASSUME NEW n \in Nodes, NEW v \in Run, Recorded(n, v)', NEW p \in Nat, NEW q \in Nat,
             Origin(v.source, p)', Origin(x.source, q)'
      PROVE  Behind(n, p, v.index, x.node, q)
  <2>1. Origin(x.source, q)
    BY <1>2, <1>3
  <2>2. CASE Recorded(n, v)
    <3>1. Traced(v.source)
      BY <2>2 DEF RunsOrdered
    <3>2. Origin(v.source, p)
      BY <1>3, <3>1, OriginStable
    <3> QED BY <2>1, <2>2, <3>2 DEF AllBehind
  <2>3. CASE n = h.node /\ v = u
    <3>1. Origin(h.source, p)
      BY <1>2, <1>3, <2>3
    <3>2. Before(h.node, p, x.node, q)
      BY <2>1, <3>1 DEF First
    <3>3. v.index \in Nat /\ wf.rank[h.node] \in Nat /\ wf.rank[x.node] \in Nat
      BY <1>0, <2>3
    <3> QED BY ONLY <1>3, <2>3, <3>2, <3>3 DEF Before, Behind
  <2> QED BY <1>1, <1>3, <2>2, <2>3
<1>4. \A m, n, p, k, q : Behind(m, p, k, n, q)' <=> Behind(m, p, k, n, q)
  BY <1>0 DEF Behind
<1> QED BY <1>3, <1>4 DEF AllBehind

\* When a run is recorded, the stack is in order without its entry.
LEMMA RecordOrdered ==
  ASSUME Typed, Grows, RunsOrdered, todo = {}, ready = <<>>,
         NEW h \in Entry, Traced(h.source), AllBehind(h), entry' = h,
         NEW s \in Seq(Entry), stack' = s,
         \A i \in DOMAIN s : Traced(s[i].source) /\ AllBehind(s[i]) /\ First(h, s[i]),
         \A i, j \in DOMAIN s : i < j => First(s[i], s[j]),
         NEW k, k = runs' - 1, \A n \in Nodes, v \in Run : Recorded(n, v) => v.index < k,
         NEW outs \in SUBSET Nat, runs' \in 1..MaxNodeRuns, Record(h, outs, h.source), pc' # "end",
         waiting' = <<>>, ready' = ready, wf' = wf
  PROVE  QueueOrdered'
<1> DEFINE u == [source |-> h.source, outs |-> outs, index |-> k]
<1>1. /\ u \in Run /\ runData' \in [Nodes -> Seq(Run)]
      /\ pc' = "deliver"
      /\ todo' = {i \in DOMAIN wf.edges : wf.edges[i].from = h.node /\ wf.edges[i].output \in outs}
  BY RecordEffect DEF Typed
<1>2. runData' = [runData EXCEPT ![h.node] = Append(runData[h.node], u)]
  BY DEF Record
<1>3. u.source = h.source /\ u.index = k /\ k \in Nat /\ runs' \in Nat /\ h.node \in Nodes
  BY <1>1 DEF Run, Entry, BoundsAssumption
<1> HIDE DEF u
<1>4. \A n \in Nodes : \A v : Recorded(n, v)' <=> Recorded(n, v) \/ (n = h.node /\ v = u)
  BY <1>1, <1>2, <1>3, RecordedAppend
<1>5. \A n \in Nodes, v \in Run : Recorded(n, v)' => v.index < runs'
  <2>1. ASSUME NEW n \in Nodes, NEW v \in Run, Recorded(n, v)' PROVE v.index < runs'
    <3>1. v.index < k \/ v.index = k
      BY <1>3, <1>4, <2>1
    <3>2. v.index \in Nat
      BY DEF Run
    <3> QED BY <1>3, <3>1, <3>2
  <2> QED BY <2>1
<1>6. ASSUME NEW i \in DOMAIN s
      PROVE  /\ s[i] \in Entry /\ Traced(s[i].source)' /\ AllBehind(s[i])'
             /\ \A q \in Nat : Origin(s[i].source, q)' => q < k
  <2>1. s[i] \in Entry /\ Traced(s[i].source) /\ AllBehind(s[i]) /\ First(h, s[i])
    BY ElementOfSeq, LenProperties
  <2>2. PICK x : x = s[i]
    OBVIOUS
  <2>3. Traced(x.source)' /\ \A q : Origin(x.source, q)' <=> Origin(x.source, q)
    BY <2>1, <2>2, OriginStable
  <2>4. AllBehind(x)'
    BY <1>1, <1>2, <1>3, <2>1, <2>2, AddBehind
  <2>5. \A q \in Nat : Origin(x.source, q) => q < k
    BY OriginRecorded
  <2> QED BY <2>1, <2>2, <2>3, <2>4, <2>5
<1>7. \A i, j \in DOMAIN s : i < j => First(s[i], s[j])'
  BY FirstStable
<1>8. StackOrdered'
  BY <1>6, <1>7 DEF StackOrdered
<1>9. Branching(k)'
  <2>1. ASSUME NEW b, Served(b)' PROVE Origin(<<b>>, k)'
    <3>1. PICK r : r = runData[h.node]
      OBVIOUS
    <3>2. r \in Seq(Run) /\ runData'[h.node] = Append(r, u)
      BY <1>2, <1>3, <3>1 DEF Typed, TypeOK
    <3>3. Append(r, u) \in Seq(Run) /\ Len(Append(r, u)) = Len(r) + 1 /\ Append(r, u)[Len(r) + 1] = u
      BY ONLY <1>1, <3>2, AppendProperties
    <3>4. Len(r) \in Nat /\ DOMAIN Append(r, u) = 1 .. Len(r) + 1
      BY ONLY <3>2, <3>3, LenProperties
    <3>5. b \in Batch /\ b.node = h.node /\ b.run = Len(r) + 1
      BY <2>1, <3>2, <3>3 DEF Served
    <3>6. /\ b.run \in DOMAIN runData'[b.node] /\ k = runData'[b.node][b.run].index
      <4>1. Len(r) + 1 \in 1 .. Len(r) + 1
        BY ONLY <3>4
      <4>2. b.run \in DOMAIN Append(r, u) /\ Append(r, u)[b.run] = u
        BY ONLY <3>3, <3>4, <3>5, <4>1
      <4> QED BY ONLY <1>3, <3>2, <3>5, <4>2
    <3>7. <<b>> # <<>> /\ <<b>>[1] = b
      OBVIOUS
    <3> QED BY <3>5, <3>6, <3>7 DEF Origin
  <2>2. \A i \in todo' : wf'.edges[i].from = entry'.node
    BY <1>1
  <2>3. ready' = <<>> /\ DOMAIN <<>> = {}
    OBVIOUS
  <2>4. \A i \in DOMAIN ready' : Origin(ready[i].source, k)'
    BY ONLY <2>3
  <2>5. InRank(ready)'
    BY ONLY <2>3 DEF InRank
  <2>6. \A i \in DOMAIN stack' : \A q \in Nat : Origin(stack[i].source, q)' => q < k
    BY <1>6
  <2> QED BY <2>1, <2>2, <2>4, <2>5, <2>6 DEF Branching
<1>10. \A p \in Nat : p + 1 = runs' => p = k
  <2>1. PICK r : r = runs'
    OBVIOUS
  <2>2. k = r - 1 /\ r \in Int
    BY <1>3, <2>1
  <2>3. \A p \in Nat : p + 1 = r => p = k
    BY ONLY <2>2
  <2> QED BY ONLY <2>1, <2>3
<1>11. \A p \in Nat : p + 1 = runs' => Branching(p)'
  BY <1>9, <1>10
<1> QED BY <1>1, <1>5, <1>8, <1>11 DEF QueueOrdered, Coming

\* What the last run schedules has every recorded run behind it.
LEMMA ReadyBehind ==
  ASSUME Typed, RunsOrdered, NEW p \in Nat, NEW x \in Entry, Origin(x.source, p),
         \A n \in Nodes, u \in Run : Recorded(n, u) => u.index <= p
  PROVE  AllBehind(x)
<1> SUFFICES ASSUME NEW n \in Nodes, NEW u \in Run, Recorded(n, u), NEW a \in Nat, NEW q \in Nat,
                    Origin(u.source, a), Origin(x.source, q)
             PROVE  Behind(n, a, u.index, x.node, q)
  BY DEF AllBehind
<1>1. q = p
  BY OriginOne
<1>2. a < u.index /\ u.index <= p /\ u.index \in Nat
  BY DEF RunsOrdered, Run
<1> QED BY ONLY <1>1, <1>2, a \in Nat, p \in Nat DEF Behind

LEMMA ConcatElements ==
  ASSUME NEW S, NEW a \in Seq(S), NEW b \in Seq(S)
  PROVE  /\ a \o b \in Seq(S)
         /\ \A i \in DOMAIN (a \o b) :
              \/ i \in DOMAIN a /\ (a \o b)[i] = a[i]
              \/ i - Len(a) \in DOMAIN b /\ (a \o b)[i] = b[i - Len(a)] /\ i \in Nat
         /\ Len(a) \in Nat /\ DOMAIN a = 1..Len(a)
<1>1. /\ Len(a) \in Nat /\ Len(b) \in Nat /\ DOMAIN a = 1..Len(a) /\ DOMAIN b = 1..Len(b)
      /\ a \o b \in Seq(S) /\ Len(a \o b) = Len(a) + Len(b)
      /\ \A i \in 1 .. Len(a) + Len(b) : (a \o b)[i] = IF i <= Len(a) THEN a[i] ELSE b[i - Len(a)]
  BY ConcatProperties, LenProperties
<1>2. DOMAIN (a \o b) = 1 .. Len(a) + Len(b)
  BY <1>1, LenProperties
<1> QED BY ONLY <1>1, <1>2

LEMMA InsertElements ==
  ASSUME NEW S, NEW q \in Seq(S), NEW x \in S, NEW l \in 1 .. Len(q) + 1
  PROVE  /\ InsertAt(q, l, x) \in Seq(S)
         /\ DOMAIN InsertAt(q, l, x) = 1 .. Len(q) + 1
         /\ \A i \in 1 .. Len(q) + 1 :
              /\ i < l => InsertAt(q, l, x)[i] = q[i]
              /\ i = l => InsertAt(q, l, x)[i] = x
              /\ i > l => InsertAt(q, l, x)[i] = q[i - 1]
<1>1. PICK k, r : k = l - 1 /\ r = InsertAt(q, l, x)
  OBVIOUS
<1>2. l = k + 1 /\ k \in 0..Len(q)
  BY <1>1, LenProperties
<1> DEFINE a == SubSeq(q, 1, k)
           b == SubSeq(q, k + 1, Len(q))
           c == a \o <<x>>
<1>3. Len(q) \in Nat /\ DOMAIN q = 1..Len(q) /\ k \in Nat /\ k <= Len(q)
  BY <1>2, LenProperties
<1>4. r = c \o b
  <2>1. l = k + 1 /\ l - 1 = k
    BY <1>2, <1>3
  <2> QED BY <1>1, <2>1 DEF InsertAt
<1>5. /\ a \in Seq(S) /\ Len(a) = k /\ \A i \in 1..k : a[i] = q[i]
  <2>1. \A i \in 1..k : q[i] \in S
    BY <1>3, ElementOfSeq
  <2>2. /\ a \in Seq(S) /\ Len(a) = (IF 1 <= k THEN k - 1 + 1 ELSE 0)
        /\ \A i \in 1 .. k - 1 + 1 : a[i] = q[1 + i - 1]
    BY <1>3, <2>1, SubSeqProperties
  <2> HIDE DEF a
  <2> QED BY <1>3, <2>2
<1>6. /\ b \in Seq(S) /\ Len(b) = Len(q) - k /\ \A i \in 1 .. Len(q) - k : b[i] = q[k + i]
  <2>0. k + 1 \in Int /\ Len(q) \in Int /\ \A i \in (k + 1)..Len(q) : q[i] \in S
    BY <1>3, ElementOfSeq
  <2>1. l = k + 1
    BY <1>2
  <2>2. /\ b \in Seq(S) /\ Len(b) = (IF l <= Len(q) THEN Len(q) - l + 1 ELSE 0)
        /\ \A i \in 1 .. Len(q) - l + 1 : b[i] = q[l + i - 1]
    <3>1. b = SubSeq(q, l, Len(q)) /\ l \in Int /\ \A i \in l..Len(q) : q[i] \in S
      BY <2>0, <2>1
    <3> HIDE DEF b
    <3> QED BY <2>0, <3>1, SubSeqProperties
  <2> HIDE DEF b
  <2>3. l \in Nat /\ Len(q) - l + 1 = Len(q) - k
    BY ONLY <1>3, <2>1
  <2>4. (IF l <= Len(q) THEN Len(q) - l + 1 ELSE 0) = Len(q) - k
    <3>1. Len(q) \in Nat /\ k \in Nat /\ k <= Len(q)
      BY ONLY <1>3
    <3>2. l <= Len(q) \/ k = Len(q)
      BY ONLY <2>1, <3>1
    <3>3. l > k
      BY ONLY <2>1, <3>1
    <3> QED BY ONLY <2>3, <3>1, <3>2, <3>3
  <2>5. \A i \in 1 .. Len(q) - k : l + i - 1 = k + i
    BY ONLY <1>3, <2>1
  <2> QED BY ONLY <2>2, <2>3, <2>4, <2>5
<1> HIDE DEF a, b
<1>7. c \in Seq(S) /\ Len(c) = k + 1 /\ \A i \in 1 .. k + 1 : c[i] = IF i = k + 1 THEN x ELSE q[i]
  <2>1. <<x>> \in Seq(S) /\ Len(<<x>>) = 1 /\ <<x>>[1] = x
    OBVIOUS
  <2>2. /\ c \in Seq(S) /\ Len(c) = Len(a) + Len(<<x>>)
        /\ \A i \in 1 .. Len(a) + Len(<<x>>) : c[i] = IF i <= Len(a) THEN a[i] ELSE <<x>>[i - Len(a)]
    BY <1>5, <2>1, ConcatProperties
  <2> HIDE DEF c
  <2>3. c[k + 1] = x
    <3>1. k + 1 \in 1 .. Len(a) + Len(<<x>>) /\ ~(k + 1 <= Len(a)) /\ (k + 1) - Len(a) = 1
      BY <1>3, <1>5, <2>1
    <3> QED BY <2>1, <2>2, <3>1
  <2>4. \A i \in 1..k : c[i] = q[i]
    <3>1. \A i \in 1..k : i \in 1 .. Len(a) + Len(<<x>>) /\ i <= Len(a)
      BY <1>3, <1>5, <2>1
    <3> QED BY <1>5, <2>2, <3>1
  <2> QED BY <1>3, <1>5, <2>1, <2>2, <2>3, <2>4
<1> HIDE DEF c
<1>8. /\ c \o b \in Seq(S) /\ Len(c \o b) = Len(c) + Len(b)
      /\ \A i \in 1 .. Len(c) + Len(b) : (c \o b)[i] = IF i <= Len(c) THEN c[i] ELSE b[i - Len(c)]
  BY <1>6, <1>7, ConcatProperties
<1>9. Len(c) + Len(b) = Len(q) + 1
  BY <1>3, <1>6, <1>7
<1>10. DOMAIN (c \o b) = 1 .. Len(q) + 1
  BY <1>8, <1>9, LenProperties
<1>11. ASSUME NEW i \in 1 .. Len(q) + 1
       PROVE  /\ i <= k => (c \o b)[i] = q[i]
              /\ i = k + 1 => (c \o b)[i] = x
              /\ i > k + 1 => (c \o b)[i] = q[i - 1]
  <2>1. CASE i <= k + 1
    <3>1. (c \o b)[i] = c[i] /\ i \in 1 .. k + 1
      BY <1>3, <1>7, <1>8, <1>9, <2>1
    <3> QED BY <1>3, <1>7, <2>1, <3>1
  <2>2. CASE i > k + 1
    <3>1. (c \o b)[i] = b[i - Len(c)]
      BY <1>3, <1>7, <1>8, <1>9, <2>2
    <3>2. i - Len(c) \in 1 .. Len(q) - k /\ k + (i - Len(c)) = i - 1
      BY <1>3, <1>7, <2>2
    <3>3. b[i - Len(c)] = q[k + (i - Len(c))]
      BY <1>6, <3>2
    <3>4. ~(i <= k) /\ i # k + 1
      BY <1>3, <2>2
    <3> QED BY <3>1, <3>2, <3>3, <3>4
  <2>3. i <= k + 1 \/ i > k + 1
    BY <1>3
  <2> QED BY ONLY <2>1, <2>2, <2>3
<1>12. \A i \in 1 .. Len(q) + 1 : (i < l => i <= k) /\ (i = l => i = k + 1) /\ (i > l => i > k + 1)
  BY ONLY <1>2, <1>3
<1> QED BY <1>1, <1>4, <1>8, <1>10, <1>11, <1>12

\* What is inserted by rank comes after those of the same rank.
LEMMA InsertInRank ==
  ASSUME wf \in Workflows, wf.v1, NEW q \in Seq(Entry), InRank(q), NEW x \in Entry
  PROVE  InRank(InsertByRank(q, x))
<1> DEFINE T == {i \in DOMAIN q : wf.rank[q[i].node] <= wf.rank[x.node]}
           m == Cardinality(T)
           rank(y) == wf.rank[y.node]
<1>1. DOMAIN q = 1..Len(q) /\ Len(q) \in Nat /\ \A i \in DOMAIN q : q[i] \in Entry
  BY LenProperties, ElementOfSeq
<1>2. \A y \in Entry : rank(y) \in Nat
  BY WorkflowFacts DEF Entry
<1>3. \A i, j \in DOMAIN q : i < j => rank(q[i]) <= rank(q[j])
  BY DEF InRank
<1> HIDE DEF rank
<1>4. T = {i \in DOMAIN q : rank(q[i]) <= rank(x)}
  BY DEF rank
<1>5. \E k \in 0..Len(q) : T = 1..k
  <2> DEFINE U == {i \in 1 .. Len(q) + 1 : i \notin T}
  <2> HIDE DEF T
  <2>1. U \subseteq Nat /\ U # {}
    <3>1. Len(q) + 1 \in 1 .. Len(q) + 1 /\ Len(q) + 1 \notin T
      BY <1>1, <1>4
    <3> QED BY <1>1, <3>1
  <2>2. PICK l \in U : \A i \in U : l <= i
    BY ONLY <2>1, NatMin
  <2>3. \A i \in DOMAIN q : i < l => i \in T
    BY <1>1, <2>2
  <2>4. \A i \in DOMAIN q : l <= i => i \notin T
    BY <1>1, <1>2, <1>3, <1>4, <2>2, x \in Entry
  <2>5. l \in 1 .. Len(q) + 1
    BY <2>2
  <2> HIDE DEF U
  <2>6. l - 1 \in 0..Len(q)
    BY <1>1, <2>5
  <2>7. T \subseteq 1..Len(q)
    BY <1>1, <1>4
  <2>8. T \subseteq 1 .. l - 1
    BY ONLY <1>1, <2>4, <2>5, <2>7
  <2>9. \A i \in 1 .. l - 1 : i \in T
    <3>1. \A i \in 1 .. l - 1 : i \in 1..Len(q) /\ i < l
      BY ONLY <1>1, <2>5
    <3> QED BY ONLY <1>1, <2>3, <3>1
  <2> QED BY <2>6, <2>8, <2>9
<1> HIDE DEF T
<1>6. PICK k \in 0..Len(q) : T = 1..k
  BY <1>5
<1>7. m = k /\ k \in Nat
  BY <1>1, <1>6, UpTo
<1>8. PICK next, r : next = k + 1 /\ r = InsertAt(q, next, x)
  OBVIOUS
<1>9. InsertByRank(q, x) = r
  BY <1>7, <1>8 DEF InsertByRank, T
<1>10. /\ DOMAIN r = 1 .. Len(q) + 1
       /\ \A i \in 1 .. Len(q) + 1 :
            /\ i <= k => r[i] = q[i]
            /\ i = k + 1 => r[i] = x
            /\ i > k + 1 => r[i] = q[i - 1]
  <2>1. q \in Seq(Entry) /\ x \in Entry /\ Len(q) \in Nat /\ k \in 0..Len(q)
    BY <1>1, <1>6
  <2>2. next \in 1 .. Len(q) + 1
    BY ONLY <1>8, <2>1
  <2>3. /\ DOMAIN r = 1 .. Len(q) + 1
        /\ \A i \in 1 .. Len(q) + 1 :
             /\ i < next => r[i] = q[i]
             /\ i = next => r[i] = x
             /\ i > next => r[i] = q[i - 1]
    BY ONLY <1>8, <2>1, <2>2, InsertElements
  <2>4. \A i \in 1 .. Len(q) + 1 : i <= k => i < next
    BY ONLY <1>8, <2>1
  <2> QED BY ONLY <1>8, <2>3, <2>4
<1>11. /\ \A i \in 1..Len(q) : i <= k => rank(q[i]) <= rank(x)
       /\ \A i \in 1..Len(q) : k < i => rank(x) <= rank(q[i])
  <2>1. \A i \in 1..Len(q) : rank(q[i]) \in Nat /\ rank(x) \in Nat
    BY <1>1, <1>2
  <2>2. \A i \in 1..Len(q) : i <= k <=> rank(q[i]) <= rank(x)
    BY ONLY <1>1, <1>4, <1>6, <1>7
  <2> QED BY ONLY <1>7, <2>1, <2>2
<1>12. ASSUME NEW i \in DOMAIN r, NEW j \in DOMAIN r, i < j PROVE rank(r[i]) <= rank(r[j])
  <2>1. i \in 1 .. Len(q) + 1 /\ j \in 1 .. Len(q) + 1 /\ i < j /\ i \in Nat /\ j \in Nat
    BY <1>1, <1>10, <1>12
  <2>2. CASE j <= k
    <3>1. i \in 1..Len(q) /\ j \in 1..Len(q) /\ i <= k
      BY <1>1, <1>7, <2>1, <2>2
    <3> QED BY <1>1, <1>3, <1>10, <2>1, <2>2, <3>1
  <2>3. CASE j = k + 1
    <3>1. i \in 1..Len(q) /\ i <= k
      BY <1>1, <1>7, <2>1, <2>3
    <3> QED BY <1>10, <1>11, <2>1, <2>3, <3>1
  <2>4. CASE j > k + 1 /\ i <= k
    <3>1. i \in 1..Len(q) /\ j - 1 \in 1..Len(q) /\ i < j - 1
      BY <1>1, <1>7, <2>1, <2>4
    <3> QED BY <1>1, <1>3, <1>10, <2>1, <2>4, <3>1
  <2>5. CASE j > k + 1 /\ i = k + 1
    <3>1. j - 1 \in 1..Len(q) /\ k < j - 1
      BY <1>1, <1>7, <2>1, <2>5
    <3> QED BY <1>10, <1>11, <2>1, <2>5, <3>1
  <2>6. CASE j > k + 1 /\ i > k + 1
    <3>1. i - 1 \in 1..Len(q) /\ j - 1 \in 1..Len(q) /\ i - 1 < j - 1
      BY <1>1, <1>7, <2>1, <2>6
    <3> QED BY <1>1, <1>3, <1>10, <2>1, <2>6, <3>1
  <2> QED BY <1>7, <2>1, <2>2, <2>3, <2>4, <2>5, <2>6
<1> QED BY <1>9, <1>12 DEF InRank, rank

\* As long as no run is recorded, all this is about the queues.
LEMMA SameRuns ==
  ASSUME runData' = runData, wf' = wf
  PROVE  /\ \A x, p : Origin(x, p)' <=> Origin(x, p)
         /\ \A x : Traced(x)' <=> Traced(x)
         /\ \A n, u : Recorded(n, u)' <=> Recorded(n, u)
         /\ \A x : AllBehind(x)' <=> AllBehind(x)
         /\ \A x, y : First(x, y)' <=> First(x, y)
<1>1. \A x, p : Origin(x, p)' <=> Origin(x, p)
  BY DEF Origin
<1>2. \A x : Traced(x)' <=> Traced(x)
  BY <1>1 DEF Traced
<1>3. \A n, u : Recorded(n, u)' <=> Recorded(n, u)
  BY DEF Recorded
<1>4. /\ \A m, p, k, n, q : Behind(m, p, k, n, q)' <=> Behind(m, p, k, n, q)
      /\ \A m, p, n, q : Before(m, p, n, q)' <=> Before(m, p, n, q)
  BY DEF Behind, Before
<1>5. \A x : AllBehind(x)' <=> AllBehind(x)
  BY <1>1, <1>3, <1>4 DEF AllBehind
<1>6. \A x, y : First(x, y)' <=> First(x, y)
  BY <1>1, <1>4 DEF First
<1> QED BY <1>1, <1>2, <1>3, <1>5, <1>6

LEMMA QuietOrder ==
  ASSUME QueueOrdered, UNCHANGED <<wf, queues, runData, entry, runs, pauses>>,
         pc' = pc \/ (pc = "before" /\ pc' = "running")
  PROVE  QueueOrdered'
<1>1. runData' = runData /\ wf' = wf /\ stack' = stack /\ waiting' = waiting /\ ready' = ready
      /\ todo' = todo /\ entry' = entry /\ runs' = runs
  BY DEF queues
<1>2. Coming' = Coming
  BY <1>1 DEF Coming
<1>3. waiting' = <<>> /\ \A n \in Nodes, u \in Run : Recorded(n, u)' => u.index < Coming'
  BY <1>1, <1>2, SameRuns DEF QueueOrdered
<1>4. PICK s, r, h : s = stack /\ r = ready /\ h = entry
  OBVIOUS
<1>5. StackOrdered'
  <2>1. /\ \A i \in DOMAIN s : Traced(s[i].source) /\ AllBehind(s[i])
        /\ \A i, j \in DOMAIN s : i < j => First(s[i], s[j])
    BY <1>4 DEF QueueOrdered, StackOrdered
  <2>2. /\ \A i \in DOMAIN s : Traced(s[i].source)' /\ AllBehind(s[i])'
        /\ \A i, j \in DOMAIN s : i < j => First(s[i], s[j])'
    BY <1>1, <2>1, SameRuns
  <2> QED BY <1>1, <1>4, <2>2 DEF StackOrdered
<1>6. ASSUME pc' \in {"before", "running"} PROVE HandOrdered'
  <2>1. Traced(h.source) /\ AllBehind(h) /\ \A i \in DOMAIN s : First(h, s[i])
    BY <1>4, <1>6 DEF QueueOrdered, HandOrdered
  <2>2. Traced(h.source)' /\ AllBehind(h)' /\ \A i \in DOMAIN s : First(h, s[i])'
    BY <1>1, <2>1, SameRuns
  <2> QED BY <1>1, <1>4, <2>2 DEF HandOrdered
<1>7. ASSUME pc' = "deliver", NEW p \in Nat, p + 1 = runs' PROVE Branching(p)'
  <2>1. Branching(p)
    BY <1>1, <1>7 DEF QueueOrdered
  <2>2. /\ \A b : Served(b) => Origin(<<b>>, p)
        /\ \A i \in todo : wf.edges[i].from = entry.node
        /\ \A i \in DOMAIN r : Origin(r[i].source, p)
        /\ InRank(ready)
        /\ \A i \in DOMAIN s : \A q \in Nat : Origin(s[i].source, q) => q < p
    BY <1>4, <2>1 DEF Branching
  <2>3. /\ \A b : Served(b)' => Origin(<<b>>, p)'
        /\ \A i \in DOMAIN r : Origin(r[i].source, p)'
        /\ \A i \in DOMAIN s : \A q \in Nat : Origin(s[i].source, q)' => q < p
    <3>1. \A b : Served(b)' => Served(b)
      BY <1>1 DEF Served
    <3> QED BY <1>1, <2>2, <3>1, SameRuns
  <2>4. InRank(ready)'
    BY <1>1, <2>2 DEF InRank
  <2>5. \A i \in todo' : wf'.edges[i].from = entry'.node
    BY <1>1, <2>2
  <2> QED BY <1>1, <1>4, <2>3, <2>4, <2>5 DEF Branching
<1> QED BY <1>3, <1>5, <1>6, <1>7 DEF QueueOrdered

LEMMA TailElements ==
  ASSUME NEW S, NEW q \in Seq(S), q # <<>>
  PROVE  /\ Tail(q) \in Seq(S) /\ Head(q) \in S /\ 1 \in DOMAIN q /\ Head(q) = q[1]
         /\ \A i \in DOMAIN Tail(q) : i \in Nat /\ i + 1 \in DOMAIN q /\ 1 < i + 1 /\ Tail(q)[i] = q[i + 1]
<1>1. Len(q) \in Nat /\ Len(q) # 0 /\ DOMAIN q = 1..Len(q)
  BY LenProperties, EmptySeq
<1>2. /\ Tail(q) \in Seq(S) /\ Len(Tail(q)) = Len(q) - 1 /\ Head(q) \in S /\ Head(q) = q[1]
      /\ \A i \in 1..Len(Tail(q)) : Tail(q)[i] = q[i + 1]
  BY HeadTailProperties
<1>3. DOMAIN Tail(q) = 1..Len(Tail(q))
  BY <1>2, LenProperties
<1> QED BY ONLY <1>1, <1>2, <1>3

LEMMA PopOrder ==
  ASSUME Typed, Grows, RunsOrdered, QueueOrdered, Pop, pc' # "end"
  PROVE  QueueOrdered'
<1>1. /\ stack \in Seq(Entry) /\ runs \in Nat /\ wf' = wf /\ waiting = <<>> /\ todo = {} /\ ready = <<>>
      /\ pc = "top"
  BY DEF Typed, TypeOK, Shape, Pop, PopFrom, AtTop, QueueOrdered
<1>2. stack # <<>> /\ PopFrom(FALSE) /\ runs < MaxNodeRuns
  BY <1>1 DEF Pop
<1>3. PICK h, s : h = Head(stack) /\ s = Tail(stack)
  OBVIOUS
<1>4. /\ runs' = runs + 1 /\ entry' = h /\ stack' = s /\ waiting' = waiting /\ ready' = ready
      /\ IF PassesThrough(h.node)
         THEN Record(h, IF AtHand(h) THEN {0} ELSE {}, h.source)
         ELSE pc' = "before" /\ runData' = runData
  BY <1>2, <1>3 DEF PopFrom
<1>5. /\ s \in Seq(Entry) /\ h \in Entry /\ 1 \in DOMAIN stack /\ h = stack[1]
      /\ \A i \in DOMAIN s : i \in Nat /\ i + 1 \in DOMAIN stack /\ 1 < i + 1 /\ s[i] = stack[i + 1]
  BY <1>1, <1>2, <1>3, TailElements
<1>6. /\ \A i \in DOMAIN stack : Traced(stack[i].source) /\ AllBehind(stack[i])
      /\ \A i, j \in DOMAIN stack : i < j => First(stack[i], stack[j])
  BY DEF QueueOrdered, StackOrdered
<1>7. Traced(h.source) /\ AllBehind(h)
  BY <1>5, <1>6
<1>8. \A i \in DOMAIN s : Traced(s[i].source) /\ AllBehind(s[i]) /\ First(h, s[i])
  <2>1. ASSUME NEW i \in DOMAIN s PROVE Traced(s[i].source) /\ AllBehind(s[i]) /\ First(h, s[i])
    <3>1. PICK j \in DOMAIN stack : 1 < j /\ s[i] = stack[j]
      BY <1>5
    <3> QED BY <1>5, <1>6, <3>1
  <2> QED BY <2>1
<1>9. \A i, j \in DOMAIN s : i < j => First(s[i], s[j])
  <2>1. ASSUME NEW i \in DOMAIN s, NEW j \in DOMAIN s, i < j PROVE First(s[i], s[j])
    <3>1. PICK k \in DOMAIN stack : k = i + 1 /\ s[i] = stack[k]
      BY <1>5
    <3>2. PICK l \in DOMAIN stack : l = j + 1 /\ s[j] = stack[l]
      BY <1>5
    <3>3. k < l
      BY <1>5, <2>1, <3>1, <3>2
    <3> QED BY <1>6, <3>1, <3>2, <3>3
  <2> QED BY <2>1
<1>10. \A n \in Nodes, v \in Run : Recorded(n, v) => v.index < runs
  BY <1>1 DEF QueueOrdered, Coming
<1>11. CASE PassesThrough(h.node)
  <2>1. PICK outs \in SUBSET Nat : Record(h, outs, h.source)
    BY <1>4, <1>11
  <2>2. runs' \in 1..MaxNodeRuns
    BY <1>1, <1>2, <1>4, BoundsAssumption
  <2>3. PICK k : k = runs' - 1 /\ k = runs
    BY <1>1, <1>4
  <2> QED BY <1>1, <1>4, <1>5, <1>7, <1>8, <1>9, <1>10, <2>1, <2>2, <2>3, RecordOrdered
<1>12. CASE ~PassesThrough(h.node)
  <2>1. runData' = runData /\ pc' = "before"
    BY <1>4, <1>12
  <2>2. Coming' = runs
    BY <1>1, <1>4, <2>1 DEF Coming
  <2>3. \A n \in Nodes, v \in Run : Recorded(n, v)' => v.index < Coming'
    BY <1>1, <1>10, <2>1, <2>2, SameRuns
  <2>4. StackOrdered'
    <3>1. /\ \A i \in DOMAIN s : Traced(s[i].source)' /\ AllBehind(s[i])'
          /\ \A i, j \in DOMAIN s : i < j => First(s[i], s[j])'
      BY <1>1, <1>8, <1>9, <2>1, SameRuns
    <3> QED BY <1>4, <3>1 DEF StackOrdered
  <2>5. HandOrdered'
    <3>1. Traced(h.source)' /\ AllBehind(h)' /\ \A i \in DOMAIN s : First(h, s[i])'
      BY <1>1, <1>7, <1>8, <2>1, SameRuns
    <3> QED BY <1>4, <3>1 DEF HandOrdered
  <2> QED BY <1>1, <1>4, <2>1, <2>3, <2>4, <2>5 DEF QueueOrdered
<1> QED BY <1>11, <1>12

LEMMA RunOrder ==
  ASSUME Typed, Grows, RunsOrdered, QueueOrdered, pc = "running", pc' # "end",
         runs' \in 1..MaxNodeRuns, UNCHANGED <<wf, stack, waiting, ready, entry, runs, pauses>>,
         NEW outs \in SUBSET Nat, Record(entry, outs, entry.source)
  PROVE  QueueOrdered'
<1>1. /\ stack \in Seq(Entry) /\ entry \in Entry /\ todo = {} /\ ready = <<>> /\ runs \in Nat
      /\ waiting' = <<>> /\ wf' = wf /\ ready' = ready
  BY DEF Typed, TypeOK, Shape, QueueOrdered
<1>2. PICK h, s : h = entry /\ s = stack
  OBVIOUS
<1>3. /\ Traced(h.source) /\ AllBehind(h)
      /\ \A i \in DOMAIN s : Traced(s[i].source) /\ AllBehind(s[i]) /\ First(h, s[i])
      /\ \A i, j \in DOMAIN s : i < j => First(s[i], s[j])
  BY <1>2 DEF QueueOrdered, StackOrdered, HandOrdered
<1>4. PICK k : k = runs' - 1
  OBVIOUS
<1>5. \A n \in Nodes, v \in Run : Recorded(n, v) => v.index < k
  BY <1>4 DEF QueueOrdered, Coming
<1>6. h \in Entry /\ s \in Seq(Entry) /\ entry' = h /\ stack' = s /\ Record(h, outs, h.source)
  BY <1>1, <1>2
<1> QED BY <1>1, <1>3, <1>4, <1>5, <1>6, RecordOrdered

\* One more child of the last run is made ready.
LEMMA DeliverOrder ==
  ASSUME Typed, QueueOrdered, Joins = {}, Deliver
  PROVE  QueueOrdered'
<1>1. PICK t : t = wf.edges[Min(todo)]
  OBVIOUS
<1>2. PICK b : b = [node |-> t.from, output |-> t.output, run |-> Len(runData[t.from])]
  OBVIOUS
<1>3. PICK x : x = [node |-> t.to, source |-> <<b>>]
  OBVIOUS
<1>4. t.to \in Nodes /\ b \in Batch /\ x \in Entry /\ Min(todo) \in todo
  BY <1>1, <1>2, <1>3, NextEdge DEF Deliver
<1>5. ConnectedInputs(t.to) <= 1
  <2>1. ConnectedInputs(t.to) \in Nat
    BY <1>4, InputsOf DEF Typed, TypeOK
  <2>2. ~(ConnectedInputs(t.to) > 1)
    BY <1>4 DEF Joins
  <2> QED BY ONLY <2>1, <2>2
<1>6. /\ MakeReady(x) /\ waiting' = waiting /\ stack' = stack /\ runData' = runData /\ wf' = wf
      /\ entry' = entry /\ runs' = runs /\ pc = "deliver" /\ pc' = "deliver" /\ todo' \subseteq todo
  BY <1>1, <1>2, <1>3, <1>5 DEF Deliver
<1>7. TypeOK /\ ready \in Seq(Entry) /\ wf \in Workflows
  BY DEF Typed, TypeOK
<1>8. PICK s, r : s = stack /\ r = ready'
  OBVIOUS
<1>9. waiting' = <<>> /\ \A n \in Nodes, u \in Run : Recorded(n, u)' => u.index < Coming'
  BY <1>6, SameRuns DEF QueueOrdered, Coming
<1>10. StackOrdered'
  <2>1. /\ \A i \in DOMAIN s : Traced(s[i].source) /\ AllBehind(s[i])
        /\ \A i, j \in DOMAIN s : i < j => First(s[i], s[j])
    BY <1>8 DEF QueueOrdered, StackOrdered
  <2>2. /\ \A i \in DOMAIN s : Traced(s[i].source)' /\ AllBehind(s[i])'
        /\ \A i, j \in DOMAIN s : i < j => First(s[i], s[j])'
    BY <1>6, <2>1, SameRuns
  <2> QED BY <1>6, <1>8, <2>2 DEF StackOrdered
<1>11. ASSUME NEW p \in Nat, p + 1 = runs' PROVE Branching(p)'
  <2>1. Branching(p)
    BY <1>6, <1>11 DEF QueueOrdered
  <2>2. \A c : Served(c)' => Origin(<<c>>, p)'
    <3>1. \A c : Served(c)' => Served(c)
      BY <1>6 DEF Served
    <3> QED BY <1>6, <2>1, <3>1, SameRuns DEF Branching
  <2>3. \A i \in todo' : wf'.edges[i].from = entry'.node
    BY <1>6, <2>1 DEF Branching
  <2>4. \A i \in DOMAIN s : \A q \in Nat : Origin(s[i].source, q)' => q < p
    BY <1>6, <1>8, <2>1, SameRuns DEF Branching
  <2>5. Origin(x.source, p)
    <3>1. t.from = entry.node
      BY <1>1, <1>4, <2>1 DEF Branching
    <3>2. Served(b)
      BY <1>2, <1>4, <3>1 DEF Served
    <3>3. x.source = <<b>>
      BY <1>3
    <3> QED BY <2>1, <3>2, <3>3 DEF Branching
  <2>6. \A i \in DOMAIN r : Origin(r[i].source, p)'
    <3> DEFINE P == {y \in Entry : ~Origin(y.source, p)}
    <3>1. \A i \in DOMAIN ready : ready[i] \notin P
      BY <2>1 DEF Branching
    <3>2. x \notin P
      BY <2>5
    <3> HIDE DEF P
    <3>3. \A i \in DOMAIN r : r[i] \notin P
      BY <1>4, <1>6, <1>7, <1>8, <3>1, <3>2, ReadyOff
    <3>4. \A i \in DOMAIN r : r[i] \in Entry
      <4>1. ready' \in Seq(Entry)
        BY <1>4, <1>6, <1>7, MakeReadyEffect
      <4> QED BY <1>8, <4>1, ElementOfSeq, LenProperties
    <3>5. \A i \in DOMAIN r : Origin(r[i].source, p)
      BY <3>3, <3>4 DEF P
    <3> QED BY <1>6, <3>5, SameRuns
  <2>7. InRank(ready)'
    <3>1. InRank(r)
      <4>1. CASE wf.v1
        <5>1. r = InsertByRank(ready, x)
          BY <1>6, <1>8, <4>1 DEF MakeReady
        <5>2. InRank(ready)
          BY <2>1 DEF Branching
        <5> QED BY <1>4, <1>7, <4>1, <5>1, <5>2, InsertInRank
      <4>2. CASE ~wf.v1
        BY <4>2 DEF InRank
      <4> QED BY <4>1, <4>2
    <3> QED BY <1>6, <1>8, <3>1 DEF InRank
  <2> QED BY <1>6, <1>8, <2>2, <2>3, <2>4, <2>6, <2>7 DEF Branching
<1> QED BY <1>6, <1>9, <1>10, <1>11 DEF QueueOrdered

\* The children go in front of the stack or behind it, where they belong.
LEMMA ScheduleOrder ==
  ASSUME Typed, RunsOrdered, QueueOrdered, Schedule
  PROVE  QueueOrdered'
<1>1. /\ stack \in Seq(Entry) /\ ready \in Seq(Entry) /\ runs \in Nat /\ runs >= 1
      /\ wf \in Workflows /\ pc = "deliver"
  BY DEF Typed, TypeOK, Shape, Schedule
<1>2. /\ waiting' = waiting /\ runData' = runData /\ wf' = wf /\ runs' = runs /\ pc' = "top"
      /\ stack' = IF wf.v1 THEN ready \o stack ELSE stack \o ready
  BY DEF Schedule
<1>3. PICK p \in Nat : p + 1 = runs
  <2>1. runs - 1 \in Nat /\ (runs - 1) + 1 = runs
    BY <1>1
  <2> QED BY <2>1
<1>4. Branching(p)
  BY <1>1, <1>3 DEF QueueOrdered
<1>5. waiting' = <<>> /\ \A n \in Nodes, u \in Run : Recorded(n, u)' => u.index < Coming'
  BY <1>1, <1>2, SameRuns DEF QueueOrdered, Coming
<1>6. \A n \in Nodes, u \in Run : Recorded(n, u) => u.index <= p
  <2>1. ASSUME NEW n \in Nodes, NEW u \in Run, Recorded(n, u) PROVE u.index <= p
    <3>1. u.index < runs /\ u.index \in Nat
      BY <1>1, <2>1 DEF QueueOrdered, Coming, Run
    <3> QED BY ONLY <1>3, <3>1, p \in Nat
  <2> QED BY <2>1
<1>7. PICK a, b : a = stack /\ b = ready
  OBVIOUS
<1>8. a \in Seq(Entry) /\ b \in Seq(Entry) /\ \A i \in DOMAIN b : b[i] \in Entry
  BY <1>1, <1>7, ElementOfSeq, LenProperties
<1>9. /\ \A i \in DOMAIN a : Traced(a[i].source) /\ AllBehind(a[i])
      /\ \A i, j \in DOMAIN a : i < j => First(a[i], a[j])
  BY <1>7 DEF QueueOrdered, StackOrdered
<1>10. /\ \A i \in DOMAIN b : Origin(b[i].source, p)
       /\ InRank(b)
       /\ \A i \in DOMAIN a : \A q \in Nat : Origin(a[i].source, q) => q < p
  BY <1>4, <1>7 DEF Branching
<1>11. \A i \in DOMAIN b : Traced(b[i].source) /\ AllBehind(b[i])
  <2>1. ASSUME NEW i \in DOMAIN b PROVE Traced(b[i].source) /\ AllBehind(b[i])
    <3>1. PICK x \in Entry : x = b[i]
      BY <1>8
    <3>2. Origin(x.source, p)
      BY <1>10, <3>1
    <3>3. AllBehind(x)
      BY <1>6, <3>2, ReadyBehind
    <3> QED BY <3>1, <3>2, <3>3 DEF Traced
  <2> QED BY <2>1
<1>12. ASSUME NEW i \in DOMAIN b, NEW j \in DOMAIN b, i < j PROVE First(b[i], b[j])
  <2>1. PICK x \in Entry, y \in Entry : x = b[i] /\ y = b[j]
    BY <1>8
  <2>2. Origin(x.source, p) /\ Origin(y.source, p)
    BY <1>10, <2>1
  <2>3. wf.v1 => wf.rank[x.node] <= wf.rank[y.node]
    BY <1>10, <1>12, <2>1 DEF InRank
  <2>4. Before(x.node, p, y.node, p)
    BY <2>3 DEF Before
  <2>5. First(x, y)
    BY <2>2, <2>4, OriginOne DEF First
  <2> QED BY <2>1, <2>5
<1>13. ASSUME NEW i \in DOMAIN a, NEW j \in DOMAIN b
       PROVE  (wf.v1 => First(b[j], a[i])) /\ (~wf.v1 => First(a[i], b[j]))
  <2>1. PICK x, y : x = a[i] /\ y = b[j]
    OBVIOUS
  <2>2. Origin(y.source, p) /\ \A q \in Nat : Origin(x.source, q) => q < p
    BY <1>10, <2>1
  <2>3. \A q \in Nat : Origin(y.source, q) => q = p
    BY <2>2, OriginOne
  <2>4. wf.v1 => First(y, x)
    BY <2>2, <2>3 DEF First, Before
  <2>5. ~wf.v1 => First(x, y)
    BY <2>2, <2>3 DEF First, Before
  <2> QED BY <2>1, <2>4, <2>5
<1>14. ASSUME NEW c \in Seq(Entry), NEW d \in Seq(Entry),
              \A i \in DOMAIN c : Traced(c[i].source) /\ AllBehind(c[i]),
              \A i \in DOMAIN d : Traced(d[i].source) /\ AllBehind(d[i]),
              \A i, j \in DOMAIN c : i < j => First(c[i], c[j]),
              \A i, j \in DOMAIN d : i < j => First(d[i], d[j]),
              \A i \in DOMAIN c, j \in DOMAIN d : First(c[i], d[j]),
              NEW s, s = c \o d
       PROVE  /\ \A i \in DOMAIN s : Traced(s[i].source) /\ AllBehind(s[i])
              /\ \A i, j \in DOMAIN s : i < j => First(s[i], s[j])
  <2>1. /\ \A i \in DOMAIN s : \/ i \in DOMAIN c /\ s[i] = c[i]
                               \/ i - Len(c) \in DOMAIN d /\ s[i] = d[i - Len(c)] /\ i \in Nat
        /\ Len(c) \in Nat /\ DOMAIN c = 1..Len(c) /\ DOMAIN d = 1..Len(d)
    BY <1>14, ConcatElements
  <2>2. \A i \in DOMAIN s : Traced(s[i].source) /\ AllBehind(s[i])
    BY <1>14, <2>1
  <2>3. ASSUME NEW i \in DOMAIN s, NEW j \in DOMAIN s, i < j PROVE First(s[i], s[j])
    <3>1. CASE i \in DOMAIN c /\ s[i] = c[i] /\ j \in DOMAIN c /\ s[j] = c[j]
      BY <1>14, <2>3, <3>1
    <3>2. CASE i \in DOMAIN c /\ s[i] = c[i] /\ j - Len(c) \in DOMAIN d /\ s[j] = d[j - Len(c)]
      BY <1>14, <3>2
    <3>3. CASE /\ i - Len(c) \in DOMAIN d /\ s[i] = d[i - Len(c)] /\ i \in Nat
               /\ j - Len(c) \in DOMAIN d /\ s[j] = d[j - Len(c)] /\ j \in Nat
      <4>1. i - Len(c) < j - Len(c)
        BY <2>1, <2>3, <3>3
      <4> QED BY <1>14, <3>3, <4>1
    <3>4. ~(i \notin DOMAIN c /\ i \in Nat /\ i - Len(c) \in DOMAIN d /\ j \in DOMAIN c)
      BY ONLY <2>1, <2>3
    <3> QED BY <2>1, <3>1, <3>2, <3>3, <3>4
  <2> QED BY <2>2, <2>3
<1>15. PICK s : s = stack'
  OBVIOUS
<1>16. /\ \A i \in DOMAIN s : Traced(s[i].source) /\ AllBehind(s[i])
       /\ \A i, j \in DOMAIN s : i < j => First(s[i], s[j])
  <2>1. CASE wf.v1
    <3>1. s = b \o a
      BY <1>2, <1>7, <1>15, <2>1
    <3>2. \A i \in DOMAIN b, j \in DOMAIN a : First(b[i], a[j])
      BY <1>13, <2>1
    <3> QED BY <1>8, <1>9, <1>11, <1>12, <1>14, <3>1, <3>2
  <2>2. CASE ~wf.v1
    <3>1. s = a \o b
      BY <1>2, <1>7, <1>15, <2>2
    <3>2. \A i \in DOMAIN a, j \in DOMAIN b : First(a[i], b[j])
      BY <1>13, <2>2
    <3> QED BY <1>8, <1>9, <1>11, <1>12, <1>14, <3>1, <3>2
  <2> QED BY <2>1, <2>2
<1>17. /\ \A i \in DOMAIN s : Traced(s[i].source)' /\ AllBehind(s[i])'
       /\ \A i, j \in DOMAIN s : i < j => First(s[i], s[j])'
  BY <1>2, <1>16, SameRuns
<1>18. StackOrdered'
  BY <1>15, <1>17 DEF StackOrdered
<1> QED BY <1>2, <1>5, <1>18 DEF QueueOrdered

LEMMA OrderInit == Init => OrderInv
<1> SUFFICES ASSUME Init PROVE RunsOrdered /\ QueueOrdered
  BY DEF OrderInv
<1>1. /\ stack = <<StartEntry>> /\ waiting = <<>> /\ pc = "top" /\ runData = [n \in Nodes |-> <<>>]
  BY DEF Init
<1>2. \A n \in Nodes : \A u : ~Recorded(n, u)
  BY <1>1 DEF Recorded
<1>3. RunsOrdered
  BY <1>2 DEF RunsOrdered
<1>4. \A s : s = <<>> => Traced(s) /\ \A p : ~Origin(s, p)
  BY DEF Traced, Origin
<1>5. PICK x : x = StartEntry
  OBVIOUS
<1>6. x.source = <<>>
  BY <1>5 DEF StartEntry
<1>7. Traced(x.source) /\ AllBehind(x) /\ First(x, x)
  BY <1>2, <1>4, <1>6 DEF AllBehind, First
<1>8. \A i \in DOMAIN stack : stack[i] = x
  BY <1>1, <1>5
<1>9. StackOrdered
  BY <1>7, <1>8 DEF StackOrdered
<1> QED BY <1>1, <1>2, <1>3, <1>9 DEF QueueOrdered

LEMMA OrderNext == Typed /\ OrderInv /\ [Next]_vars => OrderInv'
<1> SUFFICES ASSUME Typed, OrderInv, [Next]_vars, pauses' = 0, Joins' = {}
             PROVE  RunsOrdered' /\ (pc' # "end" => QueueOrdered')
  BY DEF OrderInv
<1>1. Grows /\ wf' = wf
  BY GrowsNext DEF Grows
<1>2. Joins = {}
  BY <1>1 DEF Joins, ConnectedInputs, Edges
<1>3. pauses = 0
  BY BoundsAssumption DEF Next, Step, vars, queues, SeeCancel, NothingLeft, TooManyRuns, Pop,
     PopFrom, Begin, Complete, Retry, FailOn, Fail, Pause, Abort, Deliver, Schedule, Cancel, Notify,
     TimeOut, Resume, Typed, TypeOK
<1>4. RunsOrdered /\ (pc # "end" => QueueOrdered)
  BY <1>2, <1>3 DEF OrderInv
<1>5. RunsOrdered'
  <2>1. CASE runData' = runData
    <3>1. \A m, p, k, n, q, l : InOrder(m, p, k, n, q, l)' <=> InOrder(m, p, k, n, q, l)
      BY <1>1 DEF InOrder
    <3> QED BY <1>1, <1>4, <2>1, <3>1, SameRuns DEF RunsOrdered
  <2>2. CASE \E x \in Entry, outs \in SUBSET Nat, k \in Nat :
               /\ runData' = [runData EXCEPT ![x.node] =
                    Append(runData[x.node], [source |-> x.source, outs |-> outs, index |-> k])]
               /\ pauses = 0 /\ pc # "end" /\ k = (IF pc = "running" THEN runs - 1 ELSE runs)
               /\ \/ pc = "running" /\ x = entry
                  \/ pc = "top" /\ stack # <<>> /\ x = Head(stack)
                  \/ pc = "top" /\ stack = <<>> /\ waiting # <<>> /\ x = Head(waiting)
    <3>1. PICK x \in Entry, outs \in SUBSET Nat, k \in Nat :
               /\ runData' = [runData EXCEPT ![x.node] =
                    Append(runData[x.node], [source |-> x.source, outs |-> outs, index |-> k])]
               /\ pc # "end" /\ k = (IF pc = "running" THEN runs - 1 ELSE runs)
               /\ \/ pc = "running" /\ x = entry
                  \/ pc = "top" /\ stack # <<>> /\ x = Head(stack)
                  \/ pc = "top" /\ stack = <<>> /\ waiting # <<>> /\ x = Head(waiting)
      BY <2>2
    <3>2. PICK u : u = [source |-> x.source, outs |-> outs, index |-> k]
      OBVIOUS
    <3>3. u \in Run /\ u.source = x.source /\ u.index = k
      BY <3>2 DEF Run, Entry
    <3>4. runData' = [runData EXCEPT ![x.node] = Append(runData[x.node], u)]
      BY <3>1, <3>2
    <3>5. QueueOrdered
      BY <1>4, <3>1
    <3>6. \A n \in Nodes, v \in Run : Recorded(n, v) => v.index < u.index
      <4>1. k = Coming
        BY <3>1 DEF Coming
      <4> QED BY <3>3, <3>5, <4>1 DEF QueueOrdered
    <3>7. Traced(x.source) /\ AllBehind(x)
      <4>1. CASE pc = "running" /\ x = entry
        BY <3>5, <4>1 DEF QueueOrdered, HandOrdered
      <4>2. CASE stack # <<>> /\ x = Head(stack)
        <5>1. stack \in Seq(Entry)
          BY DEF Typed, TypeOK
        <5>2. 1 \in DOMAIN stack /\ x = stack[1]
          BY <4>2, <5>1, TailElements
        <5> QED BY <3>5, <5>2 DEF QueueOrdered, StackOrdered
      <4>3. waiting = <<>>
        BY <3>5 DEF QueueOrdered
      <4> QED BY <3>1, <4>1, <4>2, <4>3
    <3> QED BY <1>1, <1>4, <3>3, <3>4, <3>6, <3>7, AddRun
  <2> QED BY <2>1, <2>2, AddedRun
<1>6. ASSUME pc' # "end" PROVE QueueOrdered'
  <2>1. Ongoing /\ QueueOrdered
    BY <1>4, <1>6, OngoingStep
  <2>2. CASE /\ UNCHANGED <<wf, queues, runData, entry, runs, pauses>>
             /\ pc' = pc \/ (pc = "before" /\ pc' = "running")
    BY <2>1, <2>2, QuietOrder
  <2>3. CASE Pop
    BY <1>1, <1>4, <1>6, <2>1, <2>3, PopOrder
  <2>4. CASE /\ pc = "running" /\ runs' \in 1..MaxNodeRuns
             /\ UNCHANGED <<wf, stack, waiting, ready, entry, runs, pauses>>
             /\ \E outs \in SUBSET Nat : Record(entry, outs, entry.source)
    BY <1>1, <1>4, <1>6, <2>1, <2>4, RunOrder
  <2>5. CASE Deliver
    BY <1>2, <2>1, <2>5, DeliverOrder
  <2>6. CASE Schedule
    BY <1>4, <2>1, <2>6, ScheduleOrder
  <2> QED BY <2>1, <2>2, <2>3, <2>4, <2>5, <2>6 DEF Ongoing
<1> QED BY <1>5, <1>6

\* In a workflow without joins, v1 runs what one run made ready before what an
\* earlier one did, and its children in canvas order; v0 runs level by level:
\* the stack is sorted so, and nothing that ran was before anything on it.
THEOREM RunsInOrder == Spec => []OrderKept
<1>1. Typed /\ OrderInv => OrderKept
  <2> SUFFICES ASSUME Typed, OrderInv, pauses = 0, Joins = {}, NEW t \in Caused, NEW u \in Caused
               PROVE  LET p == Parent(t).index
                          q == Parent(u).index
                      IN  IF wf.v1
                          THEN /\ p < q /\ q < t.index => u.index < t.index
                               /\ p = q /\ wf.rank[NodeOf(t)] < wf.rank[NodeOf(u)] => t.index < u.index
                          ELSE p < q => t.index < u.index
    BY DEF OrderKept
  <2>1. RunsOrdered
    BY DEF OrderInv
  <2>2. ASSUME NEW r \in Caused
        PROVE  /\ NodeOf(r) \in Nodes /\ r \in Run /\ Recorded(NodeOf(r), r)
               /\ Parent(r).index \in Nat /\ Origin(r.source, Parent(r).index)
    <3>1. r.source # <<>> /\ \E n \in Nodes : r \in Range(runData[n])
      BY <2>2 DEF Caused
    <3>2. PICK m : m = NodeOf(r)
      OBVIOUS
    <3>3. m \in Nodes /\ r \in Range(runData[m])
      BY <3>1, <3>2 DEF NodeOf
    <3>4. runData[m] \in Seq(Run)
      BY <3>3 DEF Typed, TypeOK
    <3>5. PICK k \in DOMAIN runData[m] : r = runData[m][k]
      BY <3>3 DEF Range
    <3>6. r \in Run
      BY ONLY <3>4, <3>5, ElementOfSeq, LenProperties
    <3>7. Recorded(m, r)
      BY <3>5 DEF Recorded
    <3>8. PICK p \in Nat : Origin(r.source, p)
      BY <2>1, <3>1, <3>3, <3>6, <3>7 DEF RunsOrdered, Traced
    <3>9. p = Parent(r).index
      BY <3>8 DEF Origin, Parent
    <3> QED BY <3>2, <3>3, <3>6, <3>7, <3>8, <3>9
  <2>3. PICK m, n, p, q : m = NodeOf(t) /\ n = NodeOf(u) /\ p = Parent(t).index /\ q = Parent(u).index
    OBVIOUS
  <2>4. /\ m \in Nodes /\ n \in Nodes /\ t \in Run /\ u \in Run /\ Recorded(m, t) /\ Recorded(n, u)
        /\ p \in Nat /\ q \in Nat /\ Origin(t.source, p) /\ Origin(u.source, q)
    BY <2>2, <2>3
  <2>5. InOrder(m, p, t.index, n, q, u.index)
    BY <2>1, <2>4 DEF RunsOrdered
  <2> QED BY <2>3, <2>5 DEF InOrder
<1> QED BY <1>1, TypedInit, TypedNext, OrderInit, OrderNext, PTL DEF Spec

-----------------------------------------------------------------------------
(* Runs that miss an input, in a workflow where no join leads to a join.   *)

Lacks(s) == None \in Range(s)

\* At a join, a source names every input, or it is that of the start node.
Fits(n, s) == n \in Joins => s = <<>> \/ Len(s) = ConnectedInputs(n)

\* The entries that miss nothing, those of joins, and those of joins and of
\* the nodes below them.
Supplied == {x \in Entry : Fits(x.node, x.source) /\ ~Lacks(x.source)}
AtJoins == {x \in Whole : x.node \in Joins}
Near(nodes) == {x \in Entry : x.node \in Joins \cup nodes}

Starved == \E n \in Nodes, u \in Run : Recorded(n, u) /\ Lacks(u.source)

\* What runs after a run that missed an input is near the joins.
StarvedRuns(nodes) ==
  /\ \A n \in Nodes, u \in Run : Recorded(n, u) => Fits(n, u.source)
  /\ \A m, n \in Nodes, t, u \in Run : Recorded(m, t) /\ Recorded(n, u) =>
       (Lacks(t.source) /\ t.index < u.index => n \in Joins \cup nodes)

StarvedQueue(nodes) ==
  /\ \A n \in Nodes, u \in Run : Recorded(n, u) => u.index < Coming
  /\ stack \in Seq(Supplied) /\ ready \in Seq(Supplied) /\ waiting \in Seq(AtJoins)
  /\ pc \in {"before", "running"} => entry \in Supplied \/ (stack = <<>> /\ entry \in AtJoins)
  /\ \A i \in todo : wf.edges[i].from = entry.node
  /\ Starved => /\ stack \in Seq(Near(nodes)) /\ ready \in Seq(Near(nodes))
                /\ pc \in {"before", "running", "deliver"} => entry \in Near(nodes)

StarveInv ==
  pauses = 0 => \A nodes \in SUBSET Nodes : Below(nodes) =>
                  StarvedRuns(nodes) /\ (pc # "end" => StarvedQueue(nodes))

LEMMA SameWorkflow ==
  ASSUME wf' = wf
  PROVE  /\ Joins' = Joins /\ Supplied' = Supplied /\ AtJoins' = AtJoins
         /\ \A n, s : Fits(n, s)' <=> Fits(n, s)
         /\ \A s : Lacks(s)' <=> Lacks(s)
         /\ \A nodes : (Below(nodes)' <=> Below(nodes)) /\ Near(nodes)' = Near(nodes)
<1>1. Edges' = Edges /\ \A n : ConnectedInputs(n)' = ConnectedInputs(n)
  BY DEF Edges, ConnectedInputs
<1>2. Joins' = Joins
  BY <1>1 DEF Joins
<1>3. /\ \A n, s : Fits(n, s)' <=> Fits(n, s)
      /\ \A s : Lacks(s)' <=> Lacks(s)
  BY <1>1, <1>2 DEF Fits, Lacks
<1>4. Supplied' = Supplied /\ AtJoins' = AtJoins
  BY <1>1, <1>2, <1>3 DEF Supplied, AtJoins, Whole
<1>5. \A nodes : (Below(nodes)' <=> Below(nodes)) /\ Near(nodes)' = Near(nodes)
  BY <1>1, <1>2 DEF Below, Near
<1> QED BY <1>2, <1>3, <1>4, <1>5

LEMMA ReadyIn ==
  ASSUME TypeOK, NEW S, S \subseteq Entry, ready \in Seq(S), NEW x \in S, MakeReady(x)
  PROVE  ready' \in Seq(S)
<1>1. x \in Entry /\ \A i \in DOMAIN ready : ready[i] \in S
  BY ElementOfSeq, LenProperties
<1>2. PICK P : P = Entry \ S
  OBVIOUS
<1>3. \A i \in DOMAIN ready' : ready'[i] \notin P
  BY <1>1, <1>2, ReadyOff
<1>4. ready' \in Seq(Entry)
  BY <1>1, MakeReadyEffect
<1>5. \A i \in 1..Len(ready') : ready'[i] \in S
  BY <1>2, <1>3, <1>4, ElementOfSeq, LenProperties
<1> QED BY <1>4, <1>5, LenProperties

\* The entries that Deliver fills are those of a join.
LEMMA FillJoins ==
  ASSUME Typed, NEW n \in Joins, NEW slot \in 1..ConnectedInputs(n), NEW b \in Batch,
         waiting \in Seq(AtJoins), FillWaiting(n, slot, b)
  PROVE  /\ waiting' \in Seq(AtJoins)
         /\ ready' = ready \/ \E x \in Supplied : x.node = n /\ MakeReady(x)
<1>1. n \in Nodes /\ wf \in Workflows /\ b # None
  BY NoneAssumption DEF Joins, Typed, TypeOK, Batch
<1>2. ASSUME NEW x \in Whole, x.node = n, NEW without \in Seq(AtJoins), NEW with,
             x \in AtJoins => with \in Seq(AtJoins), Moved(x, without, with)
      PROVE  /\ waiting' \in Seq(AtJoins)
             /\ ready' = ready \/ \E y \in Supplied : y.node = n /\ MakeReady(y)
  <2>1. x \in AtJoins
    BY <1>2 DEF AtJoins
  <2>2. CASE Full(x) /\ waiting' = without /\ MakeReady(x)
    <3>1. x \in Entry /\ Len(x.source) = ConnectedInputs(x.node)
      BY DEF Whole
    <3>2. ~Lacks(x.source)
      BY <2>2 DEF Full, Lacks, Range
    <3>3. x \in Supplied
      BY <3>1, <3>2 DEF Supplied, Fits
    <3> QED BY <1>2, <2>2, <3>3
  <2>3. CASE ~Full(x) /\ waiting' = with /\ ready' = ready
    BY <1>2, <2>1, <2>3
  <2> QED BY <1>2, <2>2, <2>3 DEF Moved
<1>3. CASE Moved(Filled(Fresh(n), slot, b), waiting, Append(waiting, Filled(Fresh(n), slot, b)))
  <2>1. Fresh(n) \in Whole /\ Fresh(n).node = n /\ slot \in DOMAIN Fresh(n).source
        /\ Fresh(n).source[slot] = None
    BY <1>1, FreshEntry DEF Fresh
  <2>2. PICK x : x = Filled(Fresh(n), slot, b)
    OBVIOUS
  <2>3. x \in Whole /\ x.node = n
    BY <2>1, <2>2, FilledOf
  <2>4. x \in AtJoins => Append(waiting, x) \in Seq(AtJoins)
    BY AppendProperties
  <2> QED BY <1>2, <1>3, <2>2, <2>3, <2>4
<1>4. CASE \E i \in Missing(n, slot) :
             /\ i \in 1..Len(waiting)
             /\ Moved(Filled(waiting[i], slot, b), RemoveAt(waiting, i),
                      [waiting EXCEPT ![i] = Filled(waiting[i], slot, b)])
  <2>1. PICK i \in Missing(n, slot) :
          /\ i \in 1..Len(waiting)
          /\ Moved(Filled(waiting[i], slot, b), RemoveAt(waiting, i),
                   [waiting EXCEPT ![i] = Filled(waiting[i], slot, b)])
    BY <1>4
  <2>2. PICK y : y = waiting[i]
    OBVIOUS
  <2>3. y \in Whole /\ y.node = n /\ y.source[slot] = None
    <3>1. y \in AtJoins
      BY <2>1, <2>2, ElementOfSeq
    <3> QED BY <2>1, <2>2, <3>1 DEF AtJoins, Missing
  <2>4. slot \in DOMAIN y.source
    <3>1. y.source \in Seq(Batch \cup {None}) /\ Len(y.source) = ConnectedInputs(n)
      BY <2>3 DEF Whole, Entry
    <3> QED BY ONLY <3>1, slot \in 1..ConnectedInputs(n), LenProperties
  <2>5. PICK x : x = Filled(y, slot, b)
    OBVIOUS
  <2>6. x \in Whole /\ x.node = n
    BY <2>3, <2>4, <2>5, FilledOf
  <2>7. RemoveAt(waiting, i) \in Seq(AtJoins)
    BY <2>1, RemoveAtElements
  <2>8. x \in AtJoins => [waiting EXCEPT ![i] = x] \in Seq(AtJoins)
    BY <2>1, ExceptSeq
  <2> QED BY <1>2, <2>1, <2>2, <2>5, <2>6, <2>7, <2>8
<1> QED BY <1>1, <1>3, <1>4, FillCases

LEMMA SameStarved ==
  ASSUME runData' = runData
  PROVE  (Starved' <=> Starved) /\ \A n, u : Recorded(n, u)' <=> Recorded(n, u)
BY DEF Starved, Recorded, Lacks

\* A new run after one that missed an input is near the joins.
LEMMA AddStarved ==
  ASSUME Typed, wf' = wf, NEW nodes \in SUBSET Nodes, StarvedRuns(nodes),
         NEW x \in Entry, Fits(x.node, x.source), NEW u \in Run, u.source = x.source,
         Starved => x \in Near(nodes), \A n \in Nodes, v \in Run : Recorded(n, v) => v.index < u.index,
         runData' = [runData EXCEPT ![x.node] = Append(runData[x.node], u)]
  PROVE  StarvedRuns(nodes)' /\ (Starved' => Starved \/ Lacks(x.source))
<1>1. x.node \in Nodes /\ u.index \in Nat
  BY DEF Entry, Run
<1>2. \A n \in Nodes : \A v : Recorded(n, v)' <=> Recorded(n, v) \/ (n = x.node /\ v = u)
  BY <1>1, RecordedAppend
<1>3. ASSUME NEW n \in Nodes, NEW v \in Run, Recorded(n, v)' PROVE Fits(n, v.source)
  BY <1>2, <1>3 DEF StarvedRuns
<1>4. ASSUME NEW m \in Nodes, NEW n \in Nodes, NEW t \in Run, NEW v \in Run, Recorded(m, t)',
             Recorded(n, v)', Lacks(t.source), t.index < v.index
      PROVE  n \in Joins \cup nodes
  <2>1. CASE Recorded(m, t) /\ Recorded(n, v)
    BY <1>4, <2>1 DEF StarvedRuns
  <2>2. CASE Recorded(m, t) /\ n = x.node /\ v = u
    <3>1. Starved
      BY <1>4, <2>2 DEF Starved
    <3> QED BY <2>2, <3>1 DEF Near
  <2>3. CASE m = x.node /\ t = u /\ Recorded(n, v)
    <3>1. v.index < u.index /\ v.index \in Nat
      BY <2>3 DEF Run
    <3> QED BY <1>1, <1>4, <2>3, <3>1
  <2>4. CASE m = x.node /\ t = u /\ n = x.node /\ v = u
    BY <1>1, <1>4, <2>4
  <2> QED BY <1>2, <1>4, <2>1, <2>2, <2>3, <2>4
<1>5. StarvedRuns(nodes)'
  BY <1>3, <1>4, SameWorkflow DEF StarvedRuns
<1>6. Starved' => Starved \/ Lacks(x.source)
  BY <1>2, SameWorkflow DEF Starved
<1> QED BY <1>5, <1>6

\* When a run is recorded that missed an input, the stack was empty.
LEMMA RecordStarved ==
  ASSUME Typed, wf' = wf, NEW nodes \in SUBSET Nodes, Below(nodes), StarvedRuns(nodes),
         ready = <<>>, ready' = ready, NEW h \in Entry, entry' = h,
         NEW s \in Seq(Supplied), stack' = s, waiting' \in Seq(AtJoins),
         h \in Supplied \/ (s = <<>> /\ h \in AtJoins),
         Starved => h \in Near(nodes) /\ s \in Seq(Near(nodes)),
         NEW k, k = runs' - 1, \A n \in Nodes, v \in Run : Recorded(n, v) => v.index < k,
         NEW outs \in SUBSET Nat, runs' \in 1..MaxNodeRuns, Record(h, outs, h.source), pc' # "end"
  PROVE  StarvedQueue(nodes)'
<1>1. PICK u : u = [source |-> h.source, outs |-> outs, index |-> k]
  OBVIOUS
<1>2. /\ u \in Run /\ pc' = "deliver"
      /\ todo' = {i \in DOMAIN wf.edges : wf.edges[i].from = h.node /\ wf.edges[i].output \in outs}
  BY <1>1, RecordEffect DEF Typed
<1>3. runData' = [runData EXCEPT ![h.node] = Append(runData[h.node], u)]
  BY <1>1 DEF Record
<1>4. u.source = h.source /\ u.index = k /\ k \in Nat /\ runs' \in Nat /\ h.node \in Nodes
  BY <1>1, <1>2 DEF Run, Entry, BoundsAssumption
<1>5. \A n \in Nodes : \A v : Recorded(n, v)' <=> Recorded(n, v) \/ (n = h.node /\ v = u)
  BY <1>2, <1>3, <1>4, RecordedAppend
<1>6. \A n \in Nodes, v \in Run : Recorded(n, v)' => v.index < runs'
  <2>1. ASSUME NEW n \in Nodes, NEW v \in Run, Recorded(n, v)' PROVE v.index < runs'
    <3>1. v.index < k \/ v.index = k
      BY <1>4, <1>5, <2>1
    <3>2. v.index \in Nat
      BY DEF Run
    <3> QED BY <1>4, <3>1, <3>2
  <2> QED BY <2>1
<1>7. Fits(h.node, h.source)
  BY DEF Supplied, AtJoins, Whole, Fits
<1>8. Starved' => Starved \/ Lacks(h.source)
  BY <1>2, <1>3, <1>4, <1>7, AddStarved
<1>9. Lacks(h.source) => s = <<>> /\ h \in Near(nodes)
  BY DEF Supplied, AtJoins, Near
<1>10. \A S : <<>> \in Seq(S)
  BY EmptySeq
<1>11. Starved' => s \in Seq(Near(nodes)) /\ h \in Near(nodes)
  BY <1>8, <1>9, <1>10
<1>12. ready' = <<>>
  OBVIOUS
<1>13. /\ stack' \in Seq(Supplied') /\ ready' \in Seq(Supplied') /\ waiting' \in Seq(AtJoins')
  BY <1>10, <1>12, SameWorkflow
<1>14. Starved' => /\ stack' \in Seq(Near(nodes)') /\ ready' \in Seq(Near(nodes)')
                   /\ entry' \in Near(nodes)'
  BY <1>10, <1>11, <1>12, SameWorkflow
<1>15. \A i \in todo' : wf'.edges[i].from = entry'.node
  BY <1>2
<1> QED BY <1>2, <1>6, <1>13, <1>14, <1>15 DEF StarvedQueue, Coming

LEMMA QuietStarved ==
  ASSUME NEW nodes, StarvedQueue(nodes), UNCHANGED <<wf, queues, runData, entry, runs, pauses>>,
         pc' = pc \/ (pc = "before" /\ pc' = "running")
  PROVE  StarvedQueue(nodes)'
<1>1. runData' = runData /\ wf' = wf /\ stack' = stack /\ waiting' = waiting /\ ready' = ready
      /\ todo' = todo /\ entry' = entry /\ runs' = runs
  BY DEF queues
<1>2. Coming' = Coming
  BY <1>1 DEF Coming
<1> QED BY <1>1, <1>2, SameWorkflow, SameStarved DEF StarvedQueue

LEMMA PopStarved ==
  ASSUME Typed, wf' = wf, NEW nodes \in SUBSET Nodes, Below(nodes), StarvedRuns(nodes),
         StarvedQueue(nodes), Pop, pc' # "end"
  PROVE  StarvedQueue(nodes)'
<1>1. runs \in Nat /\ todo = {} /\ ready = <<>> /\ pc = "top" /\ runs < MaxNodeRuns
  BY DEF Typed, TypeOK, Shape, Pop, PopFrom, AtTop
<1>2. PICK f \in BOOLEAN : f = (stack = <<>>)
  OBVIOUS
<1>3. PopFrom(f) /\ (stack # <<>> \/ waiting # <<>>)
  BY <1>2 DEF Pop
<1>4. stack \in Seq(Supplied) /\ waiting \in Seq(AtJoins)
  BY DEF StarvedQueue
<1>5. PICK h : h = IF f THEN Head(waiting) ELSE Head(stack)
  OBVIOUS
<1>6. PICK s : s = IF f THEN stack ELSE Tail(stack)
  OBVIOUS
<1>7. /\ runs' = runs + 1 /\ entry' = h /\ stack' = s /\ ready' = ready
      /\ waiting' = IF f THEN Tail(waiting) ELSE waiting
      /\ IF PassesThrough(h.node)
         THEN Record(h, IF AtHand(h) THEN {0} ELSE {}, h.source)
         ELSE pc' = "before" /\ UNCHANGED <<runData, todo>>
  BY <1>3, <1>5, <1>6 DEF PopFrom
<1>8. /\ s \in Seq(Supplied) /\ waiting' \in Seq(AtJoins)
      /\ h \in Supplied \/ (s = <<>> /\ h \in AtJoins)
      /\ Starved => h \in Near(nodes) /\ s \in Seq(Near(nodes))
  <2>1. CASE f
    <3>1. Head(waiting) \in AtJoins /\ Tail(waiting) \in Seq(AtJoins) /\ stack = <<>>
      BY <1>2, <1>3, <1>4, <2>1, HeadTailProperties
    <3>2. h \in AtJoins /\ s = <<>> /\ \A S : <<>> \in Seq(S)
      BY <1>2, <1>5, <1>6, <2>1, <3>1, EmptySeq
    <3>3. h \in Near(nodes)
      BY <3>2 DEF AtJoins, Whole, Near
    <3> QED BY <1>7, <2>1, <3>1, <3>2, <3>3
  <2>2. CASE ~f
    <3>1. Head(stack) \in Supplied /\ Tail(stack) \in Seq(Supplied)
      BY <1>2, <1>4, <2>2, HeadTailProperties
    <3>2. ASSUME Starved PROVE Head(stack) \in Near(nodes) /\ Tail(stack) \in Seq(Near(nodes))
      <4>1. stack \in Seq(Near(nodes))
        BY <3>2 DEF StarvedQueue
      <4> QED BY <1>2, <2>2, <4>1, HeadTailProperties
    <3> QED BY <1>4, <1>5, <1>6, <1>7, <2>2, <3>1, <3>2
  <2> QED BY <2>1, <2>2
<1>9. h \in Entry
  BY <1>8 DEF Supplied, AtJoins, Whole
<1>10. \A n \in Nodes, v \in Run : Recorded(n, v) => v.index < runs
  BY <1>1 DEF StarvedQueue, Coming
<1>11. CASE PassesThrough(h.node)
  <2>1. PICK outs \in SUBSET Nat : Record(h, outs, h.source)
    BY <1>7, <1>11
  <2>2. runs' \in 1..MaxNodeRuns
    BY <1>1, <1>7, BoundsAssumption
  <2>3. PICK k : k = runs' - 1 /\ k = runs
    BY <1>1, <1>7
  <2> QED BY <1>1, <1>7, <1>8, <1>9, <1>10, <2>1, <2>2, <2>3, RecordStarved
<1>12. CASE ~PassesThrough(h.node)
  <2>1. runData' = runData /\ todo' = {} /\ pc' = "before"
    BY <1>1, <1>7, <1>12
  <2>2. Coming' = runs
    BY <1>1, <1>7, <2>1 DEF Coming
  <2>3. \A n \in Nodes, v \in Run : Recorded(n, v)' => v.index < Coming'
    BY <1>10, <2>1, <2>2, SameStarved
  <2>4. ready' = <<>> /\ \A S : <<>> \in Seq(S)
    BY <1>1, <1>7, EmptySeq
  <2>5. Starved' <=> Starved
    BY <2>1, SameStarved
  <2>6. /\ Supplied' = Supplied /\ AtJoins' = AtJoins /\ Near(nodes)' = Near(nodes)
    BY SameWorkflow
  <2> QED BY <1>7, <1>8, <2>1, <2>3, <2>4, <2>5, <2>6 DEF StarvedQueue
<1> QED BY <1>11, <1>12

LEMMA RunStarved ==
  ASSUME Typed, wf' = wf, NEW nodes \in SUBSET Nodes, Below(nodes), StarvedRuns(nodes),
         StarvedQueue(nodes), pc = "running", pc' # "end",
         runs' \in 1..MaxNodeRuns, UNCHANGED <<wf, stack, waiting, ready, entry, runs, pauses>>,
         NEW outs \in SUBSET Nat, Record(entry, outs, entry.source)
  PROVE  StarvedQueue(nodes)'
<1>1. entry \in Entry /\ ready = <<>> /\ runs' = runs /\ ready' = ready
  BY DEF Typed, TypeOK, Shape
<1>2. PICK h, s : h = entry /\ s = stack
  OBVIOUS
<1>3. PICK k : k = runs' - 1
  OBVIOUS
<1>4. \A n \in Nodes, v \in Run : Recorded(n, v) => v.index < k
  BY <1>1, <1>3 DEF StarvedQueue, Coming
<1>5. /\ h \in Entry /\ s \in Seq(Supplied) /\ entry' = h /\ stack' = s /\ waiting' \in Seq(AtJoins)
      /\ h \in Supplied \/ (s = <<>> /\ h \in AtJoins)
      /\ Starved => h \in Near(nodes) /\ s \in Seq(Near(nodes))
      /\ Record(h, outs, h.source)
  BY <1>1, <1>2 DEF StarvedQueue
<1> QED BY <1>1, <1>3, <1>4, <1>5, RecordStarved

LEMMA DeliverStarved ==
  ASSUME Typed, wf' = wf, NEW nodes \in SUBSET Nodes, Below(nodes), StarvedQueue(nodes), Deliver
  PROVE  StarvedQueue(nodes)'
<1>1. PICK t : t = wf.edges[Min(todo)]
  OBVIOUS
<1>2. PICK b : b = [node |-> t.from, output |-> t.output, run |-> Len(runData[t.from])]
  OBVIOUS
<1>3. PICK x : x = [node |-> t.to, source |-> <<b>>]
  OBVIOUS
<1>4. /\ t.to \in Nodes /\ t.input + 1 \in 1..ConnectedInputs(t.to) /\ b \in Batch /\ x \in Entry
      /\ Min(todo) \in todo /\ t \in Edges
  BY <1>1, <1>2, <1>3, NextEdge DEF Deliver
<1>5. /\ stack' = stack /\ runData' = runData /\ entry' = entry /\ runs' = runs
      /\ pc = "deliver" /\ pc' = "deliver" /\ todo' \subseteq todo
      /\ IF ConnectedInputs(t.to) <= 1
         THEN MakeReady(x) /\ waiting' = waiting
         ELSE FillWaiting(t.to, t.input + 1, b)
  BY <1>1, <1>2, <1>3 DEF Deliver
<1>6. TypeOK /\ ready \in Seq(Supplied) /\ waiting \in Seq(AtJoins) /\ stack \in Seq(Supplied)
  BY DEF Typed, StarvedQueue
<1>7. /\ waiting' \in Seq(AtJoins)
      /\ ready' = ready \/ \E y \in Supplied : y.node = t.to /\ MakeReady(y)
  <2>1. ConnectedInputs(t.to) \in Nat
    BY <1>6, InputsOf DEF TypeOK
  <2>2. CASE ConnectedInputs(t.to) <= 1
    <3>1. t.to \notin Joins
      BY <2>1, <2>2 DEF Joins
    <3>2. ~Lacks(x.source)
      <4>1. b # None
        BY <1>4, NoneAssumption DEF Batch
      <4>2. x.source = <<b>> /\ Range(<<b>>) = {b}
        BY <1>3 DEF Range
      <4> QED BY <4>1, <4>2 DEF Lacks
    <3>3. x \in Supplied /\ x.node = t.to
      BY <1>3, <1>4, <3>1, <3>2 DEF Supplied, Fits
    <3> QED BY <1>5, <1>6, <2>2, <3>3
  <2>3. CASE ~(ConnectedInputs(t.to) <= 1)
    <3>1. t.to \in Joins
      BY <1>4, <2>1, <2>3 DEF Joins
    <3>2. PICK slot : slot = t.input + 1
      OBVIOUS
    <3>3. slot \in 1..ConnectedInputs(t.to) /\ FillWaiting(t.to, slot, b)
      BY <1>4, <1>5, <2>3, <3>2
    <3> QED BY <1>4, <1>6, <3>1, <3>3, FillJoins
  <2> QED BY <2>2, <2>3
<1>8. ready' \in Seq(Supplied)
  <2>1. Supplied \subseteq Entry
    BY DEF Supplied
  <2> QED BY <1>6, <1>7, <2>1, ReadyIn
<1>9. ASSUME Starved
      PROVE  stack \in Seq(Near(nodes)) /\ ready' \in Seq(Near(nodes)) /\ entry \in Near(nodes)
  <2>1. stack \in Seq(Near(nodes)) /\ ready \in Seq(Near(nodes)) /\ entry \in Near(nodes)
    BY <1>5, <1>9 DEF StarvedQueue
  <2>2. t.from = entry.node
    BY <1>1, <1>4 DEF StarvedQueue
  <2>3. t.to \in nodes
    BY <1>4, <2>1, <2>2 DEF Near, Below
  <2>4. \A y \in Supplied : y.node = t.to => y \in Near(nodes)
    BY <2>3 DEF Near, Supplied
  <2>5. Near(nodes) \subseteq Entry
    BY DEF Near
  <2> QED BY <1>6, <1>7, <2>1, <2>4, <2>5, ReadyIn
<1>10. \A i \in todo' : wf'.edges[i].from = entry'.node
  BY <1>5 DEF StarvedQueue
<1>11. \A n \in Nodes, u \in Run : Recorded(n, u)' => u.index < Coming'
  BY <1>5, SameStarved DEF StarvedQueue, Coming
<1>12. /\ Supplied' = Supplied /\ AtJoins' = AtJoins /\ Near(nodes)' = Near(nodes)
       /\ (Starved' <=> Starved)
  BY <1>5, SameWorkflow, SameStarved
<1> QED BY <1>5, <1>6, <1>7, <1>8, <1>9, <1>10, <1>11, <1>12 DEF StarvedQueue

LEMMA ScheduleStarved ==
  ASSUME Typed, wf' = wf, NEW nodes, StarvedQueue(nodes), Schedule
  PROVE  StarvedQueue(nodes)'
<1>1. /\ waiting' = waiting /\ runData' = runData /\ runs' = runs /\ pc = "deliver" /\ pc' = "top"
      /\ todo' = {} /\ ready' = <<>>
      /\ stack' = ready \o stack \/ stack' = stack \o ready
  BY DEF Schedule
<1>2. stack \in Seq(Supplied) /\ ready \in Seq(Supplied) /\ waiting \in Seq(AtJoins)
  BY DEF StarvedQueue
<1>3. stack' \in Seq(Supplied)
  BY <1>1, <1>2, ConcatProperties
<1>4. ASSUME Starved PROVE stack' \in Seq(Near(nodes))
  <2>1. stack \in Seq(Near(nodes)) /\ ready \in Seq(Near(nodes))
    BY <1>4 DEF StarvedQueue
  <2> QED BY <1>1, <2>1, ConcatProperties
<1>5. \A S : <<>> \in Seq(S)
  BY EmptySeq
<1>6. \A n \in Nodes, u \in Run : Recorded(n, u)' => u.index < Coming'
  BY <1>1, SameStarved DEF StarvedQueue, Coming
<1>7. /\ Supplied' = Supplied /\ AtJoins' = AtJoins /\ Near(nodes)' = Near(nodes)
      /\ (Starved' <=> Starved)
  BY <1>1, SameWorkflow, SameStarved
<1> QED BY <1>1, <1>2, <1>3, <1>4, <1>5, <1>6, <1>7 DEF StarvedQueue

LEMMA StarveInit == Init => StarveInv
<1> SUFFICES ASSUME Init, NEW nodes PROVE StarvedRuns(nodes) /\ StarvedQueue(nodes)
  BY DEF StarveInv
<1>1. /\ stack = <<StartEntry>> /\ waiting = <<>> /\ ready = <<>> /\ todo = {} /\ pc = "top"
      /\ runData = [n \in Nodes |-> <<>>] /\ wf \in Workflows
  BY DEF Init
<1>2. \A n \in Nodes : \A u : ~Recorded(n, u)
  BY <1>1 DEF Recorded
<1>3. StartEntry \in Supplied
  <2>1. StartEntry.source = <<>> /\ Range(<<>>) = {}
    BY DEF StartEntry, Range
  <2>2. StartEntry \in Entry
    BY <1>1, WorkflowFacts DEF StartEntry, Entry
  <2> QED BY <2>1, <2>2 DEF Supplied, Fits, Lacks
<1>4. stack \in Seq(Supplied) /\ \A S : <<>> \in Seq(S)
  BY <1>1, <1>3, EmptySeq
<1> QED BY <1>1, <1>2, <1>4 DEF StarvedRuns, StarvedQueue, Starved

LEMMA StarveNext == Typed /\ StarveInv /\ [Next]_vars => StarveInv'
<1> SUFFICES ASSUME Typed, StarveInv, [Next]_vars, pauses' = 0,
                    NEW nodes \in SUBSET Nodes, Below(nodes)'
             PROVE  StarvedRuns(nodes)' /\ (pc' # "end" => StarvedQueue(nodes)')
  BY DEF StarveInv
<1>1. wf' = wf
  BY GrowsNext DEF Grows
<1>2. Below(nodes)
  BY <1>1, SameWorkflow
<1>3. pauses = 0
  BY BoundsAssumption DEF Next, Step, vars, queues, SeeCancel, NothingLeft, TooManyRuns, Pop,
     PopFrom, Begin, Complete, Retry, FailOn, Fail, Pause, Abort, Deliver, Schedule, Cancel, Notify,
     TimeOut, Resume, Typed, TypeOK
<1>4. StarvedRuns(nodes) /\ (pc # "end" => StarvedQueue(nodes))
  BY <1>2, <1>3 DEF StarveInv
<1>5. StarvedRuns(nodes)'
  <2>1. CASE runData' = runData
    BY <1>1, <1>4, <2>1, SameWorkflow, SameStarved DEF StarvedRuns
  <2>2. CASE \E x \in Entry, outs \in SUBSET Nat, k \in Nat :
               /\ runData' = [runData EXCEPT ![x.node] =
                    Append(runData[x.node], [source |-> x.source, outs |-> outs, index |-> k])]
               /\ pauses = 0 /\ pc # "end" /\ k = (IF pc = "running" THEN runs - 1 ELSE runs)
               /\ \/ pc = "running" /\ x = entry
                  \/ pc = "top" /\ stack # <<>> /\ x = Head(stack)
                  \/ pc = "top" /\ stack = <<>> /\ waiting # <<>> /\ x = Head(waiting)
    <3>1. PICK x \in Entry, outs \in SUBSET Nat, k \in Nat :
               /\ runData' = [runData EXCEPT ![x.node] =
                    Append(runData[x.node], [source |-> x.source, outs |-> outs, index |-> k])]
               /\ pc # "end" /\ k = (IF pc = "running" THEN runs - 1 ELSE runs)
               /\ \/ pc = "running" /\ x = entry
                  \/ pc = "top" /\ stack # <<>> /\ x = Head(stack)
                  \/ pc = "top" /\ stack = <<>> /\ waiting # <<>> /\ x = Head(waiting)
      BY <2>2
    <3>2. PICK u : u = [source |-> x.source, outs |-> outs, index |-> k]
      OBVIOUS
    <3>3. u \in Run /\ u.source = x.source /\ u.index = k
      BY <3>2 DEF Run, Entry
    <3>4. runData' = [runData EXCEPT ![x.node] = Append(runData[x.node], u)]
      BY <3>1, <3>2
    <3>5. StarvedQueue(nodes)
      BY <1>4, <3>1
    <3>6. \A n \in Nodes, v \in Run : Recorded(n, v) => v.index < u.index
      <4>1. k = Coming
        BY <3>1 DEF Coming
      <4> QED BY <3>3, <3>5, <4>1 DEF StarvedQueue
    <3>7. x \in Supplied \cup AtJoins /\ (Starved => x \in Near(nodes))
      <4>1. CASE pc = "running" /\ x = entry
        BY <3>5, <4>1 DEF StarvedQueue
      <4>2. CASE stack # <<>> /\ x = Head(stack)
        <5>1. x \in Supplied
          BY <3>5, <4>2, HeadTailProperties DEF StarvedQueue
        <5>2. ASSUME Starved PROVE x \in Near(nodes)
          <6>1. stack \in Seq(Near(nodes))
            BY <3>5, <5>2 DEF StarvedQueue
          <6> QED BY <4>2, <6>1, HeadTailProperties
        <5> QED BY <5>1, <5>2
      <4>3. CASE waiting # <<>> /\ x = Head(waiting)
        <5>1. x \in AtJoins
          BY <3>5, <4>3, HeadTailProperties DEF StarvedQueue
        <5> QED BY <5>1 DEF AtJoins, Whole, Near
      <4> QED BY <3>1, <4>1, <4>2, <4>3
    <3>8. Fits(x.node, x.source)
      BY <3>7 DEF Supplied, AtJoins, Whole, Fits
    <3> QED BY <1>1, <1>4, <3>3, <3>4, <3>6, <3>7, <3>8, AddStarved
  <2> QED BY <2>1, <2>2, AddedRun
<1>6. ASSUME pc' # "end" PROVE StarvedQueue(nodes)'
  <2>1. Ongoing /\ StarvedQueue(nodes)
    BY <1>4, <1>6, OngoingStep
  <2>2. CASE /\ UNCHANGED <<wf, queues, runData, entry, runs, pauses>>
             /\ pc' = pc \/ (pc = "before" /\ pc' = "running")
    BY <2>1, <2>2, QuietStarved
  <2>3. CASE Pop
    BY <1>1, <1>2, <1>4, <1>6, <2>1, <2>3, PopStarved
  <2>4. CASE /\ pc = "running" /\ runs' \in 1..MaxNodeRuns
             /\ UNCHANGED <<wf, stack, waiting, ready, entry, runs, pauses>>
             /\ \E outs \in SUBSET Nat : Record(entry, outs, entry.source)
    BY <1>1, <1>2, <1>4, <1>6, <2>1, <2>4, RunStarved
  <2>5. CASE Deliver
    BY <1>1, <1>2, <2>1, <2>5, DeliverStarved
  <2>6. CASE Schedule
    BY <1>1, <2>1, <2>6, ScheduleStarved
  <2> QED BY <2>1, <2>2, <2>3, <2>4, <2>5, <2>6 DEF Ongoing
<1> QED BY <1>5, <1>6

\* When no join leads to a join, a node that was run with an input missing is
\* never supplied later: the stack was empty, so what runs from then on comes
\* from the waiting joins, and is a join or below one.
THEOREM StarvesForGood == Spec => []StarvedForGood
<1>1. Typed => pauses = 0 \/ pauses > 0
  <2>1. Typed => pauses \in 0..MaxPauses /\ MaxPauses \in Nat
    BY BoundsAssumption DEF Typed, TypeOK
  <2> QED BY <2>1
<1>2. Typed /\ StarveInv => StarvedForGood
  <2> SUFFICES ASSUME Typed, StarveInv, pauses = 0, ~JoinLeadsToJoin, NEW e \in Edges,
                      NEW k \in DOMAIN runData[e.to], NEW r \in DOMAIN runData[e.from],
                      e.to \in Joins, runData[e.to][k].source # <<>>,
                      runData[e.to][k].source[e.input + 1] = None,
                      runData[e.from][r].index > runData[e.to][k].index
               PROVE  FALSE
    BY <1>1 DEF StarvedForGood
  <2>1. PICK nodes \in SUBSET Nodes : Below(nodes)
    BY DEF JoinLeadsToJoin
  <2>2. StarvedRuns(nodes)
    BY <2>1 DEF StarveInv
  <2>3. wf \in Workflows /\ runData \in [Nodes -> Seq(Run)]
    BY DEF Typed, TypeOK
  <2>4. e.from \in Nodes /\ e.to \in Nodes /\ e.input + 1 \in 1..ConnectedInputs(e.to)
    BY <2>3, WorkflowFacts, InputsOf DEF Edge
  <2>5. PICK t, u : t = runData[e.to][k] /\ u = runData[e.from][r]
    OBVIOUS
  <2>6. t \in Run /\ u \in Run
    BY <2>3, <2>4, <2>5, ElementOfSeq, LenProperties
  <2>7. Recorded(e.to, t) /\ Recorded(e.from, u)
    BY <2>5 DEF Recorded
  <2>8. Lacks(t.source)
    <3>1. Len(t.source) = ConnectedInputs(e.to)
      BY <2>2, <2>4, <2>5, <2>6, <2>7 DEF StarvedRuns, Fits
    <3>2. DOMAIN t.source = 1..Len(t.source)
      BY <2>6, LenProperties DEF Run
    <3> QED BY <2>4, <2>5, <3>1, <3>2 DEF Lacks, Range
  <2>9. t.index < u.index
    BY <2>5, <2>6 DEF Run
  <2>10. e.from \in Joins \cup nodes
    BY <2>2, <2>4, <2>6, <2>7, <2>8, <2>9 DEF StarvedRuns
  <2> QED BY <2>1, <2>10 DEF Below
<1> QED BY <1>2, TypedInit, TypedNext, StarveInit, StarveNext, PTL DEF Spec

===============================================================================
