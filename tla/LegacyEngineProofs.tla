------------------------- MODULE LegacyEngineProofs -------------------------
(***************************************************************************)
(* Proofs about the legacy engine: for any set of workflows, whatever      *)
(* their shape, any items, any number of batches and of runs, whichever    *)
(* nodes fail, are skipped, disabled or edited between runs.               *)
(*                                                                         *)
(* An accepted workflow puts each node in at most one list of futures: the *)
(* main one, or that of the loop node that owns it. The invariant Engine   *)
(* says where the futures of each list are (AtInv), what a reused record   *)
(* was made of (ReuseInv), what has gone along each connection (FlowInv),  *)
(* what each record holds (RecordInv), and how the batches of a loop add   *)
(* up (SumInv). A workflow that is not accepted never starts.              *)
(***************************************************************************)
EXTENDS LegacyEngine, FiniteSetTheorems, SequenceTheorems, WellFoundedInduction, TLAPS

-----------------------------------------------------------------------------
(* The operators on sequences.                                             *)

LEMMA LeastNat ==
  ASSUME NEW T, T \subseteq Nat, T # {}
  PROVE  \E m \in T : \A n \in T : m <= n
<1>1. PICK m \in T : \A n \in T : <<n, m>> \notin OpToRel(<, Nat)
  BY NatLessThanWellFounded, WFMin
<1>2. \A n \in T : ~(n < m)
  BY <1>1 DEF OpToRel
<1> QED BY <1>2

\* f joins the first n of the sequences, as FlattenSeq does.
Joins(f, seqs, n) == f = [i \in 1..n |-> IF i = 1 THEN seqs[i] ELSE f[i - 1] \o seqs[i]]

LEMMA JoinExists == ASSUME NEW seqs, NEW n \in Nat PROVE \E f : Joins(f, seqs, n)
<1> DEFINE T == {k \in Nat : ~\E f : Joins(f, seqs, k)}
<1> SUFFICES ASSUME T # {} PROVE FALSE
  OBVIOUS
<1>1. PICK m \in T : \A k \in T : m <= k
  BY LeastNat
<1>2. m # 0
  <2>1. Joins([i \in 1..0 |-> 0], seqs, 0)
    BY DEF Joins
  <2> QED BY <2>1
<1>3. m - 1 \in Nat /\ m - 1 \notin T
  BY <1>1, <1>2
<1>4. PICK f : Joins(f, seqs, m - 1)
  BY <1>3
<1> DEFINE g == [i \in 1..m |-> IF i = m THEN (IF m = 1 THEN seqs[m] ELSE f[m - 1] \o seqs[m]) ELSE f[i]]
<1>5. \A i \in 1..m : g[i] = IF i = 1 THEN seqs[i] ELSE g[i - 1] \o seqs[i]
  <2>1. \A i \in 1..(m - 1) : f[i] = IF i = 1 THEN seqs[i] ELSE f[i - 1] \o seqs[i]
    BY <1>4 DEF Joins
  <2> TAKE i \in 1..m
  <2>2. CASE i = m
    <3>1. m # 1 => m - 1 \in 1..m /\ m - 1 # m
      BY <1>2
    <3> QED BY <2>2, <3>1
  <2>3. CASE i # m
    <3>1. i \in 1..(m - 1) /\ (i # 1 => i - 1 \in 1..m /\ i - 1 # m)
      BY <2>3
    <3> QED BY <2>1, <2>3, <3>1
  <2> QED BY <2>2, <2>3
<1>6. Joins(g, seqs, m)
  BY <1>5 DEF Joins
<1> QED BY <1>1, <1>6

LEMMA FlattenIs ==
  ASSUME NEW seqs, Len(seqs) \in Nat, Len(seqs) # 0
  PROVE  \E f : Joins(f, seqs, Len(seqs)) /\ FlattenSeq(seqs) = f[Len(seqs)]
<1> DEFINE f == CHOOSE h : Joins(h, seqs, Len(seqs))
<1>1. Joins(f, seqs, Len(seqs))
  BY JoinExists
<1>2. FlattenSeq(seqs) = f[Len(seqs)]
  BY DEF FlattenSeq, Joins
<1> QED BY <1>1, <1>2

\* FlattenSeq makes one sequence of several, empty when they all are.
LEMMA FlattenProperties ==
  ASSUME NEW S, NEW seqs \in Seq(Seq(S))
  PROVE  /\ FlattenSeq(seqs) \in Seq(S)
         /\ FlattenSeq(seqs) = <<>> <=> \A i \in 1..Len(seqs) : seqs[i] = <<>>
<1>1. Len(seqs) \in Nat /\ \A i \in 1..Len(seqs) : seqs[i] \in Seq(S)
  OBVIOUS
<1>2. CASE Len(seqs) = 0
  BY <1>2 DEF FlattenSeq
<1>3. CASE Len(seqs) # 0
  <2>1. PICK f : Joins(f, seqs, Len(seqs)) /\ FlattenSeq(seqs) = f[Len(seqs)]
    BY <1>1, <1>3, FlattenIs
  <2>2. \A i \in 1..Len(seqs) : f[i] = IF i = 1 THEN seqs[i] ELSE f[i - 1] \o seqs[i]
    BY <2>1 DEF Joins
  <2> DEFINE good(k) == f[k] \in Seq(S) /\ (f[k] = <<>> <=> \A i \in 1..k : seqs[i] = <<>>)
             T == {k \in 1..Len(seqs) : ~good(k)}
  <2>3. ASSUME T # {} PROVE FALSE
    <3>0. T \subseteq Nat
      OBVIOUS
    <3>1. PICK m \in T : \A k \in T : m <= k
      <4> HIDE DEF T
      <4> QED BY <2>3, <3>0, LeastNat
    <3>2. CASE m = 1
      <4>1. f[m] = seqs[m] /\ 1..m = {m}
        BY <2>2, <3>2
      <4>2. good(m)
        BY <1>1, <4>1
      <4> QED BY <4>2
    <3>3. CASE m # 1
      <4>1. m - 1 \in 1..Len(seqs) /\ m - 1 \notin T /\ 1..m = (1..(m - 1)) \cup {m} /\ m \in 1..Len(seqs)
        BY <3>1, <3>3
      <4>2. f[m] = f[m - 1] \o seqs[m]
        BY <2>2, <3>3, <4>1
      <4>3. f[m - 1] \in Seq(S) /\ (f[m - 1] = <<>> <=> \A i \in 1..(m - 1) : seqs[i] = <<>>)
        BY <4>1
      <4>4. seqs[m] \in Seq(S)
        BY <1>1, <4>1
      <4>5. f[m] \in Seq(S) /\ (f[m] = <<>> <=> f[m - 1] = <<>> /\ seqs[m] = <<>>)
        BY <4>2, <4>3, <4>4, ConcatProperties, ConcatEqualIffEmpty
      <4>6. good(m)
        BY <4>1, <4>3, <4>5
      <4> QED BY <4>6
    <3> QED BY <3>2, <3>3
  <2>4. good(Len(seqs))
    <3>1. Len(seqs) \in 1..Len(seqs)
      BY <1>1, <1>3
    <3>2. Len(seqs) \notin T
      <4> HIDE DEF T
      <4> QED BY <2>3
    <3> HIDE DEF good
    <3> QED BY <3>1, <3>2
  <2> QED BY <2>1, <2>4
<1> QED BY <1>2, <1>3

\* f picks among the first n items, as Chosen does.
Picks(f, items, chosen, output, n) ==
  f = [i \in 0..n |->
         IF i = 0 THEN <<>>
         ELSE IF chosen[i] = output THEN Append(f[i - 1], items[i]) ELSE f[i - 1]]

LEMMA PickExists ==
  ASSUME NEW items, NEW chosen, NEW output, NEW n \in Nat
  PROVE  \E f : Picks(f, items, chosen, output, n)
<1> DEFINE T == {k \in Nat : ~\E f : Picks(f, items, chosen, output, k)}
<1> SUFFICES ASSUME T # {} PROVE FALSE
  OBVIOUS
<1>1. PICK m \in T : \A k \in T : m <= k
  BY LeastNat
<1>2. m # 0
  <2>1. Picks([i \in 0..0 |-> <<>>], items, chosen, output, 0)
    BY DEF Picks
  <2> QED BY <2>1
<1>3. m - 1 \in Nat /\ m - 1 \notin T
  BY <1>1, <1>2
<1>4. PICK f : Picks(f, items, chosen, output, m - 1)
  BY <1>3
<1> DEFINE g == [i \in 0..m |-> IF i = m THEN (IF chosen[m] = output THEN Append(f[m - 1], items[m]) ELSE f[m - 1])
                                ELSE f[i]]
<1>5. \A i \in 0..m : g[i] = IF i = 0 THEN <<>>
         ELSE IF chosen[i] = output THEN Append(g[i - 1], items[i]) ELSE g[i - 1]
  <2>1. \A i \in 0..(m - 1) : f[i] = IF i = 0 THEN <<>>
         ELSE IF chosen[i] = output THEN Append(f[i - 1], items[i]) ELSE f[i - 1]
    BY <1>4 DEF Picks
  <2> TAKE i \in 0..m
  <2>2. CASE i = m
    <3>1. m - 1 \in 0..m /\ m - 1 # m
      BY <1>2
    <3> QED BY <1>2, <2>2, <3>1
  <2>3. CASE i # m
    <3>1. i \in 0..(m - 1) /\ (i # 0 => i - 1 \in 0..m /\ i - 1 # m)
      BY <2>3
    <3> QED BY <2>1, <2>3, <3>1
  <2> QED BY <2>2, <2>3
<1>6. Picks(g, items, chosen, output, m)
  BY <1>5 DEF Picks
<1> QED BY <1>1, <1>6

\* Chosen gives a sequence of the items.
LEMMA ChosenType ==
  ASSUME NEW S, NEW items \in Seq(S), NEW chosen, NEW output
  PROVE  Chosen(items, chosen, output) \in Seq(S)
<1> DEFINE n == Len(items)
           f == CHOOSE h : Picks(h, items, chosen, output, n)
<1>1. n \in Nat
  OBVIOUS
<1>2. Picks(f, items, chosen, output, n)
  BY <1>1, PickExists
<1>3. Chosen(items, chosen, output) = f[n]
  BY DEF Chosen, Picks
<1>4. \A i \in 0..n : f[i] = IF i = 0 THEN <<>>
         ELSE IF chosen[i] = output THEN Append(f[i - 1], items[i]) ELSE f[i - 1]
  BY <1>2 DEF Picks
<1> DEFINE T == {k \in 0..n : f[k] \notin Seq(S)}
<1> HIDE DEF f
<1>5. ASSUME T # {} PROVE FALSE
  <2>0. T \subseteq Nat
    OBVIOUS
  <2>1. PICK m \in T : \A k \in T : m <= k
    <3> HIDE DEF T
    <3> QED BY <1>5, <2>0, LeastNat
  <2>2. m \in 0..n /\ m # 0 /\ f[m] \notin Seq(S)
    <3>1. f[0] = <<>> /\ <<>> \in Seq(S)
      BY <1>1, <1>4
    <3> QED BY <2>1, <3>1
  <2>3. m - 1 \in 0..n /\ f[m - 1] \in Seq(S) /\ items[m] \in S
    <3>1. m - 1 \in 0..n /\ m - 1 < m /\ m \in 1..n
      BY <1>1, <2>2
    <3>2. m - 1 \notin T
      BY <1>1, <2>1, <3>1
    <3> QED BY <3>1, <3>2, ElementOfSeq
  <2>4. f[m] = Append(f[m - 1], items[m]) \/ f[m] = f[m - 1]
    BY <1>4, <2>2
  <2>5. f[m] \in Seq(S)
    <3>1. Append(f[m - 1], items[m]) \in Seq(S)
      BY <2>3, AppendProperties
    <3> QED BY <2>3, <2>4, <3>1
  <2> QED BY <2>2, <2>5
<1> QED BY <1>1, <1>3, <1>5

LEMMA PrefixOfConcat ==
  ASSUME NEW S, NEW s \in Seq(S), NEW t \in Seq(S)
  PROVE  IsPrefix(s, s \o t)
<1>1. /\ s \o t \in Seq(S) /\ Len(s \o t) = Len(s) + Len(t) /\ Len(s) \in Nat /\ Len(t) \in Nat
      /\ \A i \in 1..(Len(s) + Len(t)) : (s \o t)[i] = IF i <= Len(s) THEN s[i] ELSE t[i - Len(s)]
  BY ConcatProperties, LenProperties
<1>2. \A i \in 1..Len(s) : s[i] \in S /\ (s \o t)[i] = s[i]
  BY <1>1, ElementOfSeq
<1>3. SubSeq(s, 1, Len(s)) = s
  BY SubSeqFull
<1>4. /\ SubSeq(s \o t, 1, Len(s)) \in Seq(S)
      /\ Len(SubSeq(s \o t, 1, Len(s))) = Len(s)
      /\ \A i \in 1..Len(s) : SubSeq(s \o t, 1, Len(s))[i] = (s \o t)[i]
  <2>1. \A i \in 1..Len(s) : (s \o t)[i] \in S
    BY <1>2
  <2>2. /\ SubSeq(s \o t, 1, Len(s)) \in Seq(S)
        /\ Len(SubSeq(s \o t, 1, Len(s))) = IF 1 <= Len(s) THEN Len(s) - 1 + 1 ELSE 0
        /\ \A i \in 1..(Len(s) - 1 + 1) : SubSeq(s \o t, 1, Len(s))[i] = (s \o t)[1 + i - 1]
    BY <1>1, <2>1, SubSeqProperties
  <2> QED BY <1>1, <2>2
<1>5. SubSeq(s \o t, 1, Len(s)) = s
  BY <1>2, <1>4, SeqEqual
<1> QED BY <1>1, <1>3, <1>5 DEF IsPrefix

-----------------------------------------------------------------------------
(* The layout of a workflow.                                               *)

\* Reach is the least set with the start nodes that the links do not leave.
LEMMA ReachProperties ==
  ASSUME NEW w, NEW starts \in SUBSET Nodes, NEW links,
         \A i \in links : w.connections[i].to \in Nodes
  PROVE  /\ starts \subseteq Reach(w, starts, links)
         /\ Reach(w, starts, links) \subseteq Nodes
         /\ \A i \in links : w.connections[i].from \in Reach(w, starts, links)
                             => w.connections[i].to \in Reach(w, starts, links)
         /\ \A S \in SUBSET Nodes :
              /\ starts \subseteq S
              /\ \A i \in links : w.connections[i].from \in S => w.connections[i].to \in S
              => Reach(w, starts, links) \subseteq S
         /\ \A n \in Reach(w, starts, links) \ starts :
              \E i \in links : w.connections[i].to = n /\ w.connections[i].from \in Reach(w, starts, links)
<1> DEFINE R == Reach(w, starts, links)
           Closed(S) == starts \subseteq S /\ \A i \in links : w.connections[i].from \in S => w.connections[i].to \in S
<1>1. \A n : n \in R <=> n \in Nodes /\ \A S \in SUBSET Nodes : Closed(S) => n \in S
  BY DEF Reach
<1>2. R \subseteq Nodes /\ starts \subseteq R
  BY <1>1
<1>3. Closed(R)
  <2> SUFFICES ASSUME NEW i \in links, w.connections[i].from \in R PROVE w.connections[i].to \in R
    BY <1>2
  <2>1. \A S \in SUBSET Nodes : Closed(S) => w.connections[i].from \in S
    BY <1>1
  <2> QED BY <1>1, <2>1
<1>4. \A S \in SUBSET Nodes : Closed(S) => R \subseteq S
  BY <1>1
<1>5. ASSUME NEW n \in R, n \notin starts
      PROVE  \E i \in links : w.connections[i].to = n /\ w.connections[i].from \in R
  <2> SUFFICES ASSUME \A i \in links : w.connections[i].from \in R => w.connections[i].to # n PROVE FALSE
    OBVIOUS
  <2>1. Closed(R \ {n})
    BY <1>2, <1>3, <1>5
  <2>2. R \ {n} \in SUBSET Nodes
    BY <1>2
  <2> HIDE DEF R
  <2> QED BY <1>4, <1>5, <2>1, <2>2
<1> HIDE DEF R
<1>6. /\ starts \subseteq R /\ R \subseteq Nodes
      /\ \A i \in links : w.connections[i].from \in R => w.connections[i].to \in R
      /\ \A S \in SUBSET Nodes :
           /\ starts \subseteq S
           /\ \A i \in links : w.connections[i].from \in S => w.connections[i].to \in S
           => R \subseteq S
      /\ \A n \in R \ starts : \E i \in links : w.connections[i].to = n /\ w.connections[i].from \in R
  BY <1>2, <1>3, <1>4, <1>5
<1> QED BY <1>6 DEF R

LEMMA ConnectionTypes ==
  ASSUME NEW w \in WorkflowType, NEW i \in Links(w)
  PROVE  /\ w.connections[i].from \in Nodes /\ w.connections[i].to \in Nodes
         /\ w.connections[i].output \in Port /\ w.connections[i].error \in BOOLEAN
<1>1. w.connections \in Seq(Connection)
  BY DEF WorkflowType
<1>2. w.connections[i] \in Connection
  BY <1>1, LenProperties, ElementOfSeq DEF Links
<1> QED BY <1>2 DEF Connection

\* What a loop's body is made of.
LEMMA BodyProperties ==
  ASSUME NEW w \in WorkflowType, NEW lp
  PROVE  /\ Body(w, lp) \subseteq Nodes
         /\ \A i \in Forward(w) :
              /\ w.connections[i].from = lp /\ w.connections[i].output = 1 /\ ~w.connections[i].error
                 => w.connections[i].to \in Body(w, lp)
              /\ w.connections[i].from \in Body(w, lp) /\ w.connections[i].to # lp
                 => w.connections[i].to \in Body(w, lp)
         /\ \A n \in Body(w, lp) :
              \E i \in Forward(w) : w.connections[i].to = n /\ w.connections[i].from \in Body(w, lp) \cup {lp}
         /\ \A S \in SUBSET Nodes :
              /\ \A i \in Forward(w) :
                   /\ w.connections[i].from = lp => w.connections[i].to \in S
                   /\ w.connections[i].from \in S => w.connections[i].to \in S
              => Body(w, lp) \subseteq S
<1>1. \A i \in Forward(w) : w.connections[i].to \in Nodes
  BY ConnectionTypes DEF Forward
<1>2. Loops(w, lp, Forward(w)) \in SUBSET Nodes /\ Past(w, lp, Forward(w)) \subseteq Forward(w)
  BY <1>1 DEF Loops, Past
<1>3. \A i \in Past(w, lp, Forward(w)) : w.connections[i].to \in Nodes
  BY <1>1, <1>2
<1>a. /\ Loops(w, lp, Forward(w)) \subseteq Body(w, lp)
      /\ Body(w, lp) \subseteq Nodes
      /\ \A i \in Past(w, lp, Forward(w)) : w.connections[i].from \in Body(w, lp)
                                            => w.connections[i].to \in Body(w, lp)
      /\ \A S \in SUBSET Nodes :
           /\ Loops(w, lp, Forward(w)) \subseteq S
           /\ \A i \in Past(w, lp, Forward(w)) : w.connections[i].from \in S => w.connections[i].to \in S
           => Body(w, lp) \subseteq S
      /\ \A n \in Body(w, lp) \ Loops(w, lp, Forward(w)) :
           \E i \in Past(w, lp, Forward(w)) : w.connections[i].to = n /\ w.connections[i].from \in Body(w, lp)
  BY <1>2, <1>3, ReachProperties DEF Body
<1>4. \A i \in Forward(w) :
        w.connections[i].from = lp /\ w.connections[i].output = 1 /\ ~w.connections[i].error
        => w.connections[i].to \in Body(w, lp)
  BY <1>a DEF Loops
<1>5. \A i \in Forward(w) :
        w.connections[i].from \in Body(w, lp) /\ w.connections[i].to # lp => w.connections[i].to \in Body(w, lp)
  BY <1>a DEF Past
<1>6. ASSUME NEW n \in Body(w, lp)
      PROVE  \E i \in Forward(w) : w.connections[i].to = n /\ w.connections[i].from \in Body(w, lp) \cup {lp}
  <2>1. CASE n \in Loops(w, lp, Forward(w))
    BY <2>1 DEF Loops
  <2>2. CASE n \notin Loops(w, lp, Forward(w))
    BY <1>a, <1>2, <1>6, <2>2
  <2> QED BY <2>1, <2>2
<1>7. ASSUME NEW S \in SUBSET Nodes,
             \A i \in Forward(w) : /\ w.connections[i].from = lp => w.connections[i].to \in S
                                   /\ w.connections[i].from \in S => w.connections[i].to \in S
      PROVE  Body(w, lp) \subseteq S
  <2>1. Loops(w, lp, Forward(w)) \subseteq S
    BY <1>7 DEF Loops
  <2>2. \A i \in Past(w, lp, Forward(w)) : w.connections[i].from \in S => w.connections[i].to \in S
    BY <1>2, <1>7
  <2> QED BY <1>a, <2>1, <2>2
<1> QED BY <1>a, <1>4, <1>5, <1>6, <1>7

\* The owner of a node is a loop with the node in its body, if there is one.
LEMMA OwnerProperties ==
  ASSUME NEW w \in WorkflowType, NEW n
  PROVE  LoopOwner(w, n) = None \/ (LoopOwner(w, n) \in w.loops /\ n \in Body(w, LoopOwner(w, n)))
<1> DEFINE around == {lp \in w.loops : n \in Body(w, lp)}
<1>1. CASE around = {}
  BY <1>1 DEF LoopOwner
<1>2. CASE around # {}
  <2>1. \A lp \in around : Cardinality(Body(w, lp)) \in Nat
    BY BodyProperties, NodesAssumption, FS_Subset, FS_CardinalityType
  <2> DEFINE T == {Cardinality(Body(w, lp)) : lp \in around}
  <2>2. T \subseteq Nat /\ T # {}
    BY <1>2, <2>1
  <2>3. PICK k \in T : \A j \in T : k <= j
    <3> HIDE DEF T
    <3> QED BY <2>2, LeastNat
  <2>4. \E lp \in around : \A other \in around : Cardinality(Body(w, lp)) <= Cardinality(Body(w, other))
    BY <2>3
  <2>5. LoopOwner(w, n) = CHOOSE lp \in around :
          \A other \in around : Cardinality(Body(w, lp)) <= Cardinality(Body(w, other))
    BY <1>2 DEF LoopOwner
  <2>6. LoopOwner(w, n) \in around
    <3> HIDE DEF around
    <3> QED BY <2>4, <2>5
  <2> QED BY <2>6
<1> QED BY <1>1, <1>2

LEMMA AcceptedProperties ==
  ASSUME NEW w \in WorkflowType, Accepted(w)
  PROVE  /\ \A i \in Links(w) : w.connections[i].from \in w.nodes /\ w.connections[i].to \in w.nodes
         /\ \A S \in SUBSET w.nodes :
              S # {} => \E n \in S : \A i \in Forward(w) : w.connections[i].to = n => w.connections[i].from \notin S
         /\ \A i \in Forward(w) : w.connections[i].from # w.connections[i].to
<1>1. \A i \in Links(w) : w.connections[i].from \in w.nodes /\ w.connections[i].to \in w.nodes
  BY DEF Accepted
<1>2. \A S \in SUBSET w.nodes :
        S # {} => \E n \in S : \A i \in Forward(w) : w.connections[i].to = n => w.connections[i].from \notin S
  BY DEF Accepted
<1>3. ASSUME NEW i \in Forward(w), w.connections[i].from = w.connections[i].to PROVE FALSE
  <2>1. {w.connections[i].to} \in SUBSET w.nodes
    BY <1>1, <1>3 DEF Forward
  <2> QED BY <1>2, <1>3, <2>1
<1> QED BY <1>1, <1>2, <1>3

\* No node is in its own loop.
LEMMA OwnerElsewhere ==
  ASSUME NEW w \in WorkflowType, Accepted(w), NEW n \in Nodes
  PROVE  LoopOwner(w, n) # n
<1> SUFFICES ASSUME LoopOwner(w, n) = n PROVE FALSE
  OBVIOUS
<1>1. n \in Body(w, n)
  BY OwnerProperties, NodesAssumption
<1>2. \A i \in Forward(w) : w.connections[i].to \in Nodes /\ w.connections[i].from # w.connections[i].to
  BY AcceptedProperties, ConnectionTypes DEF Forward
<1> DEFINE S == Nodes \ {n}
<1>3. \A i \in Past(w, n, Forward(w)) : w.connections[i].to \in S
  BY <1>2 DEF Past
<1>4. Loops(w, n, Forward(w)) \subseteq S
  BY <1>2 DEF Loops
<1>5. \A i \in Past(w, n, Forward(w)) : w.connections[i].to \in Nodes
  BY <1>3
<1>6. Body(w, n) \subseteq S
  <2>1. Loops(w, n, Forward(w)) \in SUBSET Nodes /\ S \in SUBSET Nodes
    BY <1>4
  <2> HIDE DEF S
  <2> QED BY <1>3, <1>4, <1>5, <2>1, ReachProperties DEF Body
<1> QED BY <1>1, <1>6

\* What a loop in a loop sends to its body does not go straight back to the
\* loop around it.
LEMMA BatchesStayIn ==
  ASSUME NEW w \in WorkflowType, NEW i \in BackEdges(w),
         w.connections[i].from \in w.loops, w.connections[i].output = 1, ~w.connections[i].error
  PROVE  LoopOwner(w, w.connections[i].from) # w.connections[i].to
<1> DEFINE f == w.connections[i].from
           lp == w.connections[i].to
           R == Reach(w, Loops(w, f, Links(w)) \ {f}, Past(w, f, Links(w)))
<1>1. f \in Nodes /\ lp \in Nodes /\ i \in Links(w) /\ f \in w.loops
  BY ConnectionTypes DEF BackEdges
<1>2. lp # f
  <2>1. f \in Reach(w, Loops(w, lp, Links(w)) \ {lp}, Past(w, lp, Links(w)))
    BY DEF BackEdges
  <2> DEFINE S == Nodes \ {lp}
  <2>2. \A k \in Past(w, lp, Links(w)) : w.connections[k].to \in S
    BY ConnectionTypes DEF Past
  <2>3. (Loops(w, lp, Links(w)) \ {lp}) \in SUBSET Nodes /\ (Loops(w, lp, Links(w)) \ {lp}) \subseteq S
    BY ConnectionTypes DEF Loops
  <2>4. \A k \in Past(w, lp, Links(w)) : w.connections[k].to \in Nodes
    BY <2>2
  <2>5. S \in SUBSET Nodes
    OBVIOUS
  <2>6. Reach(w, Loops(w, lp, Links(w)) \ {lp}, Past(w, lp, Links(w))) \subseteq S
    <3> DEFINE A == Loops(w, lp, Links(w)) \ {lp}
               P == Past(w, lp, Links(w))
    <3>1. /\ A \in SUBSET Nodes /\ A \subseteq S /\ S \in SUBSET Nodes
          /\ \A k \in P : w.connections[k].to \in S /\ w.connections[k].to \in Nodes
      BY <2>2, <2>3, <2>4, <2>5
    <3> HIDE DEF A, P, S
    <3>2. Reach(w, A, P) \subseteq S
      BY <3>1, ReachProperties
    <3> QED BY <3>2 DEF A, P
  <2> QED BY <2>1, <2>6
<1>3. Loops(w, f, Links(w)) \ {f} \in SUBSET Nodes /\ \A k \in Past(w, f, Links(w)) : w.connections[k].to \in Nodes
  BY ConnectionTypes DEF Loops, Past
<1>4. /\ (Loops(w, f, Links(w)) \ {f}) \subseteq R /\ R \subseteq Nodes
      /\ \A k \in Past(w, f, Links(w)) : w.connections[k].from \in R => w.connections[k].to \in R
  <2> DEFINE A == Loops(w, f, Links(w)) \ {f}
             P == Past(w, f, Links(w))
             Q == Reach(w, A, P)
  <2>1. A \in SUBSET Nodes /\ \A k \in P : w.connections[k].to \in Nodes
    BY <1>3
  <2>2. Q = R
    OBVIOUS
  <2> HIDE DEF A, P, R
  <2>3. /\ A \subseteq Q /\ Q \subseteq Nodes
        /\ \A k \in P : w.connections[k].from \in Q => w.connections[k].to \in Q
    BY <2>1, ReachProperties
  <2> QED BY <2>2, <2>3 DEF A, P
<1>5. lp \in R
  BY <1>1, <1>2, <1>4 DEF Loops
<1>6. \A k \in Links(w) : w.connections[k].to = f /\ w.connections[k].from \in R => k \in BackEdges(w)
  BY <1>1 DEF BackEdges
<1> DEFINE S == R \ {f}
<1>7. \A k \in Forward(w) : w.connections[k].from \in R => w.connections[k].to \in S
  <2> TAKE k \in Forward(w)
  <2> HAVE w.connections[k].from \in R
  <2>1. k \in Links(w) /\ k \notin BackEdges(w)
    BY DEF Forward
  <2>2. w.connections[k].to # f
    BY <1>6, <2>1
  <2>3. k \in Past(w, f, Links(w))
    BY <2>1, <2>2 DEF Past
  <2> QED BY <1>4, <2>2, <2>3
<1>8. Body(w, lp) \subseteq S
  <2>1. S \in SUBSET Nodes
    BY <1>4
  <2>2. \A k \in Forward(w) : /\ w.connections[k].from = lp => w.connections[k].to \in S
                              /\ w.connections[k].from \in S => w.connections[k].to \in S
    BY <1>5, <1>7
  <2> HIDE DEF S, lp
  <2> QED BY <2>1, <2>2, BodyProperties
<1>9. f \notin Body(w, lp)
  BY <1>8
<1> HIDE DEF f, lp
<1>10. LoopOwner(w, f) # lp
  BY <1>1, <1>9, OwnerProperties, NodesAssumption
<1> QED BY <1>10 DEF f, lp

\* Loops do not own each other in a circle.
LEMMA OwnersEnd ==
  ASSUME NEW w \in WorkflowType, Accepted(w), NEW S \in SUBSET Nodes,
         \A n \in S : n \in w.nodes /\ LoopOwner(w, n) \in S
  PROVE  S = {}
<1> DEFINE T == S \cup {n \in w.nodes : \E lp \in S : n \in Body(w, lp)}
<1> SUFFICES ASSUME S # {} PROVE FALSE
  OBVIOUS
<1>1. \A n \in S : n \in Body(w, LoopOwner(w, n))
  BY OwnerProperties, NodesAssumption
<1>2. T \in SUBSET w.nodes /\ T # {}
  OBVIOUS
<1>3. ASSUME NEW n \in T PROVE \E i \in Forward(w) : w.connections[i].to = n /\ w.connections[i].from \in T
  <2>1. PICK lp \in S : n \in Body(w, lp)
    BY <1>1
  <2>2. PICK i \in Forward(w) : w.connections[i].to = n /\ w.connections[i].from \in Body(w, lp) \cup {lp}
    BY <2>1, BodyProperties
  <2>3. w.connections[i].from \in w.nodes
    BY AcceptedProperties DEF Forward
  <2> QED BY <2>1, <2>2, <2>3
<1> HIDE DEF T
<1> QED BY <1>2, <1>3, AcceptedProperties

-----------------------------------------------------------------------------
(* The workflow that is run, by its name x: what the model reads off the   *)
(* layout, without the variables.                                          *)

W(x) == Workflows[x]
Lnk(x) == DOMAIN W(x).connections
Src(x, i) == W(x).connections[i].from
Dst(x, i) == W(x).connections[i].to
Out(x, i) == W(x).connections[i].output
Err(x, i) == W(x).connections[i].error
Own(x, n) == LoopOwner(W(x), n)
Bck(x) == BackEdges(W(x))
Ins(x, n) == {i \in Lnk(x) \ Bck(x) : Dst(x, i) = n}
Rets(x, lp) == {i \in Bck(x) : Dst(x, i) = lp}
Mem(x, o) == {n \in W(x).nodes : Own(x, n) = o}
Dps(x, n) == ({Src(x, i) : i \in Ins(x, n)} \ {n}) \cap Mem(x, Own(x, n))
Arr(x, i) == IF Err(x, i) THEN errors[Src(x, i)] ELSE produced[Src(x, i)][Out(x, i)]
Inp(x, n) == FlattenSeq([i \in Lnk(x) |-> IF i \in Ins(x, n) THEN Arr(x, i) ELSE <<>>])
Open(x, n) == Own(x, n) = None \/ at[Own(x, n)] = "loop"

\* What the engine accepts.
Sound(x) ==
  /\ x \in DOMAIN Workflows /\ W(x) \in WorkflowType
  /\ W(x).nodes \subseteq Nodes /\ None \notin Nodes
  /\ \A i \in Lnk(x) : /\ Src(x, i) \in W(x).nodes /\ Dst(x, i) \in W(x).nodes
                       /\ Out(x, i) \in Port /\ Err(x, i) \in BOOLEAN
  /\ \A i \in Lnk(x) \ Bck(x) : Src(x, i) # Dst(x, i)
  /\ Bck(x) \subseteq Lnk(x)
  /\ \A n \in Nodes : Own(x, n) # n /\ (Own(x, n) = None \/ Own(x, n) \in Nodes)
  /\ \A i \in Bck(x) : Own(x, Src(x, i)) = Dst(x, i) =>
       ~(Src(x, i) \in W(x).loops /\ Out(x, i) = 1 /\ ~Err(x, i))
  /\ \A S \in SUBSET W(x).nodes : S # {} => \E n \in S : \A i \in Ins(x, n) : Src(x, i) \notin S
  /\ \A S \in SUBSET W(x).nodes : (\A n \in S : Own(x, n) \in S) => S = {}

LEMMA SoundIs ==
  ASSUME NEW x \in DOMAIN Workflows, Layout[x].accepted
  PROVE  Sound(x)
<1> DEFINE w == Workflows[x]
<1>1. w \in WorkflowType /\ Accepted(w)
  BY WorkflowsAssumption DEF Layout
<1>2. w.nodes \in SUBSET Nodes /\ w.loops \in SUBSET Nodes /\ None \notin Nodes
  BY <1>1, NodesAssumption DEF WorkflowType
<1> HIDE DEF w
<1>3. \A i \in Links(w) : w.connections[i].from \in w.nodes /\ w.connections[i].to \in w.nodes
  BY <1>1, AcceptedProperties
<1>4. \A i \in Links(w) : w.connections[i].output \in Port /\ w.connections[i].error \in BOOLEAN
  BY <1>1, ConnectionTypes
<1>5. \A i \in Forward(w) : w.connections[i].from # w.connections[i].to
  BY <1>1, AcceptedProperties
<1>6. BackEdges(w) \subseteq Links(w)
  BY DEF BackEdges
<1>7. \A n \in Nodes : LoopOwner(w, n) # n /\ (LoopOwner(w, n) = None \/ LoopOwner(w, n) \in Nodes)
  BY <1>1, <1>2, OwnerElsewhere, OwnerProperties
<1>8. \A i \in BackEdges(w) : LoopOwner(w, w.connections[i].from) = w.connections[i].to =>
        ~(w.connections[i].from \in w.loops /\ w.connections[i].output = 1 /\ ~w.connections[i].error)
  BY <1>1, BatchesStayIn
<1>9. \A S \in SUBSET w.nodes :
        S # {} => \E n \in S : \A i \in Forward(w) : w.connections[i].to = n => w.connections[i].from \notin S
  BY <1>1, AcceptedProperties
<1>10. \A S \in SUBSET w.nodes : (\A n \in S : LoopOwner(w, n) \in S) => S = {}
  <2> TAKE S \in SUBSET w.nodes
  <2> HAVE \A n \in S : LoopOwner(w, n) \in S
  <2>1. S \in SUBSET Nodes /\ \A n \in S : n \in w.nodes /\ LoopOwner(w, n) \in S
    BY <1>2
  <2> QED BY <1>1, <2>1, OwnersEnd
<1>11. w = W(x)
  BY DEF w, W
<1> QED BY <1>1, <1>2, <1>3, <1>4, <1>5, <1>6, <1>7, <1>8, <1>9, <1>10, <1>11
        DEF Sound, Lnk, Links, Src, Dst, Out, Err, Own, Bck, Ins, Forward

\* The operators of the model in these terms.
LEMMA Notation ==
  ASSUME NEW x \in DOMAIN Workflows, x = name, W(x).nodes \subseteq Nodes
  PROVE  /\ wf = W(x) /\ Links(wf) = Lnk(x) /\ Layout[name].back = Bck(x)
         /\ \A i : /\ Conn(i).from = Src(x, i) /\ Conn(i).to = Dst(x, i)
                   /\ Conn(i).output = Out(x, i) /\ Conn(i).error = Err(x, i)
                   /\ Arrived(i) = Arr(x, i)
         /\ \A n \in Nodes : Owner(n) = Own(x, n) /\ Deps(n) = Dps(x, n)
         /\ \A n : Into(n) = Ins(x, n) /\ Returns(n) = Rets(x, n) /\ InputOf(n) = Inp(x, n)
         /\ \A o : Within(o) = Mem(x, o)
<1>1. wf = W(x) /\ Links(wf) = Lnk(x)
  BY DEF wf, W, Links, Lnk
<1>2. Layout[x].back = BackEdges(Workflows[x]) /\ Layout[x].owner = [n \in Nodes |-> LoopOwner(Workflows[x], n)]
  BY DEF Layout
<1>3. Layout[name].back = Bck(x) /\ \A n \in Nodes : Owner(n) = Own(x, n)
  BY <1>2 DEF Bck, W, Owner, Own
<1>4. \A i : /\ Conn(i).from = Src(x, i) /\ Conn(i).to = Dst(x, i)
             /\ Conn(i).output = Out(x, i) /\ Conn(i).error = Err(x, i)
  BY <1>1 DEF Conn, Src, Dst, Out, Err
<1>5. \A i : Arrived(i) = Arr(x, i)
  BY <1>4 DEF Arrived, Arr
<1>6. \A n : Into(n) = Ins(x, n) /\ Returns(n) = Rets(x, n)
  BY <1>1, <1>3, <1>4 DEF Into, Ins, Returns, Rets
<1>7. \A o : Within(o) = Mem(x, o)
  BY <1>1, <1>3 DEF Within, Mem
<1>8. ASSUME NEW n \in Nodes PROVE Deps(n) = Dps(x, n)
  <2>1. {Conn(i).from : i \in Into(n)} = {Src(x, i) : i \in Ins(x, n)}
    BY <1>4, <1>6
  <2>2. Within(Owner(n)) = Mem(x, Own(x, n))
    BY <1>3, <1>7
  <2> QED BY <2>1, <2>2 DEF Deps, Dps
<1>9. ASSUME NEW n PROVE InputOf(n) = Inp(x, n)
  <2>1. [i \in Links(wf) |-> IF i \in Into(n) THEN Arrived(i) ELSE <<>>]
        = [i \in Lnk(x) |-> IF i \in Ins(x, n) THEN Arr(x, i) ELSE <<>>]
    BY <1>1, <1>5, <1>6
  <2> QED BY <2>1 DEF InputOf, Inp
<1> QED BY <1>1, <1>3, <1>4, <1>5, <1>6, <1>7, <1>8, <1>9

-----------------------------------------------------------------------------
(* Type correctness.                                                       *)

Where == {"idle", "run", "loop", "ran", "failing", "kept", "failed", "done"}

Typed(x) ==
  /\ x \in DOMAIN Workflows /\ W(x) \in WorkflowType /\ W(x).nodes \subseteq Nodes
  /\ status \in {"none", "running", "success", "error", "canceled"} /\ runs \in 0..MaxRuns
  /\ at \in [Nodes -> Where]
  /\ run \in [Nodes -> NodeRun] /\ record \in [Nodes -> NodeRun] /\ reusable \in [Nodes -> NodeRun]
  /\ produced \in [Nodes -> Outputs] /\ totals \in [Nodes -> Outputs] /\ errors \in [Nodes -> Seq(Items)]
  /\ queue \in [Nodes -> Seq(Items)] /\ returned \in [Nodes -> Seq(Items)]
  /\ reused \subseteq W(x).nodes /\ edited \subseteq W(x).nodes /\ flawed \subseteq W(x).nodes
  /\ sent \in [Lnk(x) -> Seq(Items)] /\ got \in [Lnk(x) -> Seq(Items)]

LEMMA EmptyTypes ==
  /\ <<>> \in Seq(Items) /\ NoOutput \in Outputs /\ NoOutput[0] = <<>> /\ NoOutput[1] = <<>>
  /\ NoRun \in NodeRun /\ NoRun.status = "none" /\ NoRun.input = <<>> /\ NoRun.outs = NoOutput
  /\ NoRun.errs = <<>> /\ ~NoRun.reused
BY DEF NoOutput, Outputs, NoRun, NodeRun, Port

\* Items on one output.
LEMMA OneOutput ==
  ASSUME NEW items \in Seq(Items), NEW p \in Port
  PROVE  /\ [NoOutput EXCEPT ![p] = items] \in Outputs
         /\ \A q \in Port : [NoOutput EXCEPT ![p] = items][q] = IF q = p THEN items ELSE <<>>
<1>1. NoOutput \in [Port -> Seq(Items)] /\ \A q \in Port : NoOutput[q] = <<>>
  BY DEF NoOutput
<1> QED BY <1>1 DEF Outputs

\* What the connections brought, and the input of a node made of them.
LEMMA InputTypes ==
  ASSUME NEW x, Sound(x), Typed(x)
  PROVE  /\ \A i \in Lnk(x) : Arr(x, i) \in Seq(Items)
         /\ \A n : /\ Inp(x, n) \in Seq(Items)
                   /\ Inp(x, n) = <<>> <=> \A i \in Ins(x, n) : Arr(x, i) = <<>>
<1>1. \A i \in Lnk(x) : Arr(x, i) \in Seq(Items)
  <2>1. errors \in [Nodes -> Seq(Items)] /\ produced \in [Nodes -> [Port -> Seq(Items)]]
    BY DEF Typed, Outputs
  <2>2. \A i \in Lnk(x) : Src(x, i) \in Nodes /\ Out(x, i) \in Port
    BY DEF Sound
  <2> QED BY <2>1, <2>2 DEF Arr
<1>2. ASSUME NEW n
      PROVE  Inp(x, n) \in Seq(Items) /\ (Inp(x, n) = <<>> <=> \A i \in Ins(x, n) : Arr(x, i) = <<>>)
  <2> DEFINE s == [i \in Lnk(x) |-> IF i \in Ins(x, n) THEN Arr(x, i) ELSE <<>>]
  <2>1. PICK k \in Nat : Lnk(x) = 1..k
    BY LenProperties DEF Typed, WorkflowType, Lnk
  <2>2. s \in [1..k -> Seq(Items)]
    BY <1>1, <2>1
  <2>3. s \in Seq(Seq(Items)) /\ Len(s) = k
    <3> HIDE DEF s
    <3> QED BY <2>2
  <2>4. Ins(x, n) \subseteq Lnk(x)
    BY DEF Ins
  <2>5. \A i \in 1..k : s[i] = <<>> <=> (i \in Ins(x, n) => Arr(x, i) = <<>>)
    BY <2>1
  <2>6. Inp(x, n) = FlattenSeq(s)
    BY DEF Inp
  <2> HIDE DEF s
  <2>7. FlattenSeq(s) \in Seq(Items) /\ (FlattenSeq(s) = <<>> <=> \A i \in 1..Len(s) : s[i] = <<>>)
    BY <2>3, FlattenProperties
  <2> QED BY <2>1, <2>3, <2>4, <2>5, <2>6, <2>7
<1> QED BY <1>1, <1>2

-----------------------------------------------------------------------------
(* What each action does, in these terms.                                  *)

Readied(x, n) ==
  /\ status = "running" /\ n \in W(x).nodes /\ at[n] = "idle" /\ Open(x, n)
  /\ \A m \in Dps(x, n) : at[m] = "done"

\* Everything that feeds n was reused.
Reusable(x, n) == reusable[n].status = "success" /\ \A i \in Ins(x, n) : Src(x, i) \in reused

Carried(x, links) == [i \in Lnk(x) |-> IF i \in links THEN got[i] \o Arr(x, i) ELSE got[i]]

\* A node starts, to run or with the result r at hand.
Starts(x, n, where, r) ==
  /\ Readied(x, n) /\ where \in {"ran", "run"}
  /\ at' = [at EXCEPT ![n] = where] /\ run' = [run EXCEPT ![n] = r] /\ r \in NodeRun
  /\ \/ got' = Carried(x, Ins(x, n)) /\ ~r.reused
     \/ got' = got /\ (r.reused \/ Inp(x, n) = <<>>)
  /\ flawed' \in {flawed, flawed \cup {n}}
  /\ where = "run" => n \notin W(x).loops /\ r.input # <<>> /\ ~r.reused
  /\ where = "ran" => n \in flawed' \/ r.status = "success"
  /\ n \in W(x).loops => r.outs[1] = <<>>
  /\ r.reused => /\ n \notin W(x).loops /\ Own(x, n) = None /\ Reusable(x, n)
                 /\ r = [reusable[n] EXCEPT !.reused = TRUE]
  /\ ~r.reused => r.input = Inp(x, n) /\ r.errs = <<>>
  /\ UNCHANGED <<name, status, reusable, edited, runs, produced, errors, reused, queue, returned,
                 totals, record, sent>>

LEMMA ReadyIs ==
  ASSUME NEW x, x = name, Typed(x), NEW n \in W(x).nodes, Ready(n)
  PROVE  /\ Readied(x, n) /\ n \in Nodes /\ Owner(n) = Own(x, n)
         /\ Into(n) = Ins(x, n) /\ InputOf(n) = Inp(x, n) /\ wf = W(x)
<1>1. n \in Nodes /\ x \in DOMAIN Workflows /\ W(x).nodes \subseteq Nodes
  BY DEF Typed
<1>2. /\ Owner(n) = Own(x, n) /\ Deps(n) = Dps(x, n) /\ Into(n) = Ins(x, n)
      /\ InputOf(n) = Inp(x, n) /\ wf = W(x)
  BY <1>1, Notation
<1> QED BY <1>1, <1>2 DEF Ready, Readied, Open

LEMMA GathersIs ==
  ASSUME NEW x, x = name, Typed(x), NEW n, Gathers(n)
  PROVE  got' = Carried(x, Ins(x, n))
<1>1. x \in DOMAIN Workflows /\ W(x).nodes \subseteq Nodes
  BY DEF Typed
<1>2. Links(wf) = Lnk(x) /\ Into(n) = Ins(x, n) /\ \A i : Arrived(i) = Arr(x, i)
  BY <1>1, Notation
<1> QED BY <1>2 DEF Gathers, Carry, Carried

LEMMA ReuseStarts ==
  ASSUME NEW x, x = name, Sound(x), Typed(x), NEW n \in W(x).nodes, Reuse(n)
  PROVE  \E where, r : Starts(x, n, where, r)
<1> DEFINE r == [reusable[n] EXCEPT !.reused = TRUE]
<1>1. Readied(x, n) /\ n \in Nodes /\ Owner(n) = Own(x, n) /\ Into(n) = Ins(x, n) /\ wf = W(x)
  BY ReadyIs DEF Reuse
<1>2. reusable[n] \in NodeRun
  BY <1>1 DEF Typed
<1>3. r \in NodeRun /\ r.reused = TRUE /\ r.status = reusable[n].status
  BY <1>2 DEF NodeRun
<1>4. /\ reusable[n].status = "success" /\ n \notin W(x).loops /\ Own(x, n) = None
      /\ \A i \in Ins(x, n) : Conn(i).from \in reused
  BY <1>1 DEF Reuse, MayReuse
<1>5. Reusable(x, n)
  <2>1. \A i : Conn(i).from = Src(x, i)
    BY Notation DEF Typed
  <2> QED BY <1>4, <2>1 DEF Reusable
<1>6. /\ at' = [at EXCEPT ![n] = "ran"] /\ run' = [run EXCEPT ![n] = r] /\ got' = got /\ flawed' = flawed
      /\ UNCHANGED <<name, status, reusable, edited, runs, produced, errors, reused, queue, returned,
                     totals, record, sent>>
  BY DEF Reuse, Returned, given, state, loopState, history
<1> HIDE DEF r
<1>7. r = [reusable[n] EXCEPT !.reused = TRUE]
  BY DEF r
<1>8. Starts(x, n, "ran", r)
  BY <1>1, <1>3, <1>4, <1>5, <1>6, <1>7 DEF Starts
<1> QED BY <1>8

LEMMA PassOnStarts ==
  ASSUME NEW x, x = name, Sound(x), Typed(x), NEW n \in W(x).nodes, PassOn(n)
  PROVE  \E where, r : Starts(x, n, where, r)
<1> DEFINE r == [NoRun EXCEPT !.status = "skipped", !.input = InputOf(n), !.outs[0] = InputOf(n)]
<1>1. Readied(x, n) /\ InputOf(n) = Inp(x, n)
  BY ReadyIs DEF PassOn
<1>2. Inp(x, n) \in Seq(Items)
  BY InputTypes
<1>4. r \in NodeRun /\ r.reused = FALSE /\ r.input = Inp(x, n) /\ r.errs = <<>> /\ r.outs[1] = <<>>
  <2>1. [NoOutput EXCEPT ![0] = Inp(x, n)] \in Outputs /\ [NoOutput EXCEPT ![0] = Inp(x, n)][1] = <<>>
    <3>1. 0 \in Port /\ 1 \in Port /\ 1 # 0
      BY DEF Port
    <3>2. \A p \in Port : /\ [NoOutput EXCEPT ![p] = Inp(x, n)] \in Outputs
                           /\ \A q \in Port : [NoOutput EXCEPT ![p] = Inp(x, n)][q] = IF q = p THEN Inp(x, n) ELSE <<>>
      BY <1>2, OneOutput
    <3> QED BY <3>1, <3>2
  <2>2. r = [NoRun EXCEPT !.status = "skipped", !.input = Inp(x, n), !.outs = [NoOutput EXCEPT ![0] = Inp(x, n)]]
    BY <1>1, EmptyTypes DEF NodeRun
  <2> HIDE DEF r
  <2> QED BY <1>2, <2>1, <2>2, EmptyTypes DEF NodeRun
<1>5. got' = Carried(x, Ins(x, n))
  BY GathersIs DEF PassOn
<1>6. /\ at' = [at EXCEPT ![n] = "ran"] /\ run' = [run EXCEPT ![n] = r] /\ flawed' = flawed \cup {n}
      /\ UNCHANGED <<name, status, reusable, edited, runs, produced, errors, reused, queue, returned,
                     totals, record, sent>>
  BY DEF PassOn, Returned, given, state, loopState
<1> HIDE DEF r
<1>7. Starts(x, n, "ran", r)
  BY <1>1, <1>4, <1>5, <1>6 DEF Starts
<1> QED BY <1>7

LEMMA TriggerStarts ==
  ASSUME NEW x, x = name, Sound(x), Typed(x), NEW n \in W(x).nodes,
         NEW items \in Seq(Items), Trigger(n, items)
  PROVE  \E where, r : Starts(x, n, where, r)
<1> DEFINE r == [NoRun EXCEPT !.status = "success", !.outs[0] = items]
<1>1. Readied(x, n) /\ Into(n) = Ins(x, n)
  BY ReadyIs DEF Trigger
<1>2. Inp(x, n) = <<>>
  <2>1. Ins(x, n) = {}
    BY <1>1 DEF Trigger, Start
  <2> QED BY <2>1, InputTypes
<1>4. r \in NodeRun /\ r.reused = FALSE /\ r.input = <<>> /\ r.errs = <<>> /\ r.outs[1] = <<>> /\ r.status = "success"
  <2>1. [NoOutput EXCEPT ![0] = items] \in Outputs /\ [NoOutput EXCEPT ![0] = items][1] = <<>>
    <3>1. 0 \in Port /\ 1 \in Port /\ 1 # 0
      BY DEF Port
    <3>2. \A p \in Port : /\ [NoOutput EXCEPT ![p] = items] \in Outputs
                           /\ \A q \in Port : [NoOutput EXCEPT ![p] = items][q] = IF q = p THEN items ELSE <<>>
      BY OneOutput
    <3> QED BY <3>1, <3>2
  <2>2. r = [NoRun EXCEPT !.status = "success", !.outs = [NoOutput EXCEPT ![0] = items]]
    BY EmptyTypes DEF NodeRun
  <2> HIDE DEF r
  <2> QED BY <2>1, <2>2, EmptyTypes DEF NodeRun
<1>5. /\ at' = [at EXCEPT ![n] = "ran"] /\ run' = [run EXCEPT ![n] = r] /\ got' = got /\ flawed' = flawed
      /\ UNCHANGED <<name, status, reusable, edited, runs, produced, errors, reused, queue, returned,
                     totals, record, sent>>
  BY DEF Trigger, Returned, given, state, loopState, history
<1> HIDE DEF r
<1>6. Starts(x, n, "ran", r)
  BY <1>1, <1>2, <1>4, <1>5 DEF Starts
<1> QED BY <1>6

LEMMA SkipStarts ==
  ASSUME NEW x, x = name, Sound(x), Typed(x), NEW n \in W(x).nodes, Skip(n)
  PROVE  \E where, r : Starts(x, n, where, r)
<1> DEFINE r == [NoRun EXCEPT !.status = "skipped"]
<1>1. Readied(x, n) /\ Inp(x, n) = <<>>
  BY ReadyIs DEF Skip
<1>3. r \in NodeRun /\ r.reused = FALSE /\ r.input = <<>> /\ r.errs = <<>> /\ r.outs[1] = <<>>
  BY EmptyTypes DEF NodeRun
<1>4. /\ at' = [at EXCEPT ![n] = "ran"] /\ run' = [run EXCEPT ![n] = r] /\ got' = got /\ flawed' = flawed \cup {n}
      /\ UNCHANGED <<name, status, reusable, edited, runs, produced, errors, reused, queue, returned,
                     totals, record, sent>>
  BY DEF Skip, Returned, given, state, loopState
<1> HIDE DEF r
<1>5. Starts(x, n, "ran", r)
  BY <1>1, <1>3, <1>4 DEF Starts
<1> QED BY <1>5

LEMMA BeginStarts ==
  ASSUME NEW x, x = name, Sound(x), Typed(x), NEW n \in W(x).nodes, Begin(n)
  PROVE  \E where, r : Starts(x, n, where, r)
<1> DEFINE r == [NoRun EXCEPT !.input = InputOf(n)]
<1>1. Readied(x, n) /\ InputOf(n) = Inp(x, n) /\ Inp(x, n) # <<>> /\ n \notin W(x).loops
  BY ReadyIs DEF Begin
<1>2. Inp(x, n) \in Seq(Items)
  BY InputTypes
<1>4. r \in NodeRun /\ r.reused = FALSE /\ r.input = Inp(x, n) /\ r.errs = <<>>
  BY <1>1, <1>2, EmptyTypes DEF NodeRun
<1>5. got' = Carried(x, Ins(x, n))
  BY GathersIs DEF Begin
<1>6. /\ at' = [at EXCEPT ![n] = "run"] /\ run' = [run EXCEPT ![n] = r] /\ flawed' = flawed
      /\ UNCHANGED <<name, status, reusable, edited, runs, produced, errors, reused, queue, returned,
                     totals, record, sent>>
  BY DEF Begin, given, state, loopState
<1> HIDE DEF r
<1>7. Starts(x, n, "run", r)
  BY <1>1, <1>4, <1>5, <1>6 DEF Starts
<1> QED BY <1>7

\* A node's runs return.
Executed(x, n, r) ==
  /\ status = "running" /\ n \in W(x).nodes /\ at[n] = "run"
  /\ at' = [at EXCEPT ![n] = "ran"] /\ run' = [run EXCEPT ![n] = r] /\ r \in NodeRun
  /\ r.input = run[n].input /\ r.reused = run[n].reused
  /\ errors' = IF r.errs = <<>> THEN errors ELSE [errors EXCEPT ![n] = r.errs]
  /\ flawed' \in {flawed, flawed \cup {n}} /\ (n \in flawed' \/ r.status = "success")
  /\ UNCHANGED <<name, status, reusable, edited, runs, produced, reused, queue, returned, totals,
                 record, sent, got>>

LEMMA ExecuteIs ==
  ASSUME NEW x, x = name, Typed(x), NEW n \in W(x).nodes, NEW chosen, Execute(n, chosen),
         at[n] = "run" => run[n].input # <<>>
  PROVE  \E r : Executed(x, n, r)
<1> DEFINE fails == Failed \in Range(chosen)
           items == IF n \in wf.perItem \/ ~fails THEN run[n].input ELSE <<Head(run[n].input)>>
           dest == [i \in DOMAIN items |->
                      IF chosen[i] = Failed /\ ~HasErrorRoute(n) THEN 0 ELSE chosen[i]]
           errs == Chosen(items, dest, Failed)
           outs == [p \in Port |-> Chosen(items, dest, p)]
           s == IF fails THEN "error" ELSE "success"
           r == [run[n] EXCEPT !.status = s, !.outs = outs, !.errs = errs]
<1>1. at[n] = "run" /\ n \in Nodes /\ run[n] \in NodeRun /\ run[n].input \in Seq(Items) /\ run[n].input # <<>>
  BY DEF Execute, Typed, NodeRun
<1>2. items \in Seq(Items)
  <2>1. Head(run[n].input) \in Items
    BY <1>1, HeadTailProperties
  <2> QED BY <1>1, <2>1
<1>3. /\ status = "running"
      /\ at' = [at EXCEPT ![n] = "ran"] /\ run' = [run EXCEPT ![n] = r]
      /\ errors' = IF errs = <<>> THEN errors ELSE [errors EXCEPT ![n] = errs]
      /\ flawed' = IF fails THEN flawed \cup {n} ELSE flawed
      /\ UNCHANGED <<name, status, reusable, edited, runs, produced, reused, queue, returned, totals,
                     record, sent, got>>
  BY DEF Execute, Returned, given, loopState
<1> HIDE DEF items, dest, fails
<1>4. errs \in Seq(Items) /\ outs \in Outputs
  BY <1>2, ChosenType DEF Outputs
<1> HIDE DEF errs, outs
<1>5. r \in NodeRun /\ r.input = run[n].input /\ r.reused = run[n].reused /\ r.errs = errs /\ r.status = s
  BY <1>1, <1>4 DEF NodeRun
<1>6. Executed(x, n, r)
  <2> HIDE DEF r
  <2> QED BY <1>1, <1>3, <1>5 DEF Executed
<1> QED BY <1>6

Broken(x, n) ==
  /\ status = "running" /\ n \in W(x).nodes /\ at[n] = "run"
  /\ at' = [at EXCEPT ![n] = "failing"] /\ run' = [run EXCEPT ![n] = [run[n] EXCEPT !.status = "error"]]
  /\ UNCHANGED <<name, status, reusable, edited, runs, produced, errors, reused, queue, returned, totals,
                 record, sent, got, flawed>>

LEMMA BreakIs == ASSUME NEW x, NEW n \in W(x).nodes, Break(n) PROVE Broken(x, n)
BY DEF Break, Broken, given, state, loopState, history

Persisted(x, n) ==
  /\ status = "running" /\ n \in W(x).nodes /\ at[n] \in {"ran", "failing"}
  /\ \A m \in Nodes : at[m] \notin {"kept", "failed"}
  /\ at' = [at EXCEPT ![n] = IF at[n] = "ran" THEN "kept" ELSE "failed"]
  /\ record' = [record EXCEPT ![n] = Merged(record[n], run[n])]
  /\ UNCHANGED <<name, status, reusable, edited, runs, run, produced, errors, reused, queue, returned,
                 totals, sent, got, flawed>>

LEMMA PersistIs == ASSUME NEW x, NEW n \in W(x).nodes, Persist(n) PROVE Persisted(x, n)
BY DEF Persist, Persisted, given, state, loopState, history

LEMMA MergedIs ==
  ASSUME NEW r \in NodeRun, NEW s \in NodeRun
  PROVE  /\ Merged(r, s) \in NodeRun
         /\ r.status # "success" \/ s.status # "success" => Merged(r, s) = s
         /\ r.status = "success" /\ s.status = "success" =>
              /\ Merged(r, s).status = "success" /\ Merged(r, s).errs = r.errs \o s.errs
              /\ \A p \in Port : Merged(r, s).outs[p] = r.outs[p] \o s.outs[p]
<1>1. /\ r.outs \in [Port -> Seq(Items)] /\ s.outs \in [Port -> Seq(Items)]
      /\ r.errs \in Seq(Items) /\ s.errs \in Seq(Items) /\ r.input \in Seq(Items) /\ s.input \in Seq(Items)
  BY DEF NodeRun, Outputs
<1>2. CASE ~(r.status = "success" /\ s.status = "success")
  BY <1>2 DEF Merged
<1>3. CASE r.status = "success" /\ s.status = "success"
  <2> DEFINE input == r.input \o s.input
             errs == r.errs \o s.errs
             outs == [p \in Port |-> r.outs[p] \o s.outs[p]]
             m == [r EXCEPT !.input = input, !.errs = errs, !.outs = outs]
  <2>1. input \in Seq(Items) /\ errs \in Seq(Items)
    BY <1>1, ConcatProperties
  <2>2. outs \in Outputs
    BY <1>1, ConcatProperties DEF Outputs
  <2>3. Merged(r, s) = m
    BY <1>3 DEF Merged
  <2>4. outs = [p \in Port |-> r.outs[p] \o s.outs[p]] /\ errs = r.errs \o s.errs
    OBVIOUS
  <2> HIDE DEF input, errs, outs
  <2>5. m \in NodeRun /\ m.status = r.status /\ m.errs = errs /\ m.outs = outs
    BY <2>1, <2>2 DEF NodeRun
  <2>6. \A p \in Port : m.outs[p] = r.outs[p] \o s.outs[p]
    BY <2>4, <2>5
  <2> HIDE DEF m
  <2> QED BY <1>3, <2>3, <2>4, <2>5, <2>6
<1> QED BY <1>2, <1>3

Published(x, n) ==
  /\ status = "running" /\ n \in W(x).nodes /\ at[n] = "kept"
  /\ at' = [at EXCEPT ![n] = "done"] /\ run' = [run EXCEPT ![n] = NoRun]
  /\ produced' = [m \in Nodes |->
       IF m = n THEN run[n].outs
       ELSE IF Own(x, m) = n /\ run[n].status = "success" THEN totals[m] ELSE produced[m]]
  /\ errors' = IF run[n].errs = <<>> THEN errors ELSE [errors EXCEPT ![n] = run[n].errs]
  /\ reused' = IF run[n].reused THEN reused \cup {n} ELSE reused
  /\ sent' = [i \in Lnk(x) |->
       IF Src(x, i) # n THEN sent[i]
       ELSE sent[i] \o IF Err(x, i) THEN run[n].errs ELSE run[n].outs[Out(x, i)]]
  /\ UNCHANGED <<name, status, reusable, edited, runs, queue, returned, totals, record, got, flawed>>

LEMMA PublishIs ==
  ASSUME NEW x, x = name, Typed(x), NEW n \in W(x).nodes, Publish(n)
  PROVE  Published(x, n)
<1>1. x \in DOMAIN Workflows /\ W(x).nodes \subseteq Nodes
  BY DEF Typed
<1>2. /\ Links(wf) = Lnk(x) /\ \A m \in Nodes : Owner(m) = Own(x, m)
      /\ \A i : /\ Conn(i).from = Src(x, i) /\ Conn(i).output = Out(x, i) /\ Conn(i).error = Err(x, i)
  BY <1>1, Notation
<1>3. sent' = [i \in Lnk(x) |->
       IF Src(x, i) # n THEN sent[i]
       ELSE sent[i] \o IF Err(x, i) THEN run[n].errs ELSE run[n].outs[Out(x, i)]]
  BY <1>2 DEF Publish, Sends
<1>4. produced' = [m \in Nodes |->
       IF m = n THEN run[n].outs
       ELSE IF Own(x, m) = n /\ run[n].status = "success" THEN totals[m] ELSE produced[m]]
  BY <1>2 DEF Publish
<1> QED BY <1>3, <1>4 DEF Publish, Published, given, loopState

\* The body of the loop lp starts with the batch b; q is left.
Batched(x, lp, b, q) ==
  /\ b \in Outputs /\ b[0] = <<>> /\ q \in Seq(Items)
  /\ queue' = [queue EXCEPT ![lp] = q]
  /\ at' = [n \in Nodes |-> IF n = lp THEN "loop" ELSE IF Own(x, n) = lp THEN "idle" ELSE at[n]]
  /\ produced' = [n \in Nodes |->
       IF n = lp THEN b ELSE IF Own(x, n) = lp THEN NoOutput ELSE produced[n]]
  /\ errors' = [n \in Nodes |-> IF Own(x, n) = lp THEN <<>> ELSE errors[n]]
  /\ sent' = [i \in Lnk(x) |->
       IF Src(x, i) # lp THEN sent[i] ELSE sent[i] \o IF Err(x, i) THEN <<>> ELSE b[Out(x, i)]]

LEMMA BatchIs ==
  ASSUME NEW x, x = name, Typed(x), NEW lp \in W(x).nodes, NEW items \in Seq(Items), StartBatch(lp, items)
  PROVE  \E b, q : Batched(x, lp, b, q)
<1> DEFINE size == IF Len(items) < BatchSize THEN Len(items) ELSE BatchSize
           batch == [NoOutput EXCEPT ![1] = SubSeq(items, 1, size)]
           rest == SubSeq(items, size + 1, Len(items))
<1>1. x \in DOMAIN Workflows /\ W(x).nodes \subseteq Nodes /\ lp \in Nodes
  BY DEF Typed
<1>2. /\ Links(wf) = Lnk(x) /\ \A m \in Nodes : Owner(m) = Own(x, m)
      /\ \A i : /\ Conn(i).from = Src(x, i) /\ Conn(i).output = Out(x, i) /\ Conn(i).error = Err(x, i)
  BY <1>1, Notation
<1>3. BatchSize \in Nat
  <2>1. wf = W(x) /\ W(x).batch \in Nat
    BY <1>1, Notation DEF WorkflowType, Typed
  <2> QED BY <2>1 DEF BatchSize
<1>4. size \in 0..Len(items)
  BY <1>3
<1> HIDE DEF size
<1>5. SubSeq(items, 1, size) \in Seq(Items) /\ rest \in Seq(Items)
  <2>1. Len(items) \in Nat /\ \A i \in 1..Len(items) : items[i] \in Items
    BY LenProperties, ElementOfSeq
  <2> QED BY <1>4, <2>1, SubSeqProperties
<1>6. batch \in Outputs /\ batch[0] = <<>>
  <2>1. 0 \in Port /\ 1 \in Port /\ 1 # 0
    BY DEF Port
  <2>2. \A p \in Port : /\ [NoOutput EXCEPT ![p] = SubSeq(items, 1, size)] \in Outputs
                        /\ \A o \in Port : [NoOutput EXCEPT ![p] = SubSeq(items, 1, size)][o]
                                           = IF o = p THEN SubSeq(items, 1, size) ELSE <<>>
    BY <1>5, OneOutput
  <2> QED BY <2>1, <2>2
<1>7. /\ queue' = [queue EXCEPT ![lp] = rest]
      /\ at' = [n \in Nodes |-> IF n = lp THEN "loop" ELSE IF Owner(n) = lp THEN "idle" ELSE at[n]]
      /\ produced' = [n \in Nodes |-> IF n = lp THEN batch ELSE IF Owner(n) = lp THEN NoOutput ELSE produced[n]]
      /\ errors' = [n \in Nodes |-> IF Owner(n) = lp THEN <<>> ELSE errors[n]]
      /\ sent' = [i \in Links(wf) |->
           IF Conn(i).from # lp THEN sent[i]
           ELSE sent[i] \o IF Conn(i).error THEN <<>> ELSE batch[Conn(i).output]]
  BY DEF StartBatch, ErrorsCleared, Sends, size
<1> HIDE DEF batch, rest
<1>8. Batched(x, lp, batch, rest)
  <2>1. at' = [n \in Nodes |-> IF n = lp THEN "loop" ELSE IF Own(x, n) = lp THEN "idle" ELSE at[n]]
    BY <1>2, <1>7
  <2>2. produced' = [n \in Nodes |-> IF n = lp THEN batch ELSE IF Own(x, n) = lp THEN NoOutput ELSE produced[n]]
    BY <1>2, <1>7
  <2>3. errors' = [n \in Nodes |-> IF Own(x, n) = lp THEN <<>> ELSE errors[n]]
    BY <1>2, <1>7
  <2>4. sent' = [i \in Lnk(x) |->
          IF Src(x, i) # lp THEN sent[i] ELSE sent[i] \o IF Err(x, i) THEN <<>> ELSE batch[Out(x, i)]]
    BY <1>2, <1>7
  <2> QED BY <1>5, <1>6, <1>7, <2>1, <2>2, <2>3, <2>4 DEF Batched
<1> QED BY <1>8

LoopBegun(x, lp, r, b, q) ==
  /\ Readied(x, lp) /\ lp \in W(x).loops \ W(x).disabled
  /\ got' = Carried(x, Ins(x, lp))
  /\ run' = [run EXCEPT ![lp] = r]
  /\ r \in NodeRun /\ r.status = "none" /\ r.outs = NoOutput /\ r.errs = <<>> /\ ~r.reused
  /\ returned' = [returned EXCEPT ![lp] = <<>>]
  /\ totals' = [n \in Nodes |-> IF Own(x, n) = lp THEN NoOutput ELSE totals[n]]
  /\ Batched(x, lp, b, q)
  /\ UNCHANGED <<name, status, reusable, edited, runs, reused, record, flawed>>

LEMMA BeginLoopIs ==
  ASSUME NEW x, x = name, Sound(x), Typed(x), NEW lp \in W(x).nodes, BeginLoop(lp)
  PROVE  \E r, b, q : LoopBegun(x, lp, r, b, q)
<1> DEFINE r == [NoRun EXCEPT !.input = InputOf(lp)]
<1>1. Readied(x, lp) /\ InputOf(lp) = Inp(x, lp) /\ lp \in W(x).loops \ W(x).disabled
  BY ReadyIs DEF BeginLoop
<1>2. Inp(x, lp) \in Seq(Items)
  BY InputTypes
<1>3. r \in NodeRun /\ r.status = "none" /\ r.outs = NoOutput /\ r.errs = <<>> /\ ~r.reused
  BY <1>1, <1>2, EmptyTypes DEF NodeRun
<1>4. got' = Carried(x, Ins(x, lp))
  BY GathersIs DEF BeginLoop
<1>5. totals' = [n \in Nodes |-> IF Own(x, n) = lp THEN NoOutput ELSE totals[n]]
  <2>1. \A n \in Nodes : Owner(n) = Own(x, n)
    BY Notation DEF Typed
  <2> QED BY <2>1 DEF BeginLoop
<1>6. PICK b, q : Batched(x, lp, b, q)
  <2>1. StartBatch(lp, Inp(x, lp))
    BY <1>1 DEF BeginLoop
  <2> QED BY <1>2, <2>1, BatchIs
<1>7. /\ run' = [run EXCEPT ![lp] = r] /\ returned' = [returned EXCEPT ![lp] = <<>>]
      /\ UNCHANGED <<name, status, reusable, edited, runs, reused, record, flawed>>
  BY DEF BeginLoop, given
<1> HIDE DEF r
<1>8. LoopBegun(x, lp, r, b, q)
  BY <1>1, <1>3, <1>4, <1>5, <1>6, <1>7 DEF LoopBegun
<1> QED BY <1>8

\* When a list of nodes is quiet all of them are done.
LEMMA QuietIsDone ==
  ASSUME NEW x, x = name, Sound(x), NEW o, Quiet(o)
  PROVE  \A n \in Mem(x, o) : at[n] = "done"
<1>1. x \in DOMAIN Workflows /\ W(x).nodes \subseteq Nodes
  BY DEF Sound
<1>2. Within(o) = Mem(x, o) /\ \A n \in Nodes : Deps(n) = Dps(x, n)
  BY <1>1, Notation
<1> DEFINE S == {n \in Mem(x, o) : at[n] # "done"}
<1>3. S \in SUBSET W(x).nodes
  BY DEF Mem
<1> SUFFICES ASSUME S # {} PROVE FALSE
  OBVIOUS
<1>4. PICK n \in S : \A i \in Ins(x, n) : Src(x, i) \notin S
  <2> HIDE DEF S
  <2> QED BY <1>3 DEF Sound
<1>5. n \in Mem(x, o) /\ n \in Nodes /\ Own(x, n) = o
  BY <1>1 DEF Mem
<1>6. PICK m \in Dps(x, n) : at[m] # "done"
  BY <1>2, <1>4, <1>5 DEF Quiet
<1>7. m \in Mem(x, o) /\ \E i \in Ins(x, n) : m = Src(x, i)
  BY <1>5, <1>6 DEF Dps
<1> QED BY <1>4, <1>6, <1>7

\* The body of lp is through with a batch; back came back over the batches.
BatchOver(x, lp, back) ==
  /\ status = "running" /\ lp \in W(x).nodes /\ at[lp] = "loop" /\ \A n \in Mem(x, lp) : at[n] = "done"
  /\ got' = Carried(x, Rets(x, lp))
  /\ back \in Seq(Items) /\ returned' = [returned EXCEPT ![lp] = back]
  /\ totals' = [n \in Nodes |->
       IF Own(x, n) = lp THEN [p \in Port |-> totals[n][p] \o produced[n][p]] ELSE totals[n]]
  /\ UNCHANGED <<name, status, reusable, edited, runs, reused, record, flawed>>

LoopOver(x, lp, r) ==
  /\ queue[lp] = <<>> /\ at' = [at EXCEPT ![lp] = "ran"] /\ run' = [run EXCEPT ![lp] = r]
  /\ r \in NodeRun /\ r.status = "success" /\ r.outs[1] = run[lp].outs[1] /\ r.errs = run[lp].errs
  /\ r.reused = run[lp].reused
  /\ UNCHANGED <<produced, errors, sent, queue>>

LEMMA TurnIs ==
  ASSUME NEW x, x = name, Sound(x), Typed(x), NEW lp \in W(x).nodes, Turn(lp)
  PROVE  /\ \E back : BatchOver(x, lp, back)
         /\ (run' = run /\ \E b, q : Batched(x, lp, b, q)) \/ \E r : LoopOver(x, lp, r)
<1> DEFINE s == [i \in Links(wf) |-> IF i \in Returns(lp) THEN Arrived(i) ELSE <<>>]
           back == returned[lp] \o FlattenSeq(s)
<1>1. x \in DOMAIN Workflows /\ W(x).nodes \subseteq Nodes /\ lp \in Nodes
  BY DEF Typed
<1>2. /\ Links(wf) = Lnk(x) /\ \A n \in Nodes : Owner(n) = Own(x, n)
      /\ Returns(lp) = Rets(x, lp) /\ \A i : Arrived(i) = Arr(x, i)
  BY <1>1, Notation
<1>3. back \in Seq(Items)
  <2>1. PICK k \in Nat : Lnk(x) = 1..k
    BY LenProperties DEF Typed, WorkflowType, Lnk
  <2>2. \A i \in Lnk(x) : Arr(x, i) \in Seq(Items)
    BY InputTypes
  <2>3. s \in [1..k -> Seq(Items)]
    BY <1>2, <2>1, <2>2
  <2> HIDE DEF s
  <2>4. s \in Seq(Seq(Items))
    BY <2>3
  <2>5. FlattenSeq(s) \in Seq(Items) /\ returned[lp] \in Seq(Items)
    BY <1>1, <2>4, FlattenProperties DEF Typed
  <2> QED BY <2>5, ConcatProperties
<1>4. /\ status = "running" /\ at[lp] = "loop" /\ Quiet(lp) /\ Carry(Returns(lp))
      /\ returned' = [returned EXCEPT ![lp] = back]
      /\ totals' = [n \in Nodes |->
           IF Owner(n) = lp THEN [p \in Port |-> totals[n][p] \o produced[n][p]] ELSE totals[n]]
      /\ UNCHANGED <<name, status, reusable, edited, runs, reused, record, flawed>>
  BY DEF Turn, given
<1>5. \/ queue[lp] # <<>> /\ StartBatch(lp, queue[lp]) /\ run' = run
      \/ /\ queue[lp] = <<>>
         /\ Returned(lp, [run[lp] EXCEPT !.status = "success", !.outs[0] = back])
         /\ UNCHANGED <<produced, errors, sent, queue>>
  BY DEF Turn
<1> HIDE DEF back, s
<1>6. BatchOver(x, lp, back)
  <2>1. got' = Carried(x, Rets(x, lp))
    BY <1>2, <1>4 DEF Carry, Carried
  <2>2. \A n \in Mem(x, lp) : at[n] = "done"
    BY <1>4, QuietIsDone
  <2>3. totals' = [n \in Nodes |->
          IF Own(x, n) = lp THEN [p \in Port |-> totals[n][p] \o produced[n][p]] ELSE totals[n]]
    BY <1>2, <1>4
  <2> QED BY <1>3, <1>4, <2>1, <2>2, <2>3 DEF BatchOver
<1>7. CASE queue[lp] # <<>>
  <2>1. queue[lp] \in Seq(Items)
    BY <1>1 DEF Typed
  <2> QED BY <1>5, <1>6, <1>7, <2>1, BatchIs
<1>8. CASE queue[lp] = <<>>
  <2> DEFINE r == [run[lp] EXCEPT !.status = "success", !.outs[0] = back]
  <2>1. run[lp] \in NodeRun /\ run[lp].outs \in [Port -> Seq(Items)] /\ 0 \in Port /\ 1 \in Port
    BY <1>1 DEF Typed, NodeRun, Outputs, Port
  <2>2. [run[lp].outs EXCEPT ![0] = back] \in Outputs /\ [run[lp].outs EXCEPT ![0] = back][1] = run[lp].outs[1]
    BY <1>3, <2>1 DEF Outputs
  <2>3. r = [run[lp] EXCEPT !.status = "success", !.outs = [run[lp].outs EXCEPT ![0] = back]]
    BY <2>1 DEF NodeRun
  <2>4. /\ r \in NodeRun /\ r.status = "success" /\ r.outs[1] = run[lp].outs[1]
        /\ r.errs = run[lp].errs /\ r.reused = run[lp].reused
    <3> HIDE DEF r
    <3> QED BY <2>1, <2>2, <2>3 DEF NodeRun
  <2>5. /\ at' = [at EXCEPT ![lp] = "ran"] /\ run' = [run EXCEPT ![lp] = r]
        /\ UNCHANGED <<produced, errors, sent, queue>>
    BY <1>5, <1>8 DEF Returned
  <2> HIDE DEF r
  <2>6. LoopOver(x, lp, r)
    BY <1>8, <2>4, <2>5 DEF LoopOver
  <2> QED BY <1>6, <2>6
<1> QED BY <1>7, <1>8

\* All is as before the first node starts.
Blank(x) ==
  /\ at = [n \in Nodes |-> "idle"] /\ run = [n \in Nodes |-> NoRun]
  /\ produced = [n \in Nodes |-> NoOutput] /\ errors = [n \in Nodes |-> <<>>] /\ reused = {}
  /\ queue = [n \in Nodes |-> <<>>] /\ returned = [n \in Nodes |-> <<>>]
  /\ totals = [n \in Nodes |-> NoOutput] /\ record = [n \in Nodes |-> NoRun]
  /\ sent = [i \in Lnk(x) |-> <<>>] /\ got = [i \in Lnk(x) |-> <<>>] /\ flawed = {}

LEMMA FreshIs == ASSUME NEW x, x = name, Fresh PROVE Blank(x)'
<1>1. Links(wf) = Lnk(x)
  BY DEF wf, Links, Lnk, W
<1> QED BY <1>1 DEF Fresh, Blank

\* Typed, of a state in which only the variables named have changed.
LEMMA TypedStarts ==
  ASSUME NEW x, Sound(x), Typed(x), NEW n, NEW where, NEW r, Starts(x, n, where, r)
  PROVE  Typed(x)'
<1>1. n \in W(x).nodes /\ n \in Nodes /\ r \in NodeRun /\ where \in Where
  BY DEF Starts, Readied, Typed, Where
<1>2. at' \in [Nodes -> Where] /\ run' \in [Nodes -> NodeRun]
  BY <1>1 DEF Starts, Typed
<1>3. got' \in [Lnk(x) -> Seq(Items)]
  <2>1. got \in [Lnk(x) -> Seq(Items)]
    BY DEF Typed
  <2>2. Carried(x, Ins(x, n)) \in [Lnk(x) -> Seq(Items)]
    <3>1. \A i \in Lnk(x) : got[i] \in Seq(Items) /\ Arr(x, i) \in Seq(Items)
      BY <2>1, InputTypes
    <3>2. \A i \in Lnk(x) : got[i] \o Arr(x, i) \in Seq(Items)
      BY <3>1, ConcatProperties
    <3> QED BY <2>1, <3>2 DEF Carried
  <2> QED BY <2>1, <2>2 DEF Starts
<1>4. flawed' \subseteq W(x).nodes
  BY <1>1 DEF Starts, Typed
<1> QED BY <1>2, <1>3, <1>4 DEF Starts, Typed

LEMMA TypedExecuted ==
  ASSUME NEW x, Typed(x), NEW n, NEW r, Executed(x, n, r)
  PROVE  Typed(x)'
<1>1. n \in W(x).nodes /\ n \in Nodes /\ r \in NodeRun /\ r.errs \in Seq(Items) /\ "ran" \in Where
  BY DEF Executed, Typed, Where, NodeRun
<1>2. at' \in [Nodes -> Where] /\ run' \in [Nodes -> NodeRun]
  BY <1>1 DEF Executed, Typed
<1>3. errors' \in [Nodes -> Seq(Items)]
  BY <1>1 DEF Executed, Typed
<1>4. flawed' \subseteq W(x).nodes
  BY <1>1 DEF Executed, Typed
<1> QED BY <1>2, <1>3, <1>4 DEF Executed, Typed

LEMMA TypedBroken ==
  ASSUME NEW x, Typed(x), NEW n, Broken(x, n)
  PROVE  Typed(x)'
<1>1. n \in W(x).nodes /\ n \in Nodes /\ run[n] \in NodeRun /\ "failing" \in Where
  BY DEF Broken, Typed, Where
<1>2. [run[n] EXCEPT !.status = "error"] \in NodeRun
  BY <1>1 DEF NodeRun
<1>3. at' \in [Nodes -> Where] /\ run' \in [Nodes -> NodeRun]
  BY <1>1, <1>2 DEF Broken, Typed
<1> QED BY <1>3 DEF Broken, Typed

LEMMA TypedPersisted ==
  ASSUME NEW x, Typed(x), NEW n, Persisted(x, n)
  PROVE  Typed(x)'
<1>1. n \in W(x).nodes /\ n \in Nodes /\ run[n] \in NodeRun /\ record[n] \in NodeRun /\ {"kept", "failed"} \subseteq Where
  BY DEF Persisted, Typed, Where
<1>2. Merged(record[n], run[n]) \in NodeRun
  BY <1>1, MergedIs
<1>3. at' \in [Nodes -> Where] /\ record' \in [Nodes -> NodeRun]
  BY <1>1, <1>2 DEF Persisted, Typed
<1> QED BY <1>3 DEF Persisted, Typed

LEMMA TypedPublished ==
  ASSUME NEW x, Sound(x), Typed(x), NEW n, Published(x, n)
  PROVE  Typed(x)'
<1>1. n \in W(x).nodes /\ n \in Nodes /\ run[n] \in NodeRun /\ "done" \in Where
  BY DEF Published, Typed, Where
<1>2. run[n].outs \in [Port -> Seq(Items)] /\ run[n].outs \in Outputs /\ run[n].errs \in Seq(Items)
  BY <1>1 DEF NodeRun, Outputs
<1>3. at' \in [Nodes -> Where] /\ run' \in [Nodes -> NodeRun]
  BY <1>1, EmptyTypes DEF Published, Typed
<1>4. produced' \in [Nodes -> Outputs]
  BY <1>2 DEF Published, Typed
<1>5. errors' \in [Nodes -> Seq(Items)]
  BY <1>1, <1>2 DEF Published, Typed
<1>6. reused' \subseteq W(x).nodes
  BY <1>1 DEF Published, Typed
<1>7. sent' \in [Lnk(x) -> Seq(Items)]
  <2>1. \A i \in Lnk(x) : sent[i] \in Seq(Items) /\ Out(x, i) \in Port
    BY DEF Typed, Sound
  <2>2. \A i \in Lnk(x) : sent[i] \o (IF Err(x, i) THEN run[n].errs ELSE run[n].outs[Out(x, i)]) \in Seq(Items)
    BY <1>2, <2>1, ConcatProperties
  <2> QED BY <2>1, <2>2 DEF Published
<1> QED BY <1>3, <1>4, <1>5, <1>6, <1>7 DEF Published, Typed

LEMMA BatchTypes ==
  ASSUME NEW x, Sound(x), Typed(x), NEW lp \in Nodes, NEW b, NEW q, Batched(x, lp, b, q)
  PROVE  /\ queue' \in [Nodes -> Seq(Items)] /\ at' \in [Nodes -> Where]
         /\ produced' \in [Nodes -> Outputs] /\ errors' \in [Nodes -> Seq(Items)]
         /\ sent' \in [Lnk(x) -> Seq(Items)]
<1>1. b \in Outputs /\ b \in [Port -> Seq(Items)] /\ q \in Seq(Items)
  BY DEF Batched, Outputs
<1>2. queue' \in [Nodes -> Seq(Items)]
  BY <1>1 DEF Batched, Typed
<1>3. at' \in [Nodes -> Where]
  BY DEF Batched, Typed, Where
<1>4. produced' \in [Nodes -> Outputs] /\ errors' \in [Nodes -> Seq(Items)]
  BY <1>1, EmptyTypes DEF Batched, Typed
<1>5. sent' \in [Lnk(x) -> Seq(Items)]
  <2>1. \A i \in Lnk(x) : sent[i] \in Seq(Items) /\ Out(x, i) \in Port
    BY DEF Typed, Sound
  <2>2. \A i \in Lnk(x) : sent[i] \o (IF Err(x, i) THEN <<>> ELSE b[Out(x, i)]) \in Seq(Items)
    BY <1>1, <2>1, ConcatProperties, EmptyTypes
  <2> QED BY <2>1, <2>2 DEF Batched
<1> QED BY <1>2, <1>3, <1>4, <1>5

LEMMA CarriedTypes ==
  ASSUME NEW x, Sound(x), Typed(x), NEW links
  PROVE  Carried(x, links) \in [Lnk(x) -> Seq(Items)]
<1>1. \A i \in Lnk(x) : got[i] \in Seq(Items) /\ Arr(x, i) \in Seq(Items)
  BY InputTypes DEF Typed
<1>2. \A i \in Lnk(x) : got[i] \o Arr(x, i) \in Seq(Items)
  BY <1>1, ConcatProperties
<1> QED BY <1>1, <1>2 DEF Carried

LEMMA TypedLoopBegun ==
  ASSUME NEW x, Sound(x), Typed(x), NEW lp, NEW r, NEW b, NEW q, LoopBegun(x, lp, r, b, q)
  PROVE  Typed(x)'
<1>1. lp \in Nodes /\ r \in NodeRun /\ Batched(x, lp, b, q)
  BY DEF LoopBegun, Readied, Typed
<1>2. /\ queue' \in [Nodes -> Seq(Items)] /\ at' \in [Nodes -> Where]
      /\ produced' \in [Nodes -> Outputs] /\ errors' \in [Nodes -> Seq(Items)]
      /\ sent' \in [Lnk(x) -> Seq(Items)]
  BY <1>1, BatchTypes
<1>3. got' \in [Lnk(x) -> Seq(Items)]
  BY CarriedTypes DEF LoopBegun
<1>4. /\ run' \in [Nodes -> NodeRun] /\ totals' \in [Nodes -> Outputs]
      /\ returned' \in [Nodes -> Seq(Items)]
  BY <1>1, EmptyTypes DEF LoopBegun, Typed
<1> QED BY <1>2, <1>3, <1>4 DEF LoopBegun, Typed

LEMMA TypedTurn ==
  ASSUME NEW x, Sound(x), Typed(x), NEW lp, NEW back, BatchOver(x, lp, back),
         (run' = run /\ \E b, q : Batched(x, lp, b, q)) \/ \E r : LoopOver(x, lp, r)
  PROVE  Typed(x)'
<1>1. lp \in Nodes
  BY DEF BatchOver, Typed
<1>2. got' \in [Lnk(x) -> Seq(Items)]
  BY CarriedTypes DEF BatchOver
<1>3. returned' \in [Nodes -> Seq(Items)]
  BY DEF BatchOver, Typed
<1>4. totals' \in [Nodes -> Outputs]
  <2>1. \A n \in Nodes : totals[n] \in [Port -> Seq(Items)] /\ produced[n] \in [Port -> Seq(Items)]
    BY DEF Typed, Outputs
  <2>2. \A n \in Nodes : [p \in Port |-> totals[n][p] \o produced[n][p]] \in Outputs
    BY <2>1, ConcatProperties DEF Outputs
  <2> QED BY <2>2 DEF BatchOver, Typed
<1>5. CASE run' = run /\ \E b, q : Batched(x, lp, b, q)
  <2>1. /\ queue' \in [Nodes -> Seq(Items)] /\ at' \in [Nodes -> Where]
        /\ produced' \in [Nodes -> Outputs] /\ errors' \in [Nodes -> Seq(Items)]
        /\ sent' \in [Lnk(x) -> Seq(Items)]
    BY <1>1, <1>5, BatchTypes
  <2> QED BY <1>2, <1>3, <1>4, <1>5, <2>1 DEF BatchOver, Typed
<1>6. CASE \E r : LoopOver(x, lp, r)
  <2>1. PICK r : LoopOver(x, lp, r)
    BY <1>6
  <2>2. at' \in [Nodes -> Where] /\ run' \in [Nodes -> NodeRun]
    BY <2>1 DEF LoopOver, Typed, Where
  <2> QED BY <1>2, <1>3, <1>4, <2>1, <2>2 DEF LoopOver, BatchOver, Typed
<1> QED BY <1>5, <1>6, TurnIs

LEMMA TypedBlank ==
  ASSUME NEW x \in DOMAIN Workflows, W(x) \in WorkflowType, W(x).nodes \subseteq Nodes, Blank(x),
         status \in {"none", "running", "success", "error", "canceled"}, runs \in 0..MaxRuns,
         reusable \in [Nodes -> NodeRun], edited \subseteq W(x).nodes
  PROVE  Typed(x)
<1>1. "idle" \in Where
  BY DEF Where
<1> QED BY <1>1, EmptyTypes DEF Blank, Typed

-----------------------------------------------------------------------------
(* Where the futures are.                                                  *)

\* Of one node: it is active only in a list that is, starts after what feeds
\* it, has a NodeRun and errors only from then on.
NodeInv(x, n) ==
  /\ at[n] # "idle" => n \in W(x).nodes /\ \A m \in Dps(x, n) : at[m] = "done"
  /\ at[n] \notin {"idle", "done"} => Open(x, n)
  /\ at[n] = "loop" => n \in W(x).loops \ W(x).disabled
  /\ at[n] \in {"run", "failing", "failed"} => n \notin W(x).loops
  /\ queue[n] # <<>> => at[n] = "loop" \/ status # "running"
  /\ at[n] \in {"idle", "done"} => run[n] = NoRun
  /\ at[n] = "run" => run[n].input # <<>>
  /\ run[n].reused => n \notin W(x).loops /\ Own(x, n) = None /\ at[n] \in {"ran", "kept"}
  /\ n \in W(x).loops => run[n].outs[1] = <<>> /\ run[n].errs = <<>> /\ errors[n] = <<>>
  /\ at[n] \in {"idle", "run", "loop", "failing"} /\ Open(x, n) => errors[n] = <<>>
  /\ at[n] \in {"ran", "kept"} => errors[n] \in {<<>>, run[n].errs}

AtInv(x) ==
  /\ \A n \in Nodes : NodeInv(x, n)
  /\ \A n \in reused : n \notin W(x).loops /\ Own(x, n) = None /\ at[n] = "done"

\* One node goes from a place to another, neither of them in a loop's batch,
\* and was not done.
Moves(n, a) ==
  /\ n \in Nodes /\ at' = [at EXCEPT ![n] = a]
  /\ at[n] \notin {"loop", "done"} /\ a # "loop"

LEMMA MoveEffects ==
  ASSUME NEW x, Sound(x), Typed(x), NEW n, NEW a, Moves(n, a)
  PROVE  /\ at'[n] = a /\ \A m \in Nodes \ {n} : at'[m] = at[m]
         /\ \A m \in Nodes : Open(x, m)' <=> Open(x, m)
         /\ \A m \in Nodes : at[m] = "done" => at'[m] = "done"
<1>1. n \in Nodes /\ at \in [Nodes -> Where] /\ at' = [at EXCEPT ![n] = a]
      /\ at[n] \notin {"loop", "done"} /\ a # "loop"
  BY DEF Moves, Typed
<1>2. at'[n] = a /\ \A m \in Nodes \ {n} : at'[m] = at[m]
  BY <1>1
<1>3. \A m \in Nodes : Own(x, m) = None \/ Own(x, m) \in Nodes
  BY DEF Sound
<1> QED BY <1>1, <1>2, <1>3 DEF Open

LEMMA DepsAreNodes == ASSUME NEW x, Sound(x), NEW n PROVE Dps(x, n) \subseteq Nodes
BY DEF Sound, Dps, Mem

LEMMA OtherNodes ==
  ASSUME NEW x, Sound(x), Typed(x), NEW n, NEW a, Moves(n, a), NEW m \in Nodes \ {n}, NodeInv(x, m),
         run'[m] = run[m], errors'[m] = errors[m], queue'[m] = queue[m], status' = status
  PROVE  NodeInv(x, m)'
<1>1. at'[m] = at[m] /\ (Open(x, m)' <=> Open(x, m)) /\ \A k \in Nodes : at[k] = "done" => at'[k] = "done"
  BY MoveEffects
<1>2. Dps(x, m) \subseteq Nodes
  BY DepsAreNodes
<1> QED BY <1>1, <1>2 DEF NodeInv

LEMMA AtStarts ==
  ASSUME NEW x, Sound(x), Typed(x), AtInv(x), NEW n, NEW where, NEW r, Starts(x, n, where, r)
  PROVE  AtInv(x)'
<1>1. /\ n \in W(x).nodes /\ n \in Nodes /\ at[n] = "idle" /\ where \in {"ran", "run"} /\ status = "running"
      /\ NodeInv(x, n) /\ Open(x, n) /\ run' = [run EXCEPT ![n] = r] /\ UNCHANGED <<errors, queue, status, reused>>
  BY DEF Starts, Readied, Typed, AtInv
<1>2. Moves(n, where)
  BY <1>1 DEF Moves, Starts
<1>3. run'[n] = r /\ \A m \in Nodes \ {n} : run'[m] = run[m]
  BY <1>1 DEF Typed
<1>4. /\ at'[n] = where /\ (Open(x, n)' <=> Open(x, n)) /\ \A k \in Nodes : at[k] = "done" => at'[k] = "done"
      /\ \A m \in Nodes \ {n} : at'[m] = at[m]
  BY <1>1, <1>2, MoveEffects
<1>5. \A m \in Nodes \ {n} : NodeInv(x, m)'
  <2> TAKE m \in Nodes \ {n}
  <2>1. NodeInv(x, m) /\ run'[m] = run[m] /\ errors'[m] = errors[m] /\ queue'[m] = queue[m]
    BY <1>1, <1>3 DEF AtInv
  <2> QED BY <1>1, <1>2, <2>1, OtherNodes
<1>6. NodeInv(x, n)'
  <2>1. \A m \in Dps(x, n) : at'[m] = "done"
    BY <1>4, DepsAreNodes DEF Starts, Readied
  <2>2. /\ where = "run" => n \notin W(x).loops /\ r.input # <<>> /\ ~r.reused
        /\ n \in W(x).loops => r.outs[1] = <<>>
        /\ r.reused => n \notin W(x).loops /\ Own(x, n) = None
        /\ ~r.reused => r.errs = <<>>
    BY DEF Starts
  <2>3. errors[n] = <<>> /\ queue[n] = <<>>
    BY <1>1 DEF NodeInv
  <2> QED BY <1>1, <1>3, <1>4, <2>1, <2>2, <2>3 DEF NodeInv
<1>7. \A m \in reused' : m \notin W(x).loops /\ Own(x, m) = None /\ at'[m] = "done"
  BY <1>1, <1>4 DEF AtInv, Typed
<1> QED BY <1>5, <1>6, <1>7 DEF AtInv

LEMMA AtExecuted ==
  ASSUME NEW x, Sound(x), Typed(x), AtInv(x), NEW n, NEW r, Executed(x, n, r)
  PROVE  AtInv(x)'
<1>1. /\ n \in W(x).nodes /\ n \in Nodes /\ at[n] = "run" /\ status = "running"
      /\ NodeInv(x, n) /\ run' = [run EXCEPT ![n] = r] /\ UNCHANGED <<queue, status, reused>>
      /\ errors' = IF r.errs = <<>> THEN errors ELSE [errors EXCEPT ![n] = r.errs]
      /\ r.reused = run[n].reused
  BY DEF Executed, Typed, AtInv
<1>2. Moves(n, "ran")
  BY <1>1 DEF Moves, Executed
<1>3. run'[n] = r /\ \A m \in Nodes \ {n} : run'[m] = run[m] /\ errors'[m] = errors[m]
  BY <1>1 DEF Typed
<1>4. /\ at'[n] = "ran" /\ (Open(x, n)' <=> Open(x, n)) /\ \A k \in Nodes : at[k] = "done" => at'[k] = "done"
      /\ \A m \in Nodes \ {n} : at'[m] = at[m]
  BY <1>1, <1>2, MoveEffects
<1>5. \A m \in Nodes \ {n} : NodeInv(x, m)'
  <2> TAKE m \in Nodes \ {n}
  <2>1. NodeInv(x, m) /\ run'[m] = run[m] /\ errors'[m] = errors[m] /\ queue'[m] = queue[m]
    BY <1>1, <1>3 DEF AtInv
  <2> QED BY <1>1, <1>2, <2>1, OtherNodes
<1>6. NodeInv(x, n)'
  <2>1. \A m \in Dps(x, n) : at'[m] = "done"
    BY <1>1, <1>4, DepsAreNodes DEF NodeInv
  <2>2. errors[n] = <<>> /\ queue[n] = <<>> /\ ~run[n].reused /\ n \notin W(x).loops /\ Open(x, n)
    BY <1>1 DEF NodeInv
  <2>3. errors'[n] \in {<<>>, r.errs}
    BY <1>1, <2>2 DEF Typed
  <2> QED BY <1>1, <1>3, <1>4, <2>1, <2>2, <2>3 DEF NodeInv
<1>7. \A m \in reused' : m \notin W(x).loops /\ Own(x, m) = None /\ at'[m] = "done"
  BY <1>1, <1>4 DEF AtInv, Typed
<1> QED BY <1>5, <1>6, <1>7 DEF AtInv

LEMMA AtBroken ==
  ASSUME NEW x, Sound(x), Typed(x), AtInv(x), NEW n, Broken(x, n)
  PROVE  AtInv(x)'
<1> DEFINE r == [run[n] EXCEPT !.status = "error"]
<1>1. /\ n \in W(x).nodes /\ n \in Nodes /\ at[n] = "run" /\ status = "running" /\ run[n] \in NodeRun
      /\ NodeInv(x, n) /\ run' = [run EXCEPT ![n] = r] /\ UNCHANGED <<errors, queue, status, reused>>
  BY DEF Broken, Typed, AtInv
<1>2. Moves(n, "failing")
  BY <1>1 DEF Moves, Broken
<1>3. r.reused = run[n].reused /\ r.outs = run[n].outs /\ r.errs = run[n].errs
  BY <1>1 DEF NodeRun
<1> HIDE DEF r
<1>4. run'[n] = r /\ \A m \in Nodes \ {n} : run'[m] = run[m]
  BY <1>1 DEF Typed
<1>5. /\ at'[n] = "failing" /\ (Open(x, n)' <=> Open(x, n)) /\ \A k \in Nodes : at[k] = "done" => at'[k] = "done"
      /\ \A m \in Nodes \ {n} : at'[m] = at[m]
  BY <1>1, <1>2, MoveEffects
<1>6. \A m \in Nodes \ {n} : NodeInv(x, m)'
  <2> TAKE m \in Nodes \ {n}
  <2>1. NodeInv(x, m) /\ run'[m] = run[m] /\ errors'[m] = errors[m] /\ queue'[m] = queue[m]
    BY <1>1, <1>4 DEF AtInv
  <2> QED BY <1>1, <1>2, <2>1, OtherNodes
<1>7. NodeInv(x, n)'
  <2>1. \A m \in Dps(x, n) : at'[m] = "done"
    BY <1>1, <1>5, DepsAreNodes DEF NodeInv
  <2>2. errors[n] = <<>> /\ queue[n] = <<>> /\ ~run[n].reused /\ n \notin W(x).loops /\ Open(x, n)
    BY <1>1 DEF NodeInv
  <2> QED BY <1>1, <1>3, <1>4, <1>5, <2>1, <2>2 DEF NodeInv
<1>8. \A m \in reused' : m \notin W(x).loops /\ Own(x, m) = None /\ at'[m] = "done"
  BY <1>1, <1>5 DEF AtInv, Typed
<1> QED BY <1>6, <1>7, <1>8 DEF AtInv

LEMMA AtPersisted ==
  ASSUME NEW x, Sound(x), Typed(x), AtInv(x), NEW n, Persisted(x, n)
  PROVE  AtInv(x)'
<1> DEFINE a == IF at[n] = "ran" THEN "kept" ELSE "failed"
<1>1. /\ n \in W(x).nodes /\ n \in Nodes /\ at[n] \in {"ran", "failing"} /\ status = "running"
      /\ NodeInv(x, n) /\ UNCHANGED <<run, errors, queue, status, reused>>
  BY DEF Persisted, Typed, AtInv
<1>2. Moves(n, a)
  BY <1>1 DEF Moves, Persisted
<1>3. (at[n] = "ran" /\ a = "kept") \/ (at[n] = "failing" /\ a = "failed")
  BY <1>1
<1> HIDE DEF a
<1>5. /\ at'[n] = a /\ (Open(x, n)' <=> Open(x, n)) /\ \A k \in Nodes : at[k] = "done" => at'[k] = "done"
      /\ \A m \in Nodes \ {n} : at'[m] = at[m]
  BY <1>1, <1>2, MoveEffects
<1>6. \A m \in Nodes \ {n} : NodeInv(x, m)'
  <2> TAKE m \in Nodes \ {n}
  <2>1. NodeInv(x, m) /\ run'[m] = run[m] /\ errors'[m] = errors[m] /\ queue'[m] = queue[m]
    BY <1>1 DEF AtInv
  <2> QED BY <1>1, <1>2, <2>1, OtherNodes
<1>7. NodeInv(x, n)'
  <2>1. \A m \in Dps(x, n) : at'[m] = "done"
    BY <1>1, <1>5, DepsAreNodes DEF NodeInv
  <2> QED BY <1>1, <1>3, <1>5, <2>1 DEF NodeInv
<1>8. \A m \in reused' : m \notin W(x).loops /\ Own(x, m) = None /\ at'[m] = "done"
  BY <1>1, <1>5 DEF AtInv, Typed
<1> QED BY <1>6, <1>7, <1>8 DEF AtInv

LEMMA AtPublished ==
  ASSUME NEW x, Sound(x), Typed(x), AtInv(x), NEW n, Published(x, n)
  PROVE  AtInv(x)'
<1>1. /\ n \in W(x).nodes /\ n \in Nodes /\ at[n] = "kept" /\ status = "running" /\ NodeInv(x, n)
      /\ run' = [run EXCEPT ![n] = NoRun] /\ UNCHANGED <<queue, status>>
      /\ errors' = IF run[n].errs = <<>> THEN errors ELSE [errors EXCEPT ![n] = run[n].errs]
      /\ reused' = IF run[n].reused THEN reused \cup {n} ELSE reused
  BY DEF Published, Typed, AtInv
<1>2. Moves(n, "done")
  BY <1>1 DEF Moves, Published
<1>3. run'[n] = NoRun /\ \A m \in Nodes \ {n} : run'[m] = run[m] /\ errors'[m] = errors[m]
  BY <1>1 DEF Typed
<1>4. /\ at'[n] = "done" /\ (Open(x, n)' <=> Open(x, n)) /\ \A k \in Nodes : at[k] = "done" => at'[k] = "done"
      /\ \A m \in Nodes \ {n} : at'[m] = at[m]
  BY <1>1, <1>2, MoveEffects
<1>5. \A m \in Nodes \ {n} : NodeInv(x, m)'
  <2> TAKE m \in Nodes \ {n}
  <2>1. NodeInv(x, m) /\ run'[m] = run[m] /\ errors'[m] = errors[m] /\ queue'[m] = queue[m]
    BY <1>1, <1>3 DEF AtInv
  <2> QED BY <1>1, <1>2, <2>1, OtherNodes
<1>6. NodeInv(x, n)'
  <2>1. \A m \in Dps(x, n) : at'[m] = "done"
    BY <1>1, <1>4, DepsAreNodes DEF NodeInv
  <2>2. queue[n] = <<>> /\ (n \in W(x).loops => errors'[n] = <<>>)
    BY <1>1 DEF NodeInv
  <2>3. ~NoRun.reused /\ NoRun.errs = <<>> /\ NoRun.outs[1] = <<>>
    BY EmptyTypes
  <2> QED BY <1>1, <1>3, <1>4, <2>1, <2>2, <2>3 DEF NodeInv
<1>7. \A m \in reused' : m \notin W(x).loops /\ Own(x, m) = None /\ at'[m] = "done"
  <2>1. run[n].reused => n \notin W(x).loops /\ Own(x, n) = None
    BY <1>1 DEF NodeInv
  <2> QED BY <1>1, <1>4, <2>1 DEF AtInv, Typed
<1> QED BY <1>5, <1>6, <1>7 DEF AtInv

\* A batch starts: what that does to where the futures are.
Rebatch(x, lp, b, q) ==
  /\ lp \in W(x).nodes /\ lp \in W(x).loops \ W(x).disabled /\ status = "running"
  /\ at[lp] \in {"idle", "loop"} /\ Open(x, lp) /\ \A m \in Dps(x, lp) : at[m] = "done"
  /\ \A n \in Nodes : Own(x, n) = lp => at[n] \in {"idle", "done"} /\ run[n] = NoRun
  /\ Batched(x, lp, b, q)
  /\ \A n \in Nodes \ {lp} : run'[n] = run[n]
  /\ ~run'[lp].reused /\ run'[lp].outs[1] = <<>> /\ run'[lp].errs = <<>>
  /\ UNCHANGED <<name, status, reusable, edited, runs, reused, record, flawed>>

LEMMA BatchEffects ==
  ASSUME NEW x, Sound(x), Typed(x), NEW lp, NEW b, NEW q, Rebatch(x, lp, b, q)
  PROVE  /\ lp \in Nodes /\ Own(x, lp) # lp /\ at'[lp] = "loop"
         /\ \A n \in Nodes : Own(x, n) = lp => at'[n] = "idle" /\ n # lp
         /\ \A n \in Nodes : n # lp /\ Own(x, n) # lp => at'[n] = at[n]
         /\ \A n \in Nodes : at'[n] = "loop" <=> at[n] = "loop" \/ n = lp
         /\ \A n \in Nodes : Open(x, n)' <=> Open(x, n) \/ Own(x, n) = lp
<1>1. lp \in Nodes /\ \A n \in Nodes : Own(x, n) # n /\ (Own(x, n) = None \/ Own(x, n) \in Nodes)
  BY DEF Sound, Rebatch
<1>2. at' = [n \in Nodes |-> IF n = lp THEN "loop" ELSE IF Own(x, n) = lp THEN "idle" ELSE at[n]]
  BY DEF Rebatch, Batched
<1>3. \A n \in Nodes : Own(x, n) = lp => at[n] # "loop"
  BY DEF Rebatch
<1>4. \A n \in Nodes : at'[n] = "loop" <=> at[n] = "loop" \/ n = lp
  BY <1>1, <1>2, <1>3
<1>5. \A n \in Nodes : Open(x, n)' <=> Open(x, n) \/ Own(x, n) = lp
  BY <1>1, <1>4 DEF Open
<1> QED BY <1>1, <1>2, <1>4, <1>5

LEMMA AtBatch ==
  ASSUME NEW x, Sound(x), Typed(x), AtInv(x), NEW lp, NEW b, NEW q, Rebatch(x, lp, b, q)
  PROVE  AtInv(x)'
<1>1. /\ lp \in Nodes /\ Own(x, lp) # lp /\ at'[lp] = "loop"
      /\ \A n \in Nodes : Own(x, n) = lp => at'[n] = "idle" /\ n # lp
      /\ \A n \in Nodes : n # lp /\ Own(x, n) # lp => at'[n] = at[n]
      /\ \A n \in Nodes : at'[n] = "loop" <=> at[n] = "loop" \/ n = lp
      /\ \A n \in Nodes : Open(x, n)' <=> Open(x, n) \/ Own(x, n) = lp
  BY BatchEffects
<1>2. /\ status' = "running" /\ lp \in W(x).nodes /\ lp \in W(x).loops \ W(x).disabled
      /\ ~run'[lp].reused /\ run'[lp].outs[1] = <<>> /\ run'[lp].errs = <<>>
      /\ \A n \in Nodes \ {lp} : run'[n] = run[n]
      /\ \A n \in Nodes : Own(x, n) = lp => run[n] = NoRun
      /\ Open(x, lp) /\ \A m \in Dps(x, lp) : at[m] = "done"
      /\ at[lp] \in {"idle", "loop"} /\ reused' = reused /\ status = "running"
  BY DEF Rebatch
<1>3. \A n \in Nodes : errors'[n] = IF Own(x, n) = lp THEN <<>> ELSE errors[n]
  BY DEF Rebatch, Batched
<1>4. \A n \in Nodes \ {lp} : queue'[n] = queue[n]
  BY DEF Rebatch, Batched, Typed
<1>5. ~NoRun.reused /\ NoRun.errs = <<>> /\ NoRun.outs[1] = <<>>
  BY EmptyTypes
<1>6. \A n \in Nodes : \A m \in Dps(x, n) : m \in Nodes /\ m # n /\ Own(x, m) = Own(x, n)
  BY DEF Dps, Mem, Sound
<1>7. \A n \in Nodes : NodeInv(x, n)
  BY DEF AtInv
<1>8. NodeInv(x, lp)'
  <2>1. \A m \in Dps(x, lp) : at'[m] = "done"
    BY <1>1, <1>2, <1>6
  <2>2. errors'[lp] = <<>>
    BY <1>1, <1>2, <1>3, <1>7 DEF NodeInv
  <2> QED BY <1>1, <1>2, <2>1, <2>2 DEF NodeInv
<1>9. ASSUME NEW n \in Nodes, Own(x, n) = lp PROVE NodeInv(x, n)'
  <2>1. at'[n] = "idle" /\ n # lp /\ run'[n] = NoRun /\ errors'[n] = <<>>
    BY <1>1, <1>2, <1>3, <1>9
  <2>2. queue'[n] = <<>>
    <3>1. queue[n] = <<>>
      <4>1. at[n] # "loop"
        BY <1>9 DEF Rebatch
      <4> QED BY <1>2, <1>7, <4>1 DEF NodeInv
    <3> QED BY <1>4, <2>1, <3>1
  <2> QED BY <1>5, <2>1, <2>2 DEF NodeInv
<1>10. ASSUME NEW n \in Nodes, n # lp, Own(x, n) # lp PROVE NodeInv(x, n)'
  <2>1. /\ at'[n] = at[n] /\ run'[n] = run[n] /\ errors'[n] = errors[n] /\ queue'[n] = queue[n]
        /\ (Open(x, n)' <=> Open(x, n)) /\ NodeInv(x, n)
    BY <1>1, <1>2, <1>3, <1>4, <1>7, <1>10
  <2>2. (\A m \in Dps(x, n) : at[m] = "done") => \A m \in Dps(x, n) : at'[m] = "done"
    BY <1>1, <1>2, <1>6, <1>10
  <2> QED BY <1>2, <2>1, <2>2 DEF NodeInv
<1>11. \A n \in reused' : n \notin W(x).loops /\ Own(x, n) = None /\ at'[n] = "done"
  <2> TAKE n \in reused'
  <2>1. n \in Nodes /\ n \notin W(x).loops /\ Own(x, n) = None /\ at[n] = "done" /\ None # lp
    BY <1>1, <1>2 DEF AtInv, Typed, Sound
  <2> QED BY <1>1, <1>2, <2>1
<1> QED BY <1>8, <1>9, <1>10, <1>11 DEF AtInv

LEMMA LoopBegunRebatch ==
  ASSUME NEW x, Sound(x), Typed(x), AtInv(x), NEW lp, NEW r, NEW b, NEW q, LoopBegun(x, lp, r, b, q)
  PROVE  Rebatch(x, lp, b, q)
<1>1. lp \in W(x).nodes /\ lp \in Nodes /\ at[lp] = "idle" /\ run' = [run EXCEPT ![lp] = r]
  BY DEF LoopBegun, Readied, Typed
<1>2. run'[lp] = r /\ \A n \in Nodes \ {lp} : run'[n] = run[n]
  BY <1>1 DEF Typed
<1>3. \A n \in Nodes : Own(x, n) = lp => at[n] \in {"idle", "done"} /\ run[n] = NoRun
  <2> SUFFICES ASSUME NEW n \in Nodes, Own(x, n) = lp PROVE at[n] \in {"idle", "done"} /\ run[n] = NoRun
    OBVIOUS
  <2>1. ~Open(x, n)
    BY <1>1 DEF Open, Sound
  <2> QED BY <2>1 DEF AtInv, NodeInv
<1> QED BY <1>1, <1>2, <1>3, EmptyTypes DEF LoopBegun, Readied, Rebatch

LEMMA TurnRebatch ==
  ASSUME NEW x, Sound(x), Typed(x), AtInv(x), NEW lp, NEW back, BatchOver(x, lp, back),
         run' = run, NEW b, NEW q, Batched(x, lp, b, q)
  PROVE  Rebatch(x, lp, b, q)
<1>1. lp \in W(x).nodes /\ lp \in Nodes /\ at[lp] = "loop" /\ NodeInv(x, lp)
  BY DEF BatchOver, Typed, AtInv
<1>2. \A n \in Nodes : Own(x, n) = lp => at[n] \in {"idle", "done"} /\ run[n] = NoRun
  <2> SUFFICES ASSUME NEW n \in Nodes, Own(x, n) = lp PROVE at[n] \in {"idle", "done"} /\ run[n] = NoRun
    OBVIOUS
  <2>1. NodeInv(x, n)
    BY DEF AtInv
  <2>2. n \in W(x).nodes => at[n] = "done"
    BY DEF BatchOver, Mem
  <2> QED BY <2>1, <2>2 DEF NodeInv
<1>3. /\ lp \in W(x).loops \ W(x).disabled /\ Open(x, lp) /\ \A m \in Dps(x, lp) : at[m] = "done"
      /\ run[lp].outs[1] = <<>> /\ run[lp].errs = <<>> /\ ~run[lp].reused
  BY <1>1 DEF NodeInv
<1> QED BY <1>1, <1>2, <1>3 DEF BatchOver, Rebatch

LEMMA AtLoopOver ==
  ASSUME NEW x, Sound(x), Typed(x), AtInv(x), NEW lp, NEW back, BatchOver(x, lp, back),
         NEW r, LoopOver(x, lp, r)
  PROVE  AtInv(x)'
<1>1. /\ lp \in W(x).nodes /\ lp \in Nodes /\ at[lp] = "loop" /\ NodeInv(x, lp) /\ status = "running"
      /\ run' = [run EXCEPT ![lp] = r] /\ at' = [at EXCEPT ![lp] = "ran"] /\ queue[lp] = <<>>
      /\ r.outs[1] = run[lp].outs[1] /\ r.errs = run[lp].errs /\ r.reused = run[lp].reused
      /\ UNCHANGED <<errors, queue, status, reused>>
  BY DEF BatchOver, LoopOver, Typed, AtInv
<1>2. /\ at'[lp] = "ran" /\ run'[lp] = r
      /\ \A n \in Nodes \ {lp} : at'[n] = at[n] /\ run'[n] = run[n]
  BY <1>1 DEF Typed
<1>3. \A n \in Nodes : Own(x, n) # n /\ (Own(x, n) = None \/ Own(x, n) \in Nodes)
  BY DEF Sound
<1>4. \A n \in Nodes : Own(x, n) # lp => (Open(x, n)' <=> Open(x, n))
  BY <1>2, <1>3 DEF Open
<1>5. \A n \in Nodes : Own(x, n) = lp => ~Open(x, n)'
  BY <1>1, <1>2 DEF Open, Sound
<1>6. \A n \in Nodes : at[n] = "done" => at'[n] = "done"
  BY <1>1, <1>2
<1>7. NodeInv(x, lp)'
  <2>1. \A m \in Dps(x, lp) : at'[m] = "done"
    BY <1>1, <1>6, DepsAreNodes DEF NodeInv
  <2>2. /\ lp \in W(x).loops /\ Open(x, lp) /\ run[lp].outs[1] = <<>> /\ run[lp].errs = <<>>
        /\ errors[lp] = <<>> /\ ~run[lp].reused
    BY <1>1 DEF NodeInv
  <2>3. Open(x, lp)'
    BY <1>1, <1>3, <1>4, <2>2
  <2> QED BY <1>1, <1>2, <2>1, <2>2, <2>3 DEF NodeInv
<1>8. ASSUME NEW n \in Nodes \ {lp} PROVE NodeInv(x, n)'
  <2>1. NodeInv(x, n) /\ at'[n] = at[n] /\ run'[n] = run[n]
    BY <1>2 DEF AtInv
  <2>2. (\A m \in Dps(x, n) : at[m] = "done") => \A m \in Dps(x, n) : at'[m] = "done"
    BY <1>6, DepsAreNodes
  <2>3. CASE Own(x, n) # lp
    BY <1>1, <1>4, <2>1, <2>2, <2>3 DEF NodeInv
  <2>4. CASE Own(x, n) = lp
    <3>1. at[n] \in {"idle", "done"}
      BY <2>1, <2>4 DEF BatchOver, Mem, NodeInv
    <3> QED BY <1>1, <1>5, <2>1, <2>2, <2>4, <3>1 DEF NodeInv
  <2> QED BY <2>3, <2>4
<1>9. \A n \in reused' : n \notin W(x).loops /\ Own(x, n) = None /\ at'[n] = "done"
  BY <1>1, <1>6 DEF AtInv, Typed
<1> QED BY <1>7, <1>8, <1>9 DEF AtInv

LEMMA AtBlank ==
  ASSUME NEW x, Blank(x)
  PROVE  AtInv(x)
<1>1. ASSUME NEW n \in Nodes PROVE NodeInv(x, n)
  <2>1. at[n] = "idle" /\ run[n] = NoRun /\ errors[n] = <<>> /\ queue[n] = <<>>
    BY DEF Blank
  <2> QED BY <2>1, EmptyTypes DEF NodeInv
<1> QED BY <1>1 DEF AtInv, Blank

-----------------------------------------------------------------------------
(* What the records say of the nodes outside of loops.                     *)

Plain(x, n) == n \in W(x).nodes /\ n \notin W(x).loops /\ Own(x, n) = None
Fed(x, n) == \A i \in Ins(x, n) : Plain(x, Src(x, i))

\* The input of n, were it made of the records rec.
From(x, rec, n) ==
  FlattenSeq([i \in Lnk(x) |->
    IF i \in Ins(x, n) THEN IF Err(x, i) THEN rec[Src(x, i)].errs ELSE rec[Src(x, i)].outs[Out(x, i)]
    ELSE <<>>])

\* The records of successful nodes fit together.
Fits(x, rec) ==
  \A n \in Nodes : /\ Plain(x, n) /\ Fed(x, n) /\ rec[n].status = "success"
                   /\ \A i \in Ins(x, n) : rec[Src(x, i)].status = "success"
                   => rec[n].input = From(x, rec, n)

ReuseNode(x, n) ==
  /\ reusable[n].status = "success" => edited \cap Layout[x].upstream[n] = {}
  /\ Own(x, n) = None /\ at[n] \in {"idle", "run", "loop", "ran", "failing"} => record[n] = NoRun
  /\ Plain(x, n) /\ at[n] = "kept" => record[n] = run[n]
  /\ Plain(x, n) /\ at[n] = "done" => produced[n] = record[n].outs /\ errors[n] = record[n].errs
  /\ Plain(x, n) /\ Fed(x, n) /\ at[n] \notin {"idle", "done"} => run[n].input = From(x, record, n)
  /\ run[n].reused => Reusable(x, n) /\ run[n] = [reusable[n] EXCEPT !.reused = TRUE]
  /\ n \in reused => Reusable(x, n) /\ record[n] = [reusable[n] EXCEPT !.reused = TRUE]

ReuseInv(x) ==
  /\ Fits(x, record) /\ Fits(x, reusable)
  /\ \A n \in Nodes : ReuseNode(x, n)

LEMMA FromSame ==
  ASSUME NEW x, NEW rec, NEW new, NEW n,
         \A i \in Ins(x, n) : /\ rec[Src(x, i)].errs = new[Src(x, i)].errs
                              /\ rec[Src(x, i)].outs = new[Src(x, i)].outs
  PROVE  From(x, rec, n) = From(x, new, n)
<1>1. [i \in Lnk(x) |->
        IF i \in Ins(x, n) THEN IF Err(x, i) THEN rec[Src(x, i)].errs ELSE rec[Src(x, i)].outs[Out(x, i)]
        ELSE <<>>]
      = [i \in Lnk(x) |->
        IF i \in Ins(x, n) THEN IF Err(x, i) THEN new[Src(x, i)].errs ELSE new[Src(x, i)].outs[Out(x, i)]
        ELSE <<>>]
  OBVIOUS
<1> QED BY <1>1 DEF From

LEMMA InputFrom ==
  ASSUME NEW x, NEW rec, NEW n,
         \A i \in Ins(x, n) : /\ errors[Src(x, i)] = rec[Src(x, i)].errs
                              /\ produced[Src(x, i)] = rec[Src(x, i)].outs
  PROVE  Inp(x, n) = From(x, rec, n)
<1>1. [i \in Lnk(x) |-> IF i \in Ins(x, n) THEN Arr(x, i) ELSE <<>>]
      = [i \in Lnk(x) |->
        IF i \in Ins(x, n) THEN IF Err(x, i) THEN rec[Src(x, i)].errs ELSE rec[Src(x, i)].outs[Out(x, i)]
        ELSE <<>>]
  BY DEF Arr
<1> QED BY <1>1 DEF From, Inp

\* What feeds a plain node runs in the same list.
LEMMA PlainFeeds ==
  ASSUME NEW x, Sound(x), NEW n \in Nodes, Plain(x, n), NEW i \in Ins(x, n), Plain(x, Src(x, i))
  PROVE  Src(x, i) \in Nodes /\ Src(x, i) # n /\ Src(x, i) \in Dps(x, n)
<1>1. i \in Lnk(x) \ Bck(x) /\ Dst(x, i) = n
  BY DEF Ins
<1>2. Src(x, i) # n /\ Src(x, i) \in Nodes /\ Src(x, i) \in W(x).nodes
  BY <1>1 DEF Sound
<1> QED BY <1>2 DEF Plain, Dps, Mem

\* When everything that feeds a node was reused, its record would be of the
\* very input that it would receive.
LEMMA ReusedInput ==
  ASSUME NEW x, Sound(x), Typed(x), AtInv(x), ReuseInv(x), NEW n \in Nodes, Plain(x, n), Reusable(x, n)
  PROVE  reusable[n].input = Inp(x, n) /\ Inp(x, n) = From(x, record, n)
<1>1. ASSUME NEW i \in Ins(x, n)
      PROVE  /\ Plain(x, Src(x, i)) /\ reusable[Src(x, i)].status = "success"
             /\ record[Src(x, i)].outs = reusable[Src(x, i)].outs
             /\ record[Src(x, i)].errs = reusable[Src(x, i)].errs
             /\ produced[Src(x, i)] = record[Src(x, i)].outs
             /\ errors[Src(x, i)] = record[Src(x, i)].errs
  <2> DEFINE m == Src(x, i)
  <2>1. m \in reused /\ m \in W(x).nodes /\ m \in Nodes
    BY <1>1 DEF Reusable, Typed
  <2>2. m \notin W(x).loops /\ Own(x, m) = None /\ at[m] = "done"
    BY <2>1 DEF AtInv
  <2>3. Plain(x, m)
    BY <2>1, <2>2 DEF Plain
  <2>4. ReuseNode(x, m) /\ reusable[m] \in NodeRun
    BY <2>1 DEF ReuseInv, Typed
  <2> HIDE DEF m
  <2>5. Reusable(x, m) /\ record[m] = [reusable[m] EXCEPT !.reused = TRUE]
    BY <2>1, <2>4 DEF ReuseNode
  <2>6. record[m].outs = reusable[m].outs /\ record[m].errs = reusable[m].errs
    BY <2>4, <2>5 DEF NodeRun
  <2>7. produced[m] = record[m].outs /\ errors[m] = record[m].errs
    BY <2>2, <2>3, <2>4 DEF ReuseNode
  <2>8. reusable[m].status = "success"
    BY <2>5 DEF Reusable
  <2> QED BY <2>3, <2>6, <2>7, <2>8 DEF m
<1>2. Inp(x, n) = From(x, record, n)
  BY <1>1, InputFrom
<1>3. From(x, record, n) = From(x, reusable, n)
  BY <1>1, FromSame
<1>4. reusable[n].input = From(x, reusable, n)
  <2>1. Fed(x, n) /\ reusable[n].status = "success" /\ Fits(x, reusable)
    BY <1>1 DEF Fed, Reusable, ReuseInv
  <2> QED BY <1>1, <2>1 DEF Fits
<1> QED BY <1>2, <1>3, <1>4

LEMMA StartsFits ==
  ASSUME NEW x, Sound(x), Typed(x), AtInv(x), ReuseInv(x), NEW n, NEW where, NEW r, Starts(x, n, where, r)
  PROVE  ReuseInv(x)'
<1>1. /\ n \in W(x).nodes /\ n \in Nodes /\ at[n] = "idle" /\ where \in {"ran", "run"}
      /\ run' = [run EXCEPT ![n] = r] /\ at' = [at EXCEPT ![n] = where] /\ r \in NodeRun
      /\ \A m \in Dps(x, n) : at[m] = "done"
      /\ UNCHANGED <<reusable, edited, produced, errors, reused, record>>
      /\ r.reused => Reusable(x, n) /\ r = [reusable[n] EXCEPT !.reused = TRUE]
      /\ ~r.reused => r.input = Inp(x, n)
  BY DEF Starts, Readied, Typed
<1>2. /\ run'[n] = r /\ at'[n] = where
      /\ \A m \in Nodes \ {n} : run'[m] = run[m] /\ at'[m] = at[m]
  BY <1>1 DEF Typed
<1>3. Fits(x, record)' /\ Fits(x, reusable)'
  BY <1>1 DEF ReuseInv, Fits, From
<1>4. ASSUME NEW m \in Nodes \ {n} PROVE ReuseNode(x, m)'
  <2>1. ReuseNode(x, m)
    BY DEF ReuseInv
  <2> QED BY <1>1, <1>2, <2>1 DEF ReuseNode, Reusable, From
<1>5. ReuseNode(x, n)'
  <2>1. ReuseNode(x, n)
    BY <1>1 DEF ReuseInv
  <2>2. n \notin reused'
    BY <1>1 DEF AtInv
  <2>3. Plain(x, n) /\ Fed(x, n) => r.input = From(x, record, n)
    <3> HAVE Plain(x, n) /\ Fed(x, n)
    <3>1. CASE r.reused
      <4>1. reusable[n] \in NodeRun
        BY <1>1 DEF Typed
      <4>2. r.input = reusable[n].input
        BY <1>1, <3>1, <4>1 DEF NodeRun
      <4> QED BY <1>1, <3>1, <4>2, ReusedInput
    <3>2. CASE ~r.reused
      <4>1. ASSUME NEW i \in Ins(x, n)
            PROVE  /\ errors[Src(x, i)] = record[Src(x, i)].errs
                   /\ produced[Src(x, i)] = record[Src(x, i)].outs
        <5>1. Plain(x, Src(x, i)) /\ Src(x, i) \in Nodes /\ at[Src(x, i)] = "done"
          BY <1>1, PlainFeeds DEF Fed
        <5> QED BY <5>1 DEF ReuseInv, ReuseNode
      <4> QED BY <1>1, <3>2, <4>1, InputFrom
    <3> QED BY <3>1, <3>2
  <2>4. /\ run'[n].reused => Reusable(x, n)' /\ run'[n] = [reusable'[n] EXCEPT !.reused = TRUE]
        /\ Own(x, n) = None => record'[n] = NoRun
        /\ reusable'[n].status = "success" => edited' \cap Layout[x].upstream[n] = {}
    BY <1>1, <1>2, <2>1 DEF ReuseNode, Reusable
  <2> QED BY <1>1, <1>2, <2>2, <2>3, <2>4 DEF ReuseNode, From
<1> QED BY <1>3, <1>4, <1>5 DEF ReuseInv

LEMMA ExecutedFits ==
  ASSUME NEW x, Sound(x), Typed(x), AtInv(x), ReuseInv(x), NEW n, NEW r, Executed(x, n, r)
  PROVE  ReuseInv(x)'
<1>1. /\ n \in W(x).nodes /\ n \in Nodes /\ at[n] = "run" /\ NodeInv(x, n)
      /\ run' = [run EXCEPT ![n] = r] /\ at' = [at EXCEPT ![n] = "ran"]
      /\ r.input = run[n].input /\ r.reused = run[n].reused
      /\ errors' = IF r.errs = <<>> THEN errors ELSE [errors EXCEPT ![n] = r.errs]
      /\ UNCHANGED <<reusable, edited, produced, reused, record>>
  BY DEF Executed, Typed, AtInv
<1>2. /\ run'[n] = r /\ at'[n] = "ran"
      /\ \A m \in Nodes \ {n} : run'[m] = run[m] /\ at'[m] = at[m] /\ errors'[m] = errors[m]
  BY <1>1 DEF Typed
<1>3. Fits(x, record)' /\ Fits(x, reusable)'
  BY <1>1 DEF ReuseInv, Fits, From
<1>4. ASSUME NEW m \in Nodes \ {n} PROVE ReuseNode(x, m)'
  <2>1. ReuseNode(x, m)
    BY DEF ReuseInv
  <2> QED BY <1>1, <1>2, <2>1 DEF ReuseNode, Reusable, From
<1>5. ReuseNode(x, n)'
  <2>1. ReuseNode(x, n)
    BY <1>1 DEF ReuseInv
  <2>2. ~r.reused /\ n \notin reused'
    BY <1>1 DEF NodeInv, AtInv
  <2> QED BY <1>1, <1>2, <2>1, <2>2 DEF ReuseNode, From
<1> QED BY <1>3, <1>4, <1>5 DEF ReuseInv

LEMMA BrokenFits ==
  ASSUME NEW x, Sound(x), Typed(x), AtInv(x), ReuseInv(x), NEW n, Broken(x, n)
  PROVE  ReuseInv(x)'
<1> DEFINE r == [run[n] EXCEPT !.status = "error"]
<1>1. /\ n \in W(x).nodes /\ n \in Nodes /\ at[n] = "run" /\ NodeInv(x, n)
      /\ run' = [run EXCEPT ![n] = r] /\ at' = [at EXCEPT ![n] = "failing"]
      /\ UNCHANGED <<reusable, edited, produced, errors, reused, record>>
  BY DEF Broken, Typed, AtInv
<1>2. r.input = run[n].input /\ r.reused = run[n].reused
  <2>1. run[n] \in NodeRun
    BY <1>1 DEF Typed
  <2> QED BY <2>1 DEF NodeRun
<1> HIDE DEF r
<1>3. /\ run'[n] = r /\ at'[n] = "failing"
      /\ \A m \in Nodes \ {n} : run'[m] = run[m] /\ at'[m] = at[m]
  BY <1>1 DEF Typed
<1>4. Fits(x, record)' /\ Fits(x, reusable)'
  BY <1>1 DEF ReuseInv, Fits, From
<1>5. ASSUME NEW m \in Nodes \ {n} PROVE ReuseNode(x, m)'
  <2>1. ReuseNode(x, m)
    BY DEF ReuseInv
  <2> QED BY <1>1, <1>3, <2>1 DEF ReuseNode, Reusable, From
<1>6. ReuseNode(x, n)'
  <2>1. ReuseNode(x, n)
    BY <1>1 DEF ReuseInv
  <2>2. ~r.reused /\ n \notin reused'
    BY <1>1, <1>2 DEF NodeInv, AtInv
  <2> QED BY <1>1, <1>2, <1>3, <2>1, <2>2 DEF ReuseNode, From
<1> QED BY <1>4, <1>5, <1>6 DEF ReuseInv

LEMMA PersistedFits ==
  ASSUME NEW x, Sound(x), Typed(x), AtInv(x), ReuseInv(x), NEW n, Persisted(x, n)
  PROVE  ReuseInv(x)'
<1> DEFINE a == IF at[n] = "ran" THEN "kept" ELSE "failed"
<1>1. /\ n \in W(x).nodes /\ n \in Nodes /\ at[n] \in {"ran", "failing"} /\ NodeInv(x, n)
      /\ at' = [at EXCEPT ![n] = a]
      /\ record' = [record EXCEPT ![n] = Merged(record[n], run[n])]
      /\ UNCHANGED <<reusable, edited, run, produced, errors, reused>>
  BY DEF Persisted, Typed, AtInv
<1>2. (at[n] = "ran" /\ a = "kept") \/ (at[n] = "failing" /\ a = "failed")
  BY <1>1
<1> HIDE DEF a
<1>3. /\ at'[n] = a /\ record'[n] = Merged(record[n], run[n])
      /\ \A m \in Nodes \ {n} : at'[m] = at[m] /\ record'[m] = record[m]
  BY <1>1 DEF Typed
<1>4. Own(x, n) = None => record'[n] = run[n]
  <2> HAVE Own(x, n) = None
  <2>1. record[n] = NoRun /\ record[n] \in NodeRun /\ run[n] \in NodeRun
    BY <1>1 DEF ReuseInv, ReuseNode, Typed
  <2> QED BY <1>3, <2>1, MergedIs, EmptyTypes
\* What feeds a plain node has its record before the node starts.
<1>5. ASSUME NEW m \in Nodes, Plain(x, m), Fed(x, m), at[m] # "idle"
      PROVE  From(x, record, m) = From(x, record', m)
  <2>1. ASSUME NEW i \in Ins(x, m)
        PROVE  record[Src(x, i)].errs = record'[Src(x, i)].errs /\ record[Src(x, i)].outs = record'[Src(x, i)].outs
    <3>1. Plain(x, Src(x, i)) /\ Src(x, i) \in Nodes /\ Src(x, i) \in Dps(x, m)
      BY <1>5, PlainFeeds DEF Fed
    <3>2. at[Src(x, i)] = "done"
      BY <1>5, <3>1 DEF AtInv, NodeInv
    <3> QED BY <1>1, <1>3, <3>1, <3>2
  <2> QED BY <2>1, FromSame
<1>6. Fits(x, record')
  <2> SUFFICES ASSUME NEW m \in Nodes, Plain(x, m), Fed(x, m), record'[m].status = "success",
                      \A i \in Ins(x, m) : record'[Src(x, i)].status = "success"
               PROVE  record'[m].input = From(x, record', m)
    BY DEF Fits
  <2>1. CASE m = n
    <3>1. record'[m] = run[m]
      BY <1>4, <2>1 DEF Plain
    <3>2. run[m].input = From(x, record, m)
      BY <1>1, <2>1 DEF ReuseInv, ReuseNode
    <3> QED BY <1>1, <1>5, <2>1, <3>1, <3>2
  <2>2. CASE m # n
    <3>1. record'[m] = record[m]
      BY <1>3, <2>2
    <3>2. at[m] # "idle"
      <4>1. record[m] # NoRun
        BY <3>1, EmptyTypes
      <4> QED BY <4>1 DEF ReuseInv, ReuseNode, Plain
    <3>3. \A i \in Ins(x, m) : record[Src(x, i)].status = "success"
      <4> TAKE i \in Ins(x, m)
      <4>1. Plain(x, Src(x, i)) /\ Src(x, i) \in Nodes /\ Src(x, i) \in Dps(x, m)
        BY PlainFeeds DEF Fed
      <4>2. at[Src(x, i)] = "done"
        BY <3>2, <4>1 DEF AtInv, NodeInv
      <4>3. record'[Src(x, i)] = record[Src(x, i)]
        BY <1>1, <1>3, <4>1, <4>2
      <4> QED BY <4>3
    <3>4. record[m].input = From(x, record, m)
      BY <3>1, <3>3 DEF ReuseInv, Fits
    <3> QED BY <1>5, <3>1, <3>2, <3>4
  <2> QED BY <2>1, <2>2
<1>7. Fits(x, reusable)'
  BY <1>1 DEF ReuseInv, Fits, From
<1>8. ASSUME NEW m \in Nodes \ {n} PROVE ReuseNode(x, m)'
  <2>1. ReuseNode(x, m)
    BY DEF ReuseInv
  <2>2. Plain(x, m) /\ Fed(x, m) /\ at'[m] \notin {"idle", "done"} => run'[m].input = From(x, record', m)
    BY <1>1, <1>3, <1>5, <2>1 DEF ReuseNode
  <2> HIDE DEF a
  <2> QED BY <1>1, <1>3, <2>1, <2>2 DEF ReuseNode, Reusable, From
<1>9. ReuseNode(x, n)'
  <2>1. ReuseNode(x, n)
    BY <1>1 DEF ReuseInv
  <2>2. n \notin reused' /\ at'[n] \in {"kept", "failed"}
    BY <1>1, <1>2, <1>3 DEF AtInv
  <2>3. Plain(x, n) => record'[n] = run'[n]
    BY <1>1, <1>4 DEF Plain
  <2>4. Plain(x, n) /\ Fed(x, n) => run'[n].input = From(x, record', n)
    BY <1>1, <1>5, <2>1 DEF ReuseNode
  <2> QED BY <1>1, <2>1, <2>2, <2>3, <2>4 DEF ReuseNode, Reusable, From
<1>10. Fits(x, record)'
  BY <1>6 DEF Fits, From
<1> QED BY <1>7, <1>8, <1>9, <1>10 DEF ReuseInv

LEMMA PublishedFits ==
  ASSUME NEW x, Sound(x), Typed(x), AtInv(x), ReuseInv(x), NEW n, Published(x, n)
  PROVE  ReuseInv(x)'
<1>1. /\ n \in W(x).nodes /\ n \in Nodes /\ at[n] = "kept" /\ NodeInv(x, n) /\ ReuseNode(x, n)
      /\ at' = [at EXCEPT ![n] = "done"] /\ run' = [run EXCEPT ![n] = NoRun]
      /\ errors' = IF run[n].errs = <<>> THEN errors ELSE [errors EXCEPT ![n] = run[n].errs]
      /\ reused' = IF run[n].reused THEN reused \cup {n} ELSE reused
      /\ UNCHANGED <<reusable, edited, record>>
  BY DEF Published, Typed, AtInv, ReuseInv
<1>2. /\ at'[n] = "done" /\ run'[n] = NoRun
      /\ \A m \in Nodes \ {n} : at'[m] = at[m] /\ run'[m] = run[m] /\ errors'[m] = errors[m]
  BY <1>1 DEF Typed
<1>3. Fits(x, record)' /\ Fits(x, reusable)'
  BY <1>1 DEF ReuseInv, Fits, From
<1>4. \A m \in Nodes : produced'[m] = IF m = n THEN run[n].outs
                                      ELSE IF Own(x, m) = n /\ run[n].status = "success" THEN totals[m]
                                      ELSE produced[m]
  BY DEF Published
<1>5. \A m : Reusable(x, m) => Reusable(x, m)'
  BY <1>1 DEF Reusable
<1>6. ASSUME NEW m \in Nodes \ {n} PROVE ReuseNode(x, m)'
  <2>1. ReuseNode(x, m)
    BY DEF ReuseInv
  <2>2. Plain(x, m) => produced'[m] = produced[m]
    BY <1>1, <1>4 DEF Plain, Sound
  <2>3. m \in reused' => m \in reused
    BY <1>1
  <2> QED BY <1>1, <1>2, <1>5, <2>1, <2>2, <2>3 DEF ReuseNode, From
<1>7. ReuseNode(x, n)'
  <2>1. n \notin reused /\ (run[n].reused => Plain(x, n))
    BY <1>1 DEF AtInv, NodeInv, Plain
  <2>2. Plain(x, n) => record[n] = run[n] /\ errors'[n] = record[n].errs /\ produced'[n] = record[n].outs
    BY <1>1, <1>4 DEF ReuseNode, NodeInv, Typed
  <2>3. n \in reused' => run[n].reused
    BY <1>1, <2>1
  <2>4. n \in reused' => Reusable(x, n)' /\ record'[n] = [reusable'[n] EXCEPT !.reused = TRUE]
    BY <1>1, <1>5, <2>1, <2>2, <2>3 DEF ReuseNode
  <2> QED BY <1>1, <1>2, <2>2, <2>4, EmptyTypes DEF ReuseNode
<1> QED BY <1>3, <1>6, <1>7 DEF ReuseInv

LEMMA BatchFits ==
  ASSUME NEW x, Sound(x), Typed(x), AtInv(x), ReuseInv(x), NEW lp, NEW b, NEW q, Rebatch(x, lp, b, q)
  PROVE  ReuseInv(x)'
<1>1. /\ lp \in Nodes /\ Own(x, lp) # lp /\ at'[lp] = "loop"
      /\ \A n \in Nodes : n # lp /\ Own(x, n) # lp => at'[n] = at[n]
  BY BatchEffects
<1>2. /\ lp \in W(x).loops /\ at[lp] \in {"idle", "loop"} /\ ~run'[lp].reused /\ lp # None
      /\ \A n \in Nodes \ {lp} : run'[n] = run[n]
      /\ UNCHANGED <<reusable, edited, reused, record>>
  BY <1>1 DEF Rebatch, Sound
<1>3. \A n \in Nodes : n # lp /\ Own(x, n) # lp => produced'[n] = produced[n] /\ errors'[n] = errors[n]
  BY DEF Rebatch, Batched
<1>4. Fits(x, record)' /\ Fits(x, reusable)'
  BY <1>2 DEF ReuseInv, Fits, From
<1>5. ASSUME NEW n \in Nodes PROVE ReuseNode(x, n)'
  <2>1. ReuseNode(x, n) /\ (Reusable(x, n)' <=> Reusable(x, n))
    BY <1>2 DEF ReuseInv, Reusable
  <2>2. CASE n = lp
    <3>1. ~Plain(x, n)
      BY <1>2, <2>2 DEF Plain
    <3> QED BY <1>1, <1>2, <2>1, <2>2, <3>1 DEF ReuseNode
  <2>3. CASE Own(x, n) = lp
    <3>1. ~Plain(x, n) /\ Own(x, n) # None /\ n # lp /\ run'[n] = run[n]
      BY <1>1, <1>2, <2>3 DEF Plain
    <3> QED BY <1>2, <2>1, <3>1 DEF ReuseNode
  <2>4. CASE n # lp /\ Own(x, n) # lp
    <3>1. at'[n] = at[n] /\ run'[n] = run[n] /\ produced'[n] = produced[n] /\ errors'[n] = errors[n]
      BY <1>1, <1>2, <1>3, <2>4
    <3> QED BY <1>2, <2>1, <3>1 DEF ReuseNode, From
  <2> QED BY <2>2, <2>3, <2>4
<1> QED BY <1>4, <1>5 DEF ReuseInv

LEMMA LoopOverFits ==
  ASSUME NEW x, Sound(x), Typed(x), AtInv(x), ReuseInv(x), NEW lp, NEW back, BatchOver(x, lp, back),
         NEW r, LoopOver(x, lp, r)
  PROVE  ReuseInv(x)'
<1>1. /\ lp \in W(x).nodes /\ lp \in Nodes /\ at[lp] = "loop" /\ NodeInv(x, lp)
      /\ run' = [run EXCEPT ![lp] = r] /\ at' = [at EXCEPT ![lp] = "ran"] /\ r.reused = run[lp].reused
      /\ UNCHANGED <<reusable, edited, produced, errors, reused, record>>
  BY DEF BatchOver, LoopOver, Typed, AtInv
<1>2. /\ at'[lp] = "ran" /\ run'[lp] = r
      /\ \A n \in Nodes \ {lp} : at'[n] = at[n] /\ run'[n] = run[n]
  BY <1>1 DEF Typed
<1>3. Fits(x, record)' /\ Fits(x, reusable)'
  BY <1>1 DEF ReuseInv, Fits, From
<1>4. ASSUME NEW n \in Nodes PROVE ReuseNode(x, n)'
  <2>1. ReuseNode(x, n) /\ (Reusable(x, n)' <=> Reusable(x, n))
    BY <1>1 DEF ReuseInv, Reusable
  <2>2. CASE n = lp
    <3>1. ~Plain(x, lp) /\ ~r.reused
      BY <1>1 DEF Plain, NodeInv
    <3> QED BY <1>1, <1>2, <2>1, <2>2, <3>1 DEF ReuseNode
  <2>3. CASE n # lp
    BY <1>1, <1>2, <2>1, <2>3 DEF ReuseNode, From
  <2> QED BY <2>2, <2>3
<1> QED BY <1>3, <1>4 DEF ReuseInv

\* Nothing has run, and what may be reused is of records that fit, each of a
\* node with nothing edited before it.
LEMMA BlankFits ==
  ASSUME NEW x, Sound(x), Blank(x), Fits(x, reusable),
         \A n \in Nodes : reusable[n].status = "success" => edited \cap Layout[x].upstream[n] = {}
  PROVE  ReuseInv(x)
<1>1. \A n \in Nodes : at[n] = "idle" /\ run[n] = NoRun /\ record[n] = NoRun /\ n \notin reused
  BY DEF Blank
<1>2. Fits(x, record)
  BY <1>1, EmptyTypes DEF Fits
<1>3. ASSUME NEW n \in Nodes PROVE ReuseNode(x, n)
  BY <1>1, EmptyTypes DEF ReuseNode
<1> QED BY <1>2, <1>3 DEF ReuseInv

\* Some of the records that fit.
LEMMA SomeFit ==
  ASSUME NEW x, Sound(x), NEW rec, NEW new, Fits(x, rec),
         \A n \in Nodes : new[n] = rec[n] \/ new[n] = NoRun
  PROVE  Fits(x, new)
<1> SUFFICES ASSUME NEW n \in Nodes, Plain(x, n), Fed(x, n), new[n].status = "success",
                    \A i \in Ins(x, n) : new[Src(x, i)].status = "success"
             PROVE  new[n].input = From(x, new, n)
  BY DEF Fits
<1>1. \A m \in Nodes : new[m].status = "success" => new[m] = rec[m]
  BY EmptyTypes
<1>2. \A i \in Ins(x, n) : Src(x, i) \in Nodes
  BY DEF Sound, Ins
<1>3. From(x, rec, n) = From(x, new, n)
  <2>1. \A i \in Ins(x, n) : /\ rec[Src(x, i)].errs = new[Src(x, i)].errs
                             /\ rec[Src(x, i)].outs = new[Src(x, i)].outs
    BY <1>1, <1>2
  <2> QED BY <2>1, FromSame
<1>4. rec[n].input = From(x, rec, n)
  BY <1>1, <1>2 DEF Fits
<1> QED BY <1>1, <1>3, <1>4

-----------------------------------------------------------------------------
(* What the connections carried.                                           *)

Feeds(x, i) == Src(x, i) \in W(x).loops /\ Out(x, i) = 1

Steps(x, i) ==
  IF i \in Bck(x) THEN Own(x, Src(x, i)) = Dst(x, i)
  ELSE Own(x, Dst(x, i)) = IF Feeds(x, i) THEN Src(x, i) ELSE Own(x, Src(x, i))

Reusing(n) == run[n].reused \/ n \in reused

\* What arrived is still to be received.
Pending(x, i) ==
  LET f == Src(x, i)
      t == Dst(x, i)
  IN  IF i \in Bck(x) THEN at[t] = "loop" /\ at[f] = "done"
      ELSE \/ Reusing(t)
           \/ at[t] = "idle" /\ IF Feeds(x, i) THEN at[f] = "loop" ELSE at[f] = "done" /\ Open(x, f)

Flow(x, i) ==
  Steps(x, i) => sent[i] = got[i] \o (IF Pending(x, i) THEN Arr(x, i) ELSE <<>>)

FlowInv(x) == \A i \in Lnk(x) : Flow(x, i)

LEMMA LinkFacts ==
  ASSUME NEW x, Sound(x), NEW i \in Lnk(x)
  PROVE  /\ Src(x, i) \in Nodes /\ Dst(x, i) \in Nodes
         /\ Src(x, i) \in W(x).nodes /\ Dst(x, i) \in W(x).nodes
         /\ Out(x, i) \in {0, 1}
         /\ i \notin Bck(x) => Src(x, i) # Dst(x, i)
         /\ \A n : /\ i \in Ins(x, n) <=> i \notin Bck(x) /\ Dst(x, i) = n
                   /\ i \in Rets(x, n) <=> i \in Bck(x) /\ Dst(x, i) = n
BY DEF Sound, Port, Ins, Rets

\* What feeds a reused node was reused.
LEMMA ReusingSources ==
  ASSUME NEW x, Sound(x), Typed(x), AtInv(x), ReuseInv(x),
         NEW i \in Lnk(x), i \notin Bck(x), Reusing(Dst(x, i))
  PROVE  at[Src(x, i)] = "done" /\ Own(x, Src(x, i)) = None /\ Own(x, Dst(x, i)) = None
<1>1. Dst(x, i) \in Nodes /\ i \in Ins(x, Dst(x, i))
  BY LinkFacts
<1>2. Reusable(x, Dst(x, i))
  BY <1>1 DEF ReuseInv, ReuseNode, Reusing
<1>3. Src(x, i) \in reused
  BY <1>1, <1>2 DEF Reusable
<1> QED BY <1>1, <1>3 DEF AtInv, NodeInv, Reusing

\* The three ways of one step of a connection.
LEMMA FlowKept ==
  ASSUME NEW x, NEW i \in Lnk(x), Flow(x, i), sent'[i] = sent[i], got'[i] = got[i],
         Pending(x, i)' <=> Pending(x, i), Pending(x, i) => Arr(x, i)' = Arr(x, i)
  PROVE  Flow(x, i)'
BY DEF Flow

LEMMA FlowCarried ==
  ASSUME NEW x, Sound(x), Typed(x), NEW i \in Lnk(x), Flow(x, i), Pending(x, i), ~Pending(x, i)',
         sent'[i] = sent[i], got'[i] = got[i] \o Arr(x, i)
  PROVE  Flow(x, i)'
<1>1. got[i] \o Arr(x, i) \in Seq(Items)
  BY InputTypes, ConcatProperties DEF Typed
<1>2. got'[i] \o <<>> = got'[i]
  BY <1>1
<1> QED BY <1>2 DEF Flow

LEMMA FlowSent ==
  ASSUME NEW x, Sound(x), Typed(x), NEW i \in Lnk(x), Flow(x, i), ~Pending(x, i),
         NEW e, sent'[i] = sent[i] \o e, got'[i] = got[i],
         IF Pending(x, i)' THEN Arr(x, i)' = e ELSE e = <<>>
  PROVE  Flow(x, i)'
<1>1. got[i] \in Seq(Items)
  BY DEF Typed
<1>2. got[i] \o <<>> = got[i]
  BY <1>1
<1>3. Steps(x, i) => sent[i] = got[i]
  BY <1>2 DEF Flow
<1> QED BY <1>3 DEF Flow

LEMMA FlowStarts ==
  ASSUME NEW x, Sound(x), Typed(x), AtInv(x), ReuseInv(x), FlowInv(x),
         NEW n, NEW where, NEW r, Starts(x, n, where, r)
  PROVE  FlowInv(x)'
<1>1. /\ n \in W(x).nodes /\ n \in Nodes /\ at[n] = "idle" /\ where \in {"ran", "run"} /\ Open(x, n)
      /\ run' = [run EXCEPT ![n] = r] /\ at' = [at EXCEPT ![n] = where]
      /\ \A m \in Dps(x, n) : at[m] = "done"
      /\ UNCHANGED <<produced, errors, reused, sent>>
      /\ \/ got' = Carried(x, Ins(x, n)) /\ ~r.reused
         \/ got' = got /\ (r.reused \/ Inp(x, n) = <<>>)
  BY DEF Starts, Readied, Typed
<1>2. Moves(n, where)
  BY <1>1 DEF Moves
<1>3. /\ at'[n] = where /\ \A m \in Nodes \ {n} : at'[m] = at[m]
      /\ \A m \in Nodes : Open(x, m)' <=> Open(x, m)
  BY <1>2, MoveEffects
<1>4. run'[n] = r /\ \A m \in Nodes \ {n} : run'[m] = run[m]
  BY <1>1 DEF Typed
<1>5. \A i : Arr(x, i)' = Arr(x, i)
  BY <1>1 DEF Arr
<1>6. n \notin reused
  BY <1>1 DEF AtInv
<1>7. ~run[n].reused
  BY <1>1 DEF AtInv, NodeInv
<1>8. ASSUME NEW i \in Lnk(x), Steps(x, i) PROVE Flow(x, i)'
  <2>1. Flow(x, i)
    BY DEF FlowInv
  <2>2. /\ Src(x, i) \in Nodes /\ Dst(x, i) \in Nodes /\ Src(x, i) \in W(x).nodes
        /\ i \notin Bck(x) => Src(x, i) # Dst(x, i)
        /\ i \in Ins(x, n) <=> i \notin Bck(x) /\ Dst(x, i) = n
    BY LinkFacts
  <2>3. CASE i \notin Ins(x, n)
    <3>1. got'[i] = got[i]
      BY <1>1, <2>3 DEF Carried
    <3>2. Pending(x, i)' <=> Pending(x, i)
      <4>1. CASE i \in Bck(x)
        BY <1>1, <1>3, <2>2, <4>1 DEF Pending
      <4>2. CASE i \notin Bck(x)
        <5>1. Dst(x, i) # n /\ (Reusing(Dst(x, i))' <=> Reusing(Dst(x, i))) /\ at'[Dst(x, i)] = at[Dst(x, i)]
          BY <1>1, <1>3, <1>4, <2>2, <2>3, <4>2 DEF Reusing
        <5>2. /\ at'[Src(x, i)] = "done" <=> at[Src(x, i)] = "done"
              /\ at'[Src(x, i)] = "loop" <=> at[Src(x, i)] = "loop"
              /\ Open(x, Src(x, i))' <=> Open(x, Src(x, i))
          BY <1>1, <1>3, <2>2
        <5> QED BY <4>2, <5>1, <5>2 DEF Pending
      <4> QED BY <4>1, <4>2
    <3> QED BY <1>1, <1>5, <2>1, <3>1, <3>2, FlowKept
  <2>4. CASE i \in Ins(x, n)
    <3>1. Pending(x, i)
      <4>1. CASE Feeds(x, i)
        <5>1. Own(x, n) = Src(x, i) /\ Own(x, n) # None
          BY <1>8, <2>2, <2>4, <4>1 DEF Steps, Sound
        <5> QED BY <1>1, <2>2, <2>4, <4>1, <5>1 DEF Pending, Open
      <4>2. CASE ~Feeds(x, i)
        <5>1. Own(x, n) = Own(x, Src(x, i))
          BY <1>8, <2>2, <2>4, <4>2 DEF Steps
        <5>2. Src(x, i) \in Dps(x, n)
          BY <2>2, <2>4, <5>1 DEF Dps, Mem
        <5> QED BY <1>1, <2>2, <2>4, <4>2, <5>1, <5>2 DEF Pending, Open
      <4> QED BY <4>1, <4>2
    <3>2. Pending(x, i)' <=> r.reused
      BY <1>1, <1>3, <1>4, <1>6, <2>2, <2>4 DEF Pending, Reusing
    <3>3. CASE got' = Carried(x, Ins(x, n)) /\ ~r.reused
      <4>1. got'[i] = got[i] \o Arr(x, i)
        BY <2>4, <3>3 DEF Carried
      <4> QED BY <1>1, <2>1, <3>1, <3>2, <3>3, <4>1, FlowCarried
    <3>4. CASE got' = got /\ r.reused
      BY <1>1, <1>5, <2>1, <3>1, <3>2, <3>4, FlowKept
    <3>5. CASE got' = got /\ ~r.reused /\ Inp(x, n) = <<>>
      <4>1. Arr(x, i) = <<>>
        BY <2>4, <3>5, InputTypes
      <4>2. got[i] \o <<>> = got[i]
        <5>1. got[i] \in Seq(Items)
          BY DEF Typed
        <5> QED BY <5>1
      <4>3. got'[i] = got[i] \o Arr(x, i)
        BY <3>5, <4>1, <4>2
      <4> QED BY <1>1, <2>1, <3>1, <3>2, <3>5, <4>3, FlowCarried
    <3> QED BY <1>1, <3>3, <3>4, <3>5
  <2> QED BY <2>3, <2>4
<1>9. \A i : Steps(x, i)' <=> Steps(x, i)
  BY DEF Steps, Feeds
<1>10. \A i \in Lnk(x) : ~Steps(x, i) => Flow(x, i)'
  BY DEF Flow
<1> QED BY <1>8, <1>10 DEF FlowInv

\* Nothing changes for the connections while a node runs.
LEMMA FlowWaits ==
  ASSUME NEW x, Sound(x), Typed(x), AtInv(x), ReuseInv(x), FlowInv(x), NEW n, NEW a, Moves(n, a),
         at[n] # "idle", a \notin {"idle", "done"}, run'[n].reused = run[n].reused,
         \A m \in Nodes \ {n} : run'[m] = run[m] /\ errors'[m] = errors[m],
         UNCHANGED <<produced, reused, sent, got>>
  PROVE  FlowInv(x)'
<1>1. /\ n \in Nodes /\ at'[n] = a /\ \A m \in Nodes \ {n} : at'[m] = at[m]
      /\ \A m \in Nodes : Open(x, m)' <=> Open(x, m)
      /\ at[n] \notin {"loop", "done"} /\ a # "loop"
  BY MoveEffects DEF Moves
<1>2. ASSUME NEW i \in Lnk(x) PROVE Flow(x, i)'
  <2>1. Flow(x, i)
    BY DEF FlowInv
  <2>2. Src(x, i) \in Nodes /\ Dst(x, i) \in Nodes
    BY LinkFacts
  <2>3. Reusing(Dst(x, i))' <=> Reusing(Dst(x, i))
    BY <2>2 DEF Reusing
  <2>4. /\ at'[Src(x, i)] = "done" <=> at[Src(x, i)] = "done"
        /\ at'[Src(x, i)] = "loop" <=> at[Src(x, i)] = "loop"
        /\ at'[Dst(x, i)] = "idle" <=> at[Dst(x, i)] = "idle"
        /\ at'[Dst(x, i)] = "loop" <=> at[Dst(x, i)] = "loop"
        /\ Open(x, Src(x, i))' <=> Open(x, Src(x, i))
    BY <1>1, <2>2
  <2>5. Pending(x, i)' <=> Pending(x, i)
    BY <2>3, <2>4 DEF Pending, Feeds
  <2>6. Pending(x, i) => Arr(x, i)' = Arr(x, i)
    <3> HAVE Pending(x, i)
    <3>1. Src(x, i) # n
      <4>1. i \notin Bck(x) /\ Reusing(Dst(x, i)) => at[Src(x, i)] = "done"
        BY ReusingSources
      <4> QED BY <1>1, <4>1 DEF Pending
    <3> QED BY <2>2, <3>1 DEF Arr
  <2> QED BY <2>1, <2>5, <2>6, FlowKept
<1> QED BY <1>2 DEF FlowInv

LEMMA FlowExecuted ==
  ASSUME NEW x, Sound(x), Typed(x), AtInv(x), ReuseInv(x), FlowInv(x), NEW n, NEW r, Executed(x, n, r)
  PROVE  FlowInv(x)'
<1>1. /\ n \in Nodes /\ at[n] = "run" /\ run' = [run EXCEPT ![n] = r] /\ r.reused = run[n].reused
      /\ errors' = IF r.errs = <<>> THEN errors ELSE [errors EXCEPT ![n] = r.errs]
      /\ UNCHANGED <<produced, reused, sent, got>>
  BY DEF Executed, Typed
<1>2. Moves(n, "ran")
  BY <1>1 DEF Moves, Executed
<1>3. run'[n].reused = run[n].reused /\ \A m \in Nodes \ {n} : run'[m] = run[m] /\ errors'[m] = errors[m]
  BY <1>1 DEF Typed
<1> QED BY <1>1, <1>2, <1>3, FlowWaits

LEMMA FlowBroken ==
  ASSUME NEW x, Sound(x), Typed(x), AtInv(x), ReuseInv(x), FlowInv(x), NEW n, Broken(x, n)
  PROVE  FlowInv(x)'
<1>1. /\ n \in Nodes /\ at[n] = "run" /\ run[n] \in NodeRun
      /\ run' = [run EXCEPT ![n] = [run[n] EXCEPT !.status = "error"]]
      /\ UNCHANGED <<produced, errors, reused, sent, got>>
  BY DEF Broken, Typed
<1>2. Moves(n, "failing")
  BY <1>1 DEF Moves, Broken
<1>3. run'[n] = [run[n] EXCEPT !.status = "error"] /\ \A m \in Nodes \ {n} : run'[m] = run[m]
  BY <1>1 DEF Typed
<1>4. run'[n].reused = run[n].reused
  BY <1>1, <1>3 DEF NodeRun
<1> QED BY <1>1, <1>2, <1>3, <1>4, FlowWaits

LEMMA FlowPersisted ==
  ASSUME NEW x, Sound(x), Typed(x), AtInv(x), ReuseInv(x), FlowInv(x), NEW n, Persisted(x, n)
  PROVE  FlowInv(x)'
<1> DEFINE a == IF at[n] = "ran" THEN "kept" ELSE "failed"
<1>1. n \in Nodes /\ at[n] \in {"ran", "failing"} /\ UNCHANGED <<run, produced, errors, reused, sent, got>>
  BY DEF Persisted, Typed
<1>2. Moves(n, a) /\ a \notin {"idle", "done"}
  BY <1>1 DEF Moves, Persisted
<1> HIDE DEF a
<1> QED BY <1>1, <1>2, FlowWaits

LEMMA FlowPublished ==
  ASSUME NEW x, Sound(x), Typed(x), AtInv(x), ReuseInv(x), FlowInv(x), NEW n, Published(x, n)
  PROVE  FlowInv(x)'
<1>1. /\ n \in W(x).nodes /\ n \in Nodes /\ at[n] = "kept" /\ NodeInv(x, n)
      /\ at' = [at EXCEPT ![n] = "done"] /\ run' = [run EXCEPT ![n] = NoRun]
      /\ errors' = IF run[n].errs = <<>> THEN errors ELSE [errors EXCEPT ![n] = run[n].errs]
      /\ reused' = IF run[n].reused THEN reused \cup {n} ELSE reused
      /\ got' = got
      /\ \A m \in Nodes : produced'[m] = IF m = n THEN run[n].outs
                                         ELSE IF Own(x, m) = n /\ run[n].status = "success" THEN totals[m]
                                         ELSE produced[m]
      /\ \A i \in Lnk(x) : sent'[i] = IF Src(x, i) # n THEN sent[i]
           ELSE sent[i] \o IF Err(x, i) THEN run[n].errs ELSE run[n].outs[Out(x, i)]
  BY DEF Published, Typed, AtInv
<1>2. Moves(n, "done")
  BY <1>1 DEF Moves
<1>3. /\ at'[n] = "done" /\ \A m \in Nodes \ {n} : at'[m] = at[m]
      /\ \A m \in Nodes : Open(x, m)' <=> Open(x, m)
  BY <1>2, MoveEffects
<1>4. run'[n] = NoRun /\ \A m \in Nodes \ {n} : run'[m] = run[m] /\ errors'[m] = errors[m]
  BY <1>1 DEF Typed
<1>5. \A m \in Nodes : Reusing(m)' <=> Reusing(m)
  <2> TAKE m \in Nodes
  <2>1. CASE m = n
    BY <1>1, <1>4, <2>1, EmptyTypes DEF Reusing
  <2>2. CASE m # n
    BY <1>1, <1>4, <2>2 DEF Reusing
  <2> QED BY <2>1, <2>2
<1>6. errors'[n] = run[n].errs /\ produced'[n] = run[n].outs /\ Open(x, n)
  BY <1>1 DEF NodeInv, Typed
<1>7. ASSUME NEW i \in Lnk(x), Steps(x, i) PROVE Flow(x, i)'
  <2>1. Flow(x, i)
    BY DEF FlowInv
  <2>2. /\ Src(x, i) \in Nodes /\ Dst(x, i) \in Nodes /\ Src(x, i) \in W(x).nodes /\ Out(x, i) \in {0, 1}
        /\ i \notin Bck(x) => Src(x, i) # Dst(x, i)
        /\ i \in Ins(x, Dst(x, i)) <=> i \notin Bck(x)
    BY LinkFacts
  <2>3. i \notin Bck(x) /\ Reusing(Dst(x, i)) => at[Src(x, i)] = "done" /\ Own(x, Src(x, i)) = None
    BY ReusingSources
  <2>4. CASE Src(x, i) = n
    <3> DEFINE e == IF Err(x, i) THEN run[n].errs ELSE run[n].outs[Out(x, i)]
    <3>1. sent'[i] = sent[i] \o e /\ got'[i] = got[i]
      BY <1>1, <2>4
    <3>2. Arr(x, i)' = e
      BY <1>6, <2>4 DEF Arr
    <3>3. ~Pending(x, i)
      BY <1>1, <2>3, <2>4 DEF Pending
    <3>4. Pending(x, i)' \/ e = <<>>
      <4>1. CASE i \in Bck(x)
        <5>1. Own(x, n) = Dst(x, i) /\ Own(x, n) # None /\ Dst(x, i) # n
          BY <1>7, <2>2, <2>4, <4>1 DEF Steps, Sound
        <5>2. at[Dst(x, i)] = "loop"
          BY <1>6, <5>1 DEF Open
        <5> QED BY <1>3, <2>2, <2>4, <4>1, <5>1, <5>2 DEF Pending
      <4>2. CASE i \notin Bck(x) /\ Feeds(x, i)
        BY <1>1, <2>4, <4>2 DEF NodeInv, Feeds
      <4>3. CASE i \notin Bck(x) /\ ~Feeds(x, i)
        <5>1. Own(x, Dst(x, i)) = Own(x, n) /\ Dst(x, i) # n
          BY <1>7, <2>2, <2>4, <4>3 DEF Steps
        <5>2. n \in Dps(x, Dst(x, i))
          BY <1>1, <2>2, <2>4, <4>3, <5>1 DEF Dps, Mem
        <5>3. at[Dst(x, i)] = "idle"
          BY <1>1, <2>2, <5>2 DEF AtInv, NodeInv
        <5>4. Open(x, n)' /\ at'[Dst(x, i)] = "idle"
          BY <1>1, <1>3, <1>6, <2>2, <5>1, <5>3
        <5> QED BY <1>3, <2>4, <4>3, <5>4 DEF Pending, Feeds
      <4> QED BY <4>1, <4>2, <4>3
    <3> HIDE DEF e
    <3> QED BY <2>1, <3>1, <3>2, <3>3, <3>4, FlowSent
  <2>5. CASE Src(x, i) # n
    <3>1. sent'[i] = sent[i] /\ got'[i] = got[i]
      BY <1>1, <2>5
    <3>2. /\ at'[Src(x, i)] = at[Src(x, i)] /\ (Reusing(Dst(x, i))' <=> Reusing(Dst(x, i)))
          /\ at'[Dst(x, i)] = "idle" <=> at[Dst(x, i)] = "idle"
          /\ at'[Dst(x, i)] = "loop" <=> at[Dst(x, i)] = "loop"
          /\ Open(x, Src(x, i))' <=> Open(x, Src(x, i))
      BY <1>1, <1>3, <1>5, <2>2, <2>5
    <3>3. Pending(x, i)' <=> Pending(x, i)
      BY <3>2 DEF Pending, Feeds
    <3>4. Pending(x, i) => Arr(x, i)' = Arr(x, i)
      <4> HAVE Pending(x, i)
      <4>1. Own(x, Src(x, i)) # n
        <5> SUFFICES ASSUME Own(x, Src(x, i)) = n PROVE FALSE
          OBVIOUS
        <5>1. n # None /\ ~Open(x, Src(x, i))
          BY <1>1 DEF Sound, Open
        <5>2. i \notin Bck(x)
          BY <1>1, <1>7 DEF Pending, Steps
        <5>3. ~Reusing(Dst(x, i))
          BY <2>3, <5>1, <5>2
        <5>4. at[Src(x, i)] = "loop"
          BY <5>1, <5>2, <5>3 DEF Pending
        <5> QED BY <2>2, <5>1, <5>4 DEF AtInv, NodeInv
      <4>2. produced'[Src(x, i)] = produced[Src(x, i)] /\ errors'[Src(x, i)] = errors[Src(x, i)]
        BY <1>1, <1>4, <2>2, <2>5, <4>1
      <4> QED BY <4>2 DEF Arr
    <3> QED BY <2>1, <3>1, <3>3, <3>4, FlowKept
  <2> QED BY <2>4, <2>5
<1>8. \A i \in Lnk(x) : ~Steps(x, i) => Flow(x, i)'
  BY DEF Flow, Steps, Feeds
<1> QED BY <1>7, <1>8 DEF FlowInv

\* A batch starts: lp has just received its input, or what came back.
LEMMA FlowBatch ==
  ASSUME NEW x, Sound(x), Typed(x), AtInv(x), ReuseInv(x), FlowInv(x),
         NEW lp, NEW b, NEW q, Rebatch(x, lp, b, q),
         \/ at[lp] = "idle" /\ got' = Carried(x, Ins(x, lp))
         \/ at[lp] = "loop" /\ got' = Carried(x, Rets(x, lp)) /\ \A n \in Mem(x, lp) : at[n] = "done"
  PROVE  FlowInv(x)'
<1>1. /\ lp \in Nodes /\ Own(x, lp) # lp /\ at'[lp] = "loop"
      /\ \A n \in Nodes : Own(x, n) = lp => at'[n] = "idle" /\ n # lp
      /\ \A n \in Nodes : n # lp /\ Own(x, n) # lp => at'[n] = at[n]
      /\ \A n \in Nodes : at'[n] = "loop" <=> at[n] = "loop" \/ n = lp
      /\ \A n \in Nodes : Open(x, n)' <=> Open(x, n) \/ Own(x, n) = lp
  BY BatchEffects
<1>2. /\ lp \in W(x).nodes /\ lp \in W(x).loops /\ lp # None
      /\ Open(x, lp) /\ \A m \in Dps(x, lp) : at[m] = "done"
      /\ ~run'[lp].reused /\ reused' = reused
      /\ \A n \in Nodes \ {lp} : run'[n] = run[n]
      /\ \A n \in Nodes : Own(x, n) = lp => at[n] \in {"idle", "done"}
  BY <1>1 DEF Rebatch, Sound
<1>3. /\ b[0] = <<>> /\ produced'[lp] = b /\ errors'[lp] = <<>>
      /\ \A n \in Nodes : n # lp /\ Own(x, n) # lp => produced'[n] = produced[n] /\ errors'[n] = errors[n]
      /\ \A i \in Lnk(x) :
           sent'[i] = IF Src(x, i) # lp THEN sent[i] ELSE sent[i] \o IF Err(x, i) THEN <<>> ELSE b[Out(x, i)]
  <2>1. errors[lp] = <<>>
    BY <1>1, <1>2 DEF AtInv, NodeInv
  <2> QED BY <1>1, <2>1 DEF Rebatch, Batched
<1>4. ~run[lp].reused /\ lp \notin reused
  BY <1>1, <1>2 DEF AtInv, NodeInv
<1>5. \A n \in Nodes : Reusing(n)' <=> Reusing(n)
  BY <1>2, <1>4 DEF Reusing
<1>6. ~Reusing(lp)
  BY <1>4 DEF Reusing
<1>7. at[lp] \in {"idle", "loop"} /\ (at[lp] = "idle" => \A n \in Nodes : Own(x, n) = lp => ~Open(x, n))
  BY <1>2 DEF Open
<1>8. ASSUME NEW i \in Lnk(x), Steps(x, i) PROVE Flow(x, i)'
  <2>1. Flow(x, i)
    BY DEF FlowInv
  <2>2. /\ Src(x, i) \in Nodes /\ Dst(x, i) \in Nodes /\ Src(x, i) \in W(x).nodes /\ Dst(x, i) \in W(x).nodes
        /\ Out(x, i) \in {0, 1}
        /\ i \notin Bck(x) => Src(x, i) # Dst(x, i)
        /\ i \in Ins(x, lp) <=> i \notin Bck(x) /\ Dst(x, i) = lp
        /\ i \in Rets(x, lp) <=> i \in Bck(x) /\ Dst(x, i) = lp
    BY LinkFacts
  <2>3. i \notin Bck(x) /\ Reusing(Dst(x, i)) =>
          at[Src(x, i)] = "done" /\ Own(x, Src(x, i)) = None /\ Own(x, Dst(x, i)) = None
    BY ReusingSources
  <2>4. CASE Src(x, i) = lp
    <3> DEFINE e == IF Err(x, i) THEN <<>> ELSE b[Out(x, i)]
    <3>1. sent'[i] = sent[i] \o e
      BY <1>3, <2>4
    <3>2. Dst(x, i) # lp
      BY <1>1, <1>8, <2>2, <2>4 DEF Steps
    <3>3. got'[i] = got[i]
      BY <2>2, <3>2 DEF Carried
    <3>4. ~Pending(x, i)
      <4>1. ~(i \notin Bck(x) /\ Feeds(x, i) /\ at[Dst(x, i)] = "idle" /\ at[lp] = "loop")
        BY <1>8, <2>2, <2>4 DEF Steps, Mem
      <4> QED BY <1>7, <2>3, <2>4, <4>1 DEF Pending
    <3>5. IF Pending(x, i)' THEN Arr(x, i)' = e ELSE e = <<>>
      <4>1. CASE i \in Bck(x)
        <5>1. ~(Out(x, i) = 1 /\ ~Err(x, i))
          BY <1>2, <1>8, <2>4, <4>1 DEF Steps, Sound
        <5>2. e = <<>> /\ ~Pending(x, i)'
          BY <1>1, <1>3, <2>2, <2>4, <4>1, <5>1 DEF Pending
        <5> QED BY <5>2
      <4>2. CASE i \notin Bck(x) /\ Feeds(x, i)
        <5>1. Own(x, Dst(x, i)) = lp
          BY <1>8, <2>4, <4>2 DEF Steps
        <5>2. Pending(x, i)'
          BY <1>1, <2>2, <2>4, <4>2, <5>1 DEF Pending, Feeds
        <5>3. Arr(x, i)' = e
          BY <1>3, <2>4 DEF Arr
        <5> QED BY <5>2, <5>3
      <4>3. CASE i \notin Bck(x) /\ ~Feeds(x, i)
        <5>1. e = <<>>
          BY <1>2, <1>3, <2>2, <2>4, <4>3 DEF Feeds
        <5>2. ~Pending(x, i)'
          BY <1>1, <1>5, <1>7, <2>2, <2>3, <2>4, <4>3 DEF Pending, Feeds
        <5> QED BY <5>1, <5>2
      <4> QED BY <4>1, <4>2, <4>3
    <3> HIDE DEF e
    <3> QED BY <2>1, <3>1, <3>3, <3>4, <3>5, FlowSent
  <2>5. CASE Src(x, i) # lp /\ Dst(x, i) = lp
    <3>1. sent'[i] = sent[i]
      BY <1>3, <2>5
    <3>2. CASE i \in Bck(x)
      <4>1. Own(x, Src(x, i)) = lp
        BY <1>8, <2>5, <3>2 DEF Steps
      <4>2. ~Pending(x, i)'
        BY <1>1, <2>2, <3>2, <4>1 DEF Pending
      <4>3. CASE at[lp] = "idle" /\ got' = Carried(x, Ins(x, lp))
        <5>1. got'[i] = got[i]
          BY <2>2, <3>2, <4>3 DEF Carried
        <5>2. ~Pending(x, i)
          BY <2>5, <3>2, <4>3 DEF Pending
        <5> QED BY <2>1, <3>1, <4>2, <5>1, <5>2, FlowKept
      <4>4. CASE at[lp] = "loop" /\ got' = Carried(x, Rets(x, lp)) /\ \A n \in Mem(x, lp) : at[n] = "done"
        <5>1. got'[i] = got[i] \o Arr(x, i)
          BY <2>2, <2>5, <3>2, <4>4 DEF Carried
        <5>2. Pending(x, i)
          BY <2>2, <2>5, <3>2, <4>1, <4>4 DEF Pending, Mem
        <5> QED BY <2>1, <3>1, <4>2, <5>1, <5>2, FlowCarried
      <4> QED BY <4>3, <4>4
    <3>3. CASE i \notin Bck(x)
      <4>1. ~Pending(x, i)'
        BY <1>1, <1>5, <1>6, <2>2, <2>5, <3>3 DEF Pending
      <4>2. CASE at[lp] = "idle" /\ got' = Carried(x, Ins(x, lp))
        <5>1. got'[i] = got[i] \o Arr(x, i)
          BY <2>2, <2>5, <3>3, <4>2 DEF Carried
        <5>2. Pending(x, i)
          <6>1. CASE Feeds(x, i)
            <7>1. Own(x, lp) = Src(x, i) /\ Own(x, lp) # None
              BY <1>8, <2>2, <2>5, <3>3, <6>1 DEF Steps, Sound
            <7> QED BY <1>2, <2>5, <3>3, <4>2, <6>1, <7>1 DEF Pending, Open
          <6>2. CASE ~Feeds(x, i)
            <7>1. Own(x, lp) = Own(x, Src(x, i))
              BY <1>8, <2>5, <3>3, <6>2 DEF Steps
            <7>2. Src(x, i) \in Dps(x, lp)
              BY <2>2, <2>5, <3>3, <7>1 DEF Dps, Mem
            <7> QED BY <1>2, <2>5, <3>3, <4>2, <6>2, <7>1, <7>2 DEF Pending, Open
          <6> QED BY <6>1, <6>2
        <5> QED BY <2>1, <3>1, <4>1, <5>1, <5>2, FlowCarried
      <4>3. CASE at[lp] = "loop" /\ got' = Carried(x, Rets(x, lp))
        <5>1. got'[i] = got[i]
          BY <2>2, <3>3, <4>3 DEF Carried
        <5>2. ~Pending(x, i)
          BY <1>6, <2>5, <3>3, <4>3 DEF Pending
        <5> QED BY <2>1, <3>1, <4>1, <5>1, <5>2, FlowKept
      <4> QED BY <4>2, <4>3
    <3> QED BY <3>2, <3>3
  <2>6. CASE Src(x, i) # lp /\ Dst(x, i) # lp
    <3>1. sent'[i] = sent[i] /\ got'[i] = got[i]
      BY <1>3, <2>2, <2>6 DEF Carried
    <3>2. Own(x, Src(x, i)) # lp => Arr(x, i)' = Arr(x, i)
      BY <1>3, <2>2, <2>6 DEF Arr
    <3>3. CASE i \in Bck(x)
      <4>1. Own(x, Src(x, i)) # lp
        BY <1>8, <2>6, <3>3 DEF Steps
      <4>2. Pending(x, i)' <=> Pending(x, i)
        <5>1. at'[Src(x, i)] = at[Src(x, i)] /\ (at'[Dst(x, i)] = "loop" <=> at[Dst(x, i)] = "loop")
          BY <1>1, <2>2, <2>6, <4>1
        <5> QED BY <3>3, <5>1 DEF Pending
      <4> QED BY <2>1, <3>1, <3>2, <4>1, <4>2, FlowKept
    <3>4. CASE i \notin Bck(x) /\ Feeds(x, i)
      <4>1. Own(x, Dst(x, i)) # lp
        BY <1>8, <2>6, <3>4 DEF Steps
      <4>2. Pending(x, i)' <=> Pending(x, i)
        <5>1. at'[Dst(x, i)] = at[Dst(x, i)] /\ (at'[Src(x, i)] = "loop" <=> at[Src(x, i)] = "loop")
          BY <1>1, <2>2, <2>6, <4>1
        <5> QED BY <1>5, <2>2, <3>4, <5>1 DEF Pending, Feeds
      <4>3. Pending(x, i) => Own(x, Src(x, i)) # lp
        BY <1>2, <2>2, <2>3, <3>4 DEF Pending
      <4> QED BY <2>1, <3>1, <3>2, <4>2, <4>3, FlowKept
    <3>5. CASE i \notin Bck(x) /\ ~Feeds(x, i)
      <4>1. Own(x, Dst(x, i)) = Own(x, Src(x, i))
        BY <1>8, <3>5 DEF Steps
      <4>2. CASE Own(x, Dst(x, i)) = lp
        <5>1. ~Reusing(Dst(x, i)) /\ at'[Src(x, i)] = "idle"
          BY <1>1, <1>2, <2>2, <2>3, <3>5, <4>1, <4>2
        <5>2. ~Pending(x, i)'
          BY <1>5, <2>2, <3>5, <5>1 DEF Pending, Feeds
        <5>3. ~Pending(x, i)
          <6>1. at[lp] = "loop" => at[Dst(x, i)] = "done"
            BY <1>7, <2>2, <4>2 DEF Mem
          <6>2. at[lp] = "idle" => ~Open(x, Src(x, i))
            BY <1>7, <2>2, <4>1, <4>2
          <6> QED BY <1>7, <3>5, <5>1, <6>1, <6>2 DEF Pending
        <5> QED BY <2>1, <3>1, <5>2, <5>3, FlowKept
      <4>3. CASE Own(x, Dst(x, i)) # lp
        <5>1. /\ at'[Dst(x, i)] = at[Dst(x, i)] /\ at'[Src(x, i)] = at[Src(x, i)]
              /\ Open(x, Src(x, i))' <=> Open(x, Src(x, i))
          BY <1>1, <2>2, <2>6, <4>1, <4>3
        <5>2. Pending(x, i)' <=> Pending(x, i)
          BY <1>5, <2>2, <3>5, <5>1 DEF Pending, Feeds
        <5> QED BY <2>1, <3>1, <3>2, <4>1, <4>3, <5>2, FlowKept
      <4> QED BY <4>2, <4>3
    <3> QED BY <3>3, <3>4, <3>5
  <2> QED BY <2>4, <2>5, <2>6
<1>9. \A i \in Lnk(x) : ~Steps(x, i) => Flow(x, i)'
  BY DEF Flow, Steps, Feeds
<1> QED BY <1>8, <1>9 DEF FlowInv

LEMMA FlowLoopOver ==
  ASSUME NEW x, Sound(x), Typed(x), AtInv(x), ReuseInv(x), FlowInv(x),
         NEW lp, NEW back, BatchOver(x, lp, back), NEW r, LoopOver(x, lp, r)
  PROVE  FlowInv(x)'
<1>1. /\ lp \in W(x).nodes /\ lp \in Nodes /\ at[lp] = "loop" /\ NodeInv(x, lp)
      /\ run' = [run EXCEPT ![lp] = r] /\ at' = [at EXCEPT ![lp] = "ran"] /\ r.reused = run[lp].reused
      /\ \A n \in Mem(x, lp) : at[n] = "done"
      /\ got' = Carried(x, Rets(x, lp))
      /\ UNCHANGED <<produced, errors, reused, sent>>
  BY DEF BatchOver, LoopOver, Typed, AtInv
<1>2. /\ at'[lp] = "ran" /\ run'[lp] = r
      /\ \A n \in Nodes \ {lp} : at'[n] = at[n] /\ run'[n] = run[n]
  BY <1>1 DEF Typed
<1>3. \A n \in Nodes : Reusing(n)' <=> Reusing(n)
  BY <1>1, <1>2 DEF Reusing
<1>4. ~Reusing(lp)
  BY <1>1 DEF Reusing, AtInv, NodeInv
<1>5. \A n \in Nodes : Own(x, n) # lp => (Open(x, n)' <=> Open(x, n))
  BY <1>2 DEF Open, Sound
<1>6. ASSUME NEW i \in Lnk(x), Steps(x, i) PROVE Flow(x, i)'
  <2>1. Flow(x, i) /\ sent'[i] = sent[i] /\ Arr(x, i)' = Arr(x, i)
    BY <1>1 DEF FlowInv, Arr
  <2>2. /\ Src(x, i) \in Nodes /\ Dst(x, i) \in Nodes /\ Src(x, i) \in W(x).nodes /\ Dst(x, i) \in W(x).nodes
        /\ i \notin Bck(x) => Src(x, i) # Dst(x, i)
        /\ i \in Rets(x, lp) <=> i \in Bck(x) /\ Dst(x, i) = lp
    BY LinkFacts
  <2>3. CASE i \in Rets(x, lp)
    <3>1. got'[i] = got[i] \o Arr(x, i)
      BY <1>1, <2>3 DEF Carried
    <3>2. Own(x, Src(x, i)) = lp
      BY <1>6, <2>2, <2>3 DEF Steps
    <3>3. Pending(x, i) /\ ~Pending(x, i)'
      BY <1>1, <1>2, <2>2, <2>3, <3>2 DEF Pending, Mem
    <3> QED BY <2>1, <3>1, <3>3, FlowCarried
  <2>4. CASE i \notin Rets(x, lp)
    <3>1. got'[i] = got[i]
      BY <1>1, <2>4 DEF Carried
    <3>2. Pending(x, i)' <=> Pending(x, i)
      <4>1. CASE i \in Bck(x)
        BY <1>1, <1>2, <2>2, <2>4, <4>1 DEF Pending
      <4>2. CASE i \notin Bck(x) /\ Dst(x, i) = lp
        BY <1>1, <1>2, <1>3, <1>4, <4>2 DEF Pending
      <4>3. CASE i \notin Bck(x) /\ Dst(x, i) # lp /\ Feeds(x, i)
        <5>1. CASE Src(x, i) = lp
          <6>1. at[Dst(x, i)] = "done" /\ at'[Dst(x, i)] = "done"
            BY <1>1, <1>2, <1>6, <2>2, <4>3, <5>1 DEF Steps, Mem
          <6> QED BY <1>3, <2>2, <4>3, <6>1 DEF Pending
        <5>2. CASE Src(x, i) # lp
          BY <1>2, <1>3, <2>2, <4>3, <5>2 DEF Pending, Feeds
        <5> QED BY <5>1, <5>2
      <4>4. CASE i \notin Bck(x) /\ Dst(x, i) # lp /\ ~Feeds(x, i)
        <5>1. Own(x, Dst(x, i)) = Own(x, Src(x, i))
          BY <1>6, <4>4 DEF Steps
        <5>2. at'[Src(x, i)] = "done" <=> at[Src(x, i)] = "done"
          BY <1>1, <1>2, <2>2
        <5>3. CASE Own(x, Dst(x, i)) = lp
          <6>1. at[Dst(x, i)] = "done" /\ at'[Dst(x, i)] = "done"
            BY <1>1, <1>2, <2>2, <4>4, <5>3 DEF Mem
          <6> QED BY <1>3, <2>2, <4>4, <6>1 DEF Pending
        <5>4. CASE Own(x, Dst(x, i)) # lp
          BY <1>2, <1>3, <1>5, <2>2, <4>4, <5>1, <5>2, <5>4 DEF Pending, Feeds
        <5> QED BY <5>3, <5>4
      <4> QED BY <4>1, <4>2, <4>3, <4>4
    <3> QED BY <2>1, <3>1, <3>2, FlowKept
  <2> QED BY <2>3, <2>4
<1>7. \A i \in Lnk(x) : ~Steps(x, i) => Flow(x, i)'
  BY DEF Flow, Steps, Feeds
<1> QED BY <1>6, <1>7 DEF FlowInv

LEMMA FlowBlank == ASSUME NEW x, Sound(x), Blank(x) PROVE FlowInv(x)
<1>1. ASSUME NEW i \in Lnk(x) PROVE Flow(x, i)
  <2>1. Src(x, i) \in Nodes /\ Dst(x, i) \in Nodes
    BY LinkFacts
  <2>2. ~Pending(x, i)
    BY <2>1, EmptyTypes DEF Blank, Pending, Reusing
  <2>3. sent[i] = <<>> /\ got[i] = <<>> /\ <<>> \o <<>> = <<>>
    BY DEF Blank
  <2> QED BY <2>2, <2>3 DEF Flow
<1> QED BY <1>1 DEF FlowInv

-----------------------------------------------------------------------------
(* The end of a run.                                                       *)

\* The run is through with all nodes outside of loops.
Settled(x) == \A n \in Mem(x, None) : at[n] = "done"

LEMMA SettledNodes ==
  ASSUME NEW x, Sound(x), AtInv(x), Settled(x)
  PROVE  \A n \in Nodes : /\ at[n] # "loop" /\ (Open(x, n) => Own(x, n) = None)
                          /\ n \in W(x).nodes /\ Own(x, n) = None => at[n] = "done"
<1> DEFINE S == {n \in W(x).nodes : at[n] = "loop"}
<1>1. S \in SUBSET W(x).nodes
  OBVIOUS
<1>2. ASSUME NEW n \in S PROVE Own(x, n) \in S
  <2>1. n \in Nodes /\ n \in W(x).nodes /\ at[n] = "loop"
    BY DEF Sound
  <2>2. Own(x, n) # None /\ Open(x, n)
    BY <2>1 DEF Settled, Mem, AtInv, NodeInv
  <2>3. at[Own(x, n)] = "loop" /\ Own(x, n) \in Nodes
    BY <2>1, <2>2 DEF Open, Sound
  <2> QED BY <2>3 DEF AtInv, NodeInv
<1>3. S = {}
  <2> HIDE DEF S
  <2> QED BY <1>1, <1>2 DEF Sound
<1>4. \A n \in Nodes : at[n] # "loop"
  BY <1>3 DEF AtInv, NodeInv
<1> QED BY <1>4 DEF Open, Sound, Settled, Mem

LEMMA SettledFlow ==
  ASSUME NEW x, Sound(x), Typed(x), AtInv(x), FlowInv(x), Settled(x),
         NEW i \in Lnk(x), Steps(x, i), Dst(x, i) \notin reused
  PROVE  sent[i] = got[i]
<1>1. /\ Src(x, i) \in Nodes /\ Dst(x, i) \in Nodes /\ Dst(x, i) \in W(x).nodes
  BY LinkFacts
<1>2. \A n \in Nodes : /\ at[n] # "loop" /\ (Open(x, n) => Own(x, n) = None)
                       /\ n \in W(x).nodes /\ Own(x, n) = None => at[n] = "done"
  BY SettledNodes
<1>3. ~Reusing(Dst(x, i))
  BY <1>1, <1>2 DEF Reusing, AtInv, NodeInv
<1>4. ~Pending(x, i)
  BY <1>1, <1>2, <1>3 DEF Pending, Steps
<1>5. got[i] \in Seq(Items)
  BY DEF Typed
<1>6. got[i] \o <<>> = got[i]
  BY <1>5
<1> QED BY <1>4, <1>6 DEF FlowInv, Flow

-----------------------------------------------------------------------------
(* The record of a node.                                                   *)

Of(x, r, i) == IF Err(x, i) THEN r.errs ELSE r.outs[Out(x, i)]

\* Nothing was skipped or failed so far.
Whole(n) == n \notin flawed /\ at[n] # "failed"

RecordNode(n) ==
  Whole(n) => /\ record[n].status = "success" \/ record[n] = NoRun
              /\ at[n] \in {"ran", "kept"} => run[n].status = "success"

RecordLink(x, i) ==
  LET n == Src(x, i) IN
  ~Feeds(x, i) /\ Whole(n) =>
    Of(x, record[n], i) = sent[i] \o (IF at[n] = "kept" THEN Of(x, run[n], i) ELSE <<>>)

RecordInv(x) == (\A n \in Nodes : RecordNode(n)) /\ \A i \in Lnk(x) : RecordLink(x, i)

LEMMA OfTypes ==
  ASSUME NEW x, Sound(x), NEW r \in NodeRun, NEW i \in Lnk(x)
  PROVE  Of(x, r, i) \in Seq(Items)
<1>1. r.outs \in [Port -> Seq(Items)] /\ r.errs \in Seq(Items) /\ Out(x, i) \in Port
  BY DEF NodeRun, Outputs, Sound
<1> QED BY <1>1 DEF Of

LEMMA OfNothing == ASSUME NEW x, Sound(x), NEW i \in Lnk(x) PROVE Of(x, NoRun, i) = <<>>
BY EmptyTypes DEF Of, Sound, NoOutput

\* A node moves between places other than "kept" and "failed".
LEMMA RecordMoves ==
  ASSUME NEW x, Sound(x), Typed(x), RecordInv(x), NEW n, NEW a, Moves(n, a),
         at[n] \in {"idle", "run"}, a \in {"run", "ran", "failing"},
         a = "ran" => n \in flawed' \/ run'[n].status = "success",
         \A m \in Nodes \ {n} : run'[m] = run[m],
         flawed \subseteq flawed', UNCHANGED <<record, sent>>
  PROVE  RecordInv(x)'
<1>1. n \in Nodes /\ at'[n] = a /\ \A m \in Nodes \ {n} : at'[m] = at[m]
  BY MoveEffects DEF Moves
<1>2. \A m \in Nodes : /\ Whole(m)' => Whole(m)
                       /\ at'[m] = "kept" <=> at[m] = "kept"
  BY <1>1 DEF Whole
<1>3. ASSUME NEW m \in Nodes PROVE RecordNode(m)'
  <2>1. RecordNode(m)
    BY DEF RecordInv
  <2>2. CASE m = n
    BY <1>1, <1>2, <2>1, <2>2 DEF RecordNode, Whole
  <2>3. CASE m # n
    BY <1>1, <1>2, <2>1, <2>3 DEF RecordNode
  <2> QED BY <2>2, <2>3
<1>4. ASSUME NEW i \in Lnk(x) PROVE RecordLink(x, i)'
  <2>1. RecordLink(x, i) /\ Src(x, i) \in Nodes
    BY LinkFacts DEF RecordInv
  <2>2. at'[Src(x, i)] = "kept" => run'[Src(x, i)] = run[Src(x, i)]
    BY <1>1, <2>1
  <2> QED BY <1>2, <2>1, <2>2 DEF RecordLink, Of, Feeds
<1> QED BY <1>3, <1>4 DEF RecordInv

LEMMA RecordStarts ==
  ASSUME NEW x, Sound(x), Typed(x), RecordInv(x), NEW n, NEW where, NEW r, Starts(x, n, where, r)
  PROVE  RecordInv(x)'
<1>1. /\ n \in Nodes /\ at[n] = "idle" /\ where \in {"ran", "run"} /\ run' = [run EXCEPT ![n] = r]
      /\ at' = [at EXCEPT ![n] = where] /\ flawed \subseteq flawed' /\ UNCHANGED <<record, sent>>
      /\ where = "ran" => n \in flawed' \/ r.status = "success"
  BY DEF Starts, Readied, Typed
<1>2. run'[n] = r /\ \A m \in Nodes \ {n} : run'[m] = run[m]
  BY <1>1 DEF Typed
<1>3. Moves(n, where)
  BY <1>1 DEF Moves
<1> QED BY <1>1, <1>2, <1>3, RecordMoves

LEMMA RecordExecuted ==
  ASSUME NEW x, Sound(x), Typed(x), RecordInv(x), NEW n, NEW r, Executed(x, n, r)
  PROVE  RecordInv(x)'
<1>1. /\ n \in Nodes /\ at[n] = "run" /\ run' = [run EXCEPT ![n] = r]
      /\ at' = [at EXCEPT ![n] = "ran"] /\ flawed \subseteq flawed' /\ UNCHANGED <<record, sent>>
      /\ n \in flawed' \/ r.status = "success"
  BY DEF Executed, Typed
<1>2. run'[n] = r /\ \A m \in Nodes \ {n} : run'[m] = run[m]
  BY <1>1 DEF Typed
<1>3. Moves(n, "ran")
  BY <1>1 DEF Moves
<1> QED BY <1>1, <1>2, <1>3, RecordMoves

LEMMA RecordBroken ==
  ASSUME NEW x, Sound(x), Typed(x), RecordInv(x), NEW n, Broken(x, n)
  PROVE  RecordInv(x)'
<1>1. /\ n \in Nodes /\ at[n] = "run" /\ at' = [at EXCEPT ![n] = "failing"]
      /\ UNCHANGED <<flawed, record, sent>>
      /\ \A m \in Nodes \ {n} : run'[m] = run[m]
  BY DEF Broken, Typed
<1>2. Moves(n, "failing")
  BY <1>1 DEF Moves
<1> QED BY <1>1, <1>2, RecordMoves

LEMMA RecordPersisted ==
  ASSUME NEW x, Sound(x), Typed(x), RecordInv(x), NEW n, Persisted(x, n)
  PROVE  RecordInv(x)'
<1> DEFINE a == IF at[n] = "ran" THEN "kept" ELSE "failed"
<1>1. /\ n \in Nodes /\ at[n] \in {"ran", "failing"} /\ at' = [at EXCEPT ![n] = a]
      /\ record' = [record EXCEPT ![n] = Merged(record[n], run[n])]
      /\ UNCHANGED <<run, flawed, sent>>
  BY DEF Persisted, Typed
<1>2. (at[n] = "ran" /\ a = "kept") \/ (at[n] = "failing" /\ a = "failed")
  BY <1>1
<1> HIDE DEF a
<1>3. /\ at'[n] = a /\ record'[n] = Merged(record[n], run[n])
      /\ \A m \in Nodes \ {n} : at'[m] = at[m] /\ record'[m] = record[m]
  BY <1>1 DEF Typed
<1>4. record[n] \in NodeRun /\ run[n] \in NodeRun /\ RecordNode(n)
  BY <1>1 DEF Typed, RecordInv
<1>5. /\ Merged(record[n], run[n]) \in NodeRun
      /\ record[n].status # "success" \/ run[n].status # "success" => Merged(record[n], run[n]) = run[n]
      /\ record[n].status = "success" /\ run[n].status = "success" =>
           /\ Merged(record[n], run[n]).status = "success"
           /\ Merged(record[n], run[n]).errs = record[n].errs \o run[n].errs
           /\ \A p \in Port : Merged(record[n], run[n]).outs[p] = record[n].outs[p] \o run[n].outs[p]
  BY <1>4, MergedIs
<1>6. Whole(n)' => /\ a = "kept" /\ Whole(n) /\ run[n].status = "success"
                   /\ record[n].status = "success" \/ record[n] = NoRun
  BY <1>1, <1>2, <1>3, <1>4 DEF Whole, RecordNode
<1>7. ASSUME NEW m \in Nodes PROVE RecordNode(m)'
  <2>1. RecordNode(m)
    BY DEF RecordInv
  <2>2. CASE m = n
    BY <1>1, <1>3, <1>5, <1>6, <2>2, EmptyTypes DEF RecordNode
  <2>3. CASE m # n
    BY <1>1, <1>3, <2>1, <2>3 DEF RecordNode, Whole
  <2> QED BY <2>2, <2>3
<1>8. ASSUME NEW i \in Lnk(x) PROVE RecordLink(x, i)'
  <2>1. RecordLink(x, i) /\ Src(x, i) \in Nodes
    BY LinkFacts DEF RecordInv
  <2>2. CASE Src(x, i) = n
    <3> SUFFICES ASSUME ~Feeds(x, i), Whole(n)'
                 PROVE  Of(x, record'[n], i) = sent'[i] \o Of(x, run'[n], i)
      BY <1>3, <1>6, <2>2 DEF RecordLink, Of, Feeds
    <3>1. Of(x, record[n], i) = sent[i]
      <4>1. sent[i] \in Seq(Items)
        BY DEF Typed
      <4>2. sent[i] \o <<>> = sent[i]
        BY <4>1
      <4> QED BY <1>1, <1>6, <2>1, <2>2, <4>2 DEF RecordLink
    <3>2. CASE record[n].status = "success"
      <4>1. Of(x, Merged(record[n], run[n]), i) = Of(x, record[n], i) \o Of(x, run[n], i)
        BY <1>5, <1>6, <3>2 DEF Of, Sound
      <4> QED BY <1>1, <1>3, <3>1, <4>1
    <3>3. CASE record[n] = NoRun
      <4>1. record'[n] = run[n]
        BY <1>3, <1>5, <3>3, EmptyTypes
      <4>2. Of(x, run[n], i) \in Seq(Items) /\ sent[i] = <<>>
        BY <1>4, <3>1, <3>3, OfTypes, OfNothing
      <4>3. <<>> \o Of(x, run[n], i) = Of(x, run[n], i)
        BY <4>2
      <4> QED BY <1>1, <4>1, <4>2, <4>3
    <3> QED BY <1>6, <3>2, <3>3
  <2>3. CASE Src(x, i) # n
    BY <1>1, <1>3, <2>1, <2>3 DEF RecordLink, Whole, Of, Feeds
  <2> QED BY <2>2, <2>3
<1> QED BY <1>7, <1>8 DEF RecordInv

LEMMA RecordPublished ==
  ASSUME NEW x, Sound(x), Typed(x), RecordInv(x), NEW n, Published(x, n)
  PROVE  RecordInv(x)'
<1>1. /\ n \in Nodes /\ at[n] = "kept" /\ at' = [at EXCEPT ![n] = "done"] /\ run' = [run EXCEPT ![n] = NoRun]
      /\ UNCHANGED <<flawed, record>>
      /\ \A i \in Lnk(x) : sent'[i] = IF Src(x, i) # n THEN sent[i] ELSE sent[i] \o Of(x, run[n], i)
  BY DEF Published, Typed, Of
<1>2. at'[n] = "done" /\ \A m \in Nodes \ {n} : at'[m] = at[m] /\ run'[m] = run[m]
  BY <1>1 DEF Typed
<1>3. \A m \in Nodes : Whole(m)' <=> Whole(m)
  BY <1>1, <1>2 DEF Whole
<1>4. ASSUME NEW m \in Nodes PROVE RecordNode(m)'
  <2>1. RecordNode(m)
    BY DEF RecordInv
  <2> QED BY <1>1, <1>2, <1>3, <2>1 DEF RecordNode
<1>5. ASSUME NEW i \in Lnk(x) PROVE RecordLink(x, i)'
  <2>1. RecordLink(x, i) /\ Src(x, i) \in Nodes
    BY LinkFacts DEF RecordInv
  <2>2. CASE Src(x, i) = n
    <3>1. sent[i] \o Of(x, run[n], i) \in Seq(Items)
      <4>1. sent[i] \in Seq(Items) /\ run[n] \in NodeRun
        BY <1>1 DEF Typed
      <4>2. Of(x, run[n], i) \in Seq(Items)
        BY <4>1, OfTypes
      <4> QED BY <4>1, <4>2, ConcatProperties
    <3>2. sent'[i] = sent[i] \o Of(x, run[n], i)
      BY <1>1, <2>2
    <3>3. sent'[i] \o <<>> = sent'[i]
      <4>1. sent'[i] \in Seq(Items)
        BY <3>1, <3>2
      <4> QED BY <4>1
    <3>4. ~Feeds(x, i) /\ Whole(n) => Of(x, record[n], i) = sent'[i] \o <<>>
      BY <1>1, <2>1, <2>2, <3>2, <3>3 DEF RecordLink
    <3> QED BY <1>1, <1>2, <1>3, <2>2, <3>4 DEF RecordLink, Of, Feeds
  <2>3. CASE Src(x, i) # n
    BY <1>1, <1>2, <1>3, <2>1, <2>3 DEF RecordLink, Of, Feeds
  <2> QED BY <2>2, <2>3
<1> QED BY <1>4, <1>5 DEF RecordInv

LEMMA RecordBatch ==
  ASSUME NEW x, Sound(x), Typed(x), RecordInv(x), NEW lp, NEW b, NEW q, Rebatch(x, lp, b, q)
  PROVE  RecordInv(x)'
<1>1. /\ lp \in Nodes /\ at'[lp] = "loop"
      /\ \A n \in Nodes : Own(x, n) = lp => at'[n] = "idle" /\ n # lp
      /\ \A n \in Nodes : n # lp /\ Own(x, n) # lp => at'[n] = at[n]
  BY BatchEffects
<1>2. /\ lp \in W(x).loops /\ at[lp] \in {"idle", "loop"} /\ UNCHANGED <<record, flawed>>
      /\ \A n \in Nodes \ {lp} : run'[n] = run[n]
      /\ \A n \in Nodes : Own(x, n) = lp => at[n] \in {"idle", "done"}
      /\ b[0] = <<>>
      /\ \A i \in Lnk(x) :
           sent'[i] = IF Src(x, i) # lp THEN sent[i] ELSE sent[i] \o IF Err(x, i) THEN <<>> ELSE b[Out(x, i)]
  BY DEF Rebatch, Batched
<1>3. \A n \in Nodes : /\ Whole(n)' <=> Whole(n)
                       /\ at'[n] = "kept" <=> at[n] = "kept"
                       /\ at'[n] \in {"ran", "kept"} => at[n] \in {"ran", "kept"} /\ run'[n] = run[n]
  <2> TAKE n \in Nodes
  <2>1. CASE n = lp
    BY <1>1, <1>2, <2>1 DEF Whole
  <2>2. CASE Own(x, n) = lp
    BY <1>1, <1>2, <2>2 DEF Whole
  <2>3. CASE n # lp /\ Own(x, n) # lp
    BY <1>1, <1>2, <2>3 DEF Whole
  <2> QED BY <2>1, <2>2, <2>3
<1>4. ASSUME NEW n \in Nodes PROVE RecordNode(n)'
  <2>1. RecordNode(n)
    BY DEF RecordInv
  <2> QED BY <1>2, <1>3, <2>1 DEF RecordNode
<1>5. ASSUME NEW i \in Lnk(x), ~Feeds(x, i) PROVE RecordLink(x, i)'
  <2>1. RecordLink(x, i) /\ Src(x, i) \in Nodes /\ Out(x, i) \in {0, 1}
    BY LinkFacts DEF RecordInv
  <2>2. sent'[i] = sent[i]
    <3>1. CASE Src(x, i) = lp
      <4>1. sent[i] \in Seq(Items) /\ (Err(x, i) \/ Out(x, i) = 0)
        BY <1>2, <1>5, <2>1, <3>1 DEF Feeds, Typed
      <4>2. sent[i] \o <<>> = sent[i]
        BY <4>1
      <4> QED BY <1>2, <3>1, <4>1, <4>2
    <3>2. CASE Src(x, i) # lp
      BY <1>2, <3>2
    <3> QED BY <3>1, <3>2
  <2> QED BY <1>2, <1>3, <2>1, <2>2 DEF RecordLink, Of, Feeds
<1>6. \A i \in Lnk(x) : Feeds(x, i) => RecordLink(x, i)'
  BY DEF RecordLink, Feeds
<1> QED BY <1>4, <1>5, <1>6 DEF RecordInv

LEMMA RecordLoopOver ==
  ASSUME NEW x, Sound(x), Typed(x), RecordInv(x), NEW lp, NEW back, BatchOver(x, lp, back),
         NEW r, LoopOver(x, lp, r)
  PROVE  RecordInv(x)'
<1>1. /\ lp \in Nodes /\ at[lp] = "loop" /\ run' = [run EXCEPT ![lp] = r] /\ at' = [at EXCEPT ![lp] = "ran"]
      /\ r.status = "success" /\ UNCHANGED <<record, flawed, sent>>
  BY DEF BatchOver, LoopOver, Typed
<1>2. /\ at'[lp] = "ran" /\ run'[lp] = r
      /\ \A n \in Nodes \ {lp} : at'[n] = at[n] /\ run'[n] = run[n]
  BY <1>1 DEF Typed
<1>3. \A n \in Nodes : (Whole(n)' <=> Whole(n)) /\ (at'[n] = "kept" <=> at[n] = "kept")
  BY <1>1, <1>2 DEF Whole
<1>4. ASSUME NEW n \in Nodes PROVE RecordNode(n)'
  <2>1. RecordNode(n)
    BY DEF RecordInv
  <2> QED BY <1>1, <1>2, <1>3, <2>1 DEF RecordNode
<1>5. ASSUME NEW i \in Lnk(x) PROVE RecordLink(x, i)'
  <2>1. RecordLink(x, i) /\ Src(x, i) \in Nodes
    BY LinkFacts DEF RecordInv
  <2>2. at'[Src(x, i)] = "kept" => run'[Src(x, i)] = run[Src(x, i)]
    BY <1>1, <1>2, <2>1
  <2> QED BY <1>1, <1>3, <2>1, <2>2 DEF RecordLink, Of, Feeds
<1> QED BY <1>4, <1>5 DEF RecordInv

LEMMA RecordBlank == ASSUME NEW x, Sound(x), Blank(x) PROVE RecordInv(x)
<1>1. \A n \in Nodes : record[n] = NoRun /\ at[n] = "idle"
  BY DEF Blank
<1>2. \A n \in Nodes : RecordNode(n)
  BY <1>1 DEF RecordNode
<1>3. ASSUME NEW i \in Lnk(x) PROVE RecordLink(x, i)
  <2>1. Src(x, i) \in Nodes /\ sent[i] = <<>> /\ <<>> \o <<>> = <<>>
    BY LinkFacts DEF Blank
  <2> QED BY <1>1, <2>1, OfNothing DEF RecordLink
<1> QED BY <1>2, <1>3 DEF RecordInv

-----------------------------------------------------------------------------
(* What a node has produced, in the batches of its loop taken together.    *)

\* Of a connection from a node outside of loops, or in a loop that is.
Sum(x, i) ==
  LET n == Src(x, i)
      p == Out(x, i)
      o == Own(x, n)
  IN  IF o = None THEN IF at[n] = "done" THEN produced[n][p] ELSE <<>>
      ELSE IF at[o] = "loop" THEN totals[n][p] \o (IF at[n] = "done" THEN produced[n][p] ELSE <<>>)
      ELSE IF at[o] = "done" THEN produced[n][p]
      ELSE IF run[o].status = "success" THEN totals[n][p] ELSE produced[n][p]

\* Nothing was produced in a loop that has not begun.
Unbegun(x, i) ==
  LET n == Src(x, i)
      p == Out(x, i)
      o == Own(x, n)
  IN  o # None /\ at[o] \in {"idle", "run", "failing", "failed"} => totals[n][p] = <<>> /\ produced[n][p] = <<>>

Shallow(x, n) == Own(x, n) = None \/ Own(x, Own(x, n)) = None

SumLink(x, i) ==
  ~Feeds(x, i) /\ ~Err(x, i) /\ Shallow(x, Src(x, i)) => sent[i] = Sum(x, i) /\ Unbegun(x, i)

SumInv(x) == \A i \in Lnk(x) : SumLink(x, i)

LEMMA OwnerFacts ==
  ASSUME NEW x, Sound(x), NEW i \in Lnk(x)
  PROVE  /\ Src(x, i) \in Nodes /\ Src(x, i) \in W(x).nodes /\ Out(x, i) \in {0, 1} /\ Out(x, i) \in Port
         /\ Own(x, Src(x, i)) # Src(x, i) /\ None \notin Nodes
         /\ Own(x, Src(x, i)) # None => Own(x, Src(x, i)) \in Nodes
BY DEF Sound, Port

LEMMA Totals ==
  ASSUME NEW x, Sound(x), Typed(x), NEW i \in Lnk(x)
  PROVE  /\ produced[Src(x, i)][Out(x, i)] \in Seq(Items)
         /\ totals[Src(x, i)][Out(x, i)] \in Seq(Items) /\ sent[i] \in Seq(Items)
         /\ sent[i] \o <<>> = sent[i] /\ <<>> \o produced[Src(x, i)][Out(x, i)] = produced[Src(x, i)][Out(x, i)]
         /\ totals[Src(x, i)][Out(x, i)] \o <<>> = totals[Src(x, i)][Out(x, i)]
<1>1. produced \in [Nodes -> [Port -> Seq(Items)]] /\ totals \in [Nodes -> [Port -> Seq(Items)]]
  BY DEF Typed, Outputs
<1>2. produced[Src(x, i)][Out(x, i)] \in Seq(Items) /\ totals[Src(x, i)][Out(x, i)] \in Seq(Items)
  BY <1>1, OwnerFacts
<1>3. sent[i] \in Seq(Items)
  BY DEF Typed
<1> QED BY <1>2, <1>3

\* A node moves without a batch starting or ending.
LEMMA SumMoves ==
  ASSUME NEW x, Sound(x), Typed(x), SumInv(x), NEW n, NEW a, Moves(n, a),
         \/ at[n] = "idle" /\ a \in {"run", "ran"}
         \/ at[n] = "run" /\ a \in {"ran", "failing"}
         \/ at[n] = "ran" /\ a = "kept"
         \/ at[n] = "failing" /\ a = "failed",
         at[n] = "ran" => run'[n] = run[n],
         \A m \in Nodes \ {n} : run'[m] = run[m],
         UNCHANGED <<produced, totals, sent>>
  PROVE  SumInv(x)'
<1>1. n \in Nodes /\ at'[n] = a /\ \A m \in Nodes \ {n} : at'[m] = at[m]
  BY MoveEffects DEF Moves
<1>2. ASSUME NEW i \in Lnk(x) PROVE SumLink(x, i)'
  <2>1. SumLink(x, i)
    BY DEF SumInv
  <2>2. /\ Src(x, i) \in Nodes /\ Own(x, Src(x, i)) # Src(x, i)
        /\ Own(x, Src(x, i)) # None => Own(x, Src(x, i)) \in Nodes
    BY OwnerFacts
  <2>3. at'[Src(x, i)] = "done" <=> at[Src(x, i)] = "done"
    BY <1>1, <2>2
  <2>4. CASE Own(x, Src(x, i)) = n
    BY <1>1, <2>1, <2>2, <2>3, <2>4 DEF SumLink, Sum, Unbegun, Feeds
  <2>5. CASE Own(x, Src(x, i)) # n
    BY <1>1, <2>1, <2>2, <2>3, <2>5 DEF SumLink, Sum, Unbegun, Feeds
  <2> QED BY <2>4, <2>5
<1> QED BY <1>2 DEF SumInv

LEMMA SumStarts ==
  ASSUME NEW x, Sound(x), Typed(x), SumInv(x), NEW n, NEW where, NEW r, Starts(x, n, where, r)
  PROVE  SumInv(x)'
<1>1. /\ n \in Nodes /\ at[n] = "idle" /\ where \in {"ran", "run"} /\ run' = [run EXCEPT ![n] = r]
      /\ at' = [at EXCEPT ![n] = where] /\ UNCHANGED <<produced, totals, sent>>
  BY DEF Starts, Readied, Typed
<1>2. \A m \in Nodes \ {n} : run'[m] = run[m]
  BY <1>1 DEF Typed
<1>3. Moves(n, where)
  BY <1>1 DEF Moves
<1> QED BY <1>1, <1>2, <1>3, SumMoves

LEMMA SumExecuted ==
  ASSUME NEW x, Sound(x), Typed(x), SumInv(x), NEW n, NEW r, Executed(x, n, r)
  PROVE  SumInv(x)'
<1>1. /\ n \in Nodes /\ at[n] = "run" /\ run' = [run EXCEPT ![n] = r]
      /\ at' = [at EXCEPT ![n] = "ran"] /\ UNCHANGED <<produced, totals, sent>>
  BY DEF Executed, Typed
<1>2. \A m \in Nodes \ {n} : run'[m] = run[m]
  BY <1>1 DEF Typed
<1>3. Moves(n, "ran")
  BY <1>1 DEF Moves
<1> QED BY <1>1, <1>2, <1>3, SumMoves

LEMMA SumBroken ==
  ASSUME NEW x, Sound(x), Typed(x), SumInv(x), NEW n, Broken(x, n)
  PROVE  SumInv(x)'
<1>1. /\ n \in Nodes /\ at[n] = "run" /\ at' = [at EXCEPT ![n] = "failing"]
      /\ UNCHANGED <<produced, totals, sent>> /\ \A m \in Nodes \ {n} : run'[m] = run[m]
  BY DEF Broken, Typed
<1>2. Moves(n, "failing")
  BY <1>1 DEF Moves
<1> QED BY <1>1, <1>2, SumMoves

LEMMA SumPersisted ==
  ASSUME NEW x, Sound(x), Typed(x), SumInv(x), NEW n, Persisted(x, n)
  PROVE  SumInv(x)'
<1> DEFINE a == IF at[n] = "ran" THEN "kept" ELSE "failed"
<1>1. n \in Nodes /\ at' = [at EXCEPT ![n] = a] /\ UNCHANGED <<run, produced, totals, sent>>
  BY DEF Persisted, Typed
<1>2. (at[n] = "ran" /\ a = "kept") \/ (at[n] = "failing" /\ a = "failed")
  BY DEF Persisted
<1> HIDE DEF a
<1>3. Moves(n, a)
  BY <1>1, <1>2 DEF Moves
<1> QED BY <1>1, <1>2, <1>3, SumMoves

LEMMA SumPublished ==
  ASSUME NEW x, Sound(x), Typed(x), AtInv(x), SumInv(x), NEW n, Published(x, n)
  PROVE  SumInv(x)'
<1>1. /\ n \in Nodes /\ at[n] = "kept" /\ at' = [at EXCEPT ![n] = "done"] /\ run' = [run EXCEPT ![n] = NoRun]
      /\ totals' = totals /\ run[n] \in NodeRun
      /\ \A i \in Lnk(x) : sent'[i] = IF Src(x, i) # n THEN sent[i]
           ELSE sent[i] \o IF Err(x, i) THEN run[n].errs ELSE run[n].outs[Out(x, i)]
      /\ \A m \in Nodes : produced'[m] = IF m = n THEN run[n].outs
                                         ELSE IF Own(x, m) = n /\ run[n].status = "success" THEN totals[m]
                                         ELSE produced[m]
  BY DEF Published, Typed
<1>2. at'[n] = "done" /\ \A m \in Nodes \ {n} : at'[m] = at[m] /\ run'[m] = run[m]
  BY <1>1 DEF Typed
<1>3. Open(x, n)
  BY <1>1 DEF AtInv, NodeInv
<1>4. ASSUME NEW i \in Lnk(x), ~Feeds(x, i), ~Err(x, i), Shallow(x, Src(x, i))
      PROVE  sent'[i] = Sum(x, i)' /\ Unbegun(x, i)'
  <2>1. sent[i] = Sum(x, i) /\ Unbegun(x, i)
    BY <1>4 DEF SumInv, SumLink
  <2>2. /\ Src(x, i) \in Nodes /\ Own(x, Src(x, i)) # Src(x, i) /\ Out(x, i) \in Port
        /\ Own(x, Src(x, i)) # None => Own(x, Src(x, i)) \in Nodes
    BY OwnerFacts
  <2>3. totals[Src(x, i)][Out(x, i)] \o <<>> = totals[Src(x, i)][Out(x, i)]
    BY Totals
  <2>4. CASE Src(x, i) = n
    <3>1. sent'[i] = sent[i] \o run[n].outs[Out(x, i)] /\ produced'[n] = run[n].outs
      BY <1>1, <1>4, <2>4
    <3>2. CASE Own(x, n) = None
      <4>1. run[n].outs[Out(x, i)] \in Seq(Items)
        BY <1>1, <2>2 DEF NodeRun, Outputs
      <4>2. sent[i] = <<>> /\ <<>> \o run[n].outs[Out(x, i)] = run[n].outs[Out(x, i)]
        BY <1>1, <2>1, <2>4, <3>2, <4>1 DEF Sum
      <4> QED BY <1>2, <2>4, <3>1, <3>2, <4>2 DEF Sum, Unbegun
    <3>3. CASE Own(x, n) # None
      <4>1. at[Own(x, n)] = "loop" /\ at'[Own(x, n)] = "loop"
        BY <1>1, <1>2, <1>3, <2>2, <2>4, <3>3 DEF Open
      <4>2. sent[i] = totals[n][Out(x, i)]
        BY <1>1, <2>1, <2>3, <2>4, <3>3, <4>1 DEF Sum
      <4> QED BY <1>1, <1>2, <2>4, <3>1, <3>3, <4>1, <4>2 DEF Sum, Unbegun
    <3> QED BY <3>2, <3>3
  <2>5. CASE Src(x, i) # n /\ Own(x, Src(x, i)) = n
    <3>1. at[n] = "kept" /\ at'[n] = "done" /\ n # None /\ sent'[i] = sent[i]
      BY <1>1, <1>2, <2>5 DEF Sound
    <3>2. sent[i] = IF run[n].status = "success" THEN totals[Src(x, i)][Out(x, i)] ELSE produced[Src(x, i)][Out(x, i)]
      BY <2>1, <2>5, <3>1 DEF Sum
    <3>3. sent[i] = produced'[Src(x, i)][Out(x, i)]
      BY <1>1, <2>2, <2>5, <3>2
    <3> QED BY <2>5, <3>1, <3>3 DEF Sum, Unbegun
  <2>6. CASE Src(x, i) # n /\ Own(x, Src(x, i)) # n
    <3>1. /\ produced'[Src(x, i)] = produced[Src(x, i)] /\ at'[Src(x, i)] = at[Src(x, i)] /\ sent'[i] = sent[i]
          /\ Own(x, Src(x, i)) # None => /\ at'[Own(x, Src(x, i))] = at[Own(x, Src(x, i))]
                                         /\ run'[Own(x, Src(x, i))] = run[Own(x, Src(x, i))]
      BY <1>1, <1>2, <2>2, <2>6
    <3> QED BY <1>1, <2>1, <3>1 DEF Sum, Unbegun
  <2> QED BY <2>4, <2>5, <2>6
<1> QED BY <1>4 DEF SumInv, SumLink, Feeds, Shallow

\* A batch starts: totals already holds what the one before produced.
LEMMA SumBatch ==
  ASSUME NEW x, Sound(x), Typed(x), AtInv(x), SumInv(x), NEW lp, NEW b, NEW q, Rebatch(x, lp, b, q),
         \/ /\ at[lp] = "idle"
            /\ totals' = [n \in Nodes |-> IF Own(x, n) = lp THEN NoOutput ELSE totals[n]]
         \/ /\ at[lp] = "loop" /\ \A n \in Mem(x, lp) : at[n] = "done"
            /\ totals' = [n \in Nodes |->
                 IF Own(x, n) = lp THEN [p \in Port |-> totals[n][p] \o produced[n][p]] ELSE totals[n]]
  PROVE  SumInv(x)'
<1>1. /\ lp \in Nodes /\ Own(x, lp) # lp /\ at'[lp] = "loop"
      /\ \A n \in Nodes : Own(x, n) = lp => at'[n] = "idle" /\ n # lp
      /\ \A n \in Nodes : n # lp /\ Own(x, n) # lp => at'[n] = at[n]
  BY BatchEffects
<1>2. /\ lp \in W(x).loops /\ lp # None /\ Open(x, lp) /\ at[lp] \in {"idle", "loop"} /\ b[0] = <<>>
      /\ \A n \in Nodes \ {lp} : run'[n] = run[n]
      /\ \A n \in Nodes : n # lp /\ Own(x, n) # lp => produced'[n] = produced[n]
      /\ \A i \in Lnk(x) :
           sent'[i] = IF Src(x, i) # lp THEN sent[i] ELSE sent[i] \o IF Err(x, i) THEN <<>> ELSE b[Out(x, i)]
  BY <1>1 DEF Rebatch, Batched, Sound
<1>3. \A n \in Nodes : Own(x, n) # lp => totals'[n] = totals[n]
  OBVIOUS
<1>4. ASSUME NEW i \in Lnk(x), ~Feeds(x, i), ~Err(x, i), Shallow(x, Src(x, i))
      PROVE  sent'[i] = Sum(x, i)' /\ Unbegun(x, i)'
  <2>1. sent[i] = Sum(x, i) /\ Unbegun(x, i)
    BY <1>4 DEF SumInv, SumLink
  <2>2. /\ Src(x, i) \in Nodes /\ Own(x, Src(x, i)) # Src(x, i) /\ Out(x, i) \in {0, 1} /\ Out(x, i) \in Port
        /\ Src(x, i) \in W(x).nodes
        /\ Own(x, Src(x, i)) # None => Own(x, Src(x, i)) \in Nodes
    BY OwnerFacts
  <2>3. /\ totals[Src(x, i)][Out(x, i)] \o <<>> = totals[Src(x, i)][Out(x, i)]
        /\ sent[i] \o <<>> = sent[i] /\ sent[i] \in Seq(Items) /\ <<>> \o <<>> = <<>>
    BY Totals
  <2>4. CASE Src(x, i) = lp
    <3>1. sent'[i] = sent[i]
      <4>1. Out(x, i) = 0
        BY <1>2, <1>4, <2>2, <2>4 DEF Feeds
      <4> QED BY <1>2, <1>4, <2>3, <2>4, <4>1
    <3>2. CASE Own(x, lp) = None
      BY <1>1, <1>2, <2>1, <2>4, <3>1, <3>2 DEF Sum, Unbegun
    <3>3. CASE Own(x, lp) # None
      <4>1. at[Own(x, lp)] = "loop" /\ at'[Own(x, lp)] = "loop"
        <5>1. at[Own(x, lp)] = "loop" /\ Own(x, lp) \in Nodes
          BY <1>2, <2>2, <2>4, <3>3 DEF Open
        <5>2. Own(x, Own(x, lp)) # lp
          BY <1>2, <1>4, <2>4, <3>3 DEF Shallow
        <5> QED BY <1>1, <5>1, <5>2
      <4>2. totals'[lp] = totals[lp]
        BY <1>1, <1>3
      <4> QED BY <1>1, <1>2, <2>1, <2>4, <3>1, <3>3, <4>1, <4>2 DEF Sum, Unbegun
    <3> QED BY <3>2, <3>3
  <2>5. CASE Own(x, Src(x, i)) = lp
    <3>1. sent'[i] = sent[i] /\ at'[Src(x, i)] = "idle"
      BY <1>1, <1>2, <2>2, <2>5
    <3>2. sent[i] = totals'[Src(x, i)][Out(x, i)]
      <4>1. CASE at[lp] = "idle" /\ totals' = [n \in Nodes |-> IF Own(x, n) = lp THEN NoOutput ELSE totals[n]]
        <5>1. totals'[Src(x, i)][Out(x, i)] = <<>>
          BY <2>2, <2>5, <4>1 DEF NoOutput
        <5>2. totals[Src(x, i)][Out(x, i)] = <<>> /\ produced[Src(x, i)][Out(x, i)] = <<>>
          BY <1>2, <2>1, <2>5, <4>1 DEF Unbegun
        <5>3. sent[i] = <<>>
          BY <1>2, <2>1, <2>5, <4>1, <5>2 DEF Sum
        <5> QED BY <5>1, <5>3
      <4>2. CASE /\ at[lp] = "loop" /\ \A n \in Mem(x, lp) : at[n] = "done"
                 /\ totals' = [n \in Nodes |->
                      IF Own(x, n) = lp THEN [p \in Port |-> totals[n][p] \o produced[n][p]] ELSE totals[n]]
        <5>1. at[Src(x, i)] = "done"
          BY <2>2, <2>5, <4>2 DEF Mem
        <5>2. totals'[Src(x, i)][Out(x, i)] = totals[Src(x, i)][Out(x, i)] \o produced[Src(x, i)][Out(x, i)]
          BY <2>2, <2>5, <4>2
        <5> QED BY <1>2, <2>1, <2>5, <4>2, <5>1, <5>2 DEF Sum
      <4> QED BY <4>1, <4>2
    <3>3. totals'[Src(x, i)][Out(x, i)] \o <<>> = totals'[Src(x, i)][Out(x, i)]
      BY <2>3, <3>2
    <3> QED BY <1>1, <1>2, <2>5, <3>1, <3>2, <3>3 DEF Sum, Unbegun
  <2>6. CASE Src(x, i) # lp /\ Own(x, Src(x, i)) # lp
    <3>1. /\ produced'[Src(x, i)] = produced[Src(x, i)] /\ at'[Src(x, i)] = at[Src(x, i)]
          /\ sent'[i] = sent[i] /\ totals'[Src(x, i)] = totals[Src(x, i)]
      BY <1>1, <1>2, <1>3, <2>2, <2>6
    <3>2. Own(x, Src(x, i)) # None => /\ at'[Own(x, Src(x, i))] = at[Own(x, Src(x, i))]
                                      /\ run'[Own(x, Src(x, i))] = run[Own(x, Src(x, i))]
      <4> HAVE Own(x, Src(x, i)) # None
      <4>1. Own(x, Src(x, i)) \in Nodes /\ Own(x, Own(x, Src(x, i))) # lp
        BY <1>2, <1>4, <2>2 DEF Shallow
      <4> QED BY <1>1, <1>2, <2>6, <4>1
    <3> QED BY <2>1, <3>1, <3>2 DEF Sum, Unbegun
  <2> QED BY <2>4, <2>5, <2>6
<1> QED BY <1>4 DEF SumInv, SumLink, Feeds, Shallow

LEMMA SumLoopOver ==
  ASSUME NEW x, Sound(x), Typed(x), AtInv(x), SumInv(x), NEW lp, NEW back, BatchOver(x, lp, back),
         NEW r, LoopOver(x, lp, r)
  PROVE  SumInv(x)'
<1>1. /\ lp \in Nodes /\ at[lp] = "loop" /\ run' = [run EXCEPT ![lp] = r] /\ at' = [at EXCEPT ![lp] = "ran"]
      /\ r.status = "success" /\ UNCHANGED <<produced, sent>>
      /\ \A n \in Mem(x, lp) : at[n] = "done"
      /\ totals' = [n \in Nodes |->
           IF Own(x, n) = lp THEN [p \in Port |-> totals[n][p] \o produced[n][p]] ELSE totals[n]]
  BY DEF BatchOver, LoopOver, Typed
<1>2. /\ at'[lp] = "ran" /\ run'[lp] = r
      /\ \A n \in Nodes \ {lp} : at'[n] = at[n] /\ run'[n] = run[n]
  BY <1>1 DEF Typed
<1>3. ASSUME NEW i \in Lnk(x), ~Feeds(x, i), ~Err(x, i), Shallow(x, Src(x, i))
      PROVE  sent'[i] = Sum(x, i)' /\ Unbegun(x, i)'
  <2>1. sent[i] = Sum(x, i) /\ Unbegun(x, i)
    BY <1>3 DEF SumInv, SumLink
  <2>2. /\ Src(x, i) \in Nodes /\ Own(x, Src(x, i)) # Src(x, i) /\ Out(x, i) \in Port
        /\ Src(x, i) \in W(x).nodes
        /\ Own(x, Src(x, i)) # None => Own(x, Src(x, i)) \in Nodes
    BY OwnerFacts
  <2>3. CASE Own(x, Src(x, i)) = lp
    <3>1. lp # None /\ at[Src(x, i)] = "done"
      BY <1>1, <2>2, <2>3 DEF Mem, Sound
    <3>2. totals'[Src(x, i)][Out(x, i)] = totals[Src(x, i)][Out(x, i)] \o produced[Src(x, i)][Out(x, i)]
      BY <1>1, <2>2, <2>3
    <3>3. sent[i] = totals'[Src(x, i)][Out(x, i)]
      BY <1>1, <2>1, <2>3, <3>1, <3>2 DEF Sum
    <3> QED BY <1>1, <1>2, <2>3, <3>1, <3>3 DEF Sum, Unbegun
  <2>4. CASE Own(x, Src(x, i)) # lp
    <3>1. /\ totals'[Src(x, i)] = totals[Src(x, i)]
          /\ at'[Src(x, i)] = "done" <=> at[Src(x, i)] = "done"
          /\ Own(x, Src(x, i)) # None => /\ at'[Own(x, Src(x, i))] = at[Own(x, Src(x, i))]
                                         /\ run'[Own(x, Src(x, i))] = run[Own(x, Src(x, i))]
      BY <1>1, <1>2, <2>2, <2>4
    <3> QED BY <1>1, <2>1, <3>1 DEF Sum, Unbegun
  <2> QED BY <2>3, <2>4
<1> QED BY <1>3 DEF SumInv, SumLink, Feeds, Shallow

LEMMA SumBlank == ASSUME NEW x, Sound(x), Blank(x) PROVE SumInv(x)
<1>1. ASSUME NEW i \in Lnk(x) PROVE SumLink(x, i)
  <2>1. /\ Src(x, i) \in Nodes /\ Out(x, i) \in Port
        /\ Own(x, Src(x, i)) # None => Own(x, Src(x, i)) \in Nodes
    BY OwnerFacts
  <2>2. produced[Src(x, i)] = NoOutput /\ totals[Src(x, i)] = NoOutput /\ at[Src(x, i)] = "idle"
    BY <2>1 DEF Blank
  <2>3. produced[Src(x, i)][Out(x, i)] = <<>> /\ totals[Src(x, i)][Out(x, i)] = <<>>
    BY <2>1, <2>2 DEF NoOutput
  <2>4. sent[i] = <<>> /\ (Own(x, Src(x, i)) # None => at[Own(x, Src(x, i))] = "idle")
    BY <2>1 DEF Blank
  <2> QED BY <2>2, <2>3, <2>4 DEF SumLink, Sum, Unbegun
<1> QED BY <1>1 DEF SumInv

\* What the records and the outputs hold when a run is through.
LEMMA SettledRecords ==
  ASSUME NEW x, Sound(x), Typed(x), AtInv(x), RecordInv(x), SumInv(x), Settled(x),
         NEW i \in Lnk(x), ~Feeds(x, i)
  PROVE  /\ Src(x, i) \notin flawed => sent[i] = Of(x, record[Src(x, i)], i)
         /\ ~Err(x, i) /\ Shallow(x, Src(x, i)) => sent[i] = produced[Src(x, i)][Out(x, i)]
<1>1. /\ Src(x, i) \in Nodes /\ Src(x, i) \in W(x).nodes
      /\ Own(x, Src(x, i)) # None => Own(x, Src(x, i)) \in Nodes
  BY OwnerFacts
<1>2. \A n \in Nodes : /\ at[n] # "loop" /\ (Open(x, n) => Own(x, n) = None)
                       /\ n \in W(x).nodes /\ Own(x, n) = None => at[n] = "done"
  BY SettledNodes
<1>3. at[Src(x, i)] \in {"idle", "done"}
  BY <1>1, <1>2 DEF AtInv, NodeInv
<1>4. Src(x, i) \notin flawed => sent[i] = Of(x, record[Src(x, i)], i)
  <2>1. sent[i] \o <<>> = sent[i]
    BY Totals
  <2> QED BY <1>3, <2>1 DEF RecordInv, RecordLink, Whole
<1>5. ASSUME ~Err(x, i), Shallow(x, Src(x, i)) PROVE sent[i] = produced[Src(x, i)][Out(x, i)]
  <2>1. sent[i] = Sum(x, i) /\ Unbegun(x, i)
    BY <1>5 DEF SumInv, SumLink
  <2>2. CASE Own(x, Src(x, i)) = None
    BY <1>1, <1>2, <2>1, <2>2 DEF Sum
  <2>3. CASE Own(x, Src(x, i)) # None
    <3> DEFINE o == Own(x, Src(x, i))
    <3>1. o \in Nodes /\ Own(x, o) = None
      BY <1>1, <1>5, <2>3 DEF Shallow
    <3>2. at[o] \in {"idle", "done"}
      BY <1>2, <3>1 DEF AtInv, NodeInv
    <3> QED BY <2>1, <2>3, <3>2 DEF Sum, Unbegun
  <2> QED BY <2>2, <2>3
<1> QED BY <1>4, <1>5

-----------------------------------------------------------------------------
(* The invariant, and each action's step of it.                            *)

Engine(x) == Typed(x) /\ AtInv(x) /\ ReuseInv(x) /\ FlowInv(x) /\ RecordInv(x) /\ SumInv(x)

\* An accepted workflow is run by the rules; one that is not never starts.
Kept(x) ==
  /\ Typed(x)
  /\ Layout[x].accepted => Engine(x) /\ (status = "success" => Settled(x))
  /\ ~Layout[x].accepted => Blank(x) /\ status \notin {"running", "success"}

IInv == name \in DOMAIN Workflows /\ \A x \in DOMAIN Workflows : x = name => Kept(x)

LEMMA EngineStarts ==
  ASSUME NEW x, Sound(x), Engine(x), NEW n, \E where, r : Starts(x, n, where, r)
  PROVE  Engine(x)' /\ status' = "running"
<1>1. PICK where, r : Starts(x, n, where, r)
  OBVIOUS
<1>2. Typed(x)'
  BY <1>1, TypedStarts DEF Engine
<1>3. AtInv(x)'
  BY <1>1, AtStarts DEF Engine
<1>4. ReuseInv(x)'
  BY <1>1, StartsFits DEF Engine
<1>5. FlowInv(x)'
  BY <1>1, FlowStarts DEF Engine
<1>6. RecordInv(x)'
  BY <1>1, RecordStarts DEF Engine
<1>7. SumInv(x)'
  BY <1>1, SumStarts DEF Engine
<1>8. status' = "running"
  BY <1>1 DEF Starts, Readied
<1> QED BY <1>2, <1>3, <1>4, <1>5, <1>6, <1>7, <1>8 DEF Engine

LEMMA EngineExecuted ==
  ASSUME NEW x, Sound(x), Engine(x), NEW n, NEW r, Executed(x, n, r)
  PROVE  Engine(x)' /\ status' = "running"
<1>1. Typed(x)'
  BY TypedExecuted DEF Engine
<1>2. AtInv(x)'
  BY AtExecuted DEF Engine
<1>3. ReuseInv(x)'
  BY ExecutedFits DEF Engine
<1>4. FlowInv(x)'
  BY FlowExecuted DEF Engine
<1>5. RecordInv(x)'
  BY RecordExecuted DEF Engine
<1>6. SumInv(x)'
  BY SumExecuted DEF Engine
<1>7. status' = "running"
  BY DEF Executed
<1> QED BY <1>1, <1>2, <1>3, <1>4, <1>5, <1>6, <1>7 DEF Engine

LEMMA EngineBroken ==
  ASSUME NEW x, Sound(x), Engine(x), NEW n, Broken(x, n)
  PROVE  Engine(x)' /\ status' = "running"
<1>1. Typed(x)'
  BY TypedBroken DEF Engine
<1>2. AtInv(x)'
  BY AtBroken DEF Engine
<1>3. ReuseInv(x)'
  BY BrokenFits DEF Engine
<1>4. FlowInv(x)'
  BY FlowBroken DEF Engine
<1>5. RecordInv(x)'
  BY RecordBroken DEF Engine
<1>6. SumInv(x)'
  BY SumBroken DEF Engine
<1>7. status' = "running"
  BY DEF Broken
<1> QED BY <1>1, <1>2, <1>3, <1>4, <1>5, <1>6, <1>7 DEF Engine

LEMMA EnginePersisted ==
  ASSUME NEW x, Sound(x), Engine(x), NEW n, Persisted(x, n)
  PROVE  Engine(x)' /\ status' = "running"
<1>1. Typed(x)'
  BY TypedPersisted DEF Engine
<1>2. AtInv(x)'
  BY AtPersisted DEF Engine
<1>3. ReuseInv(x)'
  BY PersistedFits DEF Engine
<1>4. FlowInv(x)'
  BY FlowPersisted DEF Engine
<1>5. RecordInv(x)'
  BY RecordPersisted DEF Engine
<1>6. SumInv(x)'
  BY SumPersisted DEF Engine
<1>7. status' = "running"
  BY DEF Persisted
<1> QED BY <1>1, <1>2, <1>3, <1>4, <1>5, <1>6, <1>7 DEF Engine

LEMMA EnginePublished ==
  ASSUME NEW x, Sound(x), Engine(x), NEW n, Published(x, n)
  PROVE  Engine(x)' /\ status' = "running"
<1>1. Typed(x)'
  BY TypedPublished DEF Engine
<1>2. AtInv(x)'
  BY AtPublished DEF Engine
<1>3. ReuseInv(x)'
  BY PublishedFits DEF Engine
<1>4. FlowInv(x)'
  BY FlowPublished DEF Engine
<1>5. RecordInv(x)'
  BY RecordPublished DEF Engine
<1>6. SumInv(x)'
  BY SumPublished DEF Engine
<1>7. status' = "running"
  BY DEF Published
<1> QED BY <1>1, <1>2, <1>3, <1>4, <1>5, <1>6, <1>7 DEF Engine

LEMMA EngineLoopBegun ==
  ASSUME NEW x, Sound(x), Engine(x), NEW lp, NEW r, NEW b, NEW q, LoopBegun(x, lp, r, b, q)
  PROVE  Engine(x)' /\ status' = "running"
<1>1. Typed(x)'
  BY TypedLoopBegun DEF Engine
<1>2. Rebatch(x, lp, b, q)
  BY LoopBegunRebatch DEF Engine
<1>3. AtInv(x)'
  BY <1>2, AtBatch DEF Engine
<1>4. ReuseInv(x)'
  BY <1>2, BatchFits DEF Engine
<1>5. /\ at[lp] = "idle" /\ got' = Carried(x, Ins(x, lp)) /\ status' = "running"
      /\ totals' = [n \in Nodes |-> IF Own(x, n) = lp THEN NoOutput ELSE totals[n]]
  BY DEF LoopBegun, Readied
<1>6. FlowInv(x)'
  BY <1>2, <1>5, FlowBatch DEF Engine
<1>7. RecordInv(x)'
  BY <1>2, RecordBatch DEF Engine
<1>8. SumInv(x)'
  BY <1>2, <1>5, SumBatch DEF Engine
<1> QED BY <1>1, <1>3, <1>4, <1>5, <1>6, <1>7, <1>8 DEF Engine

LEMMA EngineTurn ==
  ASSUME NEW x, x = name, Sound(x), Engine(x), NEW lp \in W(x).nodes, Turn(lp)
  PROVE  Engine(x)' /\ status' = "running"
<1>1. PICK back : BatchOver(x, lp, back)
  BY TurnIs DEF Engine
<1>2. (run' = run /\ \E b, q : Batched(x, lp, b, q)) \/ \E r : LoopOver(x, lp, r)
  BY TurnIs DEF Engine
<1>3. Typed(x)'
  BY <1>1, <1>2, TypedTurn DEF Engine
<1>4. /\ at[lp] = "loop" /\ got' = Carried(x, Rets(x, lp)) /\ status' = "running"
      /\ \A n \in Mem(x, lp) : at[n] = "done"
      /\ totals' = [n \in Nodes |->
           IF Own(x, n) = lp THEN [p \in Port |-> totals[n][p] \o produced[n][p]] ELSE totals[n]]
  BY <1>1 DEF BatchOver
<1>5. ASSUME run' = run, NEW b, NEW q, Batched(x, lp, b, q)
      PROVE  AtInv(x)' /\ ReuseInv(x)' /\ FlowInv(x)' /\ RecordInv(x)' /\ SumInv(x)'
  <2>1. Rebatch(x, lp, b, q)
    BY <1>1, <1>5, TurnRebatch DEF Engine
  <2>2. AtInv(x)'
    BY <2>1, AtBatch DEF Engine
  <2>3. ReuseInv(x)'
    BY <2>1, BatchFits DEF Engine
  <2>4. FlowInv(x)'
    BY <1>4, <2>1, FlowBatch DEF Engine
  <2>5. RecordInv(x)'
    BY <2>1, RecordBatch DEF Engine
  <2>6. SumInv(x)'
    BY <1>4, <2>1, SumBatch DEF Engine
  <2> QED BY <2>2, <2>3, <2>4, <2>5, <2>6
<1>6. ASSUME NEW r, LoopOver(x, lp, r)
      PROVE  AtInv(x)' /\ ReuseInv(x)' /\ FlowInv(x)' /\ RecordInv(x)' /\ SumInv(x)'
  <2>1. AtInv(x)'
    BY <1>1, <1>6, AtLoopOver DEF Engine
  <2>2. ReuseInv(x)'
    BY <1>1, <1>6, LoopOverFits DEF Engine
  <2>3. FlowInv(x)'
    BY <1>1, <1>6, FlowLoopOver DEF Engine
  <2>4. RecordInv(x)'
    BY <1>1, <1>6, RecordLoopOver DEF Engine
  <2>5. SumInv(x)'
    BY <1>1, <1>6, SumLoopOver DEF Engine
  <2> QED BY <2>1, <2>2, <2>3, <2>4, <2>5
<1> QED BY <1>2, <1>3, <1>4, <1>5, <1>6 DEF Engine

LEMMA EngineNode ==
  ASSUME NEW x, x = name, Sound(x), Engine(x), NEW n \in W(x).nodes,
         \/ Reuse(n) \/ PassOn(n) \/ Skip(n) \/ Begin(n) \/ Break(n) \/ Persist(n) \/ Publish(n)
         \/ BeginLoop(n) \/ Turn(n)
         \/ \E size \in 0..MaxItems : Trigger(n, [i \in 1..size |-> i])
         \/ \E chosen \in Sendings(n) : Execute(n, chosen)
  PROVE  Engine(x)' /\ status' = "running"
<1>1. Typed(x) /\ AtInv(x) /\ n \in Nodes
  BY DEF Engine, Typed
<1>2. ASSUME Reuse(n) PROVE Engine(x)' /\ status' = "running"
  BY <1>1, <1>2, ReuseStarts, EngineStarts
<1>3. ASSUME PassOn(n) PROVE Engine(x)' /\ status' = "running"
  BY <1>1, <1>3, PassOnStarts, EngineStarts
<1>4. ASSUME Skip(n) PROVE Engine(x)' /\ status' = "running"
  BY <1>1, <1>4, SkipStarts, EngineStarts
<1>5. ASSUME Begin(n) PROVE Engine(x)' /\ status' = "running"
  BY <1>1, <1>5, BeginStarts, EngineStarts
<1>6. ASSUME Break(n) PROVE Engine(x)' /\ status' = "running"
  BY <1>6, BreakIs, EngineBroken
<1>7. ASSUME Persist(n) PROVE Engine(x)' /\ status' = "running"
  BY <1>7, PersistIs, EnginePersisted
<1>8. ASSUME Publish(n) PROVE Engine(x)' /\ status' = "running"
  BY <1>1, <1>8, PublishIs, EnginePublished
<1>9. ASSUME BeginLoop(n) PROVE Engine(x)' /\ status' = "running"
  BY <1>1, <1>9, BeginLoopIs, EngineLoopBegun
<1>10. ASSUME Turn(n) PROVE Engine(x)' /\ status' = "running"
  BY <1>10, EngineTurn
<1>11. ASSUME NEW size \in 0..MaxItems, Trigger(n, [i \in 1..size |-> i])
       PROVE  Engine(x)' /\ status' = "running"
  <2>1. MaxItems \in Nat
    BY BoundsAssumption
  <2>2. [i \in 1..size |-> i] \in Seq(Items)
    BY <2>1 DEF Items
  <2> QED BY <1>1, <1>11, <2>2, TriggerStarts, EngineStarts
<1>12. ASSUME NEW chosen, Execute(n, chosen) PROVE Engine(x)' /\ status' = "running"
  <2>1. at[n] = "run" => run[n].input # <<>>
    BY <1>1 DEF AtInv, NodeInv
  <2> QED BY <1>1, <1>12, <2>1, ExecuteIs, EngineExecuted
<1> QED BY <1>2, <1>3, <1>4, <1>5, <1>6, <1>7, <1>8, <1>9, <1>10, <1>11, <1>12

LEMMA EngineEnds ==
  ASSUME NEW x, Engine(x), NEW s \in {"success", "error", "canceled"}, Ends(s)
  PROVE  Engine(x)'
<1>1. /\ status' = s
      /\ UNCHANGED <<name, reusable, edited, runs, at, run, produced, errors, reused, queue, returned,
                     totals, record, sent, got, flawed>>
  BY DEF Ends, given, state, loopState, history
<1>2. Typed(x)'
  BY <1>1 DEF Engine, Typed
<1>3. \A n : Open(x, n)' <=> Open(x, n)
  BY <1>1 DEF Open
<1>4. AtInv(x)'
  BY <1>1, <1>3 DEF Engine, AtInv, NodeInv
<1>5. ReuseInv(x)'
  BY <1>1 DEF Engine, ReuseInv, ReuseNode, Fits, From, Reusable
<1>6. FlowInv(x)'
  BY <1>1, <1>3 DEF Engine, FlowInv, Flow, Steps, Feeds, Pending, Reusing, Arr
<1>7. RecordInv(x)'
  BY <1>1 DEF Engine, RecordInv, RecordNode, RecordLink, Whole, Of, Feeds
<1>8. SumInv(x)'
  BY <1>1 DEF Engine, SumInv, SumLink, Sum, Unbegun, Feeds, Shallow
<1> QED BY <1>2, <1>4, <1>5, <1>6, <1>7, <1>8 DEF Engine

\* A run begins.
Begun(x) ==
  /\ Blank(x) /\ status \in {"none", "running", "error"} /\ runs \in 0..MaxRuns
  /\ reusable \in [Nodes -> NodeRun] /\ edited \subseteq W(x).nodes

Usable(x) ==
  /\ Fits(x, reusable)
  /\ \A n \in Nodes : reusable[n].status = "success" => edited \cap Layout[x].upstream[n] = {}

LEMMA BegunKept ==
  ASSUME NEW x \in DOMAIN Workflows
  PROVE  /\ Begun(x) => Typed(x)
         /\ Begun(x) /\ Layout[x].accepted /\ Usable(x) => Engine(x)
<1>1. W(x) \in WorkflowType /\ W(x).nodes \subseteq Nodes
  <2>1. W(x) \in WorkflowType
    BY WorkflowsAssumption DEF W
  <2>2. W(x).nodes \in SUBSET Nodes
    BY <2>1 DEF WorkflowType
  <2> QED BY <2>1, <2>2
<1>2. ASSUME Begun(x) PROVE Typed(x)
  BY <1>1, <1>2, TypedBlank DEF Begun
<1>3. ASSUME Begun(x), Layout[x].accepted, Usable(x) PROVE Engine(x)
  <2>1. Sound(x) /\ Blank(x)
    BY <1>3, SoundIs DEF Begun
  <2>2. ReuseInv(x)
    BY <1>3, <2>1, BlankFits DEF Usable
  <2> QED BY <1>2, <1>3, <2>1, <2>2, AtBlank, FlowBlank, RecordBlank, SumBlank DEF Engine
<1> QED BY <1>2, <1>3

LEMMA BegunKeptNext ==
  ASSUME NEW x \in DOMAIN Workflows
  PROVE  /\ Begun(x)' => Typed(x)'
         /\ Begun(x)' /\ Layout[x].accepted /\ Usable(x)' => Engine(x)'
<1>1. /\ Begun(x) => Typed(x)
      /\ Begun(x) /\ Layout[x].accepted /\ Usable(x) => Engine(x)
  BY BegunKept
<1>2. /\ (Begun(x) => Typed(x))'
      /\ (Begun(x) /\ Layout[x].accepted /\ Usable(x) => Engine(x))'
  BY <1>1, PTL
<1> QED BY <1>2

LEMMA InitKept == Init => IInv
<1> SUFFICES ASSUME Init PROVE IInv
  OBVIOUS
<1> SUFFICES ASSUME NEW x \in DOMAIN Workflows, x = name PROVE Kept(x)
  BY DEF Init, IInv
<1>1. Links(wf) = Lnk(x)
  BY DEF wf, Links, Lnk, W
<1>2. Blank(x) /\ status = "none" /\ runs = 0 /\ edited = {} /\ reusable = [n \in Nodes |-> NoRun]
  BY <1>1 DEF Init, Blank
<1>3. Begun(x)
  BY <1>2, EmptyTypes, BoundsAssumption DEF Begun
<1>4. Usable(x)
  BY <1>2, EmptyTypes DEF Usable, Fits
<1> QED BY <1>2, <1>3, <1>4, BegunKept DEF Kept

LEMMA NewRunKept ==
  ASSUME NEW x \in DOMAIN Workflows, x = name, Kept(x), NEW changed, NEW fresh, NewRun(changed, fresh)
  PROVE  Kept(x)'
<1>1. /\ status # "running" /\ runs < MaxRuns /\ changed \subseteq wf.nodes
      /\ runs' = runs + 1 /\ edited' = changed /\ status' = IF Layout[name].accepted THEN "running" ELSE "error"
      /\ reusable' = [n \in Nodes |->
           IF ~fresh /\ record[n].status = "success" /\ Layout[name].upstream[n] \cap changed = {}
           THEN record[n] ELSE NoRun]
      /\ Fresh /\ name' = name
  BY DEF NewRun
<1>2. Typed(x) /\ wf = W(x)
  BY DEF Kept, wf, W
<1>3. Blank(x)'
  BY FreshIs, <1>1
<1>4. runs' \in 0..MaxRuns
  BY <1>1, <1>2, BoundsAssumption DEF Typed
<1>5. reusable' \in [Nodes -> NodeRun]
  BY <1>1, <1>2, EmptyTypes DEF Typed
<1>6. Begun(x)'
  <2>1. status' \in {"none", "running", "error"} /\ edited' \subseteq W(x).nodes
    BY <1>1, <1>2
  <2> QED BY <1>3, <1>4, <1>5, <2>1 DEF Begun
<1>7. CASE Layout[x].accepted
  <2>1. Sound(x) /\ Fits(x, record)
    BY <1>7, SoundIs DEF Kept, Engine, ReuseInv
  <2>2. \A n \in Nodes : reusable'[n] = record[n] \/ reusable'[n] = NoRun
    BY <1>1
  <2>3. Fits(x, reusable')
    BY <2>1, <2>2, SomeFit
  <2>4. \A n \in Nodes : reusable'[n].status = "success" => edited' \cap Layout[x].upstream[n] = {}
    BY <1>1, EmptyTypes
  <2>5. Usable(x)'
    BY <2>3, <2>4 DEF Usable, Fits, From
  <2>6. status' = "running"
    BY <1>1, <1>7
  <2> QED BY <1>6, <1>7, <2>5, <2>6, BegunKeptNext DEF Kept
<1>8. CASE ~Layout[x].accepted
  <2>1. status' = "error"
    BY <1>1, <1>8
  <2> QED BY <1>3, <1>6, <1>8, <2>1, BegunKeptNext DEF Kept
<1> QED BY <1>7, <1>8

LEMMA EndsKept ==
  ASSUME NEW x \in DOMAIN Workflows, x = name, Kept(x), NEW s \in {"success", "error", "canceled"}, Ends(s),
         s = "success" => Quiet(None)
  PROVE  Kept(x)'
<1>1. status = "running" /\ status' = s /\ at' = at
  BY DEF Ends
<1>2. Layout[x].accepted /\ Engine(x) /\ Sound(x)
  BY <1>1, SoundIs DEF Kept
<1>3. Engine(x)'
  BY <1>2, EngineEnds
<1>4. s = "success" => Settled(x)'
  <2>1. s = "success" => \A n \in Mem(x, None) : at[n] = "done"
    BY <1>2, QuietIsDone
  <2> QED BY <1>1, <2>1 DEF Settled
<1> QED BY <1>1, <1>2, <1>3, <1>4 DEF Kept, Engine

LEMMA StepKept == IInv /\ [Next]_vars => IInv'
<1> SUFFICES ASSUME IInv, [Next]_vars PROVE IInv'
  OBVIOUS
<1>1. PICK x \in DOMAIN Workflows : x = name /\ Kept(x)
  BY DEF IInv
<1>2. Kept(x)' /\ name' = name
  <2>1. ASSUME NEW n \in wf.nodes,
               \/ Reuse(n) \/ PassOn(n) \/ Skip(n) \/ Begin(n) \/ Break(n) \/ Persist(n) \/ Publish(n)
               \/ BeginLoop(n) \/ Turn(n)
               \/ \E size \in 0..MaxItems : Trigger(n, [i \in 1..size |-> i])
               \/ \E chosen \in Sendings(n) : Execute(n, chosen)
        PROVE  Kept(x)' /\ name' = name
    <3>1. n \in W(x).nodes
      BY <1>1, <2>1 DEF wf, W
    <3>2. status = "running" /\ name' = name
      BY <2>1 DEF Reuse, PassOn, Skip, Begin, Break, Persist, Publish, BeginLoop, Turn, Trigger, Execute,
                  Ready, given
    <3>3. Layout[x].accepted /\ Engine(x) /\ Sound(x)
      BY <1>1, <3>2, SoundIs DEF Kept
    <3>4. Engine(x)' /\ status' = "running"
      BY <1>1, <2>1, <3>1, <3>3, EngineNode
    <3> QED BY <3>2, <3>3, <3>4 DEF Kept, Engine
  <2>2. ASSUME NEW n \in wf.nodes, Fail(n) PROVE Kept(x)' /\ name' = name
    <3>1. Ends("error") /\ name' = name
      BY <2>2 DEF Fail, Ends, given
    <3> QED BY <1>1, <3>1, EndsKept
  <2>3. ASSUME Succeed PROVE Kept(x)' /\ name' = name
    <3>1. Ends("success") /\ Quiet(None) /\ name' = name
      BY <2>3 DEF Succeed, Ends, given
    <3> QED BY <1>1, <3>1, EndsKept
  <2>4. ASSUME Stop PROVE Kept(x)' /\ name' = name
    <3>1. Ends("canceled") /\ name' = name
      BY <2>4 DEF Stop, Ends, given
    <3> QED BY <1>1, <3>1, EndsKept
  <2>5. ASSUME NEW fresh, NEW changed, NewRun(changed, fresh) PROVE Kept(x)' /\ name' = name
    <3>1. name' = name
      BY <2>5 DEF NewRun
    <3> QED BY <1>1, <2>5, <3>1, NewRunKept
  <2>6. ASSUME UNCHANGED vars PROVE Kept(x)' /\ name' = name
    <3>1. UNCHANGED <<name, status, reusable, edited, runs, at, run, produced, errors, reused, queue,
                      returned, totals, record, sent, got, flawed>>
      BY <2>6 DEF vars, given, state, loopState, history
    <3>2. Typed(x)'
      BY <1>1, <3>1 DEF Kept, Typed
    <3>3. Blank(x) => Blank(x)'
      BY <3>1 DEF Blank
    <3>4. \A n : Open(x, n)' <=> Open(x, n)
      BY <3>1 DEF Open
    <3>5. Engine(x) => Engine(x)'
      <4> HAVE Engine(x)
      <4>1. AtInv(x)'
        BY <3>1, <3>4 DEF Engine, AtInv, NodeInv
      <4>2. ReuseInv(x)'
        BY <3>1 DEF Engine, ReuseInv, ReuseNode, Fits, From, Reusable
      <4>3. FlowInv(x)'
        BY <3>1, <3>4 DEF Engine, FlowInv, Flow, Steps, Feeds, Pending, Reusing, Arr
      <4>4. RecordInv(x)'
        BY <3>1 DEF Engine, RecordInv, RecordNode, RecordLink, Whole, Of, Feeds
      <4>5. SumInv(x)'
        BY <3>1 DEF Engine, SumInv, SumLink, Sum, Unbegun, Feeds, Shallow
      <4> QED BY <3>2, <4>1, <4>2, <4>3, <4>4, <4>5 DEF Engine
    <3> QED BY <1>1, <3>1, <3>2, <3>3, <3>5 DEF Kept, Settled
  <2>7. CASE Step
    BY <2>1, <2>2, <2>3, <2>7 DEF Step
  <2> QED BY <2>4, <2>5, <2>6, <2>7 DEF Next
<1> QED BY <1>1, <1>2 DEF IInv

LEMMA AlwaysKept == Spec => []IInv
BY InitKept, StepKept, PTL DEF Spec

-----------------------------------------------------------------------------
(* What it means for the properties.                                       *)

LEMMA KeptTypes == IInv => TypeOK
<1> SUFFICES ASSUME IInv PROVE TypeOK
  OBVIOUS
<1>1. PICK x \in DOMAIN Workflows : x = name /\ Kept(x)
  BY DEF IInv
<1>2. Typed(x) /\ wf = W(x) /\ Links(wf) = Lnk(x)
  BY <1>1 DEF Kept, wf, W, Links, Lnk
<1>3. /\ \A n \in Nodes : /\ at[n] = "loop" => n \in W(x).loops \ W(x).disabled
                          /\ queue[n] # <<>> => at[n] = "loop" \/ status # "running"
      /\ \A n \in reused : n \notin W(x).loops
  <2>1. CASE Layout[x].accepted
    <3>1. AtInv(x)
      BY <1>1, <2>1 DEF Kept, Engine
    <3> QED BY <3>1 DEF AtInv, NodeInv
  <2>2. CASE ~Layout[x].accepted
    <3>1. Blank(x)
      BY <1>1, <2>2 DEF Kept
    <3> QED BY <3>1 DEF Blank
  <2> QED BY <2>1, <2>2
<1>4. \A n \in Nodes :
       /\ at[n] \in {"idle", "run", "loop", "ran", "failing", "kept", "failed", "done"}
       /\ {run[n], record[n], reusable[n]} \subseteq NodeRun
       /\ {produced[n], totals[n]} \subseteq Outputs /\ errors[n] \in Seq(Items)
       /\ {queue[n], returned[n]} \subseteq Seq(Items)
  BY <1>2 DEF Typed, Where
<1> QED BY <1>1, <1>2, <1>3, <1>4 DEF TypeOK, Typed

\* Each node's future, record and buffers are as their types say, whatever
\* the workflow and the runs before: a loop is entered only by a loop node that
\* is enabled, and only a loop that runs has batches left (run_loop 268-345).
THEOREM TypeCorrect == Spec => []TypeOK
BY AlwaysKept, KeptTypes, PTL

LEMMA KeptReuse == IInv => ReusedIsCurrent
<1> SUFFICES ASSUME IInv PROVE ReusedIsCurrent
  OBVIOUS
<1>1. PICK x \in DOMAIN Workflows : x = name /\ Kept(x)
  BY DEF IInv
<1> SUFFICES ASSUME NEW n \in reused
             PROVE  record[n].input = InputOf(n) /\ edited \cap Layout[name].upstream[n] = {}
  BY DEF ReusedIsCurrent
<1>2. Layout[x].accepted /\ Sound(x) /\ Engine(x)
  BY <1>1, SoundIs DEF Kept, Blank
<1>3. n \in W(x).nodes /\ n \in Nodes /\ Plain(x, n) /\ ReuseNode(x, n) /\ reusable[n] \in NodeRun
  BY <1>2 DEF Engine, Typed, AtInv, ReuseInv, Plain
<1>4. Reusable(x, n) /\ record[n] = [reusable[n] EXCEPT !.reused = TRUE]
  BY <1>3 DEF ReuseNode
<1>5. record[n].input = reusable[n].input
  BY <1>3, <1>4 DEF NodeRun
<1>6. reusable[n].input = Inp(x, n)
  BY <1>2, <1>3, <1>4, ReusedInput DEF Engine
<1>7. InputOf(n) = Inp(x, n)
  BY <1>1, <1>2, Notation DEF Sound
<1>8. edited \cap Layout[x].upstream[n] = {}
  BY <1>3, <1>4 DEF ReuseNode, Reusable
<1> QED BY <1>1, <1>5, <1>6, <1>7, <1>8

\* try_reuse (401-425): what stands in for running a node was made of the items
\* the node would receive now, and nothing upstream of it was edited since: so
\* it is of what is reused in turn, however long the chain.
THEOREM ReusesCurrent == Spec => []ReusedIsCurrent
BY AlwaysKept, KeptReuse, PTL

LEMMA KeptFlow == IInv => CarriedOnce
<1> SUFFICES ASSUME IInv PROVE CarriedOnce
  OBVIOUS
<1>1. PICK x \in DOMAIN Workflows : x = name /\ Kept(x)
  BY DEF IInv
<1>2. x \in DOMAIN Workflows /\ W(x).nodes \subseteq Nodes /\ Typed(x)
  BY <1>1 DEF Kept, Typed
<1>3. Links(wf) = Lnk(x) /\ wf = W(x)
  BY <1>1, <1>2, Notation
<1> SUFFICES ASSUME NEW i \in Lnk(x), InStep(i), Conn(i).to \notin reused
             PROVE  /\ IsPrefix(got[i], sent[i])
                    /\ status = "success" => got[i] = sent[i]
  BY <1>3 DEF CarriedOnce
<1>4. sent[i] \in Seq(Items) /\ got[i] \in Seq(Items) /\ <<>> \in Seq(Items)
  BY <1>2 DEF Typed
<1>5. CASE Layout[x].accepted
  <2>1. Sound(x) /\ Engine(x)
    BY <1>1, <1>5, SoundIs DEF Kept
  <2>2. Steps(x, i) /\ Dst(x, i) \notin reused
    <3>1. /\ Conn(i).from = Src(x, i) /\ Conn(i).to = Dst(x, i) /\ Conn(i).output = Out(x, i)
          /\ Layout[name].back = Bck(x) /\ \A n \in Nodes : Owner(n) = Own(x, n)
      BY <1>1, <1>2, Notation
    <3>2. Src(x, i) \in Nodes /\ Dst(x, i) \in Nodes
      BY <2>1, LinkFacts
    <3> QED BY <1>3, <3>1, <3>2 DEF InStep, Steps, Feeds
  <2>3. PICK t \in Seq(Items) : sent[i] = got[i] \o t
    <3>1. Arr(x, i) \in Seq(Items)
      BY <2>1, InputTypes DEF Engine
    <3>2. sent[i] = got[i] \o (IF Pending(x, i) THEN Arr(x, i) ELSE <<>>)
      BY <2>1, <2>2 DEF Engine, FlowInv, Flow
    <3> QED BY <1>4, <3>1, <3>2
  <2>4. IsPrefix(got[i], sent[i])
    <3>1. IsPrefix(got[i], got[i] \o t)
      BY <1>4, PrefixOfConcat
    <3> QED BY <2>3, <3>1
  <2>5. status = "success" => got[i] = sent[i]
    BY <1>1, <1>5, <2>1, <2>2, SettledFlow DEF Kept, Engine
  <2> QED BY <2>4, <2>5
<1>6. CASE ~Layout[x].accepted
  <2>1. sent[i] = <<>> /\ got[i] = <<>> /\ <<>> \o <<>> = <<>>
    BY <1>1, <1>6 DEF Kept, Blank
  <2>2. IsPrefix(<<>>, <<>> \o <<>>)
    BY <1>4, PrefixOfConcat
  <2>3. IsPrefix(got[i], sent[i])
    BY <2>1, <2>2
  <2> QED BY <2>1, <2>3
<1> QED BY <1>5, <1>6

\* run_node (457-475) and run_loop (328-341): along every connection whose ends
\* run in step, a node receives what was sent to it once and in order, batch by
\* batch, and all of it when the run succeeds.
THEOREM CarriesOnce == Spec => []CarriedOnce
BY AlwaysKept, KeptFlow, PTL

LEMMA KeptBatches == IInv => AllBatchesKept
<1> SUFFICES ASSUME IInv, status = "success" PROVE AllBatchesKept
  BY DEF AllBatchesKept
<1>1. PICK x \in DOMAIN Workflows : x = name /\ Kept(x)
  BY DEF IInv
<1>2. Layout[x].accepted /\ Sound(x) /\ Engine(x) /\ Settled(x)
  BY <1>1, SoundIs DEF Kept
<1>3. Links(wf) = Lnk(x) /\ wf = W(x) /\ W(x).nodes \subseteq Nodes
  BY <1>1, <1>2, Notation DEF Sound
<1>4. ASSUME NEW i \in Lnk(x), Src(x, i) \notin W(x).loops \/ Out(x, i) = 0
      PROVE  /\ Src(x, i) \notin flawed => sent[i] = Of(x, record[Src(x, i)], i)
             /\ ~Err(x, i) /\ Shallow(x, Src(x, i)) => sent[i] = produced[Src(x, i)][Out(x, i)]
  <2>1. ~Feeds(x, i)
    BY <1>4 DEF Feeds
  <2> QED BY <1>2, <2>1, SettledRecords DEF Engine
<1>5. ASSUME NEW i \in Lnk(x)
      PROVE  /\ Conn(i).from = Src(x, i) /\ Conn(i).output = Out(x, i) /\ Conn(i).error = Err(x, i)
             /\ Owner(Conn(i).from) = None \/ Owner(Owner(Conn(i).from)) = None => Shallow(x, Src(x, i))
  <2>1. /\ Conn(i).from = Src(x, i) /\ Conn(i).output = Out(x, i) /\ Conn(i).error = Err(x, i)
        /\ \A n \in Nodes : Owner(n) = Own(x, n)
    BY <1>1, <1>3, Notation
  <2>2. Src(x, i) \in Nodes /\ (Own(x, Src(x, i)) # None => Own(x, Src(x, i)) \in Nodes)
    BY <1>2, OwnerFacts
  <2> QED BY <2>1, <2>2 DEF Shallow
<1> QED BY <1>3, <1>4, <1>5 DEF AllBatchesKept, Of

\* run_loop 345 and persist_node_output 116: when a run succeeds, a node's
\* record and its output hold what it sent in all the batches, in order.
THEOREM KeepsBatches == Spec => []AllBatchesKept
BY AlwaysKept, KeptBatches, PTL
=============================================================================
