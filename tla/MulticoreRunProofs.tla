--------------------------- MODULE MulticoreRunProofs ---------------------------

(***************************************************************************)
(* The memory checkers of AGENT_H, for any well-formed programs, any       *)
(* number of cores and any addresses.  The consistency checker passes      *)
(* exactly the executions that an order of all accesses explains; neither  *)
(* checker accuses correct hardware, but for two alarms of the coherence   *)
(* checker that a core's own queue or a trace without snoops explains; and *)
(* the two agree on a single location.                                     *)
(***************************************************************************)
EXTENDS MulticoreRun, FiniteSetTheorems, WellFoundedInduction, TLAPS

(***************************************************************************)
(* Numbers, places and finite sets.                                        *)
(***************************************************************************)
\* A nonempty set of numbers has a least one.
LEMMA Least ==
  ASSUME NEW S \in SUBSET Nat, S # {}
  PROVE  \E x \in S : \A y \in S : x <= y
<1>1. PICK x \in S : \A y \in S : ~ <<y, x>> \in OpToRel(<, Nat)
  BY NatLessThanWellFounded, WFMin
<1>2. ASSUME NEW y \in S PROVE x <= y
  <2>1. x \in Nat /\ y \in Nat /\ ~ (y < x)
    BY <1>1 DEF OpToRel
  <2> QED
    BY <2>1
<1> QED
  BY <1>2

\* What a function puts lowest.
LEMMA Lowest ==
  ASSUME NEW C, C # {}, NEW f, \A x \in C : f[x] \in Nat
  PROVE  \E x \in C : \A y \in C : f[x] <= f[y]
<1> DEFINE N == {f[x] : x \in C}
<1>1. PICK n \in N : \A k \in N : n <= k
  <2>1. N \in SUBSET Nat /\ N # {}
    OBVIOUS
  <2> HIDE DEF N
  <2> QED
    BY <2>1, Least
<1> QED
  BY <1>1

\* Min takes the least of a nonempty set.
LEMMA FirstPlace ==
  ASSUME NEW S \in SUBSET Nat, S # {}
  PROVE  Min(S) \in S /\ \A y \in S : Min(S) <= y
BY Least DEF Min

\* Induction over the subsets of a finite set.
LEMMA SetInduction ==
  ASSUME NEW S, IsFiniteSet(S), NEW G,
         \A U \in SUBSET S : (\A V \in SUBSET U : V # U => V \in G) => U \in G
  PROVE  \A U \in SUBSET S : U \in G
<1> DEFINE R == StrictSubsetOrdering(S)
           Bad == {U \in SUBSET S : U \notin G}
<1>1. IsWellFoundedOn(R, SUBSET S)
  BY FS_StrictSubsetOrderingWellFounded, FS_FiniteSubsetsOfFinite
<1>2. ASSUME Bad # {} PROVE FALSE
  <2>1. Bad \subseteq SUBSET S
    OBVIOUS
  <2>2. PICK U \in Bad : \A V \in Bad : ~(<<V, U>> \in R)
    <3> HIDE DEF R, Bad
    <3> QED
      BY <1>1, <1>2, <2>1, WFMin
  <2>3. \A V \in SUBSET U : V # U => <<V, U>> \in R
    BY <2>2 DEF StrictSubsetOrdering
  <2>4. ASSUME NEW V \in SUBSET U, V # U PROVE V \in G
    <3>1. V \notin Bad
      <4> HIDE DEF R, Bad
      <4> QED
        BY <2>2, <2>3, <2>4
    <3> QED
      BY <2>1, <3>1
  <2> QED
    BY <2>2, <2>4
<1> QED
  BY <1>2

(***************************************************************************)
(* The orders of a finite set that respect a relation, as the recursive    *)
(* function of Orders builds them.                                         *)
(***************************************************************************)
EndingIn(S, i, f) == {[j \in S |-> IF j = i THEN Cardinality(S) ELSE pos[j]] : pos \in f[S \ {i}]}

Extended(R, S, f) ==
  IF S = {} THEN {<<>>}
  ELSE UNION {EndingIn(S, i, f) : i \in {j \in S : \A k \in S : <<j, k>> \notin R}}

Extends(R, U, f) == f = [S \in SUBSET U |-> Extended(R, S, f)]
OrdersOf(R, U)   == CHOOSE f : Extends(R, U, f)

\* Orders is the recursive function at the set of all accesses.
LEMMA OrdersAre ==
  ASSUME NEW R
  PROVE  Orders(R) = OrdersOf(R, Mem(program))[Mem(program)]
BY DEF Orders, OrdersOf, Extends, Extended, EndingIn

\* One step of the recursion reads the function at smaller sets only.
LEMMA ExtendedSame ==
  ASSUME NEW R, NEW S, NEW f, NEW g, \A i \in S : f[S \ {i}] = g[S \ {i}]
  PROVE  Extended(R, S, f) = Extended(R, S, g)
<1>1. \A i \in S : EndingIn(S, i, f) = EndingIn(S, i, g)
  BY DEF EndingIn
<1> QED
  BY <1>1 DEF Extended

\* Two such functions agree where both are defined.
LEMMA ExtendsAgree ==
  ASSUME NEW R, NEW S, IsFiniteSet(S), NEW g, Extends(R, S, g),
         NEW V \in SUBSET S, NEW h, Extends(R, V, h)
  PROVE  g[V] = h[V]
<1> DEFINE G == {U \in SUBSET V : g[U] = h[U]}
<1>1. ASSUME NEW U \in SUBSET V, \A W \in SUBSET U : W # U => W \in G
      PROVE  U \in G
  <2>1. g[U] = Extended(R, U, g) /\ h[U] = Extended(R, U, h)
    BY DEF Extends
  <2>2. \A i \in U : g[U \ {i}] = h[U \ {i}]
    BY <1>1
  <2>3. Extended(R, U, g) = Extended(R, U, h)
    BY <2>2, ExtendedSame
  <2> QED
    BY <2>1, <2>3
<1>2. IsFiniteSet(V)
  BY FS_Subset
<1>3. V \in G
  <2> HIDE DEF G
  <2> QED
    BY <1>1, <1>2, SetInduction
<1> QED
  BY <1>3

\* There is one, whatever the finite set.
LEMMA OrdersExtend ==
  ASSUME NEW R, NEW S, IsFiniteSet(S)
  PROVE  \A U \in SUBSET S : Extends(R, U, OrdersOf(R, U))
<1> DEFINE G == {U \in SUBSET S : Extends(R, U, OrdersOf(R, U))}
<1>1. ASSUME NEW U \in SUBSET S, \A V \in SUBSET U : V # U => V \in G
      PROVE  U \in G
  <2> DEFINE val == [V \in SUBSET U |-> OrdersOf(R, V)[V]]
             g == [V \in SUBSET U |-> IF V = U THEN Extended(R, U, val) ELSE val[V]]
  <2>1. ASSUME NEW V \in SUBSET U, V # U PROVE g[V] = Extended(R, V, g)
    <3>1. Extends(R, V, OrdersOf(R, V)) /\ IsFiniteSet(V)
      BY <1>1, <2>1, FS_Subset
    <3>2. g[V] = Extended(R, V, OrdersOf(R, V))
      BY <2>1, <3>1 DEF Extends
    <3>3. ASSUME NEW i \in V PROVE OrdersOf(R, V)[V \ {i}] = g[V \ {i}]
      <4>1. V \ {i} \in SUBSET U /\ V \ {i} # U /\ V \ {i} \in SUBSET V
        BY <2>1
      <4>2. Extends(R, V \ {i}, OrdersOf(R, V \ {i}))
        BY <1>1, <4>1
      <4>3. OrdersOf(R, V)[V \ {i}] = OrdersOf(R, V \ {i})[V \ {i}]
        BY <3>1, <4>1, <4>2, ExtendsAgree
      <4> QED
        BY <4>1, <4>3
    <3>4. Extended(R, V, OrdersOf(R, V)) = Extended(R, V, g)
      <4> HIDE DEF g
      <4> QED
        BY <3>3, ExtendedSame
    <3> QED
      BY <3>2, <3>4
  <2>2. g[U] = Extended(R, U, g)
    <3>1. g[U] = Extended(R, U, val)
      OBVIOUS
    <3>2. \A i \in U : val[U \ {i}] = g[U \ {i}]
      OBVIOUS
    <3>3. Extended(R, U, val) = Extended(R, U, g)
      <4> HIDE DEF g, val
      <4> QED
        BY <3>2, ExtendedSame
    <3> QED
      BY <3>1, <3>3
  <2>3. g = [V \in SUBSET U |-> g[V]]
    OBVIOUS
  <2>4. Extends(R, U, g)
    <3> HIDE DEF g
    <3> QED
      BY <2>1, <2>2, <2>3 DEF Extends
  <2> QED
    BY <2>4 DEF OrdersOf
<1> HIDE DEF G
<1>2. \A U \in SUBSET S : U \in G
  BY <1>1, SetInduction
<1> QED
  BY <1>2 DEF G

\* An order of U numbers its members apart and respects the relation.
Numbers(R, U, pos) ==
  /\ DOMAIN pos = U
  /\ \A j \in U : pos[j] \in 1..Cardinality(U)
  /\ \A j, k \in U : pos[j] = pos[k] => j = k
  /\ \A j, k \in U : <<j, k>> \in R => pos[j] < pos[k]

\* An order of U without i, with i put last, is one of U if i has no successor.
LEMMA PutLast ==
  ASSUME NEW R, NEW U, IsFiniteSet(U), NEW i \in U, \A k \in U : <<i, k>> \notin R,
         NEW pos, Numbers(R, U \ {i}, pos)
  PROVE  Numbers(R, U, [j \in U |-> IF j = i THEN Cardinality(U) ELSE pos[j]])
<1> DEFINE new == [j \in U |-> IF j = i THEN Cardinality(U) ELSE pos[j]]
<1>1. Cardinality(U) \in Nat /\ Cardinality(U \ {i}) = Cardinality(U) - 1
      /\ Cardinality(U \ {i}) \in Nat
  BY FS_RemoveElement, FS_CardinalityType
<1>2. ASSUME NEW j \in U, j # i
      PROVE  new[j] = pos[j] /\ new[j] \in 1..(Cardinality(U) - 1)
  BY <1>1, <1>2 DEF Numbers
<1>3. new[i] = Cardinality(U) /\ DOMAIN new = U
  OBVIOUS
<1>4. \A j \in U : new[j] \in 1..Cardinality(U)
  BY <1>1, <1>2, <1>3
<1> HIDE DEF new
<1>5. ASSUME NEW j \in U, NEW k \in U, new[j] = new[k] PROVE j = k
  <2>1. CASE j = i \/ k = i
    BY <1>1, <1>2, <1>3, <1>5, <2>1
  <2>2. CASE j # i /\ k # i
    BY <1>2, <1>5, <2>2 DEF Numbers
  <2> QED
    BY <2>1, <2>2
<1>6. ASSUME NEW j \in U, NEW k \in U, <<j, k>> \in R PROVE new[j] < new[k]
  <2>1. j # i
    BY <1>6
  <2>2. CASE k = i
    BY <1>1, <1>2, <1>3, <2>1, <2>2
  <2>3. CASE k # i
    BY <1>2, <1>6, <2>1, <2>3 DEF Numbers
  <2> QED
    BY <2>2, <2>3
<1> QED
  BY <1>3, <1>4, <1>5, <1>6 DEF Numbers, new

\* What it builds are numberings that respect the relation.
LEMMA OrdersRespect ==
  ASSUME NEW R, NEW S, IsFiniteSet(S), NEW f, Extends(R, S, f)
  PROVE  \A pos \in f[S] : Numbers(R, S, pos)
<1> DEFINE G == {U \in SUBSET S : \A pos \in f[U] : Numbers(R, U, pos)}
<1>1. ASSUME NEW U \in SUBSET S, \A V \in SUBSET U : V # U => V \in G
      PROVE  U \in G
  <2>1. f[U] = Extended(R, U, f) /\ IsFiniteSet(U)
    BY FS_Subset DEF Extends
  <2>2. CASE U = {}
    <3>1. f[U] = {<<>>}
      BY <2>1, <2>2 DEF Extended
    <3> QED
      BY <2>2, <3>1 DEF Numbers
  <2>3. CASE U # {}
    <3> SUFFICES ASSUME NEW new \in f[U] PROVE Numbers(R, U, new)
      OBVIOUS
    <3>1. PICK i \in {j \in U : \A k \in U : <<j, k>> \notin R} : new \in EndingIn(U, i, f)
      BY <2>1, <2>3 DEF Extended
    <3>2. PICK pos \in f[U \ {i}] :
            new = [j \in U |-> IF j = i THEN Cardinality(U) ELSE pos[j]]
      BY <3>1 DEF EndingIn
    <3>3. Numbers(R, U \ {i}, pos)
      <4>1. U \ {i} \in G
        BY <1>1
      <4> QED
        BY <4>1, <3>2
    <3> QED
      BY <2>1, <3>2, <3>3, PutLast
  <2> QED
    BY <2>2, <2>3
<1> HIDE DEF G
<1>2. \A U \in SUBSET S : U \in G
  BY <1>1, SetInduction
<1> QED
  BY <1>2 DEF G

\* Without a cycle, every nonempty set has a member without a successor in it.
LEMMA LastOne ==
  ASSUME NEW S, IsFiniteSet(S), NEW R, ~ HasCycle(S, R)
  PROVE  \A U \in SUBSET S : U # {} => \E i \in U : \A k \in U : <<i, k>> \notin R
<1> DEFINE G == {U \in SUBSET S : U # {} => \E i \in U : \A k \in U : <<i, k>> \notin R}
<1>1. ASSUME NEW U \in SUBSET S, \A V \in SUBSET U : V # U => V \in G
      PROVE  U \in G
  <2> SUFFICES ASSUME U # {} PROVE \E i \in U : \A k \in U : <<i, k>> \notin R
    OBVIOUS
  <2>1. PICK v \in U : \A u \in U : <<u, v>> \notin R
    BY DEF HasCycle
  <2>2. CASE U = {v}
    BY <2>1, <2>2
  <2>3. CASE U # {v}
    <3>1. U \ {v} \in G /\ U \ {v} # {}
      BY <1>1, <2>3
    <3> QED
      BY <2>1, <3>1
  <2> QED
    BY <2>2, <2>3
<1> HIDE DEF G
<1>2. \A U \in SUBSET S : U \in G
  BY <1>1, SetInduction
<1> QED
  BY <1>2 DEF G

\* Without a cycle in R and more, one of the orders respects both.
LEMMA OrdersReach ==
  ASSUME NEW R, NEW S, IsFiniteSet(S), NEW f, Extends(R, S, f),
         NEW Q, R \subseteq Q, ~ HasCycle(S, Q)
  PROVE  \E pos \in f[S] : Numbers(Q, S, pos)
<1> DEFINE G == {U \in SUBSET S : \E pos \in f[U] : Numbers(Q, U, pos)}
<1>1. ASSUME NEW U \in SUBSET S, \A V \in SUBSET U : V # U => V \in G
      PROVE  U \in G
  <2>1. f[U] = Extended(R, U, f) /\ IsFiniteSet(U)
    BY FS_Subset DEF Extends
  <2>2. CASE U = {}
    <3>1. <<>> \in f[U]
      BY <2>1, <2>2 DEF Extended
    <3> QED
      BY <2>2, <3>1 DEF Numbers
  <2>3. CASE U # {}
    <3>1. PICK i \in U : \A k \in U : <<i, k>> \notin Q
      BY <2>3, LastOne
    <3>2. PICK pos \in f[U \ {i}] : Numbers(Q, U \ {i}, pos)
      <4>1. U \ {i} \in G
        BY <1>1
      <4> QED
        BY <4>1
    <3> DEFINE new == [j \in U |-> IF j = i THEN Cardinality(U) ELSE pos[j]]
    <3>3. Numbers(Q, U, new)
      BY <2>1, <3>1, <3>2, PutLast
    <3>4. new \in EndingIn(U, i, f)
      BY <3>2 DEF EndingIn
    <3>5. new \in f[U]
      <4> HIDE DEF new
      <4>1. i \in {j \in U : \A k \in U : <<j, k>> \notin R}
        BY <3>1
      <4> QED
        BY <2>1, <2>3, <3>4, <4>1 DEF Extended
    <3> QED
      BY <3>3, <3>5
  <2> QED
    BY <2>2, <2>3
<1> HIDE DEF G
<1>2. \A U \in SUBSET S : U \in G
  BY <1>1, SetInduction
<1> QED
  BY <1>2 DEF G

(***************************************************************************)
(* A run that has ended, as a graph.  The key of an access is the place of *)
(* its store, or of the store it has read, in the order in which memory    *)
(* took the stores of its address; 0 is the place of the initial value.    *)
(***************************************************************************)
Key == [i \in Mem(program) |->
          Rank(Op(i).addr, IF i \in Stores(program) THEN i ELSE source[i])]

Together(i, j) == Op(i).core = Op(j).core
Alike(i, j)    == Op(i).addr = Op(j).addr

Shape ==
  /\ IsFiniteSet(Mem(program)) /\ Mem(program) \subseteq Nat /\ 0 \notin Mem(program)
  /\ Mem(program) = Loads(program) \cup Stores(program)
  /\ Loads(program) \cap Stores(program) = {}
  /\ \A i \in Mem(program) : Op(i).addr # None
  /\ \A l \in Loads(program) : Op(l).rmw # None =>
       l + 1 \in Stores(program) /\ Alike(l, l + 1) /\ Together(l, l + 1)

Settled ==
  /\ Shape
  /\ \A i \in Mem(program) : Key[i] \in Nat
  /\ \A s \in Stores(program) : Key[s] # 0
  /\ \A s, t \in Stores(program) : Alike(s, t) /\ Key[s] = Key[t] => s = t
  /\ \A l \in Loads(program) :
       \/ source[l] = 0 /\ Key[l] = 0
       \/ source[l] \in Stores(program) /\ Alike(source[l], l) /\ Key[source[l]] = Key[l]
          /\ source[l] # 0
  /\ \A s \in Stores(program) : \A k \in 1..Key[s] :
       \E t \in Stores(program) : Alike(t, s) /\ Key[t] = k

Loc   == {e \in Mem(program) \X Mem(program) :
            e[1] < e[2] /\ Together(e[1], e[2]) /\ Alike(e[1], e[2])}
From  == {e \in Stores(program) \X Loads(program) : e[1] = source[e[2]]}
Coh   == {e \in Stores(program) \X Stores(program) : Alike(e[1], e[2]) /\ Key[e[1]] < Key[e[2]]}
Over  == {e \in Loads(program) \X Stores(program) : Alike(e[1], e[2]) /\ Key[e[1]] < Key[e[2]]}
Keeps(m) == {e \in Mem(program) \X Mem(program) :
               e[1] < e[2] /\ Together(e[1], e[2]) /\ Ordered(m, e[1], e[2])}

Local     == Loc \cup From \cup Coh \cup Over
Global(m) == Keeps(m) \cup {e \in From : ~ Together(e[1], e[2])} \cup Coh \cup Over

Serial(pos) ==
  \A l \in Loads(program) : /\ source[l] # 0 => source[l] \in Sees(pos, l)
                            /\ \A s \in Sees(pos, l) : Key[s] <= Key[l]

Joined == \A l \in Loads(program) : Op(l).rmw # None => Key[l + 1] = Key[l] + 1

\* What a load may see in an order: what is before it, or its own core's.
LEMMA SeesMeans ==
  ASSUME Shape, NEW pos, NEW l \in Loads(program), NEW s
  PROVE  s \in Sees(pos, l) <=>
           /\ s \in Stores(program) /\ Alike(s, l)
           /\ pos[s] < pos[l] \/ (s < l /\ Together(s, l))
<1>1. l \in Mem(program) /\ Op(l).addr # None
  BY DEF Shape
<1> QED
  BY <1>1 DEF Sees, StoresTo, Alike, Together, Op

\* A load's key is the place of what it has read, a store's its own.
LEMMA KeyMeans ==
  ASSUME Shape
  PROVE  /\ \A s \in Stores(program) : Key[s] = Rank(Op(s).addr, s)
         /\ \A l \in Loads(program) : Key[l] = Rank(Op(l).addr, source[l])
BY DEF Shape, Key

\* An execution is explained by an order that is serial for its loads.
LEMMA ExplainedMeans ==
  ASSUME Shape, NEW m
  PROVE  Explained(m) <=> (\E pos \in Orders(Required(m)) : Serial(pos)) /\ Joined
<1>1. ASSUME NEW pos, NEW l \in Loads(program)
      PROVE  (\A s \in Sees(pos, l) : Rank(Op(l).addr, s) <= Rank(Op(l).addr, source[l]))
             <=> \A s \in Sees(pos, l) : Key[s] <= Key[l]
  <2>1. ASSUME NEW s \in Sees(pos, l)
        PROVE  Key[s] = Rank(Op(l).addr, s) /\ Key[l] = Rank(Op(l).addr, source[l])
    BY SeesMeans, KeyMeans DEF Alike
  <2> QED
    BY <2>1
<1>2. ASSUME NEW l \in Loads(program), Op(l).rmw # None
      PROVE  /\ Key[l + 1] = Rank(Op(l).addr, l + 1)
             /\ Key[l] = Rank(Op(l).addr, source[l])
  BY <1>2, KeyMeans DEF Shape, Alike
<1>3. (\A l \in Loads(program) : Op(l).rmw # None =>
         Rank(Op(l).addr, l + 1) = Rank(Op(l).addr, source[l]) + 1) <=> Joined
  BY <1>2 DEF Joined
<1>4. ASSUME NEW pos
      PROVE  (\A l \in Loads(program) :
                LET a == Op(l).addr
                IN  /\ source[l] # 0 => source[l] \in Sees(pos, l)
                    /\ \A s \in Sees(pos, l) : Rank(a, s) <= Rank(a, source[l]))
             <=> Serial(pos)
  BY <1>1 DEF Serial
<1> QED
  BY <1>3, <1>4 DEF Explained

\* What a model requires, as the edges it keeps and the coherence order.
LEMMA RequiredMeans ==
  ASSUME Shape, NEW m
  PROVE  Required(m) = Keeps(m) \cup Coh
<1>1. ASSUME NEW i \in Stores(program), NEW j \in Stores(program)
      PROVE  Key[i] = Rank(Op(i).addr, i) /\ Key[j] = Rank(Op(j).addr, j)
  BY KeyMeans
<1>2. Stores(program) \subseteq Mem(program)
  BY DEF Shape
<1>3. ASSUME NEW e \in Required(m) PROVE e \in Keeps(m) \cup Coh
  <2>1. e = <<e[1], e[2]>> /\ e[1] \in Mem(program) /\ e[2] \in Mem(program)
    BY <1>3 DEF Required
  <2> QED
    BY <1>1, <1>3, <2>1 DEF Required, Keeps, Coh, Together, Alike
<1>4. ASSUME NEW e \in Keeps(m) PROVE e \in Required(m)
  BY <1>4 DEF Required, Keeps, Together
<1>5. ASSUME NEW e \in Coh PROVE e \in Required(m)
  <2>1. e = <<e[1], e[2]>> /\ e[1] \in Stores(program) /\ e[2] \in Stores(program)
    BY <1>5 DEF Coh
  <2> QED
    BY <1>1, <1>2, <1>5, <2>1 DEF Required, Coh, Alike
<1> QED
  BY <1>3, <1>4, <1>5

\* Every model keeps the accesses of one core to one address in order, but
\* for a load after a store.
LEMMA KeepsAddress ==
  ASSUME Shape, NEW m \in Models, NEW i \in Mem(program), NEW j \in Mem(program),
         i < j, Together(i, j), Alike(i, j), i \in Loads(program) \/ j \in Stores(program)
  PROVE  <<i, j>> \in Keeps(m)
<1>1. Op(i).kind = "load" \/ Op(j).kind = "store"
  BY DEF Loads, Stores, Op
<1>2. Ordered(m, i, j)
  BY <1>1 DEF Ordered, Models, Alike
<1> QED
  BY <1>2 DEF Keeps

(***************************************************************************)
(* What an order of all accesses explains has no cycles.                   *)
(***************************************************************************)
\* Any numbers that tell the members of U apart and respect the relation.
Ranks(R, U, pos) ==
  /\ \A j \in U : pos[j] \in Nat
  /\ \A j, k \in U : pos[j] = pos[k] => j = k
  /\ \A j, k \in U : <<j, k>> \in R => pos[j] < pos[k]

\* Along the edges of one location keys never fall, and rise to a store.
Rising ==
  \A u, v \in Mem(program) : <<u, v>> \in Local =>
    /\ Key[u] <= Key[v]
    /\ v \in Stores(program) => Key[u] < Key[v]
    /\ u \in Loads(program) /\ v \in Loads(program) => u < v

\* In an order that explains the run, every edge of the checker ascends.
LEMMA EdgesInOrder ==
  ASSUME Settled, NEW m \in Models, NEW pos,
         Ranks(Keeps(m) \cup Coh, Mem(program), pos), Serial(pos)
  PROVE  /\ \A u, v \in Mem(program) : <<u, v>> \in Global(m) => pos[u] < pos[v]
         /\ Rising
<1> USE DEF Settled
<1>1. ASSUME NEW u \in Mem(program), NEW v \in Mem(program), <<u, v>> \in Keeps(m) \cup Coh
      PROVE  pos[u] < pos[v]
  BY <1>1 DEF Ranks
<1>2. \A u, v \in Mem(program) : pos[u] \in Int /\ (pos[u] = pos[v] => u = v)
  BY DEF Ranks
<1>3. ASSUME NEW u \in Loads(program), NEW v \in Stores(program), <<u, v>> \in Over
      PROVE  pos[u] < pos[v] /\ ~ (v < u /\ Together(v, u))
  <2>1. v \notin Sees(pos, u)
    BY <1>3 DEF Serial, Over, Shape
  <2>2. Alike(v, u) /\ u \in Mem(program) /\ v \in Mem(program) /\ u # v
    BY <1>3 DEF Over, Alike, Shape
  <2>3. ~ (pos[v] < pos[u]) /\ ~ (v < u /\ Together(v, u))
    BY <2>1, <2>2, SeesMeans
  <2> QED
    BY <1>2, <2>2, <2>3
<1>4. ASSUME NEW u \in Stores(program), NEW v \in Loads(program), <<u, v>> \in From
      PROVE  Key[u] = Key[v] /\ (pos[u] < pos[v] \/ (u < v /\ Together(u, v)))
  <2>1. u = source[v] /\ u # 0
    <3>1. u \in Mem(program)
      BY DEF Shape
    <3> QED
      BY <1>4, <3>1 DEF From, Shape
  <2>2. u \in Sees(pos, v)
    BY <2>1 DEF Serial
  <2> QED
    BY <2>1, <2>2, SeesMeans
<1>5. ASSUME NEW u \in Mem(program), NEW v \in Mem(program), <<u, v>> \in Global(m)
      PROVE  pos[u] < pos[v]
  <2>1. CASE <<u, v>> \in Keeps(m) \cup Coh
    BY <1>1, <2>1
  <2>2. CASE <<u, v>> \in From /\ ~ Together(u, v)
    BY <1>4, <2>2 DEF From
  <2>3. CASE <<u, v>> \in Over
    BY <1>3, <2>3 DEF Over
  <2> QED
    BY <1>5, <2>1, <2>2, <2>3 DEF Global
<1>6. ASSUME NEW u \in Mem(program), NEW v \in Mem(program), <<u, v>> \in Loc
      PROVE  /\ Key[u] <= Key[v] /\ u < v
             /\ v \in Stores(program) => Key[u] < Key[v]
  <2>1. u < v /\ Together(u, v) /\ Alike(u, v)
    BY <1>6 DEF Loc
  <2>2. CASE u \in Stores(program) /\ v \in Stores(program)
    <3>1. pos[u] < pos[v]
      BY <1>1, <2>1, <2>2, KeepsAddress
    <3>2. ~ (Key[v] < Key[u])
      <4>1. Alike(v, u) /\ (Key[v] < Key[u] => <<v, u>> \in Coh)
        BY <2>1, <2>2 DEF Coh, Alike
      <4> QED
        BY <1>1, <1>2, <3>1, <4>1
    <3> QED
      BY <2>1, <2>2, <3>2 DEF Shape
  <2>3. CASE u \in Stores(program) /\ v \in Loads(program)
    <3>1. u \in Sees(pos, v)
      BY <2>1, <2>3, SeesMeans
    <3> QED
      BY <2>1, <2>3, <3>1 DEF Serial, Shape
  <2>4. CASE u \in Loads(program)
    <3>1. pos[u] < pos[v]
      BY <1>1, <2>1, <2>4, KeepsAddress
    <3>2. CASE source[u] = 0
      <4>1. Key[u] = 0
        BY <2>4, <3>2 DEF Shape
      <4> QED
        BY <2>1, <4>1
    <3>3. CASE source[u] # 0
      <4> DEFINE w == source[u]
      <4>1. w \in Stores(program) /\ w \in Mem(program) /\ Alike(w, u) /\ Key[w] = Key[u]
            /\ w \in Sees(pos, u)
        BY <2>4, <3>3 DEF Shape, Serial
      <4>2. Alike(w, v) /\ (pos[w] < pos[v] \/ (w < v /\ Together(w, v)))
        <5>1. pos[w] < pos[u] \/ (w < u /\ Together(w, u))
          BY <2>4, <4>1, SeesMeans
        <5>2. w \in Nat /\ u \in Nat /\ v \in Nat
          BY <4>1 DEF Shape
        <5> QED
          BY <1>2, <2>1, <3>1, <4>1, <5>1, <5>2 DEF Alike, Together
      <4>3. CASE v \in Loads(program)
        <5>1. w \in Sees(pos, v)
          BY <4>1, <4>2, <4>3, SeesMeans
        <5> QED
          BY <2>1, <4>1, <4>3, <5>1 DEF Serial, Shape
      <4>4. CASE v \in Stores(program)
        <5>1. pos[w] < pos[v]
          BY <1>1, <4>1, <4>2, <4>4, KeepsAddress
        <5>2. ~ (Key[v] < Key[w])
          <6>1. Alike(v, w) /\ (Key[v] < Key[w] => <<v, w>> \in Coh)
            BY <4>1, <4>2, <4>4 DEF Coh, Alike
          <6> QED
            BY <1>1, <1>2, <4>1, <5>1, <6>1
        <5> QED
          BY <1>2, <2>1, <4>1, <4>2, <4>4, <5>1, <5>2
      <4> QED
        BY <4>3, <4>4 DEF Shape
    <3> QED
      BY <3>2, <3>3
  <2> QED
    BY <2>2, <2>3, <2>4 DEF Shape
<1>7. ASSUME NEW u \in Mem(program), NEW v \in Mem(program), <<u, v>> \in Local
      PROVE  /\ Key[u] <= Key[v]
             /\ v \in Stores(program) => Key[u] < Key[v]
             /\ u \in Loads(program) /\ v \in Loads(program) => u < v
  <2>1. CASE <<u, v>> \in Loc
    BY <1>6, <2>1
  <2>2. CASE <<u, v>> \in From
    BY <1>4, <2>2 DEF From, Shape
  <2>3. CASE <<u, v>> \in Coh
    BY <2>3 DEF Coh, Shape
  <2>4. CASE <<u, v>> \in Over
    BY <2>4 DEF Over, Shape
  <2> QED
    BY <1>7, <2>1, <2>2, <2>3, <2>4 DEF Local
<1> QED
  BY <1>5, <1>7 DEF Rising

\* Orders gives numberings of all accesses.
LEMMA OrdersNumber ==
  ASSUME Shape, NEW R, NEW pos \in Orders(R)
  PROVE  Numbers(R, Mem(program), pos)
<1> DEFINE M == Mem(program)
           f == OrdersOf(R, M)
<1>1. IsFiniteSet(M) /\ pos \in f[M]
  BY OrdersAre DEF Shape
<1>2. Extends(R, M, f)
  BY <1>1, OrdersExtend
<1> HIDE DEF M, f
<1>3. Numbers(R, M, pos)
  BY <1>1, <1>2, OrdersRespect
<1> QED
  BY <1>3 DEF M

\* What ascends along every edge on one location closes no cycle there.
LEMMA RisingHasNoCycle ==
  ASSUME Settled, Rising
  PROVE  ~ HasCycle(Mem(program), Local)
<1> DEFINE M == Mem(program)
<1>1. \A v \in M : Key[v] \in Nat /\ v \in Nat
  BY DEF Settled, Shape
<1>2. /\ M = Loads(program) \cup Stores(program)
      /\ \A u, v \in M : <<u, v>> \in Local =>
              /\ Key[u] <= Key[v]
              /\ v \in Stores(program) => Key[u] < Key[v]
              /\ u \in Loads(program) /\ v \in Loads(program) => u < v
  BY DEF Settled, Shape, Rising
<1> HIDE DEF M
<1>3. ASSUME NEW C \in SUBSET M, C # {}, \A v \in C : \E u \in C : <<u, v>> \in Local
      PROVE  FALSE
  <2>1. PICK v \in C : \A w \in C : Key[v] <= Key[w]
    <3>1. \A v \in C : Key[v] \in Nat
      BY <1>1
    <3> QED
      BY <1>3, <3>1, Lowest
  <2> DEFINE D == {w \in C : Key[w] = Key[v]}
  <2>2. ASSUME NEW w \in D
        PROVE  w \in Loads(program) /\ \E u \in D : <<u, w>> \in Local /\ u < w
    <3>1. PICK u \in C : <<u, w>> \in Local
      BY <1>3
    <3>2. Key[v] <= Key[u] /\ Key[u] <= Key[w] /\ Key[w] = Key[v]
      BY <1>2, <2>1, <3>1
    <3>3. u \in D /\ ~ (Key[u] < Key[w])
      BY <1>1, <3>2
    <3>4. w \in Loads(program)
      BY <1>2, <3>1, <3>3
    <3>5. PICK x \in C : <<x, u>> \in Local
      BY <1>3
    <3>6. Key[v] <= Key[x] /\ Key[x] <= Key[u] /\ Key[u] = Key[v]
      BY <1>2, <2>1, <3>3, <3>5
    <3>7. u \in Loads(program)
      BY <1>1, <1>2, <3>5, <3>6
    <3> QED
      BY <1>2, <3>1, <3>3, <3>4, <3>7
  <2>3. D \in SUBSET Nat /\ v \in D
    BY <1>1
  <2> HIDE DEF D
  <2>4. PICK w \in D : \A u \in D : w <= u
    BY <2>3, Least
  <2>5. PICK u \in D : u < w
    BY <2>2
  <2>6. w <= u /\ w \in Nat /\ u \in Nat
    BY <2>3, <2>4
  <2> QED
    BY <2>5, <2>6
<1> QED
  BY <1>3 DEF HasCycle, M

\* An execution that an order explains has neither kind of cycle.
LEMMA ExplainedHasNoCycle ==
  ASSUME Settled, NEW m \in Models, NEW pos,
         Ranks(Keeps(m) \cup Coh, Mem(program), pos), Serial(pos)
  PROVE  ~ HasCycle(Mem(program), Local) /\ ~ HasCycle(Mem(program), Global(m))
<1> DEFINE M == Mem(program)
<1>1. Rising /\ \A u, v \in M : <<u, v>> \in Global(m) => pos[u] < pos[v]
  BY EdgesInOrder
<1>2. \A v \in M : pos[v] \in Nat
  BY DEF Ranks
<1> HIDE DEF M
<1>3. ASSUME NEW C \in SUBSET M, C # {}, \A v \in C : \E u \in C : <<u, v>> \in Global(m)
      PROVE  FALSE
  <2>1. PICK v \in C : \A w \in C : pos[v] <= pos[w]
    <3>1. \A v \in C : pos[v] \in Nat
      BY <1>2
    <3> QED
      BY <1>3, <3>1, Lowest
  <2>2. PICK u \in C : <<u, v>> \in Global(m)
    BY <1>3
  <2> QED
    BY <1>1, <1>2, <2>1, <2>2
<1>4. ~ HasCycle(M, Global(m))
  BY <1>3 DEF HasCycle
<1>5. ~ HasCycle(M, Local)
  BY <1>1, RisingHasNoCycle DEF M
<1> QED
  BY <1>4, <1>5 DEF M

(***************************************************************************)
(* Without cycles, some order explains what the loads have read.           *)
(***************************************************************************)
\* No two accesses come before each other at one address.
LEMMA NoTwoCycle ==
  ASSUME NEW S, NEW R, ~ HasCycle(S, R), NEW i \in S, NEW j \in S
  PROVE  ~ (<<i, j>> \in R /\ <<j, i>> \in R)
<1> SUFFICES ASSUME <<i, j>> \in R, <<j, i>> \in R PROVE HasCycle(S, R)
  OBVIOUS
<1>1. {i, j} \in (SUBSET S) \ {{}}
  OBVIOUS
<1>2. \A v \in {i, j} : \E u \in {i, j} : <<u, v>> \in R
  OBVIOUS
<1> QED
  BY <1>1, <1>2 DEF HasCycle

\* Without cycles, no three edges close one.
LEMMA NoThreeCycle ==
  ASSUME NEW S, NEW R, ~ HasCycle(S, R), NEW i \in S, NEW j \in S, NEW k \in S
  PROVE  ~ (<<i, j>> \in R /\ <<j, k>> \in R /\ <<k, i>> \in R)
<1> SUFFICES ASSUME <<i, j>> \in R, <<j, k>> \in R, <<k, i>> \in R PROVE HasCycle(S, R)
  OBVIOUS
<1>1. {i, j, k} \in (SUBSET S) \ {{}}
  OBVIOUS
<1>2. \A v \in {i, j, k} : \E u \in {i, j, k} : <<u, v>> \in R
  OBVIOUS
<1> QED
  BY <1>1, <1>2 DEF HasCycle

\* An order that respects the global edges lets each load see what it has read.
LEMMA AcyclicIsSerial ==
  ASSUME Settled, NEW m \in Models, ~ HasCycle(Mem(program), Local),
         NEW pos, Numbers(Global(m), Mem(program), pos)
  PROVE  Serial(pos)
<1> USE DEF Settled
<1>1. /\ \A u \in Mem(program) : pos[u] \in Int
      /\ \A u, v \in Mem(program) : <<u, v>> \in Global(m) => pos[u] < pos[v]
  <2>1. \A u \in Mem(program) : pos[u] \in 1..Cardinality(Mem(program))
    BY DEF Numbers
  <2>2. \A u, v \in Mem(program) : <<u, v>> \in Global(m) => pos[u] < pos[v]
    BY DEF Numbers
  <2> QED
    BY <2>1, <2>2
<1>2. \A u, v \in Mem(program) : ~ (<<u, v>> \in Local /\ <<v, u>> \in Local)
  BY NoTwoCycle
<1>3. ASSUME NEW l \in Loads(program), source[l] # 0 PROVE source[l] \in Sees(pos, l)
  <2> DEFINE w == source[l]
  <2>1. w \in Stores(program) /\ Alike(w, l) /\ <<w, l>> \in From
        /\ w \in Mem(program) /\ l \in Mem(program) /\ w # l
    BY <1>3 DEF From, Shape
  <2>2. CASE Together(w, l)
    <3>1. ~ (<<l, w>> \in Loc)
      BY <1>2, <2>1 DEF Local
    <3>2. ~ (l < w) /\ l \in Nat /\ w \in Nat
      BY <2>1, <2>2, <3>1 DEF Loc, Together, Alike, Shape
    <3>3. w < l
      BY <2>1, <3>2
    <3> HIDE DEF w
    <3> QED
      BY <2>1, <2>2, <3>3, SeesMeans DEF w
  <2>3. CASE ~ Together(w, l)
    <3>1. <<w, l>> \in Global(m)
      BY <2>1, <2>3 DEF Global
    <3>2. pos[w] < pos[l]
      BY <1>1, <2>1, <3>1
    <3> QED
      BY <2>1, <3>2, SeesMeans
  <2> QED
    BY <2>2, <2>3
<1>4. ASSUME NEW l \in Loads(program), NEW s \in Sees(pos, l) PROVE Key[s] <= Key[l]
  <2>1. /\ s \in Stores(program) /\ Alike(s, l) /\ s \in Mem(program) /\ l \in Mem(program)
        /\ Key[s] \in Nat /\ Key[l] \in Nat
        /\ pos[s] < pos[l] \/ (s < l /\ Together(s, l))
    BY SeesMeans DEF Shape
  <2> SUFFICES ASSUME Key[l] < Key[s] PROVE FALSE
    BY <2>1
  <2>2. <<l, s>> \in Over
    BY <2>1 DEF Over, Alike
  <2>3. pos[l] < pos[s]
    BY <1>1, <2>1, <2>2 DEF Global
  <2>4. s < l /\ Together(s, l)
    <3>1. pos[s] \in Int /\ pos[l] \in Int
      BY <1>1, <2>1
    <3> QED
      BY <2>1, <2>3, <3>1
  <2>5. <<s, l>> \in Loc
    BY <2>1, <2>4 DEF Loc
  <2> QED
    BY <1>2, <2>1, <2>2, <2>5 DEF Local
<1> QED
  BY <1>3, <1>4 DEF Serial

\* The two cycle checks together are one order of all accesses.
LEMMA CyclesAreExact ==
  ASSUME Settled, NEW m \in Models
  PROVE  (\E pos \in Orders(Required(m)) : Serial(pos)) <=>
           ~ HasCycle(Mem(program), Local) /\ ~ HasCycle(Mem(program), Global(m))
<1> DEFINE M == Mem(program)
           R == Keeps(m) \cup Coh
<1>1. Shape /\ IsFiniteSet(M) /\ Required(m) = R
  BY RequiredMeans DEF Settled, Shape
<1>2. ASSUME NEW pos \in Orders(Required(m)), Serial(pos)
      PROVE  ~ HasCycle(M, Local) /\ ~ HasCycle(M, Global(m))
  <2>1. Ranks(R, M, pos)
    <3> HIDE DEF R
    <3>1. Numbers(R, M, pos)
      BY <1>1, OrdersNumber
    <3> QED
      BY <3>1 DEF Numbers, Ranks
  <2> QED
    BY <1>2, <2>1, ExplainedHasNoCycle
<1>3. ASSUME ~ HasCycle(M, Local), ~ HasCycle(M, Global(m))
      PROVE  \E pos \in Orders(Required(m)) : Serial(pos)
  <2> DEFINE f == OrdersOf(R, M)
  <2>1. Extends(R, M, f)
    BY <1>1, OrdersExtend
  <2>2. R \subseteq Global(m)
    BY DEF Global
  <2>3. PICK pos \in f[M] : Numbers(Global(m), M, pos)
    <3> HIDE DEF R, M, f
    <3> QED
      BY <1>1, <1>3, <2>1, <2>2, OrdersReach
  <2>4. Serial(pos)
    BY <1>3, <2>3, AcyclicIsSerial
  <2>5. pos \in Orders(Required(m))
    BY <1>1, <2>3, OrdersAre
  <2> QED
    BY <2>4, <2>5
<1> QED
  BY <1>2, <1>3

(***************************************************************************)
(* Atomics.                                                                *)
(***************************************************************************)
Between(l) ==
  {t \in Stores(program) : /\ Alike(t, l) /\ Key[t] < Key[l + 1]
                           /\ source[l] # 0 => Key[l] < Key[t]}

Undivided == \A l \in Loads(program) : Op(l).rmw # None => Between(l) = {}

\* Atomics are joined in the run exactly when none is divided by a store.
LEMMA JoinedIsUndivided ==
  ASSUME Settled
  PROVE  /\ Joined => Undivided
         /\ Undivided /\ ~ HasCycle(Mem(program), Local) => Joined
<1> USE DEF Settled
<1>1. ASSUME NEW l \in Loads(program), Op(l).rmw # None
      PROVE  /\ l + 1 \in Stores(program) /\ Alike(l, l + 1) /\ Together(l, l + 1)
             /\ l + 1 \in Mem(program) /\ l \in Mem(program) /\ l \in Nat
             /\ Key[l] \in Nat /\ Key[l + 1] \in Nat /\ Key[l + 1] # 0
             /\ <<l, l + 1>> \in Local
  <2>1. l + 1 \in Stores(program) /\ Alike(l, l + 1) /\ Together(l, l + 1)
        /\ l + 1 \in Mem(program) /\ l \in Mem(program) /\ l \in Nat /\ l < l + 1
    BY <1>1 DEF Shape
  <2>2. <<l, l + 1>> \in Loc
    BY <2>1 DEF Loc
  <2> QED
    BY <2>1, <2>2 DEF Local
<1>2. \A t \in Stores(program) : Key[t] \in Nat /\ Key[t] # 0
  BY DEF Shape
<1>3. ASSUME Joined PROVE Undivided
  <2> SUFFICES ASSUME NEW l \in Loads(program), Op(l).rmw # None, NEW t \in Between(l)
               PROVE  FALSE
    BY DEF Undivided
  <2>1. Key[l + 1] = Key[l] + 1 /\ t \in Stores(program) /\ Key[t] < Key[l + 1]
    BY <1>3 DEF Joined, Between
  <2>2. CASE source[l] = 0
    BY <1>1, <1>2, <2>1, <2>2 DEF Shape
  <2>3. CASE source[l] # 0
    BY <1>1, <1>2, <2>1, <2>3 DEF Between
  <2> QED
    BY <2>2, <2>3
<1>4. ASSUME Undivided, ~ HasCycle(Mem(program), Local), NEW l \in Loads(program),
             Op(l).rmw # None
      PROVE  Key[l + 1] = Key[l] + 1
  <2> DEFINE s == l + 1
             w == source[l]
  <2>0. /\ s \in Stores(program) /\ Alike(l, s) /\ s \in Mem(program) /\ l \in Mem(program)
        /\ Key[l] \in Nat /\ Key[s] \in Nat /\ Key[s] # 0 /\ <<l, s>> \in Local
    BY <1>1, <1>4
  <2>1. Key[l] < Key[s]
    <3>1. CASE w = 0
      BY <2>0, <3>1
    <3>2. CASE w # 0
      <4>1. /\ w \in Stores(program) /\ w \in Mem(program) /\ Alike(w, l) /\ Key[w] = Key[l]
            /\ <<w, l>> \in Local
        BY <3>2 DEF From, Local, Shape
      <4>2. ~ (w = s)
        BY <1>4, <2>0, <4>1, NoTwoCycle
      <4>3. ~ (<<s, w>> \in Local)
        BY <1>4, <2>0, <4>1, NoThreeCycle
      <4>4. ~ (Key[s] < Key[w]) /\ Alike(s, w)
        <5> HIDE DEF s, w
        <5> QED
          BY <2>0, <4>1, <4>3 DEF Coh, Local, Alike
      <4>5. Key[s] # Key[w]
        BY <2>0, <4>1, <4>2, <4>4
      <4> QED
        BY <2>0, <4>1, <4>4, <4>5
    <3> QED
      BY <3>1, <3>2
  <2>2. ASSUME Key[l] + 1 < Key[s] PROVE FALSE
    <3>1. Key[l] + 1 \in 1..Key[s]
      BY <2>0, <2>2
    <3>2. PICK t \in Stores(program) : Alike(t, s) /\ Key[t] = Key[l] + 1
      BY <2>0, <3>1
    <3>3. t \in Between(l)
      BY <2>0, <2>2, <3>2 DEF Between, Alike
    <3> QED
      BY <1>4, <3>3 DEF Undivided
  <2> QED
    BY <2>0, <2>1, <2>2
<1> QED
  BY <1>3, <1>4 DEF Joined

(***************************************************************************)
(* The consistency trace tells the checker what happened: the edges it     *)
(* finds in the trace are those of the run.                                *)
(***************************************************************************)
LEMMA ProgramFacts ==
  ASSUME program \in Programs
  PROVE  /\ WellFormed(program) /\ program \in Seq(Instructions) /\ Len(program) \in Nat
         /\ DOMAIN program = 1..Len(program) /\ DOMAIN program \subseteq Nat
         /\ \A i \in DOMAIN program : Op(i) \in Instructions
         /\ \A i \in Mem(program) : Op(i).addr \in Addrs /\ Op(i).addr # None
         /\ Loads(program) \cup Stores(program) = Mem(program)
         /\ Mem(program) \subseteq DOMAIN program
         /\ Loads(program) \cap Stores(program) = {}
         /\ Fences(program) \cap Mem(program) = {} /\ Fences(program) \subseteq DOMAIN program
<1>1. WellFormed(program) /\ program \in Seq(Instructions)
  BY ProgramsAssumption DEF WellFormed
<1>2. DOMAIN program = 1..Len(program) /\ Len(program) \in Nat
  BY <1>1
<1>3. \A i \in DOMAIN program : program[i] \in Instructions
  BY <1>1
<1>4. \A i \in DOMAIN program : program[i].addr \in Addrs \cup {None}
  BY <1>3 DEF Instructions
<1>5. ASSUME NEW i \in Mem(program) PROVE Op(i).addr \in Addrs /\ Op(i).addr # None
  <2>1. i \in DOMAIN program /\ program[i].kind # "fence"
    BY DEF Mem
  <2>2. program[i].addr # None
    BY <1>1, <2>1 DEF WellFormed
  <2> QED
    BY <1>4, <2>1, <2>2 DEF Op
<1> QED
  BY <1>1, <1>2, <1>3, <1>5 DEF Mem, Loads, Stores, Fences, Op

\* A well-formed program has the shape of a graph of accesses.
LEMMA ShapeHolds ==
  ASSUME program \in Programs
  PROVE  Shape
<1>1. IsFiniteSet(DOMAIN program)
  BY ProgramFacts, FS_Interval
<1>2. IsFiniteSet(Mem(program))
  BY <1>1, ProgramFacts, FS_Subset
<1>3. ASSUME NEW l \in Loads(program), Op(l).rmw # None
      PROVE  l + 1 \in Stores(program) /\ Alike(l, l + 1) /\ Together(l, l + 1)
  BY <1>3, ProgramFacts DEF WellFormed, Alike, Together, Op
<1> QED
  BY <1>2, <1>3, ProgramFacts DEF Shape

\* What each mark adds to the trace.
LEMMA ExecutionFields ==
  ASSUME program \in Programs, NEW marks, NEW x, x = Execution(marks)
  PROVE  /\ DOMAIN x = DOMAIN program
         /\ \A i \in DOMAIN program :
              /\ x[i].core = Op(i).core /\ x[i].kind = Op(i).kind /\ x[i].addr = Op(i).addr
              /\ x[i].deps = Op(i).deps /\ x[i].aq = Op(i).aq /\ x[i].rl = Op(i).rl
              /\ x[i].pred = Op(i).pred /\ x[i].succ = Op(i).succ /\ x[i].rmw = Op(i).rmw
              /\ x[i].value = IF i \in Loads(program) THEN Value(source[i]) ELSE Op(i).value
              /\ x[i].cycle = IF "cycle" \in marks /\ i \in Mem(program)
                              THEN Instant(i) ELSE None
              /\ x[i].co = IF "co" \in marks /\ i \in Stores(program)
                           THEN Rank(Op(i).addr, i) ELSE None
              /\ x[i].rf = IF "rf" \in marks /\ i \in Loads(program) /\ source[i] # 0
                           THEN source[i] ELSE None
<1>1. DOMAIN x = DOMAIN program
  BY DEF Execution
<1>2. ASSUME NEW i \in DOMAIN program
      PROVE  /\ x[i].core = Op(i).core /\ x[i].kind = Op(i).kind /\ x[i].addr = Op(i).addr
             /\ x[i].deps = Op(i).deps /\ x[i].aq = Op(i).aq /\ x[i].rl = Op(i).rl
             /\ x[i].pred = Op(i).pred /\ x[i].succ = Op(i).succ /\ x[i].rmw = Op(i).rmw
             /\ x[i].value = IF i \in Loads(program) THEN Value(source[i]) ELSE Op(i).value
             /\ x[i].cycle = IF "cycle" \in marks /\ i \in Mem(program)
                             THEN Instant(i) ELSE None
             /\ x[i].co = IF "co" \in marks /\ i \in Stores(program)
                          THEN Rank(Op(i).addr, i) ELSE None
             /\ x[i].rf = IF "rf" \in marks /\ i \in Loads(program) /\ source[i] # 0
                          THEN source[i] ELSE None
  <2> DEFINE v == IF i \in Loads(program) THEN Value(source[i]) ELSE program[i].value
             y == IF "cycle" \in marks /\ i \in Mem(program) THEN Instant(i)
                  ELSE program[i].cycle
             o == IF "co" \in marks /\ i \in Stores(program) THEN Rank(Op(i).addr, i)
                  ELSE program[i].co
             r == IF "rf" \in marks /\ i \in Loads(program) /\ source[i] # 0
                  THEN source[i] ELSE program[i].rf
  <2>1. x[i] = [program[i] EXCEPT !.value = v, !.cycle = y, !.co = o, !.rf = r]
    BY DEF Execution
  <2>2. program[i] \in Instructions
    BY ProgramFacts DEF Op
  <2>3. program[i].cycle = None /\ program[i].co = None /\ program[i].rf = None
    BY <2>2 DEF Instructions
  <2> HIDE DEF v, y, o, r
  <2>4. /\ x[i].core = program[i].core /\ x[i].kind = program[i].kind
        /\ x[i].addr = program[i].addr /\ x[i].deps = program[i].deps
        /\ x[i].aq = program[i].aq /\ x[i].rl = program[i].rl
        /\ x[i].pred = program[i].pred /\ x[i].succ = program[i].succ
        /\ x[i].rmw = program[i].rmw
        /\ x[i].value = v /\ x[i].cycle = y /\ x[i].co = o /\ x[i].rf = r
    BY <2>1, <2>2 DEF Instructions
  <2> QED
    BY <2>3, <2>4 DEF Op, v, y, o, r
<1> QED
  BY <1>1, <1>2

\* The trace lists the accesses of the program.
LEMMA SameSets ==
  ASSUME program \in Programs, NEW marks, NEW x, x = Execution(marks)
  PROVE  /\ Mem(x) = Mem(program) /\ Loads(x) = Loads(program)
         /\ Stores(x) = Stores(program) /\ Fences(x) = Fences(program)
         /\ \A a : StoresTo(x, a) = StoresTo(program, a)
<1>1. /\ DOMAIN x = DOMAIN program
      /\ \A i \in DOMAIN program : x[i].kind = program[i].kind /\ x[i].addr = program[i].addr
  BY ExecutionFields DEF Op
<1>2. Mem(x) = Mem(program) /\ Loads(x) = Loads(program)
      /\ Stores(x) = Stores(program) /\ Fences(x) = Fences(program)
  BY <1>1 DEF Mem, Loads, Stores, Fences
<1>3. Stores(program) \subseteq DOMAIN program
  BY DEF Stores
<1> QED
  BY <1>1, <1>2, <1>3 DEF StoresTo

\* The stamps of the stores of an address are in the order of their keys.
Dated ==
  /\ \A i \in Mem(program) : Instant(i) \in Nat
  /\ \A s, t \in Stores(program) : Alike(s, t) =>
       (Instant(s) < Instant(t) <=> Key[s] < Key[t])

\* Where each address is stored once, two stores of one address are one.
LEMMA OneStore ==
  ASSUME Shape, SingleStores, program \in Programs,
         NEW s \in Stores(program), NEW t \in Stores(program), Alike(s, t)
  PROVE  s = t
<1> DEFINE T == StoresTo(program, Op(s).addr)
<1>1. s \in T /\ t \in T /\ Op(s).addr \in Addrs
  BY ProgramFacts DEF StoresTo, Alike, Op
<1>2. IsFiniteSet(T)
  <2>1. T \subseteq Mem(program)
    BY DEF StoresTo, Stores, Mem
  <2> QED
    BY <2>1, FS_Subset DEF Shape
<1>3. Cardinality(T) <= 1 /\ Cardinality(T) \in Nat
  BY <1>1, <1>2, FS_CardinalityType DEF SingleStores
<1> HIDE DEF T
<1>4. T # {} /\ Cardinality(T) # 0
  BY <1>1, <1>2, FS_EmptySet
<1>5. Cardinality(T) = 1
  BY <1>3, <1>4
<1>6. \E z : T = {z}
  BY <1>2, <1>5, FS_Singleton
<1> QED
  BY <1>1, <1>6

\* Whatever the marks, coherence order in the trace is the order in memory.
LEMMA CoherenceFound ==
  ASSUME program \in Programs, Settled, Dated, NEW marks \in Marks,
         NEW x, x = Execution(marks),
         NEW s \in Stores(program), NEW t \in Stores(program), Alike(s, t)
  PROVE  CoBefore(x, s, t) <=> Key[s] < Key[t]
<1>1. Shape /\ s \in Mem(program) /\ t \in Mem(program) /\ s \in DOMAIN program
      /\ t \in DOMAIN program /\ s \in Nat /\ t \in Nat
  BY ProgramFacts DEF Settled
<1>2. Key[s] \in Nat /\ Key[t] \in Nat /\ (Key[s] = Key[t] => s = t)
  BY <1>1 DEF Settled
<1>3. Rank(Op(s).addr, s) = Key[s] /\ Rank(Op(t).addr, t) = Key[t]
  BY <1>1, KeyMeans
<1>4. Instant(s) \in Nat /\ Instant(t) \in Nat /\ (Instant(s) < Instant(t) <=> Key[s] < Key[t])
  BY <1>1 DEF Dated
<1>5. Instant(t) < Instant(s) <=> Key[t] < Key[s]
  <2>1. Alike(t, s)
    BY DEF Alike
  <2> QED
    BY <2>1 DEF Dated
<1>6. None \notin Nat
  BY ProgramsAssumption
<1>7. CASE "co" \in marks
  <2>1. x[s].co = Key[s] /\ x[t].co = Key[t]
    BY <1>1, <1>3, <1>7, ExecutionFields
  <2>2. CoKey(x, s) = <<0, Key[s]>> /\ CoKey(x, t) = <<0, Key[t]>>
    BY <1>2, <1>6, <2>1 DEF CoKey
  <2> QED
    BY <1>1, <1>2, <2>2 DEF CoBefore
<1>8. CASE "co" \notin marks /\ "cycle" \in marks
  <2>1. x[s].co = None /\ x[t].co = None /\ x[s].cycle = Instant(s) /\ x[t].cycle = Instant(t)
    BY <1>1, <1>8, ExecutionFields
  <2>2. CoKey(x, s) = <<1, Instant(s)>> /\ CoKey(x, t) = <<1, Instant(t)>>
    BY <1>4, <1>6, <2>1 DEF CoKey
  <2> QED
    BY <1>1, <1>2, <1>4, <1>5, <2>2 DEF CoBefore
<1>9. CASE "co" \notin marks /\ "cycle" \notin marks
  <2>1. SingleStores
    BY <1>9 DEF Marks
  <2>2. s = t
    BY <1>1, <2>1, OneStore
  <2>3. x[s].co = None /\ x[s].cycle = None
    BY <1>1, <1>9, ExecutionFields
  <2>4. CoKey(x, s) = <<2, s>>
    BY <2>3 DEF CoKey
  <2> QED
    BY <1>1, <1>2, <2>2, <2>4 DEF CoBefore
<1> QED
  BY <1>7, <1>8, <1>9

\* ... and the store a load has read from is found.
LEMMA SourceFound ==
  ASSUME program \in Programs, Settled, NEW marks \in Marks,
         NEW x, x = Execution(marks), NEW l \in Loads(program)
  PROVE  ReadsFrom(x, l) = IF source[l] = 0 THEN None ELSE source[l]
<1> DEFINE same == {s \in StoresTo(x, x[l].addr) : x[s].value = x[l].value}
           w == source[l]
<1>1. Shape /\ l \in Mem(program) /\ l \in DOMAIN program /\ None \notin Nat
      /\ Op(l).addr \in Addrs /\ Op(l).addr # None
  BY ProgramFacts, ProgramsAssumption DEF Settled
<1>2. /\ x[l].rf = IF "rf" \in marks /\ w # 0 THEN w ELSE None
      /\ x[l].value = Value(w) /\ x[l].addr = Op(l).addr
  BY <1>1, ExecutionFields
<1>3. ASSUME NEW s \in StoresTo(x, x[l].addr)
      PROVE  s \in Stores(program) /\ Alike(s, l) /\ x[s].value = Value(s) /\ Value(s) # 0
             /\ s \in StoresTo(program, Op(l).addr) /\ s # 0
  <2>1. s \in StoresTo(program, Op(l).addr)
    BY <1>2, SameSets
  <2>2. s \in Stores(program) /\ Alike(s, l)
    BY <2>1 DEF StoresTo, Alike, Op
  <2>3. s \in DOMAIN program /\ s \notin Loads(program) /\ s # 0
    BY <1>1, <2>2, ProgramFacts DEF Shape
  <2>4. x[s].value = Op(s).value
    BY <2>3, ExecutionFields
  <2>5. Op(s).value # 0
    BY <2>2, ProgramFacts DEF WellFormed, Op
  <2> QED
    BY <2>1, <2>2, <2>3, <2>4, <2>5 DEF Value
<1>4. CASE w = 0
  <2>1. x[l].rf = None /\ x[l].value = 0
    BY <1>2, <1>4 DEF Value
  <2>2. same = {}
    BY <1>3, <2>1
  <2> QED
    BY <1>4, <2>1, <2>2 DEF ReadsFrom
<1>5. CASE w # 0
  <2>1. w \in Stores(program) /\ Alike(w, l) /\ w \in Nat
    BY <1>1, <1>5 DEF Settled, Shape
  <2>2. CASE "rf" \in marks
    BY <1>1, <1>2, <1>5, <2>1, <2>2 DEF ReadsFrom
  <2>3. CASE "rf" \notin marks
    <3>1. DistinctValues /\ x[l].rf = None
      BY <1>2, <2>3 DEF Marks
    <3>2. w \in StoresTo(program, Op(l).addr) /\ w \in StoresTo(x, x[l].addr)
      <4>1. w \in StoresTo(program, Op(l).addr)
        BY <1>1, <2>1 DEF StoresTo, Alike, Op
      <4> QED
        BY <1>2, <4>1, SameSets
    <3>3. ASSUME NEW s \in same PROVE s = w
      BY <1>1, <1>2, <1>3, <3>1, <3>2 DEF DistinctValues
    <3>4. w \in same
      BY <1>2, <1>3, <3>2
    <3>5. same = {w}
      BY <3>3, <3>4
    <3>6. ReadsFrom(x, l) = CHOOSE s \in same : \A t \in same \ {s} : CoBefore(x, t, s)
      BY <3>1, <3>4 DEF ReadsFrom
    <3> HIDE DEF same
    <3>7. (CHOOSE s \in same : \A t \in same \ {s} : CoBefore(x, t, s)) = w
      BY <3>5
    <3> QED
      BY <1>5, <3>6, <3>7
  <2> QED
    BY <2>2, <2>3
<1> QED
  BY <1>4, <1>5

\* The checker's program order is the run's.
LEMMA OrderFound ==
  ASSUME program \in Programs, NEW marks, NEW x, x = Execution(marks), NEW i, NEW j
  PROVE  <<i, j>> \in ProgramOrder(x) <=>
           i \in DOMAIN program /\ j \in DOMAIN program /\ i < j /\ Together(i, j)
BY ExecutionFields DEF ProgramOrder, Together

\* The edges on one location that the checker works out are those of the run.
LEMMA LocalFound ==
  ASSUME program \in Programs, Settled, Dated, NEW marks \in Marks,
         NEW x, x = Execution(marks)
  PROVE  /\ SameAddressEdges(x) = Loc
         /\ ReadsFromEdges(x, FALSE) = From
         /\ ReadsFromEdges(x, TRUE) = {e \in From : ~ Together(e[1], e[2])}
         /\ CoEdges(x) = Coh
         /\ FromReadEdges(x) = Over
<1>1. Shape /\ None \notin Nat
  BY ProgramsAssumption DEF Settled
<1>2. /\ Mem(x) = Mem(program) /\ Loads(x) = Loads(program) /\ Stores(x) = Stores(program)
      /\ Mem(program) \subseteq DOMAIN program /\ Loads(program) \subseteq Mem(program)
      /\ Stores(program) \subseteq Mem(program)
      /\ \A i \in Mem(program) : /\ x[i].addr = Op(i).addr /\ x[i].core = Op(i).core
                                 /\ Op(i).addr # None
  BY ProgramFacts, SameSets, ExecutionFields
<1>3. SameAddressEdges(x) = Loc
  <2>1. ASSUME NEW e \in SameAddressEdges(x) PROVE e \in Loc
    <3>1. e \in ProgramOrder(x) /\ e = <<e[1], e[2]>>
      BY <2>1 DEF SameAddressEdges, ProgramOrder
    <3>2. e[1] < e[2] /\ Together(e[1], e[2])
      BY <3>1, OrderFound
    <3>3. e[1] \in Mem(program) /\ e[2] \in Mem(program) /\ x[e[1]].addr = x[e[2]].addr
      BY <1>2, <2>1 DEF SameAddressEdges
    <3> QED
      BY <1>2, <3>1, <3>2, <3>3 DEF Loc, Alike
  <2>2. ASSUME NEW e \in Loc PROVE e \in SameAddressEdges(x)
    <3>1. /\ e = <<e[1], e[2]>> /\ e[1] \in Mem(program) /\ e[2] \in Mem(program)
          /\ e[1] < e[2] /\ Together(e[1], e[2]) /\ Op(e[1]).addr = Op(e[2]).addr
      BY <2>2 DEF Loc, Alike
    <3>2. e \in ProgramOrder(x)
      BY <1>2, <3>1, OrderFound
    <3> QED
      BY <1>2, <3>1, <3>2 DEF SameAddressEdges
  <2> QED
    BY <2>1, <2>2
<1>4. ASSUME NEW l \in Loads(program)
      PROVE  /\ l \in Addressed(x)
             /\ ReadsFrom(x, l) = IF source[l] = 0 THEN None ELSE source[l]
             /\ source[l] # 0 => source[l] \in Stores(program) /\ source[l] \in Mem(x)
                                 /\ Alike(source[l], l) /\ Key[source[l]] = Key[l]
             /\ source[l] = 0 => Key[l] = 0
             /\ source[l] \in Stores(program) => source[l] # 0
  <2>1. ReadsFrom(x, l) = IF source[l] = 0 THEN None ELSE source[l]
    BY SourceFound
  <2>2. 0 \notin Stores(program)
    BY <1>1, <1>2 DEF Shape
  <2> QED
    BY <1>1, <1>2, <2>1, <2>2 DEF Addressed, Settled
<1>5. \A l \in Addressed(x) : l \in Loads(program)
  BY <1>2 DEF Addressed
<1>6. None \notin Mem(x)
  BY <1>1, <1>2 DEF Shape
<1>7. ASSUME NEW ext \in BOOLEAN, NEW e
      PROVE  e \in ReadsFromEdges(x, ext) <=> e \in From /\ (ext => ~ Together(e[1], e[2]))
  <2>1. ASSUME e \in ReadsFromEdges(x, ext) PROVE e \in From /\ (ext => ~ Together(e[1], e[2]))
    <3>1. PICK l \in Addressed(x) : /\ e = <<ReadsFrom(x, l), l>> /\ ReadsFrom(x, l) \in Mem(x)
                                    /\ ext => x[ReadsFrom(x, l)].core # x[l].core
      BY <2>1 DEF ReadsFromEdges
    <3>2. l \in Loads(program) /\ ReadsFrom(x, l) = source[l] /\ source[l] \in Stores(program)
      BY <1>4, <1>5, <1>6, <3>1
    <3> QED
      BY <1>2, <3>1, <3>2 DEF From, Together
  <2>2. ASSUME e \in From, ext => ~ Together(e[1], e[2]) PROVE e \in ReadsFromEdges(x, ext)
    <3>1. e = <<e[1], e[2]>> /\ e[2] \in Loads(program) /\ e[1] = source[e[2]]
          /\ e[1] \in Stores(program)
      BY <2>2 DEF From
    <3>2. /\ ReadsFrom(x, e[2]) = e[1] /\ e[2] \in Addressed(x) /\ e[1] \in Mem(x)
          /\ ext => x[e[1]].core # x[e[2]].core
      BY <1>2, <1>4, <2>2, <3>1 DEF Together
    <3> QED
      BY <3>1, <3>2 DEF ReadsFromEdges
  <2> QED
    BY <2>1, <2>2
<1>8. CoEdges(x) = Coh
  <2>1. ASSUME NEW i \in Stores(program), NEW j \in Stores(program)
        PROVE  (x[i].addr = x[j].addr /\ x[i].addr # None /\ CoBefore(x, i, j))
               <=> (Alike(i, j) /\ Key[i] < Key[j])
    <3>1. x[i].addr = Op(i).addr /\ x[j].addr = Op(j).addr /\ Op(i).addr # None
      BY <1>2
    <3>2. CASE Alike(i, j)
      BY <3>1, <3>2, CoherenceFound DEF Alike
    <3>3. CASE ~ Alike(i, j)
      BY <3>1, <3>3 DEF Alike
    <3> QED
      BY <3>2, <3>3
  <2>2. Stores(x) = Stores(program)
    BY <1>2
  <2> QED
    BY <2>1, <2>2 DEF CoEdges, Coh
<1>9. FromReadEdges(x) = Over
  <2>1. ASSUME NEW l \in Loads(program), NEW s \in Stores(program)
        PROVE  (/\ s \in StoresTo(x, x[l].addr)
                /\ LET w == ReadsFrom(x, l)
                   IN  w = None \/ (w \in StoresTo(x, x[l].addr) /\ CoBefore(x, w, s)))
               <=> Alike(l, s) /\ Key[l] < Key[s]
    <3>1. \A t : t \in StoresTo(x, x[l].addr) <=> t \in Stores(program) /\ Alike(t, l)
      BY <1>2, SameSets DEF StoresTo, Alike, Op
    <3>2. CASE source[l] = 0
      <4>1. ReadsFrom(x, l) = None /\ Key[l] = 0 /\ Key[s] \in Nat /\ Key[s] # 0
        BY <1>2, <1>4, <3>2 DEF Settled
      <4> QED
        BY <3>1, <4>1 DEF Alike
    <3>3. CASE source[l] # 0
      <4> DEFINE w == source[l]
      <4>1. /\ ReadsFrom(x, l) = w /\ w \in Stores(program) /\ w # None
            /\ Alike(w, l) /\ Key[w] = Key[l]
        BY <1>1, <1>2, <1>4, <1>6, <3>3
      <4> HIDE DEF w
      <4>2. CASE Alike(l, s)
        <5>1. Alike(w, s)
          BY <4>1, <4>2 DEF Alike
        <5>2. CoBefore(x, w, s) <=> Key[w] < Key[s]
          BY <4>1, <5>1, CoherenceFound
        <5> QED
          BY <3>1, <4>1, <4>2, <5>2 DEF Alike
      <4>3. CASE ~ Alike(l, s)
        BY <3>1, <4>3 DEF Alike
      <4> QED
        BY <4>2, <4>3
    <3> QED
      BY <3>2, <3>3
  <2>2. Stores(x) = Stores(program) /\ Addressed(x) = Loads(program)
    BY <1>2, <1>4, <1>5
  <2> QED
    BY <2>1, <2>2 DEF FromReadEdges, Over
<1>10. ReadsFromEdges(x, FALSE) = From
       /\ ReadsFromEdges(x, TRUE) = {e \in From : ~ Together(e[1], e[2])}
  BY <1>7
<1> QED
  BY <1>3, <1>8, <1>9, <1>10

\* So are the edges that a model keeps of the program.
LEMMA KeptFound ==
  ASSUME program \in Programs, NEW marks, NEW x, x = Execution(marks), NEW m \in Models
  PROVE  PreservedEdges(x, m) \cup FenceEdges(x) \cup AnnotationEdges(x) = Keeps(m)
<1>1. /\ Mem(x) = Mem(program) /\ Fences(x) = Fences(program)
      /\ DOMAIN program \subseteq Nat
      /\ Mem(program) \subseteq DOMAIN program /\ Fences(program) \subseteq DOMAIN program
      /\ Fences(program) \cap Mem(program) = {}
      /\ \A i \in DOMAIN program :
           /\ x[i].addr = Op(i).addr /\ x[i].core = Op(i).core /\ x[i].kind = Op(i).kind
           /\ x[i].deps = Op(i).deps /\ x[i].aq = Op(i).aq /\ x[i].rl = Op(i).rl
           /\ x[i].pred = Op(i).pred /\ x[i].succ = Op(i).succ
  BY ProgramFacts, SameSets, ExecutionFields
<1>2. \A i \in Mem(program) : Op(i).addr # None /\ Op(i).kind \in {"load", "store"}
  BY ProgramFacts DEF Mem, Op
<1> DEFINE Fenced(i, j) ==
             \E f \in Fences(program) :
               /\ f \in i .. j /\ Op(f).core = Op(i).core
               /\ Op(f).pred = None \/ (IF Op(i).kind = "load" THEN "r" ELSE "w") \in Op(f).pred
               /\ Op(f).succ = None \/ (IF Op(j).kind = "load" THEN "r" ELSE "w") \in Op(f).succ
<1>3. ASSUME NEW i \in Mem(program), NEW j \in Mem(program), i < j, Together(i, j)
      PROVE  Ordered(m, i, j) <=> Preserved(x, m, i, j) \/ Fenced(i, j) \/ (x[i].aq \/ x[j].rl)
  <2>1. /\ i \in DOMAIN program /\ j \in DOMAIN program
        /\ Op(i).addr # None /\ Op(i).kind \in {"load", "store"}
        /\ Op(j).kind \in {"load", "store"}
    BY <1>1, <1>2
  <2>2. Preserved(x, m, i, j) <=>
          \/ m = "sc"
          \/ m = "tso" /\ (Op(i).kind = "load" \/ Op(j).kind = "store")
          \/ m = "rvwmo" /\ (Op(i).addr = Op(j).addr \/ i \in Op(j).deps)
    <3>1. x[i].kind = Op(i).kind /\ x[j].kind = Op(j).kind /\ x[i].addr = Op(i).addr
          /\ x[j].addr = Op(j).addr /\ x[j].deps = Op(j).deps
      BY <1>1, <2>1
    <3>2. CASE m = "sc"
      BY <3>2 DEF Preserved
    <3>3. CASE m = "tso"
      BY <2>1, <3>1, <3>3 DEF Preserved
    <3>4. CASE m = "rvwmo"
      BY <2>1, <3>1, <3>4 DEF Preserved
    <3> QED
      BY <3>2, <3>3, <3>4 DEF Models
  <2>3. (x[i].aq \/ x[j].rl) <=> (Op(i).aq \/ Op(j).rl)
    BY <1>1, <2>1
  <2> QED
    BY <2>2, <2>3 DEF Ordered
<1>4. ASSUME NEW i \in Mem(program), NEW j \in Mem(program), i < j, Together(i, j)
      PROVE  Fenced(i, j) <=>
               \E f \in Fences(x) :
                 /\ <<i, f>> \in ProgramOrder(x) /\ <<f, j>> \in ProgramOrder(x)
                 /\ x[f].pred = None \/ Letter(x, i) \in x[f].pred
                 /\ x[f].succ = None \/ Letter(x, j) \in x[f].succ
  <2>1. /\ i \in DOMAIN program /\ j \in DOMAIN program
        /\ Letter(x, i) = (IF Op(i).kind = "load" THEN "r" ELSE "w")
        /\ Letter(x, j) = (IF Op(j).kind = "load" THEN "r" ELSE "w")
    BY <1>1 DEF Letter
  <2>2. ASSUME NEW f \in Fences(program)
        PROVE  /\ x[f].pred = Op(f).pred /\ x[f].succ = Op(f).succ
               /\ f \in i .. j /\ Op(f).core = Op(i).core <=>
                    <<i, f>> \in ProgramOrder(x) /\ <<f, j>> \in ProgramOrder(x)
    <3>1. f \in DOMAIN program /\ f # i /\ f # j /\ f \in Nat /\ i \in Nat /\ j \in Nat
      BY <1>1, <2>1
    <3>2. /\ <<i, f>> \in ProgramOrder(x) <=> i < f /\ Together(i, f)
          /\ <<f, j>> \in ProgramOrder(x) <=> f < j /\ Together(f, j)
      BY <2>1, <3>1, OrderFound
    <3>3. f \in i .. j <=> i < f /\ f < j
      BY <3>1
    <3>4. (Op(f).core = Op(i).core <=> Together(i, f) /\ Together(f, j))
      BY <1>4 DEF Together
    <3>5. x[f].pred = Op(f).pred /\ x[f].succ = Op(f).succ
      BY <1>1, <3>1
    <3> QED
      BY <3>2, <3>3, <3>4, <3>5
  <2> DEFINE lets(f) ==
               /\ Op(f).pred = None \/ (IF Op(i).kind = "load" THEN "r" ELSE "w") \in Op(f).pred
               /\ Op(f).succ = None \/ (IF Op(j).kind = "load" THEN "r" ELSE "w") \in Op(f).succ
  <2>3. ASSUME NEW f \in Fences(program)
        PROVE  lets(f) <=> /\ x[f].pred = None \/ Letter(x, i) \in x[f].pred
                           /\ x[f].succ = None \/ Letter(x, j) \in x[f].succ
    BY <2>1, <2>2
  <2>4. Fenced(i, j) <=> \E f \in Fences(program) :
                            (f \in i .. j /\ Op(f).core = Op(i).core) /\ lets(f)
    OBVIOUS
  <2> HIDE DEF Fenced, lets
  <2>5. Fenced(i, j) <=> \E f \in Fences(program) :
                            /\ <<i, f>> \in ProgramOrder(x) /\ <<f, j>> \in ProgramOrder(x)
                            /\ /\ x[f].pred = None \/ Letter(x, i) \in x[f].pred
                               /\ x[f].succ = None \/ Letter(x, j) \in x[f].succ
    BY <2>2, <2>3, <2>4
  <2> QED
    BY <1>1, <2>5
<1> HIDE DEF Fenced
<1>5. ASSUME NEW e
      PROVE  e \in PreservedEdges(x, m) \cup FenceEdges(x) \cup AnnotationEdges(x) <=>
               /\ e \in ProgramOrder(x) /\ {e[1], e[2]} \subseteq Mem(program)
               /\ \/ Preserved(x, m, e[1], e[2])
                  \/ \E f \in Fences(x) :
                       /\ <<e[1], f>> \in ProgramOrder(x) /\ <<f, e[2]>> \in ProgramOrder(x)
                       /\ x[f].pred = None \/ Letter(x, e[1]) \in x[f].pred
                       /\ x[f].succ = None \/ Letter(x, e[2]) \in x[f].succ
                  \/ x[e[1]].aq \/ x[e[2]].rl
  BY <1>1 DEF PreservedEdges, FenceEdges, AnnotationEdges
<1>6. ASSUME NEW e
      PROVE  e \in ProgramOrder(x) /\ {e[1], e[2]} \subseteq Mem(program) <=>
               /\ e = <<e[1], e[2]>> /\ e[1] \in Mem(program) /\ e[2] \in Mem(program)
               /\ e[1] < e[2] /\ Together(e[1], e[2])
  <2>1. e \in ProgramOrder(x) => e = <<e[1], e[2]>>
    BY DEF ProgramOrder
  <2> QED
    BY <1>1, <2>1, OrderFound
<1>7. ASSUME NEW e
      PROVE  e \in Keeps(m) <=>
               /\ e = <<e[1], e[2]>> /\ e[1] \in Mem(program) /\ e[2] \in Mem(program)
               /\ e[1] < e[2] /\ Together(e[1], e[2]) /\ Ordered(m, e[1], e[2])
  BY DEF Keeps
<1>8. ASSUME NEW e
      PROVE  e \in PreservedEdges(x, m) \cup FenceEdges(x) \cup AnnotationEdges(x)
             <=> e \in Keeps(m)
  <2> DEFINE i == e[1]
             j == e[2]
             pair == /\ e = <<i, j>> /\ i \in Mem(program) /\ j \in Mem(program)
                     /\ i < j /\ Together(i, j)
             fenced == \E f \in Fences(x) :
                         /\ <<i, f>> \in ProgramOrder(x) /\ <<f, j>> \in ProgramOrder(x)
                         /\ x[f].pred = None \/ Letter(x, i) \in x[f].pred
                         /\ x[f].succ = None \/ Letter(x, j) \in x[f].succ
  <2>1. e \in PreservedEdges(x, m) \cup FenceEdges(x) \cup AnnotationEdges(x) <=>
          pair /\ (Preserved(x, m, i, j) \/ fenced \/ (x[i].aq \/ x[j].rl))
    BY <1>5, <1>6
  <2>2. e \in Keeps(m) <=> pair /\ Ordered(m, i, j)
    BY <1>7
  <2>3. pair => (Fenced(i, j) <=> fenced)
    BY <1>4
  <2>4. pair => (Ordered(m, i, j) <=>
                   Preserved(x, m, i, j) \/ Fenced(i, j) \/ (x[i].aq \/ x[j].rl))
    BY <1>3
  <2> HIDE DEF pair, fenced, i, j
  <2> QED
    BY <2>1, <2>2, <2>3, <2>4
<1> QED
  BY <1>8

\* The checker finds an atomic broken exactly when it is.
LEMMA AtomicityFound ==
  ASSUME program \in Programs, Settled, Dated, NEW marks \in Marks,
         NEW x, x = Execution(marks)
  PROVE  ~ AtomicityBroken(x) <=> Undivided
<1>1. Shape /\ None \notin Nat
  BY ProgramsAssumption DEF Settled
<1>2. /\ Mem(x) = Mem(program) /\ Loads(x) = Loads(program) /\ Stores(x) = Stores(program)
      /\ Mem(program) \subseteq DOMAIN program /\ Loads(program) \subseteq Mem(program)
      /\ Stores(program) \subseteq Mem(program)
      /\ Loads(program) \cap Stores(program) = {}
      /\ \A i \in Mem(program) : /\ x[i].addr = Op(i).addr /\ x[i].rmw = Op(i).rmw
                                 /\ Op(i).addr # None /\ i \in Nat
      /\ None \notin Stores(program)
  BY <1>1, ProgramFacts, SameSets, ExecutionFields DEF Shape
<1> DEFINE group(g) == {i \in Mem(x) : x[i].rmw = g}
<1>3. ASSUME NEW l \in Loads(program), Op(l).rmw # None
      PROVE  /\ l + 1 \in Stores(program) /\ Alike(l, l + 1)
             /\ group(Op(l).rmw) \cap Loads(x) = {l}
             /\ group(Op(l).rmw) \cap Stores(x) = {l + 1}
             /\ Interposed(x, l, l + 1) = Between(l)
  <2>1. l + 1 \in Stores(program) /\ Alike(l, l + 1) /\ l \in Nat
    BY <1>1, <1>2, <1>3 DEF Shape
  <2>2. {j \in Mem(program) : program[j].rmw = program[l].rmw} = {l, l + 1}
    BY <1>3, ProgramFacts DEF WellFormed, Op
  <2>3. group(Op(l).rmw) = {l, l + 1}
    BY <1>2, <2>2 DEF Op
  <2>4. l # l + 1 /\ l + 1 \notin Loads(program) /\ l \notin Stores(program)
    BY <1>2, <2>1
  <2>5. Interposed(x, l, l + 1) = Between(l)
    <3> DEFINE s == l + 1
               w == source[l]
    <3>1. \A t : t \in StoresTo(x, x[s].addr) <=> t \in Stores(program) /\ Alike(t, l)
      BY <1>2, <2>1, SameSets DEF StoresTo, Alike, Op
    <3>2. ReadsFrom(x, l) = IF w = 0 THEN None ELSE w
      BY SourceFound
    <3>3. ReadsFrom(x, l) \in StoresTo(x, x[s].addr) <=> w # 0
      <4>1. w # 0 => w \in Stores(program) /\ Alike(w, l)
        BY DEF Settled
      <4> QED
        BY <1>2, <3>1, <3>2, <4>1
    <3>4. ASSUME NEW t \in Stores(program), Alike(t, l)
          PROVE  CoBefore(x, t, s) <=> Key[t] < Key[s]
      <4>1. Alike(t, s)
        BY <2>1, <3>4 DEF Alike
      <4> HIDE DEF s
      <4>2. s \in Stores(program)
        BY <2>1 DEF s
      <4> QED
        BY <4>1, <4>2, CoherenceFound
    <3>5. ASSUME NEW t \in Stores(program), Alike(t, l), w # 0
          PROVE  CoBefore(x, w, t) <=> Key[l] < Key[t]
      <4>1. w \in Stores(program) /\ Alike(w, l) /\ Key[w] = Key[l]
        BY <3>5 DEF Settled
      <4>2. Alike(w, t)
        BY <3>5, <4>1 DEF Alike
      <4> HIDE DEF w
      <4>3. CoBefore(x, w, t) <=> Key[w] < Key[t]
        BY <4>1, <4>2, CoherenceFound
      <4> QED
        BY <4>1, <4>3
    <3> HIDE DEF s, w
    <3>6. ASSUME NEW t
          PROVE  t \in Interposed(x, l, s) <=>
                   /\ t \in Stores(program) /\ Alike(t, l) /\ Key[t] < Key[s]
                   /\ w # 0 => Key[l] < Key[t]
      BY <3>1, <3>2, <3>3, <3>4, <3>5 DEF Interposed
    <3> QED
      BY <3>6 DEF Between, s, w
  <2> QED
    BY <1>2, <2>1, <2>3, <2>4, <2>5
<1>4. ASSUME NEW i \in Nat PROVE FirstOf({i}) = i
  BY DEF FirstOf
<1>5. ASSUME ~ Undivided PROVE AtomicityBroken(x)
  <2>1. PICK l \in Loads(program) : Op(l).rmw # None /\ Between(l) # {}
    BY <1>5 DEF Undivided
  <2> DEFINE g == Op(l).rmw
  <2>2. /\ group(g) \cap Loads(x) = {l} /\ group(g) \cap Stores(x) = {l + 1}
        /\ Interposed(x, l, l + 1) # {} /\ x[l + 1].addr # None
    BY <1>2, <1>3, <2>1
  <2>3. g \in {x[i].rmw : i \in Mem(x)} \ {None}
    BY <1>2, <2>1
  <2>4. FirstOf({l}) = l /\ FirstOf({l + 1}) = l + 1
    BY <1>2, <1>3, <1>4, <2>1
  <2> HIDE DEF g
  <2> QED
    BY <2>2, <2>3, <2>4 DEF AtomicityBroken
<1>6. ASSUME AtomicityBroken(x) PROVE ~ Undivided
  <2>1. PICK g \in {x[i].rmw : i \in Mem(x)} \ {None} :
          /\ group(g) \cap Loads(x) # {}
          /\ Interposed(x, FirstOf(group(g) \cap Loads(x)), FirstOf(group(g) \cap Stores(x))) # {}
    BY <1>6 DEF AtomicityBroken
  <2>2. PICK l : l \in group(g) \cap Loads(x)
    BY <2>1
  <2>3. l \in Loads(program) /\ Op(l).rmw = g /\ g # None
    BY <1>2, <2>2
  <2>4. /\ group(g) \cap Loads(x) = {l} /\ group(g) \cap Stores(x) = {l + 1}
        /\ Interposed(x, l, l + 1) = Between(l)
    BY <1>3, <2>3
  <2>5. FirstOf({l}) = l /\ FirstOf({l + 1}) = l + 1
    BY <1>2, <1>4, <2>3
  <2>6. Between(l) # {}
    BY <2>1, <2>4, <2>5
  <2> QED
    BY <2>3, <2>6 DEF Undivided
<1> QED
  BY <1>5, <1>6

\* The checker passes a run under a model exactly when an order explains it.
LEMMA CheckerIsExact ==
  ASSUME program \in Programs, Settled, Dated, NEW marks \in Marks, NEW m \in Models
  PROVE  Violations(Execution(marks), m) = {} <=> Explained(m)
<1> DEFINE x == Execution(marks)
<1>1. Shape
  BY DEF Settled
<1>2. PerLocationEdges(x) = Local /\ GlobalEdges(x, m) = Global(m) /\ Mem(x) = Mem(program)
  <2>1. /\ SameAddressEdges(x) = Loc /\ ReadsFromEdges(x, FALSE) = From
        /\ ReadsFromEdges(x, TRUE) = {e \in From : ~ Together(e[1], e[2])}
        /\ CoEdges(x) = Coh /\ FromReadEdges(x) = Over
    BY LocalFound
  <2>2. PreservedEdges(x, m) \cup FenceEdges(x) \cup AnnotationEdges(x) = Keeps(m)
    BY KeptFound
  <2>3. Mem(x) = Mem(program)
    BY SameSets
  <2> HIDE DEF x
  <2> QED
    BY <2>1, <2>2, <2>3 DEF PerLocationEdges, GlobalEdges, Local, Global
<1>3. ~ AtomicityBroken(x) <=> Undivided
  BY AtomicityFound
<1> HIDE DEF x
<1>4. Violations(x, m) = {} <=> /\ ~ HasCycle(Mem(x), PerLocationEdges(x))
                                /\ ~ HasCycle(Mem(x), GlobalEdges(x, m))
                                /\ ~ AtomicityBroken(x)
  BY DEF Violations
<1>5. (\E pos \in Orders(Required(m)) : Serial(pos)) <=>
        ~ HasCycle(Mem(program), Local) /\ ~ HasCycle(Mem(program), Global(m))
  BY CyclesAreExact
<1>6. /\ Joined => Undivided
      /\ Undivided /\ ~ HasCycle(Mem(program), Local) => Joined
  BY JoinedIsUndivided
<1>7. Explained(m) <=> (\E pos \in Orders(Required(m)) : Serial(pos)) /\ Joined
  BY <1>1, ExplainedMeans
<1>8. Violations(x, m) = {} <=> Explained(m)
  BY <1>2, <1>3, <1>4, <1>5, <1>6, <1>7
<1> QED
  BY <1>8 DEF x

(***************************************************************************)
(* What the hardware keeps true, of any kind.                              *)
(***************************************************************************)
Events == [id : Nat, core : Cores, op : {"load", "store"}, addr : Addrs,
           state : {"M", "E", "S", "I"}]

Types ==
  /\ program \in Programs /\ issued \subseteq DOMAIN program
  /\ buffer \in [Cores -> Seq(Nat)] /\ order \in [Addrs -> Seq(Nat)]
  /\ line \in [Cores \X Addrs -> {"M", "E", "S", "I"}]
  /\ copy \in [Cores \X Addrs -> Nat] /\ source \in [Loads(program) -> Nat]
  /\ events \in Seq(Events)

InMemory(a, s) == \E k \in 1..Len(order[a]) : order[a][k] = s
InQueue(c, s)  == \E k \in 1..Len(buffer[c]) : buffer[c][k] = s

\* What waits in a core's queue is issued, is the core's, waits once, and memory has not.
Queued ==
  \A c \in Cores : \A j \in 1..Len(buffer[c]) :
    /\ buffer[c][j] \in Stores(program) \cap issued /\ Op(buffer[c][j]).core = c
    /\ ~ InMemory(Op(buffer[c][j]).addr, buffer[c][j])
    /\ \A k \in 1..Len(buffer[c]) : buffer[c][k] = buffer[c][j] => k = j

Taken ==
  \A a \in Addrs : \A j \in 1..Len(order[a]) :
    /\ order[a][j] \in StoresTo(program, a) \cap issued
    /\ \A k \in 1..Len(order[a]) : order[a][k] = order[a][j] => k = j

\* A store issued waits or has been taken.
Placed ==
  \A s \in Stores(program) \cap issued : InMemory(Op(s).addr, s) \/ InQueue(Op(s).core, s)

Versions(a) == {0} \cup StoresTo(program, a)

Read ==
  /\ \A c \in Cores, a \in Addrs : copy[<<c, a>>] \in Versions(a)
  /\ \A l \in Loads(program) : source[l] \in Versions(Op(l).addr)

\* Every store memory has taken is one event, in the order memory took them.
Stamped ==
  /\ \A a \in Addrs : \A k \in 1..Len(order[a]) :
       \E n \in 1..Len(events) : events[n].id = order[a][k]
  /\ \A n \in 1..Len(events) : events[n].id \in Stores(program) =>
       InMemory(Op(events[n].id).addr, events[n].id)
  /\ \A m, n \in 1..Len(events) :
       events[m].id = events[n].id /\ events[n].id \in Stores(program) => m = n
  /\ \A a \in Addrs : \A j, k \in 1..Len(order[a]) : \A m, n \in 1..Len(events) :
       j < k /\ events[m].id = order[a][j] /\ events[n].id = order[a][k] => m < n

\* Correct hardware has not issued an atomic's store before its load.
Paired ==
  Correct => \A l \in Loads(program) : Op(l).rmw # None /\ l + 1 \in issued => l \in issued

RunInv == Types /\ Queued /\ Taken /\ Placed /\ Read /\ Stamped /\ Paired

(***************************************************************************)
(* What a step does to memory and to the events.                           *)
(***************************************************************************)
Silent(n)  == n.id \notin Stores(program)
Quiet      == /\ order' = order
              /\ \E new \in Seq(Events) : /\ events' = events \o new
                                          /\ \A k \in 1..Len(new) : Silent(new[k])
Takes(s)   == /\ order' = [order EXCEPT ![Op(s).addr] = Append(@, s)]
              /\ \E new \in Seq(Events) :
                   /\ events' = events \o new
                   /\ \E n \in 1..Len(new) :
                        /\ new[n].id = s
                        /\ \A k \in 1..Len(new) : k # n => Silent(new[k])

\* A step without an event of an access moves no stamp.
LEMMA StampedQuiet ==
  ASSUME RunInv, Quiet, program' = program
  PROVE  Stamped' /\ events' \in Seq(Events)
<1>1. PICK new \in Seq(Events) : /\ events' = events \o new
                                 /\ \A k \in 1..Len(new) : Silent(new[k])
  BY DEF Quiet
<1>2. events \in Seq(Events) /\ order' = order /\ Len(events) \in Nat /\ Len(new) \in Nat
  BY DEF RunInv, Types, Quiet
<1>3. /\ events' \in Seq(Events) /\ Len(events') = Len(events) + Len(new)
      /\ \A n \in 1..Len(events) : events'[n] = events[n] /\ n \in 1..Len(events')
      /\ \A n \in 1..Len(events') : n \in 1..Len(events) \/ Silent(events'[n])
  <2>1. events' \in Seq(Events) /\ Len(events') = Len(events) + Len(new)
    BY <1>1, <1>2
  <2>2. \A n \in 1..Len(events) : events'[n] = events[n] /\ n \in 1..Len(events')
    BY <1>1, <1>2
  <2>3. ASSUME NEW n \in 1..Len(events'), n \notin 1..Len(events)
        PROVE  Silent(events'[n])
    <3>1. n - Len(events) \in 1..Len(new) /\ events'[n] = new[n - Len(events)]
      BY <1>1, <1>2, <2>1, <2>3
    <3> QED
      BY <1>1, <3>1
  <2> QED
    BY <2>1, <2>2, <2>3
<1>4. Stores(program') = Stores(program) /\ \A a, s : InMemory(a, s)' <=> InMemory(a, s)
  BY <1>2 DEF InMemory
<1>5. \A i : Op(i)' = Op(i)
  BY DEF Op
<1>6. \A a \in Addrs : \A k \in 1..Len(order[a]) : order[a][k] \in Stores(program)
  BY DEF RunInv, Taken, StoresTo
<1>7. \A n \in 1..Len(events') : events'[n].id \in Stores(program) => n \in 1..Len(events)
  BY <1>3 DEF Silent
<1>8. Stamped
  BY DEF RunInv
<1>9. \A a \in Addrs : \A k \in 1..Len(order[a]) :
        \E n \in 1..Len(events') : events'[n].id = order[a][k]
  BY <1>3, <1>8 DEF Stamped
<1>10. \A n \in 1..Len(events') : events'[n].id \in Stores(program) =>
         InMemory(Op(events'[n].id).addr, events'[n].id)
  BY <1>3, <1>7, <1>8 DEF Stamped
<1>11. \A m, n \in 1..Len(events') :
         events'[m].id = events'[n].id /\ events'[n].id \in Stores(program) => m = n
  BY <1>3, <1>7, <1>8 DEF Stamped
<1>12. ASSUME NEW a \in Addrs, NEW j \in 1..Len(order[a]), NEW k \in 1..Len(order[a]),
              NEW m \in 1..Len(events'), NEW n \in 1..Len(events'), j < k,
              events'[m].id = order[a][j], events'[n].id = order[a][k]
       PROVE  m < n
  <2>1. m \in 1..Len(events) /\ n \in 1..Len(events)
    BY <1>6, <1>7, <1>12
  <2>2. events[m].id = order[a][j] /\ events[n].id = order[a][k]
    BY <1>3, <1>12, <2>1
  <2> QED
    BY <1>8, <1>12, <2>1, <2>2 DEF Stamped
<1> QED
  BY <1>2, <1>3, <1>4, <1>5, <1>9, <1>10, <1>11, <1>12 DEF Stamped

\* The order of an address with one store more.
LEMMA OrderGrows ==
  ASSUME RunInv, NEW s \in Stores(program), Takes(s), program' = program
  PROVE  LET a == Op(s).addr
         IN  /\ a \in Addrs /\ s \in Nat
             /\ order' \in [Addrs -> Seq(Nat)]
             /\ Len(order[a]) \in Nat
             /\ Len(order'[a]) = Len(order[a]) + 1
             /\ order'[a][Len(order[a]) + 1] = s
             /\ \A k \in 1..Len(order[a]) : order'[a][k] = order[a][k]
             /\ \A b \in Addrs : b # a => order'[b] = order[b]
             /\ \A b \in Addrs : \A t : InMemory(b, t)' <=> InMemory(b, t) \/ (b = a /\ t = s)
<1> DEFINE a == Op(s).addr
<1>1. a \in Addrs /\ s \in Nat /\ order \in [Addrs -> Seq(Nat)]
  BY ProgramFacts DEF RunInv, Types
<1>2. order' = [order EXCEPT ![a] = Append(@, s)]
  BY DEF Takes
<1> HIDE DEF a
<1>3. order[a] \in Seq(Nat) /\ order'[a] = Append(order[a], s)
      /\ \A b \in Addrs : b # a => order'[b] = order[b]
  BY <1>1, <1>2
<1>4. /\ Len(order[a]) \in Nat /\ Len(order'[a]) = Len(order[a]) + 1
      /\ order'[a][Len(order[a]) + 1] = s
      /\ \A k \in 1..Len(order[a]) : order'[a][k] = order[a][k]
      /\ order'[a] \in Seq(Nat)
  BY <1>1, <1>3
<1>5. order' \in [Addrs -> Seq(Nat)]
  BY <1>1, <1>2, <1>4
<1>6. ASSUME NEW b \in Addrs, NEW t
      PROVE  InMemory(b, t)' <=> InMemory(b, t) \/ (b = a /\ t = s)
  <2>1. CASE b # a
    BY <1>3, <2>1 DEF InMemory
  <2>2. CASE b = a
    <3>1. \A k : k \in 1..(Len(order[a]) + 1) <=>
                   k \in 1..Len(order[a]) \/ k = Len(order[a]) + 1
      BY <1>4
    <3> QED
      BY <1>4, <2>2, <3>1 DEF InMemory
  <2> QED
    BY <2>1, <2>2
<1> QED
  BY <1>1, <1>3, <1>4, <1>5, <1>6 DEF a

\* A store that memory takes now is stamped once.
LEMMA StampedTakes ==
  ASSUME RunInv, NEW s \in Stores(program), Takes(s), program' = program,
         ~ InMemory(Op(s).addr, s)
  PROVE  Stamped' /\ events' \in Seq(Events)
<1> DEFINE a == Op(s).addr
           L == Len(events)
<1>0. PICK new \in Seq(Events) :
           /\ events' = events \o new
           /\ \E n \in 1..Len(new) : /\ new[n].id = s
                                     /\ \A k \in 1..Len(new) : k # n => Silent(new[k])
  BY DEF Takes
<1>1. PICK z \in 1..Len(new) :
           /\ events' = events \o new /\ new[z].id = s
           /\ \A k \in 1..Len(new) : k # z => Silent(new[k])
  BY <1>0
<1>2. events \in Seq(Events) /\ L \in Nat /\ Len(new) \in Nat /\ Stamped /\ Taken
  BY DEF RunInv, Types
<1>3. /\ events' \in Seq(Events) /\ Len(events') = L + Len(new)
      /\ \A n \in 1..L : events'[n] = events[n] /\ n \in 1..Len(events')
      /\ \A n \in 1..Len(events') : n \in 1..L \/ n = L + z \/ Silent(events'[n])
      /\ L + z \in 1..Len(events') /\ events'[L + z].id = s
  <2>1. events' \in Seq(Events) /\ Len(events') = L + Len(new)
    BY <1>1, <1>2
  <2>2. \A n \in 1..L : events'[n] = events[n] /\ n \in 1..Len(events')
    BY <1>1, <1>2
  <2>3. ASSUME NEW n \in 1..Len(events'), n \notin 1..L, n # L + z
        PROVE  Silent(events'[n])
    <3>1. n - L \in 1..Len(new) /\ events'[n] = new[n - L] /\ n - L # z
      BY <1>1, <1>2, <2>1, <2>3
    <3> QED
      BY <1>1, <3>1
  <2>4. L + z \in 1..Len(events') /\ events'[L + z] = new[z]
    BY <1>1, <1>2, <2>1
  <2> QED
    BY <1>1, <2>1, <2>2, <2>3, <2>4
<1>4. Stores(program') = Stores(program) /\ \A i : Op(i)' = Op(i)
  BY DEF Op
<1>5. /\ a \in Addrs /\ s \in Nat /\ Len(order[a]) \in Nat
      /\ Len(order'[a]) = Len(order[a]) + 1 /\ order'[a][Len(order[a]) + 1] = s
      /\ \A k \in 1..Len(order[a]) : order'[a][k] = order[a][k]
      /\ \A b \in Addrs : b # a => order'[b] = order[b]
      /\ \A b \in Addrs : \A t : InMemory(b, t)' <=> InMemory(b, t) \/ (b = a /\ t = s)
  BY OrderGrows
<1>6. \A b \in Addrs : \A k \in 1..Len(order[b]) :
        order[b][k] \in Stores(program) /\ order[b][k] # s
  <2>1. ASSUME NEW b \in Addrs, NEW k \in 1..Len(order[b])
        PROVE  order[b][k] \in Stores(program) /\ order[b][k] # s
    <3>1. order[b][k] \in Stores(program) /\ Op(order[b][k]).addr = b
      BY <1>2 DEF Taken, StoresTo, Op
    <3>2. InMemory(b, order[b][k])
      BY DEF InMemory
    <3> QED
      BY <3>1, <3>2
  <2> QED
    BY <2>1
<1>7. \A n \in 1..L : events[n].id # s
  BY <1>2 DEF Stamped
<1> HIDE DEF a, L
<1>8. \A n \in 1..Len(events') : events'[n].id \in Stores(program) =>
        (n \in 1..L /\ events'[n].id = events[n].id /\ events'[n].id # s)
        \/ (n = L + z /\ events'[n].id = s)
  BY <1>3, <1>7 DEF Silent
<1>9. \A b \in Addrs : \A k \in 1..Len(order'[b]) :
        \/ k \in 1..Len(order[b]) /\ order'[b][k] = order[b][k]
        \/ b = a /\ k = Len(order[a]) + 1 /\ order'[b][k] = s
  BY <1>5
<1>10. \A b \in Addrs : \A k \in 1..Len(order'[b]) :
         \E n \in 1..Len(events') : events'[n].id = order'[b][k]
  <2>1. ASSUME NEW b \in Addrs, NEW k \in 1..Len(order'[b])
        PROVE  \E n \in 1..Len(events') : events'[n].id = order'[b][k]
    <3>1. CASE k \in 1..Len(order[b]) /\ order'[b][k] = order[b][k]
      <4>1. PICK n \in 1..Len(events) : events[n].id = order[b][k]
        BY <1>2, <3>1 DEF Stamped
      <4> QED
        BY <1>3, <3>1, <4>1 DEF L
    <3>2. CASE order'[b][k] = s
      BY <1>3, <3>2
    <3> QED
      BY <1>9, <3>1, <3>2
  <2> QED
    BY <2>1
<1>11. (\A n \in 1..Len(events) : events[n].id \in Stores(program) =>
           InMemory(Op(events[n].id).addr, events[n].id))'
  <2>1. ASSUME NEW n \in 1..Len(events'), NEW t, t = events'[n].id, t \in Stores(program)
        PROVE  InMemory(Op(t).addr, t)'
    <3>1. Op(t)' = Op(t) /\ Op(t).addr \in Addrs
      BY <1>4, <2>1, ProgramFacts DEF RunInv, Types
    <3>2. InMemory(Op(t).addr, t) \/ t = s
      BY <1>2, <1>8, <2>1 DEF Stamped, L
    <3>3. InMemory(Op(t).addr, t)' <=> (\E k \in 1..Len(order'[Op(t).addr]) : order'[Op(t).addr][k] = t)
      BY <3>1 DEF InMemory
    <3> QED
      BY <1>5, <3>1, <3>2, <3>3 DEF a, InMemory
  <2> QED
    BY <1>4, <2>1
<1>12. \A m, n \in 1..Len(events') :
         events'[m].id = events'[n].id /\ events'[n].id \in Stores(program) => m = n
  BY <1>2, <1>8 DEF Stamped, L
<1>13. ASSUME NEW b \in Addrs, NEW j \in 1..Len(order'[b]), NEW k \in 1..Len(order'[b]),
              NEW m \in 1..Len(events'), NEW n \in 1..Len(events'), j < k,
              events'[m].id = order'[b][j], events'[n].id = order'[b][k]
       PROVE  m < n
  <2>1. j \in 1..Len(order[b]) /\ order'[b][j] = order[b][j] /\ order[b][j] # s
    BY <1>5, <1>6, <1>9, <1>13, SMTT(30)
  <2>2. m \in 1..L /\ events[m].id = order[b][j]
    BY <1>6, <1>8, <1>13, <2>1
  <2>3. CASE k \in 1..Len(order[b]) /\ order'[b][k] = order[b][k]
    <3>1. n \in 1..L /\ events[n].id = order[b][k]
      BY <1>6, <1>8, <1>13, <2>3
    <3> QED
      BY <1>2, <1>13, <2>1, <2>2, <2>3, <3>1 DEF Stamped, L
  <2>4. CASE order'[b][k] = s
    <3>1. n = L + z
      BY <1>8, <1>13, <2>4
    <3> QED
      BY <1>2, <2>2, <3>1
  <2> QED
    BY <1>9, <2>3, <2>4
<1> QED
  BY <1>3, <1>4, <1>10, <1>11, <1>12, <1>13 DEF Stamped

\* What has to be looked at for the queues to stay in order.
LEMMA QueuedNext ==
  ASSUME program' = program,
         \A d \in Cores : \A j \in 1..Len(buffer'[d]) : \A t : t = buffer'[d][j] =>
           /\ t \in Stores(program) \cap issued' /\ Op(t).core = d
           /\ ~ InMemory(Op(t).addr, t)'
           /\ \A k \in 1..Len(buffer'[d]) : buffer'[d][k] = t => k = j
  PROVE  Queued'
<1>1. Stores(program') = Stores(program) /\ \A i : Op(i)' = Op(i)
  BY DEF Op
<1> QED
  BY <1>1 DEF Queued

\* The stores, their places and the queues, when no store moves ...
LEMMA BooksStill ==
  ASSUME RunInv, order' = order, buffer' = buffer, program' = program,
         issued \subseteq issued', issued' \cap Stores(program) \subseteq issued
  PROVE  Queued' /\ Taken' /\ Placed'
<1>1. /\ Stores(program') = Stores(program)
      /\ \A i : Op(i)' = Op(i)
      /\ \A a : StoresTo(program', a) = StoresTo(program, a)
      /\ \A a, s : InMemory(a, s)' <=> InMemory(a, s)
      /\ \A c, s : InQueue(c, s)' <=> InQueue(c, s)
  BY DEF InMemory, InQueue, Op
<1>2. Queued /\ Taken /\ Placed
  BY DEF RunInv
<1>3. Queued'
  BY <1>1, <1>2 DEF Queued
<1>4. Taken'
  BY <1>1, <1>2 DEF Taken
<1>5. Placed'
  BY <1>1, <1>2 DEF Placed
<1> QED
  BY <1>3, <1>4, <1>5

\* ... when memory takes one that was not issued ...
LEMMA BooksTakes ==
  ASSUME RunInv, NEW s \in Stores(program), s \notin issued, Takes(s),
         buffer' = buffer, program' = program,
         issued \cup {s} \subseteq issued', issued' \cap Stores(program) \subseteq issued \cup {s}
  PROVE  Queued' /\ Taken' /\ Placed' /\ ~ InMemory(Op(s).addr, s)
<1> DEFINE a == Op(s).addr
<1>1. /\ Stores(program') = Stores(program)
      /\ \A i : Op(i)' = Op(i)
      /\ \A b : StoresTo(program', b) = StoresTo(program, b)
      /\ \A c, t : InQueue(c, t)' <=> InQueue(c, t)
  BY DEF InQueue, Op
<1>2. /\ a \in Addrs /\ s \in Nat /\ Len(order[a]) \in Nat
      /\ Len(order'[a]) = Len(order[a]) + 1 /\ order'[a][Len(order[a]) + 1] = s
      /\ \A k \in 1..Len(order[a]) : order'[a][k] = order[a][k]
      /\ \A b \in Addrs : b # a => order'[b] = order[b]
      /\ \A b \in Addrs : \A t : InMemory(b, t)' <=> InMemory(b, t) \/ (b = a /\ t = s)
  BY OrderGrows
<1>3. Queued /\ Taken /\ Placed
  BY DEF RunInv
<1>4. \A b \in Addrs : \A k \in 1..Len(order[b]) : order[b][k] # s
  BY <1>3 DEF Taken
<1>5. s \in StoresTo(program, a)
  BY <1>2, ProgramFacts DEF StoresTo, RunInv, Types, Op, Stores, Mem
<1>6. \A t \in Stores(program) : Op(t).addr \in Addrs
  BY ProgramFacts DEF RunInv, Types
<1>7. ~ InMemory(a, s)
  BY <1>2, <1>4 DEF InMemory
<1> HIDE DEF a
<1>7a. \A t \in Stores(program) : t # s => (InMemory(Op(t).addr, t)' <=> InMemory(Op(t).addr, t))
  <2>1. ASSUME NEW t \in Stores(program), NEW b, b = Op(t).addr, t # s
        PROVE  InMemory(b, t)' <=> InMemory(b, t)
    BY <1>2, <1>6, <2>1
  <2> QED
    BY <1>1, <2>1 DEF InMemory
<1>8. Queued'
  <2>1. ASSUME NEW d \in Cores, NEW j \in 1..Len(buffer[d]), NEW t, t = buffer[d][j]
        PROVE  /\ t \in Stores(program) \cap issued' /\ Op(t).core = d
               /\ ~ InMemory(Op(t).addr, t)'
               /\ \A k \in 1..Len(buffer[d]) : buffer[d][k] = t => k = j
    <3>1. /\ t \in Stores(program) \cap issued /\ Op(t).core = d /\ ~ InMemory(Op(t).addr, t)
          /\ \A k \in 1..Len(buffer[d]) : buffer[d][k] = t => k = j
      BY <1>3, <2>1 DEF Queued
    <3>2. t # s
      BY <3>1
    <3> QED
      BY <1>7a, <3>1, <3>2
  <2> QED
    BY <1>1, <2>1 DEF Queued
<1>9. \A b \in Addrs : \A k \in 1..Len(order'[b]) :
        \/ k \in 1..Len(order[b]) /\ order'[b][k] = order[b][k]
        \/ b = a /\ k = Len(order[a]) + 1 /\ order'[b][k] = s
  BY <1>2
<1>10. Taken'
  <2>1. ASSUME NEW b \in Addrs, NEW j \in 1..Len(order'[b])
        PROVE  /\ order'[b][j] \in StoresTo(program, b) \cap issued'
               /\ \A k \in 1..Len(order'[b]) : order'[b][k] = order'[b][j] => k = j
    <3>1. CASE j \in 1..Len(order[b]) /\ order'[b][j] = order[b][j]
      BY <1>3, <1>4, <1>9, <3>1 DEF Taken
    <3>2. CASE b = a /\ j = Len(order[a]) + 1 /\ order'[b][j] = s
      BY <1>4, <1>5, <1>9, <3>2
    <3> QED
      BY <1>9, <3>1, <3>2
  <2> QED
    BY <1>1, <2>1 DEF Taken
<1>11. Placed'
  <2>1. ASSUME NEW t \in Stores(program) \cap issued'
        PROVE  InMemory(Op(t).addr, t)' \/ InQueue(Op(t).core, t)'
    <3>1. t \in issued \/ t = s
      OBVIOUS
    <3>2. Op(t)' = Op(t) /\ Op(t).addr \in Addrs
      BY <1>1, <1>6
    <3>3. CASE t = s
      <4>1. \E k \in 1..Len(order'[a]) : order'[a][k] = t
        BY <1>2, <3>3
      <4> QED
        BY <3>2, <3>3, <4>1 DEF a, InMemory
    <3>4. CASE t \in issued
      <4>1. InMemory(Op(t).addr, t) \/ InQueue(Op(t).core, t)
        BY <1>3, <3>4 DEF Placed
      <4>2. InQueue(Op(t).core, t) => InQueue(Op(t).core, t)'
        BY <3>2 DEF InQueue
      <4> QED
        BY <1>7a, <3>4, <4>1, <4>2
    <3> QED
      BY <3>1, <3>3, <3>4
  <2> QED
    BY <1>1, <2>1 DEF Placed
<1> QED
  BY <1>7, <1>8, <1>10, <1>11 DEF a

\* ... when one is queued ...
LEMMA BooksQueue ==
  ASSUME RunInv, NEW s \in Stores(program), s \notin issued,
         order' = order, program' = program, issued' = issued \cup {s},
         buffer' = [buffer EXCEPT ![Op(s).core] = Append(@, s)]
  PROVE  Queued' /\ Taken' /\ Placed' /\ buffer' \in [Cores -> Seq(Nat)]
<1> DEFINE c == Op(s).core
<1>1. /\ Stores(program') = Stores(program)
      /\ \A i : Op(i)' = Op(i)
      /\ \A b : StoresTo(program', b) = StoresTo(program, b)
      /\ \A a, t : InMemory(a, t)' <=> InMemory(a, t)
  BY DEF InMemory, Op
<1>2. Queued /\ Taken /\ Placed /\ buffer \in [Cores -> Seq(Nat)]
  BY DEF RunInv, Types
<1>3. c \in Cores /\ s \in Nat
  <2>1. s \in DOMAIN program /\ Op(s) \in Instructions /\ s \in Nat
    BY ProgramFacts DEF RunInv, Types
  <2> QED
    BY <2>1 DEF Instructions
<1> HIDE DEF c
<1>4. buffer[c] \in Seq(Nat) /\ buffer'[c] = Append(buffer[c], s)
      /\ \A d \in Cores : d # c => buffer'[d] = buffer[d]
  BY <1>2, <1>3 DEF c
<1>5. /\ Len(buffer[c]) \in Nat /\ Len(buffer'[c]) = Len(buffer[c]) + 1
      /\ buffer'[c][Len(buffer[c]) + 1] = s
      /\ \A k \in 1..Len(buffer[c]) : buffer'[c][k] = buffer[c][k]
      /\ buffer'[c] \in Seq(Nat)
  BY <1>3, <1>4
<1>6. buffer' \in [Cores -> Seq(Nat)]
  <2>1. buffer' = [buffer EXCEPT ![c] = buffer'[c]]
    BY <1>2, <1>3 DEF c
  <2> QED
    BY <1>2, <1>5, <2>1
<1>7. \A d \in Cores : \A k \in 1..Len(buffer'[d]) :
        \/ k \in 1..Len(buffer[d]) /\ buffer'[d][k] = buffer[d][k]
        \/ d = c /\ k = Len(buffer[c]) + 1 /\ buffer'[d][k] = s
  BY <1>4, <1>5
<1>8. \A d \in Cores : \A k \in 1..Len(buffer[d]) : buffer[d][k] # s
  BY <1>2 DEF Queued
<1>9. ~ InMemory(Op(s).addr, s)
  <2>1. Op(s).addr \in Addrs
    BY ProgramFacts DEF RunInv, Types
  <2> QED
    BY <1>2, <2>1 DEF Taken, InMemory
<1>10. Queued'
  <2>1. ASSUME NEW d \in Cores, NEW j \in 1..Len(buffer'[d]), NEW t, t = buffer'[d][j]
        PROVE  /\ t \in Stores(program) \cap issued' /\ Op(t).core = d
               /\ ~ InMemory(Op(t).addr, t)
               /\ \A k \in 1..Len(buffer'[d]) : buffer'[d][k] = t => k = j
    <3>1. CASE j \in 1..Len(buffer[d]) /\ buffer'[d][j] = buffer[d][j]
      BY <1>2, <1>7, <1>8, <2>1, <3>1 DEF Queued
    <3>2. CASE d = c /\ j = Len(buffer[c]) + 1 /\ buffer'[d][j] = s
      BY <1>7, <1>8, <1>9, <2>1, <3>2 DEF c
    <3> QED
      BY <1>7, <3>1, <3>2
  <2> QED
    BY <1>1, <2>1 DEF Queued
<1>11. Taken'
  BY <1>1, <1>2 DEF Taken
<1>12. Placed'
  <2>1. ASSUME NEW t \in Stores(program) \cap issued'
        PROVE  InMemory(Op(t).addr, t) \/ InQueue(Op(t).core, t)'
    <3>1. t \in issued \/ t = s
      OBVIOUS
    <3>2. Op(t)' = Op(t) /\ Op(t).core \in Cores
      <4>1. t \in DOMAIN program /\ Op(t) \in Instructions
        BY ProgramFacts DEF RunInv, Types
      <4> QED
        BY <1>1, <4>1 DEF Instructions
    <3>3. CASE t = s
      <4>1. Len(buffer[c]) + 1 \in 1..Len(buffer'[c]) /\ buffer'[c][Len(buffer[c]) + 1] = t
            /\ Op(t).core = c
        BY <1>5, <3>3 DEF c
      <4> QED
        BY <3>2, <4>1 DEF InQueue
    <3>4. CASE InQueue(Op(t).core, t)
      <4>1. PICK k \in 1..Len(buffer[Op(t).core]) : buffer[Op(t).core][k] = t
        BY <3>4 DEF InQueue
      <4>2. k \in 1..Len(buffer'[Op(t).core]) /\ buffer'[Op(t).core][k] = t
        BY <1>4, <1>5, <3>2, <4>1
      <4> QED
        BY <3>2, <4>2 DEF InQueue
    <3> QED
      BY <1>2, <3>1, <3>3, <3>4 DEF Placed
  <2> QED
    BY <1>1, <2>1 DEF Placed
<1> QED
  BY <1>6, <1>10, <1>11, <1>12

\* ... and when memory takes the oldest of a queue.
LEMMA BooksDrain ==
  ASSUME RunInv, NEW c \in Cores, buffer[c] # <<>>, Takes(Head(buffer[c])),
         program' = program, issued' = issued, buffer' = [buffer EXCEPT ![c] = Tail(@)]
  PROVE  /\ Queued' /\ Taken' /\ Placed' /\ buffer' \in [Cores -> Seq(Nat)]
         /\ Head(buffer[c]) \in Stores(program)
         /\ ~ InMemory(Op(Head(buffer[c])).addr, Head(buffer[c]))
<1> DEFINE s == Head(buffer[c])
           a == Op(s).addr
<1>1. /\ Stores(program') = Stores(program)
      /\ \A i : Op(i)' = Op(i)
      /\ \A b : StoresTo(program', b) = StoresTo(program, b)
  BY DEF Op
<1>2. Queued /\ Taken /\ Placed /\ buffer \in [Cores -> Seq(Nat)]
  BY DEF RunInv, Types
<1>3. /\ buffer[c] \in Seq(Nat) /\ s = buffer[c][1] /\ 1 \in 1..Len(buffer[c])
      /\ Len(buffer[c]) \in Nat
  BY <1>2
<1>4. s \in Stores(program) \cap issued /\ Op(s).core = c /\ ~ InMemory(a, s)
      /\ \A k \in 1..Len(buffer[c]) : buffer[c][k] = s => k = 1
  BY <1>2, <1>3 DEF Queued
<1> HIDE DEF s
<1>5. /\ a \in Addrs /\ s \in Nat /\ Len(order[a]) \in Nat
      /\ Len(order'[a]) = Len(order[a]) + 1 /\ order'[a][Len(order[a]) + 1] = s
      /\ \A k \in 1..Len(order[a]) : order'[a][k] = order[a][k]
      /\ \A b \in Addrs : b # a => order'[b] = order[b]
      /\ \A b \in Addrs : \A t : InMemory(b, t)' <=> InMemory(b, t) \/ (b = a /\ t = s)
  <2>1. Takes(s) /\ s \in Stores(program)
    BY <1>4 DEF s
  <2> QED
    BY <2>1, OrderGrows
<1> HIDE DEF a
<1>6. /\ buffer'[c] = Tail(buffer[c]) /\ \A d \in Cores : d # c => buffer'[d] = buffer[d]
  BY <1>2
<1>7. /\ buffer'[c] \in Seq(Nat) /\ Len(buffer'[c]) = Len(buffer[c]) - 1
      /\ \A k \in 1..Len(buffer'[c]) :
           k + 1 \in 1..Len(buffer[c]) /\ buffer'[c][k] = buffer[c][k + 1]
  <2> DEFINE q == buffer[c]
  <2>1. q \in Seq(Nat) /\ q # <<>> /\ buffer'[c] = Tail(q)
    BY <1>2, <1>6
  <2> HIDE DEF q
  <2>2. Tail(q) \in Seq(Nat) /\ Len(Tail(q)) = Len(q) - 1 /\ Len(q) \in Nat
    BY <2>1
  <2>3. ASSUME NEW k \in 1..Len(Tail(q))
        PROVE  k + 1 \in 1..Len(q) /\ Tail(q)[k] = q[k + 1]
    BY <2>1, <2>2
  <2> QED
    BY <2>1, <2>2, <2>3 DEF q
<1>8. buffer' \in [Cores -> Seq(Nat)]
  <2>1. buffer' = [buffer EXCEPT ![c] = buffer'[c]]
    BY <1>2
  <2> QED
    BY <1>2, <1>7, <2>1
<1>9. \A t \in Stores(program) : Op(t).addr \in Addrs
  BY ProgramFacts DEF RunInv, Types
<1>10. Queued'
  <2>1. ASSUME NEW d \in Cores, NEW j \in 1..Len(buffer'[d]), NEW t, t = buffer'[d][j]
        PROVE  /\ t \in Stores(program) \cap issued /\ Op(t).core = d
               /\ ~ InMemory(Op(t).addr, t) /\ t # s
               /\ \A k \in 1..Len(buffer'[d]) : buffer'[d][k] = t => k = j
    <3>1. CASE d = c
      <4>1. /\ j + 1 \in 1..Len(buffer[c]) /\ t = buffer[c][j + 1]
        BY <1>7, <2>1, <3>1
      <4>2. /\ t \in Stores(program) \cap issued /\ Op(t).core = c /\ ~ InMemory(Op(t).addr, t)
            /\ \A k \in 1..Len(buffer[c]) : buffer[c][k] = t => k = j + 1
        BY <1>2, <4>1 DEF Queued
      <4>3. t # s
        BY <1>4, <4>1, <3>1, <1>7
      <4>4. ASSUME NEW k \in 1..Len(buffer'[d]), buffer'[d][k] = t PROVE k = j
        <5>1. k + 1 \in 1..Len(buffer[c]) /\ buffer[c][k + 1] = t
          BY <1>7, <3>1, <4>4
        <5>2. k + 1 = j + 1
          BY <4>2, <5>1
        <5>3. k \in Int /\ j \in Int
          BY <3>1, <1>7
        <5> QED
          BY <5>2, <5>3
      <4> QED
        BY <3>1, <4>2, <4>3, <4>4
    <3>2. CASE d # c
      BY <1>2, <1>4, <1>6, <2>1, <3>2 DEF Queued
    <3> QED
      BY <3>1, <3>2
  <2>2. \A t \in Stores(program) : t # s => (InMemory(Op(t).addr, t)' <=> InMemory(Op(t).addr, t))
    <3>1. ASSUME NEW t \in Stores(program), NEW b, b = Op(t).addr, t # s
          PROVE  InMemory(b, t)' <=> InMemory(b, t)
      BY <1>5, <1>9, <3>1
    <3> QED
      BY <1>1, <3>1 DEF InMemory
  <2>3. ASSUME NEW d \in Cores, NEW j \in 1..Len(buffer'[d]), NEW t, t = buffer'[d][j]
        PROVE  /\ t \in Stores(program) \cap issued' /\ Op(t).core = d
               /\ ~ InMemory(Op(t).addr, t)'
               /\ \A k \in 1..Len(buffer'[d]) : buffer'[d][k] = t => k = j
    <3>1. /\ t \in Stores(program) \cap issued /\ Op(t).core = d /\ ~ InMemory(Op(t).addr, t)
          /\ t # s
          /\ \A k \in 1..Len(buffer'[d]) : buffer'[d][k] = t => k = j
      BY <2>1, <2>3
    <3> QED
      BY <2>2, <3>1
  <2> QED
    BY <2>3, QueuedNext
<1>11. \A b \in Addrs : \A k \in 1..Len(order[b]) : order[b][k] # s
  <2>1. ASSUME NEW b \in Addrs, NEW k \in 1..Len(order[b]), order[b][k] = s PROVE FALSE
    <3>1. s \in StoresTo(program, b)
      BY <1>2, <2>1 DEF Taken
    <3>2. b = a
      BY <3>1 DEF StoresTo, a, Op
    <3> QED
      BY <1>4, <2>1, <3>2 DEF InMemory
  <2> QED
    BY <2>1
<1>12. \A b \in Addrs : \A k \in 1..Len(order'[b]) :
        \/ k \in 1..Len(order[b]) /\ order'[b][k] = order[b][k]
        \/ b = a /\ k = Len(order[a]) + 1 /\ order'[b][k] = s
  BY <1>5
<1>13. s \in StoresTo(program, a) \cap issued
  <2>1. program[s].addr = a /\ a # None
    BY <1>4, ProgramFacts DEF a, Op, RunInv, Types
  <2> QED
    BY <1>4, <2>1 DEF StoresTo
<1>14. Taken'
  <2>1. ASSUME NEW b \in Addrs, NEW j \in 1..Len(order'[b])
        PROVE  /\ order'[b][j] \in StoresTo(program, b) \cap issued
               /\ \A k \in 1..Len(order'[b]) : order'[b][k] = order'[b][j] => k = j
    <3>1. CASE j \in 1..Len(order[b]) /\ order'[b][j] = order[b][j]
      BY <1>2, <1>11, <1>12, <3>1 DEF Taken
    <3>2. CASE b = a /\ j = Len(order[a]) + 1 /\ order'[b][j] = s
      BY <1>11, <1>12, <1>13, <3>2
    <3> QED
      BY <1>12, <3>1, <3>2
  <2> QED
    BY <1>1, <2>1 DEF Taken
<1>15. Placed'
  <2>1. ASSUME NEW t \in Stores(program) \cap issued, NEW b, b = Op(t).addr,
               NEW d, d = Op(t).core
        PROVE  InMemory(b, t)' \/ InQueue(d, t)'
    <3>1. b \in Addrs /\ d \in Cores
      <4>1. t \in DOMAIN program /\ Op(t) \in Instructions
        BY ProgramFacts DEF RunInv, Types
      <4> QED
        BY <1>9, <2>1, <4>1 DEF Instructions
    <3>2. CASE InMemory(b, t) \/ t = s
      BY <1>5, <2>1, <3>1, <3>2 DEF a
    <3>3. CASE InQueue(d, t) /\ t # s
      <4>1. PICK k \in 1..Len(buffer[d]) : buffer[d][k] = t
        BY <3>3 DEF InQueue
      <4>2. CASE d = c
        <5>1. k # 1 /\ k - 1 \in 1..Len(buffer'[c]) /\ (k - 1) + 1 = k
          BY <1>3, <1>7, <3>3, <4>1, <4>2
        <5>2. buffer'[c][k - 1] = t
          BY <1>7, <4>1, <4>2, <5>1
        <5> QED
          BY <4>2, <5>1, <5>2 DEF InQueue
      <4>3. CASE d # c
        BY <1>6, <3>1, <4>1, <4>3 DEF InQueue
      <4> QED
        BY <4>2, <4>3
    <3> QED
      BY <1>2, <2>1, <3>2, <3>3 DEF Placed
  <2> QED
    BY <1>1, <2>1 DEF Placed
<1> QED
  BY <1>4, <1>8, <1>10, <1>14, <1>15 DEF s, a

(***************************************************************************)
(* The actions.                                                            *)
(***************************************************************************)
LEMMA ListOfSet ==
  ASSUME NEW S, IsFiniteSet(S)
  PROVE  SetToSeq(S) \in [1..Cardinality(S) -> S] /\ Cardinality(S) \in Nat
<1>1. Cardinality(S) \in Nat /\ ExistsBijection(1..Cardinality(S), S)
  BY FS_CardinalityType
<1>2. PICK f : f \in Bijection(1..Cardinality(S), S)
  BY <1>1 DEF ExistsBijection
<1>3. f \in [1..Cardinality(S) -> S] /\ IsInjective(f)
  BY <1>2 DEF Bijection, Injection, IsInjective
<1> QED
  BY <1>1, <1>3 DEF SetToSeq

\* The snoops are events, of no store.
LEMMA SnoopedQuiet ==
  ASSUME RunInv, NEW D \in SUBSET Cores, NEW a \in Addrs, NEW to \in {"M", "E", "S", "I"}
  PROVE  /\ Snooped(D, a, to) \in Seq(Events)
         /\ \A k \in 1..Len(Snooped(D, a, to)) : Silent(Snooped(D, a, to)[k])
<1> DEFINE f == [d \in D |-> [id |-> 0, core |-> d, op |-> "load", addr |-> a, state |-> to]]
           S == {[id |-> 0, core |-> d, op |-> "load", addr |-> a, state |-> to] : d \in D}
<1>1. IsFiniteSet(D)
  BY FS_Subset, ProgramsAssumption
<1>2. f \in Surjection(D, S)
  BY DEF Surjection
<1>3. IsFiniteSet(S)
  <2> HIDE DEF f, S
  <2> QED
    BY <1>1, <1>2, FS_Surjection
<1>4. S \subseteq Events
  BY DEF Events
<1>5. \A e \in S : e.id = 0
  OBVIOUS
<1>6. 0 \notin Stores(program)
  BY ShapeHolds DEF RunInv, Types, Shape
<1>7. Snooped(D, a, to) = IF snoops THEN SetToSeq(S) ELSE <<>>
  BY DEF Snooped
<1> HIDE DEF f, S
<1>8. SetToSeq(S) \in [1..Cardinality(S) -> S] /\ Cardinality(S) \in Nat
  BY <1>3, ListOfSet
<1>9. SetToSeq(S) \in Seq(S) /\ Len(SetToSeq(S)) = Cardinality(S)
      /\ \A k \in 1..Cardinality(S) : SetToSeq(S)[k] \in S
  BY <1>8
<1>10. SetToSeq(S) \in Seq(Events)
  BY <1>4, <1>9
<1> QED
  BY <1>5, <1>6, <1>7, <1>9, <1>10 DEF Silent

\* The event of an access is an event of that access.
LEMMA AccessTyped ==
  ASSUME RunInv, NEW i \in Mem(program), NEW to \in {"M", "E", "S", "I"}
  PROVE  /\ Access(i, to) \in Events /\ Access(i, to).id = i
         /\ Op(i).core \in Cores /\ Op(i).addr \in Addrs /\ i \in Nat /\ i \in DOMAIN program
<1>1. i \in DOMAIN program /\ Op(i) \in Instructions /\ Op(i).addr \in Addrs /\ i \in Nat
  BY ProgramFacts DEF RunInv, Types
<1>2. Op(i).kind \in {"load", "store"} /\ Op(i).core \in Cores
  BY <1>1 DEF Mem, Op, Instructions
<1> QED
  BY <1>1, <1>2 DEF Access, Events

\* The youngest store that waits is one of the address.
LEMMA WaitingMeans ==
  ASSUME RunInv, NEW c \in Cores, NEW a \in Addrs
  PROVE  Waiting(c, a) \in Versions(a)
<1> DEFINE own == {k \in DOMAIN buffer[c] : Op(buffer[c][k]).addr = a}
           L == Len(buffer[c])
<1>1. buffer[c] \in Seq(Nat) /\ DOMAIN buffer[c] = 1..L /\ L \in Nat
  BY DEF RunInv, Types
<1>2. CASE own = {}
  BY <1>2 DEF Waiting, Versions
<1>3. CASE own # {}
  <2> DEFINE left == [k \in own |-> L - k]
  <2>1. \A k \in own : left[k] \in Nat /\ k \in 1..L
    BY <1>1
  <2>2. PICK k \in own : \A j \in own : left[k] <= left[j]
    <3> HIDE DEF left, own
    <3> QED
      BY <1>3, <2>1, Lowest
  <2>3. ASSUME NEW j \in own PROVE k >= j
    <3>1. left[k] = L - k /\ left[j] = L - j /\ left[k] <= left[j]
      BY <2>2
    <3> HIDE DEF left, own
    <3>2. k \in Int /\ j \in Int
      BY <2>1
    <3> QED
      BY <1>1, <3>1, <3>2
  <2>4. Max(own) \in own
    BY <2>3 DEF Max
  <2>5. buffer[c][Max(own)] \in Stores(program) /\ Op(buffer[c][Max(own)]).addr = a
    BY <1>1, <2>4 DEF RunInv, Queued
  <2>6. Waiting(c, a) = buffer[c][Max(own)]
    BY <1>3 DEF Waiting
  <2>7. a # None
    BY ProgramsAssumption
  <2> HIDE DEF own
  <2> QED
    BY <2>5, <2>6, <2>7 DEF Versions, StoresTo, Op
<1> QED
  BY <1>2, <1>3

\* The newest version of an address is one of its versions.
LEMMA NewestMeans ==
  ASSUME RunInv, NEW a \in Addrs
  PROVE  Newest(a) \in Versions(a)
<1>1. order[a] \in Seq(Nat)
  BY DEF RunInv, Types
<1>2. CASE order[a] = <<>>
  BY <1>2 DEF Newest, Versions
<1>3. CASE order[a] # <<>>
  <2>1. Len(order[a]) \in 1..Len(order[a])
    BY <1>1, <1>3
  <2> QED
    BY <1>3, <2>1 DEF Newest, Last, Versions, RunInv, Taken
<1> QED
  BY <1>2, <1>3

\* What is kept of a state of which program and kind of hardware stay.
LEMMA ReadNext ==
  ASSUME RunInv, program' = program,
         \A c \in Cores, a \in Addrs : copy'[<<c, a>>] \in Versions(a),
         \A l \in Loads(program) : source'[l] \in Versions(Op(l).addr)
  PROVE  Read'
<1>1. /\ Loads(program') = Loads(program) /\ \A i : Op(i)' = Op(i)
      /\ \A a : StoresTo(program', a) = StoresTo(program, a)
  BY DEF Op
<1>2. \A l \in Loads(program) : (Op(l).addr)' = Op(l).addr
  BY <1>1
<1> QED
  BY <1>1, <1>2 DEF Read, Versions

\* A store that becomes visible is taken by memory and told to the caches.
LEMMA VisibleEffect ==
  ASSUME RunInv, NEW s \in Stores(program), NEW kept, Visible(s, kept),
         program' = program, source' = source
  PROVE  /\ Takes(s) /\ Read'
         /\ line' \in [Cores \X Addrs -> {"M", "E", "S", "I"}]
         /\ copy' \in [Cores \X Addrs -> Nat]
<1> DEFINE c == Op(s).core
           a == Op(s).addr
           D == Holders(c, a) \ kept
           new == Snooped(D, a, "I") \o <<Access(s, "M")>>
<1>1. s \in Mem(program)
  BY ShapeHolds DEF RunInv, Types, Shape
<1>2. /\ Access(s, "M") \in Events /\ Access(s, "M").id = s
      /\ c \in Cores /\ a \in Addrs /\ s \in Nat
  BY <1>1, AccessTyped
<1>3. D \in SUBSET Cores
  BY DEF Holders
<1>4. /\ Snooped(D, a, "I") \in Seq(Events)
      /\ \A k \in 1..Len(Snooped(D, a, "I")) : Silent(Snooped(D, a, "I")[k])
  BY <1>2, <1>3, SnoopedQuiet
<1>5. /\ order'  = [order EXCEPT ![a] = Append(@, s)]
      /\ copy'   = [copy EXCEPT ![<<c, a>>] = s]
      /\ line'   = [k \in DOMAIN line |-> IF k = <<c, a>> THEN "M"
                      ELSE IF k[1] \in D /\ k[2] = a THEN "I" ELSE line[k]]
      /\ events' = events \o Snooped(D, a, "I") \o <<Access(s, "M")>>
  BY DEF Visible
<1>6. Types /\ Read
  BY DEF RunInv
<1>7. events' = events \o new
  <2> HIDE DEF D, a, c
  <2>1. events \in Seq(Events) /\ <<Access(s, "M")>> \in Seq(Events)
    BY <1>2, <1>6 DEF Types
  <2> QED
    BY <1>4, <1>5, <2>1
<1>8. /\ new \in Seq(Events) /\ \E n \in 1..Len(new) :
                                  /\ new[n].id = s
                                  /\ \A k \in 1..Len(new) : k # n => Silent(new[k])
  <2> DEFINE old == Snooped(D, a, "I")
  <2> HIDE DEF D, a, c, old
  <2>1. old \in Seq(Events) /\ Len(old) \in Nat /\ \A k \in 1..Len(old) : Silent(old[k])
    BY <1>4 DEF old
  <2>2. new = Append(old, Access(s, "M"))
    BY <1>2, <2>1 DEF old
  <2> HIDE DEF new
  <2>3. /\ new \in Seq(Events) /\ Len(new) = Len(old) + 1
        /\ new[Len(old) + 1] = Access(s, "M")
        /\ \A k \in 1..Len(old) : new[k] = old[k]
    BY <1>2, <2>1, <2>2
  <2>4. \A k \in 1..Len(new) : k # Len(old) + 1 => k \in 1..Len(old)
    BY <2>1, <2>3
  <2>5. Len(old) + 1 \in 1..Len(new)
    BY <2>1, <2>3
  <2> QED
    BY <1>2, <2>1, <2>3, <2>4, <2>5
<1>9. Takes(s)
  <2> HIDE DEF D, c, new
  <2> QED
    BY <1>5, <1>7, <1>8 DEF Takes
<1>10. line' \in [Cores \X Addrs -> {"M", "E", "S", "I"}]
  <2> HIDE DEF D, a, c
  <2> QED
    BY <1>5, <1>6 DEF Types
<1>11. copy' \in [Cores \X Addrs -> Nat]
  <2> HIDE DEF D, a, c
  <2> QED
    BY <1>2, <1>5, <1>6 DEF Types
<1>12. s \in Versions(a)
  BY <1>2, ProgramsAssumption DEF Versions, StoresTo, Op
<1>13. Read'
  <2>1. ASSUME NEW d \in Cores, NEW b \in Addrs PROVE copy'[<<d, b>>] \in Versions(b)
    <3> HIDE DEF a, c, D
    <3>1. copy'[<<d, b>>] = IF d = c /\ b = a THEN s ELSE copy[<<d, b>>]
      BY <1>5, <1>6 DEF Types
    <3> QED
      BY <1>6, <1>12, <3>1 DEF Read
  <2>2. \A l \in Loads(program) : source'[l] \in Versions(Op(l).addr)
    BY <1>6 DEF Read
  <2> QED
    BY <2>1, <2>2, ReadNext
<1> QED
  BY <1>9, <1>10, <1>11, <1>13

\* What has to be looked at for the halves of atomics to stay together.
LEMMA PairedNext ==
  ASSUME program' = program, hw' = hw,
         Correct => \A l \in Loads(program) :
                      Op(l).rmw # None /\ l + 1 \in issued' => l \in issued'
  PROVE  Paired'
<1>1. Loads(program') = Loads(program) /\ \A i : Op(i)' = Op(i)
  BY DEF Op
<1>2. \A l \in Loads(program) : (Op(l).rmw)' = Op(l).rmw
  BY <1>1
<1> QED
  BY <1>1, <1>2 DEF Paired, Correct

\* The store of an atomic is the next access, on its core and address.
LEMMA Halves ==
  ASSUME RunInv, NEW l \in Loads(program), Op(l).rmw # None
  PROVE  /\ l + 1 \in Stores(program) /\ l + 1 \in DOMAIN program
         /\ Op(l + 1).rmw # None /\ Op(l + 1).addr = Op(l).addr
         /\ Op(l + 1).core = Op(l).core
         /\ \A k \in Loads(program) : k + 1 = l + 1 => k = l
<1>1. Shape /\ l + 1 \in Stores(program) /\ l \in Nat
  BY ShapeHolds DEF RunInv, Types, Shape
<1>2. {j \in Mem(program) : program[j].rmw = program[l].rmw} = {l, l + 1}
  BY ProgramFacts DEF RunInv, Types, WellFormed, Op
<1>3. Op(l + 1).rmw = Op(l).rmw
  BY <1>2 DEF Op
<1>4. l + 1 \in DOMAIN program /\ \A k \in Loads(program) : k \in Nat
  BY <1>1, ProgramFacts DEF RunInv, Types, Shape
<1> QED
  BY <1>1, <1>3, <1>4 DEF Shape, Alike, Together

\* A load keeps the invariant of the run.
LEMMA LoadStep ==
  ASSUME RunInv, NEW i \in DOMAIN program, Load(i)
  PROVE  RunInv'
<1> DEFINE c == Op(i).core
           a == Op(i).addr
<1>1. /\ Op(i).kind = "load"
      /\ Forward(i) \/ Hit(i) \/ Miss(i)
      /\ issued' = issued \cup {i}
      /\ program' = program /\ hw' = hw /\ buffer' = buffer /\ order' = order
  BY DEF Load
<1>2. i \in Loads(program) /\ i \in Mem(program) /\ i \notin Stores(program)
  BY <1>1 DEF Loads, Mem, Stores, Op
<1>3. c \in Cores /\ a \in Addrs /\ i \in Nat /\ Types /\ Read /\ Silent(Access(i, "M"))
  BY <1>2, AccessTyped DEF RunInv, Silent
<1>4. Waiting(c, a) \in Versions(a) /\ Newest(a) \in Versions(a)
  BY <1>3, WaitingMeans, NewestMeans
<1>5. \A to \in {"M", "E", "S", "I"} : Access(i, to) \in Events /\ Silent(Access(i, to))
  BY <1>2, AccessTyped DEF Silent
<1>6. \A b \in Addrs : Versions(b) \subseteq Nat
  <2>1. \A b \in Addrs : StoresTo(program, b) \subseteq Mem(program)
    BY ShapeHolds DEF RunInv, Types, StoresTo, Shape
  <2> QED
    BY <2>1, ShapeHolds DEF RunInv, Types, Versions, Shape
<1> DEFINE Effect ==
             /\ Quiet
             /\ line' \in [Cores \X Addrs -> {"M", "E", "S", "I"}]
             /\ \/ copy' = copy
                \/ \E s \in Versions(a) : copy' = [copy EXCEPT ![<<c, a>>] = s]
             /\ \E s \in Versions(a) : source' = [source EXCEPT ![i] = s]
<1>7. ASSUME NEW to \in {"M", "E", "S", "I"}, events' = Append(events, Access(i, to))
      PROVE  Quiet
  <2> DEFINE e == Access(i, to)
  <2>1. e \in Events /\ Silent(e) /\ events \in Seq(Events)
    BY <1>3, <1>5 DEF Types
  <2> HIDE DEF e
  <2>2. <<e>> \in Seq(Events) /\ Len(<<e>>) = 1 /\ <<e>>[1] = e
        /\ Append(events, e) = events \o <<e>>
    BY <2>1
  <2>3. \A k \in 1..Len(<<e>>) : Silent(<<e>>[k])
    BY <2>1, <2>2
  <2>4. events' = events \o <<e>>
    BY <1>7, <2>2 DEF e
  <2> QED
    BY <1>1, <2>2, <2>3, <2>4 DEF Quiet
<1>8. line[<<c, a>>] \in {"M", "E", "S", "I"}
  BY <1>3 DEF Types
<1>9. ASSUME Forward(i) PROVE Effect
  <2>1. /\ source' = [source EXCEPT ![i] = Waiting(c, a)]
        /\ events' = Append(events, Access(i, line[<<c, a>>]))
        /\ line' = line /\ copy' = copy
    BY <1>9 DEF Forward
  <2>2. Quiet
    BY <1>7, <1>8, <2>1
  <2>3. Effect
    BY <1>3, <1>4, <2>1, <2>2 DEF Types
  <2> QED
    BY <2>3
<1>10. ASSUME Hit(i) PROVE Effect
  <2>1. /\ source' = [source EXCEPT ![i] = copy[<<c, a>>]]
        /\ events' = Append(events, Access(i, line[<<c, a>>]))
        /\ line' = line /\ copy' = copy
    BY <1>10 DEF Hit
  <2>2. Quiet
    BY <1>7, <1>8, <2>1
  <2>3. copy[<<c, a>>] \in Versions(a)
    BY <1>3 DEF Read
  <2>4. Effect
    BY <1>3, <2>1, <2>2, <2>3 DEF Types
  <2> QED
    BY <2>4
<1>11. ASSUME Miss(i) PROVE Effect
  <2> DEFINE to == IF Holders(c, a) = {} THEN "E" ELSE "S"
             D == {d \in Holders(c, a) : line[<<d, a>>] # "S"}
             new == Snooped(D, a, "S") \o <<Access(i, to)>>
  <2>1. /\ line' = [k \in DOMAIN line |-> IF k = <<c, a>> THEN to
                      ELSE IF k[1] \in D /\ k[2] = a THEN "S" ELSE line[k]]
        /\ events' = events \o Snooped(D, a, "S") \o <<Access(i, to)>>
    BY <1>11 DEF Miss
  <2>2. PICK s \in {Newest(a)} \cup {copy[<<d, a>>] : d \in Holders(c, a)} :
           source' = [source EXCEPT ![i] = s] /\ copy' = [copy EXCEPT ![<<c, a>>] = s]
    BY <1>11 DEF Miss
  <2>3. s \in Versions(a)
    BY <1>3, <1>4, <2>2 DEF Read, Holders
  <2>4. D \in SUBSET Cores /\ to \in {"M", "E", "S", "I"}
    BY DEF Holders
  <2> HIDE DEF to, D, a, c
  <2>5. line' \in [Cores \X Addrs -> {"M", "E", "S", "I"}]
    BY <1>3, <2>1, <2>4 DEF Types
  <2> DEFINE old == Snooped(D, a, "S")
             e == Access(i, to)
  <2>5a. old \in Seq(Events) /\ \A k \in 1..Len(old) : Silent(old[k])
    <3>1. a \in Addrs /\ "S" \in {"M", "E", "S", "I"} /\ D \in SUBSET Cores
      BY <1>3, <2>4
    <3> QED
      BY <3>1, SnoopedQuiet
  <2>6. /\ old \in Seq(Events) /\ Len(old) \in Nat /\ \A k \in 1..Len(old) : Silent(old[k])
        /\ e \in Events /\ Silent(e) /\ events \in Seq(Events)
    <3> HIDE DEF old
    <3> QED
      BY <1>3, <1>5, <2>4, <2>5a DEF Types
  <2> HIDE DEF old, e
  <2>7. events' = events \o Append(old, e)
    <3>1. events' = events \o old \o <<e>>
      BY <2>1 DEF old, e
    <3>2. <<e>> \in Seq(Events) /\ Append(old, e) = old \o <<e>>
      BY <2>6
    <3>3. events \o old \o <<e>> = events \o (old \o <<e>>)
      BY <2>6, <3>2
    <3> QED
      BY <3>1, <3>2, <3>3
  <2>8. /\ Append(old, e) \in Seq(Events) /\ Len(Append(old, e)) = Len(old) + 1
        /\ Append(old, e)[Len(old) + 1] = e
        /\ \A k \in 1..Len(old) : Append(old, e)[k] = old[k]
    BY <2>6
  <2>9. \A k \in 1..Len(Append(old, e)) : Silent(Append(old, e)[k])
    <3>1. \A k \in 1..(Len(old) + 1) : k \in 1..Len(old) \/ k = Len(old) + 1
      BY <2>6
    <3> QED
      BY <2>6, <2>8, <3>1
  <2>10. Quiet
    BY <1>1, <2>7, <2>8, <2>9 DEF Quiet
  <2> QED
    BY <2>2, <2>3, <2>5, <2>10
<1>12. Effect
  BY <1>1, <1>9, <1>10, <1>11
<1> HIDE DEF a, c
<1>13. PICK s \in Versions(a) : source' = [source EXCEPT ![i] = s]
  BY <1>12
<1>14. \A l \in Loads(program) : source'[l] \in Versions(Op(l).addr)
  <2>1. ASSUME NEW l \in Loads(program) PROVE source'[l] \in Versions(Op(l).addr)
    <3>1. source'[l] = IF l = i THEN s ELSE source[l]
      BY <1>3, <1>13 DEF Types
    <3> QED
      BY <1>3, <1>13, <3>1 DEF Read, a
  <2> QED
    BY <2>1
<1>15. copy' \in [Cores \X Addrs -> Nat]
       /\ \A d \in Cores, b \in Addrs : copy'[<<d, b>>] \in Versions(b)
  <2>1. CASE copy' = copy
    BY <1>3, <2>1 DEF Types, Read
  <2>2. ASSUME NEW t \in Versions(a), copy' = [copy EXCEPT ![<<c, a>>] = t]
        PROVE  copy' \in [Cores \X Addrs -> Nat]
               /\ \A d \in Cores, b \in Addrs : copy'[<<d, b>>] \in Versions(b)
    <3>1. t \in Nat
      BY <1>3, <1>6
    <3>2. copy' \in [Cores \X Addrs -> Nat]
      BY <1>3, <2>2, <3>1 DEF Types
    <3>3. ASSUME NEW d \in Cores, NEW b \in Addrs PROVE copy'[<<d, b>>] \in Versions(b)
      <4>1. copy'[<<d, b>>] = IF d = c /\ b = a THEN t ELSE copy[<<d, b>>]
        BY <1>3, <2>2 DEF Types
      <4> QED
        BY <1>3, <4>1 DEF Read
    <3> QED
      BY <3>2, <3>3
  <2> QED
    BY <1>12, <2>1, <2>2
<1>16. Read'
  BY <1>1, <1>14, <1>15, ReadNext
<1>17. Queued' /\ Taken' /\ Placed'
  BY <1>1, <1>2, BooksStill
<1>18. Stamped' /\ events' \in Seq(Events)
  BY <1>1, <1>12, StampedQuiet
<1>19. Types'
  <2>1. s \in Nat
    BY <1>3, <1>6
  <2>2. source' \in [Loads(program) -> Nat]
    BY <1>3, <1>13, <2>1 DEF Types
  <2>3. issued' \subseteq DOMAIN program
    BY <1>1, <1>3 DEF Types
  <2> QED
    BY <1>1, <1>3, <1>12, <1>15, <1>18, <2>2, <2>3 DEF Types
<1>20. Paired'
  <2>1. ASSUME Correct, NEW l \in Loads(program), Op(l).rmw # None, l + 1 \in issued'
        PROVE  l \in issued'
    <3>1. l + 1 # i
      BY <1>2, <2>1, Halves
    <3> QED
      BY <1>1, <2>1, <3>1 DEF RunInv, Paired
  <2> QED
    BY <1>1, <2>1, PairedNext
<1> QED
  BY <1>16, <1>17, <1>18, <1>19, <1>20 DEF RunInv

\* A store that is visible at once keeps the invariant of the run.
LEMMA StoreStep ==
  ASSUME RunInv, NEW s \in DOMAIN program, Store(s)
  PROVE  RunInv'
<1>1. /\ s \notin issued /\ Op(s).kind = "store" /\ ~ Atomic(s)
      /\ issued' = issued \cup {s}
      /\ program' = program /\ hw' = hw /\ buffer' = buffer /\ source' = source
  BY DEF Store, Ready
<1>2. PICK kept : Visible(s, kept)
  BY DEF Store
<1>3. s \in Stores(program)
  BY <1>1 DEF Stores, Op
<1>4. /\ Takes(s) /\ Read'
      /\ line' \in [Cores \X Addrs -> {"M", "E", "S", "I"}]
      /\ copy' \in [Cores \X Addrs -> Nat]
  BY <1>1, <1>2, <1>3, VisibleEffect
<1>5. Queued' /\ Taken' /\ Placed' /\ ~ InMemory(Op(s).addr, s)
  BY <1>1, <1>3, <1>4, BooksTakes
<1>6. Stamped' /\ events' \in Seq(Events)
  BY <1>1, <1>3, <1>4, <1>5, StampedTakes
<1>7. order' \in [Addrs -> Seq(Nat)]
  BY <1>1, <1>3, <1>4, OrderGrows
<1>8. Types'
  BY <1>1, <1>4, <1>6, <1>7 DEF RunInv, Types
<1>9. Paired'
  <2>1. ASSUME Correct, NEW l \in Loads(program), Op(l).rmw # None, l + 1 \in issued'
        PROVE  l \in issued'
    <3>1. l + 1 # s
      BY <1>1, <2>1, Halves DEF Atomic
    <3> QED
      BY <1>1, <2>1, <3>1 DEF RunInv, Paired
  <2> QED
    BY <1>1, <2>1, PairedNext
<1> QED
  BY <1>4, <1>5, <1>6, <1>8, <1>9 DEF RunInv

\* A step that changes neither the memory's order nor the events is quiet.
LEMMA NothingIsQuiet ==
  ASSUME RunInv, order' = order, events' = events
  PROVE  Quiet
<1> DEFINE new == <<>>
<1>1. events \in Seq(Events) /\ new \in Seq(Events) /\ events = events \o new /\ Len(new) = 0
  BY DEF RunInv, Types
<1> HIDE DEF new
<1>2. \A k \in 1..Len(new) : Silent(new[k])
  BY <1>1
<1> QED
  BY <1>1, <1>2 DEF Quiet

\* A store put in its core's queue keeps the invariant of the run.
LEMMA EnqueueStep ==
  ASSUME RunInv, NEW s \in DOMAIN program, Enqueue(s)
  PROVE  RunInv'
<1>1. /\ s \notin issued /\ Op(s).kind = "store" /\ ~ Atomic(s)
      /\ issued' = issued \cup {s} /\ buffer' = [buffer EXCEPT ![Op(s).core] = Append(@, s)]
      /\ program' = program /\ hw' = hw /\ order' = order /\ source' = source
      /\ line' = line /\ copy' = copy /\ events' = events
  BY DEF Enqueue, Ready
<1>2. s \in Stores(program)
  BY <1>1 DEF Stores, Op
<1>3. Queued' /\ Taken' /\ Placed' /\ buffer' \in [Cores -> Seq(Nat)]
  BY <1>1, <1>2, BooksQueue
<1>4. Quiet
  BY <1>1, NothingIsQuiet
<1>5. Stamped'
  BY <1>1, <1>4, StampedQuiet
<1>6. Types'
  BY <1>1, <1>3 DEF RunInv, Types
<1>7. Read'
  BY <1>1, ReadNext DEF RunInv, Read
<1>8. Paired'
  <2>1. ASSUME Correct, NEW l \in Loads(program), Op(l).rmw # None, l + 1 \in issued'
        PROVE  l \in issued'
    <3>1. l + 1 # s
      BY <1>1, <2>1, Halves DEF Atomic
    <3> QED
      BY <1>1, <2>1, <3>1 DEF RunInv, Paired
  <2> QED
    BY <1>1, <2>1, PairedNext
<1> QED
  BY <1>3, <1>5, <1>6, <1>7, <1>8 DEF RunInv

\* The oldest store of a queue, reaching memory, keeps the invariant of the run.
LEMMA DrainStep ==
  ASSUME RunInv, NEW c \in Cores, Drain(c)
  PROVE  RunInv'
<1> DEFINE s == Head(buffer[c])
<1>1. /\ buffer[c] # <<>> /\ Visible(s, {}) /\ buffer' = [buffer EXCEPT ![c] = Tail(@)]
      /\ program' = program /\ hw' = hw /\ source' = source /\ issued' = issued
  BY DEF Drain
<1>2. s \in Stores(program)
  <2>1. 1 \in 1..Len(buffer[c]) /\ s = buffer[c][1]
    BY <1>1 DEF RunInv, Types
  <2> QED
    BY <2>1 DEF RunInv, Queued
<1> HIDE DEF s
<1>3. /\ Takes(s) /\ Read'
      /\ line' \in [Cores \X Addrs -> {"M", "E", "S", "I"}]
      /\ copy' \in [Cores \X Addrs -> Nat]
  BY <1>1, <1>2, VisibleEffect
<1>4. /\ Queued' /\ Taken' /\ Placed' /\ buffer' \in [Cores -> Seq(Nat)]
      /\ ~ InMemory(Op(s).addr, s)
  BY <1>1, <1>3, BooksDrain DEF s
<1>5. Stamped' /\ events' \in Seq(Events)
  BY <1>1, <1>2, <1>3, <1>4, StampedTakes
<1>6. order' \in [Addrs -> Seq(Nat)]
  BY <1>1, <1>2, <1>3, OrderGrows
<1>7. Types'
  BY <1>1, <1>3, <1>4, <1>5, <1>6 DEF RunInv, Types
<1>8. Paired'
  BY <1>1, PairedNext DEF RunInv, Paired
<1> QED
  BY <1>3, <1>4, <1>5, <1>7, <1>8 DEF RunInv

\* An atomic keeps the invariant of the run.
LEMMA AtomicStep ==
  ASSUME RunInv, NEW i \in DOMAIN program, ReadModifyWrite(i)
  PROVE  RunInv'
<1> DEFINE c == Op(i).core
           a == Op(i).addr
           s == i + 1
           D == Holders(c, a)
<1>1. /\ i \notin issued /\ Op(i).kind = "load" /\ Correct /\ Op(i).rmw # None
      /\ source' = [source EXCEPT ![i] = Newest(a)]
      /\ order'  = [order EXCEPT ![a] = Append(@, s)]
      /\ copy'   = [copy EXCEPT ![<<c, a>>] = s]
      /\ line'   = [k \in DOMAIN line |-> IF k = <<c, a>> THEN "M"
                      ELSE IF k[1] \in D /\ k[2] = a THEN "I" ELSE line[k]]
      /\ events' = events \o Snooped(D, a, "I") \o <<Access(i, "M"), Access(s, "M")>>
      /\ issued' = issued \cup {i, s}
      /\ program' = program /\ hw' = hw /\ buffer' = buffer
  BY DEF ReadModifyWrite, Ready, Atomic
<1>2. i \in Loads(program) /\ i \in Mem(program) /\ i \notin Stores(program)
  BY <1>1 DEF Loads, Mem, Stores, Op
<1>3. /\ s \in Stores(program) /\ s \in DOMAIN program /\ Op(s).addr = a /\ s \notin issued
      /\ s \in Mem(program)
  <2>1. s \in Stores(program) /\ s \in DOMAIN program /\ Op(s).addr = a
    BY <1>1, <1>2, Halves
  <2>2. s \notin issued
    BY <1>1, <1>2 DEF RunInv, Paired
  <2> QED
    BY <2>1, <2>2, ShapeHolds DEF RunInv, Types, Shape
<1>4. c \in Cores /\ a \in Addrs /\ i \in Nat /\ s \in Nat /\ Types /\ Read
  BY <1>2, <1>3, AccessTyped DEF RunInv
<1>5. /\ Access(i, "M") \in Events /\ Silent(Access(i, "M"))
      /\ Access(s, "M") \in Events /\ Access(s, "M").id = s
  BY <1>2, <1>3, AccessTyped DEF Silent
<1>6. D \in SUBSET Cores
  BY DEF Holders
<1> HIDE DEF a, c, s, D
<1> DEFINE old == Snooped(D, a, "I")
           e == Access(i, "M")
           f == Access(s, "M")
           new == Append(Append(old, e), f)
<1>7. old \in Seq(Events) /\ \A k \in 1..Len(old) : Silent(old[k])
  <2>1. "I" \in {"M", "E", "S", "I"}
    OBVIOUS
  <2> QED
    BY <1>4, <1>6, <2>1, SnoopedQuiet
<1>8. events' = events \o old \o <<e, f>>
  BY <1>1
<1> HIDE DEF old, e, f
<1>9. e \in Events /\ Silent(e) /\ f \in Events /\ f.id = s /\ events \in Seq(Events)
      /\ Len(old) \in Nat
  BY <1>4, <1>5, <1>7 DEF e, f, Types
<1>10. events' = events \o new
  <2>1. <<e, f>> \in Seq(Events) /\ Append(Append(old, e), f) = old \o <<e, f>>
    BY <1>7, <1>9
  <2>2. events \o old \o <<e, f>> = events \o (old \o <<e, f>>)
    BY <1>7, <1>9, <2>1
  <2> QED
    BY <1>8, <2>1, <2>2
<1>11. /\ new \in Seq(Events) /\ Len(new) = Len(old) + 2
       /\ new[Len(old) + 2] = f /\ new[Len(old) + 1] = e
       /\ \A k \in 1..Len(old) : new[k] = old[k]
  <2>1. /\ Append(old, e) \in Seq(Events) /\ Len(Append(old, e)) = Len(old) + 1
        /\ Append(old, e)[Len(old) + 1] = e
        /\ \A k \in 1..Len(old) : Append(old, e)[k] = old[k]
    BY <1>7, <1>9
  <2> DEFINE mid == Append(old, e)
  <2> HIDE DEF mid
  <2>2. /\ mid \in Seq(Events) /\ Len(mid) = Len(old) + 1 /\ mid[Len(old) + 1] = e
        /\ \A k \in 1..Len(old) : mid[k] = old[k]
    BY <2>1 DEF mid
  <2>3. /\ Append(mid, f) \in Seq(Events) /\ Len(Append(mid, f)) = Len(mid) + 1
        /\ Append(mid, f)[Len(mid) + 1] = f
        /\ \A k \in 1..Len(mid) : Append(mid, f)[k] = mid[k]
    BY <1>9, <2>2
  <2>4. /\ Len(Append(mid, f)) = Len(old) + 2 /\ Append(mid, f)[Len(old) + 2] = f
        /\ Append(mid, f)[Len(old) + 1] = e
        /\ \A k \in 1..Len(old) : Append(mid, f)[k] = old[k]
    BY <1>9, <2>2, <2>3
  <2> QED
    BY <2>3, <2>4 DEF mid
<1> HIDE DEF new
<1>12. \E n \in 1..Len(new) : /\ new[n].id = s
                              /\ \A k \in 1..Len(new) : k # n => Silent(new[k])
  <2>1. \A k \in 1..Len(new) : k # Len(old) + 2 => k \in 1..Len(old) \/ k = Len(old) + 1
    BY <1>9, <1>11
  <2>2. Len(old) + 2 \in 1..Len(new)
    BY <1>9, <1>11
  <2> QED
    BY <1>7, <1>9, <1>11, <2>1, <2>2
<1>13. Takes(s)
  BY <1>1, <1>3, <1>10, <1>11, <1>12 DEF Takes
<1>14. issued \cup {s} \subseteq issued' /\ issued' \cap Stores(program) \subseteq issued \cup {s}
  BY <1>1, <1>2
<1>15. Queued' /\ Taken' /\ Placed' /\ ~ InMemory(Op(s).addr, s)
  BY <1>1, <1>3, <1>13, <1>14, BooksTakes
<1>16. Stamped' /\ events' \in Seq(Events)
  BY <1>1, <1>3, <1>13, <1>15, StampedTakes
<1>17. order' \in [Addrs -> Seq(Nat)]
  BY <1>1, <1>3, <1>13, OrderGrows
<1>18. Newest(a) \in Versions(a) /\ s \in Versions(a) /\ Newest(a) \in Nat
  <2>1. Newest(a) \in Versions(a)
    BY <1>4, NewestMeans
  <2>2. Versions(a) \subseteq Nat
    <3>1. StoresTo(program, a) \subseteq Mem(program)
      BY ShapeHolds DEF RunInv, Types, StoresTo, Shape
    <3> QED
      BY <3>1, ShapeHolds DEF RunInv, Types, Versions, Shape
  <2>3. a # None
    BY <1>4, ProgramsAssumption
  <2> QED
    BY <1>3, <2>1, <2>2, <2>3 DEF Versions, StoresTo, Op
<1>19. Read'
  <2>1. ASSUME NEW d \in Cores, NEW b \in Addrs PROVE copy'[<<d, b>>] \in Versions(b)
    <3>1. copy'[<<d, b>>] = IF d = c /\ b = a THEN s ELSE copy[<<d, b>>]
      BY <1>1, <1>4 DEF Types
    <3> QED
      BY <1>4, <1>18, <3>1 DEF Read
  <2>2. ASSUME NEW l \in Loads(program) PROVE source'[l] \in Versions(Op(l).addr)
    <3>1. source'[l] = IF l = i THEN Newest(a) ELSE source[l]
      BY <1>1, <1>4 DEF Types
    <3> QED
      BY <1>4, <1>18, <3>1 DEF Read, a
  <2> QED
    BY <1>1, <2>1, <2>2, ReadNext
<1>20. Types'
  <2>1. line' \in [Cores \X Addrs -> {"M", "E", "S", "I"}]
    BY <1>1, <1>4 DEF Types
  <2>2. copy' \in [Cores \X Addrs -> Nat]
    BY <1>1, <1>4 DEF Types
  <2>3. source' \in [Loads(program) -> Nat]
    BY <1>1, <1>4, <1>18 DEF Types
  <2>4. issued' \subseteq DOMAIN program
    BY <1>1, <1>3, <1>4 DEF Types
  <2> QED
    BY <1>1, <1>4, <1>16, <1>17, <2>1, <2>2, <2>3, <2>4 DEF Types
<1>21. Paired'
  <2>1. ASSUME NEW l \in Loads(program), Op(l).rmw # None, l + 1 \in issued'
        PROVE  l \in issued'
    <3>1. l + 1 # i
      BY <1>2, <2>1, Halves
    <3>2. l + 1 = s => l = i
      <4>1. l \in Nat
        BY ShapeHolds DEF RunInv, Types, Shape
      <4> QED
        BY <1>4, <4>1 DEF s
    <3> QED
      BY <1>1, <2>1, <3>1, <3>2 DEF RunInv, Paired
  <2> QED
    BY <1>1, <2>1, PairedNext
<1> QED
  BY <1>15, <1>16, <1>19, <1>20, <1>21 DEF RunInv

\* A fence keeps the invariant of the run.
LEMMA FenceStep ==
  ASSUME RunInv, NEW i \in DOMAIN program, Fence(i)
  PROVE  RunInv'
<1>1. /\ Op(i).kind = "fence" /\ issued' = issued \cup {i}
      /\ program' = program /\ hw' = hw /\ buffer' = buffer /\ order' = order
      /\ source' = source /\ line' = line /\ copy' = copy /\ events' = events
  BY DEF Fence
<1>2. i \notin Stores(program)
  BY <1>1 DEF Stores, Op
<1>3. Queued' /\ Taken' /\ Placed'
  BY <1>1, <1>2, BooksStill
<1>4. Quiet
  BY <1>1, NothingIsQuiet
<1>5. Stamped'
  BY <1>1, <1>4, StampedQuiet
<1>6. Types'
  BY <1>1 DEF RunInv, Types
<1>7. Read'
  BY <1>1, ReadNext DEF RunInv, Read
<1>8. Paired'
  <2>1. ASSUME Correct, NEW l \in Loads(program), Op(l).rmw # None, l + 1 \in issued'
        PROVE  l \in issued'
    <3>1. l + 1 # i
      BY <1>2, <2>1, Halves
    <3> QED
      BY <1>1, <2>1, <3>1 DEF RunInv, Paired
  <2> QED
    BY <1>1, <2>1, PairedNext
<1> QED
  BY <1>3, <1>5, <1>6, <1>7, <1>8 DEF RunInv

\* What comes after the run keeps the invariant of the run.
LEMMA StillStep ==
  ASSUME RunInv, UNCHANGED <<program, hw, issued, buffer, order, line, copy, source, events>>
  PROVE  RunInv'
<1>1. /\ issued' = issued
      /\ program' = program /\ hw' = hw /\ buffer' = buffer /\ order' = order
      /\ source' = source /\ line' = line /\ copy' = copy /\ events' = events
  OBVIOUS
<1>3. Queued' /\ Taken' /\ Placed'
  BY <1>1, BooksStill
<1>4. Quiet
  BY <1>1, NothingIsQuiet
<1>5. Stamped'
  BY <1>1, <1>4, StampedQuiet
<1>6. Types'
  BY <1>1 DEF RunInv, Types
<1>7. Read'
  BY <1>1, ReadNext DEF RunInv, Read
<1>8. Paired'
  BY <1>1, PairedNext DEF RunInv, Paired
<1> QED
  BY <1>3, <1>5, <1>6, <1>7, <1>8 DEF RunInv

(***************************************************************************)
(* A run that has ended.                                                   *)
(***************************************************************************)
\* Where an element stands in an order.
LEMMA RankMeans ==
  ASSUME NEW a \in Addrs, order[a] \in Seq(Nat), NEW s
  PROVE  /\ Rank(a, s) \in 0..Len(order[a])
         /\ Rank(a, s) # 0 <=> InMemory(a, s)
         /\ Rank(a, s) # 0 => order[a][Rank(a, s)] = s
<1> DEFINE I == {k \in 1..Len(order[a]) : order[a][k] = s}
<1>1. Rank(a, s) = IF I # {} THEN Min(I) ELSE 0
  BY DEF Rank, SelectInSeq
<1>2. I \in SUBSET Nat /\ Len(order[a]) \in Nat
  OBVIOUS
<1>3. I # {} => Min(I) \in I
  <2> HIDE DEF I
  <2> QED
    BY <1>2, FirstPlace
<1>4. I # {} <=> InMemory(a, s)
  BY DEF InMemory
<1>5. I # {} => Min(I) \in 1..Len(order[a]) /\ order[a][Min(I)] = s
  BY <1>3
<1> HIDE DEF I
<1> QED
  BY <1>1, <1>2, <1>4, <1>5

\* Where an access stands among the events.
LEMMA InstantMeans ==
  ASSUME events \in Seq(Events), NEW i
  PROVE  /\ Instant(i) \in 0..Len(events)
         /\ Instant(i) = 0 <=> \A n \in 1..Len(events) : events[n].id # i
         /\ Instant(i) # 0 => events[Instant(i)].id = i
<1> DEFINE I == {n \in 1..Len(events) : events[n].id = i}
<1>1. Instant(i) = IF I # {} THEN Min(I) ELSE 0
  BY DEF Instant, SelectInSeq
<1>2. I \in SUBSET Nat /\ Len(events) \in Nat
  OBVIOUS
<1>3. I # {} => Min(I) \in I
  <2> HIDE DEF I
  <2> QED
    BY <1>2, FirstPlace
<1>4. I = {} <=> \A n \in 1..Len(events) : events[n].id # i
  OBVIOUS
<1>5. I # {} => Min(I) \in 1..Len(events) /\ events[Min(I)].id = i
  BY <1>3
<1> HIDE DEF I
<1> QED
  BY <1>1, <1>2, <1>4, <1>5

\* At the end memory has every store, at a place of its own.
LEMMA EndOfRun ==
  ASSUME RunInv, Done
  PROVE  Settled /\ Dated
<1>1. Shape /\ Types /\ Queued /\ Taken /\ Placed /\ Read /\ Stamped
  BY ShapeHolds DEF RunInv, Types
<1>2. ASSUME NEW i \in Mem(program)
      PROVE  Op(i).addr \in Addrs /\ Op(i).core \in Cores /\ i \in DOMAIN program /\ i \in Nat
             /\ i # 0
  BY <1>1, <1>2, AccessTyped, ProgramFacts DEF RunInv, Shape
<1>3. ASSUME NEW a \in Addrs
      PROVE  order[a] \in Seq(Nat) /\ Len(order[a]) \in Nat
  BY <1>1 DEF Types
<1>4. ASSUME NEW s \in Stores(program)
      PROVE  /\ s \in Mem(program) /\ Op(s).addr \in Addrs
             /\ Key[s] = Rank(Op(s).addr, s)
             /\ Key[s] \in 1..Len(order[Op(s).addr]) /\ order[Op(s).addr][Key[s]] = s
  <2>1. s \in Mem(program) /\ Op(s).addr \in Addrs /\ Op(s).core \in Cores
    BY <1>1, <1>2 DEF Shape
  <2>2. s \in issued /\ Len(buffer[Op(s).core]) = 0
    BY <1>2, <2>1 DEF Done
  <2>3. InMemory(Op(s).addr, s)
    BY <1>1, <2>2 DEF Placed, InQueue
  <2>4. Key[s] = Rank(Op(s).addr, s)
    BY <1>1, KeyMeans
  <2>5. /\ Rank(Op(s).addr, s) \in 0..Len(order[Op(s).addr])
        /\ Rank(Op(s).addr, s) # 0
        /\ order[Op(s).addr][Rank(Op(s).addr, s)] = s
    BY <1>3, <2>1, <2>3, RankMeans
  <2> QED
    BY <1>3, <2>1, <2>4, <2>5
<1>5. ASSUME NEW l \in Loads(program)
      PROVE  \/ source[l] = 0 /\ Key[l] = 0
             \/ source[l] \in Stores(program) /\ Alike(source[l], l) /\ Key[source[l]] = Key[l]
                /\ source[l] # 0
  <2>1. l \in Mem(program) /\ Op(l).addr \in Addrs /\ source[l] \in Versions(Op(l).addr)
        /\ Key[l] = Rank(Op(l).addr, source[l])
    BY <1>1, <1>2, KeyMeans DEF Shape, Read
  <2>2. CASE source[l] = 0
    <3>1. ~ InMemory(Op(l).addr, 0)
      <4>1. \A k \in 1..Len(order[Op(l).addr]) : order[Op(l).addr][k] \in Stores(program)
        BY <1>1, <2>1 DEF Taken, StoresTo
      <4> QED
        BY <1>1, <4>1 DEF InMemory, Shape
    <3>2. Rank(Op(l).addr, 0) = 0
      BY <1>3, <2>1, <3>1, RankMeans
    <3> QED
      BY <2>1, <2>2, <3>2
  <2>3. CASE source[l] # 0
    <3>1. source[l] \in Stores(program) /\ Alike(source[l], l)
      BY <2>1, <2>3 DEF Versions, StoresTo, Alike, Op
    <3>2. Key[source[l]] = Rank(Op(source[l]).addr, source[l])
      BY <1>4, <3>1
    <3> QED
      BY <2>1, <2>3, <3>1, <3>2 DEF Alike
  <2> QED
    BY <2>2, <2>3
<1>6. \A i \in Mem(program) : Key[i] \in Nat
  <2>1. \A s \in Stores(program) : Key[s] \in Nat
    BY <1>3, <1>4
  <2> QED
    BY <1>1, <1>5, <2>1 DEF Shape
<1>7. \A s \in Stores(program) : Key[s] # 0
  BY <1>3, <1>4
<1>8. ASSUME NEW s \in Stores(program), NEW t \in Stores(program), Alike(s, t), Key[s] = Key[t]
      PROVE  s = t
  BY <1>4, <1>8 DEF Alike
<1>9. ASSUME NEW s \in Stores(program), NEW k \in 1..Key[s]
      PROVE  \E t \in Stores(program) : Alike(t, s) /\ Key[t] = k
  <2> DEFINE a == Op(s).addr
             t == order[a][k]
  <2>1. a \in Addrs /\ k \in 1..Len(order[a]) /\ Key[s] \in Nat
    BY <1>3, <1>4
  <2>2. t \in Stores(program) /\ Op(t).addr = a
    BY <1>1, <2>1 DEF Taken, StoresTo, Op
  <2>3. Key[t] \in 1..Len(order[a]) /\ order[a][Key[t]] = t
    BY <1>4, <2>2
  <2>4. Key[t] = k
    BY <1>1, <2>1, <2>3 DEF Taken
  <2> QED
    BY <2>2, <2>4 DEF Alike
<1>10. Settled
  BY <1>1, <1>5, <1>6, <1>7, <1>8, <1>9 DEF Settled
<1>11. events \in Seq(Events) /\ Len(events) \in Nat
  BY <1>1 DEF Types
<1>12. \A i \in Mem(program) : Instant(i) \in Nat
  BY <1>11, InstantMeans
<1>13. ASSUME NEW s \in Stores(program), NEW t \in Stores(program), Alike(s, t), Key[s] < Key[t]
       PROVE  Instant(s) < Instant(t)
  <2> DEFINE a == Op(s).addr
  <2>1. /\ a \in Addrs /\ Key[s] \in 1..Len(order[a]) /\ order[a][Key[s]] = s
        /\ Key[t] \in 1..Len(order[a]) /\ order[a][Key[t]] = t
    BY <1>4, <1>13 DEF Alike
  <2>2. /\ \E n \in 1..Len(events) : events[n].id = s
        /\ \E n \in 1..Len(events) : events[n].id = t
    <3>1. \A k \in 1..Len(order[a]) : \E n \in 1..Len(events) : events[n].id = order[a][k]
      BY <1>1, <2>1 DEF Stamped
    <3> HIDE DEF a
    <3> QED
      BY <2>1, <3>1
  <2>3. /\ Instant(s) \in 1..Len(events) /\ events[Instant(s)].id = s
        /\ Instant(t) \in 1..Len(events) /\ events[Instant(t)].id = t
    BY <1>11, <2>2, InstantMeans
  <2> HIDE DEF a
  <2> QED
    BY <1>1, <1>13, <2>1, <2>3 DEF Stamped
<1>14. Dated
  <2>1. ASSUME NEW s \in Stores(program), NEW t \in Stores(program), Alike(s, t)
        PROVE  Instant(s) < Instant(t) <=> Key[s] < Key[t]
    <3>1. /\ Key[s] \in Nat /\ Key[t] \in Nat /\ Instant(s) \in Nat /\ Instant(t) \in Nat
          /\ Alike(t, s)
      BY <1>4, <1>6, <1>12, <2>1 DEF Alike
    <3>2. CASE Key[s] = Key[t]
      BY <1>8, <2>1, <3>1, <3>2
    <3>3. CASE Key[s] < Key[t]
      BY <1>13, <2>1, <3>3
    <3>4. CASE Key[t] < Key[s]
      BY <1>13, <3>1, <3>4
    <3> QED
      BY <3>1, <3>2, <3>3, <3>4
  <2> QED
    BY <1>12, <2>1 DEF Dated
<1> QED
  BY <1>10, <1>14

(***************************************************************************)
(* The events of a run.                                                    *)
(***************************************************************************)
Happened(i) == Instant(i) # 0

\* i takes effect before j: it has and j has not, or neither has and j is behind it.
Ahead(i, j) == IF Happened(i) THEN Happened(j) => Instant(i) < Instant(j)
               ELSE ~ Happened(j) /\ i < j

\* An event is of one access that was issued, and tells it, or of a snoop.
Named ==
  /\ \A n \in 1..Len(events) :
       \/ snoops /\ events[n].id = 0 /\ events[n].op = "load"
       \/ LET i == events[n].id
          IN  /\ i \in Mem(program) \cap issued
              /\ events[n].core = Op(i).core /\ events[n].op = Op(i).kind
              /\ events[n].addr = Op(i).addr
  /\ \A l \in Loads(program) \cap issued : Happened(l)
  /\ \A m, n \in 1..Len(events) : events[m].id = events[n].id /\ events[n].id # 0 => m = n

\* What hardware that issues in program order keeps of it.
Strict(i, j) ==
  \/ hw # "tso"
  \/ i \in Loads(program) \/ j \in Stores(program)
  \/ Op(i).rmw # None \/ Op(j).rmw # None
  \/ \E f \in Fences(program) : i < f /\ f < j /\ Together(f, i)

InTurn ==
  /\ \A i \in issued : \A j \in DOMAIN program : j < i /\ Together(j, i) => j \in issued
  /\ \A i, j \in Mem(program) \cap issued :
       i < j /\ Together(i, j) /\ Strict(i, j) => Ahead(i, j)
  /\ \A f \in Fences(program) \cap issued, s \in Stores(program) :
       s < f /\ Together(s, f) => Happened(s)

Orderly ==
  /\ hw # "weak" => InTurn
  /\ hw # "tso" => \A c \in Cores : buffer[c] = <<>>
  /\ Correct => \A s \in Stores(program) \cap issued : Op(s).rmw # None => Happened(s)
  /\ \A c \in Cores : \A j, k \in 1..Len(buffer[c]) : j < k => buffer[c][j] < buffer[c][k]

\* The stores a load must know of: those that had happened, and its core's earlier ones.
Known(l) == {s \in StoresTo(program, Op(l).addr) \cap issued :
               \/ Happened(s) /\ Instant(s) < Instant(l)
               \/ s < l /\ Together(s, l)}

\* Correct hardware reads the newest of them, and performs an atomic at one instant.
ReadsNewest(l) ==
  /\ source[l] # 0 => source[l] \in Known(l)
  /\ \A s \in Known(l) : s = source[l] \/ (source[l] # 0 /\ Ahead(s, source[l]))
  /\ Op(l).rmw # None =>
       /\ Happened(l + 1)
       /\ source[l] # 0 => Happened(source[l])
       /\ Rank(Op(l).addr, l + 1) = Rank(Op(l).addr, source[l]) + 1

\* What a valid line holds then is what memory holds.
Copies == \A c \in Cores, a \in Addrs : line[<<c, a>>] # "I" => copy[<<c, a>>] = Newest(a)

Upto == Correct => Copies /\ \A l \in Loads(program) \cap issued : ReadsNewest(l)

\* The m-th event is the last of the first n in which core c told of its line of a.
Told(n, c, a, m) ==
  /\ m \in 1..n /\ events[m].core = c /\ events[m].addr = a
  /\ \A k \in 1..n : k > m => ~ (events[k].core = c /\ events[k].addr = a)

Valid     == {"M", "E", "S"}
Exclusive == {"M", "E"}

Exposed == \E n \in 1..Len(events) : \E d \in Cores, m \in 1..n :
             /\ events[n].state = "M" /\ events[n].core # d
             /\ Told(n, d, events[n].addr, m) /\ events[m].state \in Valid

Lines ==
  /\ \A c \in Cores, a \in Addrs : line[<<c, a>>] # "I" =>
       \E m \in 1..Len(events) : Told(Len(events), c, a, m) /\ events[m].state \in Valid
  /\ breach => Exposed
  /\ Correct => \A c, d \in Cores : \A a \in Addrs :
       c # d /\ line[<<c, a>>] \in Exclusive => line[<<d, a>>] = "I"

Apart ==
  Correct /\ snoops =>
    /\ \A c \in Cores, a \in Addrs : \A m \in 1..Len(events) :
         Told(Len(events), c, a, m) => events[m].state = line[<<c, a>>]
    /\ \A n \in 1..Len(events) : \A c, d \in Cores : \A a \in Addrs : \A m, k \in 1..n :
         c # d /\ Told(n, c, a, m) /\ Told(n, d, a, k) /\ events[m].state \in Exclusive
           => events[k].state \notin Valid

EventInv == Named /\ Orderly /\ Upto /\ Lines /\ Apart

(***************************************************************************)
(* What a step adds to the events: snoops of the lines of the cores D, and *)
(* then q accesses of one core to one address, i and the ones after it.    *)
(***************************************************************************)
Adds(i, q, p, D, to, fin) ==
  /\ p \in Nat /\ Len(events') = Len(events) + p + q
  /\ \A n \in 1..Len(events) : events'[n] = events[n]
  /\ \A k \in 1..p : /\ snoops
                     /\ events'[Len(events) + k].id = 0
                     /\ events'[Len(events) + k].op = "load"
                     /\ events'[Len(events) + k].core \in D
                     /\ events'[Len(events) + k].addr = Op(i).addr
                     /\ events'[Len(events) + k].state = to
  /\ events'[Len(events) + p + 1] = Access(i, fin)
  /\ q = 2 => events'[Len(events) + p + 2] = Access(i + 1, fin)
  /\ snoops => \A d \in D : \E k \in 1..p : events'[Len(events) + k].core = d

\* The snoops are one of each core.
LEMMA SnoopedAll ==
  ASSUME NEW D \in SUBSET Cores, NEW a, NEW to
  PROVE  /\ Snooped(D, a, to) \in Seq([id : {0}, core : D, op : {"load"}, addr : {a}, state : {to}])
         /\ snoops => \A d \in D : \E k \in 1..Len(Snooped(D, a, to)) : Snooped(D, a, to)[k].core = d
         /\ ~ snoops => Snooped(D, a, to) = <<>>
<1> DEFINE f == [d \in D |-> [id |-> 0, core |-> d, op |-> "load", addr |-> a, state |-> to]]
           S == {[id |-> 0, core |-> d, op |-> "load", addr |-> a, state |-> to] : d \in D}
           T == [id : {0}, core : D, op : {"load"}, addr : {a}, state : {to}]
           n == Cardinality(S)
           g == SetToSeq(S)
<1>1. IsFiniteSet(D)
  BY FS_Subset, ProgramsAssumption
<1>2. f \in Surjection(D, S)
  BY DEF Surjection
<1>3. IsFiniteSet(S)
  <2> HIDE DEF f, S
  <2> QED
    BY <1>1, <1>2, FS_Surjection
<1>4. S \subseteq T /\ \A d \in D : \E e \in S : e.core = d
  <2>1. ASSUME NEW d \in D PROVE \E e \in S : e.core = d
    <3>1. f[d] \in S /\ f[d].core = d
      OBVIOUS
    <3> QED
      BY <3>1
  <2>2. S \subseteq T
    OBVIOUS
  <2> QED
    BY <2>1, <2>2
<1>5. Snooped(D, a, to) = IF snoops THEN g ELSE <<>>
  BY DEF Snooped
<1> HIDE DEF f, S, T
<1>6. PICK h : h \in Bijection(1..n, S)
  BY <1>3, FS_CardinalityType DEF ExistsBijection
<1>7. g \in [1..n -> S] /\ IsInjective(g) /\ n \in Nat
  <2>1. h \in [1..n -> S] /\ IsInjective(h)
    BY <1>6 DEF Bijection, Injection, IsInjective
  <2> QED
    BY <1>3, <2>1, FS_CardinalityType DEF SetToSeq
<1> HIDE DEF g
<1>8. g \in Injection(1..n, S)
  BY <1>7 DEF Injection, IsInjective
<1>9. IsFiniteSet(1..n) /\ Cardinality(1..n) = n
  BY <1>7, FS_Interval
<1>10. g \in Surjection(1..n, S)
  BY <1>3, <1>8, <1>9, FS_Injection
<1>11. \A e \in S : \E k \in 1..n : g[k] = e
  BY <1>10 DEF Surjection
<1>12. g \in Seq(S) /\ Len(g) = n
  BY <1>7
<1>13. g \in Seq(T)
  BY <1>4, <1>12
<1> QED
  BY <1>4, <1>5, <1>11, <1>12, <1>13 DEF T

\* Snoops and accesses appended to the events are such an addition,
LEMMA AddsAll ==
  ASSUME RunInv, NEW i \in Mem(program), NEW D \in SUBSET Cores, NEW q \in 1..2,
         NEW to \in {"M", "E", "S", "I"}, NEW fin \in {"M", "E", "S", "I"},
         NEW accs \in Seq(Events), Len(accs) = q,
         accs[1] = Access(i, fin), q = 2 => accs[2] = Access(i + 1, fin),
         events' = events \o Snooped(D, Op(i).addr, to) \o accs
  PROVE  \E p : Adds(i, q, p, D, to, fin)
<1> DEFINE old == Snooped(D, Op(i).addr, to)
           T == [id : {0}, core : D, op : {"load"}, addr : {Op(i).addr}, state : {to}]
           p == Len(old)
           N == Len(events)
<1>1. /\ old \in Seq(T)
      /\ snoops => \A d \in D : \E k \in 1..p : old[k].core = d
      /\ ~ snoops => old = <<>>
  BY SnoopedAll
<1>2. events \in Seq(Events) /\ N \in Nat /\ p \in Nat /\ i \in Nat
  BY <1>1, AccessTyped DEF RunInv, Types
<1> HIDE DEF old
<1>4. /\ \A k \in 1..p : /\ old[k].id = 0 /\ old[k].op = "load" /\ old[k].core \in D
                         /\ old[k].addr = Op(i).addr /\ old[k].state = to
      /\ p # 0 => snoops
  <2>1. \A k \in 1..p : old[k] \in T
    <3> HIDE DEF T
    <3> QED
      BY <1>1
  <2>2. Len(<<>>) = 0
    OBVIOUS
  <2> QED
    BY <1>1, <2>1, <2>2
<1>5. events' = events \o old \o accs
  BY DEF old
<1>6. /\ Len(events') = N + p + q
      /\ \A n \in 1..N : events'[n] = events[n]
      /\ \A k \in 1..p : events'[N + k] = old[k]
      /\ \A k \in 1..q : events'[N + p + k] = accs[k]
  <2> DEFINE mid == events \o old
  <2> HIDE DEF T
  <2>1. /\ Len(mid) = N + p /\ \A n \in 1..N : mid[n] = events[n]
        /\ \A k \in 1..p : mid[N + k] = old[k]
        /\ DOMAIN mid = 1..(N + p)
    BY <1>1, <1>2
  <2>1a. mid \in Seq(Events \cup T)
    <3>1. events \in Seq(Events \cup T) /\ old \in Seq(Events \cup T) /\ accs \in Seq(Events \cup T)
      BY <1>1, <1>2
    <3> QED
      BY <3>1
  <2> HIDE DEF mid
  <2>2. Len(mid \o accs) = N + p + q /\ (\A k \in 1..q : (mid \o accs)[N + p + k] = accs[k])
        /\ \A n \in 1..(N + p) : (mid \o accs)[n] = mid[n]
    <3>1. accs \in Seq(Events \cup T)
      BY <1>2
    <3> QED
      BY <1>2, <2>1, <2>1a, <3>1, SMTT(30)
  <2>3. events' = mid \o accs
    BY <1>5 DEF mid
  <2>4. \A n \in 1..N : n \in 1..(N + p)
    BY <1>2
  <2>5. \A k \in 1..p : N + k \in 1..(N + p)
    BY <1>2
  <2> QED
    BY <2>1, <2>2, <2>3, <2>4, <2>5
<1>7. events'[N + p + 1] = Access(i, fin) /\ (q = 2 => events'[N + p + 2] = Access(i + 1, fin))
  <2>1. 1 \in 1..q /\ (q = 2 => 2 \in 1..q)
    OBVIOUS
  <2> QED
    BY <1>6, <2>1
<1>8. snoops => \A d \in D : \E k \in 1..p : events'[N + k].core = d
  <2> SUFFICES ASSUME snoops, NEW d \in D PROVE \E k \in 1..p : events'[N + k].core = d
    OBVIOUS
  <2>1. PICK k \in 1..p : old[k].core = d
    BY <1>1
  <2>2. events'[N + k] = old[k]
    BY <1>6
  <2> QED
    BY <2>1, <2>2
<1>8a. \A k \in 1..p : /\ snoops /\ events'[N + k].id = 0 /\ events'[N + k].op = "load"
                      /\ events'[N + k].core \in D /\ events'[N + k].addr = Op(i).addr
                      /\ events'[N + k].state = to
  <2>1. ASSUME NEW k \in 1..p
        PROVE  /\ snoops /\ events'[N + k].id = 0 /\ events'[N + k].op = "load"
               /\ events'[N + k].core \in D /\ events'[N + k].addr = Op(i).addr
               /\ events'[N + k].state = to
    <3>1. p # 0 /\ events'[N + k] = old[k]
      BY <1>2, <1>6
    <3> QED
      BY <1>4, <3>1
  <2> QED
    BY <2>1
<1>9. Adds(i, q, p, D, to, fin)
  BY <1>2, <1>6, <1>7, <1>8, <1>8a DEF Adds
<1> QED
  BY <1>9

\* with one access,
LEMMA AddsOne ==
  ASSUME RunInv, NEW i \in Mem(program), NEW D \in SUBSET Cores,
         NEW to \in {"M", "E", "S", "I"}, NEW fin \in {"M", "E", "S", "I"},
         events' = events \o Snooped(D, Op(i).addr, to) \o <<Access(i, fin)>>
  PROVE  \E p : Adds(i, 1, p, D, to, fin)
<1> DEFINE accs == <<Access(i, fin)>>
<1>1. Access(i, fin) \in Events
  BY AccessTyped
<1>2. accs \in Seq(Events) /\ Len(accs) = 1 /\ accs[1] = Access(i, fin)
      /\ 1 \in 1..2 /\ (1 = 2 => accs[2] = Access(i + 1, fin))
  BY <1>1
<1> HIDE DEF accs
<1>3. events' = events \o Snooped(D, Op(i).addr, to) \o accs
  BY DEF accs
<1> QED
  BY <1>2, <1>3, AddsAll

\* or the two of an atomic.
LEMMA AddsTwo ==
  ASSUME RunInv, NEW i \in Mem(program), NEW D \in SUBSET Cores, i + 1 \in Mem(program),
         NEW to \in {"M", "E", "S", "I"}, NEW fin \in {"M", "E", "S", "I"},
         events' = events \o Snooped(D, Op(i).addr, to) \o <<Access(i, fin), Access(i + 1, fin)>>
  PROVE  \E p : Adds(i, 2, p, D, to, fin)
<1> DEFINE accs == <<Access(i, fin), Access(i + 1, fin)>>
<1>1. Access(i, fin) \in Events /\ Access(i + 1, fin) \in Events
  BY AccessTyped
<1>2. accs \in Seq(Events) /\ Len(accs) = 2
      /\ accs[1] = Access(i, fin) /\ accs[2] = Access(i + 1, fin) /\ 2 \in 1..2
  BY <1>1
<1> HIDE DEF accs
<1>3. events' = events \o Snooped(D, Op(i).addr, to) \o accs
  BY DEF accs
<1> QED
  BY <1>2, <1>3, AddsAll

\* Without a snoop.
LEMMA AddsAlone ==
  ASSUME RunInv, NEW i \in Mem(program), NEW to, NEW fin \in {"M", "E", "S", "I"},
         events' = Append(events, Access(i, fin))
  PROVE  Adds(i, 1, 0, {}, to, fin)
<1>1. i \in Nat /\ Access(i, fin) \in Events /\ events \in Seq(Events)
  BY AccessTyped DEF RunInv, Types
<1>2. Len(events) \in Nat
  BY <1>1
<1>3. Len(events') = Len(events) + 1 /\ events'[Len(events) + 1] = Access(i, fin)
      /\ \A n \in 1..Len(events) : events'[n] = events[n]
  BY <1>1
<1>4. Len(events') = Len(events) + 0 + 1 /\ events'[Len(events) + 0 + 1] = Access(i, fin)
  BY <1>2, <1>3
<1> QED
  BY <1>2, <1>3, <1>4 DEF Adds

(***************************************************************************)
(* When what happened.                                                     *)
(***************************************************************************)
LEMMA HappenedMeans ==
  ASSUME RunInv, EventInv, NEW i
  PROVE  /\ Instant(i) \in 0..Len(events)
         /\ Happened(i) <=> \E n \in 1..Len(events) : events[n].id = i
         /\ \A n \in 1..Len(events) : events[n].id = i /\ i # 0 => Instant(i) = n
<1>1. events \in Seq(Events) /\ Len(events) \in Nat
  BY DEF RunInv, Types
<1>2. /\ Instant(i) \in 0..Len(events)
      /\ Instant(i) = 0 <=> \A n \in 1..Len(events) : events[n].id # i
      /\ Instant(i) # 0 => events[Instant(i)].id = i
  BY <1>1, InstantMeans
<1>3. Named
  BY DEF EventInv
<1>4. ASSUME NEW n \in 1..Len(events), events[n].id = i, i # 0 PROVE Instant(i) = n
  <2>1. Instant(i) \in 1..Len(events) /\ events[Instant(i)].id = i
    BY <1>1, <1>2, <1>4
  <2> QED
    BY <1>3, <1>4, <2>1 DEF Named
<1> QED
  BY <1>2, <1>4 DEF Happened

\* Every store that happened is one memory has taken, the others issued wait.
LEMMA StoreHappened ==
  ASSUME RunInv, EventInv, NEW s \in Stores(program)
  PROVE  /\ Happened(s) <=> InMemory(Op(s).addr, s)
         /\ Happened(s) => s \in issued
         /\ s \in issued /\ ~ Happened(s) => InQueue(Op(s).core, s)
         /\ InQueue(Op(s).core, s) => s \in issued /\ ~ Happened(s)
<1>1. /\ Op(s).addr \in Addrs /\ Op(s).core \in Cores
      /\ Stamped /\ Taken /\ Placed /\ Queued
  BY AccessTyped, ShapeHolds DEF RunInv, Types, Shape
<1>2. Happened(s) <=> \E n \in 1..Len(events) : events[n].id = s
  BY HappenedMeans
<1>3. Happened(s) => InMemory(Op(s).addr, s)
  BY <1>1, <1>2 DEF Stamped
<1>4. InMemory(Op(s).addr, s) => Happened(s) /\ s \in issued
  BY <1>1, <1>2 DEF Stamped, InMemory, Taken
<1>5. InQueue(Op(s).core, s) => s \in issued /\ ~ InMemory(Op(s).addr, s)
  BY <1>1 DEF InQueue, Queued
<1> QED
  BY <1>1, <1>3, <1>4, <1>5 DEF Placed

\* None of the q accesses from i has happened before, and then they have the new
\* instants, all others keep theirs.
NotYetAny(i, q) == \A k \in 1..q : ~ Happened(i + k - 1)

NewInstant(i, q, p) ==
  /\ \A j : j # 0 /\ j \notin i..(i + q - 1) => Instant(j)' = Instant(j)
  /\ \A k \in 1..q : Instant(i + k - 1)' = Len(events) + p + k

\* The accesses added are stamped so.
LEMMA HappenedNext ==
  ASSUME RunInv, EventInv, NEW i \in Mem(program), NEW q \in 1..2, NEW p, NEW D, NEW to, NEW fin,
         Adds(i, q, p, D, to, fin), RunInv', NotYetAny(i, q)
  PROVE  NewInstant(i, q, p)
<1>0. \A k \in 1..q : ~ Happened(i + k - 1)
  BY DEF NotYetAny
<1> DEFINE N == Len(events)
<1>1. /\ events \in Seq(Events) /\ N \in Nat /\ i \in Nat /\ i # 0 /\ p \in Nat
      /\ events' \in Seq(Events)
  BY AccessTyped, ShapeHolds DEF RunInv, Types, Adds, Shape
<1>2. /\ Len(events') = N + p + q
      /\ \A n \in 1..N : events'[n].id = events[n].id
      /\ \A k \in 1..p : events'[N + k].id = 0
      /\ \A k \in 1..q : events'[N + p + k].id = i + k - 1
  <2>1. Len(events') = N + p + q
    BY DEF Adds
  <2>2. \A n \in 1..N : events'[n].id = events[n].id
    BY DEF Adds
  <2>3. \A k \in 1..p : events'[N + k].id = 0
    BY DEF Adds
  <2>4. \A k \in 1..q : events'[N + p + k].id = i + k - 1
    <3>1. events'[N + p + 1].id = i
      BY DEF Adds, Access
    <3>2. q = 2 => events'[N + p + 2].id = i + 1
      BY DEF Adds, Access
    <3>3. \A k \in 1..q : k = 1 \/ (k = 2 /\ q = 2)
      OBVIOUS
    <3>4. i = i + 1 - 1 /\ i + 1 = i + 2 - 1
      BY <1>1
    <3> QED
      BY <3>1, <3>2, <3>3, <3>4
  <2> QED
    BY <2>1, <2>2, <2>3, <2>4
<1>3. \A n \in 1..(N + p + q) :
        (n \in 1..N) \/ (\E k \in 1..p : n = N + k) \/ (\E h \in 1..q : n = N + p + h)
  <2>1. ASSUME NEW n \in 1..(N + p + q), n \notin 1..N, \A k \in 1..p : n # N + k
        PROVE  \E k \in 1..q : n = N + p + k
    <3> DEFINE h == n - N
    <3>0. n \in Int /\ N \in Int /\ h \in Int /\ n = N + h /\ n >= 1 /\ n <= N + p + q
      BY <1>1
    <3> HIDE DEF h, N
    <3>1. h \notin 1..p /\ n > N
      BY <1>1, <2>1, <3>0
    <3>1a. h - p \in 1..q /\ n = N + p + (h - p)
      BY <1>1, <3>0, <3>1
    <3> QED
      BY <3>1a
  <2> QED
    BY <2>1
<1>4. ASSUME NEW j, events' \in Seq(Events)
      PROVE  /\ Instant(j)' \in 0..Len(events')
             /\ Instant(j)' = 0 <=> \A n \in 1..Len(events') : events'[n].id # j
             /\ Instant(j)' # 0 => events'[Instant(j)'].id = j
  <2> DEFINE I == {n \in 1..Len(events') : events'[n].id = j}
  <2>1. Instant(j)' = IF I # {} THEN Min(I) ELSE 0
    BY DEF Instant, SelectInSeq
  <2>2. I \in SUBSET Nat /\ Len(events') \in Nat
    BY <1>4
  <2>3. I # {} => Min(I) \in I
    <3> HIDE DEF I
    <3> QED
      BY <2>2, FirstPlace
  <2>4. I = {} <=> \A n \in 1..Len(events') : events'[n].id # j
    OBVIOUS
  <2>5. I # {} => Min(I) \in 1..Len(events') /\ events'[Min(I)].id = j
    BY <2>3
  <2> HIDE DEF I
  <2> QED
    BY <2>1, <2>2, <2>4, <2>5
<1>5. ASSUME NEW j, j # 0, j \notin i..(i + q - 1)
      PROVE  Instant(j)' = Instant(j)
  <2>1. \A k \in 1..q : i + k - 1 # j
    <3>1. \A k \in 1..q : i + k - 1 \in i..(i + q - 1)
      BY <1>1
    <3> QED
      BY <1>5, <3>1
  <2>2. \A n \in 1..Len(events') : events'[n].id = j => n \in 1..N
    <3> SUFFICES ASSUME NEW n \in 1..Len(events'), events'[n].id = j PROVE n \in 1..N
      OBVIOUS
    <3>1. n \in 1..(N + p + q)
      BY <1>2
    <3>2. ASSUME NEW k \in 1..p, n = N + k PROVE FALSE
      BY <1>2, <1>5, <3>2
    <3>3. ASSUME NEW k \in 1..q, n = N + p + k PROVE FALSE
      BY <1>2, <2>1, <3>3
    <3> QED
      BY <1>3, <3>1, <3>2, <3>3
  <2>3. CASE Happened(j)
    <3>1. Instant(j) \in 1..N /\ events[Instant(j)].id = j
          /\ \A n \in 1..N : events[n].id = j => n = Instant(j)
      BY <1>1, <1>5, <2>3, HappenedMeans, InstantMeans DEF Happened
    <3>2. Instant(j) \in 1..Len(events')
      BY <1>1, <1>2, <3>1
    <3>3. Instant(j)' # 0
      BY <1>1, <1>2, <1>4, <3>1, <3>2
    <3>4. Instant(j)' \in 1..N
      BY <1>1, <1>4, <2>2, <3>3
    <3> QED
      BY <1>1, <1>2, <1>4, <3>1, <3>3, <3>4
  <2>4. CASE ~ Happened(j)
    <3>1. \A n \in 1..N : events[n].id # j
      BY <2>4, HappenedMeans
    <3>2. \A n \in 1..Len(events') : events'[n].id # j
      BY <1>2, <2>2, <3>1
    <3> QED
      BY <1>1, <1>4, <2>4, <3>2 DEF Happened
  <2> QED
    BY <2>3, <2>4
<1>6. ASSUME NEW k \in 1..q PROVE Instant(i + k - 1)' = N + p + k
  <2> DEFINE j == i + k - 1
  <2>1. j \in Nat /\ j # 0
    <3>1. k \in Nat /\ k >= 1
      OBVIOUS
    <3> QED
      BY <1>1, <3>1
  <2>1a. ~ Happened(j)
    BY <1>0
  <2>2. N + p + k \in 1..Len(events') /\ events'[N + p + k].id = j
    <3>1. events'[N + p + k].id = j
      BY <1>2
    <3>2. Len(events') = N + p + q
      BY <1>2
    <3> HIDE DEF N
    <3>3. N + p + k \in 1..(N + p + q)
      BY <1>1
    <3> QED
      BY <3>1, <3>2, <3>3
  <2> HIDE DEF j
  <2>3. \A n \in 1..N : events'[n].id # j
    <3>1. \A n \in 1..N : events[n].id # j
      BY <2>1a, HappenedMeans
    <3> QED
      BY <1>2, <3>1
  <2>4. \A h \in 1..q : events'[N + p + h].id = j => h = k
    <3> SUFFICES ASSUME NEW h \in 1..q, events'[N + p + h].id = j PROVE h = k
      OBVIOUS
    <3>1. i + h - 1 = i + k - 1
      BY <1>2 DEF j
    <3> QED
      BY <1>1, <3>1
  <2>5. \A n \in 1..Len(events') : events'[n].id = j => n = N + p + k
    <3> SUFFICES ASSUME NEW n \in 1..Len(events'), events'[n].id = j PROVE n = N + p + k
      OBVIOUS
    <3>1. n \in 1..(N + p + q)
      BY <1>2
    <3>2. n \notin 1..N
      BY <2>3
    <3>3. ASSUME NEW h \in 1..p, n = N + h PROVE FALSE
      BY <1>2, <2>1, <3>3
    <3>4. PICK h \in 1..q : n = N + p + h
      BY <1>3, <3>1, <3>2, <3>3
    <3> QED
      BY <2>4, <3>4
  <2>6. Instant(j)' \in 1..Len(events') /\ events'[Instant(j)'].id = j
    BY <1>1, <1>4, <2>2
  <2> QED
    BY <2>5, <2>6 DEF j
<1> QED
  BY <1>5, <1>6 DEF NewInstant
\* The accesses that take effect in a step.
Stamps(New) ==
  /\ New \subseteq Mem(program)
  /\ \A j \in New : ~ Happened(j) /\ Instant(j)' \in Nat /\ Len(events) < Instant(j)'
  /\ \A j, k \in New : j < k => Instant(j)' < Instant(k)'
  /\ \A j : j # 0 /\ j \notin New => Instant(j)' = Instant(j)

\* One access added is one access stamped,
LEMMA StampsOne ==
  ASSUME RunInv, EventInv, RunInv', NEW i \in Mem(program), NEW p, NEW D, NEW to, NEW fin,
         Adds(i, 1, p, D, to, fin), ~ Happened(i)
  PROVE  Stamps({i})
<1>1. i \in Nat /\ Len(events) \in Nat /\ p \in Nat
  BY AccessTyped DEF RunInv, Types, Adds
<1>2. \A k \in 1..1 : ~ Happened(i + k - 1)
  <2>1. \A k \in 1..1 : i + k - 1 = i
    BY <1>1
  <2> QED
    BY <2>1
<1>3. 1 \in 1..2 /\ i + 1 - 1 = i /\ i..i = {i}
  BY <1>1
<1>4. /\ \A j : j # 0 /\ j \notin i..(i + 1 - 1) => Instant(j)' = Instant(j)
      /\ \A k \in 1..1 : Instant(i + k - 1)' = Len(events) + p + k
  <2>1. PICK q \in 1..2 : q = 1
    OBVIOUS
  <2>2. Adds(i, q, p, D, to, fin) /\ NotYetAny(i, q)
    BY <1>2, <2>1 DEF NotYetAny
  <2>3. /\ \A j : j # 0 /\ j \notin i..(i + q - 1) => Instant(j)' = Instant(j)
        /\ \A k \in 1..q : Instant(i + k - 1)' = Len(events) + p + k
    <3>1. NewInstant(i, q, p)
      BY <2>2, HappenedNext
    <3> QED
      BY <3>1 DEF NewInstant
  <2> QED
    BY <2>1, <2>3
<1>5. Instant(i)' = Len(events) + p + 1
  <2>1. 1 \in 1..1 /\ \A k \in 1..1 : i + k - 1 = i + 1 - 1 /\ Len(events) + p + k = Len(events) + p + 1
    OBVIOUS
  <2> QED
    BY <1>1, <1>3, <1>4, <2>1
<1>6. i..(i + 1 - 1) = {i}
  BY <1>3
<1>7. Instant(i)' \in Nat /\ Len(events) < Instant(i)'
  BY <1>1, <1>5
<1>8. ~ (i < i)
  BY <1>1
<1> QED
  BY <1>4, <1>6, <1>7, <1>8 DEF Stamps

\* two are two,
LEMMA StampsTwo ==
  ASSUME RunInv, EventInv, RunInv', NEW i \in Mem(program), NEW p, NEW D, NEW to, NEW fin,
         Adds(i, 2, p, D, to, fin), ~ Happened(i), ~ Happened(i + 1), i + 1 \in Mem(program)
  PROVE  Stamps({i, i + 1})
<1>1. i \in Nat /\ Len(events) \in Nat /\ p \in Nat
  BY AccessTyped DEF RunInv, Types, Adds
<1>2. \A k \in 1..2 : ~ Happened(i + k - 1)
  <2>1. \A k \in 1..2 : i + k - 1 = i \/ i + k - 1 = i + 1
    BY <1>1
  <2> QED
    BY <2>1
<1>3. 2 \in 1..2 /\ i + 1 - 1 = i /\ i + 2 - 1 = i + 1
  BY <1>1
<1>4. /\ \A j : j # 0 /\ j \notin i..(i + 2 - 1) => Instant(j)' = Instant(j)
      /\ \A k \in 1..2 : Instant(i + k - 1)' = Len(events) + p + k
  <2>1. PICK q \in 1..2 : q = 2
    BY <1>3
  <2>2. Adds(i, q, p, D, to, fin) /\ NotYetAny(i, q)
    BY <1>2, <2>1 DEF NotYetAny
  <2>3. NewInstant(i, q, p)
    BY <2>2, HappenedNext
  <2> QED
    BY <2>1, <2>3 DEF NewInstant
<1>5. \A u, t : u = i + 1 - 1 /\ t = i + 2 - 1 =>
        Instant(u)' = Len(events) + p + 1 /\ Instant(t)' = Len(events) + p + 2
  <2>1. 1 \in 1..2 /\ 2 \in 1..2
    OBVIOUS
  <2> QED
    BY <1>4, <2>1
<1>6. \A t : t = i + 1 => Instant(i)' = Len(events) + p + 1 /\ Instant(t)' = Len(events) + p + 2
  BY <1>3, <1>5
<1>7. i..(i + 2 - 1) = {i, i + 1}
  BY <1>1
<1>8. ASSUME NEW j \in {i, i + 1}
      PROVE  ~ Happened(j) /\ Instant(j)' \in Nat /\ Len(events) < Instant(j)'
  BY <1>1, <1>6, <1>8
<1>9. ASSUME NEW j \in {i, i + 1}, NEW k \in {i, i + 1}, j < k PROVE Instant(j)' < Instant(k)'
  <2>1. j = i /\ k = i + 1
    BY <1>1, <1>9
  <2> QED
    BY <1>1, <1>6, <2>1
<1>10. \A j : j # 0 /\ j \notin {i, i + 1} => Instant(j)' = Instant(j)
  BY <1>4, <1>7
<1> QED
  BY <1>8, <1>9, <1>10 DEF Stamps

\* and no event, none.
LEMMA StampsNone ==
  ASSUME events' = events
  PROVE  Stamps({}) /\ \A j : Instant(j)' = Instant(j)
<1>1. \A j : Instant(j)' = Instant(j)
  BY DEF Instant, SelectInSeq
<1> QED
  BY <1>1 DEF Stamps

\* What was ahead stays ahead, unless it is overtaken.
LEMMA AheadNext ==
  ASSUME RunInv, EventInv, NEW New, Stamps(New), NEW u \in Nat \ {0}, NEW v \in Nat \ {0},
         Ahead(u, v), v \in New => Happened(u)
  PROVE  Ahead(u, v)'
<1>1. Instant(u) \in 0..Len(events) /\ Instant(v) \in 0..Len(events) /\ Len(events) \in Nat
  BY HappenedMeans DEF RunInv, Types
<1>2. \A j \in {u, v} : /\ j \in New => Instant(j)' \in Nat /\ Len(events) < Instant(j)'
                                        /\ Instant(j) = 0
                        /\ j \notin New => Instant(j)' = Instant(j)
  BY DEF Stamps, Happened
<1>3. CASE Happened(u)
  <2>1. u \notin New /\ Instant(u)' = Instant(u) /\ Instant(u) # 0
    BY <1>2, <1>3 DEF Happened
  <2>2. Happened(v)' => Instant(u)' < Instant(v)'
    BY <1>1, <1>2, <1>3, <2>1 DEF Happened, Ahead
  <2> QED
    BY <2>1, <2>2 DEF Ahead, Happened
<1>4. CASE ~ Happened(u)
  <2>1. ~ Happened(v) /\ u < v /\ v \notin New
    BY <1>4 DEF Ahead
  <2>2. Instant(v)' = 0
    BY <1>2, <2>1 DEF Happened
  <2> QED
    BY <2>1, <2>2 DEF Ahead, Happened
<1> QED
  BY <1>3, <1>4

\* What has to be looked at for the instants of each core to stay in order.
LEMMA OrderlyNext ==
  ASSUME RunInv, EventInv, RunInv', program' = program, hw' = hw, issued \subseteq issued',
         NEW New, Stamps(New),
         \* what is issued is issued in turn, and ahead of nothing it must follow
         hw # "weak" => \A u \in issued' \ issued : \A j \in DOMAIN program :
           j < u /\ Together(j, u) => j \in issued',
         hw # "weak" => \A v \in Mem(program) \cap (issued' \ issued), u \in Mem(program) \cap issued' :
           u < v /\ Together(u, v) /\ Strict(u, v) => Ahead(u, v)',
         hw # "weak" => \A f \in Fences(program) \cap (issued' \ issued), s \in Stores(program) :
           s < f /\ Together(s, f) => Happened(s),
         Correct => \A s \in Stores(program) \cap (issued' \ issued) : Op(s).rmw # None => s \in New,
         \* a queue is drained from the front
         \A v \in New \cap issued, u \in Mem(program) \cap issued :
           u < v /\ Together(u, v) => Happened(u),
         hw # "tso" => \A c \in Cores : buffer'[c] = <<>>,
         \A c \in Cores : \A j, k \in 1..Len(buffer'[c]) : j < k => buffer'[c][j] < buffer'[c][k]
  PROVE  Orderly'
<1>1. /\ \A j : Op(j)' = Op(j)
      /\ \A j, k : (Together(j, k)' <=> Together(j, k)) /\ (Strict(j, k)' <=> Strict(j, k))
      /\ Mem(program') = Mem(program) /\ Stores(program') = Stores(program)
      /\ Fences(program') = Fences(program) /\ DOMAIN program' = DOMAIN program
      /\ (Correct' <=> Correct)
  BY DEF Op, Together, Strict, Correct
<1>2. Orderly /\ Mem(program) \subseteq Nat \ {0} /\ Stores(program) \subseteq Mem(program)
  BY ShapeHolds DEF EventInv, RunInv, Types, Shape
<1>3. \A j : j # 0 /\ Happened(j) => Happened(j)'
  BY DEF Stamps, Happened
<1>4. \A j \in New : Happened(j)'
  <2>1. Len(events) \in Nat
    BY DEF RunInv, Types
  <2> QED
    BY <2>1 DEF Stamps, Happened
<1>5. ASSUME hw # "weak" PROVE InTurn'
  <2>1. InTurn
    BY <1>2, <1>5 DEF Orderly
  <2>2. \A i \in issued' : \A j \in DOMAIN program : j < i /\ Together(j, i) => j \in issued'
    BY <1>5, <2>1 DEF InTurn
  <2>3. ASSUME NEW u \in Mem(program) \cap issued', NEW v \in Mem(program) \cap issued',
               u < v, Together(u, v), Strict(u, v)
        PROVE  Ahead(u, v)'
    <3>1. CASE v \notin issued
      BY <1>5, <2>3, <3>1
    <3>2. CASE v \in issued
      <4>1. u \in issued
        BY <2>1, <2>3, <3>2, ProgramFacts DEF InTurn, RunInv, Types
      <4>2. Ahead(u, v)
        BY <2>1, <2>3, <3>2, <4>1 DEF InTurn
      <4>3. v \in New => Happened(u)
        BY <2>3, <3>2, <4>1
      <4> QED
        BY <1>2, <4>2, <4>3, AheadNext
    <3> QED
      BY <3>1, <3>2
  <2>4. ASSUME NEW f \in Fences(program) \cap issued', NEW s \in Stores(program),
               s < f, Together(s, f)
        PROVE  Happened(s)'
    <3>1. Happened(s)
      BY <1>5, <2>1, <2>4 DEF InTurn
    <3> QED
      BY <1>2, <1>3, <3>1
  <2> QED
    BY <1>1, <2>2, <2>3, <2>4 DEF InTurn
<1>6. ASSUME Correct, NEW s \in Stores(program) \cap issued', Op(s).rmw # None
      PROVE  Happened(s)'
  BY <1>2, <1>3, <1>4, <1>6 DEF Orderly
<1>7. \A s \in Stores(program) : (Op(s).rmw)' = Op(s).rmw
  BY <1>1
<1> QED
  BY <1>1, <1>5, <1>6, <1>7 DEF Orderly

\* An event is an old one, a snoop, or one of the accesses added.
LEMMA ThreeParts ==
  ASSUME NEW N \in Nat, NEW p \in Nat, NEW q \in 1..2, NEW n \in 1..(N + p + q)
  PROVE  n \in 1..N \/ (\E k \in 1..p : n = N + k) \/ n = N + p + 1 \/ (q = 2 /\ n = N + p + 2)
<1> SUFFICES ASSUME n \notin 1..N, \A k \in 1..p : n # N + k
             PROVE  n = N + p + 1 \/ (q = 2 /\ n = N + p + 2)
  OBVIOUS
<1> DEFINE h == n - N
<1>1. h \in Int /\ n = N + h /\ n > N
  OBVIOUS
<1>2. h \notin 1..p /\ h >= 1 /\ h <= p + q
  BY <1>1
<1> HIDE DEF h
<1>3. h > p
  BY <1>1, <1>2
<1> QED
  BY <1>1, <1>2, <1>3

\* What the new events are.
LEMMA AddsMeans ==
  ASSUME RunInv, NEW i \in Mem(program), NEW q \in 1..2, NEW p, NEW D, NEW to, NEW fin,
         Adds(i, q, p, D, to, fin)
  PROVE  /\ p \in Nat /\ Len(events) \in Nat /\ Len(events') = Len(events) + p + q
         /\ \A n \in 1..Len(events) : n \in 1..Len(events') /\ events'[n] = events[n]
         /\ \A n \in 1..Len(events') :
              \/ n \in 1..Len(events)
              \/ /\ n \in (Len(events) + 1)..(Len(events) + p)
                 /\ snoops /\ events'[n].id = 0 /\ events'[n].op = "load"
                 /\ events'[n].core \in D /\ events'[n].addr = Op(i).addr /\ events'[n].state = to
              \/ n = Len(events) + p + 1 /\ events'[n] = Access(i, fin)
              \/ q = 2 /\ n = Len(events) + p + 2 /\ events'[n] = Access(i + 1, fin)
<1> DEFINE N == Len(events)
<1>1. N \in Nat /\ p \in Nat /\ Len(events') = N + p + q
  BY DEF RunInv, Types, Adds
<1>2. \A n \in 1..N : n \in 1..Len(events') /\ events'[n] = events[n]
  BY <1>1 DEF Adds
<1>3. ASSUME NEW n \in 1..Len(events'), n \notin 1..N
      PROVE  \/ /\ n \in (N + 1)..(N + p)
                /\ snoops /\ events'[n].id = 0 /\ events'[n].op = "load"
                /\ events'[n].core \in D /\ events'[n].addr = Op(i).addr /\ events'[n].state = to
             \/ n = N + p + 1 /\ events'[n] = Access(i, fin)
             \/ q = 2 /\ n = N + p + 2 /\ events'[n] = Access(i + 1, fin)
  <2>1. (\E k \in 1..p : n = N + k) \/ n = N + p + 1 \/ (q = 2 /\ n = N + p + 2)
    <3>1. n \in 1..(N + p + q)
      BY <1>1
    <3> HIDE DEF N
    <3> QED
      BY <1>1, <1>3, <3>1, ThreeParts
  <2>2. ASSUME NEW k \in 1..p, n = N + k
        PROVE  /\ n \in (N + 1)..(N + p)
               /\ snoops /\ events'[n].id = 0 /\ events'[n].op = "load"
               /\ events'[n].core \in D /\ events'[n].addr = Op(i).addr /\ events'[n].state = to
    <3>1. n \in (N + 1)..(N + p)
      BY <1>1, <2>2
    <3> QED
      BY <2>2, <3>1 DEF Adds
  <2> QED
    BY <2>1, <2>2 DEF Adds
<1> QED
  BY <1>1, <1>2, <1>3

\* The instants after an addition.
LEMMA NewInstants ==
  ASSUME RunInv, EventInv, RunInv', NEW i \in Mem(program), NEW q \in 1..2,
         NEW p, NEW D, NEW to, NEW fin,
         Adds(i, q, p, D, to, fin), ~ Happened(i), q = 2 => ~ Happened(i + 1)
  PROVE  /\ \A j : j # 0 /\ j # i /\ (q = 2 => j # i + 1) => Instant(j)' = Instant(j)
         /\ Instant(i)' = Len(events) + p + 1
         /\ \A j : q = 2 /\ j = i + 1 => Instant(j)' = Len(events) + p + 2
<1>1. i \in Nat
  BY AccessTyped
<1>2. NotYetAny(i, q)
  <2>1. \A k \in 1..q : i + k - 1 = i \/ (q = 2 /\ i + k - 1 = i + 1)
    BY <1>1
  <2> QED
    BY <2>1 DEF NotYetAny
<1>3. /\ \A j : j # 0 /\ j \notin i..(i + q - 1) => Instant(j)' = Instant(j)
      /\ \A k \in 1..q : Instant(i + k - 1)' = Len(events) + p + k
  <2>1. NewInstant(i, q, p)
    BY <1>2, HappenedNext
  <2> QED
    BY <2>1 DEF NewInstant
<1>4. \A j \in i..(i + q - 1) : j = i \/ (q = 2 /\ j = i + 1)
  BY <1>1
<1>5. \A j : j = i + 1 - 1 => Instant(j)' = Len(events) + p + 1
  BY <1>3
<1>6. \A j : q = 2 /\ j = i + 2 - 1 => Instant(j)' = Len(events) + p + 2
  BY <1>3
<1>7. i + 1 - 1 = i /\ i + 2 - 1 = i + 1
  BY <1>1
<1> QED
  BY <1>3, <1>4, <1>5, <1>6, <1>7

\* After an addition every event still names what it is of.
LEMMA NamedNext ==
  ASSUME RunInv, EventInv, RunInv', program' = program, snoops' = snoops,
         NEW i \in Mem(program), NEW q \in 1..2, NEW p, NEW D, NEW to, NEW fin,
         Adds(i, q, p, D, to, fin),
         ~ Happened(i), q = 2 => i + 1 \in Mem(program) /\ ~ Happened(i + 1) /\ i + 1 \in issued',
         i \in issued', issued \subseteq issued',
         \A l \in Loads(program) \cap issued' : l \in issued \/ l = i \/ (q = 2 /\ l = i + 1)
  PROVE  Named'
<1> DEFINE N == Len(events)
<1>1. /\ p \in Nat /\ N \in Nat /\ Len(events') = N + p + q
      /\ \A n \in 1..N : n \in 1..Len(events') /\ events'[n] = events[n]
      /\ \A n \in 1..Len(events') :
              \/ n \in 1..N
              \/ /\ n \in (N + 1)..(N + p)
                 /\ snoops /\ events'[n].id = 0 /\ events'[n].op = "load"
              \/ n = N + p + 1 /\ events'[n] = Access(i, fin)
              \/ q = 2 /\ n = N + p + 2 /\ events'[n] = Access(i + 1, fin)
  BY AddsMeans
<1>2. Named /\ i \in Nat /\ i # 0 /\ Mem(program) \subseteq Nat /\ 0 \notin Mem(program)
  BY AccessTyped, ShapeHolds DEF EventInv, RunInv, Types, Shape
<1>3. /\ \A j : j # 0 /\ j # i /\ (q = 2 => j # i + 1) => Instant(j)' = Instant(j)
      /\ Instant(i)' = N + p + 1
      /\ \A j : q = 2 /\ j = i + 1 => Instant(j)' = N + p + 2
  <2>1. q = 2 => ~ Happened(i + 1)
    OBVIOUS
  <2> HIDE DEF N
  <2> QED
    BY <2>1, NewInstants DEF N
<1>4. /\ \A j : Op(j)' = Op(j)
      /\ Mem(program') = Mem(program) /\ Loads(program') = Loads(program)
  BY DEF Op
<1>5. ASSUME NEW n \in 1..Len(events')
      PROVE  \/ snoops /\ events'[n].id = 0 /\ events'[n].op = "load"
             \/ \E j \in Mem(program) \cap issued' :
                  /\ events'[n].id = j /\ events'[n].core = Op(j).core
                  /\ events'[n].op = Op(j).kind /\ events'[n].addr = Op(j).addr
  <2>1. CASE n \in 1..N
    <3>1. \/ snoops /\ events[n].id = 0 /\ events[n].op = "load"
          \/ \E j \in Mem(program) \cap issued :
               /\ events[n].id = j /\ events[n].core = Op(j).core
               /\ events[n].op = Op(j).kind /\ events[n].addr = Op(j).addr
      BY <1>2, <2>1 DEF Named
    <3> QED
      BY <1>1, <2>1, <3>1
  <2>2. CASE n = N + p + 1 /\ events'[n] = Access(i, fin)
    BY <2>2 DEF Access
  <2>3. CASE q = 2 /\ n = N + p + 2 /\ events'[n] = Access(i + 1, fin)
    BY <2>3 DEF Access
  <2> QED
    BY <1>1, <2>1, <2>2, <2>3
<1>6. ASSUME NEW n \in 1..Len(events'), NEW j, j = events'[n].id, j # 0
      PROVE  Instant(j)' = n
  <2>1. CASE n \in 1..N
    <3>1. events[n].id = j
      BY <1>1, <1>6, <2>1
    <3>2. Instant(j) = n /\ Happened(j)
      BY <1>6, <2>1, <3>1, HappenedMeans
    <3>3. j # i /\ (q = 2 => j # i + 1)
      BY <3>2
    <3> QED
      BY <1>3, <1>6, <3>2, <3>3
  <2>2. CASE n = N + p + 1 /\ events'[n] = Access(i, fin)
    BY <1>3, <1>6, <2>2 DEF Access
  <2>3. CASE q = 2 /\ n = N + p + 2 /\ events'[n] = Access(i + 1, fin)
    BY <1>3, <1>6, <2>3 DEF Access
  <2> QED
    BY <1>1, <1>6, <2>1, <2>2, <2>3
<1>7. ASSUME NEW l \in Loads(program) \cap issued'
      PROVE  Happened(l)'
  <2>1. l # 0 /\ (l \in issued => Instant(l) # 0)
    BY <1>2, ShapeHolds DEF Named, Happened, RunInv, Types, Shape
  <2>2. Instant(l)' # 0
    BY <1>1, <1>3, <2>1
  <2> QED
    BY <2>2 DEF Happened
<1>8. ASSUME NEW m \in 1..Len(events'), NEW n \in 1..Len(events'),
             events'[m].id = events'[n].id, events'[n].id # 0
      PROVE  m = n
  BY <1>6, <1>8
<1>9. \A n \in 1..Len(events') :
       \/ snoops' /\ events'[n].id = 0 /\ events'[n].op = "load"
       \/ /\ events'[n].id \in Mem(program') \cap issued'
          /\ \A j : j = events'[n].id =>
               /\ events'[n].core = (Op(j).core)' /\ events'[n].op = (Op(j).kind)'
               /\ events'[n].addr = (Op(j).addr)'
  BY <1>4, <1>5
<1> QED
  BY <1>4, <1>7, <1>8, <1>9 DEF Named

(***************************************************************************)
(* What a load has read.                                                   *)
(***************************************************************************)
LEMMA PlaceMeans ==
  ASSUME NEW list, Len(list) \in Nat, NEW s, NEW r,
         r = LET I == {k \in 1..Len(list) : list[k] = s} IN IF I # {} THEN Min(I) ELSE 0
  PROVE  /\ r \in 0..Len(list)
         /\ r = 0 <=> \A k \in 1..Len(list) : list[k] # s
         /\ r # 0 => list[r] = s
<1> DEFINE I == {k \in 1..Len(list) : list[k] = s}
<1>1. r = IF I # {} THEN Min(I) ELSE 0
  OBVIOUS
<1>2. I \in SUBSET Nat
  OBVIOUS
<1>3. I # {} => Min(I) \in I
  <2> HIDE DEF I
  <2> QED
    BY <1>2, FirstPlace
<1>4. I = {} <=> \A k \in 1..Len(list) : list[k] # s
  OBVIOUS
<1>5. I # {} => Min(I) \in 1..Len(list) /\ list[Min(I)] = s
  BY <1>3
<1> HIDE DEF I
<1> QED
  BY <1>1, <1>4, <1>5

\* Memory only takes stores at the end.
Grows == \A a \in Addrs : /\ Len(order[a]) \in Nat /\ Len(order'[a]) \in Nat
                          /\ Len(order[a]) <= Len(order'[a])
                          /\ \A k \in 1..Len(order[a]) : order'[a][k] = order[a][k]

\* A store keeps its place in the memory's order as that grows.
LEMMA RankStays ==
  ASSUME RunInv, RunInv', Grows, program' = program, NEW a \in Addrs, NEW s
  PROVE  /\ Rank(a, s) # 0 => Rank(a, s)' = Rank(a, s)
         /\ Rank(a, 0) = 0 /\ Rank(a, 0)' = 0
<1>1. /\ order[a] \in Seq(Nat) /\ order'[a] \in Seq(Nat)
      /\ Len(order[a]) \in Nat /\ Len(order'[a]) \in Nat
  BY DEF RunInv, Types, Grows
<1>2. \A t : /\ Rank(a, t)' \in 0..Len(order'[a])
             /\ Rank(a, t)' = 0 <=> \A k \in 1..Len(order'[a]) : order'[a][k] # t
             /\ Rank(a, t)' # 0 => order'[a][Rank(a, t)'] = t
  <2> SUFFICES ASSUME NEW t
               PROVE  /\ Rank(a, t)' \in 0..Len(order'[a])
                      /\ Rank(a, t)' = 0 <=> \A k \in 1..Len(order'[a]) : order'[a][k] # t
                      /\ Rank(a, t)' # 0 => order'[a][Rank(a, t)'] = t
    OBVIOUS
  <2>1. Rank(a, t)' = LET I == {k \in 1..Len(order'[a]) : order'[a][k] = t}
                      IN  IF I # {} THEN Min(I) ELSE 0
    BY DEF Rank, SelectInSeq
  <2> QED
    BY <1>1, <2>1, PlaceMeans
<1>3. Taken' /\ Taken /\ \A b : StoresTo(program', b) = StoresTo(program, b)
  BY DEF RunInv
<1>4. 0 \notin StoresTo(program, a)
  BY ShapeHolds DEF RunInv, Types, Shape, StoresTo
<1>5. ASSUME Rank(a, s) # 0 PROVE Rank(a, s)' = Rank(a, s)
  <2> DEFINE k == Rank(a, s)
  <2>1. k \in 1..Len(order[a]) /\ order[a][k] = s
    BY <1>1, <1>5, RankMeans
  <2> HIDE DEF k
  <2>2. k \in 1..Len(order'[a]) /\ order'[a][k] = s
    BY <2>1 DEF Grows
  <2>3. Rank(a, s)' \in 1..Len(order'[a]) /\ order'[a][Rank(a, s)'] = s
    BY <1>1, <1>2, <2>2
  <2>4. Rank(a, s)' = k
    BY <1>3, <2>2, <2>3 DEF Taken
  <2> QED
    BY <2>4 DEF k
<1>6. Rank(a, 0)' = 0
  <2>1. \A k \in 1..Len(order'[a]) : order'[a][k] # 0
    BY <1>3, <1>4 DEF Taken
  <2> QED
    BY <1>2, <2>1
<1>7. Rank(a, 0) = 0
  <2>1. ~ InMemory(a, 0)
    BY <1>3, <1>4 DEF Taken, InMemory
  <2> QED
    BY <1>1, <2>1, RankMeans
<1> QED
  BY <1>5, <1>6, <1>7

\* A queue is drained from the front.
FromFront(New) == \A v \in New \cap issued, u \in Mem(program) \cap issued :
                    u < v /\ Together(u, v) => Happened(u)

\* What a load that was issued knew stays what it knew.
LEMMA KnownStays ==
  ASSUME RunInv, EventInv, Correct, program' = program, issued \subseteq issued',
         NEW New, Stamps(New), NEW l \in Loads(program) \cap issued,
         \A s \in Stores(program) : Happened(s)' => s \in issued'
  PROVE  Known(l)' = Known(l)
<1>1. /\ Named /\ Orderly /\ hw # "weak" /\ Len(events) \in Nat
      /\ StoresTo(program, Op(l).addr) \subseteq Stores(program)
      /\ Stores(program) \subseteq DOMAIN program
      /\ Stores(program) \subseteq Mem(program) /\ l \in Mem(program)
      /\ Mem(program) \subseteq Nat \ {0}
  BY ShapeHolds, ProgramFacts DEF EventInv, RunInv, Types, Shape, Correct, StoresTo
<1>2. InTurn
  BY <1>1 DEF Orderly
<1>3. Happened(l) /\ Instant(l) \in 1..Len(events) /\ Instant(l)' = Instant(l)
  <2>1. Happened(l)
    BY <1>1 DEF Named
  <2>2. Instant(l) \in 0..Len(events)
    BY HappenedMeans
  <2>3. l \notin New /\ l # 0
    BY <1>1, <2>1 DEF Stamps
  <2> QED
    BY <1>1, <2>1, <2>2, <2>3 DEF Stamps, Happened
<1>4. ASSUME NEW s \in Stores(program)
      PROVE  Happened(s)' /\ Instant(s)' < Instant(l)' <=> Happened(s) /\ Instant(s) < Instant(l)
  <2>1. s # 0 /\ Instant(s) \in Nat
    BY <1>1, HappenedMeans
  <2>2. CASE s \in New
    BY <1>1, <1>3, <2>1, <2>2 DEF Stamps
  <2>3. CASE s \notin New
    BY <1>3, <2>1, <2>3 DEF Stamps, Happened
  <2> QED
    BY <2>2, <2>3
<1>5. ASSUME NEW s \in Stores(program), s \in issued', s < l, Together(s, l)
      PROVE  s \in issued
  BY <1>1, <1>2, <1>5 DEF InTurn
<1>6. \A s \in Stores(program) : Happened(s) => s \in issued
  BY StoreHappened
<1>7. /\ StoresTo(program', Op(l)'.addr) = StoresTo(program, Op(l).addr)
      /\ \A s : Together(s, l)' <=> Together(s, l)
  BY DEF Op, Together
<1>8. \A s : s \in Known(l)' <=> s \in Known(l)
  BY <1>1, <1>4, <1>5, <1>6, <1>7 DEF Known
<1>9. Known(l)' \subseteq Stores(program) /\ Known(l) \subseteq Stores(program)
  BY <1>1, <1>7 DEF Known
<1> QED
  BY <1>8, <1>9

\* A load that was right stays right.
LEMMA ReadsNewestStays ==
  ASSUME RunInv, EventInv, RunInv', Correct, program' = program, issued \subseteq issued', Grows,
         NEW New, Stamps(New), FromFront(New), NEW l \in Loads(program) \cap issued,
         \A s \in Stores(program) : Happened(s)' => s \in issued',
         source'[l] = source[l]
  PROVE  ReadsNewest(l)'
<1>a. PICK w : w = source[l]
  OBVIOUS
<1>b. PICK a : a = Op(l).addr
  OBVIOUS
<1>1. Known(l)' = Known(l)
  BY KnownStays
<1>2. ReadsNewest(l)
  BY DEF EventInv, Upto
<1>3. /\ Known(l) \subseteq Stores(program) \cap issued
      /\ \A s \in Known(l) : Happened(s) \/ (s < l /\ Together(s, l))
  BY DEF Known, StoresTo
<1>4. /\ Stores(program) \subseteq Mem(program) /\ Mem(program) \subseteq Nat \ {0}
      /\ l \in Mem(program) /\ w \in Nat /\ a \in Addrs
  BY <1>a, <1>b, ShapeHolds, AccessTyped DEF RunInv, Types, Shape
<1>5. \A j \in Nat \ {0} : Happened(j) => Happened(j)'
  BY DEF Stamps, Happened
<1>6. w # 0 => w \in Known(l)
  BY <1>a, <1>2 DEF ReadsNewest
<1>7. ASSUME NEW s \in Known(l), s # w PROVE w # 0 /\ Ahead(s, w)'
  <2>1. w # 0 /\ Ahead(s, w) /\ w \in Known(l)
    BY <1>a, <1>2, <1>6, <1>7 DEF ReadsNewest
  <2>2. ASSUME w \in New, ~ Happened(s) PROVE FALSE
    <3>1. s < w
      BY <2>1, <2>2 DEF Ahead
    <3>2. ~ Happened(w)
      BY <2>2 DEF Stamps
    <3>3. Together(s, l) /\ Together(w, l)
      BY <1>3, <2>1, <2>2, <3>2
    <3>4. Together(s, w) /\ s \in Mem(program) \cap issued /\ w \in New \cap issued
      BY <1>3, <1>4, <2>1, <2>2, <3>3 DEF Together
    <3> QED
      BY <2>2, <3>1, <3>4 DEF FromFront
  <2>3. s \in Nat \ {0} /\ w \in Nat \ {0}
    BY <1>3, <1>4, <2>1
  <2>4. w \in New => Happened(s)
    BY <2>2
  <2> QED
    BY <2>1, <2>3, <2>4, AheadNext
<1>8. ASSUME Op(l).rmw # None
      PROVE  \A h : h = l + 1 =>
               /\ Happened(h)' /\ (w # 0 => Happened(w)')
               /\ Rank(a, h)' = Rank(a, w)' + 1
  <2> SUFFICES ASSUME NEW h, h = l + 1
               PROVE  Happened(h)' /\ (w # 0 => Happened(w)') /\ Rank(a, h)' = Rank(a, w)' + 1
    OBVIOUS
  <2>1. Happened(h) /\ (w # 0 => Happened(w)) /\ Rank(a, h) = Rank(a, w) + 1
    BY <1>a, <1>b, <1>2, <1>8 DEF ReadsNewest
  <2>2. h \in Stores(program) /\ Op(h).addr = a
    BY <1>b, <1>8, Halves
  <2>3. Happened(h)' /\ (w # 0 => Happened(w)')
    BY <1>4, <1>5, <2>1, <2>2
  <2>4. InMemory(a, h)
    BY <2>1, <2>2, StoreHappened
  <2>5. order[a] \in Seq(Nat)
    BY <1>4 DEF RunInv, Types
  <2>6. Rank(a, h) # 0
    BY <1>4, <2>4, <2>5, RankMeans
  <2>7. w # 0 => Rank(a, w) # 0
    <3> SUFFICES ASSUME w # 0 PROVE Rank(a, w) # 0
      OBVIOUS
    <3>1. w \in Stores(program) /\ Op(w).addr = a
      BY <1>b, <1>6 DEF Known, StoresTo, Op
    <3>2. InMemory(a, w)
      BY <2>1, <3>1, StoreHappened
    <3> QED
      BY <1>4, <2>5, <3>2, RankMeans
  <2>8. Rank(a, h)' = Rank(a, h) /\ Rank(a, w)' = Rank(a, w)
    <3>1. /\ Rank(a, h) # 0 => Rank(a, h)' = Rank(a, h)
          /\ Rank(a, w) # 0 => Rank(a, w)' = Rank(a, w)
          /\ Rank(a, 0) = 0 /\ Rank(a, 0)' = 0
      BY <1>4, RankStays
    <3>2. w = 0 => Rank(a, w) = 0 /\ Rank(a, w)' = 0
      BY <3>1
    <3> QED
      BY <2>6, <2>7, <3>1, <3>2
  <2> QED
    BY <2>1, <2>3, <2>8
<1>9. Op(l)' = Op(l)
  BY DEF Op
<1> QED
  BY <1>a, <1>b, <1>1, <1>6, <1>7, <1>8, <1>9 DEF ReadsNewest

\* The newest store in memory is the last that happened.
LEMMA NewestLast ==
  ASSUME RunInv, EventInv, NEW a \in Addrs
  PROVE  /\ Newest(a) = 0 \/ (Newest(a) \in StoresTo(program, a) \cap issued /\ Happened(Newest(a))
                              /\ Newest(a) # 0)
         /\ Newest(a) = 0 => Len(order[a]) = 0
         /\ Newest(a) # 0 => Rank(a, Newest(a)) = Len(order[a])
         /\ \A s \in StoresTo(program, a) : Happened(s) =>
              s = Newest(a) \/ (Newest(a) # 0 /\ Instant(s) < Instant(Newest(a)))
<1> DEFINE L == Len(order[a])
<1>1. order[a] \in Seq(Nat) /\ L \in Nat /\ Taken /\ Stamped
  BY DEF RunInv, Types
<1>2. /\ \A k \in 1..L : order[a][k] \in StoresTo(program, a) \cap issued
      /\ 0 \notin StoresTo(program, a) /\ StoresTo(program, a) \subseteq Stores(program)
  BY <1>1, ShapeHolds DEF Taken, RunInv, Types, Shape, StoresTo
<1>3. ASSUME NEW s \in StoresTo(program, a)
      PROVE  Op(s).addr = a /\ (Happened(s) <=> InMemory(a, s))
  <2>1. Op(s).addr = a /\ s \in Stores(program)
    BY DEF StoresTo, Op
  <2> QED
    BY <2>1, StoreHappened
<1>4. CASE L = 0
  <2>1. order[a] = <<>>
    BY <1>1, <1>4
  <2>2. Newest(a) = 0
    BY <2>1 DEF Newest
  <2> QED
    BY <1>3, <1>4, <2>2 DEF InMemory
<1>5. CASE L # 0
  <2>1. PICK w : w = order[a][L]
    OBVIOUS
  <2>2. order[a] # <<>> /\ L \in 1..L
    BY <1>1, <1>5
  <2>3. Newest(a) = w
    BY <2>1, <2>2 DEF Newest, Last
  <2>4. w \in StoresTo(program, a) \cap issued /\ w # 0 /\ InMemory(a, w) /\ Happened(w)
    BY <1>2, <1>3, <2>1, <2>2 DEF InMemory
  <2>5. Rank(a, w) = L
    <3>1. Rank(a, w) \in 1..L /\ order[a][Rank(a, w)] = w
      BY <1>1, <2>4, RankMeans
    <3> QED
      BY <1>1, <2>1, <2>2, <3>1 DEF Taken
  <2>6. ASSUME NEW s \in StoresTo(program, a), Happened(s), s # w
        PROVE  Instant(s) < Instant(w)
    <3>1. PICK k \in 1..L : order[a][k] = s
      BY <1>3, <2>6 DEF InMemory
    <3>2. k < L
      BY <1>1, <2>1, <2>6, <3>1
    <3>3. /\ Instant(s) \in 1..Len(events) /\ events[Instant(s)].id = s
          /\ Instant(w) \in 1..Len(events) /\ events[Instant(w)].id = w
      <4>1. events \in Seq(Events) /\ Len(events) \in Nat
        BY DEF RunInv, Types
      <4> QED
        BY <2>4, <2>6, <4>1, InstantMeans DEF Happened
    <3> QED
      BY <1>1, <2>1, <2>2, <3>1, <3>2, <3>3 DEF Stamped
  <2> QED
    BY <1>5, <2>3, <2>4, <2>5, <2>6
<1> QED
  BY <1>4, <1>5

\* The store a load takes from the queue is the youngest of its address.
LEMMA WaitingYoungest ==
  ASSUME RunInv, EventInv, NEW c \in Cores, NEW a \in Addrs
  PROVE  /\ Waiting(c, a) = 0 => \A s : InQueue(c, s) => Op(s).addr # a
         /\ Waiting(c, a) # 0 =>
              /\ InQueue(c, Waiting(c, a)) /\ Op(Waiting(c, a)).addr = a
              /\ \A s : InQueue(c, s) /\ Op(s).addr = a => s = Waiting(c, a) \/ s < Waiting(c, a)
<1> DEFINE own == {k \in DOMAIN buffer[c] : Op(buffer[c][k]).addr = a}
           L == Len(buffer[c])
<1>1. buffer[c] \in Seq(Nat) /\ DOMAIN buffer[c] = 1..L /\ L \in Nat
  BY DEF RunInv, Types
<1>2. \A j, k \in 1..L : j < k => buffer[c][j] < buffer[c][k]
  BY DEF EventInv, Orderly
<1>3. CASE own = {}
  <2>1. Waiting(c, a) = 0
    BY <1>3 DEF Waiting
  <2> QED
    BY <1>1, <1>3, <2>1 DEF InQueue
<1>4. CASE own # {}
  <2> DEFINE left == [k \in own |-> L - k]
  <2>1. \A k \in own : left[k] \in Nat /\ k \in 1..L
    BY <1>1
  <2>2. PICK k \in own : \A j \in own : left[k] <= left[j]
    <3> HIDE DEF left, own
    <3> QED
      BY <1>4, <2>1, Lowest
  <2>3. ASSUME NEW j \in own PROVE k >= j
    <3>1. left[k] = L - k /\ left[j] = L - j /\ left[k] <= left[j]
      BY <2>2
    <3> HIDE DEF left, own
    <3>2. k \in Int /\ j \in Int
      BY <2>1
    <3> QED
      BY <1>1, <3>1, <3>2
  <2>4. Max(own) \in own /\ \A j \in own : Max(own) >= j
    BY <2>3 DEF Max
  <2>5. PICK m : m = Max(own)
    OBVIOUS
  <2>6. Waiting(c, a) = buffer[c][m]
    BY <1>4, <2>5 DEF Waiting
  <2>7. m \in 1..L /\ Op(buffer[c][m]).addr = a
    BY <1>1, <2>4, <2>5
  <2>8. buffer[c][m] # 0
    <3>1. buffer[c][m] \in Stores(program)
      BY <2>7 DEF RunInv, Queued
    <3> QED
      BY <3>1, ShapeHolds DEF RunInv, Types, Shape
  <2>9. ASSUME NEW s, InQueue(c, s), Op(s).addr = a
        PROVE  s = buffer[c][m] \/ s < buffer[c][m]
    <3>1. PICK j \in 1..L : buffer[c][j] = s
      BY <2>9 DEF InQueue
    <3>2. j \in own
      BY <1>1, <2>9, <3>1
    <3>3. m >= j
      BY <2>4, <2>5, <3>2
    <3>4. j = m \/ j < m
      BY <1>1, <2>7, <3>3
    <3> QED
      BY <1>2, <2>7, <3>1, <3>4
  <2> QED
    BY <2>6, <2>7, <2>8, <2>9 DEF InQueue
<1> QED
  BY <1>3, <1>4

\* The stores a new load must know of.
LEMMA KnownNew ==
  ASSUME RunInv, EventInv, program' = program, NEW New, Stamps(New),
         NEW i \in Loads(program), i \notin issued, i \in New,
         \A j \in New : j = i \/ (i < j /\ Together(j, i)),
         issued' = issued \cup New,
         hw # "weak", \A j \in DOMAIN program : j < i /\ Together(j, i) => j \in issued
  PROVE  \A s : s \in Known(i)' <=>
                  /\ s \in StoresTo(program, Op(i).addr) /\ s \in issued
                  /\ Happened(s) \/ InQueue(Op(i).core, s)
<1>1. /\ Len(events) \in Nat /\ Instant(i)' \in Nat /\ Len(events) < Instant(i)'
      /\ Stores(program) \subseteq Mem(program) /\ i \in Mem(program)
      /\ Mem(program) \subseteq Nat \ {0} /\ i \notin Stores(program)
      /\ Mem(program) \subseteq DOMAIN program
  BY ShapeHolds, ProgramFacts DEF RunInv, Types, Shape, Stamps
<1>2. InTurn
  BY DEF EventInv, Orderly
<1>3. ASSUME NEW s \in StoresTo(program, Op(i).addr)
      PROVE  s \in Known(i)' <=> s \in issued /\ (Happened(s) \/ InQueue(Op(i).core, s))
  <2>1. s \in Stores(program) /\ s \in Nat \ {0} /\ Op(s).addr = Op(i).addr /\ s # i
    BY <1>1 DEF StoresTo, Op
  <2>2. /\ Op(i)' = Op(i) /\ Together(s, i)' = Together(s, i)
        /\ StoresTo(program', Op(i)'.addr) = StoresTo(program, Op(i).addr)
    BY DEF Op, Together
  <2>3. s \in Known(i)' <=> /\ s \in issued'
                            /\ \/ Happened(s)' /\ Instant(s)' < Instant(i)'
                               \/ s < i /\ Together(s, i)
    BY <2>2 DEF Known
  <2>4. Instant(s) \in 0..Len(events)
    BY HappenedMeans
  <2>5. CASE s \in New
    <3>1. i < s /\ i \in Nat
      BY <1>1, <2>1, <2>5
    <3>2. Instant(i)' < Instant(s)' /\ Instant(s)' \in Nat
      BY <2>5, <3>1 DEF Stamps
    <3>3. s \notin Known(i)'
      BY <1>1, <2>1, <2>3, <3>1, <3>2
    <3>4. s \notin issued
      BY <1>1, <1>2, <2>1, <2>5, <3>1 DEF InTurn, Together
    <3> QED
      BY <3>3, <3>4
  <2>6. CASE s \notin New
    <3>1. Instant(s)' = Instant(s)
      BY <2>1, <2>6 DEF Stamps
    <3>2. Happened(s)' /\ Instant(s)' < Instant(i)' <=> Happened(s)
      BY <1>1, <2>4, <3>1 DEF Happened
    <3>3. s \in issued' <=> s \in issued
      BY <2>6
    <3>4. ASSUME s \in issued, ~ Happened(s)
          PROVE  s < i /\ Together(s, i) <=> InQueue(Op(i).core, s)
      <4>1. InQueue(Op(s).core, s)
        BY <2>1, <3>4, StoreHappened
      <4>2. ASSUME InQueue(Op(i).core, s) PROVE Together(s, i)
        <5>1. Op(i).core \in Cores
          BY <1>1, AccessTyped
        <5> QED
          BY <4>2, <5>1 DEF InQueue, RunInv, Queued, Together
      <4>3. ASSUME Together(s, i) PROVE s < i
        <5>1. ~ (i < s)
          BY <1>1, <1>2, <3>4, <4>3 DEF InTurn, Together
        <5> QED
          BY <1>1, <2>1, <5>1
      <4> QED
        BY <4>1, <4>2, <4>3 DEF Together
    <3> QED
      BY <2>3, <3>2, <3>3, <3>4
  <2> QED
    BY <2>5, <2>6
<1>4. \A s : s \in Known(i)' => s \in StoresTo(program, Op(i).addr)
  BY DEF Known, Op
<1> QED
  BY <1>3, <1>4

\* A place in the memory's order after a step.
LEMMA RankMeansNext ==
  ASSUME NEW a, Len(order'[a]) \in Nat, NEW t
  PROVE  /\ Rank(a, t)' \in 0..Len(order'[a])
         /\ Rank(a, t)' = 0 <=> \A k \in 1..Len(order'[a]) : order'[a][k] # t
         /\ Rank(a, t)' # 0 => order'[a][Rank(a, t)'] = t
<1>1. Rank(a, t)' = LET I == {k \in 1..Len(order'[a]) : order'[a][k] = t}
                    IN  IF I # {} THEN Min(I) ELSE 0
  BY DEF Rank, SelectInSeq
<1> QED
  BY <1>1, PlaceMeans

\* The store that memory took last has the last place.
LEMMA LastRank ==
  ASSUME RunInv', NEW a \in Addrs, order'[a] \in Seq(Nat), Len(order'[a]) # 0,
         NEW h, h = order'[a][Len(order'[a])]
  PROVE  Rank(a, h)' = Len(order'[a])
<1>1. Len(order'[a]) \in Nat /\ Len(order'[a]) \in 1..Len(order'[a])
  OBVIOUS
<1>2. /\ Rank(a, h)' \in 0..Len(order'[a])
      /\ Rank(a, h)' = 0 <=> \A k \in 1..Len(order'[a]) : order'[a][k] # h
      /\ Rank(a, h)' # 0 => order'[a][Rank(a, h)'] = h
  BY <1>1, RankMeansNext
<1>3. Rank(a, h)' \in 1..Len(order'[a]) /\ order'[a][Rank(a, h)'] = h
  BY <1>1, <1>2
<1> QED
  BY <1>1, <1>3 DEF RunInv, Taken

\* A load whose core has no store to the address waiting reads memory's newest.
LEMMA ReadsMemory ==
  ASSUME RunInv, EventInv, RunInv', Correct, program' = program, Grows,
         NEW New, Stamps(New),
         NEW i \in Loads(program), i \notin issued, i \in New,
         \A j \in New : j = i \/ (i < j /\ Together(j, i)),
         issued' = issued \cup New,
         \A j \in DOMAIN program : j < i /\ Together(j, i) => j \in issued,
         NEW a, a = Op(i).addr,
         \A s : InQueue(Op(i).core, s) => Op(s).addr # a,
         source'[i] = Newest(a),
         \A h : Op(i).rmw # None /\ h = i + 1 =>
           h \in New /\ Len(order'[a]) = Len(order[a]) + 1 /\ order'[a][Len(order'[a])] = h
  PROVE  ReadsNewest(i)'
<1>1. /\ i \in Mem(program) /\ a \in Addrs /\ hw # "weak" /\ Op(i)' = Op(i)
      /\ Mem(program) \subseteq Nat \ {0} /\ Stores(program) \subseteq Mem(program)
      /\ Len(events) \in Nat /\ Len(order[a]) \in Nat /\ Len(order'[a]) \in Nat
      /\ order[a] \in Seq(Nat) /\ order'[a] \in Seq(Nat)
  BY ShapeHolds, AccessTyped DEF RunInv, Types, Shape, Correct, Op
<1>2. PICK w : w = Newest(a)
  OBVIOUS
<1>3. /\ w = 0 \/ (w \in StoresTo(program, a) \cap issued /\ Happened(w) /\ w # 0)
      /\ w = 0 => Len(order[a]) = 0
      /\ w # 0 => Rank(a, w) = Len(order[a])
      /\ \A s \in StoresTo(program, a) : Happened(s) =>
           s = w \/ (w # 0 /\ Instant(s) < Instant(w))
  BY <1>1, <1>2, NewestLast
<1>4. \A s : s \in Known(i)' <=> s \in StoresTo(program, a) /\ s \in issued /\ Happened(s)
  BY <1>1, KnownNew DEF StoresTo, Op
<1>5. \A s \in Stores(program) : Happened(s) => Instant(s)' = Instant(s) /\ Happened(s)'
  BY <1>1 DEF Stamps, Happened
<1>6. StoresTo(program, a) \subseteq Stores(program)
  BY DEF StoresTo
<1>7. w # 0 => w \in Known(i)'
  BY <1>3, <1>4
<1>8. ASSUME NEW s \in Known(i)', s # w PROVE w # 0 /\ Ahead(s, w)'
  <2>1. w # 0 /\ Instant(s) < Instant(w) /\ s \in Stores(program) /\ w \in Stores(program)
        /\ Happened(s) /\ Happened(w)
    BY <1>3, <1>4, <1>6, <1>8
  <2> QED
    BY <1>5, <2>1 DEF Ahead
<1>9. ASSUME Op(i).rmw # None, NEW h, h = i + 1
      PROVE  Happened(h)' /\ (w # 0 => Happened(w)') /\ Rank(a, h)' = Rank(a, w)' + 1
  <2>1. h \in New /\ Len(order'[a]) = Len(order[a]) + 1 /\ order'[a][Len(order'[a])] = h
    BY <1>9
  <2>2. Happened(h)'
    BY <1>1, <2>1 DEF Stamps, Happened
  <2>3. w # 0 => Happened(w)'
    BY <1>3, <1>5, <1>6
  <2>4. Rank(a, w)' = Len(order[a])
    <3>1. /\ Rank(a, w) # 0 => Rank(a, w)' = Rank(a, w)
          /\ Rank(a, 0)' = 0
      BY <1>1, RankStays
    <3>2. w # 0 => Rank(a, w) # 0
      <4>1. w # 0 => InMemory(a, w)
        BY <1>3, <1>6, StoreHappened DEF StoresTo, Op
      <4> QED
        BY <1>1, <4>1, RankMeans
    <3> QED
      BY <1>3, <3>1, <3>2
  <2>5. Rank(a, h)' = Len(order'[a])
    <3>1. Len(order'[a]) # 0
      BY <1>1, <2>1
    <3> QED
      BY <1>1, <2>1, <3>1, LastRank
  <2> QED
    BY <1>1, <2>1, <2>2, <2>3, <2>4, <2>5
<1> QED
  BY <1>1, <1>2, <1>7, <1>8, <1>9 DEF ReadsNewest

\* A load that finds a store of its core waiting reads the youngest.
LEMMA ReadsQueue ==
  ASSUME RunInv, EventInv, Correct, program' = program,
         NEW i \in Loads(program), i \notin issued, Stamps({i}),
         issued' = issued \cup {i}, Op(i).rmw = None,
         \A j \in DOMAIN program : j < i /\ Together(j, i) => j \in issued,
         Waiting(Op(i).core, Op(i).addr) # 0,
         source'[i] = Waiting(Op(i).core, Op(i).addr)
  PROVE  ReadsNewest(i)'
<1>1. PICK c, a : c = Op(i).core /\ a = Op(i).addr
  OBVIOUS
<1>2. /\ i \in Mem(program) /\ a \in Addrs /\ c \in Cores /\ hw # "weak" /\ Op(i)' = Op(i)
      /\ Mem(program) \subseteq Nat \ {0} /\ Stores(program) \subseteq Mem(program)
      /\ i \notin Stores(program) /\ a # None
  BY <1>1, ShapeHolds, AccessTyped, ProgramsAssumption DEF RunInv, Types, Shape, Correct, Op
<1>3. PICK w : w = Waiting(c, a)
  OBVIOUS
<1>4. /\ w # 0 /\ InQueue(c, w) /\ Op(w).addr = a
      /\ \A s : InQueue(c, s) /\ Op(s).addr = a => s = w \/ s < w
  BY <1>1, <1>2, <1>3, WaitingYoungest
<1>5. \A s : InQueue(c, s) => s \in Stores(program) \cap issued /\ Op(s).core = c /\ ~ Happened(s)
  <2> SUFFICES ASSUME NEW s, InQueue(c, s)
               PROVE  s \in Stores(program) \cap issued /\ Op(s).core = c /\ ~ Happened(s)
    OBVIOUS
  <2>1. s \in Stores(program) \cap issued /\ Op(s).core = c
    BY <1>2 DEF InQueue, RunInv, Queued
  <2> QED
    BY <2>1, StoreHappened
<1>6. \A s : s \in Known(i)' <=>
               s \in StoresTo(program, a) /\ s \in issued /\ (Happened(s) \/ InQueue(c, s))
  <2>1. PICK New : New = {i}
    OBVIOUS
  <2>2. Stamps(New) /\ i \in New /\ issued' = issued \cup New
        /\ \A j \in New : j = i \/ (i < j /\ Together(j, i))
    BY <2>1
  <2> QED
    BY <1>1, <1>2, <2>2, KnownNew
<1>7. w \in Known(i)'
  <2>1. w \in StoresTo(program, a)
    BY <1>2, <1>4, <1>5 DEF StoresTo, Op
  <2> QED
    BY <1>4, <1>5, <1>6, <2>1
<1>8. ASSUME NEW s \in Known(i)', s # w PROVE Ahead(s, w)'
  <2>1. /\ s \in StoresTo(program, a) /\ s \in issued /\ (Happened(s) \/ InQueue(c, s))
        /\ s \in Stores(program) /\ Op(s).addr = a /\ s \in Nat \ {0}
        /\ w \in Stores(program) /\ w \in Nat \ {0} /\ ~ Happened(w)
    BY <1>2, <1>4, <1>5, <1>6, <1>8 DEF StoresTo, Op
  <2>2. s # i /\ w # i
    BY <1>2, <2>1
  <2>3. Instant(s)' = Instant(s) /\ Instant(w)' = Instant(w)
    BY <2>1, <2>2 DEF Stamps
  <2>4. Happened(s) \/ s < w
    BY <1>4, <1>8, <2>1
  <2> QED
    BY <2>1, <2>3, <2>4 DEF Ahead, Happened
<1>9. source'[i] = w /\ Op(i).rmw = None
  BY <1>1, <1>3
<1> QED
  BY <1>2, <1>4, <1>7, <1>8, <1>9 DEF ReadsNewest

(***************************************************************************)
(* What the events tell of the lines.                                      *)
(***************************************************************************)
LEMMA LastToldNext ==
  ASSUME NEW n \in Nat, NEW e, NEW b, NEW k \in 1..n,
         events'[k].core = e, events'[k].addr = b
  PROVE  \E m : Told(n, e, b, m)'
<1> DEFINE C == {m \in 1..n : events'[m].core = e /\ events'[m].addr = b}
           f == [m \in C |-> n - m]
<1>1. \A m \in C : f[m] \in Nat /\ m \in 1..n /\ f[m] = n - m
  OBVIOUS
<1>2. C # {}
  OBVIOUS
<1>3. PICK m \in C : \A h \in C : f[m] <= f[h]
  <2> HIDE DEF C, f
  <2> QED
    BY <1>1, <1>2, Lowest
<1>4. ASSUME NEW h \in C PROVE ~ (h > m)
  <2> HIDE DEF C, f
  <2>1. n - m <= n - h /\ m \in Int /\ h \in Int
    BY <1>1, <1>3
  <2> QED
    BY <2>1
<1>5. m \in 1..n /\ events'[m].core = e /\ events'[m].addr = b
      /\ \A h \in 1..n : h > m => ~ (events'[h].core = e /\ events'[h].addr = b)
  BY <1>4
<1>6. Told(n, e, b, m)'
  BY <1>5 DEF Told
<1> QED
  BY <1>6

\* The event that last told of a line is one.
LEMMA ToldOnce ==
  ASSUME NEW n \in Nat, NEW e, NEW b, NEW m, NEW k, Told(n, e, b, m), Told(n, e, b, k)
  PROVE  m = k
BY DEF Told

\* The events after an addition, one by one, after the N there were.
Added(i, q, p, D, to, fin, a, N) ==
  /\ p \in Nat /\ N \in Nat /\ Len(events') = N + p + q
  /\ \A k \in 1..N : k \in 1..Len(events') /\ events'[k] = events[k]
  /\ \A k \in 1..Len(events') :
       \/ k \in 1..N
       \/ /\ k \in (N + 1)..(N + p)
          /\ snoops /\ events'[k].core \in D /\ events'[k].addr = a /\ events'[k].state = to
       \/ k = N + p + 1 /\ events'[k] = Access(i, fin)
       \/ q = 2 /\ k = N + p + 2 /\ events'[k] = Access(i + 1, fin)

\* An addition appends such events.
LEMMA AddsNamed ==
  ASSUME RunInv, NEW i \in Mem(program), NEW q \in 1..2, NEW p, NEW D, NEW to, NEW fin,
         Adds(i, q, p, D, to, fin), NEW a, a = Op(i).addr, NEW N, N = Len(events)
  PROVE  Added(i, q, p, D, to, fin, a, N)
<1>1. /\ p \in Nat /\ Len(events) \in Nat /\ Len(events') = Len(events) + p + q
      /\ \A k \in 1..Len(events) : k \in 1..Len(events') /\ events'[k] = events[k]
      /\ \A k \in 1..Len(events') :
              \/ k \in 1..Len(events)
              \/ /\ k \in (Len(events) + 1)..(Len(events) + p)
                 /\ snoops /\ events'[k].id = 0 /\ events'[k].op = "load"
                 /\ events'[k].core \in D /\ events'[k].addr = Op(i).addr /\ events'[k].state = to
              \/ k = Len(events) + p + 1 /\ events'[k] = Access(i, fin)
              \/ q = 2 /\ k = Len(events) + p + 2 /\ events'[k] = Access(i + 1, fin)
  BY AddsMeans
<1> QED
  BY <1>1 DEF Added

\* What was told last after a step: before it, by a snoop, or by an access.
LEMMA TellsNext ==
  ASSUME RunInv, NEW i \in Mem(program), NEW q \in 1..2, NEW p, NEW D, NEW to, NEW fin,
         Adds(i, q, p, D, to, fin),
         NEW c, c = Op(i).core, NEW a, a = Op(i).addr,
         q = 2 => Op(i + 1).core = c /\ Op(i + 1).addr = a,
         NEW n \in 1..Len(events'), NEW e, NEW b, NEW m, Told(n, e, b, m)'
  PROVE  \/ n \in 1..Len(events) /\ Told(n, e, b, m) /\ events'[m] = events[m]
         \/ /\ n > Len(events) /\ Told(Len(events), e, b, m) /\ events'[m] = events[m]
            /\ n > Len(events) + p => ~ (b = a /\ (e = c \/ (snoops /\ e \in D)))
         \/ n > Len(events) /\ snoops /\ e \in D /\ b = a /\ events'[m].state = to
         \/ n > Len(events) + p /\ e = c /\ b = a /\ events'[m].state = fin
<1>1. PICK N : N = Len(events)
  OBVIOUS
<1>2. /\ p \in Nat /\ N \in Nat /\ Len(events') = N + p + q
      /\ \A k \in 1..N : k \in 1..Len(events') /\ events'[k] = events[k]
      /\ \A k \in 1..Len(events') :
              \/ k \in 1..N
              \/ /\ k \in (N + 1)..(N + p)
                 /\ snoops /\ events'[k].core \in D /\ events'[k].addr = a /\ events'[k].state = to
              \/ k = N + p + 1 /\ events'[k] = Access(i, fin)
              \/ q = 2 /\ k = N + p + 2 /\ events'[k] = Access(i + 1, fin)
  <2>1. Added(i, q, p, D, to, fin, a, N)
    BY <1>1, AddsNamed
  <2> QED
    BY <2>1 DEF Added
<1>3. /\ m \in 1..n /\ events'[m].core = e /\ events'[m].addr = b
      /\ \A k \in 1..n : k > m => ~ (events'[k].core = e /\ events'[k].addr = b)
  BY DEF Told
<1>4. /\ Access(i, fin).core = c /\ Access(i, fin).addr = a /\ Access(i, fin).state = fin
      /\ q = 2 => /\ Access(i + 1, fin).core = c /\ Access(i + 1, fin).addr = a
                  /\ Access(i + 1, fin).state = fin
  BY DEF Access
<1>5. m \in 1..Len(events') /\ n \in Nat /\ m \in Nat
  BY <1>2, <1>3
<1>6. CASE m \in 1..N
  <2>1. events'[m] = events[m]
    BY <1>2, <1>6
  <2>2. CASE n \in 1..N
    <3>1. \A k \in 1..n : k \in 1..N
      BY <1>2, <2>2
    <3>2. Told(n, e, b, m)
      BY <1>2, <1>3, <2>1, <3>1 DEF Told
    <3> QED
      BY <1>1, <2>1, <2>2, <3>2
  <2>3. CASE n > N
    <3>1. \A k \in 1..N : k \in 1..n
      BY <1>2, <1>5, <2>3
    <3>2. Told(N, e, b, m)
      BY <1>2, <1>3, <1>6, <2>1, <3>1 DEF Told
    <3>3. ASSUME n > N + p PROVE ~ (b = a /\ (e = c \/ (snoops /\ e \in D)))
      <4>1. ~ (b = a /\ e = c)
        <5>1. N + p + 1 \in 1..n /\ N + p + 1 > m
          BY <1>2, <1>5, <1>6, <3>3
        <5>2. events'[N + p + 1] = Access(i, fin)
          BY <1>1 DEF Adds
        <5> QED
          BY <1>1, <1>3, <1>4, <5>1, <5>2 DEF Adds
      <4>2. ~ (b = a /\ snoops /\ e \in D)
        <5> SUFFICES ASSUME b = a, snoops, e \in D PROVE FALSE
          OBVIOUS
        <5>1. PICK k \in 1..p : events'[N + k].core = e
          BY <1>1 DEF Adds
        <5>2. events'[N + k].addr = a
          BY <1>1 DEF Adds
        <5>3. N + k \in 1..n /\ N + k > m
          BY <1>2, <1>5, <1>6, <3>3
        <5> QED
          BY <1>3, <5>1, <5>2, <5>3
      <4> QED
        BY <4>1, <4>2
    <3> QED
      BY <1>1, <2>1, <2>3, <3>2, <3>3
  <2> QED
    BY <1>2, <1>5, <2>2, <2>3
<1>7. CASE m \notin 1..N
  <2>1. CASE /\ m \in (N + 1)..(N + p)
             /\ snoops /\ events'[m].core \in D /\ events'[m].addr = a /\ events'[m].state = to
    <3>1. n > N
      BY <1>2, <1>3, <1>5, <2>1
    <3> QED
      BY <1>1, <1>3, <2>1, <3>1
  <2>2. CASE m = N + p + 1 /\ events'[m] = Access(i, fin)
    <3>1. n > N + p
      BY <1>2, <1>3, <1>5, <2>2
    <3> QED
      BY <1>1, <1>3, <1>4, <2>2, <3>1
  <2>3. CASE q = 2 /\ m = N + p + 2 /\ events'[m] = Access(i + 1, fin)
    <3>1. n > N + p
      BY <1>2, <1>3, <1>5, <2>3
    <3> QED
      BY <1>1, <1>3, <1>4, <2>3, <3>1
  <2> QED
    BY <1>2, <1>5, <1>7, <2>1, <2>2, <2>3
<1> QED
  BY <1>6, <1>7

\* What a step does to the lines: one core's own and those of the cores it snoops.
Sets(c, a, D, to, fin) ==
  /\ D \subseteq Cores \ {c} /\ to \in {"S", "I"}
  /\ \A d \in D : line[<<d, a>>] # "I"
  /\ \A d \in Cores, b \in Addrs :
       line'[<<d, b>>] = IF b = a /\ d = c THEN fin
                         ELSE IF b = a /\ d \in D THEN to ELSE line[<<d, b>>]

\* After an addition the events still tell the lines as they are, but for what
\* was not snooped.
LEMMA LinesNext ==
  ASSUME RunInv, EventInv, RunInv', program' = program, hw' = hw, snoops' = snoops,
         NEW i \in Mem(program), NEW q \in 1..2, NEW p, NEW D, NEW to, NEW fin,
         Adds(i, q, p, D, to, fin),
         NEW c, c = Op(i).core, NEW a, a = Op(i).addr,
         q = 2 => Op(i + 1).core = c /\ Op(i + 1).addr = a,
         Sets(c, a, D, to, fin),
         breach' => breach \/ (fin = "M" /\ \E d \in (Cores \ {c}) \ D : line[<<d, a>>] # "I"),
         Correct => \A d, e \in Cores : \A b \in Addrs :
           d # e /\ line'[<<d, b>>] \in Exclusive => line'[<<e, b>>] = "I"
  PROVE  Lines'
<1>1. PICK N : N = Len(events)
  OBVIOUS
<1>2. /\ p \in Nat /\ N \in Nat /\ Len(events') = N + p + q
      /\ \A k \in 1..N : k \in 1..Len(events') /\ events'[k] = events[k]
  <2>1. Added(i, q, p, D, to, fin, a, N)
    BY <1>1, AddsNamed
  <2> QED
    BY <2>1 DEF Added
<1>3. /\ c \in Cores /\ a \in Addrs /\ Lines
      /\ \A d \in Cores, b \in Addrs : line'[<<d, b>>] \in {"M", "E", "S", "I"}
      /\ \A d \in Cores, b \in Addrs : line[<<d, b>>] \in {"M", "E", "S", "I"}
  BY AccessTyped DEF EventInv, RunInv, Types
<1>4. PICK M : M = N + p + q /\ M \in Nat /\ M > N /\ M > N + p /\ M \in 1..Len(events')
  BY <1>2
<1>5. ASSUME NEW e \in Cores, NEW b \in Addrs, line[<<e, b>>] # "I"
      PROVE  \E m \in 1..N : Told(N, e, b, m) /\ events[m].state \in Valid
  BY <1>1, <1>3, <1>5 DEF Lines
<1>6. ASSUME NEW e \in Cores, NEW b \in Addrs, line[<<e, b>>] # "I"
      PROVE  \E m : Told(M, e, b, m)'
  <2>1. PICK k \in 1..N : Told(N, e, b, k)
    BY <1>5, <1>6
  <2>2. k \in 1..M /\ events'[k].core = e /\ events'[k].addr = b
    BY <1>2, <1>4, <2>1 DEF Told
  <2> QED
    BY <1>4, <2>2, LastToldNext
<1>7. \E m : Told(M, c, a, m)'
  <2>1. PICK k : k = N + p + 1
    OBVIOUS
  <2>2. k \in 1..M /\ events'[k].core = c /\ events'[k].addr = a
    BY <1>1, <1>2, <1>4, <2>1 DEF Adds, Access
  <2> QED
    BY <1>4, <2>2, LastToldNext
<1>8. ASSUME NEW e, NEW b, NEW m, Told(M, e, b, m)'
      PROVE  \/ /\ Told(N, e, b, m) /\ events'[m] = events[m]
                /\ ~ (b = a /\ (e = c \/ (snoops /\ e \in D)))
             \/ e \in D /\ b = a /\ events'[m].state = to
             \/ e = c /\ b = a /\ events'[m].state = fin
  <2>1. \/ M \in 1..Len(events) /\ Told(M, e, b, m) /\ events'[m] = events[m]
        \/ /\ M > Len(events) /\ Told(Len(events), e, b, m) /\ events'[m] = events[m]
           /\ M > Len(events) + p => ~ (b = a /\ (e = c \/ (snoops /\ e \in D)))
        \/ M > Len(events) /\ snoops /\ e \in D /\ b = a /\ events'[m].state = to
        \/ M > Len(events) + p /\ e = c /\ b = a /\ events'[m].state = fin
    BY <1>4, <1>8, TellsNext
  <2> QED
    BY <1>1, <1>2, <1>4, <2>1
<1>9. ASSUME NEW e \in Cores, NEW b \in Addrs, line'[<<e, b>>] # "I"
      PROVE  \E m \in 1..Len(events') : Told(M, e, b, m)' /\ events'[m].state \in Valid
  <2>1. line[<<e, b>>] # "I" \/ (e = c /\ b = a)
    BY <1>9 DEF Sets
  <2>2. PICK m : Told(M, e, b, m)'
    BY <1>6, <1>7, <2>1
  <2>3. m \in 1..Len(events')
    BY <1>2, <1>4, <2>2 DEF Told
  <2>4. CASE /\ Told(N, e, b, m) /\ events'[m] = events[m]
             /\ ~ (b = a /\ (e = c \/ (snoops /\ e \in D)))
    <3>1. PICK h \in 1..N : Told(N, e, b, h) /\ events[h].state \in Valid
      BY <1>5, <2>1, <2>4
    <3>2. m = h
      BY <1>2, <2>4, <3>1, ToldOnce
    <3> QED
      BY <2>2, <2>3, <2>4, <3>1, <3>2
  <2>5. CASE e \in D /\ b = a /\ events'[m].state = to
    <3>1. line'[<<e, b>>] = to
      BY <2>5 DEF Sets
    <3> QED
      BY <1>9, <2>2, <2>3, <2>5, <3>1 DEF Sets, Valid
  <2>6. CASE e = c /\ b = a /\ events'[m].state = fin
    <3>1. line'[<<e, b>>] = fin
      BY <1>3, <2>6 DEF Sets
    <3> QED
      BY <1>3, <1>9, <2>2, <2>3, <2>6, <3>1 DEF Valid
  <2> QED
    BY <1>8, <2>2, <2>4, <2>5, <2>6
<1>10. ASSUME breach PROVE Exposed'
  <2>1. PICK n \in 1..N : \E d \in Cores, m \in 1..n :
             /\ events[n].state = "M" /\ events[n].core # d
             /\ Told(n, d, events[n].addr, m) /\ events[m].state \in Valid
    BY <1>1, <1>3, <1>10 DEF Lines, Exposed
  <2>1a. PICK d \in Cores, m \in 1..n :
             /\ events[n].state = "M" /\ events[n].core # d
             /\ Told(n, d, events[n].addr, m) /\ events[m].state \in Valid
    BY <2>1
  <2>2. \A k \in 1..n : k \in 1..N /\ events'[k] = events[k]
    BY <1>2
  <2>3. n \in 1..n /\ n \in 1..Len(events')
    BY <1>2
  <2>4. Told(n, d, events[n].addr, m)'
    BY <2>1a, <2>2, <2>3 DEF Told
  <2> QED
    BY <2>1a, <2>2, <2>3, <2>4 DEF Exposed
<1>11. ASSUME NEW d \in (Cores \ {c}) \ D, line[<<d, a>>] # "I", fin = "M" PROVE Exposed'
  <2>1. PICK m : Told(M, d, a, m)'
    BY <1>3, <1>6, <1>11
  <2>2. Told(N, d, a, m) /\ events'[m] = events[m]
    BY <1>8, <1>11, <2>1
  <2>3. PICK h \in 1..N : Told(N, d, a, h) /\ events[h].state \in Valid
    BY <1>3, <1>5, <1>11
  <2>4. m = h
    BY <1>2, <2>2, <2>3, ToldOnce
  <2>5. events'[M].state = "M" /\ events'[M].core = c /\ events'[M].addr = a
    <3>1. CASE q = 1
      BY <1>1, <1>2, <1>4, <1>11, <3>1 DEF Adds, Access
    <3>2. CASE q = 2
      BY <1>1, <1>2, <1>4, <1>11, <3>2 DEF Adds, Access
    <3> QED
      BY <3>1, <3>2
  <2>6. m \in 1..M
    BY <1>2, <1>4, <2>3, <2>4
  <2> QED
    BY <1>4, <1>11, <2>1, <2>2, <2>3, <2>4, <2>5, <2>6 DEF Exposed
<1>12. Correct' <=> Correct
  BY DEF Correct
<1>13. Len(events') = M
  BY <1>2, <1>4
<1> QED
  BY <1>9, <1>10, <1>11, <1>12, <1>13 DEF Lines

\* After an addition correct hardware still tells of no two owners.
LEMMA ApartNext ==
  ASSUME RunInv, EventInv, RunInv', program' = program, hw' = hw, snoops' = snoops,
         NEW i \in Mem(program), NEW q \in 1..2, NEW p, NEW D, NEW to, NEW fin,
         Adds(i, q, p, D, to, fin),
         NEW c, c = Op(i).core, NEW a, a = Op(i).addr,
         q = 2 => Op(i + 1).core = c /\ Op(i + 1).addr = a,
         Sets(c, a, D, to, fin),
         Correct => \A d, e \in Cores : \A b \in Addrs :
           d # e /\ line'[<<d, b>>] \in Exclusive => line'[<<e, b>>] = "I"
  PROVE  Apart'
<1>0. (Correct' <=> Correct) /\ (snoops' <=> snoops)
  BY DEF Correct
<1>1. PICK N : N = Len(events)
  OBVIOUS
<1>2. /\ p \in Nat /\ N \in Nat /\ Len(events') = N + p + q
  <2>1. Added(i, q, p, D, to, fin, a, N)
    BY <1>1, AddsNamed
  <2> QED
    BY <2>1 DEF Added
<1>3. /\ c \in Cores /\ a \in Addrs /\ Lines /\ Apart
      /\ \A d \in Cores, b \in Addrs : line[<<d, b>>] \in {"M", "E", "S", "I"}
      /\ \A d \in Cores, b \in Addrs : line'[<<d, b>>] \in {"M", "E", "S", "I"}
  BY AccessTyped DEF EventInv, RunInv, Types
<1> SUFFICES ASSUME Correct, snoops PROVE Apart'
  BY <1>0 DEF Apart
<1>4. ASSUME NEW n \in 1..Len(events'), NEW e, NEW b, NEW m, Told(n, e, b, m)'
      PROVE  \/ n \in 1..N /\ Told(n, e, b, m) /\ events'[m] = events[m]
             \/ /\ n > N /\ Told(N, e, b, m) /\ events'[m] = events[m]
                /\ n > N + p => ~ (b = a /\ (e = c \/ e \in D))
             \/ n > N /\ e \in D /\ b = a /\ events'[m].state = to
             \/ n > N + p /\ e = c /\ b = a /\ events'[m].state = fin
  <2>1. \/ n \in 1..Len(events) /\ Told(n, e, b, m) /\ events'[m] = events[m]
        \/ /\ n > Len(events) /\ Told(Len(events), e, b, m) /\ events'[m] = events[m]
           /\ n > Len(events) + p => ~ (b = a /\ (e = c \/ (snoops /\ e \in D)))
        \/ n > Len(events) /\ snoops /\ e \in D /\ b = a /\ events'[m].state = to
        \/ n > Len(events) + p /\ e = c /\ b = a /\ events'[m].state = fin
    BY <1>4, TellsNext
  <2> QED
    BY <1>1, <2>1
<1>5. ASSUME NEW e \in Cores, NEW b \in Addrs, NEW m, Told(N, e, b, m)
      PROVE  events[m].state = line[<<e, b>>]
  <2>1. m \in 1..Len(events)
    BY <1>1, <1>5 DEF Told
  <2> QED
    BY <1>1, <1>3, <1>5, <2>1 DEF Apart
<1>6. \A d \in Cores, b \in Addrs :
       line'[<<d, b>>] = IF b = a /\ d = c THEN fin
                         ELSE IF b = a /\ d \in D THEN to ELSE line[<<d, b>>]
  BY DEF Sets
<1>7. D \subseteq Cores \ {c} /\ to \in {"S", "I"} /\ \A d \in D : line[<<d, a>>] # "I"
  BY DEF Sets
\* After the snoops the last told state of a line is its state ...
<1>8. ASSUME NEW n \in 1..Len(events'), n > N + p, NEW e \in Cores, NEW b \in Addrs, NEW m,
             Told(n, e, b, m)'
      PROVE  events'[m].state = line'[<<e, b>>]
  <2>1. ~ (n \in 1..N)
    BY <1>2, <1>8
  <2> QED
    BY <1>3, <1>4, <1>5, <1>6, <1>7, <1>8, <2>1
\* ... and between them it is the old one or that of a line given up.
<1>9. ASSUME NEW n \in 1..Len(events'), NEW e \in Cores, NEW f \in Cores, NEW b \in Addrs,
             NEW m \in 1..n, NEW k \in 1..n,
             e # f, Told(n, e, b, m)', Told(n, f, b, k)', events'[m].state \in Exclusive
      PROVE  events'[k].state \notin Valid
  <2>1. CASE n \in 1..N
    <3>1. /\ Told(n, e, b, m) /\ events'[m] = events[m]
          /\ Told(n, f, b, k) /\ events'[k] = events[k]
      <4>1. ~ (n > N) /\ ~ (n > N + p)
        BY <1>2, <2>1
      <4> QED
        BY <1>4, <1>9, <4>1
    <3> QED
      BY <1>1, <1>3, <1>9, <2>1, <3>1 DEF Apart
  <2>2. CASE n > N /\ ~ (n > N + p)
    <3>0. ~ (n \in 1..N)
      BY <1>2, <2>2
    <3>1. Told(N, e, b, m) /\ events'[m] = events[m]
      <4>1. to \notin Exclusive
        BY <1>7 DEF Exclusive
      <4> QED
        BY <1>4, <1>9, <2>2, <3>0, <4>1
    <3>2. line[<<e, b>>] \in Exclusive
      BY <1>5, <1>9, <3>1
    <3>3. line[<<f, b>>] = "I"
      BY <1>3, <1>9, <3>2 DEF Lines
    <3>4. Told(N, f, b, k) /\ events'[k] = events[k]
      BY <1>4, <1>7, <1>9, <2>2, <3>0, <3>3
    <3> QED
      BY <1>5, <3>3, <3>4 DEF Valid
  <2>3. CASE n > N + p
    <3>1. line'[<<e, b>>] \in Exclusive /\ events'[k].state = line'[<<f, b>>]
      BY <1>8, <1>9, <2>3
    <3>2. line'[<<f, b>>] = "I"
      BY <1>9, <3>1
    <3> QED
      BY <3>1, <3>2 DEF Valid
  <2> QED
    BY <1>2, <2>1, <2>2, <2>3
<1>10. Len(events') \in 1..Len(events') /\ Len(events') > N + p
  BY <1>2
<1>11. PICK M : M = Len(events')
  OBVIOUS
<1>12. \A e \in Cores, b \in Addrs : \A m \in 1..M : Told(M, e, b, m)' => events'[m].state = line'[<<e, b>>]
  BY <1>8, <1>10, <1>11
<1>13. \A n \in 1..M : \A e, f \in Cores : \A b \in Addrs : \A m, k \in 1..n :
        e # f /\ Told(n, e, b, m)' /\ Told(n, f, b, k)' /\ events'[m].state \in Exclusive
          => events'[k].state \notin Valid
  BY <1>9, <1>11
<1> QED
  BY <1>11, <1>12, <1>13 DEF Apart

(***************************************************************************)
(* The steps.                                                              *)
(***************************************************************************)
LEMMA EventsStep ==
  ASSUME RunInv, EventInv, RunInv', program' = program, hw' = hw, issued \subseteq issued',
         NEW New, Stamps(New), FromFront(New), New \subseteq issued', Grows,
         Named', Orderly', Lines', Apart', Correct => Copies',
         \A l \in Loads(program) \cap issued : source'[l] = source[l],
         Correct => \A l \in Loads(program) \cap issued' : l \notin issued => ReadsNewest(l)'
  PROVE  EventInv'
<1>1. /\ Loads(program') = Loads(program) /\ (Correct' <=> Correct)
  BY DEF Correct
<1>2. ASSUME NEW s \in Stores(program), Happened(s)' PROVE s \in issued'
  <2>1. s # 0
    BY ShapeHolds DEF RunInv, Types, Shape
  <2>2. s \in New \/ Happened(s)
    BY <1>2, <2>1 DEF Stamps, Happened
  <2> QED
    BY <2>2, StoreHappened
<1>3. ASSUME Correct, NEW l \in Loads(program) \cap issued' PROVE ReadsNewest(l)'
  <2>1. CASE l \in issued
    BY <1>2, <1>3, <2>1, ReadsNewestStays
  <2> QED
    BY <1>3, <2>1
<1>4. Upto'
  BY <1>1, <1>3 DEF Upto
<1> QED
  BY <1>4 DEF EventInv

\* What was not issued has not happened.
LEMMA NotYet ==
  ASSUME RunInv, EventInv, NEW i \in Mem(program), i \notin issued
  PROVE  ~ Happened(i)
<1>1. i # 0 /\ Named
  BY ShapeHolds DEF RunInv, Types, Shape, EventInv
<1>2. \A n \in 1..Len(events) : events[n].id # i
  BY <1>1 DEF Named
<1> QED
  BY <1>2, HappenedMeans

\* A store that is issued and has not happened waits, and so does none of an empty queue.
LEMMA WaitsOnly ==
  ASSUME RunInv, EventInv, NEW u \in Mem(program) \cap issued,
         ~ Happened(u)
  PROVE  u \in Stores(program) /\ InQueue(Op(u).core, u) /\ buffer[Op(u).core] # <<>>
         /\ hw = "tso" /\ Op(u).rmw = None
<1>1. Named /\ Orderly /\ Mem(program) = Loads(program) \cup Stores(program)
  BY ShapeHolds DEF RunInv, Types, Shape, EventInv
<1>2. u \in Stores(program)
  BY <1>1 DEF Named
<1>3. InQueue(Op(u).core, u)
  BY <1>2, StoreHappened
<1>4. buffer[Op(u).core] # <<>>
  BY <1>3 DEF InQueue
<1>5. Op(u).core \in Cores
  BY AccessTyped
<1>6. hw = "tso"
  BY <1>1, <1>4, <1>5 DEF Orderly
<1> QED
  BY <1>1, <1>2, <1>3, <1>4, <1>6 DEF Orderly, Correct

\* A load is issued when the accesses it must follow have happened.
LEMMA LoadFollows ==
  ASSUME RunInv, EventInv, hw # "weak", NEW i \in Loads(program), Op(i).rmw = None \/ hw # "tso",
         \A j \in DOMAIN program : j < i /\ Together(j, i) => j \in issued,
         NEW u \in Mem(program) \cap issued, u < i, Together(u, i), Strict(u, i)
  PROVE  Happened(u)
<1> SUFFICES ASSUME ~ Happened(u) PROVE FALSE
  OBVIOUS
<1>1. /\ u \in Stores(program) /\ hw = "tso" /\ Op(u).rmw = None
      /\ u \notin Loads(program) /\ i \notin Stores(program) /\ u \in Nat /\ i \in Nat
      /\ Fences(program) \subseteq DOMAIN program
  BY WaitsOnly, ShapeHolds, ProgramFacts DEF RunInv, Types, Shape
<1>2. PICK f \in Fences(program) : u < f /\ f < i /\ Together(f, u)
  BY <1>1 DEF Strict
<1>3. f \in issued /\ Together(u, f)
  BY <1>1, <1>2 DEF Together
<1> QED
  BY <1>1, <1>2, <1>3 DEF EventInv, Orderly, InTurn

\* A line is exclusive in one core only, however a step of correct hardware sets it.
LEMMA ExclusiveNext ==
  ASSUME RunInv, EventInv, Correct, NEW c \in Cores, NEW a \in Addrs, NEW D, NEW to, NEW fin,
         Sets(c, a, D, to, fin),
         \/ fin \notin Exclusive /\ \A d \in (Cores \ {c}) \ D : line[<<d, a>>] \notin Exclusive
         \/ \A d \in Cores \ {c} : line'[<<d, a>>] = "I"
         \/ D = {} /\ fin = line[<<c, a>>]
  PROVE  \A d, e \in Cores : \A b \in Addrs :
           d # e /\ line'[<<d, b>>] \in Exclusive => line'[<<e, b>>] = "I"
<1> SUFFICES ASSUME NEW d \in Cores, NEW e \in Cores, NEW b \in Addrs,
                    d # e, line'[<<d, b>>] \in Exclusive
             PROVE  line'[<<e, b>>] = "I"
  OBVIOUS
<1>1. line[<<d, b>>] \in Exclusive => line[<<e, b>>] = "I"
  BY DEF EventInv, Lines
<1>2. "I" \notin Exclusive /\ to \notin Exclusive
  BY DEF Exclusive, Sets
<1> QED
  BY <1>1, <1>2 DEF Sets

\* What a load does to the events and the lines.
LEMMA LoadShape ==
  ASSUME RunInv, EventInv, NEW i \in Loads(program), Load(i),
         NEW c, c = Op(i).core, NEW a, a = Op(i).addr
  PROVE  /\ \E p, D, to, fin :
              /\ Adds(i, 1, p, D, to, fin) /\ Sets(c, a, D, to, fin)
              /\ Correct => \A d, e \in Cores : \A b \in Addrs :
                   d # e /\ line'[<<d, b>>] \in Exclusive => line'[<<e, b>>] = "I"
         /\ Correct => \/ Waiting(c, a) # 0 /\ source'[i] = Waiting(c, a)
                       \/ Waiting(c, a) = 0 /\ source'[i] = Newest(a)
         /\ Correct => \A d \in Cores, b \in Addrs :
              line'[<<d, b>>] # "I" => copy'[<<d, b>>] = Newest(b)
<1>1. /\ i \in Mem(program) /\ c \in Cores /\ a \in Addrs /\ Lines /\ Upto /\ Types
      /\ line \in [Cores \X Addrs -> {"M", "E", "S", "I"}]
      /\ copy \in [Cores \X Addrs -> Nat] /\ source \in [Loads(program) -> Nat]
  BY ShapeHolds, AccessTyped DEF RunInv, Types, Shape, EventInv
<1>2. line[<<c, a>>] \in {"M", "E", "S", "I"}
  BY <1>1
<1>3. Correct => \A d \in Cores, b \in Addrs : line[<<d, b>>] # "I" => copy[<<d, b>>] = Newest(b)
  BY <1>1 DEF Upto, Copies
<1>4. ASSUME NEW fin, fin = line[<<c, a>>], events' = Append(events, Access(i, fin)),
             line' = line, copy' = copy
      PROVE  /\ \E p, D, to, f :
                  /\ Adds(i, 1, p, D, to, f) /\ Sets(c, a, D, to, f)
                  /\ Correct => \A d, e \in Cores : \A b \in Addrs :
                       d # e /\ line'[<<d, b>>] \in Exclusive => line'[<<e, b>>] = "I"
             /\ Correct => \A d \in Cores, b \in Addrs :
                  line'[<<d, b>>] # "I" => copy'[<<d, b>>] = Newest(b)
  <2>1. Adds(i, 1, 0, {}, "S", fin)
    BY <1>1, <1>2, <1>4, AddsAlone
  <2>2. Sets(c, a, {}, "S", fin)
    BY <1>4 DEF Sets
  <2>3. Correct => \A d, e \in Cores : \A b \in Addrs :
                       d # e /\ line'[<<d, b>>] \in Exclusive => line'[<<e, b>>] = "I"
    BY <1>1, <1>4 DEF Lines
  <2> QED
    BY <1>3, <1>4, <2>1, <2>2, <2>3
<1>5. CASE Forward(i)
  <2>1. /\ Waiting(c, a) # 0 /\ source' = [source EXCEPT ![i] = Waiting(c, a)]
        /\ events' = Append(events, Access(i, line[<<c, a>>])) /\ line' = line /\ copy' = copy
    BY <1>5 DEF Forward
  <2>2. source'[i] = Waiting(c, a)
    BY <1>1, <2>1
  <2> QED
    BY <1>4, <2>1, <2>2
<1>6. CASE Hit(i)
  <2>1. /\ Waiting(c, a) = 0 /\ line[<<c, a>>] # "I"
        /\ source' = [source EXCEPT ![i] = copy[<<c, a>>]]
        /\ events' = Append(events, Access(i, line[<<c, a>>])) /\ line' = line /\ copy' = copy
    BY <1>6 DEF Hit
  <2>2. Correct => source'[i] = Newest(a)
    BY <1>1, <1>3, <2>1
  <2> QED
    BY <1>4, <2>1, <2>2
<1>7. CASE Miss(i)
  <2>1. PICK D, fin : /\ D = {d \in Holders(c, a) : line[<<d, a>>] # "S"}
                      /\ fin = IF Holders(c, a) = {} THEN "E" ELSE "S"
    OBVIOUS
  <2>2. /\ Waiting(c, a) = 0
        /\ line' = [k \in DOMAIN line |-> IF k = <<c, a>> THEN fin
                      ELSE IF k[1] \in D /\ k[2] = a THEN "S" ELSE line[k]]
        /\ events' = events \o Snooped(D, Op(i).addr, "S") \o <<Access(i, fin)>>
    BY <1>7, <2>1 DEF Miss
  <2>3. PICK s \in {Newest(a)} \cup {copy[<<d, a>>] : d \in Holders(c, a)} :
           source' = [source EXCEPT ![i] = s] /\ copy' = [copy EXCEPT ![<<c, a>>] = s]
    BY <1>7, ZenonT(30) DEF Miss
  <2>4. /\ D \subseteq Cores \ {c} /\ \A d \in D : line[<<d, a>>] # "I"
        /\ \A d \in (Cores \ {c}) \ D : line[<<d, a>>] \in {"S", "I"}
        /\ D \in SUBSET Cores
    BY <2>1 DEF Holders
  <2>5. /\ fin \in {"E", "S"}
        /\ fin = "E" => \A d \in Cores \ {c} : line[<<d, a>>] = "I" /\ d \notin D
    BY <2>1 DEF Holders
  <2>6. \A d \in Cores, b \in Addrs :
          /\ line'[<<d, b>>] = IF b = a /\ d = c THEN fin
                               ELSE IF b = a /\ d \in D THEN "S" ELSE line[<<d, b>>]
          /\ copy'[<<d, b>>] = IF b = a /\ d = c THEN s ELSE copy[<<d, b>>]
    BY <1>1, <2>2, <2>3
  <2>7. Sets(c, a, D, "S", fin)
    BY <2>4, <2>6 DEF Sets
  <2>8. \E p : Adds(i, 1, p, D, "S", fin)
    <3>1. "S" \in {"M", "E", "S", "I"} /\ fin \in {"M", "E", "S", "I"}
      BY <2>5
    <3> QED
      BY <1>1, <2>2, <2>4, <3>1, AddsOne
  <2>9. Correct => \A d, e \in Cores : \A b \in Addrs :
           d # e /\ line'[<<d, b>>] \in Exclusive => line'[<<e, b>>] = "I"
    <3>1. \/ fin \notin Exclusive /\ \A d \in (Cores \ {c}) \ D : line[<<d, a>>] \notin Exclusive
          \/ \A d \in Cores \ {c} : line'[<<d, a>>] = "I"
      <4>1. CASE fin = "E"
        BY <1>1, <2>5, <2>6, <4>1
      <4>2. CASE fin = "S"
        BY <2>4, <4>2 DEF Exclusive
      <4> QED
        BY <2>5, <4>1, <4>2
    <3> QED
      BY <1>1, <2>7, <3>1, ExclusiveNext
  <2>10. Correct => s = Newest(a)
    BY <1>1, <1>3, <2>3 DEF Holders
  <2>11. Correct => \A d \in Cores, b \in Addrs :
              line'[<<d, b>>] # "I" => copy'[<<d, b>>] = Newest(b)
    BY <1>3, <2>4, <2>6, <2>10
  <2>12. source'[i] = s
    BY <1>1, <2>3
  <2> QED
    BY <2>2, <2>7, <2>8, <2>9, <2>10, <2>11, <2>12
<1> QED
  BY <1>5, <1>6, <1>7 DEF Load

\* Caches that hold the newest of what memory has, hold it.
LEMMA CopiesSame ==
  ASSUME order' = order,
         \A d \in Cores, b \in Addrs : line'[<<d, b>>] # "I" => copy'[<<d, b>>] = Newest(b)
  PROVE  Copies'
<1>1. \A b : Newest(b)' = Newest(b)
  BY DEF Newest
<1> QED
  BY <1>1 DEF Copies

\* A load keeps the invariant of the events.
LEMMA LoadEvents ==
  ASSUME RunInv, EventInv, RunInv', NEW i \in DOMAIN program, Load(i)
  PROVE  EventInv'
<1>1. PICK c, a : c = Op(i).core /\ a = Op(i).addr
  OBVIOUS
<1>2. /\ i \notin issued /\ Op(i).kind = "load"
      /\ hw # "weak" => \A j \in DOMAIN program : j < i /\ Together(j, i) => j \in issued
      /\ Correct => Op(i).rmw = None
      /\ issued' = issued \cup {i}
      /\ program' = program /\ hw' = hw /\ snoops' = snoops /\ buffer' = buffer /\ order' = order
      /\ breach' = breach
  BY DEF Load, Ready, Atomic, ProgramOrder, Op, Together
<1>3. /\ i \in Loads(program) /\ i \in Mem(program) /\ c \in Cores /\ a \in Addrs
      /\ i \notin Stores(program) /\ i \notin Fences(program)
  <2>1. i \in Loads(program) /\ i \in Mem(program) /\ i \notin Stores(program) /\ i \notin Fences(program)
    BY <1>2 DEF Loads, Mem, Stores, Fences, Op
  <2> QED
    BY <1>1, <2>1, AccessTyped
<1>4. /\ \E p, D, to, fin :
              /\ Adds(i, 1, p, D, to, fin) /\ Sets(c, a, D, to, fin)
              /\ Correct => \A d, e \in Cores : \A b \in Addrs :
                   d # e /\ line'[<<d, b>>] \in Exclusive => line'[<<e, b>>] = "I"
      /\ Correct => \/ Waiting(c, a) # 0 /\ source'[i] = Waiting(c, a)
                    \/ Waiting(c, a) = 0 /\ source'[i] = Newest(a)
      /\ Correct => \A d \in Cores, b \in Addrs :
              line'[<<d, b>>] # "I" => copy'[<<d, b>>] = Newest(b)
  BY <1>1, <1>3, LoadShape
<1>5. PICK p, D, to, fin :
              /\ Adds(i, 1, p, D, to, fin) /\ Sets(c, a, D, to, fin)
              /\ Correct => \A d, e \in Cores : \A b \in Addrs :
                   d # e /\ line'[<<d, b>>] \in Exclusive => line'[<<e, b>>] = "I"
  BY <1>4
<1>6. ~ Happened(i)
  BY <1>2, <1>3, NotYet
<1>7. PICK New : New = {i}
  OBVIOUS
<1>8. Stamps(New)
  BY <1>3, <1>5, <1>6, <1>7, StampsOne
<1>9. FromFront(New) /\ New \subseteq issued' /\ issued \subseteq issued'
  BY <1>2, <1>7 DEF FromFront
<1>10. PICK q \in 1..2 : q = 1
  OBVIOUS
<1>11. Adds(i, q, p, D, to, fin) /\ q # 2
  BY <1>5, <1>10
<1>12. Named'
  BY <1>2, <1>3, <1>6, <1>11, NamedNext
<1>13. Lines'
  BY <1>1, <1>2, <1>3, <1>5, <1>11, LinesNext
<1>14. Apart'
  BY <1>1, <1>2, <1>3, <1>5, <1>11, ApartNext
<1>15. Orderly'
  <2>1. issued' \ issued = {i} /\ Orderly
    BY <1>2 DEF EventInv
  <2>2. hw # "weak" => \A u \in issued' \ issued : \A j \in DOMAIN program :
           j < u /\ Together(j, u) => j \in issued'
    BY <1>2, <2>1
  <2>3. ASSUME hw # "weak", NEW u \in Mem(program) \cap issued', u < i, Together(u, i), Strict(u, i)
        PROVE  Ahead(u, i)'
    <3>1. u \in issued /\ u # i /\ u \in Nat /\ i \in Nat /\ u # 0
      BY <1>2, <1>3, <2>3, ShapeHolds DEF RunInv, Types, Shape
    <3>2. Happened(u)
      <4>1. Op(i).rmw = None \/ hw # "tso"
        BY <1>2 DEF Correct
      <4> QED
        BY <1>2, <1>3, <2>3, <3>1, <4>1, LoadFollows
    <3>3. Instant(u)' = Instant(u) /\ Instant(u) \in 0..Len(events) /\ Len(events) < Instant(i)'
          /\ Instant(i)' \in Nat /\ Len(events) \in Nat
      BY <1>7, <1>8, <3>1, HappenedMeans DEF Stamps, RunInv, Types
    <3> QED
      BY <3>2, <3>3 DEF Ahead, Happened
  <2>4. hw # "weak" => \A v \in Mem(program) \cap (issued' \ issued), u \in Mem(program) \cap issued' :
           u < v /\ Together(u, v) /\ Strict(u, v) => Ahead(u, v)'
    BY <2>1, <2>3
  <2>5. Fences(program) \cap (issued' \ issued) = {} /\ Stores(program) \cap (issued' \ issued) = {}
    BY <1>3, <2>1
  <2>6. /\ hw # "tso" => \A e \in Cores : buffer'[e] = <<>>
        /\ \A e \in Cores : \A j, k \in 1..Len(buffer'[e]) : j < k => buffer'[e][j] < buffer'[e][k]
    BY <1>2, <2>1 DEF Orderly
  <2>7. \A v \in New \cap issued, u \in Mem(program) \cap issued :
           u < v /\ Together(u, v) => Happened(u)
    BY <1>9 DEF FromFront
  <2> QED
    BY <1>2, <1>8, <1>9, <2>2, <2>4, <2>5, <2>6, <2>7, OrderlyNext
<1>16. Grows
  BY <1>2 DEF Grows, RunInv, Types
<1>17. Correct => Copies'
  BY <1>2, <1>4, CopiesSame
<1>18. \A l \in Loads(program) \cap issued : source'[l] = source[l]
  BY <1>2, <1>3 DEF Load, Forward, Hit, Miss, RunInv, Types
<1>19. ASSUME Correct PROVE ReadsNewest(i)'
  <2>1. hw # "weak"
    BY <1>19 DEF Correct
  <2>2. CASE Waiting(c, a) # 0 /\ source'[i] = Waiting(c, a)
    <3>1. Stamps({i})
      BY <1>7, <1>8
    <3> QED
      BY <1>1, <1>2, <1>3, <1>19, <2>1, <2>2, <3>1, ReadsQueue
  <2>3. CASE Waiting(c, a) = 0 /\ source'[i] = Newest(a)
    <3>1. \A s : InQueue(c, s) => Op(s).addr # a
      BY <1>3, <2>3, WaitingYoungest
    <3>2. /\ i \in New /\ \A j \in New : j = i \/ (i < j /\ Together(j, i))
          /\ issued' = issued \cup New
      BY <1>2, <1>7
    <3>3. \A j \in DOMAIN program : j < i /\ Together(j, i) => j \in issued
      BY <1>2, <2>1
    <3>4. \A s : InQueue(Op(i).core, s) => Op(s).addr # a
      BY <1>1, <3>1
    <3>5. \A h : Op(i).rmw # None /\ h = i + 1 =>
           h \in New /\ Len(order'[a]) = Len(order[a]) + 1 /\ order'[a][Len(order'[a])] = h
      BY <1>2, <1>19
    <3> QED
      BY <1>1, <1>2, <1>3, <1>8, <1>16, <1>19, <2>3, <3>2, <3>3, <3>4, <3>5, ReadsMemory
  <2> QED
    BY <1>4, <1>19, <2>2, <2>3
<1>20. Correct => \A l \in Loads(program) \cap issued' : l \notin issued => ReadsNewest(l)'
  BY <1>2, <1>19
<1> QED
  BY <1>2, <1>8, <1>9, <1>12, <1>13, <1>14, <1>15, <1>16, <1>17, <1>18, <1>20, EventsStep

\* What a store that becomes visible does to them.
LEMMA VisibleShape ==
  ASSUME RunInv, EventInv, NEW s \in Stores(program), NEW kept, kept \in Kept(s), Visible(s, kept),
         NEW c, c = Op(s).core, NEW a, a = Op(s).addr
  PROVE  /\ \E p, D : /\ Adds(s, 1, p, D, "I", "M") /\ Sets(c, a, D, "I", "M")
                      /\ breach' => breach \/ \E d \in (Cores \ {c}) \ D : line[<<d, a>>] # "I"
         /\ Correct => \A d, e \in Cores : \A b \in Addrs :
              d # e /\ line'[<<d, b>>] \in Exclusive => line'[<<e, b>>] = "I"
         /\ Correct => Copies'
         /\ Grows
<1>1. /\ s \in Mem(program) /\ c \in Cores /\ a \in Addrs /\ Lines /\ Upto /\ s \in Nat
      /\ line \in [Cores \X Addrs -> {"M", "E", "S", "I"}]
      /\ copy \in [Cores \X Addrs -> Nat] /\ order \in [Addrs -> Seq(Nat)]
  BY ShapeHolds, AccessTyped DEF RunInv, Types, Shape, EventInv
<1>2. PICK D : D = Holders(c, a) \ kept
  OBVIOUS
<1>3. /\ order'  = [order EXCEPT ![a] = Append(@, s)]
      /\ copy'   = [copy EXCEPT ![<<c, a>>] = s]
      /\ line'   = [k \in DOMAIN line |-> IF k = <<c, a>> THEN "M"
                      ELSE IF k[1] \in D /\ k[2] = a THEN "I" ELSE line[k]]
      /\ events' = events \o Snooped(D, Op(s).addr, "I") \o <<Access(s, "M")>>
      /\ breach' = (breach \/ kept # {})
  BY <1>2 DEF Visible
<1>4. /\ D \subseteq Cores \ {c} /\ D \in SUBSET Cores /\ \A d \in D : line[<<d, a>>] # "I"
  BY <1>2 DEF Holders
<1>5. \A d \in Cores, b \in Addrs :
          /\ line'[<<d, b>>] = IF b = a /\ d = c THEN "M"
                               ELSE IF b = a /\ d \in D THEN "I" ELSE line[<<d, b>>]
          /\ copy'[<<d, b>>] = IF b = a /\ d = c THEN s ELSE copy[<<d, b>>]
  BY <1>1, <1>3
<1>6. Sets(c, a, D, "I", "M")
  BY <1>4, <1>5 DEF Sets
<1>7. \E p : Adds(s, 1, p, D, "I", "M")
  BY <1>1, <1>3, <1>4, AddsOne
<1>8. kept # {} => \E d \in (Cores \ {c}) \ D : line[<<d, a>>] # "I"
  <2>1. kept \subseteq Holders(c, a)
    BY <1>1 DEF Kept
  <2> QED
    BY <1>2, <2>1 DEF Holders
<1>9. ASSUME Correct PROVE \A d \in Cores \ {c} : line'[<<d, a>>] = "I"
  <2>1. D = Holders(c, a)
    BY <1>2, <1>9 DEF Kept, Correct
  <2> QED
    BY <1>1, <1>5, <2>1 DEF Holders
<1>10. ASSUME Correct
       PROVE  \A d, e \in Cores : \A b \in Addrs :
                d # e /\ line'[<<d, b>>] \in Exclusive => line'[<<e, b>>] = "I"
  BY <1>1, <1>6, <1>9, <1>10, ExclusiveNext
<1>11. /\ order'[a] = Append(order[a], s) /\ \A b \in Addrs : b # a => order'[b] = order[b]
       /\ \A b \in Addrs : order[b] \in Seq(Nat) /\ Len(order[b]) \in Nat
  BY <1>1, <1>3
<1>12. /\ Len(order'[a]) = Len(order[a]) + 1 /\ order'[a][Len(order[a]) + 1] = s
       /\ \A k \in 1..Len(order[a]) : order'[a][k] = order[a][k]
  BY <1>1, <1>11
<1>13. Grows
  <2>1. ASSUME NEW b \in Addrs
        PROVE  /\ Len(order[b]) \in Nat /\ Len(order'[b]) \in Nat
               /\ Len(order[b]) <= Len(order'[b])
               /\ \A k \in 1..Len(order[b]) : order'[b][k] = order[b][k]
    <3>1. CASE b = a
      BY <1>1, <1>11, <1>12, <3>1
    <3>2. CASE b # a
      <4>1. order'[b] = order[b] /\ Len(order[b]) \in Nat
        BY <1>11, <3>2
      <4> QED
        BY <4>1
    <3> QED
      BY <3>1, <3>2
  <2> QED
    BY <2>1 DEF Grows
<1>14. Newest(a)' = s /\ \A b \in Addrs : b # a => Newest(b)' = Newest(b)
  <2>1. order'[a] # <<>> /\ Last(order'[a]) = s
    <3>1. Len(order'[a]) # 0 /\ Len(order'[a]) = Len(order[a]) + 1
      BY <1>11, <1>12
    <3>2. order'[a] # <<>>
      BY <3>1
    <3> QED
      BY <1>12, <3>1, <3>2 DEF Last
  <2> QED
    BY <1>11, <2>1 DEF Newest
<1>15. ASSUME Correct PROVE Copies'
  <2>1. \A d \in Cores, b \in Addrs : line[<<d, b>>] # "I" => copy[<<d, b>>] = Newest(b)
    BY <1>1, <1>15 DEF Upto, Copies
  <2>2. \A d \in Cores, b \in Addrs : line'[<<d, b>>] # "I" => copy'[<<d, b>>] = Newest(b)'
    BY <1>4, <1>5, <1>9, <1>14, <1>15, <2>1
  <2> QED
    BY <2>2 DEF Copies
<1> QED
  BY <1>3, <1>6, <1>7, <1>8, <1>10, <1>13, <1>15

\* What it keeps true, but for the order the store is issued in.
LEMMA VisibleEvents ==
  ASSUME RunInv, EventInv, RunInv', NEW s \in Stores(program), NEW kept, kept \in Kept(s),
         Visible(s, kept), ~ Happened(s),
         program' = program, hw' = hw, snoops' = snoops, source' = source,
         issued' = issued \cup {s}, FromFront({s}), Stamps({s}) => Orderly'
  PROVE  EventInv'
<1>1. PICK c, a : c = Op(s).core /\ a = Op(s).addr
  OBVIOUS
<1>2. s \in Mem(program) /\ s \notin Loads(program)
  BY ShapeHolds DEF RunInv, Types, Shape
<1>3. /\ Correct => \A d, e \in Cores : \A b \in Addrs :
           d # e /\ line'[<<d, b>>] \in Exclusive => line'[<<e, b>>] = "I"
      /\ Correct => Copies'
      /\ Grows
  BY <1>1, VisibleShape
<1>4. PICK p, D : /\ Adds(s, 1, p, D, "I", "M") /\ Sets(c, a, D, "I", "M")
                  /\ breach' => breach \/ \E d \in (Cores \ {c}) \ D : line[<<d, a>>] # "I"
  BY <1>1, VisibleShape
<1>5. PICK New : New = {s}
  OBVIOUS
<1>6. Stamps(New)
  BY <1>2, <1>4, <1>5, StampsOne
<1>7. FromFront(New) /\ New \subseteq issued' /\ issued \subseteq issued'
  BY <1>5
<1>8. PICK q \in 1..2 : q = 1
  OBVIOUS
<1>9. PICK to, fin : to = "I" /\ fin = "M"
  OBVIOUS
<1>10. Adds(s, q, p, D, to, fin) /\ q # 2 /\ Sets(c, a, D, to, fin)
  BY <1>4, <1>8, <1>9
<1>11. Named'
  BY <1>2, <1>7, <1>10, NamedNext
<1>12. Lines'
  BY <1>1, <1>2, <1>3, <1>4, <1>9, <1>10, LinesNext
<1>13. Apart'
  BY <1>1, <1>2, <1>3, <1>10, ApartNext
<1>14. Orderly'
  BY <1>5, <1>6
<1>15. /\ \A l \in Loads(program) \cap issued : source'[l] = source[l]
       /\ Correct => \A l \in Loads(program) \cap issued' : l \notin issued => ReadsNewest(l)'
  BY <1>2
<1> QED
  BY <1>3, <1>6, <1>7, <1>11, <1>12, <1>13, <1>14, <1>15, EventsStep

\* A store that is visible at once keeps the invariant of the events.
LEMMA StoreEvents ==
  ASSUME RunInv, EventInv, RunInv', NEW s \in DOMAIN program, Store(s)
  PROVE  EventInv'
<1>1. /\ s \notin issued /\ Op(s).kind = "store" /\ hw # "tso"
      /\ hw # "weak" => \A j \in DOMAIN program : j < s /\ Together(j, s) => j \in issued
      /\ Correct => Op(s).rmw = None
      /\ issued' = issued \cup {s}
      /\ program' = program /\ hw' = hw /\ snoops' = snoops /\ buffer' = buffer /\ source' = source
  BY DEF Store, Ready, Atomic, ProgramOrder, Op, Together
<1>2. PICK kept \in Kept(s) : Visible(s, kept)
  BY DEF Store
<1>3. /\ s \in Stores(program) /\ s \in Mem(program) /\ s \notin Fences(program) /\ s \in Nat /\ s # 0
  <2>1. s \in Stores(program)
    BY <1>1 DEF Stores, Op
  <2> QED
    BY <2>1, ShapeHolds, ProgramFacts DEF RunInv, Types, Shape
<1>4. ~ Happened(s)
  BY <1>1, <1>3, NotYet
<1>5. FromFront({s})
  BY <1>1 DEF FromFront
<1>6. ASSUME Stamps({s}) PROVE Orderly'
  <2>1. PICK New : New = {s}
    OBVIOUS
  <2>2. Stamps(New)
    BY <1>6, <2>1
  <2>3. issued' \ issued = {s} /\ issued \subseteq issued' /\ Orderly
    BY <1>1 DEF EventInv
  <2>4. ASSUME NEW u \in Mem(program) \cap issued', u < s PROVE Ahead(u, s)'
    <3>1. u \in issued /\ u # s /\ u # 0 /\ u \in Mem(program)
      BY <1>1, <1>3, <2>4, ShapeHolds DEF RunInv, Types, Shape
    <3>2. Happened(u)
      BY <1>1, <3>1, WaitsOnly
    <3>3. Instant(u)' = Instant(u) /\ Instant(u) \in 0..Len(events) /\ Len(events) < Instant(s)'
          /\ Instant(s)' \in Nat /\ Len(events) \in Nat
      BY <1>6, <3>1, HappenedMeans DEF Stamps, RunInv, Types
    <3> QED
      BY <3>2, <3>3 DEF Ahead, Happened
  <2>5. hw # "weak" => \A u \in issued' \ issued : \A j \in DOMAIN program :
           j < u /\ Together(j, u) => j \in issued'
    BY <1>1, <2>3
  <2>6. hw # "weak" => \A v \in Mem(program) \cap (issued' \ issued), u \in Mem(program) \cap issued' :
           u < v /\ Together(u, v) /\ Strict(u, v) => Ahead(u, v)'
    BY <2>3, <2>4
  <2>7. Fences(program) \cap (issued' \ issued) = {}
    BY <1>3, <2>3
  <2>8. Correct => \A t \in Stores(program) \cap (issued' \ issued) : Op(t).rmw # None => t \in New
    BY <1>1, <2>3
  <2>9. /\ hw # "tso" => \A e \in Cores : buffer'[e] = <<>>
        /\ \A e \in Cores : \A j, k \in 1..Len(buffer'[e]) : j < k => buffer'[e][j] < buffer'[e][k]
    BY <1>1, <2>3 DEF Orderly
  <2>10. \A v \in New \cap issued, u \in Mem(program) \cap issued :
           u < v /\ Together(u, v) => Happened(u)
    BY <1>1, <2>1
  <2> QED
    BY <1>1, <2>2, <2>3, <2>5, <2>6, <2>7, <2>8, <2>9, <2>10, OrderlyNext
<1> QED
  BY <1>1, <1>2, <1>3, <1>4, <1>5, <1>6, VisibleEvents

\* The oldest store of a queue, reaching memory, keeps the invariant of the events.
LEMMA DrainEvents ==
  ASSUME RunInv, EventInv, RunInv', NEW c \in Cores, Drain(c)
  PROVE  EventInv'
<1>1. PICK s : s = Head(buffer[c])
  OBVIOUS
<1>2. /\ buffer[c] # <<>> /\ Visible(s, {}) /\ buffer' = [buffer EXCEPT ![c] = Tail(@)]
      /\ program' = program /\ hw' = hw /\ snoops' = snoops /\ source' = source /\ issued' = issued
  BY <1>1 DEF Drain
<1>3. /\ buffer \in [Cores -> Seq(Nat)] /\ buffer[c] \in Seq(Nat) /\ Len(buffer[c]) \in Nat
      /\ 1 \in 1..Len(buffer[c]) /\ s = buffer[c][1] /\ Orderly /\ Queued
  BY <1>1, <1>2 DEF RunInv, Types, EventInv
<1>4. /\ s \in Stores(program) \cap issued /\ Op(s).core = c /\ InQueue(c, s)
  BY <1>3 DEF Queued, InQueue
<1>5. s \in Mem(program) /\ s \in Nat /\ {} \in Kept(s)
  BY <1>4, ShapeHolds DEF RunInv, Types, Shape, Kept
<1>6. ~ Happened(s)
  BY <1>4, StoreHappened
<1>7. ASSUME NEW u \in Mem(program) \cap issued, u < s, Together(u, s)
      PROVE  Happened(u)
  <2> SUFFICES ASSUME ~ Happened(u) PROVE FALSE
    OBVIOUS
  <2>1. InQueue(c, u) /\ u \in Nat
    BY <1>4, <1>7, WaitsOnly, ShapeHolds DEF Together, RunInv, Types, Shape
  <2>2. PICK k \in 1..Len(buffer[c]) : buffer[c][k] = u
    BY <2>1 DEF InQueue
  <2>3. k # 1
    BY <1>3, <1>5, <1>7, <2>1, <2>2
  <2>4. 1 < k
    BY <2>3
  <2>5. s < u
    BY <1>3, <2>2, <2>4 DEF Orderly
  <2> QED
    BY <1>5, <1>7, <2>1, <2>5
<1>8. FromFront({s})
  BY <1>7 DEF FromFront
<1>9. ASSUME Stamps({s}) PROVE Orderly'
  <2>1. PICK New : New = {s}
    OBVIOUS
  <2>2. Stamps(New) /\ issued' \ issued = {} /\ issued \subseteq issued'
    BY <1>2, <1>9, <2>1
  <2>3. \A v \in New \cap issued, u \in Mem(program) \cap issued :
           u < v /\ Together(u, v) => Happened(u)
    BY <1>7, <2>1
  <2>4. /\ buffer'[c] = Tail(buffer[c]) /\ \A d \in Cores : d # c => buffer'[d] = buffer[d]
    BY <1>2, <1>3
  <2>5. hw # "tso" => \A e \in Cores : buffer'[e] = <<>>
    BY <1>2, <1>3, <2>4 DEF Orderly
  <2>6. ASSUME NEW e \in Cores, NEW j \in 1..Len(buffer'[e]), NEW k \in 1..Len(buffer'[e]), j < k
        PROVE  buffer'[e][j] < buffer'[e][k]
    <3>1. CASE e # c
      BY <1>3, <2>4, <2>6, <3>1 DEF Orderly
    <3>2. CASE e = c
      <4>1. PICK l : l = buffer[c]
        OBVIOUS
      <4>2. l \in Seq(Nat) /\ l # <<>> /\ buffer'[c] = Tail(l)
        BY <1>2, <1>3, <2>4, <4>1
      <4>3. Len(Tail(l)) = Len(l) - 1 /\ Len(l) \in Nat /\ \A h \in 1..Len(Tail(l)) : Tail(l)[h] = l[h + 1]
        BY <4>2
      <4>4. /\ j + 1 \in 1..Len(l) /\ k + 1 \in 1..Len(l) /\ j + 1 < k + 1
            /\ Tail(l)[j] = l[j + 1] /\ Tail(l)[k] = l[k + 1]
        BY <2>6, <3>2, <4>2, <4>3
      <4>5. \A f, h \in 1..Len(l) : f < h => l[f] < l[h]
        BY <1>3, <4>1 DEF Orderly
      <4>6. l[j + 1] < l[k + 1]
        BY <4>4, <4>5
      <4> QED
        BY <3>2, <4>2, <4>4, <4>6
    <3> QED
      BY <3>1, <3>2
  <2> QED
    BY <1>2, <2>2, <2>3, <2>5, <2>6, OrderlyNext
<1>10. issued' = issued \cup {s}
  BY <1>2, <1>4
<1> QED
  BY <1>2, <1>4, <1>5, <1>6, <1>8, <1>9, <1>10, VisibleEvents

\* A step without events.
LEMMA QuietEvents ==
  ASSUME RunInv, EventInv, RunInv',
         program' = program, hw' = hw, snoops' = snoops, order' = order, source' = source,
         line' = line, copy' = copy, events' = events, breach' = breach,
         issued \subseteq issued', (issued' \ issued) \cap Loads(program) = {},
         Stamps({}) => Orderly'
  PROVE  EventInv'
<1>1. PICK New : New = {}
  OBVIOUS
<1>2. Stamps(New) /\ FromFront(New) /\ New \subseteq issued'
  BY <1>1, StampsNone DEF FromFront
<1>3. Grows
  BY DEF Grows, RunInv, Types
<1>4. /\ \A j : Instant(j)' = Instant(j) /\ Op(j)' = Op(j)
      /\ \A j : Happened(j)' <=> Happened(j)
      /\ Mem(program') = Mem(program) /\ Loads(program') = Loads(program)
      /\ (Correct' <=> Correct)
      /\ \A n, c, a, m : Told(n, c, a, m)' <=> Told(n, c, a, m)
      /\ \A a : Newest(a)' = Newest(a)
  BY StampsNone DEF Op, Happened, Correct, Told, Newest
<1>5. Named /\ Lines /\ Apart /\ Upto
  BY DEF EventInv
<1>6. Named'
  <2>1. \A n \in 1..Len(events') :
          \/ snoops' /\ events'[n].id = 0 /\ events'[n].op = "load"
          \/ /\ events'[n].id \in Mem(program') \cap issued'
             /\ \A j : j = events'[n].id =>
                  /\ events'[n].core = (Op(j).core)' /\ events'[n].op = (Op(j).kind)'
                  /\ events'[n].addr = (Op(j).addr)'
    BY <1>4, <1>5 DEF Named
  <2>2. \A l \in Loads(program) \cap issued' : Happened(l)'
    BY <1>4, <1>5 DEF Named
  <2>3. \A m, n \in 1..Len(events') : events'[m].id = events'[n].id /\ events'[n].id # 0 => m = n
    BY <1>5 DEF Named
  <2> QED
    BY <1>4, <2>1, <2>2, <2>3 DEF Named
<1>7. Lines'
  <2>1. Exposed' <=> Exposed
    BY <1>4 DEF Exposed
  <2> QED
    BY <1>4, <1>5, <2>1 DEF Lines
<1>8. Apart'
  BY <1>4, <1>5 DEF Apart
<1>9. Correct => Copies'
  BY <1>4, <1>5 DEF Upto, Copies
<1>10. Orderly'
  BY <1>1, <1>2
<1>11. /\ \A l \in Loads(program) \cap issued : source'[l] = source[l]
       /\ Correct => \A l \in Loads(program) \cap issued' : l \notin issued => ReadsNewest(l)'
  OBVIOUS
<1> QED
  BY <1>2, <1>3, <1>6, <1>7, <1>8, <1>9, <1>10, <1>11, EventsStep

\* A store put in its core's queue keeps the invariant of the events.
LEMMA EnqueueEvents ==
  ASSUME RunInv, EventInv, RunInv', NEW s \in DOMAIN program, Enqueue(s)
  PROVE  EventInv'
<1>1. /\ s \notin issued /\ Op(s).kind = "store" /\ hw = "tso"
      /\ \A j \in DOMAIN program : j < s /\ Together(j, s) => j \in issued
      /\ Correct => Op(s).rmw = None
      /\ issued' = issued \cup {s} /\ buffer' = [buffer EXCEPT ![Op(s).core] = Append(@, s)]
      /\ program' = program /\ hw' = hw /\ snoops' = snoops /\ source' = source
      /\ order' = order /\ line' = line /\ copy' = copy /\ events' = events /\ breach' = breach
  BY DEF Enqueue, Ready, Atomic, ProgramOrder, Op, Together
<1>2. /\ s \in Stores(program) /\ s \in Mem(program) /\ s \notin Fences(program) /\ s \in Nat /\ s # 0
      /\ s \notin Loads(program) /\ Op(s).core \in Cores
  <2>1. s \in Stores(program)
    BY <1>1 DEF Stores, Op
  <2> QED
    BY <2>1, ShapeHolds, ProgramFacts, AccessTyped DEF RunInv, Types, Shape
<1>3. ~ Happened(s) /\ Instant(s)' = Instant(s)
  BY <1>1, <1>2, NotYet, StampsNone
<1>4. (issued' \ issued) \cap Loads(program) = {} /\ issued \subseteq issued' /\ issued' \ issued = {s}
  BY <1>1, <1>2
<1>5. ASSUME Stamps({}) PROVE Orderly'
  <2>1. PICK New : New = {}
    OBVIOUS
  <2>2. Stamps(New) /\ Orderly
    BY <1>5, <2>1 DEF EventInv
  <2>3. ASSUME NEW u \in Mem(program) \cap issued', u < s PROVE Ahead(u, s)'
    BY <1>3, <2>3 DEF Ahead, Happened
  <2>4. hw # "weak" => \A u \in issued' \ issued : \A j \in DOMAIN program :
           j < u /\ Together(j, u) => j \in issued'
    BY <1>1, <1>4
  <2>5. hw # "weak" => \A v \in Mem(program) \cap (issued' \ issued), u \in Mem(program) \cap issued' :
           u < v /\ Together(u, v) /\ Strict(u, v) => Ahead(u, v)'
    BY <1>4, <2>3
  <2>6. Fences(program) \cap (issued' \ issued) = {}
    BY <1>2, <1>4
  <2>7. Correct => \A t \in Stores(program) \cap (issued' \ issued) : Op(t).rmw # None => t \in New
    BY <1>1, <1>4
  <2>8. \A v \in New \cap issued, u \in Mem(program) \cap issued :
           u < v /\ Together(u, v) => Happened(u)
    BY <2>1
  <2>9. PICK c : c = Op(s).core
    OBVIOUS
  <2>10. /\ buffer'[c] = Append(buffer[c], s) /\ \A d \in Cores : d # c => buffer'[d] = buffer[d]
         /\ buffer[c] \in Seq(Nat) /\ Len(buffer[c]) \in Nat /\ c \in Cores
    BY <1>1, <1>2, <2>9 DEF RunInv, Types
  <2>11. \A j \in 1..Len(buffer[c]) : buffer[c][j] < s
    <3>1. ASSUME NEW j \in 1..Len(buffer[c]), NEW t, t = buffer[c][j] PROVE t < s
      <4>1. t \in Stores(program) \cap issued /\ Op(t).core = c
        BY <2>10, <3>1 DEF RunInv, Queued
      <4>2. t \in Nat /\ t # s /\ InTurn
        BY <1>1, <1>2, <2>2, <4>1, ShapeHolds DEF RunInv, Types, Shape, Orderly
      <4>3. ~ (s < t)
        BY <1>1, <2>9, <4>1, <4>2 DEF InTurn, Together
      <4> QED
        BY <1>2, <4>2, <4>3
    <3> QED
      BY <3>1
  <2>12. ASSUME NEW e \in Cores, NEW j \in 1..Len(buffer'[e]), NEW k \in 1..Len(buffer'[e]), j < k
         PROVE  buffer'[e][j] < buffer'[e][k]
    <3>1. CASE e # c
      BY <2>2, <2>10, <2>12, <3>1 DEF Orderly
    <3>2. CASE e = c
      <4>1. PICK l : l = buffer[c]
        OBVIOUS
      <4>2. l \in Seq(Nat) /\ buffer'[c] = Append(l, s) /\ Len(l) \in Nat /\ s \in Nat
        BY <1>2, <2>10, <4>1
      <4>3. /\ Len(Append(l, s)) = Len(l) + 1 /\ Append(l, s)[Len(l) + 1] = s
            /\ \A h \in 1..Len(l) : Append(l, s)[h] = l[h]
        BY <4>2
      <4>4. j \in 1..Len(l) /\ (k \in 1..Len(l) \/ k = Len(l) + 1)
        BY <2>12, <3>2, <4>2, <4>3
      <4>5. \A f, h \in 1..Len(l) : f < h => l[f] < l[h]
        BY <2>2, <2>10, <4>1 DEF Orderly
      <4>6. l[j] < s
        BY <2>11, <4>1, <4>4
      <4>7. Append(l, s)[j] < Append(l, s)[k]
        BY <2>12, <4>3, <4>4, <4>5, <4>6
      <4> QED
        BY <3>2, <4>2, <4>7
    <3> QED
      BY <3>1, <3>2
  <2> QED
    BY <1>1, <1>4, <2>2, <2>4, <2>5, <2>6, <2>7, <2>8, <2>12, OrderlyNext
<1> QED
  BY <1>1, <1>4, <1>5, QuietEvents

\* What an atomic does to lines, memory and events.
LEMMA AtomicShape ==
  ASSUME RunInv, EventInv, NEW i \in Loads(program), ReadModifyWrite(i),
         NEW c, c = Op(i).core, NEW a, a = Op(i).addr, NEW s, s = i + 1, s \in Mem(program)
  PROVE  /\ \E p, D : Adds(i, 2, p, D, "I", "M") /\ Sets(c, a, D, "I", "M")
         /\ \A d, e \in Cores : \A b \in Addrs :
              d # e /\ line'[<<d, b>>] \in Exclusive => line'[<<e, b>>] = "I"
         /\ Copies'
         /\ Grows /\ Len(order'[a]) = Len(order[a]) + 1 /\ order'[a][Len(order'[a])] = s
         /\ source'[i] = Newest(a)
<1>1. /\ i \in Mem(program) /\ c \in Cores /\ a \in Addrs /\ Lines /\ Upto /\ s \in Nat
      /\ line \in [Cores \X Addrs -> {"M", "E", "S", "I"}]
      /\ copy \in [Cores \X Addrs -> Nat] /\ order \in [Addrs -> Seq(Nat)]
      /\ source \in [Loads(program) -> Nat]
  BY ShapeHolds, AccessTyped DEF RunInv, Types, Shape, EventInv
<1>2. PICK D : D = Holders(c, a)
  OBVIOUS
<1>3. /\ order'  = [order EXCEPT ![a] = Append(@, s)]
      /\ copy'   = [copy EXCEPT ![<<c, a>>] = s]
      /\ line'   = [k \in DOMAIN line |-> IF k = <<c, a>> THEN "M"
                      ELSE IF k[1] \in D /\ k[2] = a THEN "I" ELSE line[k]]
      /\ events' = events \o Snooped(D, Op(i).addr, "I") \o <<Access(i, "M"), Access(i + 1, "M")>>
      /\ source' = [source EXCEPT ![i] = Newest(a)] /\ Correct
  BY <1>2 DEF ReadModifyWrite, Atomic
<1>4. /\ D \subseteq Cores \ {c} /\ D \in SUBSET Cores /\ \A d \in D : line[<<d, a>>] # "I"
  BY <1>2 DEF Holders
<1>5. \A d \in Cores, b \in Addrs :
          /\ line'[<<d, b>>] = IF b = a /\ d = c THEN "M"
                               ELSE IF b = a /\ d \in D THEN "I" ELSE line[<<d, b>>]
          /\ copy'[<<d, b>>] = IF b = a /\ d = c THEN s ELSE copy[<<d, b>>]
  BY <1>1, <1>3
<1>6. Sets(c, a, D, "I", "M")
  BY <1>4, <1>5 DEF Sets
<1>7. \E p : Adds(i, 2, p, D, "I", "M")
  BY <1>1, <1>3, <1>4, AddsTwo
<1>9. \A d \in Cores \ {c} : line'[<<d, a>>] = "I"
  BY <1>1, <1>2, <1>5 DEF Holders
<1>10. \A d, e \in Cores : \A b \in Addrs :
                d # e /\ line'[<<d, b>>] \in Exclusive => line'[<<e, b>>] = "I"
  BY <1>1, <1>3, <1>6, <1>9, ExclusiveNext
<1>11. /\ order'[a] = Append(order[a], s) /\ \A b \in Addrs : b # a => order'[b] = order[b]
       /\ \A b \in Addrs : order[b] \in Seq(Nat) /\ Len(order[b]) \in Nat
  BY <1>1, <1>3
<1>12. /\ Len(order'[a]) = Len(order[a]) + 1 /\ order'[a][Len(order[a]) + 1] = s
       /\ \A k \in 1..Len(order[a]) : order'[a][k] = order[a][k]
  BY <1>1, <1>11
<1>13. Grows
  <2>1. ASSUME NEW b \in Addrs
        PROVE  /\ Len(order[b]) \in Nat /\ Len(order'[b]) \in Nat
               /\ Len(order[b]) <= Len(order'[b])
               /\ \A k \in 1..Len(order[b]) : order'[b][k] = order[b][k]
    <3>1. CASE b = a
      BY <1>1, <1>11, <1>12, <3>1
    <3>2. CASE b # a
      <4>1. order'[b] = order[b] /\ Len(order[b]) \in Nat
        BY <1>11, <3>2
      <4> QED
        BY <4>1
    <3> QED
      BY <3>1, <3>2
  <2> QED
    BY <2>1 DEF Grows
<1>14. Newest(a)' = s /\ \A b \in Addrs : b # a => Newest(b)' = Newest(b)
  <2>1. order'[a] # <<>> /\ Last(order'[a]) = s
    <3>1. Len(order'[a]) # 0 /\ Len(order'[a]) = Len(order[a]) + 1
      BY <1>11, <1>12
    <3>2. order'[a] # <<>>
      BY <3>1
    <3> QED
      BY <1>12, <3>1, <3>2 DEF Last
  <2> QED
    BY <1>11, <2>1 DEF Newest
<1>15. Copies'
  <2>1. \A d \in Cores, b \in Addrs : line[<<d, b>>] # "I" => copy[<<d, b>>] = Newest(b)
    BY <1>1, <1>3 DEF Upto, Copies
  <2>2. \A d \in Cores, b \in Addrs : line'[<<d, b>>] # "I" => copy'[<<d, b>>] = Newest(b)'
    BY <1>4, <1>5, <1>9, <1>14, <2>1
  <2> QED
    BY <2>2 DEF Copies
<1>16. source'[i] = Newest(a)
  BY <1>1, <1>3
<1> QED
  BY <1>6, <1>7, <1>10, <1>12, <1>13, <1>15, <1>16

\* An atomic keeps the invariant of the events.
LEMMA AtomicEvents ==
  ASSUME RunInv, EventInv, RunInv', NEW i \in DOMAIN program, ReadModifyWrite(i)
  PROVE  EventInv'
<1>1. PICK c, a, s : c = Op(i).core /\ a = Op(i).addr /\ s = i + 1
  OBVIOUS
<1>2. /\ i \notin issued /\ Op(i).kind = "load" /\ Op(i).rmw # None /\ Correct
      /\ hw # "weak" => \A j \in DOMAIN program : j < i /\ Together(j, i) => j \in issued
      /\ issued' = issued \cup {i, s} /\ buffer[c] = <<>>
      /\ source' = [source EXCEPT ![i] = Newest(a)]
      /\ program' = program /\ hw' = hw /\ snoops' = snoops /\ buffer' = buffer
      /\ breach' = breach
  BY <1>1 DEF ReadModifyWrite, Ready, Atomic, ProgramOrder, Op, Together
<1>3. /\ i \in Loads(program) /\ i \in Mem(program) /\ c \in Cores /\ a \in Addrs
      /\ i \notin Stores(program) /\ i \notin Fences(program) /\ i \in Nat /\ i # 0 /\ hw # "weak"
  <2>1. i \in Loads(program) /\ i \in Mem(program) /\ i \notin Stores(program) /\ i \notin Fences(program)
    BY <1>2 DEF Loads, Mem, Stores, Fences, Op
  <2> QED
    BY <1>1, <1>2, <2>1, AccessTyped, ShapeHolds DEF RunInv, Types, Shape, Correct
<1>4. /\ s \in Stores(program) /\ s \in Mem(program) /\ s \notin issued /\ s \notin Loads(program)
      /\ Op(s).core = c /\ Op(s).addr = a /\ s \notin Fences(program) /\ s # 0 /\ s \in Nat
  <2>1. /\ i + 1 \in Stores(program) /\ Op(i + 1).addr = Op(i).addr /\ Op(i + 1).core = Op(i).core
    BY <1>2, <1>3, Halves
  <2>2. i + 1 \notin issued
    BY <1>2, <1>3 DEF RunInv, Paired
  <2>3. s \in Stores(program) /\ s \notin issued /\ Op(s).core = c /\ Op(s).addr = a
    BY <1>1, <2>1, <2>2
  <2> QED
    BY <2>3, ShapeHolds, ProgramFacts DEF RunInv, Types, Shape
<1>5. /\ \A d, e \in Cores : \A b \in Addrs :
              d # e /\ line'[<<d, b>>] \in Exclusive => line'[<<e, b>>] = "I"
      /\ Copies'
      /\ Grows /\ Len(order'[a]) = Len(order[a]) + 1 /\ order'[a][Len(order'[a])] = s
      /\ source'[i] = Newest(a)
  BY <1>1, <1>3, <1>4, AtomicShape
<1>6. PICK p, D : Adds(i, 2, p, D, "I", "M") /\ Sets(c, a, D, "I", "M")
  BY <1>1, <1>3, <1>4, AtomicShape
<1>7. ~ Happened(i) /\ ~ Happened(s)
  BY <1>2, <1>3, <1>4, NotYet
<1>8. PICK New : New = {i, s}
  OBVIOUS
<1>9. Stamps(New)
  <2>1. i + 1 \in Mem(program) /\ ~ Happened(i + 1)
    BY <1>1, <1>4, <1>7
  <2>2. Stamps({i, i + 1})
    BY <1>3, <1>6, <1>7, <2>1, StampsTwo
  <2> QED
    BY <1>1, <1>8, <2>2
<1>10. FromFront(New) /\ New \subseteq issued' /\ issued \subseteq issued'
  BY <1>2, <1>4, <1>8 DEF FromFront
<1>11. PICK q \in 1..2 : q = 2
  OBVIOUS
<1>12. PICK to, fin : to = "I" /\ fin = "M"
  OBVIOUS
<1>13. Adds(i, q, p, D, to, fin) /\ Sets(c, a, D, to, fin)
  BY <1>6, <1>11, <1>12
<1>14. q = 2 => Op(i + 1).core = c /\ Op(i + 1).addr = a
  BY <1>1, <1>4
<1>15. Named'
  <2>1. q = 2 => i + 1 \in Mem(program) /\ ~ Happened(i + 1) /\ i + 1 \in issued'
    BY <1>1, <1>2, <1>4, <1>7
  <2>2. i \in issued' /\ issued \subseteq issued'
        /\ \A l \in Loads(program) \cap issued' : l \in issued \/ l = i \/ (q = 2 /\ l = i + 1)
    BY <1>1, <1>2, <1>11
  <2> QED
    BY <1>2, <1>3, <1>7, <1>13, <2>1, <2>2, NamedNext
<1>16. Lines'
  BY <1>1, <1>2, <1>3, <1>5, <1>13, <1>14, LinesNext
<1>17. Apart'
  BY <1>1, <1>2, <1>3, <1>5, <1>13, <1>14, ApartNext
<1>18. /\ Instant(i)' \in Nat /\ Instant(s)' \in Nat /\ Len(events) \in Nat
       /\ Len(events) < Instant(i)' /\ Len(events) < Instant(s)' /\ Instant(i)' < Instant(s)'
  BY <1>1, <1>3, <1>8, <1>9 DEF Stamps, RunInv, Types
<1>19. ASSUME NEW u \in Mem(program) \cap issued, Together(u, i) PROVE Ahead(u, i)' /\ Ahead(u, s)'
  <2>1. u # 0 /\ u \notin New /\ Happened(u)
    <3>1. u # 0 /\ u \notin New
      BY <1>2, <1>4, <1>8, <1>19, ShapeHolds DEF RunInv, Types, Shape
    <3>2. buffer[Op(u).core] = <<>>
      BY <1>1, <1>2, <1>19 DEF Together
    <3> QED
      BY <3>1, <3>2, WaitsOnly
  <2>2. Instant(u)' = Instant(u) /\ Instant(u) \in 0..Len(events)
    BY <1>9, <2>1, HappenedMeans DEF Stamps
  <2> QED
    BY <1>18, <2>1, <2>2 DEF Ahead, Happened
<1>20. Ahead(i, s)'
  BY <1>18 DEF Ahead, Happened
<1>21. Orderly'
  <2>1. issued' \ issued = {i, s} /\ Orderly
    BY <1>2, <1>4 DEF EventInv
  <2>2. ASSUME NEW j \in DOMAIN program, NEW u \in {i, s}, j < u, Together(j, u)
        PROVE  j \in issued'
    <3>1. j \in Nat
      BY ProgramFacts DEF RunInv, Types
    <3>2. j < i \/ j = i
      BY <1>1, <1>3, <2>2, <3>1
    <3>3. Together(j, i)
      BY <1>1, <1>4, <2>2 DEF Together
    <3> QED
      BY <1>2, <1>3, <3>2, <3>3
  <2>3. ASSUME NEW v \in {i, s}, NEW u \in Mem(program) \cap issued', u < v, Together(u, v)
        PROVE  Ahead(u, v)'
    <3>1. u \in issued \/ (u = i /\ v = s)
      BY <1>1, <1>2, <1>3, <2>3
    <3>2. Together(u, i)
      BY <1>1, <1>4, <2>3 DEF Together
    <3> QED
      BY <1>19, <1>20, <2>3, <3>1, <3>2
  <2>4. hw # "weak" => \A u \in issued' \ issued : \A j \in DOMAIN program :
           j < u /\ Together(j, u) => j \in issued'
    BY <2>1, <2>2
  <2>5. hw # "weak" => \A v \in Mem(program) \cap (issued' \ issued), u \in Mem(program) \cap issued' :
           u < v /\ Together(u, v) /\ Strict(u, v) => Ahead(u, v)'
    BY <2>1, <2>3
  <2>6. Fences(program) \cap (issued' \ issued) = {}
    BY <1>3, <1>4, <2>1
  <2>7. Correct => \A t \in Stores(program) \cap (issued' \ issued) : Op(t).rmw # None => t \in New
    BY <1>8, <2>1
  <2>8. /\ hw # "tso" => \A e \in Cores : buffer'[e] = <<>>
        /\ \A e \in Cores : \A j, k \in 1..Len(buffer'[e]) : j < k => buffer'[e][j] < buffer'[e][k]
    BY <1>2, <2>1 DEF Orderly
  <2>9. \A v \in New \cap issued, u \in Mem(program) \cap issued :
           u < v /\ Together(u, v) => Happened(u)
    BY <1>10 DEF FromFront
  <2> QED
    BY <1>2, <1>9, <1>10, <2>4, <2>5, <2>6, <2>7, <2>8, <2>9, OrderlyNext
<1>22. \A l \in Loads(program) \cap issued : source'[l] = source[l]
  BY <1>2, <1>3 DEF RunInv, Types
<1>23. ReadsNewest(i)'
  <2>1. \A t : InQueue(Op(i).core, t) => Op(t).addr # a
    BY <1>1, <1>2 DEF InQueue
  <2>2. /\ i \in New /\ issued' = issued \cup New
        /\ \A j \in New : j = i \/ (i < j /\ Together(j, i))
    <3>1. Together(s, i) /\ i < s
      BY <1>1, <1>3, <1>4 DEF Together
    <3> QED
      BY <1>2, <1>8, <3>1
  <2>3. \A h : Op(i).rmw # None /\ h = i + 1 =>
           h \in New /\ Len(order'[a]) = Len(order[a]) + 1 /\ order'[a][Len(order'[a])] = h
    BY <1>1, <1>5, <1>8
  <2>4. \A j \in DOMAIN program : j < i /\ Together(j, i) => j \in issued
    BY <1>2, <1>3
  <2> QED
    BY <1>1, <1>2, <1>3, <1>5, <1>9, <2>1, <2>2, <2>3, <2>4, ReadsMemory
<1>24. Correct => \A l \in Loads(program) \cap issued' : l \notin issued => ReadsNewest(l)'
  BY <1>2, <1>4, <1>23
<1> QED
  BY <1>2, <1>5, <1>9, <1>10, <1>15, <1>16, <1>17, <1>21, <1>22, <1>24, EventsStep

\* A fence keeps the invariant of the events.
LEMMA FenceEvents ==
  ASSUME RunInv, EventInv, RunInv', NEW i \in DOMAIN program, Fence(i)
  PROVE  EventInv'
<1>1. /\ i \notin issued /\ Op(i).kind = "fence" /\ buffer[Op(i).core] = <<>>
      /\ hw # "weak" => \A j \in DOMAIN program : j < i /\ Together(j, i) => j \in issued
      /\ issued' = issued \cup {i} /\ buffer' = buffer
      /\ program' = program /\ hw' = hw /\ snoops' = snoops /\ source' = source
      /\ order' = order /\ line' = line /\ copy' = copy /\ events' = events /\ breach' = breach
  BY DEF Fence, Ready, ProgramOrder, Op, Together
<1>2. i \notin Mem(program) /\ i \notin Stores(program) /\ i \notin Loads(program)
      /\ Stores(program) \subseteq Mem(program) /\ Mem(program) \subseteq DOMAIN program
  BY <1>1, ShapeHolds, ProgramFacts DEF Mem, Stores, Loads, Op, RunInv, Types, Shape
<1>3. (issued' \ issued) \cap Loads(program) = {} /\ issued \subseteq issued' /\ issued' \ issued = {i}
  BY <1>1, <1>2
<1>4. ASSUME Stamps({}) PROVE Orderly'
  <2>1. PICK New : New = {}
    OBVIOUS
  <2>2. Stamps(New) /\ Orderly
    BY <1>4, <2>1 DEF EventInv
  <2>3. hw # "weak" => \A u \in issued' \ issued : \A j \in DOMAIN program :
           j < u /\ Together(j, u) => j \in issued'
    BY <1>1, <1>3
  <2>4. hw # "weak" => \A v \in Mem(program) \cap (issued' \ issued), u \in Mem(program) \cap issued' :
           u < v /\ Together(u, v) /\ Strict(u, v) => Ahead(u, v)'
    BY <1>2, <1>3
  <2>5. hw # "weak" => \A f \in Fences(program) \cap (issued' \ issued), s \in Stores(program) :
           s < f /\ Together(s, f) => Happened(s)
    <3> SUFFICES ASSUME hw # "weak", NEW s \in Stores(program), s < i, Together(s, i)
                 PROVE  Happened(s)
      BY <1>3
    <3>1. s \in Mem(program) \cap issued /\ buffer[Op(s).core] = <<>>
      BY <1>1, <1>2 DEF Together
    <3> QED
      BY <3>1, WaitsOnly
  <2>6. Correct => \A t \in Stores(program) \cap (issued' \ issued) : Op(t).rmw # None => t \in New
    BY <1>2, <1>3
  <2>7. /\ hw # "tso" => \A e \in Cores : buffer'[e] = <<>>
        /\ \A e \in Cores : \A j, k \in 1..Len(buffer'[e]) : j < k => buffer'[e][j] < buffer'[e][k]
    BY <1>1, <2>2 DEF Orderly
  <2>8. \A v \in New \cap issued, u \in Mem(program) \cap issued :
           u < v /\ Together(u, v) => Happened(u)
    BY <2>1
  <2> QED
    BY <1>1, <1>3, <2>2, <2>3, <2>4, <2>5, <2>6, <2>7, <2>8, OrderlyNext
<1> QED
  BY <1>1, <1>3, <1>4, QuietEvents

\* What comes after the run keeps the invariant of the events.
LEMMA StillEvents ==
  ASSUME RunInv, EventInv, RunInv',
         UNCHANGED <<program, hw, snoops, issued, buffer, order, line, copy, source, events, breach>>
  PROVE  EventInv'
<1>1. /\ issued' = issued /\ buffer' = buffer
      /\ program' = program /\ hw' = hw /\ snoops' = snoops /\ source' = source
      /\ order' = order /\ line' = line /\ copy' = copy /\ events' = events /\ breach' = breach
  OBVIOUS
<1>2. (issued' \ issued) \cap Loads(program) = {} /\ issued \subseteq issued'
  BY <1>1
<1>3. ASSUME Stamps({}) PROVE Orderly'
  <2>1. PICK New : New = {}
    OBVIOUS
  <2>2. Stamps(New) /\ Orderly
    BY <1>3, <2>1 DEF EventInv
  <2>3. /\ hw # "weak" => \A u \in issued' \ issued : \A j \in DOMAIN program :
             j < u /\ Together(j, u) => j \in issued'
        /\ hw # "weak" => \A v \in Mem(program) \cap (issued' \ issued), u \in Mem(program) \cap issued' :
             u < v /\ Together(u, v) /\ Strict(u, v) => Ahead(u, v)'
        /\ hw # "weak" => \A f \in Fences(program) \cap (issued' \ issued), s \in Stores(program) :
             s < f /\ Together(s, f) => Happened(s)
        /\ Correct => \A t \in Stores(program) \cap (issued' \ issued) : Op(t).rmw # None => t \in New
        /\ \A v \in New \cap issued, u \in Mem(program) \cap issued :
             u < v /\ Together(u, v) => Happened(u)
    BY <1>1, <2>1
  <2>4. /\ hw # "tso" => \A e \in Cores : buffer'[e] = <<>>
        /\ \A e \in Cores : \A j, k \in 1..Len(buffer'[e]) : j < k => buffer'[e][j] < buffer'[e][k]
    BY <1>1, <2>2 DEF Orderly
  <2> QED
    BY <1>1, <1>2, <2>2, <2>3, <2>4, OrderlyNext
<1> QED
  BY <1>1, <1>2, <1>3, QuietEvents

\* The invariant of the events holds at the start.
LEMMA EventsStart ==
  ASSUME Init
  PROVE  EventInv
<1>1. /\ issued = {} /\ events = <<>> /\ Len(events) = 0 /\ breach = FALSE
      /\ \A c \in Cores : buffer[c] = <<>> /\ Len(buffer[c]) = 0
      /\ \A c \in Cores, a \in Addrs : line[<<c, a>>] = "I"
  BY DEF Init
<1>2. Named
  BY <1>1 DEF Named
<1>3. Orderly
  BY <1>1, ProgramFacts DEF Orderly, InTurn, Init
<1>4. Upto
  BY <1>1 DEF Upto, Copies
<1>5. Lines
  BY <1>1 DEF Lines
<1>6. Apart
  BY <1>1 DEF Apart, Told
<1> QED
  BY <1>2, <1>3, <1>4, <1>5, <1>6 DEF EventInv

(***************************************************************************)
(* At the end of a run on correct hardware, the instants of the accesses   *)
(* explain it.                                                             *)
(***************************************************************************)
LEMMA EndHappened ==
  ASSUME RunInv, EventInv, Done, NEW u \in Mem(program)
  PROVE  u \in issued /\ Happened(u) /\ Instant(u) \in 1..Len(events)
<1>1. /\ u \in Mem(program) \cap issued /\ u # 0 /\ Op(u).core \in Cores
      /\ events \in Seq(Events)
  BY AccessTyped, ProgramFacts, ShapeHolds DEF Done, RunInv, Types, Shape
<1>2. buffer[Op(u).core] = <<>>
  BY <1>1 DEF Done
<1>3. Happened(u)
  BY <1>1, <1>2, WaitsOnly
<1>4. Instant(u) \in 0..Len(events) /\ Len(events) \in Nat
  BY <1>1, InstantMeans
<1> QED
  BY <1>1, <1>3, <1>4 DEF Happened

\* Accesses that a core must keep in order happened in order,
LEMMA EndInTurn ==
  ASSUME RunInv, EventInv, Done, hw # "weak", NEW u \in Mem(program), NEW v \in Mem(program),
         u < v, Together(u, v), Strict(u, v)
  PROVE  Instant(u) < Instant(v)
<1>1. u \in issued /\ v \in issued /\ Happened(u) /\ Happened(v)
  BY EndHappened
<1>2. Ahead(u, v)
  BY <1>1 DEF EventInv, Orderly, InTurn
<1> QED
  BY <1>1, <1>2 DEF Ahead

\* and no two at one instant.
LEMMA EndApart ==
  ASSUME RunInv, EventInv, Done, NEW u \in Mem(program), NEW v \in Mem(program),
         Instant(u) = Instant(v)
  PROVE  u = v
<1>1. Instant(u) # 0 /\ Instant(v) # 0
  BY EndHappened DEF Happened
<1>2. events \in Seq(Events)
  BY DEF RunInv, Types
<1> QED
  BY <1>1, <1>2, InstantMeans

\* Correct hardware keeps what the model keeps.
LEMMA KeptIsStrict ==
  ASSUME program \in Programs, Correct, NEW m \in Models, hw = "sc" \/ m = hw,
         NEW u \in Mem(program), NEW v \in Mem(program), <<u, v>> \in Keeps(m)
  PROVE  u < v /\ Together(u, v) /\ Strict(u, v)
<1>1. u < v /\ Together(u, v) /\ Ordered(m, u, v)
  BY DEF Keeps
<1>2. CASE hw # "tso"
  BY <1>1, <1>2 DEF Strict
<1>3. CASE hw = "tso"
  <2>0. m = "tso"
    BY <1>3
  <2>1. \/ Op(u).kind = "load" \/ Op(v).kind = "store"
        \/ Op(u).aq \/ Op(v).rl
        \/ \E f \in Fences(program) : f \in u .. v /\ Op(f).core = Op(u).core
    BY <1>1, <2>0 DEF Ordered
  <2>2. /\ u \in DOMAIN program /\ v \in DOMAIN program
        /\ Op(u).kind = "load" => u \in Loads(program)
        /\ Op(v).kind = "store" => v \in Stores(program)
    BY DEF Mem, Loads, Stores, Op
  <2>3. CASE Op(u).kind = "load" \/ Op(v).kind = "store"
    BY <1>1, <2>2, <2>3 DEF Strict
  <2>4. CASE Op(u).aq \/ Op(v).rl
    <3>1. /\ Op(u).rmw = None /\ Op(u).aq => u \in Loads(program)
          /\ Op(v).rmw = None /\ Op(v).rl => v \in Stores(program)
      BY ProgramFacts DEF WellFormed, Op
    <3> QED
      BY <1>1, <2>4, <3>1 DEF Strict
  <2>5. ASSUME NEW f \in Fences(program), f \in u .. v, Op(f).core = Op(u).core
        PROVE  Strict(u, v)
    <3>1. f # u /\ f # v /\ u \in Nat /\ v \in Nat
      BY ProgramFacts
    <3>2. u < f /\ f < v
      BY <2>5, <3>1
    <3>3. Together(f, u)
      BY <2>5 DEF Together
    <3> QED
      BY <3>2, <3>3 DEF Strict
  <2> QED
    BY <1>1, <2>1, <2>3, <2>4, <2>5
<1> QED
  BY <1>2, <1>3

\* Correct hardware runs have no cycle under the models they keep.
LEMMA CorrectIsExplained ==
  ASSUME RunInv, EventInv, Done, Correct, NEW m \in Models, hw = "sc" \/ m = hw
  PROVE  /\ ~ HasCycle(Mem(program), Local) /\ ~ HasCycle(Mem(program), Global(m))
         /\ Joined
<1> DEFINE M   == Mem(program)
           pos == [i \in M |-> Instant(i)]
<1>1. Settled /\ Dated /\ Shape /\ program \in Programs /\ hw # "weak" /\ Upto
  BY EndOfRun DEF Settled, RunInv, Types, Correct, EventInv
<1>2. /\ Loads(program) \subseteq M /\ Stores(program) \subseteq M
      /\ M = Loads(program) \cup Stores(program)
  BY <1>1 DEF Shape
<1>3. Ranks(Keeps(m) \cup Coh, M, pos)
  <2>1. \A j \in M : pos[j] \in Nat
    BY <1>1 DEF Dated
  <2>2. \A j, k \in M : pos[j] = pos[k] => j = k
    BY EndApart
  <2>3. ASSUME NEW j \in M, NEW k \in M, <<j, k>> \in Keeps(m)
        PROVE  pos[j] < pos[k]
    <3>1. j < k /\ Together(j, k) /\ Strict(j, k)
      BY <1>1, <2>3, KeptIsStrict
    <3> QED
      BY <1>1, <3>1, EndInTurn
  <2>4. ASSUME NEW j \in M, NEW k \in M, <<j, k>> \in Coh
        PROVE  pos[j] < pos[k]
    BY <1>1, <2>4 DEF Coh, Dated
  <2> QED
    BY <2>1, <2>2, <2>3, <2>4 DEF Ranks
<1>4. ASSUME NEW l \in Loads(program)
      PROVE  /\ source[l] # 0 => source[l] \in Sees(pos, l)
             /\ \A s \in Sees(pos, l) : Key[s] <= Key[l]
             /\ Op(l).rmw # None => Key[l + 1] = Key[l] + 1
  <2>1. l \in M /\ l \in issued /\ ReadsNewest(l)
    BY <1>1, <1>2, EndHappened DEF Upto
  <2>2. ASSUME NEW s
        PROVE  s \in Sees(pos, l) <=> s \in Known(l)
    <3>1. s \in Sees(pos, l) <=> /\ s \in Stores(program) /\ Alike(s, l)
                                 /\ pos[s] < pos[l] \/ (s < l /\ Together(s, l))
      BY <1>1, SeesMeans
    <3>2. s \in StoresTo(program, Op(l).addr) <=> s \in Stores(program) /\ Alike(s, l)
      BY <1>1, <2>1 DEF StoresTo, Alike, Op, Shape
    <3>3. s \in Stores(program) => /\ s \in issued /\ Happened(s)
                                   /\ pos[s] = Instant(s) /\ pos[l] = Instant(l)
      BY <1>2, <2>1, EndHappened
    <3> HIDE DEF pos
    <3> QED
      BY <3>1, <3>2, <3>3 DEF Known
  <2> HIDE DEF pos
  <2>3. ASSUME NEW s \in Sees(pos, l)
        PROVE  Key[s] <= Key[l]
    <3>1. s \in Stores(program) /\ Alike(s, l)
      BY <1>1, SeesMeans
    <3>2. s = source[l] \/ (source[l] # 0 /\ Ahead(s, source[l]))
      BY <2>1, <2>2 DEF ReadsNewest
    <3>3. /\ Key[s] \in Nat /\ Key[l] \in Nat /\ s # 0
          /\ source[l] # 0 => /\ source[l] \in Stores(program) /\ Alike(source[l], l)
                              /\ Key[source[l]] = Key[l]
      BY <1>1, <1>2, <3>1 DEF Settled, Shape
    <3>4. CASE s = source[l]
      BY <3>3, <3>4
    <3>5. CASE source[l] # 0 /\ Ahead(s, source[l])
      <4>1. Happened(s) /\ Happened(source[l]) /\ Alike(s, source[l])
        BY <1>2, <3>1, <3>3, <3>5, EndHappened DEF Alike
      <4>2. Instant(s) < Instant(source[l])
        BY <3>5, <4>1 DEF Ahead
      <4>3. Key[s] < Key[source[l]]
        BY <1>1, <3>1, <3>3, <3>5, <4>1, <4>2 DEF Dated
      <4> QED
        BY <3>3, <3>5, <4>3
    <3> QED
      BY <3>2, <3>4, <3>5
  <2>4. source[l] # 0 => source[l] \in Sees(pos, l)
    BY <2>1, <2>2 DEF ReadsNewest
  <2>5. Op(l).rmw # None => Key[l + 1] = Key[l] + 1
    BY <1>1, <2>1, KeyMeans DEF ReadsNewest, Shape, Alike
  <2> QED
    BY <2>3, <2>4, <2>5
<1> HIDE DEF pos
<1>5. Serial(pos) /\ Joined
  BY <1>4 DEF Serial, Joined
<1>6. ~ HasCycle(M, Local) /\ ~ HasCycle(M, Global(m))
  BY <1>1, <1>3, <1>5, ExplainedHasNoCycle
<1> QED
  BY <1>5, <1>6

\* The checker accuses no correct hardware under a model it keeps.
LEMMA CorrectIsNotAccused ==
  ASSUME RunInv, EventInv, Done, Correct, NEW m \in Models, hw = "sc" \/ m = hw,
         NEW marks \in Marks
  PROVE  Violations(Execution(marks), m) = {}
<1>1. Settled /\ Dated /\ Shape /\ program \in Programs
  BY EndOfRun DEF Settled, RunInv, Types
<1>2. ~ HasCycle(Mem(program), Local) /\ ~ HasCycle(Mem(program), Global(m)) /\ Joined
  BY CorrectIsExplained
<1>3. \E pos \in Orders(Required(m)) : Serial(pos)
  BY <1>1, <1>2, CyclesAreExact
<1>4. Explained(m)
  BY <1>1, <1>2, <1>3, ExplainedMeans
<1> QED
  BY <1>1, <1>4, CheckerIsExact

(***************************************************************************)
(* The coherence trace: where its events stand, and the order in which the *)
(* checker looks at them.                                                  *)
(***************************************************************************)
\* Numbers told apart below a bound reach every number below it.
LEMMA AllReached ==
  ASSUME NEW N \in Nat, NEW f \in [1..N -> 1..N], \A i, j \in 1..N : f[i] = f[j] => i = j
  PROVE  \A n \in 1..N : \E i \in 1..N : f[i] = n
<1>1. IsFiniteSet(1..N)
  BY FS_Interval
<1>2. f \in Injection(1..N, 1..N)
  BY DEF Injection, IsInjective
<1>3. f \in Surjection(1..N, 1..N)
  BY <1>1, <1>2, FS_Injection
<1> QED
  BY <1>3 DEF Surjection

Lower(N, f, e)  == {j \in 1..N : f[j] < f[e]}
Prior(N, R, e) == {m \in 1..N : <<m, e>> \in R}

\* How many come before one of them.
LEMMA CountBelow ==
  ASSUME NEW N \in Nat, NEW f \in [1..N -> 1..N], \A i, j \in 1..N : f[i] = f[j] => i = j,
         NEW i \in 1..N
  PROVE  Cardinality(Lower(N, f, i)) = f[i] - 1
<1> DEFINE J == {j \in 1..N : f[j] < f[i]}
           T == 1..(f[i] - 1)
           g == [j \in J |-> f[j]]
<1>1. f[i] \in 1..N /\ \A n \in 1..N : \E j \in 1..N : f[j] = n
  BY AllReached
<1>2. g \in [J -> T]
  BY <1>1
<1>3. \A x, y \in J : g[x] = g[y] => x = y
  OBVIOUS
<1>4. ASSUME NEW t \in T PROVE \E x \in J : g[x] = t
  <2>1. PICK x \in 1..N : f[x] = t
    BY <1>1
  <2> QED
    BY <1>1, <2>1
<1>5. IsFiniteSet(J)
  <2>1. IsFiniteSet(1..N)
    BY FS_Interval
  <2> QED
    BY <2>1, FS_Subset
<1>6. Cardinality(T) = f[i] - 1
  <2>1. PICK t : t = f[i] - 1
    OBVIOUS
  <2>2. t \in Int /\ 1 \in Int /\ T = 1..t /\ t >= 0
    BY <1>1, <2>1, SMTT(30)
  <2>3. Cardinality(1..t) = IF 1 > t THEN 0 ELSE t - 1 + 1
    BY <2>2, FS_Interval
  <2> QED
    BY <2>1, <2>2, <2>3
<1> HIDE DEF J, T, g
<1>7. g \in Bijection(J, T)
  BY <1>2, <1>3, <1>4 DEF Bijection, Injection, Surjection, IsInjective
<1>8. Cardinality(T) = Cardinality(J)
  BY <1>5, <1>7, FS_Bijection DEF ExistsBijection
<1> QED
  BY <1>6, <1>8 DEF J, Lower

\* What is chosen by how many come before it, in a strict total order.
LEMMA ChosenByCount ==
  ASSUME NEW N \in Nat, NEW R,
         \A x \in 1..N : <<x, x>> \notin R,
         \A x, y, z \in 1..N : <<x, y>> \in R /\ <<y, z>> \in R => <<x, z>> \in R,
         \A x, y \in 1..N : x # y => <<x, y>> \in R \/ <<y, x>> \in R
  PROVE  /\ \A n \in 1..N : \E e \in 1..N : Cardinality(Prior(N, R, e)) = n - 1
         /\ \A d, e \in 1..N : Cardinality(Prior(N, R, d)) = Cardinality(Prior(N, R, e)) => d = e
<1> DEFINE Pred(e) == Prior(N, R, e)
           r == [e \in 1..N |-> Cardinality(Pred(e)) + 1]
<1>0. /\ \A e \in 1..N : Pred(e) \in SUBSET (1..N) /\ e \notin Pred(e)
      /\ \A e \in 1..N : Pred(e) \cup {e} \in SUBSET (1..N)
      /\ \A d, e \in 1..N : <<d, e>> \in R => Pred(d) \cup {d} \in SUBSET Pred(e)
  <2>1. /\ \A e \in 1..N : Pred(e) \in SUBSET (1..N) /\ e \notin Pred(e)
        /\ \A e \in 1..N : Pred(e) \cup {e} \in SUBSET (1..N)
    BY DEF Prior
  <2>2. ASSUME NEW d \in 1..N, NEW e \in 1..N, <<d, e>> \in R
        PROVE  Pred(d) \cup {d} \in SUBSET Pred(e)
    BY <2>2 DEF Prior
  <2> HIDE DEF Pred
  <2> QED
    BY <2>1, <2>2
<1>5a. \A e \in 1..N : r[e] = Cardinality(Pred(e)) + 1
  OBVIOUS
<1>5b. r = [e \in 1..N |-> r[e]]
  OBVIOUS
<1> HIDE DEF Pred, r
<1>1. IsFiniteSet(1..N) /\ Cardinality(1..N) = N
  BY FS_Interval
<1>2. ASSUME NEW e \in 1..N
      PROVE  IsFiniteSet(Pred(e)) /\ Cardinality(Pred(e)) \in Nat
             /\ Cardinality(Pred(e) \cup {e}) = Cardinality(Pred(e)) + 1
             /\ IsFiniteSet(Pred(e) \cup {e})
  <2>1. IsFiniteSet(Pred(e))
    BY <1>0, <1>1, FS_Subset
  <2> QED
    BY <1>0, <2>1, FS_CardinalityType, FS_AddElement
<1>3. ASSUME NEW e \in 1..N PROVE r[e] \in 1..N
  <2>1. Pred(e) \cup {e} \in SUBSET (1..N)
    BY <1>0
  <2>2. Cardinality(Pred(e) \cup {e}) <= N
    BY <1>1, <2>1, FS_Subset
  <2> QED
    BY <1>2, <1>5a, <2>2
<1>4. ASSUME NEW d \in 1..N, NEW e \in 1..N, <<d, e>> \in R PROVE r[d] < r[e]
  <2>1. Pred(d) \cup {d} \in SUBSET Pred(e)
    BY <1>0, <1>4
  <2>2. Cardinality(Pred(d) \cup {d}) <= Cardinality(Pred(e))
    BY <1>2, <2>1, FS_Subset
  <2>3. Cardinality(Pred(d)) \in Nat /\ Cardinality(Pred(e)) \in Nat
        /\ Cardinality(Pred(d) \cup {d}) = Cardinality(Pred(d)) + 1
    BY <1>2
  <2> QED
    BY <1>5a, <2>2, <2>3
<1>5. r \in [1..N -> 1..N]
  BY <1>3, <1>5b
<1>6. \A e \in 1..N, n \in 1..N : r[e] = n <=> Cardinality(Pred(e)) = n - 1
  <2> SUFFICES ASSUME NEW e \in 1..N, NEW n \in 1..N
               PROVE  r[e] = n <=> Cardinality(Pred(e)) = n - 1
    OBVIOUS
  <2>1. Cardinality(Pred(e)) \in Nat /\ r[e] = Cardinality(Pred(e)) + 1
    BY <1>2, <1>5a
  <2> QED
    BY <2>1
<1>7. \A d, e \in 1..N : r[d] = r[e] => d = e
  <2>1. ASSUME NEW d \in 1..N, NEW e \in 1..N, r[d] = r[e], d # e PROVE FALSE
    <3>1. r[d] < r[e] \/ r[e] < r[d]
      BY <1>4, <2>1
    <3>2. r[d] \in Nat /\ r[e] \in Nat
      BY <1>3
    <3> QED
      BY <2>1, <3>1, <3>2
  <2> QED
    BY <2>1
<1>8. \A n \in 1..N : \E e \in 1..N : r[e] = n
  BY <1>5, <1>7, AllReached, ZenonT(30)
<1>9. \A n \in 1..N : \E e \in 1..N : Cardinality(Pred(e)) = n - 1
  BY <1>6, <1>8
<1>10. \A d, e \in 1..N : Cardinality(Pred(d)) = Cardinality(Pred(e)) => d = e
  BY <1>5a, <1>7
<1> QED
  BY <1>9, <1>10 DEF Pred

\* What is chosen by how many numbers are below its own.
LEMMA ChosenBelow ==
  ASSUME NEW N \in Nat, NEW f \in [1..N -> 1..N], \A i, j \in 1..N : f[i] = f[j] => i = j
  PROVE  /\ \A n \in 1..N : \E e \in 1..N : Cardinality(Lower(N, f, e)) = n - 1
         /\ \A n \in 1..N : \A e \in 1..N : Cardinality(Lower(N, f, e)) = n - 1 => f[e] = n
<1>1. \A e \in 1..N : Cardinality(Lower(N, f, e)) = f[e] - 1
  BY CountBelow
<1> SUFFICES ASSUME NEW n \in 1..N
             PROVE  /\ \E e \in 1..N : Cardinality(Lower(N, f, e)) = n - 1
                    /\ \A e \in 1..N : Cardinality(Lower(N, f, e)) = n - 1 => f[e] = n
  OBVIOUS
<1>2. PICK e \in 1..N : f[e] = n
  BY AllReached, SMTT(30)
<1>3. \E d \in 1..N : Cardinality(Lower(N, f, d)) = n - 1
  BY <1>1, <1>2
<1>4. ASSUME NEW d \in 1..N, Cardinality(Lower(N, f, d)) = n - 1 PROVE f[d] = n
  <2>1. f[d] \in Int /\ f[d] - 1 = n - 1
    BY <1>1, <1>4
  <2> QED
    BY <2>1
<1> QED
  BY <1>3, <1>4

\* The trace lists the events in some order, each once.
LEMMA ListedPlaces ==
  ASSUME NEW N \in Nat, DOMAIN events = 1..N, \A n \in 1..N : events[n] \in Events, NEW marks,
         NEW list, list = Listed(marks)
  PROVE  /\ N \in Nat /\ list \in [1..N -> 1..N]
         /\ \A i, j \in 1..N : list[i] = list[j] => i = j
         /\ "cycle" \notin marks => \A n \in 1..N : list[n] = n
<1>0. N \in Nat
  OBVIOUS
<1>1. N \in Nat /\ DOMAIN events = 1..N /\ \A n \in 1..N : events[n].core \in Nat
  <2>2. \A e \in Events : e.core \in Nat
    BY ProgramsAssumption DEF Events
  <2> QED
    BY <2>2
<1> DEFINE Earliest(e) == {m \in DOMAIN events : Before(marks, m, e)}
<1>2. /\ list = [n \in 1..N |-> list[n]]
      /\ \A n \in 1..N : list[n] = CHOOSE e \in 1..N : Cardinality(Earliest(e)) = n - 1
  <2> DEFINE Chosen(n) == CHOOSE e \in 1..N : Cardinality(Earliest(e)) = n - 1
  <2>1. list = [n \in 1..N |-> Chosen(n)]
    BY <1>1 DEF Listed
  <2> HIDE DEF Chosen
  <2>2. list = [n \in 1..N |-> list[n]] /\ \A n \in 1..N : list[n] = Chosen(n)
    BY <2>1
  <2> QED
    BY <2>2 DEF Chosen
<1>3. \A n \in 1..N : (\E e \in 1..N : Cardinality(Earliest(e)) = n - 1) =>
        list[n] \in 1..N /\ Cardinality(Earliest(list[n])) = n - 1
  <2> HIDE DEF Earliest
  <2> QED
    BY <1>2
<1>4. CASE "cycle" \in marks
  <2>0. PICK R : R = {p \in (1..N) \X (1..N) : Before(marks, p[1], p[2])}
    OBVIOUS
  <2>1. \A x, y \in 1..N : <<x, y>> \in R <=>
          IF events[x].core # events[y].core THEN events[x].core < events[y].core ELSE x < y
    BY <1>1, <1>4, <2>0 DEF Before
  <2>2. \A e \in 1..N : Earliest(e) = Prior(N, R, e)
    BY <1>1, <2>0 DEF Prior
  <2> HIDE DEF Earliest
  <2>6. /\ \A n \in 1..N : \E e \in 1..N : Cardinality(Prior(N, R, e)) = n - 1
        /\ \A d, e \in 1..N : Cardinality(Prior(N, R, d)) = Cardinality(Prior(N, R, e)) => d = e
    <3>1. \A x \in 1..N : <<x, x>> \notin R
      BY <1>1, <2>1
    <3>2. \A x, y, z \in 1..N : <<x, y>> \in R /\ <<y, z>> \in R => <<x, z>> \in R
      BY <1>1, <2>1
    <3>3. \A x, y \in 1..N : x # y => <<x, y>> \in R \/ <<y, x>> \in R
      BY <1>1, <2>1
    <3> QED
      BY <1>0, <3>1, <3>2, <3>3, ChosenByCount
  <2>7. ASSUME NEW n \in 1..N
        PROVE  list[n] \in 1..N /\ Cardinality(Earliest(list[n])) = n - 1
    BY <1>3, <2>2, <2>6
  <2>8. ASSUME NEW i \in 1..N, NEW j \in 1..N, list[i] = list[j] PROVE i = j
    <3>1. i - 1 = j - 1
      BY <2>7, <2>8
    <3> QED
      BY <3>1
  <2>9. list \in [1..N -> 1..N]
    BY <1>2, <2>7
  <2> QED
    BY <1>1, <1>4, <2>8, <2>9
<1>5. CASE "cycle" \notin marks
  <2> DEFINE f == [n \in 1..N |-> n]
  <2>1. f \in [1..N -> 1..N] /\ \A i, j \in 1..N : f[i] = f[j] => i = j
    OBVIOUS
  <2>2. \A e \in 1..N : Earliest(e) = Lower(N, f, e)
    BY <1>1, <1>5 DEF Before, Lower
  <2>3. \A n \in 1..N : f[n] = n
    OBVIOUS
  <2> HIDE DEF Earliest, f
  <2>4. /\ \A n \in 1..N : \E e \in 1..N : Cardinality(Lower(N, f, e)) = n - 1
        /\ \A n \in 1..N : \A e \in 1..N : Cardinality(Lower(N, f, e)) = n - 1 => f[e] = n
    BY <1>0, <2>1, ChosenBelow
  <2>4a. ASSUME NEW n \in 1..N PROVE list[n] \in 1..N /\ f[list[n]] = n
    <3>1. list[n] \in 1..N /\ Cardinality(Earliest(list[n])) = n - 1
      BY <1>3, <2>2, <2>4
    <3>2. Cardinality(Lower(N, f, list[n])) = n - 1
      BY <2>2, <3>1
    <3> QED
      BY <2>4, <3>1, <3>2
  <2>5. \A n \in 1..N : list[n] = n
    BY <2>3, <2>4a
  <2> QED
    BY <1>1, <1>2, <2>5
<1> QED
  BY <1>4, <1>5

\* What the trace says of an event.
LEMMA TraceFields ==
  ASSUME NEW N \in Nat, DOMAIN events = 1..N, \A n \in 1..N : events[n] \in Events, NEW marks,
         NEW list, list = Listed(marks), NEW evs, evs = CoherenceTrace(marks)
  PROVE  /\ N \in Nat /\ DOMAIN evs = 1..N
         /\ \A n \in 1..N : \A e : e = events[list[n]] =>
              /\ evs[n].core = e.core /\ evs[n].op = e.op /\ evs[n].addr = e.addr
              /\ evs[n].state = (IF "cycle" \in marks THEN e.state ELSE None)
              /\ evs[n].value = (IF e.id = 0 THEN None
                                 ELSE IF e.op = "store" THEN Value(e.id) ELSE Value(source[e.id]))
              /\ evs[n].ver = (IF e.id # 0 /\ "rf" \in marks THEN Version(e.id) ELSE None)
              /\ evs[n].cycle = (IF "cycle" \in marks THEN list[n] ELSE None)
<1>1. N \in Nat /\ DOMAIN events = 1..N
  OBVIOUS
<1>2. evs = [n \in 1..N |->
         [core |-> events[list[n]].core, op |-> events[list[n]].op, addr |-> events[list[n]].addr,
              state |-> IF "cycle" \in marks THEN events[list[n]].state ELSE None,
              value |-> IF events[list[n]].id = 0 THEN None
                        ELSE IF events[list[n]].op = "store" THEN Value(events[list[n]].id)
                        ELSE Value(source[events[list[n]].id]),
              ver   |-> IF events[list[n]].id # 0 /\ "rf" \in marks
                        THEN Version(events[list[n]].id) ELSE None,
              cycle |-> IF "cycle" \in marks THEN list[n] ELSE None]]
  BY <1>1, Zenon DEF CoherenceTrace
<1> QED
  BY <1>1, <1>2

\* The checker looks at the events in the order of their effect.
LEMMA InOrderOfEffect ==
  ASSUME NEW N \in Nat, DOMAIN events = 1..N, \A n \in 1..N : events[n] \in Events, NEW marks,
         NEW list, list = Listed(marks), NEW evs, evs = CoherenceTrace(marks),
         NEW V, V = Coherence!Visibility(evs)
  PROVE  /\ N \in Nat /\ DOMAIN V = 1..N
         /\ \A n \in 1..N : V[n] \in 1..N /\ list[V[n]] = n
<1>0. N \in Nat
  OBVIOUS
<1>1. /\ N \in Nat /\ DOMAIN evs = 1..N
      /\ \A n \in 1..N : evs[n].cycle = (IF "cycle" \in marks THEN list[n] ELSE None)
  BY TraceFields
<1>2. /\ list \in [1..N -> 1..N] /\ \A i, j \in 1..N : list[i] = list[j] => i = j
      /\ "cycle" \notin marks => \A n \in 1..N : list[n] = n
  BY ListedPlaces
<1>3. \A i, j \in 1..N : Coherence!Earlier(evs, i, j) <=> list[i] < list[j]
  <2>1. CASE "cycle" \in marks
    <3>1. None \notin Nat
      BY ProgramsAssumption
    <3>2. \A i \in 1..N : evs[i].cycle = list[i] /\ list[i] \in 1..N /\ evs[i].cycle # None
      BY <1>1, <1>2, <2>1, <3>1
    <3> QED
      BY <1>1, <1>2, <3>2 DEF Coherence!Earlier
  <2>2. CASE "cycle" \notin marks
    <3>1. \A i \in 1..N : evs[i].cycle = None /\ list[i] = i
      BY <1>1, <1>2, <2>2
    <3> QED
      BY <1>1, <3>1 DEF Coherence!Earlier
  <2> QED
    BY <2>1, <2>2
<1> DEFINE Earliest(i) == {j \in DOMAIN evs : Coherence!Earlier(evs, j, i)}
<1>4. DOMAIN V = 1..N /\ \A n \in 1..N : V[n] = CHOOSE i \in 1..N : Cardinality(Earliest(i)) = n - 1
  <2> DEFINE Chosen(n) == CHOOSE i \in 1..N : Cardinality(Earliest(i)) = n - 1
  <2>1. V = [n \in 1..N |-> Chosen(n)]
    <3>1. \A S : Coherence!Cardinality(S) = Cardinality(S)
      BY DEF Coherence!Cardinality, Cardinality
    <3>2. V = [n \in 1..N |-> CHOOSE i \in 1..N : Coherence!Cardinality(Earliest(i)) = n - 1]
      BY <1>1 DEF Coherence!Visibility
    <3> HIDE DEF Earliest
    <3> QED
      BY <3>1, <3>2
  <2> HIDE DEF Chosen
  <2>2. DOMAIN V = 1..N /\ \A n \in 1..N : V[n] = Chosen(n)
    BY <2>1
  <2> QED
    BY <2>2 DEF Chosen
<1>5. \A i \in 1..N : Earliest(i) = Lower(N, list, i)
  BY <1>1, <1>3 DEF Lower
<1> HIDE DEF Earliest
<1>6. /\ \A n \in 1..N : \E e \in 1..N : Cardinality(Lower(N, list, e)) = n - 1
      /\ \A n \in 1..N : \A e \in 1..N : Cardinality(Lower(N, list, e)) = n - 1 => list[e] = n
  <2>1. list \in [1..N -> 1..N]
    BY <1>2
  <2>2. \A i, j \in 1..N : list[i] = list[j] => i = j
    BY <1>2
  <2> QED
    BY <1>0, <2>1, <2>2, ChosenBelow
<1>7. ASSUME NEW n \in 1..N PROVE V[n] \in 1..N /\ list[V[n]] = n
  <2>1. (\E i \in 1..N : Cardinality(Earliest(i)) = n - 1) =>
           V[n] \in 1..N /\ Cardinality(Earliest(V[n])) = n - 1
    BY <1>4
  <2> QED
    BY <1>5, <1>6, <2>1
<1> QED
  BY <1>1, <1>4, <1>7

(***************************************************************************)
(* The checker's pass, as the fold builds it.                              *)
(***************************************************************************)
Stepped(evs, V, S, f) ==
  IF S = {} THEN Coherence!Fresh(Cores, Addrs)
  ELSE Coherence!CheckEvent(f[S \ {Max(S)}], evs[V[Max(S)]], V[Max(S)])

Passes(evs, V, U, f) == f = [S \in SUBSET U |-> Stepped(evs, V, S, f)]
PassOf(evs, V, U)    == CHOOSE f : Passes(evs, V, U, f)

\* The alarms are those of the pass over all positions.
LEMMA AlarmsAre ==
  ASSUME NEW evs
  PROVE  Coherence!Alarms(evs, Cores, Addrs) =
           PassOf(evs, Coherence!Visibility(evs), DOMAIN Coherence!Visibility(evs))
             [DOMAIN Coherence!Visibility(evs)].alarms
BY DEF Coherence!Alarms, PassOf, Passes, Stepped, Coherence!FoldLeft, Coherence!MapThenFoldSet,
       Coherence!Max, Max

\* A nonempty set of numbers below a bound has a greatest one.
LEMMA Greatest ==
  ASSUME NEW N \in Nat, NEW S \in SUBSET (1..N), S # {}
  PROVE  Max(S) \in S /\ \A y \in S : Max(S) >= y
<1> DEFINE left == [k \in S |-> N - k]
<1>1. \A k \in S : left[k] \in Nat /\ left[k] = N - k
  OBVIOUS
<1> HIDE DEF left
<1>2. PICK k \in S : \A j \in S : left[k] <= left[j]
  BY <1>1, Lowest
<1>3. \A j \in S : k >= j
  <2> SUFFICES ASSUME NEW j \in S PROVE k >= j
    OBVIOUS
  <2>1. left[k] <= left[j] /\ left[k] = N - k /\ left[j] = N - j /\ k \in Int /\ j \in Int
    BY <1>1, <1>2
  <2> QED
    BY <2>1
<1> QED
  BY <1>3 DEF Max

\* A step of the pass depends on the positions before it only.
LEMMA SteppedSame ==
  ASSUME NEW evs, NEW V, NEW S, NEW f, NEW g, S # {} => f[S \ {Max(S)}] = g[S \ {Max(S)}]
  PROVE  Stepped(evs, V, S, f) = Stepped(evs, V, S, g)
BY DEF Stepped

Within(N, S) == N \in Nat /\ S \in SUBSET (1..N)

\* Two passes agree where both are defined.
LEMMA PassesAgree ==
  ASSUME NEW evs, NEW V, NEW N, NEW S, Within(N, S), NEW g, Passes(evs, V, S, g),
         NEW W \in SUBSET S, NEW h, Passes(evs, V, W, h)
  PROVE  g[W] = h[W]
<1> DEFINE G == {U \in SUBSET W : g[U] = h[U]}
<1>1. ASSUME NEW U \in SUBSET W, \A X \in SUBSET U : X # U => X \in G
      PROVE  U \in G
  <2>1. g[U] = Stepped(evs, V, U, g) /\ h[U] = Stepped(evs, V, U, h)
    BY DEF Passes
  <2>2. U # {} => g[U \ {Max(U)}] = h[U \ {Max(U)}]
    <3>1. U # {} => Max(U) \in U
      BY Greatest DEF Within
    <3> QED
      BY <1>1, <3>1
  <2>3. Stepped(evs, V, U, g) = Stepped(evs, V, U, h)
    BY <2>2, SteppedSame
  <2> QED
    BY <2>1, <2>3
<1>2. IsFiniteSet(W)
  <2>1. IsFiniteSet(1..N) /\ W \in SUBSET (1..N)
    BY FS_Interval DEF Within
  <2> QED
    BY <2>1, FS_Subset
<1>3. W \in G
  <2> HIDE DEF G
  <2> QED
    BY <1>1, <1>2, SetInduction
<1> QED
  BY <1>3

\* There is one for any number of events.
LEMMA PassExists ==
  ASSUME NEW evs, NEW V, NEW N \in Nat
  PROVE  Passes(evs, V, 1..N, PassOf(evs, V, 1..N))
<1> DEFINE G == {U \in SUBSET (1..N) : Passes(evs, V, U, PassOf(evs, V, U))}
<1>1. ASSUME NEW U \in SUBSET (1..N), \A X \in SUBSET U : X # U => X \in G
      PROVE  U \in G
  <2> DEFINE val == [X \in SUBSET U |-> PassOf(evs, V, X)[X]]
             g == [X \in SUBSET U |-> IF X = U THEN Stepped(evs, V, U, val) ELSE val[X]]
  <2>1. ASSUME NEW X \in SUBSET U, X # U PROVE g[X] = Stepped(evs, V, X, g)
    <3>1. Passes(evs, V, X, PassOf(evs, V, X)) /\ X \in SUBSET (1..N)
      BY <1>1, <2>1
    <3>2. g[X] = Stepped(evs, V, X, PassOf(evs, V, X))
      BY <2>1, <3>1 DEF Passes
    <3>3. X # {} => PassOf(evs, V, X)[X \ {Max(X)}] = g[X \ {Max(X)}]
      <4> SUFFICES ASSUME X # {} PROVE PassOf(evs, V, X)[X \ {Max(X)}] = g[X \ {Max(X)}]
        OBVIOUS
      <4> DEFINE Y == X \ {Max(X)}
      <4>1. Max(X) \in X
        BY <3>1, Greatest
      <4>2. Y \in SUBSET U /\ Y # U /\ Y \in SUBSET X
        BY <2>1, <4>1
      <4>3. Passes(evs, V, Y, PassOf(evs, V, Y))
        BY <1>1, <4>2
      <4>4. g[Y] = PassOf(evs, V, Y)[Y]
        BY <4>2
      <4> HIDE DEF Y, g
      <4>5. PassOf(evs, V, X)[Y] = PassOf(evs, V, Y)[Y]
        <5>1. PICK p, q, W : p = PassOf(evs, V, X) /\ q = PassOf(evs, V, Y) /\ W = Y
          OBVIOUS
        <5>2. Passes(evs, V, X, p)
          BY <3>1, <5>1
        <5>4. W \in SUBSET X
          BY <4>2, <5>1
        <5>5. Passes(evs, V, W, q)
          BY <4>3, <5>1
        <5>6. Within(N, X)
          BY <3>1 DEF Within
        <5>3. p[W] = q[W]
          BY <5>2, <5>4, <5>5, <5>6, PassesAgree
        <5> QED
          BY <5>1, <5>3
      <4> QED
        BY <4>4, <4>5 DEF Y
    <3>4. Stepped(evs, V, X, PassOf(evs, V, X)) = Stepped(evs, V, X, g)
      <4> HIDE DEF g
      <4> QED
        BY <3>3, SteppedSame
    <3> QED
      BY <3>2, <3>4
  <2>2. g[U] = Stepped(evs, V, U, g)
    <3>1. g[U] = Stepped(evs, V, U, val)
      OBVIOUS
    <3>2. U # {} => val[U \ {Max(U)}] = g[U \ {Max(U)}]
      <4>1. U # {} => Max(U) \in U
        BY Greatest
      <4>2. \A X \in SUBSET U : X # U => val[X] = g[X]
        OBVIOUS
      <4> HIDE DEF g, val
      <4> QED
        BY <4>1, <4>2
    <3>3. Stepped(evs, V, U, val) = Stepped(evs, V, U, g)
      <4> HIDE DEF g, val
      <4> QED
        BY <3>2, SteppedSame
    <3> QED
      BY <3>1, <3>3
  <2>3. g = [X \in SUBSET U |-> g[X]]
    OBVIOUS
  <2>4. Passes(evs, V, U, g)
    <3> HIDE DEF g
    <3> QED
      BY <2>1, <2>2, <2>3 DEF Passes
  <2> QED
    BY <2>4 DEF PassOf
<1> HIDE DEF G
<1>2. IsFiniteSet(1..N)
  BY FS_Interval
<1>3. \A U \in SUBSET (1..N) : U \in G
  BY <1>1, <1>2, SetInduction
<1> QED
  BY <1>3 DEF G

\* The pass looks at one event after another.
LEMMA PassSteps ==
  ASSUME NEW evs, NEW V, NEW N \in Nat, NEW f, f = PassOf(evs, V, 1..N)
  PROVE  /\ f[1..0] = Coherence!Fresh(Cores, Addrs)
         /\ \A n \in 1..N : \A m : m = n - 1 =>
              f[1..n] = Coherence!CheckEvent(f[1..m], evs[V[n]], V[n])
<1>0. Passes(evs, V, 1..N, f)
  BY PassExists
<1>1. f = [S \in SUBSET (1..N) |-> Stepped(evs, V, S, f)]
  BY <1>0 DEF Passes
<1>2. f[1..0] = Coherence!Fresh(Cores, Addrs)
  <2>1. 1..0 = {} /\ {} \in SUBSET (1..N)
    OBVIOUS
  <2>2. f[{}] = Stepped(evs, V, {}, f)
    BY <1>1, <2>1
  <2> QED
    BY <2>1, <2>2 DEF Stepped
<1>3. ASSUME NEW n \in 1..N, NEW m, m = n - 1
      PROVE  f[1..n] = Coherence!CheckEvent(f[1..m], evs[V[n]], V[n])
  <2>1. n \in Nat /\ 1..n \in SUBSET (1..N) /\ 1..n # {} /\ n \in 1..n
    OBVIOUS
  <2>2. Max(1..n) \in 1..n /\ Max(1..n) >= n
    BY <2>1, Greatest
  <2>3. Max(1..n) = n
    BY <2>2
  <2>4. (1..n) \ {n} = 1..m
    BY <1>3
  <2>5. f[1..n] = Stepped(evs, V, 1..n, f)
    BY <1>1, <2>1
  <2> QED
    BY <2>1, <2>3, <2>4, <2>5 DEF Stepped
<1> QED
  BY <1>2, <1>3

(***************************************************************************)
(* What looking at one event does to what the checker keeps.               *)
(***************************************************************************)
Writes == [ver : Nat, value : Nat]
Checks == {"read_from_valid", "coherence_read_monotonic", "swmr"}

PassStates == [writes : [Addrs -> Seq(Writes)], seen : [Cores \X Addrs -> Int],
                state : [Cores \X Addrs -> {"M", "E", "S", "I"}], cores : SUBSET Cores,
                alarms : SUBSET (Nat \X Checks)]

Stored(k, e, c, a, ver) ==
  /\ e.core = c /\ e.addr = a /\ e.value \in Nat /\ ver \in Nat
  /\ ver = (IF e.ver # None THEN e.ver ELSE Len(k.writes[a]))

\* What the checker keeps after a store, field by field,
LEMMA StoreFields ==
  ASSUME NEW k \in PassStates, NEW e, NEW c \in Cores, NEW a \in Addrs, NEW ver,
         Stored(k, e, c, a, ver), NEW r, r = Coherence!CheckStore(k, e)
  PROVE  /\ r \in PassStates
         /\ r.writes = [k.writes EXCEPT ![a] = Append(@, [ver |-> ver, value |-> e.value])]
         /\ r.seen = [k.seen EXCEPT ![<<c, a>>] = IF @ < ver THEN ver ELSE @]
         /\ r.state = k.state /\ r.cores = k.cores /\ r.alarms = k.alarms
<1>1. PICK w, s : /\ w = [k.writes EXCEPT ![a] = Append(@, [ver |-> ver, value |-> e.value])]
                  /\ s = [k.seen EXCEPT ![<<c, a>>] = IF @ < ver THEN ver ELSE @]
  OBVIOUS
<1>2. r = [k EXCEPT !.writes = w, !.seen = s]
  BY <1>1 DEF Stored, Coherence!CheckStore, Coherence!Greater
<1>3. w \in [Addrs -> Seq(Writes)] /\ s \in [Cores \X Addrs -> Int]
  <2>1. [ver |-> ver, value |-> e.value] \in Writes
    BY DEF Stored, Writes
  <2>2. k.writes \in [Addrs -> Seq(Writes)] /\ k.seen \in [Cores \X Addrs -> Int]
    BY DEF PassStates
  <2>3. ver \in Int
    BY DEF Stored
  <2> QED
    BY <1>1, <2>1, <2>2, <2>3
<1> QED
  BY <1>1, <1>2, <1>3 DEF PassStates

\* and after a load.
LEMMA LoadFields ==
  ASSUME NEW k \in PassStates, NEW e, NEW c \in Cores, NEW a \in Addrs, e.core = c, e.addr = a,
         NEW i \in Nat, NEW ver, ver = Coherence!Matched(k, e), ver \in Int \cup {None},
         NEW r, r = Coherence!CheckLoad(k, e, i)
  PROVE  /\ r \in PassStates
         /\ r.writes = k.writes
         /\ r.seen = IF ver = None THEN k.seen
                     ELSE [k.seen EXCEPT ![<<c, a>>] = IF @ < ver THEN ver ELSE @]
         /\ r.state = k.state /\ r.cores = k.cores
         /\ \A al : al \in r.alarms <=>
              \/ al \in k.alarms
              \/ al = <<i, "read_from_valid">> /\ ver = None /\ e.value # None
              \/ al = <<i, "coherence_read_monotonic">> /\ ver # None /\ ver < k.seen[<<c, a>>]
<1>1. PICK s, al : /\ s = (IF ver = None THEN k.seen
                           ELSE [k.seen EXCEPT ![<<c, a>>] = IF @ < ver THEN ver ELSE @])
                   /\ al = (IF ver = None
                            THEN IF e.value = None THEN k.alarms
                                 ELSE k.alarms \cup {<<i, "read_from_valid">>}
                            ELSE k.alarms \cup (IF ver < k.seen[<<c, a>>]
                                   THEN {<<i, "coherence_read_monotonic">>} ELSE {}))
  OBVIOUS
<1>2. k.seen \in [Cores \X Addrs -> Int] /\ k.alarms \in SUBSET (Nat \X Checks)
  BY DEF PassStates
<1>3. s \in [Cores \X Addrs -> Int]
  BY <1>1, <1>2
<1>4. al \in SUBSET (Nat \X Checks)
  BY <1>1, <1>2 DEF Checks
<1>5. r = [k EXCEPT !.seen = s, !.alarms = al]
  <2>1. CASE ver = None /\ e.value = None
    BY <1>1, <2>1 DEF Coherence!CheckLoad, PassStates
  <2>2. CASE ver = None /\ e.value # None
    BY <1>1, <2>2 DEF Coherence!CheckLoad, PassStates
  <2>3. CASE ver # None
    BY <1>1, <2>3 DEF Coherence!CheckLoad, Coherence!Greater, PassStates
  <2> QED
    BY <2>1, <2>2, <2>3
<1>6. r \in PassStates /\ r.writes = k.writes /\ r.seen = s /\ r.state = k.state /\ r.cores = k.cores
      /\ r.alarms = al
  BY <1>3, <1>4, <1>5 DEF PassStates
<1> QED
  BY <1>1, <1>6

\* More than one is two that differ.
LEMMA TwoOfThem ==
  ASSUME NEW S, IsFiniteSet(S)
  PROVE  Cardinality(S) > 1 <=> \E x, y \in S : x # y
<1>1. Cardinality(S) \in Nat
  BY FS_CardinalityType
<1>2. ASSUME NEW x \in S, NEW y \in S, x # y PROVE Cardinality(S) > 1
  <2>1. Cardinality(S) # 0
    BY FS_EmptySet
  <2>2. Cardinality(S) # 1
    <3>1. Cardinality(S) = 1 => \E z : S = {z}
      BY FS_Singleton
    <3> QED
      BY <1>2, <3>1
  <2> QED
    BY <1>1, <2>1, <2>2
<1>3. ASSUME Cardinality(S) > 1 PROVE \E x, y \in S : x # y
  <2>1. S # {}
    BY <1>3, FS_EmptySet
  <2>2. PICK x : x \in S
    BY <2>1
  <2>3. S # {x}
    <3>1. Cardinality({x}) = 1
      BY FS_Singleton
    <3> QED
      BY <1>3, <3>1
  <2> QED
    BY <2>2, <2>3
<1> QED
  BY <1>2, <1>3

\* Of the cores in S, by the states t, one may write what another may read.
Beside(S, t, a) ==
  \E d, f \in S : d # f /\ t[<<d, a>>] \in Exclusive /\ t[<<f, a>>] \in Valid

\* The states t are the states s, with x for the line of c.
Moved(s, t, c, a, x) ==
  \A d \in Cores, b \in Addrs : t[<<d, b>>] = IF d = c /\ b = a THEN x ELSE s[<<d, b>>]

\* From k to r, the alarm of the event i is raised if such cores are found.
Compared(k, r, i, a) ==
  \A al : al \in r.alarms <=>
         al \in k.alarms \/ (al = <<i, "swmr">> /\ Beside(r.cores, r.state, a))

OfLine(e, c, a) == e.core = c /\ e.addr = a /\ e.state \in {"M", "E", "S", "I"}

\* Two cores clash on a line, by the states last told.
LEMMA SwmrFields ==
  ASSUME NEW k \in PassStates, NEW e, NEW c \in Cores, NEW a \in Addrs, OfLine(e, c, a),
         NEW i \in Nat,
         NEW r, r = Coherence!CheckSwmr(k, e, i)
  PROVE  /\ r \in PassStates
         /\ r.writes = k.writes /\ r.seen = k.seen /\ r.cores = k.cores
         /\ Moved(k.state, r.state, c, a, e.state)
         /\ Compared(k, r, i, a)
<1>0. e.core = c /\ e.addr = a /\ e.state \in {"M", "E", "S", "I"}
  BY DEF OfLine
<1>1. PICK t : t = [k.state EXCEPT ![<<c, a>>] = e.state]
  OBVIOUS
<1>2. t \in [Cores \X Addrs -> {"M", "E", "S", "I"}] /\ k.alarms \in SUBSET (Nat \X Checks)
      /\ k.cores \in SUBSET Cores
  BY <1>0, <1>1 DEF PassStates
<1>3. PICK O, W : /\ O = {d \in k.cores : t[<<d, a>>] \in {"M", "E"}}
                  /\ W = {d \in k.cores : t[<<d, a>>] \in {"M", "E", "S"}}
  OBVIOUS
<1>4. \A S : Coherence!Cardinality(S) = Cardinality(S)
  BY DEF Coherence!Cardinality, Cardinality
<1>5. PICK al : al = k.alarms \cup (IF Cardinality(O) > 1 \/ (O # {} /\ Cardinality(W) > 1)
                                    THEN {<<i, "swmr">>} ELSE {})
  OBVIOUS
<1>6. PICK now : now = [k EXCEPT !.state = t]
  OBVIOUS
<1>7. now = [k EXCEPT !.state[<<e.core, e.addr>>] = e.state] /\ now.state = t
      /\ now.alarms = k.alarms
  BY <1>0, <1>1, <1>6 DEF PassStates
<1>8. r = [now EXCEPT !.alarms = al]
  <2>1. r = LET n == [k EXCEPT !.state[<<e.core, e.addr>>] = e.state]
                owners == {d \in k.cores : n.state[<<d, e.addr>>] \in {"M", "E"}}
                valid  == {d \in k.cores : n.state[<<d, e.addr>>] \in {"M", "E", "S"}}
                broken == Cardinality(owners) > 1 \/ (owners # {} /\ Cardinality(valid) > 1)
            IN  [n EXCEPT !.alarms = @ \cup (IF broken THEN {<<i, "swmr">>} ELSE {})]
    BY <1>4 DEF Coherence!CheckSwmr, Coherence!Exclusive, Coherence!Valid
  <2>2. {d \in k.cores : now.state[<<d, e.addr>>] \in {"M", "E"}} = O
    BY <1>0, <1>3, <1>7
  <2>3. {d \in k.cores : now.state[<<d, e.addr>>] \in {"M", "E", "S"}} = W
    BY <1>0, <1>3, <1>7
  <2>4. r = LET broken == Cardinality(O) > 1 \/ (O # {} /\ Cardinality(W) > 1)
            IN  [now EXCEPT !.alarms = @ \cup (IF broken THEN {<<i, "swmr">>} ELSE {})]
    BY <1>0, <1>7, <2>1, <2>2, <2>3
  <2> QED
    BY <1>5, <1>7, <2>4
<1>9. al \in SUBSET (Nat \X Checks)
  BY <1>2, <1>5 DEF Checks
<1>10. r \in PassStates /\ r.writes = k.writes /\ r.seen = k.seen /\ r.cores = k.cores
       /\ r.state = t /\ r.alarms = al
  BY <1>2, <1>6, <1>8, <1>9 DEF PassStates
<1>11. (Cardinality(O) > 1 \/ (O # {} /\ Cardinality(W) > 1)) <=> Beside(k.cores, t, a)
  <2>1. IsFiniteSet(O) /\ IsFiniteSet(W)
    <3>1. IsFiniteSet(Cores) /\ O \in SUBSET Cores /\ W \in SUBSET Cores
      BY <1>2, <1>3, ProgramsAssumption
    <3> QED
      BY <3>1, FS_Subset
  <2>2. /\ Cardinality(O) > 1 <=> \E x, y \in O : x # y
        /\ Cardinality(W) > 1 <=> \E x, y \in W : x # y
    BY <2>1, TwoOfThem
  <2>3. /\ \A d \in k.cores : t[<<d, a>>] \in Exclusive <=> d \in O
        /\ \A d \in k.cores : t[<<d, a>>] \in Valid <=> d \in W
        /\ O \subseteq W /\ W \subseteq k.cores
    BY <1>3 DEF Exclusive, Valid
  <2> QED
    BY <2>2, <2>3 DEF Beside
<1>12. ASSUME NEW g \in Cores, NEW b \in Addrs
       PROVE  t[<<g, b>>] = IF g = c /\ b = a THEN e.state ELSE k.state[<<g, b>>]
  <2>1. k.state \in [Cores \X Addrs -> {"M", "E", "S", "I"}]
    BY DEF PassStates
  <2> QED
    BY <1>1, <2>1
<1> QED
  BY <1>5, <1>10, <1>11, <1>12 DEF Moved, Compared

(***************************************************************************)
(* The events of a run that has ended, and what the checker has of them.   *)
(***************************************************************************)
Finished(N) ==
  /\ N \in Nat /\ N = Len(events) /\ program \in Programs /\ Settled /\ Dated
  /\ \A n \in 1..N :
       /\ events[n].core \in Cores /\ events[n].addr \in Addrs
       /\ events[n].state \in {"M", "E", "S", "I"}
       /\ \/ events[n].id = 0 /\ events[n].op = "load"
          \/ LET i == events[n].id
             IN  /\ i \in Mem(program) /\ i # 0 /\ Instant(i) = n
                 /\ events[n].core = Op(i).core /\ events[n].op = Op(i).kind
                 /\ events[n].addr = Op(i).addr
  /\ \A u \in Mem(program) : Instant(u) \in 1..N /\ events[Instant(u)].id = u

\* When the cores rest, the events are those of a finished run.
LEMMA RunFinished ==
  ASSUME RunInv, EventInv, Done, NEW N, N = Len(events)
  PROVE  Finished(N) /\ DOMAIN events = 1..N /\ \A n \in 1..N : events[n] \in Events
<1>1. events \in Seq(Events) /\ program \in Programs
  BY DEF RunInv, Types
<1>2. N \in Nat /\ DOMAIN events = 1..N /\ \A n \in 1..N : events[n] \in Events
  BY <1>1
<1>3. Settled /\ Dated /\ Shape
  BY EndOfRun DEF Settled
<1>4. ASSUME NEW u \in Mem(program)
      PROVE  Instant(u) \in 1..N /\ events[Instant(u)].id = u
  BY <1>1, EndHappened, InstantMeans DEF Happened
<1>5. ASSUME NEW n \in 1..N
      PROVE  /\ events[n].core \in Cores /\ events[n].addr \in Addrs
             /\ events[n].state \in {"M", "E", "S", "I"}
             /\ \/ events[n].id = 0 /\ events[n].op = "load"
                \/ LET i == events[n].id
                   IN  /\ i \in Mem(program) /\ i # 0 /\ Instant(i) = n
                       /\ events[n].core = Op(i).core /\ events[n].op = Op(i).kind
                       /\ events[n].addr = Op(i).addr
  <2>1. events[n].core \in Cores /\ events[n].addr \in Addrs
        /\ events[n].state \in {"M", "E", "S", "I"}
    BY <1>2 DEF Events
  <2>2. CASE events[n].id = 0 /\ events[n].op = "load"
    BY <2>1, <2>2
  <2>3. CASE ~ (events[n].id = 0 /\ events[n].op = "load")
    <3>1. PICK i : i = events[n].id
      OBVIOUS
    <3>2. /\ i \in Mem(program) /\ events[n].core = Op(i).core /\ events[n].op = Op(i).kind
          /\ events[n].addr = Op(i).addr
      BY <2>3, <3>1 DEF EventInv, Named
    <3>3. i # 0
      BY <1>3, <3>2 DEF Shape
    <3>4. Instant(i) = n
      BY <3>1, <3>3, HappenedMeans
    <3> QED
      BY <2>1, <3>1, <3>2, <3>3, <3>4
  <2> QED
    BY <2>2, <2>3
<1> QED
  BY <1>1, <1>2, <1>3, <1>4, <1>5 DEF Finished

\* Stores have values that are neither absent nor the initial one.
LEMMA ValueMeans ==
  ASSUME program \in Programs
  PROVE  /\ Value(0) = 0
         /\ \A s \in Stores(program) : s # 0 => Value(s) \in Nat /\ Value(s) # 0 /\ Value(s) # None
         /\ None \notin Nat
<1>1. ASSUME NEW s \in Stores(program), s # 0
      PROVE  Value(s) \in Nat /\ Value(s) # 0 /\ Value(s) # None
  <2>1. s \in DOMAIN program /\ program[s].value \notin {0, None}
    BY ProgramFacts DEF WellFormed, Stores
  <2>2. program[s] \in Instructions
    BY <2>1, ProgramFacts DEF Op
  <2>3. program[s].value \in Nat \cup {None}
    BY <2>2 DEF Instructions
  <2> QED
    BY <1>1, <2>1, <2>3 DEF Value, Op
<1> QED
  BY <1>1, ProgramsAssumption DEF Value

\* The writes of an address that the checker has after n events.
WritesTold(w, a, n) ==
  /\ \A s \in Stores(program) : Op(s).addr = a /\ Instant(s) <= n =>
       Key[s] \in 1..Len(w) /\ w[Key[s]].ver = Key[s] - 1 /\ w[Key[s]].value = Value(s)
  /\ \A j \in 1..Len(w) : \E s \in Stores(program) :
       Op(s).addr = a /\ Key[s] = j /\ Instant(s) <= n

\* The writes noted of an address stay as told, but for a store of it,
LEMMA WritesStay ==
  ASSUME NEW N, Finished(N), NEW n \in 1..N, NEW m, m = n - 1, NEW a, NEW w, WritesTold(w, a, m),
         ~ (events[n].op = "store" /\ events[n].addr = a)
  PROVE  WritesTold(w, a, n)
<1>1. ASSUME NEW s \in Stores(program), Op(s).addr = a
      PROVE  Instant(s) <= n <=> Instant(s) <= m
  <2>1. s \in Mem(program) /\ Op(s).kind = "store"
    BY DEF Stores, Mem, Op
  <2>2. Instant(s) \in 1..N /\ events[Instant(s)].id = s /\ s # 0
    BY <2>1 DEF Finished, Settled, Shape
  <2>3. Instant(s) # n
    <3>1. SUFFICES ASSUME Instant(s) = n PROVE FALSE
      OBVIOUS
    <3>2. events[n].id = s
      BY <2>2, <3>1
    <3>3. events[n].op = "store" /\ events[n].addr = a
      BY <1>1, <2>1, <2>2, <3>2 DEF Finished
    <3> QED
      BY <3>3
  <2>4. n \in Int /\ N \in Int
    BY DEF Finished
  <2> QED
    BY <2>2, <2>3, <2>4
<1> QED
  BY <1>1 DEF WritesTold

\* A store is the next one of its address.
LEMMA NextWrite ==
  ASSUME NEW N, Finished(N), NEW n \in 1..N, NEW m, m = n - 1, NEW a, NEW w, WritesTold(w, a, m),
         Len(w) \in Nat, NEW s \in Stores(program), events[n].id = s, Op(s).addr = a
  PROVE  Key[s] = Len(w) + 1
<1>1. s \in Mem(program) /\ s # 0 /\ Key[s] \in Nat /\ Key[s] # 0 /\ N \in Nat
  BY DEF Finished, Settled, Shape
<1>2. Instant(s) = n /\ m < n /\ n \in Nat /\ m \in Int
  BY <1>1 DEF Finished
<1>3. Key[s] \notin 1..Len(w)
  <2> SUFFICES ASSUME Key[s] \in 1..Len(w) PROVE FALSE
    OBVIOUS
  <2>1. PICK t \in Stores(program) : Op(t).addr = a /\ Key[t] = Key[s] /\ Instant(t) <= m
    BY DEF WritesTold
  <2>2. t = s
    BY <2>1 DEF Finished, Settled, Alike
  <2> QED
    BY <1>2, <2>1, <2>2
<1>4. ~ (Len(w) + 1 < Key[s])
  <2> SUFFICES ASSUME Len(w) + 1 < Key[s] PROVE FALSE
    OBVIOUS
  <2>1. PICK k : k = Len(w) + 1
    OBVIOUS
  <2>2. k \in 1..Key[s] /\ k \notin 1..Len(w) /\ k < Key[s]
    BY <1>1, <2>1
  <2>3. PICK t \in Stores(program) : Alike(t, s) /\ Key[t] = k
    BY <2>2 DEF Finished, Settled
  <2>4. Instant(t) < Instant(s)
    BY <2>2, <2>3 DEF Finished, Dated
  <2>5. Instant(t) \in Nat
    BY <2>3 DEF Finished, Dated, Settled, Shape
  <2>6. Instant(t) <= m
    BY <1>2, <2>4, <2>5
  <2> QED
    BY <2>2, <2>3, <2>6 DEF WritesTold, Alike
<1> QED
  BY <1>1, <1>3, <1>4

\* which is noted after them.
LEMMA WritesGrow ==
  ASSUME NEW N, Finished(N), NEW n \in 1..N, NEW m, m = n - 1, NEW a, NEW w \in Seq(Writes),
         WritesTold(w, a, m), NEW s \in Stores(program), events[n].id = s, Op(s).addr = a,
         NEW v, v = [ver |-> Len(w), value |-> Value(s)], v \in Writes
  PROVE  WritesTold(Append(w, v), a, n)
<1>1. Len(w) \in Nat /\ N \in Nat /\ s \in Mem(program)
  BY DEF Finished, Settled, Shape
<1>2. Key[s] = Len(w) + 1
  BY <1>1, NextWrite
<1>3. PICK x : x = Append(w, v)
  OBVIOUS
<1>4. /\ Len(x) = Len(w) + 1 /\ x[Key[s]] = v /\ \A j \in 1..Len(w) : x[j] = w[j]
      /\ v.ver = Len(w) /\ v.value = Value(s)
  BY <1>1, <1>2, <1>3
<1>5. Instant(s) = n /\ m < n /\ n \in Nat /\ m \in Int
  <2>1. s # 0
    BY <1>1 DEF Finished, Settled, Shape
  <2> QED
    BY <1>1, <2>1 DEF Finished
<1>6. ASSUME NEW t \in Stores(program), Op(t).addr = a, Instant(t) <= n
      PROVE  Key[t] \in 1..Len(x) /\ x[Key[t]].ver = Key[t] - 1 /\ x[Key[t]].value = Value(t)
  <2>1. CASE t = s
    BY <1>1, <1>2, <1>4, <2>1
  <2>2. CASE t # s
    <3>1. t \in Mem(program) /\ events[Instant(t)].id = t /\ Instant(t) \in 1..N
      BY DEF Finished, Settled, Shape
    <3>2. Instant(t) # n
      BY <2>2, <3>1
    <3>3. Instant(t) <= m
      BY <1>1, <1>5, <1>6, <3>1, <3>2
    <3>4. Key[t] \in 1..Len(w) /\ w[Key[t]].ver = Key[t] - 1 /\ w[Key[t]].value = Value(t)
      BY <1>6, <3>3 DEF WritesTold
    <3> QED
      BY <1>1, <1>4, <3>4
  <2> QED
    BY <2>1, <2>2
<1>7. ASSUME NEW j \in 1..Len(x)
      PROVE  \E t \in Stores(program) : Op(t).addr = a /\ Key[t] = j /\ Instant(t) <= n
  <2>1. CASE j = Len(w) + 1
    BY <1>2, <1>5, <2>1
  <2>2. CASE j # Len(w) + 1
    <3>1. j \in 1..Len(w)
      BY <1>1, <1>4, <2>2
    <3>2. PICK t \in Stores(program) : Op(t).addr = a /\ Key[t] = j /\ Instant(t) <= m
      BY <3>1 DEF WritesTold
    <3>3. Instant(t) \in Nat
      BY DEF Finished, Dated, Settled, Shape
    <3> QED
      BY <1>5, <3>2, <3>3
  <2> QED
    BY <2>1, <2>2
<1> QED
  BY <1>3, <1>6, <1>7 DEF WritesTold

(***************************************************************************)
(* What the checker makes of a load.                                       *)
(***************************************************************************)
\* What l has read is a write the checker has already met, or no write is.
Heard(l) ==
  IF source[l] = 0
  THEN \A s \in Stores(program) : Alike(s, l) => Instant(l) < Instant(s)
  ELSE Instant(source[l]) < Instant(l)

Tells(marks, e, n) ==
  LET d == events[n]
  IN  /\ e.core = d.core /\ e.op = d.op /\ e.addr = d.addr
      /\ e.state = (IF "cycle" \in marks THEN d.state ELSE None)
      /\ e.value = (IF d.id = 0 THEN None
                    ELSE IF d.op = "store" THEN Value(d.id) ELSE Value(source[d.id]))
      /\ e.ver = (IF d.id # 0 /\ "rf" \in marks THEN Version(d.id) ELSE None)

\* A load of which the checker has met the store, and one of which it has not.
LEMMA MatchedMeans ==
  ASSUME NEW N, Finished(N), NEW n \in 1..N, NEW m, m = n - 1, NEW l \in Loads(program),
         l = events[n].id, NEW a, a = Op(l).addr, NEW marks \in Marks, NEW e, Tells(marks, e, n),
         NEW k \in PassStates, WritesTold(k.writes[a], a, m), a \in Addrs
  PROVE  Coherence!Matched(k, e) = IF Heard(l) THEN Key[l] - 1 ELSE None
<1>1. /\ N \in Nat /\ l \in Mem(program) /\ l # 0 /\ program \in Programs /\ Settled /\ Dated /\ Shape
      /\ n \in Nat /\ m \in Int /\ Instant(l) = n /\ events[n].op = "load" /\ events[n].addr = a
  <2>1. l \in Mem(program) /\ l # 0 /\ Op(l).kind = "load"
    BY DEF Finished, Settled, Shape, Loads, Op
  <2> QED
    BY <2>1 DEF Finished, Settled
<1>2. PICK w : w = k.writes[a]
  OBVIOUS
<1>3. w \in Seq(Writes) /\ Len(w) \in Nat /\ DOMAIN w = 1..Len(w) /\ WritesTold(w, a, m)
  BY <1>2 DEF PassStates
<1>4. PICK v : v = Value(source[l])
  OBVIOUS
<1>5. e.addr = a /\ e.value = v /\ e.ver = (IF "rf" \in marks THEN Version(l) ELSE None)
  BY <1>1, <1>4 DEF Tells
<1>6. v \in Nat /\ v # None /\ (v = 0 <=> source[l] = 0)
  <2>1. source[l] = 0 \/ (source[l] \in Stores(program) /\ source[l] # 0)
    BY <1>1 DEF Settled
  <2> QED
    BY <1>1, <1>4, <2>1, ValueMeans
<1>7. /\ Coherence!Matched(k, e) =
            LET same == {j \in DOMAIN w : w[j].value = v /\ v # None}
            IN  CASE e.ver # None -> IF \E j \in DOMAIN w : w[j].ver = e.ver THEN e.ver ELSE None
                  [] e.ver = None /\ same # {} -> w[CHOOSE j \in same : \A i \in same : i <= j].ver
                  [] e.ver = None /\ same = {} ->
                       IF w = <<>> /\ v \in {0, None} THEN -1 ELSE None
  BY <1>2, <1>5 DEF Coherence!Matched, Coherence!Unseen
<1>8. ASSUME NEW j \in 1..Len(w)
      PROVE  \E s \in Stores(program) : Alike(s, l) /\ Key[s] = j /\ Instant(s) < n /\ s # 0
                                        /\ w[j].ver = j - 1 /\ w[j].value = Value(s)
  <2>1. PICK s \in Stores(program) : Op(s).addr = a /\ Key[s] = j /\ Instant(s) <= m
    BY <1>3 DEF WritesTold
  <2>2. w[Key[s]].ver = Key[s] - 1 /\ w[Key[s]].value = Value(s)
    BY <1>3, <2>1 DEF WritesTold
  <2>3. s # 0 /\ Instant(s) \in Nat
    BY <1>1 DEF Shape, Dated
  <2>4. Instant(s) < n
    BY <1>1, <2>1, <2>3
  <2> QED
    BY <2>1, <2>2, <2>3, <2>4 DEF Alike
<1>9. ASSUME NEW s \in Stores(program), Alike(s, l), Instant(s) < n
      PROVE  Key[s] \in 1..Len(w) /\ w[Key[s]].ver = Key[s] - 1 /\ w[Key[s]].value = Value(s)
  <2>1. Instant(s) <= m /\ Op(s).addr = a
    <3>1. Instant(s) \in Nat
      BY <1>1 DEF Shape, Dated
    <3> QED
      BY <1>1, <1>9, <3>1 DEF Alike
  <2> QED
    BY <1>3, <2>1 DEF WritesTold
<1>10. None \notin Int
  BY ProgramsAssumption
<1>11. CASE source[l] = 0
  <2>1. Key[l] = 0 /\ e.ver = None
    <3>1. Key[l] = 0
      BY <1>1, <1>11 DEF Settled
    <3>2. Version(l) = None
      BY <1>1, <1>11 DEF Version, Shape
    <3> QED
      BY <1>5, <3>1, <3>2
  <2>2. \A j \in DOMAIN w : w[j].value # v
    <3>1. v = 0
      BY <1>6, <1>11
    <3>2. ASSUME NEW j \in 1..Len(w) PROVE w[j].value # 0
      <4>1. PICK s \in Stores(program) : s # 0 /\ w[j].value = Value(s)
        BY <1>8
      <4> QED
        BY <1>1, <4>1, ValueMeans
    <3> QED
      BY <1>3, <3>1, <3>2
  <2>3. Coherence!Matched(k, e) = IF w = <<>> THEN -1 ELSE None
    <3>1. {j \in DOMAIN w : w[j].value = v /\ v # None} = {}
      BY <2>2
    <3> QED
      BY <1>6, <1>7, <1>11, <2>1, <3>1
  <2>4. w = <<>> <=> Heard(l)
    <3>1. ASSUME w = <<>>, NEW s \in Stores(program), Alike(s, l) PROVE Instant(l) < Instant(s)
      <4>1. ~ (Instant(s) < n)
        BY <1>3, <1>9, <3>1
      <4>2. Instant(s) # n
        <5>1. s \in Mem(program) /\ s # l
          BY <1>1 DEF Shape
        <5> QED
          BY <1>1, <5>1 DEF Finished
      <4>3. Instant(s) \in Nat
        BY <1>1 DEF Shape, Dated
      <4> QED
        BY <1>1, <4>1, <4>2, <4>3
    <3>2. ASSUME w # <<>> PROVE ~ Heard(l)
      <4>1. 1 \in 1..Len(w)
        BY <1>3, <3>2
      <4>2. PICK s \in Stores(program) : Alike(s, l) /\ Instant(s) < n
        BY <1>8, <4>1
      <4>3. Instant(s) \in Nat
        BY <1>1 DEF Shape, Dated
      <4> QED
        BY <1>1, <1>11, <4>2, <4>3 DEF Heard
    <3> QED
      BY <1>11, <3>1, <3>2 DEF Heard
  <2>5. Key[l] - 1 = -1
    BY <2>1
  <2> QED
    BY <2>3, <2>4, <2>5
<1>12. CASE source[l] # 0
  <2>1. PICK t : t = source[l]
    OBVIOUS
  <2>2. /\ t \in Stores(program) /\ Alike(t, l) /\ Key[t] = Key[l] /\ t # 0
        /\ Key[l] \in Nat /\ Key[l] # 0 /\ v = Value(t)
    <3>1. t \in Stores(program) /\ Alike(t, l) /\ Key[t] = Key[l] /\ t # 0
      BY <1>1, <1>12, <2>1 DEF Settled
    <3> QED
      BY <1>1, <1>4, <2>1, <3>1 DEF Settled
  <2>3. Heard(l) <=> Instant(t) < n
    BY <1>1, <1>12, <2>1 DEF Heard
  <2>4. Instant(t) < n <=> \E j \in 1..Len(w) : j = Key[l]
    <3>1. ASSUME NEW j \in 1..Len(w), j = Key[l] PROVE Instant(t) < n
      <4>1. PICK s \in Stores(program) : Alike(s, l) /\ Key[s] = j /\ Instant(s) < n
        BY <1>8
      <4>2. s = t
        BY <1>1, <2>2, <3>1, <4>1 DEF Settled, Alike
      <4> QED
        BY <4>1, <4>2
    <3> QED
      BY <1>9, <2>2, <3>1
  <2>5. CASE "rf" \in marks
    <3>1. e.ver = Key[l] - 1
      <4>1. Version(l) = Rank(Op(l).addr, t) - 1
        BY <1>1, <1>12, <2>1 DEF Version, Shape
      <4>2. Key[l] = Rank(Op(l).addr, t)
        BY <1>1, <2>1, KeyMeans
      <4> QED
        BY <1>5, <2>5, <4>1, <4>2
    <3>2. e.ver # None
      BY <1>10, <2>2, <3>1
    <3>3. (\E j \in DOMAIN w : w[j].ver = e.ver) <=> \E j \in 1..Len(w) : j = Key[l]
      <4>1. \A j \in 1..Len(w) : w[j].ver = j - 1
        BY <1>8
      <4> QED
        BY <1>3, <2>2, <3>1, <4>1
    <3>4. Coherence!Matched(k, e) = IF \E j \in DOMAIN w : w[j].ver = e.ver THEN e.ver ELSE None
      BY <1>7, <3>2
    <3> QED
      BY <2>3, <2>4, <3>1, <3>3, <3>4
  <2>6. CASE "rf" \notin marks
    <3>1. DistinctValues /\ e.ver = None /\ v # 0 /\ v # None
      BY <1>5, <1>6, <1>12, <2>6 DEF Marks
    <3>2. PICK same : same = {j \in DOMAIN w : w[j].value = v /\ v # None}
      OBVIOUS
    <3>3. ASSUME NEW j \in same PROVE j = Key[l]
      <4>1. PICK s \in Stores(program) : Alike(s, l) /\ Key[s] = j /\ w[j].value = Value(s)
        BY <1>3, <1>8, <3>2
      <4>2. Value(s) = Value(t) /\ s \in StoresTo(program, a) /\ t \in StoresTo(program, a)
        <5>1. w[j].value = v
          BY <3>2
        <5>2. Op(s).addr = a /\ Op(t).addr = a /\ a # None
          BY <1>1, <2>2, <4>1 DEF Alike, Shape
        <5> QED
          BY <2>2, <4>1, <5>1, <5>2 DEF StoresTo, Op
      <4>3. s = t
        BY <3>1, <4>2 DEF DistinctValues
      <4> QED
        BY <2>2, <4>1, <4>3
    <3>4. CASE Instant(t) < n
      <4>1. Key[t] \in 1..Len(w) /\ w[Key[t]].ver = Key[t] - 1 /\ w[Key[t]].value = v
        BY <1>9, <2>2, <3>4
      <4>2. same = {Key[l]}
        BY <1>3, <2>2, <3>1, <3>2, <3>3, <4>1
      <4>3. (CHOOSE j \in same : \A i \in same : i <= j) = Key[l]
        BY <2>2, <4>2
      <4>4. Coherence!Matched(k, e) = w[Key[l]].ver
        BY <1>7, <3>1, <3>2, <4>2, <4>3
      <4> QED
        BY <2>2, <2>3, <3>4, <4>1, <4>4
    <3>5. CASE ~ (Instant(t) < n)
      <4>1. same = {}
        <5>1. ASSUME NEW j \in same PROVE FALSE
          <6>1. j \in 1..Len(w) /\ j = Key[l]
            BY <1>3, <3>2, <3>3, <5>1
          <6> QED
            BY <2>4, <3>5, <6>1
        <5> QED
          BY <5>1
      <4>2. Coherence!Matched(k, e) = None
        BY <1>7, <3>1, <3>2, <4>1
      <4> QED
        BY <2>3, <3>5, <4>2
    <3> QED
      BY <3>4, <3>5
  <2> QED
    BY <2>5, <2>6
<1> QED
  BY <1>11, <1>12

\* An access the checker has up to n it has before, or it is the n-th.
LEMMA HadBefore ==
  ASSUME NEW N, Finished(N), NEW n \in 1..N, NEW m, m = n - 1, NEW u \in Mem(program)
  PROVE  /\ N \in Nat /\ n \in Nat /\ m \in Nat /\ m < n /\ Instant(u) \in Nat /\ u # 0
         /\ Instant(u) <= n <=> Instant(u) <= m \/ events[n].id = u
         /\ events[n].id = u <=> Instant(u) = n
<1>1. N \in Nat /\ Instant(u) \in 1..N /\ events[Instant(u)].id = u /\ u # 0
  BY DEF Finished, Settled, Shape
<1>2. events[n].id = u => Instant(u) = n
  BY <1>1 DEF Finished
<1> QED
  BY <1>1, <1>2

(***************************************************************************)
(* The newest version a core has seen.                                     *)
(***************************************************************************)
Counts(u) == u \in Loads(program) => Heard(u)

Had(u, c, a, n) ==
  u \in Mem(program) /\ Op(u).core = c /\ Op(u).addr = a /\ Instant(u) <= n /\ Counts(u)

SeenTold(v, c, a, n) ==
  /\ v \in Int /\ v >= -1
  /\ \A u \in Mem(program) : Had(u, c, a, n) => Key[u] - 1 <= v
  /\ v = -1 \/ \E u \in Mem(program) : Had(u, c, a, n) /\ v = Key[u] - 1

\* An access of the core to the address may raise the newest version seen,
LEMMA SeenGrows ==
  ASSUME NEW N, Finished(N), NEW n \in 1..N, NEW m, m = n - 1, NEW c, NEW a, NEW v,
         SeenTold(v, c, a, m), NEW u \in Mem(program), events[n].id = u, Op(u).core = c,
         Op(u).addr = a, Counts(u), NEW w, w = (IF v < Key[u] - 1 THEN Key[u] - 1 ELSE v)
  PROVE  SeenTold(w, c, a, n)
<1>1. \A x \in Mem(program) : Key[x] \in Nat
  BY DEF Finished, Settled
<1>2. Had(u, c, a, n)
  BY HadBefore DEF Had
<1>3. \A x \in Mem(program) : Had(x, c, a, n) <=> Had(x, c, a, m) \/ x = u
  <2>1. SUFFICES ASSUME NEW x \in Mem(program)
                 PROVE  Had(x, c, a, n) <=> Had(x, c, a, m) \/ x = u
    OBVIOUS
  <2> QED
    BY <1>2, HadBefore DEF Had
<1>4. v \in Int /\ v >= -1 /\ w \in Int /\ w >= -1 /\ v <= w /\ Key[u] - 1 <= w
  BY <1>1 DEF SeenTold
<1>5. ASSUME NEW x \in Mem(program), Had(x, c, a, n) PROVE Key[x] - 1 <= w
  <2>1. Had(x, c, a, m) => Key[x] - 1 <= v
    BY DEF SeenTold
  <2> QED
    BY <1>1, <1>3, <1>4, <1>5, <2>1
<1>6. w = -1 \/ \E x \in Mem(program) : Had(x, c, a, n) /\ w = Key[x] - 1
  <2>1. CASE w = v
    BY <1>3, <2>1 DEF SeenTold
  <2>2. CASE w = Key[u] - 1
    BY <1>2, <2>2
  <2> QED
    BY <2>1, <2>2
<1> QED
  BY <1>4, <1>5, <1>6 DEF SeenTold

\* and no other event does.
LEMMA SeenStays ==
  ASSUME NEW N, Finished(N), NEW n \in 1..N, NEW m, m = n - 1, NEW c, NEW a, NEW v,
         SeenTold(v, c, a, m), NEW i, i = events[n].id,
         i \in Mem(program) => Op(i).core # c \/ Op(i).addr # a \/ ~ Counts(i)
  PROVE  SeenTold(v, c, a, n)
<1>1. \A x \in Mem(program) : Had(x, c, a, n) <=> Had(x, c, a, m)
  <2>1. SUFFICES ASSUME NEW x \in Mem(program)
                 PROVE  Had(x, c, a, n) <=> Had(x, c, a, m)
    OBVIOUS
  <2> QED
    BY HadBefore DEF Had
<1> QED
  BY <1>1 DEF SeenTold

\* The checker finds a load behind what its core has seen.
LEMMA SeenBehind ==
  ASSUME NEW N, Finished(N), NEW n \in 1..N, NEW m, m = n - 1, NEW c, NEW a, NEW v,
         SeenTold(v, c, a, m), NEW l \in Mem(program)
  PROVE  Key[l] - 1 < v <=> \E u \in Mem(program) : Had(u, c, a, m) /\ Key[l] < Key[u]
<1>1. \A x \in Mem(program) : Key[x] \in Nat
  BY DEF Finished, Settled
<1>2. Key[l] - 1 < v => \E u \in Mem(program) : Had(u, c, a, m) /\ Key[l] < Key[u]
  <2> SUFFICES ASSUME Key[l] - 1 < v
               PROVE  \E u \in Mem(program) : Had(u, c, a, m) /\ Key[l] < Key[u]
    OBVIOUS
  <2>1. v # -1
    BY <1>1
  <2>2. PICK u \in Mem(program) : Had(u, c, a, m) /\ v = Key[u] - 1
    BY <2>1 DEF SeenTold
  <2> QED
    BY <1>1, <2>2
<1>3. ASSUME NEW u \in Mem(program), Had(u, c, a, m), Key[l] < Key[u] PROVE Key[l] - 1 < v
  <2>1. Key[u] - 1 <= v /\ v \in Int
    BY <1>3 DEF SeenTold
  <2> QED
    BY <1>1, <1>3, <2>1
<1> QED
  BY <1>2, <1>3

\* Without a write, no core has seen one.
LEMMA SeenNothing ==
  ASSUME NEW N, Finished(N), NEW n \in 1..N, NEW m, m = n - 1, NEW c, NEW a, NEW v,
         SeenTold(v, c, a, m), NEW w, w = <<>>, WritesTold(w, a, m)
  PROVE  v = -1
<1>1. /\ Settled /\ Shape /\ Dated /\ Len(w) = 0 /\ m \in Int /\ n \in Nat /\ N \in Nat
  BY DEF Finished, Settled
<1> SUFFICES ASSUME v # -1 PROVE FALSE
  OBVIOUS
<1>2. PICK u \in Mem(program) : Had(u, c, a, m) /\ v = Key[u] - 1
  BY DEF SeenTold
<1>3. Key[u] \in Nat /\ Key[u] # 0 /\ Instant(u) <= m /\ Op(u).addr = a /\ Counts(u)
  BY <1>1, <1>2 DEF Settled, Had
<1>4. \E s \in Stores(program) : Op(s).addr = a /\ Instant(s) <= m
  <2>1. CASE u \in Stores(program)
    BY <1>3, <2>1
  <2>2. CASE u \in Loads(program)
    <3>1. source[u] \in Stores(program) /\ Alike(source[u], u) /\ source[u] # 0
      BY <1>1, <1>3, <2>2 DEF Settled
    <3>2. Instant(source[u]) < Instant(u)
      BY <1>3, <2>2, <3>1 DEF Counts, Heard
    <3>3. Instant(source[u]) \in Nat /\ Instant(u) \in Nat
      BY <1>1, <3>1 DEF Dated, Shape
    <3>4. Instant(source[u]) <= m
      BY <1>1, <1>3, <3>2, <3>3
    <3> QED
      BY <1>3, <3>1, <3>4 DEF Alike
  <2> QED
    BY <1>1, <2>1, <2>2 DEF Shape
<1> QED
  BY <1>1, <1>4 DEF WritesTold

(***************************************************************************)
(* The state a core has last told of a line.                               *)
(***************************************************************************)
StateTold(t, c, a, n) ==
  /\ \A m \in 1..n : Told(n, c, a, m) => t = events[m].state
  /\ (\A m \in 1..n : ~ Told(n, c, a, m)) => t = "I"

\* After an event its core has told of its line with it, the others as before.
LEMMA ToldNow ==
  ASSUME NEW n \in Nat, n # 0, NEW m, m = n - 1, NEW c, NEW a, NEW k
  PROVE  Told(n, c, a, k) <=>
           IF events[n].core = c /\ events[n].addr = a THEN k = n ELSE Told(m, c, a, k)
<1>1. m \in Nat /\ m < n /\ n \in 1..n /\ \A j : j \in 1..n <=> j \in 1..m \/ j = n
  OBVIOUS
<1>2. CASE events[n].core = c /\ events[n].addr = a
  <2>1. k = n => Told(n, c, a, k)
    BY <1>1, <1>2 DEF Told
  <2>2. Told(n, c, a, k) => k = n
    <3>1. Told(n, c, a, k) => k \in 1..n /\ ~ (n > k)
      BY <1>1, <1>2 DEF Told
    <3> QED
      BY <3>1
  <2> QED
    BY <1>2, <2>1, <2>2
<1>3. CASE ~ (events[n].core = c /\ events[n].addr = a)
  BY <1>1, <1>3 DEF Told
<1> QED
  BY <1>2, <1>3

\* The state last told changes with the events of the line alone.
LEMMA StateMoves ==
  ASSUME NEW n \in Nat, n # 0, NEW m, m = n - 1, NEW c, NEW a, NEW t, StateTold(t, c, a, m),
         NEW u, u = (IF events[n].core = c /\ events[n].addr = a THEN events[n].state ELSE t)
  PROVE  StateTold(u, c, a, n)
<1>1. n \in 1..n /\ \A j \in 1..m : j \in 1..n
  OBVIOUS
<1>2. ASSUME NEW k
      PROVE  Told(n, c, a, k) <=>
               IF events[n].core = c /\ events[n].addr = a THEN k = n ELSE Told(m, c, a, k)
  BY ToldNow
<1>3. \A k : Told(m, c, a, k) => k \in 1..m
  BY DEF Told
<1> QED
  BY <1>1, <1>2, <1>3 DEF StateTold

(***************************************************************************)
(* What the checker has after n events, and what it accuses.               *)
(***************************************************************************)
Noted(k, n) ==
  /\ \A a \in Addrs : WritesTold(k.writes[a], a, n)
  /\ \A c \in Cores, a \in Addrs : SeenTold(k.seen[<<c, a>>], c, a, n)

\* The core has seen a newer store than the one l has read.
Behind(l) ==
  \E u \in Mem(program) : /\ Together(u, l) /\ Alike(u, l) /\ Instant(u) < Instant(l)
                          /\ Counts(u) /\ Key[l] < Key[u]

\* Two cores have last told of a line what cannot be of both.
Clash(n, a) ==
  \E c, d \in Cores : \E j, k \in 1..n :
    /\ c # d /\ Told(n, c, a, j) /\ Told(n, d, a, k)
    /\ events[j].state \in Exclusive /\ events[k].state \in Valid

Misread(l, x) ==
  /\ l \in Loads(program)
  /\ \/ x = "read_from_valid" /\ ~ Heard(l)
     \/ x = "coherence_read_monotonic" /\ Heard(l) /\ Behind(l)

Wrong(marks, n, x) ==
  \/ Misread(events[n].id, x)
  \/ x = "swmr" /\ "cycle" \in marks /\ Clash(n, events[n].addr)

\* Looking at a store notes it and accuses nothing.
LEMMA StoreLooked ==
  ASSUME NEW N, Finished(N), NEW n \in 1..N, NEW m, m = n - 1, NEW marks \in Marks, NEW e,
         Tells(marks, e, n), NEW k \in PassStates, Noted(k, m), events[n].op = "store",
         NEW r, r = Coherence!CheckStore(k, e)
  PROVE  /\ r \in PassStates /\ Noted(r, n)
         /\ r.state = k.state /\ r.cores = k.cores /\ r.alarms = k.alarms
         /\ events[n].id \in Stores(program)
<1>1. PICK s : s = events[n].id
  OBVIOUS
<1>2. /\ s \in Mem(program) /\ s # 0 /\ events[n].core = Op(s).core /\ Op(s).kind = "store"
      /\ events[n].addr = Op(s).addr /\ Settled /\ Shape /\ program \in Programs /\ Instant(s) = n
  BY <1>1 DEF Finished, Settled
<1>3. PICK c \in Cores, a \in Addrs : c = Op(s).core /\ a = Op(s).addr
  BY <1>2 DEF Finished
<1>4. s \in Stores(program)
  BY <1>2 DEF Mem, Stores, Op
<1>5. PICK w : w = k.writes[a]
  OBVIOUS
<1>6. w \in Seq(Writes) /\ Len(w) \in Nat /\ WritesTold(w, a, m)
  BY <1>5 DEF PassStates, Noted
<1>7. Key[s] = Len(w) + 1
  BY <1>1, <1>3, <1>4, <1>6, NextWrite
<1>8. /\ e.core = c /\ e.addr = a /\ e.value = Value(s)
      /\ e.ver = (IF "rf" \in marks THEN Version(s) ELSE None)
  BY <1>1, <1>2, <1>3 DEF Tells
<1>9. PICK ver : ver = Len(w)
  OBVIOUS
<1>10. ver \in Nat /\ ver = (IF e.ver # None THEN e.ver ELSE Len(k.writes[a]))
  <2>1. Version(s) = Rank(Op(s).addr, s) - 1
    BY <1>2, <1>4 DEF Version
  <2>2. Key[s] = Rank(Op(s).addr, s)
    BY <1>2, <1>4, KeyMeans
  <2>3. Version(s) = Len(w)
    BY <1>6, <1>7, <2>1, <2>2
  <2>4. ver = (IF e.ver # None THEN e.ver ELSE Len(w))
    BY <1>8, <1>9, <2>3
  <2> QED
    BY <1>5, <1>6, <1>9, <2>4
<1>11. Value(s) \in Nat
  BY <1>2, <1>4, ValueMeans
<1>12. e.value \in Nat
  BY <1>8, <1>11
<1>13. /\ r \in PassStates
       /\ r.writes = [k.writes EXCEPT ![a] = Append(@, [ver |-> ver, value |-> e.value])]
       /\ r.seen = [k.seen EXCEPT ![<<c, a>>] = IF @ < ver THEN ver ELSE @]
       /\ r.state = k.state /\ r.cores = k.cores /\ r.alarms = k.alarms
  <2>1. Stored(k, e, c, a, ver)
    BY <1>8, <1>10, <1>12 DEF Stored
  <2> QED
    BY <2>1, StoreFields
<1>14. PICK v : v = [ver |-> Len(w), value |-> Value(s)]
  OBVIOUS
<1>15. v \in Writes
  BY <1>6, <1>11, <1>14 DEF Writes
<1>16. WritesTold(Append(w, v), a, n)
  BY <1>1, <1>3, <1>4, <1>6, <1>14, <1>15, WritesGrow
<1>17. ASSUME NEW b \in Addrs PROVE WritesTold(r.writes[b], b, n)
  <2>1. k.writes \in [Addrs -> Seq(Writes)]
    BY DEF PassStates
  <2>2. CASE b = a
    <3>1. r.writes[b] = Append(w, v)
      BY <1>5, <1>8, <1>9, <1>13, <1>14, <2>1, <2>2
    <3> QED
      BY <1>16, <2>2, <3>1
  <2>3. CASE b # a
    <3>1. PICK x : x = k.writes[b]
      OBVIOUS
    <3>2. WritesTold(x, b, m) /\ r.writes[b] = x
      BY <1>13, <2>1, <2>3, <3>1 DEF Noted
    <3>3. ~ (events[n].op = "store" /\ events[n].addr = b)
      BY <1>2, <1>3, <2>3
    <3>4. WritesTold(x, b, n)
      BY <3>2, <3>3, WritesStay
    <3> QED
      BY <3>2, <3>4
  <2> QED
    BY <2>2, <2>3
<1>18. ASSUME NEW d \in Cores, NEW b \in Addrs PROVE SeenTold(r.seen[<<d, b>>], d, b, n)
  <2>1. PICK x, y : x = k.seen[<<d, b>>] /\ y = r.seen[<<d, b>>]
    OBVIOUS
  <2>2. k.seen \in [Cores \X Addrs -> Int] /\ SeenTold(x, d, b, m)
    BY <2>1 DEF PassStates, Noted
  <2>3. CASE d = c /\ b = a
    <3>1. y = (IF x < Key[s] - 1 THEN Key[s] - 1 ELSE x)
      BY <1>6, <1>7, <1>9, <1>13, <2>1, <2>2, <2>3
    <3>2. Counts(s)
      BY <1>2, <1>4 DEF Counts, Shape
    <3>3. SeenTold(y, d, b, n)
      BY <1>1, <1>2, <1>3, <2>2, <2>3, <3>1, <3>2, SeenGrows
    <3> QED
      BY <2>1, <3>3
  <2>4. CASE ~ (d = c /\ b = a)
    <3>1. y = x
      BY <1>13, <2>1, <2>2, <2>4
    <3>2. s \in Mem(program) => Op(s).core # d \/ Op(s).addr # b \/ ~ Counts(s)
      BY <1>3, <2>4
    <3>3. SeenTold(x, d, b, n)
      BY <1>1, <2>2, <3>2, SeenStays
    <3> QED
      BY <2>1, <3>1, <3>3
  <2> QED
    BY <2>3, <2>4
<1> QED
  BY <1>1, <1>4, <1>13, <1>17, <1>18 DEF Noted

\* A load told, and a snoop.
LEMMA LoadLooked ==
  ASSUME NEW N, Finished(N), NEW n \in 1..N, NEW m, m = n - 1, NEW marks \in Marks, NEW e,
         Tells(marks, e, n), NEW k \in PassStates, Noted(k, m), events[n].op = "load",
         NEW i \in Nat, NEW r, r = Coherence!CheckLoad(k, e, i)
  PROVE  /\ r \in PassStates /\ Noted(r, n) /\ r.state = k.state /\ r.cores = k.cores
         /\ \A al : al \in r.alarms <=>
              al \in k.alarms \/ \E x \in Checks : al = <<i, x>> /\ Misread(events[n].id, x)
<1>1. PICK l : l = events[n].id
  OBVIOUS
<1>2. /\ Settled /\ Shape /\ program \in Programs
      /\ \/ l = 0
         \/ /\ l \in Loads(program) /\ l \in Mem(program) /\ l # 0 /\ Instant(l) = n
            /\ events[n].core = Op(l).core /\ events[n].addr = Op(l).addr
  <2>1. \/ l = 0
        \/ /\ l \in Mem(program) /\ l # 0 /\ events[n].core = Op(l).core /\ Op(l).kind = "load"
           /\ events[n].addr = Op(l).addr /\ Instant(l) = n
    BY <1>1 DEF Finished
  <2>2. l \in Mem(program) /\ Op(l).kind = "load" => l \in Loads(program)
    BY DEF Mem, Loads, Op
  <2> QED
    BY <2>1, <2>2 DEF Finished, Settled
<1>3. PICK c \in Cores, a \in Addrs : c = events[n].core /\ a = events[n].addr
  BY DEF Finished
<1>4. PICK w, p : w = k.writes[a] /\ p = k.seen[<<c, a>>]
  OBVIOUS
<1>5. WritesTold(w, a, m) /\ w \in Seq(Writes) /\ SeenTold(p, c, a, m) /\ p \in Int
      /\ k.seen \in [Cores \X Addrs -> Int]
  BY <1>4 DEF PassStates, Noted
<1>6. e.core = c /\ e.addr = a
  BY <1>3 DEF Tells
<1>7. PICK ver : ver = Coherence!Matched(k, e)
  OBVIOUS
<1>8. None \notin Int /\ -1 \in Int
  BY ProgramsAssumption
<1>9. /\ l = 0 => /\ e.value = None
                  /\ ver = None \/ (ver = -1 /\ p = -1)
      /\ l # 0 => /\ e.value # None
                  /\ ver = IF Heard(l) THEN Key[l] - 1 ELSE None
  <2>1. CASE l = 0
    <3>1. e.value = None /\ e.ver = None
      BY <1>1, <2>1 DEF Tells
    <3>2. {j \in DOMAIN w : w[j].value = e.value /\ e.value # None} = {}
      BY <3>1
    <3>3. ver = IF w = <<>> THEN -1 ELSE None
      BY <1>4, <1>6, <1>7, <3>1, <3>2 DEF Coherence!Matched, Coherence!Unseen
    <3>4. w = <<>> => p = -1
      BY <1>5, SeenNothing
    <3> QED
      BY <2>1, <3>1, <3>3, <3>4
  <2>2. CASE l # 0
    <3>1. l \in Loads(program) /\ a = Op(l).addr
      BY <1>2, <1>3, <2>2
    <3>2. WritesTold(k.writes[a], a, m)
      BY <1>4, <1>5
    <3>3. Coherence!Matched(k, e) = IF Heard(l) THEN Key[l] - 1 ELSE None
      BY <1>1, <3>1, <3>2, MatchedMeans
    <3>4. e.value = Value(source[l])
      BY <1>1, <2>2 DEF Tells
    <3>5. Value(source[l]) \in Nat
      <4>1. source[l] = 0 \/ (source[l] \in Stores(program) /\ source[l] # 0)
        BY <1>2, <3>1 DEF Settled
      <4> QED
        BY <1>2, <4>1, ValueMeans
    <3> QED
      BY <1>7, <1>8, <2>2, <3>3, <3>4, <3>5
  <2> QED
    BY <2>1, <2>2
<1>10. /\ ver \in Int \cup {None}
       /\ l # 0 => Key[l] \in Nat
  BY <1>2, <1>8, <1>9 DEF Settled
<1>11. /\ r \in PassStates
       /\ r.writes = k.writes
       /\ r.seen = IF ver = None THEN k.seen
                   ELSE [k.seen EXCEPT ![<<c, a>>] = IF @ < ver THEN ver ELSE @]
       /\ r.state = k.state /\ r.cores = k.cores
       /\ \A al : al \in r.alarms <=>
            \/ al \in k.alarms
            \/ al = <<i, "read_from_valid">> /\ ver = None /\ e.value # None
            \/ al = <<i, "coherence_read_monotonic">> /\ ver # None /\ ver < k.seen[<<c, a>>]
  BY <1>6, <1>7, <1>10, LoadFields
<1>12. ASSUME NEW b \in Addrs PROVE WritesTold(r.writes[b], b, n)
  <2>1. PICK x : x = k.writes[b]
    OBVIOUS
  <2>2. WritesTold(x, b, m) /\ r.writes[b] = x
    BY <1>11, <2>1 DEF Noted
  <2>3. WritesTold(x, b, n)
    BY <2>2, WritesStay
  <2> QED
    BY <2>2, <2>3
<1>13. ASSUME NEW d \in Cores, NEW b \in Addrs PROVE SeenTold(r.seen[<<d, b>>], d, b, n)
  <2>1. PICK x, y : x = k.seen[<<d, b>>] /\ y = r.seen[<<d, b>>]
    OBVIOUS
  <2>2. SeenTold(x, d, b, m)
    BY <2>1 DEF Noted
  <2>3. CASE l # 0 /\ d = c /\ b = a /\ Heard(l)
    <3>1. y = (IF x < Key[l] - 1 THEN Key[l] - 1 ELSE x)
      BY <1>5, <1>8, <1>9, <1>10, <1>11, <2>1, <2>3
    <3>2. Counts(l) /\ l \in Mem(program) /\ Op(l).core = d /\ Op(l).addr = b
      BY <1>2, <1>3, <2>3 DEF Counts
    <3>3. SeenTold(y, d, b, n)
      BY <1>1, <2>2, <3>1, <3>2, SeenGrows
    <3> QED
      BY <2>1, <3>3
  <2>4. CASE ~ (l # 0 /\ d = c /\ b = a /\ Heard(l))
    <3>1. y = x
      <4>1. CASE d = c /\ b = a
        BY <1>4, <1>5, <1>8, <1>9, <1>11, <2>1, <2>4, <4>1
      <4>2. CASE ~ (d = c /\ b = a)
        BY <1>5, <1>11, <2>1, <4>2
      <4> QED
        BY <4>1, <4>2
    <3>2. l \in Mem(program) => Op(l).core # d \/ Op(l).addr # b \/ ~ Counts(l)
      BY <1>2, <1>3, <2>4 DEF Counts, Shape
    <3>3. SeenTold(x, d, b, n)
      BY <1>1, <2>2, <3>2, SeenStays
    <3> QED
      BY <2>1, <3>1, <3>3
  <2> QED
    BY <2>3, <2>4
<1>14. l # 0 => (Key[l] - 1 < p <=> Behind(l))
  <2> SUFFICES ASSUME l # 0 PROVE Key[l] - 1 < p <=> Behind(l)
    OBVIOUS
  <2>1. l \in Mem(program) /\ Instant(l) = n /\ c = Op(l).core /\ a = Op(l).addr
    BY <1>2, <1>3
  <2>2. Key[l] - 1 < p <=> \E u \in Mem(program) : Had(u, c, a, m) /\ Key[l] < Key[u]
    BY <1>5, <2>1, SeenBehind
  <2>3. ASSUME NEW u \in Mem(program)
        PROVE  Had(u, c, a, m) <=> /\ Together(u, l) /\ Alike(u, l) /\ Instant(u) < Instant(l)
                                   /\ Counts(u)
    <3>1. n \in Nat /\ m \in Nat /\ Instant(u) \in Nat
      BY HadBefore
    <3>2. Instant(u) <= m <=> Instant(u) < n
      BY <3>1
    <3> QED
      BY <2>1, <3>2 DEF Had, Together, Alike
  <2> QED
    BY <2>2, <2>3 DEF Behind
<1>15. ASSUME NEW al
       PROVE  al \in r.alarms <=>
                al \in k.alarms \/ \E x \in Checks : al = <<i, x>> /\ Misread(l, x)
  <2>1. al \in r.alarms <=>
            \/ al \in k.alarms
            \/ al = <<i, "read_from_valid">> /\ ver = None /\ e.value # None
            \/ al = <<i, "coherence_read_monotonic">> /\ ver # None /\ ver < p
    BY <1>4, <1>11
  <2>2. CASE l = 0
    <3>1. \A x : ~ Misread(l, x)
      BY <1>2, <2>2 DEF Misread, Shape
    <3>2. ~ (ver # None /\ ver < p)
      BY <1>5, <1>9, <2>2
    <3> QED
      BY <1>9, <2>1, <2>2, <3>1, <3>2
  <2>3. CASE l # 0
    <3>1. /\ \A x : Misread(l, x) <=> \/ x = "read_from_valid" /\ ver = None
                                      \/ x = "coherence_read_monotonic" /\ ver # None /\ ver < p
      <4>1. ver = None <=> ~ Heard(l)
        BY <1>8, <1>9, <1>10, <2>3
      <4>2. ver # None /\ ver < p <=> Heard(l) /\ Behind(l)
        BY <1>9, <1>14, <2>3, <4>1
      <4> QED
        BY <1>2, <2>3, <4>1, <4>2 DEF Misread
    <3> QED
      BY <1>9, <2>1, <2>3, <3>1 DEF Checks
  <2> QED
    BY <2>2, <2>3
<1> QED
  BY <1>1, <1>11, <1>12, <1>13, <1>15 DEF Noted

PassInv(marks, k, n) ==
  /\ k \in PassStates /\ Noted(k, n)
  /\ \A j \in 1..n : events[j].core \in k.cores
  /\ "cycle" \in marks =>
       \A c \in Cores, a \in Addrs : StateTold(k.state[<<c, a>>], c, a, n)

\* The states the checker has of a line clash as those last told do.
LEMMA ClashMeans ==
  ASSUME NEW n, NEW a \in Addrs, NEW S \in SUBSET Cores, \A j \in 1..n : events[j].core \in S,
         NEW t, \A c \in Cores : StateTold(t[<<c, a>>], c, a, n)
  PROVE  Clash(n, a) <=> Beside(S, t, a)
<1>1. ASSUME NEW c \in Cores, NEW j \in 1..n, Told(n, c, a, j)
      PROVE  c \in S /\ t[<<c, a>>] = events[j].state
  BY <1>1 DEF Told, StateTold
<1>2. ASSUME NEW c \in Cores, t[<<c, a>>] \in Valid
      PROVE  \E j \in 1..n : Told(n, c, a, j)
  <2>1. t[<<c, a>>] # "I"
    BY <1>2 DEF Valid
  <2> QED
    BY <2>1 DEF StateTold
<1>3. Exclusive \subseteq Valid
  BY DEF Exclusive, Valid
<1>4. Clash(n, a) => Beside(S, t, a)
  BY <1>1 DEF Clash, Beside
<1>5. ASSUME NEW d \in S, NEW f \in S, d # f, t[<<d, a>>] \in Exclusive, t[<<f, a>>] \in Valid
      PROVE  Clash(n, a)
  <2>1. PICK j \in 1..n : Told(n, d, a, j)
    BY <1>2, <1>3, <1>5
  <2>2. PICK k \in 1..n : Told(n, f, a, k)
    BY <1>2, <1>5
  <2>3. events[j].state \in Exclusive /\ events[k].state \in Valid
    BY <1>1, <1>5, <2>1, <2>2
  <2> QED
    BY <1>5, <2>1, <2>2, <2>3 DEF Clash
<1> QED
  BY <1>4, <1>5 DEF Beside

\* Looking at any event notes it, and accuses it of what is wrong.
LEMMA EventLooked ==
  ASSUME NEW N, Finished(N), NEW n \in 1..N, NEW m, m = n - 1, NEW marks \in Marks, NEW e,
         Tells(marks, e, n), NEW k, PassInv(marks, k, m), NEW i \in Nat,
         NEW r, r = Coherence!CheckEvent(k, e, i)
  PROVE  /\ PassInv(marks, r, n)
         /\ \A al : al \in r.alarms <=>
              al \in k.alarms \/ \E x \in Checks : al = <<i, x>> /\ Wrong(marks, n, x)
<1>1. PICK c \in Cores, a \in Addrs : c = events[n].core /\ a = events[n].addr
  BY DEF Finished
<1>2. /\ e.core = c /\ e.addr = a /\ e.op = events[n].op
      /\ e.state = IF "cycle" \in marks THEN events[n].state ELSE None
  BY <1>1 DEF Tells
<1>3. PICK d : d = k.cores \cup {c}
  OBVIOUS
<1>4. PICK met : met = [k EXCEPT !.cores = d]
  OBVIOUS
<1>5. /\ k \in PassStates /\ met \in PassStates /\ met.writes = k.writes /\ met.seen = k.seen
      /\ met.state = k.state /\ met.alarms = k.alarms /\ met.cores = d
  <2>1. k \in PassStates
    BY DEF PassInv
  <2> QED
    BY <1>3, <1>4, <2>1 DEF PassStates
<1>6. Noted(met, m)
  BY <1>5 DEF Noted, PassInv
<1>7. PICK q : q = IF e.op = "store" THEN Coherence!CheckStore(met, e)
                   ELSE Coherence!CheckLoad(met, e, i)
  OBVIOUS
<1>8. r = IF e.state = None THEN q ELSE Coherence!CheckSwmr(q, e, i)
  BY <1>2, <1>3, <1>4, <1>7 DEF Coherence!CheckEvent
<1>9. /\ q \in PassStates /\ Noted(q, n) /\ q.state = k.state /\ q.cores = d
      /\ \A al : al \in q.alarms <=>
           al \in k.alarms \/ \E x \in Checks : al = <<i, x>> /\ Misread(events[n].id, x)
  <2>1. CASE events[n].op = "store"
    <3>1. q = Coherence!CheckStore(met, e)
      BY <1>2, <1>7, <2>1
    <3>2. /\ q \in PassStates /\ Noted(q, n) /\ q.state = met.state /\ q.cores = met.cores
          /\ q.alarms = met.alarms /\ events[n].id \in Stores(program)
      BY <1>5, <1>6, <2>1, <3>1, StoreLooked
    <3>3. \A x : ~ Misread(events[n].id, x)
      BY <3>2 DEF Misread, Finished, Settled, Shape
    <3> QED
      BY <1>5, <3>2, <3>3
  <2>2. CASE events[n].op = "load"
    <3>1. q = Coherence!CheckLoad(met, e, i)
      BY <1>2, <1>7, <2>2
    <3>2. /\ q \in PassStates /\ Noted(q, n) /\ q.state = met.state /\ q.cores = met.cores
          /\ \A al : al \in q.alarms <=>
               al \in met.alarms \/ \E x \in Checks : al = <<i, x>> /\ Misread(events[n].id, x)
      BY <1>5, <1>6, <2>2, <3>1, LoadLooked
    <3> QED
      BY <1>5, <3>2
  <2>3. events[n].op \in {"load", "store"}
    <3>1. \A j \in Mem(program) : Op(j).kind \in {"load", "store"}
      BY DEF Finished, Settled, Shape, Loads, Stores, Op
    <3> QED
      BY <3>1 DEF Finished
  <2> QED
    BY <2>1, <2>2, <2>3
<1>10. n \in Nat /\ n # 0 /\ \A j \in 1..n : j \in 1..m \/ j = n
  BY DEF Finished
<1>11. \A j \in 1..n : events[j].core \in d
  BY <1>1, <1>3, <1>10 DEF PassInv
<1>12. CASE "cycle" \notin marks
  <2>1. r = q
    BY <1>2, <1>8, <1>12
  <2>2. \A x : Wrong(marks, n, x) <=> Misread(events[n].id, x)
    BY <1>12 DEF Wrong
  <2> QED
    BY <1>9, <1>11, <1>12, <2>1, <2>2 DEF PassInv
<1>13. CASE "cycle" \in marks
  <2>1. e.state = events[n].state /\ e.state \in {"M", "E", "S", "I"} /\ e.state # None
    BY <1>2, <1>13, ProgramsAssumption DEF Finished
  <2>2. r = Coherence!CheckSwmr(q, e, i)
    BY <1>8, <2>1
  <2>3. /\ r \in PassStates
        /\ r.writes = q.writes /\ r.seen = q.seen /\ r.cores = q.cores
        /\ Moved(q.state, r.state, c, a, e.state)
        /\ Compared(q, r, i, a)
    <3>1. OfLine(e, c, a)
      BY <1>2, <2>1 DEF OfLine
    <3>2. q \in PassStates
      BY <1>9
    <3> QED
      BY <2>2, <3>1, <3>2, SwmrFields
  <2>4. ASSUME NEW g \in Cores, NEW b \in Addrs
        PROVE  StateTold(r.state[<<g, b>>], g, b, n)
    <3>1. PICK t, u : t = k.state[<<g, b>>] /\ u = r.state[<<g, b>>]
      OBVIOUS
    <3>2. StateTold(t, g, b, m)
      BY <1>13, <3>1 DEF PassInv
    <3>3. u = IF events[n].core = g /\ events[n].addr = b THEN events[n].state ELSE t
      BY <1>1, <1>9, <2>1, <2>3, <3>1 DEF Moved
    <3>4. StateTold(u, g, b, n)
      BY <1>10, <3>2, <3>3, StateMoves
    <3> QED
      BY <3>1, <3>4
  <2>5. PassInv(marks, r, n)
    <3>1. Noted(r, n)
      BY <1>9, <2>3 DEF Noted
    <3> QED
      BY <1>9, <1>11, <2>3, <2>4, <3>1 DEF PassInv
  <2>6. Clash(n, a) <=> Beside(d, r.state, a)
    <3>1. PICK t : t = r.state
      OBVIOUS
    <3>2. \A g \in Cores : StateTold(t[<<g, a>>], g, a, n)
      BY <2>4, <3>1
    <3>3. d \in SUBSET Cores
      BY <1>3, <1>5 DEF PassStates
    <3>4. Clash(n, a) <=> Beside(d, t, a)
      BY <1>11, <3>2, <3>3, ClashMeans
    <3> QED
      BY <3>1, <3>4
  <2>7. ASSUME NEW al
        PROVE  al \in r.alarms <=>
                 al \in k.alarms \/ \E x \in Checks : al = <<i, x>> /\ Wrong(marks, n, x)
    <3>1. al \in r.alarms <=> al \in q.alarms \/ (al = <<i, "swmr">> /\ Clash(n, a))
      BY <1>9, <2>3, <2>6 DEF Compared
    <3>2. al \in q.alarms <=>
           al \in k.alarms \/ \E x \in Checks : al = <<i, x>> /\ Misread(events[n].id, x)
      BY <1>9
    <3>3. \A x : Wrong(marks, n, x) <=>
                   Misread(events[n].id, x) \/ (x = "swmr" /\ Clash(n, a))
      BY <1>1, <1>13 DEF Wrong
    <3> QED
      BY <3>1, <3>2, <3>3 DEF Checks
  <2> QED
    BY <2>5, <2>7
<1> QED
  BY <1>12, <1>13

(***************************************************************************)
(* The whole pass: what the checker accuses is what is wrong.              *)
(***************************************************************************)
Accused(marks, V, k, n) ==
  \A al : al \in k.alarms <=>
    \E j \in 1..n, x \in Checks : al = <<V[j], x>> /\ Wrong(marks, j, x)

\* The pass begins with nothing noted and nothing accused,
LEMMA PassBegins ==
  ASSUME NEW N, Finished(N), NEW marks, NEW V, NEW k, k = Coherence!Fresh(Cores, Addrs)
  PROVE  PassInv(marks, k, 0) /\ Accused(marks, V, k, 0)
<1>1. /\ k.writes = [a \in Addrs |-> <<>>] /\ k.seen = [x \in Cores \X Addrs |-> -1]
      /\ k.state = [x \in Cores \X Addrs |-> "I"] /\ k.cores = {} /\ k.alarms = {}
      /\ k \in PassStates
  BY DEF Coherence!Fresh, Coherence!Unseen, PassStates
<1>2. \A i \in Mem(program) : Instant(i) \in Nat /\ ~ (Instant(i) <= 0)
  BY DEF Finished
<1>3. 1..0 = {} /\ Stores(program) \subseteq Mem(program)
  BY DEF Finished, Settled, Shape
<1>4. ASSUME NEW a \in Addrs PROVE WritesTold(k.writes[a], a, 0)
  <2>1. k.writes[a] = <<>> /\ Len(<<>>) = 0
    BY <1>1
  <2> QED
    BY <1>2, <1>3, <2>1 DEF WritesTold
<1>5. ASSUME NEW c \in Cores, NEW a \in Addrs
      PROVE  SeenTold(k.seen[<<c, a>>], c, a, 0) /\ StateTold(k.state[<<c, a>>], c, a, 0)
  <2>1. k.seen[<<c, a>>] = -1 /\ k.state[<<c, a>>] = "I"
    BY <1>1
  <2>2. \A u \in Mem(program) : ~ Had(u, c, a, 0)
    BY <1>2 DEF Had
  <2>3. SeenTold(-1, c, a, 0)
    BY <2>2 DEF SeenTold
  <2>4. StateTold("I", c, a, 0)
    BY <1>3 DEF StateTold
  <2> QED
    BY <2>1, <2>3, <2>4
<1>6. Noted(k, 0)
  BY <1>4, <1>5 DEF Noted
<1> QED
  BY <1>1, <1>3, <1>5, <1>6 DEF PassInv, Accused

\* and each event keeps it so.
LEMMA PassKeeps ==
  ASSUME NEW N, Finished(N), NEW n \in 1..N, NEW m, m = n - 1, NEW marks \in Marks, NEW e,
         Tells(marks, e, n), NEW k, PassInv(marks, k, m), NEW V, Accused(marks, V, k, m),
         V[n] \in Nat, NEW r, r = Coherence!CheckEvent(k, e, V[n])
  PROVE  PassInv(marks, r, n) /\ Accused(marks, V, r, n)
<1>1. PICK i \in Nat : i = V[n]
  OBVIOUS
<1>2. r = Coherence!CheckEvent(k, e, i)
  BY <1>1
<1>3. /\ PassInv(marks, r, n)
      /\ \A al : al \in r.alarms <=>
              al \in k.alarms \/ \E x \in Checks : al = <<i, x>> /\ Wrong(marks, n, x)
  BY <1>2, EventLooked
<1>4. \A j : j \in 1..n <=> j \in 1..m \/ j = n
  BY DEF Finished
<1>5. ASSUME NEW al
      PROVE  al \in r.alarms <=>
               \E j \in 1..n, x \in Checks : al = <<V[j], x>> /\ Wrong(marks, j, x)
  <2>1. al \in k.alarms <=>
           \E j \in 1..m, x \in Checks : al = <<V[j], x>> /\ Wrong(marks, j, x)
    BY DEF Accused
  <2>2. al \in r.alarms <=>
           al \in k.alarms \/ \E x \in Checks : al = <<V[n], x>> /\ Wrong(marks, n, x)
    BY <1>1, <1>3
  <2> QED
    BY <1>4, <2>1, <2>2
<1> QED
  BY <1>3, <1>5 DEF Accused

\* The whole pass accuses exactly what is wrong in the run.
LEMMA AlarmsFound ==
  ASSUME RunInv, EventInv, Done, NEW marks \in Marks, NEW al
  PROVE  /\ (\E x \in Coherence!Alarms(CoherenceTrace(marks), Cores, Addrs) :
                al = <<events[Listed(marks)[x[1]]].id, x[2]>>)
              <=> \E n \in 1..Len(events), x \in Checks :
                     al = <<events[n].id, x>> /\ Wrong(marks, n, x)
         /\ \A x \in Coherence!Alarms(CoherenceTrace(marks), Cores, Addrs) :
              x[1] \in DOMAIN events
<1>1. PICK N : N = Len(events)
  OBVIOUS
<1>2. Finished(N) /\ DOMAIN events = 1..N /\ \A n \in 1..N : events[n] \in Events
  BY <1>1, RunFinished
<1>3. N \in Nat
  BY <1>2 DEF Finished
<1>4. PICK list, evs : list = Listed(marks) /\ evs = CoherenceTrace(marks)
  OBVIOUS
<1>5. PICK V : V = Coherence!Visibility(evs)
  OBVIOUS
<1>6. DOMAIN V = 1..N /\ \A n \in 1..N : V[n] \in 1..N /\ list[V[n]] = n
  BY <1>2, <1>3, <1>4, <1>5, InOrderOfEffect
<1>7. \A n \in 1..N : \A e : e = events[list[n]] =>
         /\ evs[n].core = e.core /\ evs[n].op = e.op /\ evs[n].addr = e.addr
         /\ evs[n].state = (IF "cycle" \in marks THEN e.state ELSE None)
         /\ evs[n].value = (IF e.id = 0 THEN None
                            ELSE IF e.op = "store" THEN Value(e.id) ELSE Value(source[e.id]))
         /\ evs[n].ver = (IF e.id # 0 /\ "rf" \in marks THEN Version(e.id) ELSE None)
  BY <1>2, <1>3, <1>4, TraceFields
<1>8. ASSUME NEW n \in 1..N PROVE Tells(marks, evs[V[n]], n)
  <2>1. V[n] \in 1..N /\ events[n] = events[list[V[n]]]
    BY <1>6
  <2> QED
    BY <1>7, <2>1 DEF Tells
<1>9. PICK f : f = PassOf(evs, V, 1..N)
  OBVIOUS
<1>10. /\ f[1..0] = Coherence!Fresh(Cores, Addrs)
       /\ \A n \in 1..N : \A m : m = n - 1 =>
            f[1..n] = Coherence!CheckEvent(f[1..m], evs[V[n]], V[n])
  BY <1>3, <1>9, PassSteps
<1>11. PassInv(marks, f[1..N], N) /\ Accused(marks, V, f[1..N], N)
  <2> DEFINE Good(n) == PassInv(marks, f[1..n], n) /\ Accused(marks, V, f[1..n], n)
             Bad == {n \in 0..N : ~ Good(n)}
  <2>1. Good(0)
    BY <1>2, <1>10, PassBegins
  <2>2. ASSUME NEW n \in 1..N, NEW m, m = n - 1, Good(m) PROVE Good(n)
    <3>1. PICK k, r : k = f[1..m] /\ r = f[1..n]
      OBVIOUS
    <3>2. PICK e : e = evs[V[n]]
      OBVIOUS
    <3>3. PassInv(marks, k, m) /\ Accused(marks, V, k, m) /\ Tells(marks, e, n) /\ V[n] \in Nat
      BY <1>6, <1>8, <2>2, <3>1, <3>2
    <3>4. r = Coherence!CheckEvent(k, e, V[n])
      BY <1>10, <2>2, <3>1, <3>2
    <3>5. PassInv(marks, r, n) /\ Accused(marks, V, r, n)
      BY <1>2, <2>2, <3>3, <3>4, PassKeeps
    <3> QED
      BY <3>1, <3>5
  <2> HIDE DEF Good
  <2>3. Bad = {}
    <3> SUFFICES ASSUME Bad # {} PROVE FALSE
      OBVIOUS
    <3>1. PICK n \in Bad : \A j \in Bad : n <= j
      <4>1. Bad \in SUBSET Nat
        BY <1>3
      <4> HIDE DEF Bad
      <4> QED
        BY <4>1, Least
    <3>2. n \in 0..N /\ n # 0 /\ ~ Good(n)
      BY <2>1, <3>1
    <3>3. PICK m : m = n - 1
      OBVIOUS
    <3>4. n \in 1..N /\ m \in 0..N /\ m < n
      BY <1>3, <3>2, <3>3
    <3>5. m \notin Bad
      <4>1. m \in Nat /\ n \in Nat
        BY <3>4
      <4> HIDE DEF Bad
      <4> QED
        BY <3>1, <3>4, <4>1
    <3>6. Good(m)
      BY <3>4, <3>5
    <3> QED
      BY <2>2, <3>2, <3>3, <3>4, <3>6
  <2>4. N \in 0..N
    BY <1>3
  <2>5. Good(N)
    BY <2>3, <2>4
  <2> QED
    BY <2>5 DEF Good
<1>12. Coherence!Alarms(evs, Cores, Addrs) = f[1..N].alarms
  BY <1>5, <1>6, <1>9, AlarmsAre
<1>13. \A x : x \in Coherence!Alarms(evs, Cores, Addrs) <=>
         \E n \in 1..N, y \in Checks : x = <<V[n], y>> /\ Wrong(marks, n, y)
  BY <1>11, <1>12 DEF Accused
<1>14. ASSUME NEW n \in 1..N, NEW y PROVE events[list[<<V[n], y>>[1]]].id = events[n].id
  BY <1>6
<1>15. (\E x \in Coherence!Alarms(evs, Cores, Addrs) : al = <<events[list[x[1]]].id, x[2]>>)
         <=> \E n \in 1..N, y \in Checks : al = <<events[n].id, y>> /\ Wrong(marks, n, y)
  <2>1. ASSUME NEW x \in Coherence!Alarms(evs, Cores, Addrs), al = <<events[list[x[1]]].id, x[2]>>
        PROVE  \E n \in 1..N, y \in Checks : al = <<events[n].id, y>> /\ Wrong(marks, n, y)
    <3>1. PICK n \in 1..N, y \in Checks : x = <<V[n], y>> /\ Wrong(marks, n, y)
      BY <1>13
    <3>2. al = <<events[n].id, y>>
      BY <1>6, <2>1, <3>1
    <3> QED
      BY <3>1, <3>2
  <2>2. ASSUME NEW n \in 1..N, NEW y \in Checks, al = <<events[n].id, y>>, Wrong(marks, n, y)
        PROVE  \E x \in Coherence!Alarms(evs, Cores, Addrs) : al = <<events[list[x[1]]].id, x[2]>>
    <3>1. PICK x : x = <<V[n], y>>
      OBVIOUS
    <3>2. x \in Coherence!Alarms(evs, Cores, Addrs)
      BY <1>13, <2>2, <3>1
    <3>3. al = <<events[list[x[1]]].id, x[2]>>
      BY <1>6, <2>2, <3>1
    <3> QED
      BY <3>2, <3>3
  <2> QED
    BY <2>1, <2>2
<1>16. \A x \in Coherence!Alarms(evs, Cores, Addrs) : x[1] \in 1..N
  BY <1>6, <1>13
<1> QED
  BY <1>1, <1>2, <1>4, <1>15, <1>16

(***************************************************************************)
(* What the coherence checker may say of correct hardware, and what its    *)
(* silence says of any that issues in program order.                       *)
(***************************************************************************)
\* A load of correct hardware reads no older store than one it must know of.
LEMMA KnownBelow ==
  ASSUME RunInv, EventInv, Done, Correct, NEW s \in Stores(program), NEW l \in Loads(program),
         Alike(s, l), Instant(s) < Instant(l) \/ (s < l /\ Together(s, l))
  PROVE  source[l] # 0 /\ Key[s] <= Key[l]
<1>1. /\ Settled /\ Dated /\ Shape /\ Upto
      /\ l \in Mem(program) /\ s \in Mem(program)
      /\ s \in issued /\ Happened(s) /\ l \in issued
  BY EndOfRun, EndHappened DEF Settled, Shape, EventInv
<1>2. s \in Known(l)
  BY <1>1 DEF Known, StoresTo, Alike, Op, Shape
<1>3. s # 0 /\ ReadsNewest(l)
  BY <1>1 DEF Upto, Shape
<1>4. source[l] # 0 /\ (s = source[l] \/ Ahead(s, source[l]))
  BY <1>2, <1>3 DEF ReadsNewest
<1>5. /\ source[l] \in Stores(program) /\ Alike(source[l], l) /\ Key[source[l]] = Key[l]
      /\ Key[s] \in Nat /\ Key[l] \in Nat
  BY <1>1, <1>4 DEF Settled
<1>6. CASE s = source[l]
  BY <1>4, <1>5, <1>6
<1>7. CASE Ahead(s, source[l])
  <2>1. source[l] \in Mem(program) /\ Happened(source[l]) /\ Alike(s, source[l])
    BY <1>1, <1>5, EndHappened DEF Alike, Shape
  <2>2. Instant(s) < Instant(source[l])
    BY <1>1, <1>7, <2>1 DEF Ahead
  <2>3. Key[s] < Key[source[l]]
    BY <1>1, <1>5, <2>1, <2>2 DEF Dated
  <2> QED
    BY <1>4, <1>5, <2>3
<1> QED
  BY <1>4, <1>6, <1>7

\* Correct hardware is accused of two things only.
LEMMA CorrectAlarms ==
  ASSUME RunInv, EventInv, Done, Correct, NEW marks, NEW n \in 1..Len(events), NEW x,
         Wrong(marks, n, x), NEW l, l = events[n].id
  PROVE  \/ x = "read_from_valid" /\ Instant(l) < Instant(source[l])
         \/ x = "swmr" /\ ~ snoops
<1>1. /\ Settled /\ Dated /\ Shape
      /\ \A i \in Mem(program) : Instant(i) \in Nat
  BY EndOfRun DEF Settled, Dated
<1>2. ASSUME l \in Loads(program), ~ Heard(l)
      PROVE  Instant(l) < Instant(source[l])
  <2>1. l \in Mem(program) /\ Instant(l) \in Nat
    BY <1>1, <1>2 DEF Shape
  <2>2. CASE source[l] = 0
    <3>1. PICK s \in Stores(program) : Alike(s, l) /\ ~ (Instant(l) < Instant(s))
      BY <1>2, <2>2 DEF Heard
    <3>2. s \in Mem(program) /\ s # l /\ Instant(s) \in Nat
      BY <1>1, <1>2 DEF Shape
    <3>3. Instant(s) < Instant(l)
      BY <2>1, <3>1, <3>2, EndApart
    <3> QED
      BY <1>2, <2>2, <3>1, <3>3, KnownBelow
  <2>3. CASE source[l] # 0
    <3>1. source[l] \in Stores(program) /\ source[l] \in Mem(program) /\ source[l] # l
      BY <1>1, <1>2, <2>3 DEF Settled, Shape
    <3>2. Instant(source[l]) # Instant(l) /\ Instant(source[l]) \in Nat
      BY <1>1, <2>1, <3>1, EndApart
    <3>3. ~ (Instant(source[l]) < Instant(l))
      BY <1>2, <2>3 DEF Heard
    <3> QED
      BY <2>1, <3>2, <3>3
  <2> QED
    BY <2>2, <2>3
<1>3. ASSUME l \in Loads(program), Behind(l)
      PROVE  FALSE
  <2>1. PICK u \in Mem(program) : /\ Alike(u, l) /\ Instant(u) < Instant(l)
                                  /\ Counts(u) /\ Key[l] < Key[u]
    BY <1>3 DEF Behind
  <2>2. l \in Mem(program) /\ Key[l] \in Nat /\ Key[u] \in Nat
        /\ Instant(u) \in Nat /\ Instant(l) \in Nat
    BY <1>1, <1>3 DEF Settled, Shape
  <2>3. CASE u \in Stores(program)
    <3>1. Key[u] <= Key[l]
      BY <1>3, <2>1, <2>3, KnownBelow
    <3> QED
      BY <2>1, <2>2, <3>1
  <2>4. CASE u \in Loads(program)
    <3>1. PICK t : t = source[u]
      OBVIOUS
    <3>2. t \in Stores(program) /\ Alike(t, u) /\ Key[t] = Key[u] /\ t # 0
      BY <1>1, <2>1, <2>2, <2>4, <3>1 DEF Settled
    <3>3. Instant(t) < Instant(u)
      BY <2>1, <2>4, <3>1, <3>2 DEF Counts, Heard
    <3>4. Instant(t) \in Nat /\ Alike(t, l)
      BY <1>1, <2>1, <3>2 DEF Shape, Alike
    <3>5. Instant(t) < Instant(l)
      BY <2>1, <2>2, <3>3, <3>4
    <3>6. Key[t] <= Key[l]
      BY <1>3, <3>2, <3>4, <3>5, KnownBelow
    <3> QED
      BY <2>1, <2>2, <3>2, <3>6
  <2> QED
    BY <1>1, <2>3, <2>4 DEF Shape
<1>4. ASSUME Clash(n, events[n].addr), snoops
      PROVE  FALSE
  <2>1. PICK c \in Cores, d \in Cores, j \in 1..n, k \in 1..n :
          /\ c # d /\ Told(n, c, events[n].addr, j) /\ Told(n, d, events[n].addr, k)
          /\ events[j].state \in Exclusive /\ events[k].state \in Valid
    BY <1>4 DEF Clash
  <2>2. events[n].addr \in Addrs
    <3>1. events \in Seq(Events)
      BY DEF RunInv, Types
    <3>2. events[n] \in Events
      BY <3>1
    <3> QED
      BY <3>2 DEF Events
  <2> QED
    BY <1>4, <2>1, <2>2 DEF EventInv, Apart
<1> QED
  BY <1>2, <1>3, <1>4 DEF Wrong, Misread

\* Loads that have all been heard and are not behind keep every location in order.
LEMMA HeardInOrder ==
  ASSUME RunInv, EventInv, Done, hw # "weak",
         \A l \in Loads(program) : Heard(l) /\ ~ Behind(l)
  PROVE  Rising
<1>1. /\ Settled /\ Dated /\ Shape /\ program \in Programs
      /\ Mem(program) = Loads(program) \cup Stores(program)
      /\ \A i \in Mem(program) : Instant(i) \in Nat /\ Key[i] \in Nat /\ i \in Nat
  BY EndOfRun DEF Settled, Dated, RunInv, Types, Shape
<1>2. ASSUME NEW u \in Mem(program), NEW v \in Mem(program), u < v, Together(u, v), Alike(u, v)
      PROVE  Key[u] <= Key[v] /\ (v \in Stores(program) => Key[u] < Key[v])
  <2>1. CASE Instant(u) < Instant(v)
    <3>1. CASE u \in Stores(program) /\ v \in Stores(program)
      BY <1>1, <1>2, <2>1, <3>1 DEF Dated
    <3>2. CASE u \in Loads(program) /\ v \in Stores(program)
      <4>1. CASE source[u] = 0
        <5>1. Key[u] = 0 /\ Key[v] # 0
          BY <1>1, <3>2, <4>1 DEF Settled
        <5> QED
          BY <1>1, <5>1
      <4>2. CASE source[u] # 0
        <5>1. PICK t : t = source[u]
          OBVIOUS
        <5>2. t \in Stores(program) /\ Alike(t, u) /\ Key[t] = Key[u]
          BY <1>1, <3>2, <4>2, <5>1 DEF Settled
        <5>3. Instant(t) < Instant(u) /\ Instant(t) \in Nat /\ Alike(t, v)
          BY <1>1, <1>2, <3>2, <4>2, <5>1, <5>2 DEF Heard, Alike
        <5>4. Instant(t) < Instant(v)
          BY <1>1, <2>1, <5>3
        <5>5. Key[t] < Key[v]
          BY <1>1, <3>2, <5>2, <5>3, <5>4 DEF Dated
        <5> QED
          BY <1>1, <5>2, <5>5
      <4> QED
        BY <4>1, <4>2
    <3>3. CASE v \in Loads(program)
      <4>1. Counts(u)
        BY DEF Counts
      <4>2. ~ (Key[v] < Key[u])
        BY <1>2, <2>1, <3>3, <4>1 DEF Behind
      <4>3. v \notin Stores(program)
        BY <1>1, <3>3 DEF Shape
      <4> QED
        BY <1>1, <4>2, <4>3
    <3> QED
      BY <1>1, <3>1, <3>2, <3>3
  <2>2. CASE ~ (Instant(u) < Instant(v))
    <3>1. ~ Strict(u, v)
      BY <1>2, <2>2, EndInTurn
    <3>2. hw = "tso" /\ Correct /\ u \notin Loads(program) /\ v \notin Stores(program)
      BY <3>1 DEF Strict, Correct
    <3>3. u \in Stores(program) /\ v \in Loads(program)
      BY <1>1, <3>2
    <3>4. Key[u] <= Key[v]
      BY <1>2, <3>2, <3>3, KnownBelow
    <3> QED
      BY <3>2, <3>4
  <2> QED
    BY <2>1, <2>2
<1>3. ASSUME NEW u \in Mem(program), NEW v \in Mem(program), <<u, v>> \in Local
      PROVE  /\ Key[u] <= Key[v]
             /\ v \in Stores(program) => Key[u] < Key[v]
             /\ u \in Loads(program) /\ v \in Loads(program) => u < v
  <2>1. CASE <<u, v>> \in Loc
    BY <1>2, <2>1 DEF Loc
  <2>2. CASE <<u, v>> \in From
    <3>1. u \in Stores(program) /\ v \in Loads(program) /\ u = source[v]
      BY <2>2 DEF From
    <3>2. Key[u] = Key[v] /\ u \notin Loads(program) /\ v \notin Stores(program)
      BY <1>1, <3>1 DEF Settled, Shape
    <3> QED
      BY <1>1, <3>2
  <2>3. CASE <<u, v>> \in Coh \cup Over
    <3>1. Key[u] < Key[v] /\ v \in Stores(program)
      BY <2>3 DEF Coh, Over
    <3>2. v \notin Loads(program)
      BY <1>1, <3>1 DEF Shape
    <3> QED
      BY <1>1, <3>1, <3>2
  <2> QED
    BY <1>3, <2>1, <2>2, <2>3 DEF Local
<1> QED
  BY <1>3 DEF Rising

\* A run of which nothing is wrong has each location in order, and no line was ever
\* writable beside a valid one if the events tell the states.
LEMMA NothingWrong ==
  ASSUME RunInv, EventInv, Done, hw # "weak", NEW marks \in Marks, NEW m,
         \A n \in 1..Len(events), x \in Checks : ~ Wrong(marks, n, x)
  PROVE  /\ "sc_per_location" \notin Violations(Execution(marks), m)
         /\ breach => "cycle" \notin marks
<1>1. /\ Settled /\ Dated /\ Shape /\ program \in Programs /\ events \in Seq(Events)
      /\ Loads(program) \subseteq Mem(program)
  BY EndOfRun DEF Settled, RunInv, Types, Shape
<1>2. ASSUME NEW l \in Loads(program)
      PROVE  Heard(l) /\ ~ Behind(l)
  <2>1. PICK n : n = Instant(l)
    OBVIOUS
  <2>2. n \in 1..Len(events) /\ events[n].id = l
    BY <1>1, <2>1, EndHappened, InstantMeans DEF Happened
  <2>3. ~ Misread(l, "read_from_valid") /\ ~ Misread(l, "coherence_read_monotonic")
    BY <2>2 DEF Wrong, Checks
  <2> QED
    BY <2>3 DEF Misread
<1>3. ~ HasCycle(Mem(program), Local)
  BY <1>1, <1>2, HeardInOrder, RisingHasNoCycle
<1>4. "sc_per_location" \notin Violations(Execution(marks), m)
  <2>1. PICK x : x = Execution(marks)
    OBVIOUS
  <2>2. Mem(x) = Mem(program)
    BY <1>1, <2>1, SameSets
  <2>3. PerLocationEdges(x) = Local
    <3>1. /\ SameAddressEdges(x) = Loc /\ ReadsFromEdges(x, FALSE) = From
          /\ CoEdges(x) = Coh /\ FromReadEdges(x) = Over
      BY <1>1, <2>1, LocalFound
    <3> QED
      BY <3>1 DEF PerLocationEdges, Local
  <2>4. ~ HasCycle(Mem(x), PerLocationEdges(x))
    BY <1>3, <2>2, <2>3
  <2>5. "sc_per_location" \notin Violations(x, m)
    BY <2>4 DEF Violations
  <2> QED
    BY <2>1, <2>5
<1>5. ASSUME breach, "cycle" \in marks
      PROVE  FALSE
  <2>1. PICK n \in 1..Len(events) : \E d \in Cores, k \in 1..n :
             /\ events[n].state = "M" /\ events[n].core # d
             /\ Told(n, d, events[n].addr, k) /\ events[k].state \in Valid
    BY <1>5 DEF EventInv, Lines, Exposed
  <2>2. PICK d \in Cores, k \in 1..n :
             /\ events[n].state = "M" /\ events[n].core # d
             /\ Told(n, d, events[n].addr, k) /\ events[k].state \in Valid
    BY <2>1
  <2>3. PICK c : c = events[n].core
    OBVIOUS
  <2>4. c \in Cores /\ n \in 1..n
    <3>1. events[n] \in Events
      BY <1>1
    <3> QED
      BY <2>3, <3>1 DEF Events
  <2>5. Told(n, c, events[n].addr, n)
    BY <2>3, <2>4 DEF Told
  <2>6. Clash(n, events[n].addr)
    BY <2>2, <2>3, <2>4, <2>5 DEF Clash, Exclusive
  <2> QED
    BY <1>5, <2>6 DEF Wrong, Checks
<1> QED
  BY <1>4, <1>5

(***************************************************************************)
(* The traces and the report.                                              *)
(***************************************************************************)
TraceOf(marks) ==
  [consistency |-> Execution(marks), coherence |-> CoherenceTrace(marks),
   id |-> [n \in DOMAIN events |-> events[Listed(marks)[n]].id]]

TraceInv == traces # None => Done /\ \E marks \in Marks : traces = TraceOf(marks)

ReportInv ==
  report # None =>
    /\ traces # None
    /\ report.memory = [m \in Models |-> Violations(traces.consistency, m)]
    /\ report.coherence = {<<traces.id[al[1]], al[2]>> :
                             al \in Coherence!Alarms(traces.coherence, Cores, Addrs)}

MulticoreInv == RunInv /\ EventInv /\ TraceInv /\ ReportInv

\* The traces are written when the cores have come to rest.
LEMMA RestIsRest ==
  ASSUME RunInv, Done
  PROVE  /\ \A i \in DOMAIN program : ~ (Load(i) \/ Store(i) \/ Enqueue(i)
                                         \/ ReadModifyWrite(i) \/ Fence(i))
         /\ \A c \in Cores : ~ Drain(c)
BY DEF Done, Load, Store, Enqueue, ReadModifyWrite, Fence, Ready, Drain

\* The invariant holds at the start.
LEMMA MulticoreStarts ==
  ASSUME Init
  PROVE  MulticoreInv
<1>1. Types
  <2>1. ProgramsAssumption
    BY ProgramsAssumption
  <2> QED
    BY DEF Init, Types
<1>2. Read
  BY DEF Init, Read, Versions
<1>3. /\ \A a \in Addrs : Len(order[a]) = 0
      /\ \A c \in Cores : Len(buffer[c]) = 0
      /\ Len(events) = 0 /\ issued = {} /\ traces = None /\ report = None
  BY DEF Init
<1>4. Queued /\ Taken /\ Placed /\ Stamped /\ Paired
  BY <1>3 DEF Queued, Taken, Placed, Stamped, Paired
<1>5. EventInv
  BY EventsStart
<1> QED
  BY <1>1, <1>2, <1>3, <1>4, <1>5 DEF MulticoreInv, RunInv, TraceInv, ReportInv

\* A trace depends on the program, what memory did and the events alone,
LEMMA TraceOfStays ==
  ASSUME program' = program, order' = order, source' = source, events' = events
  PROVE  Marks' = Marks /\ \A marks : TraceOf(marks)' = TraceOf(marks)
<1>1. Marks' = Marks
  BY DEF Marks, SingleStores, DistinctValues, Value, Op
<1>2. \A marks : Execution(marks)' = Execution(marks)
  BY DEF Execution, Op, Value, Rank, Instant, SelectInSeq
<1>3. \A marks : Listed(marks)' = Listed(marks)
  BY DEF Listed, Before
<1>4. ASSUME NEW marks PROVE CoherenceTrace(marks)' = CoherenceTrace(marks)
  <2>1. \A i : Value(i)' = Value(i) /\ Version(i)' = Version(i)
    BY DEF Value, Version, Op, Rank, SelectInSeq
  <2>2. Listed(marks)' = Listed(marks)
    BY <1>3
  <2> QED
    BY <2>1, <2>2 DEF CoherenceTrace
<1> QED
  BY <1>1, <1>2, <1>3, <1>4 DEF TraceOf

\* and is the same after a step that leaves these.
LEMMA TraceStays ==
  ASSUME TraceInv, traces' = traces, program' = program, issued' = issued,
         buffer' = buffer, order' = order, source' = source, events' = events
  PROVE  TraceInv'
<1>1. Done' <=> Done
  BY DEF Done
<1>2. Marks' = Marks /\ \A marks : TraceOf(marks)' = TraceOf(marks)
  BY TraceOfStays
<1> QED
  BY <1>1, <1>2 DEF TraceInv

\* Every step keeps the invariant.
LEMMA MulticoreStep ==
  ASSUME MulticoreInv, [Next]_vars
  PROVE  MulticoreInv'
<1> USE DEF MulticoreInv
<1>1. ASSUME NEW i \in DOMAIN program,
             Load(i) \/ Store(i) \/ Enqueue(i) \/ ReadModifyWrite(i) \/ Fence(i)
      PROVE  MulticoreInv'
  <2>1. RunInv'
    BY <1>1, LoadStep, StoreStep, EnqueueStep, AtomicStep, FenceStep
  <2>2. traces' = traces /\ report' = report
    BY <1>1 DEF Load, Store, Enqueue, ReadModifyWrite, Fence
  <2>3. traces = None
    BY <1>1, RestIsRest DEF TraceInv
  <2>4. EventInv'
    <3>1. CASE Load(i)
      BY <2>1, <3>1, LoadEvents
    <3>2. CASE Store(i)
      BY <2>1, <3>2, StoreEvents
    <3>3. CASE Enqueue(i)
      BY <2>1, <3>3, EnqueueEvents
    <3>4. CASE ReadModifyWrite(i)
      BY <2>1, <3>4, AtomicEvents
    <3>5. CASE Fence(i)
      BY <2>1, <3>5, FenceEvents
    <3> QED
      BY <1>1, <3>1, <3>2, <3>3, <3>4, <3>5
  <2> QED
    BY <2>1, <2>2, <2>3, <2>4 DEF TraceInv, ReportInv
<1>2. ASSUME NEW c \in Cores, Drain(c)
      PROVE  MulticoreInv'
  <2>1. RunInv'
    BY <1>2, DrainStep
  <2>2. traces' = traces /\ report' = report
    BY <1>2 DEF Drain
  <2>3. traces = None
    BY <1>2, RestIsRest DEF TraceInv
  <2>4. EventInv'
    BY <1>2, <2>1, DrainEvents
  <2> QED
    BY <2>1, <2>2, <2>3, <2>4 DEF TraceInv, ReportInv
<1>3. ASSUME NEW marks \in Marks, Write(marks)
      PROVE  MulticoreInv'
  <2>1. RunInv'
    BY <1>3, StillStep DEF Write
  <2>2. report' = report /\ report = None
    BY <1>3 DEF Write, ReportInv
  <2>3. Done /\ traces' = TraceOf(marks) /\ program' = program
        /\ issued' = issued /\ buffer' = buffer /\ order' = order /\ source' = source
        /\ events' = events
    BY <1>3 DEF Write, TraceOf
  <2>4. Done'
    BY <2>3 DEF Done
  <2>5. Marks' = Marks /\ TraceOf(marks)' = TraceOf(marks)
    BY <2>3, TraceOfStays
  <2>6. TraceInv'
    BY <2>3, <2>4, <2>5 DEF TraceInv
  <2>7. EventInv'
    BY <1>3, <2>1, StillEvents DEF Write
  <2> QED
    BY <2>1, <2>2, <2>6, <2>7 DEF ReportInv
<1>4. ASSUME Verify
      PROVE  MulticoreInv'
  <2>1. RunInv'
    BY <1>4, StillStep DEF Verify
  <2>2. TraceInv'
    BY <1>4, TraceStays DEF Verify
  <2>3. ReportInv'
    BY <1>4 DEF Verify, ReportInv
  <2>4. EventInv'
    BY <1>4, <2>1, StillEvents DEF Verify
  <2> QED
    BY <2>1, <2>2, <2>3, <2>4
<1>5. ASSUME UNCHANGED vars
      PROVE  MulticoreInv'
  <2>1. RunInv'
    BY <1>5, StillStep DEF vars
  <2>2. TraceInv'
    BY <1>5, TraceStays DEF vars
  <2>3. ReportInv'
    BY <1>5 DEF vars, ReportInv
  <2>4. EventInv'
    BY <1>5, <2>1, StillEvents DEF vars
  <2> QED
    BY <2>1, <2>2, <2>3, <2>4
<1> QED
  BY <1>1, <1>2, <1>3, <1>4, <1>5 DEF Next

\* What the cores, the trace and the report keep true in every run, on
\* hardware that is correct or not (the lists and indexes that load_trace and
\* _coherence_order of memory_model_verifier.py start from, and the events
\* run() of coherence_verifier.py goes through).
THEOREM MulticoreInvariant == Spec => []MulticoreInv
<1>1. Init => MulticoreInv
  BY MulticoreStarts
<1>2. MulticoreInv /\ [Next]_vars => MulticoreInv'
  BY MulticoreStep
<1> QED
  BY <1>1, <1>2, PTL DEF Spec

\* What a report says: what the two checkers find in the traces of the run.
Found(marks) ==
  \A al : al \in report.coherence <=>
            \E n \in 1..Len(events), x \in Checks :
              al = <<events[n].id, x>> /\ Wrong(marks, n, x)

Reported(marks) ==
  /\ traces = TraceOf(marks)
  /\ \A m \in Models : report.memory[m] = Violations(Execution(marks), m)
  /\ Found(marks)

\* A report, once given, says it.
LEMMA ReportSays ==
  ASSUME MulticoreInv, report # None
  PROVE  /\ RunInv /\ EventInv /\ Done /\ program \in Programs
         /\ \E marks \in Marks : Reported(marks)
<1>1. /\ RunInv /\ EventInv /\ Done /\ program \in Programs /\ traces # None
      /\ report.memory = [m \in Models |-> Violations(traces.consistency, m)]
      /\ report.coherence = {<<traces.id[al[1]], al[2]>> :
                               al \in Coherence!Alarms(traces.coherence, Cores, Addrs)}
  BY DEF MulticoreInv, TraceInv, ReportInv, RunInv, Types
<1>2. PICK marks \in Marks : traces = TraceOf(marks)
  BY <1>1 DEF MulticoreInv, TraceInv
<1>3. /\ traces.consistency = Execution(marks) /\ traces.coherence = CoherenceTrace(marks)
      /\ \A n \in DOMAIN events : traces.id[n] = events[Listed(marks)[n]].id
  BY <1>2 DEF TraceOf
<1>4. ASSUME NEW al
      PROVE  al \in report.coherence <=>
               \E n \in 1..Len(events), x \in Checks :
                 al = <<events[n].id, x>> /\ Wrong(marks, n, x)
  <2>1. PICK A : A = Coherence!Alarms(CoherenceTrace(marks), Cores, Addrs)
    OBVIOUS
  <2>2. /\ (\E y \in A : al = <<events[Listed(marks)[y[1]]].id, y[2]>>)
             <=> \E n \in 1..Len(events), x \in Checks :
                   al = <<events[n].id, x>> /\ Wrong(marks, n, x)
        /\ \A y \in A : y[1] \in DOMAIN events
    BY <1>1, <2>1, AlarmsFound
  <2>3. al \in report.coherence <=> \E y \in A : al = <<traces.id[y[1]], y[2]>>
    BY <1>1, <1>3, <2>1
  <2> QED
    BY <1>3, <2>2, <2>3
<1>5. Found(marks)
  BY <1>4 DEF Found
<1>6. \A m \in Models : report.memory[m] = Violations(Execution(marks), m)
  BY <1>1, <1>3
<1>7. Reported(marks)
  BY <1>2, <1>5, <1>6 DEF Reported
<1> QED
  BY <1>1, <1>7

\* Under each model the consistency checker passes exactly the executions
\* that an order of all accesses explains: run() of
\* memory_model_verifier.py accuses no run the model allows and misses none
\* it forbids, however the trace marks its operations.
THEOREM ExactVerdicts == Spec => []VerdictIsExact
<1>1. MulticoreInv => VerdictIsExact
  <2> SUFFICES ASSUME MulticoreInv, report # None, NEW m \in Models
               PROVE  (report.memory[m] = {}) = Explained(m)
    BY DEF VerdictIsExact
  <2>1. RunInv /\ Done /\ program \in Programs
    BY ReportSays
  <2>2. PICK marks \in Marks : Reported(marks)
    BY ReportSays
  <2>3. Settled /\ Dated
    BY <2>1, EndOfRun
  <2>4. Violations(Execution(marks), m) = {} <=> Explained(m)
    BY <2>1, <2>3, CheckerIsExact
  <2>5. Explained(m) \in BOOLEAN
    BY DEF Explained
  <2> QED
    BY <2>2, <2>4, <2>5 DEF Reported
<1> QED
  BY <1>1, MulticoreInvariant, PTL

\* No false alarm: the consistency checker never accuses hardware under the
\* model it keeps, or sequentially consistent hardware under any, and run()
\* of coherence_verifier.py accuses correct hardware only of a load answered
\* by its core's own queue and, in a trace without the snoops, of states
\* that have changed unheard.
THEOREM NoFalseAlarms == Spec => []NoFalseAlarm
<1>1. MulticoreInv => NoFalseAlarm
  <2> SUFFICES ASSUME MulticoreInv, report # None, Correct
               PROVE  /\ report.memory[hw] = {}
                      /\ hw = "sc" => \A m \in Models : report.memory[m] = {}
                      /\ \A al \in report.coherence :
                           \/ /\ al[2] = "read_from_valid"
                              /\ Instant(al[1]) < Instant(source[al[1]])
                           \/ al[2] = "swmr" /\ ~ snoops
    BY DEF NoFalseAlarm
  <2>1. RunInv /\ EventInv /\ Done
    BY ReportSays
  <2>2. PICK marks \in Marks : Reported(marks)
    BY ReportSays
  <2>3. ASSUME NEW m \in Models, hw = "sc" \/ m = hw
        PROVE  report.memory[m] = {}
    <3>1. Violations(Execution(marks), m) = {}
      BY <2>1, <2>3, CorrectIsNotAccused
    <3> QED
      BY <2>2, <3>1 DEF Reported
  <2>4. hw \in Models
    BY DEF Correct, Models
  <2>5. ASSUME NEW al \in report.coherence
        PROVE  \/ al[2] = "read_from_valid" /\ Instant(al[1]) < Instant(source[al[1]])
               \/ al[2] = "swmr" /\ ~ snoops
    <3>1. PICK n \in 1..Len(events), x \in Checks :
            al = <<events[n].id, x>> /\ Wrong(marks, n, x)
      BY <2>2, <2>5 DEF Reported, Found
    <3>2. PICK l : l = events[n].id
      OBVIOUS
    <3>3. \/ x = "read_from_valid" /\ Instant(l) < Instant(source[l])
          \/ x = "swmr" /\ ~ snoops
      BY <2>1, <3>1, <3>2, CorrectAlarms
    <3> QED
      BY <3>1, <3>2, <3>3
  <2> QED
    BY <2>3, <2>4, <2>5
<1> QED
  BY <1>1, MulticoreInvariant, PTL

\* The two checkers agree on a single location: on any hardware that issues
\* in program order, what run() of coherence_verifier.py lets through has no
\* sc_per_location cycle for memory_model_verifier.py and, if the events tell
\* the states of lines, never had a writable line beside a valid one.
THEOREM CoherentRuns == Spec => []CoherentMeansPerLocation
<1>1. MulticoreInv => CoherentMeansPerLocation
  <2> SUFFICES ASSUME MulticoreInv, report # None, hw # "weak", report.coherence = {}
               PROVE  /\ \A m \in Models : "sc_per_location" \notin report.memory[m]
                      /\ breach => \A n \in DOMAIN traces.coherence :
                                     traces.coherence[n].state = None
    BY DEF CoherentMeansPerLocation
  <2>1. RunInv /\ EventInv /\ Done
    BY ReportSays
  <2>2. PICK marks \in Marks : Reported(marks)
    BY ReportSays
  <2>3. \A n \in 1..Len(events), x \in Checks : ~ Wrong(marks, n, x)
    BY <2>2 DEF Reported, Found
  <2>4. ASSUME NEW m \in Models PROVE "sc_per_location" \notin report.memory[m]
    <3>1. "sc_per_location" \notin Violations(Execution(marks), m)
      BY <2>1, <2>3, NothingWrong
    <3> QED
      BY <2>2, <3>1 DEF Reported
  <2>5. breach => "cycle" \notin marks
    BY <2>1, <2>3, NothingWrong
  <2>6. ASSUME "cycle" \notin marks, NEW n \in DOMAIN traces.coherence
        PROVE  traces.coherence[n].state = None
    <3>1. PICK N, list, evs : /\ N = Len(events) /\ list = Listed(marks)
                              /\ evs = CoherenceTrace(marks)
      OBVIOUS
    <3>2. N \in Nat /\ DOMAIN events = 1..N /\ \A k \in 1..N : events[k] \in Events
      BY <2>1, <3>1, RunFinished DEF Finished
    <3>3. /\ DOMAIN evs = 1..N
          /\ \A k \in 1..N : \A e : e = events[list[k]] =>
               evs[k].state = (IF "cycle" \in marks THEN e.state ELSE None)
      BY <3>1, <3>2, TraceFields
    <3>4. traces.coherence = evs
      BY <2>2, <3>1 DEF Reported, TraceOf
    <3> QED
      BY <2>6, <3>3, <3>4
  <2> QED
    BY <2>4, <2>5, <2>6
<1> QED
  BY <1>1, MulticoreInvariant, PTL

=============================================================================
