------------------------ MODULE PairComparisonProofs ------------------------
(***************************************************************************)
(* Proofs about PairComparison, for logs and windows of any length.        *)
(* WindowInv gives the ring in closed form: it holds the differences       *)
(* between consecutive commits of the RTL log, for the last lines read.    *)
(* ReportInv ties the reports to the rules: they are what Compare finds on *)
(* the lines read.  What remains is about one pair of records, and has no  *)
(* states in it.                                                           *)
(***************************************************************************)
EXTENDS PairComparison, FiniteSetTheorems, TLAPS

\* The difference that the commit of line n makes.
DeltaAt(n) ==
  [id |-> Identity(log.rtl[n]),
   set |-> [f \in ContextFields |->
              IF n = 1 \/ log.rtl[n][f] # log.rtl[n - 1][f] THEN log.rtl[n][f] ELSE None]]

Depth(n) == IF n < cfg.window THEN n ELSE cfg.window
Held(n)  == [k \in 1..Depth(n) |-> DeltaAt(n - Depth(n) + k)]

WindowInv ==
  /\ cfg.window \in Nat
  /\ log \in [rtl : Seq(Commits), iss : Seq(Commits)]
  /\ pos \in 0..Len(log.rtl)
  /\ ring = Held(pos)
  /\ prev = IF pos = 0 \/ cfg.window = 0 THEN None ELSE log.rtl[pos]

-----------------------------------------------------------------------------
\* A non-empty set of line numbers has a last one: strict inclusion of the
\* intervals x..n is well-founded.
LEMMA Greatest ==
  ASSUME NEW n \in Nat, NEW T \in SUBSET (1..n), T # {}
  PROVE  \E x \in T : \A y \in T : y <= x
<1> DEFINE S == 1..n
           R == StrictSubsetOrdering(S)
           U == {x..n : x \in T}
<1>1. IsWellFoundedOn(R, FiniteSubsetsOf(S))
  <2>1. IsFiniteSet(S)
    BY FS_Interval
  <2> HIDE DEF S
  <2> QED
    BY <2>1, FS_StrictSubsetOrderingWellFounded
<1>2. U \subseteq FiniteSubsetsOf(S) /\ U # {}
  <2>1. \A x \in T : x..n \subseteq S
    OBVIOUS
  <2>2. \A x \in T : IsFiniteSet(x..n)
    BY FS_Interval
  <2> QED
    BY <2>1, <2>2 DEF FiniteSubsetsOf
<1>3. PICK u \in U : \A v \in U : ~(<<v, u>> \in R)
  <2> HIDE DEF R, U, S
  <2> QED
    BY <1>1, <1>2, WFMin
<1>4. PICK x \in T : u = x..n
  OBVIOUS
<1>5. ASSUME NEW y \in T, x < y PROVE FALSE
  <2>1. y..n \subseteq x..n /\ x \in x..n /\ x \notin y..n /\ x..n \subseteq S
    BY <1>5
  <2>2. <<y..n, x..n>> \in R
    BY <2>1 DEF StrictSubsetOrdering
  <2> QED
    BY <1>3, <1>4, <2>2
<1> QED
  BY <1>5

-----------------------------------------------------------------------------
(* The ring is what the log says.                                           *)

LEMMA SequenceIsFunction ==
  ASSUME NEW S, NEW s \in Seq(S)
  PROVE  DOMAIN s = 1..Len(s) /\ s = [k \in 1..Len(s) |-> s[k]]
  OBVIOUS

LEMMA DecodedCommits ==
  ASSUME NEW lines \in Seq(Records)
  PROVE  Decoded(lines) \in Seq(Commits)
<1>1. DOMAIN lines = 1..Len(lines) /\ Len(lines) \in Nat
  OBVIOUS
<1>2. \A k \in 1..Len(lines) : Decode(lines[k]) \in Commits
  BY DEF Commits
<1>3. Decoded(lines) = [k \in 1..Len(lines) |-> Decode(lines[k])]
  BY <1>1 DEF Decoded
<1> QED
  BY <1>1, <1>2, <1>3

LEMMA WindowInit == Init => WindowInv
<1> SUFFICES ASSUME Init PROVE WindowInv
  OBVIOUS
<1>1. PICK input \in Inputs : cfg \in input.cfgs /\ raw \in [rtl : input.rtl, iss : input.iss]
  BY DEF Init
<1>2. cfg.window \in Nat /\ log \in [rtl : Seq(Commits), iss : Seq(Commits)]
  <2>1. cfg.window \in Nat /\ raw.rtl \in Seq(Records) /\ raw.iss \in Seq(Records)
    BY <1>1, InputsAssumption
  <2>2. Decoded(raw.rtl) \in Seq(Commits) /\ Decoded(raw.iss) \in Seq(Commits)
    BY <2>1, DecodedCommits
  <2> QED
    BY <2>1, <2>2 DEF Init
<1>3. Depth(0) = 0
  BY <1>2 DEF Depth
<1>4. ring = Held(0)
  BY <1>3 DEF Init, Held
<1> QED
  BY <1>2, <1>4 DEF Init, WindowInv

LEMMA RingStep ==
  ASSUME WindowInv, ComparePair
  PROVE  WindowInv'
<1> DEFINE r == log.rtl[pos + 1]
           d == Depth(pos)
<1>1. pos \in Nat /\ pos + 1 \in 1..Len(log.rtl) /\ pos' = pos + 1
  BY DEF WindowInv, ComparePair
<1>2. UNCHANGED <<cfg, log>> /\ Push(r)
  BY DEF ComparePair
<1>3. r \in Commits /\ (pos > 0 => log.rtl[pos] \in Commits)
  BY <1>1 DEF WindowInv
<1>4. d \in Nat /\ d <= cfg.window /\ d <= pos
  BY <1>1 DEF WindowInv, Depth
<1>5. CASE cfg.window = 0
  <2>1. Depth(pos) = 0 /\ Depth(pos + 1) = 0
    BY <1>1, <1>5 DEF Depth
  <2>2. Held(pos) = Held(pos + 1)
    BY <2>1 DEF Held
  <2>3. ring' = ring /\ prev' = prev /\ prev = None
    BY <1>2, <1>5 DEF Push, WindowInv
  <2>4. (Held(pos))' = Held(pos + 1)
    BY <1>1, <1>2 DEF Held, Depth, DeltaAt
  <2> QED
    BY <1>1, <1>2, <1>5, <2>2, <2>3, <2>4 DEF WindowInv
<1>6. CASE cfg.window # 0
  <2> DEFINE all == Append(ring, Delta(r))
             D   == {DeltaAt(n) : n \in 1..(pos + 1)}
  <2>1. Delta(r) = DeltaAt(pos + 1)
    <3>1. prev = None <=> pos = 0
      BY <1>1, <1>3, <1>6, NoneAssumption DEF WindowInv
    <3>2. pos + 1 = 1 <=> pos = 0
      BY <1>1
    <3>3. pos # 0 => prev = log.rtl[(pos + 1) - 1]
      BY <1>1, <1>6 DEF WindowInv
    <3> QED
      BY <3>1, <3>2, <3>3 DEF Delta, DeltaAt
  <2>2. ring \in Seq(D) /\ Len(ring) = d /\ \A k \in 1..d : ring[k] = DeltaAt(pos - d + k)
    <3>1. ring = [k \in 1..d |-> DeltaAt(pos - d + k)]
      BY DEF WindowInv, Held
    <3>2. \A k \in 1..d : pos - d + k \in 1..(pos + 1)
      BY <1>1, <1>4
    <3> HIDE DEF d
    <3>3. \A k \in 1..d : DeltaAt(pos - d + k) \in D
      BY <3>2
    <3> HIDE DEF D
    <3> QED
      BY <1>4, <3>1, <3>3
  <2>3. all \in Seq(D \cup {Delta(r)}) /\ Len(all) = d + 1
        /\ \A k \in 1..(d + 1) : all[k] = DeltaAt(pos - d + k)
    <3> HIDE DEF d, D
    <3>1. all \in Seq(D \cup {Delta(r)}) /\ Len(all) = d + 1
          /\ all[d + 1] = Delta(r) /\ \A k \in 1..d : all[k] = ring[k]
      BY <1>4, <2>2
    <3>2. pos - d + (d + 1) = pos + 1
      BY <1>1, <1>4
    <3> QED
      BY <1>4, <2>1, <2>2, <3>1, <3>2
  <2>4. ring' = Held(pos + 1)
    <3>1. CASE pos < cfg.window
      <4>1. d = pos /\ Depth(pos + 1) = pos + 1
        BY <1>1, <3>1 DEF WindowInv, Depth
      <4>2. ring' = all
        BY <1>2, <1>6, <2>3, <3>1, <4>1, <1>1 DEF Push, Pushed, WindowInv
      <4>3. all = [k \in 1..(pos + 1) |-> DeltaAt(k)]
        BY <1>1, <2>3, <4>1
      <4> QED
        BY <1>1, <4>1, <4>2, <4>3 DEF Held
    <3>2. CASE ~(pos < cfg.window)
      <4>1. d = cfg.window /\ Depth(pos + 1) = cfg.window
        BY <1>1, <3>2 DEF WindowInv, Depth
      <4>2. ring' = Tail(all)
        BY <1>2, <1>6, <1>4, <2>3, <4>1 DEF Push, Pushed
      <4> HIDE DEF all, d, D
      <4>3. Tail(all) = [k \in 1..d |-> all[k + 1]]
        <5>1. all \in Seq(D \cup {Delta(r)}) /\ Len(all) = d + 1 /\ all # <<>>
          BY <1>4, <2>3
        <5>2. Tail(all) \in Seq(D \cup {Delta(r)}) /\ Len(Tail(all)) = d
          BY <1>4, <5>1
        <5>3. \A k \in 1..d : Tail(all)[k] = all[k + 1]
          BY <1>4, <5>1, <5>2
        <5>4. Tail(all) = [k \in 1..d |-> Tail(all)[k]]
          BY <5>2, SequenceIsFunction
        <5> HIDE DEF D
        <5> QED
          BY <5>3, <5>4
      <4>4. \A k \in 1..d : all[k + 1] = DeltaAt((pos + 1) - d + k)
        <5> SUFFICES ASSUME NEW k \in 1..d PROVE all[k + 1] = DeltaAt((pos + 1) - d + k)
          OBVIOUS
        <5>1. k + 1 \in 1..(d + 1) /\ pos - d + (k + 1) = (pos + 1) - d + k
          BY <1>1, <1>4
        <5> QED
          BY <2>3, <5>1
      <4> QED
        BY <4>1, <4>2, <4>3, <4>4 DEF Held
    <3> QED
      BY <3>1, <3>2
  <2>5. prev' = r
    BY <1>2, <1>6 DEF Push, Previous
  <2>6. (Held(pos))' = Held(pos + 1)
    BY <1>1, <1>2 DEF Held, Depth, DeltaAt
  <2> QED
    BY <1>1, <1>2, <1>6, <2>4, <2>5, <2>6 DEF WindowInv
<1> QED
  BY <1>5, <1>6

(* The ring holds the differences of the last lines, whatever their number. *)
THEOREM WindowCorrect == Spec => []WindowInv
<1>1. WindowInv /\ [Next]_vars => WindowInv'
  <2> SUFFICES ASSUME WindowInv, [Next]_vars PROVE WindowInv'
    OBVIOUS
  <2>1. CASE ComparePair
    BY <2>1, RingStep
  <2>2. CASE UNCHANGED vars
    BY <2>2 DEF vars, WindowInv, Held, Depth, DeltaAt
  <2> QED
    BY <2>1, <2>2 DEF Next
<1> QED
  BY <1>1, WindowInit, PTL DEF Spec

-----------------------------------------------------------------------------
(* What a row shows.                                                        *)

\* A value that a row shows is the last one the log gave the field: top is the
\* last recorded change, on line t, and last the last line with a value.
LEMMA LatestShown ==
  ASSUME WindowInv, NEW k \in DOMAIN ring, NEW f \in ContextFields,
         Snapshot[k].shown[f] # Zero[f]
  PROVE  HasValue(f, LineOf(k)) # {} /\ Snapshot[k].shown[f] = Latest(f, LineOf(k))
<1> DEFINE d       == Depth(pos)
           changes == {j \in 1..k : ring[j].set[f] # None}
           top     == CHOOSE j \in changes : \A m \in changes : m <= j
           n       == LineOf(k)
           V(x)    == log.rtl[x][f]
           H       == HasValue(f, n)
           last    == CHOOSE m \in H : \A x \in H : x <= m
<1>1. /\ pos \in Nat /\ d \in Nat /\ d <= pos
      /\ DOMAIN ring = 1..d /\ Len(ring) = d
      /\ \A j \in 1..d : ring[j] = DeltaAt(pos - d + j)
  <2>1. pos \in Nat /\ d \in Nat /\ d <= pos
    BY DEF WindowInv, Depth
  <2>2. ring = [j \in 1..d |-> DeltaAt(pos - d + j)]
    BY DEF WindowInv, Held
  <2> HIDE DEF d
  <2> QED
    BY <2>1, <2>2
<1>2. k \in 1..d /\ n = pos - d + k /\ n \in 1..pos
  BY <1>1 DEF LineOf
<1>3. \A j \in 1..k : ring[j].set[f] =
        IF pos - d + j = 1 \/ V(pos - d + j) # V(pos - d + j - 1) THEN V(pos - d + j) ELSE None
  BY <1>1, <1>2 DEF DeltaAt
<1>4. changes # {} /\ Snapshot[k].shown[f] = ring[top].set[f]
  BY DEF Snapshot, Row
<1>5. top \in changes /\ \A m \in changes : m <= top
  <2>1. changes \in SUBSET (1..k)
    OBVIOUS
  <2>2. k \in Nat
    BY <1>1, <1>2
  <2>3. \E j \in changes : \A m \in changes : m <= j
    <3> HIDE DEF changes
    <3> QED
      BY <1>4, <2>1, <2>2, Greatest
  <2> QED
    BY <2>3
<1> DEFINE t == pos - d + top
<1>6. top \in 1..k /\ t \in 1..n /\ ring[top].set[f] = V(t) /\ V(t) # None
  <2>1. top \in 1..k /\ ring[top].set[f] # None
    BY <1>5
  <2> HIDE DEF top, changes, n, d, V
  <2>2. ring[top].set[f] = V(t) /\ V(t) # None
    BY <1>3, <2>1
  <2>3. t \in 1..n
    BY <1>1, <1>2, <2>1
  <2> QED
    BY <2>1, <2>2, <2>3
<1>7. H \in SUBSET (1..n) /\ t \in H
  BY <1>6 DEF HasValue
<1>71. n \in Nat
  BY <1>1, <1>2
<1>8. last \in H /\ \A x \in H : x <= last
  <2>1. \E m \in H : \A x \in H : x <= m
    <3> HIDE DEF H, n
    <3> QED
      BY <1>7, <1>71, Greatest
  <2> QED
    BY <2>1
<1>9. last \in 1..n /\ t <= last /\ V(last) # None
  BY <1>7, <1>8 DEF HasValue
\* Were the values at t and last different, the line after the last one that
\* differs would be a change that the window holds, later than top.
<1> DEFINE A == {x \in 1..n : t <= x /\ x <= last /\ V(x) # V(last)}
<1>10. V(t) = V(last)
  <2> SUFFICES ASSUME V(t) # V(last) PROVE FALSE
    OBVIOUS
  <2> HIDE DEF n, t, last, top, changes, H, V, d
  <2>1. A \in SUBSET (1..n) /\ t \in A
    BY <1>6, <1>9
  <2>2. PICK x \in A : \A y \in A : y <= x
    <3> HIDE DEF A
    <3> QED
      BY <1>71, <2>1, Greatest
  <2>3. x \in 1..n /\ t <= x /\ x < last /\ V(x) # V(last)
    BY <1>9, <2>2
  <2>4. V(x + 1) = V(last)
    <3> SUFFICES ASSUME V(x + 1) # V(last) PROVE FALSE
      OBVIOUS
    <3>1. x + 1 \in 1..n /\ t <= x + 1 /\ x + 1 <= last
      BY <1>71, <1>6, <1>9, <2>3
    <3>2. x + 1 \in A
      BY <3>1
    <3>3. x + 1 <= x
      BY <2>2, <3>2
    <3> QED
      BY <2>3, <3>3
  <2> DEFINE j == x + 1 - (pos - d)
  <2>5. j \in 1..k /\ j > top /\ pos - d + j = x + 1 /\ pos - d + j - 1 = x /\ pos - d + j # 1
    <3>1. t = pos - d + top
      BY DEF t
    <3> QED
      BY <1>1, <1>2, <1>6, <1>9, <2>3, <3>1
  <2>6. ring[j].set[f] = V(x + 1)
    BY <1>3, <2>3, <2>4, <2>5
  <2>7. j \in changes
    BY <1>9, <2>4, <2>5, <2>6 DEF changes
  <2>8. j <= top
    BY <1>5, <2>7
  <2> HIDE DEF j
  <2> QED
    BY <1>2, <1>6, <2>5, <2>8
<1> QED
  BY <1>4, <1>6, <1>7, <1>10 DEF Latest

\* The window is never stale, at any size: WindowInv describes the ring, and
\* LatestShown what replaying it gives.
LEMMA WindowNotStale == WindowInv => ContextNeverStale
<1> SUFFICES ASSUME WindowInv PROVE ContextNeverStale
  OBVIOUS
<1> DEFINE d == Depth(pos)
<1>1. /\ pos \in Nat /\ d \in Nat /\ d <= pos
      /\ ring = [j \in 1..d |-> DeltaAt(pos - d + j)]
  BY DEF WindowInv, Depth, Held
<1>2. DOMAIN ring = 1..d /\ Len(ring) = d
  <2> HIDE DEF d
  <2> QED
    BY <1>1
<1>3. Len(ring) = IF pos < cfg.window THEN pos ELSE cfg.window
  BY <1>2 DEF Depth
<1>4. ASSUME NEW k \in DOMAIN ring
      PROVE  Snapshot[k].id = Identity(log.rtl[LineOf(k)])
  BY <1>1, <1>2, <1>4 DEF Snapshot, Row, LineOf, DeltaAt
<1> QED
  BY <1>3, <1>4, LatestShown DEF ContextNeverStale

(* The context attached to a mismatch is never stale, for logs and windows  *)
(* of any length: the ring keeps differences against commits that have left *)
(* it, and replaying it still ends in the values last written.              *)
THEOREM NeverStale == Spec => []ContextNeverStale
  BY WindowCorrect, WindowNotStale, PTL

(* The type invariant of the comparison loop.                               *)
THEOREM TypeCorrect == Spec => []TypeOK
<1>1. WindowInv => TypeOK
  <2> SUFFICES ASSUME WindowInv PROVE TypeOK
    OBVIOUS
  <2> DEFINE d == Depth(pos)
  <2>1. /\ pos \in Nat /\ d \in Nat /\ d <= cfg.window
        /\ ring = [j \in 1..d |-> DeltaAt(pos - d + j)]
    BY DEF WindowInv, Depth, Held
  <2>2. DOMAIN ring = 1..d /\ Len(ring) = d
    <3> HIDE DEF d
    <3> QED
      BY <2>1
  <2>3. \A k \in DOMAIN ring : DOMAIN ring[k].set = ContextFields
    BY <2>1, <2>2 DEF DeltaAt
  <2>4. prev \in Commits \cup {None}
    BY <2>1 DEF WindowInv
  <2> QED
    BY <2>1, <2>2, <2>3, <2>4 DEF WindowInv, TypeOK
<1> QED
  BY <1>1, WindowCorrect, PTL

-----------------------------------------------------------------------------
(* Places in an order (Ranking): counting the elements below gives each    *)
(* element a place of its own, and what keeps the order keeps the places.  *)
(* No recursion over the sequence is needed.                               *)

\* R puts the elements of S in one line.
Orders(R, S) ==
  /\ \A a \in S : <<a, a>> \notin R
  /\ \A a, b, c \in S : <<a, b>> \in R /\ <<b, c>> \in R => <<a, c>> \in R
  /\ \A a, b \in S : a # b => <<a, b>> \in R \/ <<b, a>> \in R

\* Each element has a place of its own, and each place its element.
LEMMA Placed ==
  ASSUME NEW S, IsFiniteSet(S), NEW R, Orders(R, S)
  PROVE  /\ \A a \in S : Below(S, R, a) + 1 \in 1..Cardinality(S)
         /\ \A a, b \in S : <<a, b>> \in R => Below(S, R, a) < Below(S, R, b)
         /\ \A a \in S : Nth(S, R, Below(S, R, a) + 1) = a
         /\ \A n \in 1..Cardinality(S) : Nth(S, R, n) \in S /\ Below(S, R, Nth(S, R, n)) = n - 1
<1> DEFINE P(a) == {b \in S : <<b, a>> \in R}
           N    == Cardinality(S)
<1>1. N \in Nat
  BY FS_CardinalityType
<1>2. \A a \in S : IsFiniteSet(P(a)) /\ Cardinality(P(a)) \in Nat /\ Cardinality(P(a)) < N
  <2> TAKE a \in S
  <2>1. P(a) \in SUBSET S /\ a \notin P(a)
    BY DEF Orders
  <2>2. P(a) # S
    BY <2>1
  <2> HIDE DEF P
  <2> QED
    BY <2>1, <2>2, FS_Subset, FS_CardinalityType
<1>3. \A a \in S : Below(S, R, a) = Cardinality(P(a))
  BY DEF Below
<1>4. \A a, b \in S : <<a, b>> \in R => Below(S, R, a) < Below(S, R, b)
  <2> TAKE a, b \in S
  <2> HAVE <<a, b>> \in R
  <2>1. P(a) \in SUBSET P(b) /\ P(a) # P(b)
    <3>1. a \in P(b) /\ a \notin P(a)
      BY DEF Orders
    <3> QED
      BY <3>1 DEF Orders
  <2>2. IsFiniteSet(P(b))
    BY <1>2
  <2>3. Cardinality(P(a)) < Cardinality(P(b))
    <3> HIDE DEF P
    <3> QED
      BY <1>2, <2>1, <2>2, FS_Subset
  <2> QED
    BY <1>3, <2>3
<1> HIDE DEF P
<1>5. \A a \in S : Below(S, R, a) \in Nat /\ Below(S, R, a) + 1 \in 1..N
  BY <1>1, <1>2, <1>3
<1>6. \A a, b \in S : Below(S, R, a) = Below(S, R, b) => a = b
  <2> TAKE a, b \in S
  <2> HAVE Below(S, R, a) = Below(S, R, b)
  <2>1. <<a, b>> \notin R /\ <<b, a>> \notin R
    BY <1>4, <1>5
  <2> QED
    BY <2>1 DEF Orders
<1> DEFINE f == [a \in S |-> Below(S, R, a) + 1]
<1>7. f \in Injection(S, 1..N)
  <2>1. f \in [S -> 1..N]
    BY <1>5
  <2>2. ASSUME NEW a \in S, NEW b \in S, f[a] = f[b] PROVE a = b
    BY <1>5, <1>6, <2>2
  <2> HIDE DEF f
  <2> QED
    BY <2>1, <2>2 DEF Injection, IsInjective
<1>8. f \in Surjection(S, 1..N)
  <2>1. IsFiniteSet(1..N) /\ Cardinality(1..N) = N
    BY <1>1, FS_Interval
  <2> HIDE DEF f
  <2> QED
    BY <1>7, <2>1, FS_Injection
<1>9. \A n \in 1..N : \E a \in S : Below(S, R, a) = n - 1
  <2> TAKE n \in 1..N
  <2>1. PICK a \in S : f[a] = n
    BY <1>8 DEF Surjection
  <2> QED
    BY <1>1, <1>5, <2>1
<1>10. \A n \in 1..N : Nth(S, R, n) \in S /\ Below(S, R, Nth(S, R, n)) = n - 1
  BY <1>9 DEF Nth
<1>11. \A a \in S : Nth(S, R, Below(S, R, a) + 1) = a
  <2> TAKE a \in S
  <2> DEFINE n == Below(S, R, a) + 1
  <2>1. n \in 1..N /\ n - 1 = Below(S, R, a)
    BY <1>5
  <2> HIDE DEF n
  <2>2. Nth(S, R, n) \in S /\ Below(S, R, Nth(S, R, n)) = Below(S, R, a)
    BY <1>10, <2>1
  <2> QED
    BY <1>6, <2>2 DEF n
<1> QED
  BY <1>4, <1>5, <1>10, <1>11

\* What keeps the order keeps the places.
LEMMA SamePlaces ==
  ASSUME NEW S, NEW T, IsFiniteSet(S), NEW R, NEW Q, Orders(R, S), Orders(Q, T),
         NEW h \in Bijection(S, T),
         \A a, b \in S : <<a, b>> \in R => <<h[a], h[b]>> \in Q
  PROVE  /\ IsFiniteSet(T) /\ Cardinality(T) = Cardinality(S)
         /\ \A a \in S : Below(T, Q, h[a]) = Below(S, R, a)
         /\ \A n \in 1..Cardinality(S) : Nth(T, Q, n) = h[Nth(S, R, n)]
<1>1. IsFiniteSet(T) /\ Cardinality(T) = Cardinality(S)
  BY FS_Bijection DEF ExistsBijection
<1>2. /\ h \in [S -> T]
      /\ \A a, b \in S : h[a] = h[b] => a = b
      /\ \A t \in T : \E a \in S : h[a] = t
  BY DEF Bijection, Injection, IsInjective, Surjection
<1>3. \A a, b \in S : <<h[a], h[b]>> \in Q => <<a, b>> \in R
  <2> TAKE a, b \in S
  <2> HAVE <<h[a], h[b]>> \in Q
  <2>1. a # b
    BY <1>2 DEF Orders
  <2>2. ~(<<h[b], h[a]>> \in Q)
    BY <1>2 DEF Orders
  <2> QED
    BY <2>1, <2>2 DEF Orders
<1>4. \A a \in S : Below(T, Q, h[a]) = Below(S, R, a)
  <2> TAKE a \in S
  <2> DEFINE A == {b \in S : <<b, a>> \in R}
             B == {b \in T : <<b, h[a]>> \in Q}
             g == [b \in A |-> h[b]]
  <2>1. g \in Bijection(A, B)
    <3>1. g \in [A -> B]
      BY <1>2
    <3>2. \A b, c \in A : g[b] = g[c] => b = c
      BY <1>2
    <3>3. \A t \in B : \E b \in A : g[b] = t
      <4> TAKE t \in B
      <4>1. PICK b \in S : h[b] = t
        BY <1>2
      <4>2. b \in A
        BY <1>3, <4>1
      <4> QED
        BY <4>1, <4>2
    <3> HIDE DEF A, B, g
    <3> QED
      BY <3>1, <3>2, <3>3 DEF Bijection, Injection, IsInjective, Surjection
  <2>2. IsFiniteSet(A)
    BY FS_Subset
  <2>3. Cardinality(B) = Cardinality(A)
    <3> HIDE DEF A, B, g
    <3> QED
      BY <2>1, <2>2, FS_Bijection DEF ExistsBijection
  <2> QED
    BY <2>3 DEF Below
<1>5. \A n \in 1..Cardinality(S) : Nth(T, Q, n) = h[Nth(S, R, n)]
  <2> TAKE n \in 1..Cardinality(S)
  <2> DEFINE a == Nth(S, R, n)
  <2>1. a \in S /\ Below(S, R, a) = n - 1
    BY Placed
  <2>2. Below(T, Q, h[a]) = n - 1 /\ h[a] \in T
    BY <1>2, <1>4, <2>1
  <2>3. Nth(T, Q, Below(T, Q, h[a]) + 1) = h[a]
    BY <1>1, <2>2, Placed
  <2>4. Cardinality(S) \in Nat /\ (n - 1) + 1 = n
    BY FS_CardinalityType
  <2> QED
    BY <2>2, <2>3, <2>4
<1> QED
  BY <1>1, <1>4, <1>5

\* The element of T that has the place of a in S.
Match(S, R, T, Q, a) == Nth(T, Q, Below(S, R, a) + 1)

\* Two sets of one size: matching by place keeps the order and leaves none out.
LEMMA Matched ==
  ASSUME NEW S, NEW T, IsFiniteSet(S), IsFiniteSet(T), Cardinality(S) = Cardinality(T),
         NEW R, NEW Q, Orders(R, S), Orders(Q, T)
  PROVE  /\ \A a \in S : /\ Match(S, R, T, Q, a) \in T
                         /\ Below(S, R, a) + 1 \in 1..Cardinality(S)
                         /\ Nth(S, R, Below(S, R, a) + 1) = a
         /\ \A a, b \in S : Match(S, R, T, Q, a) = Match(S, R, T, Q, b) => a = b
         /\ \A t \in T : \E a \in S : Match(S, R, T, Q, a) = t
         /\ \A a, b \in S : <<a, b>> \in R => <<Match(S, R, T, Q, a), Match(S, R, T, Q, b)>> \in Q
<1> DEFINE N    == Cardinality(S)
           M(a) == Match(S, R, T, Q, a)
<1>0. N \in Nat
  BY FS_CardinalityType
<1>1. \A a \in S : /\ Below(S, R, a) + 1 \in 1..N
                   /\ Nth(S, R, Below(S, R, a) + 1) = a
                   /\ Below(S, R, a) \in Int
  <2>1. \A a \in S : Below(S, R, a) = Cardinality({b \in S : <<b, a>> \in R}) /\ IsFiniteSet({b \in S : <<b, a>> \in R})
    BY FS_Subset DEF Below
  <2> QED
    BY <2>1, Placed, FS_CardinalityType
<1>2. \A a \in S : M(a) \in T /\ Below(T, Q, M(a)) = Below(S, R, a)
  <2> TAKE a \in S
  <2> DEFINE n == Below(S, R, a) + 1
  <2>1. n \in 1..Cardinality(T) /\ n - 1 = Below(S, R, a)
    BY <1>1
  <2> HIDE DEF n
  <2>2. Nth(T, Q, n) \in T /\ Below(T, Q, Nth(T, Q, n)) = n - 1
    BY <2>1, Placed
  <2> QED
    BY <2>1, <2>2 DEF Match, n
<1>3. \A a, b \in S : M(a) = M(b) => a = b
  BY <1>1, <1>2
<1>4. \A t \in T : \E a \in S : M(a) = t
  <2> TAKE t \in T
  <2> DEFINE n == Below(T, Q, t) + 1
  <2>1. n \in 1..N /\ Nth(T, Q, n) = t
    BY Placed
  <2> HIDE DEF n
  <2>2. Nth(S, R, n) \in S /\ Below(S, R, Nth(S, R, n)) = n - 1
    BY <2>1, Placed
  <2>3. (n - 1) + 1 = n
    BY <1>0, <2>1
  <2>4. M(Nth(S, R, n)) = t
    BY <2>1, <2>2, <2>3 DEF Match
  <2> QED
    BY <2>2, <2>4
<1>5. \A a, b \in S : <<a, b>> \in R => <<M(a), M(b)>> \in Q
  <2> TAKE a, b \in S
  <2> HAVE <<a, b>> \in R
  <2>1. Below(S, R, a) < Below(S, R, b)
    BY Placed
  <2>2. Below(T, Q, M(a)) < Below(T, Q, M(b))
    BY <1>2, <2>1
  <2>3. M(a) \in T /\ M(b) \in T
    BY <1>2
  <2>4. M(a) # M(b)
    BY <1>1, <1>2, <2>1
  <2>5. <<M(b), M(a)>> \notin Q
    <3> SUFFICES ASSUME <<M(b), M(a)>> \in Q PROVE FALSE
      OBVIOUS
    <3>1. Below(T, Q, M(b)) < Below(T, Q, M(a))
      BY <2>3, Placed
    <3> QED
      BY <1>1, <1>2, <2>2, <3>1
  <2> QED
    BY <2>3, <2>4, <2>5 DEF Orders
<1> QED
  BY <1>1, <1>2, <1>3, <1>4, <1>5

\* Places of a sequence, in their order.
LEMMA InPlaceOrders ==
  ASSUME NEW n \in Nat, NEW S \in SUBSET (1..n)
  PROVE  /\ IsFiniteSet(S) /\ Orders(InPlace(S), S)
         /\ \A a, b : <<a, b>> \in InPlace(S) <=> a \in S /\ b \in S /\ a < b
<1>0. IsFiniteSet(1..n)
  BY FS_Interval
<1>1. IsFiniteSet(S)
  BY <1>0, FS_Subset
<1>2. \A a, b : <<a, b>> \in InPlace(S) <=> a \in S /\ b \in S /\ a < b
  BY DEF InPlace
<1>3. \A a \in S : a \in Int
  OBVIOUS
<1> QED
  BY <1>1, <1>2, <1>3 DEF Orders

-----------------------------------------------------------------------------
(* The sorted list of CSR writes (Norm): the parts of its definition, and  *)
(* what two lists that are sorted alike have in common.                    *)

\* A write in a commit.
CsrWrite == [csr : Nat, val : Nat \cup {None}]

\* The parts of Norm.
Seen(c, ws) == {a \in DOMAIN ws : ws[a].csr \notin c.ignored_csrs}
Sorted(c, ws) ==
  {p \in Seen(c, ws) \X Seen(c, ws) :
     IF c.order_sensitive \/ ws[p[1]].csr = ws[p[2]].csr
     THEN p[1] < p[2] ELSE ws[p[1]].csr < ws[p[2]].csr}
Shown(c, w) ==
  IF w.csr \in DOMAIN c.csr_masks THEN [w EXCEPT !.val = BitAnd(@, c.csr_masks[w.csr])] ELSE w

\* The order that the writes are sorted in puts them in one line.
LEMMA SeenOrdered ==
  ASSUME NEW c, NEW ws \in Seq(CsrWrite)
  PROVE  /\ IsFiniteSet(Seen(c, ws)) /\ Seen(c, ws) \in SUBSET (DOMAIN ws)
         /\ Orders(Sorted(c, ws), Seen(c, ws))
         /\ \A a, b : <<a, b>> \in Sorted(c, ws) <=>
              /\ a \in Seen(c, ws) /\ b \in Seen(c, ws)
              /\ IF c.order_sensitive \/ ws[a].csr = ws[b].csr
                 THEN a < b ELSE ws[a].csr < ws[b].csr
<1>1. DOMAIN ws = 1..Len(ws) /\ Len(ws) \in Nat
  OBVIOUS
<1>2. Seen(c, ws) \in SUBSET (DOMAIN ws)
  BY DEF Seen
<1>3. IsFiniteSet(Seen(c, ws))
  <2>1. IsFiniteSet(1..Len(ws))
    BY <1>1, FS_Interval
  <2> QED
    BY <1>1, <1>2, <2>1, FS_Subset
<1>4. \A a, b : <<a, b>> \in Sorted(c, ws) <=>
              /\ a \in Seen(c, ws) /\ b \in Seen(c, ws)
              /\ IF c.order_sensitive \/ ws[a].csr = ws[b].csr
                 THEN a < b ELSE ws[a].csr < ws[b].csr
  BY DEF Sorted
<1>5. \A a \in Seen(c, ws) : a \in Int /\ ws[a].csr \in Int
  <2>1. \A a \in DOMAIN ws : ws[a] \in CsrWrite /\ a \in Int
    BY <1>1
  <2>2. \A w \in CsrWrite : w.csr \in Int
    BY DEF CsrWrite
  <2> QED
    BY <1>2, <2>1, <2>2
<1>6. Orders(Sorted(c, ws), Seen(c, ws))
  <2> DEFINE K == Seen(c, ws)
             C(a) == ws[a].csr
  <2> HIDE DEF K, C
  <2>1. \A a \in K : a \in Int /\ C(a) \in Int
    BY <1>5 DEF K, C
  <2>2. \A a, b : <<a, b>> \in Sorted(c, ws) <=>
              /\ a \in K /\ b \in K
              /\ IF c.order_sensitive \/ C(a) = C(b) THEN a < b ELSE C(a) < C(b)
    BY <1>4 DEF K, C
  <2>3. Orders(Sorted(c, ws), K)
    BY <2>1, <2>2 DEF Orders
  <2> QED
    BY <2>3 DEF K
<1> QED
  BY <1>2, <1>3, <1>4, <1>6

\* The sorted list, place by place.
LEMMA NormIs ==
  ASSUME NEW c, NEW ws \in Seq(CsrWrite)
  PROVE  /\ Norm(c, ws) = [n \in 1..Cardinality(Seen(c, ws)) |->
                             Shown(c, ws[Nth(Seen(c, ws), Sorted(c, ws), n)])]
         /\ Cardinality(Seen(c, ws)) \in Nat
         /\ \A n \in 1..Cardinality(Seen(c, ws)) :
              Nth(Seen(c, ws), Sorted(c, ws), n) \in Seen(c, ws)
<1> DEFINE K == Seen(c, ws)
           R == Sorted(c, ws)
           shown == [a \in DOMAIN ws |-> Shown(c, ws[a])]
<1>1. Norm(c, ws) = Arranged(shown, K, R)
  BY DEF Norm, Seen, Sorted, Shown
<1>2. /\ Cardinality(K) \in Nat
      /\ \A n \in 1..Cardinality(K) : Nth(K, R, n) \in K /\ Nth(K, R, n) \in DOMAIN ws
  BY SeenOrdered, Placed, FS_CardinalityType
<1> HIDE DEF K, R
<1>3. \A n \in 1..Cardinality(K) : shown[Nth(K, R, n)] = Shown(c, ws[Nth(K, R, n)])
  BY <1>2
<1> HIDE DEF shown
<1>4. Arranged(shown, K, R) = [n \in 1..Cardinality(K) |-> Shown(c, ws[Nth(K, R, n)])]
  BY <1>3 DEF Arranged
<1> QED
  BY <1>1, <1>2, <1>4 DEF K, R

\* The writes to one CSR.
Wrote(ws, d) == {k \in DOMAIN ws : ws[k].csr = d}

\* The n-th write to a CSR.
NthWrite(ws, d, n) == Nth(Wrote(ws, d), InPlace(Wrote(ws, d)), n)

\* The writes to one CSR, in the order of the list.
LEMMA WroteOrdered ==
  ASSUME NEW ws, NEW m \in Nat, DOMAIN ws = 1..m, NEW d
  PROVE  /\ IsFiniteSet(Wrote(ws, d)) /\ Cardinality(Wrote(ws, d)) \in Nat
         /\ Orders(InPlace(Wrote(ws, d)), Wrote(ws, d))
         /\ \A a, b : <<a, b>> \in InPlace(Wrote(ws, d)) <=>
              a \in Wrote(ws, d) /\ b \in Wrote(ws, d) /\ a < b
<1>1. Wrote(ws, d) \in SUBSET (1..m)
  BY DEF Wrote
<1> QED
  BY <1>1, InPlaceOrders, FS_CardinalityType

\* What a CSR is written, write by write.
LEMMA HistoryIs ==
  ASSUME NEW ws, NEW d
  PROVE  CsrHistory(ws, d) = [n \in 1..Cardinality(Wrote(ws, d)) |-> ws[NthWrite(ws, d, n)]]
  BY DEF CsrHistory, Filtered, Arranged, Wrote, NthWrite

\* Lists with the same places are of one length.
LEMMA SameDomain ==
  ASSUME NEW m \in Nat, NEW n \in Nat, 1..m = 1..n
  PROVE  m = n
<1>1. m > 0 => m \in 1..n
  OBVIOUS
<1>2. n > 0 => n \in 1..m
  OBVIOUS
<1> QED
  BY <1>1, <1>2

\* Two lists that write each CSR alike are alike when sorted.
LEMMA SortedAlike ==
  ASSUME NEW c, ~c.order_sensitive,
         NEW ws \in Seq(CsrWrite), NEW vs \in Seq(CsrWrite),
         \A a \in Seen(c, ws) : CsrHistory(ws, ws[a].csr) = CsrHistory(vs, ws[a].csr),
         \A t \in Seen(c, vs) : CsrHistory(ws, vs[t].csr) = CsrHistory(vs, vs[t].csr)
  PROVE  Norm(c, ws) = Norm(c, vs)
<1> DEFINE W(d) == Wrote(ws, d)
           V(d) == Wrote(vs, d)
           M(d, a) == Match(W(d), InPlace(W(d)), V(d), InPlace(V(d)), a)
           S == Seen(c, ws)
           T == Seen(c, vs)
<1>1. DOMAIN ws = 1..Len(ws) /\ Len(ws) \in Nat /\ DOMAIN vs = 1..Len(vs) /\ Len(vs) \in Nat
  OBVIOUS
<1>2. \A d : /\ IsFiniteSet(W(d)) /\ Cardinality(W(d)) \in Nat /\ Orders(InPlace(W(d)), W(d))
             /\ \A a, b : <<a, b>> \in InPlace(W(d)) <=> a \in W(d) /\ b \in W(d) /\ a < b
  BY <1>1, WroteOrdered
<1>3. \A d : /\ IsFiniteSet(V(d)) /\ Cardinality(V(d)) \in Nat /\ Orders(InPlace(V(d)), V(d))
             /\ \A a, b : <<a, b>> \in InPlace(V(d)) <=> a \in V(d) /\ b \in V(d) /\ a < b
  BY <1>1, WroteOrdered
<1>4. ASSUME NEW d, CsrHistory(ws, d) = CsrHistory(vs, d)
      PROVE  /\ Cardinality(W(d)) = Cardinality(V(d))
             /\ \A a \in W(d) : M(d, a) \in V(d) /\ vs[M(d, a)] = ws[a]
             /\ \A a, b \in W(d) : M(d, a) = M(d, b) => a = b
             /\ \A t \in V(d) : \E a \in W(d) : M(d, a) = t
             /\ \A a, b \in W(d) : a < b => M(d, a) < M(d, b)
  <2> DEFINE m == Cardinality(W(d))
             n == Cardinality(V(d))
             f == [k \in 1..m |-> ws[NthWrite(ws, d, k)]]
             g == [k \in 1..n |-> vs[NthWrite(vs, d, k)]]
  <2>1. f = g
    BY <1>4, HistoryIs
  <2>2. m \in Nat /\ n \in Nat
    BY <1>2, <1>3
  <2>3. m = n
    <3> HIDE DEF m, n
    <3>1. DOMAIN f = 1..m /\ DOMAIN g = 1..n
      OBVIOUS
    <3> HIDE DEF f, g
    <3> QED
      BY <2>1, <2>2, <3>1, SameDomain
  <2>4. \A k \in 1..m : ws[NthWrite(ws, d, k)] = vs[NthWrite(vs, d, k)]
    <3> HIDE DEF m, n
    <3>1. \A k \in 1..m : f[k] = ws[NthWrite(ws, d, k)] /\ g[k] = vs[NthWrite(vs, d, k)]
      BY <2>3
    <3> HIDE DEF f, g
    <3> QED
      BY <2>1, <3>1
  <2>5. /\ \A a \in W(d) : /\ M(d, a) \in V(d)
                           /\ Below(W(d), InPlace(W(d)), a) + 1 \in 1..m
                           /\ Nth(W(d), InPlace(W(d)), Below(W(d), InPlace(W(d)), a) + 1) = a
        /\ \A a, b \in W(d) : M(d, a) = M(d, b) => a = b
        /\ \A t \in V(d) : \E a \in W(d) : M(d, a) = t
        /\ \A a, b \in W(d) : <<a, b>> \in InPlace(W(d)) => <<M(d, a), M(d, b)>> \in InPlace(V(d))
    <3> HIDE DEF W, V
    <3> QED
      BY <1>2, <1>3, <2>3, Matched
  <2>6. \A a \in W(d) : vs[M(d, a)] = ws[a]
    <3> TAKE a \in W(d)
    <3> DEFINE k == Below(W(d), InPlace(W(d)), a) + 1
    <3>1. k \in 1..m /\ NthWrite(ws, d, k) = a
      BY <2>5 DEF NthWrite
    <3>2. M(d, a) = NthWrite(vs, d, k)
      BY DEF Match, NthWrite
    <3> HIDE DEF k, m, W, V
    <3> QED
      BY <2>4, <3>1, <3>2
  <2>7. \A a, b \in W(d) : a < b => M(d, a) < M(d, b)
    <3> HIDE DEF W, V, M
    <3> QED
      BY <1>2, <1>3, <2>5
  <2> HIDE DEF W, V, M
  <2> QED
    BY <2>3, <2>5, <2>6, <2>7
<1> DEFINE h == [a \in S |-> M(ws[a].csr, a)]
<1>5. \A a \in S : a \in W(ws[a].csr)
  BY DEF Seen, Wrote
<1>6. \A t \in T : t \in V(vs[t].csr)
  BY DEF Seen, Wrote
<1>7. \A d : \A a \in W(d) : a \in DOMAIN ws /\ ws[a].csr = d
  BY DEF Wrote
<1>8. \A d : \A t \in V(d) : t \in DOMAIN vs /\ vs[t].csr = d
  BY DEF Wrote
<1> HIDE DEF W, V, M
<1>9. \A a \in S : h[a] \in T /\ h[a] \in V(ws[a].csr) /\ vs[h[a]] = ws[a]
  <2> TAKE a \in S
  <2>1. M(ws[a].csr, a) \in V(ws[a].csr) /\ vs[M(ws[a].csr, a)] = ws[a]
    BY <1>4, <1>5
  <2>2. ws[a].csr \notin c.ignored_csrs
    BY DEF Seen
  <2>3. M(ws[a].csr, a) \in T
    BY <1>8, <2>1, <2>2 DEF Seen
  <2> QED
    BY <2>1, <2>3
<1>10. \A a, b \in S : h[a] = h[b] => a = b
  <2> TAKE a, b \in S
  <2> HAVE h[a] = h[b]
  <2>1. ws[a].csr = ws[b].csr
    BY <1>9
  <2>2. b \in W(ws[a].csr) /\ a \in W(ws[a].csr) /\ M(ws[a].csr, a) = M(ws[a].csr, b)
    BY <1>5, <2>1
  <2> QED
    BY <1>4, <2>2
<1>11. \A t \in T : \E a \in S : h[a] = t
  <2> TAKE t \in T
  <2> DEFINE d == vs[t].csr
  <2>1. PICK a \in W(d) : M(d, a) = t
    BY <1>4, <1>6
  <2>2. d \notin c.ignored_csrs
    BY DEF Seen
  <2>3. a \in DOMAIN ws /\ ws[a].csr = d
    BY <1>7, <2>1
  <2>4. a \in S
    BY <2>2, <2>3 DEF Seen
  <2> QED
    BY <2>1, <2>3, <2>4
<1>12. h \in Bijection(S, T)
  <2>1. h \in [S -> T]
    BY <1>9
  <2> HIDE DEF h
  <2> QED
    BY <1>10, <1>11, <2>1 DEF Bijection, Injection, IsInjective, Surjection
<1>13. \A a, b \in S : <<a, b>> \in Sorted(c, ws) => <<h[a], h[b]>> \in Sorted(c, vs)
  <2> TAKE a, b \in S
  <2> HAVE <<a, b>> \in Sorted(c, ws)
  <2>1. IF ws[a].csr = ws[b].csr THEN a < b ELSE ws[a].csr < ws[b].csr
    BY SeenOrdered
  <2>2. vs[h[a]].csr = ws[a].csr /\ vs[h[b]].csr = ws[b].csr /\ h[a] \in T /\ h[b] \in T
    BY <1>9
  <2>3. ws[a].csr = ws[b].csr /\ a < b => h[a] < h[b]
    BY <1>4, <1>5
  <2> HIDE DEF h, T
  <2>4. IF vs[h[a]].csr = vs[h[b]].csr THEN h[a] < h[b] ELSE vs[h[a]].csr < vs[h[b]].csr
    BY <2>1, <2>2, <2>3
  <2> QED
    BY <2>2, <2>4, SeenOrdered DEF T
<1>14. /\ IsFiniteSet(S) /\ Orders(Sorted(c, ws), S) /\ Orders(Sorted(c, vs), T)
  BY SeenOrdered
<1>15. /\ Cardinality(T) = Cardinality(S)
       /\ \A n \in 1..Cardinality(S) : Nth(T, Sorted(c, vs), n) = h[Nth(S, Sorted(c, ws), n)]
  <2> HIDE DEF h, S, T
  <2> QED
    BY <1>12, <1>13, <1>14, SamePlaces
<1>16. \A n \in 1..Cardinality(S) : vs[Nth(T, Sorted(c, vs), n)] = ws[Nth(S, Sorted(c, ws), n)]
  <2>1. \A n \in 1..Cardinality(S) : Nth(S, Sorted(c, ws), n) \in S
    BY NormIs
  <2> HIDE DEF h, S, T
  <2> QED
    BY <1>9, <1>15, <2>1
<1> HIDE DEF h
<1> QED
  BY <1>15, <1>16, NormIs

\* Two lists that are alike when sorted and masked write each CSR alike.
LEMMA WrittenAlike ==
  ASSUME NEW c, NEW ws \in Seq(CsrWrite), NEW vs \in Seq(CsrWrite),
         Norm(c, ws) = Norm(c, vs), NEW d, d \notin c.ignored_csrs
  PROVE  /\ Cardinality(Wrote(ws, d)) = Cardinality(Wrote(vs, d))
         /\ \A n \in 1..Cardinality(Wrote(ws, d)) :
              Shown(c, ws[NthWrite(ws, d, n)]) = Shown(c, vs[NthWrite(vs, d, n)])
<1> DEFINE S == Seen(c, ws)
           T == Seen(c, vs)
           R == Sorted(c, ws)
           Q == Sorted(c, vs)
           M(a) == Match(S, R, T, Q, a)
           W == Wrote(ws, d)
           V == Wrote(vs, d)
<1>1. DOMAIN ws = 1..Len(ws) /\ Len(ws) \in Nat /\ DOMAIN vs = 1..Len(vs) /\ Len(vs) \in Nat
  OBVIOUS
<1>2. /\ IsFiniteSet(S) /\ IsFiniteSet(T) /\ Orders(R, S) /\ Orders(Q, T)
      /\ Cardinality(S) \in Nat /\ Cardinality(T) \in Nat
  BY SeenOrdered, NormIs
<1>3. /\ Cardinality(S) = Cardinality(T)
      /\ \A n \in 1..Cardinality(S) : Shown(c, ws[Nth(S, R, n)]) = Shown(c, vs[Nth(T, Q, n)])
  <2> DEFINE f == [n \in 1..Cardinality(S) |-> Shown(c, ws[Nth(S, R, n)])]
             g == [n \in 1..Cardinality(T) |-> Shown(c, vs[Nth(T, Q, n)])]
  <2>1. f = g
    BY NormIs
  <2>2. DOMAIN f = 1..Cardinality(S) /\ DOMAIN g = 1..Cardinality(T)
    OBVIOUS
  <2>3. \A n \in 1..Cardinality(S) : f[n] = Shown(c, ws[Nth(S, R, n)])
    OBVIOUS
  <2>4. \A n \in 1..Cardinality(T) : g[n] = Shown(c, vs[Nth(T, Q, n)])
    OBVIOUS
  <2> HIDE DEF f, g, S, T
  <2>5. Cardinality(S) = Cardinality(T)
    BY <1>2, <2>1, <2>2, SameDomain
  <2> QED
    BY <2>1, <2>3, <2>4, <2>5
<1>4. /\ \A a \in S : /\ M(a) \in T
                      /\ Below(S, R, a) + 1 \in 1..Cardinality(S)
                      /\ Nth(S, R, Below(S, R, a) + 1) = a
      /\ \A a, b \in S : M(a) = M(b) => a = b
      /\ \A t \in T : \E a \in S : M(a) = t
      /\ \A a, b \in S : <<a, b>> \in R => <<M(a), M(b)>> \in Q
  <2> HIDE DEF S, T, R, Q
  <2> QED
    BY <1>2, <1>3, Matched
<1>5. \A a \in S : Shown(c, ws[a]) = Shown(c, vs[M(a)])
  <2> TAKE a \in S
  <2> DEFINE n == Below(S, R, a) + 1
  <2>1. n \in 1..Cardinality(S) /\ Nth(S, R, n) = a /\ M(a) = Nth(T, Q, n)
    BY <1>4 DEF Match
  <2> HIDE DEF n, S, T, R, Q, M
  <2> QED
    BY <1>3, <2>1
<1>6. \A w \in CsrWrite : Shown(c, w).csr = w.csr
  BY DEF CsrWrite, Shown
<1>7. \A a \in S : ws[a].csr = vs[M(a)].csr
  <2> TAKE a \in S
  <2>1. ws[a] \in CsrWrite /\ vs[M(a)] \in CsrWrite
    BY <1>1, <1>4 DEF Seen
  <2> QED
    BY <1>5, <1>6, <2>1
<1>8. W \in SUBSET S /\ V \in SUBSET T
  BY DEF Wrote, Seen
<1>9. /\ \A a : a \in W <=> a \in S /\ ws[a].csr = d
      /\ \A t : t \in V <=> t \in T /\ vs[t].csr = d
  BY DEF Wrote, Seen
<1> DEFINE h == [a \in W |-> M(a)]
<1> HIDE DEF M
<1>10. h \in Bijection(W, V)
  <2> HIDE DEF W, V, S, T
  <2>1. h \in [W -> V]
    BY <1>4, <1>7, <1>9
  <2>2. \A a, b \in W : h[a] = h[b] => a = b
    BY <1>4, <1>9
  <2>3. \A t \in V : \E a \in W : h[a] = t
    <3> TAKE t \in V
    <3>1. PICK a \in S : M(a) = t
      BY <1>4, <1>9
    <3>2. a \in W
      BY <1>7, <1>9, <3>1
    <3> QED
      BY <3>1, <3>2
  <2> HIDE DEF h
  <2> QED
    BY <2>1, <2>2, <2>3 DEF Bijection, Injection, IsInjective, Surjection
<1>11. /\ IsFiniteSet(W) /\ Cardinality(W) \in Nat
       /\ Orders(InPlace(W), W) /\ Orders(InPlace(V), V)
       /\ \A a, b : <<a, b>> \in InPlace(W) <=> a \in W /\ b \in W /\ a < b
       /\ \A a, b : <<a, b>> \in InPlace(V) <=> a \in V /\ b \in V /\ a < b
  BY <1>1, WroteOrdered
<1>12. \A a, b \in W : <<a, b>> \in InPlace(W) => <<h[a], h[b]>> \in InPlace(V)
  <2> TAKE a, b \in W
  <2> HAVE <<a, b>> \in InPlace(W)
  <2>1. a < b /\ ws[a].csr = ws[b].csr /\ a \in S /\ b \in S
    BY <1>9, <1>11
  <2>2. <<a, b>> \in R
    BY <2>1, SeenOrdered
  <2>3. <<M(a), M(b)>> \in Q /\ vs[M(a)].csr = vs[M(b)].csr
    BY <1>4, <1>7, <2>1, <2>2
  <2>4. M(a) < M(b)
    BY <2>3, SeenOrdered
  <2>5. h[a] \in V /\ h[b] \in V /\ h[a] = M(a) /\ h[b] = M(b)
    BY <1>4, <1>7, <1>9, <2>1
  <2> HIDE DEF h, V, W
  <2> QED
    BY <1>11, <2>4, <2>5
<1>13. /\ Cardinality(V) = Cardinality(W)
       /\ \A n \in 1..Cardinality(W) : Nth(V, InPlace(V), n) = h[Nth(W, InPlace(W), n)]
  <2> HIDE DEF h, V, W
  <2>1. /\ IsFiniteSet(V) /\ Cardinality(V) = Cardinality(W)
        /\ \A n \in 1..Cardinality(W) : Nth(V, InPlace(V), n) = h[Nth(W, InPlace(W), n)]
    BY <1>10, <1>11, <1>12, SamePlaces
  <2> QED
    BY <2>1
<1>14. \A n \in 1..Cardinality(W) : Nth(W, InPlace(W), n) \in W
  <2> HIDE DEF W
  <2> QED
    BY <1>11, Placed
<1>15. \A n \in 1..Cardinality(W) :
         Shown(c, ws[NthWrite(ws, d, n)]) = Shown(c, vs[NthWrite(vs, d, n)])
  <2> TAKE n \in 1..Cardinality(W)
  <2> DEFINE a == Nth(W, InPlace(W), n)
  <2>1. a \in W /\ a \in S /\ Nth(V, InPlace(V), n) = M(a)
    BY <1>8, <1>13, <1>14
  <2>2. NthWrite(ws, d, n) = a /\ NthWrite(vs, d, n) = M(a)
    BY <2>1 DEF NthWrite
  <2> QED
    BY <1>5, <2>1, <2>2
<1> QED
  BY <1>13, <1>15

-----------------------------------------------------------------------------
(* What the rules of FieldComparator can report, and what their silence    *)
(* means. The order of the issues does not matter here.                    *)

\* What is in a list, without the order.
Of(s) == {s[k] : k \in DOMAIN s}
If(condition, x) == IF condition THEN {x} ELSE {}
List(s) == s \in Seq(Of(s))

\* A sequence is a list of what is in it.
LEMMA ListOf ==
  ASSUME NEW X, NEW s \in Seq(X)
  PROVE  List(s) /\ Of(s) \subseteq X
<1>1. Len(s) \in Nat /\ DOMAIN s = 1..Len(s) /\ \A k \in 1..Len(s) : s[k] \in X
  OBVIOUS
<1>2. \A k \in 1..Len(s) : s[k] \in Of(s)
  BY <1>1 DEF Of
<1>3. s = [k \in 1..Len(s) |-> s[k]]
  OBVIOUS
<1>4. [k \in 1..Len(s) |-> s[k]] \in Seq(Of(s))
  BY <1>1, <1>2
<1> QED
  BY <1>1, <1>3, <1>4 DEF Of, List

\* Joined lists hold what either holds.
LEMMA JoinOf ==
  ASSUME NEW s, NEW t, List(s), List(t)
  PROVE  List(s \o t) /\ Of(s \o t) = Of(s) \cup Of(t)
<1> DEFINE X == Of(s) \cup Of(t)
           u == s \o t
           m == Len(s)
           n == Len(t)
<1>0. s \in Seq(X) /\ t \in Seq(X)
  <2>1. \A k \in 1..Len(s) : s[k] \in X
    BY DEF List
  <2>2. \A k \in 1..Len(t) : t[k] \in X
    BY DEF List
  <2> HIDE DEF X
  <2> QED
    BY <2>1, <2>2 DEF List
<1> HIDE DEF X
<1>1. /\ m \in Nat /\ n \in Nat /\ DOMAIN s = 1..m /\ DOMAIN t = 1..n
      /\ u \in Seq(X) /\ DOMAIN u = 1..(m + n)
      /\ \A k \in 1..(m + n) : u[k] = IF k <= m THEN s[k] ELSE t[k - m]
  BY <1>0
<1> HIDE DEF u, m, n
<1>2. Of(u) \subseteq Of(s) \cup Of(t)
  <2> SUFFICES ASSUME NEW k \in 1..(m + n) PROVE u[k] \in Of(s) \cup Of(t)
    BY <1>1 DEF Of
  <2>1. CASE k <= m
    BY <1>1, <2>1 DEF Of
  <2>2. CASE ~(k <= m)
    <3>1. k - m \in 1..n
      BY <1>1, <2>2
    <3> QED
      BY <1>1, <2>2, <3>1 DEF Of
  <2> QED
    BY <2>1, <2>2
<1>3. Of(s) \subseteq Of(u)
  <2> SUFFICES ASSUME NEW k \in 1..m PROVE s[k] \in Of(u)
    BY <1>1 DEF Of
  <2>1. k \in 1..(m + n) /\ u[k] = s[k]
    BY <1>1
  <2> QED
    BY <1>1, <2>1 DEF Of
<1>4. Of(t) \subseteq Of(u)
  <2> SUFFICES ASSUME NEW k \in 1..n PROVE t[k] \in Of(u)
    BY <1>1 DEF Of
  <2>1. m + k \in 1..(m + n) /\ u[m + k] = t[k]
    BY <1>1
  <2> QED
    BY <1>1, <2>1 DEF Of
<1> QED
  BY <1>1, <1>2, <1>3, <1>4, ListOf DEF u

\* A list of one.
LEMMA OneOf ==
  ASSUME NEW x
  PROVE  List(<<x>>) /\ Of(<<x>>) = {x}
<1>1. DOMAIN <<x>> = {1} /\ <<x>>[1] = x
  OBVIOUS
<1>2. Of(<<x>>) = {x}
  BY <1>1 DEF Of
<1> QED
  BY <1>2 DEF List

LEMMA NoneOf == List(<<>>) /\ Of(<<>>) = {}
  BY DEF Of, List

\* A conditional issue.
LEMMA IfOf ==
  ASSUME NEW p \in BOOLEAN, NEW t, NEW f, NEW s
  PROVE  List(IssueIf(p, t, f, s)) /\ Of(IssueIf(p, t, f, s)) = If(p, Issue(t, f, s))
  BY OneOf, NoneOf DEF IssueIf, If

ImageOf(s, K) == {s[k] : k \in K}

\* A filter keeps what it is told to.
LEMMA FilteredOf ==
  ASSUME NEW X, NEW n \in Nat, NEW s \in [1..n -> X], NEW K \in SUBSET (1..n)
  PROVE  List(Filtered(s, K)) /\ Of(Filtered(s, K)) = ImageOf(s, K)
<1> DEFINE R == InPlace(K)
           m == Cardinality(K)
           u == [k \in 1..m |-> s[Nth(K, R, k)]]
<1>1. IsFiniteSet(K) /\ Orders(R, K) /\ m \in Nat
  BY InPlaceOrders, FS_CardinalityType
<1>2. /\ \A a \in K : Below(K, R, a) + 1 \in 1..m /\ Nth(K, R, Below(K, R, a) + 1) = a
      /\ \A k \in 1..m : Nth(K, R, k) \in K
  <2> HIDE DEF R
  <2> QED
    BY <1>1, Placed
<1>3. Filtered(s, K) = u
  BY DEF Filtered, Arranged
<1> HIDE DEF R, m
<1>4. List(u)
  <2>1. \A k \in 1..m : s[Nth(K, R, k)] \in X
    BY <1>2
  <2>2. u \in Seq(X)
    BY <1>1, <2>1
  <2> HIDE DEF u
  <2> QED
    BY <2>2, ListOf
<1>5. Of(u) \subseteq ImageOf(s, K)
  BY <1>2 DEF Of, ImageOf
<1>6. ASSUME NEW a \in K PROVE s[a] \in Of(u)
  <2> DEFINE k == Below(K, R, a) + 1
  <2>1. k \in 1..m /\ Nth(K, R, k) = a
    BY <1>2
  <2> HIDE DEF k
  <2>2. k \in DOMAIN u /\ u[k] = s[a]
    BY <2>1
  <2> HIDE DEF u
  <2> QED
    BY <2>2 DEF Of
<1> QED
  BY <1>3, <1>4, <1>5, <1>6 DEF ImageOf

-----------------------------------------------------------------------------
\* Schema issues are raised just when the commit has an error of its own.
LEMMA SchemaOf ==
  ASSUME NEW e, e.mem_errors \in Nat, NEW s
  PROVE  /\ List(SchemaIssues(e, s))
         /\ Of(SchemaIssues(e, s)) = If(e.mem_errors # 0 \/ Illegal(e) # {}, Issue("SCHEMAINVALID", "schema", s))
<1> DEFINE x == Issue("SCHEMAINVALID", "schema", s)
           n == e.mem_errors + Cardinality(Illegal(e))
<1>1. IsFiniteSet(Illegal(e))
  <2> DEFINE D == (((((({} \cup {"step"}) \cup {"rd"}) \cup {"rs1"}) \cup {"rs2"})
                    \cup {"mem_op"}) \cup {"mem_size"}) \cup {"privilege"}
  <2>1. \A X, y : IsFiniteSet(X) => IsFiniteSet(X \cup {y})
    BY FS_AddElement
  <2>2. IsFiniteSet(D)
    BY <2>1, FS_EmptySet
  <2>3. Illegal(e) \in SUBSET D
    BY DEF Illegal, Allowed
  <2> QED
    BY <2>2, <2>3, FS_Subset
<1>2. Cardinality(Illegal(e)) \in Nat /\ (Cardinality(Illegal(e)) = 0 <=> Illegal(e) = {})
  BY <1>1, FS_CardinalityType, FS_EmptySet
<1>3. n \in Nat /\ (n = 0 <=> e.mem_errors = 0 /\ Illegal(e) = {})
  BY <1>2
<1>5. SchemaIssues(e, s) = [k \in 1..n |-> x]
  BY DEF SchemaIssues
<1> HIDE DEF n, x
<1>4. List([k \in 1..n |-> x])
  <2>1. [k \in 1..n |-> x] \in Seq({x})
    BY <1>3
  <2> QED
    BY <2>1, ListOf
<1>6. Of([k \in 1..n |-> x]) = IF n = 0 THEN {} ELSE {x}
  BY <1>3 DEF Of
<1> QED
  BY <1>3, <1>4, <1>5, <1>6 DEF If, x

\* A write to x0 is said of one side.
LEMMA X0Of ==
  ASSUME NEW c, NEW e, NEW s
  PROVE  /\ List(X0Issues(c, e, s))
         /\ \A x \in Of(X0Issues(c, e, s)) : x.side = s
<1> DEFINE p == IF c.enforce_x0 /\ X0Violation(e) THEN TRUE ELSE FALSE
<1>1. X0Issues(c, e, s) = IssueIf(p, "X0WRITTEN", "rd_val", s)
  BY DEF X0Issues, IssueIf
<1>2. p \in BOOLEAN
  OBVIOUS
<1> HIDE DEF p
<1> QED
  BY <1>1, <1>2, IfOf DEF If, Issue

\* A misaligned access is said of one side.
LEMMA AlignOf ==
  ASSUME NEW c, NEW e, NEW s
  PROVE  /\ List(AlignIssues(c, e, s))
         /\ \A x \in Of(AlignIssues(c, e, s)) : x.side = s
<1> DEFINE p == IF c.check_alignment /\ Misaligned(e) THEN TRUE ELSE FALSE
<1>1. AlignIssues(c, e, s) = IssueIf(p, "ALIGNMENTERROR", "mem_addr", s)
  BY DEF AlignIssues, IssueIf
<1>2. p \in BOOLEAN
  OBVIOUS
<1> HIDE DEF p
<1> QED
  BY <1>1, <1>2, IfOf DEF If, Issue

\* What is wrong with one commit is said of one side.
LEMMA OwnOf ==
  ASSUME NEW c, NEW r, NEW i, r.mem_errors \in Nat, i.mem_errors \in Nat
  PROVE  /\ List(OwnIssues(c, r, i))
         /\ \A x \in Of(OwnIssues(c, r, i)) : x.side # "both"
         /\ Of(OwnIssues(c, r, i)) = {} => /\ r.mem_errors = 0 /\ Illegal(r) = {}
                                           /\ i.mem_errors = 0 /\ Illegal(i) = {}
<1> DEFINE a == SchemaIssues(r, "RTL")
           b == SchemaIssues(i, "ISS")
           d == X0Issues(c, r, "RTL")
           e == X0Issues(c, i, "ISS")
<1>1. List(a) /\ List(b) /\ List(d) /\ List(e)
  BY SchemaOf, X0Of
<1>2. /\ \A x \in Of(d) : x.side = "RTL"
      /\ \A x \in Of(e) : x.side = "ISS"
  BY X0Of
<1>3. /\ Of(a) = If(r.mem_errors # 0 \/ Illegal(r) # {}, Issue("SCHEMAINVALID", "schema", "RTL"))
      /\ Of(b) = If(i.mem_errors # 0 \/ Illegal(i) # {}, Issue("SCHEMAINVALID", "schema", "ISS"))
  BY SchemaOf
<1>4. OwnIssues(c, r, i) = a \o b \o d \o e
  BY DEF OwnIssues
<1> HIDE DEF a, b, d, e
<1>5. List(a \o b) /\ Of(a \o b) = Of(a) \cup Of(b)
  BY <1>1, JoinOf
<1>6. List(a \o b \o d) /\ Of(a \o b \o d) = Of(a) \cup Of(b) \cup Of(d)
  BY <1>1, <1>5, JoinOf
<1>7. /\ List(a \o b \o d \o e)
      /\ Of(a \o b \o d \o e) = Of(a) \cup Of(b) \cup Of(d) \cup Of(e)
  BY <1>1, <1>6, JoinOf
<1>8. \A x \in Of(a) \cup Of(b) : x.side # "both"
  BY <1>3 DEF If, Issue
<1> QED
  BY <1>2, <1>3, <1>4, <1>7, <1>8 DEF If

\* The part of a condition that is about one field of a trap.
TrapDiffers(c, r, i, f) == IF f \notin c.skip /\ Differ(r[f], i[f]) THEN TRUE ELSE FALSE

\* The trap rules report fields that differ, and whether a trap was taken.
LEMMA TrapOf ==
  ASSUME NEW c, NEW r, NEW i
  PROVE  /\ List(TrapIssues(c, r, i))
         /\ \A x \in Of(TrapIssues(c, r, i)) :
              /\ x.field \in {"trap", "trap_cause", "trap_tval", "trap_pc"}
              /\ r[x.field] # i[x.field]
         /\ Of(TrapIssues(c, r, i)) = {} => "trap" \in c.skip \/ r.trap = i.trap
<1> DEFINE D(f) == IssueIf(f \notin c.skip /\ Differ(r[f], i[f]), "TRAPCAUSEMISMATCH", f, "both")
           all == D("trap_cause") \o D("trap_tval") \o D("trap_pc")
<1>1. \A f : List(D(f)) /\ \A x \in Of(D(f)) : x.field = f /\ r[f] # i[f]
  <2> TAKE f
  <2>1. D(f) = IssueIf(TrapDiffers(c, r, i, f), "TRAPCAUSEMISMATCH", f, "both")
    BY DEF TrapDiffers, IssueIf
  <2>2. TrapDiffers(c, r, i, f) \in BOOLEAN
    BY DEF TrapDiffers
  <2>3. TrapDiffers(c, r, i, f) => r[f] # i[f]
    BY DEF TrapDiffers, Differ
  <2> HIDE DEF D
  <2> QED
    BY <2>1, <2>2, <2>3, IfOf DEF If, Issue
<1>2. /\ List(all)
      /\ Of(all) = Of(D("trap_cause")) \cup Of(D("trap_tval")) \cup Of(D("trap_pc"))
  <2> HIDE DEF D
  <2>1. /\ List(D("trap_cause") \o D("trap_tval"))
        /\ Of(D("trap_cause") \o D("trap_tval")) = Of(D("trap_cause")) \cup Of(D("trap_tval"))
    BY <1>1, JoinOf
  <2> QED
    BY <1>1, <2>1, JoinOf
<1>3. \A x \in Of(all) :
        x.field \in {"trap_cause", "trap_tval", "trap_pc"} /\ r[x.field] # i[x.field]
  <2> HIDE DEF D, all
  <2> QED
    BY <1>1, <1>2
<1>4. TrapIssues(c, r, i) = IF "trap" \in c.skip THEN <<>>
                            ELSE IF r.trap # i.trap THEN <<Issue("TRAPMISMATCH", "trap", "both")>>
                            ELSE IF r.trap THEN all ELSE <<>>
  BY DEF TrapIssues
<1> HIDE DEF all
<1>5. CASE "trap" \in c.skip
  BY <1>4, <1>5, NoneOf
<1>6. CASE "trap" \notin c.skip /\ r.trap # i.trap
  <2>1. /\ List(TrapIssues(c, r, i))
        /\ Of(TrapIssues(c, r, i)) = {Issue("TRAPMISMATCH", "trap", "both")}
    BY <1>4, <1>6, OneOf
  <2>2. Issue("TRAPMISMATCH", "trap", "both").field = "trap" /\ r["trap"] # i["trap"]
    BY <1>6 DEF Issue
  <2> QED
    BY <2>1, <2>2
<1>7. CASE "trap" \notin c.skip /\ r.trap = i.trap
  BY <1>2, <1>3, <1>4, <1>7, NoneOf
<1> QED
  BY <1>5, <1>6, <1>7

\* The register rules report fields that differ, of a register the RTL writes.
LEMMA RegOf ==
  ASSUME NEW c, NEW r, NEW i
  PROVE  /\ List(RegIssues(c, r, i))
         /\ \A x \in Of(RegIssues(c, r, i)) :
              x.field \in {"rd", "rd_val"} /\ r[x.field] # i[x.field] /\ r.rd # None
         /\ Of(RegIssues(c, r, i)) = {} =>
              \/ "rd_val" \in c.skip \/ r.rd \in {None, 0}
              \/ ~Differ(r.rd, i.rd) /\ ~Differ(r.rd_val, i.rd_val)
<1> DEFINE skipped == "rd_val" \in c.skip \/ r.rd \in {None, 0}
           first   == Issue("REGMISMATCH", "rd", "both")
           second  == IssueIf(Differ(r.rd_val, i.rd_val), "REGMISMATCH", "rd_val", "both")
<1>1. /\ List(second)
      /\ Of(second) = If(Differ(r.rd_val, i.rd_val), Issue("REGMISMATCH", "rd_val", "both"))
  <2>1. Differ(r.rd_val, i.rd_val) \in BOOLEAN
    BY DEF Differ
  <2> QED
    BY <2>1, IfOf
<1>2. RegIssues(c, r, i) = IF skipped THEN <<>>
                           ELSE IF Differ(r.rd, i.rd) THEN <<first>> ELSE second
  BY DEF RegIssues
<1>3. first.field = "rd" /\ Issue("REGMISMATCH", "rd_val", "both").field = "rd_val"
  BY DEF Issue
<1>4. List(<<first>>) /\ Of(<<first>>) = {first} /\ List(<<>>) /\ Of(<<>>) = {}
  BY OneOf, NoneOf
<1>5. Differ(r.rd, i.rd) => r["rd"] # i["rd"]
  BY DEF Differ
<1>6. Differ(r.rd_val, i.rd_val) => r["rd_val"] # i["rd_val"]
  BY DEF Differ
<1>7. ~skipped => r.rd # None
  OBVIOUS
<1> HIDE DEF first, second
<1>8. CASE skipped
  BY <1>2, <1>4, <1>8
<1> HIDE DEF skipped
<1>9. CASE ~skipped /\ Differ(r.rd, i.rd)
  BY <1>2, <1>3, <1>4, <1>5, <1>7, <1>9
<1>10. CASE ~skipped /\ ~Differ(r.rd, i.rd)
  BY <1>1, <1>2, <1>3, <1>6, <1>7, <1>10 DEF If
<1> QED
  BY <1>8, <1>9, <1>10

\* The sorted list of the writes that are compared.
LEMMA NormList ==
  ASSUME NEW c, NEW ws \in Seq(CsrWrite)
  PROVE  /\ Len(Norm(c, ws)) \in Nat
         /\ Norm(c, ws) = [n \in 1..Len(Norm(c, ws)) |-> Norm(c, ws)[n]]
<1> DEFINE m == Cardinality(Seen(c, ws))
           W(n) == Shown(c, ws[Nth(Seen(c, ws), Sorted(c, ws), n)])
           X == {W(n) : n \in 1..m}
<1>1. m \in Nat /\ Norm(c, ws) = [n \in 1..m |-> W(n)]
  BY NormIs
<1> HIDE DEF m, W
<1>2. [n \in 1..m |-> W(n)] \in Seq(X)
  BY <1>1
<1> HIDE DEF X
<1> QED
  BY <1>1, <1>2

\* The CSR rules speak up just when the sorted lists differ.
LEMMA CsrOf ==
  ASSUME NEW c, NEW r, NEW i, r.csr_writes \in Seq(CsrWrite), i.csr_writes \in Seq(CsrWrite)
  PROVE  /\ List(CsrIssues(c, r, i))
         /\ \A x \in Of(CsrIssues(c, r, i)) :
              x.field \in {"csr", "csr_writes"} /\ Norm(c, r.csr_writes) # Norm(c, i.csr_writes)
         /\ Of(CsrIssues(c, r, i)) = {} =>
              "csr_writes" \in c.skip \/ Norm(c, r.csr_writes) = Norm(c, i.csr_writes)
<1> DEFINE rl == Norm(c, r.csr_writes)
           il == Norm(c, i.csr_writes)
           n  == Len(rl)
           one == Issue("CSRMISMATCH", "csr_writes", "both")
           F(k) == Issue("CSRMISMATCH", IF rl[k].csr # il[k].csr THEN "csr_writes" ELSE "csr", "both")
           K == {k \in 1..n : rl[k] # il[k]}
           s == [k \in 1..n |-> F(k)]
<1>1. /\ n \in Nat /\ rl = [k \in 1..n |-> rl[k]]
      /\ Len(il) \in Nat /\ il = [k \in 1..Len(il) |-> il[k]]
  BY NormList
<1>2. CsrIssues(c, r, i) = IF "csr_writes" \in c.skip THEN <<>>
                           ELSE IF n # Len(il) THEN <<one>> ELSE CsrPairIssues(rl, il)
  BY DEF CsrIssues
<1>3. List(<<one>>) /\ Of(<<one>>) = {one} /\ List(<<>>) /\ Of(<<>>) = {} /\ one.field = "csr_writes"
  BY OneOf, NoneOf DEF Issue
<1>4. \A k : F(k).field \in {"csr", "csr_writes"}
  BY DEF Issue
<1> HIDE DEF rl, il, n, one
<1>5. DOMAIN rl = 1..n
  BY <1>1
<1>6. CsrPairIssues(rl, il) = Filtered(s, K)
  BY <1>5 DEF CsrPairIssues
<1>7. List(Filtered(s, K)) /\ Of(Filtered(s, K)) = ImageOf(s, K)
  <2> DEFINE X == {F(k) : k \in 1..n}
  <2>1. s \in [1..n -> X]
    OBVIOUS
  <2>2. K \in SUBSET (1..n)
    OBVIOUS
  <2>3. n \in Nat
    BY <1>1
  <2> HIDE DEF s, K, F, X
  <2> QED
    BY <2>1, <2>2, <2>3, FilteredOf
<1>8. \A k \in K : s[k].field \in {"csr", "csr_writes"} /\ rl # il
  <2> TAKE k \in K
  <2>1. s[k] = F(k)
    OBVIOUS
  <2> HIDE DEF s, F
  <2> QED
    BY <1>4, <2>1
<1>9. n = Len(il) /\ K = {} => rl = il
  <2> HAVE n = Len(il) /\ K = {}
  <2>1. \A k \in 1..n : rl[k] = il[k]
    OBVIOUS
  <2> QED
    BY <1>1, <2>1
<1>10. n # Len(il) => rl # il
  BY DEF n
<1> HIDE DEF s, F
<1>11. CASE "csr_writes" \in c.skip
  BY <1>2, <1>3, <1>11
<1>12. CASE "csr_writes" \notin c.skip /\ n # Len(il)
  BY <1>2, <1>3, <1>10, <1>12 DEF rl, il
<1>13. CASE "csr_writes" \notin c.skip /\ n = Len(il)
  <2>1. CsrIssues(c, r, i) = Filtered(s, K)
    BY <1>2, <1>6, <1>13
  <2> HIDE DEF K
  <2>2. Of(Filtered(s, K)) = {} => rl = il
    BY <1>7, <1>9, <1>13 DEF ImageOf
  <2> QED
    BY <1>7, <1>8, <2>1, <2>2 DEF rl, il, ImageOf
<1> QED
  BY <1>11, <1>12, <1>13

\* What is so when the memory rules have nothing to say.
MemAlike(c, r, i) ==
  \/ MemSkipped(c) \/ (r.mem_op = None /\ i.mem_op = None)
  \/ /\ r.mem_op = i.mem_op /\ ~Differ(r.mem_addr, i.mem_addr)
     /\ \/ ~Differ(r.mem_val, i.mem_val)
        \/ Low(c, r.mem_val, {r.mem_size, i.mem_size})
             = Low(c, i.mem_val, {r.mem_size, i.mem_size})

\* The memory rules report fields that differ.
LEMMA MemOf ==
  ASSUME NEW c, NEW r, NEW i
  PROVE  /\ List(MemIssues(c, r, i))
         /\ \A x \in Of(MemIssues(c, r, i)) : x.side = "both" =>
              /\ x.field \in {"mem_op", "mem_addr", "mem_val"} /\ r[x.field] # i[x.field]
              /\ r.mem_op # None \/ i.mem_op # None
         /\ Of(MemIssues(c, r, i)) = {} => MemAlike(c, r, i)
<1> DEFINE z == {r.mem_size, i.mem_size}
           p == IF Differ(r.mem_val, i.mem_val) /\ Low(c, r.mem_val, z) # Low(c, i.mem_val, z)
                THEN TRUE ELSE FALSE
           v == IssueIf(p, "MEMMISMATCH", "mem_val", "both")
           a == AlignIssues(c, r, "RTL")
           b == AlignIssues(c, i, "ISS")
           skipped == MemSkipped(c) \/ (r.mem_op = None /\ i.mem_op = None)
           op   == Issue("MEMMISMATCH", "mem_op", "both")
           addr == Issue("MEMMISMATCH", "mem_addr", "both")
           val  == Issue("MEMMISMATCH", "mem_val", "both")
<1>1. List(v) /\ Of(v) = If(p, val)
  <2>1. p \in BOOLEAN
    OBVIOUS
  <2> HIDE DEF p
  <2> QED
    BY <2>1, IfOf
<1>2. /\ List(a) /\ \A x \in Of(a) : x.side = "RTL"
      /\ List(b) /\ \A x \in Of(b) : x.side = "ISS"
  BY AlignOf
<1>3. MemIssues(c, r, i) = IF skipped THEN <<>>
                           ELSE IF r.mem_op # i.mem_op THEN <<op>>
                           ELSE IF Differ(r.mem_addr, i.mem_addr) THEN <<addr>>
                           ELSE v \o a \o b
  BY DEF MemIssues, IssueIf
<1>4. op.field = "mem_op" /\ addr.field = "mem_addr" /\ val.field = "mem_val"
  BY DEF Issue
<1>5. /\ List(<<>>) /\ Of(<<>>) = {}
      /\ List(<<op>>) /\ Of(<<op>>) = {op} /\ List(<<addr>>) /\ Of(<<addr>>) = {addr}
  BY OneOf, NoneOf
<1>6. /\ Differ(r.mem_addr, i.mem_addr) => r["mem_addr"] # i["mem_addr"]
      /\ p => r["mem_val"] # i["mem_val"]
      /\ ~p => ~Differ(r.mem_val, i.mem_val) \/ Low(c, r.mem_val, z) = Low(c, i.mem_val, z)
  BY DEF Differ
<1> HIDE DEF v, a, b, p, op, addr, val
<1>7. /\ List(v \o a \o b) /\ Of(v \o a \o b) = Of(v) \cup Of(a) \cup Of(b)
  <2>1. List(v \o a) /\ Of(v \o a) = Of(v) \cup Of(a)
    BY <1>1, <1>2, JoinOf
  <2> QED
    BY <1>2, <2>1, JoinOf
<1>8. CASE skipped
  BY <1>3, <1>5, <1>8 DEF MemAlike
<1>9. CASE ~skipped /\ r.mem_op # i.mem_op
  BY <1>3, <1>4, <1>5, <1>9
<1>10. CASE ~skipped /\ r.mem_op = i.mem_op /\ Differ(r.mem_addr, i.mem_addr)
  BY <1>3, <1>4, <1>5, <1>6, <1>10
<1>11. CASE ~skipped /\ r.mem_op = i.mem_op /\ ~Differ(r.mem_addr, i.mem_addr)
  <2>1. MemIssues(c, r, i) = v \o a \o b
    BY <1>3, <1>11
  <2>2. Of(v \o a \o b) = {} => ~p
    BY <1>1, <1>7 DEF If
  <2>3. \A x \in Of(v \o a \o b) : x.side = "both" => x = val /\ p
    BY <1>1, <1>2, <1>7 DEF If
  <2> QED
    BY <1>4, <1>6, <1>7, <1>11, <2>1, <2>2, <2>3 DEF MemAlike
<1> QED
  BY <1>8, <1>9, <1>10, <1>11

\* The privilege rule reports modes that differ.
LEMMA PrivilegeOf ==
  ASSUME NEW c, NEW r, NEW i
  PROVE  /\ List(PrivilegeIssues(c, r, i))
         /\ \A x \in Of(PrivilegeIssues(c, r, i)) :
              x.field = "privilege" /\ r["privilege"] # i["privilege"]
         /\ Of(PrivilegeIssues(c, r, i)) = {} =>
              "privilege" \in c.skip \/ ~Differ(r.privilege, i.privilege)
<1> DEFINE p == IF "privilege" \notin c.skip /\ Differ(r.privilege, i.privilege) THEN TRUE ELSE FALSE
<1>1. PrivilegeIssues(c, r, i) = IssueIf(p, "PRIVILEGEMISMATCH", "privilege", "both")
  BY DEF PrivilegeIssues, IssueIf
<1>2. p \in BOOLEAN /\ (p => r["privilege"] # i["privilege"])
  BY DEF Differ
<1>3. p <=> "privilege" \notin c.skip /\ Differ(r.privilege, i.privilege)
  OBVIOUS
<1> HIDE DEF p
<1>4. /\ List(PrivilegeIssues(c, r, i))
      /\ Of(PrivilegeIssues(c, r, i)) = If(p, Issue("PRIVILEGEMISMATCH", "privilege", "both"))
  BY <1>1, <1>2, IfOf
<1>5. Issue("PRIVILEGEMISMATCH", "privilege", "both").field = "privilege"
  BY DEF Issue
<1>6. CASE p
  BY <1>2, <1>4, <1>5, <1>6 DEF If
<1>7. CASE ~p
  BY <1>3, <1>4, <1>7 DEF If
<1> QED
  BY <1>6, <1>7

\* Why an issue about both sides is raised beyond PC and instruction word.
Reason(c, r, i, x) ==
  \/ /\ x.field \in {"trap", "trap_cause", "trap_tval", "trap_pc", "privilege"}
     /\ r[x.field] # i[x.field]
  \/ x.field \in {"rd", "rd_val"} /\ r[x.field] # i[x.field] /\ r.rd # None
  \/ x.field \in {"csr", "csr_writes"} /\ Norm(c, r.csr_writes) # Norm(c, i.csr_writes)
  \/ /\ x.field \in {"mem_op", "mem_addr", "mem_val"} /\ r[x.field] # i[x.field]
     /\ r.mem_op # None \/ i.mem_op # None

\* What is so when the rules have nothing to say.
Alike(c, r, i) ==
  /\ "trap" \in c.skip \/ r.trap = i.trap
  /\ \/ "rd_val" \in c.skip \/ r.rd \in {None, 0}
     \/ ~Differ(r.rd, i.rd) /\ ~Differ(r.rd_val, i.rd_val)
  /\ "csr_writes" \in c.skip \/ Norm(c, r.csr_writes) = Norm(c, i.csr_writes)
  /\ MemAlike(c, r, i)
  /\ "privilege" \in c.skip \/ ~Differ(r.privilege, i.privilege)

\* All rules beyond PC and instruction word, together.
LEMMA OtherOf ==
  ASSUME NEW c, NEW r, NEW i, r.csr_writes \in Seq(CsrWrite), i.csr_writes \in Seq(CsrWrite)
  PROVE  /\ List(OtherIssues(c, r, i))
         /\ \A x \in Of(OtherIssues(c, r, i)) : x.side = "both" => Reason(c, r, i, x)
         /\ Of(OtherIssues(c, r, i)) = {} => Alike(c, r, i)
<1> DEFINE t == TrapIssues(c, r, i)
           g == RegIssues(c, r, i)
           s == CsrIssues(c, r, i)
           m == MemIssues(c, r, i)
           p == PrivilegeIssues(c, r, i)
<1>1. OtherIssues(c, r, i) = t \o g \o s \o m \o p
  BY DEF OtherIssues
<1>2. List(t) /\ List(g) /\ List(s) /\ List(m) /\ List(p)
  BY TrapOf, RegOf, CsrOf, MemOf, PrivilegeOf
<1>3. \A x \in Of(t) \cup Of(p) : Reason(c, r, i, x)
  BY TrapOf, PrivilegeOf DEF Reason
<1>4. \A x \in Of(g) : Reason(c, r, i, x)
  BY RegOf DEF Reason
<1>5. \A x \in Of(s) : Reason(c, r, i, x)
  BY CsrOf DEF Reason
<1>6. \A x \in Of(m) : x.side = "both" => Reason(c, r, i, x)
  <2>1. \A x \in Of(m) : x.side = "both" =>
          /\ x.field \in {"mem_op", "mem_addr", "mem_val"} /\ r[x.field] # i[x.field]
          /\ r.mem_op # None \/ i.mem_op # None
    BY MemOf
  <2> HIDE DEF m
  <2> QED
    BY <2>1 DEF Reason
<1>7. Of(t) = {} /\ Of(g) = {} /\ Of(s) = {} /\ Of(m) = {} /\ Of(p) = {} => Alike(c, r, i)
  <2> HAVE Of(t) = {} /\ Of(g) = {} /\ Of(s) = {} /\ Of(m) = {} /\ Of(p) = {}
  <2>1. "trap" \in c.skip \/ r.trap = i.trap
    BY TrapOf
  <2>2. \/ "rd_val" \in c.skip \/ r.rd \in {None, 0}
        \/ ~Differ(r.rd, i.rd) /\ ~Differ(r.rd_val, i.rd_val)
    BY RegOf
  <2>3. "csr_writes" \in c.skip \/ Norm(c, r.csr_writes) = Norm(c, i.csr_writes)
    BY CsrOf
  <2>4. MemAlike(c, r, i)
    BY MemOf
  <2>5. "privilege" \in c.skip \/ ~Differ(r.privilege, i.privilege)
    BY PrivilegeOf
  <2> QED
    BY <2>1, <2>2, <2>3, <2>4, <2>5 DEF Alike
<1> HIDE DEF t, g, s, m, p
<1>8. List(t \o g) /\ Of(t \o g) = Of(t) \cup Of(g)
  BY <1>2, JoinOf
<1>9. List(t \o g \o s) /\ Of(t \o g \o s) = Of(t) \cup Of(g) \cup Of(s)
  BY <1>2, <1>8, JoinOf
<1>10. List(t \o g \o s \o m) /\ Of(t \o g \o s \o m) = Of(t) \cup Of(g) \cup Of(s) \cup Of(m)
  BY <1>2, <1>9, JoinOf
<1>11. /\ List(t \o g \o s \o m \o p)
       /\ Of(t \o g \o s \o m \o p) = Of(t) \cup Of(g) \cup Of(s) \cup Of(m) \cup Of(p)
  BY <1>2, <1>10, JoinOf
<1> QED
  BY <1>1, <1>3, <1>4, <1>5, <1>6, <1>7, <1>11

\* A commit that a line gives.
Typed(e) == e.mem_errors \in Nat /\ e.csr_writes \in Seq(CsrWrite)

\* What Compare reports of both sides, and what its silence means.
LEMMA CompareOf ==
  ASSUME NEW c, NEW r, NEW i, Typed(r), Typed(i)
  PROVE  /\ List(Compare(c, r, i))
         /\ \A x \in Of(Compare(c, r, i)) : x.side = "both" =>
              \/ x.field = "pc" /\ r.pc # i.pc
              \/ /\ "pc" \in c.skip \/ r.pc = i.pc
                 /\ \/ x.field = "instr" /\ r.instr # i.instr
                    \/ ("instr" \in c.skip \/ r.instr = i.instr) /\ Reason(c, r, i, x)
         /\ Of(Compare(c, r, i)) = {} =>
              /\ "pc" \in c.skip \/ r.pc = i.pc
              /\ "instr" \in c.skip \/ r.instr = i.instr
              /\ r.mem_errors = 0 /\ Illegal(r) = {} /\ i.mem_errors = 0 /\ Illegal(i) = {}
              /\ Alike(c, r, i)
<1> DEFINE own == OwnIssues(c, r, i)
           pc  == Issue("PCMISMATCH", "pc", "both")
           ins == Issue("INSTRMISMATCH", "instr", "both")
           oth == OtherIssues(c, r, i)
           rest == IF PcDiffers(c, r, i) THEN <<pc>>
                   ELSE IF InstrDiffers(c, r, i) THEN <<ins>> ELSE oth
<1>1. Compare(c, r, i) = own \o rest
  BY DEF Compare
<1>2. /\ List(own) /\ \A x \in Of(own) : x.side # "both"
      /\ Of(own) = {} => r.mem_errors = 0 /\ Illegal(r) = {} /\ i.mem_errors = 0 /\ Illegal(i) = {}
  BY OwnOf DEF Typed
<1>3. /\ List(oth) /\ \A x \in Of(oth) : x.side = "both" => Reason(c, r, i, x)
      /\ Of(oth) = {} => Alike(c, r, i)
  BY OtherOf DEF Typed
<1>4. /\ List(<<pc>>) /\ Of(<<pc>>) = {pc} /\ pc.field = "pc"
      /\ List(<<ins>>) /\ Of(<<ins>>) = {ins} /\ ins.field = "instr"
  BY OneOf DEF Issue
<1>5. /\ PcDiffers(c, r, i) <=> "pc" \notin c.skip /\ r.pc # i.pc
      /\ InstrDiffers(c, r, i) <=> "instr" \notin c.skip /\ r.instr # i.instr
  BY DEF PcDiffers, InstrDiffers
<1> HIDE DEF own, pc, ins, oth
<1>6. List(rest)
  BY <1>3, <1>4
<1>7. /\ \A x \in Of(rest) : x.side = "both" =>
              \/ x.field = "pc" /\ r.pc # i.pc
              \/ /\ "pc" \in c.skip \/ r.pc = i.pc
                 /\ \/ x.field = "instr" /\ r.instr # i.instr
                    \/ ("instr" \in c.skip \/ r.instr = i.instr) /\ Reason(c, r, i, x)
      /\ Of(rest) = {} =>
              /\ "pc" \in c.skip \/ r.pc = i.pc
              /\ "instr" \in c.skip \/ r.instr = i.instr
              /\ Alike(c, r, i)
  <2>1. CASE PcDiffers(c, r, i)
    BY <1>4, <1>5, <2>1
  <2>2. CASE ~PcDiffers(c, r, i) /\ InstrDiffers(c, r, i)
    BY <1>4, <1>5, <2>2
  <2>3. CASE ~PcDiffers(c, r, i) /\ ~InstrDiffers(c, r, i)
    BY <1>3, <1>5, <2>3
  <2> QED
    BY <2>1, <2>2, <2>3
<1> HIDE DEF rest
<1>8. List(own \o rest) /\ Of(own \o rest) = Of(own) \cup Of(rest)
  BY <1>2, <1>6, JoinOf
<1> QED
  BY <1>1, <1>2, <1>7, <1>8

-----------------------------------------------------------------------------
\* What from_dict makes of a line is a commit.
LEMMA DecodedTyped ==
  ASSUME NEW d, WellFormed(d)
  PROVE  Typed(Decode(d)) /\ DOMAIN Decode(d).csr_writes = DOMAIN CsrList(d)
<1>1. CsrList(d) \in Seq(CsrWrite)
  <2>1. CASE d.csrs # None
    <3>1. d.csrs \in Seq([name : STRING, val : Numeral])
      BY <2>1 DEF WellFormed, Opt, KeyValues
    <3> DEFINE X == [name : STRING, val : Numeral]
    <3>8. \A x \in X : x.val \in Numeral
      OBVIOUS
    <3>2. \A k \in DOMAIN d.csrs : d.csrs[k].val \in Numeral
      <4>1. d.csrs \in Seq(X)
        BY <3>1
      <4> HIDE DEF X
      <4> QED
        BY <3>8, <4>1
    <3>3. \A k \in DOMAIN d.csrs : Word(d.csrs[k].val) \in Nat \cup {None}
      BY <3>2 DEF Word, Numeral
    <3>4. \A k \in DOMAIN d.csrs : Address(d.csrs[k].name) \in Nat
      BY TablesAssumption DEF Address
    <3> DEFINE W(k) == [csr |-> Address(d.csrs[k].name), val |-> Word(d.csrs[k].val)]
    <3>5. \A k \in DOMAIN d.csrs : W(k) \in CsrWrite
      BY <3>3, <3>4 DEF CsrWrite
    <3>6. CsrList(d) = [k \in DOMAIN d.csrs |-> W(k)]
      BY <2>1 DEF CsrList
    <3>7. DOMAIN d.csrs = 1..Len(d.csrs) /\ Len(d.csrs) \in Nat
      BY <3>1
    <3> HIDE DEF W
    <3> QED
      BY <3>5, <3>6, <3>7
  <2>2. CASE d.csrs = None
    <3>1. d.csr_writes \in Seq([csr : Nat \ {0}, val : Numeral])
      BY DEF WellFormed
    <3> DEFINE X == [csr : Nat \ {0}, val : Numeral]
    <3>8. \A x \in X : x.val \in Numeral /\ x.csr \in Nat
      OBVIOUS
    <3>2. \A k \in DOMAIN d.csr_writes : d.csr_writes[k].val \in Numeral /\ d.csr_writes[k].csr \in Nat
      <4>1. d.csr_writes \in Seq(X)
        BY <3>1
      <4> HIDE DEF X
      <4> QED
        BY <3>8, <4>1
    <3>3. \A k \in DOMAIN d.csr_writes : Word(d.csr_writes[k].val) \in Nat \cup {None}
      BY <3>2 DEF Word, Numeral
    <3> DEFINE W(k) == [csr |-> d.csr_writes[k].csr, val |-> Word(d.csr_writes[k].val)]
    <3>5. \A k \in DOMAIN d.csr_writes : W(k) \in CsrWrite
      BY <3>2, <3>3 DEF CsrWrite
    <3>6. CsrList(d) = [k \in DOMAIN d.csr_writes |-> W(k)]
      BY <2>2 DEF CsrList
    <3>7. DOMAIN d.csr_writes = 1..Len(d.csr_writes) /\ Len(d.csr_writes) \in Nat
      BY <3>1
    <3> HIDE DEF W
    <3> QED
      BY <3>5, <3>6, <3>7
  <2> QED
    BY <2>1, <2>2
<1>2. MemFromCanonical(d).errors \in Nat
  <2>1. \A es, op : FirstEntry(es, op).errors \in Nat
    BY DEF FirstEntry, NoAccess
  <2>2. NoAccess(0).errors \in Nat
    BY DEF NoAccess
  <2> QED
    BY <2>1, <2>2 DEF MemFromCanonical
<1>3. Decode(d).mem_errors = MemFromCanonical(d).errors /\ Decode(d).csr_writes = CsrList(d)
  BY DEF Decode
<1> QED
  BY <1>1, <1>2, <1>3 DEF Typed

-----------------------------------------------------------------------------
(* What is recorded is what was found.                                     *)

\* What there is to say about line k, and about the first n lines.
IssuesAt(k)    == Of(Compare(cfg, log.rtl[k], log.iss[k]))
Reported(k, x) == [line |-> k, issue |-> x]
FoundAt(k)     == {Reported(k, x) : x \in IssuesAt(k)}
Found(n)       == UNION {FoundAt(k) : k \in 1..n}

\* What is recorded was found, and nothing is left out below the limit.
ReportInv ==
  /\ \E input \in Inputs : cfg \in input.cfgs
  /\ raw.rtl \in Seq(Records) /\ raw.iss \in Seq(Records) /\ Len(raw.rtl) = Len(raw.iss)
  /\ log = [rtl |-> Decoded(raw.rtl), iss |-> Decoded(raw.iss)]
  /\ pos \in 0..Len(raw.rtl)
  /\ List(reports) /\ Of(reports) \subseteq Found(pos)
  /\ ~Limit(reports) => Found(pos) \subseteq Of(reports)

\* The decoded log has the lines of the file.
LEMMA DecodedLines ==
  ASSUME NEW lines \in Seq(Records)
  PROVE  /\ Len(Decoded(lines)) = Len(lines) /\ DOMAIN Decoded(lines) = 1..Len(lines)
         /\ \A k \in 1..Len(lines) : Decoded(lines)[k] = Decode(lines[k]) /\ lines[k] \in Records
<1>1. Len(lines) \in Nat /\ DOMAIN lines = 1..Len(lines) /\ \A k \in 1..Len(lines) : lines[k] \in Records
  OBVIOUS
<1>2. Decoded(lines) = [k \in 1..Len(lines) |-> Decode(lines[k])]
  BY <1>1 DEF Decoded
<1>3. [k \in 1..Len(lines) |-> Decode(lines[k])] \in Seq({Decode(lines[k]) : k \in 1..Len(lines)})
  BY <1>1
<1> QED
  BY <1>1, <1>2, <1>3

\* Before the first pair nothing is recorded and nothing found.
LEMMA ReportInit == Init => ReportInv
<1> SUFFICES ASSUME Init PROVE ReportInv
  OBVIOUS
<1>1. PICK input \in Inputs : cfg \in input.cfgs /\ raw \in [rtl : input.rtl, iss : input.iss]
  BY DEF Init
<1>2. raw.rtl \in Seq(Records) /\ raw.iss \in Seq(Records)
  BY <1>1, InputsAssumption
<1>3. log.rtl = Decoded(raw.rtl) /\ log.iss = Decoded(raw.iss)
      /\ log = [rtl |-> Decoded(raw.rtl), iss |-> Decoded(raw.iss)]
  BY DEF Init
<1>4. Len(raw.rtl) = Len(raw.iss)
  <2>1. Len(log.rtl) = Len(log.iss)
    BY DEF Init
  <2> QED
    BY <1>2, <1>3, <2>1, DecodedLines
<1>5. pos \in 0..Len(raw.rtl)
  BY <1>2 DEF Init
<1>6. List(reports) /\ Of(reports) = {}
  BY NoneOf DEF Init
<1>7. Found(pos) = {}
  BY DEF Init, Found
<1> QED
  BY <1>1, <1>2, <1>3, <1>4, <1>5, <1>6, <1>7 DEF ReportInv

\* Both commits of a line are decoded from well-formed records.
LEMMA LineTyped ==
  ASSUME ReportInv, NEW k \in 1..Len(raw.rtl)
  PROVE  /\ Typed(log.rtl[k]) /\ Typed(log.iss[k])
         /\ log.rtl[k] = Decode(raw.rtl[k]) /\ log.iss[k] = Decode(raw.iss[k])
         /\ WellFormed(raw.rtl[k]) /\ WellFormed(raw.iss[k])
<1>1. /\ log.rtl[k] = Decode(raw.rtl[k]) /\ log.iss[k] = Decode(raw.iss[k])
      /\ raw.rtl[k] \in Records /\ raw.iss[k] \in Records
  BY DecodedLines DEF ReportInv
<1> QED
  BY <1>1, RecordsAssumption, DecodedTyped

\* A list cut at the limit.
LEMMA CutOf ==
  ASSUME NEW s, List(s), NEW m \in Nat, m <= Len(s)
  PROVE  List(SubSeq(s, 1, m)) /\ Of(SubSeq(s, 1, m)) \subseteq Of(s) /\ Len(SubSeq(s, 1, m)) = m
<1> DEFINE X == Of(s)
<1>1. s \in Seq(X)
  BY DEF List
<1> HIDE DEF X
<1>2. SubSeq(s, 1, m) \in Seq(X) /\ Len(SubSeq(s, 1, m)) = m
  BY <1>1
<1>3. List(SubSeq(s, 1, m)) /\ Of(SubSeq(s, 1, m)) \subseteq X
  BY <1>2, ListOf
<1> QED
  BY <1>2, <1>3 DEF X

\* One pair: its issues are recorded, up to the limit.
LEMMA ReportStep ==
  ASSUME ReportInv, ComparePair
  PROVE  ReportInv'
<1> DEFINE n  == pos + 1
           is == Compare(cfg, log.rtl[n], log.iss[n])
           new == [j \in DOMAIN is |-> Reported(n, is[j])]
           all == reports \o new
<1>1. pos \in Nat /\ n \in 1..Len(raw.rtl) /\ pos' = n /\ ~Limit(reports)
  BY DecodedLines DEF ReportInv, ComparePair
<1>2. UNCHANGED <<cfg, raw, log>>
  BY DEF ComparePair
<1>3. reports' = IF Limit(all) THEN SubSeq(all, 1, cfg.max) ELSE all
  BY DEF ComparePair, Recorded, Reported
<1>4. cfg.max \in Nat
  BY InputsAssumption DEF ReportInv
<1>5. List(is)
  BY <1>1, LineTyped, CompareOf
<1>6. List(new) /\ Of(new) = FoundAt(n)
  <2>1. Len(is) \in Nat /\ DOMAIN is = 1..Len(is)
    BY <1>5 DEF List
  <2> DEFINE X == {Reported(n, is[j]) : j \in DOMAIN is}
  <2>2. Of(new) = X
    BY DEF Of
  <2>3. X = FoundAt(n)
    BY DEF FoundAt, IssuesAt, Of
  <2>4. new \in Seq(X)
    <3> HIDE DEF is, n
    <3> QED
      BY <2>1
  <2> HIDE DEF X, new
  <2> QED
    BY <2>2, <2>3, <2>4, ListOf
<1>7. List(all) /\ Of(all) = Of(reports) \cup FoundAt(n)
  <2> HIDE DEF new
  <2> QED
    BY <1>6, JoinOf DEF ReportInv
<1>8. Found(n) = Found(pos) \cup FoundAt(n)
  <2>1. 1..n = (1..pos) \cup {n}
    BY <1>1
  <2> HIDE DEF n
  <2> QED
    BY <2>1 DEF Found
<1>9. Found(pos)' = Found(n)
  BY <1>1, <1>2 DEF Found, FoundAt, IssuesAt
<1>10. Of(all) = Found(n)
  BY <1>1, <1>7, <1>8 DEF ReportInv
<1> HIDE DEF all
<1>11. List(reports') /\ Of(reports') \subseteq Found(n)
       /\ (~Limit(reports)' => Of(reports') = Found(n))
  <2>1. CASE Limit(all)
    <3>1. cfg.max > 0 /\ cfg.max <= Len(all) /\ reports' = SubSeq(all, 1, cfg.max)
      <4>1. Len(all) \in Nat
        BY <1>7 DEF List
      <4> QED
        BY <1>3, <1>4, <2>1, <4>1 DEF Limit
    <3>2. List(reports') /\ Of(reports') \subseteq Of(all) /\ Len(reports') = cfg.max
      BY <1>4, <1>7, <3>1, CutOf
    <3>3. Limit(reports)'
      BY <1>2, <1>4, <3>1, <3>2 DEF Limit
    <3> QED
      BY <1>10, <3>2, <3>3
  <2>2. CASE ~Limit(all)
    BY <1>3, <1>7, <1>10, <2>2
  <2> QED
    BY <2>1, <2>2
<1>12. (\E input \in Inputs : cfg \in input.cfgs)' /\ (pos \in 0..Len(raw.rtl))'
  BY <1>1, <1>2 DEF ReportInv
<1>13. List(reports)' /\ (Of(reports) \subseteq Found(pos))'
       /\ (~Limit(reports) => Found(pos) \subseteq Of(reports))'
  BY <1>9, <1>11 DEF List, Of
<1> QED
  BY <1>2, <1>12, <1>13 DEF ReportInv

(* What the reports hold is what the rules found on the lines compared so   *)
(* far, and all of it unless the limit was reached.                         *)
THEOREM AllRecorded == Spec => []ReportInv
<1>1. ReportInv /\ [Next]_vars => ReportInv'
  <2> SUFFICES ASSUME ReportInv, [Next]_vars PROVE ReportInv'
    OBVIOUS
  <2>1. CASE ComparePair
    BY <2>1, ReportStep
  <2>2. CASE UNCHANGED vars
    <3>1. UNCHANGED <<cfg, raw, log, pos, reports>>
      BY <2>2 DEF vars
    <3>2. Found(pos)' = Found(pos)
      BY <3>1 DEF Found, FoundAt, IssuesAt
    <3>3. Of(reports)' = Of(reports) /\ List(reports)' = List(reports)
      BY <3>1 DEF List, Of
    <3>4. Limit(reports)' = Limit(reports)
      BY <3>1 DEF Limit
    <3> QED
      BY <3>1, <3>2, <3>3, <3>4 DEF ReportInv
  <2> QED
    BY <2>1, <2>2 DEF Next
<1> QED
  BY <1>1, ReportInit, PTL DEF Spec

-----------------------------------------------------------------------------
\* A recorded mismatch is one of the issues of its line.
LEMMA ReportOf ==
  ASSUME ReportInv, NEW n \in DOMAIN reports
  PROVE  /\ reports[n].line \in 1..Len(raw.rtl)
         /\ reports[n].issue \in IssuesAt(reports[n].line)
<1>1. reports[n] \in Found(pos)
  BY DEF ReportInv, Of
<1>2. PICK k \in 1..pos : reports[n] \in FoundAt(k)
  BY <1>1 DEF Found
<1>3. PICK x \in IssuesAt(k) : reports[n] = Reported(k, x)
  BY <1>2 DEF FoundAt
<1>4. k \in 1..Len(raw.rtl)
  <2>1. Len(raw.rtl) \in Nat
    BY DEF ReportInv
  <2> QED
    BY <2>1 DEF ReportInv
<1> QED
  BY <1>3, <1>4 DEF Reported

\* Every recorded mismatch has its reason in the commits.
LEMMA ReportsReal == ReportInv => ReportsAreReal
<1> SUFFICES ASSUME ReportInv, NEW n \in DOMAIN reports, reports[n].issue.side = "both"
             PROVE  LET r == log.rtl[reports[n].line]
                        i == log.iss[reports[n].line]
                        f == reports[n].issue.field
                    IN  /\ f = "pc" \/ Skipped("pc") \/ r.pc = i.pc
                        /\ f \in {"pc", "instr"} \/ Skipped("instr") \/ r.instr = i.instr
                        /\ f \in {"csr", "csr_writes"} \/ r[f] # i[f]
                        /\ f \in {"csr", "csr_writes"} =>
                             \/ cfg.order_sensitive
                             \/ \E c \in Csrs(r.csr_writes) \cup Csrs(i.csr_writes) :
                                  CsrHistory(r.csr_writes, c) # CsrHistory(i.csr_writes, c)
  BY DEF ReportsAreReal
<1> DEFINE k == reports[n].line
           r == log.rtl[k]
           i == log.iss[k]
           x == reports[n].issue
           f == x.field
<1>1. k \in 1..Len(raw.rtl) /\ x \in IssuesAt(k)
  BY ReportOf
<1>2. Typed(r) /\ Typed(i)
  BY <1>1, LineTyped
<1>3. x \in Of(Compare(cfg, r, i)) /\ x.side = "both"
  BY <1>1 DEF IssuesAt
<1> HIDE DEF r, i, x
<1>4. \/ f = "pc" /\ r.pc # i.pc
      \/ /\ "pc" \in cfg.skip \/ r.pc = i.pc
         /\ \/ f = "instr" /\ r.instr # i.instr
            \/ ("instr" \in cfg.skip \/ r.instr = i.instr) /\ Reason(cfg, r, i, x)
  BY <1>2, <1>3, CompareOf
<1>5. ASSUME Norm(cfg, r.csr_writes) # Norm(cfg, i.csr_writes), ~cfg.order_sensitive
      PROVE  \E c \in Csrs(r.csr_writes) \cup Csrs(i.csr_writes) :
               CsrHistory(r.csr_writes, c) # CsrHistory(i.csr_writes, c)
  <2> DEFINE ws == r.csr_writes
             vs == i.csr_writes
  <2> SUFFICES ASSUME \A c \in Csrs(ws) \cup Csrs(vs) : CsrHistory(ws, c) = CsrHistory(vs, c)
               PROVE  FALSE
    OBVIOUS
  <2>1. \A a \in Seen(cfg, ws) : ws[a].csr \in Csrs(ws)
    BY DEF Seen, Csrs
  <2>2. \A a \in Seen(cfg, vs) : vs[a].csr \in Csrs(vs)
    BY DEF Seen, Csrs
  <2>3. ws \in Seq(CsrWrite) /\ vs \in Seq(CsrWrite)
    BY <1>2 DEF Typed
  <2>4. Norm(cfg, ws) = Norm(cfg, vs)
    <3> HIDE DEF ws, vs
    <3> QED
      BY <1>5, <2>1, <2>2, <2>3, SortedAlike
  <2> QED
    BY <1>5, <2>4
<1>6. CASE f = "pc" /\ r.pc # i.pc
  BY <1>6 DEF r, i, x
<1>7. CASE f = "instr" /\ r.instr # i.instr /\ ("pc" \in cfg.skip \/ r.pc = i.pc)
  BY <1>7 DEF r, i, x, Skipped
<1>8. CASE /\ "pc" \in cfg.skip \/ r.pc = i.pc
           /\ "instr" \in cfg.skip \/ r.instr = i.instr
           /\ Reason(cfg, r, i, x)
  <2>1. f \in {"csr", "csr_writes"} \/ r[f] # i[f]
    BY <1>8 DEF Reason
  <2>2. f \in {"csr", "csr_writes"} => Norm(cfg, r.csr_writes) # Norm(cfg, i.csr_writes)
    BY <1>8 DEF Reason
  <2> QED
    BY <1>5, <1>8, <2>1, <2>2 DEF r, i, x, Skipped
<1> QED
  BY <1>4, <1>6, <1>7, <1>8

(* No false alarms, for logs of any length: every recorded mismatch names   *)
(* values that are there and differ, however the rules cut each other short *)
(* and the CSR writes are sorted.                                           *)
THEOREM NoFalseAlarms == Spec => []ReportsAreReal
  BY AllRecorded, ReportsReal, PTL

-----------------------------------------------------------------------------
(* What a record states, in either format, and the commit made of it.      *)

\* What a record says of a trap is what its commit holds.
LEMMA TrapStated ==
  ASSUME NEW a, NEW b, WellFormed(a), WellFormed(b), TrapGiven(a) = TrapGiven(b)
  PROVE  \A f \in {"trap", "trap_cause", "trap_tval", "trap_pc"} : Decode(a)[f] = Decode(b)[f]
<1> DEFINE F == {<<"cause", "trap_cause">>, <<"tval", "trap_tval">>, <<"epc", "trap_pc">>}
           V(d, f) == FirstOf(TrapField(d, f[1]), Word(d[f[2]]))
           D(d) == {<<f, V(d, f)>> : f \in F}
           T(d) == d.trap \/ d.trap_object # None
<1>1. D(a) = D(b) /\ T(a) = T(b)
  <2>1. TrapGiven(a) = [taken |-> T(a), detail |-> D(a)]
    BY DEF TrapGiven
  <2>2. TrapGiven(b) = [taken |-> T(b), detail |-> D(b)]
    BY DEF TrapGiven
  <2>3. [taken |-> T(a), detail |-> D(a)] = [taken |-> T(b), detail |-> D(b)]
    BY <2>1, <2>2
  <2> HIDE DEF T, D
  <2>4. D(a) = D(b)
    BY <2>3
  <2>5. T(a) = T(b)
    BY <2>3, Zenon
  <2> QED
    BY <2>4, <2>5
<1>2. \A f \in F : V(a, f) = V(b, f)
  <2> TAKE f \in F
  <2>1. <<f, V(a, f)>> \in D(b)
    BY <1>1
  <2> HIDE DEF F, V
  <2>2. PICK g \in F : <<f, V(a, f)>> = <<g, V(b, g)>>
    BY <2>1
  <2> QED
    BY <2>2
<1>3. Decode(a).trap = Decode(b).trap
  <2>1. Decode(a).trap = (a.trap_object # None \/ a.trap)
    BY DEF Decode
  <2>2. Decode(b).trap = (b.trap_object # None \/ b.trap)
    BY DEF Decode
  <2>3. a.trap \in BOOLEAN /\ b.trap \in BOOLEAN
    BY DEF WellFormed
  <2> QED
    BY <1>1, <2>1, <2>2, <2>3
<1>4. \A d : /\ Decode(d).trap_cause = V(d, <<"cause", "trap_cause">>)
             /\ Decode(d).trap_tval = V(d, <<"tval", "trap_tval">>)
             /\ Decode(d).trap_pc = V(d, <<"epc", "trap_pc">>)
  BY DEF Decode
<1>5. /\ V(a, <<"cause", "trap_cause">>) = V(b, <<"cause", "trap_cause">>)
      /\ V(a, <<"tval", "trap_tval">>) = V(b, <<"tval", "trap_tval">>)
      /\ V(a, <<"epc", "trap_pc">>) = V(b, <<"epc", "trap_pc">>)
  <2> HIDE DEF V
  <2> QED
    BY <1>2
<1> HIDE DEF V
<1> QED
  BY <1>3, <1>4, <1>5

\* And so for the privilege mode.
LEMMA PrivilegeStated ==
  ASSUME NEW a, NEW b, WellFormed(a), WellFormed(b),
         {a.privilege, a.priv} \ {None} = {b.privilege, b.priv} \ {None}
  PROVE  Decode(a).privilege = Decode(b).privilege
<1>1. \A d : Decode(d).privilege = FirstOf(d.privilege, d.priv)
  BY DEF Decode
<1>2. \A d : WellFormed(d) => d.privilege = None \/ d.priv = None
  BY DEF WellFormed, InLegacyFormat, InCanonicalFormat
<1>3. a.privilege = None \/ a.priv = None
  BY <1>2
<1>4. b.privilege = None \/ b.priv = None
  BY <1>2
<1> QED
  BY <1>1, <1>3, <1>4 DEF FirstOf

\* The commit holds the first register write that the record states.
LEMMA RegStated ==
  ASSUME NEW d, WellFormed(d)
  PROVE  IF RegWrites(d) = <<>> THEN Decode(d).rd = None
         ELSE /\ Decode(d).rd = RegWrites(d)[1].reg /\ Decode(d).rd_val = RegWrites(d)[1].val
              /\ Decode(d).rd # None
<1>1. Decode(d).rd = RegWrite(d).rd /\ Decode(d).rd_val = RegWrite(d).val
  BY DEF Decode
<1>2. CASE d.regs = None
  <2>1. RegWrite(d) = [rd |-> d.rd, val |-> Word(d.rd_val)]
    BY <1>2 DEF RegWrite
  <2>2. RegWrites(d) = IF d.rd = None THEN <<>> ELSE <<[reg |-> d.rd, val |-> Word(d.rd_val)]>>
    BY <1>2 DEF RegWrites
  <2>3. CASE d.rd = None
    BY <1>1, <2>1, <2>2, <2>3
  <2>4. CASE d.rd # None
    <3>1. RegWrites(d) # <<>> /\ RegWrites(d)[1] = [reg |-> d.rd, val |-> Word(d.rd_val)]
      BY <2>2, <2>4
    <3> QED
      BY <1>1, <2>1, <2>4, <3>1
  <2> QED
    BY <2>3, <2>4
<1>3. CASE d.regs # None
  <2> DEFINE K == {k \in DOMAIN d.regs : d.regs[k].name \in DOMAIN RegIndex}
             known == Filtered(d.regs, K)
             n == Len(known)
             W(k) == [reg |-> RegIndex[known[k].name], val |-> Word(known[k].val)]
  <2>1. List(known) /\ Of(known) = ImageOf(d.regs, K)
    <3> DEFINE X == [name : STRING, val : Numeral]
               m == Len(d.regs)
    <3>1. d.regs \in Seq(X)
      BY <1>3 DEF WellFormed, Opt, KeyValues
    <3> HIDE DEF X
    <3>2. m \in Nat /\ d.regs \in [1..m -> X]
      BY <3>1
    <3>3. K \in SUBSET (1..m)
      BY <3>1
    <3> HIDE DEF K, m
    <3> QED
      BY <3>2, <3>3, FilteredOf
  <2>2. /\ RegWrite(d) = IF known = <<>> THEN [rd |-> None, val |-> None]
                         ELSE [rd |-> RegIndex[known[1].name], val |-> Word(known[1].val)]
        /\ RegWrites(d) = [k \in DOMAIN known |-> W(k)]
    BY <1>3 DEF RegWrite, RegWrites
  <2>3. n \in Nat /\ DOMAIN known = 1..n /\ (known = <<>> <=> n = 0)
        /\ \A k \in 1..n : known[k] \in Of(known)
    <3> DEFINE Y == Of(known)
    <3>1. known \in Seq(Y)
      BY <2>1 DEF List
    <3> HIDE DEF known, Y
    <3>2. n \in Nat /\ DOMAIN known = 1..n /\ (known = <<>> <=> n = 0)
      BY <3>1
    <3>3. \A k \in 1..n : known[k] \in Y
      BY <3>1
    <3> QED
      BY <3>2, <3>3 DEF Y
  <2>4. \A k \in 1..n : RegIndex[known[k].name] \in Nat
    <3> TAKE k \in 1..n
    <3>1. PICK j \in K : known[k] = d.regs[j]
      <4> HIDE DEF K, known
      <4> QED
        BY <2>1, <2>3 DEF ImageOf
    <3>2. known[k].name \in DOMAIN RegIndex
      BY <3>1
    <3> QED
      BY <3>2, TablesAssumption
  <2> HIDE DEF known, W, n
  <2>5. CASE n = 0
    BY <1>1, <2>2, <2>3, <2>5
  <2>6. CASE n # 0
    <3>1. RegWrites(d) # <<>> /\ RegWrites(d)[1] = W(1) /\ 1 \in 1..n /\ known # <<>>
      BY <2>2, <2>3, <2>6
    <3>2. RegWrite(d) = [rd |-> RegIndex[known[1].name], val |-> Word(known[1].val)]
      BY <2>2, <3>1
    <3>3. RegIndex[known[1].name] # None
      BY <2>4, <3>1, NoneIsNoValue
    <3> QED
      BY <1>1, <3>1, <3>2, <3>3 DEF W
  <2> QED
    BY <2>5, <2>6
<1> QED
  BY <1>2, <1>3

\* What the decoded list makes of a write that a record states.
Addressed(w) == IF w.csr = None THEN [csr |-> 0, val |-> w.val] ELSE w

\* And the CSR writes, with address 0 for each unknown name.
LEMMA CsrStated ==
  ASSUME NEW d, WellFormed(d)
  PROVE  /\ CsrList(d) = [k \in DOMAIN CsrWrites(d) |-> Addressed(CsrWrites(d)[k])]
         /\ \A k \in DOMAIN CsrWrites(d) : CsrWrites(d)[k].csr # 0
<1>1. CASE d.csrs # None
  <2> DEFINE C(k) == [csr |-> IF d.csrs[k].name \in DOMAIN CsrAddress THEN Address(d.csrs[k].name)
                               ELSE None,
                      val |-> Word(d.csrs[k].val)]
             L(k) == [csr |-> Address(d.csrs[k].name), val |-> Word(d.csrs[k].val)]
  <2>1. CsrWrites(d) = [k \in DOMAIN d.csrs |-> C(k)] /\ CsrList(d) = [k \in DOMAIN d.csrs |-> L(k)]
    BY <1>1 DEF CsrWrites, CsrList
  <2>2. ASSUME NEW k \in DOMAIN d.csrs PROVE L(k) = Addressed(C(k)) /\ C(k).csr # 0
    <3>1. CASE d.csrs[k].name \in DOMAIN CsrAddress
      <4>1. Address(d.csrs[k].name) # None /\ Address(d.csrs[k].name) # 0
        BY <3>1, TablesAssumption, NoneIsNoValue DEF Address
      <4> QED
        BY <3>1, <4>1 DEF Addressed
    <3>2. CASE d.csrs[k].name \notin DOMAIN CsrAddress
      <4>1. Address(d.csrs[k].name) = 0 /\ None # 0
        BY <3>2, NoneIsNoValue DEF Address
      <4> QED
        BY <3>2, <4>1 DEF Addressed
    <3> QED
      BY <3>1, <3>2
  <2> HIDE DEF C, L
  <2> QED
    BY <2>1, <2>2
<1>2. CASE d.csrs = None
  <2>1. CsrWrites(d) = CsrList(d)
    BY <1>2 DEF CsrWrites
  <2> DEFINE X == [csr : Nat \ {0}, val : Numeral]
             L(k) == [csr |-> d.csr_writes[k].csr, val |-> Word(d.csr_writes[k].val)]
  <2>2. CsrList(d) = [k \in DOMAIN d.csr_writes |-> L(k)]
    BY <1>2 DEF CsrList
  <2>3. \A x \in X : x.csr # None /\ x.csr # 0
    BY NoneIsNoValue
  <2>4. ASSUME NEW k \in DOMAIN d.csr_writes PROVE L(k) = Addressed(L(k)) /\ L(k).csr # 0
    <3>1. d.csr_writes \in Seq(X)
      BY DEF WellFormed
    <3>2. d.csr_writes[k] \in X
      <4> HIDE DEF X
      <4> QED
        BY <3>1
    <3> QED
      BY <2>3, <3>2 DEF Addressed
  <2> HIDE DEF L, X
  <2> QED
    BY <2>1, <2>2, <2>4
<1> QED
  BY <1>1, <1>2

\* The entries of an array, one by one.
LEMMA ListedIs ==
  ASSUME NEW es \in Entries, NEW op
  PROVE  /\ List(Listed(es, op)) /\ Len(Listed(es, op)) = Len(es) /\ Len(es) \in Nat
         /\ es = <<>> <=> Len(es) = 0
         /\ \A k \in 1..Len(es) :
              /\ Listed(es, op)[k].val \in Nat \cup {None}
              /\ Listed(es, op)[k] = IF es[k] = None THEN Access(None, None, None, None)
                                     ELSE Access(op, es[k].addr, es[k].data, es[k].size)
<1> DEFINE X == [addr : Opt(Numeral), data : Opt(Numeral), size : Opt(Int)]
           E(k) == IF es[k] = None THEN Access(None, None, None, None)
                   ELSE Access(op, es[k].addr, es[k].data, es[k].size)
           n == Len(es)
           Y == {E(k) : k \in 1..n}
<1>1. \A x \in X : x.data \in Numeral \cup {None}
  BY DEF Opt
<1>2. es \in Seq(X \cup {None})
  BY DEF Entries, Opt
<1> HIDE DEF X
<1>3. n \in Nat /\ DOMAIN es = 1..n /\ (es = <<>> <=> n = 0) /\ \A k \in 1..n : es[k] \in X \cup {None}
  BY <1>2
<1>4. Listed(es, op) = [k \in 1..n |-> E(k)]
  BY <1>3 DEF Listed
<1>5. \A k \in 1..n : E(k).val \in Nat \cup {None}
  <2> TAKE k \in 1..n
  <2>1. CASE es[k] = None
    BY <2>1 DEF Access, Word
  <2>2. CASE es[k] # None
    <3>1. es[k].data \in Numeral \cup {None}
      BY <1>1, <1>3, <2>2
    <3>2. E(k).val = Word(es[k].data)
      BY <2>2 DEF Access
    <3> QED
      BY <3>1, <3>2 DEF Word, Numeral
  <2> QED
    BY <2>1, <2>2
<1> HIDE DEF E, n
<1>6. [k \in 1..n |-> E(k)] \in Seq(Y) /\ Len([k \in 1..n |-> E(k)]) = n
  <2>1. \A k \in 1..n : E(k) \in Y
    OBVIOUS
  <2> HIDE DEF Y
  <2> QED
    BY <1>3, <2>1
<1> HIDE DEF Y
<1>7. List(Listed(es, op)) /\ Len(Listed(es, op)) = n
  BY <1>4, <1>6, ListOf
<1>8. \A k \in 1..n : Listed(es, op)[k] = E(k)
  BY <1>4
<1>9. \A k \in 1..n : Listed(es, op)[k].val \in Nat \cup {None} /\ Listed(es, op)[k] = E(k)
  BY <1>5, <1>8
<1> QED
  BY <1>3, <1>7, <1>9 DEF n, E

\* Joined lists, place by place.
LEMMA Joined ==
  ASSUME NEW s, NEW t, List(s), List(t)
  PROVE  /\ Len(s \o t) = Len(s) + Len(t) /\ Len(s) \in Nat /\ Len(t) \in Nat
         /\ \A k \in 1..Len(s) : (s \o t)[k] = s[k]
         /\ \A k \in 1..Len(t) : (s \o t)[Len(s) + k] = t[k]
<1> DEFINE X == Of(s) \cup Of(t)
<1>1. s \in Seq(X) /\ t \in Seq(X)
  <2>1. s \in Seq(Of(s)) /\ t \in Seq(Of(t))
    BY DEF List
  <2>2. \A Y, Z : \A u \in Seq(Y) : u \in Seq(Y \cup Z) /\ u \in Seq(Z \cup Y)
    OBVIOUS
  <2> HIDE DEF X
  <2>3. s \in Seq(Of(s) \cup Of(t)) /\ t \in Seq(Of(s) \cup Of(t))
    BY <2>1, <2>2
  <2> QED
    BY <2>3 DEF X
<1> HIDE DEF X
<1> QED
  BY <1>1

\* The accesses a record states, and what Decode keeps of them: the first.
LEMMA MemStated ==
  ASSUME NEW d, WellFormed(d)
  PROVE  LET A == Accesses(d)
             e == Decode(d)
         IN  /\ Len(A) \in Nat
             /\ e.mem_op = IF Len(A) = 0 THEN None ELSE A[1].op
             /\ e.mem_op # None =>
                  e.mem_addr = A[1].addr /\ e.mem_val = A[1].val /\ e.mem_size = A[1].size
             /\ Len(A) # 0 => A[1].val \in Nat \cup {None}
             /\ e.mem_errors = 0 /\ ~WriteAndRead(d) =>
                  Len(A) <= 1 /\ (Len(A) = 1 => A[1].op # None)
<1> DEFINE A == Accesses(d)
           e == Decode(d)
           W == Listed(d.mem_writes, "store")
           R == Listed(d.mem_reads, "load")
           F == IF d.mem_op = None THEN <<>> ELSE <<Access(d.mem_op, d.mem_addr, d.mem_val, d.mem_size)>>
           m == MemFromCanonical(d)
<1>1. A = W \o R \o F
  BY DEF Accesses
<1>2. d.mem_writes \in Entries /\ d.mem_reads \in Entries /\ d.mem_val \in Numeral \cup {None}
  BY DEF WellFormed, Opt
<1>3. /\ List(W) /\ Len(W) = Len(d.mem_writes) /\ Len(d.mem_writes) \in Nat
      /\ List(R) /\ Len(R) = Len(d.mem_reads) /\ Len(d.mem_reads) \in Nat
      /\ d.mem_writes = <<>> <=> Len(d.mem_writes) = 0
      /\ d.mem_reads = <<>> <=> Len(d.mem_reads) = 0
  BY <1>2, ListedIs
<1>4. List(F) /\ Len(F) = (IF d.mem_op = None THEN 0 ELSE 1)
  <2>1. \A x : List(<<x>>) /\ Len(<<x>>) = 1
    BY OneOf
  <2>2. List(<<>>) /\ Len(<<>>) = 0
    BY NoneOf
  <2>3. CASE d.mem_op = None
    BY <2>2, <2>3
  <2>4. CASE d.mem_op # None
    BY <2>1, <2>4
  <2> QED
    BY <2>3, <2>4
<1>5. /\ e.mem_op = FirstOf(m.op, d.mem_op) /\ e.mem_errors = m.errors
      /\ e.mem_addr = IF m.op = None THEN Word(d.mem_addr) ELSE m.addr
      /\ e.mem_val = IF m.op = None THEN Word(d.mem_val) ELSE m.val
      /\ e.mem_size = IF m.op = None THEN d.mem_size ELSE m.size
  BY DEF Decode
<1>6. "store" # None /\ "load" # None
  BY NoneIsNoValue
<1>7. d.mem_writes # <<>> \/ d.mem_reads # <<>> => d.mem_op = None
  BY DEF WellFormed, InLegacyFormat, InCanonicalFormat
\* What the first entry of an array becomes.
<1>8. ASSUME NEW es \in Entries, NEW op \in {"store", "load"}, es # <<>>, m = FirstEntry(es, op),
             d.mem_op = None
      PROVE  LET L == Listed(es, op)
             IN  /\ e.mem_op = L[1].op /\ L[1].val \in Nat \cup {None}
                 /\ e.mem_op # None =>
                      e.mem_addr = L[1].addr /\ e.mem_val = L[1].val /\ e.mem_size = L[1].size
                 /\ e.mem_errors = 0 => Len(es) = 1 /\ L[1].op # None
  <2> DEFINE L == Listed(es, op)
  <2>1. /\ L[1] = IF es[1] = None THEN Access(None, None, None, None)
                  ELSE Access(op, es[1].addr, es[1].data, es[1].size)
        /\ L[1].val \in Nat \cup {None} /\ Len(es) \in Nat /\ Len(es) # 0
    <3>1. Len(es) \in Nat /\ Len(es) # 0
      BY <1>8, ListedIs
    <3>2. 1 \in 1..Len(es)
      BY <3>1
    <3> QED
      BY <1>8, <3>1, <3>2, ListedIs
  <2>2. op # None
    BY <1>6
  <2>3. m.errors = 0 => es[1] # None /\ Len(es) = 1
    BY <1>8, <2>1 DEF FirstEntry, NoAccess
  <2>4. CASE es[1] = None
    <3>1. m.op = None
      BY <1>8, <2>4 DEF FirstEntry, NoAccess
    <3>2. L[1].op = None
      BY <2>1, <2>4 DEF Access, Word
    <3>3. e.mem_op = None
      BY <1>5, <1>8, <3>1 DEF FirstOf
    <3> QED
      BY <1>5, <2>1, <2>3, <2>4, <3>2, <3>3
  <2>5. CASE es[1] # None
    <3>1. m.op = op /\ m.addr = Word(es[1].addr) /\ m.val = Word(es[1].data) /\ m.size = es[1].size
      BY <1>8, <2>5 DEF FirstEntry
    <3>2. /\ L[1].op = op /\ L[1].addr = Word(es[1].addr) /\ L[1].val = Word(es[1].data)
          /\ L[1].size = es[1].size
      BY <2>1, <2>5 DEF Access
    <3>3. e.mem_op = op
      BY <1>5, <2>2, <3>1 DEF FirstOf
    <3> QED
      BY <1>5, <2>1, <2>2, <2>3, <3>1, <3>2, <3>3
  <2> QED
    BY <2>4, <2>5
<1> HIDE DEF A, e, W, R, F, m
<1>9. /\ List(W \o R) /\ Len(W \o R) = Len(W) + Len(R)
      /\ \A k \in 1..Len(W) : (W \o R)[k] = W[k]
      /\ \A k \in 1..Len(R) : (W \o R)[Len(W) + k] = R[k]
  <2>1. List(W) /\ List(R)
    BY <1>3
  <2> QED
    BY <2>1, Joined, JoinOf
<1>10. /\ Len(A) = Len(W) + Len(R) + Len(F)
       /\ \A k \in 1..(Len(W) + Len(R)) : A[k] = (W \o R)[k]
       /\ \A k \in 1..Len(F) : A[Len(W) + Len(R) + k] = F[k]
  <2> DEFINE U == W \o R
  <2>1. List(U) /\ List(F) /\ A = U \o F /\ Len(U) = Len(W) + Len(R)
    BY <1>1, <1>4, <1>9
  <2> HIDE DEF U
  <2>2. /\ Len(A) = Len(U) + Len(F)
        /\ \A k \in 1..Len(U) : A[k] = U[k]
        /\ \A k \in 1..Len(F) : A[Len(U) + k] = F[k]
    <3>1. /\ Len(U \o F) = Len(U) + Len(F)
          /\ \A k \in 1..Len(U) : (U \o F)[k] = U[k]
          /\ \A k \in 1..Len(F) : (U \o F)[Len(U) + k] = F[k]
      <4>1. List(U) /\ List(F)
        BY <2>1
      <4> QED
        BY <4>1, Joined
    <3> QED
      BY <2>1, <3>1
  <2> QED
    BY <2>1, <2>2 DEF U
<1>11. CASE d.mem_writes # <<>>
  <2>1. m = FirstEntry(d.mem_writes, "store") /\ d.mem_op = None
    BY <1>7, <1>11 DEF MemFromCanonical, m
  <2>2. /\ e.mem_op = W[1].op /\ W[1].val \in Nat \cup {None}
        /\ e.mem_op # None => e.mem_addr = W[1].addr /\ e.mem_val = W[1].val /\ e.mem_size = W[1].size
        /\ e.mem_errors = 0 => Len(d.mem_writes) = 1 /\ W[1].op # None
    BY <1>2, <1>8, <1>11, <2>1 DEF W
  <2>3. Len(W) # 0 /\ Len(W) \in Nat /\ Len(R) \in Nat /\ Len(F) = 0
    BY <1>3, <1>4, <1>11, <2>1
  <2>4. 1 \in 1..Len(W) /\ 1 \in 1..(Len(W) + Len(R))
    BY <2>3
  <2>5. A[1] = W[1] /\ Len(A) = Len(W) + Len(R)
    BY <1>9, <1>10, <2>3, <2>4
  <2>6. ~WriteAndRead(d) => Len(R) = 0
    BY <1>3, <1>11 DEF WriteAndRead
  <2>7. e.mem_errors = 0 => Len(W) = 1 /\ W[1].op # None
    BY <1>3, <2>2
  <2>8. Len(A) \in Nat /\ Len(A) # 0
    BY <2>3, <2>5
  <2>9. e.mem_errors = 0 /\ ~WriteAndRead(d) => Len(A) <= 1 /\ A[1].op # None
    <3> HAVE e.mem_errors = 0 /\ ~WriteAndRead(d)
    <3>1. Len(W) = 1 /\ Len(R) = 0 /\ W[1].op # None
      BY <2>6, <2>7
    <3> QED
      BY <2>5, <3>1
  <2> QED
    BY <2>2, <2>5, <2>8, <2>9 DEF A, e
<1>12. CASE d.mem_writes = <<>> /\ d.mem_reads # <<>>
  <2>1. m = FirstEntry(d.mem_reads, "load") /\ d.mem_op = None
    BY <1>7, <1>12 DEF MemFromCanonical, m
  <2>2. /\ e.mem_op = R[1].op /\ R[1].val \in Nat \cup {None}
        /\ e.mem_op # None => e.mem_addr = R[1].addr /\ e.mem_val = R[1].val /\ e.mem_size = R[1].size
        /\ e.mem_errors = 0 => Len(d.mem_reads) = 1 /\ R[1].op # None
    BY <1>2, <1>8, <1>12, <2>1 DEF R
  <2>3. Len(W) = 0 /\ Len(R) \in Nat /\ Len(R) # 0 /\ Len(F) = 0
    BY <1>3, <1>4, <1>12, <2>1
  <2>4. 1 \in 1..Len(R) /\ 1 \in 1..(Len(W) + Len(R)) /\ Len(W) + 1 = 1
    BY <2>3
  <2>5. A[1] = R[1] /\ Len(A) = Len(R)
    BY <1>9, <1>10, <2>3, <2>4
  <2>7. e.mem_errors = 0 => Len(R) = 1 /\ R[1].op # None
    BY <1>3, <2>2
  <2> QED
    BY <2>2, <2>3, <2>5, <2>7 DEF A, e
<1>13. CASE d.mem_writes = <<>> /\ d.mem_reads = <<>>
  <2>1. m.op = None
    BY <1>13 DEF MemFromCanonical, NoAccess, m
  <2>2. Len(W) = 0 /\ Len(R) = 0 /\ Len(A) = Len(F)
    BY <1>3, <1>4, <1>10, <1>13
  <2>3. /\ e.mem_op = d.mem_op /\ e.mem_addr = Word(d.mem_addr) /\ e.mem_val = Word(d.mem_val)
        /\ e.mem_size = d.mem_size
    BY <1>5, <2>1 DEF FirstOf
  <2>4. CASE d.mem_op = None
    BY <1>4, <2>2, <2>3, <2>4 DEF A, e
  <2>5. CASE d.mem_op # None
    <3>1. Len(F) = 1 /\ 1 \in 1..Len(F) /\ Len(W) + Len(R) + 1 = 1
      BY <1>4, <2>2, <2>5
    <3>2. A[1] = F[1] /\ Len(A) = 1
      BY <1>10, <2>2, <3>1
    <3>3. F[1] = Access(d.mem_op, d.mem_addr, d.mem_val, d.mem_size)
      BY <2>5 DEF F
    <3>4. /\ A[1].op = d.mem_op /\ A[1].addr = Word(d.mem_addr) /\ A[1].val = Word(d.mem_val)
          /\ A[1].size = d.mem_size
      BY <3>2, <3>3 DEF Access
    <3>5. Word(d.mem_val) \in Nat \cup {None}
      BY <1>2 DEF Word, Numeral
    <3> QED
      BY <2>3, <2>5, <3>2, <3>4, <3>5 DEF A, e
  <2> QED
    BY <2>4, <2>5
<1> QED
  BY <1>11, <1>12, <1>13

\* Records that say the same give commits that are compared without a word.
LEMMA SameSaid ==
  ASSUME NEW a, NEW b, WellFormed(a), WellFormed(b), Stated(a) = Stated(b), NEW c, NEW x
  PROVE  /\ Decode(a).pc = Decode(b).pc /\ Decode(a).instr = Decode(b).instr
         /\ ~Reason(c, Decode(a), Decode(b), x)
<1> DEFINE r == Decode(a)
           i == Decode(b)
<1>1. /\ Word(a.pc) = Word(b.pc) /\ Word(a.instr) = Word(b.instr)
      /\ RegWrites(a) = RegWrites(b) /\ CsrWrites(a) = CsrWrites(b) /\ Accesses(a) = Accesses(b)
      /\ TrapGiven(a) = TrapGiven(b) /\ {a.privilege, a.priv} \ {None} = {b.privilege, b.priv} \ {None}
  <2> DEFINE P(d) == {d.privilege, d.priv} \ {None}
             S(d) == [pc |-> Word(d.pc), instr |-> Word(d.instr), regs |-> RegWrites(d),
                      csrs |-> CsrWrites(d), accesses |-> Accesses(d), trap |-> TrapGiven(d),
                      privilege |-> P(d)]
  <2>1. S(a) = S(b)
    BY DEF Stated
  <2>2. \A d : /\ S(d).pc = Word(d.pc) /\ S(d).instr = Word(d.instr) /\ S(d).regs = RegWrites(d)
               /\ S(d).csrs = CsrWrites(d) /\ S(d).accesses = Accesses(d)
               /\ S(d).trap = TrapGiven(d) /\ S(d).privilege = P(d)
    <3> HIDE DEF P
    <3> QED
      OBVIOUS
  <2> HIDE DEF S
  <2>3. P(a) = P(b)
    <3> HIDE DEF P
    <3> QED
      BY <2>1, <2>2
  <2> HIDE DEF P
  <2>4. /\ Word(a.pc) = Word(b.pc) /\ Word(a.instr) = Word(b.instr)
        /\ RegWrites(a) = RegWrites(b) /\ CsrWrites(a) = CsrWrites(b) /\ Accesses(a) = Accesses(b)
        /\ TrapGiven(a) = TrapGiven(b)
    BY <2>1, <2>2
  <2> QED
    BY <2>3, <2>4 DEF P
<1>2. r.pc = i.pc /\ r.instr = i.instr
  BY <1>1 DEF Decode
<1>3. /\ r["trap"] = i["trap"] /\ r["trap_cause"] = i["trap_cause"]
      /\ r["trap_tval"] = i["trap_tval"] /\ r["trap_pc"] = i["trap_pc"]
  <2>1. \A f \in {"trap", "trap_cause", "trap_tval", "trap_pc"} : r[f] = i[f]
    BY <1>1, TrapStated
  <2> HIDE DEF r, i
  <2> QED
    BY <2>1
<1>4. r["privilege"] = i["privilege"]
  BY <1>1, PrivilegeStated
<1>5. r.rd # None => r["rd"] = i["rd"] /\ r["rd_val"] = i["rd_val"]
  <2>1. IF RegWrites(a) = <<>> THEN r.rd = None
        ELSE r.rd = RegWrites(a)[1].reg /\ r.rd_val = RegWrites(a)[1].val
    BY RegStated
  <2>2. IF RegWrites(b) = <<>> THEN i.rd = None
        ELSE i.rd = RegWrites(b)[1].reg /\ i.rd_val = RegWrites(b)[1].val
    BY RegStated
  <2> HIDE DEF r, i
  <2> QED
    BY <1>1, <2>1, <2>2
<1>6. r.csr_writes = i.csr_writes
  <2>1. r.csr_writes = CsrList(a) /\ i.csr_writes = CsrList(b)
    BY DEF Decode
  <2>2. /\ CsrList(a) = [k \in DOMAIN CsrWrites(a) |-> Addressed(CsrWrites(a)[k])]
        /\ CsrList(b) = [k \in DOMAIN CsrWrites(b) |-> Addressed(CsrWrites(b)[k])]
    BY CsrStated
  <2> HIDE DEF r, i
  <2> QED
    BY <1>1, <2>1, <2>2
<1>7. r.mem_op # None \/ i.mem_op # None =>
        r["mem_op"] = i["mem_op"] /\ r["mem_addr"] = i["mem_addr"] /\ r["mem_val"] = i["mem_val"]
  <2> DEFINE A == Accesses(a)
             B == Accesses(b)
  <2>1. /\ r.mem_op = IF Len(A) = 0 THEN None ELSE A[1].op
        /\ r.mem_op # None => r.mem_addr = A[1].addr /\ r.mem_val = A[1].val
    BY MemStated
  <2>2. /\ i.mem_op = IF Len(B) = 0 THEN None ELSE B[1].op
        /\ i.mem_op # None => i.mem_addr = B[1].addr /\ i.mem_val = B[1].val
    BY MemStated
  <2>3. A = B
    BY <1>1
  <2> HIDE DEF r, i, A, B
  <2> QED
    BY <2>1, <2>2, <2>3
<1> HIDE DEF r, i
<1>8. ~Reason(c, r, i, x)
  BY <1>3, <1>4, <1>5, <1>6, <1>7 DEF Reason
<1> QED
  BY <1>2, <1>8 DEF r, i

\* No mismatch can have its reason in records that say the same.
LEMMA FormatsRead == ReportInv => FormatsAgree
<1> SUFFICES ASSUME ReportInv, NEW n \in DOMAIN reports, reports[n].issue.side = "both",
                    Stated(raw.rtl[reports[n].line]) = Stated(raw.iss[reports[n].line])
             PROVE  FALSE
  BY DEF FormatsAgree
<1> DEFINE k == reports[n].line
           a == raw.rtl[k]
           b == raw.iss[k]
           x == reports[n].issue
<1>1. k \in 1..Len(raw.rtl) /\ x \in IssuesAt(k)
  BY ReportOf
<1>2. /\ Typed(log.rtl[k]) /\ Typed(log.iss[k])
      /\ log.rtl[k] = Decode(a) /\ log.iss[k] = Decode(b) /\ WellFormed(a) /\ WellFormed(b)
  BY <1>1, LineTyped
<1>3. x \in Of(Compare(cfg, Decode(a), Decode(b))) /\ x.side = "both"
  BY <1>1, <1>2 DEF IssuesAt
<1>4. Stated(a) = Stated(b)
  OBVIOUS
<1> HIDE DEF a, b, x
<1>5. /\ Decode(a).pc = Decode(b).pc /\ Decode(a).instr = Decode(b).instr
      /\ ~Reason(cfg, Decode(a), Decode(b), x)
  BY <1>2, <1>4, SameSaid
<1>6. Typed(Decode(a)) /\ Typed(Decode(b))
  BY <1>2
<1> QED
  BY <1>3, <1>5, <1>6, CompareOf

(* The two formats are read alike: a pair of records that state the same    *)
(* is never reported, whichever format each of them is in.                  *)
THEOREM FormatsReadAlike == Spec => []FormatsAgree
  BY AllRecorded, FormatsRead, PTL

-----------------------------------------------------------------------------
(* What the silence about a line means for its records.                    *)

\* The low bytes of two values agree as far as both accesses reach.
LEMMA LowBytes ==
  ASSUME NEW c, c.bytes \in {4, 8},
         NEW Z \in SUBSET {None, 1, 2, 4, 8},
         NEW v \in Nat, NEW w \in Nat, Low(c, v, Z) = Low(c, w, Z),
         NEW b \in 0..c.bytes-1, b = 0 \/ \A z \in Z \ {None} : b < z
  PROVE  Byte(v, b) = Byte(w, b)
<1> DEFINE K == {z \in Z \ {None} : z < c.bytes}
           m == CHOOSE z \in K : \A y \in K : z <= y
<1>1. /\ Low(c, v, Z) = IF K = {} THEN v ELSE v % 256 ^ m
      /\ Low(c, w, Z) = IF K = {} THEN w ELSE w % 256 ^ m
  BY DEF Low
<1>2. CASE K = {}
  BY <1>1, <1>2
<1>3. CASE K # {}
  <2>1. K \subseteq {1, 2, 4}
    BY NoneIsNoValue
  <2>2. \E z \in K : \A y \in K : z <= y
    <3>2. K \subseteq {1, 2, 4}
      BY <2>1
    <3> HIDE DEF K
    <3>3. PICK y \in K : TRUE
      BY <1>3
    <3>4. CASE 1 \in K
      BY <3>2, <3>4
    <3>5. CASE 1 \notin K /\ 2 \in K
      BY <3>2, <3>5
    <3>6. CASE 1 \notin K /\ 2 \notin K
      BY <3>2, <3>3, <3>6
    <3> QED
      BY <3>4, <3>5, <3>6
  <2>3. m \in K
    <3> HIDE DEF K
    <3> QED
      BY <2>2
  <2>4. b < m /\ m \in {1, 2, 4} /\ b \in Nat
    <3>1. m \in Z \ {None}
      BY <2>3
    <3>2. m \in {1, 2, 4}
      BY <2>1, <2>3
    <3> HIDE DEF m, K
    <3> QED
      BY <3>1, <3>2
  <2>5. v % 256 ^ m = w % 256 ^ m
    BY <1>1, <1>3
  <2> HIDE DEF m, K
  <2>6. CASE m = 1
    <3>1. b = 0 /\ v % 256 = w % 256
      BY <2>4, <2>5, <2>6
    <3> QED
      BY <3>1 DEF Byte
  <2>7. CASE m = 2
    <3>1. v % 65536 = w % 65536
      BY <2>5, <2>7, SMT
    <3>2. CASE b = 0
      <4>1. (v \div 1) % 256 = (w \div 1) % 256
        BY <3>1, SMT
      <4> QED
        BY <3>2, <4>1, SMT DEF Byte
    <3>3. CASE b = 1
      <4>1. (v \div 256) % 256 = (w \div 256) % 256
        BY <3>1, SMT
      <4> QED
        BY <3>3, <4>1, SMT DEF Byte
    <3> QED
      BY <2>4, <2>7, <3>2, <3>3, SMT
  <2>8. CASE m = 4
    <3>1. v % 4294967296 = w % 4294967296
      BY <2>5, <2>8, SMT
    <3>2. CASE b = 0
      <4>1. (v \div 1) % 256 = (w \div 1) % 256
        BY <3>1, SMT
      <4> QED
        BY <3>2, <4>1, SMT DEF Byte
    <3>3. CASE b = 1
      <4>1. (v \div 256) % 256 = (w \div 256) % 256
        BY <3>1, SMT
      <4> QED
        BY <3>3, <4>1, SMT DEF Byte
    <3>4. CASE b = 2
      <4>1. (v \div 65536) % 256 = (w \div 65536) % 256
        BY <3>1, SMT
      <4> QED
        BY <3>4, <4>1, SMT DEF Byte
    <3>5. CASE b = 3
      <4>1. (v \div 16777216) % 256 = (w \div 16777216) % 256
        <5>1. \A y \in Nat : (y \div 16777216) % 256 = (y % 4294967296) \div 16777216
          BY SMTT(60)
        <5> QED
          BY <3>1, <5>1, SMT
      <4> QED
        BY <3>5, <4>1, SMT DEF Byte
    <3> QED
      BY <2>4, <2>8, <3>2, <3>3, <3>4, <3>5, SMT
  <2> QED
    BY <2>4, <2>6, <2>7, <2>8
<1> QED
  BY <1>2, <1>3

\* What two records write to a CSR, when the sorted lists are the same.
LEMMA CsrsAlike ==
  ASSUME 0 \notin cfg.ignored_csrs, 0 \notin DOMAIN cfg.csr_masks,
         NEW a, NEW b, WellFormed(a), WellFormed(b),
         Norm(cfg, CsrList(a)) = Norm(cfg, CsrList(b)),
         NEW c \in Csrs(CsrWrites(a)) \cup Csrs(CsrWrites(b))
  PROVE  LET rw == CsrHistory(CsrWrites(a), c)
             iw == CsrHistory(CsrWrites(b), c)
         IN  Len(rw) = Len(iw) /\ \A n \in DOMAIN rw : SameCsrWrite(rw[n], iw[n])
<1> DEFINE ws == CsrWrites(a)
           vs == CsrWrites(b)
           ls == CsrList(a)
           ms == CsrList(b)
           d  == IF c = None THEN 0 ELSE c
           m  == Cardinality(Wrote(ls, d))
           rw == CsrHistory(ws, c)
           iw == CsrHistory(vs, c)
<1>1. /\ ls \in Seq(CsrWrite) /\ ms \in Seq(CsrWrite)
      /\ ls = [k \in DOMAIN ws |-> Addressed(ws[k])] /\ \A k \in DOMAIN ws : ws[k].csr # 0
      /\ ms = [k \in DOMAIN vs |-> Addressed(vs[k])] /\ \A k \in DOMAIN vs : vs[k].csr # 0
  <2>1. Decode(a).csr_writes = ls /\ Decode(b).csr_writes = ms
    BY DEF Decode
  <2>2. ls \in Seq(CsrWrite) /\ ms \in Seq(CsrWrite)
    BY <2>1, DecodedTyped DEF Typed
  <2>3. /\ ls = [k \in DOMAIN ws |-> Addressed(ws[k])] /\ \A k \in DOMAIN ws : ws[k].csr # 0
    BY CsrStated
  <2>4. /\ ms = [k \in DOMAIN vs |-> Addressed(vs[k])] /\ \A k \in DOMAIN vs : vs[k].csr # 0
    BY CsrStated
  <2> QED
    BY <2>2, <2>3, <2>4
<1>2. c \notin cfg.ignored_csrs /\ c # 0
  <2>1. \/ \E k \in DOMAIN ws : c = ws[k].csr
        \/ \E k \in DOMAIN vs : c = vs[k].csr
    BY DEF Csrs
  <2>2. c \notin cfg.ignored_csrs
    BY DEF Csrs
  <2> HIDE DEF ws, vs
  <2> QED
    BY <1>1, <2>1, <2>2
<1>3. d \notin cfg.ignored_csrs
  BY <1>2
<1> HIDE DEF ws, vs, ls, ms
<1>4. Wrote(ws, c) = Wrote(ls, d) /\ Wrote(vs, c) = Wrote(ms, d)
  <2>1. \A w : w.csr # 0 => (w.csr = c <=> Addressed(w).csr = d)
    BY <1>2 DEF Addressed
  <2>2. Wrote(ws, c) = Wrote(ls, d)
    BY <1>1, <2>1 DEF Wrote
  <2>3. Wrote(vs, c) = Wrote(ms, d)
    BY <1>1, <2>1 DEF Wrote
  <2> QED
    BY <2>2, <2>3
<1>5. \A n : NthWrite(ws, c, n) = NthWrite(ls, d, n) /\ NthWrite(vs, c, n) = NthWrite(ms, d, n)
  BY <1>4 DEF NthWrite
<1>6. /\ m = Cardinality(Wrote(ms, d))
      /\ \A n \in 1..m : Shown(cfg, ls[NthWrite(ls, d, n)]) = Shown(cfg, ms[NthWrite(ms, d, n)])
  <2>1. Norm(cfg, ls) = Norm(cfg, ms)
    BY DEF ls, ms
  <2> HIDE DEF d
  <2>2. /\ Cardinality(Wrote(ls, d)) = Cardinality(Wrote(ms, d))
        /\ \A n \in 1..Cardinality(Wrote(ls, d)) :
             Shown(cfg, ls[NthWrite(ls, d, n)]) = Shown(cfg, ms[NthWrite(ms, d, n)])
    <3>1. ls \in Seq(CsrWrite) /\ ms \in Seq(CsrWrite)
      BY <1>1
    <3> QED
      BY <1>3, <2>1, <3>1, WrittenAlike
  <2> QED
    BY <2>2
<1>7. /\ m \in Nat
      /\ \A n \in 1..m : NthWrite(ls, d, n) \in Wrote(ls, d) /\ NthWrite(ms, d, n) \in Wrote(ms, d)
  <2>1. DOMAIN ls = 1..Len(ls) /\ Len(ls) \in Nat /\ DOMAIN ms = 1..Len(ms) /\ Len(ms) \in Nat
    BY <1>1
  <2>2. /\ IsFiniteSet(Wrote(ls, d)) /\ m \in Nat /\ Orders(InPlace(Wrote(ls, d)), Wrote(ls, d))
        /\ IsFiniteSet(Wrote(ms, d)) /\ Orders(InPlace(Wrote(ms, d)), Wrote(ms, d))
    BY <2>1, WroteOrdered
  <2>3. \A n \in 1..m : Nth(Wrote(ls, d), InPlace(Wrote(ls, d)), n) \in Wrote(ls, d)
    BY <2>2, Placed
  <2>4. \A n \in 1..m : Nth(Wrote(ms, d), InPlace(Wrote(ms, d)), n) \in Wrote(ms, d)
    BY <1>6, <2>2, Placed
  <2> QED
    BY <2>2, <2>3, <2>4 DEF NthWrite
<1>8. /\ rw = [n \in 1..m |-> ws[NthWrite(ls, d, n)]]
      /\ iw = [n \in 1..m |-> vs[NthWrite(ms, d, n)]]
  <2>1. rw = [n \in 1..Cardinality(Wrote(ws, c)) |-> ws[NthWrite(ws, c, n)]]
    BY HistoryIs
  <2>2. iw = [n \in 1..Cardinality(Wrote(vs, c)) |-> vs[NthWrite(vs, c, n)]]
    BY HistoryIs
  <2> HIDE DEF rw, iw
  <2>3. rw = [n \in 1..m |-> ws[NthWrite(ws, c, n)]] /\ iw = [n \in 1..m |-> vs[NthWrite(vs, c, n)]]
    BY <1>4, <1>6, <2>1, <2>2
  <2> HIDE DEF m
  <2> QED
    BY <1>5, <2>3
<1>9. ASSUME NEW n \in 1..m
      PROVE  SameCsrWrite(ws[NthWrite(ls, d, n)], vs[NthWrite(ms, d, n)])
  <2> DEFINE p == NthWrite(ls, d, n)
             q == NthWrite(ms, d, n)
  <2>1. p \in DOMAIN ws /\ q \in DOMAIN vs /\ ws[p].csr = c /\ vs[q].csr = c
    BY <1>4, <1>7, <1>9 DEF Wrote
  <2>2. Shown(cfg, Addressed(ws[p])) = Shown(cfg, Addressed(vs[q]))
    <3>1. Shown(cfg, ls[p]) = Shown(cfg, ms[q])
      BY <1>6, <1>9
    <3> HIDE DEF p, q
    <3> QED
      BY <1>1, <2>1, <3>1
  <2>3. Addressed(ws[p]) \in CsrWrite /\ Addressed(vs[q]) \in CsrWrite
    <3> HIDE DEF p, q
    <3>1. ls[p] \in CsrWrite /\ ms[q] \in CsrWrite
      BY <1>1, <2>1
    <3> QED
      BY <1>1, <2>1, <3>1
  <2> DEFINE w == ws[p]
             v == vs[q]
  <2> HIDE DEF p, q, w, v
  <2>4. w.csr = c /\ v.csr = c /\ Shown(cfg, Addressed(w)) = Shown(cfg, Addressed(v))
        /\ Addressed(w) \in CsrWrite /\ Addressed(v) \in CsrWrite
    BY <2>1, <2>2, <2>3 DEF w, v
  <2>5. CASE c = None
    <3>1. Addressed(w) = [csr |-> 0, val |-> w.val] /\ Addressed(v) = [csr |-> 0, val |-> v.val]
      BY <2>4, <2>5 DEF Addressed
    <3>2. Shown(cfg, Addressed(w)) = Addressed(w) /\ Shown(cfg, Addressed(v)) = Addressed(v)
      BY <3>1 DEF Shown
    <3>3. w.val = v.val
      <4>1. Addressed(w) = Addressed(v)
        BY <2>4, <3>2
      <4>2. Addressed(w).val = w.val /\ Addressed(v).val = v.val
        BY <3>1
      <4> QED
        BY <4>1, <4>2
    <3> QED
      BY <2>4, <3>3 DEF SameCsrWrite, w, v, p, q
  <2>6. CASE c # None
    <3>1. Addressed(w) = w /\ Addressed(v) = v
      BY <2>4, <2>6 DEF Addressed
    <3>2. CASE c \in DOMAIN cfg.csr_masks
      <4>1. /\ Shown(cfg, w).val = BitAnd(w.val, cfg.csr_masks[c])
            /\ Shown(cfg, v).val = BitAnd(v.val, cfg.csr_masks[c])
        BY <2>4, <3>1, <3>2 DEF Shown, CsrWrite
      <4> QED
        BY <2>4, <3>1, <3>2, <4>1 DEF SameCsrWrite, w, v, p, q
    <3>3. CASE c \notin DOMAIN cfg.csr_masks
      <4>1. w = v
        BY <2>4, <3>1, <3>3 DEF Shown
      <4> QED
        BY <2>4, <3>3, <4>1 DEF SameCsrWrite, w, v, p, q
    <3> QED
      BY <3>2, <3>3
  <2> QED
    BY <2>5, <2>6
<1> HIDE DEF m, d
<1>10. DOMAIN rw = 1..m /\ Len(rw) = m /\ Len(iw) = m
       /\ \A n \in 1..m : rw[n] = ws[NthWrite(ls, d, n)] /\ iw[n] = vs[NthWrite(ms, d, n)]
  <2> HIDE DEF rw, iw
  <2> QED
    BY <1>7, <1>8
<1> HIDE DEF rw, iw
<1>11. Len(rw) = Len(iw) /\ \A n \in DOMAIN rw : SameCsrWrite(rw[n], iw[n])
  BY <1>9, <1>10
<1> QED
  BY <1>11 DEF rw, iw, ws, vs

\* The accesses of two records, when the rules find nothing.
LEMMA AccessesAlike ==
  ASSUME cfg.bytes \in {4, 8}, NEW a, NEW b, WellFormed(a), WellFormed(b),
         Decode(a).mem_errors = 0, Decode(b).mem_errors = 0,
         Illegal(Decode(a)) = {}, Illegal(Decode(b)) = {},
         MemAlike(cfg, Decode(a), Decode(b)), ~MemSkipped(cfg),
         ~WriteAndRead(a), ~WriteAndRead(b)
  PROVE  /\ Len(Accesses(a)) = Len(Accesses(b))
         /\ \A n \in DOMAIN Accesses(a) : SameAccess(Accesses(a)[n], Accesses(b)[n])
<1> DEFINE A == Accesses(a)
           B == Accesses(b)
           r == Decode(a)
           i == Decode(b)
<1>1. /\ Len(A) \in Nat /\ r.mem_op = IF Len(A) = 0 THEN None ELSE A[1].op
      /\ r.mem_op # None => r.mem_addr = A[1].addr /\ r.mem_val = A[1].val /\ r.mem_size = A[1].size
      /\ Len(A) # 0 => A[1].val \in Nat \cup {None}
      /\ Len(A) <= 1 /\ (Len(A) = 1 => A[1].op # None)
  BY MemStated
<1>2. /\ Len(B) \in Nat /\ i.mem_op = IF Len(B) = 0 THEN None ELSE B[1].op
      /\ i.mem_op # None => i.mem_addr = B[1].addr /\ i.mem_val = B[1].val /\ i.mem_size = B[1].size
      /\ Len(B) # 0 => B[1].val \in Nat \cup {None}
      /\ Len(B) <= 1 /\ (Len(B) = 1 => B[1].op # None)
  BY MemStated
<1>3. DOMAIN A = 1..Len(A)
  <2> DEFINE W == Listed(a.mem_writes, "store")
             R == Listed(a.mem_reads, "load")
             F == IF a.mem_op = None THEN <<>> ELSE <<Access(a.mem_op, a.mem_addr, a.mem_val, a.mem_size)>>
  <2>1. List(W) /\ List(R)
    BY ListedIs DEF WellFormed
  <2>2. List(F)
    BY OneOf, NoneOf
  <2>3. A = W \o R \o F
    BY DEF Accesses
  <2> HIDE DEF W, R, F
  <2>4. List(W \o R)
    BY <2>1, JoinOf
  <2>5. List((W \o R) \o F)
    BY <2>2, <2>4, JoinOf
  <2> HIDE DEF A
  <2>6. A \in Seq(Of(A))
    BY <2>3, <2>5 DEF List
  <2> QED
    BY <2>6
<1>4. r.mem_size \in {None, 1, 2, 4, 8} /\ i.mem_size \in {None, 1, 2, 4, 8}
  <2>1. \A e : Illegal(e) = {} => e["mem_size"] = None \/ e["mem_size"] \in {1, 2, 4, 8}
    BY DEF Illegal, Allowed
  <2>2. r["mem_size"] = None \/ r["mem_size"] \in {1, 2, 4, 8}
    BY <2>1
  <2>3. i["mem_size"] = None \/ i["mem_size"] \in {1, 2, 4, 8}
    BY <2>1
  <2> HIDE DEF r, i
  <2> QED
    BY <2>2, <2>3
<1>5. \/ r.mem_op = None /\ i.mem_op = None
      \/ /\ r.mem_op = i.mem_op /\ ~Differ(r.mem_addr, i.mem_addr)
         /\ \/ ~Differ(r.mem_val, i.mem_val)
            \/ Low(cfg, r.mem_val, {r.mem_size, i.mem_size})
                 = Low(cfg, i.mem_val, {r.mem_size, i.mem_size})
  BY DEF MemAlike
<1> HIDE DEF A, B, r, i
<1>6. CASE r.mem_op = None /\ i.mem_op = None
  <2>1. Len(A) = 0 /\ Len(B) = 0
    <3>1. Len(A) # 1 /\ Len(A) <= 1 /\ Len(A) \in Nat
      <4>1. Len(A) # 0 => r.mem_op = A[1].op
        BY <1>1
      <4> QED
        BY <1>1, <1>6, <4>1
    <3>2. Len(B) # 1 /\ Len(B) <= 1 /\ Len(B) \in Nat
      <4>1. Len(B) # 0 => i.mem_op = B[1].op
        BY <1>2
      <4> QED
        BY <1>2, <1>6, <4>1
    <3>3. \A n \in Nat : n # 1 /\ n <= 1 => n = 0
      OBVIOUS
    <3> QED
      BY <3>1, <3>2, <3>3, Zenon
  <2> QED
    BY <1>3, <2>1 DEF A, B
<1>7. CASE ~(r.mem_op = None /\ i.mem_op = None)
  <2>1. r.mem_op # None /\ i.mem_op # None /\ r.mem_op = i.mem_op
    BY <1>5, <1>7
  <2>2. Len(A) = 1 /\ Len(B) = 1
    <3>1. Len(A) # 0 /\ Len(A) <= 1 /\ Len(A) \in Nat
      BY <1>1, <2>1
    <3>2. Len(B) # 0 /\ Len(B) <= 1 /\ Len(B) \in Nat
      BY <1>2, <2>1
    <3>3. \A n \in Nat : n # 0 /\ n <= 1 => n = 1
      OBVIOUS
    <3> QED
      BY <3>1, <3>2, <3>3, Zenon
  <2>3. /\ A[1].op = B[1].op /\ ~Differ(A[1].addr, B[1].addr)
        /\ A[1].val \in Nat \cup {None} /\ B[1].val \in Nat \cup {None}
        /\ A[1].size \in {None, 1, 2, 4, 8} /\ B[1].size \in {None, 1, 2, 4, 8}
        /\ \/ ~Differ(A[1].val, B[1].val)
           \/ Low(cfg, A[1].val, {A[1].size, B[1].size}) = Low(cfg, B[1].val, {A[1].size, B[1].size})
    BY <1>1, <1>2, <1>4, <1>5, <2>1, <2>2
  <2>4. SameAccess(A[1], B[1])
    <3> SUFFICES ASSUME A[1].val # None, B[1].val # None, NEW n \in 0..cfg.bytes-1,
                        n = 0 \/ \A s \in {A[1].size, B[1].size} \ {None} : n < s
                 PROVE  Byte(A[1].val, n) = Byte(B[1].val, n)
      BY <2>3 DEF SameAccess
    <3> DEFINE v == A[1].val
               w == B[1].val
               Z == {A[1].size, B[1].size}
    <3>1. v \in Nat /\ w \in Nat /\ Z \in SUBSET {None, 1, 2, 4, 8}
      BY <2>3
    <3>2. CASE v = w
      BY <3>2
    <3>3. CASE v # w
      <4>1. Low(cfg, v, Z) = Low(cfg, w, Z)
        BY <2>3, <3>3 DEF Differ
      <4>2. n = 0 \/ \A z \in Z \ {None} : n < z
        OBVIOUS
      <4> HIDE DEF v, w, Z
      <4>3. Byte(v, n) = Byte(w, n)
        BY <3>1, <4>1, <4>2, LowBytes
      <4> QED
        BY <4>3 DEF v, w
    <3> QED
      BY <3>2, <3>3
  <2>5. DOMAIN A = {1}
    BY <1>3, <2>2
  <2> QED
    BY <2>2, <2>4, <2>5 DEF A, B
<1> QED
  BY <1>6, <1>7

\* A line the comparison has nothing to say about raises no issue.
LEMMA CleanIsQuiet ==
  ASSUME ReportInv, NEW k \in 1..pos, Clean(k)
  PROVE  IssuesAt(k) = {}
<1> SUFFICES ASSUME NEW x \in IssuesAt(k) PROVE FALSE
  OBVIOUS
<1>1. Reported(k, x) \in Found(pos)
  BY DEF Found, FoundAt
<1>2. Reported(k, x) \in Of(reports)
  BY <1>1 DEF ReportInv, Clean
<1>3. PICK n \in DOMAIN reports : reports[n] = Reported(k, x)
  BY <1>2 DEF Of
<1> QED
  BY <1>3 DEF Clean, Reported

\* Silence about a line means that its records agree.
LEMMA CleanAgrees == ReportInv => CleanPairsAgree
<1> SUFFICES ASSUME ReportInv, NEW k \in 1..pos, Clean(k)
             PROVE  LET r == Stated(raw.rtl[k])
                        i == Stated(raw.iss[k])
                    IN  /\ Skipped("pc") \/ r.pc = i.pc
                        /\ Skipped("instr") \/ r.instr = i.instr
                        /\ Skipped("trap") \/ r.trap.taken = i.trap.taken
                        /\ Skipped("privilege") \/ r.privilege = {} \/ i.privilege = {}
                           \/ r.privilege = i.privilege
                        /\ \/ Skipped("rd_val") \/ r.regs = <<>> \/ i.regs = <<>>
                           \/ r.regs[1].reg = 0 \/ SameReg(r.regs[1], i.regs[1])
                        /\ Skipped("csr_writes") \/ \A c \in Csrs(r.csrs) \cup Csrs(i.csrs) :
                             LET rw == CsrHistory(r.csrs, c)
                                 iw == CsrHistory(i.csrs, c)
                             IN  Len(rw) = Len(iw) /\ \A n \in DOMAIN rw : SameCsrWrite(rw[n], iw[n])
                        /\ \/ MemSkipped(cfg) \/ WriteAndRead(raw.rtl[k]) \/ WriteAndRead(raw.iss[k])
                           \/ /\ Len(r.accesses) = Len(i.accesses)
                              /\ \A n \in DOMAIN r.accesses : SameAccess(r.accesses[n], i.accesses[n])
  BY DEF CleanPairsAgree
<1> DEFINE a == raw.rtl[k]
           b == raw.iss[k]
           r == Decode(a)
           i == Decode(b)
<1>1. k \in 1..Len(raw.rtl)
  <2>1. Len(raw.rtl) \in Nat
    BY DEF ReportInv
  <2> QED
    BY <2>1 DEF ReportInv
<1>2. Typed(r) /\ Typed(i) /\ WellFormed(a) /\ WellFormed(b) /\ log.rtl[k] = r /\ log.iss[k] = i
  BY <1>1, LineTyped
<1>3. cfg.bytes \in {4, 8} /\ 0 \notin cfg.ignored_csrs /\ 0 \notin DOMAIN cfg.csr_masks
  BY InputsAssumption, UnknownCsrsCompared DEF ReportInv
<1>4. Of(Compare(cfg, r, i)) = {}
  <2>1. Of(Compare(cfg, log.rtl[k], log.iss[k])) = {}
    BY CleanIsQuiet DEF IssuesAt
  <2> QED
    BY <1>2, <2>1
<1> HIDE DEF a, b
<1>5. /\ "pc" \in cfg.skip \/ r.pc = i.pc
      /\ "instr" \in cfg.skip \/ r.instr = i.instr
      /\ r.mem_errors = 0 /\ Illegal(r) = {} /\ i.mem_errors = 0 /\ Illegal(i) = {}
      /\ Alike(cfg, r, i)
  <2> HIDE DEF r, i
  <2> QED
    BY <1>2, <1>4, CompareOf
<1>6. /\ Skipped("pc") \/ Word(a.pc) = Word(b.pc)
      /\ Skipped("instr") \/ Word(a.instr) = Word(b.instr)
  BY <1>5 DEF Decode, Skipped
<1>7. Skipped("trap") \/ (a.trap \/ a.trap_object # None) = (b.trap \/ b.trap_object # None)
  <2>1. "trap" \in cfg.skip \/ r.trap = i.trap
    BY <1>5 DEF Alike
  <2>2. r.trap = (a.trap_object # None \/ a.trap) /\ i.trap = (b.trap_object # None \/ b.trap)
    BY DEF Decode
  <2> HIDE DEF r, i
  <2> QED
    BY <2>1, <2>2 DEF Skipped
<1>8. \/ Skipped("privilege") \/ {a.privilege, a.priv} \ {None} = {}
      \/ {b.privilege, b.priv} \ {None} = {}
      \/ {a.privilege, a.priv} \ {None} = {b.privilege, b.priv} \ {None}
  <2>1. "privilege" \in cfg.skip \/ ~Differ(r.privilege, i.privilege)
    BY <1>5 DEF Alike
  <2>2. r.privilege = FirstOf(a.privilege, a.priv) /\ i.privilege = FirstOf(b.privilege, b.priv)
    BY DEF Decode
  <2>3. /\ a.privilege = None \/ a.priv = None
        /\ b.privilege = None \/ b.priv = None
    BY <1>2 DEF WellFormed, InLegacyFormat, InCanonicalFormat
  <2> DEFINE P(d) == {d.privilege, d.priv} \ {None}
             f(d) == FirstOf(d.privilege, d.priv)
  <2>4. \A d : d.privilege = None \/ d.priv = None => P(d) = IF f(d) = None THEN {} ELSE {f(d)}
    BY DEF FirstOf
  <2>5. /\ P(a) = IF f(a) = None THEN {} ELSE {f(a)}
        /\ P(b) = IF f(b) = None THEN {} ELSE {f(b)}
    BY <2>3, <2>4
  <2> HIDE DEF r, i, P, f
  <2>6. Skipped("privilege") \/ P(a) = {} \/ P(b) = {} \/ P(a) = P(b)
    BY <2>1, <2>2, <2>5 DEF Skipped, Differ, f
  <2> QED
    BY <2>6 DEF P
<1>9. \/ Skipped("rd_val") \/ RegWrites(a) = <<>> \/ RegWrites(b) = <<>>
      \/ RegWrites(a)[1].reg = 0 \/ SameReg(RegWrites(a)[1], RegWrites(b)[1])
  <2>1. \/ "rd_val" \in cfg.skip \/ r.rd \in {None, 0}
        \/ ~Differ(r.rd, i.rd) /\ ~Differ(r.rd_val, i.rd_val)
    BY <1>5 DEF Alike
  <2>2. RegWrites(a) # <<>> =>
          r.rd = RegWrites(a)[1].reg /\ r.rd_val = RegWrites(a)[1].val /\ r.rd # None
    BY <1>2, RegStated
  <2>3. RegWrites(b) # <<>> =>
          i.rd = RegWrites(b)[1].reg /\ i.rd_val = RegWrites(b)[1].val /\ i.rd # None
    BY <1>2, RegStated
  <2> HIDE DEF r, i
  <2> QED
    BY <2>1, <2>2, <2>3 DEF Skipped, SameReg, Differ
<1>10. Skipped("csr_writes") \/ \A c \in Csrs(CsrWrites(a)) \cup Csrs(CsrWrites(b)) :
         LET rw == CsrHistory(CsrWrites(a), c)
             iw == CsrHistory(CsrWrites(b), c)
         IN  Len(rw) = Len(iw) /\ \A n \in DOMAIN rw : SameCsrWrite(rw[n], iw[n])
  <2>1. "csr_writes" \in cfg.skip \/ Norm(cfg, r.csr_writes) = Norm(cfg, i.csr_writes)
    BY <1>5 DEF Alike
  <2>2. r.csr_writes = CsrList(a) /\ i.csr_writes = CsrList(b)
    BY DEF Decode
  <2> HIDE DEF r, i
  <2>3. CASE "csr_writes" \in cfg.skip
    BY <2>3 DEF Skipped
  <2>4. CASE Norm(cfg, CsrList(a)) = Norm(cfg, CsrList(b))
    BY <1>2, <1>3, <2>4, CsrsAlike
  <2> QED
    BY <2>1, <2>2, <2>3, <2>4
<1>11. \/ MemSkipped(cfg) \/ WriteAndRead(a) \/ WriteAndRead(b)
       \/ /\ Len(Accesses(a)) = Len(Accesses(b))
          /\ \A n \in DOMAIN Accesses(a) : SameAccess(Accesses(a)[n], Accesses(b)[n])
  <2>1. MemAlike(cfg, r, i)
    BY <1>5 DEF Alike
  <2> QED
    BY <1>2, <1>3, <1>5, <2>1, AccessesAlike
<1>12. \A d : /\ Stated(d).pc = Word(d.pc) /\ Stated(d).instr = Word(d.instr)
              /\ Stated(d).regs = RegWrites(d) /\ Stated(d).csrs = CsrWrites(d)
              /\ Stated(d).accesses = Accesses(d) /\ Stated(d).trap = TrapGiven(d)
              /\ Stated(d).privilege = {d.privilege, d.priv} \ {None}
  BY DEF Stated
<1>13. /\ TrapGiven(a).taken = (a.trap \/ a.trap_object # None)
       /\ TrapGiven(b).taken = (b.trap \/ b.trap_object # None)
  BY DEF TrapGiven
<1>14. Skipped("trap") \/ TrapGiven(a).taken = TrapGiven(b).taken
  BY <1>7, <1>13
<1>15. /\ Stated(a).pc = Word(a.pc) /\ Stated(a).instr = Word(a.instr)
       /\ Stated(a).regs = RegWrites(a) /\ Stated(a).csrs = CsrWrites(a)
       /\ Stated(a).accesses = Accesses(a) /\ Stated(a).trap = TrapGiven(a)
       /\ Stated(a).privilege = {a.privilege, a.priv} \ {None}
  BY <1>12
<1>16. /\ Stated(b).pc = Word(b.pc) /\ Stated(b).instr = Word(b.instr)
       /\ Stated(b).regs = RegWrites(b) /\ Stated(b).csrs = CsrWrites(b)
       /\ Stated(b).accesses = Accesses(b) /\ Stated(b).trap = TrapGiven(b)
       /\ Stated(b).privilege = {b.privilege, b.priv} \ {None}
  BY <1>12
<1> DEFINE s == Stated(a)
           t == Stated(b)
<1> HIDE DEF s, t
<1>17. /\ Skipped("pc") \/ s.pc = t.pc
       /\ Skipped("instr") \/ s.instr = t.instr
       /\ Skipped("trap") \/ s.trap.taken = t.trap.taken
       /\ Skipped("privilege") \/ s.privilege = {} \/ t.privilege = {} \/ s.privilege = t.privilege
       /\ \/ Skipped("rd_val") \/ s.regs = <<>> \/ t.regs = <<>>
          \/ s.regs[1].reg = 0 \/ SameReg(s.regs[1], t.regs[1])
  BY <1>6, <1>8, <1>9, <1>14, <1>15, <1>16 DEF s, t
<1>18. Skipped("csr_writes") \/ \A c \in Csrs(s.csrs) \cup Csrs(t.csrs) :
         LET rw == CsrHistory(s.csrs, c)
             iw == CsrHistory(t.csrs, c)
         IN  Len(rw) = Len(iw) /\ \A n \in DOMAIN rw : SameCsrWrite(rw[n], iw[n])
  BY <1>10, <1>15, <1>16 DEF s, t
<1>19. \/ MemSkipped(cfg) \/ WriteAndRead(a) \/ WriteAndRead(b)
       \/ /\ Len(s.accesses) = Len(t.accesses)
          /\ \A n \in DOMAIN s.accesses : SameAccess(s.accesses[n], t.accesses[n])
  BY <1>11, <1>15, <1>16 DEF s, t
<1> QED
  BY <1>17, <1>18, <1>19 DEF s, t, a, b

(* No misses: the records of a line that was compared without a mismatch    *)
(* agree in every compared field, in every write to a compared CSR, and in  *)
(* every byte that their accesses have in common.                           *)
THEOREM NoMisses == Spec => []CleanPairsAgree
  BY AllRecorded, CleanAgrees, PTL
=============================================================================
