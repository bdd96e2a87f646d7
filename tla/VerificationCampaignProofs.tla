---------------------- MODULE VerificationCampaignProofs ----------------------
(***************************************************************************)
(* Theorems about the judgment bus, for any properties, workers, messages  *)
(* and orders of delivery, and about the campaign that publishes on it,    *)
(* for any boards, workers, budgets and numbers of steps.                  *)
(***************************************************************************)
EXTENDS VerificationCampaign, BusConfluence, FiniteSetTheorems, WellFoundedInduction, TLAPS

-----------------------------------------------------------------------------
(* Sums over a finite set. A property of all finite sets is shown by the    *)
(* absence of a minimal set outside the set G of those that have it; so is  *)
(* that the function a fold is defined by exists, and hence its laws.       *)

LEMMA SetInduction ==
  ASSUME NEW S, IsFiniteSet(S), NEW G,
         \A U \in SUBSET S : (\A V \in SUBSET U : V # U => V \in G) => U \in G
  PROVE  \A U \in SUBSET S : U \in G
<1> DEFINE R == StrictSubsetOrdering(S)
           Bad == {U \in SUBSET S : U \notin G}
<1>1. IsWellFoundedOn(R, SUBSET S)
  BY FS_StrictSubsetOrderingWellFounded, FS_FiniteSubsetsOfFinite
<1>2. ASSUME Bad # {} PROVE FALSE
  <2>1. Bad \subseteq SUBSET S
    OBVIOUS
  <2>2. PICK U \in Bad : \A V \in Bad : ~(<<V, U>> \in R)
    <3> HIDE DEF R, Bad
    <3> QED
      BY <1>1, <1>2, <2>1, WFMin
  <2>3. \A V \in SUBSET U : V # U => <<V, U>> \in R
    BY <2>2 DEF StrictSubsetOrdering
  <2>4. ASSUME NEW V \in SUBSET U, V # U PROVE V \in G
    <3>1. V \notin Bad
      <4> HIDE DEF R, Bad
      <4> QED
        BY <2>2, <2>3, <2>4
    <3> QED
      BY <2>1, <3>1
  <2> QED
    BY <2>2, <2>4
<1> QED
  BY <1>2

Member(s) == CHOOSE x \in s : TRUE
Term(f, g, s) == IF s = {} THEN 0 ELSE f[Member(s)] + g[s \ {Member(s)}]
Sums(f, U, g) == g = [s \in SUBSET U |-> Term(f, g, s)]
Iter(f, U)    == CHOOSE g : Sums(f, U, g)

LEMMA SumIsIter ==
  ASSUME NEW f, NEW S
  PROVE  SumFunctionOnSet(f, S) = Iter(f, S)[S]
BY DEF SumFunctionOnSet, FoldFunctionOnSet, MapThenFoldSet, Iter, Sums, Term, Member

\* Two such functions agree where both are defined.
LEMMA SumsAgree ==
  ASSUME NEW f, NEW S, IsFiniteSet(S), NEW g, Sums(f, S, g),
         NEW V \in SUBSET S, NEW h, Sums(f, V, h)
  PROVE  g[V] = h[V]
<1> DEFINE G == {U \in SUBSET V : g[U] = h[U]}
<1>1. ASSUME NEW U \in SUBSET V, \A W \in SUBSET U : W # U => W \in G
      PROVE  U \in G
  <2>1. g[U] = Term(f, g, U) /\ h[U] = Term(f, h, U)
    BY DEF Sums
  <2>2. U # {} => Member(U) \in U
    BY DEF Member
  <2>3. U # {} => g[U \ {Member(U)}] = h[U \ {Member(U)}]
    BY <1>1, <2>2
  <2> QED
    BY <2>1, <2>3 DEF Term
<1>2. IsFiniteSet(V)
  BY FS_Subset
<1>3. V \in G
  <2> HIDE DEF G
  <2> QED
    BY <1>1, <1>2, SetInduction
<1> QED
  BY <1>3

LEMMA IterSums ==
  ASSUME NEW f, NEW S, IsFiniteSet(S)
  PROVE  \A U \in SUBSET S : Sums(f, U, Iter(f, U))
<1> DEFINE G == {U \in SUBSET S : Sums(f, U, Iter(f, U))}
<1>1. ASSUME NEW U \in SUBSET S, \A V \in SUBSET U : V # U => V \in G
      PROVE  U \in G
  <2> DEFINE val(V) == Iter(f, V)[V]
             rest == U \ {Member(U)}
             top == IF U = {} THEN 0 ELSE f[Member(U)] + val(rest)
             g == [s \in SUBSET U |-> IF s = U THEN top ELSE val(s)]
  <2>1. ASSUME NEW s \in SUBSET U, s # {}
        PROVE  Member(s) \in s /\ s \ {Member(s)} \in SUBSET s /\ s \ {Member(s)} # s
    BY <2>1 DEF Member
  <2>2. ASSUME NEW s \in SUBSET U, s # U
        PROVE  g[s] = Term(f, g, s)
    <3>1. Sums(f, s, Iter(f, s))
      BY <1>1, <2>2
    <3>2. val(s) = Term(f, Iter(f, s), s)
      BY <3>1 DEF Sums
    <3>3. CASE s = {}
      BY <2>2, <3>2, <3>3 DEF Term
    <3>4. CASE s # {}
      <4> DEFINE r == s \ {Member(s)}
      <4>1. r \in SUBSET s /\ r \in SUBSET U /\ r # U
        BY <2>1, <2>2, <3>4
      <4>2. Sums(f, r, Iter(f, r))
        BY <1>1, <4>1
      <4>3. IsFiniteSet(s)
        BY FS_Subset
      <4>4. Iter(f, s)[r] = val(r)
        BY <3>1, <4>1, <4>2, <4>3, SumsAgree
      <4>5. g[r] = val(r) /\ g[s] = val(s)
        BY <2>2, <4>1
      <4> QED
        BY <3>2, <3>4, <4>4, <4>5 DEF Term
    <3> QED
      BY <3>3, <3>4
  <2>3. g[U] = Term(f, g, U)
    <3>1. U # {} => g[rest] = val(rest)
      BY <2>1
    <3> QED
      BY <3>1 DEF Term
  <2>4. Sums(f, U, g)
    <3> HIDE DEF g
    <3>1. g = [s \in SUBSET U |-> g[s]]
      BY DEF g
    <3> QED
      BY <2>2, <2>3, <3>1 DEF Sums
  <2>5. Sums(f, U, Iter(f, U))
    BY <2>4 DEF Iter
  <2> QED
    BY <2>5
<1> HIDE DEF G
<1>2. \A U \in SUBSET S : U \in G
  BY <1>1, SetInduction
<1> QED
  BY <1>2 DEF G

LEMMA SumRec ==
  ASSUME NEW f, NEW S, IsFiniteSet(S)
  PROVE  /\ S = {} => SumFunctionOnSet(f, S) = 0
         /\ S # {} => /\ Member(S) \in S
                      /\ SumFunctionOnSet(f, S) =
                           f[Member(S)] + SumFunctionOnSet(f, S \ {Member(S)})
<1> DEFINE r == S \ {Member(S)}
<1>1. S # {} => Member(S) \in S
  BY DEF Member
<1>2. Sums(f, S, Iter(f, S)) /\ Sums(f, r, Iter(f, r))
  BY IterSums
<1>3. Iter(f, S)[S] = Term(f, Iter(f, S), S)
  BY <1>2 DEF Sums
<1>4. Iter(f, S)[r] = Iter(f, r)[r]
  BY <1>2, SumsAgree
<1> QED
  BY <1>1, <1>3, <1>4, SumIsIter DEF Term

LEMMA SumType ==
  ASSUME NEW S, IsFiniteSet(S), NEW f, \A x \in S : f[x] \in Int
  PROVE  SumFunctionOnSet(f, S) \in Int
<1> DEFINE G == {U \in SUBSET S : SumFunctionOnSet(f, U) \in Int}
<1>1. ASSUME NEW U \in SUBSET S, \A V \in SUBSET U : V # U => V \in G
      PROVE  U \in G
  <2>1. IsFiniteSet(U)
    BY FS_Subset
  <2>2. CASE U = {}
    <3>1. SumFunctionOnSet(f, U) = 0
      BY <2>1, <2>2, SumRec
    <3> QED
      BY <3>1
  <2>3. CASE U # {}
    <3>1. /\ Member(U) \in U
          /\ SumFunctionOnSet(f, U) = f[Member(U)] + SumFunctionOnSet(f, U \ {Member(U)})
      BY <2>1, <2>3, SumRec
    <3>2. U \ {Member(U)} \in G
      BY <1>1, <3>1
    <3> QED
      BY <3>1, <3>2
  <2> QED
    BY <2>2, <2>3
<1> HIDE DEF G
<1>2. S \in G
  BY <1>1, SetInduction
<1> QED
  BY <1>2 DEF G

\* Any element may be taken out.
LEMMA SumTakeOut ==
  ASSUME NEW S, IsFiniteSet(S), NEW f, \A x \in S : f[x] \in Int, NEW x \in S
  PROVE  SumFunctionOnSet(f, S) = f[x] + SumFunctionOnSet(f, S \ {x})
<1> DEFINE Splits(U) == \A y \in U : SumFunctionOnSet(f, U) = f[y] + SumFunctionOnSet(f, U \ {y})
           G == {U \in SUBSET S : Splits(U)}
<1>1. ASSUME NEW U \in SUBSET S, \A V \in SUBSET U : V # U => V \in G, NEW y \in U
      PROVE  SumFunctionOnSet(f, U) = f[y] + SumFunctionOnSet(f, U \ {y})
  <2> DEFINE m == Member(U)
  <2>1. IsFiniteSet(U) /\ IsFiniteSet(U \ {m}) /\ IsFiniteSet(U \ {y}) /\ IsFiniteSet((U \ {m}) \ {y})
    BY FS_Subset
  <2>2. m \in U /\ SumFunctionOnSet(f, U) = f[m] + SumFunctionOnSet(f, U \ {m})
    BY <2>1, SumRec
  <2>3. CASE y = m
    BY <2>2, <2>3
  <2>4. CASE y # m
    <3> DEFINE both == (U \ {m}) \ {y}
    <3>1. U \ {m} \in G /\ U \ {y} \in G
      BY <1>1, <2>2
    <3>2. SumFunctionOnSet(f, U \ {m}) = f[y] + SumFunctionOnSet(f, both)
      BY <2>2, <2>4, <3>1
    <3>3. (U \ {y}) \ {m} = both
      OBVIOUS
    <3>4. SumFunctionOnSet(f, U \ {y}) = f[m] + SumFunctionOnSet(f, both)
      BY <2>2, <2>4, <3>1, <3>3
    <3>5. SumFunctionOnSet(f, both) \in Int /\ f[m] \in Int /\ f[y] \in Int
      BY <2>1, <2>2, SumType
    <3> QED
      BY <2>2, <3>2, <3>4, <3>5
  <2> QED
    BY <2>3, <2>4
<1> HIDE DEF Splits
<1>2. ASSUME NEW U \in SUBSET S, \A V \in SUBSET U : V # U => V \in G
      PROVE  U \in G
  BY <1>1, <1>2 DEF Splits
<1> HIDE DEF G
<1>3. S \in G
  BY <1>2, SetInduction
<1> QED
  BY <1>3 DEF G, Splits

LEMMA SumMonotone ==
  ASSUME NEW S, IsFiniteSet(S), NEW f, NEW g,
         \A x \in S : f[x] \in Int /\ g[x] \in Int /\ f[x] <= g[x]
  PROVE  SumFunctionOnSet(f, S) <= SumFunctionOnSet(g, S)
<1> DEFINE G == {U \in SUBSET S : SumFunctionOnSet(f, U) <= SumFunctionOnSet(g, U)}
<1>1. ASSUME NEW U \in SUBSET S, \A V \in SUBSET U : V # U => V \in G
      PROVE  U \in G
  <2> DEFINE m == Member(U)
  <2>1. IsFiniteSet(U) /\ IsFiniteSet(U \ {m})
    BY FS_Subset
  <2>2. CASE U = {}
    <3>1. SumFunctionOnSet(f, U) = 0 /\ SumFunctionOnSet(g, U) = 0
      BY <2>1, <2>2, SumRec
    <3> QED
      BY <3>1
  <2>3. CASE U # {}
    <3>1. /\ m \in U
          /\ SumFunctionOnSet(f, U) = f[m] + SumFunctionOnSet(f, U \ {m})
          /\ SumFunctionOnSet(g, U) = g[m] + SumFunctionOnSet(g, U \ {m})
      BY <2>1, <2>3, SumRec
    <3>2. SumFunctionOnSet(f, U \ {m}) \in Int /\ SumFunctionOnSet(g, U \ {m}) \in Int
      BY <2>1, SumType
    <3>3. U \ {m} \in G
      BY <1>1, <3>1
    <3> QED
      BY <3>1, <3>2, <3>3
  <2> QED
    BY <2>2, <2>3
<1> HIDE DEF G
<1>2. S \in G
  BY <1>1, SetInduction
<1> QED
  BY <1>2 DEF G

LEMMA SumUpdate ==
  ASSUME NEW S, IsFiniteSet(S), NEW f \in [S -> Int], NEW x \in S, NEW d \in Int
  PROVE  SumFunction([f EXCEPT ![x] = @ + d]) = SumFunction(f) + d
<1> DEFINE g == [f EXCEPT ![x] = @ + d]
           rest == S \ {x}
<1>1. g \in [S -> Int] /\ g[x] = f[x] + d /\ \A y \in rest : g[y] = f[y]
  OBVIOUS
<1>2. IsFiniteSet(rest)
  BY FS_Subset
<1> HIDE DEF g
<1>3. SumFunctionOnSet(f, rest) = SumFunctionOnSet(g, rest)
  <2>1. /\ SumFunctionOnSet(f, rest) <= SumFunctionOnSet(g, rest)
        /\ SumFunctionOnSet(g, rest) <= SumFunctionOnSet(f, rest)
    <3>1. \A y \in rest : f[y] \in Int /\ g[y] \in Int /\ f[y] <= g[y] /\ g[y] <= f[y]
      BY <1>1
    <3> HIDE DEF rest
    <3> QED
      BY <1>2, <3>1, SumMonotone
  <2>2. SumFunctionOnSet(f, rest) \in Int /\ SumFunctionOnSet(g, rest) \in Int
    BY <1>1, <1>2, SumType
  <2> QED
    BY <2>1, <2>2
<1>4. /\ SumFunctionOnSet(f, S) = f[x] + SumFunctionOnSet(f, rest)
      /\ SumFunctionOnSet(g, S) = g[x] + SumFunctionOnSet(g, rest)
  BY <1>1, SumTakeOut
<1>5. SumFunctionOnSet(f, rest) \in Int /\ f[x] \in Int
  BY <1>2, SumType
<1>6. SumFunctionOnSet(g, S) = SumFunctionOnSet(f, S) + d
  BY <1>1, <1>3, <1>4, <1>5
<1>7. SumFunction(f) = SumFunctionOnSet(f, S) /\ SumFunction(g) = SumFunctionOnSet(g, S)
  BY <1>1 DEF SumFunction
<1> QED
  BY <1>6, <1>7 DEF g

LEMMA SumZero ==
  ASSUME NEW S, IsFiniteSet(S)
  PROVE  SumFunction([x \in S |-> 0]) = 0
<1> DEFINE f == [x \in S |-> 0]
           G == {U \in SUBSET S : SumFunctionOnSet(f, U) = 0}
<1>0. \A x \in S : f[x] = 0
  OBVIOUS
<1>00. SumFunction(f) = SumFunctionOnSet(f, S)
  BY DEF SumFunction
<1> HIDE DEF f
<1>1. ASSUME NEW U \in SUBSET S, \A V \in SUBSET U : V # U => V \in G
      PROVE  U \in G
  <2>1. IsFiniteSet(U)
    BY FS_Subset
  <2>2. CASE U = {}
    BY <2>1, <2>2, SumRec
  <2>3. CASE U # {}
    <3>1. /\ Member(U) \in U
          /\ SumFunctionOnSet(f, U) = f[Member(U)] + SumFunctionOnSet(f, U \ {Member(U)})
      BY <2>1, <2>3, SumRec
    <3>2. U \ {Member(U)} \in G
      BY <1>1, <3>1
    <3> QED
      BY <1>0, <3>1, <3>2
  <2> QED
    BY <2>2, <2>3
<1> HIDE DEF G
<1>2. S \in G
  BY <1>1, SetInduction
<1> QED
  BY <1>00, <1>2 DEF G, f

-----------------------------------------------------------------------------
(* The beliefs and what they rest on.                                       *)

CoreInv ==
  /\ K \in [Props -> Judgments \cup {NoBelief}]
  /\ \A phi \in Props : K[phi] # NoBelief => K[phi].phi = phi
  /\ board \in Boards
  /\ credit \in [Props -> [sims : Nat, proofs : Nat, tasks : SUBSET Tasks]]

-----------------------------------------------------------------------------
(* What one step does to the beliefs.                                       *)

LEMMA BoardFacts ==
  ASSUME CoreInv
  PROVE  /\ board \in BoardRecords
         /\ board.shares \in [Props -> SUBSET Props]
         /\ board.requires \in [Props -> SUBSET Props]
         /\ board.task \in [Props -> Tasks \cup {NoTask}]
         /\ \A phi \in Props : \A psi \in board.shares[phi] :
              psi \in Props /\ board.shares[psi] \subseteq board.shares[phi] \cup {phi}
<1>1. board \in Boards /\ board \in BoardRecords
  BY CampaignAssumptions DEF CoreInv, CampaignAssumptions
<1>2. /\ board.shares \in [Props -> SUBSET Props]
      /\ board.requires \in [Props -> SUBSET Props]
      /\ board.task \in [Props -> Tasks \cup {NoTask}]
  BY <1>1 DEF BoardRecords
<1>3. \A phi \in Props : \A psi \in board.shares[phi] :
        board.shares[psi] \subseteq board.shares[phi] \cup {phi}
  BY <1>1, SharingAssumption DEF SharingAssumption
<1> QED
  BY <1>1, <1>2, <1>3

LEMMA NEffType ==
  ASSUME CoreInv, NEW phi \in Props
  PROVE  NEff(phi) \in Nat
BY DEF CoreInv, NEff, Judgments

\* The copy of the judgment on phi that psi receives, and whether it does.
CopyFor(psi, phi, result) == [JudgmentOf(phi, result) EXCEPT !.phi = psi]
Receives(psi, phi) == psi = phi \/ (psi \in board.shares[phi] /\ ~Closed(psi))

LEMMA CopyFacts ==
  ASSUME CoreInv, NEW phi \in Props, NEW psi \in Props, NEW result
  PROVE  /\ CopyFor(psi, phi, result) \in Judgments
         /\ CopyFor(psi, phi, result) # NoBelief
         /\ CopyFor(psi, phi, result).phi = psi
         /\ CopyFor(psi, phi, result).n =
              NEff(phi) + (IF result \in {"pass", "bounded_pass"} THEN 1 ELSE 0)
         /\ CopyFor(psi, phi, result).warrant =
              IF result = "proved" THEN "DEDUCTIVE" ELSE "INDUCTIVE"
         /\ CopyFor(psi, phi, result).cex = (result = "counterexample")
<1>1. NEff(phi) \in Nat
  BY NEffType
<1>2. NEff(phi) + (IF result \in {"pass", "bounded_pass"} THEN 1 ELSE 0) \in Nat
  BY <1>1
<1>3. JudgmentOf(phi, result) \in Judgments
  BY <1>2 DEF JudgmentOf, Judgments
<1>4. CopyFor(psi, phi, result) \in Judgments
  BY <1>3 DEF CopyFor, Judgments
<1> QED
  BY <1>4, NamesAssumption DEF CopyFor, JudgmentOf, NamesAssumption

LEMMA PublishedJudgments ==
  ASSUME CoreInv, NEW phi \in Props, NEW result
  PROVE  Published(JudgmentOf(phi, result)) =
           {CopyFor(psi, phi, result) : psi \in {q \in Props : Receives(q, phi)}}
<1> DEFINE j == JudgmentOf(phi, result)
<1>1. j.phi = phi /\ [j EXCEPT !.phi = phi] = j
  BY DEF JudgmentOf
<1>2. board.shares[phi] \subseteq Props
  BY BoardFacts
<1> QED
  BY <1>1, <1>2 DEF Published, CopyFor, Receives

LEMMA LearnEffect ==
  ASSUME CoreInv, NEW w \in Workers, NEW phi \in Props, NEW method, NEW result,
         Learn(w, phi, method, result), NEW psi \in Props
  PROVE  /\ Receives(psi, phi) => K'[psi] = Merged(K[psi], CopyFor(psi, phi, result))
         /\ ~Receives(psi, phi) => K'[psi] = K[psi]
<1> DEFINE js     == Published(JudgmentOf(phi, result))
           On(q)  == {j \in js : j.phi = q}
<1>1. K'[psi] = IF On(psi) = {} THEN K[psi]
                ELSE Merged(K[psi], CHOOSE j \in On(psi) : TRUE)
  BY DEF Learn, PublishAll
<1>2. \A q \in Props : CopyFor(q, phi, result).phi = q
  BY CopyFacts
<1>3. js = {CopyFor(q, phi, result) : q \in {r \in Props : Receives(r, phi)}}
  BY PublishedJudgments
<1>4. ASSUME Receives(psi, phi)
      PROVE  On(psi) = {CopyFor(psi, phi, result)}
  BY <1>2, <1>3, <1>4
<1>5. ASSUME ~Receives(psi, phi)
      PROVE  On(psi) = {}
  BY <1>2, <1>3, <1>5
<1> QED
  BY <1>1, <1>4, <1>5

-----------------------------------------------------------------------------
(* A step either learns something about an obligation that was open, or     *)
(* leaves what is known as it was.                                          *)

Learns(w, phi, result) ==
  /\ Actionable(phi)
  /\ Evidence(phi, Method(w, phi), result)
  /\ Learn(w, phi, Method(w, phi), result)
  /\ board' = board

LEMMA StepCases ==
  ASSUME [Next]_vars
  PROVE  \/ \E w \in Workers, phi \in Props, result \in Results : Learns(w, phi, result)
         \/ /\ UNCHANGED <<K, board, credit>>
            /\ gate = "armed" => gate' = "armed"
<1>1. CASE Stop
  BY <1>1 DEF Stop, channelVars
<1>2. CASE UNCHANGED vars
  BY <1>2 DEF vars, channelVars
<1>3. ASSUME NEW w \in Workers, NEW phi \in Props, NEW result \in Results,
             board' = board, Bids(w, phi), Evidence(phi, Method(w, phi), result),
             \/ Fail(result)
             \/ NotCertified(w, phi, Method(w, phi), result)
             \/ Learn(w, phi, Method(w, phi), result)
      PROVE  Learns(w, phi, result) \/ (UNCHANGED <<K, board, credit>> /\ (gate = "armed" => gate' = "armed"))
  <2>1. CASE Learn(w, phi, Method(w, phi), result)
    BY <1>3, <2>1 DEF Learns, Bids, Candidates
  <2>2. CASE Fail(result) \/ NotCertified(w, phi, Method(w, phi), result)
    <3>1. UNCHANGED <<K, board, credit>>
      BY <1>3, <2>2 DEF Fail, NotCertified
    <3>2. gate = "armed" => gate' = "armed"
      BY <1>3 DEF Evidence, StaticCheck, SimRun, FormalProve, Certified, channelVars, Method
    <3> QED
      BY <3>1, <3>2
  <2> QED
    BY <1>3, <2>1, <2>2
<1> QED
  BY <1>1, <1>2, <1>3 DEF Next, Iterate

LEMMA ChannelKeepsGate ==
  ASSUME NEW w, NEW phi, NEW result, Evidence(phi, Method(w, phi), result), gate = "armed"
  PROVE  gate' = "armed"
BY DEF Evidence, StaticCheck, SimRun, FormalProve, Certified, channelVars, Method

LEMMA CoreStep == CoreInv /\ [Next]_vars => CoreInv'
<1> SUFFICES ASSUME CoreInv, [Next]_vars PROVE CoreInv'
  OBVIOUS
<1>1. ASSUME NEW w \in Workers, NEW phi \in Props, NEW result \in Results, Learns(w, phi, result)
      PROVE  CoreInv'
  <2>0. Learn(w, phi, Method(w, phi), result) /\ board' = board
    BY <1>1 DEF Learns
  <2>1. \A psi \in Props :
          K'[psi] \in Judgments \cup {NoBelief} /\ (K'[psi] # NoBelief => K'[psi].phi = psi)
    <3> SUFFICES ASSUME NEW psi \in Props
                 PROVE  K'[psi] \in Judgments \cup {NoBelief} /\ (K'[psi] # NoBelief => K'[psi].phi = psi)
      OBVIOUS
    <3>1. K[psi] \in Judgments \cup {NoBelief} /\ (K[psi] # NoBelief => K[psi].phi = psi)
      BY DEF CoreInv
    <3>2. CopyFor(psi, phi, result) \in Judgments /\ CopyFor(psi, phi, result).phi = psi
      BY CopyFacts
    <3>3. K'[psi] = K[psi] \/ K'[psi] = CopyFor(psi, phi, result)
      BY <2>0, LearnEffect DEF Merged
    <3> QED
      BY <3>1, <3>2, <3>3
  <2>2. K' \in [Props -> Judgments \cup {NoBelief}]
    BY <2>0, <2>1 DEF Learn, PublishAll
  <2>3. credit' \in [Props -> [sims : Nat, proofs : Nat, tasks : SUBSET Tasks]]
    <3>1. Method(w, phi) # "sim" /\ result \in {"pass", "bounded_pass"} => board.task[phi] \in Tasks
      <4> SUFFICES ASSUME Method(w, phi) # "sim", result \in {"pass", "bounded_pass"}
                   PROVE  board.task[phi] \in Tasks
        OBVIOUS
      <4>1. Method(w, phi) = "static" => StaticCheck(result)
        BY <1>1 DEF Learns, Evidence
      <4>2. Method(w, phi) = "formal"
        BY <4>1 DEF Method, StaticCheck
      <4>3. FormalProve(board.task[phi], result)
        BY <1>1, <4>2 DEF Learns, Evidence
      <4>4. board.task[phi] # NoTask
        BY <4>3 DEF FormalProve
      <4> QED
        BY <4>4, BoardFacts
    <3>2. credit \in [Props -> [sims : Nat, proofs : Nat, tasks : SUBSET Tasks]]
      BY DEF CoreInv
    <3>3. credit' = Credited(Published(JudgmentOf(phi, result)), phi, Method(w, phi), result)
      BY <2>0 DEF Learn
    <3> HIDE DEF Published, JudgmentOf, Method
    <3>4. \A psi \in Props : \/ credit'[psi] = credit[psi]
                             \/ credit'[psi] = [sims   |-> credit[psi].sims + 1,
                                                proofs |-> credit[psi].proofs + 0,
                                                tasks  |-> credit[psi].tasks \cup {}]
                             \/ /\ board.task[phi] \in Tasks
                                /\ credit'[psi] = [sims   |-> credit[psi].sims + 0,
                                                   proofs |-> credit[psi].proofs + 1,
                                                   tasks  |-> credit[psi].tasks \cup {board.task[phi]}]
      <4>1. CASE Method(w, phi) = "sim"
        BY <3>3, <4>1 DEF Credited
      <4>2. CASE Method(w, phi) # "sim"
        BY <3>1, <3>3, <4>2 DEF Credited
      <4> QED
        BY <4>1, <4>2
    <3>5. ASSUME NEW psi \in Props
          PROVE  credit'[psi] \in [sims : Nat, proofs : Nat, tasks : SUBSET Tasks]
      <4>1. /\ credit[psi] \in [sims : Nat, proofs : Nat, tasks : SUBSET Tasks]
            /\ credit[psi].sims \in Nat /\ credit[psi].proofs \in Nat
            /\ credit[psi].tasks \in SUBSET Tasks
        BY <3>2
      <4>2. \A t \in Tasks : credit[psi].tasks \cup {t} \in SUBSET Tasks
        BY <4>1
      <4>3. CASE credit'[psi] = credit[psi]
        BY <4>1, <4>3
      <4>4. CASE credit'[psi] = [sims   |-> credit[psi].sims + 1,
                                 proofs |-> credit[psi].proofs + 0,
                                 tasks  |-> credit[psi].tasks \cup {}]
        <5>1. credit[psi].sims + 1 \in Nat /\ credit[psi].proofs + 0 \in Nat
              /\ credit[psi].tasks \cup {} \in SUBSET Tasks
          BY <4>1
        <5> QED
          BY <4>4, <5>1
      <4>5. CASE /\ board.task[phi] \in Tasks
                 /\ credit'[psi] = [sims   |-> credit[psi].sims + 0,
                                    proofs |-> credit[psi].proofs + 1,
                                    tasks  |-> credit[psi].tasks \cup {board.task[phi]}]
        <5>1. credit[psi].sims + 0 \in Nat /\ credit[psi].proofs + 1 \in Nat
              /\ credit[psi].tasks \cup {board.task[phi]} \in SUBSET Tasks
          BY <4>1, <4>2, <4>5
        <5> QED
          BY <4>5, <5>1
      <4> QED
        BY <3>4, <4>3, <4>4, <4>5
    <3>6. credit' = [psi \in Props |-> credit'[psi]]
      BY <3>3 DEF Credited
    <3> QED
      BY <3>5, <3>6
  <2> QED
    BY <2>0, <2>1, <2>2, <2>3 DEF CoreInv
<1>2. CASE UNCHANGED <<K, board, credit>>
  BY <1>2 DEF CoreInv
<1> QED
  BY <1>1, <1>2, StepCases

LEMMA CoreInit == Init => CoreInv
BY DEF Init, CoreInv

-----------------------------------------------------------------------------
(* Verdicts are final.                                                      *)

LEMMA FinalStep ==
  ASSUME CoreInv, [Next]_vars, NEW psi \in Props
  PROVE  /\ Proven(psi) => Proven(psi)'
         /\ Disproven(psi) => Disproven(psi)'
         /\ Closed(psi) => K'[psi] = K[psi]
<1>1. ASSUME NEW w \in Workers, NEW phi \in Props, NEW result \in Results, Learns(w, phi, result),
             Closed(psi)
      PROVE  K'[psi] = K[psi]
  <2>1. ~Receives(psi, phi)
    BY <1>1 DEF Learns, Actionable, Receives
  <2> QED
    BY <1>1, <2>1, LearnEffect DEF Learns
<1>2. Closed(psi) => K'[psi] = K[psi]
  BY <1>1, StepCases
<1> QED
  BY <1>2 DEF Closed, Proven, Disproven, ProvenIn, DisprovenIn

THEOREM CoreCorrect == Spec => []CoreInv
BY CoreInit, CoreStep, PTL DEF Spec

(* No later step takes a proof back or turns a verdict into the other.      *)
THEOREM FinalVerdicts == Spec => VerdictsAreFinal
<1>1. CoreInv /\ [Next]_vars =>
        [\A phi \in Props : (Proven(phi) => Proven(phi)') /\ (Disproven(phi) => Disproven(phi)')]_vars
  BY FinalStep
<1> QED
  BY <1>1, CoreCorrect, PTL DEF Spec, VerdictsAreFinal

-----------------------------------------------------------------------------
(* Sample counts are earned.  A run on an obligation bears on all that it   *)
(* shares with and that is open, hence, sharing being transitive, an open   *)
(* obligation has seen each run that those sharing with it have seen.       *)

Runs(phi) == credit[phi].sims + credit[phi].proofs

SharedRuns ==
  \A phi \in Props : \A psi \in board.shares[phi] : ~Closed(psi) => Runs(phi) <= Runs(psi)

EarnedInv == CoreInv /\ NEffEarned /\ SharedRuns

LEMMA RunsType ==
  ASSUME CoreInv, NEW phi \in Props
  PROVE  Runs(phi) \in Nat
BY DEF CoreInv, Runs

LEMMA LearnRuns ==
  ASSUME CoreInv, NEW w \in Workers, NEW phi \in Props, NEW result,
         Learns(w, phi, result), NEW psi \in Props
  PROVE  Runs(psi)' = Runs(psi) +
           (IF result \in {"pass", "bounded_pass"} /\ Receives(psi, phi) THEN 1 ELSE 0)
<1> DEFINE js == Published(JudgmentOf(phi, result))
<1>1. credit' = Credited(js, phi, Method(w, phi), result)
  BY DEF Learns, Learn
<1>2. (\E j \in js : j.phi = psi) <=> Receives(psi, phi)
  <2>1. \A q \in Props : CopyFor(q, phi, result).phi = q
    BY CopyFacts
  <2> QED
    BY <2>1, PublishedJudgments
<1>3. credit[psi].sims \in Nat /\ credit[psi].proofs \in Nat
  BY DEF CoreInv
<1> HIDE DEF js
<1>4. CASE Method(w, phi) = "sim"
  BY <1>1, <1>2, <1>3, <1>4 DEF Credited, Runs
<1>5. CASE Method(w, phi) # "sim"
  BY <1>1, <1>2, <1>3, <1>5 DEF Credited, Runs
<1> QED
  BY <1>4, <1>5

LEMMA EarnedLearn ==
  ASSUME EarnedInv, [Next]_vars, NEW w \in Workers, NEW phi \in Props, NEW result,
         Learns(w, phi, result)
  PROVE  NEffEarned' /\ SharedRuns'
<1> DEFINE passed == result \in {"pass", "bounded_pass"}
           inc(psi) == IF passed /\ Receives(psi, phi) THEN 1 ELSE 0
<1>0. CoreInv /\ \A psi \in Props : NEff(psi) <= Runs(psi)
  BY DEF EarnedInv, NEffEarned, Runs
<1>1. \A psi \in Props : /\ Runs(psi) \in Nat /\ Runs(psi)' = Runs(psi) + inc(psi)
                         /\ NEff(psi) \in Nat
  BY <1>0, RunsType, LearnRuns, NEffType
<1>2. ASSUME NEW a \in Props, NEW b \in board.shares[a], ~Closed(b)
      PROVE  b \in Props /\ Runs(a) <= Runs(b)
  BY <1>0, <1>2, BoardFacts DEF EarnedInv, SharedRuns
<1>3. ASSUME NEW psi \in Props
      PROVE  NEff(psi)' <= Runs(psi)'
  <2>1. CASE ~Receives(psi, phi)
    <3>1. K'[psi] = K[psi]
      BY <1>0, <2>1, LearnEffect DEF Learns
    <3>2. NEff(psi)' = NEff(psi)
      BY <3>1 DEF NEff
    <3> QED
      BY <1>0, <1>1, <2>1, <3>2
  <2>2. CASE Receives(psi, phi)
    <3>1. K'[psi] \in {K[psi], CopyFor(psi, phi, result)}
      BY <1>0, <2>2, LearnEffect DEF Learns, Merged
    <3>2. CASE K'[psi] = K[psi]
      <4>1. NEff(psi)' = NEff(psi)
        BY <3>2 DEF NEff
      <4> QED
        BY <1>0, <1>1, <2>2, <4>1
    <3>3. CASE K'[psi] = CopyFor(psi, phi, result)
      <4>1. NEff(psi)' = NEff(phi) + (IF passed THEN 1 ELSE 0)
        BY <1>0, <3>3, CopyFacts DEF NEff
      <4>2. Runs(phi) <= Runs(psi)
        BY <1>1, <1>2, <2>2 DEF Receives
      <4> QED
        BY <1>0, <1>1, <2>2, <4>1, <4>2
    <3> QED
      BY <3>1, <3>2, <3>3
  <2> QED
    BY <2>1, <2>2
<1>4. ASSUME NEW a \in Props, NEW b \in board.shares[a], ~Closed(b)'
      PROVE  Runs(a)' <= Runs(b)'
  <2>1. b \in Props
    BY <1>0, BoardFacts
  <2>2. ~Closed(b)
    BY <1>0, <1>4, <2>1, FinalStep DEF Closed, Proven, Disproven
  <2>3. Runs(a) <= Runs(b)
    BY <1>2, <2>2
  <2>4. Receives(a, phi) => Receives(b, phi)
    BY <1>0, <2>2, BoardFacts DEF Receives
  <2> QED
    BY <1>1, <2>1, <2>3, <2>4
<1>5. NEffEarned'
  BY <1>3 DEF NEffEarned, Runs
<1>6. SharedRuns'
  BY <1>4 DEF SharedRuns, Learns
<1> QED
  BY <1>5, <1>6

LEMMA EarnedStep == EarnedInv /\ [Next]_vars => EarnedInv'
<1> SUFFICES ASSUME EarnedInv, [Next]_vars PROVE EarnedInv'
  OBVIOUS
<1>1. CoreInv'
  BY CoreStep DEF EarnedInv
<1>2. CASE UNCHANGED <<K, board, credit>>
  BY <1>1, <1>2 DEF EarnedInv, NEffEarned, SharedRuns, NEff, Runs,
                    Closed, Proven, Disproven, ProvenIn, DisprovenIn
<1>3. CASE \E w \in Workers, phi \in Props, result \in Results : Learns(w, phi, result)
  BY <1>1, <1>3, EarnedLearn DEF EarnedInv
<1> QED
  BY <1>2, <1>3, StepCases

LEMMA EarnedInit == Init => EarnedInv
<1> SUFFICES ASSUME Init PROVE EarnedInv
  OBVIOUS
<1>1. CoreInv
  BY CoreInit
<1>2. \A phi \in Props : NEff(phi) = 0 /\ Runs(phi) = 0 /\ credit[phi].sims = 0 /\ credit[phi].proofs = 0
  <2>1. \A phi \in Props : NEff(phi) = 0
    BY DEF Init, NEff
  <2>2. \A phi \in Props : credit[phi].sims = 0 /\ credit[phi].proofs = 0
    BY DEF Init
  <2> QED
    <3> SUFFICES ASSUME NEW phi \in Props PROVE Runs(phi) = 0
      BY <2>1, <2>2
    <3>1. Runs(phi) = 0 + 0
      BY <2>2 DEF Runs
    <3> QED
      BY <3>1
<1>3. \A phi \in Props : \A psi \in board.shares[phi] : psi \in Props
  BY <1>1, BoardFacts
<1> QED
  BY <1>1, <1>2, <1>3 DEF EarnedInv, NEffEarned, SharedRuns

(* No sample count exceeds the passing runs that bear on the property,      *)
(* whatever is shared, and whichever worker ran it.                         *)
THEOREM SamplesEarned == Spec => []NEffEarned
<1>1. EarnedInv => NEffEarned
  BY DEF EarnedInv
<1> QED
  BY <1>1, EarnedInit, EarnedStep, PTL DEF Spec

-----------------------------------------------------------------------------
(* Without sharing, obligations are settled in the order of their lemmas.   *)

LEMMA OrderStep == CoreInv /\ ClosedInOrder /\ [Next]_vars => ClosedInOrder'
<1> SUFFICES ASSUME CoreInv, ClosedInOrder, [Next]_vars,
                    \A psi \in Props : board'.shares[psi] = {},
                    NEW phi \in Props, Closed(phi)', NEW r \in board'.requires[phi]
             PROVE  Closed(r)'
  BY DEF ClosedInOrder
<1>1. board' = board
  BY StepCases DEF Learns
<1>2. r \in Props /\ (Closed(r) => Closed(r)')
  BY <1>1, BoardFacts, FinalStep DEF Closed, Proven, Disproven
<1>3. CASE Closed(phi)
  BY <1>1, <1>2, <1>3 DEF ClosedInOrder
<1>4. CASE ~Closed(phi)
  <2>1. K'[phi] # K[phi]
    BY <1>4 DEF Closed, Proven, Disproven, ProvenIn, DisprovenIn
  <2>2. PICK w \in Workers, psi \in Props, result \in Results : Learns(w, psi, result)
    BY <2>1, StepCases
  <2>3. Receives(phi, psi)
    BY <2>1, <2>2, LearnEffect DEF Learns
  <2>4. Actionable(phi)
    BY <1>1, <2>2, <2>3 DEF Receives, Learns
  <2> QED
    BY <1>1, <1>2, <2>4 DEF Actionable
<1> QED
  BY <1>3, <1>4

(* Where nothing is shared, no obligation is settled before what it         *)
(* requires.                                                                *)
THEOREM SettledInOrder == Spec => []ClosedInOrder
<1>1. Init => ClosedInOrder
  <2> SUFFICES ASSUME Init, NEW phi \in Props PROVE ~Closed(phi)
    BY DEF ClosedInOrder
  <2> QED
    BY DEF Init, Closed, Proven, Disproven, ProvenIn, DisprovenIn
<1> QED
  BY <1>1, OrderStep, CoreInit, CoreStep, PTL DEF Spec

-----------------------------------------------------------------------------
(* Nothing is proven before the vacuity gate is armed.                      *)

LEMMA GateStep == CoreInv /\ ProofsAreGated /\ [Next]_vars => ProofsAreGated'
<1> SUFFICES ASSUME CoreInv, ProofsAreGated, [Next]_vars,
                    ~board'.static, NEW phi \in Props, Proven(phi)'
             PROVE  gate' = "armed"
  BY DEF ProofsAreGated
<1>1. board' = board
  BY StepCases DEF Learns
<1>2. CASE gate = "armed"
  BY <1>2, StepCases, ChannelKeepsGate DEF Learns
<1>3. CASE gate # "armed"
  <2>1. ~Proven(phi)
    BY <1>1, <1>3 DEF ProofsAreGated
  <2>2. K'[phi] # K[phi]
    BY <2>1 DEF Proven, ProvenIn
  <2>3. PICK w \in Workers, psi \in Props, result \in Results : Learns(w, psi, result)
    BY <2>2, StepCases
  <2>4. K'[phi] = CopyFor(phi, psi, result)
    BY <2>2, <2>3, LearnEffect DEF Learns, Merged
  <2>5. result = "proved"
    BY <2>4, CopyFacts DEF Proven, ProvenIn
  <2>6. Method(w, psi) = "formal"
    BY <1>1, <2>3, <2>5 DEF Learns, Evidence, SimRun, Method
  <2>7. FormalProve(board.task[psi], result)
    BY <2>3, <2>6 DEF Learns, Evidence
  <2> QED
    BY <2>5, <2>7 DEF FormalProve, Certified
<1> QED
  BY <1>2, <1>3

(* Without static analysis a proof is believed only after the known-bad     *)
(* task has failed.                                                         *)
THEOREM GateBeforeProof == Spec => []ProofsAreGated
<1>1. Init => ProofsAreGated
  BY DEF Init, ProofsAreGated, Proven, ProvenIn
<1> QED
  BY <1>1, GateStep, CoreInit, CoreStep, PTL DEF Spec

-----------------------------------------------------------------------------
(* The ledger.                                                              *)

LEMMA MethodFacts ==
  ASSUME NEW w, NEW phi
  PROVE  Method(w, phi) \in {"sim", "formal", "static"} /\ Cost[Method(w, phi)] \in Nat
BY DEF Method, Cost

LedgerInv ==
  /\ spent \in Nat /\ byWorker \in [Workers -> Nat]
  /\ BudgetAccounted

\* A bid that is worked on is paid for, or ends the campaign.
LEMMA IterateCases ==
  ASSUME Iterate
  PROVE  /\ status = "running" /\ board' = board /\ step < MaxSteps /\ step' = step + 1
         /\ \E w \in Workers, phi \in Props, result \in Results :
              /\ Bids(w, phi)
              /\ Evidence(phi, Method(w, phi), result)
              /\ \/ Fail(result)
                 \/ /\ Settle(w, phi, Method(w, phi), result)
                    /\ \/ NotCertified(w, phi, Method(w, phi), result)
                       \/ Learn(w, phi, Method(w, phi), result) /\ Learns(w, phi, result)
BY DEF Iterate, NotCertified, Learn, Learns, Bids, Candidates

LEMMA LedgerStep == LedgerInv /\ [Next]_vars => LedgerInv'
<1> SUFFICES ASSUME LedgerInv, [Next]_vars PROVE LedgerInv'
  OBVIOUS
<1>1. CASE UNCHANGED <<spent, byWorker, board>>
  BY <1>1 DEF LedgerInv, BudgetAccounted, Total
<1>2. ASSUME NEW w \in Workers, NEW phi \in Props, NEW result, board' = board,
             Bids(w, phi), Settle(w, phi, Method(w, phi), result)
      PROVE  LedgerInv'
  <2> DEFINE c == Cost[Method(w, phi)]
  <2>1. c \in Nat /\ spent + c <= board.budget
    BY <1>2, MethodFacts DEF Bids, CanAfford
  <2>2. spent' = spent + c /\ byWorker' = [byWorker EXCEPT ![w] = @ + c]
    BY <1>2 DEF Settle, Charge
  <2> HIDE DEF c
  <2>3. Total(byWorker') = Total(byWorker) + c
    <3>1. byWorker \in [Workers -> Int] /\ c \in Int
      BY <2>1 DEF LedgerInv
    <3>2. IsFiniteSet(Workers)
      BY CampaignAssumptions DEF CampaignAssumptions
    <3>3. SumFunction([byWorker EXCEPT ![w] = @ + c]) = SumFunction(byWorker) + c
      BY <3>1, <3>2, SumUpdate
    <3> QED
      BY <2>2, <3>3 DEF Total
  <2>4. spent' \in Nat /\ byWorker' \in [Workers -> Nat]
    BY <2>1, <2>2 DEF LedgerInv
  <2> QED
    BY <1>2, <2>1, <2>2, <2>3, <2>4 DEF LedgerInv, BudgetAccounted
<1>3. CASE Iterate
  BY <1>1, <1>2, <1>3, IterateCases DEF Fail, ledgerVars
<1> QED
  BY <1>1, <1>3 DEF Next, Stop, vars, ledgerVars

LEMMA LedgerInit == Init => LedgerInv
<1> SUFFICES ASSUME Init PROVE LedgerInv
  OBVIOUS
<1>1. Total(byWorker) = 0
  BY SumZero, CampaignAssumptions DEF Init, Total, CampaignAssumptions
<1>2. board.budget \in Nat
  BY CampaignAssumptions DEF Init, CampaignAssumptions, BoardRecords
<1> QED
  BY <1>1, <1>2 DEF Init, LedgerInv, BudgetAccounted

(* Whatever is bid and whatever the tools answer, the budget holds, and     *)
(* what the workers were charged adds up to what was spent.                 *)
THEOREM BudgetHolds == Spec => []BudgetAccounted
<1>1. LedgerInv => BudgetAccounted
  BY DEF LedgerInv
<1> QED
  BY <1>1, LedgerInit, LedgerStep, PTL DEF Spec

-----------------------------------------------------------------------------
(* Stopping.                                                                *)

LEMMA StopStep == CoreInv /\ LedgerInv /\ StopJustified /\ [Next]_vars => StopJustified'
<1> SUFFICES ASSUME CoreInv, LedgerInv, StopJustified, [Next]_vars, status' = "stopped"
             PROVE  \/ spent' + Cost.sim > board'.budget
                    \/ \A w \in Workers, phi \in Props : Actionable(phi)' => phi \in skip'[w]
  BY DEF StopJustified
<1>0. spent \in Nat /\ board.budget \in Nat /\ Cost["sim"] = 4 /\ Cost["static"] = 2
  BY BoardFacts DEF LedgerInv, BoardRecords, Cost
<1>1. CASE status = "stopped"
  <2>1. UNCHANGED vars
    BY <1>1 DEF Next, Stop, Iterate
  <2> QED
    BY <1>1, <2>1 DEF vars, ledgerVars, StopJustified, Actionable, Closed, Proven, Disproven,
                      ProvenIn, DisprovenIn, HasEvidencePath
<1>2. CASE status # "stopped"
  <2>1. Stop
    <3>1. ~(UNCHANGED vars)
      BY <1>2 DEF vars
    <3>2. ~Iterate
      BY <1>2 DEF Iterate, Fail, NotCertified, Learn
    <3> QED
      BY <3>1, <3>2 DEF Next
  <2>2. CASE CanAfford("sim")
    <3>1. \A w \in Workers : Candidates(w) = {}
      <4>1. CanAfford("static")
        BY <1>0, <2>2 DEF CanAfford
      <4>2. \A w \in Workers, phi \in Props : CanAfford(Method(w, phi))
        BY <2>2, <4>1 DEF Method
      <4> QED
        BY <2>1, <4>2 DEF Stop, Bids, Candidates
    <3>2. \A w \in Workers, phi \in Props : Actionable(phi) => phi \in skip[w]
      BY <3>1 DEF Candidates
    <3> QED
      BY <2>1, <3>2 DEF Stop, Actionable, Closed, Proven, Disproven, ProvenIn, DisprovenIn,
                        HasEvidencePath
  <2>3. CASE ~CanAfford("sim")
    BY <1>0, <2>1, <2>3 DEF Stop, CanAfford, ledgerVars
  <2> QED
    BY <2>2, <2>3
<1> QED
  BY <1>1, <1>2

(* When nobody bids, there was nothing left that could be done: this is the *)
(* fallback from a proof to a simulation in Worker.propose.                 *)
THEOREM StopsForAReason == Spec => []StopJustified
<1>1. Init => StopJustified
  BY DEF Init, StopJustified
<1> QED
  BY <1>1, CoreInit, CoreStep, LedgerInit, LedgerStep, StopStep, PTL DEF Spec
-----------------------------------------------------------------------------
(* The value credited to the workers.                                       *)

StepBound == step \in 0..MaxSteps /\ \A phi \in Props : Runs(phi) <= step

ValueInv ==
  /\ EarnedInv /\ StepBound
  /\ value \in [Workers -> Nat]
  /\ ValueIsRiskRemoved

LEMMA BoundStep ==
  ASSUME EarnedInv, StepBound, [Next]_vars
  PROVE  StepBound'
<1>0. CoreInv /\ step \in Int /\ MaxSteps \in Nat
  BY CampaignAssumptions DEF EarnedInv, StepBound, CampaignAssumptions
<1>1. CASE Iterate
  <2>1. step' \in 0..MaxSteps /\ step' = step + 1
    BY <1>0, <1>1 DEF Iterate, StepBound
  <2>2. ASSUME NEW phi \in Props
        PROVE  Runs(phi)' <= Runs(phi) + 1
    <3>1. Runs(phi) \in Nat
      BY <1>0, RunsType
    <3>2. CASE credit' = credit
      BY <3>1, <3>2 DEF Runs
    <3>3. ASSUME NEW w \in Workers, NEW psi \in Props, NEW result, Learns(w, psi, result)
          PROVE  Runs(phi)' <= Runs(phi) + 1
      BY <1>0, <3>1, <3>3, LearnRuns
    <3> QED
      BY <1>1, <3>2, <3>3, StepCases DEF Next
  <2>3. \A phi \in Props : Runs(phi) \in Nat /\ Runs(phi)' \in Nat
    <3>1. CoreInv'
      BY <1>0, CoreStep
    <3> QED
      BY <1>0, <3>1, RunsType DEF CoreInv, Runs
  <2> QED
    BY <1>0, <2>1, <2>2, <2>3 DEF StepBound
<1>2. CASE UNCHANGED <<step, credit>>
  BY <1>2 DEF StepBound, Runs
<1> QED
  BY <1>1, <1>2 DEF Next, Stop, vars

\* The beliefs whose risk the table of the bound UB covers.
Sampled(b, phi) ==
  /\ b[phi] \in Judgments \cup {NoBelief}
  /\ b[phi] # NoBelief => b[phi].n \in 0..MaxSteps

LEMMA RiskType ==
  ASSUME CoreInv, NEW b, NEW phi \in Props, Sampled(b, phi)
  PROVE  RiskOf(b, phi) \in Nat
<1>1. board.weight[phi] \in Nat
  BY BoardFacts DEF BoardRecords
<1>2. 0 \in 0..MaxSteps
  BY CampaignAssumptions DEF CampaignAssumptions
<1>3. UB[IF b[phi] = NoBelief THEN 0 ELSE b[phi].n] \in Nat
  BY <1>2, CampaignAssumptions DEF CampaignAssumptions, Sampled
<1> QED
  BY <1>1, <1>3 DEF RiskOf

LEMMA RiskFalls ==
  ASSUME CoreInv, NEW b, NEW c, NEW phi \in Props, Sampled(b, phi), Sampled(c, phi),
         c[phi] = b[phi] \/ (c[phi] # NoBelief /\ Accepted(b[phi], c[phi]))
  PROVE  RiskOf(c, phi) <= RiskOf(b, phi)
<1> DEFINE bn == IF b[phi] = NoBelief THEN 0 ELSE b[phi].n
           cn == IF c[phi] = NoBelief THEN 0 ELSE c[phi].n
<1>1. RiskOf(b, phi) \in Nat /\ RiskOf(c, phi) \in Nat
  BY RiskType
<1>2. CASE c[phi] = b[phi]
  <2>1. RiskOf(c, phi) = RiskOf(b, phi)
    BY <1>2 DEF RiskOf, ProvenIn, DisprovenIn
  <2> QED
    BY <1>1, <2>1
<1>3. CASE c[phi] # NoBelief /\ Accepted(b[phi], c[phi])
  <2>1. CASE Strong(c[phi])
    <3>1. RiskOf(c, phi) = 0
      BY <1>3, <2>1 DEF RiskOf, ProvenIn, DisprovenIn, Strong
    <3> QED
      BY <1>1, <3>1
  <2>2. CASE ~Strong(c[phi])
    <3>1. b[phi] = NoBelief \/ (~Strong(b[phi]) /\ b[phi].n <= c[phi].n)
      BY <1>3, <2>2 DEF Accepted, RankGeq, Sampled, Judgments
    <3>2. bn \in 0..MaxSteps /\ cn \in 0..MaxSteps /\ bn <= cn
      <4>1. 0 \in 0..MaxSteps
        BY CampaignAssumptions DEF CampaignAssumptions
      <4> QED
        BY <1>3, <3>1, <4>1 DEF Sampled
    <3>3. RiskOf(b, phi) = board.weight[phi] * UB[bn] /\ RiskOf(c, phi) = board.weight[phi] * UB[cn]
      BY <2>2, <3>1 DEF RiskOf, ProvenIn, DisprovenIn, Strong
    <3> HIDE DEF bn, cn
    <3>4. UB[bn] \in Nat /\ UB[cn] \in Nat /\ UB[cn] <= UB[bn]
      BY <3>2, CampaignAssumptions DEF CampaignAssumptions
    <3>5. board.weight[phi] \in Nat
      BY BoardFacts DEF BoardRecords
    <3>6. \A a, x, y \in Nat : x <= y => a * x <= a * y
      OBVIOUS
    <3> QED
      BY <3>3, <3>4, <3>5, <3>6
  <2> QED
    BY <2>1, <2>2
<1> QED
  BY <1>2, <1>3

\* The total risk, as a sum of integers.
Risks(b) == [phi \in Props |-> RiskOf(b, phi)]

LEMMA RiskSums ==
  ASSUME CoreInv, NEW b, NEW c, \A phi \in Props : Sampled(b, phi) /\ Sampled(c, phi)
  PROVE  /\ Risk(b) \in Int /\ Risk(c) \in Int
         /\ (\A phi \in Props : RiskOf(c, phi) <= RiskOf(b, phi)) => Risk(c) <= Risk(b)
<1>1. IsFiniteSet(Props)
  BY CampaignAssumptions DEF CampaignAssumptions
<1>2. \A phi \in Props : /\ Risks(b)[phi] = RiskOf(b, phi) /\ Risks(b)[phi] \in Int
                         /\ Risks(c)[phi] = RiskOf(c, phi) /\ Risks(c)[phi] \in Int
  <2> SUFFICES ASSUME NEW phi \in Props
               PROVE  /\ Risks(b)[phi] = RiskOf(b, phi) /\ Risks(b)[phi] \in Int
                      /\ Risks(c)[phi] = RiskOf(c, phi) /\ Risks(c)[phi] \in Int
    OBVIOUS
  <2>1. RiskOf(b, phi) \in Nat
    BY RiskType
  <2>2. RiskOf(c, phi) \in Nat
    BY RiskType
  <2>3. RiskOf(b, phi) \in Int /\ RiskOf(c, phi) \in Int
    BY <2>1, <2>2
  <2> QED
    BY <2>3 DEF Risks
<1>3. Risk(b) = SumFunctionOnSet(Risks(b), Props) /\ Risk(c) = SumFunctionOnSet(Risks(c), Props)
  BY DEF Risk, Risks, SumFunction
<1> QED
  BY <1>1, <1>2, <1>3, SumType, SumMonotone

AllSampled == \A phi \in Props : Sampled(K, phi)

LEMMA InvSampled == EarnedInv /\ StepBound => AllSampled
<1> SUFFICES ASSUME EarnedInv, StepBound, NEW phi \in Props PROVE Sampled(K, phi)
  BY DEF AllSampled
<1>1. K[phi] \in Judgments \cup {NoBelief}
  BY DEF EarnedInv, CoreInv
<1>2. NEff(phi) \in Nat /\ Runs(phi) \in Nat
  BY NEffType, RunsType DEF EarnedInv
<1>3. NEff(phi) <= Runs(phi) /\ Runs(phi) <= step /\ step \in 0..MaxSteps
  BY DEF EarnedInv, NEffEarned, StepBound, Runs
<1>4. MaxSteps \in Nat
  BY CampaignAssumptions DEF CampaignAssumptions
<1> QED
  BY <1>1, <1>2, <1>3, <1>4 DEF Sampled, NEff

LEMMA ValueLearn ==
  ASSUME ValueInv, [Next]_vars, NEW w \in Workers, NEW phi \in Props, NEW result,
         Learns(w, phi, result)
  PROVE  /\ value' \in [Workers -> Nat]
         /\ Total(value') + Risk(K') = Total(value) + Risk(K)
         /\ Risk(K') <= Risk(K)
<1> DEFINE js == Published(JudgmentOf(phi, result))
           dR == Risk(K) - Risk(K')
<1>1. CoreInv /\ EarnedInv /\ StepBound /\ CoreInv' /\ EarnedInv' /\ StepBound'
  BY EarnedStep, BoundStep DEF ValueInv, EarnedInv
<1>2. \A psi \in Props : Sampled(K, psi) /\ Sampled(K', psi)
  <2>1. AllSampled /\ AllSampled'
    BY <1>1, InvSampled, PTL
  <2> QED
    BY <2>1 DEF AllSampled, Sampled
<1>3. \A psi \in Props : RiskOf(K', psi) <= RiskOf(K, psi)
  <2> SUFFICES ASSUME NEW psi \in Props PROVE RiskOf(K', psi) <= RiskOf(K, psi)
    OBVIOUS
  <2>1. CopyFor(psi, phi, result) # NoBelief
    BY <1>1, CopyFacts
  <2>2. K'[psi] = K[psi] \/ (K'[psi] # NoBelief /\ Accepted(K[psi], K'[psi]))
    BY <1>1, <2>1, LearnEffect DEF Learns, Merged
  <2> QED
    BY <1>1, <1>2, <2>2, RiskFalls
<1>4. Risk(K) \in Int /\ Risk(K') \in Int /\ Risk(K') <= Risk(K)
  BY <1>1, <1>2, <1>3, RiskSums
<1>5. value' = [value EXCEPT ![w] = @ + (IF dR > 0 THEN dR ELSE 0)]
  BY DEF Learns, Learn, Record, Gain
<1> HIDE DEF dR
<1>6. dR \in Int /\ dR >= 0 /\ dR = Risk(K) - Risk(K')
  BY <1>4 DEF dR
<1>7. value' = [value EXCEPT ![w] = @ + dR]
  <2>1. (IF dR > 0 THEN dR ELSE 0) = dR
    BY <1>6
  <2> QED
    BY <1>5, <2>1
<1>8. value \in [Workers -> Nat] /\ value \in [Workers -> Int] /\ IsFiniteSet(Workers)
  BY CampaignAssumptions DEF ValueInv, CampaignAssumptions
<1>9. value' \in [Workers -> Nat]
  BY <1>6, <1>7, <1>8
<1>10. Total(value') = Total(value) + dR
  <2>1. SumFunction([value EXCEPT ![w] = @ + dR]) = SumFunction(value) + dR
    BY <1>6, <1>8, SumUpdate
  <2> QED
    BY <1>7, <2>1 DEF Total
<1>11. Total(value) \in Int
  BY <1>8, SumType DEF Total, SumFunction
<1> QED
  BY <1>4, <1>6, <1>9, <1>10, <1>11

LEMMA RiskUnchanged ==
  ASSUME board' = board
  PROVE  Risk(K)' = Risk(K') /\ Risk([phi \in Props |-> NoBelief])' = Risk([phi \in Props |-> NoBelief])
BY DEF Risk, RiskOf

LEMMA ValueStep == ValueInv /\ [Next]_vars => ValueInv'
<1> SUFFICES ASSUME ValueInv, [Next]_vars PROVE ValueInv'
  OBVIOUS
<1>1. EarnedInv' /\ StepBound'
  BY EarnedStep, BoundStep DEF ValueInv
<1>2. CASE UNCHANGED <<value, K, board>> /\ (status' = "violation" => status = "violation")
  <2>1. ValueIsRiskRemoved'
    BY <1>2, RiskUnchanged DEF ValueInv, ValueIsRiskRemoved, Total
  <2> QED
    BY <1>1, <1>2, <2>1 DEF ValueInv
<1>3. ASSUME NEW w \in Workers, NEW phi \in Props, NEW result, Learns(w, phi, result)
      PROVE  ValueInv'
  <2>1. /\ value' \in [Workers -> Nat]
        /\ Total(value') + Risk(K') = Total(value) + Risk(K)
        /\ Risk(K') <= Risk(K)
    BY <1>3, ValueLearn
  <2>2. status' = status
    BY <1>3, <2>1 DEF Learns, Learn
  <2>3. board' = board
    BY <1>3 DEF Learns
  <2>4. Total(value') + Risk(K)' = Risk([p \in Props |-> NoBelief])'
    BY <2>1, <2>3, RiskUnchanged DEF ValueInv, ValueIsRiskRemoved
  <2> QED
    BY <1>1, <2>1, <2>2, <2>4 DEF ValueInv, ValueIsRiskRemoved, Total
<1>4. CASE Iterate
  BY <1>2, <1>3, <1>4, IterateCases DEF Fail, NotCertified, repVars
<1> QED
  BY <1>2, <1>4 DEF Next, Stop, vars, repVars

LEMMA ValueInit == Init => ValueInv
<1> SUFFICES ASSUME Init PROVE ValueInv
  OBVIOUS
<1>1. EarnedInv
  BY EarnedInit
<1>2. StepBound
  <2>1. \A phi \in Props : Runs(phi) = 0 + 0
    BY DEF Init, Runs
  <2> QED
    BY <2>1, CampaignAssumptions DEF Init, StepBound, CampaignAssumptions
<1>3. Total(value) = 0
  BY SumZero, CampaignAssumptions DEF Init, Total, CampaignAssumptions
<1>4. Risk(K) \in Int
  BY <1>1, <1>2, InvSampled, RiskSums DEF EarnedInv, AllSampled
<1> QED
  BY <1>1, <1>2, <1>3, <1>4 DEF ValueInv, ValueIsRiskRemoved, Init

(* Risk never rises, and what it fell by is what the workers were credited, *)
(* to the last thousandth: evidence that is shared is neither lost nor      *)
(* paid twice.                                                              *)
THEOREM ValueAccounted == Spec => []ValueIsRiskRemoved
<1>1. ValueInv => ValueIsRiskRemoved
  BY DEF ValueInv
<1> QED
  BY <1>1, ValueInit, ValueStep, PTL DEF Spec

-----------------------------------------------------------------------------
(* Bounded passes. Each is paid for by a pair of a worker and an obligation *)
(* that the worker does not bid on again.                                   *)

Givers(phi) == {psi \in Props : psi = phi \/ phi \in board.shares[psi]}
Bought(phi) == {p \in Workers \X Givers(phi) : p[2] \in skip[p[1]]}

PassInv ==
  /\ skip \in [Workers -> SUBSET Props]
  /\ cache \in [Tasks -> Verdicts \cup {"none"}]
  /\ \A phi \in Props : credit[phi].proofs <= Cardinality(Bought(phi))

LEMMA GiversFinite ==
  ASSUME NEW phi \in Props
  PROVE  /\ IsFiniteSet(Givers(phi)) /\ IsFiniteSet(Bought(phi))
         /\ IsFiniteSet(Workers \X Givers(phi))
         /\ Cardinality(Workers \X Givers(phi)) = Cardinality(Workers) * Cardinality(Givers(phi))
<1>1. IsFiniteSet(Props) /\ IsFiniteSet(Workers)
  BY CampaignAssumptions DEF CampaignAssumptions
<1>2. IsFiniteSet(Givers(phi))
  BY <1>1, FS_Subset DEF Givers
<1>3. /\ IsFiniteSet(Workers \X Givers(phi))
      /\ Cardinality(Workers \X Givers(phi)) = Cardinality(Workers) * Cardinality(Givers(phi))
  BY <1>1, <1>2, FS_Product
<1>4. IsFiniteSet(Bought(phi))
  <2>1. Bought(phi) \in SUBSET (Workers \X Givers(phi))
    BY DEF Bought
  <2> QED
    BY <1>3, <2>1, FS_Subset
<1> QED
  BY <1>2, <1>3, <1>4

\* What is bought stays bought, and a bounded pass buys one pair more.
LEMMA BoughtGrows ==
  ASSUME PassInv, board' = board, NEW w \in Workers, NEW phi \in Props, phi \notin skip[w],
         skip' = skip \/ skip' = [skip EXCEPT ![w] = @ \cup {phi}], NEW psi \in Props
  PROVE  /\ Cardinality(Bought(psi)) \in Nat /\ Cardinality(Bought(psi)') \in Nat
         /\ Cardinality(Bought(psi)) <= Cardinality(Bought(psi)')
         /\ phi \in Givers(psi) /\ phi \in skip'[w] =>
              Cardinality(Bought(psi)) + 1 <= Cardinality(Bought(psi)')
<1>1. Givers(psi)' = Givers(psi)
  BY DEF Givers
<1>2. IsFiniteSet(Bought(psi)) /\ IsFiniteSet(Workers \X Givers(psi))
  BY GiversFinite
<1>3. Bought(psi)' \in SUBSET (Workers \X Givers(psi)) /\ Bought(psi) \in SUBSET (Bought(psi)')
  <2>1. \A v \in Workers : skip[v] \subseteq skip'[v]
    BY DEF PassInv
  <2> QED
    BY <1>1, <2>1 DEF Bought
<1>4. IsFiniteSet(Bought(psi)')
  BY <1>2, <1>3, FS_Subset
<1>5. /\ Cardinality(Bought(psi)) \in Nat /\ Cardinality(Bought(psi)') \in Nat
      /\ Cardinality(Bought(psi)) <= Cardinality(Bought(psi)')
      /\ Cardinality(Bought(psi)') = Cardinality(Bought(psi)) => Bought(psi)' = Bought(psi)
  BY <1>2, <1>3, <1>4, FS_Subset, FS_CardinalityType
<1>6. ASSUME phi \in Givers(psi), phi \in skip'[w]
      PROVE  Bought(psi)' # Bought(psi)
  <2>1. <<w, phi>> \in Bought(psi)' /\ <<w, phi>> \notin Bought(psi)
    BY <1>1, <1>6 DEF Bought
  <2> QED
    BY <2>1
<1> QED
  BY <1>5, <1>6

\* What the formal channel remembers is a verdict, and never a pass.
LEMMA CacheEffect ==
  ASSUME CoreInv, PassInv, NEW w \in Workers, NEW phi \in Props, NEW result,
         Evidence(phi, Method(w, phi), result)
  PROVE  /\ cache' \in [Tasks -> Verdicts \cup {"none"}]
         /\ Method(w, phi) # "sim" => result # "pass"
<1>1. CASE Method(w, phi) = "static"
  BY <1>1 DEF Evidence, StaticCheck, channelVars, PassInv
<1>2. CASE Method(w, phi) = "sim"
  BY <1>2 DEF Evidence, SimRun, channelVars, PassInv
<1>3. CASE Method(w, phi) = "formal"
  <2>1. FormalProve(board.task[phi], result)
    BY <1>3 DEF Evidence
  <2>2. CASE result = "error" /\ UNCHANGED <<cache, gate>>
    BY <2>2 DEF PassInv
  <2>3. ASSUME board.task[phi] \in Tasks, NEW verdict \in IF cache[board.task[phi]] = "none" THEN Verdicts
                               ELSE {cache[board.task[phi]]},
               cache' = [cache EXCEPT ![board.task[phi]] = verdict], Certified(verdict, result)
        PROVE  /\ cache' \in [Tasks -> Verdicts \cup {"none"}]
               /\ result # "pass"
    <3>1. verdict \in Verdicts
      BY <2>3 DEF PassInv
    <3>2. cache' \in [Tasks -> Verdicts \cup {"none"}]
      BY <2>3, <3>1 DEF PassInv
    <3> QED
      BY <2>3, <3>1, <3>2 DEF Certified, Verdicts
  <2> QED
    BY <2>1, <2>2, <2>3, BoardFacts DEF FormalProve
<1> QED
  BY <1>1, <1>2, <1>3, MethodFacts

\* Only the formal channel gives bounded passes, and those give up.
LEMMA LearnProofs ==
  ASSUME CoreInv, PassInv, NEW w \in Workers, NEW phi \in Props, NEW result,
         Learns(w, phi, result), NEW psi \in Props
  PROVE  /\ credit'[psi].proofs \in {credit[psi].proofs, credit[psi].proofs + 1}
         /\ credit'[psi].proofs # credit[psi].proofs =>
              /\ result = "bounded_pass" /\ phi \in Givers(psi)
<1> DEFINE js == Published(JudgmentOf(phi, result))
           m  == Method(w, phi)
<1>1. credit' = Credited(js, phi, m, result)
  BY DEF Learns, Learn
<1>2. (\E j \in js : j.phi = psi) => phi \in Givers(psi)
  BY DEF Published, JudgmentOf, Givers
<1>3. credit[psi].proofs \in Nat
  BY DEF CoreInv
<1>4. m # "sim" => result # "pass"
  BY CacheEffect DEF Learns
<1> HIDE DEF js, m
<1>5. CASE m = "sim"
  BY <1>1, <1>3, <1>5 DEF Credited
<1>6. CASE m # "sim"
  BY <1>1, <1>2, <1>3, <1>4, <1>6 DEF Credited
<1> QED
  BY <1>5, <1>6

LEMMA PassStep == CoreInv /\ PassInv /\ [Next]_vars => PassInv'
<1> SUFFICES ASSUME CoreInv, PassInv, [Next]_vars PROVE PassInv'
  OBVIOUS
<1>1. CASE UNCHANGED <<skip, credit, board>> /\ cache' \in [Tasks -> Verdicts \cup {"none"}]
  BY <1>1 DEF PassInv, Bought, Givers
<1>2. ASSUME NEW w \in Workers, NEW phi \in Props, NEW result, board' = board,
             Bids(w, phi), Evidence(phi, Method(w, phi), result), Settle(w, phi, Method(w, phi), result),
             \/ NotCertified(w, phi, Method(w, phi), result)
             \/ Learns(w, phi, result)
      PROVE  PassInv'
  <2>1. phi \notin skip[w]
    BY <1>2 DEF Bids, Candidates
  <2>2. /\ skip' = skip \/ skip' = [skip EXCEPT ![w] = @ \cup {phi}]
        /\ result = "bounded_pass" => skip' = [skip EXCEPT ![w] = @ \cup {phi}]
    BY <1>2 DEF Settle, GivesUp
  <2>3. skip' \in [Workers -> SUBSET Props] /\ (result = "bounded_pass" => phi \in skip'[w])
    BY <2>2 DEF PassInv
  <2>5. cache' \in [Tasks -> Verdicts \cup {"none"}]
    BY <1>2, CacheEffect
  <2>4. ASSUME NEW psi \in Props
        PROVE  credit'[psi].proofs <= Cardinality(Bought(psi)')
    <3>1. /\ Cardinality(Bought(psi)) \in Nat /\ Cardinality(Bought(psi)') \in Nat
          /\ Cardinality(Bought(psi)) <= Cardinality(Bought(psi)')
          /\ phi \in Givers(psi) /\ phi \in skip'[w] =>
               Cardinality(Bought(psi)) + 1 <= Cardinality(Bought(psi)')
      BY <1>2, <2>1, <2>2, BoughtGrows
    <3>2. credit[psi].proofs \in Nat /\ credit[psi].proofs <= Cardinality(Bought(psi))
      BY DEF PassInv, CoreInv
    <3>3. /\ credit'[psi].proofs \in {credit[psi].proofs, credit[psi].proofs + 1}
          /\ credit'[psi].proofs # credit[psi].proofs =>
               /\ result = "bounded_pass" /\ phi \in Givers(psi)
      <4>1. CASE Learns(w, phi, result)
        BY <4>1, LearnProofs
      <4>2. CASE NotCertified(w, phi, Method(w, phi), result)
        BY <4>2 DEF NotCertified
      <4> QED
        BY <1>2, <4>1, <4>2
    <3> QED
      BY <2>3, <3>1, <3>2, <3>3
  <2> QED
    BY <2>3, <2>4, <2>5 DEF PassInv
<1>3. CASE Iterate
  BY <1>1, <1>2, <1>3, IterateCases, CacheEffect DEF Fail
<1>4. CASE UNCHANGED <<skip, credit, board, cache>>
  BY <1>1, <1>4 DEF PassInv
<1> QED
  BY <1>3, <1>4 DEF Next, Stop, vars, channelVars

LEMMA PassInit == Init => PassInv
<1> SUFFICES ASSUME Init PROVE PassInv
  OBVIOUS
<1>1. \A phi \in Props : credit[phi].proofs = 0 /\ Cardinality(Bought(phi)) \in Nat
  BY GiversFinite, FS_CardinalityType DEF Init
<1> QED
  BY <1>1 DEF Init, PassInv

(* However often the remembered verdict of a bounded proof is asked for, it *)
(* counts once per worker and obligation that brings it.                    *)
THEOREM PassesLimited == Spec => []BoundedPassesLimited
<1>1. ASSUME CoreInv, PassInv, NEW phi \in Props
      PROVE  credit[phi].proofs <=
               Cardinality(Workers) * Cardinality({psi \in Props : psi = phi \/ phi \in board.shares[psi]})
  <2>1. Cardinality(Bought(phi)) <= Cardinality(Workers \X Givers(phi))
    <3>1. Bought(phi) \in SUBSET (Workers \X Givers(phi))
      BY DEF Bought
    <3> QED
      BY <3>1, GiversFinite, FS_Subset
  <2>2. /\ Cardinality(Bought(phi)) \in Nat /\ Cardinality(Workers \X Givers(phi)) \in Nat
        /\ credit[phi].proofs \in Nat /\ credit[phi].proofs <= Cardinality(Bought(phi))
    BY <1>1, GiversFinite, FS_CardinalityType DEF CoreInv, PassInv
  <2>3. credit[phi].proofs <= Cardinality(Workers \X Givers(phi))
    BY <2>1, <2>2
  <2> QED
    BY <2>3, GiversFinite DEF Givers
<1>2. CoreInv /\ PassInv => BoundedPassesLimited
  BY <1>1 DEF BoundedPassesLimited
<1> QED
  BY <1>2, CoreInit, CoreStep, PassInit, PassStep, PTL DEF Spec

-----------------------------------------------------------------------------
(* Miscalibration. Where evidence is not shared and a pass is no bounded    *)
(* proof, each refutation of a worker has a claim of its own to set against *)
(* it: the simulation by which the worker came to own the belief.           *)

Owns(w, p) == contributor[p] = w /\ K[p] # NoBelief /\ ~Strong(K[p])
Blamed(w, p) == \E i \in 1..Len(calibration) : calibration[i] = <<w, p>>
Owed(w) == {p \in Props : ~Unclaimed(p) /\ (Owns(w, p) \/ Blamed(w, p))}

\* A property is blamed on somebody once: it is settled from then on.
BlamedOnce ==
  /\ contributor \in [Props -> Workers \cup {NoOne}]
  /\ calibration \in Seq(Workers \X Props)
  /\ \A i \in 1..Len(calibration) : Closed(calibration[i][2])
  /\ \A i, k \in 1..Len(calibration) : calibration[i][2] = calibration[k][2] => i = k

ClaimInv ==
  /\ BlamedOnce
  /\ proofs \in [Workers -> Nat] /\ bugs \in [Workers -> Nat] /\ claims \in [Workers -> Nat]
  /\ \A w \in Workers : Cardinality(Owed(w)) <= claims[w]

LEMMA SeqOfSet ==
  ASSUME NEW S, IsFiniteSet(S)
  PROVE  /\ SetToSeq(S) \in Seq(S) /\ Len(SetToSeq(S)) \in Nat
         /\ \A a, b \in 1..Len(SetToSeq(S)) : SetToSeq(S)[a] = SetToSeq(S)[b] => a = b
<1> DEFINE n == Cardinality(S)
<1>1. n \in Nat /\ ExistsBijection(1..n, S)
  BY FS_CardinalityType
<1>2. \E f \in [1..n -> S] : IsInjective(f)
  BY <1>1 DEF ExistsBijection, Bijection, Injection, IsInjective
<1>3. SetToSeq(S) \in [1..n -> S] /\ IsInjective(SetToSeq(S))
  BY <1>2 DEF SetToSeq
<1> HIDE DEF n
<1>4. SetToSeq(S) \in Seq(S) /\ Len(SetToSeq(S)) = n
  BY <1>1, <1>3
<1> QED
  BY <1>1, <1>3, <1>4 DEF IsInjective

LEMMA ContributorEffect ==
  ASSUME CoreInv, BlamedOnce, NEW w \in Workers, NEW phi \in Props, NEW result,
         Learns(w, phi, result), NEW psi \in Props
  PROVE  contributor'[psi] = IF Receives(psi, phi) /\ Accepted(K[psi], CopyFor(psi, phi, result))
                             THEN w ELSE contributor[psi]
<1> DEFINE js    == Published(JudgmentOf(phi, result))
           On(q) == {j \in js : j.phi = q}
<1>1. contributor'[psi] = IF \E j \in On(psi) : Accepted(K[psi], j) THEN w ELSE contributor[psi]
  BY DEF Learns, Learn, PublishAll
<1>2. \A q \in Props : CopyFor(q, phi, result).phi = q
  BY CopyFacts
<1>3. js = {CopyFor(q, phi, result) : q \in {r \in Props : Receives(r, phi)}}
  BY PublishedJudgments
<1>4. On(psi) = IF Receives(psi, phi) THEN {CopyFor(psi, phi, result)} ELSE {}
  BY <1>2, <1>3
<1> HIDE DEF On
<1> QED
  BY <1>1, <1>4

\* The blame of one step: open properties, each with its owner, none twice.
LEMMA BlameEffect ==
  ASSUME CoreInv, BlamedOnce, NEW w \in Workers, NEW phi \in Props, NEW result,
         Learns(w, phi, result)
  PROVE  \E new \in Seq(Workers \X Props) :
           /\ calibration' = calibration \o new
           /\ \A a, b \in 1..Len(new) : new[a][2] = new[b][2] => a = b
           /\ \A a \in 1..Len(new) :
                LET p == new[a][2] IN
                /\ new[a] = <<contributor[p], p>> /\ p \in Props
                /\ K[p] # NoBelief /\ ~Strong(K[p]) /\ ~Closed(p) /\ Closed(p)'
<1> DEFINE js  == Published(JudgmentOf(phi, result))
           T   == {<<contributor[j.phi], j.phi>> : j \in {i \in js : Refutes(w, i)}}
<1>1. calibration' = calibration \o SetToSeq(T)
  BY DEF Learns, Learn, PublishAll
<1>2. js = {CopyFor(q, phi, result) : q \in {r \in Props : Receives(r, phi)}}
  BY PublishedJudgments
<1>3. ASSUME NEW e \in T
      PROVE  \E p \in Props : /\ e = <<contributor[p], p>> /\ e \in Workers \X Props
                              /\ K[p] # NoBelief /\ ~Strong(K[p]) /\ ~Closed(p) /\ Closed(p)'
  <2>1. PICK j \in js : Refutes(w, j) /\ e = <<contributor[j.phi], j.phi>>
    OBVIOUS
  <2>2. PICK p \in Props : Receives(p, phi) /\ j = CopyFor(p, phi, result)
    BY <1>2
  <2>3. j.phi = p /\ j # NoBelief
    BY <2>2, CopyFacts
  <2> HIDE DEF js, T
  <2>4. K[p] # NoBelief /\ ~Strong(K[p]) /\ ~Closed(p) /\ j.cex
    BY <2>1, <2>3 DEF Refutes, Closed, Proven, Disproven, ProvenIn, DisprovenIn, Strong
  <2>5. K'[p] = j
    <3>1. Accepted(K[p], j)
      BY <2>4 DEF Accepted, RankGeq, Strong
    <3> QED
      BY <2>2, <3>1, LearnEffect DEF Learns, Merged
  <2>6. Closed(p)'
    BY <2>3, <2>4, <2>5 DEF Closed, Disproven, DisprovenIn
  <2>7. e \in Workers \X Props
    BY <2>1, <2>3 DEF Refutes, BlamedOnce
  <2> QED
    BY <2>1, <2>3, <2>4, <2>6, <2>7
<1>4. IsFiniteSet(T)
  <2>1. IsFiniteSet(Workers \X Props)
    BY FS_Product, CampaignAssumptions DEF CampaignAssumptions
  <2>2. T \in SUBSET (Workers \X Props)
    BY <1>3
  <2> QED
    BY <2>1, <2>2, FS_Subset
<1> HIDE DEF js, T
<1>5. PICK new \in Seq(T) :
        /\ new = SetToSeq(T)
        /\ \A a, b \in 1..Len(new) : new[a] = new[b] => a = b
  BY <1>4, SeqOfSet
<1>6. new \in Seq(Workers \X Props)
  BY <1>3, <1>5
<1>7. ASSUME NEW a \in 1..Len(new)
      PROVE  LET p == new[a][2] IN
             /\ new[a] = <<contributor[p], p>> /\ p \in Props
             /\ K[p] # NoBelief /\ ~Strong(K[p]) /\ ~Closed(p) /\ Closed(p)'
  <2>1. new[a] \in T
    BY <1>5
  <2>2. PICK p \in Props : /\ new[a] = <<contributor[p], p>>
                           /\ K[p] # NoBelief /\ ~Strong(K[p]) /\ ~Closed(p) /\ Closed(p)'
    BY <1>3, <2>1
  <2>3. new[a][2] = p
    BY <2>2
  <2> QED
    BY <2>2, <2>3
<1>8. calibration' = calibration \o new
  BY <1>1, <1>5
<1>9. \A a, b \in 1..Len(new) : new[a][2] = new[b][2] => a = b
  <2> SUFFICES ASSUME NEW a \in 1..Len(new), NEW b \in 1..Len(new), new[a][2] = new[b][2]
               PROVE  a = b
    OBVIOUS
  <2>1. new[a] = <<contributor[new[a][2]], new[a][2]>> /\ new[b] = <<contributor[new[b][2]], new[b][2]>>
    BY <1>7
  <2> QED
    BY <1>5, <2>1
<1> QED
  BY <1>6, <1>7, <1>8, <1>9
LEMMA OnceLearn ==
  ASSUME CoreInv, [Next]_vars, BlamedOnce, NEW w \in Workers, NEW phi \in Props, NEW result,
         Learns(w, phi, result)
  PROVE  BlamedOnce'
<1>1. PICK new \in Seq(Workers \X Props) :
        /\ calibration' = calibration \o new
        /\ \A a, b \in 1..Len(new) : new[a][2] = new[b][2] => a = b
        /\ \A a \in 1..Len(new) :
             LET p == new[a][2] IN
             /\ new[a] = <<contributor[p], p>> /\ p \in Props
             /\ K[p] # NoBelief /\ ~Strong(K[p]) /\ ~Closed(p) /\ Closed(p)'
  BY BlameEffect
<1> DEFINE old == calibration
           n   == Len(old)
<1>2. old \in Seq(Workers \X Props) /\ n \in Nat /\ Len(new) \in Nat
  BY DEF BlamedOnce
<1>3. /\ calibration' \in Seq(Workers \X Props) /\ Len(calibration') = n + Len(new)
      /\ \A i \in 1..(n + Len(new)) :
           calibration'[i] = IF i <= n THEN old[i] ELSE new[i - n]
  BY <1>1, <1>2
<1>4. \A i \in 1..n : old[i][2] \in Props /\ Closed(old[i][2])
  BY <1>2 DEF BlamedOnce
<1>5. \A p \in Props : Closed(p) => Closed(p)'
  BY FinalStep DEF Closed, Proven, Disproven
<1>6. ASSUME NEW i \in 1..Len(calibration')
      PROVE  Closed(calibration[i][2])'
  <2>1. PICK p : p = calibration'[i][2]
    OBVIOUS
  <2>2. CASE i <= n
    <3>1. p \in Props /\ Closed(p)
      BY <1>2, <1>3, <1>4, <2>1, <2>2
    <3>2. Closed(p)'
      BY <1>5, <3>1
    <3> QED
      BY <2>1, <3>2 DEF Closed, Proven, Disproven, ProvenIn, DisprovenIn
  <2>3. CASE ~(i <= n)
    <3>1. i - n \in 1..Len(new) /\ p = new[i - n][2]
      BY <1>2, <1>3, <2>1, <2>3
    <3>2. Closed(p)'
      BY <1>1, <3>1
    <3> QED
      BY <2>1, <3>2 DEF Closed, Proven, Disproven, ProvenIn, DisprovenIn
  <2> QED
    BY <2>2, <2>3
<1>7. ASSUME NEW i \in 1..Len(calibration'), NEW k \in 1..Len(calibration'),
             calibration'[i][2] = calibration'[k][2]
      PROVE  i = k
  <2>1. \A a \in 1..Len(new) : new[a][2] \in Props /\ ~Closed(new[a][2])
    BY <1>1
  <2>2. i \in 1..(n + Len(new)) /\ k \in 1..(n + Len(new))
    BY <1>3
  <2>3. CASE i <= n /\ k <= n
    <3>1. i \in 1..n /\ k \in 1..n /\ old[i][2] = old[k][2]
      BY <1>2, <1>3, <1>7, <2>2, <2>3
    <3> QED
      BY <3>1 DEF BlamedOnce
  <2>4. CASE ~(i <= n) /\ ~(k <= n)
    <3>1. i - n \in 1..Len(new) /\ k - n \in 1..Len(new) /\ new[i - n][2] = new[k - n][2]
      BY <1>2, <1>3, <1>7, <2>2, <2>4
    <3>2. i - n = k - n
      BY <1>1, <3>1
    <3> QED
      BY <1>2, <2>2, <3>2
  <2>5. ASSUME NEW a \in 1..(n + Len(new)), NEW b \in 1..(n + Len(new)), a <= n, ~(b <= n),
               calibration'[a][2] = calibration'[b][2]
        PROVE  FALSE
    <3>1. a \in 1..n /\ b - n \in 1..Len(new) /\ old[a][2] = new[b - n][2]
      BY <1>2, <1>3, <2>5
    <3> QED
      BY <1>4, <2>1, <3>1
  <2> QED
    BY <1>7, <2>2, <2>3, <2>4, <2>5
<1>8. contributor' \in [Props -> Workers \cup {NoOne}]
  <2>1. \A psi \in Props : contributor'[psi] \in {w, contributor[psi]}
    BY ContributorEffect
  <2>2. contributor' = [psi \in Props |-> contributor'[psi]]
    BY DEF Learns, Learn, PublishAll
  <2> QED
    BY <2>1, <2>2 DEF BlamedOnce
<1> QED
  BY <1>3, <1>6, <1>7, <1>8 DEF BlamedOnce

\* What a learning step may add to what is owed: the obligation that the
\* worker has just simulated, which is a claim.
LEMMA OwedLearn ==
  ASSUME CoreInv, PassInv, BlamedOnce, NEW w \in Workers, NEW phi \in Props, NEW result,
         Learns(w, phi, result), NEW v \in Workers
  PROVE  Owed(v)' \subseteq
           Owed(v) \cup (IF v = w /\ Method(w, phi) = "sim" /\ result = "pass" THEN {phi} ELSE {})
<1> SUFFICES ASSUME NEW p \in Props, p \in Owed(v)', p \notin Owed(v)
             PROVE  p = phi /\ v = w /\ Method(w, phi) = "sim" /\ result = "pass"
  BY DEF Owed
<1>0. board' = board /\ Conclusive(result)
  BY DEF Learns, Learn
<1>1. credit'[p].proofs = 0 /\ \A psi \in Props : p \notin board.shares[psi]
  <2>1. credit'[p].proofs \in Nat
    <3>1. credit[p].proofs \in Nat
      BY DEF CoreInv
    <3> QED
      BY <3>1, LearnProofs
  <2> QED
    BY <1>0, <2>1 DEF Owed, Unclaimed
<1>2. ~Unclaimed(p) /\ credit[p].proofs = 0
  <2>1. credit[p].proofs \in Nat
    BY DEF CoreInv
  <2>2. credit[p].proofs = 0
    BY <1>1, <2>1, LearnProofs
  <2> QED
    BY <1>1, <2>2 DEF Unclaimed
<1>3. ~Owns(v, p) /\ ~Blamed(v, p)
  BY <1>2 DEF Owed
<1>4. ~(Blamed(v, p)')
  <2>1. PICK new \in Seq(Workers \X Props) :
          /\ calibration' = calibration \o new
          /\ \A a \in 1..Len(new) :
               LET q == new[a][2] IN
               /\ new[a] = <<contributor[q], q>> /\ q \in Props
               /\ K[q] # NoBelief /\ ~Strong(K[q])
    <3> HIDE DEF Learns
    <3> QED
      BY BlameEffect
  <2> SUFFICES ASSUME NEW i \in 1..Len(calibration'), calibration'[i] = <<v, p>>
               PROVE  FALSE
    BY DEF Blamed
  <2> DEFINE n == Len(calibration)
  <2>2. calibration \in Seq(Workers \X Props) /\ n \in Nat /\ Len(new) \in Nat
    BY DEF BlamedOnce
  <2>3. Len(calibration') = n + Len(new)
        /\ calibration'[i] = IF i <= n THEN calibration[i] ELSE new[i - n]
    BY <2>1, <2>2
  <2>4. CASE i <= n
    <3>1. i \in 1..n /\ calibration[i] = <<v, p>>
      BY <2>2, <2>3, <2>4
    <3> QED
      BY <1>3, <3>1 DEF Blamed
  <2>5. CASE ~(i <= n)
    <3>1. i - n \in 1..Len(new) /\ new[i - n] = <<v, p>>
      BY <2>2, <2>3, <2>5
    <3>2. new[i - n][2] = p
      BY <3>1
    <3>3. new[i - n] = <<contributor[p], p>> /\ K[p] # NoBelief /\ ~Strong(K[p])
      BY <2>1, <3>1, <3>2
    <3>4. contributor[p] = v
      BY <3>1, <3>3
    <3> QED
      BY <1>3, <3>3, <3>4 DEF Owns
  <2> QED
    BY <2>4, <2>5
<1>5. contributor'[p] = v /\ K'[p] # NoBelief /\ ~Strong(K'[p])
  BY <1>4 DEF Owed, Owns
<1>6. Learn(w, phi, Method(w, phi), result)
  BY DEF Learns
<1>7. Receives(p, phi) /\ Accepted(K[p], CopyFor(p, phi, result))
  <2>1. CASE ~Receives(p, phi)
    <3>1. K'[p] = K[p] /\ contributor'[p] = contributor[p]
      BY <1>6, <2>1, LearnEffect, ContributorEffect
    <3> QED
      BY <1>3, <1>5, <3>1 DEF Owns
  <2>2. CASE Receives(p, phi) /\ ~Accepted(K[p], CopyFor(p, phi, result))
    <3>1. K'[p] = K[p] /\ contributor'[p] = contributor[p]
      BY <1>6, <2>2, LearnEffect, ContributorEffect DEF Merged
    <3> QED
      BY <1>3, <1>5, <3>1 DEF Owns
  <2> QED
    BY <2>1, <2>2
<1>8. p = phi
  BY <1>1, <1>7 DEF Receives
<1>9. v = w
  BY <1>5, <1>7, ContributorEffect
<1>10. result \in {"pass", "bounded_pass"}
  <2>1. K'[p] = CopyFor(p, phi, result)
    BY <1>6, <1>7, LearnEffect DEF Merged
  <2>2. CopyFor(p, phi, result).warrant # "DEDUCTIVE" /\ ~CopyFor(p, phi, result).cex
    BY <1>5, <2>1 DEF Strong
  <2>3. result # "proved"
    BY <2>2, CopyFacts
  <2>4. result # "counterexample"
    BY <2>2, CopyFacts
  <2> QED
    BY <1>0, <2>3, <2>4 DEF Conclusive
<1>11. Method(w, phi) = "sim"
  <2> SUFFICES ASSUME Method(w, phi) # "sim" PROVE FALSE
    OBVIOUS
  <2> DEFINE js == Published(JudgmentOf(phi, result))
  <2>1. credit' = Credited(js, phi, Method(w, phi), result)
    BY <1>6 DEF Learn
  <2>2. \E j \in js : j.phi = p
    BY <1>8 DEF Published, JudgmentOf
  <2> HIDE DEF js
  <2>3. credit'[p].proofs = credit[p].proofs + (1 - 0)
    BY <1>10, <2>1, <2>2 DEF Credited
  <2> QED
    BY <1>1, <1>2, <2>3
<1>12. result = "pass"
  BY <1>10, <1>11 DEF Learns, Evidence, SimRun
<1> QED
  BY <1>8, <1>9, <1>11, <1>12

LEMMA OwedFinite ==
  ASSUME NEW w
  PROVE  IsFiniteSet(Owed(w)) /\ Cardinality(Owed(w)) \in Nat
<1>1. IsFiniteSet(Props) /\ Owed(w) \in SUBSET Props
  BY CampaignAssumptions DEF CampaignAssumptions, Owed
<1> QED
  BY <1>1, FS_Subset, FS_CardinalityType

LEMMA ClaimLearn ==
  ASSUME CoreInv, PassInv, ClaimInv, [Next]_vars, NEW w \in Workers, NEW phi \in Props,
         NEW result, Learns(w, phi, result)
  PROVE  ClaimInv'
<1> DEFINE m == Method(w, phi)
           claimed == m = "sim" /\ result = "pass"
<1>1. BlamedOnce'
  BY OnceLearn DEF ClaimInv
<1>2. /\ claims' = [claims EXCEPT ![w] = @ + (IF claimed THEN 1 ELSE 0)]
      /\ proofs' = [proofs EXCEPT ![w] = @ + (IF Accepted(K[JudgmentOf(phi, result).phi], JudgmentOf(phi, result))
                                                /\ result = "proved" THEN 1 ELSE 0)]
      /\ bugs' = [bugs EXCEPT ![w] = @ + (IF Accepted(K[JudgmentOf(phi, result).phi], JudgmentOf(phi, result))
                                            /\ result = "counterexample" THEN 1 ELSE 0)]
  BY DEF Learns, Learn, Record
<1>3. claims' \in [Workers -> Nat] /\ proofs' \in [Workers -> Nat] /\ bugs' \in [Workers -> Nat]
  <2>1. \A x, y \in Nat : x + y \in Nat
    OBVIOUS
  <2> HIDE DEF claimed
  <2> QED
    BY <1>2, <2>1 DEF ClaimInv
<1>4. ASSUME NEW v \in Workers
      PROVE  Cardinality(Owed(v)') <= claims'[v]
  <2>1. Owed(v)' \subseteq Owed(v) \cup (IF v = w /\ claimed THEN {phi} ELSE {})
    BY OwedLearn DEF ClaimInv
  <2>2. IsFiniteSet(Owed(v)) /\ Cardinality(Owed(v)) \in Nat
    BY OwedFinite
  <2>3. Cardinality(Owed(v)) <= claims[v] /\ claims[v] \in Nat
    BY DEF ClaimInv
  <2>4. CASE v = w /\ claimed
    <3>1. claims'[v] = claims[v] + 1
      BY <1>2, <2>4 DEF ClaimInv
    <3>2. /\ IsFiniteSet(Owed(v) \cup {phi})
          /\ Cardinality(Owed(v) \cup {phi}) <= Cardinality(Owed(v)) + 1
      <4>1. /\ IsFiniteSet(Owed(v) \cup {phi})
            /\ Cardinality(Owed(v) \cup {phi}) =
                 IF phi \in Owed(v) THEN Cardinality(Owed(v)) ELSE Cardinality(Owed(v)) + 1
        <5> HIDE DEF Owed
        <5> QED
          BY <2>2, FS_AddElement
      <4> QED
        BY <2>2, <4>1
    <3>3. /\ Cardinality(Owed(v)') <= Cardinality(Owed(v) \cup {phi})
          /\ Cardinality(Owed(v)') \in Nat /\ Cardinality(Owed(v) \cup {phi}) \in Nat
      <4>1. Owed(v)' \in SUBSET (Owed(v) \cup {phi})
        BY <2>1, <2>4
      <4> QED
        BY <3>2, <4>1, FS_Subset, FS_CardinalityType
    <3> QED
      BY <2>2, <2>3, <3>1, <3>2, <3>3
  <2>5. CASE ~(v = w /\ claimed)
    <3>1. claims'[v] = claims[v]
      BY <1>2, <2>3, <2>5 DEF ClaimInv
    <3>2. Owed(v)' \in SUBSET Owed(v)
      BY <2>1, <2>5
    <3>3. Cardinality(Owed(v)') <= Cardinality(Owed(v)) /\ Cardinality(Owed(v)') \in Nat
      BY <2>2, <3>2, FS_Subset, FS_CardinalityType
    <3> QED
      BY <2>2, <2>3, <3>1, <3>3
  <2> QED
    BY <2>4, <2>5
<1> QED
  BY <1>1, <1>3, <1>4 DEF ClaimInv

LEMMA ClaimStep == CoreInv /\ PassInv /\ ClaimInv /\ [Next]_vars => ClaimInv'
<1> SUFFICES ASSUME CoreInv, PassInv, ClaimInv, [Next]_vars PROVE ClaimInv'
  OBVIOUS
<1>1. CASE UNCHANGED <<K, contributor, calibration, board, credit, repVars>>
  BY <1>1 DEF ClaimInv, BlamedOnce, Owed, Owns, Blamed, Unclaimed, Closed, Proven, Disproven,
              ProvenIn, DisprovenIn, repVars
<1>2. CASE Iterate
  BY <1>1, <1>2, IterateCases, ClaimLearn DEF Fail, NotCertified
<1> QED
  BY <1>1, <1>2 DEF Next, Stop, vars

LEMMA ClaimInit == Init => ClaimInv
<1> SUFFICES ASSUME Init PROVE ClaimInv
  OBVIOUS
<1>1. \A w \in Workers : Owed(w) = {}
  BY DEF Init, Owed, Owns, Blamed
<1>2. \A w \in Workers : Cardinality(Owed(w)) = 0
  BY <1>1, FS_EmptySet
<1> QED
  BY <1>2 DEF Init, ClaimInv, BlamedOnce

\* Where all that is blamed on a worker was claimed, it is blamed for at most
\* what it claimed.
LEMMA RefutedBound ==
  ASSUME CoreInv, ClaimInv, NEW w \in Workers
  PROVE  /\ Refuted(w) \in Nat
         /\ (\A i \in 1..Len(calibration) : calibration[i][1] = w => ~Unclaimed(calibration[i][2]))
              => Refuted(w) <= claims[w]
<1> DEFINE I == {i \in 1..Len(calibration) : calibration[i][1] = w}
<1>1. calibration \in Seq(Workers \X Props) /\ Len(calibration) \in Nat
  BY DEF ClaimInv, BlamedOnce
<1>2. IsFiniteSet(I) /\ Cardinality(I) \in Nat
  <2>1. IsFiniteSet(1..Len(calibration)) /\ I \in SUBSET (1..Len(calibration))
    BY <1>1, FS_Interval
  <2> QED
    BY <2>1, FS_Subset, FS_CardinalityType
<1>3. ASSUME \A i \in 1..Len(calibration) : calibration[i][1] = w => ~Unclaimed(calibration[i][2])
      PROVE  Cardinality(I) <= claims[w]
  <2> DEFINE at == [i \in I |-> calibration[i][2]]
  <2>1. \A i \in I : at[i] \in Owed(w)
    <3> SUFFICES ASSUME NEW i \in I PROVE calibration[i][2] \in Owed(w)
      OBVIOUS
    <3>1. calibration[i] \in Workers \X Props
      BY <1>1
    <3>2. calibration[i] = <<w, calibration[i][2]>> /\ calibration[i][2] \in Props
      BY <3>1
    <3> QED
      BY <1>3, <3>2 DEF Owed, Blamed
  <2>2. \A i, k \in I : at[i] = at[k] => i = k
    BY DEF ClaimInv, BlamedOnce
  <2>3. at \in Injection(I, Owed(w))
    BY <2>1, <2>2 DEF Injection, IsInjective
  <2> HIDE DEF at, I
  <2>4. Cardinality(I) <= Cardinality(Owed(w))
    BY <2>3, OwedFinite, FS_Injection
  <2> QED
    BY <1>2, <2>4, OwedFinite DEF ClaimInv
<1> QED
  BY <1>2, <1>3 DEF Refuted

LEMMA PenaltyLowers ==
  ASSUME NEW M \in Nat, NEW R \in Nat, NEW c \in Nat, R <= c
  PROVE  (M - 2000 * R) * (c - R) <= M * c
<1> DEFINE a == M - 2000 * R
           d == c - R
<1>1. a \in Int /\ a <= M /\ d \in Nat /\ d <= c
  OBVIOUS
<1> HIDE DEF a, d
<1>2. a * d <= M * d
  BY <1>1
<1>3. M * d <= M * c
  BY <1>1
<1>4. a * d \in Int /\ M * d \in Int /\ M * c \in Int
  BY <1>1
<1> QED
  BY <1>2, <1>3, <1>4 DEF a, d

(* A refuted pass never raises the raw reputation of the worker that made   *)
(* it: what is refuted was claimed, claim by claim, so that the two factors *)
(* of the report are not negative together. Shared and bounded passes are   *)
(* the exception that the property names.                                   *)
THEOREM RefutationCosts == Spec => []MiscalibrationNeverPays
<1>1. ASSUME CoreInv, ClaimInv, ValueInv, NEW w \in Workers,
             \A i \in 1..Len(calibration) : calibration[i][1] = w => ~Unclaimed(calibration[i][2])
      PROVE  ~(Raw(w) > Unpenalised(w))
  <2> DEFINE M == Merits(w)
             R == Refuted(w)
             c == claims[w]
  <2>1. M \in Nat
    <3>1. value[w] \in Nat /\ bugs[w] \in Nat /\ proofs[w] \in Nat
      BY <1>1 DEF ClaimInv, ValueInv
    <3> QED
      BY <3>1 DEF Merits
  <2>2. R \in Nat /\ c \in Nat /\ R <= c
    BY <1>1, RefutedBound DEF ClaimInv
  <2>3. Score(w) = M - 2000 * R
    BY DEF Score
  <2>4. /\ Unpenalised(w) = M * (IF c = 0 THEN 1 ELSE c)
        /\ Raw(w) = LET r == IF c = 0 THEN Score(w) ELSE Score(w) * (c - R)
                    IN IF r > 0 THEN r ELSE 0
    BY DEF Unpenalised, Raw
  <2> HIDE DEF M, R, c
  <2>5. CASE c = 0
    BY <2>1, <2>2, <2>3, <2>4, <2>5
  <2>6. CASE c # 0
    <3>1. Unpenalised(w) = M * c
      BY <2>4, <2>6
    <3>2. M * c \in Nat
      BY <2>1, <2>2
    <3>3. (M - 2000 * R) * (c - R) <= M * c
      BY <2>1, <2>2, PenaltyLowers
    <3>4. (M - 2000 * R) * (c - R) \in Int
      BY <2>1, <2>2
    <3>5. Raw(w) \in {(M - 2000 * R) * (c - R), 0}
      BY <2>3, <2>4, <2>6
    <3> QED
      BY <3>1, <3>2, <3>3, <3>4, <3>5
  <2> QED
    BY <2>5, <2>6
<1>2. CoreInv /\ ClaimInv /\ ValueInv => MiscalibrationNeverPays
  BY <1>1 DEF MiscalibrationNeverPays
<1> QED
  BY <1>2, CoreInit, CoreStep, PassInit, PassStep, ClaimInit, ClaimStep, ValueInit, ValueStep,
     PTL DEF Spec

(***************************************************************************)
(* The judgment bus, alone and in the experiment of BusConfluence.         *)
(***************************************************************************)
LEMMA MessageFacts ==
  /\ \A j \in Messages : j \in Judgments /\ j.n \in Int /\ j.phi \in Props /\ j # NoBelief
BY MessagesAssumption, NamesAssumption DEF Judgments

(* Authority is a total preorder of the judgments that can be published.    *)
LEMMA RankOrder ==
  ASSUME NEW i \in Messages, NEW j \in Messages, NEW k \in Messages
  PROVE  /\ RankGeq(i, i)
         /\ RankGeq(i, j) \/ RankGeq(j, i)
         /\ RankGeq(i, j) /\ RankGeq(j, k) => RankGeq(i, k)
BY MessageFacts DEF RankGeq, Strong

\* Strong beliefs are the closed ones.
LEMMA ClosedIsStrong ==
  ASSUME NEW phi \in Props, K[phi] # NoBelief
  PROVE  Closed(phi) <=> Strong(K[phi])
BY DEF Closed, Proven, Disproven, ProvenIn, DisprovenIn, Strong

-----------------------------------------------------------------------------
BusInv == BusTypeOK /\ BeliefIsStrongest

LEMMA BusInitInv == BusInit => BusInv
BY DEF BusInit, BusInv, BusTypeOK, BeliefIsStrongest

\* One publish touches one property, and leaves there the stronger belief.
LEMMA PublishEffect ==
  ASSUME BusTypeOK, NEW w \in Workers, NEW j \in Messages, Publish(w, j)
  PROVE  /\ j.phi \in Props
         /\ K' \in [Props -> Messages \cup {NoBelief}]
         /\ contributor' \in [Props -> Workers \cup {NoOne}]
         /\ K'[j.phi] \in {j, K[j.phi]} \ {NoBelief}
         /\ \A phi \in Props \ {j.phi} : K'[phi] = K[phi] /\ contributor'[phi] = contributor[phi]
         /\ Accepted(K[j.phi], j) => K'[j.phi] = j /\ contributor'[j.phi] = w
         /\ ~Accepted(K[j.phi], j) =>
              /\ K[j.phi] \in Messages /\ K'[j.phi] = K[j.phi]
              /\ contributor'[j.phi] = contributor[j.phi]
BY MessageFacts DEF BusTypeOK, Publish, Merged, Accepted

LEMMA PublishTypeOK ==
  ASSUME BusTypeOK, NEW w \in Workers, NEW j \in Messages, Publish(w, j)
  PROVE  BusTypeOK'
<1>1. \A phi \in Props : K'[phi] # NoBelief => K'[phi].phi = phi
  BY PublishEffect DEF BusTypeOK
<1>2. history' \subseteq Workers \X Messages
  BY DEF BusTypeOK, Publish
<1>3. calibration' \in Seq(Workers \X Props)
  <2>1. CASE Refutes(w, j)
    <3>1. <<contributor[j.phi], j.phi>> \in Workers \X Props
      BY <2>1, MessageFacts DEF Refutes, BusTypeOK
    <3>2. calibration' = Append(calibration, <<contributor[j.phi], j.phi>>)
      BY <2>1 DEF Publish
    <3>3. calibration \in Seq(Workers \X Props)
      BY DEF BusTypeOK
    <3> QED
      BY <3>1, <3>2, <3>3
  <2>2. CASE ~Refutes(w, j)
    BY <2>2 DEF Publish, BusTypeOK
  <2> QED
    BY <2>1, <2>2
<1> QED
  BY PublishEffect, <1>1, <1>2, <1>3 DEF BusTypeOK

\* Beliefs and their owners, each the strongest of a log of judgments.
StrongestOf(beliefs, owners, log) ==
  \A phi \in Props :
    /\ beliefs[phi] # NoBelief => <<owners[phi], beliefs[phi]>> \in log
    /\ \A h \in log : h[2].phi = phi => beliefs[phi] # NoBelief /\ RankGeq(beliefs[phi], h[2])

\* ... stay so when a judgment is merged into them and logged.
LEMMA StrongestStays ==
  ASSUME NEW beliefs \in [Props -> Messages \cup {NoBelief}],
         NEW owners \in [Props -> Workers \cup {NoOne}],
         NEW log \in SUBSET (Workers \X Messages),
         StrongestOf(beliefs, owners, log),
         NEW w \in Workers, NEW j \in Messages
  PROVE  StrongestOf([beliefs EXCEPT ![j.phi] = Merged(@, j)],
                     [owners EXCEPT ![j.phi] = IF Accepted(beliefs[j.phi], j) THEN w ELSE @],
                     log \cup {<<w, j>>})
<1> DEFINE after == [beliefs EXCEPT ![j.phi] = Merged(@, j)]
           whose == [owners EXCEPT ![j.phi] = IF Accepted(beliefs[j.phi], j) THEN w ELSE @]
           told  == log \cup {<<w, j>>}
<1> SUFFICES ASSUME NEW phi \in Props
             PROVE  /\ after[phi] # NoBelief => <<whose[phi], after[phi]>> \in told
                    /\ \A h \in told : h[2].phi = phi =>
                         after[phi] # NoBelief /\ RankGeq(after[phi], h[2])
  BY DEF StrongestOf
<1>1. CASE phi # j.phi
  <2>1. after[phi] = beliefs[phi] /\ whose[phi] = owners[phi]
    BY <1>1
  <2> QED
    BY <1>1, <2>1 DEF StrongestOf
<1>2. CASE phi = j.phi /\ Accepted(beliefs[phi], j)
  <2>1. after[phi] = j /\ whose[phi] = w /\ j # NoBelief
    BY <1>2, MessageFacts DEF Merged
  <2>2. ASSUME NEW h \in log, h[2].phi = phi
        PROVE  RankGeq(j, h[2])
    <3>1. h[2] \in Messages
      OBVIOUS
    <3>2. beliefs[phi] \in Messages /\ RankGeq(beliefs[phi], h[2])
      BY <2>2 DEF StrongestOf
    <3>3. RankGeq(j, beliefs[phi])
      BY <1>2, <3>2, MessageFacts DEF Accepted
    <3> QED
      BY <3>1, <3>2, <3>3, RankOrder
  <2> QED
    BY <2>1, <2>2, RankOrder
<1>3. CASE phi = j.phi /\ ~Accepted(beliefs[phi], j)
  <2>1. after[phi] = beliefs[phi] /\ whose[phi] = owners[phi] /\ beliefs[phi] \in Messages
    BY <1>3 DEF Merged, Accepted
  <2>2. RankGeq(beliefs[phi], j) /\ beliefs[phi] # NoBelief
    BY <1>3, <2>1, RankOrder, MessageFacts DEF Accepted
  <2> QED
    BY <1>3, <2>1, <2>2 DEF StrongestOf
<1> QED
  BY <1>1, <1>2, <1>3

LEMMA PublishStrongest ==
  ASSUME BusTypeOK, BeliefIsStrongest, NEW w \in Workers, NEW j \in Messages, Publish(w, j)
  PROVE  BeliefIsStrongest'
<1>1. StrongestOf(K, contributor, history)
  BY DEF StrongestOf, BeliefIsStrongest
<1>2. StrongestOf(K', contributor', history')
  BY <1>1, StrongestStays DEF Publish, BusTypeOK
<1> QED
  BY <1>2 DEF StrongestOf, BeliefIsStrongest

\* A closed property stays closed, and beliefs only grow in authority.
LEMMA PublishMonotone ==
  ASSUME BusTypeOK, NEW w \in Workers, NEW j \in Messages, Publish(w, j), NEW phi \in Props
  PROVE  /\ Closed(phi) => Closed(phi)'
         /\ K[phi] # NoBelief => K'[phi] # NoBelief /\ RankGeq(K'[phi], K[phi])
<1>1. K[phi] \in Messages \cup {NoBelief}
  BY DEF BusTypeOK
<1>2. K[phi] # NoBelief => K'[phi] # NoBelief /\ RankGeq(K'[phi], K[phi])
  <2>1. CASE phi # j.phi
    BY <1>1, <2>1, PublishEffect, RankOrder
  <2>2. CASE phi = j.phi
    BY <1>1, <2>2, PublishEffect, RankOrder, MessageFacts DEF Accepted
  <2> QED
    BY <2>1, <2>2
<1>3. Closed(phi) => Closed(phi)'
  BY <1>2 DEF Closed, Proven, Disproven, ProvenIn, DisprovenIn, RankGeq, Strong
<1> QED
  BY <1>2, <1>3

\* The owner of a belief has a judgment that no other published one outranks.
LEMMA OwnerIsStrongest ==
  ASSUME BusTypeOK, BeliefIsStrongest, NEW phi \in Props
  PROVE  /\ K[phi] # NoBelief => contributor[phi] \in Strongest(phi) /\ contributor[phi] \in Workers
         /\ Strongest(phi) # {} => K[phi] # NoBelief
<1>1. Strongest(phi) # {} => K[phi] # NoBelief
  BY DEF Strongest, BeliefIsStrongest
<1>2. ASSUME K[phi] # NoBelief
      PROVE  contributor[phi] \in Strongest(phi) /\ contributor[phi] \in Workers
  <2>1. PICK g \in history : g = <<contributor[phi], K[phi]>>
    BY <1>2 DEF BeliefIsStrongest
  <2>2. g[1] = contributor[phi] /\ g[2] = K[phi] /\ K[phi].phi = phi
    BY <1>2, <2>1 DEF BusTypeOK
  <2>3. \A o \in history : o[2].phi = phi => RankGeq(g[2], o[2])
    BY <2>2 DEF BeliefIsStrongest
  <2>4. contributor[phi] \in Workers
    BY <2>1 DEF BusTypeOK
  <2> QED
    BY <2>2, <2>3, <2>4 DEF Strongest
<1> QED
  BY <1>1, <1>2

\* A counterexample against a pass of another worker is accepted and settles it.
LEMMA RefutationAccepted ==
  ASSUME BusTypeOK, NEW w \in Workers, NEW j \in Messages, Publish(w, j), Refutes(w, j)
  PROVE  Disproven(j.phi)' /\ contributor'[j.phi] = w
<1>1. j.phi \in Props /\ K[j.phi] # NoBelief /\ ~Closed(j.phi) /\ j.cex
  BY MessageFacts DEF Refutes
<1>2. Accepted(K[j.phi], j)
  BY <1>1, ClosedIsStrong DEF Accepted, RankGeq, Strong
<1>3. K'[j.phi] = j /\ contributor'[j.phi] = w
  BY <1>2, PublishEffect
<1> QED
  BY <1>1, <1>3, MessageFacts DEF Disproven, DisprovenIn

LEMMA PublishBlame ==
  ASSUME BusInv, NEW w \in Workers, NEW j \in Messages, Publish(w, j)
  PROVE  /\ calibration' # calibration =>
              \E phi \in Props : \E v \in Strongest(phi) :
                /\ calibration' = Append(calibration, <<v, phi>>)
                /\ ~Closed(phi) /\ Disproven(phi)' /\ contributor'[phi] # v
         /\ \A phi \in Props : ~Closed(phi) /\ Disproven(phi)' /\ Strongest(phi) # {} =>
              calibration' # calibration \/ contributor'[phi] \in Strongest(phi)
<1>0. BusTypeOK /\ BeliefIsStrongest /\ j.phi \in Props
  BY MessageFacts DEF BusInv
<1>1. CASE Refutes(w, j)
  <2>1. /\ calibration' = Append(calibration, <<contributor[j.phi], j.phi>>)
        /\ K[j.phi] # NoBelief /\ ~Closed(j.phi) /\ contributor[j.phi] # w
    BY <1>1 DEF Publish, Refutes
  <2>2. Disproven(j.phi)' /\ contributor'[j.phi] = w
    BY <1>0, <1>1, RefutationAccepted
  <2>3. contributor[j.phi] \in Strongest(j.phi)
    BY <1>0, <2>1, OwnerIsStrongest
  <2>4. calibration' # calibration
    <3>1. Len(calibration') = Len(calibration) + 1 /\ Len(calibration) \in Nat
      BY <1>0, <2>1 DEF BusTypeOK
    <3> QED
      BY <3>1
  <2> QED
    BY <1>0, <2>1, <2>2, <2>3, <2>4
<1>2. CASE ~Refutes(w, j)
  <2>1. calibration' = calibration
    BY <1>2 DEF Publish
  <2>2. ASSUME NEW phi \in Props, ~Closed(phi), Disproven(phi)', Strongest(phi) # {}
        PROVE  contributor'[phi] \in Strongest(phi)
    <3>1. K[phi] # NoBelief /\ contributor[phi] \in Strongest(phi) /\ contributor[phi] \in Workers
      BY <1>0, <2>2, OwnerIsStrongest
    <3>2. K'[phi] # K[phi]
      BY <2>2 DEF Closed, Disproven, DisprovenIn
    <3>3. phi = j.phi /\ K'[phi] = j /\ contributor'[phi] = w
      BY <1>0, <3>2, PublishEffect
    <3>4. j.cex
      BY <2>2, <3>3 DEF Disproven, DisprovenIn
    <3>5. contributor[phi] = w
      BY <1>2, <2>2, <3>1, <3>3, <3>4, NamesAssumption DEF Refutes
    <3> QED
      BY <3>1, <3>3, <3>5
  <2> QED
    BY <2>1, <2>2
<1> QED
  BY <1>1, <1>2

LEMMA BusNextInv == BusInv /\ [BusNext]_busVars => BusInv'
<1> SUFFICES ASSUME BusInv, [BusNext]_busVars PROVE BusInv'
  OBVIOUS
<1>1. ASSUME NEW w \in Workers, NEW j \in Messages, Publish(w, j)
      PROVE  BusInv'
  BY <1>1, PublishTypeOK, PublishStrongest DEF BusInv
<1>2. CASE UNCHANGED busVars
  BY <1>2 DEF busVars, BusInv, BusTypeOK, BeliefIsStrongest
<1> QED
  BY <1>1, <1>2 DEF BusNext

THEOREM BusInvariance == BusSpec => []BusInv
BY BusInitInv, BusNextInv, PTL DEF BusSpec

-----------------------------------------------------------------------------
(* The theorems.                                                            *)

(* Beliefs, owners, blame and history keep their types, and a belief is     *)
(* filed under the property it is about.                                    *)
THEOREM BusTypes == BusSpec => []BusTypeOK
<1>1. BusInv => BusTypeOK
  BY DEF BusInv
<1> QED
  BY <1>1, BusInvariance, PTL

(* The canonical belief is the strongest judgment published, and belongs to *)
(* a worker that published it.                                              *)
THEOREM StrongestBelief == BusSpec => []BeliefIsStrongest
<1>1. BusInv => BeliefIsStrongest
  BY DEF BusInv
<1> QED
  BY <1>1, BusInvariance, PTL

(* Blame falls only on an unsurpassed pass of another worker, when an open  *)
(* property is refuted, and then falls unless the refuter has such a pass   *)
(* itself or there is none (JudgmentBus.publish).                           *)
THEOREM EarnedBlame == BusSpec => BlameIsEarned
<1>1. BusInv /\ [BusNext]_busVars =>
        [/\ calibration' # calibration =>
              \E phi \in Props : \E w \in Strongest(phi) :
                /\ calibration' = Append(calibration, <<w, phi>>)
                /\ ~Closed(phi) /\ Disproven(phi)' /\ contributor'[phi] # w
         /\ \A phi \in Props : ~Closed(phi) /\ Disproven(phi)' /\ Strongest(phi) # {} =>
              calibration' # calibration \/ contributor'[phi] \in Strongest(phi)]_busVars
  BY PublishBlame DEF BusNext
<1> QED
  BY <1>1, BusInvariance, PTL DEF BusSpec, BlameIsEarned

(* No publish re-opens a property or lowers the authority of a belief.      *)
THEOREM AuthorityMonotone == BusSpec => AuthorityNeverFalls
<1>1. ASSUME BusInv, BusNext, NEW phi \in Props
      PROVE  /\ Closed(phi) => Closed(phi)'
             /\ K[phi] # NoBelief => K'[phi] # NoBelief /\ RankGeq(K'[phi], K[phi])
  BY <1>1, PublishMonotone DEF BusInv, BusNext
<1>2. BusInv /\ [BusNext]_busVars =>
        [\A phi \in Props :
           /\ Closed(phi) => Closed(phi)'
           /\ K[phi] # NoBelief => K'[phi] # NoBelief /\ RankGeq(K'[phi], K[phi])]_busVars
  BY <1>1
<1> QED
  BY <1>2, BusInvariance, PTL DEF BusSpec, AuthorityNeverFalls
-----------------------------------------------------------------------------
\* The second bus, as far as the comparison of the two needs it.
SecondInv ==
  /\ KB \in [Props -> Messages \cup {NoBelief}]
  /\ \A phi \in Props : KB[phi] # NoBelief => KB[phi].phi = phi
  /\ ownerB \in [Props -> Workers \cup {NoOne}]
  /\ StrongestOf(KB, ownerB, histB)

\* Each bus is sound by itself, and its history is what was delivered to it.
ConfInv ==
  /\ posts \in [1..Posts -> Workers \X Messages]
  /\ got \subseteq 1..Posts /\ gotB \subseteq 1..Posts
  /\ BusInv /\ history = {posts[k] : k \in got}
  /\ SecondInv /\ histB = {posts[k] : k \in gotB}

LEMMA ConfInit == ExperimentInit => ConfInv
<1> SUFFICES ASSUME ExperimentInit PROVE ConfInv
  OBVIOUS
<1>1. BusInv
  BY BusInitInv DEF ExperimentInit
<1>2. SecondInv /\ histB = {}
  BY DEF ExperimentInit, B!BusInit, SecondInv, StrongestOf
<1> QED
  BY <1>1, <1>2 DEF ExperimentInit, BusInit, ConfInv

\* A judgment reaches the second bus.
LEMMA SecondPublish ==
  ASSUME ConfInv, NEW w \in Workers, NEW j \in Messages, B!Publish(w, j)
  PROVE  SecondInv'
<1>1. /\ KB' = [KB EXCEPT ![j.phi] = Merged(@, j)]
      /\ ownerB' = [ownerB EXCEPT ![j.phi] = IF Accepted(KB[j.phi], j) THEN w ELSE @]
      /\ histB' = histB \cup {<<w, j>>}
  BY DEF B!Publish, B!Merged, B!Accepted, B!RankGeq, B!Strong, Merged, Accepted, RankGeq, Strong
<1>2. histB \in SUBSET (Workers \X Messages)
  BY DEF ConfInv
<1>3. StrongestOf(KB', ownerB', histB')
  BY <1>1, <1>2, StrongestStays DEF ConfInv, SecondInv
<1> QED
  BY <1>1, <1>3, MessageFacts DEF ConfInv, SecondInv, Merged, Accepted

LEMMA ConfNext == ConfInv /\ [ExperimentNext]_experimentVars => ConfInv'
<1> SUFFICES ASSUME ConfInv, [ExperimentNext]_experimentVars PROVE ConfInv'
  OBVIOUS
<1>1. ASSUME NEW k \in (1..Posts) \ got, Deliver(k)
      PROVE  ConfInv'
  <2>1. posts[k][1] \in Workers /\ posts[k][2] \in Messages /\ Publish(posts[k][1], posts[k][2])
    BY <1>1 DEF ConfInv, Deliver
  <2>2. BusInv'
    BY <2>1, BusNextInv DEF ConfInv, BusNext
  <2>3. history' = history \cup {posts[k]}
    <3>1. posts[k] = <<posts[k][1], posts[k][2]>>
      BY DEF ConfInv
    <3> QED
      BY <2>1, <3>1 DEF Publish
  <2>4. SecondInv'
    BY <1>1 DEF Deliver, ConfInv, second, SecondInv, StrongestOf
  <2> QED
    BY <1>1, <2>2, <2>3, <2>4 DEF ConfInv, Deliver, second
<1>2. ASSUME NEW k \in (1..Posts) \ gotB, DeliverB(k)
      PROVE  ConfInv'
  <2>1. posts[k][1] \in Workers /\ posts[k][2] \in Messages
    BY DEF ConfInv
  <2>4. SecondInv'
    BY <1>2, <2>1, SecondPublish DEF DeliverB
  <2>5. histB' = histB \cup {posts[k]}
    <3>1. posts[k] = <<posts[k][1], posts[k][2]>>
      BY DEF ConfInv
    <3> QED
      BY <1>2, <3>1 DEF DeliverB, B!Publish
  <2>6. BusInv'
    BY <1>2 DEF DeliverB, ConfInv, first, busVars, BusInv, BusTypeOK, BeliefIsStrongest
  <2> QED
    BY <1>2, <2>4, <2>5, <2>6 DEF ConfInv, DeliverB, first, busVars
<1>3. CASE UNCHANGED experimentVars
  <2>1. UNCHANGED <<posts, K, contributor, calibration, history, got, KB, ownerB, calibB, histB, gotB>>
    BY <1>3 DEF experimentVars, first, second, busVars
  <2>2. BusInv'
    BY <2>1 DEF ConfInv, BusInv, BusTypeOK, BeliefIsStrongest
  <2>3. SecondInv'
    BY <2>1 DEF ConfInv, SecondInv, StrongestOf
  <2> QED
    BY <2>1, <2>2, <2>3 DEF ConfInv
<1> QED
  BY <1>1, <1>2, <1>3 DEF ExperimentNext

\* Once the same is delivered the two histories are the same set, and each
\* bus holds the strongest judgment of it.
LEMMA SameRank == ConfInv => ConfluentUpToRank
<1> SUFFICES ASSUME ConfInv, got = gotB, NEW phi \in Props
             PROVE  /\ (K[phi] = NoBelief) <=> (KB[phi] = NoBelief)
                    /\ K[phi] # NoBelief => RankGeq(K[phi], KB[phi]) /\ RankGeq(KB[phi], K[phi])
                    /\ Closed(phi) <=> B!Closed(phi)
  BY DEF ConfluentUpToRank
<1>1. history = histB
  BY DEF ConfInv
<1>2. /\ \A h \in history : h[2].phi = phi => K[phi] # NoBelief /\ RankGeq(K[phi], h[2])
      /\ K[phi] # NoBelief => <<contributor[phi], K[phi]>> \in history /\ K[phi].phi = phi
  BY DEF ConfInv, BusInv, BeliefIsStrongest, BusTypeOK
<1>3. /\ \A h \in histB : h[2].phi = phi => KB[phi] # NoBelief /\ RankGeq(KB[phi], h[2])
      /\ KB[phi] # NoBelief => <<ownerB[phi], KB[phi]>> \in histB /\ KB[phi].phi = phi
  BY DEF ConfInv, SecondInv, StrongestOf
<1>4. K[phi] # NoBelief => KB[phi] # NoBelief /\ RankGeq(KB[phi], K[phi])
  <2> DEFINE h == <<contributor[phi], K[phi]>>
  <2>1. h[2] = K[phi]
    OBVIOUS
  <2> QED
    BY <1>1, <1>2, <1>3, <2>1
<1>5. KB[phi] # NoBelief => K[phi] # NoBelief /\ RankGeq(K[phi], KB[phi])
  <2> DEFINE h == <<ownerB[phi], KB[phi]>>
  <2>1. h[2] = KB[phi]
    OBVIOUS
  <2> QED
    BY <1>1, <1>2, <1>3, <2>1
<1>6. Closed(phi) <=> B!Closed(phi)
  BY <1>4, <1>5 DEF Closed, Proven, Disproven, ProvenIn, DisprovenIn,
     B!Closed, B!Proven, B!Disproven, B!ProvenIn, B!DisprovenIn, RankGeq, Strong
<1> QED
  BY <1>4, <1>5, <1>6

(* After the same judgments, in any orders, the two buses hold beliefs of   *)
(* equal authority, and agree on which properties are closed.               *)
THEOREM AuthorityConfluence == ExperimentSpec => []ConfluentUpToRank
BY ConfInit, ConfNext, SameRank, PTL DEF ExperimentSpec

(* What happens to the first bus of an experiment is a behaviour of the     *)
(* judgment bus, so what is proved of the bus holds in the experiment.      *)
THEOREM ExperimentIsBus == ExperimentSpec => BusSpec
<1>1. ExperimentInit => BusInit
  BY DEF ExperimentInit
<1>2. ConfInv /\ [ExperimentNext]_experimentVars => [BusNext]_busVars
  <2> SUFFICES ASSUME ConfInv, [ExperimentNext]_experimentVars PROVE [BusNext]_busVars
    OBVIOUS
  <2>1. ASSUME NEW k \in (1..Posts) \ got, Deliver(k) PROVE BusNext
    <3>1. posts[k][1] \in Workers /\ posts[k][2] \in Messages
      BY DEF ConfInv
    <3> QED
      BY <2>1, <3>1 DEF Deliver, BusNext
  <2>2. ASSUME NEW k \in (1..Posts) \ gotB, DeliverB(k) PROVE UNCHANGED busVars
    BY <2>2 DEF DeliverB, first
  <2>3. CASE UNCHANGED experimentVars
    BY <2>3 DEF experimentVars, first
  <2> QED
    BY <2>1, <2>2, <2>3 DEF ExperimentNext
<1> QED
  BY <1>1, <1>2, ConfInit, ConfNext, PTL DEF ExperimentSpec, BusSpec

=============================================================================
