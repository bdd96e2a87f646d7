--------------------------- MODULE HartRunProofs ---------------------------
(***************************************************************************)
(* The single-hart checkers, for any page tables, programs, words and      *)
(* lengths of logs.                                                        *)
(***************************************************************************)
EXTENDS HartRun, WellFoundedInduction, TLAPS

PageNumbers == Nat \X Nat
Entries == [asid : Asids, va : Pages, level : {0, 1}, pte : PteRecords]
GoldenEntries == [asid : Asids, va : Pages, pa : PageNumbers, global : BOOLEAN,
                  invalidated : BOOLEAN]

\* A nonempty set of places of a list has a first one.
LEMMA FirstPlace ==
  ASSUME NEW S \in SUBSET Nat, S # {}
  PROVE  Min(S) \in S
<1>1. PICK x \in S : \A y \in S : ~ <<y, x>> \in OpToRel(<, Nat)
  BY NatLessThanWellFounded, WFMin
<1>2. ASSUME NEW y \in S PROVE x <= y
  <2>1. x \in Nat /\ y \in Nat /\ ~ (y < x)
    BY <1>1 DEF OpToRel
  <2> QED
    BY <2>1
<1> QED
  BY <1>2 DEF Min

(* A lookup in the golden TLB finds an entry if there is one.               *)
LEMMA OwnFound ==
  ASSUME NEW G \in Seq(GoldenEntries), NEW asid, NEW va
  PROVE  /\ Own(G, asid, va) # 0 =>
              /\ Own(G, asid, va) \in DOMAIN G
              /\ G[Own(G, asid, va)].asid = asid /\ G[Own(G, asid, va)].va = va
         /\ Own(G, asid, va) = 0 => \A i \in DOMAIN G : G[i].asid # asid \/ G[i].va # va
<1> DEFINE I == {i \in 1..Len(G) : G[i].asid = asid /\ G[i].va = va}
<1>1. Own(G, asid, va) = IF I # {} THEN Min(I) ELSE 0
  BY DEF Own, SelectInSeq
<1>2. I # {} => Min(I) \in I
  <2>1. I \in SUBSET Nat
    OBVIOUS
  <2> HIDE DEF I
  <2> QED
    BY <2>1, FirstPlace
<1>3. DOMAIN G = 1..Len(G)
  OBVIOUS
<1>4. 0 \notin 1..Len(G)
  OBVIOUS
<1> QED
  BY <1>1, <1>2, <1>3, <1>4

LEMMA GlobalFound ==
  ASSUME NEW G \in Seq(GoldenEntries), NEW va, GlobalEntry(G, va) # 0
  PROVE  /\ GlobalEntry(G, va) \in DOMAIN G
         /\ G[GlobalEntry(G, va)].va = va /\ G[GlobalEntry(G, va)].global
<1> DEFINE I == {i \in 1..Len(G) : G[i].va = va /\ G[i].global}
<1>1. GlobalEntry(G, va) = IF I # {} THEN Min(I) ELSE 0
  BY DEF GlobalEntry, SelectInSeq
<1>2. I # {} => Min(I) \in I
  <2>1. I \in SUBSET Nat
    OBVIOUS
  <2> HIDE DEF I
  <2> QED
    BY <2>1, FirstPlace
<1>3. DOMAIN G = 1..Len(G)
  OBVIOUS
<1> QED
  BY <1>1, <1>2, <1>3

(* The AMOs of the checker are those of the specification.                  *)
LEMMA MinMaxOfTwo ==
  ASSUME NEW a \in Int, NEW b \in Int
  PROVE  /\ Min({a, b}) = IF a <= b THEN a ELSE b
         /\ Max({a, b}) = IF a >= b THEN a ELSE b
<1>1. \A x \in {a, b} : (\A y \in {a, b} : x <= y) <=> x = IF a <= b THEN a ELSE b
  OBVIOUS
<1>2. \A x \in {a, b} : (\A y \in {a, b} : x >= y) <=> x = IF a >= b THEN a ELSE b
  OBVIOUS
<1> QED
  BY <1>1, <1>2 DEF Min, Max

LEMMA BitsOf ==
  ASSUME NEW x \in 0..3
  PROVE  /\ x % 2 \in {0, 1} /\ x \div 2 \in {0, 1}
         /\ 0 \in Bits(x) <=> x % 2 = 1
         /\ 1 \in Bits(x) <=> x \div 2 = 1
         /\ Bits(x) \subseteq {0, 1}
         /\ x = (x % 2) + 2 * (x \div 2)
BY DEF Bits

\* A word is its two bits.
LEMMA WordOf ==
  ASSUME NEW p \in {0, 1}, NEW q \in {0, 1}, NEW bits,
         0 \in bits <=> p = 1, 1 \in bits <=> q = 1
  PROVE  Word(bits) = p + 2 * q /\ Word(bits) \in 0..3
BY DEF Word

LEMMA SignedBits ==
  ASSUME NEW x \in 0..3
  PROVE  TwosComplement(x) = Signed(x) /\ Signed(x) \in -2..1 /\ Signed(x) % 4 = x
<1>1. x \in {0, 1, 2, 3}
  OBVIOUS
<1> QED
  BY <1>1, BitsOf DEF TwosComplement, Signed, WordValues

LEMMA AmosAgree ==
  ASSUME NEW amo \in Amos, NEW old \in 0..3, NEW src \in 0..3
  PROVE  AmoCompute(amo, old, src) = Result(amo, old, src) /\ Result(amo, old, src) \in 0..3
<1>1. CASE amo = "swap"
  BY <1>1 DEF AmoCompute, Result
<1>2. CASE amo = "add"
  <2>1. (old + src) % 4 \in 0..3
    OBVIOUS
  <2>2. AmoCompute(amo, old, src) = (old + src) % 4 /\ Result(amo, old, src) = (old + src) % 4
    BY <1>2 DEF AmoCompute, Result, WordValues
  <2> QED
    BY <2>1, <2>2
<1>3. CASE amo = "and"
  <2> DEFINE p == (old % 2) * (src % 2)
             q == (old \div 2) * (src \div 2)
  <2>1. /\ p \in {0, 1} /\ q \in {0, 1}
        /\ 0 \in Bits(old) \cap Bits(src) <=> p = 1
        /\ 1 \in Bits(old) \cap Bits(src) <=> q = 1
    BY BitsOf
  <2>2. AmoCompute(amo, old, src) = p + 2 * q
    <3> DEFINE f == [b \in BitPairs |-> b[1] * b[2]]
    <3>1. AmoCompute(amo, old, src) = BitByBit(f, old, src)
      BY <1>3 DEF AmoCompute
    <3>2. \A a, b \in {0, 1} : f[<<a, b>>] = a * b
      BY DEF BitPairs
    <3> HIDE DEF f
    <3>3. /\ old % 2 \in {0, 1} /\ src % 2 \in {0, 1}
          /\ old \div 2 \in {0, 1} /\ src \div 2 \in {0, 1}
      BY BitsOf
    <3>4. /\ f[<<old % 2, src % 2>>] = p /\ f[<<old \div 2, src \div 2>>] = q
      BY <3>2, <3>3, Zenon
    <3> QED
      BY <3>1, <3>4 DEF BitByBit
  <2>3. Result(amo, old, src) = Word(Bits(old) \cap Bits(src))
    BY <1>3 DEF Result
  <2> HIDE DEF p, q
  <2> QED
    BY <2>1, <2>2, <2>3, WordOf
<1>4. CASE amo = "or"
  <2> DEFINE p == (old % 2) + (src % 2) - (old % 2) * (src % 2)
             q == (old \div 2) + (src \div 2) - (old \div 2) * (src \div 2)
  <2>0. /\ old % 2 \in {0, 1} /\ src % 2 \in {0, 1}
        /\ old \div 2 \in {0, 1} /\ src \div 2 \in {0, 1}
    BY BitsOf
  <2>4. \A a, b \in {0, 1} : a + b - a * b \in {0, 1} /\ (a + b - a * b = 1 <=> a = 1 \/ b = 1)
    OBVIOUS
  <2>1. /\ p \in {0, 1} /\ q \in {0, 1}
        /\ 0 \in Bits(old) \cup Bits(src) <=> p = 1
        /\ 1 \in Bits(old) \cup Bits(src) <=> q = 1
    <3>1. p \in {0, 1} /\ (p = 1 <=> old % 2 = 1 \/ src % 2 = 1)
      BY <2>0, <2>4, Zenon
    <3>2. q \in {0, 1} /\ (q = 1 <=> old \div 2 = 1 \/ src \div 2 = 1)
      BY <2>0, <2>4, Zenon
    <3> HIDE DEF p, q
    <3> QED
      BY <3>1, <3>2, BitsOf
  <2>2. AmoCompute(amo, old, src) = p + 2 * q
    <3> DEFINE f == [b \in BitPairs |-> b[1] + b[2] - b[1] * b[2]]
    <3>1. AmoCompute(amo, old, src) = BitByBit(f, old, src)
      BY <1>4 DEF AmoCompute
    <3>2. \A a, b \in {0, 1} : f[<<a, b>>] = a + b - a * b
      BY DEF BitPairs
    <3> HIDE DEF f
    <3>3. /\ old % 2 \in {0, 1} /\ src % 2 \in {0, 1}
          /\ old \div 2 \in {0, 1} /\ src \div 2 \in {0, 1}
      BY BitsOf
    <3>4. /\ f[<<old % 2, src % 2>>] = p /\ f[<<old \div 2, src \div 2>>] = q
      BY <3>2, <3>3, Zenon
    <3> QED
      BY <3>1, <3>4 DEF BitByBit
  <2>3. Result(amo, old, src) = Word(Bits(old) \cup Bits(src))
    BY <1>4 DEF Result
  <2> HIDE DEF p, q
  <2> QED
    BY <2>1, <2>2, <2>3, WordOf
<1>5. CASE amo = "xor"
  <2> DEFINE p == ((old % 2) + (src % 2)) % 2
             q == ((old \div 2) + (src \div 2)) % 2
  <2>1. /\ p \in {0, 1} /\ q \in {0, 1}
        /\ 0 \in SymDiff(Bits(old), Bits(src)) <=> p = 1
        /\ 1 \in SymDiff(Bits(old), Bits(src)) <=> q = 1
    BY BitsOf DEF SymDiff
  <2>2. AmoCompute(amo, old, src) = p + 2 * q
    <3> DEFINE f == [b \in BitPairs |-> (b[1] + b[2]) % 2]
    <3>1. AmoCompute(amo, old, src) = BitByBit(f, old, src)
      BY <1>5 DEF AmoCompute
    <3>2. \A a, b \in {0, 1} : f[<<a, b>>] = (a + b) % 2
      BY DEF BitPairs
    <3> HIDE DEF f
    <3>3. /\ old % 2 \in {0, 1} /\ src % 2 \in {0, 1}
          /\ old \div 2 \in {0, 1} /\ src \div 2 \in {0, 1}
      BY BitsOf
    <3>4. /\ f[<<old % 2, src % 2>>] = p /\ f[<<old \div 2, src \div 2>>] = q
      BY <3>2, <3>3, Zenon
    <3> QED
      BY <3>1, <3>4 DEF BitByBit
  <2>3. Result(amo, old, src) = Word(SymDiff(Bits(old), Bits(src)))
    BY <1>5 DEF Result
  <2> HIDE DEF p, q
  <2> QED
    BY <2>1, <2>2, <2>3, WordOf
<1>6. CASE amo = "min"
  <2>1. Min({Signed(old), Signed(src)}) = IF Signed(old) <= Signed(src) THEN Signed(old) ELSE Signed(src)
    <3>1. Signed(old) \in Int /\ Signed(src) \in Int
      BY SignedBits
    <3> QED
      BY <3>1, MinMaxOfTwo, Zenon
  <2>2. Result(amo, old, src) = Min({TwosComplement(old), TwosComplement(src)}) % 4
    BY <1>6 DEF Result, WordValues
  <2>3. AmoCompute(amo, old, src) = IF Signed(old) <= Signed(src) THEN old ELSE src
    BY <1>6 DEF AmoCompute
  <2> QED
    BY <2>1, <2>2, <2>3, SignedBits
<1>7. CASE amo = "max"
  <2>1. Max({Signed(old), Signed(src)}) = IF Signed(old) >= Signed(src) THEN Signed(old) ELSE Signed(src)
    <3>1. Signed(old) \in Int /\ Signed(src) \in Int
      BY SignedBits
    <3> QED
      BY <3>1, MinMaxOfTwo, Zenon
  <2>2. Result(amo, old, src) = Max({TwosComplement(old), TwosComplement(src)}) % 4
    BY <1>7 DEF Result, WordValues
  <2>3. AmoCompute(amo, old, src) = IF Signed(old) >= Signed(src) THEN old ELSE src
    BY <1>7 DEF AmoCompute
  <2> QED
    BY <2>1, <2>2, <2>3, SignedBits
<1>8. CASE amo = "minu"
  <2>0. old \in Int /\ src \in Int
    OBVIOUS
  <2>1. Min({old, src}) = IF old <= src THEN old ELSE src
    BY <2>0, MinMaxOfTwo, Zenon
  <2>2. Result(amo, old, src) = Min({old, src})
    BY <1>8 DEF Result
  <2>3. AmoCompute(amo, old, src) = IF old <= src THEN old ELSE src
    BY <1>8 DEF AmoCompute
  <2> QED
    BY <2>1, <2>2, <2>3
<1>9. CASE amo = "maxu"
  <2>0. old \in Int /\ src \in Int
    OBVIOUS
  <2>1. Max({old, src}) = IF old >= src THEN old ELSE src
    BY <2>0, MinMaxOfTwo, Zenon
  <2>2. Result(amo, old, src) = Max({old, src})
    BY <1>9 DEF Result
  <2>3. AmoCompute(amo, old, src) = IF old >= src THEN old ELSE src
    BY <1>9 DEF AmoCompute
  <2> QED
    BY <2>1, <2>2, <2>3
<1> QED
  BY <1>1, <1>2, <1>3, <1>4, <1>5, <1>6, <1>7, <1>8, <1>9, WordsAssumption

-----------------------------------------------------------------------------
(* The walk of the checker against the privileged specification.            *)

TablesOK == \A k \in DOMAIN image : image[k] \in PteRecords

LEMMA PteRead ==
  ASSUME TablesOK, NEW table, NEW i
  PROVE  ReadPte(image, table, i) \in PteRecords
BY DEF TablesOK, ReadPte, ZeroPte, PteRecords

\* An access in a privilege that is translated.
LEMMA RightsAllow ==
  ASSUME NEW pte \in PteRecords, NEW m \in Accesses, m.priv # "M"
  PROVE  m.kind \in Rights(pte, m) <=> Allows(pte, m.kind, m)
<1>1. /\ m.kind \in {"load", "store"} /\ m.priv \in {"S", "U"}
      /\ m.sum \in BOOLEAN /\ m.mxr \in BOOLEAN
  BY TablesAssumption
<1>2. pte.r \in BOOLEAN /\ pte.w \in BOOLEAN /\ pte.x \in BOOLEAN /\ pte.u \in BOOLEAN
  BY DEF PteRecords
<1> QED
  BY <1>1, <1>2 DEF Rights, Allows

Top(asid, va)      == ReadPte(image, Root[asid], va[1])
Low(asid, va)      == ReadPte(image, Top(asid, va).ppn, va[2])
At1(asid, va)      == [asid |-> asid, va |-> va, level |-> 1, pte |-> Top(asid, va)]
At0(asid, va)      == [asid |-> asid, va |-> va, level |-> 0, pte |-> Low(asid, va)]
IsSuper(asid, va)  == Valid(Top(asid, va)) /\ Leaf(Top(asid, va)) /\ Top(asid, va).ppn[2] = 0
IsSmall(asid, va)  == /\ Valid(Top(asid, va)) /\ ~ Leaf(Top(asid, va))
                      /\ Valid(Low(asid, va)) /\ Leaf(Low(asid, va))

\* A walk ends in one leaf at most.
LEMMA LeavesOfWalk ==
  ASSUME NEW asid, NEW va
  PROVE  Leaves(asid, va) = IF IsSuper(asid, va) THEN {At1(asid, va)}
                            ELSE IF IsSmall(asid, va) THEN {At0(asid, va)} ELSE {}
BY DEF Leaves, Top, Low, At1, At0, IsSuper, IsSmall, Leaf

\* ... with the page it leads to and the rights it is checked for.
LEMMA TranslateEnds ==
  ASSUME TablesOK, NEW asid, NEW va, NEW kind, NEW m
  PROVE  Translate(image, Root[asid], va, kind, m) =
           IF IsSuper(asid, va) /\ Allows(Top(asid, va), kind, m)
           THEN [ok |-> TRUE, pa |-> PageOf(Top(asid, va), 1, va), pte |-> Top(asid, va), level |-> 1]
           ELSE IF IsSmall(asid, va) /\ Allows(Low(asid, va), kind, m)
           THEN [ok |-> TRUE, pa |-> PageOf(Low(asid, va), 0, va), pte |-> Low(asid, va), level |-> 0]
           ELSE PageFault
<1> DEFINE top == Top(asid, va)  low == Low(asid, va)
           t   == Translate(image, Root[asid], va, kind, m)
<1>0. top \in PteRecords /\ low \in PteRecords
  BY PteRead DEF Top, Low
<1>1. t = CASE ~ top.v \/ Reserved(top)                -> PageFault
            [] top.v /\ ~ Reserved(top) /\ Leaf(top)   -> FinishLeaf(va, top, 1, kind, m)
            [] top.v /\ ~ Reserved(top) /\ ~ Leaf(top) ->
                 IF low.v /\ ~ Reserved(low) /\ Leaf(low)
                 THEN FinishLeaf(va, low, 0, kind, m) ELSE PageFault
  BY DEF Translate, Top, Low
<1>2. \A q \in PteRecords : Valid(q) <=> q.v /\ ~ Reserved(q)
  BY DEF Valid, Reserved, PteRecords
<1>3. CASE ~ Valid(top)
  BY <1>0, <1>1, <1>2, <1>3 DEF IsSuper, IsSmall
<1>4. CASE Valid(top) /\ Leaf(top)
  <2>1. t = FinishLeaf(va, top, 1, kind, m)
    BY <1>0, <1>1, <1>2, <1>4
  <2> QED
    BY <1>4, <2>1 DEF IsSuper, IsSmall, FinishLeaf
<1>5. CASE Valid(top) /\ ~ Leaf(top)
  <2>1. t = IF Valid(low) /\ Leaf(low) THEN FinishLeaf(va, low, 0, kind, m) ELSE PageFault
    BY <1>0, <1>1, <1>2, <1>5
  <2> QED
    BY <1>5, <2>1 DEF IsSuper, IsSmall, FinishLeaf
<1> QED
  BY <1>3, <1>4, <1>5

(* The checker's walk succeeds where the specification gives a page, and    *)
(* gives that page; the entry is then the only leaf.                        *)
LEMMA TranslateIsWalk ==
  ASSUME TablesOK, NEW asid \in Asids, NEW va \in Pages, NEW m \in Accesses, m.priv # "M"
  PROVE  LET t == Translate(image, Root[asid], va, m.kind, m)
         IN  /\ t.ok \in BOOLEAN
             /\ ~ t.ok => Walk(asid, va, m.kind, m) = Fault(m.kind)
             /\ t.ok => /\ Walk(asid, va, m.kind, m) = [served |-> t.pa, trap |-> None]
                        /\ t.pa \in PageNumbers
                        /\ \E e \in Entries : /\ Leaves(asid, va) = {e}
                                              /\ e.asid = asid /\ e.va = va
                                              /\ e.pte = t.pte /\ Gives(e, va) = t.pa
<1> DEFINE t == Translate(image, Root[asid], va, m.kind, m)
<1> DEFINE top == Top(asid, va)  low == Low(asid, va)
<1>0. /\ top \in PteRecords /\ low \in PteRecords
      /\ At1(asid, va) \in Entries /\ At0(asid, va) \in Entries
  BY PteRead DEF Top, Low, At1, At0, Entries
<1>1. /\ PageOf(top, 1, va) \in PageNumbers /\ PageOf(low, 0, va) \in PageNumbers
  <2>1. top.ppn \in Nat \X Nat /\ low.ppn \in Nat \X Nat /\ va \in Nat \X Nat
    BY <1>0, TablesAssumption DEF PteRecords
  <2> HIDE DEF top, low
  <2> QED
    BY <2>1 DEF PageOf, PageNumbers
<1>2. \A pte \in PteRecords : m.kind \in Rights(pte, m) <=> Allows(pte, m.kind, m)
  BY RightsAllow
<1>3. CASE IsSuper(asid, va)
  <2> DEFINE e == At1(asid, va)
  <2>1. Leaves(asid, va) = {e}
    BY <1>3, LeavesOfWalk
  <2>2. e.asid = asid /\ e.va = va /\ e.pte = top /\ Gives(e, va) = PageOf(top, 1, va)
    BY DEF At1, Gives
  <2>3. (CHOOSE f \in Leaves(asid, va) : TRUE) = e
    BY <2>1
  <2>4. Walk(asid, va, m.kind, m) = IF Allows(top, m.kind, m)
                                    THEN [served |-> PageOf(top, 1, va), trap |-> None]
                                    ELSE Fault(m.kind)
    BY <1>0, <1>2, <2>1, <2>2, <2>3 DEF Walk, Answer
  <2>5. t = IF Allows(top, m.kind, m)
            THEN [ok |-> TRUE, pa |-> PageOf(top, 1, va), pte |-> top, level |-> 1]
            ELSE PageFault
    <3>1. ~ IsSmall(asid, va)
      BY <1>3 DEF IsSuper, IsSmall
    <3> QED
      BY <1>3, <3>1, TranslateEnds
  <2> QED
    BY <1>0, <1>1, <2>1, <2>2, <2>4, <2>5 DEF PageFault
<1>4. CASE ~ IsSuper(asid, va) /\ IsSmall(asid, va)
  <2> DEFINE e == At0(asid, va)
  <2>1. Leaves(asid, va) = {e}
    BY <1>4, LeavesOfWalk
  <2>2. e.asid = asid /\ e.va = va /\ e.pte = low /\ Gives(e, va) = PageOf(low, 0, va)
    BY DEF At0, Gives
  <2>3. (CHOOSE f \in Leaves(asid, va) : TRUE) = e
    BY <2>1
  <2>4. Walk(asid, va, m.kind, m) = IF Allows(low, m.kind, m)
                                    THEN [served |-> PageOf(low, 0, va), trap |-> None]
                                    ELSE Fault(m.kind)
    BY <1>0, <1>2, <2>1, <2>2, <2>3 DEF Walk, Answer
  <2>5. t = IF Allows(low, m.kind, m)
            THEN [ok |-> TRUE, pa |-> PageOf(low, 0, va), pte |-> low, level |-> 0]
            ELSE PageFault
    BY <1>4, TranslateEnds
  <2> QED
    BY <1>0, <1>1, <2>1, <2>2, <2>4, <2>5 DEF PageFault
<1>5. CASE ~ IsSuper(asid, va) /\ ~ IsSmall(asid, va)
  <2>1. Leaves(asid, va) = {}
    BY <1>5, LeavesOfWalk
  <2>2. t = PageFault
    BY <1>5, TranslateEnds
  <2> QED
    BY <2>1, <2>2 DEF Walk, PageFault
<1> QED
  BY <1>3, <1>4, <1>5

\* What a hart may answer, rightly or not.
Answers == [served : PageNumbers, trap : {None}] \cup [served : {None}, trap : {13, 15}]

(* The walk checker accuses exactly the answers the tables do not give.     *)
LEMMA VmJudges ==
  ASSUME TablesOK, NEW asid \in Asids, NEW va \in Pages, NEW m \in Accesses, m.priv # "M",
         NEW a \in Answers
  PROVE  VmAlarms(Translate(image, Root[asid], va, m.kind, m), m.kind, a.served, a.trap) = {}
           <=> a = Walk(asid, va, m.kind, m)
<1> DEFINE t == Translate(image, Root[asid], va, m.kind, m)
           w == Walk(asid, va, m.kind, m)
<1>1. /\ ~ t.ok => w = Fault(m.kind)
      /\ t.ok => w = [served |-> t.pa, trap |-> None] /\ t.pa \in PageNumbers
  BY TranslateIsWalk, Zenon
<1>2. m.kind \in {"load", "store"} /\ None \notin Nat /\ None \notin PageNumbers
  BY TablesAssumption DEF PageNumbers
<1>3. VmAlarms(t, m.kind, a.served, a.trap) = {} <=>
        IF t.ok THEN a.served \in {None, t.pa} /\ a.trap \notin {12, 13, 15}
        ELSE a.trap = FaultCause(m.kind)
  BY DEF VmAlarms
<1> HIDE DEF t, w
<1> SUFFICES VmAlarms(t, m.kind, a.served, a.trap) = {} <=> a = w
  BY DEF t, w
<1>4. CASE t.ok
  <2>1. CASE a \in [served : PageNumbers, trap : {None}]
    <3>1. a = [served |-> a.served, trap |-> None] /\ a.served \in PageNumbers /\ a.trap = None
      BY <2>1
    <3>2. a = w <=> a.served = t.pa
      BY <1>1, <1>4, <3>1
    <3> QED
      BY <1>2, <1>3, <1>4, <3>1, <3>2
  <2>2. CASE a \in [served : {None}, trap : {13, 15}]
    <3>1. a # w /\ a.trap \in {13, 15}
      BY <1>1, <1>2, <1>4, <2>2
    <3> QED
      BY <1>3, <1>4, <3>1
  <2> QED
    BY <2>1, <2>2 DEF Answers
<1>5. CASE ~ t.ok
  <2>0. w = [served |-> None, trap |-> FaultCause(m.kind)] /\ FaultCause(m.kind) \in {13, 15}
    BY <1>1, <1>2, <1>5 DEF Fault, FaultCause
  <2>1. CASE a \in [served : PageNumbers, trap : {None}]
    BY <1>2, <1>3, <1>5, <2>0, <2>1
  <2>2. CASE a \in [served : {None}, trap : {13, 15}]
    <3>1. a = [served |-> None, trap |-> a.trap]
      BY <2>2
    <3>2. a = w <=> a.trap = FaultCause(m.kind)
      BY <2>0, <3>1
    <3> QED
      BY <1>3, <1>5, <3>2
  <2> QED
    BY <2>1, <2>2 DEF Answers
<1> QED
  BY <1>4, <1>5

-----------------------------------------------------------------------------
(* The golden TLB as a set of entries, one of a key.                        *)

Members(G) == {G[i] : i \in DOMAIN G}
OneOfAKey(G) == \A i, k \in DOMAIN G : G[i].asid = G[k].asid /\ G[i].va = G[k].va => i = k

LEMMA FilledEffect ==
  ASSUME NEW G \in Seq(GoldenEntries), OneOfAKey(G), NEW asid \in Asids, NEW va \in Pages,
         NEW t, t.pa \in PageNumbers, t.pte.g \in BOOLEAN
  PROVE  LET F == Filled(G, asid, va, t)
         IN  /\ F \in Seq(GoldenEntries) /\ OneOfAKey(F)
             /\ Members(F) = {g \in Members(G) : g.asid # asid \/ g.va # va} \cup
                   {[asid |-> asid, va |-> va, pa |-> t.pa, global |-> t.pte.g,
                     invalidated |-> FALSE]}
<1> DEFINE entry == [asid |-> asid, va |-> va, pa |-> t.pa, global |-> t.pte.g,
                     invalidated |-> FALSE]
           i == Own(G, asid, va)
           F == Filled(G, asid, va, t)
<1>0. /\ entry \in GoldenEntries /\ entry.asid = asid /\ entry.va = va
      /\ DOMAIN G = 1..Len(G) /\ Len(G) \in Nat
  BY DEF GoldenEntries
<1>1. F = IF i = 0 THEN Append(G, entry) ELSE [G EXCEPT ![i] = entry]
  BY DEF Filled
<1>2. /\ i # 0 => i \in DOMAIN G /\ G[i].asid = asid /\ G[i].va = va
      /\ i = 0 => \A k \in DOMAIN G : G[k].asid # asid \/ G[k].va # va
  BY OwnFound
<1> HIDE DEF entry, i, F
<1>3. CASE i = 0
  <2>1. /\ F \in Seq(GoldenEntries) /\ DOMAIN F = 1..Len(G) + 1 /\ F[Len(G) + 1] = entry
        /\ \A k \in 1..Len(G) : F[k] = G[k]
    BY <1>0, <1>1, <1>3
  <2>2. \A k \in DOMAIN F : k \in DOMAIN G \/ k = Len(G) + 1
    BY <1>0, <2>1
  <2>3. OneOfAKey(F)
    BY <1>0, <1>2, <1>3, <2>1, <2>2 DEF OneOfAKey
  <2>4. Members(F) = Members(G) \cup {entry}
    <3>1. \A k \in DOMAIN G : k \in DOMAIN F /\ F[k] = G[k]
      BY <1>0, <2>1
    <3>2. Len(G) + 1 \in DOMAIN F
      BY <1>0, <2>1
    <3> QED
      BY <2>1, <2>2, <3>1, <3>2 DEF Members
  <2>5. Members(G) = {g \in Members(G) : g.asid # asid \/ g.va # va}
    BY <1>2, <1>3 DEF Members
  <2> QED
    BY <2>1, <2>3, <2>4, <2>5 DEF entry, F
<1>4. CASE i # 0
  <2>1. /\ F \in Seq(GoldenEntries) /\ DOMAIN F = DOMAIN G /\ F[i] = entry
        /\ \A k \in DOMAIN G \ {i} : F[k] = G[k]
    BY <1>0, <1>1, <1>2, <1>4
  <2>2. \A k \in DOMAIN G : F[k].asid = G[k].asid /\ F[k].va = G[k].va
    BY <1>0, <1>2, <1>4, <2>1
  <2>3. OneOfAKey(F)
    BY <2>1, <2>2 DEF OneOfAKey
  <2>4. \A k \in DOMAIN G : k # i <=> G[k].asid # asid \/ G[k].va # va
    BY <1>2, <1>4 DEF OneOfAKey
  <2>5. Members(F) = {g \in Members(G) : g.asid # asid \/ g.va # va} \cup {entry}
    BY <1>2, <1>4, <2>1, <2>4 DEF Members
  <2> QED
    BY <2>1, <2>3, <2>5 DEF entry, F
<1> QED
  BY <1>3, <1>4

\* Whether a fence invalidates an entry of the golden TLB.
Struck(g, va, asid, seen) ==
  /\ seen \/ (va = All /\ asid = All)
  /\ va \in {All, g.va}
  /\ asid = All \/ (g.asid = asid /\ ~ g.global)

LEMMA FencedEffect ==
  ASSUME NEW G \in Seq(GoldenEntries), OneOfAKey(G), NEW va, NEW asid, NEW seen \in BOOLEAN
  PROVE  LET F == Fenced(G, va, asid, seen)
         IN  /\ F \in Seq(GoldenEntries) /\ OneOfAKey(F)
             /\ \A f \in Members(F) : \E g \in Members(G) :
                  /\ f.asid = g.asid /\ f.va = g.va /\ f.pa = g.pa /\ f.global = g.global
                  /\ ~ f.invalidated => ~ g.invalidated /\ ~ Struck(g, va, asid, seen)
             /\ \A g \in Members(G) : ~ Struck(g, va, asid, seen) => g \in Members(F)
<1> DEFINE F == Fenced(G, va, asid, seen)
<1>1. DOMAIN F = DOMAIN G /\ DOMAIN G = 1..Len(G) /\ Len(G) \in Nat
  BY DEF Fenced
<1>2. ASSUME NEW k \in DOMAIN G
      PROVE  /\ F[k] = [G[k] EXCEPT !.invalidated = G[k].invalidated \/ Struck(G[k], va, asid, seen)]
             /\ G[k] \in GoldenEntries
  <2>1. F[k] = [G[k] EXCEPT !.invalidated =
                  \/ G[k].invalidated
                  \/ /\ seen \/ (va = All /\ asid = All)
                     /\ va \in {All, G[k].va}
                     /\ asid = All \/ (G[k].asid = asid /\ ~ G[k].global)]
    BY Zenon DEF Fenced
  <2>2. G[k] \in GoldenEntries
    OBVIOUS
  <2> QED
    BY <2>1, <2>2, Zenon DEF Struck
<1>3. ASSUME NEW k \in DOMAIN G
      PROVE  /\ F[k] \in GoldenEntries
             /\ F[k].asid = G[k].asid /\ F[k].va = G[k].va /\ F[k].pa = G[k].pa
             /\ F[k].global = G[k].global
             /\ ~ F[k].invalidated => ~ G[k].invalidated /\ ~ Struck(G[k], va, asid, seen)
             /\ ~ Struck(G[k], va, asid, seen) => F[k] = G[k]
  <2> DEFINE g == G[k]
             b == g.invalidated \/ Struck(g, va, asid, seen)
  <2>1. /\ g = [asid |-> g.asid, va |-> g.va, pa |-> g.pa, global |-> g.global,
                invalidated |-> g.invalidated]
        /\ g.asid \in Asids /\ g.va \in Pages /\ g.pa \in PageNumbers
        /\ g.global \in BOOLEAN /\ g.invalidated \in BOOLEAN
    BY <1>2 DEF GoldenEntries
  <2>2. b \in BOOLEAN /\ F[k] = [g EXCEPT !.invalidated = b]
    BY <1>2
  <2>3. b <=> g.invalidated \/ Struck(g, va, asid, seen)
    OBVIOUS
  <2>4. ~ Struck(g, va, asid, seen) => b = g.invalidated
    BY <2>1, <2>2, <2>3
  <2> HIDE DEF g, b
  <2>5. F[k] = [asid |-> g.asid, va |-> g.va, pa |-> g.pa, global |-> g.global, invalidated |-> b]
    BY <2>1, <2>2
  <2> QED
    BY <2>1, <2>2, <2>3, <2>4, <2>5 DEF GoldenEntries, g
<1>4. F \in Seq(GoldenEntries)
  <2>1. F = [k \in 1..Len(G) |-> F[k]]
    BY <1>1 DEF Fenced
  <2> HIDE DEF F
  <2> QED
    BY <1>1, <1>3, <2>1
<1> HIDE DEF F
<1> QED
  BY <1>1, <1>3, <1>4 DEF Members, OneOfAKey, F

-----------------------------------------------------------------------------
(* Translation.  The golden TLB follows the TLB of the hart: what it still  *)
(* allows, a wild hart still holds, or was spared by a fence it could not   *)
(* see; and what a hart by the book holds, it still allows.                 *)

TransTypes ==
  /\ TablesOK /\ tlb \in SUBSET Entries /\ spared \in SUBSET Entries
  /\ golden \in Seq(GoldenEntries) /\ OneOfAKey(golden)

IsOf(g, e) == e.asid = g.asid /\ e.va = g.va /\ e.pte.g = g.global /\ Gives(e, e.va) = g.pa

WildHolds ==
  hw = "wild" => \A g \in Members(golden) : ~ g.invalidated => \E e \in tlb \cup spared : IsOf(g, e)

BookApart == hw = "book" => \A e, f \in tlb : Overlap(e, f) => e = f

Allowed(e, G) == \E g \in Members(G) : /\ g.asid = e.asid /\ g.va = e.va
                                      /\ g.pa = Gives(e, e.va) /\ ~ g.invalidated

BookAllowed == hw = "book" => \A e \in tlb : ~ e.pte.g => Allowed(e, golden)

TransInv == TransTypes /\ WildHolds /\ BookApart /\ BookAllowed

LEMMA GivesPage ==
  ASSUME NEW e \in Entries, NEW va \in Pages
  PROVE  Gives(e, va) \in PageNumbers
<1>1. e.pte.ppn \in Nat \X Nat /\ va \in Nat \X Nat
  BY TablesAssumption DEF Entries, PteRecords
<1> QED
  BY <1>1 DEF Gives, PageOf, PageNumbers

LEMMA FaultIsAnswer ==
  ASSUME NEW m \in Accesses
  PROVE  Fault(m.kind) \in Answers /\ Fault(m.kind).served = None
BY DEF Fault, Answers

LEMMA AnswerIsAnswer ==
  ASSUME NEW e \in Entries, NEW va \in Pages, NEW m \in Accesses
  PROVE  /\ Answer(e, va, m.kind, m) \in Answers
         /\ Answer(e, va, m.kind, m).served \in {None, Gives(e, va)}
BY GivesPage, FaultIsAnswer DEF Answer, Answers

LEMMA WalkIsAnswer ==
  ASSUME TablesOK, NEW asid \in Asids, NEW va \in Pages, NEW m \in Accesses, m.priv # "M"
  PROVE  Walk(asid, va, m.kind, m) \in Answers
<1> DEFINE t == Translate(image, Root[asid], va, m.kind, m)
           w == Walk(asid, va, m.kind, m)
<1>1. /\ ~ t.ok => w = Fault(m.kind)
      /\ t.ok => w = [served |-> t.pa, trap |-> None] /\ t.pa \in PageNumbers
  BY TranslateIsWalk, Zenon
<1> HIDE DEF t, w
<1>2. w \in Answers
  BY <1>1, FaultIsAnswer DEF Answers
<1> QED
  BY <1>2 DEF w

\* The tables give no page before there are any.
LEMMA NoTables ==
  ASSUME image = <<>>, NEW asid, NEW va
  PROVE  Leaves(asid, va) = {}
<1>1. Top(asid, va) = ZeroPte
  BY DEF Top, ReadPte
<1>2. ~ Valid(Top(asid, va))
  BY <1>1 DEF Valid, ZeroPte
<1> QED
  BY <1>2, LeavesOfWalk DEF IsSuper, IsSmall

(* The walk checker accuses an access just if it was not answered as the    *)
(* tables say.                                                              *)
LEMMA VmExact ==
  ASSUME TablesOK, NEW asid \in Asids, NEW va \in Pages, NEW m \in Accesses, m.priv # "M",
         NEW a \in Answers, NEW by, Judge(asid, va, m.kind, m, a, by)
  PROVE  judged'.vm = {} <=> judged'.right
<1> DEFINE t == Translate(image, Root[asid], va, m.kind, m)
<1>1. /\ judged'.vm = IF Gated(image, m) THEN {} ELSE VmAlarms(t, m.kind, a.served, a.trap)
      /\ judged'.right = (Gated(image, m) \/ a = Walk(asid, va, m.kind, m))
  BY DEF Judge, Quiet
<1>2. VmAlarms(t, m.kind, a.served, a.trap) = {} <=> a = Walk(asid, va, m.kind, m)
  BY VmJudges, Zenon
<1> HIDE DEF t
<1> QED
  BY <1>1, <1>2

(* The golden TLB is told of an access just if the tables gave its page.    *)
LearnsFrom(e, asid, va) ==
  /\ Leaves(asid, va) = {e} /\ e.asid = asid /\ e.va = va
  /\ Members(golden') =
       {g \in Members(golden) : g.asid # asid \/ g.va # va} \cup
       {[asid |-> asid, va |-> va, pa |-> Gives(e, va), global |-> e.pte.g, invalidated |-> FALSE]}

LEMMA GoldenEffect ==
  ASSUME TransTypes, NEW asid \in Asids, NEW va \in Pages, NEW m \in Accesses, m.priv # "M",
         NEW a \in Answers, NEW by, Judge(asid, va, m.kind, m, a, by)
  PROVE  /\ golden' \in Seq(GoldenEntries) /\ OneOfAKey(golden')
         /\ a = Walk(asid, va, m.kind, m) /\ a.served # None =>
              \E e \in Entries : LearnsFrom(e, asid, va) /\ Gives(e, va) = a.served
         /\ ~ (a = Walk(asid, va, m.kind, m) /\ a.served # None) => golden' = golden
<1> DEFINE t == Translate(image, Root[asid], va, m.kind, m)
           w == Walk(asid, va, m.kind, m)
<1>0. TablesOK /\ golden \in Seq(GoldenEntries) /\ OneOfAKey(golden)
  BY DEF TransTypes
<1>1. golden' = IF Gated(image, m) THEN golden ELSE AfterAccess(golden, asid, va, t, a.served)
  BY DEF Judge
<1>2. /\ ~ t.ok => w = Fault(m.kind)
      /\ t.ok => /\ w = [served |-> t.pa, trap |-> None] /\ t.pa \in PageNumbers
                 /\ \E e \in Entries : /\ Leaves(asid, va) = {e}
                                       /\ e.asid = asid /\ e.va = va
                                       /\ e.pte = t.pte /\ Gives(e, va) = t.pa
  BY <1>0, TranslateIsWalk, Zenon
<1>3. Fault(m.kind).served = None /\ None \notin PageNumbers
  BY FaultIsAnswer, TablesAssumption DEF PageNumbers
<1>4. Gated(image, m) => Leaves(asid, va) = {}
  BY NoTables DEF Gated
<1> HIDE DEF t, w
<1>5. CASE t.ok /\ a.served = t.pa
  <2>1. PICK e \in Entries : /\ Leaves(asid, va) = {e} /\ e.asid = asid /\ e.va = va
                            /\ e.pte = t.pte /\ Gives(e, va) = t.pa
    BY <1>2, <1>5
  <2>2. a = w /\ a.served # None
    <3>1. a = [served |-> a.served, trap |-> None] /\ a.served \in PageNumbers
      BY <1>2, <1>3, <1>5 DEF Answers
    <3> QED
      BY <1>2, <1>3, <1>5, <3>1
  <2>3. golden' = Filled(golden, asid, va, t)
    BY <1>1, <1>4, <1>5, <2>1 DEF AfterAccess
  <2>4. t.pa \in PageNumbers /\ t.pte.g \in BOOLEAN
    BY <1>2, <1>5, <2>1 DEF Entries, PteRecords
  <2>5. /\ golden' \in Seq(GoldenEntries) /\ OneOfAKey(golden')
        /\ Members(golden') = {g \in Members(golden) : g.asid # asid \/ g.va # va} \cup
                {[asid |-> asid, va |-> va, pa |-> t.pa, global |-> t.pte.g, invalidated |-> FALSE]}
    BY <1>0, <2>3, <2>4, FilledEffect
  <2> QED
    BY <1>5, <2>1, <2>2, <2>5 DEF w, LearnsFrom
<1>6. CASE ~ (t.ok /\ a.served = t.pa)
  <2>1. golden' = golden
    BY <1>1, <1>6 DEF AfterAccess
  <2>2. ~ (a = w /\ a.served # None)
    BY <1>2, <1>3, <1>6
  <2> QED
    BY <1>0, <2>1, <2>2 DEF w
<1> QED
  BY <1>5, <1>6

LEMMA ExplainingFound ==
  ASSUME NEW G \in Seq(GoldenEntries), NEW asid, NEW va, Explaining(G, asid, va) # 0
  PROVE  \E g \in Members(G) : /\ g = G[Explaining(G, asid, va)]
                               /\ g.va = va /\ (g.asid = asid \/ g.global)
<1>1. CASE Own(G, asid, va) # 0
  BY <1>1, OwnFound DEF Explaining, Members
<1>2. CASE Own(G, asid, va) = 0
  BY <1>2, GlobalFound DEF Explaining, Members
<1> QED
  BY <1>1, <1>2

(* A wild hart that serves another page than the tables' is accused by the  *)
(* TLB checker, unless it may hold a translation to it.                     *)
LEMMA StaleCaught ==
  ASSUME TransInv, hw = "wild", NEW asid \in Asids, NEW va \in Pages, NEW m \in Accesses,
         m.priv # "M", NEW a \in Answers, NEW by, Judge(asid, va, m.kind, m, a, by),
         ~ judged'.right, judged'.page, ~ judged'.held, ~ judged'.unclear
  PROVE  judged'.alarms # {}
<1> DEFINE t == Translate(image, Root[asid], va, m.kind, m)
           w == Walk(asid, va, m.kind, m)
           i == Explaining(golden, asid, va)
<1>0. TablesOK /\ golden \in Seq(GoldenEntries)
  BY DEF TransInv, TransTypes
<1>1. /\ ~ Gated(image, m) /\ a # w /\ a.served # None /\ w.served # None
      /\ judged'.alarms = TlbAlarms(golden, asid, va, t, a.served)
      /\ \A e \in Hits(asid, va) : Gives(e, va) # a.served
      /\ \A e \in spared : ~ (e.va = va /\ (e.asid = asid \/ e.pte.g) /\ Gives(e, va) = a.served)
  BY DEF Judge, Quiet
<1>2. /\ ~ t.ok => w = Fault(m.kind)
      /\ t.ok => w = [served |-> t.pa, trap |-> None]
  BY <1>0, TranslateIsWalk, Zenon
<1> HIDE DEF t, w
<1>3. t.ok /\ a.served # t.pa
  <2>1. t.ok
    BY <1>1, <1>2, FaultIsAnswer
  <2>2. a = [served |-> a.served, trap |-> None]
    BY <1>1 DEF Answers
  <2> QED
    BY <1>1, <1>2, <2>1, <2>2
<1>4. TlbAlarms(golden, asid, va, t, a.served) = {} =>
        i # 0 /\ golden[i].pa = a.served /\ ~ golden[i].invalidated
  BY <1>1, <1>3 DEF TlbAlarms
<1>5. ASSUME i # 0, golden[i].pa = a.served, ~ golden[i].invalidated PROVE FALSE
  <2>1. PICK g \in Members(golden) : g = golden[i] /\ g.va = va /\ (g.asid = asid \/ g.global)
    BY <1>0, <1>5, ExplainingFound
  <2>2. PICK e \in tlb \cup spared : IsOf(g, e)
    BY <1>5, <2>1 DEF TransInv, WildHolds
  <2>3. e.va = va /\ (e.asid = asid \/ e.pte.g) /\ Gives(e, va) = a.served
    BY <1>5, <2>1, <2>2 DEF IsOf
  <2>4. e \notin tlb
    <3>1. SamePage(e, va)
      BY <2>3 DEF SamePage
    <3> QED
      BY <1>1, <2>3, <3>1 DEF Hits
  <2> QED
    BY <1>1, <2>2, <2>3, <2>4
<1> QED
  BY <1>1, <1>4, <1>5

(* A hart by the book that answers from its own entry of the page is not    *)
(* accused by the TLB checker.                                              *)
LEMMA HitCleared ==
  ASSUME TransInv, hw = "book", NEW asid \in Asids, NEW va \in Pages, NEW m \in Accesses,
         NEW e \in Hits(asid, va), e.va = va, ~ e.pte.g,
         NEW by, Judge(asid, va, m.kind, m, Answer(e, va, m.kind, m), by)
  PROVE  judged'.alarms = {}
<1> DEFINE t == Translate(image, Root[asid], va, m.kind, m)
           a == Answer(e, va, m.kind, m)
           i == Own(golden, asid, va)
<1>0. golden \in Seq(GoldenEntries) /\ OneOfAKey(golden)
  BY DEF TransInv, TransTypes
<1>1. e \in tlb /\ e \in Entries /\ e.asid = asid
  BY DEF TransInv, TransTypes, Hits
<1>2. PICK g \in Members(golden) : g.asid = asid /\ g.va = va /\ g.pa = Gives(e, va) /\ ~ g.invalidated
  BY <1>1 DEF TransInv, BookAllowed, Allowed
<1>3. i # 0 /\ golden[i] = g
  <2>1. PICK k \in DOMAIN golden : g = golden[k]
    BY DEF Members
  <2>2. i # 0
    BY <1>0, <1>2, <2>1, OwnFound
  <2>3. i \in DOMAIN golden /\ golden[i].asid = asid /\ golden[i].va = va
    BY <1>0, <2>2, OwnFound
  <2> QED
    BY <1>0, <1>2, <2>1, <2>2, <2>3 DEF OneOfAKey
<1>4. Explaining(golden, asid, va) = i
  BY <1>3 DEF Explaining
<1>5. a.served \in {None, Gives(e, va)}
  BY <1>1, AnswerIsAnswer
<1>6. judged'.alarms = IF Gated(image, m) THEN {} ELSE TlbAlarms(golden, asid, va, t, a.served)
  BY DEF Judge, Quiet
<1>7. TlbAlarms(golden, asid, va, t, a.served) = {}
  <2> HIDE DEF t, a, i
  <2> QED
    BY <1>2, <1>3, <1>4, <1>5 DEF TlbAlarms
<1> QED
  BY <1>6, <1>7

-----------------------------------------------------------------------------
(* The records of a hart in Sv32, one by one.                               *)

Verdicts == CorrectHartCleared /\ StaleNeverMissed

LEMMA WritePteStep ==
  ASSUME TransInv, NEW place \in DOMAIN Ptes, NEW pte \in Ptes[place], WritePte(place, pte)
  PROVE  TransInv' /\ Verdicts'
<1>1. UNCHANGED <<mode, hw, tlb, golden, spared>> /\ judged' = Quiet
  BY DEF WritePte, Retire
<1>2. TablesOK'
  BY TablesAssumption DEF WritePte, TransInv, TransTypes, TablesOK
<1>3. TransTypes'
  BY <1>1, <1>2 DEF TransInv, TransTypes
<1>4. WildHolds' /\ BookApart' /\ BookAllowed'
  BY <1>1 DEF TransInv, WildHolds, BookApart, BookAllowed, Allowed
<1>5. Verdicts'
  BY <1>1 DEF Verdicts, CorrectHartCleared, StaleNeverMissed, Quiet
<1> QED
  BY <1>3, <1>4, <1>5 DEF TransInv

LEMMA HitStep ==
  ASSUME TransInv, NEW asid \in Asids, NEW va \in Pages, NEW m \in Accesses,
         Hit(asid, va, m.kind, m)
  PROVE  TransInv' /\ Verdicts'
<1>1. /\ UNCHANGED <<mode, hw, image, tlb, spared>> /\ hw = "book" /\ m.priv # "M"
      /\ TransTypes /\ TablesOK
  BY DEF Hit, Retire, TransInv, TransTypes
<1>2. PICK e \in Hits(asid, va) : Judge(asid, va, m.kind, m, Answer(e, va, m.kind, m), {e})
  BY DEF Hit
<1>3. e \in tlb /\ e \in Entries /\ SamePage(e, va) /\ (e.asid = asid \/ e.pte.g)
  BY DEF TransInv, TransTypes, Hits
<1> DEFINE a == Answer(e, va, m.kind, m)
<1>4. a \in Answers /\ a.served \in {None, Gives(e, va)}
  BY <1>3, AnswerIsAnswer
<1>5. Verdicts'
  <2>1. judged'.vm = {} <=> judged'.right
    BY <1>1, <1>2, <1>4, VmExact
  <2>2. judged'.alarms # {} => judged'.unclear
    <3>1. judged'.unclear = (\/ e.va # va \/ e.pte.g
                            \/ /\ hw = "wild"
                               /\ \E f \in spared : /\ f.va = va /\ (f.asid = asid \/ f.pte.g)
                                                  /\ Gives(f, va) = a.served)
      BY <1>2 DEF Judge, Quiet
    <3>2. e.va = va /\ ~ e.pte.g => judged'.alarms = {}
      BY <1>1, <1>2, HitCleared
    <3> QED
      BY <3>1, <3>2
  <2> QED
    BY <1>1, <2>1, <2>2 DEF Verdicts, CorrectHartCleared, StaleNeverMissed
<1> HIDE DEF a
<1>6. /\ golden' \in Seq(GoldenEntries) /\ OneOfAKey(golden')
      /\ \/ golden' = golden
         \/ \E f \in Entries : Members(golden') =
               {g \in Members(golden) : g.asid # asid \/ g.va # va} \cup
               {[asid |-> asid, va |-> va, pa |-> Gives(e, va), global |-> f.pte.g,
                 invalidated |-> FALSE]}
  <2>1. Judge(asid, va, m.kind, m, a, {e})
    BY <1>2 DEF a
  <2>2. /\ golden' \in Seq(GoldenEntries) /\ OneOfAKey(golden')
        /\ a = Walk(asid, va, m.kind, m) /\ a.served # None =>
             \E f \in Entries : LearnsFrom(f, asid, va) /\ Gives(f, va) = a.served
        /\ ~ (a = Walk(asid, va, m.kind, m) /\ a.served # None) => golden' = golden
    BY <1>1, <1>4, <2>1, GoldenEffect
  <2> QED
    BY <1>4, <2>2 DEF LearnsFrom
\* No other entry of the TLB is of this page and address space.
<1>7. BookAllowed'
  <2> SUFFICES ASSUME NEW f \in tlb, ~ f.pte.g PROVE Allowed(f, golden')
    BY <1>1 DEF BookAllowed, Allowed
  <2>1. PICK g \in Members(golden) : /\ g.asid = f.asid /\ g.va = f.va
                                    /\ g.pa = Gives(f, f.va) /\ ~ g.invalidated
    BY <1>1 DEF TransInv, BookAllowed, Allowed
  <2>2. CASE golden' = golden \/ f.asid # asid \/ f.va # va
    <3>1. g \in Members(golden')
      BY <1>6, <2>1, <2>2
    <3> QED
      BY <2>1, <3>1 DEF Allowed
  <2>3. CASE golden' # golden /\ f.asid = asid /\ f.va = va
    <3>1. f = e
      BY <1>1, <1>3, <2>3 DEF TransInv, BookApart, Overlap
    <3> DEFINE new(h) == [asid |-> asid, va |-> va, pa |-> Gives(e, va), global |-> h.pte.g,
                          invalidated |-> FALSE]
    <3>2. PICK h \in Entries : new(h) \in Members(golden')
      BY <1>6, <2>3
    <3> QED
      BY <2>3, <3>1, <3>2 DEF Allowed
  <2> QED
    BY <2>2, <2>3
<1>8. WildHolds' /\ BookApart'
  BY <1>1 DEF TransInv, WildHolds, BookApart
<1>9. TransTypes'
  BY <1>1, <1>6 DEF TransTypes, TablesOK
<1> QED
  BY <1>5, <1>7, <1>8, <1>9 DEF TransInv

LEMMA DirectStep ==
  ASSUME TransInv, NEW asid \in Asids, NEW va \in Pages, NEW m \in Accesses,
         Direct(asid, va, m.kind, m)
  PROVE  TransInv' /\ Verdicts'
<1>1. /\ UNCHANGED <<mode, hw, image, tlb, spared>> /\ hw = "book"
      /\ Gated(image, m) /\ Judge(asid, va, m.kind, m, [served |-> va, trap |-> None], {})
  BY DEF Direct, Retire, Gated
<1>2. golden' = golden /\ judged'.alarms = {} /\ judged'.vm = {}
  BY <1>1 DEF Judge, Quiet
<1>3. TransInv'
  BY <1>1, <1>2 DEF TransInv, TransTypes, TablesOK, WildHolds, BookApart, BookAllowed, Allowed
<1> QED
  BY <1>1, <1>2, <1>3 DEF Verdicts, CorrectHartCleared, StaleNeverMissed

\* A right answer is not accused by the TLB checker.
LEMMA RightCleared ==
  ASSUME TablesOK, NEW asid \in Asids, NEW va \in Pages, NEW m \in Accesses, m.priv # "M",
         NEW by, Judge(asid, va, m.kind, m, Walk(asid, va, m.kind, m), by)
  PROVE  judged'.alarms = {}
<1> DEFINE t == Translate(image, Root[asid], va, m.kind, m)
           w == Walk(asid, va, m.kind, m)
<1>1. t.ok => w = [served |-> t.pa, trap |-> None]
  BY TranslateIsWalk, Zenon
<1>2. judged'.alarms = IF Gated(image, m) THEN {} ELSE TlbAlarms(golden, asid, va, t, w.served)
  BY DEF Judge, Quiet
<1> HIDE DEF t, w
<1>3. t.ok => w.served = t.pa
  BY <1>1
<1> QED
  BY <1>2, <1>3 DEF TlbAlarms

LEMMA MissStep ==
  ASSUME TransInv, NEW asid \in Asids, NEW va \in Pages, NEW m \in Accesses,
         Miss(asid, va, m.kind, m)
  PROVE  TransInv' /\ Verdicts'
<1> DEFINE a == Walk(asid, va, m.kind, m)
<1>1. /\ UNCHANGED <<mode, hw, image, spared>> /\ hw = "book" /\ m.priv # "M"
      /\ TransTypes /\ TablesOK /\ Judge(asid, va, m.kind, m, a, {})
      /\ tlb' = IF a.served = None THEN tlb ELSE UNION {Fill(e) : e \in Leaves(asid, va)}
  BY DEF Miss, Retire, TransInv, TransTypes
<1>2. a \in Answers
  BY <1>1, WalkIsAnswer
<1>3. Verdicts'
  <2>1. judged'.right
    BY <1>1 DEF Judge, Quiet
  <2>2. judged'.vm = {}
    BY <1>1, <1>2, <2>1, VmExact
  <2>3. judged'.alarms = {}
    BY <1>1, RightCleared
  <2> QED
    BY <1>1, <2>1, <2>2, <2>3 DEF Verdicts, CorrectHartCleared, StaleNeverMissed
<1>4. /\ golden' \in Seq(GoldenEntries) /\ OneOfAKey(golden')
      /\ a.served # None => \E e \in Entries : LearnsFrom(e, asid, va)
      /\ a.served = None => golden' = golden
  <2>1. a = Walk(asid, va, m.kind, m)
    OBVIOUS
  <2> HIDE DEF a
  <2> QED
    BY <1>1, <1>2, <2>1, GoldenEffect
<1> HIDE DEF a
<1>5. CASE a.served = None
  <2>1. UNCHANGED <<tlb, golden>>
    BY <1>1, <1>4, <1>5
  <2> QED
    BY <1>1, <1>3, <2>1 DEF TransInv, TransTypes, TablesOK, WildHolds, BookApart, BookAllowed, Allowed
<1>6. CASE a.served # None
  <2>1. PICK e \in Entries :
          /\ Leaves(asid, va) = {e} /\ e.asid = asid /\ e.va = va
          /\ Members(golden') =
               {g \in Members(golden) : g.asid # asid \/ g.va # va} \cup
               {[asid |-> asid, va |-> va, pa |-> Gives(e, va), global |-> e.pte.g,
                 invalidated |-> FALSE]}
    BY <1>4, <1>6 DEF LearnsFrom
  <2>2. tlb' = {f \in tlb : ~ Overlap(e, f)} \cup {e}
    <3>1. UNION {Fill(f) : f \in Leaves(asid, va)} = Fill(e)
      BY <2>1
    <3> QED
      BY <1>1, <1>6, <3>1 DEF Fill
  <2>3. BookApart'
    <3>1. \A f \in tlb : Overlap(f, e) => Overlap(e, f)
      BY DEF Overlap
    <3> QED
      BY <1>1, <2>2, <3>1 DEF TransInv, BookApart
  <2>4. BookAllowed'
    <3> SUFFICES ASSUME NEW f \in tlb', ~ f.pte.g PROVE Allowed(f, golden')
      BY <1>1 DEF BookAllowed
    <3>1. CASE f = e
      <4> DEFINE new == [asid |-> asid, va |-> va, pa |-> Gives(e, va), global |-> e.pte.g,
                         invalidated |-> FALSE]
      <4>1. new \in Members(golden')
        BY <2>1
      <4> QED
        BY <2>1, <3>1, <4>1 DEF Allowed
    <3>2. CASE f \in tlb /\ ~ Overlap(e, f)
      <4>1. PICK g \in Members(golden) : /\ g.asid = f.asid /\ g.va = f.va
                                        /\ g.pa = Gives(f, f.va) /\ ~ g.invalidated
        BY <1>1, <3>2 DEF TransInv, BookAllowed, Allowed
      <4>2. f.asid # asid \/ f.va # va
        BY <2>1, <3>2 DEF Overlap, SamePage
      <4>3. g \in Members(golden')
        BY <2>1, <4>1, <4>2
      <4> QED
        BY <4>1, <4>3 DEF Allowed
    <3> QED
      BY <2>2, <3>1, <3>2
  <2>5. TransTypes' /\ WildHolds'
    BY <1>1, <1>4, <2>2 DEF TransTypes, TablesOK, WildHolds
  <2> QED
    BY <1>3, <2>3, <2>4, <2>5 DEF TransInv
<1> QED
  BY <1>5, <1>6

LEMMA WildStep ==
  ASSUME TransInv, NEW asid \in Asids, NEW va \in Pages, NEW m \in Accesses,
         Wild(asid, va, m.kind, m)
  PROVE  TransInv' /\ Verdicts'
<1> DEFINE w == Walk(asid, va, m.kind, m)
<1>1. /\ UNCHANGED <<mode, hw, image, spared>> /\ hw = "wild" /\ m.priv # "M"
      /\ TransTypes /\ TablesOK
  BY DEF Wild, Retire, TransInv, TransTypes
<1>2. PICK a \in [served : Frames, trap : {None}] \cup [served : {None}, trap : {13, 15}] :
        /\ Judge(asid, va, m.kind, m, a, {})
        /\ tlb' = IF a.served # None /\ a = w THEN UNION {Fill(e) : e \in Leaves(asid, va)} ELSE tlb
  BY DEF Wild
<1>3. a \in Answers
  BY TablesAssumption DEF Answers, PageNumbers
<1>4. Verdicts'
  <2>1. judged'.vm = {} <=> judged'.right
    BY <1>1, <1>2, <1>3, VmExact
  <2>2. ~ judged'.right /\ judged'.page /\ ~ judged'.held /\ ~ judged'.unclear
          => judged'.alarms # {}
    BY <1>1, <1>2, <1>3, StaleCaught
  <2> QED
    BY <1>1, <2>1, <2>2 DEF Verdicts, CorrectHartCleared, StaleNeverMissed
<1>5. /\ golden' \in Seq(GoldenEntries) /\ OneOfAKey(golden')
      /\ a = w /\ a.served # None => \E e \in Entries : LearnsFrom(e, asid, va)
      /\ ~ (a = w /\ a.served # None) => golden' = golden
  BY <1>1, <1>2, <1>3, GoldenEffect
<1>6. CASE ~ (a = w /\ a.served # None)
  <2>1. UNCHANGED <<tlb, golden>>
    BY <1>2, <1>5, <1>6
  <2> QED
    BY <1>1, <1>4, <2>1 DEF TransInv, TransTypes, TablesOK, WildHolds, BookApart, BookAllowed, Allowed
<1>7. CASE a = w /\ a.served # None
  <2>1. PICK e \in Entries :
          /\ Leaves(asid, va) = {e} /\ e.asid = asid /\ e.va = va
          /\ Members(golden') =
               {g \in Members(golden) : g.asid # asid \/ g.va # va} \cup
               {[asid |-> asid, va |-> va, pa |-> Gives(e, va), global |-> e.pte.g,
                 invalidated |-> FALSE]}
    BY <1>5, <1>7 DEF LearnsFrom
  <2>2. tlb' = tlb \cup {e}
    <3>1. UNION {Fill(f) : f \in Leaves(asid, va)} = Fill(e)
      BY <2>1
    <3> QED
      BY <1>1, <1>2, <1>7, <3>1 DEF Fill
  <2>3. WildHolds'
    <3> SUFFICES ASSUME NEW g \in Members(golden'), ~ g.invalidated
                 PROVE  \E f \in tlb' \cup spared : IsOf(g, f)
      BY <1>1 DEF WildHolds, IsOf
    <3>1. CASE g \in Members(golden)
      BY <1>1, <2>2, <3>1 DEF TransInv, WildHolds
    <3>2. CASE g \notin Members(golden)
      <4>1. g = [asid |-> asid, va |-> va, pa |-> Gives(e, va), global |-> e.pte.g,
                 invalidated |-> FALSE]
        BY <2>1, <3>2
      <4>2. IsOf(g, e)
        BY <2>1, <4>1 DEF IsOf
      <4> QED
        BY <2>2, <4>2
    <3> QED
      BY <3>1, <3>2
  <2>4. TransTypes' /\ BookApart' /\ BookAllowed'
    BY <1>1, <1>5, <2>2 DEF TransTypes, TablesOK, BookApart, BookAllowed
  <2> QED
    BY <1>4, <2>3, <2>4 DEF TransInv
<1> QED
  BY <1>6, <1>7

\* What a fence covers in the TLB is what it invalidates in the golden TLB, as
\* far as it tells its operands and the page of a superpage is the one it names.
LEMMA FenceStep ==
  ASSUME TransInv, NEW va \in Pages \cup {All}, NEW asid \in Asids \cup {All},
         NEW seen \in BOOLEAN, Fence(va, asid, seen)
  PROVE  TransInv' /\ Verdicts'
<1> DEFINE gone   == {e \in tlb : Covers(e, va, asid, SamePage(e, va))}
           marked == {e \in tlb \cup spared : /\ seen \/ <<va, asid>> = <<All, All>>
                                              /\ Covers(e, va, asid, e.va = va)}
<1>1. /\ UNCHANGED <<mode, hw, image>> /\ judged' = Quiet
      /\ tlb' = tlb \ gone /\ spared' = (spared \cup gone) \ marked
      /\ golden' = Fenced(golden, va, asid, seen)
      /\ TransTypes
  BY DEF Fence, Retire, TransInv
<1>2. /\ golden' \in Seq(GoldenEntries) /\ OneOfAKey(golden')
      /\ \A f \in Members(golden') : \E g \in Members(golden) :
           /\ f.asid = g.asid /\ f.va = g.va /\ f.pa = g.pa /\ f.global = g.global
           /\ ~ f.invalidated => ~ g.invalidated /\ ~ Struck(g, va, asid, seen)
      /\ \A g \in Members(golden) : ~ Struck(g, va, asid, seen) => g \in Members(golden')
  BY <1>1, FencedEffect DEF TransTypes
<1>3. TransTypes'
  BY <1>1, <1>2 DEF TransTypes, TablesOK
<1>4. WildHolds'
  <2> SUFFICES ASSUME hw = "wild", NEW f \in Members(golden'), ~ f.invalidated
               PROVE  \E e \in tlb' \cup spared' : IsOf(f, e)
    BY <1>1 DEF WildHolds, IsOf
  <2>1. PICK g \in Members(golden) :
          /\ f.asid = g.asid /\ f.va = g.va /\ f.pa = g.pa /\ f.global = g.global
          /\ ~ g.invalidated /\ ~ Struck(g, va, asid, seen)
    BY <1>2
  <2>2. PICK e \in tlb \cup spared : IsOf(g, e)
    BY <2>1 DEF TransInv, WildHolds
  <2>3. e \notin marked
    BY <2>1, <2>2 DEF IsOf, Struck, Covers
  <2>4. e \in tlb' \cup spared'
    BY <1>1, <2>2, <2>3
  <2>5. IsOf(f, e)
    BY <2>1, <2>2 DEF IsOf
  <2> QED
    BY <2>4, <2>5
<1>5. BookApart'
  BY <1>1 DEF TransInv, BookApart
<1>6. BookAllowed'
  <2> SUFFICES ASSUME hw = "book", NEW e \in tlb', ~ e.pte.g PROVE Allowed(e, golden')
    BY <1>1 DEF BookAllowed
  <2>0. e \in tlb /\ e \notin gone /\ e \in Entries
    BY <1>1 DEF TransTypes
  <2>1. PICK g \in Members(golden) : /\ g.asid = e.asid /\ g.va = e.va
                                    /\ g.pa = Gives(e, e.va) /\ ~ g.invalidated
    BY <2>0 DEF TransInv, BookAllowed, Allowed
  <2>2. ~ Struck(g, va, asid, seen)
    BY <2>0, <2>1 DEF Struck, Covers, SamePage
  <2>3. g \in Members(golden')
    BY <1>2, <2>2
  <2> QED
    BY <2>1, <2>3 DEF Allowed
<1>7. Verdicts'
  BY <1>1 DEF Verdicts, CorrectHartCleared, StaleNeverMissed, Quiet
<1> QED
  BY <1>3, <1>4, <1>5, <1>6, <1>7 DEF TransInv

-----------------------------------------------------------------------------
(* Memory.  Of a word of which no half was stored since, the checkers know  *)
(* nothing or what it holds; and their reservation is the hart's, unless    *)
(* half a word was stored over it or it is too old to count.                *)

Values       == 0..3
Reservations == [addr : Words \cup {None}, seq : Nat]

WordTypes ==
  /\ mem \in [Words -> Values] /\ stored \subseteq Words /\ mixed \subseteq Words
  /\ reg \in Values /\ told \in BOOLEAN
  /\ resv \in Reservations /\ (resv.addr = None => resv = NoReservation)
  /\ shadow = [reg |-> shadow.reg, mem |-> shadow.mem, resv |-> shadow.resv]
  /\ shadow.resv \in Reservations

RegKnown == shadow.reg = IF told THEN reg ELSE None

LastKnown == \A w \in Words \ mixed :
  /\ Known(last, w) \in {None, mem[w]}
  /\ w \in stored => Known(last, w) = mem[w]

ShadowKnown == hw = "book" /\ judged.alarms = {} =>
  \A w \in Words \ mixed : Known(shadow.mem, w) \in {None, mem[w]}

\* Whatever the hart: an AMO that lists no read is held to what was stored.
ShadowStored == judged.alarms = {} =>
  \A w \in stored \ mixed : Known(shadow.mem, w) = mem[w]

ResvLinked == judged.alarms = {} =>
  IF resv.addr = None THEN shadow.resv.addr \in {None} \cup mixed
  ELSE shadow.resv = resv \/ (shadow.resv.addr = None /\ Expired)

WordInv == WordTypes /\ RegKnown /\ LastKnown /\ ShadowKnown /\ ShadowStored /\ ResvLinked

WordVerdicts == CorrectHartCleared /\ SilenceMeansSequential

LEMMA KnownWith ==
  ASSUME NEW f, NEW k, NEW v, NEW j
  PROVE  Known(With(f, k, v), j) = IF j = k THEN v ELSE Known(f, j)
BY DEF Known, With

LEMMA WordFacts ==
  /\ None \notin Values
  /\ \A w \in Words : /\ w \in Nat /\ w # None /\ ~ Misaligned(w)
                      /\ Halves[w] = <<w, w + 2>>
                      /\ w + 2 # None /\ w + 2 \notin Words /\ Misaligned(w + 2)
<1>1. None \notin Values
  BY TablesAssumption DEF Values
<1>2. ASSUME NEW w \in Words
      PROVE  /\ w \in Nat /\ w # None /\ ~ Misaligned(w)
             /\ Halves[w] = <<w, w + 2>>
             /\ w + 2 # None /\ w + 2 \notin Words /\ Misaligned(w + 2)
  <2>1. w \in Nat /\ w % 4 = 0 /\ Halves[w] = <<w, w + 2>>
    BY WordsAssumption DEF WordBytes
  <2>2. w + 2 \in Nat /\ (w + 2) % 4 = 2
    BY <2>1
  <2>3. w + 2 \notin Words
    BY <2>2, WordsAssumption DEF WordBytes
  <2> QED
    BY <2>1, <2>2, <2>3, TablesAssumption DEF Misaligned, WordBytes
<1> QED
  BY <1>1, <1>2

\* An access is a record, which None is not.
LEMMA AccessFacts ==
  ASSUME NEW addr \in Nat, NEW v \in Values \cup {None}
  PROVE  At(addr, v) # None /\ At(addr, v).addr = addr /\ At(addr, v).value = v
<1>1. At(addr, v) \in [addr : Nat, value : Nat \cup {None}]
  BY DEF At, Values
<1> QED
  BY <1>1, WordsAssumption DEF At

LEMMA ReportedValues ==
  ASSUME NEW v \in Values
  PROVE  Reported(v) \subseteq Values /\ (hw = "book" => Reported(v) = {v})
BY DEF Reported, Values, WordValues

\* What the atomics checker makes of a record that is no atomic.
LEMMA ReplayOther ==
  ASSUME NEW rec, ~ IsAtomic(rec), WordTypes
  PROVE  /\ Replay(shadow, rec, n).alarms = {}
         /\ Replay(shadow, rec, n).shadow =
              [reg  |-> IF rec.set # None THEN rec.set ELSE shadow.reg,
               mem  |-> IF Stored(rec) THEN With(shadow.mem, rec.write.addr, rec.write.value)
                        ELSE shadow.mem,
               resv |-> IF rec.write # None /\ rec.write.addr = shadow.resv.addr
                        THEN NoReservation ELSE shadow.resv]
<1>1. shadow = [reg |-> shadow.reg, mem |-> shadow.mem, resv |-> shadow.resv]
  BY DEF WordTypes
<1>2. Broken(shadow, rec) = [reg |-> shadow.reg, mem |-> shadow.mem,
         resv |-> IF rec.write # None /\ rec.write.addr = shadow.resv.addr
                  THEN NoReservation ELSE shadow.resv]
  BY <1>1 DEF Broken
<1> DEFINE b == Broken(shadow, rec)
<1>3. Replay(shadow, rec, n) =
        [alarms |-> {},
         shadow |-> [b EXCEPT !.reg = IF rec.set # None THEN rec.set ELSE @,
                              !.mem = IF Stored(rec) THEN With(@, rec.write.addr, rec.write.value)
                                      ELSE @]]
  BY DEF Replay
<1>4. b.mem = shadow.mem /\ b.reg = shadow.reg
  BY <1>2
<1> DEFINE reg1  == IF rec.set # None THEN rec.set ELSE shadow.reg
           mem1  == IF Stored(rec) THEN With(shadow.mem, rec.write.addr, rec.write.value)
                    ELSE shadow.mem
           resv1 == IF rec.write # None /\ rec.write.addr = shadow.resv.addr
                    THEN NoReservation ELSE shadow.resv
<1>5. b = [reg |-> shadow.reg, mem |-> shadow.mem, resv |-> resv1]
  BY <1>2
<1>6. Replay(shadow, rec, n) = [alarms |-> {}, shadow |-> [b EXCEPT !.reg = reg1, !.mem = mem1]]
  BY <1>3, <1>4
<1> HIDE DEF b, reg1, mem1, resv1
<1>7. [b EXCEPT !.reg = reg1, !.mem = mem1] = [reg |-> reg1, mem |-> mem1, resv |-> resv1]
  <2>1. [b EXCEPT !.reg = reg1] = [reg |-> reg1, mem |-> shadow.mem, resv |-> resv1]
    BY <1>5
  <2> DEFINE c == [b EXCEPT !.reg = reg1]
  <2>2. [b EXCEPT !.reg = reg1, !.mem = mem1] = [c EXCEPT !.mem = mem1]
    OBVIOUS
  <2> HIDE DEF c
  <2>3. c = [reg |-> reg1, mem |-> shadow.mem, resv |-> resv1]
    BY <2>1 DEF c
  <2> QED
    BY <2>2, <2>3
<1>8. /\ Replay(shadow, rec, n).alarms = {}
      /\ Replay(shadow, rec, n).shadow = [reg |-> reg1, mem |-> mem1, resv |-> resv1]
  BY <1>6, <1>7
<1> QED
  BY <1>8 DEF reg1, mem1, resv1

\* The reservation of the hart is not younger for a record more.
LEMMA Older ==
  ASSUME n \in Nat, n' = n + 1, resv' = resv, resv \in Reservations, Expired
  PROVE  Expired'
<1>1. resv.seq \in Nat /\ Window \in Nat
  BY WordsAssumption DEF Reservations
<1> QED
  BY <1>1 DEF Expired

LEMMA LoadImmediateStep ==
  ASSUME WordInv, n \in Nat, mode = "bare", NEW v \in Immediates, LoadImmediate(v)
  PROVE  WordInv' /\ WordVerdicts'
<1> DEFINE rec == [Plain("li") EXCEPT !.set = v]
<1>0. rec.op = "li" /\ rec.read = None /\ rec.write = None /\ rec.set = v
  BY DEF Plain
<1> HIDE DEF rec
<1>1. /\ UNCHANGED <<mode, hw, mem, stored, mixed, resv>> /\ n' = n + 1 /\ judged.alarms = {}
      /\ reg' = v /\ told' = TRUE /\ Check(rec, TRUE, FALSE)
  BY DEF LoadImmediate, Retire, rec
<1>2. v \in Values /\ v # None /\ ~ IsAtomic(rec) /\ ~ Stored(rec)
  BY <1>0, WordsAssumption, WordFacts DEF Values, WordValues, IsAtomic, Stored
<1>3. WordTypes
  BY DEF WordInv
<1>4. /\ judged'.alarms = {} /\ judged'.right /\ judged'.vm = {}
      /\ shadow' = [reg |-> v, mem |-> shadow.mem, resv |-> shadow.resv] /\ last' = last
  BY <1>0, <1>1, <1>2, <1>3, ReplayOther DEF Check, Quiet, LsqAlarms, LsqAfter
<1>5. WordTypes'
  BY <1>1, <1>2, <1>3, <1>4 DEF WordTypes
<1>6. RegKnown' /\ LastKnown' /\ ShadowKnown' /\ ShadowStored'
  BY <1>1, <1>4 DEF WordInv, RegKnown, LastKnown, ShadowKnown, ShadowStored
<1>7. ResvLinked'
  BY <1>1, <1>3, <1>4, Older DEF WordInv, WordTypes, ResvLinked
<1>8. WordVerdicts'
  BY <1>4 DEF WordVerdicts, CorrectHartCleared, SilenceMeansSequential
<1> QED
  BY <1>5, <1>6, <1>7, <1>8 DEF WordInv

LEMMA LoadStep ==
  ASSUME WordInv, n \in Nat, mode = "bare", NEW w \in Words, Load(w)
  PROVE  WordInv' /\ WordVerdicts'
<1>1. /\ UNCHANGED <<mode, hw, mem, stored, mixed, reg, told, resv>> /\ n' = n + 1
      /\ judged.alarms = {}
  BY DEF Load, Retire
<1>2. PICK v \in Reported(mem[w]) :
        Check([Plain("load") EXCEPT !.read = At(w, v)], Sequential(w, v), w \in mixed)
  BY DEF Load
<1> DEFINE rec == [Plain("load") EXCEPT !.read = At(w, v)]
<1>3. WordTypes /\ v \in Values /\ (hw = "book" => v = mem[w]) /\ v # None
  <2>1. WordTypes /\ mem[w] \in Values
    BY DEF WordInv, WordTypes
  <2> QED
    BY <2>1, ReportedValues, WordFacts
<1>4. rec.op = "load" /\ rec.read = At(w, v) /\ rec.write = None /\ rec.set = None
  BY DEF Plain
<1>5. At(w, v) # None /\ At(w, v).addr = w /\ At(w, v).value = v
  BY <1>3, AccessFacts, WordFacts
<1>6. Check(rec, Sequential(w, v), w \in mixed)
  BY <1>2
<1> HIDE DEF rec
<1>7. ~ IsAtomic(rec) /\ ~ Stored(rec)
  BY <1>4, WordsAssumption DEF IsAtomic, Stored
<1>8. /\ judged'.alarms = LsqAlarms(last, rec) /\ judged'.vm = {}
      /\ judged'.right = Sequential(w, v) /\ judged'.unclear = (w \in mixed)
      /\ shadow' = shadow /\ last' = last
  BY <1>3, <1>4, <1>6, <1>7, ReplayOther DEF Check, Quiet, LsqAfter, WordTypes
<1>9. LsqAlarms(last, rec) = {} <=> Known(last, w) \in {None, v}
  BY <1>3, <1>4, <1>5 DEF LsqAlarms, If, Differ
<1>10. WordVerdicts'
  <2>1. hw = "book" /\ w \notin mixed => judged'.alarms = {}
    BY <1>3, <1>8, <1>9 DEF WordInv, LastKnown
  <2>2. judged'.alarms = {} /\ w \notin mixed => judged'.right
    <3>1. mem[w] # None /\ (w \in stored /\ w \notin mixed => Known(last, w) = mem[w])
      BY WordFacts DEF WordInv, WordTypes, LastKnown
    <3>2. judged'.alarms = {} /\ w \notin mixed => Sequential(w, v)
      BY <1>8, <1>9, <3>1 DEF Sequential
    <3> QED
      BY <1>8, <3>2, Zenon
  <2> QED
    BY <1>1, <1>8, <2>1, <2>2 DEF WordVerdicts, CorrectHartCleared, SilenceMeansSequential
<1>11. WordInv'
  <2>1. WordTypes' /\ RegKnown' /\ LastKnown' /\ ShadowKnown' /\ ShadowStored'
    BY <1>1, <1>3, <1>8 DEF WordInv, WordTypes, RegKnown, LastKnown, ShadowKnown, ShadowStored
  <2>2. ResvLinked'
    BY <1>1, <1>3, <1>8, Older DEF WordInv, WordTypes, ResvLinked
  <2> QED
    BY <2>1, <2>2 DEF WordInv
<1> QED
  BY <1>10, <1>11

\* A whole word is stored.
LEMMA PutTypes ==
  ASSUME WordTypes, NEW w \in Words, NEW v \in Values, Put(w, v)
  PROVE  mem' \in [Words -> Values] /\ stored' \subseteq Words /\ mixed' \subseteq Words
BY DEF WordTypes, Put

LEMMA PutKnown ==
  ASSUME WordTypes, NEW w \in Words, NEW v \in Values, Put(w, v), NEW f,
         \A u \in Words \ mixed : Known(f, u) \in {None, mem[u]}
  PROVE  \A u \in Words \ mixed' : Known(With(f, w, v), u) \in {None, mem'[u]}
<1> TAKE u \in Words \ mixed'
<1>1. CASE u = w
  BY <1>1, KnownWith DEF WordTypes, Put
<1>2. CASE u # w
  BY <1>2, KnownWith DEF WordTypes, Put
<1> QED
  BY <1>1, <1>2

LEMMA PutLast ==
  ASSUME WordTypes, LastKnown, NEW w \in Words, NEW v \in Values, Put(w, v),
         last' = With(last, w, v)
  PROVE  LastKnown'
<1>1. \A u \in Words \ mixed' : Known(last', u) \in {None, mem'[u]}
  BY PutKnown DEF LastKnown
<1>2. ASSUME NEW u \in Words \ mixed', u \in stored' PROVE Known(last', u) = mem'[u]
  BY <1>2, KnownWith DEF WordTypes, LastKnown, Put
<1> QED
  BY <1>1, <1>2 DEF LastKnown

LEMMA PutShadow ==
  ASSUME WordTypes, ShadowStored, judged.alarms = {}, NEW w \in Words, NEW v \in Values, Put(w, v),
         shadow'.mem = With(shadow.mem, w, v)
  PROVE  ShadowStored'
<1>1. ASSUME NEW u \in stored' \ mixed' PROVE Known(shadow'.mem, u) = mem'[u]
  BY <1>1, KnownWith DEF WordTypes, ShadowStored, Put
<1> QED
  BY <1>1 DEF ShadowStored

LEMMA StoreStep ==
  ASSUME WordInv, n \in Nat, mode = "bare", NEW w \in Words, Store(w)
  PROVE  WordInv' /\ WordVerdicts'
<1> DEFINE rec == [Plain("store") EXCEPT !.write = At(w, reg)]
<1>1. /\ UNCHANGED <<mode, hw, reg, told>> /\ n' = n + 1 /\ judged.alarms = {}
      /\ Put(w, reg) /\ resv' = IF resv.addr = w THEN NoReservation ELSE resv
      /\ Check(rec, TRUE, FALSE)
  BY DEF Store, Retire, Held
<1>2. WordTypes /\ reg \in Values /\ reg # None /\ w # None
  BY WordFacts DEF WordInv, WordTypes
<1>3. rec.op = "store" /\ rec.read = None /\ rec.write = At(w, reg) /\ rec.set = None
  BY DEF Plain
<1>4. At(w, reg) # None /\ At(w, reg).addr = w /\ At(w, reg).value = reg
  BY <1>2, AccessFacts, WordFacts
<1> HIDE DEF rec
<1>5. ~ IsAtomic(rec) /\ Stored(rec)
  BY <1>2, <1>3, <1>4, WordsAssumption DEF IsAtomic, Stored
<1>6. /\ judged'.alarms = {} /\ judged'.vm = {} /\ judged'.right
      /\ last' = With(last, w, reg)
      /\ shadow' = [reg |-> shadow.reg, mem |-> With(shadow.mem, w, reg),
                    resv |-> IF w = shadow.resv.addr THEN NoReservation ELSE shadow.resv]
  BY <1>1, <1>2, <1>3, <1>4, <1>5, ReplayOther DEF Check, Quiet, LsqAlarms, LsqAfter
<1>7. WordTypes'
  <2>1. NoReservation \in Reservations /\ NoReservation.addr = None
    BY DEF NoReservation, Reservations
  <2> QED
    BY <1>1, <1>2, <1>6, <2>1, PutTypes DEF WordTypes
<1>8. LastKnown'
  BY <1>1, <1>2, <1>6, PutLast DEF WordInv
<1>9. ShadowKnown' /\ ShadowStored'
  <2>1. ShadowKnown'
    BY <1>1, <1>2, <1>6, PutKnown DEF WordInv, ShadowKnown
  <2>2. ShadowStored'
    BY <1>1, <1>2, <1>6, PutShadow DEF WordInv
  <2> QED
    BY <2>1, <2>2
<1>10. RegKnown'
  BY <1>1, <1>6 DEF WordInv, RegKnown
<1>11. ResvLinked'
  <2>1. NoReservation.addr = None /\ mixed' = mixed \ {w}
    BY <1>1 DEF NoReservation, Put
  <2>2. CASE resv.addr = None
    BY <1>1, <1>2, <1>6, <2>1, <2>2 DEF WordInv, ResvLinked
  <2>3. CASE resv.addr = w
    BY <1>1, <1>2, <1>6, <2>1, <2>3 DEF WordInv, ResvLinked
  <2>4. CASE resv.addr \notin {None, w}
    BY <1>1, <1>2, <1>6, <2>4, Older DEF WordInv, WordTypes, ResvLinked
  <2> QED
    BY <2>2, <2>3, <2>4
<1>12. WordVerdicts'
  BY <1>6 DEF WordVerdicts, CorrectHartCleared, SilenceMeansSequential
<1> QED
  BY <1>7, <1>8, <1>9, <1>10, <1>11, <1>12 DEF WordInv

LEMMA StoreHalfStep ==
  ASSUME WordInv, n \in Nat, mode = "bare", NEW w \in Words, NEW i \in {0, 1}, StoreHalf(w, i)
  PROVE  WordInv' /\ WordVerdicts'
<1> DEFINE bit  == reg % 2
           addr == Halves[w][i + 1]
           rec  == [Plain("store") EXCEPT !.write = At(addr, bit)]
           new  == Word((Bits(mem[w]) \ {i}) \cup {b \in {i} : bit = 1})
<1>1. /\ UNCHANGED <<mode, hw, reg, told, stored>> /\ n' = n + 1 /\ judged.alarms = {}
      /\ mem' = [mem EXCEPT ![w] = new] /\ mixed' = mixed \cup {w}
      /\ resv' = IF resv.addr = w THEN NoReservation ELSE resv
      /\ Check(rec, TRUE, FALSE)
  BY DEF StoreHalf, Retire, Held, WordInv, WordTypes
<1>2. WordTypes /\ bit \in Values /\ bit # None /\ w # None /\ new \in Values
  <2>1. reg \in 0..3 /\ WordTypes
    BY DEF WordInv, WordTypes, Values
  <2>2. bit \in Values
    BY <2>1 DEF Values
  <2>3. new \in Values
    BY DEF Word, Values
  <2> QED
    BY <2>1, <2>2, <2>3, WordFacts
<1>3. /\ addr \in Nat /\ addr # None
      /\ addr = w \/ (addr = w + 2 /\ addr \notin Words)
  BY WordFacts
<1>4. rec.op = "store" /\ rec.read = None /\ rec.write = At(addr, bit) /\ rec.set = None
  BY DEF Plain
<1> HIDE DEF rec, addr, bit, new
<1>5. At(addr, bit) # None /\ At(addr, bit).addr = addr /\ At(addr, bit).value = bit
  BY <1>2, <1>3, AccessFacts, WordFacts
<1>6. ~ IsAtomic(rec) /\ Stored(rec)
  BY <1>2, <1>4, <1>5, WordsAssumption DEF IsAtomic, Stored
<1>7. /\ judged'.alarms = {} /\ judged'.vm = {} /\ judged'.right
      /\ last' = With(last, addr, bit)
      /\ shadow' = [reg |-> shadow.reg, mem |-> With(shadow.mem, addr, bit),
                    resv |-> IF addr = shadow.resv.addr THEN NoReservation ELSE shadow.resv]
  BY <1>1, <1>2, <1>4, <1>5, <1>6, ReplayOther DEF Check, Quiet, LsqAlarms, LsqAfter
<1>8. WordTypes'
  <2>1. NoReservation \in Reservations /\ NoReservation.addr = None
    BY DEF NoReservation, Reservations
  <2> QED
    BY <1>1, <1>2, <1>7, <2>1 DEF WordTypes
<1>9. \A u \in Words \ mixed' : u \in Words \ mixed /\ u # addr /\ mem'[u] = mem[u]
  BY <1>1, <1>2, <1>3 DEF WordTypes
<1>10. LastKnown'
  BY <1>1, <1>7, <1>9, KnownWith DEF WordInv, LastKnown
<1>11. ShadowKnown' /\ ShadowStored'
  <2>1. ShadowKnown'
    BY <1>1, <1>7, <1>9, KnownWith DEF WordInv, ShadowKnown
  <2>2. ShadowStored'
    BY <1>1, <1>2, <1>7, <1>9, KnownWith DEF WordInv, WordTypes, ShadowStored
  <2> QED
    BY <2>1, <2>2
<1>12. RegKnown'
  BY <1>1, <1>7 DEF WordInv, RegKnown
<1>13. ResvLinked'
  <2>1. NoReservation.addr = None /\ mixed' = mixed \cup {w} /\ shadow.resv.addr \in Words \cup {None}
    BY <1>1, <1>2 DEF NoReservation, WordTypes, Reservations
  <2>2. CASE resv.addr = None
    BY <1>1, <1>2, <1>7, <2>1, <2>2 DEF WordInv, ResvLinked
  <2>3. CASE resv.addr = w
    BY <1>1, <1>2, <1>7, <2>1, <2>3 DEF WordInv, ResvLinked
  <2>4. CASE resv.addr \notin {None, w}
    <3>1. resv' = resv /\ resv \in Reservations /\ (Expired => Expired')
      BY <1>1, <1>2, <2>4, Older DEF WordTypes
    <3>2. resv.addr \in Words /\ resv.addr # addr
      BY <1>3, <2>4, <3>1 DEF Reservations
    <3> QED
      BY <1>1, <1>3, <1>7, <2>1, <2>4, <3>1, <3>2 DEF WordInv, ResvLinked
  <2> QED
    BY <2>2, <2>3, <2>4
<1>14. WordVerdicts'
  BY <1>7 DEF WordVerdicts, CorrectHartCleared, SilenceMeansSequential
<1> QED
  BY <1>8, <1>10, <1>11, <1>12, <1>13, <1>14 DEF WordInv

\* What the atomics checker makes of a record that is an atomic.
LEMMA ReplayAtomic ==
  ASSUME NEW rec, IsAtomic(rec), rec.set = None, NEW alarms, NEW reg1, NEW mem1, NEW resv1,
         CheckAtomic(shadow, rec, n) =
           [alarms |-> alarms, shadow |-> [reg |-> reg1, mem |-> mem1, resv |-> resv1]]
  PROVE  /\ Replay(shadow, rec, n).alarms = alarms
         /\ Replay(shadow, rec, n).shadow = [reg |-> reg1, mem |-> mem1, resv |-> resv1]
<1> DEFINE c == CheckAtomic(shadow, rec, n)
           s == [reg |-> reg1, mem |-> mem1, resv |-> resv1]
<1>1. Replay(shadow, rec, n) =
        [alarms |-> c.alarms, shadow |-> [c.shadow EXCEPT !.reg = c.shadow.reg, !.mem = c.shadow.mem]]
  BY DEF Replay
<1>2. c.alarms = alarms /\ c.shadow = s
  OBVIOUS
<1> HIDE DEF c
<1>3. Replay(shadow, rec, n) =
        [alarms |-> alarms, shadow |-> [s EXCEPT !.reg = s.reg, !.mem = s.mem]]
  BY <1>1, <1>2
<1>4. [s EXCEPT !.reg = s.reg, !.mem = s.mem] = s
  OBVIOUS
<1> QED
  BY <1>3, <1>4

\* Which checker an aligned atomic meets.
LEMMA WhichChecker ==
  ASSUME NEW rec, ~ Misaligned(AccessAddr(shadow, rec)), AccessAddr(shadow, rec) # None
  PROVE  /\ rec.op = "lr" => CheckAtomic(shadow, rec, n) = CheckLr(shadow, rec, n)
         /\ rec.op \in Amos => CheckAtomic(shadow, rec, n) = CheckAmo(shadow, rec, n)
<1> DEFINE addr == AccessAddr(shadow, rec)
           sc == CheckSc(shadow, rec, n)
           lr == CheckLr(shadow, rec, n)
           amo == CheckAmo(shadow, rec, n)
           m == Misaligned(addr)
<1>1. CheckAtomic(shadow, rec, n) =
        CASE m -> [alarms |-> AlignmentAlarms(rec), shadow |-> shadow]
          [] ~ m /\ rec.op = "sc" -> sc
          [] ~ m /\ rec.op = "lr" ->
               IF addr = None THEN [alarms |-> {"lr_no_read"}, shadow |-> shadow] ELSE lr
          [] ~ m /\ rec.op \in Amos ->
               IF addr = None THEN [alarms |-> {"amo_no_mem"}, shadow |-> shadow] ELSE amo
  BY DEF CheckAtomic
<1>2. ~ m /\ addr # None
  OBVIOUS
<1>3. "lr" \notin Amos /\ "sc" \notin Amos
  BY WordsAssumption
<1> HIDE DEF addr, sc, lr, amo, m
<1>4. rec.op = "lr" => CheckAtomic(shadow, rec, n) = lr
  BY <1>1, <1>2, <1>3
<1>5. rec.op \in Amos => CheckAtomic(shadow, rec, n) = amo
  BY <1>1, <1>2, <1>3
<1> QED
  BY <1>4, <1>5 DEF lr, amo

LEMMA NoAccess ==
  ASSUME NEW rec, rec.op \in Amos \cup {"lr"}, AccessAddr(shadow, rec) = None
  PROVE  \E alarm : CheckAtomic(shadow, rec, n) = [alarms |-> {alarm}, shadow |-> shadow]
<1> DEFINE sc == CheckSc(shadow, rec, n)
           lr == CheckLr(shadow, rec, n)
           amo == CheckAmo(shadow, rec, n)
           read == [alarms |-> {"lr_no_read"}, shadow |-> shadow]
           both == [alarms |-> {"amo_no_mem"}, shadow |-> shadow]
           other == [alarms |-> AlignmentAlarms(rec), shadow |-> shadow]
           addr == AccessAddr(shadow, rec)
           m == Misaligned(addr)
<1>1. CheckAtomic(shadow, rec, n) =
        CASE m -> other
          [] ~ m /\ rec.op = "sc" -> sc
          [] ~ m /\ rec.op = "lr" -> IF addr = None THEN read ELSE lr
          [] ~ m /\ rec.op \in Amos -> IF addr = None THEN both ELSE amo
  BY DEF CheckAtomic
<1>2. ~ m /\ addr = None
  BY DEF Misaligned
<1>3. "sc" \notin Amos /\ "lr" \notin Amos
  BY WordsAssumption
<1> HIDE DEF addr, sc, lr, amo, m, read, both, other
<1>4. rec.op = "lr" => CheckAtomic(shadow, rec, n) = read
  BY <1>1, <1>2, <1>3
<1>5. rec.op \in Amos => CheckAtomic(shadow, rec, n) = both
  BY <1>1, <1>2, <1>3
<1> QED
  BY <1>4, <1>5 DEF read, both

LEMMA ConditionalChecker ==
  ASSUME NEW rec, rec.op = "sc", ~ Misaligned(ScAddr(shadow, rec))
  PROVE  CheckAtomic(shadow, rec, n) = CheckSc(shadow, rec, n)
<1>1. AccessAddr(shadow, rec) = ScAddr(shadow, rec)
  BY WordsAssumption DEF AccessAddr
<1> DEFINE addr == AccessAddr(shadow, rec)
           sc == CheckSc(shadow, rec, n)
           lr == CheckLr(shadow, rec, n)
           amo == CheckAmo(shadow, rec, n)
           m == Misaligned(addr)
<1>2. CheckAtomic(shadow, rec, n) =
        CASE m -> [alarms |-> AlignmentAlarms(rec), shadow |-> shadow]
          [] ~ m /\ rec.op = "sc" -> sc
          [] ~ m /\ rec.op = "lr" ->
               IF addr = None THEN [alarms |-> {"lr_no_read"}, shadow |-> shadow] ELSE lr
          [] ~ m /\ rec.op \in Amos ->
               IF addr = None THEN [alarms |-> {"amo_no_mem"}, shadow |-> shadow] ELSE amo
  BY DEF CheckAtomic
<1>3. ~ m /\ "sc" \notin Amos
  BY <1>1, WordsAssumption
<1> HIDE DEF addr, sc, lr, amo, m
<1>4. CheckAtomic(shadow, rec, n) = sc
  BY <1>2, <1>3
<1> QED
  BY <1>4 DEF sc

LEMMA ShadowWith ==
  ASSUME WordTypes, NEW mem1, NEW resv1
  PROVE  [shadow EXCEPT !.mem = mem1, !.resv = resv1] =
           [reg |-> shadow.reg, mem |-> mem1, resv |-> resv1]
<1>1. shadow = [reg |-> shadow.reg, mem |-> shadow.mem, resv |-> shadow.resv]
  BY DEF WordTypes
<1> DEFINE c == [shadow EXCEPT !.mem = mem1]
<1>2. c = [reg |-> shadow.reg, mem |-> mem1, resv |-> shadow.resv]
  BY <1>1
<1>3. [shadow EXCEPT !.mem = mem1, !.resv = resv1] = [c EXCEPT !.resv = resv1]
  OBVIOUS
<1> HIDE DEF c
<1> QED
  BY <1>2, <1>3

\* While the reservation of the hart counts, that of the checker is the same.
LEMMA ReservationAgrees ==
  ASSUME WordTypes, ResvLinked, judged.alarms = {}, ~ Expired, n \in Nat, resv.addr # None
  PROVE  shadow.resv = resv /\ (Window > 0 => n - shadow.resv.seq <= Window)
<1>1. shadow.resv = resv
  BY DEF ResvLinked
<1>2. resv # NoReservation /\ resv.seq \in Nat /\ Window \in Nat
  BY WordsAssumption DEF WordTypes, Reservations, NoReservation
<1> QED
  BY <1>1, <1>2 DEF Expired

LEMMA LoadReservedStep ==
  ASSUME WordInv, n \in Nat, mode = "bare", NEW w \in Words, LoadReserved(w)
  PROVE  WordInv' /\ WordVerdicts'
<1>1. /\ UNCHANGED <<mode, hw, mem, stored, mixed, reg, told>> /\ n' = n + 1
      /\ judged.alarms = {} /\ resv' = [addr |-> w, seq |-> n]
  BY DEF LoadReserved, Retire
<1>2. PICK v \in Reported(mem[w]) : \E rd \in Reported(v) :
        Check([Plain("lr") EXCEPT !.read = At(w, v), !.rd = rd],
              rd = v /\ Sequential(w, v), w \in mixed)
  BY DEF LoadReserved
<1>3. PICK rd \in Reported(v) :
        Check([Plain("lr") EXCEPT !.read = At(w, v), !.rd = rd],
              rd = v /\ Sequential(w, v), w \in mixed)
  BY <1>2
<1> DEFINE rec == [Plain("lr") EXCEPT !.read = At(w, v), !.rd = rd]
<1>4. /\ WordTypes /\ v \in Values /\ rd \in Values /\ w # None /\ ~ Misaligned(w)
      /\ hw = "book" => v = mem[w] /\ rd = v
      /\ v # None /\ rd # None /\ mem[w] # None
  <2>1. WordTypes /\ mem[w] \in Values
    BY DEF WordInv, WordTypes
  <2>2. v \in Values /\ (hw = "book" => v = mem[w])
    BY <2>1, ReportedValues
  <2>3. rd \in Values /\ (hw = "book" => rd = v)
    BY <2>2, ReportedValues
  <2> QED
    BY <2>1, <2>2, <2>3, WordFacts
<1>5. /\ rec.op = "lr" /\ rec.read = At(w, v) /\ rec.write = None /\ rec.rd = rd
      /\ rec.set = None
  BY DEF Plain
<1>6. At(w, v) # None /\ At(w, v).addr = w /\ At(w, v).value = v
  BY <1>4, AccessFacts, WordFacts
<1>7. Check(rec, rd = v /\ Sequential(w, v), w \in mixed)
  BY <1>3
<1> HIDE DEF rec
<1>8. IsAtomic(rec) /\ ~ Stored(rec)
  BY <1>5 DEF IsAtomic, Stored
<1> DEFINE alarms == If("lr_rd_value", Differ(rd, v)) \cup
                     If("lr_mem_coherence", Differ(Known(shadow.mem, w), v))
<1>9. CheckAtomic(shadow, rec, n) =
        [alarms |-> alarms,
         shadow |-> [reg |-> shadow.reg, mem |-> With(shadow.mem, w, v),
                     resv |-> [addr |-> w, seq |-> n]]]
  <2>1. AccessAddr(shadow, rec) = w
    BY <1>5, <1>6, WordsAssumption DEF AccessAddr
  <2>2. CheckAtomic(shadow, rec, n) = CheckLr(shadow, rec, n)
    BY <1>4, <1>5, <2>1, WhichChecker
  <2>4. [shadow EXCEPT !.mem = With(shadow.mem, w, v), !.resv = [addr |-> w, seq |-> n]] =
          [reg |-> shadow.reg, mem |-> With(shadow.mem, w, v), resv |-> [addr |-> w, seq |-> n]]
    BY <1>4, ShadowWith
  <2>5. CheckLr(shadow, rec, n) =
          [alarms |-> alarms,
           shadow |-> [shadow EXCEPT !.mem = With(shadow.mem, w, v), !.resv = [addr |-> w, seq |-> n]]]
    BY <1>4, <1>5, <1>6 DEF CheckLr
  <2> QED
    BY <2>2, <2>4, <2>5
<1>10. /\ judged'.alarms = alarms \cup LsqAlarms(last, rec) /\ judged'.vm = {}
       /\ judged'.right = (rd = v /\ Sequential(w, v)) /\ judged'.unclear = (w \in mixed)
       /\ shadow' = [reg |-> shadow.reg, mem |-> With(shadow.mem, w, v),
                     resv |-> [addr |-> w, seq |-> n]]
       /\ last' = last
  <2>1. /\ Replay(shadow, rec, n).alarms = alarms
        /\ Replay(shadow, rec, n).shadow = [reg |-> shadow.reg, mem |-> With(shadow.mem, w, v),
                                           resv |-> [addr |-> w, seq |-> n]]
    <3> HIDE DEF alarms
    <3> QED
      BY <1>5, <1>8, <1>9, ReplayAtomic
  <2> QED
    BY <1>7, <1>8, <2>1 DEF Check, Quiet, LsqAfter
<1>11. judged'.alarms = {} <=> /\ rd = v /\ Known(shadow.mem, w) \in {None, v}
                               /\ Known(last, w) \in {None, v}
  <2>1. LsqAlarms(last, rec) = {} <=> Known(last, w) \in {None, v}
    BY <1>4, <1>5, <1>6 DEF LsqAlarms, If, Differ
  <2>2. alarms = {} <=> rd = v /\ Known(shadow.mem, w) \in {None, v}
    BY <1>4 DEF If, Differ
  <2> QED
    BY <1>10, <2>1, <2>2
<1>12. WordVerdicts'
  <2>1. hw = "book" /\ w \notin mixed => judged'.alarms = {}
    BY <1>1, <1>4, <1>11 DEF WordInv, LastKnown, ShadowKnown
  <2>2. judged'.alarms = {} /\ w \notin mixed => rd = v /\ Sequential(w, v)
    BY <1>4, <1>11 DEF WordInv, LastKnown, Sequential
  <2> QED
    BY <1>1, <1>10, <2>1, <2>2 DEF WordVerdicts, CorrectHartCleared, SilenceMeansSequential
<1>13. WordTypes'
  BY <1>1, <1>4, <1>10 DEF WordTypes, Reservations
<1>14. ShadowKnown' /\ ShadowStored'
  <2>1. ShadowKnown'
    BY <1>1, <1>4, <1>10, KnownWith DEF WordInv, ShadowKnown
  <2>2. judged'.alarms = {} /\ w \in stored \ mixed => v = mem[w]
    BY <1>1, <1>4, <1>11 DEF WordInv, ShadowStored
  <2>3. ShadowStored'
    BY <1>1, <1>10, <2>2, KnownWith DEF WordInv, ShadowStored
  <2> QED
    BY <2>1, <2>3
<1>15. RegKnown' /\ LastKnown' /\ ResvLinked'
  BY <1>1, <1>4, <1>10 DEF WordInv, RegKnown, LastKnown, ResvLinked
<1> QED
  BY <1>12, <1>13, <1>14, <1>15 DEF WordInv

\* What it makes of a store-conditional.
LEMMA ReplayConditional ==
  ASSUME WordTypes, NEW rec, rec.op = "sc", rec.set = None, ~ Misaligned(ScAddr(shadow, rec)),
         rec.write # None => Stored(rec),
         NEW holds \in BOOLEAN, holds = HoldsReservation(shadow, rec, n)
  PROVE  /\ Replay(shadow, rec, n).alarms =
              IF holds
              THEN If("sc_success_no_write", rec.write = None) \cup
                   If("sc_success_rd", Differ(rec.rd, 0)) \cup
                   (IF rec.write # None
                    THEN If("sc_store_value", Differ(shadow.reg, rec.write.value)) ELSE {})
              ELSE If("sc_fail_wrote", rec.write # None) \cup If("sc_fail_rd", rec.rd = 0)
         /\ Replay(shadow, rec, n).shadow =
              [reg  |-> shadow.reg,
               mem  |-> IF holds /\ rec.write # None
                        THEN With(shadow.mem, rec.write.addr, rec.write.value) ELSE shadow.mem,
               resv |-> NoReservation]
<1> DEFINE alarms ==
             IF holds
             THEN If("sc_success_no_write", rec.write = None) \cup
                  If("sc_success_rd", Differ(rec.rd, 0)) \cup
                  (IF rec.write # None
                   THEN If("sc_store_value", Differ(shadow.reg, rec.write.value)) ELSE {})
             ELSE If("sc_fail_wrote", rec.write # None) \cup If("sc_fail_rd", rec.rd = 0)
           mem1 == IF holds /\ rec.write # None
                   THEN With(shadow.mem, rec.write.addr, rec.write.value) ELSE shadow.mem
<1>1. CheckAtomic(shadow, rec, n) = CheckSc(shadow, rec, n)
  BY ConditionalChecker
<1>2. CheckSc(shadow, rec, n) =
        [alarms |-> alarms, shadow |-> [shadow EXCEPT !.resv = NoReservation, !.mem = mem1]]
  BY DEF CheckSc, If, Stored
<1>3. [shadow EXCEPT !.resv = NoReservation, !.mem = mem1] =
        [reg |-> shadow.reg, mem |-> mem1, resv |-> NoReservation]
  <2> HIDE DEF mem1
  <2>1. shadow = [reg |-> shadow.reg, mem |-> shadow.mem, resv |-> shadow.resv]
    BY DEF WordTypes
  <2> DEFINE c == [shadow EXCEPT !.resv = NoReservation]
  <2>2. c = [reg |-> shadow.reg, mem |-> shadow.mem, resv |-> NoReservation]
    BY <2>1
  <2>3. [shadow EXCEPT !.resv = NoReservation, !.mem = mem1] = [c EXCEPT !.mem = mem1]
    OBVIOUS
  <2> HIDE DEF c
  <2> QED
    BY <2>2, <2>3
<1>4. IsAtomic(rec)
  BY DEF IsAtomic
<1> HIDE DEF alarms, mem1
<1>5. /\ Replay(shadow, rec, n).alarms = alarms
      /\ Replay(shadow, rec, n).shadow = [reg |-> shadow.reg, mem |-> mem1, resv |-> NoReservation]
  BY <1>1, <1>2, <1>3, <1>4, ReplayAtomic
<1> QED
  BY <1>5 DEF alarms, mem1

LEMMA StoreConditionalStep ==
  ASSUME WordInv, n \in Nat, mode = "bare", NEW w \in Words, StoreConditional(w)
  PROVE  WordInv' /\ WordVerdicts'
<1>1. /\ UNCHANGED <<mode, hw, reg, told>> /\ n' = n + 1 /\ judged.alarms = {}
      /\ resv' = NoReservation /\ (hw = "book" => resv.addr = w)
  BY DEF StoreConditional, Retire, Held
<1>2. PICK v \in Reported(reg), rd \in Reported(0) :
        /\ Put(w, v)
        /\ Check([Plain("sc") EXCEPT !.write = At(w, v), !.rd = rd],
                 Held(w) /\ rd = 0 /\ (told => v = reg), w \in mixed \/ Expired)
  BY DEF StoreConditional
<1> DEFINE rec   == [Plain("sc") EXCEPT !.write = At(w, v), !.rd = rd]
           right == resv.addr = w /\ rd = 0 /\ (told => v = reg)
<1>3. /\ WordTypes /\ v \in Values /\ rd \in Values /\ w # None /\ ~ Misaligned(w)
      /\ hw = "book" => v = reg /\ rd = 0
      /\ v # None /\ rd # None /\ reg # None
  <2>1. WordTypes /\ reg \in Values /\ 0 \in Values
    BY DEF WordInv, WordTypes, Values
  <2>2. v \in Values /\ (hw = "book" => v = reg) /\ rd \in Values /\ (hw = "book" => rd = 0)
    BY <2>1, ReportedValues
  <2> QED
    BY <2>1, <2>2, WordFacts
<1>4. /\ rec.op = "sc" /\ rec.read = None /\ rec.write = At(w, v) /\ rec.rd = rd
      /\ rec.set = None
  BY DEF Plain
<1>5. At(w, v) # None /\ At(w, v).addr = w /\ At(w, v).value = v
  BY <1>3, AccessFacts, WordFacts
<1>6. Check(rec, right, w \in mixed \/ Expired)
  BY <1>2 DEF Held
<1> HIDE DEF rec
<1> DEFINE holds == shadow.resv.addr = w /\ (Window > 0 => n - shadow.resv.seq <= Window)
<1>7. ScAddr(shadow, rec) = w /\ HoldsReservation(shadow, rec, n) = holds
  BY <1>3, <1>4, <1>5 DEF ScAddr, HoldsReservation
<1>8. /\ judged'.alarms = Replay(shadow, rec, n).alarms /\ judged'.vm = {}
      /\ judged'.right = right /\ judged'.unclear = (w \in mixed \/ Expired)
      /\ shadow' = Replay(shadow, rec, n).shadow /\ last' = With(last, w, v)
  <2> HIDE DEF right
  <2> QED
    BY <1>3, <1>4, <1>5, <1>6 DEF Check, Quiet, LsqAlarms, LsqAfter, Stored
<1>9. holds \in BOOLEAN
  OBVIOUS
<1> HIDE DEF holds
<1>10. /\ Replay(shadow, rec, n).alarms =
            IF holds THEN If("sc_success_rd", Differ(rd, 0)) \cup
                          If("sc_store_value", Differ(shadow.reg, v))
            ELSE {"sc_fail_wrote"} \cup If("sc_fail_rd", rd = 0)
       /\ Replay(shadow, rec, n).shadow =
            [reg |-> shadow.reg, mem |-> IF holds THEN With(shadow.mem, w, v) ELSE shadow.mem,
             resv |-> NoReservation]
  <2>1. /\ rec.write # None => Stored(rec)
        /\ ~ Misaligned(ScAddr(shadow, rec)) /\ holds = HoldsReservation(shadow, rec, n)
    BY <1>3, <1>4, <1>5, <1>7 DEF Stored
  <2> HIDE DEF right
  <2>2. /\ Replay(shadow, rec, n).alarms =
              IF holds
              THEN If("sc_success_no_write", rec.write = None) \cup
                   If("sc_success_rd", Differ(rec.rd, 0)) \cup
                   (IF rec.write # None
                    THEN If("sc_store_value", Differ(shadow.reg, rec.write.value)) ELSE {})
              ELSE If("sc_fail_wrote", rec.write # None) \cup If("sc_fail_rd", rec.rd = 0)
        /\ Replay(shadow, rec, n).shadow =
              [reg  |-> shadow.reg,
               mem  |-> IF holds /\ rec.write # None
                        THEN With(shadow.mem, rec.write.addr, rec.write.value) ELSE shadow.mem,
               resv |-> NoReservation]
    BY <1>3, <1>4, <1>9, <2>1, ReplayConditional
  <2>3. If("sc_success_no_write", rec.write = None) = {}
        /\ If("sc_fail_wrote", rec.write # None) = {"sc_fail_wrote"}
    BY <1>4, <1>5 DEF If
  <2> QED
    BY <1>4, <1>5, <2>2, <2>3
<1>11. judged'.alarms = {} <=> holds /\ rd = 0 /\ shadow.reg \in {None, v}
  <2>1. If("sc_success_rd", Differ(rd, 0)) = {} <=> rd = 0
    BY <1>3, TablesAssumption DEF If, Differ
  <2>2. If("sc_store_value", Differ(shadow.reg, v)) = {} <=> shadow.reg \in {None, v}
    BY <1>3 DEF If, Differ
  <2> QED
    BY <1>8, <1>10, <2>1, <2>2
<1>12. WordVerdicts'
  <2>1. ASSUME hw = "book", ~ (w \in mixed \/ Expired) PROVE judged'.alarms = {}
    <3>1. holds
      BY <1>1, <1>3, <2>1, ReservationAgrees DEF WordInv, holds
    <3>2. shadow.reg \in {None, v}
      BY <1>3, <2>1 DEF WordInv, RegKnown
    <3> QED
      BY <1>3, <1>11, <2>1, <3>1, <3>2
  <2>2. ASSUME judged'.alarms = {}, ~ (w \in mixed \/ Expired) PROVE right
    <3>1. holds /\ rd = 0 /\ shadow.reg \in {None, v}
      BY <1>11, <2>2
    <3>2. resv.addr # None
      BY <1>1, <1>3, <2>2, <3>1 DEF WordInv, ResvLinked, holds
    <3>3. resv.addr = w
      BY <1>1, <1>3, <2>2, <3>1, <3>2, ReservationAgrees DEF WordInv, holds
    <3>4. told => v = reg
      BY <1>3, <3>1 DEF WordInv, RegKnown
    <3> QED
      BY <3>1, <3>3, <3>4
  <2> HIDE DEF right
  <2> QED
    BY <1>1, <1>8, <2>1, <2>2 DEF WordVerdicts, CorrectHartCleared, SilenceMeansSequential
<1>13. NoReservation \in Reservations /\ NoReservation.addr = None
  BY DEF NoReservation, Reservations
<1>14. WordTypes'
  BY <1>1, <1>2, <1>3, <1>8, <1>10, <1>13, PutTypes DEF WordTypes
<1>15. LastKnown'
  BY <1>2, <1>3, <1>8, PutLast DEF WordInv
<1>16. ShadowKnown' /\ ShadowStored'
  <2>1. ShadowKnown'
    BY <1>1, <1>2, <1>3, <1>8, <1>10, <1>11, PutKnown DEF WordInv, ShadowKnown
  <2>2. ASSUME judged'.alarms = {} PROVE ShadowStored'
    <3>1. shadow'.mem = With(shadow.mem, w, v)
      BY <1>8, <1>10, <1>11, <2>2
    <3> QED
      BY <1>1, <1>2, <1>3, <3>1, PutShadow DEF WordInv
  <2> QED
    BY <2>1, <2>2 DEF ShadowStored
<1>17. RegKnown' /\ ResvLinked'
  BY <1>1, <1>8, <1>10, <1>13 DEF WordInv, RegKnown, ResvLinked
<1> QED
  BY <1>12, <1>14, <1>15, <1>16, <1>17 DEF WordInv

LEMMA FailedConditionalStep ==
  ASSUME WordInv, n \in Nat, mode = "bare", NEW w \in Words, FailedConditional(w)
  PROVE  WordInv' /\ WordVerdicts'
<1>1. /\ UNCHANGED <<mode, hw, mem, stored, mixed, reg, told>> /\ n' = n + 1
      /\ judged.alarms = {}
      /\ resv' = NoReservation /\ (hw = "book" => resv.addr # w)
  BY DEF FailedConditional, Retire, Held
<1>2. PICK rd \in Reported(1) :
        Check([Plain("sc") EXCEPT !.rd = rd], ~ Held(w) /\ rd # 0,
              mixed # {} \/ Expired \/ resv.addr \notin {None, w})
  BY DEF FailedConditional
<1> DEFINE rec     == [Plain("sc") EXCEPT !.rd = rd]
           right   == resv.addr # w /\ rd # 0
           unclear == mixed # {} \/ Expired \/ resv.addr \notin {None, w}
<1>3. /\ WordTypes /\ rd # None /\ (hw = "book" => rd # 0)
      /\ shadow.resv.addr \in Words \cup {None} /\ w # None
  <2>1. WordTypes /\ 1 \in Values
    BY DEF WordInv, WordTypes, Values
  <2>2. rd \in Values /\ (hw = "book" => rd = 1)
    BY <2>1, ReportedValues
  <2> QED
    BY <2>1, <2>2, WordFacts DEF WordTypes, Reservations
<1>4. rec.op = "sc" /\ rec.read = None /\ rec.write = None /\ rec.rd = rd /\ rec.set = None
  BY DEF Plain
<1>5. Check(rec, right, unclear)
  BY <1>2 DEF Held
<1> HIDE DEF rec
<1> DEFINE holds == shadow.resv.addr # None /\ (Window > 0 => n - shadow.resv.seq <= Window)
<1>6. /\ ScAddr(shadow, rec) = shadow.resv.addr /\ ~ Misaligned(ScAddr(shadow, rec))
      /\ HoldsReservation(shadow, rec, n) = holds
  BY <1>3, <1>4, WordFacts DEF ScAddr, HoldsReservation, Misaligned
<1>7. /\ judged'.alarms = Replay(shadow, rec, n).alarms /\ judged'.vm = {}
      /\ judged'.right = right /\ judged'.unclear = unclear
      /\ shadow' = Replay(shadow, rec, n).shadow /\ last' = last
  <2> HIDE DEF right, unclear
  <2> QED
    BY <1>4, <1>5 DEF Check, Quiet, LsqAlarms, LsqAfter, Stored
<1>8. holds \in BOOLEAN
  OBVIOUS
<1> HIDE DEF holds
<1>9. /\ Replay(shadow, rec, n).alarms =
            IF holds THEN {"sc_success_no_write"} \cup If("sc_success_rd", Differ(rd, 0))
            ELSE If("sc_fail_rd", rd = 0)
      /\ Replay(shadow, rec, n).shadow =
           [reg |-> shadow.reg, mem |-> shadow.mem, resv |-> NoReservation]
  BY <1>3, <1>4, <1>6, <1>8, ReplayConditional DEF If
<1>10. judged'.alarms = {} <=> ~ holds /\ rd # 0
  BY <1>7, <1>9 DEF If
<1>11. ASSUME ~ unclear PROVE resv.addr # w <=> ~ holds
  <2>1. ResvLinked
    BY DEF WordInv
  <2>2. CASE resv.addr = None
    BY <1>1, <1>3, <1>11, <2>1, <2>2 DEF ResvLinked, holds
  <2>3. CASE resv.addr # None
    BY <1>1, <1>3, <1>11, <2>1, <2>3, ReservationAgrees DEF holds
  <2> QED
    BY <2>2, <2>3
<1>12. WordVerdicts'
  <2>1. ASSUME hw = "book", ~ unclear PROVE judged'.alarms = {}
    BY <1>1, <1>3, <1>10, <1>11, <2>1
  <2>2. ASSUME judged'.alarms = {}, ~ unclear PROVE right
    BY <1>10, <1>11, <2>2
  <2> HIDE DEF right, unclear
  <2> QED
    BY <1>1, <1>7, <2>1, <2>2 DEF WordVerdicts, CorrectHartCleared, SilenceMeansSequential
<1>13. NoReservation \in Reservations /\ NoReservation.addr = None
  BY DEF NoReservation, Reservations
<1>14. WordTypes' /\ RegKnown' /\ LastKnown' /\ ShadowKnown' /\ ShadowStored' /\ ResvLinked'
  BY <1>1, <1>3, <1>7, <1>9, <1>13
     DEF WordInv, WordTypes, RegKnown, LastKnown, ShadowKnown, ShadowStored, ResvLinked
<1> QED
  BY <1>12, <1>14 DEF WordInv

\* What it makes of an AMO.
LEMMA ReplayAmo ==
  ASSUME WordTypes, NEW rec, rec.op \in Amos, rec.set = None,
         NEW addr, AmoAddr(rec) = addr, addr # None, ~ Misaligned(addr),
         NEW old, old = IF rec.read # None THEN rec.read.value ELSE Known(shadow.mem, addr),
         NEW new, new = IF Stored(rec) THEN rec.write.value ELSE old, new # None
  PROVE  /\ Replay(shadow, rec, n).alarms =
              If("amo_rd_value", Differ(rec.rd, old)) \cup
              (IF rec.write = None THEN {}
               ELSE If("amo_writeback",
                       Differ(rec.write.value, IF old = None \/ shadow.reg = None THEN None
                                               ELSE AmoCompute(rec.op, old, shadow.reg))))
         /\ Replay(shadow, rec, n).shadow =
              [reg |-> shadow.reg, mem |-> With(shadow.mem, addr, new),
               resv |-> IF shadow.resv.addr = addr THEN NoReservation ELSE shadow.resv]
<1> DEFINE alarms ==
             If("amo_rd_value", Differ(rec.rd, old)) \cup
             (IF rec.write = None THEN {}
              ELSE If("amo_writeback",
                      Differ(rec.write.value, IF old = None \/ shadow.reg = None THEN None
                                              ELSE AmoCompute(rec.op, old, shadow.reg))))
           mem1  == With(shadow.mem, addr, new)
           resv1 == IF shadow.resv.addr = addr THEN NoReservation ELSE shadow.resv
<1>1. IsAtomic(rec) /\ AccessAddr(shadow, rec) = addr
  BY WordsAssumption DEF IsAtomic, AccessAddr
<1>2. CheckAtomic(shadow, rec, n) = CheckAmo(shadow, rec, n)
  BY <1>1, WhichChecker
<1>3. CheckAmo(shadow, rec, n) =
        [alarms |-> alarms, shadow |-> [shadow EXCEPT !.mem = mem1, !.resv = resv1]]
  BY DEF CheckAmo
<1> HIDE DEF alarms, mem1, resv1
<1>4. [shadow EXCEPT !.mem = mem1, !.resv = resv1] =
        [reg |-> shadow.reg, mem |-> mem1, resv |-> resv1]
  BY ShadowWith
<1>5. /\ Replay(shadow, rec, n).alarms = alarms
      /\ Replay(shadow, rec, n).shadow = [reg |-> shadow.reg, mem |-> mem1, resv |-> resv1]
  BY <1>1, <1>2, <1>3, <1>4, ReplayAtomic
<1> QED
  BY <1>5 DEF alarms, mem1, resv1

\* The hart and the checker lose a reservation of the same word.
LEMMA ResvLost ==
  ASSUME WordTypes, ResvLinked, judged.alarms = {}, n \in Nat, n' = n + 1, NEW w \in Words,
         resv' = (IF resv.addr = w THEN NoReservation ELSE resv),
         shadow'.resv = (IF shadow.resv.addr = w THEN NoReservation ELSE shadow.resv),
         mixed \ {w} \subseteq mixed'
  PROVE  ResvLinked'
<1>1. NoReservation.addr = None /\ w # None
  BY WordFacts DEF NoReservation
<1>2. CASE resv.addr = None
  BY <1>1, <1>2 DEF ResvLinked
<1>3. CASE resv.addr = w
  BY <1>1, <1>3 DEF ResvLinked
<1>4. CASE resv.addr \notin {None, w}
  BY <1>1, <1>4, Older DEF WordTypes, ResvLinked
<1> QED
  BY <1>2, <1>3, <1>4

LEMMA AmoStep ==
  ASSUME WordInv, n \in Nat, mode = "bare", NEW w \in Words, NEW amo \in Amos, Amo(amo, w)
  PROVE  WordInv' /\ WordVerdicts'
<1>1. /\ UNCHANGED <<mode, hw, reg, told>> /\ n' = n + 1 /\ judged.alarms = {}
      /\ resv' = IF resv.addr = w THEN NoReservation ELSE resv
  BY DEF Amo, Retire, Held
<1>2. PICK old \in Reported(mem[w]) :
        \E rd \in Reported(old), new \in Reported(Result(amo, old, reg)) :
          /\ Put(w, new)
          /\ Check([Plain(amo) EXCEPT !.read = At(w, old), !.write = At(w, new), !.rd = rd],
                   /\ Sequential(w, old) /\ rd = old
                   /\ told => new = Result(amo, old, reg),
                   w \in mixed)
  BY DEF Amo
<1>3. PICK rd \in Reported(old), new \in Reported(Result(amo, old, reg)) :
        /\ Put(w, new)
        /\ Check([Plain(amo) EXCEPT !.read = At(w, old), !.write = At(w, new), !.rd = rd],
                 /\ Sequential(w, old) /\ rd = old
                 /\ told => new = Result(amo, old, reg),
                 w \in mixed)
  BY <1>2
<1> DEFINE rec   == [Plain(amo) EXCEPT !.read = At(w, old), !.write = At(w, new), !.rd = rd]
           value == Result(amo, old, reg)
           right == /\ Sequential(w, old) /\ rd = old
                    /\ told => new = value
<1>4. /\ WordTypes /\ mem[w] \in Values /\ old \in Values /\ rd \in Values /\ new \in Values
      /\ w # None /\ ~ Misaligned(w) /\ AmoCompute(amo, old, reg) = value
      /\ hw = "book" => old = mem[w] /\ rd = old /\ new = value
      /\ old # None /\ rd # None /\ new # None /\ value # None /\ reg # None
  <2>1. WordTypes /\ mem[w] \in Values /\ reg \in Values
    BY DEF WordInv, WordTypes
  <2>2. old \in Values /\ (hw = "book" => old = mem[w])
    BY <2>1, ReportedValues
  <2>3. rd \in Values /\ (hw = "book" => rd = old)
    BY <2>2, ReportedValues
  <2>4. value \in Values /\ AmoCompute(amo, old, reg) = value
    BY <2>1, <2>2, AmosAgree DEF Values
  <2>5. new \in Values /\ (hw = "book" => new = value)
    BY <2>4, ReportedValues
  <2> QED
    BY <2>1, <2>2, <2>3, <2>4, <2>5, WordFacts
<1>5. /\ rec.op = amo /\ rec.read = At(w, old) /\ rec.write = At(w, new) /\ rec.rd = rd
      /\ rec.set = None
  BY DEF Plain
<1>6. /\ At(w, old) # None /\ At(w, old).addr = w /\ At(w, old).value = old
      /\ At(w, new) # None /\ At(w, new).addr = w /\ At(w, new).value = new
  BY <1>4, AccessFacts, WordFacts
<1>7. Put(w, new) /\ Check(rec, right, w \in mixed)
  BY <1>3
<1> HIDE DEF rec, value
<1> DEFINE lsq == LsqAlarms(last, rec)
<1>8. /\ judged'.alarms = Replay(shadow, rec, n).alarms \cup lsq /\ judged'.vm = {}
      /\ judged'.right = right /\ judged'.unclear = (w \in mixed)
      /\ shadow' = Replay(shadow, rec, n).shadow /\ last' = With(last, w, new)
  <2> HIDE DEF right
  <2> QED
    BY <1>4, <1>5, <1>6, <1>7 DEF Check, Quiet, LsqAfter, Stored
<1>9. /\ Replay(shadow, rec, n).alarms =
            If("amo_rd_value", Differ(rd, old)) \cup
            If("amo_writeback", Differ(new, IF shadow.reg = None THEN None
                                            ELSE AmoCompute(amo, old, shadow.reg)))
      /\ Replay(shadow, rec, n).shadow =
           [reg |-> shadow.reg, mem |-> With(shadow.mem, w, new),
            resv |-> IF shadow.resv.addr = w THEN NoReservation ELSE shadow.resv]
  <2>1. /\ AmoAddr(rec) = w
        /\ old = IF rec.read # None THEN rec.read.value ELSE Known(shadow.mem, w)
        /\ new = IF Stored(rec) THEN rec.write.value ELSE old
    BY <1>4, <1>5, <1>6 DEF AmoAddr, Stored
  <2> HIDE DEF right, lsq
  <2>2. /\ WordTypes /\ rec.op \in Amos /\ rec.set = None /\ w # None /\ ~ Misaligned(w)
        /\ new # None
    BY <1>4, <1>5
  <2>3. /\ Replay(shadow, rec, n).alarms =
              If("amo_rd_value", Differ(rec.rd, old)) \cup
              (IF rec.write = None THEN {}
               ELSE If("amo_writeback",
                       Differ(rec.write.value, IF old = None \/ shadow.reg = None THEN None
                                               ELSE AmoCompute(rec.op, old, shadow.reg))))
        /\ Replay(shadow, rec, n).shadow =
              [reg |-> shadow.reg, mem |-> With(shadow.mem, w, new),
               resv |-> IF shadow.resv.addr = w THEN NoReservation ELSE shadow.resv]
    BY <2>1, <2>2, ReplayAmo
  <2> QED
    BY <1>4, <1>5, <1>6, <2>3
<1>10. judged'.alarms = {} <=> /\ rd = old /\ Known(last, w) \in {None, old}
                               /\ told => new = value
  <2>1. lsq = {} <=> Known(last, w) \in {None, old}
    BY <1>4, <1>5, <1>6 DEF LsqAlarms, If, Differ
  <2>2. If("amo_rd_value", Differ(rd, old)) = {} <=> rd = old
    BY <1>4 DEF If, Differ
  <2>3. shadow.reg = IF told THEN reg ELSE None
    BY DEF WordInv, RegKnown
  <2>4. If("amo_writeback", Differ(new, IF shadow.reg = None THEN None
                                        ELSE AmoCompute(amo, old, shadow.reg))) = {}
          <=> (told => new = value)
    BY <1>4, <2>3 DEF If, Differ
  <2> HIDE DEF lsq
  <2> QED
    BY <1>8, <1>9, <2>1, <2>2, <2>4
<1>11. WordVerdicts'
  <2>1. hw = "book" /\ w \notin mixed => judged'.alarms = {}
    BY <1>4, <1>10 DEF WordInv, LastKnown
  <2>2. judged'.alarms = {} /\ w \notin mixed => right
    BY <1>4, <1>10, WordFacts DEF WordInv, LastKnown, Sequential
  <2> HIDE DEF right, lsq
  <2> QED
    BY <1>1, <1>8, <2>1, <2>2 DEF WordVerdicts, CorrectHartCleared, SilenceMeansSequential
<1>12. WordTypes'
  <2>1. NoReservation \in Reservations /\ NoReservation.addr = None
    BY DEF NoReservation, Reservations
  <2> QED
    BY <1>1, <1>4, <1>7, <1>8, <1>9, <2>1, PutTypes DEF WordTypes
<1>13. LastKnown'
  BY <1>4, <1>7, <1>8, PutLast DEF WordInv
<1>14. ShadowKnown' /\ ShadowStored'
  <2>1. ShadowKnown'
    BY <1>1, <1>4, <1>7, <1>8, <1>9, PutKnown DEF WordInv, ShadowKnown
  <2>2. ShadowStored'
    BY <1>1, <1>4, <1>7, <1>8, <1>9, PutShadow DEF WordInv
  <2> QED
    BY <2>1, <2>2
<1>15. RegKnown'
  BY <1>1, <1>8, <1>9 DEF WordInv, RegKnown
<1>16. ResvLinked'
  BY <1>1, <1>4, <1>7, <1>8, <1>9, ResvLost DEF WordInv, Put
<1> QED
  BY <1>11, <1>12, <1>13, <1>14, <1>15, <1>16 DEF WordInv

LEMMA UnwrittenAmoStep ==
  ASSUME WordInv, n \in Nat, mode = "bare", NEW w \in Words, NEW amo \in Amos,
         UnwrittenAmo(amo, w)
  PROVE  WordInv' /\ WordVerdicts'
<1>1. /\ UNCHANGED <<mode, hw, mem, stored, mixed, reg, told>> /\ n' = n + 1
      /\ judged.alarms = {} /\ hw = "wild"
      /\ resv' = IF resv.addr = w THEN NoReservation ELSE resv
  BY DEF UnwrittenAmo, Retire, Held
<1>2. PICK old \in Reported(mem[w]) : \E rd \in Reported(old) :
        Check([Plain(amo) EXCEPT !.read = At(w, old), !.rd = rd],
              FALSE, (Sequential(w, old) /\ rd = old) \/ w \in mixed)
  BY DEF UnwrittenAmo
<1>3. PICK rd \in Reported(old) :
        Check([Plain(amo) EXCEPT !.read = At(w, old), !.rd = rd],
              FALSE, (Sequential(w, old) /\ rd = old) \/ w \in mixed)
  BY <1>2
<1> DEFINE rec     == [Plain(amo) EXCEPT !.read = At(w, old), !.rd = rd]
           unclear == (Sequential(w, old) /\ rd = old) \/ w \in mixed
<1>4. /\ WordTypes /\ mem[w] \in Values /\ old \in Values /\ rd \in Values
      /\ w # None /\ ~ Misaligned(w)
      /\ old # None /\ rd # None /\ mem[w] # None
  <2>1. WordTypes /\ mem[w] \in Values
    BY DEF WordInv, WordTypes
  <2>2. old \in Values
    BY <2>1, ReportedValues
  <2>3. rd \in Values
    BY <2>2, ReportedValues
  <2> QED
    BY <2>1, <2>2, <2>3, WordFacts
<1>5. /\ rec.op = amo /\ rec.read = At(w, old) /\ rec.write = None /\ rec.rd = rd
      /\ rec.set = None
  BY DEF Plain
<1>6. At(w, old) # None /\ At(w, old).addr = w /\ At(w, old).value = old
  BY <1>4, AccessFacts, WordFacts
<1>7. Check(rec, FALSE, unclear)
  BY <1>3
<1> HIDE DEF rec
<1> DEFINE lsq == LsqAlarms(last, rec)
<1>8. /\ judged'.alarms = Replay(shadow, rec, n).alarms \cup lsq
      /\ judged'.unclear = unclear
      /\ shadow' = Replay(shadow, rec, n).shadow /\ last' = last
  <2> HIDE DEF unclear
  <2> QED
    BY <1>5, <1>7 DEF Check, Quiet, LsqAfter, Stored
\* At address 0 the record has no access.
<1>9. CASE w = 0
  <2>1. rec.op \in Amos \cup {"lr"} /\ AccessAddr(shadow, rec) = None
    <3>1. "sc" \notin Amos /\ "lr" \notin Amos
      BY WordsAssumption
    <3> QED
      BY <1>5, <1>6, <1>9, <3>1 DEF AccessAddr, AmoAddr
  <2>2. PICK alarm : CheckAtomic(shadow, rec, n) = [alarms |-> {alarm}, shadow |-> shadow]
    <3>1. \E alarm : CheckAtomic(shadow, rec, n) = [alarms |-> {alarm}, shadow |-> shadow]
      BY <2>1, NoAccess
    <3> QED
      BY <3>1
  <2>3. IsAtomic(rec) /\ shadow = [reg |-> shadow.reg, mem |-> shadow.mem, resv |-> shadow.resv]
    BY <1>4, <1>5 DEF IsAtomic, WordTypes
  <2>4. Replay(shadow, rec, n).alarms = {alarm} /\ Replay(shadow, rec, n).shadow = shadow
    BY <1>5, <2>2, <2>3, ReplayAtomic
  <2>5. judged'.alarms # {} /\ shadow' = shadow
    BY <1>8, <2>4
  <2>6. NoReservation \in Reservations /\ NoReservation.addr = None
    BY DEF NoReservation, Reservations
  <2>7. WordTypes'
    BY <1>1, <1>4, <2>5, <2>6 DEF WordTypes
  <2>8. RegKnown' /\ LastKnown' /\ ShadowKnown' /\ ShadowStored' /\ ResvLinked'
    BY <1>1, <1>8, <2>5 DEF WordInv, RegKnown, LastKnown, ShadowKnown, ShadowStored, ResvLinked
  <2>9. WordVerdicts'
    BY <1>1, <2>5 DEF WordVerdicts, CorrectHartCleared, SilenceMeansSequential
  <2> QED
    BY <2>7, <2>8, <2>9 DEF WordInv
<1>10. CASE w # 0
  <2>1. /\ Replay(shadow, rec, n).alarms = If("amo_rd_value", Differ(rd, old))
        /\ Replay(shadow, rec, n).shadow =
             [reg |-> shadow.reg, mem |-> With(shadow.mem, w, old),
              resv |-> IF shadow.resv.addr = w THEN NoReservation ELSE shadow.resv]
    <3>1. /\ AmoAddr(rec) = w
          /\ old = IF rec.read # None THEN rec.read.value ELSE Known(shadow.mem, w)
          /\ old = IF Stored(rec) THEN rec.write.value ELSE old
      BY <1>5, <1>6, <1>10 DEF AmoAddr, Stored
    <3>2. /\ WordTypes /\ rec.op \in Amos /\ rec.set = None /\ w # None /\ ~ Misaligned(w)
          /\ old # None
      BY <1>4, <1>5
    <3> HIDE DEF unclear, lsq
    <3>3. /\ Replay(shadow, rec, n).alarms =
                If("amo_rd_value", Differ(rec.rd, old)) \cup
                (IF rec.write = None THEN {}
                 ELSE If("amo_writeback",
                         Differ(rec.write.value, IF old = None \/ shadow.reg = None THEN None
                                                 ELSE AmoCompute(rec.op, old, shadow.reg))))
          /\ Replay(shadow, rec, n).shadow =
                [reg |-> shadow.reg, mem |-> With(shadow.mem, w, old),
                 resv |-> IF shadow.resv.addr = w THEN NoReservation ELSE shadow.resv]
      BY <3>1, <3>2, ReplayAmo
    <3> QED
      BY <1>5, <3>3
  <2>2. judged'.alarms = {} => rd = old /\ Known(last, w) \in {None, old}
    <3>1. lsq = {} <=> Known(last, w) \in {None, old}
      BY <1>4, <1>5, <1>6 DEF LsqAlarms, If, Differ
    <3>2. If("amo_rd_value", Differ(rd, old)) = {} <=> rd = old
      BY <1>4 DEF If, Differ
    <3> HIDE DEF lsq
    <3> QED
      BY <1>8, <2>1, <3>1, <3>2
  <2>3. judged'.alarms = {} /\ w \notin mixed => rd = old /\ Sequential(w, old)
    BY <1>4, <2>2 DEF WordInv, LastKnown, Sequential
  <2>4. WordVerdicts'
    BY <1>1, <1>8, <2>3 DEF WordVerdicts, CorrectHartCleared, SilenceMeansSequential
  <2>5. WordTypes'
    <3>1. NoReservation \in Reservations /\ NoReservation.addr = None
      BY DEF NoReservation, Reservations
    <3> QED
      BY <1>1, <1>4, <1>8, <2>1, <3>1 DEF WordTypes
  <2>6. ShadowStored'
    <3>1. \A u : Known(shadow'.mem, u) = IF u = w THEN old ELSE Known(shadow.mem, u)
      BY <1>8, <2>1, KnownWith
    <3> QED
      BY <1>1, <2>3, <3>1 DEF WordInv, ShadowStored, Sequential
  <2>7. RegKnown' /\ LastKnown' /\ ShadowKnown'
    BY <1>1, <1>8, <2>1 DEF WordInv, RegKnown, LastKnown, ShadowKnown
  <2>8. ResvLinked'
    BY <1>1, <1>4, <1>8, <2>1, ResvLost DEF WordInv
  <2> QED
    BY <2>4, <2>5, <2>6, <2>7, <2>8 DEF WordInv
<1> QED
  BY <1>9, <1>10

LEMMA UnreadAmoStep ==
  ASSUME WordInv, n \in Nat, mode = "bare", NEW w \in Words, NEW amo \in Amos,
         UnreadAmo(amo, w)
  PROVE  WordInv' /\ WordVerdicts'
<1>1. /\ UNCHANGED <<mode, hw, reg, told>> /\ n' = n + 1 /\ judged.alarms = {}
      /\ resv' = IF resv.addr = w THEN NoReservation ELSE resv
  BY DEF UnreadAmo, Retire, Held
<1> DEFINE value == Result(amo, mem[w], reg)
<1>2. PICK rd \in Reported(mem[w]), new \in Reported(value) :
        /\ Put(w, new)
        /\ Check([Plain(amo) EXCEPT !.write = At(w, new), !.rd = rd],
                 /\ Sequential(w, rd)
                 /\ told /\ w \in stored => new = value,
                 w \in mixed)
  BY DEF UnreadAmo
<1> DEFINE rec   == [Plain(amo) EXCEPT !.write = At(w, new), !.rd = rd]
           right == /\ Sequential(w, rd)
                    /\ told /\ w \in stored => new = value
           old   == Known(shadow.mem, w)
<1>3. /\ WordTypes /\ mem[w] \in Values /\ rd \in Values /\ new \in Values
      /\ w # None /\ ~ Misaligned(w) /\ AmoCompute(amo, mem[w], reg) = value
      /\ hw = "book" => rd = mem[w] /\ new = value
      /\ rd # None /\ new # None /\ value # None /\ reg # None /\ mem[w] # None
  <2>1. WordTypes /\ mem[w] \in Values /\ reg \in Values
    BY DEF WordInv, WordTypes
  <2>2. rd \in Values /\ (hw = "book" => rd = mem[w])
    BY <2>1, ReportedValues
  <2>3. value \in Values /\ AmoCompute(amo, mem[w], reg) = value
    BY <2>1, AmosAgree DEF Values
  <2>4. new \in Values /\ (hw = "book" => new = value)
    BY <2>3, ReportedValues
  <2> QED
    BY <2>1, <2>2, <2>3, <2>4, WordFacts
<1>4. /\ rec.op = amo /\ rec.read = None /\ rec.write = At(w, new) /\ rec.rd = rd
      /\ rec.set = None
  BY DEF Plain
<1>5. At(w, new) # None /\ At(w, new).addr = w /\ At(w, new).value = new
  BY <1>3, AccessFacts, WordFacts
<1>6. Put(w, new) /\ Check(rec, right, w \in mixed)
  BY <1>2
<1> HIDE DEF rec, value
<1>7. /\ judged'.alarms = Replay(shadow, rec, n).alarms /\ judged'.vm = {}
      /\ judged'.right = right /\ judged'.unclear = (w \in mixed)
      /\ shadow' = Replay(shadow, rec, n).shadow /\ last' = With(last, w, new)
  <2> HIDE DEF right
  <2> QED
    BY <1>3, <1>4, <1>5, <1>6 DEF Check, Quiet, LsqAlarms, LsqAfter, Stored
<1>8. /\ Replay(shadow, rec, n).alarms =
            If("amo_rd_value", Differ(rd, old)) \cup
            If("amo_writeback", Differ(new, IF old = None \/ shadow.reg = None THEN None
                                            ELSE AmoCompute(amo, old, shadow.reg)))
      /\ Replay(shadow, rec, n).shadow =
           [reg |-> shadow.reg, mem |-> With(shadow.mem, w, new),
            resv |-> IF shadow.resv.addr = w THEN NoReservation ELSE shadow.resv]
  <2>1. /\ AmoAddr(rec) = w
        /\ old = IF rec.read # None THEN rec.read.value ELSE Known(shadow.mem, w)
        /\ new = IF Stored(rec) THEN rec.write.value ELSE old
    BY <1>3, <1>4, <1>5 DEF AmoAddr, Stored
  <2> HIDE DEF right, old
  <2>2. /\ WordTypes /\ rec.op \in Amos /\ rec.set = None /\ w # None /\ ~ Misaligned(w)
        /\ new # None
    BY <1>3, <1>4
  <2>3. /\ Replay(shadow, rec, n).alarms =
              If("amo_rd_value", Differ(rec.rd, old)) \cup
              (IF rec.write = None THEN {}
               ELSE If("amo_writeback",
                       Differ(rec.write.value, IF old = None \/ shadow.reg = None THEN None
                                               ELSE AmoCompute(rec.op, old, shadow.reg))))
        /\ Replay(shadow, rec, n).shadow =
              [reg |-> shadow.reg, mem |-> With(shadow.mem, w, new),
               resv |-> IF shadow.resv.addr = w THEN NoReservation ELSE shadow.resv]
    BY <2>1, <2>2, ReplayAmo
  <2> QED
    BY <1>4, <1>5, <2>3
<1> HIDE DEF old
<1>9. shadow.reg = IF told THEN reg ELSE None
  BY DEF WordInv, RegKnown
\* What is held to the memory known so far, when that is the memory.
<1>10. old = mem[w] => (judged'.alarms = {} <=> rd = mem[w] /\ (told => new = value))
  <2> SUFFICES ASSUME old = mem[w]
               PROVE  judged'.alarms = {} <=> rd = mem[w] /\ (told => new = value)
    OBVIOUS
  <2>1. If("amo_rd_value", Differ(rd, old)) = {} <=> rd = mem[w]
    BY <1>3 DEF If, Differ
  <2>2. If("amo_writeback", Differ(new, IF old = None \/ shadow.reg = None THEN None
                                        ELSE AmoCompute(amo, old, shadow.reg))) = {}
          <=> (told => new = value)
    BY <1>3, <1>9 DEF If, Differ
  <2> QED
    BY <1>7, <1>8, <2>1, <2>2
<1>11. old = None => judged'.alarms = {}
  BY <1>7, <1>8 DEF If, Differ
<1>12. WordVerdicts'
  <2>1. hw = "book" /\ w \notin mixed => old \in {None, mem[w]}
    BY <1>1 DEF WordInv, ShadowKnown, old
  <2>2. hw = "book" /\ w \notin mixed => judged'.alarms = {}
    BY <1>3, <1>10, <1>11, <2>1
  <2>3. w \in stored /\ w \notin mixed => old = mem[w]
    BY <1>1 DEF WordInv, ShadowStored, old
  <2>4. judged'.alarms = {} /\ w \notin mixed => right
    BY <1>10, <2>3 DEF Sequential
  <2> HIDE DEF right
  <2> QED
    BY <1>1, <1>7, <2>2, <2>4 DEF WordVerdicts, CorrectHartCleared, SilenceMeansSequential
<1>13. WordTypes'
  <2>1. NoReservation \in Reservations /\ NoReservation.addr = None
    BY DEF NoReservation, Reservations
  <2> QED
    BY <1>1, <1>3, <1>6, <1>7, <1>8, <2>1, PutTypes DEF WordTypes
<1>14. LastKnown'
  BY <1>3, <1>6, <1>7, PutLast DEF WordInv
<1>15. ShadowKnown' /\ ShadowStored'
  <2>1. ShadowKnown'
    BY <1>1, <1>3, <1>6, <1>7, <1>8, PutKnown DEF WordInv, ShadowKnown
  <2>2. ShadowStored'
    BY <1>1, <1>3, <1>6, <1>7, <1>8, PutShadow DEF WordInv
  <2> QED
    BY <2>1, <2>2
<1>16. RegKnown'
  BY <1>1, <1>7, <1>8 DEF WordInv, RegKnown
<1>17. ResvLinked'
  BY <1>1, <1>3, <1>6, <1>7, <1>8, ResvLost DEF WordInv, Put
<1> QED
  BY <1>12, <1>13, <1>14, <1>15, <1>16, <1>17 DEF WordInv

\* An atomic inside a word: the checker wants a trap if the record has the
\* access, and else takes it for an atomic without one.
LEMMA MisalignedAtomicStep ==
  ASSUME WordInv, n \in Nat, mode = "bare", NEW w \in Words, NEW op \in Amos \cup {"lr", "sc"},
         MisalignedAtomic(op, Halves[w][2])
  PROVE  WordInv' /\ WordVerdicts'
<1> DEFINE addr == Halves[w][2]
           Access(listed)    == IF listed THEN At(addr, None) ELSE None
           Rec(listed, trap) == IF op = "sc"
                                THEN [Plain(op) EXCEPT !.write = Access(listed), !.trap = trap]
                                ELSE [Plain(op) EXCEPT !.read = Access(listed), !.trap = trap]
<1>1. /\ UNCHANGED <<mode, hw, mem, stored, mixed, reg, told, resv>> /\ n' = n + 1
      /\ judged.alarms = {}
  BY DEF MisalignedAtomic, Retire
<1>2. PICK listed \in BOOLEAN, trap \in {TRUE} \cup {b \in {FALSE} : hw = "wild"} :
        Check(Rec(listed, trap), trap, ~ listed)
  BY DEF MisalignedAtomic
<1> DEFINE access == Access(listed)
           rec    == Rec(listed, trap)
<1>3. /\ WordTypes /\ trap \in BOOLEAN /\ (hw = "book" => trap)
      /\ addr \in Nat /\ addr # None /\ Misaligned(addr)
  <2>1. addr = w + 2
    BY WordFacts
  <2>2. addr \in Nat /\ addr # None /\ Misaligned(addr)
    BY <2>1, WordFacts
  <2> QED
    BY <1>2, <2>2 DEF WordInv
<1>4. /\ rec.op = op /\ rec.trap = trap /\ rec.set = None /\ rec.rd = None
      /\ rec.read  = IF op = "sc" THEN None ELSE access
      /\ rec.write = IF op = "sc" THEN access ELSE None
  BY DEF Plain
<1>5. At(addr, None) # None /\ At(addr, None).addr = addr /\ At(addr, None).value = None
  BY <1>3, AccessFacts
<1>6. access = IF listed THEN At(addr, None) ELSE None
  OBVIOUS
<1>7. Check(rec, trap, ~ listed)
  BY <1>2
<1> HIDE DEF rec, access, addr
<1>8. IsAtomic(rec) /\ ~ Stored(rec) /\ LsqAlarms(last, rec) = {}
  BY <1>4, <1>5, <1>6 DEF IsAtomic, Stored, LsqAlarms, If, Differ
<1>9. /\ judged'.alarms = Replay(shadow, rec, n).alarms /\ judged'.vm = {}
      /\ judged'.right = trap /\ judged'.unclear = ~ listed
      /\ shadow' = Replay(shadow, rec, n).shadow /\ last' = last
  BY <1>7, <1>8 DEF Check, Quiet, LsqAfter
<1>10. /\ shadow'.reg = shadow.reg /\ shadow'.mem = shadow.mem
       /\ shadow'.resv \in {shadow.resv, NoReservation}
       /\ shadow' = [reg |-> shadow'.reg, mem |-> shadow'.mem, resv |-> shadow'.resv]
       /\ WordVerdicts'
       /\ judged'.alarms = {} =>
            shadow'.resv = shadow.resv \/ (shadow'.resv = NoReservation /\ (resv.addr = None \/ Expired))
  <2>1. shadow = [reg |-> shadow.reg, mem |-> shadow.mem, resv |-> shadow.resv]
    BY <1>3 DEF WordTypes
  <2>2. CASE listed
    <3>1. AccessAddr(shadow, rec) = addr
      <4>1. addr # 0
        BY <1>3 DEF Misaligned, WordBytes
      <4>2. op = "sc" \/ op = "lr" \/ op \in Amos
        OBVIOUS
      <4>3. "sc" \notin Amos /\ "lr" \notin Amos
        BY WordsAssumption
      <4> QED
        BY <1>3, <1>4, <1>5, <1>6, <2>2, <4>1, <4>2, <4>3 DEF AccessAddr, ScAddr, AmoAddr
    <3>2. CheckAtomic(shadow, rec, n) = [alarms |-> If("alignment", ~ trap), shadow |-> shadow]
      BY <1>3, <1>4, <3>1 DEF CheckAtomic, AlignmentAlarms
    <3>3. /\ Replay(shadow, rec, n).alarms = If("alignment", ~ trap)
          /\ Replay(shadow, rec, n).shadow = shadow
      BY <1>4, <1>8, <2>1, <3>2, ReplayAtomic
    <3>4. judged'.alarms = {} <=> trap
      BY <1>3, <1>9, <3>3 DEF If
    <3>5. WordVerdicts'
      BY <1>1, <1>3, <1>9, <2>2, <3>4 DEF WordVerdicts, CorrectHartCleared, SilenceMeansSequential
    <3> QED
      BY <1>9, <2>1, <3>3, <3>5
  <2>3. CASE ~ listed
    <3>1. rec.read = None /\ rec.write = None
      BY <1>4, <1>6, <2>3
    <3>2. WordVerdicts'
      BY <1>1, <1>9, <2>3 DEF WordVerdicts, CorrectHartCleared, SilenceMeansSequential
    <3>3. CASE op = "sc"
      <4> DEFINE holds == /\ shadow.resv.addr # None
                          /\ Window > 0 => n - shadow.resv.seq <= Window
      <4>1. /\ ScAddr(shadow, rec) = shadow.resv.addr /\ ~ Misaligned(ScAddr(shadow, rec))
            /\ HoldsReservation(shadow, rec, n) = holds
        BY <1>3, <3>1, WordFacts DEF ScAddr, HoldsReservation, Misaligned, WordTypes, Reservations
      <4>2. holds \in BOOLEAN
        OBVIOUS
      <4>3. resv.addr # None /\ ~ Expired => holds
        BY <1>1, <1>3, ReservationAgrees DEF WordInv
      <4> HIDE DEF holds
      <4>4. /\ Replay(shadow, rec, n).alarms =
                 IF holds THEN {"sc_success_no_write"} \cup If("sc_success_rd", Differ(rec.rd, 0))
                 ELSE If("sc_fail_rd", rec.rd = 0)
            /\ Replay(shadow, rec, n).shadow =
                 [reg |-> shadow.reg, mem |-> shadow.mem, resv |-> NoReservation]
        BY <1>3, <1>4, <3>1, <3>3, <4>1, <4>2, ReplayConditional DEF If
      <4>5. judged'.alarms = {} => ~ holds
        BY <1>9, <4>4
      <4> QED
        BY <1>9, <3>2, <4>3, <4>4, <4>5
    <3>4. CASE op # "sc"
      <4>1. AccessAddr(shadow, rec) = None /\ ~ Misaligned(None)
        <5>1. rec.op # "sc" /\ (rec.op = "lr" \/ rec.op \in Amos) /\ "lr" \notin Amos
          BY <1>4, <3>4, WordsAssumption
        <5> QED
          BY <3>1, <5>1 DEF AccessAddr, AmoAddr, Misaligned
      <4>2. PICK alarm : CheckAtomic(shadow, rec, n) = [alarms |-> {alarm}, shadow |-> shadow]
        <5>1. \E alarm : CheckAtomic(shadow, rec, n) = [alarms |-> {alarm}, shadow |-> shadow]
          BY <1>4, <3>4, <4>1, NoAccess
        <5> QED
          BY <5>1
      <4>3. Replay(shadow, rec, n).alarms = {alarm} /\ Replay(shadow, rec, n).shadow = shadow
        BY <1>4, <1>8, <2>1, <4>2, ReplayAtomic
      <4> QED
        BY <1>9, <2>1, <3>2, <4>3
    <3> QED
      BY <3>3, <3>4
  <2> QED
    BY <2>2, <2>3
<1>11. NoReservation \in Reservations /\ NoReservation.addr = None
  BY DEF NoReservation, Reservations
<1>12. WordTypes'
  BY <1>1, <1>3, <1>10, <1>11 DEF WordTypes
<1>13. RegKnown' /\ LastKnown' /\ ShadowKnown' /\ ShadowStored'
  BY <1>1, <1>9, <1>10 DEF WordInv, RegKnown, LastKnown, ShadowKnown, ShadowStored
<1>14. ResvLinked'
  <2>1. Expired => Expired'
    BY <1>1, <1>3, Older DEF WordTypes
  <2>2. CASE resv.addr = None
    BY <1>1, <1>10, <1>11, <2>2 DEF WordInv, ResvLinked
  <2>3. CASE resv.addr # None
    BY <1>1, <1>10, <1>11, <2>1, <2>3 DEF WordInv, ResvLinked
  <2> QED
    BY <2>2, <2>3
<1> QED
  BY <1>10, <1>12, <1>13, <1>14 DEF WordInv

(***************************************************************************)
(* The two modes together.                                                 *)
(***************************************************************************)
HartInv ==
  /\ mode \in {"sv32", "bare"} /\ n \in Nat
  /\ TransInv /\ (mode = "bare" => WordInv)
  /\ CorrectHartCleared /\ StaleNeverMissed /\ SilenceMeansSequential

LEMMA HartInit ==
  Init => HartInv
<1> SUFFICES ASSUME Init PROVE HartInv
  OBVIOUS
<1>1. TransInv
  <2>1. TablesOK
    BY TablesAssumption DEF Init, TablesOK
  <2>2. golden \in Seq(GoldenEntries) /\ Members(golden) = {} /\ OneOfAKey(golden)
    BY DEF Init, Members, OneOfAKey
  <2> QED
    BY <2>1, <2>2 DEF Init, TransInv, TransTypes, WildHolds, BookApart, BookAllowed
<1>2. WordInv
  <2>1. 0 \in Values /\ NoReservation \in Reservations /\ NoReservation.addr = None
    BY DEF Values, NoReservation, Reservations
  <2>2. shadow = [reg |-> None, mem |-> <<>>, resv |-> NoReservation]
    BY DEF Init, NewShadow
  <2>3. \A w : Known(<<>>, w) = None
    BY DEF Known
  <2>4. /\ shadow.reg = None /\ shadow.mem = <<>> /\ shadow.resv = NoReservation
        /\ shadow = [reg |-> shadow.reg, mem |-> shadow.mem, resv |-> shadow.resv]
    BY <2>2
  <2>6. WordTypes
    BY <2>1, <2>4 DEF Init, WordTypes
  <2>7. RegKnown /\ ResvLinked
    BY <2>1, <2>4 DEF Init, RegKnown, ResvLinked
  <2>5. LastKnown /\ ShadowKnown /\ ShadowStored
    BY <2>2, <2>3 DEF Init, LastKnown, ShadowKnown, ShadowStored
  <2> QED
    BY <2>5, <2>6, <2>7 DEF WordInv
<1>3. CorrectHartCleared /\ StaleNeverMissed /\ SilenceMeansSequential
  BY DEF Init, Quiet, CorrectHartCleared, StaleNeverMissed, SilenceMeansSequential
<1> QED
  BY <1>1, <1>2, <1>3 DEF Init, HartInv

\* A step in one mode leaves what belongs to the other.
TranslationStep ==
  \/ \E place \in DOMAIN Ptes : \E pte \in Ptes[place] : WritePte(place, pte)
  \/ \E va \in Pages, asid \in Asids, a \in Accesses :
       \/ Hit(asid, va, a.kind, a)    \/ Miss(asid, va, a.kind, a)
       \/ Direct(asid, va, a.kind, a) \/ Wild(asid, va, a.kind, a)
  \/ \E va \in Pages \cup {All}, asid \in Asids \cup {All}, seen \in BOOLEAN : Fence(va, asid, seen)

MemoryStep ==
  \/ \E v \in Immediates : LoadImmediate(v)
  \/ \E w \in Words : \/ Load(w) \/ Store(w)
                      \/ LoadReserved(w) \/ StoreConditional(w) \/ FailedConditional(w)
                      \/ \E amo \in Amos : Amo(amo, w) \/ UnwrittenAmo(amo, w) \/ UnreadAmo(amo, w)
                      \/ \E i \in {0, 1} : StoreHalf(w, i)
                      \/ \E op \in Amos \cup {"lr", "sc"} : MisalignedAtomic(op, Halves[w][2])

LEMMA SplitNext == Next <=> TranslationStep \/ MemoryStep
BY DEF Next, TranslationStep, MemoryStep

LEMMA TranslationInv ==
  ASSUME HartInv, TranslationStep
  PROVE  HartInv'
<1>1. mode = "sv32" /\ mode' = mode /\ n' = n + 1
  <2>1. \A place, pte : WritePte(place, pte) => Retire("sv32")
    BY DEF WritePte
  <2>2. \A va, asid, kind, m : Hit(asid, va, kind, m) \/ Miss(asid, va, kind, m) => Retire("sv32")
    BY DEF Hit, Miss
  <2>3. \A va, asid, kind, m : Direct(asid, va, kind, m) \/ Wild(asid, va, kind, m) => Retire("sv32")
    BY DEF Direct, Wild
  <2>4. \A va, asid, seen : Fence(va, asid, seen) => Retire("sv32")
    BY DEF Fence
  <2>5. Retire("sv32")
    BY <2>1, <2>2, <2>3, <2>4, Zenon DEF TranslationStep
  <2> QED
    BY <2>5 DEF Retire
<1>2. TransInv
  BY DEF HartInv
<1>3. TransInv' /\ Verdicts'
  <2>1. ASSUME NEW place \in DOMAIN Ptes, NEW pte \in Ptes[place], WritePte(place, pte)
        PROVE  TransInv' /\ Verdicts'
    BY <1>2, <2>1, WritePteStep
  <2>2. ASSUME NEW va \in Pages, NEW asid \in Asids, NEW a \in Accesses,
               \/ Hit(asid, va, a.kind, a)    \/ Miss(asid, va, a.kind, a)
               \/ Direct(asid, va, a.kind, a) \/ Wild(asid, va, a.kind, a)
        PROVE  TransInv' /\ Verdicts'
    <3>1. CASE Hit(asid, va, a.kind, a)
      BY <1>2, <3>1, HitStep
    <3>2. CASE Miss(asid, va, a.kind, a)
      BY <1>2, <3>2, MissStep
    <3>3. CASE Direct(asid, va, a.kind, a)
      BY <1>2, <3>3, DirectStep
    <3>4. CASE Wild(asid, va, a.kind, a)
      BY <1>2, <3>4, WildStep
    <3> QED
      BY <2>2, <3>1, <3>2, <3>3, <3>4
  <2>3. ASSUME NEW va \in Pages \cup {All}, NEW asid \in Asids \cup {All}, NEW seen \in BOOLEAN,
               Fence(va, asid, seen)
        PROVE  TransInv' /\ Verdicts'
    BY <1>2, <2>3, FenceStep
  <2> QED
    BY <2>1, <2>2, <2>3 DEF TranslationStep
<1>4. SilenceMeansSequential'
  BY <1>1 DEF SilenceMeansSequential
<1>5. mode' # "bare" /\ mode' \in {"sv32", "bare"} /\ n' \in Nat
  BY <1>1 DEF HartInv
<1> QED
  BY <1>3, <1>4, <1>5 DEF HartInv, Verdicts

LEMMA TransUntouched ==
  ASSUME TransInv, UNCHANGED <<hw, translation>>
  PROVE  TransInv'
BY DEF translation, TransInv, TransTypes, TablesOK, WildHolds, BookApart, BookAllowed, Allowed,
       OneOfAKey, Members, IsOf, Gives, Overlap, SamePage

LEMMA MemoryInv ==
  ASSUME HartInv, MemoryStep
  PROVE  HartInv'
<1>1. mode = "bare" /\ mode' = mode /\ n' = n + 1 /\ UNCHANGED <<hw, translation>>
  BY DEF MemoryStep, LoadImmediate, Load, Store, LoadReserved, StoreConditional,
         FailedConditional, Amo, UnwrittenAmo, UnreadAmo, StoreHalf, MisalignedAtomic, Retire
<1>2. WordInv /\ n \in Nat /\ TransInv
  BY <1>1 DEF HartInv
<1>3. WordInv' /\ WordVerdicts'
  <2>1. ASSUME NEW v \in Immediates, LoadImmediate(v) PROVE WordInv' /\ WordVerdicts'
    BY <1>1, <1>2, <2>1, LoadImmediateStep
  <2>2. ASSUME NEW w \in Words,
               \/ Load(w) \/ Store(w)
               \/ LoadReserved(w) \/ StoreConditional(w) \/ FailedConditional(w)
        PROVE  WordInv' /\ WordVerdicts'
    BY <1>1, <1>2, <2>2, LoadStep, StoreStep, LoadReservedStep, StoreConditionalStep,
       FailedConditionalStep
  <2>3. ASSUME NEW w \in Words, NEW amo \in Amos,
               Amo(amo, w) \/ UnwrittenAmo(amo, w) \/ UnreadAmo(amo, w)
        PROVE  WordInv' /\ WordVerdicts'
    BY <1>1, <1>2, <2>3, AmoStep, UnwrittenAmoStep, UnreadAmoStep
  <2>4. ASSUME NEW w \in Words, NEW i \in {0, 1}, StoreHalf(w, i) PROVE WordInv' /\ WordVerdicts'
    BY <1>1, <1>2, <2>4, StoreHalfStep
  <2>5. ASSUME NEW w \in Words, NEW op \in Amos \cup {"lr", "sc"},
               MisalignedAtomic(op, Halves[w][2])
        PROVE  WordInv' /\ WordVerdicts'
    BY <1>1, <1>2, <2>5, MisalignedAtomicStep
  <2> QED
    BY <2>1, <2>2, <2>3, <2>4, <2>5 DEF MemoryStep
<1>4. TransInv'
  BY <1>1, <1>2, TransUntouched
<1>5. StaleNeverMissed'
  BY <1>1 DEF StaleNeverMissed
<1>6. mode' \in {"sv32", "bare"} /\ n' \in Nat
  BY <1>1, <1>2
<1> QED
  BY <1>3, <1>4, <1>5, <1>6 DEF HartInv, WordVerdicts

LEMMA HartStutter ==
  ASSUME HartInv, UNCHANGED vars
  PROVE  HartInv'
<1>1. TransInv'
  BY TransUntouched DEF HartInv, vars
<1>2. (mode = "bare" => WordInv)'
  BY DEF HartInv, vars, memory, WordInv, WordTypes, RegKnown, LastKnown, ShadowKnown,
         ShadowStored, ResvLinked, Expired
<1>3. (CorrectHartCleared /\ StaleNeverMissed /\ SilenceMeansSequential)'
  BY DEF HartInv, vars, CorrectHartCleared, StaleNeverMissed, SilenceMeansSequential
<1> QED
  BY <1>1, <1>2, <1>3 DEF HartInv, vars

\* The invariant of the whole log, from which the three verdicts are read off.
THEOREM HartInvariant == Spec => []HartInv
<1>1. HartInv /\ [Next]_vars => HartInv'
  BY SplitNext, TranslationInv, MemoryInv, HartStutter
<1> QED
  BY <1>1, HartInit, PTL DEF Spec

\* A hart that keeps the architecture is accused of nothing, outside the cases
\* that the records leave open: over every page table, every word and every AMO.
THEOREM CorrectHarts == Spec => []CorrectHartCleared
<1>1. HartInv => CorrectHartCleared
  BY DEF HartInv
<1> QED
  BY <1>1, HartInvariant, PTL

\* No answer that the tables do not give escapes walk_sv32; and no page from a
\* translation that the hart can no longer hold escapes the golden TLB.
THEOREM StaleCaughtAlways == Spec => []StaleNeverMissed
<1>1. HartInv => StaleNeverMissed
  BY DEF HartInv
<1> QED
  BY <1>1, HartInvariant, PTL

\* A Bare log to which neither the atomics nor the store queue checker objects
\* is one of sequential memory, but for what SilenceMeansSequential leaves out:
\* above all an AMO that puts nothing back, which neither of them looks for.
THEOREM SilentLogs == Spec => []SilenceMeansSequential
<1>1. HartInv => SilenceMeansSequential
  BY DEF HartInv
<1> QED
  BY <1>1, HartInvariant, PTL

=============================================================================
