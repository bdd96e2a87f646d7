------------------------------- MODULE HartRun -------------------------------
(***************************************************************************)
(* The checkers of AGENT_H that replay the commit log of one hart beside   *)
(* the hart that writes it: vm_verifier.py and tlb_verifier.py where satp  *)
(* has Sv32 on, atomics_verifier.py and lsq_verifier.py where it has not.  *)
(* A step is a record of the log; each checker is a fold over the records, *)
(* so the log itself is not kept.                                          *)
(*                                                                         *)
(* The hart is not part of the repository; two kinds tell the checkers     *)
(* apart.  By the "book", a TLB has at most one translation of a page, a   *)
(* page is served from it or from a walk that fills it, and a reservation  *)
(* is lost as the module comment of atomics_verifier.py says.  A "wild"    *)
(* hart reports anything.                                                  *)
(***************************************************************************)
EXTENDS TlbVerifier, FiniteSetsExt

CONSTANTS Amos, Window,
          Asids, Root,         \* the address spaces and their first-level tables
          Pages,               \* the virtual pages that are used
          Frames,              \* the physical pages a wild hart may serve
          Images,              \* the page tables to begin with
          Ptes,                \* per place in the tables, the entries written there
          Accesses,            \* their kinds, with the privilege, SUM and MXR they are made in
          Words, Halves,       \* the words used; per word, the addresses of its halves
          Immediates,          \* the values put into the source register
          MaxRecords           \* per mode, the length of the logs

INSTANCE AtomicsVerifier

PteRecords == [v : BOOLEAN, r : BOOLEAN, w : BOOLEAN, x : BOOLEAN, u : BOOLEAN, g : BOOLEAN,
               ppn : Nat \X Nat]

\* Addresses are pairs of indexes, entries are records; an absent field is neither.
ASSUME TablesAssumption ==
  /\ None \notin Nat /\ None \notin Nat \X Nat
  /\ Root \in [Asids -> Nat \X Nat]
  /\ Pages \subseteq Nat \X Nat /\ Frames \subseteq Nat \X Nat
  /\ \A i \in Images : \A k \in DOMAIN i : i[k] \in PteRecords
  /\ \A place \in DOMAIN Ptes : Ptes[place] \subseteq PteRecords
  /\ Accesses \subseteq [kind : {"load", "store"}, priv : {"S", "U", "M"},
                         sum : BOOLEAN, mxr : BOOLEAN]

ASSUME WordsAssumption ==
  /\ Words \subseteq Nat /\ \A w \in Words : w % WordBytes = 0 /\ Halves[w] = <<w, w + 2>>
  /\ Immediates \subseteq 0..WordValues-1
  /\ Window \in Nat
  /\ None \notin [addr : Nat, value : Nat \cup {None}]
  /\ Amos \subseteq {"swap", "add", "and", "or", "xor", "min", "max", "minu", "maxu"}

VARIABLES
  mode,       \* "sv32" or "bare": the mode in satp
  hw,         \* "book" or "wild"
  n,          \* the records so far
  judged,     \* what the checkers say of the last record, and what is true of it
  image,      \* the page tables
  tlb,        \* the translations the hart may hold
  golden,     \* tlb_verifier's
  spared,     \* those fenced out of the hart but not of golden
  mem,        \* the words
  stored,     \* the words that the log has a store of
  mixed,      \* those of which a half has been stored since
  reg,        \* the source register; told once the log has its value
  told,
  resv,       \* the hart's reservation with its place
  shadow,     \* atomics_verifier's
  last        \* lsq_verifier's

translation == <<image, tlb, golden, spared>>
memory      == <<mem, stored, mixed, reg, told, resv, shadow, last>>
vars        == <<mode, hw, n, judged, translation, memory>>

Quiet  == [alarms |-> {}, vm |-> {}, right |-> TRUE, unclear |-> FALSE, held |-> FALSE,
           page |-> FALSE]

Init ==
  /\ mode \in {"sv32", "bare"} /\ hw \in {"book", "wild"}
  /\ n = 0 /\ judged = Quiet
  /\ image \in Images
  /\ tlb = {} /\ golden = <<>> /\ spared = {}
  /\ mem = [w \in Words |-> 0] /\ stored = {} /\ mixed = {}
  /\ reg = 0 /\ told = FALSE
  /\ resv = NoReservation /\ shadow = NewShadow /\ last = <<>>

\* A log is followed up to the first accusation.
Retire(in) ==
  /\ mode = in /\ n < MaxRecords[mode] /\ judged.alarms = {}
  /\ n' = n + 1
  /\ UNCHANGED <<mode, hw>>

(***************************************************************************)
(* Translation, in the words of the privileged specification: a page has a *)
(* leaf, and the leaf gives rights.                                        *)
(***************************************************************************)
Valid(pte) == pte.v /\ (pte.w => pte.r)

\* The entry of a walk that ends in a leaf, with the page and the space it is for.
Leaves(asid, va) ==
  LET top == ReadPte(image, Root[asid], va[1])
      low == ReadPte(image, top.ppn, va[2])
      entry(level, pte) == [asid |-> asid, va |-> va, level |-> level, pte |-> pte]
  IN  {entry(1, p) : p \in {q \in {top} : Valid(q) /\ (q.r \/ q.x) /\ q.ppn[2] = 0}} \cup
      {entry(0, p) : p \in {q \in {low} : Valid(top) /\ ~ (top.r \/ top.x)
                                          /\ Valid(q) /\ (q.r \/ q.x)}}

Rights(pte, m) ==
  IF pte.u = (m.priv = "U") \/ (pte.u /\ m.sum)
  THEN {k \in {"load"} : pte.r \/ (pte.x /\ m.mxr)} \cup {k \in {"store"} : pte.w}
  ELSE {}

SamePage(e, va)    == IF e.level = 1 THEN e.va[1] = va[1] ELSE e.va = va
Hits(asid, va)     == {e \in tlb : SamePage(e, va) /\ (e.asid = asid \/ e.pte.g)}
Overlap(e, f)      == /\ SamePage(e, f.va) \/ SamePage(f, e.va)
                      /\ e.asid = f.asid \/ e.pte.g \/ f.pte.g
Fill(e)            == {f \in tlb : hw = "book" => ~ Overlap(e, f)} \cup {e}

\* What an access is answered: a page, or its page fault.
Fault(kind)  == [served |-> None, trap |-> IF kind = "load" THEN 13 ELSE 15]
Gives(e, va) == PageOf(e.pte, e.level, va)

Answer(e, va, kind, m) ==
  IF kind \in Rights(e.pte, m) THEN [served |-> Gives(e, va), trap |-> None] ELSE Fault(kind)

\* What the tables themselves give.
Walk(asid, va, kind, m) ==
  IF Leaves(asid, va) = {} THEN Fault(kind)
  ELSE Answer(CHOOSE e \in Leaves(asid, va) : TRUE, va, kind, m)

\* The record of an access that was answered a, by the TLB entries in by.
Judge(asid, va, kind, m, a, by) ==
  LET t     == Translate(image, Root[asid], va, kind, m)
      gated == Gated(image, m)
  IN  /\ judged' = [Quiet EXCEPT
           !.alarms  = IF gated THEN {} ELSE TlbAlarms(golden, asid, va, t, a.served),
           !.vm      = IF gated THEN {} ELSE VmAlarms(t, kind, a.served, a.trap),
           !.right   = gated \/ a = Walk(asid, va, kind, m),
           !.page    = None \notin {a.served, Walk(asid, va, kind, m).served},
           !.held    = \E e \in Hits(asid, va) : Gives(e, va) = a.served,
           !.unclear = \/ \E e \in by : e.va # va \/ e.pte.g
                       \/ /\ hw = "wild"
                          /\ \E e \in spared : /\ e.va = va /\ (e.asid = asid \/ e.pte.g)
                                             /\ Gives(e, va) = a.served]
      /\ golden' = IF gated THEN golden ELSE AfterAccess(golden, asid, va, t, a.served)

(***************************************************************************)
(* The records of a hart in Sv32.                                          *)
(***************************************************************************)
\* Another entry is written to a table; the record has it as phys_mem.
WritePte(place, pte) ==
  /\ Retire("sv32")
  /\ image' = [k \in DOMAIN image \cup {place} |-> IF k = place THEN pte ELSE image[k]]
  /\ judged' = Quiet
  /\ UNCHANGED <<tlb, golden, spared, memory>>

\* A page is answered from the TLB.
Hit(asid, va, kind, m) ==
  /\ Retire("sv32") /\ hw = "book" /\ m.priv # "M"
  /\ \E e \in Hits(asid, va) : Judge(asid, va, kind, m, Answer(e, va, kind, m), {e})
  /\ UNCHANGED <<image, tlb, spared, memory>>

\* A walk, that fills the TLB if it serves a page.
Miss(asid, va, kind, m) ==
  LET a == Walk(asid, va, kind, m)
  IN  /\ Retire("sv32") /\ hw = "book" /\ m.priv # "M"
      /\ Judge(asid, va, kind, m, a, {})
      /\ tlb' = IF a.served = None THEN tlb ELSE UNION {Fill(e) : e \in Leaves(asid, va)}
      /\ UNCHANGED <<image, spared, memory>>

\* In machine mode the address is that of memory.
Direct(asid, va, kind, m) ==
  /\ Retire("sv32") /\ hw = "book" /\ m.priv = "M"
  /\ Judge(asid, va, kind, m, [served |-> va, trap |-> None], {})
  /\ UNCHANGED <<image, tlb, spared, memory>>

\* A wild hart answers anything.  What it could have kept from a right answer
\* it may hold from now on.
Wild(asid, va, kind, m) ==
  /\ Retire("sv32") /\ hw = "wild" /\ m.priv # "M"
  /\ \E a \in [served : Frames, trap : {None}] \cup [served : {None}, trap : {13, 15}] :
       /\ Judge(asid, va, kind, m, a, {})
       /\ tlb' = IF a.served # None /\ a = Walk(asid, va, kind, m)
                 THEN UNION {Fill(e) : e \in Leaves(asid, va)} ELSE tlb
  /\ UNCHANGED <<image, spared, memory>>

\* sfence.vma.  The address is that of the page, of which a superpage has many.
Covers(e, va, asid, samePage) ==
  /\ va = All \/ samePage
  /\ asid = All \/ (e.asid = asid /\ ~ e.pte.g)

Fence(va, asid, seen) ==
  /\ Retire("sv32")
  /\ LET gone   == {e \in tlb : Covers(e, va, asid, SamePage(e, va))}
         marked == {e \in tlb \cup spared : /\ seen \/ <<va, asid>> = <<All, All>>
                                            /\ Covers(e, va, asid, e.va = va)}
     IN  /\ tlb'    = tlb \ gone
         /\ spared' = (spared \cup gone) \ marked
  /\ golden' = Fenced(golden, va, asid, seen)
  /\ judged' = Quiet
  /\ UNCHANGED <<image, memory>>

(***************************************************************************)
(* The records of a hart in Bare mode.  A word is two halves of a bit.     *)
(***************************************************************************)
Bits(x)      == {i \in {0, 1} : (x \div 2^i) % 2 = 1}
Word(bits)   == (IF 0 \in bits THEN 1 ELSE 0) + (IF 1 \in bits THEN 2 ELSE 0)
TwosComplement(x) == IF 1 \in Bits(x) THEN x - WordValues ELSE x

\* The AMOs, in the words of the unprivileged specification.
Result(amo, old, src) ==
  CASE amo = "swap" -> src
    [] amo = "add"  -> (old + src) % WordValues
    [] amo = "and"  -> Word(Bits(old) \cap Bits(src))
    [] amo = "or"   -> Word(Bits(old) \cup Bits(src))
    [] amo = "xor"  -> Word(SymDiff(Bits(old), Bits(src)))
    [] amo = "min"  -> Min({TwosComplement(old), TwosComplement(src)}) % WordValues
    [] amo = "max"  -> Max({TwosComplement(old), TwosComplement(src)}) % WordValues
    [] amo = "minu" -> Min({old, src})
    [] amo = "maxu" -> Max({old, src})

Plain(op) == [op |-> op, read |-> None, write |-> None, rd |-> None, trap |-> FALSE, set |-> None]
At(addr, value) == [addr |-> addr, value |-> value]

\* What a hart may report where v is right.
Reported(v) == IF hw = "book" THEN {v} ELSE {v, (v + 1) % WordValues}

Held(w)    == resv.addr = w
Expired    == resv # NoReservation /\ Window > 0 /\ n - resv.seq > Window

\* The checkers fold the record; right and unclear are about the word w.
Check(rec, right, unclear) ==
  /\ judged' = [Quiet EXCEPT !.alarms  = Replay(shadow, rec, n).alarms \cup LsqAlarms(last, rec),
                             !.right   = right,
                             !.unclear = unclear]
  /\ shadow' = Replay(shadow, rec, n).shadow
  /\ last'   = LsqAfter(last, rec)

\* What becomes of memory and of the reservation when a whole word is stored.
Put(w, value) ==
  /\ mem'    = [mem EXCEPT ![w] = value]
  /\ stored' = stored \cup {w}
  /\ mixed'  = mixed \ {w}

Sequential(w, v) == w \in stored => v = mem[w]

LoadImmediate(v) ==
  /\ Retire("bare")
  /\ reg' = v /\ told' = TRUE
  /\ Check([Plain("li") EXCEPT !.set = v], TRUE, FALSE)
  /\ UNCHANGED <<translation, mem, stored, mixed, resv>>

Load(w) ==
  /\ Retire("bare")
  /\ \E v \in Reported(mem[w]) :
       Check([Plain("load") EXCEPT !.read = At(w, v)], Sequential(w, v), w \in mixed)
  /\ UNCHANGED <<translation, mem, stored, mixed, reg, told, resv>>

Store(w) ==
  /\ Retire("bare")
  /\ Put(w, reg)
  /\ resv' = IF Held(w) THEN NoReservation ELSE resv
  /\ Check([Plain("store") EXCEPT !.write = At(w, reg)], TRUE, FALSE)
  /\ UNCHANGED <<translation, reg, told>>

StoreHalf(w, i) ==
  LET bit == reg % 2
  IN  /\ Retire("bare")
      /\ mem'   = [mem EXCEPT ![w] = Word((Bits(@) \ {i}) \cup {b \in {i} : bit = 1})]
      /\ mixed' = mixed \cup {w}
      /\ resv'  = IF Held(w) THEN NoReservation ELSE resv
      /\ Check([Plain("store") EXCEPT !.write = At(Halves[w][i + 1], bit)], TRUE, FALSE)
      /\ UNCHANGED <<translation, stored, reg, told>>

LoadReserved(w) ==
  /\ Retire("bare")
  /\ resv' = [addr |-> w, seq |-> n]
  /\ \E v \in Reported(mem[w]) : \E rd \in Reported(v) :
       Check([Plain("lr") EXCEPT !.read = At(w, v), !.rd = rd],
             rd = v /\ Sequential(w, v), w \in mixed)
  /\ UNCHANGED <<translation, mem, stored, mixed, reg, told>>

\* A store-conditional that stores, as it should if the reservation is held.
StoreConditional(w) ==
  /\ Retire("bare")
  /\ hw = "book" => Held(w)
  /\ \E v \in Reported(reg), rd \in Reported(0) :
       /\ Put(w, v)
       /\ Check([Plain("sc") EXCEPT !.write = At(w, v), !.rd = rd],
                Held(w) /\ rd = 0 /\ (told => v = reg), w \in mixed \/ Expired)
  /\ resv' = NoReservation
  /\ UNCHANGED <<translation, reg, told>>

\* One that does not.
FailedConditional(w) ==
  /\ Retire("bare")
  /\ hw = "book" => ~ Held(w)
  /\ \E rd \in Reported(1) :
       Check([Plain("sc") EXCEPT !.rd = rd], ~ Held(w) /\ rd # 0,
             mixed # {} \/ Expired \/ resv.addr \notin {None, w})
  /\ resv' = NoReservation
  /\ UNCHANGED <<translation, mem, stored, mixed, reg, told>>

Amo(amo, w) ==
  /\ Retire("bare")
  /\ \E old \in Reported(mem[w]) : \E rd \in Reported(old), new \in Reported(Result(amo, old, reg)) :
       /\ Put(w, new)
       /\ Check([Plain(amo) EXCEPT !.read = At(w, old), !.write = At(w, new), !.rd = rd],
                /\ Sequential(w, old) /\ rd = old
                /\ told => new = Result(amo, old, reg),
                w \in mixed)
  /\ resv' = IF Held(w) THEN NoReservation ELSE resv
  /\ UNCHANGED <<translation, reg, told>>

\* One that puts nothing back.  It is never right; no checker looks for the write.
UnwrittenAmo(amo, w) ==
  /\ Retire("bare") /\ hw = "wild"
  /\ \E old \in Reported(mem[w]) : \E rd \in Reported(old) :
       Check([Plain(amo) EXCEPT !.read = At(w, old), !.rd = rd],
             FALSE, (Sequential(w, old) /\ rd = old) \/ w \in mixed)
  /\ resv' = IF Held(w) THEN NoReservation ELSE resv
  /\ UNCHANGED <<translation, mem, stored, mixed, reg, told>>

\* One whose record lists only the write: of the old value it has what rd got.
UnreadAmo(amo, w) ==
  /\ Retire("bare")
  /\ \E rd \in Reported(mem[w]), new \in Reported(Result(amo, mem[w], reg)) :
       /\ Put(w, new)
       /\ Check([Plain(amo) EXCEPT !.write = At(w, new), !.rd = rd],
                /\ Sequential(w, rd)
                /\ told /\ w \in stored => new = Result(amo, mem[w], reg),
                w \in mixed)
  /\ resv' = IF Held(w) THEN NoReservation ELSE resv
  /\ UNCHANGED <<translation, reg, told>>

\* An atomic inside a word, which must trap; the record may have the access.
MisalignedAtomic(op, addr) ==
  /\ Retire("bare")
  /\ \E listed \in BOOLEAN, trap \in {TRUE} \cup {b \in {FALSE} : hw = "wild"} :
       LET access == IF listed THEN At(addr, None) ELSE None
           rec    == IF op = "sc" THEN [Plain(op) EXCEPT !.write = access, !.trap = trap]
                     ELSE [Plain(op) EXCEPT !.read = access, !.trap = trap]
       IN  Check(rec, trap, ~ listed)
  /\ UNCHANGED <<translation, mem, stored, mixed, reg, told, resv>>

(***************************************************************************)
Next ==
  \/ \E place \in DOMAIN Ptes : \E pte \in Ptes[place] : WritePte(place, pte)
  \/ \E va \in Pages, asid \in Asids, a \in Accesses :
       \/ Hit(asid, va, a.kind, a)    \/ Miss(asid, va, a.kind, a)
       \/ Direct(asid, va, a.kind, a) \/ Wild(asid, va, a.kind, a)
  \/ \E va \in Pages \cup {All}, asid \in Asids \cup {All}, seen \in BOOLEAN : Fence(va, asid, seen)
  \/ \E v \in Immediates : LoadImmediate(v)
  \/ \E w \in Words : \/ Load(w) \/ Store(w)
                      \/ LoadReserved(w) \/ StoreConditional(w) \/ FailedConditional(w)
                      \/ \E amo \in Amos : Amo(amo, w) \/ UnwrittenAmo(amo, w) \/ UnreadAmo(amo, w)
                      \/ \E i \in {0, 1} : StoreHalf(w, i)
                      \/ \E op \in Amos \cup {"lr", "sc"} : MisalignedAtomic(op, Halves[w][2])

Spec == Init /\ [][Next]_vars

\* A hart by the book is not accused of a translation, except that the walk
\* checker accuses what the TLB of a hart may keep and the TLB checker a
\* translation that another page or address space brought into the TLB; nor of
\* an access, except to a word of which a half was stored, of a failed or late
\* store-conditional, and of a trapped atomic that the record has no access of.
CorrectHartCleared ==
  hw = "book" =>
    /\ judged.alarms # {} => judged.unclear
    /\ judged.vm # {} => ~ judged.right

\* Whatever the hart, the walk checker accuses every answer that the tables do
\* not give; and the TLB checker a page in place of the tables' page, once no
\* translation the TLB may still hold gives it.  Left out is what was fenced by
\* operands the record does not tell, or by the address of another page.
StaleNeverMissed ==
  hw = "wild" /\ mode = "sv32" /\ ~ judged.right =>
    /\ judged.vm # {}
    /\ judged.page /\ ~ judged.held /\ ~ judged.unclear => judged.alarms # {}

\* Whatever the hart, a log nobody objects to is that of sequential memory: a
\* word that was stored reads as stored last, an AMO puts back its function, a
\* store-conditional stores just if the reservation is held, and an atomic
\* inside a word traps.  Left out, since the checkers miss it: an AMO whose
\* record has no write is never right, and passes if what it read is (against
\* atomics_verifier.py:14-16 and 31); a word of which a half was stored since;
\* a store-conditional later than the window, and a failed one while another
\* word is reserved or a half of any word has been stored; an atomic inside a
\* word whose record does not list the access.  Nothing is asked of the value
\* of a word before its first store, nor of what an AMO or store-conditional
\* puts before the log has told the source register.
SilenceMeansSequential ==
  hw = "wild" /\ mode = "bare" /\ judged.alarms = {} /\ ~ judged.unclear => judged.right

=============================================================================
