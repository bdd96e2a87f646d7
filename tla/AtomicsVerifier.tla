--------------------------- MODULE AtomicsVerifier ---------------------------
(***************************************************************************)
(* The checkers of AGENT_H that replay the accesses of one hart: the one   *)
(* of LR, SC and the AMOs (atomics_verifier.py), and the one of loads and  *)
(* stores (lsq_verifier.py).                                               *)
(*                                                                         *)
(* A record has an op, the access it reads and the one it writes (None or  *)
(* an addr and a value), the value of rd (None if it writes none), whether *)
(* it traps, and set, the value it gives to the source register, None if   *)
(* none.  Words are WordBytes apart, of WordValues values; a smaller       *)
(* access may begin at any address.  The place of a record is its seq.     *)
(***************************************************************************)
EXTENDS Integers, FiniteSets

CONSTANTS None,
          Amos,          \* the AMOs a program may use
          Window         \* reservation_window, 0 for none

WordBytes  == 4
WordValues == 4
Signed(x)  == IF 2 * x >= WordValues THEN x - WordValues ELSE x

\* A function of pairs of bits, applied to each of the two bits of a word.
BitPairs == {0, 1} \X {0, 1}
BitByBit(f, x, y) == f[<<x % 2, y % 2>>] + 2 * f[<<x \div 2, y \div 2>>]

AmoCompute(amo, old, src) ==
  CASE amo = "swap" -> src
    [] amo = "add"  -> (old + src) % WordValues
    [] amo = "and"  -> BitByBit([b \in BitPairs |-> b[1] * b[2]], old, src)
    [] amo = "or"   -> BitByBit([b \in BitPairs |-> b[1] + b[2] - b[1] * b[2]], old, src)
    [] amo = "xor"  -> BitByBit([b \in BitPairs |-> (b[1] + b[2]) % 2], old, src)
    [] amo = "min"  -> IF Signed(old) <= Signed(src) THEN old ELSE src
    [] amo = "max"  -> IF Signed(old) >= Signed(src) THEN old ELSE src
    [] amo = "minu" -> IF old <= src THEN old ELSE src
    [] amo = "maxu" -> IF old >= src THEN old ELSE src

Known(f, k)    == IF k \in DOMAIN f THEN f[k] ELSE None
With(f, k, v)  == [j \in DOMAIN f \cup {k} |-> IF j = k THEN v ELSE f[j]]
Differ(x, y)   == x # None /\ y # None /\ x # y
If(check, holds) == {c \in {check} : holds}

Stored(rec) == rec.write # None /\ rec.write.value # None

(***************************************************************************)
(* AtomicsVerifier.  Its shadow is the source register, the memory known   *)
(* so far and the reservation with its place.  A checker gives the shadow  *)
(* after the record and the alarms.                                        *)
(***************************************************************************)
NoReservation == [addr |-> None, seq |-> 0]
NewShadow     == [reg |-> None, mem |-> <<>>, resv |-> NoReservation]

IsAtomic(rec) == rec.op \in Amos \cup {"lr", "sc"}

Misaligned(addr) == addr # None /\ addr % WordBytes # 0

AlignmentAlarms(rec) == If("alignment", ~ rec.trap)

CheckLr(shadow, rec, seq) ==
  LET addr == rec.read.addr  loaded == rec.read.value
  IN  [alarms |-> If("lr_rd_value", Differ(rec.rd, loaded)) \cup
                  If("lr_mem_coherence", Differ(Known(shadow.mem, addr), loaded)),
       shadow |-> [shadow EXCEPT !.mem = IF loaded = None THEN @ ELSE With(@, addr, loaded),
                                 !.resv = [addr |-> addr, seq |-> seq]]]

\* The address an SC that wrote nothing was for is taken to be the reserved one.
ScAddr(shadow, rec) == IF rec.write # None THEN rec.write.addr ELSE shadow.resv.addr

\* Mutation: any reservation will do for a store-conditional.
HoldsReservation_Anywhere(shadow, rec, seq) ==
  shadow.resv.addr # None /\ (Window > 0 => seq - shadow.resv.seq <= Window)

HoldsReservation(shadow, rec, seq) ==
  /\ shadow.resv.addr # None /\ ScAddr(shadow, rec) = shadow.resv.addr
  /\ Window > 0 => seq - shadow.resv.seq <= Window

CheckSc(shadow, rec, seq) ==
  LET holds == HoldsReservation(shadow, rec, seq)
      wrote == rec.write # None
  IN  [alarms |-> IF holds
                  THEN If("sc_success_no_write", ~ wrote) \cup
                       If("sc_success_rd", Differ(rec.rd, 0)) \cup
                       (IF wrote THEN If("sc_store_value", Differ(shadow.reg, rec.write.value))
                        ELSE {})
                  ELSE If("sc_fail_wrote", wrote) \cup If("sc_fail_rd", rec.rd = 0),
       shadow |-> [shadow EXCEPT !.resv = NoReservation,
                     !.mem = IF holds /\ Stored(rec) THEN With(@, rec.write.addr, rec.write.value)
                             ELSE @]]

\* Of the read, else of the write; address 0 of a read counts as none.
AmoAddr(rec) ==
  IF rec.read # None /\ rec.read.addr # 0 THEN rec.read.addr
  ELSE IF rec.write # None THEN rec.write.addr ELSE None

\* An AMO whose record lists no read is held to the memory known so far.
CheckAmo(shadow, rec, seq) ==
  LET addr == AmoAddr(rec)
      old  == IF rec.read # None THEN rec.read.value ELSE Known(shadow.mem, addr)
      new  == IF Stored(rec) THEN rec.write.value ELSE old
      expected == IF old = None \/ shadow.reg = None THEN None
                  ELSE AmoCompute(rec.op, old, shadow.reg)
  IN  [alarms |-> If("amo_rd_value", Differ(rec.rd, old)) \cup
                  (IF rec.write = None THEN {}
                   ELSE If("amo_writeback", Differ(rec.write.value, expected))),
       shadow |-> [shadow EXCEPT
                     !.mem  = IF new = None THEN @ ELSE With(@, addr, new),
                     !.resv = IF @.addr = addr THEN NoReservation ELSE @]]

AccessAddr(shadow, rec) ==
  CASE rec.op = "sc" -> ScAddr(shadow, rec)
    [] rec.op = "lr" -> IF rec.read # None THEN rec.read.addr ELSE None
    [] rec.op \in Amos -> AmoAddr(rec)

CheckAtomic(shadow, rec, seq) ==
  LET addr == AccessAddr(shadow, rec)
  IN  CASE Misaligned(addr) -> [alarms |-> AlignmentAlarms(rec), shadow |-> shadow]
        [] ~ Misaligned(addr) /\ rec.op = "sc" -> CheckSc(shadow, rec, seq)
        [] ~ Misaligned(addr) /\ rec.op = "lr" ->
             IF addr = None THEN [alarms |-> {"lr_no_read"}, shadow |-> shadow]
             ELSE CheckLr(shadow, rec, seq)
        [] ~ Misaligned(addr) /\ rec.op \in Amos ->
             IF addr = None THEN [alarms |-> {"amo_no_mem"}, shadow |-> shadow]
             ELSE CheckAmo(shadow, rec, seq)

\* A store that is no atomic breaks a reservation of its address.
Broken(shadow, rec) ==
  IF rec.write # None /\ rec.write.addr = shadow.resv.addr
  THEN [shadow EXCEPT !.resv = NoReservation] ELSE shadow

\* One record of run().
Replay(shadow, rec, seq) ==
  LET atomic  == IsAtomic(rec)
      checked == IF atomic THEN CheckAtomic(shadow, rec, seq)
                 ELSE [alarms |-> {}, shadow |-> Broken(shadow, rec)]
  IN  [alarms |-> checked.alarms,
       shadow |-> [checked.shadow EXCEPT
                     !.reg = IF rec.set # None THEN rec.set ELSE @,
                     !.mem = IF ~ atomic /\ Stored(rec)
                             THEN With(@, rec.write.addr, rec.write.value) ELSE @]]

(***************************************************************************)
(* LSQVerifier.  It keeps the value of the youngest store of each address; *)
(* a record's read comes before its write.  (Its check of the order in     *)
(* which stores drain needs commit cycles, which the trace here has not.)  *)
(***************************************************************************)
LsqAlarms(last, rec) ==
  IF rec.read = None THEN {}
  ELSE If("lsq_forward", Differ(Known(last, rec.read.addr), rec.read.value))

LsqAfter(last, rec) ==
  IF Stored(rec) THEN With(last, rec.write.addr, rec.write.value) ELSE last

=============================================================================
