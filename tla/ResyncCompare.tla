--------------------------- MODULE ResyncCompare ---------------------------
(***************************************************************************)
(* The comparator inside the orchestrator (CommitLogComparator of          *)
(* ava_patched.py): it walks the two commit logs in step, reports every    *)
(* difference of program counter or of register value, and after a         *)
(* difference of program counter looks ahead for a pair that agrees.       *)
(***************************************************************************)
EXTENDS Integers, Sequences, FiniteSetsExt

CONSTANTS
  MaxMismatches,    \* MAX_MISMATCHES: stop after this many
  ResyncWindow,     \* RESYNC_WINDOW: how far ahead to look
  LengthTolerance,  \* lengths may differ by one part in this many (20 in the code)
  NoReg             \* the register of a commit that writes none

ASSUME ComparatorAssumption ==
  /\ {MaxMismatches, ResyncWindow, LengthTolerance} \subseteq Nat \ {0}
  /\ NoReg \notin Nat

\* A commit is a record: its program counter pc, the first register it writes
\* rd, NoReg for none, and the value val.
X0 == 0

LongerOf(m, n) == IF m > n THEN m ELSE n
Apart(m, n)    == IF m > n THEN m - n ELSE n - m

LengthsDiverge(rtl, iss) ==
  Apart(Len(rtl), Len(iss)) * LengthTolerance > LongerOf(Len(rtl), Len(iss))

\* Only the register the RTL names is looked at, and of the ISS only the value.
RegisterDiffers(r, s) == r.rd \notin {NoReg, X0} /\ s.rd # NoReg /\ r.val # s.val

\* _resync: the nearest pair ahead with one program counter, the RTL log
\* advanced as little as possible, and one entry of each when there is none.
Resync(rtl, iss, i, j) ==
  LET Pairs == {d \in (1..ResyncWindow) \X (1..ResyncWindow) :
                  /\ i + d[1] <= Len(rtl) /\ j + d[2] <= Len(iss)
                  /\ rtl[i + d[1]].pc = iss[j + d[2]].pc}
      first == CHOOSE d \in Pairs :
                 \A e \in Pairs : d[1] < e[1] \/ (d[1] = e[1] /\ d[2] <= e[2])
  IN IF Pairs = {} THEN <<i + 1, j + 1>> ELSE <<i + first[1], j + first[2]>>

\* Mutation: a difference of program counter that can be bridged is not reported.
Bugs_Bridged(rtl, iss) ==
  LET Walk[i \in 1..Len(rtl) + 1, j \in 1..Len(iss) + 1] ==
        IF i > Len(rtl) \/ j > Len(iss) THEN {}
        ELSE IF rtl[i].pc # iss[j].pc
          THEN LET to == Resync(rtl, iss, i, j) IN Walk[to[1], to[2]]
        ELSE (IF RegisterDiffers(rtl[i], iss[j]) THEN {<<"register", i, j>>} ELSE {})
               \cup Walk[i + 1, j + 1]
  IN (IF LengthsDiverge(rtl, iss) THEN {<<"count", 0, 0>>} ELSE {}) \cup Walk[1, 1]

\* compare: the bugs reported, at most MaxMismatches of them.
Bugs(rtl, iss) ==
  LET short  == IF LengthsDiverge(rtl, iss) THEN {<<"count", 0, 0>>} ELSE {}
      Places == (1..Len(rtl) + 1) \X (1..Len(iss) + 1) \X (0..MaxMismatches)
      Walk[p \in Places] ==
        LET i == p[1]  j == p[2]  n == p[3] IN
        IF i > Len(rtl) \/ j > Len(iss) \/ n = MaxMismatches THEN {}
        ELSE IF rtl[i].pc # iss[j].pc
          THEN LET to == Resync(rtl, iss, i, j)
               IN {<<"pc", i, j>>} \cup Walk[<<to[1], to[2], n + 1>>]
        ELSE IF RegisterDiffers(rtl[i], iss[j])
          THEN {<<"register", i, j>>} \cup Walk[<<i + 1, j + 1, n + 1>>]
        ELSE Walk[<<i + 1, j + 1, n>>]
  IN short \cup Walk[<<1, 1, Cardinality(short)>>]

\* A replay of a log: the commits among the first n that write register x, and
\* what x holds after them.
Writes(log, x, n) == {i \in 1..n : log[i].rd = x}
After(log, x, n)  == log[Max(Writes(log, x, n))].val

\* What no report means, whatever the walk looks at: neither log is much longer,
\* and as far as both go they have the same program counters, and after each
\* commit every register that both have written, by the same commits, holds one
\* value. Three things are not said, although the docstring (ava_patched.py:562)
\* promises a comparison register by register: that the two write the same
\* registers (a write only one log has is skipped, and equal values in different
\* registers pass, ava_patched.py:641), that x0 is not written, and anything of
\* the registers of a commit after its first.
Agree(rtl, iss) ==
  /\ Apart(Len(rtl), Len(iss)) * LengthTolerance <= LongerOf(Len(rtl), Len(iss))
  /\ \A n \in 1..Len(rtl) : n <= Len(iss) =>
       /\ rtl[n].pc = iss[n].pc
       /\ \A x \in {rtl[i].rd : i \in 1..n} \ {NoReg, X0} :
            Writes(rtl, x, n) = Writes(iss, x, n) => After(rtl, x, n) = After(iss, x, n)
=============================================================================
