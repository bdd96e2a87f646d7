------------------------- MODULE CoherenceVerifier -------------------------
(***************************************************************************)
(* The cache-coherence checker of AGENT_H/coherence_verifier.py: one pass  *)
(* over the events of all cores in the order of their cycle stamps.        *)
(*                                                                         *)
(* An event has a core, an op ("load" or "store"), an addr, and the        *)
(* optional value, ver (a number for the write, which tells equal values   *)
(* apart), cycle and state (MESI, of the core's line after the operation). *)
(* A version never seen is Unseen, a number below every version.           *)
(***************************************************************************)
EXTENDS Integers, Sequences, FiniteSets, SequencesExt

CONSTANT None      \* an absent field

Unseen    == -1
Exclusive == {"M", "E"}
Valid     == {"M", "E", "S"}

\* Which of two events is looked at first: by the stamps if all have one.
Earlier(evs, i, j) ==
  IF (\A e \in DOMAIN evs : evs[e].cycle # None) /\ evs[i].cycle # evs[j].cycle
  THEN evs[i].cycle < evs[j].cycle ELSE i < j

\* The positions of the events in the order they are looked at.
Visibility(evs) ==
  [n \in DOMAIN evs |->
     CHOOSE i \in DOMAIN evs : Cardinality({j \in DOMAIN evs : Earlier(evs, j, i)}) = n - 1]

(***************************************************************************)
(* What run() keeps: the writes so far of each address, in order; the      *)
(* newest version each core has seen of an address; the last state each    *)
(* core reported of a line; the cores met; the alarms, each a position     *)
(* and a check.                                                            *)
(***************************************************************************)
Fresh(cores, addrs) ==
  [writes |-> [a \in addrs |-> <<>>],
   seen   |-> [l \in cores \X addrs |-> Unseen],
   state  |-> [l \in cores \X addrs |-> "I"],
   cores  |-> {},
   alarms |-> {}]

Greater(m, n) == IF m < n THEN n ELSE m

\* Mutation: a core has not seen its own store.
CheckStore_Unseen(k, e) ==
  [k EXCEPT !.writes[e.addr] =
     Append(@, [ver |-> IF e.ver # None THEN e.ver ELSE Len(@), value |-> e.value])]

CheckStore(k, e) ==
  LET ver == IF e.ver # None THEN e.ver ELSE Len(k.writes[e.addr])
  IN  [k EXCEPT !.writes[e.addr] = Append(@, [ver |-> ver, value |-> e.value]),
                !.seen[<<e.core, e.addr>>] = Greater(@, ver)]

\* The version a load has read: Unseen is the initial value, None none.
Matched(k, e) ==
  LET ws   == k.writes[e.addr]
      same == {n \in DOMAIN ws : ws[n].value = e.value /\ e.value # None}
  IN  CASE e.ver # None ->
             IF \E n \in DOMAIN ws : ws[n].ver = e.ver THEN e.ver ELSE None
        [] e.ver = None /\ same # {} ->
             ws[CHOOSE n \in same : \A m \in same : m <= n].ver
        [] e.ver = None /\ same = {} ->
             IF ws = <<>> /\ e.value \in {0, None} THEN Unseen ELSE None

CheckLoad(k, e, i) ==
  LET ver  == Matched(k, e)
      prev == k.seen[<<e.core, e.addr>>]
  IN  IF ver = None
      THEN IF e.value = None THEN k
           ELSE [k EXCEPT !.alarms = @ \cup {<<i, "read_from_valid">>}]
      ELSE [k EXCEPT !.seen[<<e.core, e.addr>>] = Greater(@, ver),
                     !.alarms = @ \cup (IF ver < prev
                                        THEN {<<i, "coherence_read_monotonic">>} ELSE {})]

\* Mutation: two readers are one too many.
CheckSwmr_Readers(k, e, i) ==
  LET now   == [k EXCEPT !.state[<<e.core, e.addr>>] = e.state]
      valid == {c \in k.cores : now.state[<<c, e.addr>>] \in Valid}
  IN  [now EXCEPT !.alarms = @ \cup (IF Cardinality(valid) > 1 THEN {<<i, "swmr">>} ELSE {})]

\* One writer or any readers, as the states last reported have it.
CheckSwmr(k, e, i) ==
  LET now    == [k EXCEPT !.state[<<e.core, e.addr>>] = e.state]
      owners == {c \in k.cores : now.state[<<c, e.addr>>] \in Exclusive}
      valid  == {c \in k.cores : now.state[<<c, e.addr>>] \in Valid}
      broken == Cardinality(owners) > 1 \/ (owners # {} /\ Cardinality(valid) > 1)
  IN  [now EXCEPT !.alarms = @ \cup (IF broken THEN {<<i, "swmr">>} ELSE {})]

CheckEvent(k, e, i) ==
  LET met  == [k EXCEPT !.cores = @ \cup {e.core}]
      seen == IF e.op = "store" THEN CheckStore(met, e) ELSE CheckLoad(met, e, i)
  IN  IF e.state = None THEN seen ELSE CheckSwmr(seen, e, i)

\* run(): the alarms, all of them HIGH.
Alarms(evs, cores, addrs) ==
  FoldLeft(LAMBDA k, i : CheckEvent(k, evs[i], i),
           Fresh(cores, addrs), Visibility(evs)).alarms

=============================================================================
