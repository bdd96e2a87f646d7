----------------------------- MODULE TlbVerifier -----------------------------
(***************************************************************************)
(* The TLB checker of AGENT_H/tlb_verifier.py: it keeps a golden TLB of    *)
(* the translations that were served while the page tables gave them, and  *)
(* lets an access have an older one as long as no sfence.vma covered it.   *)
(*                                                                         *)
(* The golden TLB is a dictionary by address space and virtual page, in    *)
(* the order its keys were first set: a sequence of entries here.          *)
(***************************************************************************)
EXTENDS VmVerifier, Sequences, SequencesExt

CONSTANT All       \* the operand x0 of sfence.vma

Own(golden, asid, va) ==
  SelectInSeq(golden, LAMBDA e : e.asid = asid /\ e.va = va)

GlobalEntry(golden, va) == SelectInSeq(golden, LAMBDA e : e.va = va /\ e.global)

\* Mutation: any address space's entry will do.
Explaining_AnySpace(golden, asid, va) == SelectInSeq(golden, LAMBDA e : e.va = va)

\* The entry an access may be explained by, 0 if there is none: its own, else
\* the first global one of the page.
Explaining(golden, asid, va) ==
  IF Own(golden, asid, va) # 0 THEN Own(golden, asid, va) ELSE GlobalEntry(golden, va)

Filled(golden, asid, va, t) ==
  LET entry == [asid |-> asid, va |-> va, pa |-> t.pa, global |-> t.pte.g,
                invalidated |-> FALSE]
      i     == Own(golden, asid, va)
  IN  IF i = 0 THEN Append(golden, entry) ELSE [golden EXCEPT ![i] = entry]

\* Mutation: the address space of a fence is not looked at.
Fenced_AnySpace(golden, va, asid, told) ==
  [i \in DOMAIN golden |->
     [golden[i] EXCEPT !.invalidated = @ \/ (told /\ va \in {All, golden[i].va})]]

\* sfence.vma; told says that the trace has the values of its operands.
Fenced(golden, va, asid, told) ==
  [i \in DOMAIN golden |->
     LET e == golden[i]
     IN  [e EXCEPT !.invalidated =
            \/ @
            \/ /\ told \/ (va = All /\ asid = All)
               /\ va \in {All, e.va}
               /\ asid = All \/ (e.asid = asid /\ ~ e.global)]]

\* What the checker makes of an access that the tables translate to t: only
\* the accesses that were served are looked at, and only if the walk is ok.
TlbAlarms(golden, asid, va, t, served) ==
  LET i == Explaining(golden, asid, va)
      cached == i # 0 /\ golden[i].pa = served
  IN  IF ~ t.ok \/ served \in {None, t.pa} THEN {}
      ELSE {c \in {"tlb_incoherent"} : ~ cached} \cup
           {c \in {"tlb_stale_after_sfence"} : cached /\ golden[i].invalidated}

AfterAccess(golden, asid, va, t, served) ==
  IF t.ok /\ served = t.pa THEN Filled(golden, asid, va, t) ELSE golden

=============================================================================
