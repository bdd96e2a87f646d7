----------------------------- MODULE VmVerifier -----------------------------
(***************************************************************************)
(* The Sv32 walker and the checker of AGENT_H/vm_verifier.py, as operators *)
(* on one access of a trace.                                               *)
(*                                                                         *)
(* Addresses are those of pages: a virtual page is the pair of its two     *)
(* table indexes, VPN[1] and VPN[0], a physical one the pair PPN[1] and    *)
(* PPN[0].  A page table entry is a record of its bits V, R, W, X, U, G    *)
(* and its physical page; the image of physical memory maps a table (a     *)
(* physical page) and an index to an entry, absent ones being zero.        *)
(***************************************************************************)
EXTENDS Naturals

CONSTANT None      \* an absent field of a record

ZeroPte == [v |-> FALSE, r |-> FALSE, w |-> FALSE, x |-> FALSE, u |-> FALSE,
            g |-> FALSE, ppn |-> <<0, 0>>]

ReadPte(image, table, i) ==
  IF <<table, i>> \in DOMAIN image THEN image[<<table, i>>] ELSE ZeroPte

Reserved(pte) == pte.w /\ ~ pte.r
Leaf(pte)     == pte.r \/ pte.x

\* Whether a leaf permits an access in a mode: the privilege, SUM and MXR.
Allows(pte, access, mode) ==
  /\ access = "fetch" => pte.x
  /\ access = "load"  => pte.r \/ (mode.mxr /\ pte.x)
  /\ access = "store" => pte.w
  /\ mode.priv = "U" => pte.u
  /\ mode.priv = "S" /\ pte.u => access # "fetch" /\ mode.sum

PageOf(pte, level, va) == IF level = 1 THEN <<pte.ppn[1], va[2]>> ELSE pte.ppn

PageFault == [ok |-> FALSE]

FinishLeaf(va, pte, level, access, mode) ==
  IF Allows(pte, access, mode) /\ (level = 1 => pte.ppn[2] = 0)
  THEN [ok |-> TRUE, pa |-> PageOf(pte, level, va), pte |-> pte, level |-> level]
  ELSE PageFault

\* The walk from the root: a leaf of the first level is a superpage.
Translate(image, root, va, access, mode) ==
  LET top == ReadPte(image, root, va[1])
      low == ReadPte(image, top.ppn, va[2])
  IN  CASE ~ top.v \/ Reserved(top)                -> PageFault
        [] top.v /\ ~ Reserved(top) /\ Leaf(top)   -> FinishLeaf(va, top, 1, access, mode)
        [] top.v /\ ~ Reserved(top) /\ ~ Leaf(top) ->
             IF low.v /\ ~ Reserved(low) /\ Leaf(low)
             THEN FinishLeaf(va, low, 0, access, mode) ELSE PageFault

\* The records the checkers look at: those with translation on, of S or U.
Gated(image, mode) == image = <<>> \/ mode.priv = "M"

\* The page-fault causes.
FaultCause(access) == CASE access = "fetch" -> 12 [] access = "load" -> 13 [] access = "store" -> 15

\* What the checker says of an access that was served a page, None if not
\* told, and whose record has this trap cause, None if none.
VmAlarms(t, access, served, trap) ==
  IF t.ok
  THEN {c \in {"vm_translation"} : served \notin {None, t.pa}} \cup
       {c \in {"vm_spurious_fault"} : trap \in {12, 13, 15}}
  ELSE {c \in {"vm_missing_fault"} : trap # FaultCause(access)}

=============================================================================
