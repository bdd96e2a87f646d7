-------------------------- MODULE FieldComparator --------------------------
(***************************************************************************)
(* _FieldComparator of AGENT_D/compare_commitlogs.py: which issues one     *)
(* pair of commits gives rise to, and in which order.                      *)
(*                                                                         *)
(* A commit is what Decode makes of a record: the fields of CommitEntry    *)
(* that are compared or shown, None for a field its log does not have.     *)
(* mem_errors is how many errors were found in its memory arrays.  An      *)
(* issue is a record of the mismatch type, the field and the side it is    *)
(* about ("both" for a comparison).  bytes is XLEN / 8.                    *)
(***************************************************************************)
EXTENDS CommitRecord

CONSTANT
  BitAnd(_, _)   \* the bits of a CSR value that a csr_masks entry keeps

Issue(type, field, side) == [type |-> type, field |-> field, side |-> side]

IssueIf(condition, type, field, side) ==
  IF condition THEN <<Issue(type, field, side)>> ELSE <<>>

\* Both logs have the value, and the values differ.
Differ(a, b) == a # None /\ b # None /\ a # b

-----------------------------------------------------------------------------
(* What is wrong with one commit on its own.                                *)

\* The range checks of from_dict: a field its log has, with a value it may not have.
Allowed ==
  [step |-> Nat, rd |-> 0..31, rs1 |-> 0..31, rs2 |-> 0..31,
   mem_op |-> {"load", "store", "amo"}, mem_size |-> {1, 2, 4, 8}, privilege |-> {"M", "S", "U"}]
Illegal(e) == {f \in DOMAIN Allowed : e[f] # None /\ e[f] \notin Allowed[f]}

SchemaIssues(e, side) ==
  [k \in 1..(e.mem_errors + Cardinality(Illegal(e))) |-> Issue("SCHEMAINVALID", "schema", side)]

\* CommitEntry.x0_violation
X0Violation(e) == e.rd = 0 /\ e.rd_val \notin {None, 0}

X0Issues(cfg, e, side) ==
  IssueIf(cfg.enforce_x0 /\ X0Violation(e), "X0WRITTEN", "rd_val", side)

Misaligned(e) ==
  /\ e.mem_addr # None /\ e.mem_size # None
  /\ e.mem_size > 1 /\ e.mem_addr % e.mem_size # 0

AlignIssues(cfg, e, side) ==
  IssueIf(cfg.check_alignment /\ Misaligned(e), "ALIGNMENTERROR", "mem_addr", side)

-----------------------------------------------------------------------------
(* The comparisons.                                                         *)

TrapIssues(cfg, r, i) ==
  LET Detail(f) == IssueIf(f \notin cfg.skip /\ Differ(r[f], i[f]), "TRAPCAUSEMISMATCH", f, "both")
  IN  IF "trap" \in cfg.skip THEN <<>>
      ELSE IF r.trap # i.trap THEN <<Issue("TRAPMISMATCH", "trap", "both")>>
      ELSE IF r.trap THEN Detail("trap_cause") \o Detail("trap_tval") \o Detail("trap_pc")
      ELSE <<>>

\* Nothing is compared unless the RTL log writes a register other than x0.
RegIssues(cfg, r, i) ==
  IF "rd_val" \in cfg.skip \/ r.rd \in {None, 0} THEN <<>>
  ELSE IF Differ(r.rd, i.rd) THEN <<Issue("REGMISMATCH", "rd", "both")>>
  ELSE IssueIf(Differ(r.rd_val, i.rd_val), "REGMISMATCH", "rd_val", "both")

\* Ignored CSRs dropped, values masked, and sorted by address (Python's sort
\* is stable: writes to one CSR stay in order) unless the order matters.
Norm(cfg, writes) ==
  LET seen   == {a \in DOMAIN writes : writes[a].csr \notin cfg.ignored_csrs}
      sorted == {p \in seen \X seen :
                   IF cfg.order_sensitive \/ writes[p[1]].csr = writes[p[2]].csr
                   THEN p[1] < p[2] ELSE writes[p[1]].csr < writes[p[2]].csr}
      Shown(w) == IF w.csr \in DOMAIN cfg.csr_masks
                  THEN [w EXCEPT !.val = BitAnd(@, cfg.csr_masks[w.csr])] ELSE w
  IN  Arranged([a \in DOMAIN writes |-> Shown(writes[a])], seen, sorted)

\* One issue for each pair of writes to different CSRs, or of different values.
CsrPairIssues(rl, il) ==
  LET Field(k) == IF rl[k].csr # il[k].csr THEN "csr_writes" ELSE "csr"
  IN  Filtered([k \in DOMAIN rl |-> Issue("CSRMISMATCH", Field(k), "both")],
               {k \in DOMAIN rl : rl[k] # il[k]})

\* Mutation: zip alone, which stops at the end of the shorter list.
CsrIssues_Zip(cfg, r, i) ==
  LET rl == Norm(cfg, r.csr_writes)
      il == Norm(cfg, i.csr_writes)
      n  == IF Len(rl) < Len(il) THEN Len(rl) ELSE Len(il)
  IN  IF "csr_writes" \in cfg.skip THEN <<>>
      ELSE CsrPairIssues(SubSeq(rl, 1, n), SubSeq(il, 1, n))

CsrIssues(cfg, r, i) ==
  LET rl == Norm(cfg, r.csr_writes)
      il == Norm(cfg, i.csr_writes)
  IN  IF "csr_writes" \in cfg.skip THEN <<>>
      ELSE IF Len(rl) # Len(il) THEN <<Issue("CSRMISMATCH", "csr_writes", "both")>>
      ELSE CsrPairIssues(rl, il)

\* The low bytes of v that both the word and the access sizes cover: v & size_mask.
Low(cfg, v, sizes) ==
  LET known == {s \in sizes \ {None} : s < cfg.bytes}
  IN  IF known = {} THEN v ELSE v % 256 ^ (CHOOSE s \in known : \A t \in known : s <= t)

MemSkipped(cfg) == {"mem_addr", "mem_val", "mem_op"} \subseteq cfg.skip

MemIssues(cfg, r, i) ==
  LET sizes == {r.mem_size, i.mem_size}
  IN  IF MemSkipped(cfg) \/ (r.mem_op = None /\ i.mem_op = None) THEN <<>>
      ELSE IF r.mem_op # i.mem_op THEN <<Issue("MEMMISMATCH", "mem_op", "both")>>
      ELSE IF Differ(r.mem_addr, i.mem_addr) THEN <<Issue("MEMMISMATCH", "mem_addr", "both")>>
      ELSE IssueIf(/\ Differ(r.mem_val, i.mem_val)
                   /\ Low(cfg, r.mem_val, sizes) # Low(cfg, i.mem_val, sizes),
                   "MEMMISMATCH", "mem_val", "both")
           \o AlignIssues(cfg, r, "RTL") \o AlignIssues(cfg, i, "ISS")

PrivilegeIssues(cfg, r, i) ==
  IssueIf("privilege" \notin cfg.skip /\ Differ(r.privilege, i.privilege),
          "PRIVILEGEMISMATCH", "privilege", "both")

OwnIssues(cfg, r, i) ==
  SchemaIssues(r, "RTL") \o SchemaIssues(i, "ISS")
  \o X0Issues(cfg, r, "RTL") \o X0Issues(cfg, i, "ISS")

OtherIssues(cfg, r, i) ==
  TrapIssues(cfg, r, i) \o RegIssues(cfg, r, i) \o CsrIssues(cfg, r, i)
  \o MemIssues(cfg, r, i) \o PrivilegeIssues(cfg, r, i)

PcDiffers(cfg, r, i)    == "pc" \notin cfg.skip /\ r.pc # i.pc
InstrDiffers(cfg, r, i) == "instr" \notin cfg.skip /\ r.instr # i.instr

\* Mutation: a difference of the instruction word does not end the comparison.
Compare_NoAbort(cfg, r, i) ==
  OwnIssues(cfg, r, i) \o
  IF PcDiffers(cfg, r, i) THEN <<Issue("PCMISMATCH", "pc", "both")>>
  ELSE IssueIf(InstrDiffers(cfg, r, i), "INSTRMISMATCH", "instr", "both") \o OtherIssues(cfg, r, i)

\* _FieldComparator.compare: a different PC or instruction word ends it.
Compare(cfg, r, i) ==
  OwnIssues(cfg, r, i) \o
  IF PcDiffers(cfg, r, i) THEN <<Issue("PCMISMATCH", "pc", "both")>>
  ELSE IF InstrDiffers(cfg, r, i) THEN <<Issue("INSTRMISMATCH", "instr", "both")>>
  ELSE OtherIssues(cfg, r, i)
=============================================================================
