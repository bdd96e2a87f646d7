---------------------------- MODULE CommitRecord ----------------------------
(***************************************************************************)
(* CommitEntry.from_dict of AGENT_D/compare_commitlogs.py: what a line of  *)
(* a commit log, parsed as JSON, means to the comparator.                  *)
(*                                                                         *)
(* A record has the fields of two formats: the canonical one of AGENT_A's  *)
(* schema (seq, regs, csrs, mem_writes, mem_reads, a trap object, priv)    *)
(* and the flat legacy one.  None is a field the line does not have; an    *)
(* absent array is empty.  The key "trap" is split into trap, a Boolean,   *)
(* and trap_object.  A hexadecimal number is a record of low, the bits of  *)
(* the word, and high, the ones above.  Lines on which from_dict raises    *)
(* (no pc, not hexadecimal) are CommitLogCompare's Bad lines.              *)
(***************************************************************************)
EXTENDS Integers, Sequences, Ranking

CONSTANTS
  None,       \* an absent field
  RegIndex,   \* _REG_NAME_TO_IDX: the number of each register name
  CsrAddress  \* _CSR_NAME_TO_ADDR, and the numerals: the address of each key

\* An absent field is like no value a record can have.  Address 0, which a CSR
\* with an unknown name gets, is the address of no CSR.
ASSUME NoneIsNoValue == None \notin Nat \cup {"load", "store"}
ASSUME TablesAssumption ==
  /\ \A name \in DOMAIN RegIndex : RegIndex[name] \in Nat
  /\ \A key \in DOMAIN CsrAddress : CsrAddress[key] \in Nat \ {0}

Opt(S) == S \cup {None}

FirstOf(a, b) == IF a # None THEN a ELSE b

\* _parse_hex(...) & mask
Word(v) == IF v = None THEN None ELSE v.low

\* _regs_dict_to_rd: the first register whose name is known.
RegWrite(d) ==
  LET known == Filtered(d.regs, {k \in DOMAIN d.regs : d.regs[k].name \in DOMAIN RegIndex})
  IN  IF d.regs = None THEN [rd |-> d.rd, val |-> Word(d.rd_val)]
      ELSE IF known = <<>> THEN [rd |-> None, val |-> None]
      ELSE [rd |-> RegIndex[known[1].name], val |-> Word(known[1].val)]

\* A name that is neither in the table nor a numeral becomes address 0.
Address(key) == IF key \in DOMAIN CsrAddress THEN CsrAddress[key] ELSE 0

\* _csrs_dict_to_list, or the legacy list.
CsrList(d) ==
  IF d.csrs # None
  THEN [k \in DOMAIN d.csrs |-> [csr |-> Address(d.csrs[k].name), val |-> Word(d.csrs[k].val)]]
  ELSE [k \in DOMAIN d.csr_writes |->
          [csr |-> d.csr_writes[k].csr, val |-> Word(d.csr_writes[k].val)]]

NoAccess(errors) ==
  [op |-> None, addr |-> None, val |-> None, size |-> None, errors |-> errors]

\* The first entry of an array; None for one that is not an object.
FirstEntry(entries, op) ==
  LET e     == entries[1]
      extra == IF Len(entries) > 1 THEN 1 ELSE 0
  IN  IF e = None THEN NoAccess(extra + 1)
      ELSE [op |-> op, addr |-> Word(e.addr), val |-> Word(e.data), size |-> e.size,
            errors |-> extra]

\* Mutation: the canonical read array is not looked at.
MemFromCanonical_WritesOnly(d) ==
  IF d.mem_writes # <<>> THEN FirstEntry(d.mem_writes, "store") ELSE NoAccess(0)

\* _mem_from_canonical
MemFromCanonical(d) ==
  IF d.mem_writes # <<>> THEN FirstEntry(d.mem_writes, "store")
  ELSE IF d.mem_reads # <<>> THEN FirstEntry(d.mem_reads, "load")
  ELSE NoAccess(0)

\* _trap_from_canonical
TrapField(d, field) ==
  IF d.trap_object = None THEN None ELSE Word(d.trap_object[field])

Decode(d) ==
  LET reg  == RegWrite(d)
      mem  == MemFromCanonical(d)
      flat == mem.op = None
  IN  [step |-> FirstOf(d.seq, d.step), pc |-> Word(d.pc), instr |-> Word(d.instr),
       rd |-> reg.rd, rd_val |-> reg.val, rs1 |-> d.rs1, rs2 |-> d.rs2,
       mem_op     |-> FirstOf(mem.op, d.mem_op),
       mem_addr   |-> IF flat THEN Word(d.mem_addr) ELSE mem.addr,
       mem_val    |-> IF flat THEN Word(d.mem_val) ELSE mem.val,
       mem_size   |-> IF flat THEN d.mem_size ELSE mem.size,
       mem_errors |-> mem.errors,
       csr_writes |-> CsrList(d),
       trap       |-> d.trap_object # None \/ d.trap,
       trap_cause |-> FirstOf(TrapField(d, "cause"), Word(d.trap_cause)),
       trap_tval  |-> FirstOf(TrapField(d, "tval"), Word(d.trap_tval)),
       trap_pc    |-> FirstOf(TrapField(d, "epc"), Word(d.trap_pc)),
       privilege  |-> FirstOf(d.privilege, d.priv),
       disasm     |-> d.disasm]

-----------------------------------------------------------------------------
(* What lines hold.  A producer writes one of the formats, never both.      *)

Numeral   == [low : Nat, high : Nat]
KeyValues == Seq([name : STRING, val : Numeral])
Entries   == Seq(Opt([addr : Opt(Numeral), data : Opt(Numeral), size : Opt(Int)]))

InLegacyFormat(d) ==
  /\ d.regs = None /\ d.csrs = None /\ d.mem_writes = <<>> /\ d.mem_reads = <<>>
  /\ d.seq = None /\ d.trap_object = None /\ d.priv = None
InCanonicalFormat(d) ==
  /\ d.rd = None /\ d.rd_val = None /\ d.csr_writes = <<>>
  /\ d.mem_op = None /\ d.mem_addr = None /\ d.mem_val = None /\ d.mem_size = None
  /\ ~d.trap /\ d.trap_cause = None /\ d.trap_tval = None /\ d.trap_pc = None
  /\ d.privilege = None

WellFormed(d) ==
  /\ InLegacyFormat(d) \/ InCanonicalFormat(d)
  /\ d.regs \in Opt(KeyValues) /\ d.csrs \in Opt(KeyValues)
  /\ d.csr_writes \in Seq([csr : Nat \ {0}, val : Numeral])
  /\ d.mem_writes \in Entries /\ d.mem_reads \in Entries
  /\ d.mem_val \in Opt(Numeral) /\ d.trap \in BOOLEAN
=============================================================================
