-------------------------- MODULE MCPairComparison --------------------------
(* Pairs of records that differ in every field, in either format, and logs  *)
(* longer than the window, for PairComparison.                              *)
EXTENDS PairComparison, Bitwise, TLC

Base ==
  [step |-> 1, pc |-> 0, instr |-> 51, trap |-> FALSE, rd |-> None, rd_val |-> None,
   mem_op |-> None, mem_addr |-> None, mem_val |-> None, mem_size |-> None,
   csr_writes |-> <<>>, trap_cause |-> None, trap_tval |-> None, trap_pc |-> None,
   privilege |-> None, disasm |-> None, rs1 |-> None, rs2 |-> None]

RegisterCommits == {[Base EXCEPT !.rd = d, !.rd_val = v] : d \in Opt({0, 1, 2}), v \in Opt({0, 1})}

\* 257 and 1 agree in their lowest byte only.
AccessCommits ==
  {[Base EXCEPT !.mem_op = op, !.mem_addr = a, !.mem_val = v, !.mem_size = s] :
     op \in Opt({"load", "swap"}), a \in Opt({1, 2}), v \in Opt({1, 257}), s \in Opt({0, 1, 2})}

Writes == {[csr |-> c, val |-> v] : c \in {768, 833}, v \in 0..2}
CsrCommits ==
  {[Base EXCEPT !.csr_writes = ws] : ws \in UNION {[1..n -> Writes] : n \in 0..2}}

TrapCommits ==
  {[Base EXCEPT !.trap = t, !.trap_cause = c, !.trap_tval = v, !.trap_pc = p] :
     t \in BOOLEAN, c \in Opt({1, 2}), v \in Opt({1}), p \in Opt({0, 4})}

OtherCommits ==
  {[Base EXCEPT !.privilege = p, !.rs1 = x, !.step = k] :
     p \in Opt({"M", "H"}), x \in Opt({31, 32}), k \in {-1, 1}}

\* Commits that differ in several groups of fields at once.
MixedCommits ==
  {[Base EXCEPT !.pc = p, !.instr = w, !.rd = 1, !.rd_val = v, !.mem_op = op, !.trap = t] :
     p \in {0, 4}, w \in {51, 19}, v \in {0, 1}, op \in {None, "load"}, t \in BOOLEAN}

-----------------------------------------------------------------------------
(* The two formats.                                                         *)

\* v as a hexadecimal number, sign-extended past the word or not.
Hex(v, high) == IF v = None THEN None ELSE [low |-> v, high |-> high]

Empty ==
  [f \in {"seq", "step", "pc", "instr", "regs", "rd", "rd_val", "rs1", "rs2", "csrs", "mem_op",
          "mem_addr", "mem_val", "mem_size", "trap_object", "trap_cause", "trap_tval", "trap_pc",
          "privilege", "priv", "disasm"} |-> None]
  @@ [f \in {"csr_writes", "mem_writes", "mem_reads"} |-> <<>>] @@ "trap" :> FALSE

\* As CommitEntry.to_dict writes a commit, or as a log with longer words does.
Legacy(e, high) ==
  [Empty EXCEPT
     !.step = e.step, !.pc = Hex(e.pc, 0), !.instr = Hex(e.instr, 0), !.trap = e.trap,
     !.rd = e.rd, !.rd_val = Hex(e.rd_val, high), !.rs1 = e.rs1, !.rs2 = e.rs2,
     !.mem_op = e.mem_op, !.mem_addr = Hex(e.mem_addr, high), !.mem_val = Hex(e.mem_val, high),
     !.mem_size = e.mem_size,
     !.csr_writes = [k \in DOMAIN e.csr_writes |->
                       [csr |-> e.csr_writes[k].csr, val |-> Hex(e.csr_writes[k].val, high)]],
     !.trap_cause = Hex(e.trap_cause, high), !.trap_tval = Hex(e.trap_tval, high),
     !.trap_pc = Hex(e.trap_pc, high), !.privilege = e.privilege]

Machine == [Base EXCEPT !.privilege = "M"]
Canon   == [Empty EXCEPT !.seq = 1, !.pc = Hex(0, 0), !.instr = Hex(51, 0), !.regs = <<>>,
                         !.csrs = <<>>, !.priv = "M"]

\* Two names of a register, and a name and a numeral of a CSR; other keys are
\* not in the tables.
MCRegIndex   == "x1" :> 1 @@ "ra" :> 1 @@ "x2" :> 2
MCCsrAddress == "mstatus" :> 768 @@ "0x300" :> 768 @@ "mepc" :> 833
Key(n, v, h) == [name |-> n, val |-> Hex(v, h)]

RegisterRecords ==
  {[Canon EXCEPT !.regs = rs] :
     rs \in {<<>>, <<Key("f1", 0, 0), Key("x1", 1, 0)>>}
              \cup {<<Key(n, v, h)>> : n \in {"x1", "ra", "x2", "f1"}, v, h \in 0..1}}
  \cup {Legacy([Machine EXCEPT !.rd = d, !.rd_val = v], h) : d \in {1, 2}, v, h \in 0..1}
  \cup {Legacy(Machine, 0)}

CsrRecords ==
  {[Canon EXCEPT !.csrs = cs] :
     cs \in {<<>>}
       \cup {<<Key(n, v, h)>> : n \in {"mstatus", "0x300", "mepc", "mscratch"}, v \in 1..2, h \in 0..1}
       \cup {<<Key(m, v, 0), Key(n, w, 0)>> :
               m \in {"mepc", "mscratch"}, n \in {"mstatus", "mcycle"}, v, w \in 1..2}}
  \cup {Legacy([Machine EXCEPT !.csr_writes = <<w>>], 0) : w \in Writes}

\* Stores and loads, unaligned ones in two entries, atomic operations, and
\* arrays that hold no object.
Entry(a, v, s) == [addr |-> Hex(a, 0), data |-> Hex(v, 0), size |-> s]
AccessEntries == {Entry(a, v, s) : a \in {4, 8}, v \in {1, 257}, s \in {1, 4}}
AccessRecords ==
  {[Canon EXCEPT !.mem_writes = ws, !.mem_reads = rs] :
     ws \in {<<>>, <<None>>} \cup {<<e>> : e \in AccessEntries}
              \cup {<<Entry(4, 1, 4), Entry(8, v, 4)>> : v \in {1, 257}},
     rs \in {<<>>, <<None, Entry(4, 1, 4)>>} \cup {<<Entry(4, v, 4)>> : v \in {1, 257}}}
  \cup {Legacy([Machine EXCEPT !.mem_op = op, !.mem_addr = a, !.mem_val = v, !.mem_size = 4], h) :
          op \in {"load", "store", "amo"}, a \in {4, 8}, v \in {1, 257}, h \in 0..1}

TrapRecords ==
  {[Canon EXCEPT !.trap_object = t] :
     t \in {None} \cup {[cause |-> Hex(c, h), tval |-> Hex(v, 0), epc |-> Hex(0, 0)] :
                          c \in {1, 2}, h \in 0..1, v \in Opt({1})}}
  \cup {Legacy([Machine EXCEPT !.trap = t, !.trap_cause = c, !.trap_tval = v, !.trap_pc = p], 0) :
          t \in BOOLEAN, c \in Opt({1, 2}), v \in Opt({1}), p \in Opt({0})}

-----------------------------------------------------------------------------
(* The calls.                                                               *)

Default ==
  [bytes |-> 4, skip |-> {}, csr_masks |-> <<>>, ignored_csrs |-> {}, order_sensitive |-> FALSE,
   enforce_x0 |-> TRUE, check_alignment |-> TRUE, window |-> 1, max |-> 0]

Pairs(cs, S) == [cfgs |-> cs, rtl |-> {<<d>> : d \in S}, iss |-> {<<d>> : d \in S}]
With(cs, S)  == Pairs(cs, {Legacy(e, 0) : e \in S})

PairInputs ==
  {With({Default, [Default EXCEPT !.enforce_x0 = FALSE, !.skip = {"rd_val"}]}, RegisterCommits),
   With({Default, [Default EXCEPT !.check_alignment = FALSE]}, AccessCommits),
   With({Default, [Default EXCEPT !.order_sensitive = TRUE],
             [Default EXCEPT !.csr_masks = 768 :> 1],
             [Default EXCEPT !.ignored_csrs = {833}, !.skip = {"mem_op", "mem_addr", "mem_val"}]},
            CsrCommits),
   With({Default, [Default EXCEPT !.skip = {"trap_cause"}], [Default EXCEPT !.skip = {"trap"}]},
            TrapCommits),
   With({Default, [Default EXCEPT !.skip = {"privilege"}], [Default EXCEPT !.max = 1]}, OtherCommits),
   With({Default, [Default EXCEPT !.skip = {"pc"}], [Default EXCEPT !.skip = {"pc", "instr"}],
             [Default EXCEPT !.max = 1], [Default EXCEPT !.max = 2]}, MixedCommits)}
  \cup {Pairs({Default}, S) : S \in {RegisterRecords, CsrRecords, AccessRecords, TrapRecords}}

\* Logs of four commits, for windows that hold none, two and all of them.
Step(k, d, t) == Legacy([Base EXCEPT !.step = k, !.pc = 4 * k, !.rd = d, !.trap = t], 0)

Runs ==
  [cfgs |-> {[Default EXCEPT !.window = w] : w \in {0, 2, 4}},
   rtl  |-> {[k \in 1..4 |-> Step(k, rds[k], traps[k])] :
               rds \in [1..4 -> Opt({1, 2})], traps \in [1..4 -> BOOLEAN]},
   iss  |-> {[k \in 1..4 |-> Step(k, 1, FALSE)]}]

MCInputs  == PairInputs \cup {Runs}
FewInputs == {Pairs({Default}, RegisterRecords)}
MCRecords  == UNION {UNION {{l[k] : k \in DOMAIN l} : l \in i.rtl \cup i.iss} : i \in MCInputs}
=============================================================================
