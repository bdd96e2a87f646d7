--------------------------- MODULE PairComparison ---------------------------
(***************************************************************************)
(* The body of the comparison loop of AGENT_D/compare_commitlogs.py at the *)
(* level of fields, below CommitLogCompare: each pair of commits is        *)
(* pushed to the context window, compared, and its issues are recorded up  *)
(* to the limit.  The readers have decoded the records of the two files.   *)
(*                                                                         *)
(* The window (_DeltaWindow) keeps the last cfg.window RTL commits as      *)
(* differences.  In a difference, None means that the field is unchanged;  *)
(* it is also what a field that became empty leaves behind.                *)
(***************************************************************************)
EXTENDS FieldComparator

CONSTANTS
  Records, \* the records a log may hold
  Inputs   \* the calls, in families: configurations cfgs, files rtl and files iss

\* The commits they stand for.
Commits == {Decode(d) : d \in Records}

ASSUME RecordsAssumption == \A d \in Records : WellFormed(d)
ASSUME InputsAssumption ==
  \A input \in Inputs :
    /\ \A c \in input.cfgs : c.window \in Nat /\ c.max \in Nat /\ c.bytes \in {4, 8}
    /\ input.rtl \cup input.iss \subseteq Seq(Records)
ASSUME NoneAssumption == None \notin Commits

\* No configuration masks or ignores address 0, and with it every CSR whose
\* name is not known.
ASSUME UnknownCsrsCompared ==
  \A input \in Inputs : \A c \in input.cfgs : 0 \notin c.ignored_csrs \cup DOMAIN c.csr_masks

VARIABLES
  cfg, raw,   \* the call
  log,        \* the commits decoded from the two files
  pos,        \* pairs compared so far
  ring, prev, \* _DeltaWindow._ring and _prev
  reports     \* the mismatches recorded: the line and the issue

vars == <<cfg, raw, log, pos, ring, prev, reports>>

-----------------------------------------------------------------------------
(* The context window.                                                      *)

ContextFields ==
  {"rd", "rd_val", "mem_op", "mem_addr", "mem_val", "trap", "disasm", "csr_writes"}

Identity(e) == <<e.step, e.pc, e.instr>>

Delta(e) ==
  [id |-> Identity(e),
   set |-> [f \in ContextFields |-> IF prev = None \/ e[f] # prev[f] THEN e[f] ELSE None]]

\* deque(maxlen=window): the oldest difference falls out of a full ring.
Pushed(e) ==
  LET all == Append(ring, Delta(e))
  IN  IF Len(all) > cfg.window THEN Tail(all) ELSE all

\* Mutation: differences against the first commit instead of the last.
Previous_First(e) == IF prev = None THEN e ELSE prev
Previous(e) == e

Push(e) ==
  IF cfg.window = 0 THEN UNCHANGED <<ring, prev>>
  ELSE ring' = Pushed(e) /\ prev' = Previous(e)

\* The state from which snapshot() replays the differences.
Zero == [f \in ContextFields |->
           CASE f = "trap" -> FALSE [] f = "csr_writes" -> <<>> [] OTHER -> None]

\* Row k of snapshot(): the last difference of each field up to there.
Row(k) ==
  [id |-> ring[k].id,
   shown |-> [f \in ContextFields |->
     LET changes == {j \in 1..k : ring[j].set[f] # None}
     IN  IF changes = {} THEN Zero[f]
         ELSE ring[CHOOSE j \in changes : \A m \in changes : m <= j].set[f]]]

Snapshot == [k \in DOMAIN ring |-> Row(k)]

-----------------------------------------------------------------------------
(* The loop.                                                                *)

Limit(rs) == cfg.max > 0 /\ Len(rs) >= cfg.max

\* The issues of line k recorded one by one until the limit.
Recorded(k, issues) ==
  LET all == reports \o [j \in DOMAIN issues |-> [line |-> k, issue |-> issues[j]]]
  IN  IF Limit(all) THEN SubSeq(all, 1, cfg.max) ELSE all

ComparePair ==
  /\ pos < Len(log.rtl) /\ ~Limit(reports)
  /\ LET r == log.rtl[pos + 1]
         i == log.iss[pos + 1]
     IN  /\ Push(r)
         /\ reports' = Recorded(pos + 1, Compare(cfg, r, i))
  /\ pos' = pos + 1
  /\ UNCHANGED <<cfg, raw, log>>

Decoded(lines) == [k \in DOMAIN lines |-> Decode(lines[k])]

Init ==
  /\ \E input \in Inputs : /\ cfg \in input.cfgs
                           /\ raw \in [rtl : input.rtl, iss : input.iss]
  /\ log = [rtl |-> Decoded(raw.rtl), iss |-> Decoded(raw.iss)]
  /\ Len(log.rtl) = Len(log.iss)
  /\ pos = 0
  /\ ring = <<>> /\ prev = None
  /\ reports = <<>>

Next == ComparePair
Spec == Init /\ [][Next]_vars

-----------------------------------------------------------------------------
TypeOK ==
  /\ log \in [rtl : Seq(Commits), iss : Seq(Commits)]
  /\ pos \in 0..Len(log.rtl)
  /\ Len(ring) <= cfg.window
  /\ \A k \in DOMAIN ring : DOMAIN ring[k].set = ContextFields
  /\ prev \in Commits \cup {None}

\* The commits in the window are the last ones compared: row k of it is line
\* LineOf(k) of the RTL log.
LineOf(k) == pos - Len(ring) + k

\* The last value the RTL log has for a field up to a line, and its line.
HasValue(f, n) == {m \in 1..n : log.rtl[m][f] # None}
Latest(f, n)   == log.rtl[CHOOSE m \in HasValue(f, n) : \A x \in HasValue(f, n) : x <= m][f]

(* The context attached to a mismatch ends with the commit it is about, and *)
(* never shows a value of a later commit, or one that was overwritten: what *)
(* a row shows of a field is the last value the log gave it, or the blank   *)
(* that replay starts from.  The differences are taken against a commit     *)
(* that may have left the ring, and are replayed from those that are in it. *)
ContextNeverStale ==
  /\ Len(ring) = IF pos < cfg.window THEN pos ELSE cfg.window
  /\ \A k \in DOMAIN ring :
       /\ Snapshot[k].id = Identity(log.rtl[LineOf(k)])
       /\ \A f \in ContextFields :
            \/ Snapshot[k].shown[f] = Zero[f]
            \/ HasValue(f, LineOf(k)) # {} /\ Snapshot[k].shown[f] = Latest(f, LineOf(k))

Skipped(f) == f \in cfg.skip

-----------------------------------------------------------------------------
(* What a record says, read off either format without choosing.  No        *)
(* producer mixes the two formats in one record.                           *)

RegWrites(d) ==
  IF d.regs = None THEN IF d.rd = None THEN <<>> ELSE <<[reg |-> d.rd, val |-> Word(d.rd_val)]>>
  ELSE LET known == Filtered(d.regs, {k \in DOMAIN d.regs : d.regs[k].name \in DOMAIN RegIndex})
       IN  [k \in DOMAIN known |-> [reg |-> RegIndex[known[k].name], val |-> Word(known[k].val)]]

\* None for a CSR whose name the comparator does not know: such CSRs are not
\* told apart.
CsrWrites(d) ==
  IF d.csrs = None THEN CsrList(d)
  ELSE [k \in DOMAIN d.csrs |->
          [csr |-> IF d.csrs[k].name \in DOMAIN CsrAddress THEN Address(d.csrs[k].name) ELSE None,
           val |-> Word(d.csrs[k].val)]]

Access(op, addr, val, size) == [op |-> op, addr |-> Word(addr), val |-> Word(val), size |-> size]
\* An entry that is not an object says nothing.
Listed(entries, op) ==
  [k \in DOMAIN entries |->
     IF entries[k] = None THEN Access(None, None, None, None)
     ELSE Access(op, entries[k].addr, entries[k].data, entries[k].size)]
Accesses(d) ==
  Listed(d.mem_writes, "store") \o Listed(d.mem_reads, "load")
  \o IF d.mem_op = None THEN <<>> ELSE <<Access(d.mem_op, d.mem_addr, d.mem_val, d.mem_size)>>

TrapGiven(d) ==
  [taken  |-> d.trap \/ d.trap_object # None,
   detail |-> {<<f, FirstOf(TrapField(d, f[1]), Word(d[f[2]]))>> :
                 f \in {<<"cause", "trap_cause">>, <<"tval", "trap_tval">>, <<"epc", "trap_pc">>}}]

Stated(d) ==
  [pc |-> Word(d.pc), instr |-> Word(d.instr), regs |-> RegWrites(d), csrs |-> CsrWrites(d),
   accesses |-> Accesses(d), trap |-> TrapGiven(d), privilege |-> {d.privilege, d.priv} \ {None}]

(* The two formats are read alike: records that say the same, whichever     *)
(* format each of them is in, give no mismatch.                             *)
FormatsAgree ==
  \A n \in DOMAIN reports :
    reports[n].issue.side = "both" =>
      Stated(raw.rtl[reports[n].line]) # Stated(raw.iss[reports[n].line])

\* The writes to one CSR, in order; and the CSRs written.
CsrHistory(writes, c) == Filtered(writes, {k \in DOMAIN writes : writes[k].csr = c})
Csrs(writes) == {writes[k].csr : k \in DOMAIN writes} \ cfg.ignored_csrs

(* No false alarms: a mismatch of a field names two values that are there   *)
(* and differ, on a line whose PC and instruction word agree unless they    *)
(* are the mismatch or are skipped; and a CSR mismatch is a CSR, not        *)
(* ignored, that the two commits write differently.                         *)
ReportsAreReal ==
  \A n \in DOMAIN reports :
    LET r == log.rtl[reports[n].line]
        i == log.iss[reports[n].line]
        f == reports[n].issue.field
    IN  reports[n].issue.side = "both" =>
          /\ f = "pc" \/ Skipped("pc") \/ r.pc = i.pc
          /\ f \in {"pc", "instr"} \/ Skipped("instr") \/ r.instr = i.instr
          /\ f \in {"csr", "csr_writes"} \/ r[f] # i[f]
          /\ f \in {"csr", "csr_writes"} =>
               \/ cfg.order_sensitive
               \/ \E c \in Csrs(r.csr_writes) \cup Csrs(i.csr_writes) :
                    CsrHistory(r.csr_writes, c) # CsrHistory(i.csr_writes, c)

-----------------------------------------------------------------------------
\* A line the comparison has finished with, without a word about it.
Clean(k) ==
  /\ k \in 1..pos /\ ~Limit(reports)
  /\ \A n \in DOMAIN reports : reports[n].line # k

\* Byte b of a value.
Byte(v, b) == (v \div 256 ^ b) % 256

SameCsrWrite(w, v) ==
  IF w.csr \in DOMAIN cfg.csr_masks
  THEN BitAnd(w.val, cfg.csr_masks[w.csr]) = BitAnd(v.val, cfg.csr_masks[w.csr])
  ELSE w.val = v.val

\* As far as both accesses reach, which is one byte at least.
SameAccess(a, b) ==
  LET reach == {n \in 0..cfg.bytes-1 : n = 0 \/ \A s \in {a.size, b.size} \ {None} : n < s}
  IN  /\ a.op = b.op /\ ~Differ(a.addr, b.addr)
      /\ a.val # None /\ b.val # None => \A n \in reach : Byte(a.val, n) = Byte(b.val, n)

SameReg(w, v) == w.reg = v.reg /\ ~Differ(w.val, v.val)

(* An atomic operation logged with its write and its read: only the write   *)
(* is compared.                                                             *)
WriteAndRead(d) == d.mem_writes # <<>> /\ d.mem_reads # <<>>

(* No misses: on a line without a mismatch the two records say the same.    *)
(* They took a trap both or neither, wrote every compared CSR the same      *)
(* values in the same order, made the same memory accesses, all of them,    *)
(* and wrote the same register if both wrote one.  Decoding, the early      *)
(* returns, the sorting and the masks must not hide a difference.           *)
CleanPairsAgree ==
  \A k \in 1..pos : Clean(k) =>
    LET r == Stated(raw.rtl[k])
        i == Stated(raw.iss[k])
    IN  /\ Skipped("pc") \/ r.pc = i.pc
        /\ Skipped("instr") \/ r.instr = i.instr
        /\ Skipped("trap") \/ r.trap.taken = i.trap.taken
        /\ Skipped("privilege") \/ r.privilege = {} \/ i.privilege = {} \/ r.privilege = i.privilege
        /\ \/ Skipped("rd_val") \/ r.regs = <<>> \/ i.regs = <<>>
           \/ r.regs[1].reg = 0 \/ SameReg(r.regs[1], i.regs[1])
        /\ Skipped("csr_writes") \/ \A c \in Csrs(r.csrs) \cup Csrs(i.csrs) :
             LET rw == CsrHistory(r.csrs, c)
                 iw == CsrHistory(i.csrs, c)
             IN  Len(rw) = Len(iw) /\ \A n \in DOMAIN rw : SameCsrWrite(rw[n], iw[n])
        /\ \/ MemSkipped(cfg) \/ WriteAndRead(raw.rtl[k]) \/ WriteAndRead(raw.iss[k])
           \/ /\ Len(r.accesses) = Len(i.accesses)
              /\ \A n \in DOMAIN r.accesses : SameAccess(r.accesses[n], i.accesses[n])

(* The module promises to classify every divergence.  In the canonical      *)
(* format a record always has regs, the registers the instruction changed:  *)
(* a write that only one of the two logs has is a divergence.               *)
RegisterDivergenceReported ==
  \A k \in 1..pos :
    Clean(k) /\ ~Skipped("rd_val") /\ raw.rtl[k].regs # None /\ raw.iss[k].regs # None =>
      RegWrites(raw.rtl[k]) = RegWrites(raw.iss[k])
=============================================================================
