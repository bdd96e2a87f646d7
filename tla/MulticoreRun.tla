---------------------------- MODULE MulticoreRun ----------------------------
(***************************************************************************)
(* The two multicore checkers of AGENT_H at the end of a run of the        *)
(* hardware they are for: cores that run a small program on shared memory  *)
(* leave the consistency trace and the coherence trace of the run, and     *)
(* the checkers report on them.                                            *)
(*                                                                         *)
(* The hardware is not part of the repository; four kinds of it tell the   *)
(* checkers apart:                                                         *)
(*   "sc"     each operation takes effect at once, in program order;       *)
(*   "tso"    stores wait in a queue per core, which the core's own loads  *)
(*            look into first;                                             *)
(*   "weak"   a core performs its operations in any order, fences or not,  *)
(*            and an atomic in two steps;                                  *)
(*   "lossy"  like "sc", but an invalidation may be lost, so that a cache  *)
(*            keeps a stale line, and an atomic takes two steps.           *)
(* Each core has a cache line per address, kept by MESI.  With snoops, a   *)
(* line that another core's access changes is an event of the trace too,   *)
(* without a value, as in tests/test_agents.py.                            *)
(*                                                                         *)
(* A program is a sequence of instructions, those of a core in program     *)
(* order; an operation is known by its place in it, and 0 stands for the   *)
(* initial value.                                                          *)
(***************************************************************************)
EXTENDS MemoryModelVerifier, SequencesExt

CONSTANTS Cores, Addrs,
          Programs,     \* the programs that may be run
          Hardware      \* the kinds of hardware that may run them

Instructions ==
  [core : Cores, kind : {"load", "store", "fence"}, addr : Addrs \cup {None},
   value : Nat \cup {None}, cycle : {None}, co : {None}, rf : {None},
   deps : SUBSET Nat, aq : BOOLEAN, rl : BOOLEAN,
   pred : (SUBSET {"r", "w"}) \cup {None}, succ : (SUBSET {"r", "w"}) \cup {None},
   rmw : (Cores \X Nat) \cup {None}]

\* A store gives no initial value again, an atomic is a load and the store after it,
\* and a plain load is annotated with aq alone, a plain store with rl alone.
WellFormed(p) ==
  /\ p \in Seq(Instructions)
  /\ \A i \in DOMAIN p : p[i].addr = None <=> p[i].kind = "fence"
  /\ \A i \in Stores(p) : p[i].value \notin {0, None}
  /\ \A i \in Loads(p) : p[i].rmw # None =>
       /\ i + 1 \in Stores(p) /\ p[i + 1].addr = p[i].addr /\ p[i + 1].core = p[i].core
       /\ {j \in Mem(p) : p[j].rmw = p[i].rmw} = {i, i + 1}
  /\ \A i \in Mem(p) : p[i].rmw = None =>
       (p[i].aq => i \in Loads(p)) /\ (p[i].rl => i \in Stores(p))

ASSUME ProgramsAssumption ==
  /\ None \notin Int /\ None \notin Addrs /\ None \notin Cores \X Nat
  /\ None \notin {"M", "E", "S", "I"}
  /\ Cores \subseteq Nat /\ IsFiniteSet(Cores)
  /\ \A p \in Programs : WellFormed(p)

VARIABLES
  program, hw, snoops,
  issued,     \* the operations issued so far
  buffer,     \* per core, the stores issued that no other core can see
  order,      \* per address, the stores that memory has taken, in order
  line,       \* per core and address, the MESI state
  copy,       \* per core and address, the store whose value the line has
  source,     \* per load issued, the store it has read
  events,     \* the accesses and snoops, in the order of their effect
  breach,     \* a line has been writable in one cache and valid in another
  traces,     \* the two trace files of the run directory, None before
  report      \* what the checkers have said, None before

vars == <<program, hw, snoops, issued, buffer, order, line, copy, source, events,
          breach, traces, report>>

Coherence == INSTANCE CoherenceVerifier

Op(i)    == program[i]
Rank(a, s) == SelectInSeq(order[a], LAMBDA t : t = s)   \* 0 for the initial value
Newest(a)  == IF order[a] = <<>> THEN 0 ELSE Last(order[a])
Correct    == hw \in {"sc", "tso"}

Init ==
  /\ program \in Programs /\ hw \in Hardware /\ snoops \in BOOLEAN
  /\ issued = {}
  /\ buffer = [c \in Cores |-> <<>>]
  /\ order  = [a \in Addrs |-> <<>>]
  /\ line   = [k \in Cores \X Addrs |-> "I"]
  /\ copy   = [k \in Cores \X Addrs |-> 0]
  /\ source = [i \in Loads(program) |-> 0]
  /\ events = <<>>
  /\ breach = FALSE
  /\ traces = None
  /\ report = None

(***************************************************************************)
(* The caches.  Holders are the other cores with a valid line; whoever     *)
(* loses exclusiveness or the line does so before the access takes effect. *)
(***************************************************************************)
Holders(c, a) == {d \in Cores \ {c} : line[<<d, a>>] # "I"}

Snooped(downgraded, a, to) ==
  IF snoops THEN SetToSeq({[id |-> 0, core |-> d, op |-> "load", addr |-> a, state |-> to] :
                             d \in downgraded})
  ELSE <<>>

Access(i, to) ==
  [id |-> i, core |-> Op(i).core, op |-> Op(i).kind, addr |-> Op(i).addr, state |-> to]

\* The youngest of the core's own stores to the address that still wait, or 0.
Waiting(c, a) == LET own == {k \in DOMAIN buffer[c] : Op(buffer[c][k]).addr = a}
                 IN  IF own = {} THEN 0 ELSE buffer[c][Max(own)]

\* The load i takes its value from the queue, from its line, or from memory
\* or another cache.
Forward(i) ==
  LET c == Op(i).core  a == Op(i).addr
  IN  /\ Waiting(c, a) # 0
      /\ source' = [source EXCEPT ![i] = Waiting(c, a)]
      /\ events' = Append(events, Access(i, line[<<c, a>>]))
      /\ UNCHANGED <<line, copy>>

Hit(i) ==
  LET c == Op(i).core  a == Op(i).addr
  IN  /\ Waiting(c, a) = 0 /\ line[<<c, a>>] # "I"
      /\ source' = [source EXCEPT ![i] = copy[<<c, a>>]]
      /\ events' = Append(events, Access(i, line[<<c, a>>]))
      /\ UNCHANGED <<line, copy>>

Miss(i) ==
  LET c  == Op(i).core  a == Op(i).addr
      to == IF Holders(c, a) = {} THEN "E" ELSE "S"
      downgraded == {d \in Holders(c, a) : line[<<d, a>>] # "S"}
  IN  /\ Waiting(c, a) = 0 /\ line[<<c, a>>] = "I"
      /\ \E s \in {Newest(a)} \cup {copy[<<d, a>>] : d \in Holders(c, a)} :
           /\ source' = [source EXCEPT ![i] = s]
           /\ copy'   = [copy EXCEPT ![<<c, a>>] = s]
      /\ line'   = [k \in DOMAIN line |-> IF k = <<c, a>> THEN to
                      ELSE IF k[1] \in downgraded /\ k[2] = a THEN "S" ELSE line[k]]
      /\ events' = events \o Snooped(downgraded, a, "S") \o <<Access(i, to)>>

\* The store s reaches memory; the caches in kept never hear of it.
Visible(s, kept) ==
  LET c == Op(s).core  a == Op(s).addr
      invalidated == Holders(c, a) \ kept
  IN  /\ order'  = [order EXCEPT ![a] = Append(@, s)]
      /\ copy'   = [copy EXCEPT ![<<c, a>>] = s]
      /\ line'   = [k \in DOMAIN line |-> IF k = <<c, a>> THEN "M"
                      ELSE IF k[1] \in invalidated /\ k[2] = a THEN "I" ELSE line[k]]
      /\ events' = events \o Snooped(invalidated, a, "I") \o <<Access(s, "M")>>
      /\ breach' = (breach \/ kept # {})

Kept(s) == IF hw = "lossy" THEN SUBSET Holders(Op(s).core, Op(s).addr) ELSE {{}}

(***************************************************************************)
(* The cores.                                                              *)
(***************************************************************************)
Ready(i) ==
  /\ i \notin issued
  /\ hw # "weak" => \A j \in DOMAIN program : <<j, i>> \in ProgramOrder(program) => j \in issued

Atomic(i) == Correct /\ Op(i).rmw # None

Load(i) ==
  /\ Ready(i) /\ Op(i).kind = "load" /\ ~ Atomic(i)
  /\ Forward(i) \/ Hit(i) \/ Miss(i)
  /\ issued' = issued \cup {i}
  /\ UNCHANGED <<program, hw, snoops, buffer, order, breach, traces, report>>

Store(i) ==
  /\ Ready(i) /\ Op(i).kind = "store" /\ hw # "tso"
  /\ ~ Atomic(i)
  /\ \E kept \in Kept(i) : Visible(i, kept)
  /\ issued' = issued \cup {i}
  /\ UNCHANGED <<program, hw, snoops, buffer, source, traces, report>>

Enqueue(i) ==
  /\ Ready(i) /\ Op(i).kind = "store" /\ hw = "tso"
  /\ ~ Atomic(i)
  /\ buffer' = [buffer EXCEPT ![Op(i).core] = Append(@, i)]
  /\ issued' = issued \cup {i}
  /\ UNCHANGED <<program, hw, snoops, order, line, copy, source, events, breach, traces, report>>

Drain(c) ==
  /\ buffer[c] # <<>>
  /\ Visible(Head(buffer[c]), {})
  /\ buffer' = [buffer EXCEPT ![c] = Tail(@)]
  /\ UNCHANGED <<program, hw, snoops, issued, source, traces, report>>

\* The load i and the store after it, at one instant, with no store waiting.
ReadModifyWrite(i) ==
  LET c == Op(i).core  a == Op(i).addr
      invalidated == Holders(c, a)
  IN  /\ Ready(i) /\ Op(i).kind = "load" /\ Atomic(i)
      /\ buffer[c] = <<>>
      /\ source' = [source EXCEPT ![i] = Newest(a)]
      /\ order'  = [order EXCEPT ![a] = Append(@, i + 1)]
      /\ copy'   = [copy EXCEPT ![<<c, a>>] = i + 1]
      /\ line'   = [k \in DOMAIN line |-> IF k = <<c, a>> THEN "M"
                      ELSE IF k[1] \in invalidated /\ k[2] = a THEN "I" ELSE line[k]]
      /\ events' = events \o Snooped(invalidated, a, "I")
                          \o <<Access(i, "M"), Access(i + 1, "M")>>
      /\ issued' = issued \cup {i, i + 1}
      /\ UNCHANGED <<program, hw, snoops, buffer, breach, traces, report>>

Fence(i) ==
  /\ Ready(i) /\ Op(i).kind = "fence"
  /\ buffer[Op(i).core] = <<>>
  /\ issued' = issued \cup {i}
  /\ UNCHANGED <<program, hw, snoops, buffer, order, line, copy, source, events, breach, traces, report>>

(***************************************************************************)
(* The traces.  What the consistency trace marks its operations with is    *)
(* free, as long as it says which of two stores to one address came first  *)
(* and which of two equal values was read.  With the mark "cycle" the      *)
(* coherence trace has stamps and line states and is listed by core, with  *)
(* the mark "rf" it has versions.                                          *)
(***************************************************************************)
Value(s) == IF s = 0 THEN 0 ELSE Op(s).value

SingleStores   == \A a \in Addrs : Cardinality(StoresTo(program, a)) <= 1
DistinctValues == \A a \in Addrs : \A s, t \in StoresTo(program, a) :
                    Value(s) = Value(t) => s = t

Marks == {m \in SUBSET {"co", "cycle", "rf"} :
            /\ ~ {"co", "cycle"} \subseteq m
            /\ SingleStores \/ m \cap {"co", "cycle"} # {}
            /\ DistinctValues \/ "rf" \in m}

Instant(i) == SelectInSeq(events, LAMBDA e : e.id = i)

Execution(marks) ==
  [i \in DOMAIN program |->
     [program[i] EXCEPT
        !.value = IF i \in Loads(program) THEN Value(source[i]) ELSE @,
        !.cycle = IF "cycle" \in marks /\ i \in Mem(program) THEN Instant(i) ELSE @,
        !.co    = IF "co" \in marks /\ i \in Stores(program) THEN Rank(Op(i).addr, i) ELSE @,
        !.rf    = IF "rf" \in marks /\ i \in Loads(program) /\ source[i] # 0
                  THEN source[i] ELSE @]]

Version(i) == LET s == IF i \in Stores(program) THEN i ELSE source[i]
              IN  IF s = 0 THEN None ELSE Rank(Op(i).addr, s) - 1

Before(marks, m, n) ==
  IF "cycle" \in marks /\ events[m].core # events[n].core
  THEN events[m].core < events[n].core ELSE m < n

Listed(marks) ==
  [n \in DOMAIN events |->
     CHOOSE e \in DOMAIN events :
       Cardinality({m \in DOMAIN events : Before(marks, m, e)}) = n - 1]

CoherenceTrace(marks) ==
  LET listed == Listed(marks)
  IN  [n \in DOMAIN events |->
         LET e == events[listed[n]]
         IN  [core |-> e.core, op |-> e.op, addr |-> e.addr,
              state |-> IF "cycle" \in marks THEN e.state ELSE None,
              value |-> IF e.id = 0 THEN None
                        ELSE IF e.op = "store" THEN Value(e.id) ELSE Value(source[e.id]),
              ver   |-> IF e.id # 0 /\ "rf" \in marks THEN Version(e.id) ELSE None,
              cycle |-> IF "cycle" \in marks THEN listed[n] ELSE None]]

Done == issued = DOMAIN program /\ \A c \in Cores : buffer[c] = <<>>

Write(marks) ==
  /\ Done /\ traces = None
  /\ traces' = [consistency |-> Execution(marks), coherence |-> CoherenceTrace(marks),
                id |-> [n \in DOMAIN events |-> events[Listed(marks)[n]].id]]
  /\ UNCHANGED <<program, hw, snoops, issued, buffer, order, line, copy, source, events,
                 breach, report>>

Verify ==
  /\ traces # None /\ report = None
  /\ report' = [memory    |-> [m \in Models |-> Violations(traces.consistency, m)],
                coherence |-> {<<traces.id[al[1]], al[2]>> :
                                 al \in Coherence!Alarms(traces.coherence, Cores, Addrs)}]
  /\ UNCHANGED <<program, hw, snoops, issued, buffer, order, line, copy, source, events,
                 breach, traces>>

Next ==
  \/ \E i \in DOMAIN program :
       Load(i) \/ Store(i) \/ Enqueue(i) \/ ReadModifyWrite(i) \/ Fence(i)
  \/ \E c \in Cores : Drain(c)
  \/ \E marks \in Marks : Write(marks)
  \/ Verify

Spec == Init /\ [][Next]_vars

(***************************************************************************)
(* What an accepted execution is: one order of all its accesses that keeps *)
(* of program order what the model keeps and takes the stores of each      *)
(* address in the order memory did, such that each load has the newest of  *)
(* the stores before it, its core's own earlier ones included, and nothing *)
(* comes between the halves of an atomic.                                  *)
(***************************************************************************)
Ordered(m, i, j) ==
  LET a == Op(i)  b == Op(j)
  IN  \/ m = "sc"
      \/ m = "tso" /\ (a.kind = "load" \/ b.kind = "store")
      \/ m = "rvwmo" /\ (a.addr = b.addr \/ i \in b.deps)
      \/ a.aq \/ b.rl
      \/ \E f \in Fences(program) :
           /\ f \in i .. j /\ Op(f).core = a.core
           /\ Op(f).pred = None \/ (IF a.kind = "load" THEN "r" ELSE "w") \in Op(f).pred
           /\ Op(f).succ = None \/ (IF b.kind = "load" THEN "r" ELSE "w") \in Op(f).succ

Required(m) ==
  {e \in Mem(program) \X Mem(program) :
     \/ e[1] < e[2] /\ Op(e[1]).core = Op(e[2]).core /\ Ordered(m, e[1], e[2])
     \/ /\ {e[1], e[2]} \subseteq Stores(program) /\ Op(e[1]).addr = Op(e[2]).addr
        /\ Rank(Op(e[1]).addr, e[1]) < Rank(Op(e[2]).addr, e[2])}

\* The ways to number all accesses that respect what is required.
Orders(required) ==
  LET extend[S \in SUBSET Mem(program)] ==
        IF S = {} THEN {<<>>}
        ELSE UNION {{[j \in S |-> IF j = i THEN Cardinality(S) ELSE pos[j]] :
                        pos \in extend[S \ {i}]} :
                      i \in {j \in S : \A k \in S : <<j, k>> \notin required}}
  IN  extend[Mem(program)]

Sees(pos, l) == {s \in StoresTo(program, Op(l).addr) :
                   pos[s] < pos[l] \/ (s < l /\ Op(s).core = Op(l).core)}

Explained(m) ==
  /\ \E pos \in Orders(Required(m)) :
       \A l \in Loads(program) :
            LET a == Op(l).addr
            IN  /\ source[l] # 0 => source[l] \in Sees(pos, l)
                /\ \A s \in Sees(pos, l) : Rank(a, s) <= Rank(a, source[l])
  /\ \A l \in Loads(program) : Op(l).rmw # None =>
       Rank(Op(l).addr, l + 1) = Rank(Op(l).addr, source[l]) + 1

(***************************************************************************)
(* Properties.                                                             *)
(***************************************************************************)

\* Under each model the consistency checker passes exactly the executions
\* that some order of all accesses explains: a cycle it reports is an order
\* the model forbids, and what it lets through the model allows, whatever
\* hardware the trace is from and however the trace marks its operations
\* (run() of memory_model_verifier.py, its two axioms and the atomicity).
VerdictIsExact ==
  report # None => \A m \in Models : (report.memory[m] = {}) = Explained(m)

\* No false alarm.  Hardware that keeps a model is never accused under it or
\* a weaker one of those it implies, and the coherence checker accuses
\* correct hardware of two things only: of a load that took its value from
\* its own core's queue, before the store is visible, and, if the trace does
\* not list the snoops, of states it has not heard to have changed.
NoFalseAlarm ==
  report # None /\ Correct =>
    /\ report.memory[hw] = {}
    /\ hw = "sc" => \A m \in Models : report.memory[m] = {}
    /\ \A al \in report.coherence :
         \/ al[2] = "read_from_valid" /\ Instant(al[1]) < Instant(source[al[1]])
         \/ al[2] = "swmr" /\ ~ snoops

\* The two checkers agree on a single location.  On hardware that issues in
\* program order, a run without a coherence alarm has no per-location cycle
\* for the consistency checker either, and, if the events tell the states of
\* lines, no cache has been writable beside a valid one, though each event
\* tells of one core's line only.
CoherentMeansPerLocation ==
  report # None /\ hw # "weak" /\ report.coherence = {} =>
    /\ \A m \in Models : "sc_per_location" \notin report.memory[m]
    /\ breach => \A n \in DOMAIN traces.coherence : traces.coherence[n].state = None

=============================================================================
