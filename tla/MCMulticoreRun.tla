--------------------------- MODULE MCMulticoreRun ---------------------------
(***************************************************************************)
(* Litmus tests for MulticoreRun: those of TestMemoryModelVerifier in      *)
(* tests/test_agents.py, the classical ones around them, and every program *)
(* of two cores with two accesses each to two addresses.                   *)
(***************************************************************************)
EXTENDS MulticoreRun

Plain(c, kind, a, v) ==
  [core |-> c, kind |-> kind, addr |-> a, value |-> v, cycle |-> None, co |-> None,
   rf |-> None, deps |-> {}, aq |-> FALSE, rl |-> FALSE, pred |-> None, succ |-> None,
   rmw |-> None]

R(c, a)       == Plain(c, "load", a, 0)
W(c, a, v)    == Plain(c, "store", a, v)
F(c, p, s)    == [Plain(c, "fence", None, None) EXCEPT !.pred = p, !.succ = s]
Full(c)       == F(c, None, None)
Acq(op)       == [op EXCEPT !.aq = TRUE]
Rel(op)       == [op EXCEPT !.rl = TRUE]
Dep(op, i)    == [op EXCEPT !.deps = {i}]
RMW(c, a, v)  == <<[R(c, a) EXCEPT !.rmw = <<c, v>>], [W(c, a, v) EXCEPT !.rmw = <<c, v>>]>>

Litmus == {
  \* store buffering: with fences of every strength on both cores
  <<W(0, "x", 1), F(0, {"r"}, {"r"}), R(0, "y"), W(1, "y", 2), F(1, {"w"}, {"r"}), R(1, "x")>>,
  <<W(0, "x", 1), Full(0), R(0, "y"), W(1, "y", 2), F(1, {"r", "w"}, {"r", "w"}), R(1, "x")>>,
  \* ... with loads that look into the queue first
  <<W(0, "x", 1), R(0, "x"), R(0, "y"), W(1, "y", 2), R(1, "y"), R(1, "x")>>,
  \* message passing: fences, release and acquire, release alone, a dependency
  <<W(0, "x", 1), F(0, {"w"}, {"w"}), W(0, "y", 2), R(1, "y"), F(1, {"r"}, {"r"}), R(1, "x")>>,
  <<W(0, "x", 1), Rel(W(0, "y", 2)), Acq(R(1, "y")), R(1, "x")>>,
  <<W(0, "x", 1), Rel(W(0, "y", 2)), R(1, "y"), R(1, "x")>>,
  <<W(0, "x", 1), Full(0), W(0, "y", 2), R(1, "y"), Dep(R(1, "x"), 4)>>,
  \* load buffering with dependencies
  <<R(0, "x"), Dep(W(0, "y", 1), 1), R(1, "y"), Dep(W(1, "x", 2), 3)>>,
  \* one location: two writers, readers that may disagree
  <<W(0, "x", 1), R(0, "x"), W(1, "x", 2), R(1, "x")>>,
  <<W(0, "x", 1), W(1, "x", 2), R(2, "x"), R(2, "x")>>,
  <<W(0, "x", 1), W(0, "x", 3), W(1, "x", 2), R(1, "x"), R(2, "x")>>,
  \* a value that is written twice
  <<W(0, "x", 1), W(0, "x", 2), W(0, "x", 1), R(1, "x"), R(1, "x")>>,
  \* a write seen by one core before another
  <<W(0, "x", 1), R(1, "x"), W(1, "y", 2), R(2, "y"), R(2, "x")>>,
  \* atomics against a store, against each other, and beside other accesses
  RMW(0, "x", 1) \o <<W(1, "x", 2), R(1, "x")>>,
  RMW(0, "x", 1) \o RMW(1, "x", 2),
  <<W(0, "y", 1)>> \o RMW(0, "x", 2) \o <<W(1, "x", 3), R(1, "y")>> }

Accesses(c, v) == {R(c, "x"), R(c, "y"), W(c, "x", v), W(c, "y", v)}

\* Up to the names of the addresses.
TwoByTwo == {<<a, b, c, d>> : a \in {R(0, "x"), W(0, "x", 1)}, b \in Accesses(0, 2),
                              c \in Accesses(1, 3), d \in Accesses(1, 4)}

MCPrograms == Litmus \cup TwoByTwo
MCHardware == {"sc", "tso", "weak", "lossy"}

=============================================================================
