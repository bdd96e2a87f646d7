--------------------------- MODULE MCBusConfluence ---------------------------
(* A small instance of BusConfluence: sample counts up to 1. *)
EXTENDS BusConfluence, TLC

\* What Worker.execute builds: a pass, a proof, or a counterexample.
MCMessages ==
  {[phi |-> phi, warrant |-> k[1], n |-> n, cex |-> k[2]] :
     phi \in Props, n \in 0..1,
     k \in {<<"INDUCTIVE", FALSE>>, <<"INDUCTIVE", TRUE>>, <<"DEDUCTIVE", FALSE>>}}

\* Workers are told apart by their names only.
MCSymmetry == Permutations(Workers)
=============================================================================
