----------------------------- MODULE Adjudication -----------------------------
(***************************************************************************)
(* The canonical beliefs of docs/vsa_reference.py (KnowledgeState) and the *)
(* rules by which voe/bus.py decides between a belief and a new judgment,  *)
(* shared by the bus and by the campaigns that publish to it.              *)
(*                                                                         *)
(* Of a judgment only the warrant, the effective sample count n_eff and    *)
(* the counterexample flag matter here; that it has a witness is enforced  *)
(* by the constructor.  DEFINITIONAL judgments are never built.            *)
(***************************************************************************)
EXTENDS Integers, Sequences

CONSTANTS
  Props, Workers,
  Messages,         \* the judgments that workers publish
  NoBelief, NoOne

Judgments ==
  [phi : Props, warrant : {"DEDUCTIVE", "INDUCTIVE"}, n : Nat, cex : BOOLEAN]

\* A proof carries no counterexample: Worker.execute sets one or the other.
ASSUME MessagesAssumption ==
  Messages \subseteq {j \in Judgments : ~(j.warrant = "DEDUCTIVE" /\ j.cex)}
ASSUME NamesAssumption == NoBelief \notin Judgments /\ NoOne \notin Workers

VARIABLES
  K,            \* KnowledgeState.K: the canonical belief on each property
  contributor,  \* the worker that owns it
  calibration   \* calibration_events: <<worker, property>>, in order

-----------------------------------------------------------------------------
(* The kernel's reading of a belief.                                        *)

ProvenIn(b, phi)    == b[phi] # NoBelief /\ b[phi].warrant = "DEDUCTIVE"
DisprovenIn(b, phi) == b[phi] # NoBelief /\ b[phi].cex
Proven(phi)    == ProvenIn(K, phi)
Disproven(phi) == DisprovenIn(K, phi)
Closed(phi)    == Proven(phi) \/ Disproven(phi)
NEff(phi)      == IF K[phi] = NoBelief THEN 0 ELSE K[phi].n

-----------------------------------------------------------------------------
(* Adjudication.                                                            *)

Strong(j) == j.warrant = "DEDUCTIVE" \/ j.cex

\* Mutation: authority by sample count alone.
RankGeq_NoPrecedence(j, i) == j.n >= i.n

\* _rank(j) >= _rank(i), in the order of pairs (strong?, n_eff).
RankGeq(j, i) ==
  \/ Strong(j) /\ ~Strong(i)
  \/ (Strong(j) <=> Strong(i)) /\ j.n >= i.n

\* Mutation: the last judgment wins, whatever its authority.
Accepted_Latest(old, j) == TRUE

Accepted(old, j) == old = NoBelief \/ RankGeq(j, old)
Merged(old, j)   == IF Accepted(old, j) THEN j ELSE old

\* Mutation: a settled belief is refuted again.
Refutes_Settled(worker, j) ==
  j.cex /\ K[j.phi] # NoBelief /\ contributor[j.phi] \notin {NoOne, worker}

\* A counterexample against a belief that is not settled, owned by another
\* worker, refutes the pass of that owner.
Refutes(worker, j) ==
  /\ j.cex
  /\ K[j.phi] # NoBelief /\ ~Closed(j.phi)
  /\ contributor[j.phi] \notin {NoOne, worker}
=============================================================================
