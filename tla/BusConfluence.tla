---------------------------- MODULE BusConfluence ----------------------------
(***************************************************************************)
(* Two judgment buses (voe/bus.py) receive the same judgments, the second  *)
(* in any other order: what the bus's claim of confluence is about. The    *)
(* first bus is JudgmentBus itself, with a bounded number of judgments.    *)
(***************************************************************************)
EXTENDS JudgmentBus

CONSTANT Posts            \* bound: judgments of an experiment

ASSUME PostsAssumption == Posts \in Nat

VARIABLES
  posts,                  \* the judgments of this experiment, with their workers
  got, gotB,              \* those delivered to the first bus, to the second
  KB, ownerB, calibB, histB

first  == <<busVars, got>>
second == <<KB, ownerB, calibB, histB, gotB>>
experimentVars == <<posts, first, second>>

B == INSTANCE JudgmentBus WITH
       K <- KB, contributor <- ownerB, calibration <- calibB, history <- histB

ExperimentInit ==
  /\ posts \in [1..Posts -> Workers \X Messages]
  /\ BusInit /\ got = {}
  /\ B!BusInit /\ gotB = {}

Deliver(k) ==
  /\ \A i \in 1..k-1 : i \in got
  /\ Publish(posts[k][1], posts[k][2])
  /\ got' = got \cup {k}
  /\ UNCHANGED <<posts, second>>

DeliverB(k) ==
  /\ B!Publish(posts[k][1], posts[k][2])
  /\ gotB' = gotB \cup {k}
  /\ UNCHANGED <<posts, first>>

ExperimentNext ==
  \/ \E k \in (1..Posts) \ got : Deliver(k)
  \/ \E k \in (1..Posts) \ gotB : DeliverB(k)

ExperimentSpec == ExperimentInit /\ [][ExperimentNext]_experimentVars

(* The merge is confluent up to authority: after the same judgments, in any *)
(* orders, both buses hold beliefs of the same rank on every property, so   *)
(* they agree on what is open and on the sample count of what is open.      *)
ConfluentUpToRank ==
  got = gotB => \A phi \in Props :
    /\ (K[phi] = NoBelief) <=> (KB[phi] = NoBelief)
    /\ K[phi] # NoBelief => RankGeq(K[phi], KB[phi]) /\ RankGeq(KB[phi], K[phi])
    /\ Closed(phi) <=> B!Closed(phi)
=============================================================================
