------------------------ MODULE MCVerificationCampaign ------------------------
(* Small boards for VerificationCampaign: three obligations, two workers.    *)
EXTENDS VerificationCampaign

CONSTANTS hub, s1, s2, skeptic, explorer, tHub, tDep

MCArchetype == (skeptic :> "skeptic") @@ (explorer :> "explorer")
MCUB == [n \in 0..MaxSteps |-> IF n < 5 THEN <<1000, 950, 776, 632, 527>>[n + 1] ELSE 451]

\* What Worker.execute builds: a pass, a proof, or a counterexample.
MCMessages ==
  {[phi |-> phi, warrant |-> k[1], n |-> n, cex |-> k[2]] :
     phi \in Props, n \in 0..MaxSteps,
     k \in {<<"INDUCTIVE", FALSE>>, <<"INDUCTIVE", TRUE>>, <<"DEDUCTIVE", FALSE>>}}

None    == [phi \in Props |-> {}]
OneTask == [phi \in Props |-> IF phi = hub THEN tHub ELSE tDep]
Weights == [phi \in Props |-> IF phi = hub THEN 2 ELSE 6]

\* voe_coupled: one run on the hub also evidences its users.
Coupled(budget, covers) ==
  [requires |-> None, shares |-> [None EXCEPT ![hub] = {s1, s2}], structural |-> {},
   static |-> FALSE, task |-> OneTask, covers |-> covers, weight |-> Weights, budget |-> budget]

\* voe_horizon: the others wait for the hub, a lemma.
Horizon(budget, covers) ==
  [requires |-> [None EXCEPT ![s1] = {hub}], shares |-> None, structural |-> {},
   static |-> FALSE, task |-> OneTask, covers |-> covers, weight |-> Weights, budget |-> budget]

\* A structural obligation without a proof task, with and without static analysis.
Mixed(budget, static) ==
  [requires |-> None, shares |-> None, structural |-> {hub}, static |-> static,
   task |-> [phi \in Props |-> IF phi = s1 THEN tDep ELSE NoTask],
   covers |-> {s1}, weight |-> Weights, budget |-> budget]

\* Obligations on their own, that simulation reaches.
Separate(budget) ==
  [requires |-> None, shares |-> None, structural |-> {}, static |-> FALSE,
   task |-> OneTask, covers |-> Props, weight |-> Weights, budget |-> budget]

AllBoards == {Separate(40), Coupled(36, Props), Coupled(48, {}), Horizon(40, {s2}),
              Mixed(28, TRUE), Mixed(22, FALSE)}
=============================================================================
