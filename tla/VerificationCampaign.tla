------------------------- MODULE VerificationCampaign -------------------------
(***************************************************************************)
(* The campaign loop of voe/voe.py (VOE.run) with the task board, the      *)
(* ledger (voe/board.py), the workers (voe/workers.py), the reputation     *)
(* service (voe/reputation.py) and the verdicts of the evidence channels   *)
(* (phase3/evidence_channels.py).  One step is one iteration of the loop.  *)
(*                                                                         *)
(* Abstractions: a worker bids on any obligation it may bid on, where the  *)
(* code takes the one of most utility, and the campaign grants any bid;    *)
(* money is counted in quarters, risk and reputation in thousandths; a     *)
(* timeout stands with the inconclusive verdicts, which have its effects.  *)
(***************************************************************************)
EXTENDS Adjudication, FiniteSetsExt, SequencesExt

CONSTANTS
  Archetype,      \* "skeptic" or "explorer", of each worker
  Boards,         \* the boards a campaign may be given
  Tasks, NoTask,  \* the sby tasks, and the lack of one
  UB,             \* UB[n]: the kernel's _cp(n), in thousandths
  MaxSteps,       \* max_steps of VOE.run
  ExploreBudget   \* EXPLORE_BUDGET

BoardRecords ==
  [requires : [Props -> SUBSET Props], shares : [Props -> SUBSET Props],
   structural : SUBSET Props, static : BOOLEAN, task : [Props -> Tasks \cup {NoTask}],
   covers : SUBSET Props, weight : [Props -> Nat], budget : Nat]

ASSUME CampaignAssumptions ==
  /\ Archetype \in [Workers -> {"skeptic", "explorer"}]
  /\ Boards \subseteq BoardRecords /\ NoTask \notin Tasks
  /\ MaxSteps \in Nat /\ ExploreBudget \in Nat
  /\ UB \in [0..MaxSteps -> Nat] /\ \A m, n \in 0..MaxSteps : m <= n => UB[n] <= UB[m]
  /\ IsFiniteSet(Props) /\ IsFiniteSet(Workers)

\* What shares with an obligation shares with those it shares with, as on the
\* boards of the repository, where one hub shares with its users.
ASSUME SharingAssumption ==
  \A b \in Boards : \A phi \in Props : \A psi \in b.shares[phi] :
    b.shares[psi] \subseteq b.shares[phi] \cup {phi}

VARIABLES
  board,          \* the tasks, the budget and what the channels can check
  skip,           \* Worker.skip
  spent, byWorker,          \* ResourceLedger
  proofs, bugs, claims, value,  \* ReputationService (claims: ind_claims)
  cache,          \* FormalChannel._cache: the verdict of each task run
  gate, control,  \* FormalChannel._gate_state, SimChannel._control_state
  step, status,   \* the loop: iterations begun, and how it ended
  credit          \* the passing runs that bear on each property (see NEffEarned)

ledgerVars  == <<spent, byWorker>>
repVars     == <<proofs, bugs, claims, value>>
channelVars == <<cache, gate, control>>
vars == <<K, contributor, calibration, board, skip, ledgerVars, repVars, channelVars,
          step, status, credit>>

-----------------------------------------------------------------------------
(* The kernel's risk, the ledger and the board.                             *)

RiskOf(b, phi) == IF ProvenIn(b, phi) \/ DisprovenIn(b, phi) THEN 0
                  ELSE board.weight[phi] * UB[IF b[phi] = NoBelief THEN 0 ELSE b[phi].n]
Risk(b) == SumFunction([phi \in Props |-> RiskOf(b, phi)])

Cost == [sim |-> 4, formal |-> 16, static |-> 2]

\* Mutation: an action is affordable while anything is left.
CanAfford_Any(method) == spent < board.budget

CanAfford(method) == spent + Cost[method] <= board.budget

HasEvidencePath(phi) == phi \in board.structural \/ board.task[phi] # NoTask

\* Mutation: obligations that wait for a lemma are actionable.
Actionable_NoRequires(phi) == ~Closed(phi) /\ HasEvidencePath(phi)

Actionable(phi) ==
  /\ ~Closed(phi)
  /\ HasEvidencePath(phi)
  /\ \A r \in board.requires[phi] : Closed(r)

-----------------------------------------------------------------------------
(* Worker.propose: the method a worker bids with.                           *)

Samples(w, phi) ==
  Archetype[w] = "explorer" /\ phi \in board.covers /\ NEff(phi) < ExploreBudget

\* Mutation: no simulation when a proof is out of budget.
Method_NoFallback(w, phi) ==
  CASE phi \in board.structural /\ board.static -> "static"
    [] ~(phi \in board.structural /\ board.static) /\ Samples(w, phi) -> "sim"
    [] OTHER -> "formal"

Method(w, phi) ==
  CASE phi \in board.structural /\ board.static -> "static"
    [] ~(phi \in board.structural /\ board.static)
       /\ (Samples(w, phi) \/ ~CanAfford("formal")) -> "sim"
    [] OTHER -> "formal"

Candidates(w) == {phi \in Props : Actionable(phi) /\ phi \notin skip[w]}
Bids(w, phi)  == phi \in Candidates(w) /\ CanAfford(Method(w, phi))

-----------------------------------------------------------------------------
(* The evidence channels: the status a run returns.                         *)

StaticCheck(result) ==
  result \in {"proved", "counterexample", "error"} /\ UNCHANGED channelVars

\* A refutation stands only if the testbench passes its positive control.
SimRun(phi, result) ==
  \/ phi \notin board.covers /\ result = "unsupported" /\ UNCHANGED channelVars
  \/ phi \in board.covers /\ result \in {"pass", "error"} /\ UNCHANGED channelVars
  \/ /\ phi \in board.covers
     /\ control' \in IF control = "unchecked" THEN {"ok", "failed"} ELSE {control}
     /\ result = IF control' = "ok" THEN "counterexample" ELSE "control_failed"
     /\ UNCHANGED <<cache, gate>>

Verdicts == {"proved", "bounded_pass", "counterexample", "inconclusive"}

\* Mutation: the vacuity gate is not asked.
Certified_NoGate(verdict, result) == result = verdict /\ gate' = gate

\* A pass is certified only if the known-bad task failed.
Certified(verdict, result) ==
  IF verdict \in {"proved", "bounded_pass"}
  THEN /\ gate' \in IF gate = "unchecked" THEN {"armed", "broken"} ELSE {gate}
       /\ result = IF gate' = "armed" THEN verdict ELSE "gate_failed"
  ELSE result = verdict /\ gate' = gate

\* A task that failed to run is not remembered; any other verdict is.
FormalProve(task, result) ==
  /\ control' = control
  /\ \/ /\ task \notin {t \in Tasks : cache[t] # "none"}
        /\ result = "error" /\ UNCHANGED <<cache, gate>>
     \/ /\ task # NoTask
        /\ \E verdict \in IF cache[task] = "none" THEN Verdicts ELSE {cache[task]} :
             cache' = [cache EXCEPT ![task] = verdict] /\ Certified(verdict, result)

Evidence(phi, method, result) ==
  CASE method = "static" -> StaticCheck(result)
    [] method = "sim"    -> SimRun(phi, result)
    [] method = "formal" -> FormalProve(board.task[phi], result)

-----------------------------------------------------------------------------
(* Worker.execute: what a status means.                                     *)

Conclusive(result) == result \in {"proved", "counterexample", "pass", "bounded_pass"}

\* Mutation: a bounded pass may be bought again.
GivesUp_NotBounded(result) == result \in {"control_failed", "gate_failed", "inconclusive"}

GivesUp(result) == result \in {"control_failed", "gate_failed", "inconclusive", "bounded_pass"}

JudgmentOf(phi, result) ==
  [phi     |-> phi,
   warrant |-> IF result = "proved" THEN "DEDUCTIVE" ELSE "INDUCTIVE",
   n       |-> NEff(phi) + (IF result \in {"pass", "bounded_pass"} THEN 1 ELSE 0),
   cex     |-> result = "counterexample"]

\* Mutation: each copy counts the run once more.
Published_Recounted(j) ==
  {j} \cup {[j EXCEPT !.phi = psi, !.n = @ + 1] : psi \in {q \in board.shares[j.phi] : ~Closed(q)}}

\* Mutation: settled obligations receive the shared evidence too.
Published_ToClosed(j) == {j} \cup {[j EXCEPT !.phi = psi] : psi \in board.shares[j.phi]}

\* The judgment, and its copies for the open obligations that share it.
Published(j) ==
  {j} \cup {[j EXCEPT !.phi = psi] : psi \in {q \in board.shares[j.phi] : ~Closed(q)}}

\* The bus, given judgments on different properties.
PublishAll(w, js) ==
  LET On(phi) == {j \in js : j.phi = phi} IN
  /\ K' = [phi \in Props |-> IF On(phi) = {} THEN K[phi]
                             ELSE Merged(K[phi], CHOOSE j \in On(phi) : TRUE)]
  /\ contributor' = [phi \in Props |-> IF \E j \in On(phi) : Accepted(K[phi], j) THEN w
                                       ELSE contributor[phi]]
  /\ calibration' = calibration \o
       SetToSeq({<<contributor[j.phi], j.phi>> : j \in {i \in js : Refutes(w, i)}})

\* Mutation: the reduction is credited twice when evidence is shared.
Gain_PerJudgment(js) == Cardinality(js) * (Risk(K) - Risk(K'))

Gain(js) == Risk(K) - Risk(K')

\* ReputationService.record.
Record(w, method, result, j, js) ==
  LET dR       == Gain(js)
      accepted == Accepted(K[j.phi], j) IN
  /\ value'  = [value  EXCEPT ![w] = @ + (IF dR > 0 THEN dR ELSE 0)]
  /\ proofs' = [proofs EXCEPT ![w] = @ + (IF accepted /\ result = "proved" THEN 1 ELSE 0)]
  /\ bugs'   = [bugs   EXCEPT ![w] = @ + (IF accepted /\ result = "counterexample" THEN 1 ELSE 0)]
  /\ claims' = [claims EXCEPT ![w] = @ + (IF method = "sim" /\ result = "pass" THEN 1 ELSE 0)]

-----------------------------------------------------------------------------
(* The loop of VOE.run.                                                     *)

Charge(w, method) ==
  /\ spent' = spent + Cost[method]
  /\ byWorker' = [byWorker EXCEPT ![w] = @ + Cost[method]]

Settle(w, phi, method, result) ==
  /\ Charge(w, method)
  /\ skip' = IF GivesUp(result) THEN [skip EXCEPT ![w] = @ \cup {phi}] ELSE skip

\* A channel error ends the campaign, unpaid.
Fail(result) ==
  /\ result = "error"
  /\ status' = "error"
  /\ UNCHANGED <<K, contributor, calibration, skip, ledgerVars, repVars, credit>>

\* No warranted judgment: the work is paid for, nothing is believed.
NotCertified(w, phi, method, result) ==
  /\ result # "error" /\ ~Conclusive(result)
  /\ Settle(w, phi, method, result)
  /\ UNCHANGED <<K, contributor, calibration, repVars, status, credit>>

Credited(js, phi, method, result) ==
  LET sim == IF method = "sim" THEN 1 ELSE 0 IN
  [psi \in Props |->
     IF result \in {"pass", "bounded_pass"} /\ \E j \in js : j.phi = psi
     THEN [sims   |-> credit[psi].sims + sim,
           proofs |-> credit[psi].proofs + (1 - sim),
           tasks  |-> credit[psi].tasks \cup (IF sim = 1 THEN {} ELSE {board.task[phi]})]
     ELSE credit[psi]]

\* A judgment is published with its copies, credited, and the laws are checked.
Learn(w, phi, method, result) ==
  LET j  == JudgmentOf(phi, result)
      js == Published(j) IN
  /\ Conclusive(result)
  /\ Settle(w, phi, method, result)
  /\ PublishAll(w, js)
  /\ Record(w, method, result, j, js)
  /\ credit' = Credited(js, phi, method, result)
  /\ status' = IF Risk(K') <= Risk(K) THEN status ELSE "violation"

Results == Verdicts \cup {"pass", "gate_failed", "control_failed", "unsupported", "error"}

Iterate ==
  /\ status = "running" /\ step < MaxSteps
  /\ step' = step + 1 /\ board' = board
  /\ \E w \in Workers, phi \in Props, result \in Results :
       /\ Bids(w, phi)
       /\ Evidence(phi, Method(w, phi), result)
       /\ \/ Fail(result)
          \/ NotCertified(w, phi, Method(w, phi), result)
          \/ Learn(w, phi, Method(w, phi), result)

\* No proposal: each worker has nothing to bid on, or would bid on something
\* that the budget no longer pays for.
Stop ==
  /\ status = "running" /\ step < MaxSteps
  /\ \A w \in Workers : Candidates(w) # {} => \E phi \in Candidates(w) : ~Bids(w, phi)
  /\ status' = "stopped"
  /\ UNCHANGED <<K, contributor, calibration, board, skip, ledgerVars, repVars, channelVars,
                 step, credit>>

Init ==
  /\ K = [phi \in Props |-> NoBelief]
  /\ contributor = [phi \in Props |-> NoOne]
  /\ calibration = <<>>
  /\ board \in Boards
  /\ skip = [w \in Workers |-> {}]
  /\ spent = 0
  /\ byWorker = [w \in Workers |-> 0]
  /\ proofs = [w \in Workers |-> 0] /\ bugs = [w \in Workers |-> 0]
  /\ claims = [w \in Workers |-> 0] /\ value = [w \in Workers |-> 0]
  /\ cache = [t \in Tasks |-> "none"]
  /\ gate = "unchecked" /\ control = "unchecked"
  /\ step = 0 /\ status = "running"
  /\ credit = [phi \in Props |-> [sims |-> 0, proofs |-> 0, tasks |-> {}]]

Next == Iterate \/ Stop
Spec == Init /\ [][Next]_vars

-----------------------------------------------------------------------------
Total(f) == SumFunction(f)

(* The budget is never exceeded, and the workers' costs add up to what was  *)
(* spent.                                                                   *)
BudgetAccounted == spent <= board.budget /\ spent = Total(byWorker)

(* The value credited to the workers is exactly the risk that has gone:     *)
(* none is lost or paid twice when one run evidences several obligations,   *)
(* and no step lets the risk rise (the law Sem-2' holds).                   *)
ValueIsRiskRemoved ==
  /\ Total(value) + Risk(K) = Risk([phi \in Props |-> NoBelief])
  /\ status # "violation"

(* A verdict is final: a proof is never taken back, nor turned into a       *)
(* refutation, whatever shared evidence arrives later.                      *)
VerdictsAreFinal ==
  [][\A phi \in Props : (Proven(phi) => Proven(phi)') /\ (Disproven(phi) => Disproven(phi)')]_vars

(* An open obligation's sample count is covered by the passing runs that    *)
(* bear on it, the shared ones included, as long as sharing is transitive.  *)
NEffEarned ==
  \A phi \in Props : NEff(phi) <= credit[phi].sims + credit[phi].proofs

(* Without static analysis nothing is proven before the negative control    *)
(* has failed as it must.                                                   *)
ProofsAreGated ==
  (~board.static /\ \E phi \in Props : Proven(phi)) => gate = "armed"

(* Without shared evidence no obligation is settled before its lemmas are.  *)
ClosedInOrder ==
  (\A psi \in Props : board.shares[psi] = {}) =>
    \A phi \in Props : Closed(phi) => \A r \in board.requires[phi] : Closed(r)

(* The campaign gives up only when not even a simulation can be paid for,   *)
(* or when every worker has given up on every obligation it could work on.  *)
StopJustified ==
  status = "stopped" =>
    \/ spent + Cost.sim > board.budget
    \/ \A w \in Workers, phi \in Props : Actionable(phi) => phi \in skip[w]

(* A bounded pass, whose verdict is remembered, is credited at most once    *)
(* per worker and per obligation whose evidence the property receives.      *)
BoundedPassesLimited ==
  \A phi \in Props :
    credit[phi].proofs <=
      Cardinality(Workers) * Cardinality({psi \in Props : psi = phi \/ phi \in board.shares[psi]})

-----------------------------------------------------------------------------
(* The reputation of ReputationService.report.                              *)

Refuted(w) == Cardinality({i \in 1..Len(calibration) : calibration[i][1] = w})
Merits(w)  == value[w] + 3000 * bugs[w] + 3000 * proofs[w]

\* Mutation: the penalty is added.
Score_Bonus(w) == Merits(w) + 2000 * Refuted(w)

Score(w) == Merits(w) - 2000 * Refuted(w)

\* The raw reputation, times its positive denominator: cost, and the claims
\* when there are some.
Raw(w) == LET r == IF claims[w] = 0 THEN Score(w)
                   ELSE Score(w) * (claims[w] - Refuted(w))
          IN IF r > 0 THEN r ELSE 0
Unpenalised(w) == Merits(w) * (IF claims[w] = 0 THEN 1 ELSE claims[w])

\* A pass on phi may be no simulation of its own, so that it is no claim.
Unclaimed(phi) == credit[phi].proofs > 0 \/ \E psi \in Props : phi \in board.shares[psi]

(* A pass refuted later costs reputation: no worker stands higher for its   *)
(* miscalibrations than it would without them, unless a refuted pass was    *)
(* shared evidence or a bounded proof.  Those are no claims, and with more  *)
(* refutations than claims two negative factors make a positive reputation. *)
MiscalibrationNeverPays ==
  \A w \in Workers : Raw(w) > Unpenalised(w) =>
    \E i \in 1..Len(calibration) : calibration[i][1] = w /\ Unclaimed(calibration[i][2])
=============================================================================
