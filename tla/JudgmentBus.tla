----------------------------- MODULE JudgmentBus -----------------------------
(***************************************************************************)
(* The judgment bus of voe/bus.py over the kernel's knowledge state        *)
(* (docs/vsa_reference.py): workers publish judgments, and the bus decides *)
(* which judgment on a property is the canonical belief, who owns it, and  *)
(* whose pass a counterexample has refuted.                                *)
(***************************************************************************)
EXTENDS Adjudication

VARIABLE history      \* the audit trail as a set: <<worker, judgment>>, its n_eff kept

busVars == <<K, contributor, calibration, history>>

Publish(worker, j) ==
  /\ history' = history \cup {<<worker, j>>}
  /\ calibration' = IF Refutes(worker, j)
                    THEN Append(calibration, <<contributor[j.phi], j.phi>>)
                    ELSE calibration
  /\ K' = [K EXCEPT ![j.phi] = Merged(@, j)]
  /\ contributor' = [contributor EXCEPT ![j.phi] = IF Accepted(K[j.phi], j) THEN worker ELSE @]

BusInit ==
  /\ K = [phi \in Props |-> NoBelief]
  /\ contributor = [phi \in Props |-> NoOne]
  /\ calibration = <<>>
  /\ history = {}

BusNext == \E w \in Workers, j \in Messages : Publish(w, j)
BusSpec == BusInit /\ [][BusNext]_busVars

-----------------------------------------------------------------------------
BusTypeOK ==
  /\ K \in [Props -> Messages \cup {NoBelief}]
  /\ \A phi \in Props : K[phi] # NoBelief => K[phi].phi = phi
  /\ contributor \in [Props -> Workers \cup {NoOne}]
  /\ calibration \in Seq(Workers \X Props)
  /\ history \subseteq Workers \X Messages

(* "The authoritative belief on a property is a function of the evidence":  *)
(* the belief is one of the judgments published on the property, it belongs *)
(* to a worker that published it, and no published judgment has more        *)
(* authority.                                                               *)
BeliefIsStrongest ==
  \A phi \in Props :
    /\ K[phi] # NoBelief => <<contributor[phi], K[phi]>> \in history
    /\ \A h \in history : h[2].phi = phi =>
         K[phi] # NoBelief /\ RankGeq(K[phi], h[2])

(* Whose judgment on a property no other published one outranks.            *)
Strongest(phi) ==
  {h[1] : h \in {g \in history :
     g[2].phi = phi /\ \A o \in history : o[2].phi = phi => RankGeq(g[2], o[2])}}

(* Blame falls when an open property is refuted and at no other time, on    *)
(* one other worker than the refuter, whose pass no published one outranks; *)
(* and a refutation goes without blame only if nothing was published on the *)
(* property or the refuter had such a pass itself. The workers with weaker  *)
(* or equal passes are not flagged, though Sem-1 in the docstring of        *)
(* voe/bus.py speaks of the passers.                                        *)
BlameIsEarned ==
  [][/\ calibration' # calibration =>
          \E phi \in Props : \E w \in Strongest(phi) :
            /\ calibration' = Append(calibration, <<w, phi>>)
            /\ ~Closed(phi) /\ Disproven(phi)' /\ contributor'[phi] # w
     /\ \A phi \in Props : ~Closed(phi) /\ Disproven(phi)' /\ Strongest(phi) # {} =>
          calibration' # calibration \/ contributor'[phi] \in Strongest(phi)]_busVars

(* A closed property is never open again, and authority never falls.        *)
AuthorityNeverFalls ==
  [][\A phi \in Props :
       /\ Closed(phi) => Closed(phi)'
       /\ K[phi] # NoBelief => K'[phi] # NoBelief /\ RankGeq(K'[phi], K[phi])]_busVars
=============================================================================
