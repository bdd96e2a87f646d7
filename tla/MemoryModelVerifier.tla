------------------------ MODULE MemoryModelVerifier ------------------------
(***************************************************************************)
(* The memory-consistency checker of AGENT_H/memory_model_verifier.py, as  *)
(* operators on an execution: a sequence of operations, each core's in     *)
(* program order, with what the trace says of them.                        *)
(*                                                                         *)
(* An operation has a core, a kind ("load", "store" or "fence"), an addr   *)
(* and a value, the optional cycle, co and rf that the trace may carry,    *)
(* deps, the annotations aq and rl, the optional pred and succ of a fence  *)
(* and the optional group rmw of an atomic.  An absent field is None.      *)
(* Operations are known by their position; the code counts from zero.      *)
(***************************************************************************)
EXTENDS Naturals, Sequences, FiniteSets

CONSTANT None        \* an absent field

Models == {"sc", "tso", "rvwmo"}

Mem(x)    == {i \in DOMAIN x : x[i].kind \in {"load", "store"}}
Loads(x)  == {i \in DOMAIN x : x[i].kind = "load"}
Stores(x) == {i \in DOMAIN x : x[i].kind = "store"}
Fences(x) == {i \in DOMAIN x : x[i].kind = "fence"}

\* The stores of one address, the first argument of _fr_edges per load.
StoresTo(x, a) == {i \in Stores(x) : x[i].addr = a /\ a # None}

\* Program order: the pairs of one core's operations, earlier one first.
ProgramOrder(x) ==
  {e \in (DOMAIN x) \X (DOMAIN x) : e[1] < e[2] /\ x[e[1]].core = x[e[2]].core}

(***************************************************************************)
(* Coherence order: by co where the store has one, then those that only    *)
(* have a cycle, then the rest; ties keep the order of the list.           *)
(***************************************************************************)
CoKey(x, i) ==
  CASE x[i].co # None                      -> <<0, x[i].co>>
    [] x[i].co = None /\ x[i].cycle # None -> <<1, x[i].cycle>>
    [] OTHER                               -> <<2, i>>

CoBefore(x, i, j) ==
  LET k == CoKey(x, i)  l == CoKey(x, j)
  IN  \/ k[1] < l[1]
      \/ k[1] = l[1] /\ k[2] < l[2]
      \/ k = l /\ i < j

CoEdges(x) ==
  {e \in Stores(x) \X Stores(x) :
     x[e[1]].addr = x[e[2]].addr /\ x[e[1]].addr # None /\ CoBefore(x, e[1], e[2])}

(***************************************************************************)
(* The store each load has read from: what the trace says, or the last in  *)
(* coherence order of the stores with its value, or None, the initial      *)
(* value.                                                                  *)
(***************************************************************************)
ReadsFrom(x, l) ==
  LET same == {s \in StoresTo(x, x[l].addr) : x[s].value = x[l].value}
  IN  IF x[l].rf # None THEN x[l].rf
      ELSE IF same = {} THEN None
      ELSE CHOOSE s \in same : \A t \in same \ {s} : CoBefore(x, t, s)

Addressed(x) == {l \in Loads(x) : x[l].addr # None}

ReadsFromEdges(x, externalOnly) ==
  {<<ReadsFrom(x, l), l>> : l \in
     {k \in Addressed(x) : /\ ReadsFrom(x, k) \in Mem(x)
                           /\ externalOnly => x[ReadsFrom(x, k)].core # x[k].core}}

\* Mutation: a load of the initial value orders nothing.
FromReadEdges_Late(x) ==
  {e \in Addressed(x) \X Stores(x) :
     /\ {e[2], ReadsFrom(x, e[1])} \subseteq StoresTo(x, x[e[1]].addr)
     /\ CoBefore(x, ReadsFrom(x, e[1]), e[2])}

\* A load comes before every store that overwrites what it read.
FromReadEdges(x) ==
  {e \in Addressed(x) \X Stores(x) :
     /\ e[2] \in StoresTo(x, x[e[1]].addr)
     /\ LET w == ReadsFrom(x, e[1])
        IN  w = None \/ (w \in StoresTo(x, x[e[1]].addr) /\ CoBefore(x, w, e[2]))}

(***************************************************************************)
(* What each model keeps of program order, and what orders beside it.      *)
(***************************************************************************)
Preserved(x, model, i, j) ==
  CASE model = "sc"    -> TRUE
    [] model = "tso"   -> ~ (x[i].kind = "store" /\ x[j].kind = "load")
    [] model = "rvwmo" -> (x[i].addr # None /\ x[i].addr = x[j].addr) \/ i \in x[j].deps

PreservedEdges(x, model) ==
  {e \in ProgramOrder(x) :
     {e[1], e[2]} \subseteq Mem(x) /\ Preserved(x, model, e[1], e[2])}

Letter(x, i) == IF x[i].kind = "load" THEN "r" ELSE "w"

FenceEdges(x) ==
  {e \in ProgramOrder(x) :
     /\ {e[1], e[2]} \subseteq Mem(x)
     /\ \E f \in Fences(x) :
          /\ <<e[1], f>> \in ProgramOrder(x) /\ <<f, e[2]>> \in ProgramOrder(x)
          /\ x[f].pred = None \/ Letter(x, e[1]) \in x[f].pred
          /\ x[f].succ = None \/ Letter(x, e[2]) \in x[f].succ}

AnnotationEdges(x) ==
  {e \in ProgramOrder(x) :
     {e[1], e[2]} \subseteq Mem(x) /\ (x[e[1]].aq \/ x[e[2]].rl)}

SameAddressEdges(x) ==
  {e \in ProgramOrder(x) :
     /\ {e[1], e[2]} \subseteq Mem(x)
     /\ x[e[1]].addr # None /\ x[e[1]].addr = x[e[2]].addr}

(***************************************************************************)
(* A finite graph has a cycle when a set of nodes exists each of which has *)
(* a predecessor in the set; find_cycle looks for one depth first.         *)
(***************************************************************************)
HasCycle(nodes, edges) ==
  \E c \in (SUBSET nodes) \ {{}} : \A v \in c : \E u \in c : <<u, v>> \in edges

PerLocationEdges(x) ==
  SameAddressEdges(x) \cup ReadsFromEdges(x, FALSE) \cup CoEdges(x) \cup FromReadEdges(x)

GlobalEdges(x, model) ==
  PreservedEdges(x, model) \cup FenceEdges(x) \cup AnnotationEdges(x)
    \cup ReadsFromEdges(x, TRUE) \cup CoEdges(x) \cup FromReadEdges(x)

(***************************************************************************)
(* Between what an atomic's load has read and its own store, no other      *)
(* store of the address may come.  A group's first load and first store    *)
(* count.                                                                  *)
(***************************************************************************)
FirstOf(S) == CHOOSE i \in S : \A j \in S : i <= j

Interposed(x, l, s) ==
  LET w == ReadsFrom(x, l)
      all == StoresTo(x, x[s].addr)
  IN  {t \in all : CoBefore(x, t, s) /\ (w \in all => CoBefore(x, w, t))}

AtomicityBroken(x) ==
  \E g \in {x[i].rmw : i \in Mem(x)} \ {None} :
    LET group == {i \in Mem(x) : x[i].rmw = g}
        ls == group \cap Loads(x)
        ss == group \cap Stores(x)
    IN  /\ ls # {} /\ ss # {}
        /\ x[FirstOf(ss)].addr # None
        /\ Interposed(x, FirstOf(ls), FirstOf(ss)) # {}

\* run(): the checks that report a violation, all of them HIGH.
Violations(x, model) ==
  {c \in {"sc_per_location", "consistency", "rmw_atomicity"} :
     CASE c = "sc_per_location" -> HasCycle(Mem(x), PerLocationEdges(x))
       [] c = "consistency"     -> HasCycle(Mem(x), GlobalEdges(x, model))
       [] c = "rmw_atomicity"   -> AtomicityBroken(x)}

=============================================================================
