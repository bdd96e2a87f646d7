------------------------ MODULE RunManifestContract ------------------------
(***************************************************************************)
(* What the shared manifest promises the agents that update it through     *)
(* atomic_update_manifest: a call takes effect at one instant, on the      *)
(* manifest as it is then, or not at all; once it has returned normally    *)
(* its keys stay until another call writes them.  A process may die during *)
(* a call, before or after that instant.                                   *)
(***************************************************************************)
EXTENDS ManifestDoc
CONSTANTS Processes, Unreadable
VARIABLES doc,     \* what a reader of the file gets
          state,   \* of each process's call: out, asked, kept, refused, dead
          todo     \* the keys the caller wants changed, with their values
cvars == <<doc, state, todo>>

CInit == /\ doc \in Docs \union {Unreadable}
         /\ state = [p \in Processes |-> "out"]
         /\ todo \in [Processes -> Updates]

Ask(p) == /\ state[p] = "out"
          /\ state' = [state EXCEPT ![p] = "asked"]
          /\ \E u \in Updates : todo' = [todo EXCEPT ![p] = u]
          /\ UNCHANGED doc

Keep(p) == /\ state[p] = "asked"
           /\ doc # Unreadable /\ ~Conflicts(doc, todo[p])
           /\ doc' = Applied(doc, todo[p])
           /\ state' = [state EXCEPT ![p] = "kept"]
           /\ UNCHANGED todo

Refuse(p) == /\ state[p] = "asked"
             /\ state' = [state EXCEPT ![p] = "refused"]
             /\ UNCHANGED <<doc, todo>>

Return(p) == /\ state[p] \in {"kept", "refused"}
             /\ state' = [state EXCEPT ![p] = "out"]
             /\ UNCHANGED <<doc, todo>>

Die(p) == /\ state' = [state EXCEPT ![p] = "dead"]
          /\ UNCHANGED <<doc, todo>>

CNext == \E p \in Processes :
  Ask(p) \/ Keep(p) \/ Refuse(p) \/ Return(p) \/ Die(p)

CSpec == CInit /\ [][CNext]_cvars
=============================================================================
