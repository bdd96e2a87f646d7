------------------------- MODULE RunManifestProofs -------------------------
(***************************************************************************)
(* Proofs about RunManifest, for any sets of agents, keys, values and      *)
(* calls.  The invariant ties the copy of whoever is inside                *)
(* atomic_update_manifest to the file as it still is: it holds the lock    *)
(* from before it read the file, and only the holder publishes.            *)
(***************************************************************************)
EXTENDS RunManifest, TLAPS

Inside == {"locked", "applied", "writing", "written", "published", "raised"}
Working == {"applied", "writing", "written"}

LockHeld == \A p \in Processes : pc[p] \in Inside => lock = p

CopyCurrent == \A p \in Processes : pc[p] \in Working =>
  /\ Live # Torn
  /\ ~Conflicts(Live, wants[p])
  /\ copy[p] = Applied(Live, wants[p])

TempReady == \A p \in Processes :
  /\ pc[p] \in {"writing", "written"} => fd[p] \in Inodes /\ fd[p] # manifest
  /\ pc[p] = "written" => content[fd[p]] = copy[p]

IntentSent == wants = intent

ManifestInv == /\ ManifestTypeOK /\ LockHeld /\ CopyCurrent /\ TempReady
               /\ IntentSent /\ UpdatesKept

USE DocAssumption, ManifestAssumption

-----------------------------------------------------------------------------
(* The data. *)

\* A dictionary that does not conflict with a manifest makes a manifest of it.
LEMMA AppliedTyped ==
  ASSUME NEW d \in Docs, NEW u \in Updates, ~Conflicts(d, u)
  PROVE  Applied(d, u) \in Docs
<1> DEFINE e == Applied(d, u)
<1>1. DOMAIN u \subseteq Paths /\ \A q \in DOMAIN u : u[q] \in Values
  BY DEF Updates
<1>2. e \in [Paths -> Values \union {NoValue}]
  BY <1>1 DEF Applied, Docs
<1>3. ASSUME NEW q \in Paths, e[q] # NoValue, q[2] # Whole
      PROVE  e[<<q[1], Whole>>] = NoValue
  <2> DEFINE w == <<q[1], Whole>>
  <2>1. w \in Paths /\ w[1] = q[1] /\ w[2] = Whole
    BY DEF Paths
  <2>2. w \notin DOMAIN u
    <3>1. CASE q \in DOMAIN u
      BY <3>1, <1>3 DEF Updates
    <3>2. CASE q \notin DOMAIN u
      BY <3>2, <1>3 DEF Applied
    <3> QED
      BY <3>1, <3>2
  <2>3. e[w] = d[w]
    BY <2>1, <2>2 DEF Applied
  <2>4. CASE q \in DOMAIN u
    BY <2>3, <2>4, <1>3 DEF Conflicts
  <2>5. CASE q \notin DOMAIN u
    <3>1. d[q] # NoValue
      BY <2>5, <2>2, <1>3 DEF Applied
    <3> QED
      BY <3>1, <2>3, <1>3 DEF Docs
  <2> QED
    BY <2>4, <2>5
<1> QED
  BY <1>2, <1>3 DEF Docs

\* changed_keys finds exactly what the verifier set that is news.
LEMMA ChangedKeysIsNews ==
  ASSUME NEW d \in Docs, NEW u \in Updates, ~Conflicts(d, u)
  PROVE  /\ ChangedKeys(d, Applied(d, u)) = News(d, u)
         /\ News(d, u) \in Updates
<1> DEFINE e == Applied(d, u)
           D == {r \in DOMAIN u : u[r] # d[r]}
<1>1. DOMAIN u \subseteq Paths /\ \A q \in DOMAIN u : u[q] \in Values
  BY DEF Updates
<1>2. ASSUME NEW q \in Paths
      PROVE  e[q] # NoValue /\ e[q] # d[q] <=> q \in D
  BY <1>1 DEF Applied
<1>3. {r \in Paths : e[r] # NoValue /\ e[r] # d[r]} = D
  BY <1>1, <1>2
<1>4. \A q \in D : e[q] = u[q]
  BY <1>1 DEF Applied
<1>5. ChangedKeys(d, e) = News(d, u)
  BY <1>3, <1>4 DEF ChangedKeys, News
<1>6. News(d, u) \in [D -> Values] /\ D \in SUBSET Paths
  BY <1>1 DEF News
<1>7. DOMAIN News(d, u) = D
  BY DEF News
<1>8. \A q \in D : q[2] # Whole => <<q[1], Whole>> \notin D
  BY DEF Updates
<1> QED
  BY <1>5, <1>6, <1>7, <1>8 DEF Updates

\* mkstemp gives a file that is neither the manifest nor open elsewhere.
LEMMA TargetUnused ==
  ASSUME Unused # {}
  PROVE  /\ Target \in Inodes /\ Target # manifest
         /\ \A p \in Processes : fd[p] # Target
<1>1. Target \in Unused
  BY Zenon DEF Target
<1> QED
  BY <1>1 DEF Unused
-----------------------------------------------------------------------------
(* The invariant. *)

LEMMA BlankTyped == Blank \in Docs
BY DEF Blank, Docs, Paths

LEMMA InitInv == Init => ManifestInv
<1> SUFFICES ASSUME Init PROVE ManifestInv
  OBVIOUS
<1>1. manifest \in Inodes \union {NoFile}
  <2>1. (CHOOSE i \in Inodes : TRUE) \in Inodes
    BY Zenon
  <2> QED
    BY <2>1 DEF Init
<1>2. Nothing \in Updates
  <2>1. Nothing \in [{} -> Values] /\ DOMAIN Nothing = {} /\ {} \in SUBSET Paths
    BY DEF Nothing
  <2> QED
    BY <2>1 DEF Updates
<1>3. content \in [Inodes -> Docs \union {Torn}] /\ Live \in Docs \union {Torn}
  BY <1>1 DEF Init, Live
<1>4. meant \in Docs /\ UpdatesKept
  BY <1>3, BlankTyped DEF Init, UpdatesKept
<1>5. ManifestTypeOK
  BY <1>1, <1>2, <1>3, <1>4, BlankTyped DEF Init, ManifestTypeOK, States
<1>6. LockHeld /\ CopyCurrent /\ TempReady /\ IntentSent
  BY DEF Init, LockHeld, CopyCurrent, TempReady, IntentSent, Inside, Working
<1> QED
  BY <1>4, <1>5, <1>6 DEF ManifestInv

\* A step that leaves the files, the copies and the dictionaries alone.
LEMMA QuietStep ==
  ASSUME ManifestInv, NEW p \in Processes, NEW s \in States,
         pc' = [pc EXCEPT ![p] = s], UNCHANGED <<intent, wants, files>>,
         calls' \in [Processes -> 0..MaxCalls],
         \/ UNCHANGED copy /\ (s \in Working => FALSE)
         \/ /\ copy' \in [Processes -> Docs] /\ s \notin Working
            /\ \A q \in Processes \ {p} : copy'[q] = copy[q],
         UNCHANGED fd,
         \/ /\ lock' = p /\ lock = NoProcess
         \/ /\ UNCHANGED lock /\ (s \in Inside => pc[p] \in Inside)
         \/ /\ lock' = IF lock = p THEN NoProcess ELSE lock
            /\ s \notin Inside
  PROVE  ManifestInv'
<1> USE DEF ManifestInv
<1>1. Live' = Live
  BY DEF Live, files
<1>2. ManifestTypeOK'
  BY DEF ManifestTypeOK, files
<1>3. LockHeld'
  BY DEF LockHeld, ManifestTypeOK
<1>4. CopyCurrent'
  BY <1>1 DEF CopyCurrent, ManifestTypeOK, Working
<1>5. TempReady'
  BY DEF TempReady, ManifestTypeOK, Working, files
<1>6. IntentSent' /\ UpdatesKept'
  BY <1>1 DEF IntentSent, UpdatesKept, files
<1> QED
  BY <1>2, <1>3, <1>4, <1>5, <1>6

LEMMA CallInv == ASSUME ManifestInv, NEW p \in Processes, Call(p) PROVE ManifestInv'
<1> USE DEF ManifestInv, Call, Go
<1>1. Live' = Live
  BY DEF Live, files
<1>2. ManifestTypeOK'
  BY DEF ManifestTypeOK, States, files
<1>3. LockHeld' /\ CopyCurrent' /\ TempReady'
  BY <1>1 DEF LockHeld, CopyCurrent, TempReady, ManifestTypeOK, Inside, Working, files
<1>4. IntentSent' /\ UpdatesKept'
  BY <1>1 DEF IntentSent, UpdatesKept, ManifestTypeOK, files
<1> QED
  BY <1>2, <1>3, <1>4

LEMMA CommitInv == ASSUME ManifestInv, NEW p \in Processes, Commit(p) PROVE ManifestInv'
<1> USE DEF ManifestInv, Commit, Go
<1>0. PICK u \in Offered :
         /\ ~Conflicts(copy[p], u)
         /\ intent' = [intent EXCEPT ![p] = News(copy[p], u)]
         /\ wants' = [wants EXCEPT ![p] = ChangedKeys(copy[p], Applied(copy[p], u))]
  OBVIOUS
<1>1. Live' = Live
  BY DEF Live, files
<1>2. /\ ChangedKeys(copy[p], Applied(copy[p], u)) = News(copy[p], u)
      /\ News(copy[p], u) \in Updates
  <2>1. copy[p] \in Docs /\ u \in Updates
    BY DEF ManifestTypeOK
  <2> QED
    BY <2>1, <1>0, ChangedKeysIsNews
<1>3. ManifestTypeOK'
  BY <1>0, <1>2 DEF ManifestTypeOK, States, files
<1>4. LockHeld' /\ TempReady'
  BY DEF LockHeld, TempReady, ManifestTypeOK, Inside, files
<1>5. CopyCurrent'
  BY <1>0, <1>1 DEF CopyCurrent, ManifestTypeOK, Working
<1>6. IntentSent' /\ UpdatesKept'
  BY <1>0, <1>1, <1>2 DEF IntentSent, UpdatesKept, files
<1> QED
  BY <1>3, <1>4, <1>5, <1>6

LEMMA ApplyInv == ASSUME ManifestInv, NEW p \in Processes, Apply(p) PROVE ManifestInv'
<1> USE DEF ManifestInv, Apply, Go, Applicable
<1>1. Live' = Live
  BY DEF Live, files
<1>2. Live \in Docs /\ wants[p] \in Updates
  BY DEF Live, ManifestTypeOK
<1>3. Applied(Live, wants[p]) \in Docs
  BY <1>2, AppliedTyped
<1>4. ManifestTypeOK'
  BY <1>3 DEF ManifestTypeOK, States, local, files
<1>5. LockHeld' /\ TempReady'
  BY DEF LockHeld, TempReady, ManifestTypeOK, Inside, files
<1>6. CopyCurrent'
  BY <1>1 DEF CopyCurrent, ManifestTypeOK, Working, local
<1>7. IntentSent' /\ UpdatesKept'
  BY <1>1 DEF IntentSent, UpdatesKept, local, files
<1> QED
  BY <1>4, <1>5, <1>6, <1>7

LEMMA OpenTempInv ==
  ASSUME ManifestInv, NEW p \in Processes, OpenTemp(p) PROVE ManifestInv'
<1> USE DEF ManifestInv, OpenTemp, Go
<1>1. /\ Target \in Inodes /\ Target # manifest
      /\ \A q \in Processes : fd[q] # Target
  BY TargetUnused
<1>2. Live' = Live
  BY <1>1 DEF Live, ManifestTypeOK
<1>3. ManifestTypeOK'
  BY <1>1 DEF ManifestTypeOK, States, local
<1>4. LockHeld'
  BY DEF LockHeld, ManifestTypeOK, Inside
<1>5. CopyCurrent'
  BY <1>2 DEF CopyCurrent, ManifestTypeOK, Working, local
<1>6. TempReady'
  BY <1>1 DEF TempReady, ManifestTypeOK
<1>7. IntentSent' /\ UpdatesKept'
  BY <1>2 DEF IntentSent, UpdatesKept, local
<1> QED
  BY <1>3, <1>4, <1>5, <1>6, <1>7
LEMMA WriteInv ==
  ASSUME ManifestInv, NEW p \in Processes, Write(p) PROVE ManifestInv'
<1> USE DEF ManifestInv, Write, Go
<1>1. fd[p] \in Inodes /\ fd[p] # manifest
  BY DEF TempReady
<1>2. Live' = Live
  BY <1>1 DEF Live, ManifestTypeOK
<1>3. \A q \in Processes : pc[q] \in Inside => q = p
  BY DEF LockHeld, Inside
<1>4. ManifestTypeOK'
  BY <1>1 DEF ManifestTypeOK, States, local
<1>5. LockHeld' /\ CopyCurrent'
  BY <1>2 DEF LockHeld, CopyCurrent, ManifestTypeOK, Inside, Working, local
<1>6. TempReady'
  BY <1>1, <1>3 DEF TempReady, ManifestTypeOK, Inside
<1>7. IntentSent' /\ UpdatesKept'
  BY <1>2 DEF IntentSent, UpdatesKept, local
<1> QED
  BY <1>4, <1>5, <1>6, <1>7

\* The file that Publish puts in place is the update of the one it replaces.
LEMMA PublishEffect ==
  ASSUME ManifestInv, NEW p \in Processes, Publish(p)
  PROVE  /\ Live # Torn /\ ~Conflicts(Live, intent[p])
         /\ Live' = Applied(Live, intent[p]) /\ Live' \in Docs
<1> USE DEF ManifestInv, Publish, Go
<1>1. /\ Live # Torn /\ ~Conflicts(Live, wants[p])
      /\ copy[p] = Applied(Live, wants[p]) /\ wants[p] = intent[p]
  BY DEF CopyCurrent, Working, IntentSent
<1>2. fd[p] \in Inodes /\ content[fd[p]] = copy[p] /\ copy[p] \in Docs
  BY DEF TempReady, ManifestTypeOK
<1>3. Live' = copy[p]
  BY <1>2 DEF Live
<1> QED
  BY <1>1, <1>2, <1>3

LEMMA PublishInv ==
  ASSUME ManifestInv, NEW p \in Processes, Publish(p) PROVE ManifestInv'
<1> USE DEF ManifestInv, Publish, Go
<1>1. /\ Live # Torn /\ Live' = Applied(Live, intent[p]) /\ Live' \in Docs
  BY PublishEffect
<1>2. UpdatesKept' /\ meant' \in Docs
  BY <1>1 DEF UpdatesKept
<1>3. \A q \in Processes : pc[q] \in Inside => q = p
  BY DEF LockHeld, Inside
<1>4. fd[p] \in Inodes
  BY DEF TempReady
<1>5. ManifestTypeOK'
  BY <1>2, <1>4 DEF ManifestTypeOK, States, local
<1>6. LockHeld'
  BY DEF LockHeld, ManifestTypeOK, Inside
<1>7. CopyCurrent' /\ TempReady'
  BY <1>3 DEF CopyCurrent, TempReady, ManifestTypeOK, Inside, Working
<1>8. IntentSent'
  BY DEF IntentSent, local
<1> QED
  BY <1>2, <1>5, <1>6, <1>7, <1>8

LEMMA AbortInv ==
  ASSUME ManifestInv, NEW p \in Processes, Abort(p) PROVE ManifestInv'
<1> USE DEF ManifestInv, Abort
<1>1. Live' = Live
  BY DEF Live
<1>2. temp' \in [Inodes \union {Fixed} -> Inodes \union {NoFile}]
  BY DEF ManifestTypeOK, Unlinked
<1>3. ManifestTypeOK'
  BY <1>2 DEF ManifestTypeOK, States, local
<1>4. LockHeld' /\ TempReady'
  BY DEF LockHeld, TempReady, ManifestTypeOK, Inside
<1>5. CopyCurrent'
  BY <1>1 DEF CopyCurrent, ManifestTypeOK, Working, local
<1>6. IntentSent' /\ UpdatesKept'
  BY <1>1 DEF IntentSent, UpdatesKept, local
<1> QED
  BY <1>3, <1>4, <1>5, <1>6

LEMMA LoadInv ==
  ASSUME ManifestInv, NEW p \in Processes, Load(p) PROVE ManifestInv'
<1> USE DEF ManifestInv, Load, Go
<1>1. calls' \in [Processes -> 0..MaxCalls] /\ "running" \in States
  BY DEF ManifestTypeOK, States
<1>2. Live \in Docs
  BY DEF Live, ManifestTypeOK
<1>3. /\ copy' \in [Processes -> Docs]
      /\ \A q \in Processes \ {p} : copy'[q] = copy[q]
  BY <1>2 DEF ManifestTypeOK
<1> QED
  BY <1>1, <1>3, QuietStep DEF Inside, Working, files

LEMMA OtherInv ==
  ASSUME ManifestInv, NEW p \in Processes,
         Acquire(p) \/ Reject(p) \/ Release(p) \/ Crash(p) \/ Unchanged(p)
  PROVE  ManifestInv'
<1> USE DEF ManifestInv, Go
<1>0. /\ calls \in [Processes -> 0..MaxCalls]
      /\ {"locked", "raised", "idle", "dead"} \subseteq States
      /\ [copy EXCEPT ![p] = Blank] \in [Processes -> Docs]
      /\ \A q \in Processes \ {p} : [copy EXCEPT ![p] = Blank][q] = copy[q]
  BY BlankTyped DEF ManifestTypeOK, States
<1>1. CASE Acquire(p)
  BY <1>0, <1>1, QuietStep DEF Acquire, Available, Inside, Working, files, local
<1>2. CASE Reject(p)
  BY <1>0, <1>2, QuietStep DEF Reject, Inside, Working, files, local
<1>3. CASE Release(p)
  BY <1>0, <1>3, QuietStep DEF Release, Freed, Inside, Working, files, local
<1>4. CASE Crash(p)
  BY <1>0, <1>4, QuietStep DEF Crash, Inside, Working, files, local
<1>5. CASE Unchanged(p)
  BY <1>0, <1>5, QuietStep DEF Unchanged, Inside, Working, files, local
<1> QED
  BY <1>1, <1>2, <1>3, <1>4, <1>5

LEMMA NextInv == ManifestInv /\ [Next]_vars => ManifestInv'
<1> SUFFICES ASSUME ManifestInv, [Next]_vars PROVE ManifestInv'
  OBVIOUS
<1>1. CASE UNCHANGED vars
  <2>1. Live' = Live
    BY <1>1 DEF Live, vars
  <2> QED
    BY <1>1, <2>1 DEF vars, ManifestInv, ManifestTypeOK, LockHeld, CopyCurrent,
       TempReady, IntentSent, UpdatesKept
<1>2. CASE Next
  <2>1. PICK p \in Processes :
          \/ Call(p) \/ Commit(p) \/ Apply(p) \/ OpenTemp(p) \/ Write(p)
          \/ Publish(p) \/ Abort(p) \/ Load(p)
          \/ Acquire(p) \/ Reject(p) \/ Release(p) \/ Crash(p) \/ Unchanged(p)
    BY <1>2 DEF Next
  <2> QED
    BY <2>1, CallInv, CommitInv, ApplyInv, OpenTempInv, WriteInv, PublishInv,
       AbortInv, LoadInv, OtherInv
<1> QED
  BY <1>1, <1>2

\* Every variable keeps its type, and the manifest never holds a key both as
\* a value and as a section (manifest_io.py _apply).
THEOREM TypeCorrect == Spec => []ManifestTypeOK
<1>1. ManifestInv => ManifestTypeOK
  BY DEF ManifestInv
<1> QED
  BY <1>1, InitInv, NextInv, PTL DEF Spec

\* No published update is lost and none is seen in part, whatever the agents'
\* interleaving, crashes and exceptions (manifest_io.py atomic_update_manifest,
\* manifest_merge.py commit_manifest).
THEOREM NoLostUpdate == Spec => []UpdatesKept
<1>1. ManifestInv => UpdatesKept
  BY DEF ManifestInv
<1> QED
  BY <1>1, InitInv, NextInv, PTL DEF Spec
-----------------------------------------------------------------------------
(* The manifest implements its contract. *)

Calling == [q \in Processes |-> StateOf(q)]

\* A step of p moves p's state alone.
LEMMA StateMoves ==
  ASSUME pc \in [Processes -> States], NEW p \in Processes, NEW s \in States,
         pc' = [pc EXCEPT ![p] = s]
  PROVE  /\ \A q \in Processes \ {p} : StateOf(q)' = StateOf(q)
         /\ Calling' = [Calling EXCEPT ![p] = StateOf(p)']
<1>1. \A q \in Processes \ {p} : StateOf(q)' = StateOf(q)
  BY DEF StateOf
<1> QED
  BY <1>1 DEF Calling

\* A step that leaves the file's content and the intents as they are.
LEMMA LiveKept ==
  ASSUME ManifestInv, NEW p \in Processes,
         \/ Call(p) \/ Acquire(p) \/ Apply(p) \/ Reject(p) \/ OpenTemp(p) \/ Write(p)
         \/ Abort(p) \/ Release(p) \/ Crash(p) \/ Load(p) \/ Unchanged(p) \/ Commit(p)
  PROVE  Live' = Live
<1>1. CASE OpenTemp(p)
  <2>1. Target \in Inodes /\ Target # manifest
    BY <1>1, TargetUnused DEF OpenTemp
  <2> QED
    BY <1>1, <2>1 DEF OpenTemp, Live, ManifestInv, ManifestTypeOK
<1>2. CASE Write(p)
  <2>1. fd[p] \in Inodes /\ fd[p] # manifest
    BY <1>2 DEF Write, Go, ManifestInv, TempReady
  <2> QED
    BY <1>2, <2>1 DEF Write, Live, ManifestInv, ManifestTypeOK
<1>3. CASE /\ ~OpenTemp(p) /\ ~Write(p)
  BY <1>3 DEF Call, Acquire, Apply, Reject, Abort, Release, Crash, Load, Unchanged,
     Commit, Live, files
<1> QED
  BY <1>1, <1>2, <1>3

\* The contract's data are the manifest's.
LEMMA SameData ==
  /\ Contract!Updates = Updates /\ Contract!Docs = Docs
  /\ \A d, u : Contract!Applied(d, u) = Applied(d, u)
  /\ \A d, u : Contract!Conflicts(d, u) <=> Conflicts(d, u)
BY DEF Contract!Updates, Contract!Docs, Contract!Applied, Contract!Conflicts,
   Contract!Paths, Updates, Docs, Applied, Conflicts, Paths

LEMMA StepImplements ==
  ASSUME ManifestInv, NEW p \in Processes,
         \/ Call(p) \/ Acquire(p) \/ Apply(p) \/ Reject(p) \/ OpenTemp(p) \/ Write(p)
         \/ Publish(p) \/ Abort(p) \/ Release(p) \/ Crash(p) \/ Load(p)
         \/ Unchanged(p) \/ Commit(p)
  PROVE  [Contract!CNext]_(Contract!cvars)
<1> DEFINE quiet == Live' = Live /\ intent' = intent
<1>0. /\ pc \in [Processes -> States] 
      /\ Calling[p] = StateOf(p)
  BY DEF ManifestInv, ManifestTypeOK, Calling
<1> HIDE DEF quiet
<1>1. ASSUME quiet, NEW s \in States, pc' = [pc EXCEPT ![p] = s], StateOf(p)' = StateOf(p)
      PROVE  UNCHANGED Contract!cvars
  <2>1. Calling' = Calling
    <3>1. \A q \in Processes : StateOf(q)' = StateOf(q)
      BY <1>0, <1>1, StateMoves
    <3> QED
      BY <3>1 DEF Calling
  <2> QED
    BY <1>1, <2>1 DEF Contract!cvars, quiet, Calling
<1>2. CASE Call(p)
  <2>1. Live' = Live /\ pc' = [pc EXCEPT ![p] = "waiting"] /\ "waiting" \in States
    BY <1>2, LiveKept DEF Call, Go, States
  <2>2. Calling' = [Calling EXCEPT ![p] = "asked"] /\ Calling[p] = "out"
    BY <1>0, <1>2, <2>1, StateMoves DEF Call, Go, StateOf
  <2>3. \E u \in Updates : intent' = [intent EXCEPT ![p] = u]
    BY <1>2 DEF Call
  <2>4. Contract!Ask(p)
    BY <2>1, <2>2, <2>3, SameData DEF Contract!Ask, Calling
  <2> QED
    BY <2>4 DEF Contract!CNext
<1>3. CASE Commit(p)
  <2>1. Live' = Live /\ pc' = [pc EXCEPT ![p] = "waiting"] /\ "waiting" \in States
    BY <1>3, LiveKept DEF Commit, Go, States
  <2>2. Calling' = [Calling EXCEPT ![p] = "asked"] /\ Calling[p] = "out"
    BY <1>0, <1>3, <2>1, StateMoves DEF Commit, Go, StateOf
  <2>3. \E u \in Updates : intent' = [intent EXCEPT ![p] = u]
    <3>1. PICK u \in Offered : /\ ~Conflicts(copy[p], u)
                               /\ intent' = [intent EXCEPT ![p] = News(copy[p], u)]
      BY <1>3 DEF Commit
    <3>2. copy[p] \in Docs /\ u \in Updates
      BY DEF ManifestInv, ManifestTypeOK
    <3>3. News(copy[p], u) \in Updates
      BY <3>1, <3>2, ChangedKeysIsNews
    <3> QED
      BY <3>1, <3>3
  <2>4. Contract!Ask(p)
    BY <2>1, <2>2, <2>3, SameData DEF Contract!Ask, Calling
  <2> QED
    BY <2>4 DEF Contract!CNext
<1>4. CASE Publish(p)
  <2>1. /\ Live # Torn /\ ~Conflicts(Live, intent[p])
        /\ Live' = Applied(Live, intent[p])
        /\ pc' = [pc EXCEPT ![p] = "published"] /\ "published" \in States
        /\ intent' = intent
    BY <1>4, PublishEffect DEF Publish, Go, States, local
  <2>2. Calling' = [Calling EXCEPT ![p] = "kept"] /\ Calling[p] = "asked"
    BY <1>0, <1>4, <2>1, StateMoves DEF Publish, Go, StateOf
  <2>3. Contract!Keep(p)
    BY <2>1, <2>2, SameData DEF Contract!Keep, Calling
  <2> QED
    BY <2>3 DEF Contract!CNext
<1>5. CASE Reject(p) \/ Abort(p)
  <2>1. Live' = Live /\ pc' = [pc EXCEPT ![p] = "raised"] /\ "raised" \in States
        /\ intent' = intent
    BY <1>5, LiveKept DEF Reject, Abort, Go, States, local
  <2>2. Calling' = [Calling EXCEPT ![p] = "refused"] /\ Calling[p] = "asked"
    BY <1>0, <1>5, <2>1, StateMoves DEF Reject, Abort, Go, StateOf
  <2>3. Contract!Refuse(p)
    BY <2>1, <2>2 DEF Contract!Refuse, Calling
  <2> QED
    BY <2>3 DEF Contract!CNext
<1>6. CASE Release(p)
  <2>1. Live' = Live /\ pc' = [pc EXCEPT ![p] = "idle"] /\ "idle" \in States
        /\ intent' = intent
    BY <1>6, LiveKept DEF Release, States, local
  <2>2. Calling' = [Calling EXCEPT ![p] = "out"] /\ Calling[p] \in {"kept", "refused"}
    BY <1>0, <1>6, <2>1, StateMoves DEF Release, StateOf
  <2>3. Contract!Return(p)
    BY <2>1, <2>2 DEF Contract!Return, Calling
  <2> QED
    BY <2>3 DEF Contract!CNext
<1>7. CASE Crash(p)
  <2>1. Live' = Live /\ pc' = [pc EXCEPT ![p] = "dead"] /\ "dead" \in States
        /\ intent' = intent
    BY <1>7, LiveKept DEF Crash, States, local
  <2>2. Calling' = [Calling EXCEPT ![p] = "dead"]
    BY <1>0, <1>7, <2>1, StateMoves DEF StateOf
  <2>3. Contract!Die(p)
    BY <2>1, <2>2 DEF Contract!Die, Calling
  <2> QED
    BY <2>3 DEF Contract!CNext
<1>8. CASE Acquire(p) \/ Apply(p) \/ OpenTemp(p) \/ Write(p)
  <2>1. quiet
    BY <1>8, LiveKept DEF Acquire, Apply, OpenTemp, Write, local, quiet
  <2>2. PICK s \in {"locked", "applied", "writing", "written"} : pc' = [pc EXCEPT ![p] = s]
    BY <1>8 DEF Acquire, Apply, OpenTemp, Write, Go
  <2>3. StateOf(p)' = StateOf(p)
    BY <1>0, <1>8, <2>2 DEF Acquire, Apply, OpenTemp, Write, Go, StateOf
  <2> QED
    BY <1>1, <2>1, <2>2, <2>3 DEF States
<1>9. CASE Load(p) \/ Unchanged(p)
  <2>1. quiet
    BY <1>9, LiveKept DEF Load, Unchanged, local, quiet
  <2>2. PICK s \in {"running", "idle"} : pc' = [pc EXCEPT ![p] = s]
    BY <1>9 DEF Load, Unchanged, Go
  <2>3. StateOf(p)' = StateOf(p)
    BY <1>0, <1>9, <2>2 DEF Load, Unchanged, Go, StateOf
  <2> QED
    BY <1>1, <2>1, <2>2, <2>3 DEF States
<1> QED
  BY <1>2, <1>3, <1>4, <1>5, <1>6, <1>7, <1>8, <1>9

\* Every call takes effect at one instant or not at all (manifest_io.py:10,
\* the contract tests/test_manifest_concurrency.py states).
THEOREM AtomicManifest == Spec => ManifestIsAtomic
<1>1. Init => Contract!CInit
  <2> SUFFICES ASSUME Init PROVE Contract!CInit
    OBVIOUS
  <2>1. ManifestTypeOK
    BY InitInv DEF ManifestInv
  <2>2. Live \in Docs \union {Torn} /\ intent \in [Processes -> Updates]
    BY <2>1 DEF ManifestTypeOK, Live
  <2>3. Calling = [q \in Processes |-> "out"]
    BY DEF Init, Calling, StateOf
  <2> QED
    BY <2>2, <2>3, SameData DEF Contract!CInit, Calling
<1>2. ManifestInv /\ [Next]_vars => [Contract!CNext]_(Contract!cvars)
  <2> SUFFICES ASSUME ManifestInv, [Next]_vars PROVE [Contract!CNext]_(Contract!cvars)
    OBVIOUS
  <2>1. CASE UNCHANGED vars
    BY <2>1 DEF vars, Contract!cvars, Live, StateOf
  <2>2. CASE Next
    BY <2>2, StepImplements DEF Next
  <2> QED
    BY <2>1, <2>2
<1> QED
  BY <1>1, <1>2, InitInv, NextInv, PTL DEF Spec, ManifestIsAtomic, Contract!CSpec

\* No update makes a readable manifest unreadable, nor replaces one that is
\* missing or corrupt (manifest_io.py:6).
THEOREM StaysReadable == Spec => ReadabilityKept
<1>1. ManifestInv /\ [Next]_vars => [(Live = Torn) <=> (Live' = Torn)]_vars
  <2> SUFFICES ASSUME ManifestInv, Next PROVE (Live = Torn) <=> (Live' = Torn)
    OBVIOUS
  <2>1. PICK p \in Processes :
          \/ Publish(p)
          \/ Call(p) \/ Acquire(p) \/ Apply(p) \/ Reject(p) \/ OpenTemp(p) \/ Write(p)
          \/ Abort(p) \/ Release(p) \/ Crash(p) \/ Load(p) \/ Unchanged(p) \/ Commit(p)
    BY DEF Next
  <2>2. CASE Publish(p)
    <3>1. Live # Torn /\ Live' \in Docs
      BY <2>2, PublishEffect
    <3> QED
      BY <3>1
  <2>3. CASE ~Publish(p)
    BY <2>1, <2>3, LiveKept
  <2> QED
    BY <2>2, <2>3
<1> QED
  BY <1>1, InitInv, NextInv, PTL DEF Spec, ReadabilityKept
=============================================================================
