---------------------------- MODULE RunManifest ----------------------------
(***************************************************************************)
(* The run manifest shared by the agents, each a process of its own.       *)
(*                                                                         *)
(* Updaters (AGENT_C, AGENT_D) call atomic_update_manifest, which holds    *)
(* the lock of a sidecar file over one read-modify-write and publishes a   *)
(* new file by renaming a temporary one.  Verifiers (AGENT_H) read the     *)
(* manifest without the lock, run, and commit_manifest what they changed   *)
(* through the same call.  Savers (AGENT_I, J, K, L) read it, run, and     *)
(* write their copy back under a fixed temporary name and no lock.         *)
(*                                                                         *)
(* The file system is a directory of inodes: a rename moves a name, a      *)
(* process that has a file open writes to the inode, wherever its name     *)
(* went.  A content is a document or Torn, what is there between opening   *)
(* and the last write.  The operating system frees a dead process's lock.  *)
(***************************************************************************)
EXTENDS ManifestDoc, Integers
CONSTANTS Updaters, Verifiers, Savers,
          Offered,    \* the dictionaries of updates the agents may send
          Initial,    \* what the manifest may hold before the run: Torn, or a document
          Inodes, NoFile, Fixed, Torn, NoProcess,
          MaxCalls    \* bound: the calls one process makes
Processes == Updaters \union Verifiers \union Savers

ASSUME ManifestAssumption ==
  /\ Offered \subseteq Updates
  /\ Initial \subseteq Docs \union {Torn}
  /\ Inodes # {} /\ NoFile \notin Inodes /\ Fixed \notin Inodes /\ Torn \notin Docs
  /\ NoProcess \notin Processes
  /\ Updaters \cap Verifiers = {} /\ MaxCalls \in Nat

VARIABLES
  pc,        \* where each process is
  calls,     \* how many calls it has made
  intent,    \* the keys it means to change, with their values
  wants,     \* the dictionary it passes to atomic_update_manifest
  copy,      \* the manifest it has in memory
  fd,        \* the inode of its temporary file
  lock,      \* the holder of the sidecar's lock
  manifest,  \* the inode the manifest's name leads to
  temp,      \* the inode each temporary name leads to
  content,   \* of each inode
  meant      \* history: every published intent applied in order of publication
vars == <<pc, calls, intent, wants, copy, fd, lock, manifest, temp, content, meant>>
local == <<calls, intent, wants>>
files == <<manifest, temp, content, meant>>

Live == IF manifest = NoFile THEN Torn ELSE content[manifest]
Nothing == [q \in {} |-> NoValue]
Blank == [q \in Paths |-> NoValue]

Init ==
  /\ pc = [p \in Processes |-> "idle"]
  /\ calls = [p \in Processes |-> 0]
  /\ intent = [p \in Processes |-> Nothing] /\ wants = intent
  /\ copy = [p \in Processes |-> Blank]
  /\ fd = [p \in Processes |-> NoFile]
  /\ lock = NoProcess
  /\ temp = [n \in Inodes \union {Fixed} |-> NoFile]
  /\ manifest \in {NoFile, CHOOSE i \in Inodes : TRUE}
  /\ \E d \in Initial : content = [i \in Inodes |-> IF i = manifest THEN d ELSE Torn]
  /\ meant = IF Live = Torn THEN Blank ELSE Live

Go(p, from, to) == pc[p] = from /\ pc' = [pc EXCEPT ![p] = to]

-----------------------------------------------------------------------------
(* atomic_update_manifest, called with wants[p]. *)

Call(p) == \* an updater records a phase
  /\ Go(p, "idle", "waiting")
  /\ p \in Updaters /\ calls[p] < MaxCalls
  /\ \E u \in Offered : /\ intent' = [intent EXCEPT ![p] = u]
                        /\ wants' = [wants EXCEPT ![p] = u]
  /\ calls' = [calls EXCEPT ![p] = @ + 1]
  /\ UNCHANGED <<copy, fd, lock, files>>

\* Mutation: the lock is not exclusive.
Available_Always == lock \in Processes \union {NoProcess}

Available == lock = NoProcess

Acquire(p) ==
  /\ Go(p, "waiting", "locked")
  /\ Available
  /\ lock' = p
  /\ UNCHANGED <<local, copy, fd, files>>

Applicable(p) == Live # Torn /\ ~Conflicts(Live, wants[p])

Apply(p) == \* read the manifest again and update it in memory
  /\ Go(p, "locked", "applied")
  /\ Applicable(p)
  /\ copy' = [copy EXCEPT ![p] = Applied(Live, wants[p])]
  /\ UNCHANGED <<local, fd, lock, files>>

Reject(p) == \* no such file, not JSON, or a path through a non-object
  /\ Go(p, "locked", "raised")
  /\ ~Applicable(p)
  /\ UNCHANGED <<local, copy, fd, lock, files>>

\* Which inode a new file gets makes no difference.
Unused == Inodes \ ({manifest} \union {temp[n] : n \in DOMAIN temp}
                      \union {fd[p] : p \in Processes})

\* Mutation: the manifest itself is opened and rewritten in place.
Target_InPlace == IF manifest = NoFile THEN CHOOSE i \in Unused : TRUE ELSE manifest

Target == CHOOSE i \in Unused : TRUE

OpenTemp(p) == \* mkstemp: a new file, under a name nobody has
  /\ Go(p, "applied", "writing")
  /\ Unused # {}
  /\ fd' = [fd EXCEPT ![p] = Target]
  /\ temp' = [temp EXCEPT ![Target] = Target]
  /\ content' = [content EXCEPT ![Target] = Torn]
  /\ UNCHANGED <<local, copy, lock, manifest, meant>>

Write(p) == \* dump, close, chmod
  /\ Go(p, "writing", "written")
  /\ content' = [content EXCEPT ![fd[p]] = copy[p]]
  /\ UNCHANGED <<local, copy, fd, lock, manifest, temp, meant>>

Publish(p) == \* os.replace
  /\ Go(p, "written", "published")
  /\ manifest' = fd[p]
  /\ temp' = [temp EXCEPT ![fd[p]] = NoFile]
  /\ fd' = [fd EXCEPT ![p] = NoFile]
  /\ meant' = Applied(meant, intent[p])
  /\ UNCHANGED <<local, copy, lock, content>>

Unlinked(p) == IF fd[p] = NoFile THEN temp ELSE [temp EXCEPT ![fd[p]] = NoFile]

Abort(p) == \* an OSError on the way: the file is unlinked, the manifest untouched
  /\ pc[p] \in {"applied", "writing", "written"}
  /\ pc' = [pc EXCEPT ![p] = "raised"]
  /\ temp' = Unlinked(p)
  /\ fd' = [fd EXCEPT ![p] = NoFile]
  /\ UNCHANGED <<local, copy, lock, manifest, content, meant>>

\* Mutation: the lock is given up only on the normal path.
Freed_OnSuccess(p) == IF pc[p] = "published" THEN NoProcess ELSE lock

Freed(p) == IF lock = p THEN NoProcess ELSE lock

Release(p) == \* the end of the with block, whatever happened
  /\ pc[p] \in {"published", "raised"}
  /\ pc' = [pc EXCEPT ![p] = "idle"]
  /\ lock' = Freed(p)
  /\ copy' = [copy EXCEPT ![p] = Blank]
  /\ UNCHANGED <<local, fd, files>>

Crash(p) == \* killed during its run; a temporary file stays
  /\ pc[p] \notin {"idle", "dead"}
  /\ pc' = [pc EXCEPT ![p] = "dead"]
  /\ lock' = IF lock = p THEN NoProcess ELSE lock
  /\ copy' = [copy EXCEPT ![p] = Blank]
  /\ UNCHANGED <<local, fd, files>>

-----------------------------------------------------------------------------
(* A verifier of AGENT_H: run_from_manifest. *)

Load(p) == \* reads without the lock, keeps a snapshot, runs
  /\ Go(p, "idle", "running")
  /\ p \in Verifiers /\ calls[p] < MaxCalls
  /\ Live # Torn
  /\ copy' = [copy EXCEPT ![p] = Live]
  /\ calls' = [calls EXCEPT ![p] = @ + 1]
  /\ UNCHANGED <<intent, wants, fd, lock, files>>

\* The part of u that is news with respect to the snapshot.
News(base, u) == [q \in {r \in DOMAIN u : u[r] # base[r]} |-> u[q]]

Unchanged(p) == \* what it set was there already: commit_manifest writes nothing
  /\ p \in Verifiers /\ Go(p, "running", "idle")
  /\ \E u \in Offered : /\ ~Conflicts(copy[p], u)
                        /\ DOMAIN ChangedKeys(copy[p], Applied(copy[p], u)) = {}
  /\ copy' = [copy EXCEPT ![p] = Blank]
  /\ UNCHANGED <<local, fd, lock, files>>

Commit(p) == \* mutates its copy, then commit_manifest(path, base, copy)
  /\ p \in Verifiers /\ Go(p, "running", "waiting")
  /\ \E u \in Offered :
       /\ ~Conflicts(copy[p], u)
       /\ DOMAIN ChangedKeys(copy[p], Applied(copy[p], u)) # {}
       /\ intent' = [intent EXCEPT ![p] = News(copy[p], u)]
       /\ wants' = [wants EXCEPT ![p] = ChangedKeys(copy[p], Applied(copy[p], u))]
  /\ UNCHANGED <<calls, copy, fd, lock, files>>

Next == \E p \in Processes :
  \/ Call(p) \/ Acquire(p) \/ Apply(p) \/ Reject(p) \/ OpenTemp(p) \/ Write(p)
  \/ Publish(p) \/ Abort(p) \/ Release(p) \/ Crash(p) \/ Load(p)
  \/ Unchanged(p) \/ Commit(p)

Spec == Init /\ [][Next]_vars

\* A process that can go on does; nobody promises that it starts or dies.
\* Whoever waits for the lock gets it once nobody else wants it.
Proceed(p) == Acquire(p) \/ Apply(p) \/ Reject(p) \/ OpenTemp(p) \/ Write(p)
                \/ Publish(p) \/ Abort(p) \/ Release(p)
FairSpec == Spec /\ \A p \in Processes : WF_vars(Proceed(p))

-----------------------------------------------------------------------------
(* A saver: _load_manifest, its run, _save_manifest. *)

SaverLoad(p) ==
  /\ Go(p, "idle", "saving")
  /\ p \in Savers /\ calls[p] < MaxCalls
  /\ Live # Torn
  /\ \E u \in Offered : /\ ~Conflicts(Live, u)
                        /\ intent' = [intent EXCEPT ![p] = u]
                        /\ copy' = [copy EXCEPT ![p] = Applied(Live, u)]
  /\ calls' = [calls EXCEPT ![p] = @ + 1]
  /\ UNCHANGED <<wants, fd, lock, files>>

SaverOpen(p) == \* open(tmp, "w"): the file of that name, truncated, or a new one
  /\ Go(p, "saving", "dumping")
  /\ Unused # {}
  /\ LET j == IF temp[Fixed] = NoFile THEN Target ELSE temp[Fixed] IN
       /\ fd' = [fd EXCEPT ![p] = j]
       /\ temp' = [temp EXCEPT ![Fixed] = j]
       /\ content' = [content EXCEPT ![j] = Torn]
  /\ UNCHANGED <<local, copy, lock, manifest, meant>>

SaverDump(p) ==
  /\ Go(p, "dumping", "dumped")
  /\ content' = [content EXCEPT ![fd[p]] = copy[p]]
  /\ UNCHANGED <<local, copy, fd, lock, manifest, temp, meant>>

SaverReplace(p) == \* os.replace(tmp, path); without tmp it raises
  /\ Go(p, "dumped", IF temp[Fixed] = NoFile THEN "idle" ELSE "saved")
  /\ fd' = [fd EXCEPT ![p] = NoFile]
  /\ IF temp[Fixed] = NoFile THEN UNCHANGED files
     ELSE /\ manifest' = temp[Fixed]
          /\ temp' = [temp EXCEPT ![Fixed] = NoFile]
          /\ meant' = Applied(meant, intent[p])
          /\ UNCHANGED content
  /\ UNCHANGED <<local, copy, lock>>

SaverRecord(p) == \* after its run: the same copy, updated and saved again
  /\ Go(p, "saved", "saving")
  /\ calls[p] < MaxCalls
  /\ \E u \in Offered : /\ ~Conflicts(copy[p], u)
                        /\ intent' = [intent EXCEPT ![p] = u]
                        /\ copy' = [copy EXCEPT ![p] = Applied(copy[p], u)]
  /\ calls' = [calls EXCEPT ![p] = @ + 1]
  /\ UNCHANGED <<wants, fd, lock, files>>

SaverNext == \E p \in Savers :
  SaverLoad(p) \/ SaverRecord(p) \/ SaverOpen(p) \/ SaverDump(p) \/ SaverReplace(p)

\* The agents as they are today, the savers included.
SharedSpec == Init /\ [][Next \/ SaverNext]_vars

-----------------------------------------------------------------------------
(* Properties. *)

States == {"idle", "running", "waiting", "locked", "applied", "writing", "written",
           "published", "raised", "dead", "saving", "dumping", "dumped",
           "saved"}

\* Every variable has its type (the state of atomic_update_manifest's callers
\* and of the directory).
ManifestTypeOK ==
  /\ pc \in [Processes -> States]
  /\ calls \in [Processes -> 0..MaxCalls]
  /\ intent \in [Processes -> Updates] /\ wants \in [Processes -> Updates]
  /\ copy \in [Processes -> Docs]
  /\ fd \in [Processes -> Inodes \union {NoFile}]
  /\ lock \in Processes \union {NoProcess}
  /\ manifest \in Inodes \union {NoFile}
  /\ temp \in [Inodes \union {Fixed} -> Inodes \union {NoFile}]
  /\ content \in [Inodes -> Docs \union {Torn}]
  /\ meant \in Docs

\* What a reader finds in the manifest is exactly the updates published so
\* far, each process's own keys and nobody else's, in order: no update that
\* returned is lost, half of one is never seen, and a crash or an exception
\* changes nothing (manifest_io.py:10, manifest_merge.py:11).
UpdatesKept == Live # Torn => Live = meant

\* A manifest that could be read once stays readable, and one that is
\* missing or corrupt is never replaced by an update (manifest_io.py:6).
ReadabilityKept == [][(Live = Torn) <=> (Live' = Torn)]_vars

\* Whoever waits for the lock returns or is killed, whatever became of the
\* process that held it (manifest_io.py:61).
CallsReturn == \A p \in Processes : pc[p] = "waiting" ~> pc[p] \in {"idle", "dead"}

\* The manifest behaves as one that each call updates at one instant or not
\* at all (RunManifestContract).
StateOf(p) ==
  CASE pc[p] \in {"idle", "running"} -> "out"
    [] pc[p] \in {"waiting", "locked", "applied", "writing", "written"} -> "asked"
    [] pc[p] = "published" -> "kept"
    [] pc[p] = "raised" -> "refused"
    [] OTHER -> "dead"
Contract == INSTANCE RunManifestContract
  WITH doc <- Live, state <- [p \in Processes |-> StateOf(p)], todo <- intent,
       Unreadable <- Torn
ManifestIsAtomic == Contract!CSpec
=============================================================================
