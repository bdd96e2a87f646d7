------------------------- MODULE ComplianceRunProofs -------------------------
(***************************************************************************)
(* Theorems about ComplianceRun for any tests, pool sizes, attempts and    *)
(* number of runs.                                                         *)
(***************************************************************************)
EXTENDS ComplianceRun, TLAPS, FiniteSetTheorems

Threads == [at : {"submitted", "done"} \cup BuildSteps \cup RunSteps,
            tries : 0..Attempts-1, snap : Hashes,
            golden : Files \cup {NoFile}]
Records == [result : Results, elf : Versions \cup {NoElf, Torn}]

\* The types the arguments below need of the tests' part of the state.
TestsTypeOK ==
  /\ thread \in [Tests -> Threads]
  /\ rec \in [Tests -> Records]
  /\ index \in Hashes /\ indexFile \in Hashes
  /\ cached \in [Upstream -> Versions \cup {NoElf, Torn}]
  /\ source \in [Tests -> Versions]
  /\ unsaved \subseteq Upstream /\ rewound \subseteq Upstream

LEMMA AtType ==
  ASSUME NEW s \in {"submitted", "done"} \cup BuildSteps \cup RunSteps
  PROVE  At(s) \in Threads
<1>1. 0 \in 0..Attempts-1
  BY RunnerAssumption DEF RunnerAssumption
<1> QED
  BY <1>1 DEF At, Threads, NoHashes, Hashes

LEMMA VerdictType == \A g, d : Verdict(g, d) \in {"PASS", "FAIL", "ERROR"}
BY DEF Verdict

LEMMA StepType ==
  ASSUME TestsTypeOK, NEW t \in Tests, NEW from,
         NEW to \in {"submitted", "done"} \cup BuildSteps \cup RunSteps, Step(t, from, to)
  PROVE  thread' \in [Tests -> Threads] /\ thread'[t] = At(to)
BY AtType DEF Step, TestsTypeOK

LEMMA SetErrorType ==
  ASSUME TestsTypeOK, NEW t \in Tests, SetError(t)
  PROVE  /\ rec' \in [Tests -> Records]
         /\ rec'[t].result = "ERROR" /\ rec'[t].elf = rec[t].elf
         /\ \A u \in Tests \ {t} : rec'[u] = rec[u]
BY DEF SetError, TestsTypeOK, Records, Results

LEMMA MayTearType ==
  ASSUME TestsTypeOK, NEW tests, MayTear(tests)
  PROVE  /\ cached' \in [Upstream -> Versions \cup {NoElf, Torn}]
         /\ unsaved \subseteq unsaved' /\ unsaved' \subseteq Upstream
         /\ \A t \in Upstream :
              cached'[t] = cached[t] \/ (t \in tests /\ thread[t].at = "copy" /\ t \in unsaved')
BY DEF MayTear, TestsTypeOK


-----------------------------------------------------------------------------
(* Types.                                                                  *)

LEMMA TypeInit ==
  Init => TestsTypeOK
<1> SUFFICES ASSUME Init PROVE TestsTypeOK
  OBVIOUS
<1>1. At("done") \in Threads
  BY AtType
<1>2. Fresh \in Records
  BY DEF Fresh, Records, Results
<1> QED
  BY <1>1, <1>2, RunnerAssumption DEF Init, TestsTypeOK, RunnerAssumption, Hashes, NoHashes

LEMMA TypeBuild ==
  ASSUME TestsTypeOK, NEW t \in Tests, Build(t)
  PROVE  TestsTypeOK'
<1> USE DEF driver, cache, edits, output
<1>1. CASE CacheHit(t)
  BY <1>1, StepType DEF CacheHit, CacheHolds, TestsTypeOK, Records
<1>2. CASE CacheMiss(t)
  <2>1. thread' \in [Tests -> Threads]
    BY <1>2, StepType DEF CacheMiss, BuildSteps
  <2> QED
    BY <1>2, <2>1 DEF CacheMiss, TestsTypeOK
<1>3. CASE Compiles(t)
  <2>1. thread' \in [Tests -> Threads]
    BY <1>3, StepType DEF Compiles, BuildSteps
  <2> QED
    BY <1>3, <2>1 DEF Compiles, TestsTypeOK, Records
<1>4. CASE Rejects(t)
  <2>1. thread' \in [Tests -> Threads]
    BY <1>4, StepType DEF Rejects, BuildSteps
  <2>2. rec' \in [Tests -> Records]
    BY <1>4, SetErrorType DEF Rejects, TestsTypeOK
  <2> QED
    BY <1>4, <2>1, <2>2 DEF Rejects, TestsTypeOK
<1>5. CASE Raises(t, {"compile", "recompile"})
  <2>1. CASE thread[t].tries + 1 < Attempts
    <3>1. thread[t].tries + 1 \in 0..Attempts-1
      BY <2>1, RunnerAssumption DEF TestsTypeOK, Threads, RunnerAssumption
    <3> QED
      BY <1>5, <2>1, <3>1 DEF Raises, TestsTypeOK, Threads
  <2>2. CASE ~(thread[t].tries + 1 < Attempts)
    <3>1. Step(t, thread[t].at, "done") /\ SetError(t)
      BY <1>5, <2>2 DEF Raises
    <3> QED
      BY <1>5, <3>1, StepType, SetErrorType DEF Raises, TestsTypeOK
  <2> QED
    BY <2>1, <2>2
<1>6. CASE StoreCopy(t)
  <2>1. thread' \in [Tests -> Threads]
    BY <1>6, StepType DEF StoreCopy, BuildSteps
  <2> QED
    BY <1>6, <2>1 DEF StoreCopy, TestsTypeOK, Records
<1>7. CASE StoreIndex(t)
  <2>1. index' \in Hashes
    BY <1>7 DEF StoreIndex, TestsTypeOK, Hashes
  <2>2. thread' = [thread EXCEPT ![t].at = "save", ![t].snap = index']
    BY <1>7 DEF StoreIndex
  <2>3. thread' \in [Tests -> Threads]
    <3>1. thread[t] \in Threads
      BY DEF TestsTypeOK
    <3>2. [thread[t] EXCEPT !.at = "save", !.snap = index'] \in Threads
      BY <2>1, <3>1 DEF Threads, BuildSteps
    <3>3. thread' = [thread EXCEPT ![t] = [thread[t] EXCEPT !.at = "save", !.snap = index']]
      BY <2>2
    <3> QED
      BY <3>2, <3>3 DEF TestsTypeOK
  <2> QED
    BY <1>7, <2>1, <2>3 DEF StoreIndex, TestsTypeOK
<1>8. CASE SaveIndex(t)
  <2>1. thread[t].snap \in Hashes
    BY DEF TestsTypeOK, Threads
  <2>2. thread' \in [Tests -> Threads]
    BY <1>8, StepType DEF SaveIndex
  <2> QED
    BY <1>8, <2>1, <2>2 DEF SaveIndex, TestsTypeOK
<1>9. CASE BuildRaises(t)
  <2>1. thread' \in [Tests -> Threads]
    BY <1>9, StepType DEF BuildRaises
  <2> QED
    BY <1>9, <2>1, SetErrorType, MayTearType DEF BuildRaises, TestsTypeOK
<1> QED
  BY <1>1, <1>2, <1>3, <1>4, <1>5, <1>6, <1>7, <1>8, <1>9 DEF Build

LEMMA TypeRun ==
  ASSUME TestsTypeOK, NEW t \in Tests, Run(t)
  PROVE  /\ thread' \in [Tests -> Threads] /\ rec' \in [Tests -> Records]
         /\ thread[t].at \in RunSteps /\ thread'[t].at \in RunSteps \cup {"done"}
         /\ thread'[t].at = "done" => rec'[t].result # "PENDING"
         /\ rec'[t].elf = rec[t].elf
         /\ \A u \in Tests \ {t} : thread'[u] = thread[u] /\ rec'[u] = rec[u]
         /\ UNCHANGED <<driver, cache, edits, output>>
<1> USE DEF RunSteps
<1>1. CASE GoldenEnds(t)
  <2>1. PICK file \in Files \cup {NoFile} : GoldenEnds(t)!(file)
    BY <1>1 DEF GoldenEnds
  <2>2. CASE NonEmpty(file)
    <3>1. [At("dut") EXCEPT !.golden = file] \in Threads
      BY AtType DEF Threads
    <3> QED
      BY <2>1, <2>2, <3>1 DEF TestsTypeOK, At
  <2>3. CASE ~NonEmpty(file)
    BY <2>1, <2>3, StepType, SetErrorType DEF Step, At, TestsTypeOK
  <2> QED
    BY <2>2, <2>3
<1>2. CASE Raises(t, {"golden"})
  <2>1. CASE thread[t].tries + 1 < Attempts
    <3>1. thread[t].tries + 1 \in 0..Attempts-1
      BY <2>1, RunnerAssumption DEF TestsTypeOK, Threads, RunnerAssumption
    <3>2. [thread[t] EXCEPT !.tries = thread[t].tries + 1] \in Threads
      BY <3>1 DEF TestsTypeOK, Threads
    <3>3. /\ thread[t].at \in {"golden"} /\ UNCHANGED <<driver, rec, cache, edits, output>>
          /\ thread' = [thread EXCEPT ![t] = [thread[t] EXCEPT !.tries = thread[t].tries + 1]]
      BY <1>2, <2>1 DEF Raises
    <3>4. thread' \in [Tests -> Threads] /\ thread'[t].at = "golden"
      BY <3>2, <3>3 DEF TestsTypeOK, Threads
    <3>5. \A u \in Tests \ {t} : thread'[u] = thread[u]
      BY <3>3 DEF TestsTypeOK
    <3> QED
      BY <3>3, <3>4, <3>5 DEF TestsTypeOK
  <2>2. CASE ~(thread[t].tries + 1 < Attempts)
    BY <1>2, <2>2, StepType, SetErrorType DEF Raises, Step, At, TestsTypeOK
  <2> QED
    BY <2>1, <2>2
<1>3. CASE DutEnds(t)
  <2>1. PICK end \in AdapterEnds : DutEnds(t)!(end)
    BY <1>3 DEF DutEnds
  <2> DEFINE verdict == IF NonEmpty(end.file) THEN Verdict(thread[t].golden, end.file)
                                              ELSE "ERROR"
  <2>2. verdict \in {"PASS", "FAIL", "ERROR"}
    BY VerdictType
  <2>3. rec' = [rec EXCEPT ![t].result = verdict]
    BY <2>1
  <2> HIDE DEF verdict
  <2>4. /\ rec' \in [Tests -> Records] /\ rec'[t].result # "PENDING"
        /\ rec'[t].elf = rec[t].elf /\ \A u \in Tests \ {t} : rec'[u] = rec[u]
    BY <2>2, <2>3 DEF TestsTypeOK, Records, Results
  <2>5. Step(t, "dut", "done") /\ UNCHANGED <<driver, cache, edits, output>>
    BY <2>1
  <2> QED
    BY <2>4, <2>5, StepType DEF Step, At, TestsTypeOK
<1>4. CASE RunRaises(t)
  <2>1. SetError(t) /\ UNCHANGED <<driver, cache, edits, output>>
    BY <1>4 DEF RunRaises
  <2>2. PICK from \in {"golden", "dut"} : Step(t, from, "done")
    BY <1>4 DEF RunRaises
  <2> QED
    BY <2>1, <2>2, StepType, SetErrorType DEF Step, At, TestsTypeOK
<1> QED
  BY <1>1, <1>2, <1>3, <1>4 DEF Run

LEMMA TypeStep ==
  ASSUME TestsTypeOK, [Next]_vars
  PROVE  TestsTypeOK'
<1> USE DEF driver, cache, edits, output
<1>1. CASE MarkRunning
  <2>1. Fresh \in Records
    BY DEF Fresh, Records, Results
  <2> QED
    BY <1>1, <2>1, RunnerAssumption DEF MarkRunning, TestsTypeOK, NoHashes, Hashes
<1>2. CASE Driver
  <2>1. CASE Validate
    BY <2>1, AtType DEF Validate, TestsTypeOK
  <2>2. CASE OpenRunPool
    BY <2>2, AtType DEF OpenRunPool, TestsTypeOK
  <2>3. CASE CloseRunPool \/ WriteReports \/ WriteResult \/ PatchManifest
    BY <2>3 DEF CloseRunPool, WriteReports, WriteResult, PatchManifest, TestsTypeOK
  <2> QED
    BY <1>2, <2>1, <2>2, <2>3 DEF Driver
<1>3. CASE RunnerRaises
  BY <1>3 DEF RunnerRaises, TestsTypeOK
<1>4. CASE Kill
  <2>1. Fresh \in Records
    BY DEF Fresh, Records, Results
  <2> QED
    BY <1>4, <2>1, AtType, MayTearType DEF Kill, TestsTypeOK, NoHashes, Hashes
<1>5. CASE TakeBuild \/ TakeRun
  <2>1. PICK s \in BuildSteps \cup RunSteps, t \in Tests :
          /\ thread' = [thread EXCEPT ![t] = At(s)]
          /\ UNCHANGED <<driver, rec, cache, edits, output>>
    BY <1>5 DEF TakeBuild, TakeRun, Take, BuildSteps, RunSteps
  <2> QED
    BY <2>1, AtType DEF TestsTypeOK
<1>6. ASSUME NEW t \in Tests, Build(t) PROVE TestsTypeOK'
  BY <1>6, TypeBuild
<1>7. ASSUME NEW t \in Tests, Run(t) PROVE TestsTypeOK'
  BY <1>7, TypeRun DEF TestsTypeOK
<1>8. ASSUME NEW t \in Tests, Edit(t) PROVE TestsTypeOK'
  BY <1>8 DEF Edit, TestsTypeOK
<1>9. CASE UNCHANGED vars
  BY <1>9 DEF vars, TestsTypeOK
<1> QED
  BY <1>1, <1>2, <1>3, <1>4, <1>5, <1>6, <1>7, <1>8, <1>9 DEF Next

-----------------------------------------------------------------------------
(* The cache holds no hash of a source beside an ELF of another.           *)

\* Where the threads can be in each phase.
PoolsOK ==
  \A t \in Tests :
    /\ phase = "build" => thread[t].at \in {"submitted", "done"} \cup BuildSteps
    /\ phase = "run" => thread[t].at \in {"submitted", "done"} \cup RunSteps
    /\ phase \notin {"build", "run"} => thread[t].at = "done"

LEMMA PoolsStep ==
  ASSUME TestsTypeOK, PoolsOK, [Next]_vars
  PROVE  PoolsOK'
<1> USE DEF driver, cache, edits, output, PoolsOK
<1>1. CASE MarkRunning
  BY <1>1 DEF MarkRunning, Ended
<1>2. CASE Driver
  <2>1. CASE Validate
    BY <2>1 DEF Validate, At
  <2>2. CASE OpenRunPool
    BY <2>2 DEF OpenRunPool, At
  <2>3. CASE CloseRunPool \/ WriteReports \/ WriteResult \/ PatchManifest
    BY <2>3 DEF CloseRunPool, WriteReports, WriteResult, PatchManifest
  <2> QED
    BY <1>2, <2>1, <2>2, <2>3 DEF Driver
<1>3. CASE RunnerRaises
  BY <1>3 DEF RunnerRaises
<1>4. CASE Kill
  BY <1>4 DEF Kill, At
<1>5. CASE TakeBuild
  BY <1>5 DEF TakeBuild, Take, At, BuildSteps, TestsTypeOK
<1>6. CASE TakeRun
  BY <1>6 DEF TakeRun, Take, At, RunSteps, TestsTypeOK
<1>7. ASSUME NEW t \in Tests, Build(t) PROVE PoolsOK'
  <2>1. /\ thread[t].at \in BuildSteps /\ thread'[t].at \in BuildSteps \cup {"done"}
        /\ \A u \in Tests \ {t} : thread'[u] = thread[u]
        /\ UNCHANGED phase
    BY <1>7 DEF Build, CacheHit, CacheMiss, Compiles, Rejects, Raises, StoreCopy, StoreIndex,
       SaveIndex, BuildRaises, Step, At, BuildSteps, TestsTypeOK, Threads
  <2> QED
    BY <2>1 DEF BuildSteps, RunSteps
<1>8. ASSUME NEW t \in Tests, Run(t) PROVE PoolsOK'
  BY <1>8, TypeRun DEF BuildSteps, RunSteps
<1>9. ASSUME NEW t \in Tests, Edit(t) PROVE PoolsOK'
  BY <1>9 DEF Edit
<1>10. CASE UNCHANGED vars
  BY <1>10 DEF vars
<1> QED
  BY <1>1, <1>2, <1>3, <1>4, <1>5, <1>6, <1>7, <1>8, <1>9, <1>10 DEF Next

\* The hashes of t that some index holds: in memory, on disk, or about to be
\* written there.
Entries(t) ==
  {index[t], indexFile[t]} \cup
    {thread[u].snap[t] : u \in {v \in Tests : thread[v].at = "save"}}

\* The state of one test's cache entry. Until its own thread stores the new hash,
\* all its hashes are the one read from disk.
StoreOrder(t) ==
  /\ phase = "build" /\ thread[t].at \notin {"save", "done"} => Entries(t) = {index[t]}
  /\ thread[t].at = "index" => cached[t] = source[t]
  /\ thread[t].at = "save" =>
       cached[t] = source[t] /\ index[t] = source[t] /\ thread[t].snap[t] = source[t]

\* A source that never went back is newer than every hash but that of its ELF.
NewerThanEntries(t) ==
  t \notin rewound =>
    /\ \A h \in Entries(t) : h <= source[t]
    /\ source[t] \in Entries(t) => cached[t] = source[t]
    /\ thread[t].at \in {"compile", "recompile", "copy"} => index[t] # source[t]

\* An ELF whose entry is saved is the one every hash names.
SavedEntries(t) ==
  t \notin unsaved => \A h \in Entries(t) : h # 0 => cached[t] = h

CacheEntry(t) == StoreOrder(t) /\ NewerThanEntries(t) /\ SavedEntries(t)

Compiled(t) == thread[t].at \in {"copy", "index", "save"} => rec[t].elf = source[t]

CacheInv ==
  /\ \A t \in Upstream : CacheEntry(t)
  /\ \A t \in Tests : Compiled(t)
  /\ phase = "validate" => \A t \in Tests : rec[t].elf = NoElf

SourceInv == TestsTypeOK /\ PoolsOK /\ CacheInv /\ VerdictOfCurrentSource

LEMMA EntriesType ==
  ASSUME TestsTypeOK, NEW t \in Upstream
  PROVE  Entries(t) \subseteq Versions \cup {0} /\ Entries(t) \subseteq Int /\ source[t] \in Versions
<1>1. t \in Tests /\ Versions \subseteq Nat \ {0}
  BY RunnerAssumption DEF RunnerAssumption
<1>2. \A u \in Tests : thread[u].snap[t] \in Versions \cup {0}
  BY DEF TestsTypeOK, Threads, Hashes
<1>3. index[t] \in Versions \cup {0} /\ indexFile[t] \in Versions \cup {0}
  BY DEF TestsTypeOK, Hashes
<1>4. Entries(t) \subseteq Versions \cup {0}
  BY <1>2, <1>3 DEF Entries
<1>5. source[t] \in Versions
  BY <1>1 DEF TestsTypeOK
<1>6. Versions \cup {0} \subseteq Int
  BY <1>1
<1> QED
  BY <1>4, <1>5, <1>6

\* A step that touches neither the indexes nor the sources, and no thread that
\* is writing an index except to end it, adds no entry.
LEMMA EntriesKept ==
  ASSUME NEW t \in Upstream, index' = index, indexFile' = indexFile,
         \A u \in Tests : thread'[u].at = "save" => thread'[u] = thread[u]
  PROVE  Entries(t)' \subseteq Entries(t) /\ index[t] \in Entries(t)'
BY DEF Entries

\* A step that leaves a test's own thread, ELF and index entry alone.
LEMMA EntryKept ==
  ASSUME SourceInv, NEW u \in Upstream, phase' = phase, source' = source, rewound' = rewound,
         thread'[u] = thread[u], cached'[u] = cached[u], index'[u] = index[u],
         Entries(u)' \subseteq Entries(u), u \in unsaved => u \in unsaved'
  PROVE  CacheEntry(u)'
<1>1. CacheEntry(u) /\ index'[u] \in Entries(u)'
  BY DEF SourceInv, CacheInv, Entries
<1> QED
  BY <1>1 DEF CacheEntry, StoreOrder, NewerThanEntries, SavedEntries

\* What may become of the ELFs in the cache while no hash is stored.
ElfReplaced(t) ==
  t \in unsaved' /\ (t \in rewound \/ source[t] \notin Entries(t))

\* One thread moves on and stores no hash.
LEMMA CacheQuiet ==
  ASSUME SourceInv, NEW t \in Tests, phase' = phase, phase # "validate",
         UNCHANGED <<index, indexFile, source, rewound>>,
         \A u \in Tests \ {t} : thread'[u] = thread[u] /\ rec'[u] = rec[u],
         thread'[t].at # "save",
         thread'[t].at \notin {"save", "done"} => thread[t].at \notin {"save", "done"},
         thread'[t].at \in {"copy", "index", "save"} => rec'[t].elf = source[t],
         t \notin unsaved \cap rewound => rec'[t].elf \in {rec[t].elf, source[t]},
         t \in Upstream /\ thread'[t].at = "index" => cached'[t] = source[t],
         t \in Upstream \ rewound /\ thread'[t].at \in {"compile", "recompile", "copy"} =>
           index[t] # source[t],
         unsaved \subseteq unsaved',
         t \in Upstream => cached'[t] = cached[t] \/ ElfReplaced(t),
         \A u \in Upstream \ {t} : cached'[u] = cached[u]
  PROVE  CacheInv' /\ VerdictOfCurrentSource'
<1>0. Upstream \subseteq Tests
  BY RunnerAssumption DEF RunnerAssumption
<1>1. \A u \in Upstream : Entries(u)' \subseteq Entries(u) /\ index[u] \in Entries(u)'
  <2>1. \A u \in Tests : thread'[u].at = "save" => thread'[u] = thread[u]
    OBVIOUS
  <2> QED
    BY <2>1, EntriesKept
<1>2. ASSUME NEW u \in Upstream, u # t PROVE CacheEntry(u)'
  BY <1>0, <1>1, <1>2, EntryKept
<1>3. ASSUME t \in Upstream PROVE CacheEntry(t)'
  <2>1. CacheEntry(t) /\ Entries(t)' \subseteq Entries(t) /\ index[t] \in Entries(t)'
    BY <1>1, <1>3 DEF SourceInv, CacheInv
  <2>2. StoreOrder(t)'
    BY <1>3, <2>1 DEF CacheEntry, StoreOrder
  <2>3. NewerThanEntries(t)'
    BY <1>3, <2>1 DEF CacheEntry, NewerThanEntries, ElfReplaced
  <2>4. SavedEntries(t)'
    BY <1>3, <2>1 DEF CacheEntry, SavedEntries, ElfReplaced
  <2> QED
    BY <2>2, <2>3, <2>4 DEF CacheEntry
<1>4. \A u \in Tests : Compiled(u)'
  BY DEF SourceInv, CacheInv, Compiled
<1>5. CacheInv'
  BY <1>2, <1>3, <1>4 DEF CacheInv
<1>6. VerdictOfCurrentSource'
  BY DEF SourceInv, VerdictOfCurrentSource, Ended
<1> QED
  BY <1>5, <1>6

\* A hit is the source's ELF unless both exceptions meet.
LEMMA HitSound ==
  ASSUME SourceInv, NEW t \in Tests, CacheHolds(t), t \notin unsaved \cap rewound
  PROVE  cached[t] = source[t]
<1>1. t \in Upstream /\ index[t] = source[t] /\ source[t] \in Entries(t)
  BY DEF CacheHolds, Entries
<1>2. CacheEntry(t) /\ source[t] # 0
  BY <1>1, EntriesType, RunnerAssumption DEF SourceInv, CacheInv, RunnerAssumption
<1> QED
  BY <1>1, <1>2 DEF CacheEntry, NewerThanEntries, SavedEntries

\* A thread that has written its index, or entered a hash in it.
LEMMA StoreIndexSound ==
  ASSUME SourceInv, NEW t \in Tests, StoreIndex(t)
  PROVE  CacheInv' /\ VerdictOfCurrentSource'
<1> USE DEF driver, edits, output
<1>0. thread \in [Tests -> Threads] /\ index \in Hashes /\ Upstream \subseteq Tests
  BY RunnerAssumption DEF SourceInv, TestsTypeOK, RunnerAssumption
<1>1. /\ thread' = [thread EXCEPT ![t].at = "save", ![t].snap = index']
      /\ UNCHANGED <<phase, rec, indexFile, cached, unsaved, source, rewound>>
      /\ thread[t].at = "index"
  BY DEF StoreIndex
<1>2. /\ thread'[t].at = "save" /\ thread'[t].snap = index'
      /\ \A u \in Tests \ {t} : thread'[u] = thread[u]
  BY <1>0, <1>1 DEF Threads
<1>3. ASSUME NEW u \in Upstream, u # t
      PROVE  CacheEntry(u)'
  <2>1. index'[u] = index[u]
    BY <1>0, <1>3 DEF StoreIndex, Hashes
  <2>2. \A v \in Tests : thread'[v].at = "save" => thread'[v].snap[u] \in Entries(u)
    BY <1>2, <2>1 DEF Entries
  <2>3. Entries(u)' \subseteq Entries(u)
    BY <1>1, <2>1, <2>2 DEF Entries
  <2> QED
    BY <1>0, <1>1, <1>2, <1>3, <2>1, <2>3, EntryKept
<1>4. ASSUME t \in Upstream
      PROVE  CacheEntry(t)'
  <2>1. index'[t] = source[t]
    BY <1>0, <1>4 DEF StoreIndex, Hashes
  <2>2. \A v \in Tests : thread'[v].at = "save" =>
          thread'[v].snap[t] \in Entries(t) \cup {source[t]}
    BY <1>2, <2>1 DEF Entries
  <2>3. Entries(t)' \subseteq Entries(t) \cup {source[t]}
    BY <1>1, <2>1, <2>2 DEF Entries
  <2>4. cached[t] = source[t] /\ CacheEntry(t)
    BY <1>1, <1>4 DEF SourceInv, CacheInv, CacheEntry, StoreOrder
  <2>5. source[t] \in Int
    <3>1. source[t] \in Versions
      BY <1>4, EntriesType DEF SourceInv
    <3>2. Versions \subseteq Int
      BY RunnerAssumption DEF RunnerAssumption
    <3> QED
      BY <3>1, <3>2
  <2>6. StoreOrder(t)'
    BY <1>1, <1>2, <2>1, <2>4 DEF StoreOrder
  <2>7. NewerThanEntries(t)'
    BY <1>1, <1>2, <2>3, <2>4, <2>5 DEF CacheEntry, NewerThanEntries
  <2>8. SavedEntries(t)'
    BY <1>1, <2>3, <2>4 DEF CacheEntry, SavedEntries
  <2> QED
    BY <2>6, <2>7, <2>8 DEF CacheEntry
<1>5. \A u \in Tests : Compiled(u)'
  BY <1>1, <1>2 DEF SourceInv, CacheInv, Compiled
<1>6. phase # "validate"
  BY <1>1 DEF SourceInv, PoolsOK
<1>7. CacheInv'
  BY <1>1, <1>3, <1>4, <1>5, <1>6 DEF CacheInv
<1>8. VerdictOfCurrentSource'
  BY <1>1 DEF SourceInv, VerdictOfCurrentSource, Ended
<1> QED
  BY <1>7, <1>8

LEMMA SaveIndexSound ==
  ASSUME SourceInv, NEW t \in Tests, SaveIndex(t)
  PROVE  CacheInv' /\ VerdictOfCurrentSource'
<1> USE DEF driver, edits, output
<1>0. thread \in [Tests -> Threads] /\ Upstream \subseteq Tests
  BY RunnerAssumption DEF SourceInv, TestsTypeOK, RunnerAssumption
<1>1. /\ thread[t].at = "save" /\ thread' = [thread EXCEPT ![t] = At("done")]
      /\ indexFile' = thread[t].snap
      /\ UNCHANGED <<phase, rec, index, cached, source, rewound>>
      /\ unsaved' = IF \E u \in Tests \ {t} : thread[u].at = "save" THEN unsaved ELSE unsaved \ {t}
  BY DEF SaveIndex, Step
<1>2. thread'[t].at = "done" /\ \A u \in Tests \ {t} : thread'[u] = thread[u]
  BY <1>0, <1>1 DEF At
<1>3. \A u \in Upstream : Entries(u)' \subseteq Entries(u)
  BY <1>1, <1>2 DEF Entries
<1>4. ASSUME NEW u \in Upstream, u # t PROVE CacheEntry(u)'
  <2>1. thread'[u] = thread[u] /\ Entries(u)' \subseteq Entries(u) /\ (u \in unsaved => u \in unsaved')
    BY <1>0, <1>1, <1>2, <1>3, <1>4
  <2> QED
    BY <1>1, <2>1, EntryKept
<1>5. ASSUME t \in Upstream PROVE CacheEntry(t)'
  <2>1. /\ cached[t] = source[t] /\ index[t] = source[t] /\ thread[t].snap[t] = source[t]
        /\ CacheEntry(t) /\ Entries(t)' \subseteq Entries(t)
    BY <1>1, <1>3, <1>5 DEF SourceInv, CacheInv, CacheEntry, StoreOrder
  <2>2. StoreOrder(t)' /\ NewerThanEntries(t)'
    BY <1>1, <1>2, <2>1 DEF CacheEntry, StoreOrder, NewerThanEntries
  <2>3. SavedEntries(t)'
    <3>1. CASE \E u \in Tests \ {t} : thread[u].at = "save"
      BY <1>1, <2>1, <3>1 DEF CacheEntry, SavedEntries
    <3>2. CASE ~(\E u \in Tests \ {t} : thread[u].at = "save")
      <4>1. Entries(t)' \subseteq {source[t]}
        BY <1>1, <1>2, <2>1, <3>2 DEF Entries
      <4> QED
        BY <1>1, <2>1, <4>1 DEF SavedEntries
    <3> QED
      BY <3>1, <3>2
  <2> QED
    BY <2>2, <2>3 DEF CacheEntry
<1>6. \A u \in Tests : Compiled(u)'
  BY <1>1, <1>2 DEF SourceInv, CacheInv, Compiled
<1>7. phase # "validate" /\ rec[t].elf = source[t]
  BY <1>1 DEF SourceInv, PoolsOK, CacheInv, Compiled
<1>8. CacheInv'
  BY <1>1, <1>4, <1>5, <1>6, <1>7 DEF CacheInv
<1>9. VerdictOfCurrentSource'
  BY <1>1, <1>7 DEF SourceInv, VerdictOfCurrentSource, Ended
<1> QED
  BY <1>8, <1>9

\* The steps of the build pool.
LEMMA CacheBuild ==
  ASSUME SourceInv, NEW t \in Tests, Build(t)
  PROVE  CacheInv' /\ VerdictOfCurrentSource'
<1> USE DEF driver, cache, edits, output, BuildSteps
<1>a. thread[t].at \in BuildSteps /\ phase = "build"
  <2>1. thread[t].at \in BuildSteps
    BY DEF Build, CacheHit, CacheMiss, Compiles, Rejects, Raises, StoreCopy, StoreIndex,
       SaveIndex, BuildRaises, Step
  <2> QED
    BY <2>1 DEF SourceInv, PoolsOK, RunSteps
<1>0. /\ thread \in [Tests -> Threads] /\ rec \in [Tests -> Records]
      /\ t \in Upstream \ rewound =>
           /\ thread[t].at \in {"compile", "recompile", "copy"} => index[t] # source[t]
           /\ thread[t].at = "copy" => source[t] \notin Entries(t)
      /\ t \in Upstream /\ thread[t].at = "index" => cached[t] = source[t]
      /\ thread[t].at \in {"copy", "index", "save"} => rec[t].elf = source[t]
  BY <1>a DEF SourceInv, CacheInv, CacheEntry, StoreOrder, NewerThanEntries, Compiled, TestsTypeOK
<1>1. CASE CacheHit(t)
  <2>1. t \notin unsaved \cap rewound => cached[t] = source[t]
    BY <1>1, HitSound DEF CacheHit
  <2>2. /\ thread' = [thread EXCEPT ![t] = At("done")] /\ rec' = [rec EXCEPT ![t].elf = cached[t]]
        /\ UNCHANGED <<driver, cache, edits>>
    BY <1>1 DEF CacheHit, Step
  <2>3. /\ thread'[t].at = "done" /\ rec'[t].elf = cached[t]
        /\ \A u \in Tests \ {t} : thread'[u] = thread[u] /\ rec'[u] = rec[u]
    BY <1>0, <2>2 DEF At, Records
  <2> QED
    BY <1>a, <2>1, <2>2, <2>3, CacheQuiet
<1>2. CASE CacheMiss(t)
  <2>1. t \in Upstream \ rewound => index[t] # source[t]
    <3>1. CASE t \in Upstream \ rewound /\ index[t] = source[t]
      <4>1. cached[t] = source[t] /\ source[t] \in Versions
        BY <3>1, EntriesType DEF SourceInv, CacheInv, CacheEntry, NewerThanEntries, Entries
      <4> QED
        BY <1>2, <3>1, <4>1, RunnerAssumption DEF CacheMiss, CacheHolds, RunnerAssumption
    <3> QED
      BY <3>1
  <2> QED
    BY <1>0, <1>a, <1>2, <2>1, CacheQuiet DEF CacheMiss, Step, At
<1>3. CASE Compiles(t)
  <2>1. /\ thread' = [thread EXCEPT ![t] = At("copy")] /\ rec' = [rec EXCEPT ![t].elf = source[t]]
        /\ UNCHANGED <<driver, cache, edits>> /\ thread[t].at \in {"compile", "recompile"}
    BY <1>3 DEF Compiles, Step
  <2>2. /\ thread'[t].at = "copy" /\ rec'[t].elf = source[t]
        /\ \A u \in Tests \ {t} : thread'[u] = thread[u] /\ rec'[u] = rec[u]
    BY <1>0, <2>1 DEF At, Records
  <2> QED
    BY <1>0, <1>a, <2>1, <2>2, CacheQuiet
<1>4. CASE Rejects(t)
  <2>1. CASE Step(t, "compile", "recompile") /\ UNCHANGED rec
    BY <1>0, <1>a, <1>4, <2>1, CacheQuiet DEF Rejects, Step, At
  <2>2. CASE Step(t, "recompile", "done") /\ SetError(t)
    BY <1>0, <1>a, <1>4, <2>2, CacheQuiet, SetErrorType DEF Rejects, Step, At, SourceInv
  <2> QED
    BY <1>4, <2>1, <2>2 DEF Rejects
<1>5. CASE Raises(t, {"compile", "recompile"})
  <2>1. CASE thread' = [thread EXCEPT ![t].tries = @ + 1] /\ UNCHANGED rec
    <3>1. thread'[t].at = thread[t].at
      BY <1>0, <2>1 DEF Threads
    <3> QED
      BY <1>0, <1>a, <1>5, <2>1, <3>1, CacheQuiet DEF Raises
  <2>2. CASE Step(t, thread[t].at, "done") /\ SetError(t)
    BY <1>0, <1>a, <1>5, <2>2, CacheQuiet, SetErrorType DEF Raises, Step, At, SourceInv
  <2> QED
    BY <1>5, <2>1, <2>2 DEF Raises
<1>6. CASE StoreCopy(t)
  <2>1. /\ thread' = [thread EXCEPT ![t] = At("index")] /\ thread[t].at = "copy"
        /\ cached' = IF t \in Upstream THEN [cached EXCEPT ![t] = rec[t].elf] ELSE cached
        /\ unsaved' = unsaved \cup ({t} \cap Upstream)
        /\ UNCHANGED <<driver, rec, index, indexFile, edits>>
    BY <1>6 DEF StoreCopy, Step
  <2>2. thread'[t].at = "index" /\ \A u \in Tests \ {t} : thread'[u] = thread[u]
    BY <1>0, <2>1 DEF At
  <2>3. /\ t \in Upstream => cached'[t] = source[t] /\ t \in unsaved'
        /\ \A u \in Upstream \ {t} : cached'[u] = cached[u]
    BY <1>0, <2>1 DEF SourceInv, TestsTypeOK
  <2>4. t \in Upstream => ElfReplaced(t)
    BY <1>0, <2>1, <2>3 DEF ElfReplaced
  <2> QED
    BY <1>0, <1>a, <2>1, <2>2, <2>3, <2>4, CacheQuiet
<1>7. CASE StoreIndex(t)
  BY <1>7, StoreIndexSound
<1>8. CASE SaveIndex(t)
  BY <1>8, SaveIndexSound
<1>9. CASE BuildRaises(t)
  <2>1. /\ thread' = [thread EXCEPT ![t] = At("done")] /\ SetError(t) /\ MayTear({t})
        /\ UNCHANGED <<driver, index, indexFile, edits>>
    BY <1>9 DEF BuildRaises, Step
  <2>2. thread'[t].at = "done" /\ \A u \in Tests \ {t} : thread'[u] = thread[u]
    BY <1>0, <2>1 DEF At
  <2>3. /\ unsaved \subseteq unsaved' /\ \A u \in Upstream \ {t} : cached'[u] = cached[u]
        /\ t \in Upstream => cached'[t] = cached[t] \/ ElfReplaced(t)
    BY <1>0, <2>1, MayTearType DEF SourceInv, ElfReplaced
  <2>4. rec'[t].elf = rec[t].elf /\ \A u \in Tests \ {t} : rec'[u] = rec[u]
    BY <2>1, SetErrorType DEF SourceInv
  <2> QED
    BY <1>a, <2>1, <2>2, <2>3, <2>4, CacheQuiet
<1> QED
  BY <1>1, <1>2, <1>3, <1>4, <1>5, <1>6, <1>7, <1>8, <1>9 DEF Build

\* A step of the main thread that leaves index file and sources alone and starts
\* or ends the threads, none of them in the middle of a store afterwards.
LEMMA CacheMain ==
  ASSUME SourceInv, UNCHANGED <<indexFile, source, rewound>>, index' \in {index, NoHashes},
         \A u \in Tests : thread'[u].at \notin {"compile", "recompile", "copy", "index", "save"},
         \A u \in Upstream : cached'[u] = cached[u] \/ ElfReplaced(u),
         unsaved \subseteq unsaved', phase' # "build",
         phase' = "validate" => \A u \in Tests : rec'[u].elf = NoElf
  PROVE  CacheInv'
<1>0. Upstream \subseteq Tests
  BY RunnerAssumption DEF RunnerAssumption
<1>1. ASSUME NEW u \in Upstream PROVE CacheEntry(u)'
  <2>1. Entries(u)' \subseteq Entries(u) \cup {0}
    BY DEF Entries, NoHashes
  <2>2. CacheEntry(u) /\ source[u] \in Nat \ {0}
    BY EntriesType, RunnerAssumption DEF SourceInv, CacheInv, RunnerAssumption
  <2>3. StoreOrder(u)'
    BY <1>0 DEF StoreOrder
  <2>4. NewerThanEntries(u)'
    BY <1>0, <2>1, <2>2 DEF CacheEntry, NewerThanEntries, ElfReplaced
  <2>5. SavedEntries(u)'
    BY <2>1, <2>2 DEF CacheEntry, SavedEntries, ElfReplaced
  <2> QED
    BY <2>3, <2>4, <2>5 DEF CacheEntry
<1>2. \A u \in Tests : Compiled(u)'
  BY DEF Compiled
<1> QED
  BY <1>1, <1>2 DEF CacheInv

LEMMA CacheStep ==
  ASSUME SourceInv, [Next]_vars
  PROVE  CacheInv' /\ VerdictOfCurrentSource'
<1> USE DEF driver, cache, edits, output
<1>0. /\ thread \in [Tests -> Threads] /\ rec \in [Tests -> Records]
      /\ \A t \in Tests : phase \notin {"build", "run"} => thread[t].at = "done"
      /\ Upstream \subseteq Tests
  BY RunnerAssumption DEF SourceInv, TestsTypeOK, PoolsOK, RunnerAssumption
<1>1. CASE MarkRunning
  <2>1. \A u \in Tests : rec'[u].elf = NoElf
    BY <1>1 DEF MarkRunning, Fresh
  <2>2. CacheInv'
    BY <1>0, <1>1, <2>1, CacheMain DEF MarkRunning, Ended
  <2> QED
    BY <2>1, <2>2 DEF VerdictOfCurrentSource
<1>2. CASE Driver
  <2>1. CASE Validate /\ phase' = "report"
    <3>1. CacheInv'
      BY <1>0, <2>1, CacheMain DEF Validate
    <3> QED
      BY <2>1, <3>1 DEF Validate, VerdictOfCurrentSource, SourceInv, Ended
  <2>2. CASE Validate /\ phase' # "report"
    <3>1. /\ thread' = [t \in Tests |-> At("submitted")] /\ index' = indexFile
          /\ phase = "validate" /\ phase' = "build"
          /\ UNCHANGED <<rec, source, rewound, indexFile, cached, unsaved>>
      BY <2>2 DEF Validate
    <3>2. \A u \in Tests : thread'[u].at = "submitted"
      BY <3>1 DEF At
    <3>3. ASSUME NEW u \in Upstream PROVE CacheEntry(u)'
      <4>1. Entries(u)' = {indexFile[u]} /\ indexFile[u] \in Entries(u) /\ CacheEntry(u)
        BY <3>1, <3>2 DEF Entries, SourceInv, CacheInv
      <4> QED
        BY <1>0, <3>1, <3>2, <4>1 DEF CacheEntry, StoreOrder, NewerThanEntries, SavedEntries
    <3>4. CacheInv'
      BY <1>0, <3>1, <3>2, <3>3 DEF CacheInv, Compiled
    <3> QED
      BY <3>1, <3>4 DEF SourceInv, VerdictOfCurrentSource, Ended
  <2>3. CASE OpenRunPool
    <3>1. \A u \in Tests : thread'[u].at \in {"submitted", "done"}
      BY <2>3 DEF OpenRunPool, At
    <3>2. CacheInv'
      BY <2>3, <3>1, CacheMain DEF OpenRunPool
    <3> QED
      BY <2>3, <3>2 DEF OpenRunPool, SourceInv, VerdictOfCurrentSource, Ended
  <2>4. CASE CloseRunPool \/ WriteReports \/ WriteResult \/ PatchManifest
    <3>1. /\ UNCHANGED <<thread, rec, cache, edits>> /\ ~Ended /\ phase' # "validate"
          /\ phase' \notin {"build", "run"} /\ \A u \in Tests : thread[u].at = "done"
      BY <1>0, <2>4 DEF CloseRunPool, WriteReports, WriteResult, PatchManifest, Ended
    <3>2. CacheInv'
      BY <3>1, CacheMain
    <3> QED
      BY <3>1, <3>2 DEF SourceInv, VerdictOfCurrentSource
  <2> QED
    BY <1>2, <2>1, <2>2, <2>3, <2>4 DEF Driver
<1>3. CASE RunnerRaises
  <2>1. CacheInv'
    BY <1>0, <1>3, CacheMain DEF RunnerRaises
  <2> QED
    BY <1>3, <2>1 DEF RunnerRaises, VerdictOfCurrentSource, Ended
<1>4. CASE Kill
  <2>1. \A u \in Tests : thread'[u].at = "done"
    BY <1>4 DEF Kill, At
  <2>2. ASSUME NEW u \in Upstream
        PROVE  cached'[u] = cached[u] \/ ElfReplaced(u)
    <3>1. CASE ~(thread[u].at = "copy" /\ u \in unsaved')
      BY <1>4, <3>1, MayTearType DEF Kill, SourceInv
    <3>2. CASE thread[u].at = "copy" /\ u \in unsaved'
      <4>1. phase = "build"
        BY <1>0, <3>2 DEF SourceInv, PoolsOK, RunSteps
      <4> QED
        BY <3>2, <4>1 DEF SourceInv, CacheInv, CacheEntry, StoreOrder, NewerThanEntries,
           ElfReplaced
    <3> QED
      BY <3>1, <3>2
  <2>3. unsaved \subseteq unsaved'
    BY <1>4, MayTearType DEF Kill, SourceInv
  <2>4. CacheInv'
    BY <1>4, <2>1, <2>2, <2>3, CacheMain DEF Kill
  <2> QED
    BY <1>4, <2>4 DEF Kill, VerdictOfCurrentSource, Ended
<1>5. CASE TakeBuild
  <2>1. PICK t \in Tests :
          /\ thread[t].at = "submitted" /\ thread' = [thread EXCEPT ![t] = At("lookup")]
          /\ UNCHANGED <<driver, rec, cache, edits>> /\ phase = "build"
    BY <1>5 DEF TakeBuild, Take
  <2>2. thread'[t].at = "lookup" /\ \A u \in Tests \ {t} : thread'[u] = thread[u]
    BY <1>0, <2>1 DEF At
  <2> QED
    BY <1>0, <2>1, <2>2, CacheQuiet
<1>6. CASE TakeRun
  <2>1. PICK t \in Tests :
          /\ thread[t].at = "submitted" /\ thread' = [thread EXCEPT ![t] = At("golden")]
          /\ UNCHANGED <<driver, rec, cache, edits>> /\ phase = "run"
    BY <1>6 DEF TakeRun, Take
  <2>2. thread'[t].at = "golden" /\ \A u \in Tests \ {t} : thread'[u] = thread[u]
    BY <1>0, <2>1 DEF At
  <2> QED
    BY <1>0, <2>1, <2>2, CacheQuiet
<1>7. ASSUME NEW t \in Tests, Build(t) PROVE CacheInv' /\ VerdictOfCurrentSource'
  BY <1>7, CacheBuild
<1>8. ASSUME NEW t \in Tests, Run(t) PROVE CacheInv' /\ VerdictOfCurrentSource'
  <2>1. /\ thread'[t].at \in RunSteps \cup {"done"} /\ thread[t].at \in RunSteps
        /\ rec'[t].elf = rec[t].elf
        /\ \A u \in Tests \ {t} : thread'[u] = thread[u] /\ rec'[u] = rec[u]
        /\ UNCHANGED <<driver, cache, edits, output>>
    BY <1>8, TypeRun DEF SourceInv
  <2>2. phase # "validate"
    BY <1>0, <2>1 DEF RunSteps
  <2> QED
    BY <2>1, <2>2, CacheQuiet DEF RunSteps
<1>9. ASSUME NEW t \in Tests, Edit(t) PROVE CacheInv' /\ VerdictOfCurrentSource'
  <2>1. PICK v \in Versions :
          /\ v # source[t] /\ source' = [source EXCEPT ![t] = v]
          /\ rewound' = IF v < source[t] THEN rewound \cup {t} ELSE rewound
    BY <1>9 DEF Edit
  <2>2. /\ phase = "validate" /\ UNCHANGED <<driver, thread, rec, cache>> /\ t \in Upstream
        /\ \A u \in Tests : thread[u].at = "done" /\ rec[u].elf = NoElf
    BY <1>0, <1>9 DEF Edit, SourceInv, CacheInv
  <2>3. \A u \in Upstream : Entries(u)' = Entries(u)
    BY <2>2 DEF Entries
  <2>4. ASSUME NEW u \in Upstream PROVE CacheEntry(u)'
    <3>1. CacheEntry(u) /\ Entries(u)' = Entries(u)
      BY <2>3 DEF SourceInv, CacheInv
    <3>2. StoreOrder(u)' /\ SavedEntries(u)'
      BY <1>0, <2>2, <3>1 DEF CacheEntry, StoreOrder, SavedEntries
    <3>3. CASE u # t
      <4>1. source'[u] = source[u] /\ (u \in rewound <=> u \in rewound')
        BY <1>0, <2>1, <3>3 DEF SourceInv, TestsTypeOK
      <4>2. NewerThanEntries(u)'
        BY <2>2, <3>1, <4>1 DEF CacheEntry, NewerThanEntries
      <4> QED
        BY <3>2, <4>2 DEF CacheEntry
    <3>4. CASE u = t
      <4>1. source'[t] = v /\ source[t] \in Int /\ v \in Int
        <5>1. Versions \subseteq Int
          BY RunnerAssumption DEF RunnerAssumption
        <5> QED
          BY <1>0, <2>1, <2>2, <5>1 DEF SourceInv, TestsTypeOK
      <4>2. \A h \in Entries(t) : h \in Int
        BY <2>2, EntriesType DEF SourceInv
      <4>3. ASSUME t \notin rewound' PROVE \A h \in Entries(t) : h < v
        <5>1. t \notin rewound /\ ~(v < source[t])
          BY <2>1, <4>3
        <5>2. \A h \in Entries(t) : h <= source[t]
          BY <3>1, <3>4, <5>1 DEF CacheEntry, NewerThanEntries
        <5> QED
          BY <2>1, <4>1, <4>2, <5>1, <5>2
      <4>4. t \notin rewound' => (\A h \in Entries(t) : h <= v) /\ v \notin Entries(t)
        BY <4>1, <4>2, <4>3
      <4>5. NewerThanEntries(t)'
        BY <1>0, <2>2, <2>3, <4>1, <4>4 DEF NewerThanEntries
      <4> QED
        BY <3>2, <3>4, <4>5 DEF CacheEntry
    <3> QED
      BY <3>3, <3>4
  <2>5. \A u \in Tests : Compiled(u)'
    BY <2>2 DEF Compiled
  <2>6. CacheInv'
    BY <2>2, <2>4, <2>5 DEF CacheInv
  <2> QED
    BY <2>2, <2>6 DEF VerdictOfCurrentSource
<1>10. CASE UNCHANGED vars
  BY <1>10 DEF vars, SourceInv, CacheInv, CacheEntry, StoreOrder, NewerThanEntries, SavedEntries,
     Compiled, VerdictOfCurrentSource, Ended, Entries
<1> QED
  BY <1>1, <1>2, <1>3, <1>4, <1>5, <1>6, <1>7, <1>8, <1>9, <1>10 DEF Next

\* No run of the compliance runner takes an ELF of another source for a test,
\* whatever was killed, torn or overwritten in the cache directory and whatever
\* contents the sources go back to, but for the tests VerdictOfCurrentSource
\* leaves out (build_test, BuildCache).
THEOREM CacheSound == Spec => []VerdictOfCurrentSource
<1>1. Init => SourceInv
  <2> SUFFICES ASSUME Init PROVE SourceInv
    OBVIOUS
  <2>1. PoolsOK /\ VerdictOfCurrentSource
    BY DEF Init, PoolsOK, VerdictOfCurrentSource, At, Ended
  <2>2. ASSUME NEW t \in Upstream
        PROVE  Entries(t) = {0} /\ source[t] = 1 /\ t \in Tests /\ thread[t].at = "done"
    BY RunnerAssumption DEF Init, Entries, At, NoHashes, RunnerAssumption
  <2>3. CacheInv
    BY <2>2 DEF Init, CacheInv, CacheEntry, StoreOrder, NewerThanEntries, SavedEntries, Compiled, At
  <2> QED
    BY <2>1, <2>3, TypeInit DEF SourceInv
<1>2. SourceInv /\ [Next]_vars => SourceInv'
  BY TypeStep, PoolsStep, CacheStep DEF SourceInv
<1>3. SourceInv => VerdictOfCurrentSource
  BY DEF SourceInv
<1> QED
  BY <1>1, <1>2, <1>3, PTL DEF Spec

-----------------------------------------------------------------------------
(* The verdict.                                                            *)

LEMMA CountFacts ==
  ASSUME NEW r
  PROVE  /\ Count(r) \in Nat
         /\ Count(r) > 0 <=> \E t \in Tests : rec[t].result = r
         /\ Count(r) = NTests <=> \A t \in Tests : rec[t].result = r
<1> DEFINE with == {t \in Tests : rec[t].result = r}
<1>1. IsFiniteSet(Tests) /\ Cardinality(Tests) = NTests
  <2>1. NTests \in Nat /\ Tests = 1..NTests
    BY RunnerAssumption DEF RunnerAssumption, Tests
  <2> QED
    BY <2>1, FS_Interval
<1>2. IsFiniteSet(with) /\ Cardinality(with) \in Nat
  BY <1>1, FS_Subset, FS_CardinalityType
<1>3. Cardinality(with) = 0 <=> with = {}
  BY <1>2, FS_EmptySet
<1>4. Cardinality(with) = NTests <=> with = Tests
  BY <1>1, FS_Subset
<1> QED
  BY <1>2, <1>3, <1>4 DEF Count

\* The two readings of the counts agree once no test is pending.
LEMMA ExitAndStatus ==
  ASSUME toolsOk => \A t \in Tests : rec[t].result \in {"PASS", "FAIL", "ERROR"}
  PROVE  /\ ComputeExitCode(Summary) = 0 <=> OverallStatus(Summary) = "passed"
         /\ ComputeExitCode(Summary) = 1 =>
              OverallStatus(Summary) = "failed" /\ Count("FAIL") > 0
         /\ OverallStatus(Summary) = "passed" =>
              Summary.total = NTests /\ Summary.pass = NTests
<1>1. NTests \in Nat
  BY RunnerAssumption DEF RunnerAssumption
<1>2. CASE ~toolsOk
  BY <1>2 DEF Summary, ComputeExitCode, OverallStatus
<1>3. CASE toolsOk /\ NTests = 0
  <2>1. \A r : Count(r) = 0
    BY <1>3, CountFacts DEF Tests
  <2> QED
    BY <1>3, <2>1 DEF Summary, ComputeExitCode, OverallStatus
<1>4. CASE toolsOk /\ NTests # 0
  <2> DEFINE pass == Count("PASS")
             fail == Count("FAIL")
             err  == Count("ERROR")
  <2>1. /\ pass \in Nat /\ fail \in Nat /\ err \in Nat
        /\ pass = NTests <=> (fail = 0 /\ err = 0)
    <3>1. /\ pass \in Nat /\ fail \in Nat /\ err \in Nat
          /\ fail > 0 <=> \E t \in Tests : rec[t].result = "FAIL"
          /\ err > 0 <=> \E t \in Tests : rec[t].result = "ERROR"
          /\ pass = NTests <=> \A t \in Tests : rec[t].result = "PASS"
      BY CountFacts
    <3>2. fail = 0 <=> ~(\E t \in Tests : rec[t].result = "FAIL")
      BY <3>1
    <3>3. err = 0 <=> ~(\E t \in Tests : rec[t].result = "ERROR")
      BY <3>1
    <3> HIDE DEF pass, fail, err
    <3> QED
      BY <1>4, <3>1, <3>2, <3>3
  <2>2. Summary.total = NTests /\ Summary.pass = pass /\ Summary.fail = fail /\ Summary.error = err
    BY <1>4 DEF Summary
  <2> HIDE DEF pass, fail, err
  <2>3. OverallStatus(Summary) = IF pass = NTests THEN "passed" ELSE "failed"
    BY <1>4, <2>2 DEF OverallStatus
  <2>4. ComputeExitCode(Summary) = IF err > 0 THEN 2 ELSE IF fail > 0 THEN 1 ELSE 0
    BY <1>4, <2>1, <2>2 DEF ComputeExitCode
  <2>5. Count("FAIL") = fail
    BY DEF fail
  <2> QED
    BY <2>1, <2>2, <2>3, <2>4, <2>5
<1> QED
  BY <1>2, <1>3, <1>4

Statuses == {"none", "running_compliance", "passed", "failed", "infra_error"}

Judged(t) == rec[t].result \in {"PASS", "FAIL", "ERROR"}

\* What the main thread relies on when it reports: every test has been judged,
\* and what it wrote before is of this run.
ReportInv ==
  /\ manifest.run = run
  /\ ~Ended => manifest.status = "running_compliance"
  /\ phase \in {"build", "run"} => toolsOk
  /\ phase = "run" => \A t \in Tests : thread[t].at = "done" => Judged(t)
  /\ phase \in {"report", "result", "patch"} => (toolsOk => \A t \in Tests : Judged(t))
  /\ phase \in {"result", "patch"} => latest = run
  /\ phase = "patch" => /\ result.run = run
                        /\ result.total = Summary.total /\ result.pass = Summary.pass
  /\ manifest \in [status : Statuses, run : Nat]

VerdictInv == TestsTypeOK /\ PoolsOK /\ ReportInv /\ ExitAgreesWithManifest /\ ManifestNeverAhead

\* A step before the report that leaves the outcome and the manifest alone.
LEMMA VerdictQuiet ==
  ASSUME VerdictInv, ~Ended, phase' \in {"build", "run", "report"}, UNCHANGED <<run, output>>,
         phase' \in {"build", "run"} => toolsOk',
         phase' = "run" => \A t \in Tests : thread'[t].at = "done" => Judged(t)',
         phase' = "report" => (toolsOk' => \A t \in Tests : Judged(t)')
  PROVE  ReportInv' /\ ExitAgreesWithManifest' /\ ManifestNeverAhead'
BY DEF VerdictInv, ReportInv, ExitAgreesWithManifest, ManifestNeverAhead, output, Ended

LEMMA VerdictStep ==
  ASSUME VerdictInv, [Next]_vars
  PROVE  ReportInv' /\ ExitAgreesWithManifest' /\ ManifestNeverAhead'
<1> USE DEF driver, output
<1>0. /\ thread \in [Tests -> Threads] /\ rec \in [Tests -> Records]
      /\ \A t \in Tests : rec[t].result \in Results
  BY DEF VerdictInv, TestsTypeOK, Records
<1>1. CASE MarkRunning
  BY <1>1 DEF MarkRunning, VerdictInv, ReportInv, ExitAgreesWithManifest, ManifestNeverAhead, Ended,
     Statuses
<1>2. CASE Driver
  <2>1. CASE Validate
    BY <2>1, VerdictQuiet DEF Validate, Ended
  <2>2. CASE OpenRunPool
    <3>1. \A t \in Tests : thread'[t].at = "done" => Judged(t)'
      BY <1>0, <2>2 DEF OpenRunPool, At, Judged, Results
    <3> QED
      BY <2>2, <3>1, VerdictQuiet DEF OpenRunPool, Ended, VerdictInv, ReportInv
  <2>3. CASE CloseRunPool
    BY <2>3, VerdictQuiet DEF CloseRunPool, Ended, VerdictInv, ReportInv, Judged
  <2>4. CASE WriteReports
    BY <2>4 DEF WriteReports, VerdictInv, ReportInv, ExitAgreesWithManifest, ManifestNeverAhead,
       Ended, Judged
  <2>5. CASE WriteResult
    <3>1. Summary' = Summary
      BY <2>5 DEF WriteResult, Summary, Count
    <3> QED
      BY <2>5, <3>1 DEF WriteResult, VerdictInv, ReportInv, ExitAgreesWithManifest,
         ManifestNeverAhead, Ended, Judged
  <2>6. CASE PatchManifest
    <3>1. /\ toolsOk => \A t \in Tests : rec[t].result \in {"PASS", "FAIL", "ERROR"}
          /\ result.run = run /\ latest = run /\ manifest.run = run
          /\ result.total = Summary.total /\ result.pass = Summary.pass
          /\ manifest \in [status : Statuses, run : Nat]
      BY <2>6 DEF PatchManifest, VerdictInv, ReportInv, Judged
    <3>2. /\ manifest' = [status |-> OverallStatus(Summary), run |-> run]
          /\ exit' = ComputeExitCode(Summary) /\ phase' = "returned"
          /\ UNCHANGED <<run, rec, result, latest>>
      BY <2>6, <3>1 DEF PatchManifest
    <3>3. OverallStatus(Summary) \in Statuses
      BY DEF OverallStatus, Statuses
    <3>4. ReportInv'
      <4>1. run \in Nat
        BY <3>1
      <4> QED
        BY <3>2, <3>3, <4>1 DEF ReportInv, Ended
    <3>5. Count("FAIL")' = Count("FAIL")
      BY <3>2 DEF Count
    <3>6. ExitAgreesWithManifest'
      BY <3>1, <3>2, <3>5, ExitAndStatus DEF ExitAgreesWithManifest
    <3>7. ManifestNeverAhead'
      BY <3>1, <3>2, ExitAndStatus DEF ManifestNeverAhead
    <3> QED
      BY <3>4, <3>6, <3>7
  <2> QED
    BY <1>2, <2>1, <2>2, <2>3, <2>4, <2>5, <2>6 DEF Driver
<1>3. CASE RunnerRaises
  BY <1>3 DEF RunnerRaises, VerdictInv, ReportInv, ExitAgreesWithManifest, ManifestNeverAhead, Ended,
     Statuses
<1>4. CASE Kill
  BY <1>4 DEF Kill, VerdictInv, ReportInv, ExitAgreesWithManifest, ManifestNeverAhead, Ended
<1>5. CASE TakeBuild
  BY <1>5, VerdictQuiet DEF TakeBuild, Take, Ended, VerdictInv, ReportInv
<1>6. CASE TakeRun
  <2>1. PICK t \in Tests : /\ thread' = [thread EXCEPT ![t] = At("golden")]
                           /\ UNCHANGED <<driver, rec, output>> /\ phase = "run"
    BY <1>6 DEF TakeRun, Take
  <2>2. thread'[t].at = "golden" /\ \A u \in Tests \ {t} : thread'[u] = thread[u]
    BY <1>0, <2>1 DEF At
  <2> QED
    BY <2>1, <2>2, VerdictQuiet DEF Ended, VerdictInv, ReportInv, Judged
<1>7. ASSUME NEW t \in Tests, Build(t)
      PROVE  ReportInv' /\ ExitAgreesWithManifest' /\ ManifestNeverAhead'
  <2>1. thread[t].at \in BuildSteps /\ UNCHANGED <<driver, output>>
    BY <1>7 DEF Build, CacheHit, CacheMiss, Compiles, Rejects, Raises, StoreCopy, StoreIndex,
       SaveIndex, BuildRaises, Step, BuildSteps
  <2>2. phase = "build"
    BY <2>1 DEF VerdictInv, PoolsOK, BuildSteps, RunSteps
  <2> QED
    BY <2>1, <2>2, VerdictQuiet DEF Ended, VerdictInv, ReportInv
<1>8. ASSUME NEW t \in Tests, Run(t)
      PROVE  ReportInv' /\ ExitAgreesWithManifest' /\ ManifestNeverAhead'
  <2>1. /\ rec' \in [Tests -> Records] /\ thread[t].at \in RunSteps
        /\ thread'[t].at = "done" => rec'[t].result # "PENDING"
        /\ \A u \in Tests \ {t} : thread'[u] = thread[u] /\ rec'[u] = rec[u]
        /\ UNCHANGED <<driver, output>>
    BY <1>8, TypeRun DEF VerdictInv
  <2>2. phase = "run"
    BY <2>1 DEF VerdictInv, PoolsOK, BuildSteps, RunSteps
  <2>3. \A u \in Tests : thread'[u].at = "done" => Judged(u)'
    BY <2>1, <2>2 DEF VerdictInv, ReportInv, Judged, Records, Results
  <2> QED
    BY <2>1, <2>2, <2>3, VerdictQuiet DEF Ended, VerdictInv, ReportInv
<1>9. ASSUME NEW t \in Tests, Edit(t)
      PROVE  ReportInv' /\ ExitAgreesWithManifest' /\ ManifestNeverAhead'
  BY <1>9 DEF Edit, VerdictInv, ReportInv, ExitAgreesWithManifest, ManifestNeverAhead, Ended, Count
<1>10. CASE UNCHANGED vars
  BY <1>10 DEF vars, VerdictInv, ReportInv, ExitAgreesWithManifest, ManifestNeverAhead, Ended,
     Judged, Summary, Count
<1> QED
  BY <1>1, <1>2, <1>3, <1>4, <1>5, <1>6, <1>7, <1>8, <1>9, <1>10 DEF Next

LEMMA VerdictInductive ==
  Spec => []VerdictInv
<1>1. Init => VerdictInv
  <2> SUFFICES ASSUME Init PROVE VerdictInv
    OBVIOUS
  <2>1. PoolsOK /\ ReportInv /\ ExitAgreesWithManifest /\ ManifestNeverAhead
    BY DEF Init, PoolsOK, ReportInv, ExitAgreesWithManifest, ManifestNeverAhead, Ended, At, Statuses
  <2> QED
    BY <2>1, TypeInit DEF VerdictInv
<1>2. VerdictInv /\ [Next]_vars => VerdictInv'
  BY TypeStep, PoolsStep, VerdictStep DEF VerdictInv
<1> QED
  BY <1>1, <1>2, PTL DEF Spec

\* The exit code and the manifest of a run agree (compute_exit_code,
\* run_compliance_manifest).
THEOREM VerdictsAgree == Spec => []ExitAgreesWithManifest
<1>1. VerdictInv => ExitAgreesWithManifest
  BY DEF VerdictInv
<1> QED
  BY <1>1, VerdictInductive, PTL

\* A manifest that says passed has the passed result of the same run beside it,
\* whatever was killed (_write_reports, run_compliance_manifest).
THEOREM PassesAreBacked == Spec => []ManifestNeverAhead
<1>1. VerdictInv => ManifestNeverAhead
  BY DEF VerdictInv
<1> QED
  BY <1>1, VerdictInductive, PTL

-----------------------------------------------------------------------------
(* The type invariant.                                                     *)

MainTypeOK ==
  /\ phase \in {"idle", "validate", "build", "run", "report", "result", "patch",
                "returned", "killed"}
  /\ run \in 0..MaxRuns /\ toolsOk \in BOOLEAN
  /\ result \in [run : 0..MaxRuns, total : 0..NTests, pass : 0..NTests]
  /\ latest \in 0..MaxRuns /\ exit \in -1..3
  /\ manifest \in [status : Statuses, run : 0..MaxRuns]

LEMMA MainTypeStep ==
  ASSUME MainTypeOK, TestsTypeOK, [Next]_vars
  PROVE  MainTypeOK'
<1> USE DEF driver, output, MainTypeOK
<1>1. CASE MarkRunning
  <2>1. run + 1 \in 0..MaxRuns
    BY <1>1, RunnerAssumption DEF MarkRunning, RunnerAssumption
  <2> QED
    BY <1>1, <2>1 DEF MarkRunning, Statuses
<1>2. CASE Driver
  <2>1. CASE Validate \/ OpenRunPool \/ CloseRunPool \/ WriteReports
    BY <2>1 DEF Validate, OpenRunPool, CloseRunPool, WriteReports
  <2>2. CASE WriteResult
    <3>1. Summary.total \in 0..NTests /\ Summary.pass \in 0..NTests
      <4>1. /\ NTests \in Nat /\ Tests = 1..NTests
            /\ IsFiniteSet(Tests) /\ Cardinality(Tests) = NTests
        <5>1. NTests \in Nat /\ Tests = 1..NTests
          BY RunnerAssumption DEF RunnerAssumption, Tests
        <5> QED
          BY <5>1, FS_Interval
      <4>2. Count("PASS") <= NTests /\ Count("PASS") \in Nat
        <5>1. Cardinality({t \in Tests : rec[t].result = "PASS"}) <= NTests
          BY <4>1, FS_Subset
        <5> QED
          BY <5>1, CountFacts DEF Count
      <4> QED
        BY <4>1, <4>2 DEF Summary
    <3> QED
      BY <2>2, <3>1 DEF WriteResult
  <2>3. CASE PatchManifest
    <3>1. OverallStatus(Summary) \in Statuses /\ ComputeExitCode(Summary) \in 0..3
      BY DEF OverallStatus, Statuses, ComputeExitCode
    <3> QED
      BY <2>3, <3>1 DEF PatchManifest
  <2> QED
    BY <1>2, <2>1, <2>2, <2>3 DEF Driver
<1>3. CASE RunnerRaises
  BY <1>3 DEF RunnerRaises, Statuses
<1>4. CASE Kill
  BY <1>4 DEF Kill
<1>5. CASE TakeBuild \/ TakeRun
  BY <1>5 DEF TakeBuild, TakeRun, Take
<1>6. ASSUME NEW t \in Tests, Build(t) PROVE MainTypeOK'
  BY <1>6 DEF Build, CacheHit, CacheMiss, Compiles, Rejects, Raises, StoreCopy, StoreIndex,
     SaveIndex, BuildRaises
<1>7. ASSUME NEW t \in Tests, Run(t) PROVE MainTypeOK'
  BY <1>7, TypeRun
<1>8. ASSUME NEW t \in Tests, Edit(t) PROVE MainTypeOK'
  BY <1>8 DEF Edit
<1>9. CASE UNCHANGED vars
  BY <1>9 DEF vars
<1> QED
  BY <1>1, <1>2, <1>3, <1>4, <1>5, <1>6, <1>7, <1>8, <1>9 DEF Next

\* Every variable of the runner keeps its type (ComplianceRunner, TestRecord).
THEOREM ComplianceTypes == Spec => []ComplianceTypeOK
<1>1. Init => MainTypeOK
  BY RunnerAssumption DEF Init, MainTypeOK, Statuses, RunnerAssumption
<1>2. MainTypeOK /\ TestsTypeOK => ComplianceTypeOK
  BY DEF MainTypeOK, TestsTypeOK, ComplianceTypeOK, Threads, Records, Statuses
<1> QED
  BY <1>1, <1>2, TypeInit, TypeStep, MainTypeStep, PTL DEF Spec
=============================================================================
