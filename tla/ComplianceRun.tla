---------------------------- MODULE ComplianceRun ----------------------------
(***************************************************************************)
(* The compliance runner (AGENT_E/run_compliance.py) in manifest mode:     *)
(* collect the tests, build them on a pool of threads with a cache kept    *)
(* between runs, run golden model and design on a second pool, compare,    *)
(* report, and record the outcome in the run manifest. Runs follow one     *)
(* another on one output directory; the runner may be killed at any step,  *)
(* and between runs the test sources may be edited.                        *)
(***************************************************************************)
EXTENDS RtlAdapter, Integers, FiniteSets

CONSTANTS
  NTests,          \* tests are 1..NTests, in the order they are collected
  Upstream,        \* those whose source is a file of the test repository
  Versions,        \* contents a source can have
  NoElf, Torn,     \* no compiled file; one whose copy was cut short
  BuildWorkers, RunWorkers,
  Attempts,        \* tries of RetryPolicy
  MaxRuns          \* bound: runs of the runner

Tests == 1..NTests

ASSUME RunnerAssumption ==
  /\ NTests \in Nat /\ Upstream \subseteq Tests
  /\ Versions \subseteq Nat \ {0} /\ 1 \in Versions
  /\ NoElf \notin Versions /\ Torn \notin Versions /\ NoElf # Torn
  /\ {BuildWorkers, RunWorkers, Attempts, MaxRuns} \subseteq Nat \ {0}

VARIABLES
  phase,       \* what the main thread is doing
  run,         \* the number of this run
  toolsOk,     \* _validate_tools found no error
  thread,      \* thread[t]: where the pool thread of test t is, and its locals
  rec,         \* rec[t]: its TestRecord
  index,       \* BuildCache._index: content hash by source path, 0 for none
  source,      \* source[t]: the content of its source file now
  indexFile, cached,  \* the cache directory: cache_index.json and the ELFs
  result,      \* compliance.result.json
  latest,      \* run whose reports the links in the output directory name
  manifest,    \* phases.compliance of the run manifest, with its run
  exit,        \* what run_compliance_manifest returned, -1 before
  unsaved,     \* history: tests with an ELF in the cache whose entry may not have been saved
  rewound      \* history: tests whose source has gone back to an earlier content

driver == <<phase, run, toolsOk>>
cache  == <<index, indexFile, cached, unsaved>>
edits  == <<source, rewound>>
output == <<result, latest, manifest, exit>>
vars   == <<driver, thread, rec, cache, edits, output>>

-----------------------------------------------------------------------------
Results == {"PENDING", "PASS", "FAIL", "ERROR"}
Fresh   == [result |-> "PENDING", elf |-> NoElf]

NoHashes == [t \in Upstream |-> 0]

\* A thread's locals: attempts of its current call, the index as it has
\* serialised it, the golden signature.
At(step) == [at |-> step, tries |-> 0, snap |-> NoHashes, golden |-> NoFile]

BuildSteps == {"lookup", "compile", "recompile", "copy", "index", "save"}
RunSteps   == {"golden", "dut"}

Count(r) == Cardinality({t \in Tests : rec[t].result = r})
Summary  == [total |-> IF toolsOk THEN NTests ELSE 0, pass |-> Count("PASS"),
             fail |-> Count("FAIL"), error |-> Count("ERROR")]

OverallStatus(s) ==
  IF s.total = 0 THEN "infra_error" ELSE IF s.pass = s.total THEN "passed" ELSE "failed"

ComputeExitCode(s) ==
  CASE ~toolsOk                  -> 3
    [] toolsOk /\ s.error > 0    -> 2
    [] toolsOk /\ s.error = 0 /\ s.fail > 0 -> 1
    [] OTHER                     -> IF s.total = 0 THEN 2 ELSE 0

Init ==
  /\ phase = "idle" /\ run = 0 /\ toolsOk = TRUE
  /\ thread = [t \in Tests |-> At("done")] /\ rec = [t \in Tests |-> Fresh]
  /\ index = NoHashes /\ indexFile = NoHashes
  /\ cached = [t \in Upstream |-> NoElf]
  /\ source = [t \in Tests |-> 1]
  /\ unsaved = {} /\ rewound = {}
  /\ result = [run |-> 0, total |-> 0, pass |-> 0] /\ latest = 0
  /\ manifest = [status |-> "none", run |-> 0] /\ exit = -1

-----------------------------------------------------------------------------
(* The main thread up to the build pool.                                   *)

Ended == phase \in {"idle", "killed", "returned"}

\* run_compliance_manifest marks the phase before it starts the runner.
MarkRunning ==
  /\ Ended /\ run < MaxRuns
  /\ run' = run + 1
  /\ manifest' = [status |-> "running_compliance", run |-> run + 1]
  /\ phase' = "validate"
  /\ toolsOk' = TRUE /\ rec' = [t \in Tests |-> Fresh] /\ index' = NoHashes /\ exit' = -1
  /\ UNCHANGED <<thread, indexFile, cached, unsaved, edits, result, latest>>

\* A missing tool ends the run with an empty report; otherwise the build pool
\* opens on the index the cache directory holds.
Validate ==
  /\ phase = "validate"
  /\ \/ /\ toolsOk' = FALSE /\ phase' = "report"
        /\ UNCHANGED <<thread, index>>
     \/ /\ toolsOk' = TRUE /\ phase' = "build"
        /\ thread' = [t \in Tests |-> At("submitted")]
        /\ index' = indexFile
  /\ UNCHANGED <<run, rec, edits, indexFile, cached, unsaved, output>>

\* A pool takes the submitted tests in order.
Take(steps, workers, first) ==
  \E t \in Tests :
    /\ thread[t].at = "submitted" /\ \A u \in 1..t-1 : thread[u].at # "submitted"
    /\ Cardinality({u \in Tests : thread[u].at \in steps}) < workers
    /\ thread' = [thread EXCEPT ![t] = At(first)]
    /\ UNCHANGED <<driver, rec, cache, edits, output>>

-----------------------------------------------------------------------------
(* One test on the build pool: build_test.                                 *)

Step(t, from, to) == thread[t].at = from /\ thread' = [thread EXCEPT ![t] = At(to)]
SetError(t)       == rec' = [rec EXCEPT ![t].result = "ERROR"]

\* A cache that asks only for the file.
CacheHolds_Exists(t) == t \in Upstream /\ cached[t] # NoElf

\* Only a repository source keeps its path, the key of the cache, between
\* runs; the embedded tests are written anew into the directory of the run.
CacheHolds(t) ==
  t \in Upstream /\ index[t] = source[t] /\ cached[t] # NoElf

CacheHit(t) ==
  /\ Step(t, "lookup", "done") /\ CacheHolds(t)
  /\ rec' = [rec EXCEPT ![t].elf = cached[t]]
  /\ UNCHANGED <<driver, cache, edits, output>>

CacheMiss(t) ==
  /\ Step(t, "lookup", "compile") /\ ~CacheHolds(t)
  /\ UNCHANGED <<driver, rec, cache, edits, output>>

\* The compiler is tried with _zicsr and then without.
Compiles(t) ==
  /\ Step(t, "compile", "copy") \/ Step(t, "recompile", "copy")
  /\ rec' = [rec EXCEPT ![t].elf = source[t]]
  /\ UNCHANGED <<driver, cache, edits, output>>

Rejects(t) ==
  /\ \/ Step(t, "compile", "recompile") /\ UNCHANGED rec
     \/ Step(t, "recompile", "done") /\ SetError(t)
  /\ UNCHANGED <<driver, cache, edits, output>>

\* Mutation: attempts that are not counted.
Raises_Forever(t, steps) ==
  /\ thread[t].at \in steps
  /\ thread' = [thread EXCEPT ![t].tries = (@ + 1) % Attempts]
  /\ UNCHANGED <<driver, rec, cache, edits, output>>

\* A call that raises (it timed out or did not start) is retried while attempts
\* are left, and then given up with an error.
Raises(t, steps) ==
  /\ thread[t].at \in steps
  /\ IF thread[t].tries + 1 < Attempts
       THEN thread' = [thread EXCEPT ![t].tries = @ + 1] /\ UNCHANGED rec
       ELSE Step(t, thread[t].at, "done") /\ SetError(t)
  /\ UNCHANGED <<driver, cache, edits, output>>

\* BuildCache.store: the ELF is copied, the hash entered in the index of all
\* threads, and the index written out whole, as this thread serialised it.
StoreCopy(t) ==
  /\ Step(t, "copy", "index")
  /\ cached' = IF t \in Upstream THEN [cached EXCEPT ![t] = rec[t].elf] ELSE cached
  /\ unsaved' = unsaved \cup ({t} \cap Upstream)
  /\ UNCHANGED <<driver, rec, index, indexFile, edits, output>>

StoreIndex(t) ==
  /\ thread[t].at = "index"
  /\ index' = IF t \in Upstream THEN [index EXCEPT ![t] = source[t]] ELSE index
  /\ thread' = [thread EXCEPT ![t].at = "save", ![t].snap = index']
  /\ UNCHANGED <<driver, rec, indexFile, cached, unsaved, edits, output>>

\* It is safe unless another thread is about to write an index that may be older.
SaveIndex(t) ==
  /\ Step(t, "save", "done")
  /\ indexFile' = thread[t].snap
  /\ unsaved' = IF \E u \in Tests \ {t} : thread[u].at = "save" THEN unsaved ELSE unsaved \ {t}
  /\ UNCHANGED <<driver, rec, index, cached, edits, output>>

\* Copies into the cache that are cut short, for some of the tests at it.
MayTear(tests) ==
  \E torn \in SUBSET {t \in Upstream \cap tests : thread[t].at = "copy"} :
    /\ cached' = [t \in Upstream |-> IF t \in torn THEN Torn ELSE cached[t]]
    /\ unsaved' = unsaved \cup torn

\* A file that cannot be read or written, or an index that another thread
\* extends while this one serialises it, raises out of build_test; the test
\* is marked when its future is collected.
BuildRaises(t) ==
  /\ \E step \in {"lookup", "copy", "index", "save"} : Step(t, step, "done")
  /\ SetError(t)
  /\ MayTear({t})
  /\ UNCHANGED <<driver, index, indexFile, edits, output>>

Build(t) ==
  \/ CacheHit(t) \/ CacheMiss(t)
  \/ Compiles(t) \/ Rejects(t) \/ Raises(t, {"compile", "recompile"})
  \/ StoreCopy(t) \/ StoreIndex(t) \/ SaveIndex(t) \/ BuildRaises(t)

\* The first pool is left when every future is done; what is still pending
\* is submitted to the second.
OpenRunPool ==
  /\ phase = "build" /\ \A t \in Tests : thread[t].at = "done"
  /\ phase' = "run"
  /\ thread' = [t \in Tests |->
                  At(IF rec[t].result = "PENDING" THEN "submitted" ELSE "done")]
  /\ UNCHANGED <<run, toolsOk, rec, cache, edits, output>>

-----------------------------------------------------------------------------
(* One test on the run pool: _run_single.                                  *)

\* A golden run without a signature that leaves its test unmarked.
GoldenEnds_Unmarked(t) ==
  \E file \in Files \cup {NoFile} :
    /\ thread[t].at = "golden"
    /\ thread' = [thread EXCEPT ![t] =
                    IF NonEmpty(file) THEN [At("dut") EXCEPT !.golden = file] ELSE At("done")]
    /\ UNCHANGED <<driver, rec, cache, edits, output>>

GoldenEnds(t) ==
  \E file \in Files \cup {NoFile} :
    /\ thread[t].at = "golden"
    /\ IF NonEmpty(file)
         THEN /\ thread' = [thread EXCEPT ![t] = [At("dut") EXCEPT !.golden = file]]
              /\ UNCHANGED rec
         ELSE Step(t, "golden", "done") /\ SetError(t)
    /\ UNCHANGED <<driver, cache, edits, output>>

\* What is made of the two files; a golden one with no word in it is an error.
Verdict(golden, dut) ==
  LET words == ParseSignature(golden)
  IN  CASE words = <<>> -> "ERROR"
        [] words # <<>> /\ Mismatches(words, ParseSignature(dut)) = {} -> "PASS"
        [] OTHER -> "FAIL"

\* The exit code of the design's script is logged; its file decides.
DutEnds(t) ==
  \E end \in AdapterEnds :
    /\ Step(t, "dut", "done")
    /\ rec' = [rec EXCEPT ![t].result = IF NonEmpty(end.file)
                                          THEN Verdict(thread[t].golden, end.file)
                                          ELSE "ERROR"]
    /\ UNCHANGED <<driver, cache, edits, output>>

\* The design's timeout, and whatever else goes wrong on this thread.
RunRaises(t) ==
  /\ Step(t, "golden", "done") \/ Step(t, "dut", "done")
  /\ SetError(t)
  /\ UNCHANGED <<driver, cache, edits, output>>

Run(t) == GoldenEnds(t) \/ Raises(t, {"golden"}) \/ DutEnds(t) \/ RunRaises(t)

-----------------------------------------------------------------------------
(* The main thread after the pools.                                        *)

CloseRunPool ==
  /\ phase = "run" /\ \A t \in Tests : thread[t].at = "done"
  /\ phase' = "report"
  /\ UNCHANGED <<run, toolsOk, thread, rec, cache, edits, output>>

\* Links that are made only where there are none.
WriteReports_Kept ==
  /\ phase = "report" /\ phase' = "result"
  /\ latest' = IF latest = 0 THEN run ELSE latest
  /\ UNCHANGED <<run, toolsOk, thread, rec, cache, edits, result, manifest, exit>>

WriteReports ==
  /\ phase = "report" /\ phase' = "result"
  /\ latest' = run
  /\ UNCHANGED <<run, toolsOk, thread, rec, cache, edits, result, manifest, exit>>

WriteResult ==
  /\ phase = "result" /\ phase' = "patch"
  /\ result' = [run |-> run, total |-> Summary.total, pass |-> Summary.pass]
  /\ UNCHANGED <<run, toolsOk, thread, rec, cache, edits, latest, manifest, exit>>

PatchManifest ==
  /\ phase = "patch" /\ phase' = "returned"
  /\ manifest' = [manifest EXCEPT !.status = OverallStatus(Summary)]
  /\ exit' = ComputeExitCode(Summary)
  /\ UNCHANGED <<run, toolsOk, thread, rec, cache, edits, result, latest>>

\* What the runner raises is recorded as an infrastructure error.
RunnerRaises ==
  /\ phase \in {"validate", "report"} /\ phase' = "returned"
  /\ manifest' = [manifest EXCEPT !.status = "infra_error"]
  /\ exit' = 2
  /\ UNCHANGED <<run, toolsOk, thread, rec, cache, edits, result, latest>>

\* What the process has in memory is gone.
Kill ==
  /\ ~Ended /\ phase' = "killed"
  /\ thread' = [t \in Tests |-> At("done")] /\ rec' = [t \in Tests |-> Fresh]
  /\ toolsOk' = TRUE /\ index' = NoHashes
  /\ MayTear(Tests)
  /\ UNCHANGED <<run, indexFile, edits, output>>

\* The test repository is edited or checked out anew before a run reads it.
Edit(t) ==
  /\ phase = "validate" /\ t \in Upstream
  /\ \E v \in Versions :
       /\ v # source[t]
       /\ source' = [source EXCEPT ![t] = v]
       /\ rewound' = IF v < source[t] THEN rewound \cup {t} ELSE rewound
  /\ UNCHANGED <<driver, thread, rec, cache, output>>

TakeBuild == phase = "build" /\ Take(BuildSteps, BuildWorkers, "lookup")
TakeRun   == phase = "run" /\ Take(RunSteps, RunWorkers, "golden")
Driver    == Validate \/ OpenRunPool \/ CloseRunPool \/ WriteReports \/ WriteResult \/ PatchManifest

Next ==
  \/ MarkRunning \/ Driver \/ RunnerRaises \/ Kill
  \/ TakeBuild \/ TakeRun
  \/ \E t \in Tests : Build(t) \/ Run(t) \/ Edit(t)

Spec == Init /\ [][Next]_vars

\* The threads run, and every subprocess call has a timeout.
FairSpec ==
  Spec /\ WF_vars(Driver) /\ WF_vars(TakeBuild) /\ WF_vars(TakeRun)
       /\ \A t \in 1..NTests : WF_vars(Build(t) \/ Run(t))
-----------------------------------------------------------------------------
Hashes == [Upstream -> Versions \cup {0}]

ComplianceTypeOK ==
  /\ phase \in {"idle", "validate", "build", "run", "report", "result", "patch",
                "returned", "killed"}
  /\ run \in 0..MaxRuns /\ toolsOk \in BOOLEAN
  /\ thread \in [Tests -> [at : {"submitted", "done"} \cup BuildSteps \cup RunSteps,
                           tries : 0..Attempts-1, snap : Hashes,
                           golden : Files \cup {NoFile}]]
  /\ rec \in [Tests -> [result : Results, elf : Versions \cup {NoElf, Torn}]]
  /\ index \in Hashes /\ indexFile \in Hashes
  /\ cached \in [Upstream -> Versions \cup {NoElf, Torn}]
  /\ source \in [Tests -> Versions]
  /\ unsaved \subseteq Upstream /\ rewound \subseteq Upstream
  /\ result \in [run : 0..MaxRuns, total : 0..NTests, pass : 0..NTests]
  /\ latest \in 0..MaxRuns /\ exit \in -1..3
  /\ manifest \in [status : {"none", "running_compliance", "passed", "failed", "infra_error"},
                   run : 0..MaxRuns]

\* While a run goes on, what it builds, finds in the cache and runs is the
\* source as it stands (build_test, BuildCache), whether its sources are edited
\* or checked out at an earlier content, and whatever was killed, torn or
\* overwritten in the cache directory before. One test is left out, and for it
\* the docstring of BuildCache does not hold: its last ELF reached the cache, the
\* entry of it was not saved or another thread may have saved an older index
\* over it, and its source has gone back to an earlier content.
VerdictOfCurrentSource ==
  ~Ended => \A t \in Tests \ (unsaved \cap rewound) : rec[t].elf \in {NoElf, source[t]}

\* The exit code is 0 exactly when the manifest says passed, and 1 only when it
\* says failed: the two are computed apart, one from the error and failure
\* counts and one from the passes (compute_exit_code, run_compliance_manifest).
ExitAgreesWithManifest ==
  phase = "returned" =>
    /\ exit = 0 <=> manifest.status = "passed"
    /\ exit = 1 => manifest.status = "failed" /\ Count("FAIL") > 0
    /\ manifest.run = run

\* Whatever is killed, a manifest that says passed has beside it the result
\* file of the same run, with every collected test in it passed, and the links
\* name the reports of that run (_write_reports, run_compliance_manifest).
ManifestNeverAhead ==
  manifest.status = "passed" =>
    /\ result.run = manifest.run /\ latest = manifest.run
    /\ result.total = NTests /\ result.pass = NTests

\* A run that starts ends: no thread retries for ever and the pools drain,
\* whatever the subprocesses do (RetryPolicy, _build_all, _run_all).
RunReturns == phase = "validate" ~> Ended

=============================================================================
