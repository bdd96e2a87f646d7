# Verification of the AVA / VOE platform

This directory holds TLA+ models of the parts of the platform that carry its
own logic, the TLC configurations that check them on small instances, and
TLAPS proofs of what matters most for every instance. `PROJECT.json` lists the
components, the runs, the mutants that show each property can fail, the source
lines behind each definition, the hazards, the findings and the theorems.

To check a run: `tlc -config X.cfg MCModule.tla` (names in `PROJECT.json`,
"runs"). To check a proof: `tlapm XProofs.tla`.

## 1. The system

The repository holds two systems that share ideas more than code.

The **platform of agents** (`AGENT_A` to `AGENT_L`, `ava_patched.py`) verifies
a processor: it generates stimulus, runs the RTL and the ISA simulator, compares
their commit logs, runs some eighty checkers over the logs and reports. The
agents are separate processes; they meet in the files of a run directory and in
its manifest.

The **Verification Operating Environment** (`voe/`, `phase3/`) organises
workers around a shared knowledge state, `docs/vsa_reference.py`: workers bid
for obligations on a board, a run of a real tool yields a judgment, the bus
adjudicates it, a ledger pays for it, and a reputation service scores the worker.

| component | state | operations | hard because | what makes it correct |
|---|---|---|---|---|
| Comparator's rules, `CommitEntry`, `_FieldComparator` and `_DeltaWindow` of the same file | the ring of differences, the mismatches | decode, push, compare, record | two formats with fallbacks, early returns, masks, sorting; the ring forgets what its differences refer to | formats read alike, no false alarm, no miss, no stale context |
| Comparator, `AGENT_D/compare_commitlogs.py` | two bounded queues, two error boxes, step validators, mismatch list | two reader threads, the lockstep loop, drain and join | threads block on full and empty queues; a reader may die between two entries; the limit may be hit in the middle of a step | a pass only for equal logs; a dead reader is not an end of file; the limit holds; the verdict does not depend on the schedule |
| Manifest, `ava_shared/manifest_io.py`, `AGENT_H/manifest_merge.py`, `_save_manifest` of `AGENT_I/J/K/L` | the file, its temporary files, a sidecar lock, each agent's copy | locked update, snapshot and commit, whole-file save | processes interleave, raise and die at any point; snapshots are as old as a run | no update lost, none half visible, no caller stuck |
| Kernel and bus, `docs/vsa_reference.py`, `voe/bus.py` | belief and owner per property, calibration events | `publish` and its adjudication | judgments of any worker arrive in any order | the belief is the strongest judgment; authority never falls; the order does not matter |
| Campaign, `voe/voe.py`, `workers.py` | skip sets, step, current risk | propose, grant, execute, publish, share, record | one run settles several obligations; verdicts are remembered; giving up is per worker | verdicts are final; samples are earned; budget and risk add up; it stops only with nothing to do |
| Board and ledger, `voe/board.py` | obligations with prerequisites and sharing; cost spent | actionable, can_afford, charge | prerequisites may be refuted; three methods of different cost | nothing is worked on early; the budget holds |
| Reputation, `voe/reputation.py` | claims, gain, cost, bonuses | record, report | a factor may be negative; shared passes are not claims | a refuted pass never pays |
| Evidence channels, `phase3/evidence_channels.py` | verdict cache, gate and control answers | check, run, prove | answers are remembered for ever | no proof without the gate |
| Impact graph, `voe/impact.py` | basis and pinned hash per claim | record, propagate | pins and caches outlive what they describe | what rests on a change is reopened |
| Policies, specialists, `voe/policy.py`, `specialists.py` | learned rates, semantic memory | propose, probe, observe | choices depend on noisy estimates | only eligible bids; probes are paid for |
| Institutional memory, pre-registration | JSON records | add, commit, decide | two writers; editing after the fact | append only; the rule precedes the data |
| Compliance runner, `AGENT_E/run_compliance.py`, `run_rtl_adapter.py`, `AGENT_B/backends/run_rtl.py` | a record per test, the build cache, signature files, result, reports, manifest | collect, build pool, run pool, compare, report, patch the manifest | threads share one index; kills and torn copies between runs; timeouts and retries; two counts of one outcome | the verdict is on the source as it stands; exit code and manifest agree; a pass has its evidence |
| Orchestrator, `ava_patched.py` | bugs, violations, lost stages, report files, manifest | tandem simulation with retries, compare with resynchronisation, some eighty isolated stages, verdict | simulators hang, stages are lost, reports share file names, the manifest is rewritten in place | exit code and manifest tell of everything that was found or lost |
| Multicore verifiers, `AGENT_H/memory_model_verifier.py`, `coherence_verifier.py` | an execution; writes, line states and versions seen so far | six relations and their cycles; one pass over the events | legality hangs on a cycle over several cores; states reported are stale | exactly the forbidden executions are reported; correct hardware is not accused |
| Translation checkers, `AGENT_H/vm_verifier.py`, `tlb_verifier.py` | image of the page tables, the golden TLB | one record: walk, compare, fence | a translation may be stale and right; a fence removes some entries and not others | correct harts are cleared; a page that nothing gives is reported |
| Atomics and store queue checkers, `AGENT_H/atomics_verifier.py`, `lsq_verifier.py` | registers and memory so far, the reservation, the last stores | one record: LR, SC, AMO, load, store | what is right hangs on every access before | silence means, outside named gaps, that memory was sequential and reservations were kept |
| Golden models, the rest of `AGENT_H` | architectural state per checker | step per commit record | long sequences, reservation and ordering rules | agreement with the ISA |
| Coverage and generation, `AGENT_F`, `AGENT_G` | SQLite tables, populations | record, plateau, evolve | numeric edges | monotone coverage |

How they interact: the campaign calls the bus, the board, the ledger, the
reputation service and the channels in one thread, so its hard behaviour lies in
sequences, not in races. The comparator has threads that exchange data, the
compliance runner threads that share its build cache, the orchestrator two
tasks under one timeout. The manifest and the runner's output directory outlive
the processes that write them. The verifiers are sequential; what is concurrent,
or remembers, is the hardware whose traces they judge.

## 2. The modules

### Comparator: `CommitLogCompare`, `CommitLogContract`

`CommitLogCompare` has one action per step of the reader threads (`PutEntry`,
`ReadBad`, `ReadBroken`, `PutSentinel`) and of `compare()` (`Preflight`, `Get`,
`RaiseReaderError`, `BothDone`, `LengthMismatch`, `CheckStep`, `CompareFields`,
`DrainOne`, `DrainEmpty`, `Join`). `mpc` and `rpc` are the places in the code
where the threads are; `q` is the pair of queues, `err` the error boxes. What a
line of a log is, is abstracted to a well-formed entry, a malformed line (`Bad`)
or a line that makes the iterator raise (`Broken`); which fields two entries
differ in, to the number of issues `Issues(r, i)`, an arbitrary natural.

`CommitLogContract` says what a caller may rely on: the verdict is the one that
a sequential lockstep reading of the two files gives, up to the limit, and an
exception only for a refused step or a stream that failed. The reading is a
recursive function on the lines of a file and the comparison one on the pairs, each
giving what there is after so many of them: what the threads have done at any moment
is a value of these functions. `ContractHolds` (in `CommitLogCompare`, with the
mapping `Verdict`) is the refinement.

### Comparator, below a pair: `Ranking`, `CommitRecord`, `FieldComparator`, `PairComparison`

`Ranking` says what a filter and a stable sort of a sequence give without a
recursion: an element's place is how many come before it.

`CommitRecord` is `CommitEntry.from_dict`: what a JSON record of a log, in the
canonical format of `AGENT_A/commitlog.schema.json` or the flat legacy one,
means to the comparator, field by field with its fallbacks. A hexadecimal number
is a record of the word and the bits above it, which are masked away; the tables
of register and CSR names are the constants `RegIndex` and `CsrAddress`. Records
that do not decode are `Bad` lines of `CommitLogCompare`. `WellFormed` says what a line
may hold: one format, not a mixture, with natural numbers for numerals, and no CSR
at address 0, where the comparator puts the names it does not know.

`FieldComparator` is the comparator's rules as operators: which issues a pair of
commits gives, in which order, with the early returns on a different PC or
instruction word, the normalisation of CSR writes and the mask of memory values.
`val & mask` for CSRs is the constant `BitAnd`; an issue keeps its type, its
field and its side.

`PairComparison` is the body of the loop around them: `raw` are the two files,
`log` the commits decoded from them; `ComparePair` pushes the
RTL commit to the context window, compares and records up to the limit. `ring`
and `prev` are `_DeltaWindow`'s, `Snapshot` what `snapshot()` replays. Its
`Compare` is one possible `Issues` of `CommitLogCompare`, which has the threads,
the step numbers and the ends of the logs instead.

### Manifest: `ManifestDoc`, `RunManifest`, `RunManifestContract`

`ManifestDoc` is the data: documents, dictionaries of updates, `_apply`,
`changed_keys`. A path is a key and an entry; deeper nesting belongs to the
entry's value, and an empty section is not told from an absent one.

`RunManifest` has the file system as a directory of inodes, so that writing to
an open file and renaming it are told apart, and three kinds of process:
updaters that call `atomic_update_manifest`, verifiers of `AGENT_H` that load
without the lock and `commit_manifest` what they changed, and savers that write
their copy back whole. `Abort` is an exception at any step after the read,
`Crash` the death of a process at any point of its run. `Spec` is the agents
that use the lock; `SharedSpec` adds the savers, which the repository also has.

`RunManifestContract` is a manifest that each call updates at one instant or not
at all; `ManifestIsAtomic` is the refinement.

### Kernel, bus: `Adjudication`, `JudgmentBus`, `BusConfluence`

`Adjudication` holds the beliefs and the rule of `bus.publish` (rank, merge,
refutation, calibration events) as an operator, `JudgmentBus` the bus on its own
with arbitrary workers, and `BusConfluence` two copies of the bus that are given
the same judgments in different orders.

### Campaign: `VerificationCampaign`

Composes `Adjudication` with the board, the ledger, the workers, the reputation
counters and the channels' remembered answers. One action, `Iterate`, is one
pass of the loop of `VOE.run`: a bid by any worker for any of its candidates,
the run of the method the worker's archetype picks, the publication with sharing,
the charge and the record; `Stop` is the end when nobody bids. The ranking of
bids by utility is abstracted to any eligible bid, and what a tool answers is
arbitrary, except that a formal task answers again what it answered before.
Reputation is kept in thousandths.

### Compliance runner: `RtlAdapter`, `ComplianceRun`

`RtlAdapter` has the signature files (sequences of lines: words of eight digits,
a word of fewer, junk), how the runner parses and compares two of them, and, as
one operator, the adapter and the simulation back end it starts: exit code and
file left for every end the back end can come to.

`ComplianceRun` is the runner in manifest mode, several runs one after another.
`phase` is where the main thread is: `MarkRunning`, `Validate`, `OpenRunPool`,
`CloseRunPool`, `WriteReports`, `WriteResult`, `PatchManifest`, or
`RunnerRaises` in between. `thread[t]` is the pool thread of test `t`: `Take`
gives a test to a free worker of the pool, `Build` is `build_test` in its steps
(cache hit or miss, compile or reject, copy of the ELF, entry in the index, the
index written out as it was serialised), `Run` is `_run_single` (golden model,
design, verdict). `Raises` is `RetryPolicy`. `Kill` ends the process at any
step, also in the middle of a copy; `Edit` changes a source between runs, also back
to an earlier content. The history variables `unsaved` and `rewound` hold the
tests whose last ELF may have reached the cache without its entry, and those
whose source went back.

### Orchestrator: `ResyncCompare`, `TandemRun`, `VerificationRun`

`ResyncCompare` is the orchestrator's own comparator as a recursive function on
two logs: differences of program counter and of register value, and the jump
ahead to the nearest pair that agrees. `TandemRun` is `run_tandem`: the RTL
simulator with its retries and the instruction-set simulator as two tasks that
answer, are killed, are missing or never answer. `VerificationRun` is the run
around it: reading of the logs, the extended stages under `run_stage`, each of
one of five kinds (agent, checker, in-process, advisory, twin), the update of
the manifest in place, verdict and exit code. The stages of the code are
instances of the kinds; `Kind`, `Gated`, `Optional` and `Namesake` say which
stage is what, which needs logs, which may be missing and which shares the
name of its report file with an agent. `ran`, `found` and `lost` are history.

### Multicore verifiers: `MemoryModelVerifier`, `CoherenceVerifier`, `MulticoreRun`

The first two are the checkers as operators on a trace: coherence order,
reads-from, the preserved program order of each model, fences, annotations, the
two axioms and atomicity; and the pass over the events of all lines with what
it remembers. `MulticoreRun` composes both with what they are for: a litmus
program runs on cores with store queues and MESI caches, leaves its two traces,
and the checkers report on them. The hardware is not in the repository; its
definitions are marked external. Four kinds tell the checkers apart: `sc`,
`tso`, `weak` (any order, split atomics) and `lossy` (an invalidation may be
lost). What the trace says of an operation beyond address and value (`Marks`) is
any combination the format allows that still tells two stores and two equal
values apart.

`Explained` is the reference the consistency checker is held to, and it has no
cycles in it: some order of all accesses, in which each load has the newest
store before it or its own core's queued one.

### Single-hart verifiers: `VmVerifier`, `TlbVerifier`, `AtomicsVerifier`, `HartRun`

The first three are the checkers as operators: what is said of one record, and
what is remembered after it. `HartRun` writes the log of one hart, a record per
step, and folds the checkers over it. With satp in Sv32 the records are
translations, writes to the page tables and fences, in Bare mode loads, stores
and atomics. The hart is not in the repository and its definitions are marked
external; there are two kinds. One by the `book` has a TLB with at most one
translation of a page, which it may use until a fence removes it, and the
reservation that the comment of `atomics_verifier.py` describes. A `wild` one
reports anything; its `tlb` is what it may still hold of the right answers it
has had, `spared` what a fence removed from the hart and not from the checker's
golden TLB.

The properties compare what is said of the last record (`judged`) with what the
hart had a right to report. That is written a second time, in the words of the
specifications of the ISA: `Leaves` and `Rights` find the leaf of a page and its
rights as sets, where the checker walks and returns early; `Result` is the AMOs
on sets of bits. An address is a page or a word, a page table entry a record of
its bits, and a word has two halves of a bit each.

## 3. The runs

Twelve runs; three expect a violation and report a disagreement between the code
and what the repository says of it.

| run | shows |
|---|---|
| `compare_safety` | every interleaving agrees with the contract; passes, dead readers and the limit are right; `compare()` returns |
| `pairs_safety` | a mismatch names two values that differ; records that say the same in different formats give none; on a line without one the records agree in all that is compared, CSR writes and masked bytes included; the context shown is never stale |
| `pairs_registers` (violation) | a register write that only one of two canonical logs has is not reported |
| `bus` | the belief is the strongest judgment, blame falls on one unsurpassed pass and only when a property is refuted, authority never falls; two orders of the same judgments agree on authority and closure |
| `campaign_safety` | nine properties of campaigns of six actions on six boards, among them when a refuted pass pays |
| `manifest_locked` | two updaters and a verifier, with exceptions, crashes, corrupt and missing files: no update lost, none torn, nobody stuck; the contract holds |
| `manifest_savers` (violation) | one whole-file saver loses another agent's update |
| `compliance` | four runs of two tests on two pools, with timeouts, failing files, torn copies, kills, edits and checkouts: what is run is the source as it stands; exit code and manifest agree; a pass has its evidence; the run returns |
| `orchestrator` | simulations and six stages with retries, timeouts, lost stages and kills: the exit code is the verdict of everything that ran; no reader of the manifest is misled; a clean exit over two logs means that their replays agree in what both write; the run ends |
| `orchestrator_checked` (violation) | a run is "completed" although no log was saved and every stage that needs one was skipped |
| `memory` | every run of 144 litmus programs on four kinds of hardware: the consistency checker passes exactly what some order explains; no false alarm; the two checkers agree on one location |
| `hart` | every log of five records of translation or four of atomics, by a correct hart and by a wild one: which accusations a correct hart can meet; which stale page is noticed; what the silence of the checkers proves, and which wrong records pass in spite of it |

Each finding quotes the line it disagrees with ("findings").

**Bounds.** Logs of up to two lines, queues of depth one and five
configurations: a queue of one is full at once and empty at once, the second
line reaches every gap, duplicate and limit, and the proofs cover all lengths
and depths. Pairs of records range over all values of one group of fields (registers, memory,
CSRs, traps, the rest) and over mixtures of groups: the rules of a group look at
no other, and what ties them, the early returns, is in the mixtures. Canonical
records are paired with each other and with legacy ones: known names, aliases and
unknown names, one and two entries of each array, words with and without bits
above. Word values
257 and 1 tell a one-byte mask from a wider one; two CSR writes each way reach
every order and every count. Logs of four commits overfill a window of two twice.
Four judgments of three workers are two passers of equal or different rank, a
refuter, and one more judgment before, between or after; the workers are
symmetric. Campaigns of six actions (`MaxSteps`) reach a shared pass on each of
three obligations, exhaustion of a skeptic's and an explorer's escalation and
every budget's end; the boards are the shapes of `voe_coupled` (sharing),
`voe_horizon` (lemmas), a structural board with and without static analysis, and
obligations that share nothing.
`MaxCalls`, one call for each of three manifest users, gives every pair of calls
and every place to crash; four inodes are one per process and the live one. Only the run
`bus` uses symmetry, of its workers, who differ in nothing. Deadlock is not checked where the system ends: a campaign
that has stopped, agents that have finished, judgments all delivered, a run that has
returned or was killed, a report that is written.

Compliance: two tests on pools of two, one of the repository and one embedded,
are every interleaving of two builds on one index, which the embedded test
writes out as well; the third run reads what the second left of what the first
had cached, and a fourth what a third did with it. Before a run reads the
sources they are edited or checked out at an earlier content, in any order; two
contents are enough for a content to come back. Orchestrator: one
stage per kind and a checker whose report an agent overwrites; eight RTL logs
against three of the simulator; two attempts, two mismatches, a window of two
and a length tolerance of one third, where the code has 3, 50, 20 and one
twentieth: each limit is reached and exceeded. Memory: the classical litmus tests of
up to three cores and six accesses, with fences, dependencies, annotations and
atomics, and all programs of two accesses on each of two cores; a trace ranks
its stores or stamps its operations, not both; caches evict nothing. Hart: two
pages of one superpage in two address spaces that share a second-level table, all
shapes of leaf, five ways to access; two words and their halves, values 0 to 3,
immediates 1 and 2. A reported value is the right one or the next one: the checkers
only compare it. Five records are fill, remap, fence by one operand, access,
access; four are LR, store, SC and a load, or a reservation older than the window,
which is 2 here and 64 in the code. Each exception in the statements occurs within these
bounds. A log is followed up to the first accusation.

**Fairness.** Weak fairness of each thread for the comparator: threads of one
interpreter are preempted and `put` and `get` return once they can. Weak
fairness of each process's steps inside a call for the manifest, none for
starting a call or for dying: a process that can go on is scheduled by the
operating system, and the lock is released by the kernel when its holder dies;
as each process makes finitely many calls, nothing stronger is needed for
whoever waits. For the compliance runner, weak fairness of its threads: each
subprocess it waits for has a timeout. For the orchestrator, weak fairness of
its own progress and of the caller's timer, none of the simulators, which may
hang; the stages' subprocesses have timeouts of their own.

## 4. The proofs

| theorem | for every |
|---|---|
| `CommitLogCompareProofs`: `TypeCorrect`, `PassIsSound`, `DeadReaderRaises`, `LimitRespected`, `ImplementsContract` | pair of logs, queue depth, configuration, number of issues |
| `PairComparisonProofs`: `TypeCorrect`, `NeverStale`, `NoFalseAlarms`, `FormatsReadAlike`, `NoMisses` | length of logs and window, well-formed records, tables, configuration |
| `VerificationCampaignProofs`, bus: `BusTypes`, `StrongestBelief`, `EarnedBlame`, `AuthorityMonotone`, `ExperimentIsBus`, `AuthorityConfluence` | set of workers, properties, judgments, number of judgments and pair of orders |
| `VerificationCampaignProofs`, campaign: `FinalVerdicts`, `SamplesEarned`, `SettledInOrder`, `GateBeforeProof`, `BudgetHolds`, `StopsForAReason`, `ValueAccounted`, `PassesLimited`, `RefutationCosts` | board, budget, number of steps, finite set of workers and properties |
| `RunManifestProofs`: `TypeCorrect`, `NoLostUpdate`, `StaysReadable`, `AtomicManifest` | set of agents, keys, values, number of calls |
| `ComplianceRunProofs`: `ComplianceTypes`, `CacheSound`, `VerdictsAgree`, `PassesAreBacked` | number of tests, workers, attempts, contents and runs |
| `VerificationRunProofs`: `PipelineTypes`, `VerdictIsSound`, `ManifestIsSound`, `CleanExitIsSound` | list of stages and kinds, logs, comparator limits |
| `HartRunProofs`: `HartInvariant`, `CorrectHarts`, `StaleCaughtAlways`, `SilentLogs` | page tables, pages, address spaces, words, reservation window, length of the log |
| `MulticoreRunProofs`: `MulticoreInvariant`, `ExactVerdicts`, `NoFalseAlarms`, `CoherentRuns` | well-formed litmus programs, cores, addresses, kinds of hardware, marks of the trace |

*Comparator.* The invariant says what the two queues hold: what is queued on a
side followed by what is still in its file is the rest of its log, and as long
as no mismatch was recorded the two sides have been consumed in lockstep and
equal. Passing is then the case where both rests are empty. The pass alone is
not inductive, because it looks at the end of the logs only. `ImplementsContract`
adds `RefInv`, what the threads have done so far in the contract's terms: `ReadInv`,
that a reader has put the entries that the contract reads in as many lines; `LoopInv`,
that the mismatches recorded are the contract's up to this pair and this point of the
loop's body, and that at its end the outcome is one the contract allows, whichever
reader died when. A step of the program then is a stutter, or the contract's step.

*Context window.* `WindowInv` gives the ring in closed form: the differences of
the last lines against the line before each. What a row shows then is the last
value of the field: were it not, the line after the last one that differs would
be a later change that the window holds. The existence of a last line is
`Greatest`, from the well-foundedness of strict inclusion, in place of an
induction. Nothing is assumed of the rules there.

*Comparison of a pair.* `ReportInv` is all that concerns the loop: the mismatches
recorded are issues of lines read, and all of them unless the limit was reached.
The rest is about one pair of records and has no states in it. Each rule gives a
list of issues (`List`, `Of`: what is in it, without the order), and for each there
is a lemma on what an issue of it means and what its silence means (`TrapOf` to
`PrivilegeOf`, together `CompareOf`). The hard rule is that of the CSRs. Elements of
two sets in an order are matched by their places (`Matched`, `SamePlaces`); when two
lists write every CSR alike, matching the writes of each CSR matches the sorted lists
(`SortedAlike`), and the other way round, what is alike at each place of the sorted
lists is alike write by write (`WrittenAlike`), because the sort is stable. Decoding is
related to what a record states in either format by `TrapStated` to `MemStated`;
`LowBytes` is the arithmetic of the size masks.

*Bus.* The history of published judgments is an auxiliary variable; the belief
ranks at least as high as each of them and is the merge of some. That a
publication keeps this is a lemma about any beliefs, owners and log
(`StrongestStays`), which confluence applies to two buses that have received the same
set: two maxima of one set have one rank. The owner of a belief is therefore among
the workers no published judgment outranks, and a counterexample that refutes an
open belief is always accepted: `EarnedBlame`.

*Campaign.* `EarnedInv` bounds each sample count by the passing runs that bear
on the property, and says that an open obligation has seen every run of the
obligations that share with it. The second part is what makes it inductive: a
shared judgment copies the count of another property. It needs
`SharingAssumption`, that sharing is transitive, which the repository's only
board that shares satisfies (`voe_coupled/run_coupled.py:58`): the obligations
that learn from the hub share nothing themselves.

Budget, value and passes are sums and counts over workers and properties. `SumRec`
gives a sum over a finite set its recursion, by a smallest set for which it fails
(`SetInduction`), and the other laws of sums follow from it. The value credited equals
the risk removed because one publication changes the risk of each property by what its
own gain says (`ValueLearn`); that a gain is never negative needs `UB`, the confidence
bound, to fall with the samples, an assumption. `PassInv` charges every bounded pass to
a pair of a worker and an obligation that the worker has settled for itself and does
not bid on again (`Bought`). `ClaimInv` gives each worker as many claims as there are
properties it may still be, or was, blamed for (`Owed`); a property is blamed once, so
refutations never outnumber claims and the two factors of a report are not negative
together.

*Manifest.* Whoever is inside the call holds the lock; its copy is the file as
it still is with its own keys applied; its temporary file is no one else's and
not the manifest. That makes the rename an update of the current file, which is
both `NoLostUpdate` and the step the contract takes. `ChangedKeysIsNews` is the
lemma that a verifier sends exactly what it set and the snapshot did not have.

*Compliance runner.* `SourceInv` is the property with `CacheInv`, which collects
every hash of a test there is (`Entries`: in memory, on disk and in the index a
thread is about to write) and relates them to the cached ELF in two ways. Of a
source that never went back, none is newer, and if one is the source's, the
cached ELF is of that source; of an ELF whose entry is saved, every one names
that ELF. Either makes a hit right, whatever the other test does. The property
alone says nothing of the ELF that the next run will find. `VerdictInv`
adds that a closed pool leaves every test judged, so that the two computations
of the outcome see one partition; counting is by the laws of `Cardinality`.

*Orchestrator.* `RunInv` adds to the types which stages have been entered
(`Visited`), that whatever was found is in the violations or in a report that
fails the run, and whatever was lost in one of the two lists (`Listed`), and what
the manifest says at each phase (`Published`). The exit code alone is not
inductive: it is computed from the lists and the reports, not from what happened.
`CleanExitIsSound` adds that the bugs are those of the two logs (`BugsFromLogs`),
that a walk along two logs of like length that finds nothing has passed every commit
of the shorter (`SilentWalk`): by the least index it could have failed to pass. From
the pairs it passed to the replays: the last commit to write a register in one log is
the last in the other when the same commits write it (`LastOf`).

*Translation of a hart.* What the walk checker says is settled without an invariant:
`TranslateIsWalk` shows its walk to be the leaf and the rights of the privileged
specification for any table, so that it objects to exactly the answers the tables do not
give (`VmExact`). The golden TLB needs `TransInv`. For a hart that reports anything, each
entry not struck is backed by a translation the hart may still hold or one fenced out of
it only (`WildHolds`): a page that nothing held gives is then explained by no entry. For
one by the book, the TLB holds a page once (`BookApart`), and of each entry that is not
global there is a golden one that says the same (`BookAllowed`); without `BookApart`
a new golden entry of the same key would take the place of what another hit still
needs. `FilledEffect` and `FencedEffect` say what a fill and a fence do to the list of
golden entries as a set, one of a key.

*Memory of a hart.* `WordInv` relates the two replays to the hart: the checker's register
is the hart's once a record told it; a word of which no half was stored since is in
`lsq_verifier`'s table, and in `atomics_verifier`'s, with its value or not at all
(`LastKnown`, `ShadowKnown`), and once it was stored with its value, since an AMO whose
record lists no read is held to that (`ShadowStored`); the checker's reservation is the hart's, unless the
checker has dropped one that is past the window, or still has one of a word of which a
half was stored (`ResvLinked`). The last three hold only while nobody objected, which is as
long as a log is followed. `AmosAgree` equates the checker's arithmetic with the
specification's by bits, for each AMO and pair of words. `WordsAssumption` and
`TablesAssumption` say what addresses, entries and accesses are, and that an absent
field is none of them; a word is of four values here as in the model.

*Consistency of a multicore trace.* `MulticoreInv` has a part on the run, one on its
events and one on its trace and report. `RunInv` says that what a core has performed, what its queue holds and what
it has still to do are its program (`Queued`, `Placed`), that the memory's order of
stores of an address is the one in which they left the queues, that each load has read
the newest store before it or its own core's queued one (`Read`), and that the marks put
on the trace are true of it (`Stamped`, `Paired`). `TraceInv` and `ReportInv` are what
the checker is given and says. At the end the run is a graph (`Settled`): each access has
a key, the place of a store or of a load's source in the memory's order. From there there
are no states. `LocalFound`, `KeptFound` and `AtomicityFound` say that the edges the
checker works out from the trace, with whichever marks, are those of the run, in spite of
the three ways the coherence order can be given. `CyclesAreExact` is the mathematics: a
relation on finitely many accesses has no cycle exactly when some order of them respects
it (`OrdersRespect`, `OrdersReach`, by an exhaustion of the accesses from the least), and
an order that respects the edges is one in which each load has its newest store.
`ProgramsAssumption` says what a litmus program is: an atomic is a load and the store
after it, a plain load is annotated with `aq` and a plain store with `rl` alone, a store
never gives the initial value, cores are finitely many numbers, and an absent field is
no number, address, atomic or line state.

*Alarms of a multicore run.* That correct hardware is not accused, and that coherence
means consistency on one location, needs when things happened. `EventInv` gives each
access an instant, the position of its event: every event names what it is of (`Named`);
accesses a core must keep in order happen in order, and what is in a queue has not
happened (`Orderly`); a load has read the newest of what it knew, the stores that had
happened and its own core's queued ones (`Upto`); the events tell the lines as they are,
but for what was not snooped, and a breach shows in them (`Lines`); correct hardware
never tells of an owner beside a valid copy (`Apart`). The instants of a correct run are
then an order that explains it (`CorrectIsExplained`), and `ExactVerdicts` does the rest.
For the coherence checker the fold of `Alarms` is unrolled into a function of the
positions (`AlarmsAre`, `PassesAgree`, `PassExists`), and `PassInv` says what it keeps
after n events in the terms of the run: the stores told so far (`WritesTold`), the newest
version that a core has stored or read (`SeenTold`), the state last told (`StateTold`).
`Wrong` is what it then accuses, without the pass: a load whose store had not happened
(`~ Heard`), one behind what its core had met (`Behind`), two lines that clash (`Clash`);
`AlarmsFound` says the alarms are exactly these, in whatever order the trace lists the
events. `NoFalseAlarms` shows which of them correct hardware can meet, `CoherentRuns`
that without them every edge on one location ascends (`Rising`), so that there is no cycle.

Assumptions on constants are named and evaluated by TLC in the passing runs.

Induction over data is done by hand where it is needed, by a least counterexample in a
set of numbers or of sets (`Induction`, `SetInduction`, `Greatest`): the provers cannot
instantiate the library's induction rules.

**Only model-checked.** Liveness (`Returns`, `CallsReturn`, `RunReturns`, `RunEnds`):
it rests on fairness, which these provers do not reason about. The violations.
Every safety or action property that a passing run checks is stated by a theorem. Type correctness is only proved, for the
comparator, the pairs, the bus, the manifest, the compliance runner, the
orchestrator, the single hart and the multicore.

## 5. Not modelled, and why

Numerical code (Beta statistics, confidence intervals, ridge yields), RTL
scanning, code generation, dashboards and the external tools are outside what a
finite model can say something about. The golden models of `AGENT_H` beyond the six
of section 2 are about sixty-five single-threaded transcriptions of the ISA, thirty
thousand lines whose correctness is agreement with a manual that is not in the
repository: a model of one would be the same table again, with nothing to hold it
against. The share of the implementation that is modelled is small for that reason. Windows' lock loop, `chmod` and
output wording are left out of the modules above. The utility ranking, the text
of timeouts and the scaling of reputations are abstracted as said in section 2.

Disagreements that no run reports, met on the way. *Comparator*: reader
threads further behind than the queues are deep block again after the single
drain, and stay blocked when `compare()` has returned. *Bus*: `Struct-1` claims
the belief itself independent of the order; only its authority is. *Campaign*:
`README_PHASE3` counts samples "per distinct-seed" run, but one remembered
bounded proof counts once for each worker that asks. *Reputation*: a passing claim
counts only if it was the run's own and by simulation, a refutation counts for every
property; with more refutations than claims the calibration factor is negative, and
with a negative score the product of the two is a positive reputation.
`MiscalibrationNeverPays` states when this cannot happen.

*Compliance runner*: `BuildCache.store` copies the ELF first and records its
hash afterwards. When the new entry is lost, by a kill or by an older index
written last, and the source returns to the content of the old entry (a
checkout), `lookup` answers with the ELF of the other content, against the
docstring of `BuildCache` ("if the source file hasn't changed since the last
build"). The sources go
back in the model, and `VerdictOfCurrentSource` names the case it leaves out:
without `\ (unsaved \cap rewound)` the run `compliance` finds the wrong ELF after
22 steps. The adapter's exit code 2, an
infrastructure failure by its documentation, is only logged. `parse_signature`
is said to raise on an empty file and returns an empty list; padding with zeros
lets an empty design signature equal an all-zero golden one. The status of an
earlier run stands in the manifest's top level until the new one ends. Left out:
an index that cannot be read, Spike as the design, tests of one stem (they share
files), includes and linker scripts (not in the cache key), HTML and XML.

*Orchestrator*: agents set the status to passed even over an earlier failure
(the orchestrator corrects it at the end, which `ManifestTells` includes). An
agent's exit code 2 counts as a violation. With a missing simulator the
comparison is skipped and the run still completed; an RTL exit code above 0 is
only logged. The comparator compares values as strings. Its docstring
(`ava_patched.py`, line 562) calls it a "register-by-register" comparison; its check
(line 641) takes the first register of the RTL commit and any value of the ISS commit,
so that a write only one log has is skipped, in either direction, and equal values in
two different registers pass. `Agree` is stated on replays of the two logs, not with
that check, and its comment names these exceptions. Agents J and L
read `dut.rtl_sources`, which the orchestrator writes at top level, and share
the names of their reports with `cdc_verifier` and `equivalence_verifier`. The
documentation of `AGENT_C` and `AGENT_F` promises atomic manifest updates; the
orchestrator's are in place and unlocked.

*Multicore verifiers*: without reads-from marks a load of a repeated value is
matched with the latest such store, so that a legal execution may be accused; a
value no store wrote counts as the initial one. `rvwmo` keeps a store before a
load of the same address, so that forwarding with dependencies is rejected
though the stronger `tso` allows it. The coherence checker accuses loads
forwarded from a queue and, without snoop events, every line that migrates:
the states compared are of each core's own last access, where its
documentation says "at any instant". `NoFalseAlarm` states exactly these
exceptions. Left out: the coverage bins and the witness of a cycle.

*Single-hart verifiers*. `vm_verifier` accuses every stale page, also those that
`tlb_verifier` calls permitted. `tlb_verifier` claims no false positives and does accuse a
correct hart: for a page that another page of the superpage, or a global entry of
another address space, brought into the TLB, since its golden TLB is by page and is
filled only by what was served; and so for a TLB that prefetches. A fence by the address
of one page of a superpage leaves the golden entries of the others, and one whose
operands the record does not tell removes nothing. `atomics_verifier` takes a
store-conditional without a write to be for the reserved address, accuses one that
comes later than the window, and accuses a trapped atomic whose record has no access.
It looks for no trap cause, and a misaligned store-conditional keeps the reservation.
Its documentation (lines 14-16 and 31) has it compare what an AMO writes back with the
function of what it read; an AMO whose record has no write is compared with nothing
and passes if what it read is right. In the model such an AMO is never right
(`UnwrittenAmo`), and the comment of `SilenceMeansSequential` names it first among the
logs that pass though they are not sequential. The others there: a store-conditional
later than the window, a failed one while another word is reserved or a half was stored,
a word of which a half was stored, and an atomic inside a word whose record does not
list the access. Both it and `lsq_verifier`
remember memory by the address an access begins at, whatever its size, so that a
store of half a word makes them accuse a correct hart, and leaves a reservation. An
AMO that reads address 0 and records no write is taken to have no access, which the
proofs cover; the words of the run are elsewhere. By the ISA a store-conditional may fail for no reason and a hart's own
store need not break its reservation; the module's comment, which the model follows,
says otherwise. Left out: `.d` atomics, accesses across two words, the order in which
stores drain (it needs commit stamps), ill-typed records, scores. Fetches are in the
walker but not in the run: the trace's memory fields have only loads and stores.

What the comparator does *not* compare, met while stating `CleanPairsAgree`: the
reads of a record that has writes too (an atomic operation; `WriteAndRead`), the
size of an access beyond the bytes both sides cover, registers after the first,
and which CSR is meant when its name is not in the table: `mscratch` and
`mcycle`, like most names the schema allows, both become address 0. A configuration
that ignores or masks address 0 (`UnknownCsrsCompared` excludes it) thereby does so for
all of them, and a true write to CSR 0x000 is not told from them. A legacy
`amo` never equals a canonical write. The schema also asks consumers to reject
other schema versions and to sort by hart, and allows privilege `D`; the
comparator does neither and reports `D` as invalid.

What the context window does *not* promise: once the ring has dropped commits, a
row shows a blank for a field that has not changed since, and after a field
became empty it goes on showing its last value, although `snapshot()` is said to
reconstruct full commits. `ContextNeverStale` states exactly what is left.
`skip_fields` takes `mem_addr`, `mem_val` and `mem_op` only together and `rd` only
through `rd_val`; the model keeps that, and `ReportsAreReal` excuses only the
PC and the instruction word.

A prerequisite counts as closed when it is refuted (`voe/board.py`), so what
requires it may be proven: `ClosedInOrder` says closed, not proven. And of the
workers that passed a refuted property only the owner of the belief is flagged, and
nobody if that is the refuter, though the docstring of `voe/bus.py` (line 16) has a
counterexample flag "the passers": `BlameIsEarned` states who is flagged and when.

An obligation whose testbench does not cover it and that no formal budget is
left for is bid for again and again until the steps end, each time charged
(`workers.py`): listed as a hazard, and why `StopJustified` speaks of bids and
not of progress.

## 6. Plan

Order of the work, most important first. Done: 1 to 4, 6, 9 and 10.

1. `CommitLogCompare` with `CommitLogContract`, safety, refinement, proofs.
2. `Adjudication`, `JudgmentBus`, `BusConfluence`, proofs.
3. `VerificationCampaign` composing 2 with board, ledger, reputation, channels.
4. `RunManifest` with `RunManifestContract`, proofs and refinement proof.
5. `ImpactGraph`: record, propagate, retract on the kernel's beliefs, composed
   with the channels' verdict cache and the workers' skip sets. Property: what
   rests on a changed source is reopened and can be settled again; a claim
   recorded later is not stale. Theorem: no claim survives a premise that falls.
6. `CommitRecord`, `FieldComparator` and `PairComparison` (parser, rules and
   context window). Left: the issues of `CommitLogCompare` from them; the manifest
   mode and batch mode around `compare()`.
7. Probes and specialists as further actions of `VerificationCampaign`.
8. `Ledger` of institutional memory and pre-registration: lost records, decide
   before commit.
9. `VerificationRun` and `ComplianceRun`: the orchestrator's stages and verdict;
   the compliance runner's pools and cache.
10. `MulticoreRun` and `HartRun`, the verifiers with memory: consistency, coherence,
   TLB, reservations, store queue.

Runs to come: one for each of 5, 7 and 8. Proofs to come: the impact graph's closure,
with its module.
