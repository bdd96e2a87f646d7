-------------------------- MODULE VerificationRun --------------------------
(***************************************************************************)
(* One run of the orchestrator (ava_patched.py): the tandem simulation,    *)
(* then the extended pipeline, whose stages are isolated from one another  *)
(* by run_stage, then the run's verdict, its manifest and its exit code.   *)
(* A stage may be lost to an environment error, a defect in a stage ends   *)
(* the run, and the process may be killed at any step.                     *)
(***************************************************************************)
EXTENDS TandemRun

CONSTANTS
  NStages,   \* stages of the extended pipeline, in the order they run
  Kind,      \* Kind[s]: how stage s reports
  Gated,     \* stages that need the commit logs
  Optional,  \* stages whose module may be missing (a third-party import)
  Namesake   \* Namesake[s]: the agent whose report file has the name of s's, 0 for none

Stages == 1..NStages
Update == 0  \* the label of the manifest update in the list of lost stages

\* agent: agents I to L, an exit code; checker: run_from_manifest, an exit code
\* and a report file; inprocess: a report with "pass"; advisory: one without;
\* twin: verification_twin, whose "pass" is no verdict.
Kinds == {"agent", "checker", "inprocess", "advisory", "twin"}
Gating(s) == Kind[s] \in {"agent", "checker", "inprocess"}

ASSUME StagesAssumption ==
  /\ NStages \in Nat \ {0}
  /\ Kind \in [Stages -> Kinds] /\ Gated \subseteq Stages /\ Optional \subseteq Stages
  /\ Namesake \in [Stages -> Stages \cup {0}]

VARIABLES
  phase,       \* what the process is doing
  extended,    \* enable_extended
  modules,     \* stages whose module was imported
  stage,       \* the next stage, or the one that runs
  violations, incomplete,  \* _violations and _incomplete
  recorded,    \* reports[VERDICT_KEY]
  reports,     \* the other reports: whether there is one, and its "pass"
  file,        \* file[s]: the report file stage s reads back
  manifest, torn,  \* run_manifest.json, and whether it is cut short
  exit,        \* the exit code, -1 while there is none
  ran, found, lost  \* history: stages entered, that judged a violation, that could not verify

lists  == <<violations, incomplete, recorded, reports, file>>
disk   == <<manifest, torn>>
history == <<ran, found, lost>>
config == <<extended, modules>>
vars   == <<tandemVars, phase, config, stage, lists, disk, exit, history>>

-----------------------------------------------------------------------------
Verdicts  == {"completed", "failed", "incomplete"}
NoVerdict == [violations |-> {}, incomplete |-> {}]

\* gating_report_items: verification_twin does not gate.
FailedReports == {s \in Stages : reports[s] = "fail" /\ Kind[s] # "twin"}

\* Mutation: a stage that could not verify hides what the others found.
VerdictFromReports_Lost(entry, found_bugs) ==
  IF entry.incomplete # {} THEN "incomplete"
  ELSE IF entry.violations # {} \/ FailedReports # {} \/ found_bugs # {} THEN "failed"
  ELSE "completed"

\* verdict_from_reports: a finding outranks what could not be checked.
VerdictFromReports(entry, found_bugs) ==
  IF entry.violations # {} \/ FailedReports # {} \/ found_bugs # {} THEN "failed"
  ELSE IF entry.incomplete # {} THEN "incomplete" ELSE "completed"

ExitCode(status) == CASE status = "completed" -> 0
                      [] status = "incomplete" -> 3
                      [] OTHER -> 1

Init ==
  /\ TandemInit
  /\ phase = "setup" /\ stage = 1 /\ exit = -1
  /\ extended \in BOOLEAN
  /\ modules \in {m \in SUBSET Stages : Stages \ Optional \subseteq m}
  /\ violations = {} /\ incomplete = {} /\ recorded = NoVerdict
  /\ reports = [s \in Stages |-> "none"] /\ file = [s \in Stages |-> "none"]
  /\ manifest = [status |-> "none", phases |-> [s \in Stages |-> "none"]] /\ torn = FALSE
  /\ ran = {} /\ found = {} /\ lost = {}

\* Semantic analysis and testbench generation, then the simulation.
Setup ==
  /\ phase = "setup" /\ phase' = "tandem"
  /\ StartTandem
  /\ UNCHANGED <<config, stage, lists, disk, exit, history>>

Simulate ==
  /\ phase = "tandem" /\ TandemNext
  /\ UNCHANGED <<phase, config, stage, lists, disk, exit, history>>

Analyse ==
  /\ phase = "tandem" /\ tandem = "done"
  /\ phase' = IF extended THEN "manifest" ELSE "verdict"
  /\ UNCHANGED <<tandemVars, config, stage, lists, disk, exit, history>>

\* _write_run_manifest: open(mpath, "w"), then the dump.
OpenManifest ==
  /\ phase = "manifest" /\ phase' = "dumping" /\ torn' = TRUE
  /\ UNCHANGED <<tandemVars, config, stage, lists, manifest, exit, history>>

WriteManifest ==
  /\ phase = "dumping" /\ phase' = "stages" /\ torn' = FALSE
  /\ manifest' = [manifest EXCEPT !.status = "running_extended"]
  /\ UNCHANGED <<tandemVars, config, stage, lists, exit, history>>

-----------------------------------------------------------------------------
(* The stages.                                                             *)

\* _save_commit_logs finds the logs where run_tandem left them.
LogsSaved == /\ rtl.log # <<>> /\ iss.log # <<>>
             /\ {"rtl_commit_log", "iss_commit_log"} \subseteq MetadataKeys

Open(s) == s \in modules /\ (s \in Gated => LogsSaved)

SkipStage ==
  /\ phase = "stages" /\ stage \in Stages /\ ~Open(stage)
  /\ stage' = stage + 1
  /\ UNCHANGED <<tandemVars, phase, config, lists, disk, exit, history>>

Enter(kinds) ==
  /\ phase = "stages" /\ stage \in Stages
  /\ Open(stage) /\ Kind[stage] \in kinds
  /\ ran' = ran \cup {stage}

\* Leaves the stage, with the history of what it judged.
Leave(judged, missed) ==
  /\ phase' = "stages" /\ stage' = stage + 1
  /\ found' = found \cup judged /\ lost' = lost \cup missed
  /\ UNCHANGED <<tandemVars, config, exit>>

\* run_stage's handler: an environment error is noted and the run goes on.
RunStageLost == incomplete' = incomplete \cup {stage}

\* _note_exit_code: 3 is "could not verify", any other nonzero code a violation.
NoteExitCode(rc) ==
  /\ violations' = IF rc \notin {0, 3} THEN violations \cup {stage} ELSE violations
  /\ incomplete' = IF rc = 3 THEN incomplete \cup {stage} ELSE incomplete

\* A stage of any kind is lost before it says anything, or, in process, after
\* it judged: its report file cannot be written.
StageLost ==
  /\ Enter(Kinds)
  /\ RunStageLost
  /\ reports' = [reports EXCEPT ![stage] = IF Kind[stage] = "agent" THEN "plain" ELSE @]
  /\ \E judged \in SUBSET {stage} :
       /\ Kind[stage] # "inprocess" => judged = {}
       /\ Leave(judged, {stage})
  /\ UNCHANGED <<violations, recorded, file, disk>>

\* A checker that works on the logs themselves; some report only what they found active.
RunInProcess ==
  /\ Enter({"inprocess"})
  /\ \E r \in {"none", "pass", "fail"} :
       /\ reports' = [reports EXCEPT ![stage] = r]
       /\ Leave({s \in {stage} : r = "fail"}, {})
  /\ UNCHANGED <<violations, incomplete, recorded, file, disk>>

RunAdvisory ==
  /\ Enter({"advisory"})
  /\ reports' = [reports EXCEPT ![stage] = "plain"]
  /\ Leave({}, {})
  /\ UNCHANGED <<violations, incomplete, recorded, file, disk>>

RunTwin ==
  /\ Enter({"twin"})
  /\ \E r \in {"pass", "fail"} : reports' = [reports EXCEPT ![stage] = r]
  /\ Leave({}, {})
  /\ UNCHANGED <<violations, incomplete, recorded, file, disk>>

\* run_from_manifest of a checker: it cannot read the manifest, has no trace,
\* or judges one; its report file may fail to be written, and its exit code
\* is noted in any case.
RunChecker ==
  /\ Enter({"checker"})
  /\ \E r \in {"unreadable", "skipped", "pass", "fail"}, written \in BOOLEAN :
       /\ NoteExitCode(IF r = "unreadable" THEN 3 ELSE IF r = "fail" THEN 1 ELSE 0)
       /\ file' = [file EXCEPT ![stage] = IF written /\ r # "unreadable" THEN r ELSE @]
       /\ found' = IF r = "fail" THEN found \cup {stage} ELSE found
       /\ lost' = IF r = "unreadable" THEN lost \cup {stage} ELSE lost
  /\ phase' = "readback"
  /\ UNCHANGED <<tandemVars, config, stage, recorded, reports, disk, exit>>

\* The orchestrator reads the report file, whoever wrote it.
ReadReport ==
  /\ phase = "readback"
  /\ reports' = [reports EXCEPT ![stage] =
                   CASE file[stage] = "foreign" -> "pass"
                     [] file[stage] = "skipped" -> @
                     [] OTHER -> file[stage]]
  /\ Leave({}, {})
  /\ UNCHANGED <<violations, incomplete, recorded, file, disk, ran>>

ReadReportLost ==
  /\ phase = "readback" /\ file[stage] # "none"
  /\ RunStageLost
  /\ Leave({}, {stage})
  /\ UNCHANGED <<violations, recorded, reports, file, disk, ran>>

\* An agent marks its phase in the manifest before it checks anything.
AgentStarts ==
  /\ Enter({"agent"})
  /\ phase' = "agent"
  /\ manifest' = [status |-> "running", phases |-> [manifest.phases EXCEPT ![stage] = "running"]]
  /\ UNCHANGED <<tandemVars, config, stage, lists, torn, exit, found, lost>>

\* Its report may have the name of a checker's.
AgentReports(s) ==
  file' = [c \in Stages |-> IF Namesake[c] = s THEN "foreign" ELSE file[c]]

\* It ends by saving its report and its result, as the run's status too. An
\* error on the way, a failed save included, makes the result "infra_error".
AgentEnds ==
  /\ phase = "agent"
  /\ \E r \in {"passed", "failed", "infra_error"}, judged \in SUBSET {stage} :
       /\ r # "infra_error" => judged = {s \in {stage} : r = "failed"}
       /\ NoteExitCode(CASE r = "passed" -> 0 [] r = "failed" -> 1 [] OTHER -> 2)
       /\ manifest' = [status |-> r, phases |-> [manifest.phases EXCEPT ![stage] = r]]
       /\ AgentReports(stage) \/ (r = "infra_error" /\ UNCHANGED file)
       /\ Leave(judged, {s \in {stage} : r = "infra_error"})
  /\ reports' = [reports EXCEPT ![stage] = "plain"]
  /\ UNCHANGED <<recorded, torn, ran>>

\* Its result cannot be saved at all.
AgentLost ==
  /\ phase = "agent"
  /\ RunStageLost
  /\ reports' = [reports EXCEPT ![stage] = "plain"]
  /\ \E judged \in SUBSET {stage} : Leave(judged, {stage})
  /\ AgentReports(stage) \/ UNCHANGED file
  /\ UNCHANGED <<violations, recorded, disk, ran>>

StageNext == \/ SkipStage \/ StageLost \/ RunInProcess \/ RunAdvisory \/ RunTwin
             \/ RunChecker \/ ReadReport \/ ReadReportLost
             \/ AgentStarts \/ AgentEnds \/ AgentLost

-----------------------------------------------------------------------------
(* The verdict.                                                            *)

Entry == [violations |-> violations, incomplete |-> incomplete]

\* The manifest is read and opened for writing, which cuts it short.
ReopenManifest ==
  /\ phase = "stages" /\ stage = NStages + 1
  /\ phase' = "redumping" /\ torn' = TRUE
  /\ UNCHANGED <<tandemVars, config, stage, lists, manifest, exit, history>>

\* Mutation: the manifest is told of the verifiers only.
RewriteManifest_NoBugs ==
  /\ phase = "redumping" /\ phase' = "publish" /\ torn' = FALSE
  /\ manifest' = [manifest EXCEPT !.status = VerdictFromReports(Entry, {})]
  /\ UNCHANGED <<tandemVars, config, stage, lists, exit, history>>

RewriteManifest ==
  /\ phase = "redumping" /\ phase' = "publish" /\ torn' = FALSE
  /\ manifest' = [manifest EXCEPT !.status = VerdictFromReports(Entry, bugs)]
  /\ UNCHANGED <<tandemVars, config, stage, lists, exit, history>>

\* The update is a stage too: reading or writing the manifest fails.
UpdateLost ==
  /\ \/ phase = "stages" /\ stage = NStages + 1
     \/ phase = "redumping"
  /\ phase' = "publish"
  /\ incomplete' = incomplete \cup {Update} /\ lost' = lost \cup {Update}
  /\ UNCHANGED <<tandemVars, config, stage, violations, recorded, reports, file, disk, exit,
                 ran, found>>

Publish ==
  /\ phase = "publish" /\ phase' = "verdict"
  /\ recorded' = Entry
  /\ UNCHANGED <<tandemVars, config, stage, violations, incomplete, reports, file, disk, exit,
                 history>>

\* The verdict is drawn again; the results are saved if they can be and printed.
Return ==
  /\ phase = "verdict" /\ phase' = "returned"
  /\ exit' = ExitCode(VerdictFromReports(recorded, bugs))
  /\ UNCHANGED <<tandemVars, config, stage, lists, disk, history>>

\* Any other exception, outside the stages or a defect inside one, becomes an
\* AVAError, and the tandem's own failures are AVAErrors.
Raise ==
  /\ \/ phase \in {"setup", "manifest", "dumping", "stages", "readback", "redumping", "verdict"}
     \/ phase = "tandem" /\ tandem \in {"done", "failed"}
  /\ phase' = "raised" /\ exit' = 1
  /\ UNCHANGED <<tandemVars, config, stage, lists, disk, history>>

Ended == phase \in {"returned", "raised", "killed"}

Kill ==
  /\ ~Ended /\ phase' = "killed"
  /\ UNCHANGED <<tandemVars, config, stage, lists, disk, exit, history>>

Progress == \/ Setup \/ Analyse \/ OpenManifest \/ WriteManifest \/ StageNext
            \/ ReopenManifest \/ RewriteManifest \/ UpdateLost \/ Publish \/ Return \/ Raise

Next == Progress \/ Simulate \/ Kill
Spec == Init /\ [][Next]_vars

\* The simulators may hang, the caller's timer does not; the stages' external
\* calls have timeouts of their own.
TimeIsUp == phase = "tandem" /\ TandemTimeout /\ UNCHANGED <<phase, config, stage, lists, disk, exit, history>>
FairSpec == Spec /\ WF_vars(Progress) /\ WF_vars(TimeIsUp)

-----------------------------------------------------------------------------
Phases == {"setup", "tandem", "manifest", "dumping", "stages", "agent", "readback",
           "redumping", "publish", "verdict", "returned", "raised", "killed"}

Manifests ==
  [status : Verdicts \cup {"none", "running_extended", "running", "passed", "infra_error"},
   phases : [Stages -> {"none", "running", "passed", "failed", "infra_error"}]]

\* Every variable has its type, and a simulation is retried only while there
\* are attempts left (the state of run_tandem and of _run_extended_pipeline).
PipelineTypeOK ==
  /\ TandemTypeOK
  /\ phase \in Phases /\ extended \in BOOLEAN /\ modules \subseteq Stages
  /\ stage \in 1..NStages + 1 /\ exit \in {-1, 0, 1, 3}
  /\ violations \subseteq Stages /\ incomplete \subseteq Stages \cup {Update}
  /\ recorded \in [violations : SUBSET Stages, incomplete : SUBSET (Stages \cup {Update})]
  /\ reports \in [Stages -> {"none", "plain", "pass", "fail"}]
  /\ file \in [Stages -> {"none", "skipped", "pass", "fail", "foreign"}]
  /\ manifest \in Manifests /\ torn \in BOOLEAN
  /\ ran \subseteq Stages /\ found \subseteq Stages /\ lost \subseteq Stages \cup {Update}

\* The exit code is the verdict of everything that ran: zero exactly when no
\* check found anything and none was lost on the way, the update of the
\* manifest included, and one whenever something was found and reported; an
\* agent that could not run counts as a finding (ava_patched.py:362).
VerdictMatchesFindings ==
  phase = "returned" =>
    /\ exit = 0 <=> bugs = {} /\ found = {} /\ lost = {}
    /\ bugs # {} \/ found \ lost # {} => exit = 1
    /\ exit = 1 => bugs # {} \/ found # {} \/ \E s \in lost \ {Update} : Kind[s] = "agent"

\* Whoever reads the manifest, during the run or after a kill, is told
\* "completed" only when nothing was found or lost; a run that exits with zero
\* has told it so, and each agent's result is still in a manifest that can be
\* read (ava_patched.py:3491).
ManifestTells ==
  /\ ~torn /\ manifest.status = "completed" => bugs = {} /\ found = {} /\ lost = {}
  /\ exit = 0 /\ extended => ~torn /\ manifest.status = "completed"
  /\ ~torn => \A s \in ran \ lost :
       Kind[s] = "agent" /\ s < stage =>
         manifest.phases[s] = IF s \in found THEN "failed" ELSE "passed"

\* A run that compared two logs and exits with zero compared logs that agree,
\* with the exceptions that Agree names, whichever of the attempts the RTL log is
\* from (ava_patched.py:562).
CleanExitMeansAgree ==
  exit = 0 /\ rtl.log # <<>> /\ iss.log # <<>> => Agree(rtl.log, iss.log)

\* The run ends, even when a simulator never answers (ava_patched.py:1849).
RunEnds == <>Ended

\* What the documentation says: "every gating check ran and found nothing"
\* (ava_patched.py:257), at least when both simulators gave their logs.
CompletedMeansChecked ==
  exit = 0 /\ extended /\ compared => \A s \in modules : Gating(s) => s \in ran
=============================================================================
