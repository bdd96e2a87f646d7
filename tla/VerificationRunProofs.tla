----------------------- MODULE VerificationRunProofs -----------------------
(***************************************************************************)
(* The orchestrator's run, for any number and kinds of stages and any      *)
(* logs. The induction ties the lists and reports the verdict is drawn     *)
(* from to the history of what the stages judged and could not judge:      *)
(* Visited says where a stage that ran can be, Listed what became of its   *)
(* judgement, Published what the process has told of it.                   *)
(***************************************************************************)
EXTENDS VerificationRun, FiniteSetTheorems, WellFoundedInduction, TLAPS

Early == {"setup", "tandem", "manifest", "dumping"}

\* The stages run in order, each once, and judge only while they run.
Visited ==
  /\ phase \in Early => stage = 1 /\ ran = {}
  /\ ran \subseteq 1..stage
  /\ found \subseteq ran /\ lost \subseteq ran \cup {Update}
  /\ phase = "stages" => stage \notin ran
  /\ phase \in {"agent", "readback"} => stage \in Stages /\ stage \in ran
  /\ phase = "agent" => Kind[stage] = "agent" /\ stage \notin found
  /\ phase = "readback" => Kind[stage] = "checker"

\* What was found is in the violations or in a report that fails the run, and
\* what was lost is in one of the two lists; nothing else is.
Listed ==
  /\ \A s \in found \ lost : s \in violations \/ (Kind[s] = "inprocess" /\ reports[s] = "fail")
  /\ \A s \in violations : s \in found \/ (s \in lost /\ Kind[s] = "agent")
  /\ FailedReports \subseteq found
  /\ \A s \in Stages : file[s] = "fail" => s \in found
  /\ incomplete \subseteq lost /\ lost \subseteq incomplete \cup violations

\* The verdict as it stands.
Verdict == VerdictFromReports(Entry, bugs)

\* What the verdict entry, the manifest and the exit code say, and when.
Published ==
  /\ phase \in {"setup", "tandem", "verdict", "returned"} => recorded = Entry
  /\ phase \in Early => violations = {} /\ incomplete = {}
  /\ exit = 0 => phase = "returned"
  /\ phase = "returned" => exit = ExitCode(Verdict)
  /\ manifest.status = "completed" =>
       /\ phase \in {"publish", "verdict", "returned", "raised", "killed"}
       /\ bugs = {} /\ found = {} /\ lost = {}
  /\ phase \in {"publish", "verdict", "returned"} /\ extended =>
       Update \in incomplete \/ (~torn /\ manifest.status = Verdict)
  /\ \A s \in ran \ lost :
       Kind[s] = "agent" /\ s < stage =>
         manifest.phases[s] = IF s \in found THEN "failed" ELSE "passed"

RunInv == PipelineTypeOK /\ Visited /\ Listed /\ Published

-----------------------------------------------------------------------------
(* Types.                                                                  *)

LEMMA TypesInit == Init => PipelineTypeOK
<1> SUFFICES ASSUME Init PROVE PipelineTypeOK
  OBVIOUS
<1>1. TandemTypeOK
  <2>1. TandemInit
    BY DEF Init
  <2>2. 0 \in 0..RetryAttempts
    BY TandemAssumption
  <2>3. rtl \in RtlTask
    BY <2>1, <2>2 DEF TandemInit, RtlTask
  <2>4. iss \in IssTask
    BY <2>1 DEF TandemInit, IssTask
  <2> QED
    BY <2>1, <2>3, <2>4 DEF TandemInit, TandemTypeOK
<1>2. /\ stage \in 1..NStages + 1
      /\ phase \in Phases /\ extended \in BOOLEAN /\ exit \in {-1, 0, 1, 3} /\ torn \in BOOLEAN
  <2>1. 1 \in 1..NStages + 1
    BY StagesAssumption
  <2> QED
    BY <2>1 DEF Init, Phases
<1>3. /\ recorded \in [violations : SUBSET Stages, incomplete : SUBSET (Stages \cup {Update})]
      /\ reports \in [Stages -> {"none", "plain", "pass", "fail"}]
      /\ file \in [Stages -> {"none", "skipped", "pass", "fail", "foreign"}]
  BY DEF Init, NoVerdict
<1>4. manifest \in Manifests
  BY DEF Init, Manifests
<1> QED
  BY <1>1, <1>2, <1>3, <1>4
  DEF Init, PipelineTypeOK

\* One step of the tandem simulation keeps the types of its variables.
LEMMA TandemTypeStep == TandemTypeOK /\ (TandemNext \/ StartTandem) => TandemTypeOK'
<1> SUFFICES ASSUME TandemTypeOK, TandemNext \/ StartTandem PROVE TandemTypeOK'
  OBVIOUS
<1> USE TandemAssumption DEF TandemTypeOK, RtlTask, IssTask, Running
<1>1. CASE StartTandem
  <2>1. rtl' = [at |-> "running", tries |-> 1, log |-> rtl.log]
    BY <1>1 DEF StartTandem
  <2>2. 1 \in 0..RetryAttempts
    OBVIOUS
  <2> QED
    BY <1>1, <2>1, <2>2 DEF StartTandem
<1>2. CASE RtlAnswers
  BY <1>2 DEF RtlAnswers
<1>3. CASE RtlFails
  BY <1>3 DEF RtlFails
<1>4. CASE RtlRetries
  <2>1. rtl' = [at |-> "running", tries |-> rtl.tries + 1, log |-> rtl.log]
    BY <1>4 DEF RtlRetries
  <2>2. rtl.tries + 1 \in 0..RetryAttempts
    BY <1>4 DEF RtlRetries
  <2> QED
    BY <1>4, <2>1, <2>2 DEF RtlRetries
<1>5. CASE IssAnswers
  BY <1>5 DEF IssAnswers
<1>6. CASE IssFails
  BY <1>6 DEF IssFails
<1>7. CASE Gather
  BY <1>7 DEF Gather
<1>8. CASE Compare
  BY <1>8 DEF Compare
<1>9. CASE TandemTimeout
  BY <1>9 DEF TandemTimeout
<1> QED
  BY <1>1, <1>2, <1>3, <1>4, <1>5, <1>6, <1>7, <1>8, <1>9 DEF TandemNext

\* A stage that is left leaves what the invariant asks for.
LEMMA LeaveVisits ==
  ASSUME Visited, stage \in Stages, NEW judged, NEW missed,
         judged \subseteq {stage}, missed \subseteq {stage}, Leave(judged, missed),
         ran' = ran \cup {stage} \/ (stage \in ran /\ ran' = ran)
  PROVE  Visited'
<1>1. /\ stage \in Nat \ {0} /\ stage + 1 > 1
      /\ phase' = "stages" /\ stage' = stage + 1
      /\ found' = found \cup judged /\ lost' = lost \cup missed
  BY StagesAssumption DEF Leave, Stages
<1>2. ran' \subseteq 1..stage
  <2> DEFINE entered == 1..stage
  <2>1. stage \in entered /\ ran \subseteq entered
    BY <1>1 DEF Visited
  <2> HIDE DEF entered
  <2>2. ran' \subseteq entered
    BY <2>1
  <2> QED
    BY <2>2 DEF entered
<1>3. ran' \subseteq 1..stage' /\ stage' \notin ran'
  BY <1>1, <1>2
<1>4. found' \subseteq ran' /\ lost' \subseteq ran' \cup {Update}
  BY <1>1 DEF Visited
<1> QED
  BY <1>1, <1>3, <1>4 DEF Visited, Early, Stages

\* What verdict and exit code may be.
LEMMA VerdictTypes ==
  ASSUME NEW e, NEW b
  PROVE  /\ VerdictFromReports(e, b) \in Verdicts
         /\ ExitCode(VerdictFromReports(e, b)) \in {0, 1, 3}
  BY DEF VerdictFromReports, Verdicts, ExitCode

\* What the verdicts mean for the history of the stages.
LEMMA CleanVerdict ==
  ASSUME PipelineTypeOK, Listed
  PROVE  /\ Verdict = "completed" <=> bugs = {} /\ found = {} /\ lost = {}
         /\ bugs # {} \/ found \ lost # {} => Verdict = "failed"
         /\ Verdict = "failed" =>
              bugs # {} \/ found # {} \/ \E s \in lost \ {Update} : Kind[s] = "agent"
<1>1. found \ lost # {} => violations # {} \/ FailedReports # {}
  BY DEF Listed, FailedReports, PipelineTypeOK
<1>2. violations = {} /\ incomplete = {} => lost = {}
  BY DEF Listed
<1>3. found = {} /\ lost = {} => violations = {} /\ FailedReports = {} /\ incomplete = {}
  BY DEF Listed
<1>4. violations # {} => found # {} \/ \E s \in lost \ {Update} : Kind[s] = "agent"
  <2>1. violations \subseteq Stages /\ Update \notin Stages
    BY DEF PipelineTypeOK, Stages, Update
  <2> QED
    BY <2>1 DEF Listed
<1>5. FailedReports # {} => found # {}
  BY DEF Listed
<1> QED
  BY <1>1, <1>2, <1>3, <1>4, <1>5 DEF Verdict, VerdictFromReports, Entry

LEMMA VerdictKept ==
  /\ UNCHANGED <<violations, incomplete>> => Entry' = Entry
  /\ UNCHANGED <<violations, incomplete, reports, bugs>> => Verdict' = Verdict
  BY DEF Verdict, VerdictFromReports, Entry, FailedReports

LEMMA TypesStep == PipelineTypeOK /\ Visited /\ [Next]_vars => PipelineTypeOK'
<1> SUFFICES ASSUME PipelineTypeOK, Visited, [Next]_vars PROVE PipelineTypeOK'
  OBVIOUS
<1> DEFINE Results == {"none", "running", "passed", "failed", "infra_error"}
<1>0. /\ stage \in Nat /\ (phase \in {"agent", "readback"} => 
                        stage \in Stages /\ stage + 1 \in 1..NStages + 1)
      /\ manifest = [status |-> manifest.status, phases |-> manifest.phases]
      /\ manifest.phases \in [Stages -> Results]
  BY StagesAssumption DEF PipelineTypeOK, Visited, Stages, Manifests
<1> USE StagesAssumption DEF PipelineTypeOK, Phases
<1>1. CASE Setup
  <2>1. TandemTypeOK'
    BY TandemTypeStep, <1>1 DEF Setup
  <2> QED
    BY <1>1, <2>1 DEF Setup, config, lists, disk, history
<1>2. CASE Simulate
  <2>1. TandemTypeOK'
    BY TandemTypeStep, <1>2 DEF Simulate
  <2> QED
    BY <1>2, <2>1 DEF Simulate, config, lists, disk, history
<1>3. CASE Analyse
  BY <1>3 DEF Analyse, tandemVars, TandemTypeOK, config, lists, disk, history, Stages
<1>4. CASE OpenManifest
  BY <1>4 DEF OpenManifest, tandemVars, TandemTypeOK, config, lists, disk, history, Stages
<1>5. CASE WriteManifest
  <2>1. manifest' = [status |-> "running_extended", phases |-> manifest.phases]
    BY <1>0, <1>5 DEF WriteManifest
  <2>2. manifest' \in Manifests
    BY <1>0, <2>1 DEF Manifests
  <2>3. /\ phase' = "stages" /\ torn' = FALSE
        /\ UNCHANGED <<tandemVars, config, stage, lists, exit, history>>
    BY <1>5 DEF WriteManifest
  <2> QED
    BY <2>2, <2>3 DEF tandemVars, TandemTypeOK, config, lists, history
<1>6. CASE SkipStage
  BY <1>6 DEF SkipStage, tandemVars, TandemTypeOK, config, lists, disk, history, Stages
<1>7. CASE StageLost
  BY <1>7
  DEF StageLost, Enter, Leave, RunStageLost, tandemVars, TandemTypeOK, config, lists, disk,
      history, Stages
<1>8. CASE RunInProcess
  <2>1. PICK r \in {"none", "pass", "fail"} :
              /\ reports' = [reports EXCEPT ![stage] = r]
              /\ Leave({s \in {stage} : r = "fail"}, {})
    BY <1>8 DEF RunInProcess
  <2>2. reports' \in [Stages -> {"none", "plain", "pass", "fail"}]
    BY <2>1
  <2>3. stage + 1 \in 1..NStages + 1 /\ stage \in Stages
    BY <1>0, <1>8 DEF RunInProcess, Enter, Stages
  <2>4. found' \subseteq Stages /\ lost' \subseteq Stages \cup {Update} /\ ran' \subseteq Stages
    BY <1>8, <2>1, <2>3 DEF RunInProcess, Enter, Leave
  <2> QED
    BY <1>0, <1>8, <2>1, <2>2, <2>3, <2>4
    DEF RunInProcess, Enter, Leave, tandemVars, TandemTypeOK, config, lists, disk, history,
        Stages
<1>9. CASE RunAdvisory
  BY <1>9
  DEF RunAdvisory, Enter, Leave, tandemVars, TandemTypeOK, config, lists, disk, history,
      Stages
<1>10. CASE RunTwin
  BY <1>10
  DEF RunTwin, Enter, Leave, tandemVars, TandemTypeOK, config, lists, disk, history, Stages
<1>11. CASE RunChecker
  BY <1>11
  DEF RunChecker, Enter, NoteExitCode, tandemVars, TandemTypeOK, config, lists, disk,
      history, Stages
<1>12. CASE ReadReport
  BY <1>0, <1>12
  DEF ReadReport, Leave, tandemVars, TandemTypeOK, config, lists, disk, history, Stages
<1>13. CASE ReadReportLost
  BY <1>0, <1>13
  DEF ReadReportLost, Leave, RunStageLost, tandemVars, TandemTypeOK, config, lists, disk,
      history, Stages
<1>14. CASE AgentStarts
  <2>1. manifest' \in Manifests
    <3>1. [manifest.phases EXCEPT ![stage] = "running"] \in [Stages -> Results]
      BY <1>0
    <3> QED
      BY <1>14, <3>1 DEF AgentStarts, Manifests
  <2> QED
    BY <1>14, <2>1 DEF AgentStarts, Enter, tandemVars, TandemTypeOK, config, lists, Stages
<1>15. CASE AgentEnds
  <2>1. PICK r \in {"passed", "failed", "infra_error"}, judged \in SUBSET {stage} :
              /\ NoteExitCode(CASE r = "passed" -> 0 [] r = "failed" -> 1 [] OTHER -> 2)
              /\ manifest' = [status |-> r, phases |-> [manifest.phases EXCEPT ![stage] = r]]
              /\ AgentReports(stage) \/ UNCHANGED file
              /\ Leave(judged, {s \in {stage} : r = "infra_error"})
    BY <1>15 DEF AgentEnds
  <2>2. file' \in [Stages -> {"none", "skipped", "pass", "fail", "foreign"}]
    BY <2>1 DEF AgentReports
  <2>3. violations' \subseteq Stages /\ incomplete' \subseteq Stages \cup {Update}
    BY <1>0, <1>15, <2>1 DEF AgentEnds, NoteExitCode
  <2>4. manifest' \in Manifests
    <3>1. [manifest.phases EXCEPT ![stage] = r] \in [Stages -> Results]
      BY <1>0, <2>1
    <3> QED
      BY <2>1, <3>1 DEF Manifests, Verdicts
  <2>5. found' \subseteq Stages /\ lost' \subseteq Stages \cup {Update}
    BY <1>0, <1>15, <2>1 DEF AgentEnds, Leave
  <2>6. /\ phase = "agent" /\ stage' = stage + 1 /\ phase' = "stages"
        /\ UNCHANGED <<tandemVars, config, exit>>
    BY <1>15, <2>1 DEF AgentEnds, Leave
  <2>7. /\ reports' \in [Stages -> {"none", "plain", "pass", "fail"}]
        /\ UNCHANGED <<recorded, torn, ran>>
    BY <1>15 DEF AgentEnds
  <2> QED
    BY <1>0, <2>2, <2>3, <2>4, <2>5, <2>6, <2>7 DEF tandemVars, TandemTypeOK, config
<1>16. CASE AgentLost
  BY <1>0, <1>16
  DEF AgentLost, Leave, AgentReports, RunStageLost, tandemVars, TandemTypeOK, config,
      lists, disk, history, Stages
<1>17. CASE ReopenManifest
  BY <1>17
  DEF ReopenManifest, tandemVars, TandemTypeOK, config, lists, disk, history, Stages
<1>18. CASE RewriteManifest
  <2>1. /\ manifest' = [status |-> VerdictFromReports(Entry, bugs), phases |-> manifest.phases]
        /\ VerdictFromReports(Entry, bugs) \in Verdicts
    BY <1>0, <1>18, VerdictTypes DEF RewriteManifest
  <2>2. manifest' \in Manifests
    BY <1>0, <2>1 DEF Manifests
  <2>3. /\ phase' = "publish" /\ torn' = FALSE
        /\ UNCHANGED <<tandemVars, config, stage, lists, exit, history>>
    BY <1>18 DEF RewriteManifest
  <2> QED
    BY <2>2, <2>3 DEF tandemVars, TandemTypeOK, config, lists, history
<1>19. CASE UpdateLost
  BY <1>19
  DEF UpdateLost, Update, tandemVars, TandemTypeOK, config, lists, disk, history, Stages
<1>20. CASE Publish
  BY <1>20
  DEF Publish, Entry, tandemVars, TandemTypeOK, config, lists, disk, history, Stages
<1>21. CASE Return
  BY VerdictTypes, <1>21
  DEF Return, tandemVars, TandemTypeOK, config, lists, disk, history, Stages
<1>22. CASE Raise
  BY <1>22 DEF Raise, tandemVars, TandemTypeOK, config, lists, disk, history, Stages
<1>23. CASE Kill
  BY <1>23 DEF Kill, tandemVars, TandemTypeOK, config, lists, disk, history, Stages
<1>24. CASE UNCHANGED vars
  BY <1>24 DEF vars, tandemVars, TandemTypeOK, config, lists, disk, history
<1> QED
  BY <1>1, <1>2, <1>3, <1>4, <1>5, <1>6, <1>7, <1>8, <1>9, <1>10, <1>11, <1>12, <1>13,
     <1>14, <1>15, <1>16, <1>17, <1>18, <1>19, <1>20, <1>21, <1>22, <1>23, <1>24
  DEF Next, Progress, StageNext

LEMMA VisitedStep == PipelineTypeOK /\ Visited /\ [Next]_vars => Visited'
<1> SUFFICES ASSUME PipelineTypeOK, Visited, [Next]_vars PROVE Visited'
  OBVIOUS
<1> USE StagesAssumption DEF PipelineTypeOK, Visited, Early, Stages, Update,
     tandemVars, config, lists, disk, history
<1>1. CASE Setup
  BY <1>1 DEF Setup
<1>2. CASE Simulate
  BY <1>2 DEF Simulate
<1>3. CASE Analyse
  BY <1>3 DEF Analyse
<1>4. CASE OpenManifest
  BY <1>4 DEF OpenManifest
<1>5. CASE WriteManifest
  BY <1>5 DEF WriteManifest
<1>6. CASE SkipStage
  BY <1>6 DEF SkipStage
<1>7. CASE StageLost
  BY <1>7 DEF StageLost, Enter, Leave, RunStageLost
<1>8. CASE RunInProcess
  <2>1. PICK judged \in SUBSET {stage}, missed \in SUBSET {stage} : Leave(judged, missed)
    BY <1>8 DEF RunInProcess
  <2>2. stage \in Stages /\ (ran' = ran \cup {stage} \/ (stage \in ran /\ ran' = ran))
    BY <1>8 DEF RunInProcess, Enter, Visited
  <2> QED
    BY <2>1, <2>2, LeaveVisits
<1>9. CASE RunAdvisory
  BY <1>9 DEF RunAdvisory, Enter, Leave
<1>10. CASE RunTwin
  BY <1>10 DEF RunTwin, Enter, Leave
<1>11. CASE RunChecker
  BY <1>11 DEF RunChecker, Enter, NoteExitCode
<1>12. CASE ReadReport
  BY <1>12 DEF ReadReport, Leave
<1>13. CASE ReadReportLost
  <2>1. PICK judged \in SUBSET {stage}, missed \in SUBSET {stage} : Leave(judged, missed)
    BY <1>13 DEF ReadReportLost
  <2>2. stage \in Stages /\ (ran' = ran \cup {stage} \/ (stage \in ran /\ ran' = ran))
    BY <1>13 DEF ReadReportLost, Enter, Visited
  <2> QED
    BY <2>1, <2>2, LeaveVisits
<1>14. CASE AgentStarts
  <2>1. /\ stage \in Stages /\ Kind[stage] = "agent" /\ phase = "stages"
        /\ ran' = ran \cup {stage} /\ phase' = "agent"
        /\ UNCHANGED <<stage, found, lost>>
    BY <1>14 DEF AgentStarts, Enter
  <2>2. stage \notin found
    BY <2>1
  <2> QED
    BY <2>1, <2>2
<1>15. CASE AgentEnds
  <2>1. PICK judged \in SUBSET {stage}, missed \in SUBSET {stage} : Leave(judged, missed)
    BY <1>15 DEF AgentEnds
  <2>2. stage \in Stages /\ (ran' = ran \cup {stage} \/ (stage \in ran /\ ran' = ran))
    BY <1>15 DEF AgentEnds, Enter, Visited
  <2> QED
    BY <2>1, <2>2, LeaveVisits
<1>16. CASE AgentLost
  <2>1. PICK judged \in SUBSET {stage}, missed \in SUBSET {stage} : Leave(judged, missed)
    BY <1>16 DEF AgentLost
  <2>2. stage \in Stages /\ (ran' = ran \cup {stage} \/ (stage \in ran /\ ran' = ran))
    BY <1>16 DEF AgentLost, Enter, Visited
  <2> QED
    BY <2>1, <2>2, LeaveVisits
<1>17. CASE ReopenManifest
  BY <1>17 DEF ReopenManifest
<1>18. CASE RewriteManifest
  BY <1>18 DEF RewriteManifest
<1>19. CASE UpdateLost
  BY <1>19 DEF UpdateLost
<1>20. CASE Publish
  BY <1>20 DEF Publish
<1>21. CASE Return
  BY <1>21 DEF Return
<1>22. CASE Raise
  BY <1>22 DEF Raise
<1>23. CASE Kill
  BY <1>23 DEF Kill
<1>24. CASE UNCHANGED vars
  BY <1>24 DEF vars
<1> QED
  BY <1>1, <1>2, <1>3, <1>4, <1>5, <1>6, <1>7, <1>8, <1>9, <1>10, <1>11, <1>12, <1>13,
     <1>14, <1>15, <1>16, <1>17, <1>18, <1>19, <1>20, <1>21, <1>22, <1>23, <1>24
  DEF Next, Progress, StageNext

LEMMA ListedStep == PipelineTypeOK /\ Visited /\ Listed /\ [Next]_vars => Listed'
<1> SUFFICES ASSUME PipelineTypeOK, Visited, Listed, [Next]_vars PROVE Listed'
  OBVIOUS
<1> USE DEF Visited, Listed, FailedReports, Update, PipelineTypeOK, Stages,
     tandemVars, config, lists, disk, history
<1>1. CASE Setup
  BY <1>1 DEF Setup
<1>2. CASE Simulate
  BY <1>2 DEF Simulate
<1>3. CASE Analyse
  BY <1>3 DEF Analyse
<1>4. CASE OpenManifest
  BY <1>4 DEF OpenManifest
<1>5. CASE WriteManifest
  BY <1>5 DEF WriteManifest
<1>6. CASE SkipStage
  BY <1>6 DEF SkipStage
<1>7. CASE StageLost
  BY <1>7 DEF StageLost, Enter, Leave, RunStageLost
<1>8. CASE RunInProcess
  BY <1>8 DEF RunInProcess, Enter, Leave
<1>9. CASE RunAdvisory
  BY <1>9 DEF RunAdvisory, Enter, Leave
<1>10. CASE RunTwin
  BY <1>10 DEF RunTwin, Enter, Leave
<1>11. CASE RunChecker
  BY <1>11 DEF RunChecker, Enter, NoteExitCode
<1>12. CASE ReadReport
  BY <1>12 DEF ReadReport, Leave
<1>13. CASE ReadReportLost
  BY <1>13 DEF ReadReportLost, Leave, RunStageLost
<1>14. CASE AgentStarts
  BY <1>14 DEF AgentStarts, Enter
<1>15. CASE AgentEnds
  <2>1. PICK r \in {"passed", "failed", "infra_error"}, judged \in SUBSET {stage} :
              /\ r # "infra_error" => judged = {s \in {stage} : r = "failed"}
              /\ NoteExitCode(CASE r = "passed" -> 0 [] r = "failed" -> 1 [] OTHER -> 2)
              /\ AgentReports(stage) \/ UNCHANGED file
              /\ Leave(judged, {s \in {stage} : r = "infra_error"})
    BY <1>15 DEF AgentEnds
  <2>2. /\ stage \in Stages /\ Kind[stage] = "agent" /\ stage \notin found
        /\ reports' = [reports EXCEPT ![stage] = "plain"]
        /\ \A s \in Stages : file'[s] = "fail" => file[s] = "fail"
    BY <1>15, <2>1 DEF AgentEnds, AgentReports
  <2>3. CASE r = "passed"
    <3>1. found' = found /\ lost' = lost /\ UNCHANGED <<violations, incomplete>>
      BY <2>1, <2>3 DEF Leave, NoteExitCode
    <3> QED
      BY <2>2, <3>1 DEF PipelineTypeOK
  <2>4. CASE r = "failed"
    <3>1. /\ found' = found \cup {stage} /\ lost' = lost
          /\ violations' = violations \cup {stage} /\ incomplete' = incomplete
      BY <2>1, <2>4 DEF Leave, NoteExitCode
    <3> QED
      BY <2>2, <3>1 DEF PipelineTypeOK
  <2>5. CASE r = "infra_error"
    <3>1. /\ found' = found \cup judged /\ lost' = lost \cup {stage}
          /\ violations' = violations \cup {stage} /\ incomplete' = incomplete
      BY <2>1, <2>5 DEF Leave, NoteExitCode
    <3> QED
      BY <2>1, <2>2, <3>1 DEF PipelineTypeOK
  <2> QED
    BY <2>1, <2>3, <2>4, <2>5
<1>16. CASE AgentLost
  <2>1. PICK judged \in SUBSET {stage} : Leave(judged, {stage})
    BY <1>16 DEF AgentLost
  <2>2. /\ stage \in Stages /\ Kind[stage] = "agent" /\ stage \notin found
        /\ reports' = [reports EXCEPT ![stage] = "plain"]
        /\ violations' = violations /\ incomplete' = incomplete \cup {stage}
        /\ \A s \in Stages : file'[s] = "fail" => file[s] = "fail"
    BY <1>16 DEF AgentLost, AgentReports, RunStageLost
  <2>3. found' = found \cup judged /\ lost' = lost \cup {stage}
    BY <2>1 DEF Leave
  <2> QED
    BY <2>1, <2>2, <2>3 DEF PipelineTypeOK
<1>17. CASE ReopenManifest
  BY <1>17 DEF ReopenManifest
<1>18. CASE RewriteManifest
  BY <1>18 DEF RewriteManifest
<1>19. CASE UpdateLost
  BY <1>19 DEF UpdateLost
<1>20. CASE Publish
  BY <1>20 DEF Publish
<1>21. CASE Return
  BY <1>21 DEF Return
<1>22. CASE Raise
  BY <1>22 DEF Raise
<1>23. CASE Kill
  BY <1>23 DEF Kill
<1>24. CASE UNCHANGED vars
  BY <1>24 DEF vars
<1> QED
  BY <1>1, <1>2, <1>3, <1>4, <1>5, <1>6, <1>7, <1>8, <1>9, <1>10, <1>11, <1>12, <1>13,
     <1>14, <1>15, <1>16, <1>17, <1>18, <1>19, <1>20, <1>21, <1>22, <1>23, <1>24
  DEF Next, Progress, StageNext

LEMMA PublishedStep == PipelineTypeOK /\ Visited /\ Listed /\ Published /\ [Next]_vars => Published'
<1> SUFFICES ASSUME PipelineTypeOK, Visited, Listed, Published, [Next]_vars PROVE Published'
  OBVIOUS
<1> USE DEF Visited, Published, Early, Update, PipelineTypeOK, Stages,
     tandemVars, config, lists, disk, history
<1>1. CASE Setup
  BY VerdictKept, <1>1 DEF Setup, StartTandem
<1>2. CASE Simulate
  BY VerdictKept, <1>2 DEF Simulate
<1>3. CASE Analyse
  BY VerdictKept, <1>3 DEF Analyse
<1>4. CASE OpenManifest
  BY VerdictKept, <1>4 DEF OpenManifest
<1>5. CASE WriteManifest
  BY VerdictKept, <1>5 DEF WriteManifest
<1>6. CASE SkipStage
  BY <1>6 DEF SkipStage
<1>7. CASE StageLost
  BY <1>7 DEF StageLost, Enter, Leave, RunStageLost
<1>8. CASE RunInProcess
  BY <1>8 DEF RunInProcess, Enter, Leave
<1>9. CASE RunAdvisory
  BY <1>9 DEF RunAdvisory, Enter, Leave
<1>10. CASE RunTwin
  BY <1>10 DEF RunTwin, Enter, Leave
<1>11. CASE RunChecker
  BY <1>11 DEF RunChecker, Enter, NoteExitCode
<1>12. CASE ReadReport
  BY <1>12 DEF ReadReport, Leave
<1>13. CASE ReadReportLost
  BY <1>13 DEF ReadReportLost, Leave, RunStageLost
<1>14. CASE AgentStarts
  BY <1>14 DEF AgentStarts, Enter
<1>15. CASE AgentEnds
  <2>1. PICK r \in {"passed", "failed", "infra_error"}, judged \in SUBSET {stage} :
              /\ r # "infra_error" => judged = {s \in {stage} : r = "failed"}
              /\ manifest' = [status |-> r, phases |-> [manifest.phases EXCEPT ![stage] = r]]
              /\ Leave(judged, {s \in {stage} : r = "infra_error"})
    BY <1>15 DEF AgentEnds
  <2>2. /\ phase = "agent" /\ stage \in Stages /\ stage \notin found /\ stage \in Nat
        /\ ran' = ran /\ phase' = "stages" /\ exit' = exit /\ stage' = stage + 1
        /\ manifest.phases \in [Stages -> {"none", "running", "passed", "failed", "infra_error"}]
    BY <1>15, <2>1 DEF AgentEnds, Leave, PipelineTypeOK, Manifests, Stages
  <2>3. /\ found' = found \cup judged
        /\ lost' = IF r = "infra_error" THEN lost \cup {stage} ELSE lost
    BY <2>1 DEF Leave
  <2>4. ASSUME NEW s \in ran' \ lost', Kind[s] = "agent", s < stage'
        PROVE  manifest'.phases[s] = IF s \in found' THEN "failed" ELSE "passed"
    <3>1. CASE s = stage
      BY <2>1, <2>2, <2>3, <2>4, <3>1
    <3>2. CASE s # stage
      <4>1. s \in ran \ lost /\ s < stage /\ s \in Stages
        BY <2>2, <2>3, <2>4, <3>2 DEF PipelineTypeOK, Stages
      <4>2. manifest'.phases[s] = manifest.phases[s] /\ (s \in found' <=> s \in found)
        BY <2>1, <2>2, <2>3, <3>2, <4>1
      <4> QED
        BY <2>4, <4>1, <4>2
    <3> QED
      BY <3>1, <3>2
  <2> QED
    BY <2>1, <2>2, <2>4
<1>16. CASE AgentLost
  BY <1>16 DEF AgentLost, Leave, RunStageLost
<1>17. CASE ReopenManifest
  BY VerdictKept, <1>17 DEF ReopenManifest
<1>18. CASE RewriteManifest
  BY VerdictKept, CleanVerdict, <1>18 DEF RewriteManifest, Verdict
<1>19. CASE UpdateLost
  BY <1>19 DEF UpdateLost, Entry
<1>20. CASE Publish
  BY VerdictKept, <1>20 DEF Publish, lists
<1>21. CASE Return
  BY VerdictKept, <1>21 DEF Return, Verdict, Entry
<1>22. CASE Raise
  BY VerdictKept, <1>22 DEF Raise
<1>23. CASE Kill
  BY VerdictKept, <1>23 DEF Kill, Ended
<1>24. CASE UNCHANGED vars
  BY VerdictKept, <1>24 DEF vars
<1> QED
  BY <1>1, <1>2, <1>3, <1>4, <1>5, <1>6, <1>7, <1>8, <1>9, <1>10, <1>11, <1>12, <1>13,
     <1>14, <1>15, <1>16, <1>17, <1>18, <1>19, <1>20, <1>21, <1>22, <1>23, <1>24
  DEF Next, Progress, StageNext

-----------------------------------------------------------------------------
(* The comparator. Its walk is a recursive function: that it exists is shown *)
(* by induction on how far the RTL log is from its end, an induction over a  *)
(* set of numbers that rests on its least element.                           *)

Places(rlog, ilog) == (1..Len(rlog) + 1) \X (1..Len(ilog) + 1) \X (0..MaxMismatches)

\* The bugs from a place on, given those from later places on.
From(rlog, ilog, g, i, j, n) ==
  IF i > Len(rlog) \/ j > Len(ilog) \/ n = MaxMismatches THEN {}
  ELSE IF rlog[i].pc # ilog[j].pc
    THEN {<<"pc", i, j>>} \cup g[<<Resync(rlog, ilog, i, j)[1], Resync(rlog, ilog, i, j)[2], n + 1>>]
  ELSE IF RegisterDiffers(rlog[i], ilog[j])
    THEN {<<"register", i, j>>} \cup g[<<i + 1, j + 1, n + 1>>]
  ELSE g[<<i + 1, j + 1, n>>]

IsWalk(rlog, ilog, g) == g = [p \in Places(rlog, ilog) |-> From(rlog, ilog, g, p[1], p[2], p[3])]
Walked(rlog, ilog)    == CHOOSE g : IsWalk(rlog, ilog, g)

LEMMA BugsWalk ==
  ASSUME NEW rlog, NEW ilog
  PROVE  Bugs(rlog, ilog) =
           LET short == IF LengthsDiverge(rlog, ilog) THEN {<<"count", 0, 0>>} ELSE {}
           IN  short \cup Walked(rlog, ilog)[<<1, 1, Cardinality(short)>>]
BY DEF Bugs, Walked, IsWalk, From, Places

LEMMA Least ==
  ASSUME NEW S \in SUBSET Nat, S # {}
  PROVE  \E m \in S : \A n \in S : m <= n
<1>1. PICK m \in S : \A n \in S : ~(<<n, m>> \in OpToRel(<, Nat))
  BY NatLessThanWellFounded, WFMin
<1>2. \A n \in S : ~(n < m)
  BY <1>1 DEF OpToRel
<1> QED
  BY <1>2

LEMMA Induction ==
  ASSUME NEW G, 0 \in G, \A n \in Nat : n \in G => n + 1 \in G
  PROVE  \A n \in Nat : n \in G
<1> DEFINE Bad == {n \in Nat : n \notin G}
<1>1. ASSUME Bad # {} PROVE FALSE
  <2>1. PICK m \in Bad : \A n \in Bad : m <= n
    BY <1>1, Least
  <2>2. m # 0 /\ m - 1 \in Nat /\ m - 1 \notin Bad
    BY <2>1
  <2>3. (m - 1) + 1 \in G
    BY <2>2
  <2> QED
    BY <2>1, <2>3
<1> QED
  BY <1>1

\* The place that Resync gives is ahead in both logs.
LEMMA ResyncAhead ==
  ASSUME NEW rlog, NEW ilog, Len(rlog) \in Nat, Len(ilog) \in Nat,
         NEW i \in 1..Len(rlog), NEW j \in 1..Len(ilog)
  PROVE  /\ Resync(rlog, ilog, i, j)[1] \in (i + 1)..(Len(rlog) + 1)
         /\ Resync(rlog, ilog, i, j)[2] \in (j + 1)..(Len(ilog) + 1)
<1> DEFINE Pairs == {d \in (1..ResyncWindow) \X (1..ResyncWindow) :
                       /\ i + d[1] <= Len(rlog) /\ j + d[2] <= Len(ilog)
                       /\ rlog[i + d[1]].pc = ilog[j + d[2]].pc}
           Nearest(d) == \A e \in Pairs : d[1] < e[1] \/ (d[1] = e[1] /\ d[2] <= e[2])
           first == CHOOSE d \in Pairs : Nearest(d)
<1>1. Resync(rlog, ilog, i, j) = IF Pairs = {} THEN <<i + 1, j + 1>>
                               ELSE <<i + first[1], j + first[2]>>
  BY DEF Resync
<1>2. \A d \in Pairs : /\ d[1] \in Nat \ {0} /\ d[2] \in Nat \ {0}
                        /\ i + d[1] <= Len(rlog) /\ j + d[2] <= Len(ilog)
  BY ComparatorAssumption
<1> HIDE DEF Pairs
<1>3. ASSUME Pairs # {} PROVE first \in Pairs
  <2>1. PICK a \in {d[1] : d \in Pairs} : \A x \in {d[1] : d \in Pairs} : a <= x
    <3>1. {d[1] : d \in Pairs} \in SUBSET Nat /\ {d[1] : d \in Pairs} # {}
      BY <1>2, <1>3
    <3> QED
      BY <3>1, Least
  <2> DEFINE Row == {d \in Pairs : d[1] = a}
  <2>2. PICK b \in {d[2] : d \in Row} : \A x \in {d[2] : d \in Row} : b <= x
    <3>1. {d[2] : d \in Row} \in SUBSET Nat /\ {d[2] : d \in Row} # {}
      BY <1>2, <2>1
    <3> HIDE DEF Row
    <3> QED
      BY <3>1, Least
  <2>3. PICK d \in Pairs : d[1] = a /\ d[2] = b
    BY <2>2
  <2>4. \A e \in Pairs : d[1] <= e[1] /\ (e[1] = a => b <= e[2])
    BY <2>1, <2>2, <2>3
  <2>5. Nearest(d)
    BY <1>2, <2>3, <2>4
  <2> HIDE DEF Nearest
  <2> QED
    BY <2>5
<1> HIDE DEF first
<1>4. CASE Pairs = {}
  BY <1>1, <1>4
<1>5. CASE Pairs # {}
  <2>1. /\ first[1] \in Nat \ {0} /\ first[2] \in Nat \ {0}
        /\ i + first[1] <= Len(rlog) /\ j + first[2] <= Len(ilog)
    BY <1>2, <1>3, <1>5
  <2>2. Resync(rlog, ilog, i, j) = <<i + first[1], j + first[2]>>
    BY <1>1, <1>5
  <2> QED
    BY <2>1, <2>2, SMTT(30)
<1> QED
  BY <1>4, <1>5

\* What From says of a place depends on later places only.
LEMMA FromLater ==
  ASSUME NEW rlog, NEW ilog, Len(rlog) \in Nat, Len(ilog) \in Nat, NEW g, NEW h,
         NEW p \in Places(rlog, ilog),
         \A q \in Places(rlog, ilog) : q[1] > p[1] => g[q] = h[q]
  PROVE  From(rlog, ilog, g, p[1], p[2], p[3]) = From(rlog, ilog, h, p[1], p[2], p[3])
<1> DEFINE i == p[1]
           j == p[2]
           n == p[3]
           to == Resync(rlog, ilog, i, j)
<1>1. CASE i > Len(rlog) \/ j > Len(ilog) \/ n = MaxMismatches
  BY <1>1 DEF From
<1>2. CASE ~(i > Len(rlog) \/ j > Len(ilog) \/ n = MaxMismatches)
  <2>1. i \in 1..Len(rlog) /\ j \in 1..Len(ilog) /\ n \in 0..MaxMismatches
    BY <1>2 DEF Places
  <2>2. n + 1 \in 0..MaxMismatches
    BY <1>2, <2>1, ComparatorAssumption
  <2> HIDE DEF i, j, n
  <2>3. to[1] \in (i + 1)..(Len(rlog) + 1) /\ to[2] \in (j + 1)..(Len(ilog) + 1)
    BY <2>1, ResyncAhead
  <2>4. /\ <<to[1], to[2], n + 1>> \in Places(rlog, ilog) /\ to[1] > i
        /\ <<i + 1, j + 1, n + 1>> \in Places(rlog, ilog) /\ i + 1 > i
        /\ <<i + 1, j + 1, n>> \in Places(rlog, ilog)
    <3> HIDE DEF to
    <3>1. /\ to[1] \in 1..Len(rlog) + 1 /\ to[2] \in 1..Len(ilog) + 1 /\ to[1] > i
          /\ i + 1 \in 1..Len(rlog) + 1 /\ j + 1 \in 1..Len(ilog) + 1 /\ i + 1 > i
      BY <2>1, <2>3
    <3> QED
      BY <2>1, <2>2, <3>1 DEF Places
  <2>5. /\ g[<<to[1], to[2], n + 1>>] = h[<<to[1], to[2], n + 1>>]
        /\ g[<<i + 1, j + 1, n + 1>>] = h[<<i + 1, j + 1, n + 1>>]
        /\ g[<<i + 1, j + 1, n>>] = h[<<i + 1, j + 1, n>>]
    BY <2>4 DEF i
  <2>6. From(rlog, ilog, g, i, j, n) = From(rlog, ilog, h, i, j, n)
    BY <2>5 DEF From
  <2> QED
    BY <2>6 DEF i, j, n
<1> QED
  BY <1>1, <1>2

LEMMA WalkedIsWalk ==
  ASSUME NEW rlog, NEW ilog, Len(rlog) \in Nat, Len(ilog) \in Nat
  PROVE  IsWalk(rlog, ilog, Walked(rlog, ilog))
<1> DEFINE P == Places(rlog, ilog)
           At(g, p) == From(rlog, ilog, g, p[1], p[2], p[3])
           Right(g, m) == /\ g = [p \in P |-> g[p]]
                          /\ \A p \in P : p[1] + m > Len(rlog) + 1 => g[p] = At(g, p)
           G == {m \in Nat : \E g : Right(g, m)}
<1>0. \A p \in P : p[1] \in 1..Len(rlog) + 1
  BY DEF Places
<1>1. 0 \in G
  <2>1. Right([p \in P |-> {}], 0)
    BY <1>0
  <2> QED
    BY <2>1
<1>2. ASSUME NEW m \in Nat, m \in G PROVE m + 1 \in G
  <2>1. PICK g : Right(g, m)
    BY <1>2
  <2> DEFINE now(p) == p[1] + m = Len(rlog) + 1
             h == [p \in P |-> IF now(p) THEN At(g, p) ELSE g[p]]
  <2>2. \A p \in P : h[p] = IF now(p) THEN At(g, p) ELSE g[p]
    OBVIOUS
  <2>3. h = [p \in P |-> h[p]]
    OBVIOUS
  <2> HIDE DEF h
  <2>4. ASSUME NEW p \in P, p[1] + (m + 1) > Len(rlog) + 1
        PROVE  h[p] = At(h, p)
    <3>1. p[1] + m >= Len(rlog) + 1
      BY <1>0, <2>4
    <3>2. \A q \in P : q[1] > p[1] => g[q] = h[q]
      BY <1>0, <2>2, <3>1
    <3> HIDE DEF P, At
    <3>3. At(g, p) = At(h, p)
      <4>1. p \in Places(rlog, ilog) /\ \A q \in Places(rlog, ilog) : q[1] > p[1] => g[q] = h[q]
        BY <3>2 DEF P
      <4>2. From(rlog, ilog, g, p[1], p[2], p[3]) = From(rlog, ilog, h, p[1], p[2], p[3])
        BY <4>1, FromLater
      <4> QED
        BY <4>2 DEF At
    <3>4. h[p] = At(g, p)
      <4>1. CASE now(p)
        BY <2>2, <4>1
      <4>2. CASE ~now(p)
        <5>1. p[1] + m > Len(rlog) + 1
          BY <1>0, <3>1, <4>2
        <5> QED
          BY <2>1, <2>2, <4>2, <5>1
      <4> QED
        BY <4>1, <4>2
    <3> QED
      BY <3>3, <3>4
  <2>5. Right(h, m + 1)
    BY <2>3, <2>4
  <2> QED
    BY <2>5
<1> HIDE DEF G, P, At
<1>3. Len(rlog) + 1 \in G
  BY <1>1, <1>2, Induction
<1>4. PICK g : Right(g, Len(rlog) + 1)
  BY <1>3 DEF G
<1>5. \A p \in P : g[p] = At(g, p)
  BY <1>0, <1>4
<1>6. g = [p \in P |-> At(g, p)]
  BY <1>4, <1>5
<1>7. IsWalk(rlog, ilog, g)
  BY <1>6 DEF IsWalk, P, At
<1> QED
  BY <1>7 DEF Walked

\* A walk that reports nothing has found nothing: both logs were read in step
\* to the end of the shorter.
LEMMA SilentWalk ==
  ASSUME NEW rlog, NEW ilog, Len(rlog) \in Nat, Len(ilog) \in Nat,
         Walked(rlog, ilog)[<<1, 1, 0>>] = {}
  PROVE  \A i \in 1..Len(rlog) : i <= Len(ilog) =>
           rlog[i].pc = ilog[i].pc /\ ~RegisterDiffers(rlog[i], ilog[i])
<1> DEFINE W == Walked(rlog, ilog)
           Silent(i) == W[<<i, i, 0>>] = {}
           G == {k \in Nat : k < Len(rlog) /\ k < Len(ilog) => Silent(k + 1)}
<1>1. ASSUME NEW i \in 1..Len(rlog), i <= Len(ilog), Silent(i)
      PROVE  /\ rlog[i].pc = ilog[i].pc /\ ~RegisterDiffers(rlog[i], ilog[i])
             /\ Silent(i + 1)
  <2>1. <<i, i, 0>> \in Places(rlog, ilog) /\ 0 # MaxMismatches
    BY <1>1, ComparatorAssumption DEF Places
  <2>2. W[<<i, i, 0>>] = From(rlog, ilog, W, i, i, 0)
    <3>1. W = [p \in Places(rlog, ilog) |-> From(rlog, ilog, W, p[1], p[2], p[3])]
      BY WalkedIsWalk DEF IsWalk
    <3> HIDE DEF W
    <3> QED
      BY <2>1, <3>1
  <2>3. From(rlog, ilog, W, i, i, 0) = {}
    BY <1>1, <2>2
  <2> HIDE DEF W
  <2>4. \A x, S : {x} \cup S # {}
    OBVIOUS
  <2>5. ~(i > Len(rlog) \/ i > Len(ilog) \/ 0 = MaxMismatches)
    BY <1>1, <2>1
  <2>6. rlog[i].pc = ilog[i].pc
    BY <2>3, <2>4, <2>5 DEF From
  <2>7. ~RegisterDiffers(rlog[i], ilog[i])
    BY <2>3, <2>4, <2>5, <2>6 DEF From
  <2>8. Silent(i + 1)
    BY <2>3, <2>5, <2>6, <2>7 DEF From
  <2> QED
    BY <2>6, <2>7, <2>8
<1>2. 0 \in G
  OBVIOUS
<1>3. ASSUME NEW k \in Nat, k \in G PROVE k + 1 \in G
  <2> SUFFICES ASSUME k + 1 < Len(rlog), k + 1 < Len(ilog) PROVE Silent((k + 1) + 1)
    OBVIOUS
  <2>1. Silent(k + 1)
    BY <1>3
  <2>2. k + 1 \in 1..Len(rlog) /\ k + 1 <= Len(ilog)
    OBVIOUS
  <2> HIDE DEF Silent
  <2> QED
    BY <1>1, <2>1, <2>2
<1> HIDE DEF G, Silent
<1>4. \A k \in Nat : k \in G
  BY <1>2, <1>3, Induction
<1>5. ASSUME NEW i \in 1..Len(rlog), i <= Len(ilog) PROVE Silent(i)
  <2>1. i - 1 \in Nat /\ i - 1 < Len(rlog) /\ i - 1 < Len(ilog) /\ (i - 1) + 1 = i
    BY <1>5
  <2> QED
    BY <1>4, <2>1 DEF G
<1> QED
  BY <1>1, <1>5

\* A set of commits that is not empty has a last one.
LEMMA LastOf ==
  ASSUME NEW n \in Nat, NEW S \in SUBSET (1..n), S # {}
  PROVE  Max(S) \in S
<1> DEFINE G == {k \in Nat : \A T \in SUBSET (1..k) : T # {} => \E m \in T : \A i \in T : i <= m}
<1>1. 0 \in G
  <2>1. 1..0 = {}
    OBVIOUS
  <2> QED
    BY <2>1
<1>2. ASSUME NEW k \in Nat, k \in G PROVE k + 1 \in G
  <2> SUFFICES ASSUME NEW T \in SUBSET (1..k + 1), T # {}
               PROVE  \E m \in T : \A i \in T : i <= m
    OBVIOUS
  <2>1. CASE k + 1 \in T
    BY <2>1
  <2>2. CASE k + 1 \notin T
    <3>1. T \in SUBSET (1..k)
      BY <2>2
    <3> QED
      BY <1>2, <3>1
  <2> QED
    BY <2>1, <2>2
<1> HIDE DEF G
<1>3. n \in G
  BY <1>1, <1>2, Induction
<1>4. \E m \in S : \A i \in S : i <= m
  BY <1>3 DEF G
<1>5. \E m \in S : \A i \in S : m >= i
  BY <1>4
<1> QED
  BY <1>5 DEF Max

\* What no report means.
LEMMA NoBugsMeansAgree ==
  ASSUME NEW rlog, NEW ilog, Len(rlog) \in Nat, Len(ilog) \in Nat, Bugs(rlog, ilog) = {}
  PROVE  Agree(rlog, ilog)
<1>1. ~LengthsDiverge(rlog, ilog)
  BY BugsWalk
<1>2. Walked(rlog, ilog)[<<1, 1, 0>>] = {}
  BY <1>1, BugsWalk, FS_EmptySet
<1>3. \A i \in 1..Len(rlog) : i <= Len(ilog) =>
        rlog[i].pc = ilog[i].pc /\ ~RegisterDiffers(rlog[i], ilog[i])
  BY <1>2, SilentWalk
<1>4. Apart(Len(rlog), Len(ilog)) * LengthTolerance <= LongerOf(Len(rlog), Len(ilog))
  <2>1. /\ Apart(Len(rlog), Len(ilog)) \in Int /\ LongerOf(Len(rlog), Len(ilog)) \in Int
        /\ LengthTolerance \in Int
    BY ComparatorAssumption DEF Apart, LongerOf
  <2>2. Apart(Len(rlog), Len(ilog)) * LengthTolerance \in Int
    BY <2>1
  <2> QED
    BY <1>1, <2>1, <2>2 DEF LengthsDiverge
<1>5. ASSUME NEW n \in 1..Len(rlog), n <= Len(ilog),
             NEW x \in {rlog[i].rd : i \in 1..n} \ {NoReg, X0},
             Writes(rlog, x, n) = Writes(ilog, x, n)
      PROVE  After(rlog, x, n) = After(ilog, x, n)
  <2>1. n \in Nat /\ Writes(rlog, x, n) \in SUBSET (1..n) /\ Writes(rlog, x, n) # {}
    BY <1>5 DEF Writes
  <2>2. PICK m : m = Max(Writes(rlog, x, n)) /\ m \in Writes(rlog, x, n)
    BY <2>1, LastOf
  <2>3. m \in 1..Len(rlog) /\ m <= Len(ilog) /\ rlog[m].rd = x /\ ilog[m].rd = x
    BY <1>5, <2>2 DEF Writes
  <2>4. rlog[m].val = ilog[m].val
    BY <1>3, <1>5, <2>3 DEF RegisterDiffers
  <2> QED
    BY <1>5, <2>2, <2>4 DEF After
<1> QED
  BY <1>3, <1>4, <1>5 DEF Agree

-----------------------------------------------------------------------------
(* The theorems.                                                           *)

LEMMA RunInvInit == Init => RunInv
<1> SUFFICES ASSUME Init PROVE RunInv
  OBVIOUS
<1>1. PipelineTypeOK
  BY TypesInit
<1>2. /\ phase = "setup" /\ stage = 1 /\ exit = -1 /\ manifest.status = "none"
      /\ violations = {} /\ incomplete = {} /\ recorded = NoVerdict
      /\ ran = {} /\ found = {} /\ lost = {}
      /\ \A s \in Stages : reports[s] = "none" /\ file[s] = "none"
  BY DEF Init
<1>3. Visited
  BY <1>2 DEF Visited, Early
<1>4. Listed
  BY <1>2 DEF Listed, FailedReports
<1>5. Published
  BY <1>2 DEF Published, Early, Entry, NoVerdict
<1> QED
  BY <1>1, <1>3, <1>4, <1>5 DEF RunInv

LEMMA RunInvStep == RunInv /\ [Next]_vars => RunInv'
BY TypesStep, VisitedStep, ListedStep, PublishedStep DEF RunInv

THEOREM RunInvariant == Spec => []RunInv
BY RunInvInit, RunInvStep, PTL DEF Spec

\* The variables of a run keep their types, and no simulation is retried more
\* often than RETRY_ATTEMPTS says, for any stages and any logs.
THEOREM PipelineTypes == Spec => []PipelineTypeOK
<1>1. RunInv => PipelineTypeOK
  BY DEF RunInv
<1> QED
  BY RunInvariant, <1>1, PTL

\* The exit code is zero exactly when nothing was found and nothing lost, and
\* one when something was found and reported, for any number and kinds of
\* stages and whatever fails.
THEOREM VerdictIsSound == Spec => []VerdictMatchesFindings
<1>1. RunInv => VerdictMatchesFindings
  <2> SUFFICES ASSUME RunInv, phase = "returned"
               PROVE  VerdictMatchesFindings
    BY DEF VerdictMatchesFindings
  <2>1. exit = ExitCode(Verdict)
    BY DEF RunInv, Published
  <2>2. Verdict \in {"completed", "failed", "incomplete"}
    BY VerdictTypes DEF Verdict, Verdicts
  <2>3. /\ exit = 0 <=> Verdict = "completed"
        /\ exit = 1 <=> Verdict = "failed"
    BY <2>1, <2>2 DEF ExitCode
  <2> QED
    BY <2>3, CleanVerdict DEF RunInv, VerdictMatchesFindings
<1> QED
  BY RunInvariant, <1>1, PTL

\* Whoever reads the manifest is told "completed" only of a clean run, a clean
\* run's manifest says so, and agents' results are kept, wherever the process
\* is killed.
THEOREM ManifestIsSound == Spec => []ManifestTells
<1>1. RunInv => ManifestTells
  <2> SUFFICES ASSUME RunInv PROVE ManifestTells
    OBVIOUS
  <2>1. ASSUME exit = 0, extended PROVE ~torn /\ manifest.status = "completed"
    <3>1. phase = "returned" /\ exit = ExitCode(Verdict)
      BY <2>1 DEF RunInv, Published
    <3>2. Verdict = "completed"
      BY <2>1, <3>1, VerdictTypes DEF Verdict, Verdicts, ExitCode
    <3>3. Update \notin incomplete
      BY <3>2, CleanVerdict DEF RunInv, Listed
    <3> QED
      BY <2>1, <3>1, <3>2, <3>3 DEF RunInv, Published
  <2> QED
    BY <2>1 DEF RunInv, Published, ManifestTells
<1> QED
  BY RunInvariant, <1>1, PTL

\* Past the simulation the tandem is done, and what it found is what the
\* comparator says of the two logs it ended with.
BugsFromLogs ==
  /\ phase \notin {"setup", "tandem", "raised", "killed"} => tandem = "done"
  /\ tandem = "done" /\ rtl.log # <<>> /\ iss.log # <<>> => bugs = Bugs(rtl.log, iss.log)

LEMMA BugsFromLogsStep == RunInv /\ BugsFromLogs /\ [Next]_vars => BugsFromLogs'
<1> SUFFICES ASSUME RunInv, BugsFromLogs, [Next]_vars PROVE BugsFromLogs'
  OBVIOUS
<1>1. CASE Setup
  BY <1>1 DEF Setup, StartTandem, BugsFromLogs
<1>2. CASE Simulate
  <2>1. TandemNext /\ phase = "tandem" /\ phase' = "tandem"
    BY <1>2 DEF Simulate
  <2>2. CASE Compare
    BY <2>1, <2>2 DEF Compare, BugsFromLogs
  <2>3. CASE RtlAnswers \/ RtlFails \/ RtlRetries \/ IssAnswers \/ IssFails
    BY <2>1, <2>3 DEF RtlAnswers, RtlFails, RtlRetries, IssAnswers, IssFails, Running, BugsFromLogs
  <2>4. CASE Gather \/ TandemTimeout
    BY <2>1, <2>4 DEF Gather, TandemTimeout, BugsFromLogs
  <2> QED
    BY <2>1, <2>2, <2>3, <2>4 DEF TandemNext
<1>3. CASE UNCHANGED tandemVars /\ (phase' \in {"setup", "tandem", "raised", "killed"} \/ tandem = "done")
  BY <1>3 DEF tandemVars, BugsFromLogs
<1>4. CASE Progress /\ ~Setup
  <2>1. UNCHANGED tandemVars
    BY <1>4 DEF Progress, StageNext, Analyse, OpenManifest, WriteManifest, SkipStage, StageLost,
         RunInProcess, RunAdvisory, RunTwin, RunChecker, ReadReport, ReadReportLost, AgentStarts,
         AgentEnds, AgentLost, Leave, ReopenManifest, RewriteManifest, UpdateLost, Publish, Return,
         Raise
  <2>2. CASE phase \in {"setup", "tandem"}
    <3>1. Analyse \/ Raise
      BY <1>4, <2>2 DEF Progress, StageNext, Analyse, OpenManifest, WriteManifest, SkipStage,
           StageLost, RunInProcess, RunAdvisory, RunTwin, RunChecker, ReadReport, ReadReportLost,
           AgentStarts, AgentEnds, AgentLost, Enter, ReopenManifest, RewriteManifest, UpdateLost,
           Publish, Return
    <3>2. phase' = "raised" \/ tandem = "done"
      BY <3>1 DEF Analyse, Raise
    <3> QED
      BY <1>3, <2>1, <3>2
  <2>3. CASE phase \in {"raised", "killed"}
    BY <1>4, <2>3 DEF Progress, StageNext, Analyse, OpenManifest, WriteManifest, SkipStage,
         StageLost, RunInProcess, RunAdvisory, RunTwin, RunChecker, ReadReport, ReadReportLost,
         AgentStarts, AgentEnds, AgentLost, Enter, ReopenManifest, RewriteManifest, UpdateLost,
         Publish, Return, Raise
  <2>4. CASE phase \notin {"setup", "tandem", "raised", "killed"}
    BY <1>3, <2>1, <2>4 DEF BugsFromLogs
  <2> QED
    BY <2>2, <2>3, <2>4
<1>5. CASE Kill \/ UNCHANGED vars
  BY <1>3, <1>5 DEF Kill, vars, tandemVars, BugsFromLogs
<1> QED
  BY <1>1, <1>2, <1>4, <1>5 DEF Next

\* A run that compared two logs, whichever attempts they are from, and exits
\* with zero compared logs whose replays agree as Agree says, of whatever length
\* and however far the comparator looks ahead.
THEOREM CleanExitIsSound == Spec => []CleanExitMeansAgree
<1>1. Init => BugsFromLogs
  BY DEF Init, TandemInit, BugsFromLogs
<1>2. RunInv /\ BugsFromLogs => CleanExitMeansAgree
  <2> SUFFICES ASSUME RunInv, BugsFromLogs, exit = 0, rtl.log # <<>>, iss.log # <<>>
               PROVE  Agree(rtl.log, iss.log)
    BY DEF CleanExitMeansAgree
  <2>1. phase = "returned" /\ exit = ExitCode(Verdict)
    BY DEF RunInv, Published
  <2>2. Verdict = "completed"
    BY <2>1, VerdictTypes DEF Verdict, Verdicts, ExitCode
  <2>3. bugs = {}
    BY <2>2, CleanVerdict DEF RunInv
  <2>4. Bugs(rtl.log, iss.log) = {}
    BY <2>1, <2>3 DEF BugsFromLogs
  <2>5. rtl.log \in RtlLogs /\ iss.log \in IssLogs
    BY DEF RunInv, PipelineTypeOK, TandemTypeOK, RtlTask, IssTask
  <2>6. Len(rtl.log) \in Nat /\ Len(iss.log) \in Nat
    BY <2>5, TandemAssumption
  <2> QED
    BY <2>4, <2>6, NoBugsMeansAgree
<1> QED
  BY <1>1, <1>2, RunInvInit, RunInvStep, BugsFromLogsStep, PTL DEF Spec

=============================================================================
