----------------------------- MODULE TandemRun -----------------------------
(***************************************************************************)
(* One tandem simulation (SpikeISS.run_tandem of ava_patched.py): the RTL  *)
(* simulator, retried, and the instruction-set simulator run as two tasks; *)
(* their logs are compared when both have answered. A simulator may be     *)
(* missing, may be killed, and may never answer: only the caller's timeout *)
(* bounds it.                                                              *)
(***************************************************************************)
EXTENDS ResyncCompare

CONSTANTS
  RtlLogs, IssLogs,  \* commit logs the simulators may print, the empty one included
  RetryAttempts      \* RETRY_ATTEMPTS

ASSUME TandemAssumption ==
  /\ RetryAttempts \in Nat \ {0} /\ <<>> \in RtlLogs /\ <<>> \in IssLogs
  /\ \A log \in RtlLogs \cup IssLogs : log \in Seq({log[k] : k \in DOMAIN log})

VARIABLES
  rtl,       \* _simulate_rtl_with_retry: where it is, attempts made, its log
  iss,       \* _simulate_iss: where it is, its log
  tandem,    \* run_tandem itself
  bugs,      \* VerificationResult.bugs
  compared   \* whether the comparator ran

tandemVars == <<rtl, iss, tandem, bugs, compared>>

TandemInit ==
  /\ rtl = [at |-> "off", tries |-> 0, log |-> <<>>]
  /\ iss = [at |-> "off", log |-> <<>>]
  /\ tandem = "off" /\ bugs = {} /\ compared = FALSE

StartTandem ==
  /\ tandem' = "running"
  /\ rtl' = [rtl EXCEPT !.at = "running", !.tries = 1]
  /\ iss' = [iss EXCEPT !.at = "running"]
  /\ UNCHANGED <<bugs, compared>>

Running(task) == tandem = "running" /\ task.at = "running"

\* The simulator exits, whatever its exit code unless a signal ended it, or
\* its binary is missing and an empty log stands for it.
RtlAnswers ==
  /\ Running(rtl)
  /\ \E log \in RtlLogs : rtl' = [rtl EXCEPT !.at = "done", !.log = log]
  /\ UNCHANGED <<iss, tandem, bugs, compared>>

\* SimulationError: it could not be launched, or a signal ended it.
RtlFails ==
  /\ Running(rtl)
  /\ rtl' = [rtl EXCEPT !.at = IF rtl.tries < RetryAttempts THEN "sleeping" ELSE "failed"]
  /\ UNCHANGED <<iss, tandem, bugs, compared>>

RtlRetries ==
  /\ tandem = "running" /\ rtl.at = "sleeping"
  /\ rtl' = [rtl EXCEPT !.at = "running", !.tries = @ + 1]
  /\ UNCHANGED <<iss, tandem, bugs, compared>>

IssAnswers ==
  /\ Running(iss)
  /\ \E log \in IssLogs : iss' = [iss EXCEPT !.at = "done", !.log = log]
  /\ UNCHANGED <<rtl, tandem, bugs, compared>>

IssFails ==
  /\ Running(iss)
  /\ iss' = [iss EXCEPT !.at = "failed"]
  /\ UNCHANGED <<rtl, tandem, bugs, compared>>

\* gather returns when both tasks have, and raises as soon as one of them does;
\* what the other one still does is read by nobody.
Gather ==
  /\ tandem = "running"
  /\ \/ /\ rtl.at = "done" /\ iss.at = "done"
        /\ tandem' = "comparing"
     \/ /\ "failed" \in {rtl.at, iss.at}
        /\ tandem' = "failed"
  /\ UNCHANGED <<rtl, iss, bugs, compared>>

\* _compare_results: without both logs the comparison is skipped.
Compare ==
  /\ tandem = "comparing" /\ tandem' = "done"
  /\ compared' = (rtl.log # <<>> /\ iss.log # <<>>)
  /\ bugs' = IF compared' THEN Bugs(rtl.log, iss.log) ELSE {}
  /\ UNCHANGED <<rtl, iss>>

\* Mutation: the timeout bounds the first launch only.
TandemTimeout_Launch ==
  /\ tandem = "running" /\ rtl.at = "sleeping"
  /\ tandem' = "failed"
  /\ UNCHANGED <<rtl, iss, bugs, compared>>

\* _tandem_simulation's wait_for, or an error outside the simulators.
TandemTimeout ==
  /\ tandem \in {"running", "comparing"}
  /\ tandem' = "failed"
  /\ UNCHANGED <<rtl, iss, bugs, compared>>

TandemNext == \/ RtlAnswers \/ RtlFails \/ RtlRetries \/ IssAnswers \/ IssFails
              \/ Gather \/ Compare \/ TandemTimeout

\* VerificationResult.metadata: the keys run_tandem gives it.
MetadataKeys == {"rtl_instructions", "iss_instructions", "seed", "run_dir", "coverage_source"}

-----------------------------------------------------------------------------
RtlTask == [at : {"off", "running", "sleeping", "done", "failed"},
            tries : 0..RetryAttempts, log : RtlLogs \cup {<<>>}]
IssTask == [at : {"off", "running", "done", "failed"}, log : IssLogs \cup {<<>>}]

TandemTypeOK ==
  /\ rtl \in RtlTask /\ iss \in IssTask
  /\ rtl.at = "sleeping" => rtl.tries < RetryAttempts
  /\ tandem \in {"off", "running", "comparing", "done", "failed"} /\ compared \in BOOLEAN
=============================================================================
