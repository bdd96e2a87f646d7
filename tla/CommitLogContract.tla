------------------------- MODULE CommitLogContract -------------------------
(***************************************************************************)
(* What compare() of AGENT_D/compare_commitlogs.py promises, without       *)
(* threads and queues: one step reads the two logs and gives the verdict   *)
(* that a sequential lockstep comparison would give.                       *)
(***************************************************************************)
EXTENDS Integers, Sequences

CONSTANTS Entries, Issues(_, _), Bad

VARIABLES cfg, log, verdict

\* The entries a log yields, and how its stream ends: "open" at the end of
\* the file, "stopped" at max_parse_errors, "failed" by an exception.
ReadLine(st, line) ==
  IF st.end # "open" THEN st
  ELSE IF line \in Entries THEN [st EXCEPT !.entries = Append(@, line)]
  ELSE IF line = Bad
    THEN [entries |-> st.entries,
          errs    |-> st.errs + 1,
          end     |-> IF cfg.maxParse = 0 THEN "failed"
                      ELSE IF st.errs + 1 >= cfg.maxParse THEN "stopped"
                      ELSE "open"]
  ELSE [st EXCEPT !.end = "failed"]

\* What has been read of a log after each of its lines.
Reading(s) ==
  LET read[k \in 0..Len(log[s])] ==
        IF k = 0 THEN [entries |-> <<>>, errs |-> 0, end |-> "open"]
        ELSE ReadLine(read[k-1], log[s][k])
  IN  read

Stream(s) == Reading(s)[Len(log[s])]

\* The k-th entry of a stream breaks the step sequence: a duplicate, or not
\* the successor of the entry before.
Anomaly(es, k) ==
  \/ \E j \in 1..k-1 : es[j].step = es[k].step
  \/ k > 1 /\ es[k].step # es[k-1].step + 1

Times(n, kind) == [j \in 1..n |-> kind]
Gap(es, k)     == Times(IF Anomaly(es, k) THEN 1 ELSE 0, "SEQ_GAP")

Shorter(r, i) == IF Len(r) < Len(i) THEN Len(r) ELSE Len(i)

\* The hash mismatches, and what each pair of entries adds to them.
Comparing(r, i) ==
  LET found[k \in 0..Shorter(r, i)] ==
        IF k = 0 THEN Times(cfg.badHashes, "HASH")
        ELSE found[k-1] \o Gap(r, k) \o Gap(i, k) \o Times(Issues(r[k], i[k]), "FIELD")
  IN  found

\* Everything the sequential comparison would report, without a limit.
Events ==
  LET r == Stream("rtl").entries
      i == Stream("iss").entries
  IN  Comparing(r, i)[Shorter(r, i)] \o (IF Len(r) = Len(i) THEN <<>> ELSE <<"LENGTH">>)

Reported == IF cfg.max = 0 \/ Len(Events) <= cfg.max THEN Events ELSE SubSeq(Events, 1, cfg.max)
Full     == cfg.max > 0 /\ Len(Reported) = cfg.max

\* A failure matters when the comparison gets as far as the end of that stream.
FailureReached ==
  \E s, t \in DOMAIN log :
    /\ s # t
    /\ Stream(s).end = "failed"
    /\ Len(Stream(s).entries) <= Len(Stream(t).entries)

SomeFailure == \E s \in DOMAIN log : Stream(s).end = "failed"

Result(rs) == [state |-> "result", results |-> rs]
Raised     == [state |-> "raised", results |-> <<>>]
Running    == [state |-> "running", results |-> <<>>]

StepRefused == cfg.strict /\ \E k \in DOMAIN Reported : Reported[k] = "SEQ_GAP"

\* A reader may fail before the main thread has used what it read earlier, so
\* an exception is allowed whenever a stream fails; it is the only outcome
\* when the comparison depends on what lies beyond the failure.
Allowed ==
  (IF StepRefused \/ (FailureReached /\ ~Full) THEN {} ELSE {Result(Reported)})
  \cup (IF StepRefused \/ SomeFailure THEN {Raised} ELSE {})

Decide ==
  /\ verdict = Running
  /\ verdict' \in Allowed
  /\ UNCHANGED <<cfg, log>>

Init == verdict = Running
Next == Decide
Spec == Init /\ [][Next]_<<cfg, log, verdict>>
=============================================================================
