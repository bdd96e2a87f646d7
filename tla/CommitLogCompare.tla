-------------------------- MODULE CommitLogCompare --------------------------
(***************************************************************************)
(* compare() of AGENT_D/compare_commitlogs.py: two reader threads parse    *)
(* the RTL and the ISS commit log into bounded queues, and the main thread *)
(* takes one entry of each side at a time, checks the step numbers and the *)
(* fields, and returns a verdict or raises.                                *)
(*                                                                         *)
(* A log is a sequence of lines.  Blank lines and comments, which the      *)
(* reader skips without a trace, are left out of it.  A line is a commit   *)
(* entry, of which only the step number and what Issues sees are kept; or  *)
(* Bad, which fails to parse; or Broken, on which reading itself raises.   *)
(*                                                                         *)
(* The queue of a side is the part of sent[s] after its first head[s]      *)
(* items: the items already taken are kept as the history of the queue.    *)
(***************************************************************************)
EXTENDS Integers, Sequences

CONSTANTS
  Entries,       \* the commit entries; each has a field "step"
  Issues(_, _),  \* how many issues the field comparator reports of a pair
  Configs,       \* the configurations: max_mismatches (0: no limit; 1 with
                 \* stop_on_first), strict_steps, max_parse_errors, and how
                 \* many of the two logs lack their expected SHA-256
  MaxLen,        \* bound on the number of lines of a log
  Depth,         \* _QUEUE_DEPTH
  Bad, Broken,   \* the two kinds of line that yield no entry
  Sentinel,      \* _QUEUE_SENTINEL
  None           \* no entry, no step

Sides == {"rtl", "iss"}
Lines == Entries \cup {Bad, Broken}
Logs  == UNION {[1..n -> Lines] : n \in 0..MaxLen}
Kinds == {"HASH", "LENGTH", "SEQ_GAP", "FIELD"}

ASSUME DepthAssumption   == Depth \in Nat \ {0}
ASSUME MaxLenAssumption  == MaxLen \in Nat
ASSUME EntryAssumption   == \A e \in Entries : e.step \in Nat
ASSUME IssuesAssumption  == \A r, i \in Entries : Issues(r, i) \in Nat
ASSUME ConfigAssumption  ==
  Configs \subseteq [max : Nat, strict : BOOLEAN, maxParse : Nat, badHashes : 0..2]
ASSUME TokenAssumption   ==
  /\ {Bad, Broken, Sentinel, None} \cap (Entries \cup Nat) = {}
  /\ Bad # Broken /\ Bad # Sentinel /\ Broken # Sentinel
  /\ None # Sentinel /\ None # Bad /\ None # Broken

VARIABLES
  cfg,      \* the CompareConfig of this call
  log,      \* the two files
  pos,      \* lines read so far by a reader
  perrs,    \* parse errors a reader has met
  rpc,      \* where a reader is: "read", "end", "exited"
  sent,     \* everything a reader has put in its queue
  head,     \* how many of them the main thread has taken
  err,      \* error_box: the reader died of an exception
  mpc,      \* where the main thread is
  cur,      \* r and i: the entries of this iteration
  done,     \* rtl_done, iss_done
  last,     \* _StepValidator._last
  seen,     \* _StepValidator._seen
  results,  \* the kinds of the mismatches recorded
  exc       \* an exception is leaving compare()

reader == <<pos, perrs, rpc, sent, err>>
main   == <<head, mpc, cur, done, last, seen, results, exc>>
input  == <<cfg, log>>
vars   == <<input, reader, main>>

-----------------------------------------------------------------------------
(* The reader thread: _reader_thread over _iter_commits.                    *)

AtEnd(s) == pos[s] = Len(log[s])
Line(s)  == log[s][pos[s] + 1]

Room(s)  == Len(sent[s]) - head[s] < Depth

\* A well-formed line: _iter_commits yields it and q.put waits for room.
PutEntry(s) ==
  /\ rpc[s] = "read" /\ ~AtEnd(s) /\ Line(s) \in Entries /\ Room(s)
  /\ sent' = [sent EXCEPT ![s] = Append(@, Line(s))]
  /\ pos'  = [pos EXCEPT ![s] = @ + 1]
  /\ UNCHANGED <<perrs, rpc, err>>

\* A line that does not parse: raise if no error is tolerated, stop the
\* stream at the limit, and otherwise skip the line.
ReadBad(s) ==
  /\ rpc[s] = "read" /\ ~AtEnd(s) /\ Line(s) = Bad
  /\ pos'   = [pos EXCEPT ![s] = @ + 1]
  /\ perrs' = [perrs EXCEPT ![s] = @ + 1]
  /\ err'   = [err EXCEPT ![s] = cfg.maxParse = 0]
  /\ rpc'   = [rpc EXCEPT ![s] = IF perrs[s] + 1 >= cfg.maxParse THEN "end" ELSE "read"]
  /\ UNCHANGED sent

\* The file cannot be read any further: the exception goes into error_box.
ReadBroken(s) ==
  /\ rpc[s] = "read" /\ ~AtEnd(s) /\ Line(s) = Broken
  /\ err' = [err EXCEPT ![s] = TRUE]
  /\ rpc' = [rpc EXCEPT ![s] = "end"]
  /\ UNCHANGED <<pos, perrs, sent>>

\* Mutation: the sentinel is put after the loop instead of in a finally.
PutSentinel_NoFinally(s) ==
  /\ rpc[s] = "read" /\ AtEnd(s) /\ Room(s)
  /\ sent' = [sent EXCEPT ![s] = Append(@, Sentinel)]
  /\ rpc'  = [rpc EXCEPT ![s] = "exited"]
  /\ UNCHANGED <<pos, perrs, err>>

\* The finally clause: q.put(_QUEUE_SENTINEL), and the thread ends.
PutSentinel(s) ==
  /\ rpc[s] = "end" \/ (rpc[s] = "read" /\ AtEnd(s))
  /\ Room(s)
  /\ sent' = [sent EXCEPT ![s] = Append(@, Sentinel)]
  /\ rpc'  = [rpc EXCEPT ![s] = "exited"]
  /\ UNCHANGED <<pos, perrs, err>>

Started == mpc \notin {"preflight", "returned_early"}

Reader(s) ==
  /\ Started
  /\ PutEntry(s) \/ ReadBad(s) \/ ReadBroken(s) \/ PutSentinel(s)
  /\ UNCHANGED <<input, main>>

-----------------------------------------------------------------------------
(* The main thread.                                                         *)

Limit(rs) == cfg.max > 0 /\ Len(rs) >= cfg.max

\* Mutations: the limit is reached one mismatch early; or is not looked at
\* inside the loop.
AddUpTo_Early(rs, kind, n) ==
  LET room == IF cfg.max = 0 THEN n ELSE cfg.max - Len(rs) - 1
      k    == IF n <= room THEN n ELSE room
  IN  rs \o [j \in 1..k |-> kind]
AddUpTo_NoBreak(rs, kind, n) == rs \o [j \in 1..n |-> kind]

\* n mismatches of one kind added by a loop that stops at the limit.
AddUpTo(rs, kind, n) ==
  LET room == IF cfg.max = 0 THEN n ELSE cfg.max - Len(rs)
      k    == IF n <= room THEN n ELSE room
  IN  rs \o [j \in 1..k |-> kind]

\* The loop condition: where an iteration that has recorded rs goes next.
Loop(rs) == IF Limit(rs) THEN "drain_rtl" ELSE "get_rtl"

\* The hash checks, made before any thread is started.
Preflight ==
  /\ mpc = "preflight"
  /\ results' = AddUpTo(<<>>, "HASH", cfg.badHashes)
  /\ mpc' = IF Limit(results') THEN "returned_early" ELSE "get_rtl"
  /\ UNCHANGED <<head, cur, done, last, seen, exc>>

EndOfStream(item) == item = Sentinel

\* q.get(), which waits for an item; a side that is done is not asked again.
Get(s) ==
  /\ mpc = (IF s = "rtl" THEN "get_rtl" ELSE "get_iss")
  /\ mpc' = IF s = "rtl" THEN "get_iss" ELSE "pair"
  /\ IF done[s]
     THEN /\ cur' = [cur EXCEPT ![s] = None]
          /\ UNCHANGED <<head, done>>
     ELSE /\ head[s] < Len(sent[s])
          /\ LET item == sent[s][head[s] + 1]
             IN  /\ done' = [done EXCEPT ![s] = EndOfStream(item)]
                 /\ cur'  = [cur EXCEPT ![s] = IF EndOfStream(item) THEN None ELSE item]
          /\ head' = [head EXCEPT ![s] = @ + 1]
  /\ UNCHANGED <<last, seen, results, exc>>

\* Mutation: only one error box is looked at.
ReaderFailed_RtlOnly == err["rtl"]
ReaderFailed == \E s \in Sides : err[s]

\* A dead reader is reported as an exception, whichever entries are in hand.
RaiseReaderError ==
  /\ mpc = "pair" /\ ReaderFailed
  /\ exc' = TRUE
  /\ mpc' = "drain_rtl"
  /\ UNCHANGED <<head, cur, done, last, seen, results>>

BothDone ==
  /\ mpc = "pair" /\ ~ReaderFailed
  /\ done["rtl"] /\ done["iss"]
  /\ mpc' = "drain_rtl"
  /\ UNCHANGED <<head, cur, done, last, seen, results, exc>>

\* One log ended before the other.
LengthMismatch ==
  /\ mpc = "pair" /\ ~ReaderFailed
  /\ done["rtl"] # done["iss"]
  /\ results' = Append(results, "LENGTH")
  /\ mpc' = "drain_rtl"
  /\ UNCHANGED <<head, cur, done, last, seen, exc>>

\* Mutation: a step number that goes back is not an anomaly.
Anomalous_GapsOnly(s, e) ==
  \/ e.step \in seen[s]
  \/ last[s] # None /\ e.step > last[s] + 1

\* _StepValidator.check: a duplicate, or not the step after the last one.
Anomalous(s, e) ==
  \/ e.step \in seen[s]
  \/ last[s] # None /\ e.step # last[s] + 1

CheckStep(s) ==
  /\ mpc = (IF s = "rtl" THEN "pair" ELSE "step_iss")
  /\ s = "rtl" => ~ReaderFailed
  /\ cur["rtl"] # None /\ cur["iss"] # None
  /\ LET e   == cur[s]
         bad == Anomalous(s, e)
         rs  == IF bad /\ ~cfg.strict THEN Append(results, "SEQ_GAP") ELSE results
     IN  /\ results' = rs
         /\ exc' = (bad /\ cfg.strict)
         /\ last' = [last EXCEPT ![s] = e.step]
         /\ seen' = [seen EXCEPT ![s] = @ \cup {e.step}]
         /\ mpc' = IF exc' \/ Limit(rs) THEN "drain_rtl"
                   ELSE IF s = "rtl" THEN "step_iss" ELSE "fields"
  /\ UNCHANGED <<head, cur, done>>

CompareFields ==
  /\ mpc = "fields"
  /\ results' = AddUpTo(results, "FIELD", Issues(cur["rtl"], cur["iss"]))
  /\ mpc' = Loop(results')
  /\ UNCHANGED <<head, cur, done, last, seen, exc>>

-----------------------------------------------------------------------------
(* The finally clause of compare(): empty each queue once, then join each  *)
(* thread for at most five seconds.                                        *)

DrainPc(s) == IF s = "rtl" THEN "drain_rtl" ELSE "drain_iss"
JoinPc(s)  == IF s = "rtl" THEN "join_rtl" ELSE "join_iss"

DrainOne(s) ==
  /\ mpc = DrainPc(s) /\ head[s] < Len(sent[s])
  /\ head' = [head EXCEPT ![s] = @ + 1]
  /\ UNCHANGED <<mpc, cur, done, last, seen, results, exc>>

DrainEmpty(s) ==
  /\ mpc = DrainPc(s) /\ head[s] = Len(sent[s])
  /\ mpc' = IF s = "rtl" THEN "drain_iss" ELSE "join_rtl"
  /\ UNCHANGED <<head, cur, done, last, seen, results, exc>>

\* join returns when the thread has ended, and also when the timeout expires.
Join(s) ==
  /\ mpc = JoinPc(s)
  /\ mpc' = IF s = "rtl" THEN "join_iss" ELSE "returned"
  /\ UNCHANGED <<head, cur, done, last, seen, results, exc>>

Main ==
  /\ \/ Preflight
     \/ \E s \in Sides : Get(s) \/ CheckStep(s)
     \/ RaiseReaderError \/ BothDone \/ LengthMismatch \/ CompareFields
     \/ \E s \in Sides : DrainOne(s) \/ DrainEmpty(s) \/ Join(s)
  /\ UNCHANGED <<input, reader>>

Finished == mpc \in {"returned", "returned_early"}

\* compare() has returned: nothing is left for the main thread to do.
Idle == Finished /\ UNCHANGED vars

-----------------------------------------------------------------------------
Init ==
  /\ cfg \in Configs
  /\ log \in [Sides -> Logs]
  /\ pos   = [s \in Sides |-> 0]
  /\ perrs = [s \in Sides |-> 0]
  /\ rpc   = [s \in Sides |-> "read"]
  /\ sent  = [s \in Sides |-> <<>>]
  /\ err   = [s \in Sides |-> FALSE]
  /\ head  = [s \in Sides |-> 0]
  /\ mpc   = "preflight"
  /\ cur   = [s \in Sides |-> None]
  /\ done  = [s \in Sides |-> FALSE]
  /\ last  = [s \in Sides |-> None]
  /\ seen  = [s \in Sides |-> {}]
  /\ results = <<>>
  /\ exc   = FALSE

Next == Main \/ (\E s \in Sides : Reader(s)) \/ Idle

Spec == Init /\ [][Next]_vars

\* The operating system schedules every thread that can run.  The five-second
\* timeout makes Join always possible, so that it needs no other assumption.
Fairness == WF_vars(Main) /\ \A s \in Sides : WF_vars(Reader(s))

FairSpec == Spec /\ Fairness

-----------------------------------------------------------------------------
Passed == Finished /\ ~exc /\ results = <<>>

TypeOK ==
  /\ cfg \in Configs
  /\ log \in [Sides -> Seq(Lines)]
  /\ pos \in [Sides -> Nat]
  /\ perrs \in [Sides -> Nat]
  /\ rpc \in [Sides -> {"read", "end", "exited"}]
  /\ sent \in [Sides -> Seq(Entries \cup {Sentinel})]
  /\ err \in [Sides -> BOOLEAN]
  /\ head \in [Sides -> Nat]
  /\ mpc \in {"preflight", "get_rtl", "get_iss", "pair", "step_iss", "fields",
              "drain_rtl", "drain_iss", "join_rtl", "join_iss",
              "returned", "returned_early"}
  /\ cur \in [Sides -> Entries \cup {None}]
  /\ done \in [Sides -> BOOLEAN]
  /\ last \in [Sides -> Nat \cup {None}]
  /\ seen \in [Sides -> SUBSET Nat]
  /\ results \in Seq(Kinds)
  /\ exc \in BOOLEAN

\* The steps of a log are consecutive from its first entry on.
Consecutive(es) == \A k \in 2..Len(es) : es[k].step = es[k-1].step + 1

(* A verdict of "passed" without parse errors means the logs agree: the     *)
(* same number of lines, no issue between the entries of any line, and      *)
(* consecutive steps on both sides.  It is about the whole path of an entry *)
(* (parser, queue, both get calls, both done flags), and would break if a   *)
(* sentinel could overtake an entry or one side could slip.                 *)
PassMeansEqual ==
  (Passed /\ \A s \in Sides : perrs[s] = 0) =>
    /\ Len(log["rtl"]) = Len(log["iss"])
    /\ \A s \in Sides : /\ \A k \in 1..Len(log[s]) : log[s][k] \in Entries
                        /\ Consecutive(log[s])
    /\ \A k \in 1..Len(log["rtl"]) : Issues(log["rtl"][k], log["iss"][k]) = 0

(* A reader that died is never hidden behind a verdict drawn from the end   *)
(* of its stream: the comparison neither passes nor reports that the log    *)
(* of the dead reader ended first.  It rests on error_box being filled      *)
(* before the sentinel is queued, and on both being read in that order.     *)
DeadReaderNotEof ==
  \A s \in Sides : Finished /\ err[s] /\ done[s] => exc

(* The mismatch list respects max_mismatches, whatever mix of hash, step    *)
(* and field mismatches one iteration adds.                                 *)
WithinLimit == cfg.max > 0 => Len(results) <= cfg.max

\* What compare() has given so far.
Verdict ==
  IF ~Finished THEN [state |-> "running", results |-> <<>>]
  ELSE IF exc THEN [state |-> "raised", results |-> <<>>]
  ELSE [state |-> "result", results |-> results]

Contract == INSTANCE CommitLogContract WITH verdict <- Verdict

(* compare() with its threads implements the sequential comparison: every   *)
(* verdict it returns is the one lockstep reading of the two files gives,   *)
(* and it raises only for a refused step or a stream that failed.           *)
ContractHolds == Contract!Spec

(* compare() always returns or raises, also when a reader is stuck: no      *)
(* wait of the main thread (two gets, two joins) can be for ever.           *)
Returns == <>Finished

=============================================================================
