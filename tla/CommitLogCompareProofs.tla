----------------------- MODULE CommitLogCompareProofs -----------------------
(***************************************************************************)
(* Theorems about CommitLogCompare for logs of any length, any queue       *)
(* depth, any field comparator and any set of configurations; the last of  *)
(* them is that it implements CommitLogContract.                           *)
(***************************************************************************)
EXTENDS CommitLogCompare, TLAPS, NaturalsInduction, WellFoundedInduction, SequenceTheorems

-----------------------------------------------------------------------------
(* The inductive invariant.                                                 *)

\* What a reader has put: entries only, then at most one sentinel; and, as
\* long as no line failed to parse, exactly the lines it has read.
ReaderInv(s) ==
  /\ pos[s] <= Len(log[s])
  /\ rpc[s] # "exited" =>
       \A k \in 1..Len(sent[s]) : sent[s][k] \in Entries
  /\ rpc[s] = "exited" =>
       /\ Len(sent[s]) > 0
       /\ sent[s][Len(sent[s])] = Sentinel
       /\ \A k \in 1..Len(sent[s])-1 : sent[s][k] \in Entries
  /\ perrs[s] = 0 =>
       /\ Len(sent[s]) = IF rpc[s] = "exited" THEN pos[s] + 1 ELSE pos[s]
       /\ \A k \in 1..pos[s] : sent[s][k] = log[s][k]
       /\ ~err[s] => /\ rpc[s] # "end"
                     /\ rpc[s] = "exited" => pos[s] = Len(log[s])

\* The main thread never takes more than was put, and ends a side only by
\* taking the last thing its reader puts.
QueueInv(s) ==
  /\ head[s] <= Len(sent[s])
  /\ done[s] => rpc[s] = "exited" /\ head[s] = Len(sent[s])

Held(s) ==
  /\ head[s] > 0
  /\ done[s] <=> cur[s] = None
  /\ ~done[s] => cur[s] = sent[s][head[s]]

\* The two sides move in lockstep.
LockstepInv ==
  /\ mpc \in {"preflight", "get_rtl"} =>
       head["rtl"] = head["iss"] /\ ~done["rtl"] /\ ~done["iss"]
  /\ mpc = "get_iss" =>
       head["rtl"] = head["iss"] + 1 /\ ~done["iss"] /\ Held("rtl")
  /\ mpc \in {"pair", "step_iss", "fields"} =>
       head["rtl"] = head["iss"] /\ Held("rtl") /\ Held("iss")
  /\ mpc \in {"step_iss", "fields"} => ~done["rtl"] /\ ~done["iss"]

AfterLoop == {"drain_rtl", "drain_iss", "join_rtl", "join_iss", "returned"}

\* How many entries of a side its step validator has seen, and how many
\* pairs have been compared.
Validated(s) ==
  IF \/ mpc = "get_iss" /\ s = "rtl"
     \/ mpc = "pair"
     \/ mpc = "step_iss" /\ s = "iss"
  THEN head[s] - 1 ELSE head[s]

Compared == IF mpc \in {"get_iss", "pair", "step_iss", "fields"}
            THEN head["rtl"] - 1 ELSE head["rtl"]

\* What an empty list of mismatches says while the loop runs.
CleanInv ==
  (mpc \notin AfterLoop /\ results = <<>>) =>
    /\ \A k \in 1..Compared : Issues(sent["rtl"][k], sent["iss"][k]) = 0
    /\ \A s \in Sides :
         /\ last[s] = IF Validated(s) = 0 THEN None ELSE sent[s][Validated(s)].step
         /\ \A k \in 2..Validated(s) : sent[s][k].step = sent[s][k-1].step + 1

Agreement ==
  (\A s \in Sides : perrs[s] = 0) =>
    /\ Len(log["rtl"]) = Len(log["iss"])
    /\ \A s \in Sides : /\ \A k \in 1..Len(log[s]) : log[s][k] \in Entries
                        /\ Consecutive(log[s])
    /\ \A k \in 1..Len(log["rtl"]) : Issues(log["rtl"][k], log["iss"][k]) = 0

\* What it says after the loop.
VerdictInv ==
  /\ exc => mpc \in AfterLoop
  /\ mpc \in AfterLoop =>
       /\ \A s \in Sides : err[s] /\ done[s] => exc
       /\ (results = <<>> /\ ~exc) =>
            (\A s \in Sides : rpc[s] = "exited") /\ Agreement
  /\ mpc = "returned_early" => results # <<>> /\ \A s \in Sides : ~done[s]

\* The list is full only outside the loop, and never more than full.
LimitInv ==
  /\ WithinLimit
  /\ mpc \in {"get_rtl", "get_iss", "pair", "step_iss", "fields"} => ~Limit(results)
  /\ mpc = "preflight" => results = <<>>

IInv ==
  /\ TypeOK
  /\ \A s \in Sides : ReaderInv(s) /\ QueueInv(s)
  /\ LockstepInv
  /\ CleanInv
  /\ VerdictInv
  /\ LimitInv

-----------------------------------------------------------------------------
(* The initial states.                                                      *)

LEMMA ConfigType ==
  ASSUME cfg \in Configs
  PROVE  cfg.max \in Nat /\ cfg.badHashes \in Nat
<1>1. cfg \in [max : Nat, strict : BOOLEAN, maxParse : Nat, badHashes : 0..2]
  BY ConfigAssumption
<1> QED
  BY <1>1

LEMMA LogsAreSequences == Logs \subseteq Seq(Lines)
  BY MaxLenAssumption DEF Logs, Lines

LEMMA InitIInv == Init => IInv
<1> SUFFICES ASSUME Init PROVE IInv
  OBVIOUS
<1>1. TypeOK
  <2>1. log \in [Sides -> Seq(Lines)]
    BY LogsAreSequences DEF Init
  <2>2. /\ pos \in [Sides -> Nat] /\ perrs \in [Sides -> Nat] /\ head \in [Sides -> Nat]
        /\ err \in [Sides -> BOOLEAN] /\ done \in [Sides -> BOOLEAN]
        /\ rpc \in [Sides -> {"read", "end", "exited"}]
        /\ cur \in [Sides -> Entries \cup {None}]
        /\ last \in [Sides -> Nat \cup {None}]
        /\ seen \in [Sides -> SUBSET Nat]
    BY DEF Init
  <2>3. sent \in [Sides -> Seq(Entries \cup {Sentinel})] /\ results \in Seq(Kinds)
    BY DEF Init
  <2> QED
    BY <2>1, <2>2, <2>3 DEF Init, TypeOK
<1>2. \A s \in Sides : ReaderInv(s) /\ QueueInv(s)
  <2> SUFFICES ASSUME NEW s \in Sides PROVE ReaderInv(s) /\ QueueInv(s)
    OBVIOUS
  <2> log[s] \in Seq(Lines)
    BY <1>1 DEF TypeOK
  <2> QED
    BY DEF Init, ReaderInv, QueueInv
<1>3. LockstepInv /\ CleanInv /\ VerdictInv
  BY DEF Init, LockstepInv, CleanInv, VerdictInv, Compared, Validated, AfterLoop, Sides
<1>4. LimitInv
  BY ConfigType, Len(<<>>) = 0 DEF Init, LimitInv, WithinLimit
<1> QED
  BY <1>1, <1>2, <1>3, <1>4 DEF IInv

-----------------------------------------------------------------------------
(* A reader's step.                                                         *)

\* What the main thread can see of a reader's step: the queue only grows at
\* its end, and a reader that has exited does nothing more.
ReaderGrows ==
  \A s \in Sides :
    /\ Len(sent'[s]) >= Len(sent[s])
    /\ \A k \in 1..Len(sent[s]) : sent'[s][k] = sent[s][k]
    /\ rpc[s] = "exited" => /\ rpc'[s] = "exited" /\ err'[s] = err[s]
                            /\ perrs'[s] = perrs[s] /\ sent'[s] = sent[s]

LEMMA ReaderType ==
  ASSUME IInv, NEW s \in Sides, Reader(s)
  PROVE  TypeOK'
<1> USE DEF IInv, TypeOK, Reader, input, main
<1>1. CASE PutEntry(s)
  BY <1>1 DEF PutEntry, Lines, Line, AtEnd
<1>2. CASE ReadBad(s)
  BY <1>2, ConfigAssumption DEF ReadBad
<1>3. CASE ReadBroken(s)
  BY <1>3 DEF ReadBroken
<1>4. CASE PutSentinel(s)
  BY <1>4 DEF PutSentinel
<1> QED
  BY <1>1, <1>2, <1>3, <1>4

LEMMA ReaderOwn ==
  ASSUME IInv, NEW s \in Sides, Reader(s), NEW t \in Sides
  PROVE  ReaderInv(t)'
<1> USE DEF IInv, TypeOK, Reader, input, main, ReaderInv
<1>0. CASE t # s
  <2>1. /\ pos'[t] = pos[t] /\ perrs'[t] = perrs[t] /\ rpc'[t] = rpc[t]
        /\ sent'[t] = sent[t] /\ err'[t] = err[t] /\ log' = log
    BY <1>0 DEF PutEntry, ReadBad, ReadBroken, PutSentinel
  <2> QED
    BY <2>1
<1> SUFFICES ASSUME t = s PROVE ReaderInv(s)'
  BY <1>0
<1>1. CASE PutEntry(s)
  BY <1>1 DEF PutEntry, Lines, Line, AtEnd
<1>2. CASE ReadBad(s)
  <2>1. perrs'[s] # 0 /\ pos'[s] = pos[s] + 1 /\ rpc'[s] # "exited" /\ sent' = sent /\ log' = log
    BY <1>2 DEF ReadBad
  <2>2. pos[s] + 1 <= Len(log[s])
    BY <1>2 DEF ReadBad, AtEnd
  <2> QED
    BY <1>2, <2>1, <2>2 DEF ReadBad
<1>3. CASE ReadBroken(s)
  BY <1>3 DEF ReadBroken, AtEnd
<1>4. CASE PutSentinel(s)
  BY <1>4 DEF PutSentinel, AtEnd
<1> QED
  BY <1>1, <1>2, <1>3, <1>4

LEMMA ReaderStepGrows ==
  ASSUME IInv, NEW s \in Sides, Reader(s)
  PROVE  ReaderGrows
<1> SUFFICES ASSUME NEW t \in Sides
             PROVE  /\ Len(sent'[t]) >= Len(sent[t])
                    /\ \A k \in 1..Len(sent[t]) : sent'[t][k] = sent[t][k]
                    /\ rpc[t] = "exited" =>
                         /\ rpc'[t] = "exited" /\ err'[t] = err[t]
                         /\ perrs'[t] = perrs[t] /\ sent'[t] = sent[t]
  BY DEF ReaderGrows
<1> USE DEF IInv, TypeOK, Reader
<1> sent[t] \in Seq(Entries \cup {Sentinel})
  OBVIOUS
<1>1. CASE PutEntry(s)
  BY <1>1 DEF PutEntry, Lines
<1>2. CASE ReadBad(s)
  BY <1>2 DEF ReadBad
<1>3. CASE ReadBroken(s)
  BY <1>3 DEF ReadBroken
<1>4. CASE PutSentinel(s)
  BY <1>4 DEF PutSentinel
<1> QED
  BY <1>1, <1>2, <1>3, <1>4

LEMMA ReaderStep ==
  ASSUME IInv, NEW s \in Sides, Reader(s)
  PROVE  IInv'
<1>1. TypeOK'
  BY ReaderType
<1>2. \A t \in Sides : ReaderInv(t)'
  BY ReaderOwn
<1>3. ReaderGrows
  BY ReaderStepGrows
<1>4. UNCHANGED main /\ UNCHANGED input
  BY DEF Reader
<1>4a. TypeOK /\ LockstepInv
  BY DEF IInv
<1> USE <1>3, <1>4 DEF IInv, ReaderGrows, main, input
<1>5. \A t \in Sides : QueueInv(t)'
  BY DEF TypeOK, QueueInv
<1>6. \A t \in Sides : Held(t) /\ QueueInv(t) => Held(t)'
  BY DEF TypeOK, Held, QueueInv
<1>7. LockstepInv'
  BY <1>6, "rtl" \in Sides, "iss" \in Sides DEF LockstepInv, Sides
<1>8. CleanInv'
  <2> SUFFICES ASSUME mpc \notin AfterLoop, results = <<>>
               PROVE  CleanInv'
    BY DEF CleanInv, AfterLoop
  <2>1. Compared' = Compared /\ \A t \in Sides : Validated(t)' = Validated(t)
    BY DEF Compared, Validated
  <2>2. \A t \in Sides : Validated(t) \in Int /\ Validated(t) <= Len(sent[t])
    BY DEF Validated, TypeOK, QueueInv
  <2>3. Compared \in Int /\ Compared <= Len(sent["rtl"]) /\ Compared <= Len(sent["iss"])
    BY DEF Compared, TypeOK, QueueInv, LockstepInv, Sides, AfterLoop, VerdictInv, Held
  <2>3a. \A t \in Sides : Len(sent[t]) \in Nat
    BY DEF TypeOK
  <2>4. \A t \in Sides : \A k \in Int :
          1 <= k /\ k <= Len(sent[t]) => sent'[t][k] = sent[t][k]
    BY <2>3a
  <2>5. /\ \A k \in 1..Compared : Issues(sent["rtl"][k], sent["iss"][k]) = 0
        /\ \A t \in Sides :
             /\ last[t] = IF Validated(t) = 0 THEN None ELSE sent[t][Validated(t)].step
             /\ \A k \in 2..Validated(t) : sent[t][k].step = sent[t][k-1].step + 1
    BY DEF CleanInv
  <2> HIDE <1>3, <1>4 DEF IInv, ReaderGrows, main, input
  <2>6. \A k \in 1..Compared :
          sent'["rtl"][k] = sent["rtl"][k] /\ sent'["iss"][k] = sent["iss"][k]
    BY <2>3, <2>3a, <2>4 DEF Sides
  <2>7. \A k \in 1..Compared : Issues(sent'["rtl"][k], sent'["iss"][k]) = 0
    BY <2>5, <2>6
  <2>8. ASSUME NEW t \in Sides
        PROVE  /\ last[t] = IF Validated(t) = 0 THEN None ELSE sent'[t][Validated(t)].step
               /\ \A k \in 2..Validated(t) : sent'[t][k].step = sent'[t][k-1].step + 1
    <3>0. Validated(t) >= 0
      BY <1>4a DEF TypeOK, LockstepInv, Validated, Held, Sides
    <3>1. \A k \in Int : 1 <= k /\ k <= Validated(t) => sent'[t][k] = sent[t][k]
      BY <2>2, <2>3a, <2>4
    <3>2. last[t] = IF Validated(t) = 0 THEN None ELSE sent'[t][Validated(t)].step
      BY <2>2, <2>5, <3>0, <3>1
    <3>3. ASSUME NEW k \in 2..Validated(t)
          PROVE  sent'[t][k].step = sent'[t][k-1].step + 1
      BY <2>2, <2>5, <3>1
    <3> QED
      BY <3>2, <3>3
  <2> QED
    BY <1>4, <2>1, <2>7, <2>8 DEF CleanInv, main
<1>9. VerdictInv'
  <2>1. (\A t \in Sides : rpc[t] = "exited") /\ Agreement => Agreement'
    BY DEF Agreement, Sides, Consecutive
  <2> QED
    BY <2>1 DEF VerdictInv, AfterLoop, QueueInv
<1>10. LimitInv'
  BY DEF LimitInv, WithinLimit, Limit
<1> QED
  BY <1>1, <1>2, <1>5, <1>7, <1>8, <1>9, <1>10

-----------------------------------------------------------------------------
(* The main thread's steps.  They leave the readers alone, so ReaderInv is  *)
(* kept by all of them.                                                     *)

MainFrame == UNCHANGED reader /\ UNCHANGED input

LEMMA MainKeepsReaderInv ==
  ASSUME IInv, MainFrame
  PROVE  \A s \in Sides : ReaderInv(s)'
BY DEF IInv, MainFrame, reader, input, ReaderInv

LEMMA AddUpToType ==
  ASSUME TypeOK, NEW rs \in Seq(Kinds), NEW kind \in Kinds, NEW n \in Nat,
         cfg.max = 0 \/ Len(rs) <= cfg.max
  PROVE  /\ AddUpTo(rs, kind, n) \in Seq(Kinds)
         /\ AddUpTo(rs, kind, n) = <<>> => rs = <<>> /\ (n = 0 \/ Limit(rs))
         /\ cfg.max > 0 => Len(AddUpTo(rs, kind, n)) <= cfg.max
<1>1. cfg.max \in Nat
  BY ConfigAssumption DEF TypeOK
<1> DEFINE room == IF cfg.max = 0 THEN n ELSE cfg.max - Len(rs)
           k    == IF n <= room THEN n ELSE room
           add  == [j \in 1..k |-> kind]
<1>2. /\ k \in Nat
      /\ k = 0 => n = 0 \/ Limit(rs)
      /\ cfg.max > 0 => Len(rs) + k <= cfg.max
  BY <1>1 DEF Limit
<1>3. add \in Seq(Kinds) /\ Len(add) = k
  BY <1>2
<1>4. AddUpTo(rs, kind, n) = rs \o add
  BY DEF AddUpTo
<1> HIDE DEF add, k
<1>5. rs \o add \in Seq(Kinds) /\ Len(rs \o add) = Len(rs) + k
  BY <1>2, <1>3
<1>6. rs \o add = <<>> => Len(rs) = 0 /\ k = 0
  BY <1>2, <1>5
<1> QED
  BY <1>2, <1>4, <1>5, <1>6

LEMMA PreflightStep ==
  ASSUME IInv, MainFrame, Preflight
  PROVE  IInv'
<1> USE DEF IInv, MainFrame, reader, input, Preflight
<1>0. /\ cfg.badHashes \in Nat /\ cfg.max \in Nat
      /\ <<>> \in Seq(Kinds) /\ "HASH" \in Kinds
  BY ConfigType DEF TypeOK, Kinds
<1>1. /\ results' \in Seq(Kinds)
      /\ results' = <<>> => mpc' = "get_rtl"
  <2>1. cfg.max = 0 \/ Len(<<>>) <= cfg.max
    BY <1>0
  <2>2. AddUpTo(<<>>, "HASH", cfg.badHashes) \in Seq(Kinds)
    BY <1>0, <2>1, AddUpToType
  <2> QED
    BY <1>0, <2>2 DEF Limit
<1>2. TypeOK'
  BY <1>1 DEF TypeOK
<1>3. \A s \in Sides : QueueInv(s)'
  BY DEF QueueInv
<1>4. LockstepInv'
  BY DEF LockstepInv, Sides
<1>5. CleanInv'
  <2>1. results' = <<>> => results = <<>> /\ Compared' = Compared
                           /\ \A s \in Sides : Validated(s)' = Validated(s)
    BY <1>1 DEF Compared, Validated, LimitInv
  <2> QED
    BY <2>1 DEF CleanInv, AfterLoop
<1>6. VerdictInv'
  <2>1. mpc' = "returned_early" => results' # <<>>
    BY <1>0 DEF Limit
  <2> QED
    BY <2>1 DEF VerdictInv, AfterLoop, LockstepInv, Sides
<1>7. LimitInv'
  BY <1>0, <1>1 DEF LimitInv, WithinLimit, Limit, AddUpTo
<1> QED
  BY MainKeepsReaderInv, <1>2, <1>3, <1>4, <1>5, <1>6, <1>7

LEMMA GetStep ==
  ASSUME IInv, MainFrame, NEW s \in Sides, Get(s)
  PROVE  IInv'
<1> USE DEF IInv, MainFrame, reader, input
<1> DEFINE item == sent[s][head[s] + 1]
<1>1. ~done[s]
  BY DEF Get, LockstepInv, Sides
<1>2. /\ head[s] < Len(sent[s])
      /\ done' = [done EXCEPT ![s] = item = Sentinel]
      /\ cur' = [cur EXCEPT ![s] = IF item = Sentinel THEN None ELSE item]
      /\ head' = [head EXCEPT ![s] = @ + 1]
      /\ UNCHANGED <<last, seen, results, exc>>
  BY <1>1 DEF Get, EndOfStream
<1>3. mpc' = (IF s = "rtl" THEN "get_iss" ELSE "pair") /\ mpc = (IF s = "rtl" THEN "get_rtl" ELSE "get_iss")
  BY DEF Get
<1>4. item \in Entries \cup {Sentinel} /\ head[s] + 1 \in 1..Len(sent[s])
  BY <1>2 DEF TypeOK
<1>5. item = Sentinel <=> rpc[s] = "exited" /\ head[s] + 1 = Len(sent[s])
  BY <1>4, TokenAssumption DEF ReaderInv, TypeOK
<1>6. None \notin Entries
  BY TokenAssumption
<1> HIDE DEF item
<1>7. TypeOK'
  BY <1>2, <1>3, <1>4 DEF TypeOK
<1>8. \A t \in Sides : QueueInv(t)'
  BY <1>2, <1>4, <1>5 DEF TypeOK, QueueInv
<1>9. Held(s)'
  <2>1. (done'[s] <=> item = Sentinel) /\ cur'[s] = IF item = Sentinel THEN None ELSE item
    BY <1>2 DEF TypeOK
  <2>2. head'[s] = head[s] + 1 /\ head[s] \in Nat /\ sent' = sent
    BY <1>2 DEF TypeOK
  <2>3. item = sent'[s][head'[s]]
    BY <2>2 DEF item
  <2>4. None # Sentinel /\ head'[s] > 0
    BY <2>2, TokenAssumption
  <2> QED
    BY <1>4, <1>6, <2>1, <2>3, <2>4 DEF Held
<1>10. LockstepInv'
  BY <1>2, <1>3, <1>9 DEF TypeOK, LockstepInv, Held, Sides
<1>11. CleanInv'
  <2>1. Compared' = Compared /\ \A t \in Sides : Validated(t)' = Validated(t)
    BY <1>2, <1>3 DEF Compared, Validated, TypeOK, LockstepInv, Sides
  <2>2. mpc \notin AfterLoop /\ sent' = sent /\ last' = last /\ results' = results
    BY <1>2, <1>3 DEF AfterLoop
  <2> QED
    BY <2>1, <2>2 DEF CleanInv
<1>12. VerdictInv'
  BY <1>2, <1>3 DEF VerdictInv, AfterLoop
<1>13. LimitInv'
  BY <1>2, <1>3 DEF LimitInv, WithinLimit, Limit
<1> QED
  BY MainKeepsReaderInv, <1>7, <1>8, <1>10, <1>11, <1>12, <1>13

LEMMA RaiseStep ==
  ASSUME IInv, MainFrame, RaiseReaderError
  PROVE  IInv'
<1> USE DEF IInv, MainFrame, reader, input, RaiseReaderError
<1>1. TypeOK'
  BY DEF TypeOK
<1>2. \A s \in Sides : QueueInv(s)'
  BY DEF QueueInv
<1>3. LockstepInv' /\ CleanInv' /\ VerdictInv' /\ LimitInv'
  BY DEF LockstepInv, CleanInv, VerdictInv, LimitInv, WithinLimit, AfterLoop
<1> QED
  BY MainKeepsReaderInv, <1>1, <1>2, <1>3

\* The step that matters: both sides have ended with no mismatch.
LEMMA BothDoneStep ==
  ASSUME IInv, MainFrame, BothDone
  PROVE  IInv'
<1> USE DEF IInv, MainFrame, reader, input, BothDone
<1>1. TypeOK'
  BY DEF TypeOK
<1>2. \A s \in Sides : QueueInv(s)'
  BY DEF QueueInv
<1>3. LockstepInv' /\ CleanInv' /\ LimitInv'
  BY DEF LockstepInv, CleanInv, LimitInv, WithinLimit, AfterLoop
<1>4. \A s \in Sides : rpc[s] = "exited" /\ ~err[s] /\ head[s] = Len(sent[s])
  BY DEF QueueInv, ReaderFailed, Sides
<1>5. ASSUME results = <<>>
      PROVE  Agreement
  <2> SUFFICES ASSUME \A s \in Sides : perrs[s] = 0
               PROVE  /\ Len(log["rtl"]) = Len(log["iss"])
                      /\ \A s \in Sides : /\ \A k \in 1..Len(log[s]) : log[s][k] \in Entries
                                          /\ Consecutive(log[s])
                      /\ \A k \in 1..Len(log["rtl"]) : Issues(log["rtl"][k], log["iss"][k]) = 0
    BY DEF Agreement
  <2>1. ASSUME NEW s \in Sides
        PROVE  /\ Len(log[s]) \in Nat
               /\ head[s] = Len(log[s]) + 1
               /\ \A k \in 1..Len(log[s]) : log[s][k] = sent[s][k] /\ sent[s][k] \in Entries
    <3>1. Len(log[s]) \in Nat
      BY DEF TypeOK
    <3>2. Len(sent[s]) = pos[s] + 1 /\ pos[s] = Len(log[s])
      BY <1>4 DEF ReaderInv
    <3> QED
      BY <1>4, <3>1, <3>2 DEF ReaderInv
  <2>2. head["rtl"] = head["iss"]
    BY DEF LockstepInv
  <2>3. Len(log["rtl"]) = Len(log["iss"])
    BY <2>1, <2>2 DEF Sides
  <2>4. Compared = Len(log["rtl"]) /\ \A s \in Sides : Validated(s) = Len(log[s])
    BY <2>1 DEF Compared, Validated, Sides
  <2>5. \A k \in 1..Len(log["rtl"]) : Issues(log["rtl"][k], log["iss"][k]) = 0
    BY <1>5, <2>1, <2>3, <2>4 DEF CleanInv, AfterLoop, Sides
  <2>6. \A s \in Sides : Consecutive(log[s])
    <3> SUFFICES ASSUME NEW s \in Sides, NEW k \in 2..Len(log[s])
                 PROVE  log[s][k].step = log[s][k-1].step + 1
      BY DEF Consecutive
    <3>1. sent[s][k].step = sent[s][k-1].step + 1
      BY <1>5, <2>4 DEF CleanInv, AfterLoop
    <3>2. log[s][k] = sent[s][k] /\ log[s][k-1] = sent[s][k-1]
      BY <2>1
    <3> QED
      BY <3>1, <3>2
  <2> QED
    BY <2>1, <2>3, <2>5, <2>6
<1>6. VerdictInv'
  BY <1>4, <1>5 DEF VerdictInv, AfterLoop, Agreement, Consecutive
<1> QED
  BY MainKeepsReaderInv, <1>1, <1>2, <1>3, <1>6

LEMMA LengthStep ==
  ASSUME IInv, MainFrame, LengthMismatch
  PROVE  IInv'
<1> USE DEF IInv, MainFrame, reader, input, LengthMismatch
<1>0. cfg.max \in Nat
  BY ConfigAssumption DEF TypeOK
<1>1. results' \in Seq(Kinds) /\ Len(results') = Len(results) + 1
  BY DEF TypeOK, Kinds
<1>2. TypeOK'
  BY <1>1 DEF TypeOK
<1>3. \A s \in Sides : QueueInv(s)'
  BY DEF QueueInv
<1>4. LockstepInv' /\ CleanInv'
  BY DEF LockstepInv, CleanInv, AfterLoop
<1>5. VerdictInv'
  BY <1>1, Len(<<>>) = 0 DEF VerdictInv, AfterLoop, ReaderFailed, TypeOK
<1>6. LimitInv'
  BY <1>0, <1>1 DEF LimitInv, WithinLimit, Limit, TypeOK
<1> QED
  BY MainKeepsReaderInv, <1>2, <1>3, <1>4, <1>5, <1>6

\* An entry that its validator does not refuse continues its log.
LEMMA NotAnomalous ==
  ASSUME TypeOK, NEW s \in Sides, NEW e \in Entries, ~Anomalous(s, e)
  PROVE  last[s] # None => e.step = last[s] + 1
BY DEF Anomalous

LEMMA CheckStepStep ==
  ASSUME IInv, MainFrame, NEW s \in Sides, CheckStep(s)
  PROVE  IInv'
<1> USE DEF IInv, MainFrame, reader, input
<1> DEFINE e   == cur[s]
           bad == Anomalous(s, e)
           n   == head[s]
<1>0. /\ cfg.max \in Nat /\ e \in Entries /\ e.step \in Nat
      /\ e = sent[s][n] /\ n \in Nat \ {0} /\ n <= Len(sent[s]) /\ None \notin Nat
  BY ConfigType, EntryAssumption, TokenAssumption
     DEF TypeOK, CheckStep, LockstepInv, Held, QueueInv, Sides
<1>1. /\ mpc = (IF s = "rtl" THEN "pair" ELSE "step_iss")
      /\ ~done["rtl"] /\ ~done["iss"]
      /\ results' = IF bad /\ ~cfg.strict THEN Append(results, "SEQ_GAP") ELSE results
      /\ exc' = (bad /\ cfg.strict)
      /\ last' = [last EXCEPT ![s] = e.step]
      /\ seen' = [seen EXCEPT ![s] = @ \cup {e.step}]
      /\ mpc' = IF exc' \/ Limit(results') THEN "drain_rtl"
                ELSE IF s = "rtl" THEN "step_iss" ELSE "fields"
      /\ UNCHANGED <<head, cur, done>>
  BY DEF CheckStep, LockstepInv, Held, Sides, Limit
<1> HIDE DEF e, bad, n
<1>2. results' \in Seq(Kinds) /\ Len(results') <= Len(results) + 1 /\ Len(results) \in Nat
      /\ Len(results') \in Nat
  BY <1>1 DEF TypeOK, Kinds
<1>3. results' = <<>> => results = <<>> /\ (bad => exc')
  <2>1. Append(results, "SEQ_GAP") # <<>>
    <3>1. Len(Append(results, "SEQ_GAP")) = Len(results) + 1 /\ Len(results) \in Nat
      BY DEF TypeOK
    <3> QED
      BY <3>1, Len(<<>>) = 0
  <2> QED
    BY <1>1, <2>1
<1>4. TypeOK'
  BY <1>0, <1>1, <1>2 DEF TypeOK
<1>5. \A t \in Sides : QueueInv(t)'
  BY <1>1 DEF QueueInv
<1>6. LockstepInv'
  BY <1>1 DEF LockstepInv, Held, Sides
<1>7. CleanInv'
  <2> SUFFICES ASSUME mpc' \notin AfterLoop, results' = <<>> PROVE CleanInv'
    BY DEF CleanInv
  <2>1. ~bad /\ results = <<>> /\ mpc' = IF s = "rtl" THEN "step_iss" ELSE "fields"
    BY <1>1, <1>3 DEF AfterLoop
  <2>2. /\ Compared' = Compared
        /\ Validated(s) = n - 1 /\ Validated(s)' = n
        /\ \A t \in Sides \ {s} : Validated(t)' = Validated(t)
    BY <1>0, <1>1, <2>1 DEF Compared, Validated, Sides, n
  <2>3. last'[s] = sent[s][n].step /\ \A t \in Sides \ {s} : last'[t] = last[t]
    BY <1>0, <1>1 DEF TypeOK
  <2>4. /\ last[s] = IF n - 1 = 0 THEN None ELSE sent[s][n-1].step
        /\ \A k \in 2..n-1 : sent[s][k].step = sent[s][k-1].step + 1
    BY <1>1, <2>1, <2>2 DEF CleanInv, AfterLoop
  <2>5. n > 1 => sent[s][n-1] \in Entries
    <3>1. ReaderInv(s) /\ Len(sent[s]) \in Nat
      BY DEF TypeOK
    <3> QED
      BY <1>0, <3>1 DEF ReaderInv
  <2>6. n > 1 => sent[s][n].step = sent[s][n-1].step + 1
    BY <1>0, <2>1, <2>4, <2>5, NotAnomalous, EntryAssumption DEF bad
  <2>7. \A k \in 2..n : sent[s][k].step = sent[s][k-1].step + 1
    BY <1>0, <2>4, <2>6
  <2>8. CleanInv /\ mpc \notin AfterLoop /\ sent' = sent
    BY <1>1 DEF AfterLoop
  <2>9. \A k \in 1..Compared' : Issues(sent'["rtl"][k], sent'["iss"][k]) = 0
    BY <2>1, <2>2, <2>8 DEF CleanInv
  <2>10. ASSUME NEW t \in Sides
         PROVE  /\ last'[t] = IF Validated(t)' = 0 THEN None ELSE sent'[t][Validated(t)'].step
                /\ \A k \in 2..Validated(t)' : sent'[t][k].step = sent'[t][k-1].step + 1
    <3>1. CASE t = s
      BY <1>0, <2>2, <2>3, <2>7, <2>8, <3>1
    <3>2. CASE t # s
      BY <2>1, <2>2, <2>3, <2>8, <3>2 DEF CleanInv
    <3> QED
      BY <3>1, <3>2
  <2> QED
    BY <2>9, <2>10 DEF CleanInv
<1>8. VerdictInv'
  <2>1. results' = <<>> => ~Limit(results')
    BY <1>0, Len(<<>>) = 0 DEF Limit
  <2> QED
    BY <1>1, <2>1 DEF VerdictInv, AfterLoop, Sides
<1>9. LimitInv'
  BY <1>0, <1>1, <1>2 DEF LimitInv, WithinLimit, Limit
<1> QED
  BY MainKeepsReaderInv, <1>4, <1>5, <1>6, <1>7, <1>8, <1>9

LEMMA CompareFieldsStep ==
  ASSUME IInv, MainFrame, CompareFields
  PROVE  IInv'
<1> USE DEF IInv, MainFrame, reader, input
<1> DEFINE n == head["rtl"]
           i == Issues(cur["rtl"], cur["iss"])
<1>0. /\ cfg.max \in Nat /\ "FIELD" \in Kinds /\ results \in Seq(Kinds)
      /\ n \in Nat \ {0} /\ head["iss"] = n /\ mpc = "fields"
      /\ cur["rtl"] = sent["rtl"][n] /\ cur["iss"] = sent["iss"][n]
      /\ ~done["rtl"] /\ ~done["iss"]
  BY ConfigType DEF TypeOK, Kinds, CompareFields, LockstepInv, Held, Sides
<1>1. i \in Nat
  <2>1. cur["rtl"] \in Entries /\ cur["iss"] \in Entries
    BY <1>0 DEF TypeOK, LockstepInv, Held, Sides
  <2> QED
    BY <2>1, IssuesAssumption
<1>2. /\ results' = AddUpTo(results, "FIELD", i)
      /\ mpc' = IF Limit(results') THEN "drain_rtl" ELSE "get_rtl"
      /\ UNCHANGED <<head, cur, done, last, seen, exc>>
  BY DEF CompareFields, Loop
<1>3. cfg.max = 0 \/ Len(results) <= cfg.max
  BY <1>0 DEF LimitInv, WithinLimit
<1> HIDE DEF n, i
<1>4. /\ results' \in Seq(Kinds)
      /\ results' = <<>> => results = <<>> /\ (i = 0 \/ Limit(results))
      /\ cfg.max > 0 => Len(results') <= cfg.max
  BY <1>0, <1>1, <1>2, <1>3, AddUpToType
<1>5. TypeOK'
  BY <1>2, <1>4 DEF TypeOK
<1>6. \A t \in Sides : QueueInv(t)'
  BY <1>2 DEF QueueInv
<1>7. LockstepInv'
  BY <1>0, <1>2 DEF LockstepInv
<1>8. CleanInv'
  <2> SUFFICES ASSUME mpc' \notin AfterLoop, results' = <<>> PROVE CleanInv'
    BY DEF CleanInv
  <2>1. results = <<>> /\ i = 0 /\ mpc' = "get_rtl" /\ mpc \notin AfterLoop
    BY <1>0, <1>2, <1>4 DEF LimitInv, AfterLoop
  <2>2. /\ Compared = n - 1 /\ Compared' = n
        /\ \A t \in Sides : Validated(t)' = Validated(t)
    BY <1>0, <1>2, <2>1 DEF Compared, Validated, n
  <2>3. Issues(sent["rtl"][n], sent["iss"][n]) = 0
    BY <1>0, <2>1 DEF i
  <2>4. \A k \in 1..n-1 : Issues(sent["rtl"][k], sent["iss"][k]) = 0
    BY <2>1, <2>2 DEF CleanInv
  <2>5. \A k \in 1..n : Issues(sent["rtl"][k], sent["iss"][k]) = 0
    BY <1>0, <2>3, <2>4
  <2> QED
    BY <1>2, <2>1, <2>2, <2>5 DEF CleanInv
<1>9. VerdictInv'
  BY <1>0, <1>2, <1>4, Len(<<>>) = 0 DEF VerdictInv, AfterLoop, Limit, Sides
<1>10. LimitInv'
  BY <1>2, <1>4 DEF LimitInv, WithinLimit, Limit
<1> QED
  BY MainKeepsReaderInv, <1>5, <1>6, <1>7, <1>8, <1>9, <1>10

LEMMA CleanUpStep ==
  ASSUME IInv, MainFrame, NEW s \in Sides, DrainOne(s) \/ DrainEmpty(s) \/ Join(s)
  PROVE  IInv'
<1> USE DEF IInv, MainFrame, reader, input
<1>1. /\ mpc \in AfterLoop /\ mpc' \in AfterLoop
      /\ UNCHANGED <<cur, done, last, seen, results, exc>>
  BY DEF DrainOne, DrainEmpty, Join, DrainPc, JoinPc, AfterLoop
<1>2. /\ head' \in [Sides -> Nat]
      /\ \A t \in Sides : head'[t] <= Len(sent[t]) /\ head'[t] >= head[t]
  <2>1. CASE DrainOne(s)
    BY <2>1 DEF DrainOne, TypeOK, QueueInv
  <2>2. CASE DrainEmpty(s) \/ Join(s)
    BY <2>2 DEF DrainEmpty, Join, TypeOK, QueueInv
  <2> QED
    BY <2>1, <2>2
<1>3. TypeOK'
  BY <1>1, <1>2 DEF TypeOK, AfterLoop
<1>4. \A t \in Sides : QueueInv(t)'
  BY <1>1, <1>2 DEF QueueInv, TypeOK
<1>5. LockstepInv' /\ CleanInv' /\ LimitInv'
  BY <1>1 DEF LockstepInv, CleanInv, LimitInv, WithinLimit, AfterLoop
<1>6. VerdictInv'
  BY <1>1 DEF VerdictInv, AfterLoop, Agreement, Consecutive
<1> QED
  BY MainKeepsReaderInv, <1>3, <1>4, <1>5, <1>6

LEMMA NextIInv == IInv /\ [Next]_vars => IInv'
<1> SUFFICES ASSUME IInv, [Next]_vars PROVE IInv'
  OBVIOUS
<1>1. CASE Main
  <2> MainFrame
    BY <1>1 DEF Main, MainFrame
  <2>1. \/ Preflight \/ RaiseReaderError \/ BothDone \/ LengthMismatch \/ CompareFields
        \/ \E s \in Sides : Get(s) \/ CheckStep(s)
        \/ \E s \in Sides : DrainOne(s) \/ DrainEmpty(s) \/ Join(s)
    BY <1>1 DEF Main
  <2> QED
    BY <2>1, PreflightStep, RaiseStep, BothDoneStep, LengthStep, CompareFieldsStep,
       GetStep, CheckStepStep, CleanUpStep
<1>2. ASSUME NEW s \in Sides, Reader(s) PROVE IInv'
  BY <1>2, ReaderStep
<1>3. CASE UNCHANGED vars
  <2> USE <1>3 DEF vars, input, reader, main, IInv
  <2>1. TypeOK' /\ LockstepInv' /\ LimitInv'
    BY DEF TypeOK, LockstepInv, Held, LimitInv, WithinLimit, Limit
  <2>2. \A s \in Sides : ReaderInv(s)' /\ QueueInv(s)'
    BY DEF ReaderInv, QueueInv
  <2>3. CleanInv'
    BY DEF CleanInv, Compared, Validated, AfterLoop
  <2>4. VerdictInv'
    BY DEF VerdictInv, AfterLoop, Agreement, Consecutive
  <2> QED
    BY <2>1, <2>2, <2>3, <2>4
<1> QED
  BY <1>1, <1>2, <1>3 DEF Next, Idle

THEOREM Invariance == Spec => []IInv
BY InitIInv, NextIInv, PTL DEF Spec

-----------------------------------------------------------------------------
(* The theorems.                                                            *)

(* Type correctness of the threads, the queues and the main loop.           *)
THEOREM TypeCorrect == Spec => []TypeOK
<1>1. IInv => TypeOK
  BY DEF IInv
<1> QED
  BY <1>1, Invariance, PTL

(* compare() reports "passed", with no line lost to the parser, only for    *)
(* logs that agree entry by entry.                                          *)
THEOREM PassIsSound == Spec => []PassMeansEqual
<1>1. IInv => PassMeansEqual
  BY DEF IInv, PassMeansEqual, Passed, Finished, VerdictInv, AfterLoop, Agreement
<1> QED
  BY <1>1, Invariance, PTL

(* A dead reader is never mistaken for the end of its log.                  *)
THEOREM DeadReaderRaises == Spec => []DeadReaderNotEof
<1>1. IInv => DeadReaderNotEof
  BY DEF IInv, DeadReaderNotEof, Finished, VerdictInv, AfterLoop
<1> QED
  BY <1>1, Invariance, PTL

(* max_mismatches bounds the list in every state.                           *)
THEOREM LimitRespected == Spec => []WithinLimit
<1>1. IInv => WithinLimit
  BY DEF IInv, LimitInv
<1> QED
  BY <1>1, Invariance, PTL

-----------------------------------------------------------------------------
(* The contract reads a log and compares the entries by recursive functions *)
(* on numbers.  That they exist, and what they give, is shown by induction  *)
(* over a set of numbers, which rests on its least element.                 *)

LEMMA Least ==
  ASSUME NEW S \in SUBSET Nat, S # {}
  PROVE  \E m \in S : \A n \in S : m <= n
<1>1. PICK m \in S : \A n \in S : ~(<<n, m>> \in OpToRel(<, Nat))
  BY NatLessThanWellFounded, WFMin
<1>2. \A n \in S : ~(n < m)
  BY <1>1 DEF OpToRel
<1> QED
  BY <1>2

\* Induction up to a bound, over a set of numbers.
LEMMA UpTo ==
  ASSUME NEW N \in Nat, NEW G, 0 \in G, \A k \in 1..N : k - 1 \in G => k \in G
  PROVE  \A k \in 0..N : k \in G
<1> DEFINE Not == {k \in Nat : k <= N /\ k \notin G}
<1>1. ASSUME Not # {} PROVE FALSE
  <2>1. PICK m \in Not : \A n \in Not : m <= n
    BY <1>1, Least
  <2>2. m \in 1..N /\ m - 1 \in 0..N /\ m - 1 \notin Not
    BY <2>1
  <2> QED
    BY <2>1, <2>2
<1> QED
  BY <1>1

\* A function can be iterated: g is what it gives after each of N times.
Iterates(g, N, T, a, F) ==
  g \in [0..N -> T] /\ g[0] = a /\ \A k \in 1..N : g[k] = F[<<k, g[k-1]>>]

LEMMA Iterated ==
  ASSUME NEW N \in Nat, NEW T, NEW a \in T, NEW F \in [(1..N) \X T -> T]
  PROVE  \E g : Iterates(g, N, T, a, F)
<1> DEFINE Right(g, m) == g[0] = a /\ \A k \in 1..m : g[k] = F[<<k, g[k-1]>>]
           G == {m \in 0..N : \E g \in [0..N -> T] : Right(g, m)}
<1>1. 0 \in G
  <2>1. [k \in 0..N |-> a] \in [0..N -> T] /\ Right([k \in 0..N |-> a], 0)
    OBVIOUS
  <2>2. \E g \in [0..N -> T] : Right(g, 0)
    BY <2>1
  <2> QED
    BY <2>2
<1>2. ASSUME NEW m \in 1..N, m - 1 \in G PROVE m \in G
  <2>1. PICK g \in [0..N -> T] : Right(g, m - 1)
    BY <1>2
  <2> DEFINE h == [g EXCEPT ![m] = F[<<m, g[m-1]>>]]
  <2>2. F[<<m, g[m-1]>>] \in T
    <3>1. g[m-1] \in T /\ <<m, g[m-1]>> \in (1..N) \X T
      OBVIOUS
    <3> QED
      BY <3>1
  <2>3. h \in [0..N -> T] /\ \A k \in 0..N : h[k] = IF k = m THEN F[<<m, g[m-1]>>] ELSE g[k]
    BY <2>2
  <2> HIDE DEF h
  <2>4. ASSUME NEW k \in 1..m PROVE h[k] = F[<<k, h[k-1]>>]
    <3>1. k \in 0..N /\ k - 1 \in 0..N /\ k - 1 # m
      OBVIOUS
    <3>2. h[k-1] = g[k-1]
      BY <2>3, <3>1
    <3>3. CASE k = m
      BY <2>3, <3>1, <3>2, <3>3
    <3>4. CASE k # m
      <4>1. k \in 1..m-1
        BY <3>4
      <4>2. g[k] = F[<<k, g[k-1]>>]
        BY <2>1, <4>1
      <4> QED
        BY <2>3, <3>1, <3>2, <3>4, <4>2
    <3> QED
      BY <3>3, <3>4
  <2>5. h[0] = a
    BY <2>1, <2>3
  <2>6. \E f \in [0..N -> T] : Right(f, m)
    BY <2>3, <2>4, <2>5
  <2> QED
    BY <2>6
<1> HIDE DEF G
<1>3. N \in G
  BY <1>1, <1>2, UpTo
<1>4. PICK g \in [0..N -> T] : Right(g, N)
  BY <1>3 DEF G
<1> QED
  BY <1>4 DEF Iterates

-----------------------------------------------------------------------------
(* Reading a log.                                                           *)

\* What reading gives.
Readings == [entries : Seq(Entries), errs : Nat, end : {"open", "stopped", "failed"}]
Unread   == [entries |-> <<>>, errs |-> 0, end |-> "open"]

LEMMA ReadLineType ==
  ASSUME NEW st \in Readings, NEW line
  PROVE  Contract!ReadLine(st, line) \in Readings
<1>1. line \in Entries => [st EXCEPT !.entries = Append(@, line)] \in Readings
  BY DEF Readings
<1>2. [st EXCEPT !.end = "failed"] \in Readings
  BY DEF Readings
<1>3. \A end \in {"open", "stopped", "failed"} :
        [entries |-> st.entries, errs |-> st.errs + 1, end |-> end] \in Readings
  BY DEF Readings
<1>4. \/ Contract!ReadLine(st, line) = st
      \/ line \in Entries /\ Contract!ReadLine(st, line) = [st EXCEPT !.entries = Append(@, line)]
      \/ \E end \in {"open", "stopped", "failed"} :
           Contract!ReadLine(st, line) = [entries |-> st.entries, errs |-> st.errs + 1, end |-> end]
      \/ Contract!ReadLine(st, line) = [st EXCEPT !.end = "failed"]
  BY DEF Contract!ReadLine
<1> QED
  BY <1>1, <1>2, <1>3, <1>4

LEMMA ReadingSteps ==
  ASSUME NEW s, Len(log[s]) \in Nat
  PROVE  /\ Contract!Reading(s) \in [0..Len(log[s]) -> Readings]
         /\ Contract!Reading(s)[0] = Unread
         /\ \A k \in 1..Len(log[s]) :
              Contract!Reading(s)[k] = Contract!ReadLine(Contract!Reading(s)[k-1], log[s][k])
<1> DEFINE N == Len(log[s])
           IsRead(g) == g = [k \in 0..N |-> IF k = 0 THEN Unread ELSE Contract!ReadLine(g[k-1], log[s][k])]
           F == [p \in (1..N) \X Readings |-> Contract!ReadLine(p[2], log[s][p[1]])]
<1>1. Contract!Reading(s) = CHOOSE g : IsRead(g)
  BY DEF Contract!Reading, Unread
<1>2. F \in [(1..N) \X Readings -> Readings]
  BY ReadLineType
<1>3. Unread \in Readings
  BY DEF Unread, Readings
<1>4. \A k \in 1..N, st \in Readings : F[<<k, st>>] = Contract!ReadLine(st, log[s][k])
  OBVIOUS
<1> HIDE DEF F, N
<1>0. N \in Nat
  BY DEF N
<1>5. PICK g : Iterates(g, N, Readings, Unread, F)
  BY <1>0, <1>2, <1>3, Iterated
<1>6. IsRead(g)
  <2>1. ASSUME NEW k \in 0..N
        PROVE  g[k] = IF k = 0 THEN Unread ELSE Contract!ReadLine(g[k-1], log[s][k])
    <3>1. k # 0 => k \in 1..N /\ k - 1 \in 0..N
      BY <1>0
    <3>2. k # 0 => F[<<k, g[k-1]>>] = Contract!ReadLine(g[k-1], log[s][k])
      BY <1>4, <1>5, <3>1 DEF Iterates
    <3> QED
      BY <1>5, <3>1, <3>2 DEF Iterates
  <2> QED
    BY <1>5, <2>1 DEF Iterates
<1>7. IsRead(Contract!Reading(s))
  BY <1>1, <1>6
<1> DEFINE R == Contract!Reading(s)
<1> HIDE DEF R
<1>8. /\ R = [k \in 0..N |-> R[k]]
      /\ \A k \in 0..N : R[k] = IF k = 0 THEN Unread ELSE Contract!ReadLine(R[k-1], log[s][k])
  BY <1>7 DEF R
<1> DEFINE G == {k \in 0..N : R[k] \in Readings}
<1>9. 0 \in G
  BY <1>3, <1>8 DEF N
<1>10. ASSUME NEW k \in 1..N, k - 1 \in G PROVE k \in G
  <2>1. k \in 0..N /\ k # 0
    BY <1>0
  <2>2. R[k] = Contract!ReadLine(R[k-1], log[s][k])
    BY <1>8, <2>1
  <2> QED
    BY <1>10, <2>1, <2>2, ReadLineType
<1> HIDE DEF G
<1>11. \A k \in 0..N : k \in G
  BY <1>0, <1>9, <1>10, UpTo
<1>12. R \in [0..N -> Readings]
  BY <1>8, <1>11 DEF G
<1>13. R[0] = Unread /\ \A k \in 1..N : R[k] = Contract!ReadLine(R[k-1], log[s][k])
  BY <1>0, <1>8
<1> QED
  BY <1>12, <1>13 DEF N, R

\* a is what b begins with.
Begins(a, b) == Len(a) <= Len(b) /\ \A k \in 1..Len(a) : b[k] = a[k]

LEMMA BeginsTransitive ==
  ASSUME NEW S, NEW a \in Seq(S), NEW b \in Seq(S), NEW c \in Seq(S), Begins(a, b), Begins(b, c)
  PROVE  Begins(a, c)
<1>1. Len(a) \in Nat /\ Len(b) \in Nat /\ Len(c) \in Nat
  OBVIOUS
<1>2. \A k \in 1..Len(a) : k \in 1..Len(b)
  BY <1>1 DEF Begins
<1> QED
  BY <1>1, <1>2 DEF Begins

LEMMA BeginsConcat ==
  ASSUME NEW S, NEW a \in Seq(S), NEW b \in Seq(S)
  PROVE  Begins(a, a \o b) /\ Begins(a, a)
BY ConcatProperties DEF Begins

LEMMA ReadLineGrows ==
  ASSUME NEW st \in Readings, NEW line
  PROVE  LET next == Contract!ReadLine(st, line)
         IN  /\ Begins(st.entries, next.entries)
             /\ st.end # "open" => next = st
<1> st.entries \in Seq(Entries)
  BY DEF Readings
<1>1. CASE st.end # "open"
  BY <1>1 DEF Contract!ReadLine, Begins
<1>2. CASE st.end = "open" /\ line \in Entries
  <2>1. Contract!ReadLine(st, line).entries = Append(st.entries, line)
    BY <1>2 DEF Contract!ReadLine, Readings
  <2> QED
    BY <1>2, <2>1 DEF Begins
<1>3. CASE st.end = "open" /\ line \notin Entries
  <2>1. Contract!ReadLine(st, line).entries = st.entries
    BY <1>3 DEF Contract!ReadLine, Readings
  <2> QED
    BY <1>3, <2>1 DEF Begins
<1> QED
  BY <1>1, <1>2, <1>3

\* A reading only grows, and stays as it is once the stream has ended.
LEMMA ReadingGrows ==
  ASSUME NEW s, Len(log[s]) \in Nat, NEW j \in 0..Len(log[s])
  PROVE  \A k \in 0..Len(log[s]) : j <= k =>
           LET then == Contract!Reading(s)[j]
               now  == Contract!Reading(s)[k]
           IN  /\ Begins(then.entries, now.entries)
               /\ then.end # "open" => now = then
<1> DEFINE N == Len(log[s])
           R == Contract!Reading(s)
           Grown(k) == /\ Begins(R[j].entries, R[k].entries)
                       /\ R[j].end # "open" => R[k] = R[j]
           G == {k \in 0..N : j <= k => Grown(k)}
<1>1. R \in [0..N -> Readings] /\ \A k \in 1..N : R[k] = Contract!ReadLine(R[k-1], log[s][k])
  BY ReadingSteps
<1>2. N \in Nat /\ j \in 0..N
  OBVIOUS
<1> HIDE DEF N, R
<1>3. \A k \in 0..N : R[k] \in Readings /\ R[k].entries \in Seq(Entries)
  BY <1>1 DEF Readings
<1>4. Grown(j)
  BY <1>2, <1>3 DEF Begins
<1>5. 0 \in G
  <2>1. j <= 0 => j = 0
    BY <1>2
  <2> QED
    BY <1>2, <1>4, <2>1
<1>6. ASSUME NEW k \in 1..N, k - 1 \in G PROVE k \in G
  <2> SUFFICES ASSUME j <= k PROVE Grown(k)
    BY <1>2
  <2>1. CASE j = k
    BY <1>4, <2>1
  <2>2. CASE j # k
    <3>1. k \in 0..N /\ k - 1 \in 0..N /\ j <= k - 1
      BY <1>2, <2>2
    <3>2. Grown(k - 1)
      BY <1>6, <3>1
    <3>3. /\ Begins(R[k-1].entries, R[k].entries)
          /\ R[k-1].end # "open" => R[k] = R[k-1]
      BY <1>1, <1>3, <3>1, ReadLineGrows
    <3>4. Begins(R[j].entries, R[k].entries)
      BY <1>2, <1>3, <3>1, <3>2, <3>3, BeginsTransitive
    <3> QED
      BY <3>2, <3>3, <3>4
  <2> QED
    BY <2>1, <2>2
<1> HIDE DEF G
<1>7. \A k \in 0..N : k \in G
  BY <1>2, <1>5, <1>6, UpTo
<1>8. \A k \in 0..N : j <= k => Grown(k)
  BY <1>7 DEF G
<1> QED
  BY <1>8 DEF N, R

LEMMA SameReading ==
  ASSUME UNCHANGED input
  PROVE  \A s : Contract!Reading(s)' = Contract!Reading(s)
BY DEF input, Contract!Reading, Contract!ReadLine

Read(s) == Contract!Reading(s)[pos[s]]

\* What a reader has put is what has been read, then the sentinel; and once it
\* reads no more, that is all the contract reads of the log.
ReadInv(s) ==
  /\ Read(s).errs = perrs[s]
  /\ Len(sent[s]) = Len(Read(s).entries) + (IF rpc[s] = "exited" THEN 1 ELSE 0)
  /\ \A k \in 1..Len(Read(s).entries) : sent[s][k] = Read(s).entries[k]
  /\ rpc[s] = "read" => Read(s).end = "open" /\ ~err[s]
  /\ rpc[s] # "read" => /\ Contract!Stream(s).entries = Read(s).entries
                        /\ err[s] <=> Contract!Stream(s).end = "failed"

LEMMA ReadInit == Init => \A s \in Sides : ReadInv(s)
<1> SUFFICES ASSUME Init, NEW s \in Sides PROVE ReadInv(s)
  OBVIOUS
<1>1. log[s] \in Seq(Lines)
  BY LogsAreSequences DEF Init
<1>2. Contract!Reading(s)[0] = Unread
  BY <1>1, ReadingSteps
<1>3. pos[s] = 0 /\ rpc[s] = "read" /\ ~err[s] /\ perrs[s] = 0 /\ sent[s] = <<>>
  BY DEF Init
<1> QED
  BY <1>2, <1>3 DEF ReadInv, Read, Unread

LEMMA ReadStep ==
  ASSUME IInv, NEW s \in Sides, Reader(s), ReadInv(s)
  PROVE  ReadInv(s)'
<1> DEFINE N == Len(log[s])
           R == Contract!Reading(s)
           p == pos[s]
<1>1. /\ log[s] \in Seq(Lines) /\ p \in 0..N /\ cfg.maxParse \in Nat /\ N \in Nat
      /\ sent[s] \in Seq(Entries \cup {Sentinel})
  <2>1. cfg.maxParse \in Nat
    BY ConfigAssumption DEF IInv, TypeOK
  <2> QED
    BY <2>1 DEF IInv, TypeOK, ReaderInv
<1>2. /\ R \in [0..N -> Readings]
      /\ \A k \in 1..N : R[k] = Contract!ReadLine(R[k-1], log[s][k])
  BY <1>1, ReadingSteps
<1>3. \A k \in 0..N : p <= k /\ R[p].end # "open" => R[N] = R[p]
  BY <1>1, ReadingGrows
<1>4. R' = R /\ log' = log
  BY SameReading DEF Reader, input
<1>5. R[p] \in Readings /\ R[p].entries \in Seq(Entries)
  BY <1>1, <1>2 DEF Readings
<1>6. pos[s] = p /\ Read(s) = R[p] /\ Contract!Stream(s) = R[N] /\ Contract!Stream(s)' = R[N]
  BY <1>4 DEF Read, Contract!Stream
<1>7. ASSUME p < N, pos'[s] = p + 1
      PROVE  /\ p + 1 \in 1..N /\ Line(s) = log[s][p+1]
             /\ Read(s)' = R[p+1] /\ R[p+1] = Contract!ReadLine(R[p], Line(s))
             /\ R[p+1].end # "open" => R[N] = R[p+1]
  <2>1. p + 1 \in 1..N /\ p + 1 \in 0..N /\ (p + 1) - 1 = p
    BY <1>1, <1>7
  <2>2. R[p+1].end # "open" => R[N] = R[p+1]
    BY <1>1, <2>1, ReadingGrows
  <2> QED
    BY <1>2, <1>4, <1>7, <2>1, <2>2 DEF Read, Line
<1>8. /\ pos \in [Sides -> Nat] /\ perrs \in [Sides -> Nat] /\ err \in [Sides -> BOOLEAN]
      /\ rpc \in [Sides -> {"read", "end", "exited"}] /\ DOMAIN sent = Sides
  BY DEF IInv, TypeOK
<1> HIDE DEF N, R, p
<1>9. CASE PutEntry(s)
  <2>1. /\ p < N /\ pos'[s] = p + 1 /\ rpc[s] = "read" /\ rpc' = rpc /\ err' = err /\ perrs' = perrs
        /\ Line(s) \in Entries /\ sent'[s] = Append(sent[s], Line(s))
    BY <1>1, <1>6, <1>8, <1>9 DEF PutEntry, AtEnd, N
  <2>2. /\ R[p].end = "open" /\ R[p].errs = perrs[s]
        /\ Len(sent[s]) = Len(R[p].entries)
        /\ \A k \in 1..Len(R[p].entries) : sent[s][k] = R[p].entries[k]
    BY <1>6, <2>1 DEF ReadInv
  <2>3. R[p+1] = [R[p] EXCEPT !.entries = Append(@, Line(s))]
    BY <1>7, <2>1, <2>2 DEF Contract!ReadLine
  <2>4. R[p+1].entries = Append(R[p].entries, Line(s)) /\ R[p+1].end = "open" /\ R[p+1].errs = perrs[s]
    BY <1>5, <2>2, <2>3 DEF Readings
  <2>5. /\ Len(sent'[s]) = Len(R[p+1].entries)
        /\ \A k \in 1..Len(R[p+1].entries) : sent'[s][k] = R[p+1].entries[k]
    BY <1>1, <1>5, <2>1, <2>2, <2>4
  <2>5a. Len(R[p+1].entries) \in Nat
    BY <1>5, <2>1, <2>4
  <2>6. Read(s)' = R[p+1]
    BY <1>7, <2>1
  <2>7. rpc'[s] = "read" /\ ~err'[s] /\ perrs'[s] = perrs[s]
    BY <2>1 DEF ReadInv
  <2> QED
    BY <2>4, <2>5, <2>5a, <2>6, <2>7 DEF ReadInv
<1>10. CASE ReadBad(s)
  <2>1. /\ p < N /\ pos'[s] = p + 1 /\ rpc[s] = "read" /\ sent' = sent
        /\ Line(s) = Bad /\ perrs'[s] = perrs[s] + 1
        /\ err'[s] = (cfg.maxParse = 0)
        /\ rpc'[s] = IF perrs[s] + 1 >= cfg.maxParse THEN "end" ELSE "read"
    BY <1>1, <1>6, <1>8, <1>10 DEF ReadBad, AtEnd, N
  <2>2. /\ R[p].end = "open" /\ R[p].errs = perrs[s]
        /\ Len(sent[s]) = Len(R[p].entries)
        /\ \A k \in 1..Len(R[p].entries) : sent[s][k] = R[p].entries[k]
    BY <1>6, <2>1 DEF ReadInv
  <2>3. Bad \notin Entries
    BY TokenAssumption
  <2>4. /\ R[p+1].entries = R[p].entries /\ R[p+1].errs = perrs[s] + 1
        /\ R[p+1].end = IF cfg.maxParse = 0 THEN "failed"
                        ELSE IF perrs[s] + 1 >= cfg.maxParse THEN "stopped" ELSE "open"
    BY <1>7, <2>1, <2>2, <2>3 DEF Contract!ReadLine
  <2>5. Read(s)' = R[p+1] /\ (R[p+1].end # "open" => R[N] = R[p+1])
    BY <1>7, <2>1
  <2>6. perrs[s] \in Nat
    BY <1>8
  <2>6a. cfg.maxParse # 0 => ~err'[s]
    BY <2>1
  <2>6b. cfg.maxParse = 0 => err'[s]
    BY <2>1
  <2>7. rpc'[s] = "read" => R[p+1].end = "open" /\ ~err'[s]
    BY <1>1, <2>1, <2>4, <2>6, <2>6a
  <2>8. rpc'[s] # "read" => R[p+1].end # "open" /\ (err'[s] <=> R[p+1].end = "failed")
    BY <1>1, <2>1, <2>4, <2>6, <2>6a, <2>6b
  <2>9. rpc'[s] # "exited"
    BY <2>1
  <2> QED
    BY <1>6, <2>1, <2>2, <2>4, <2>5, <2>7, <2>8, <2>9 DEF ReadInv
<1>11. CASE ReadBroken(s)
  <2>1. /\ p < N /\ pos' = pos /\ rpc[s] = "read" /\ rpc'[s] = "end" /\ sent' = sent
        /\ Line(s) = Broken /\ perrs' = perrs /\ err'[s]
    BY <1>1, <1>6, <1>8, <1>11 DEF ReadBroken, AtEnd, N
  <2>2. /\ R[p].end = "open" /\ R[p].errs = perrs[s]
        /\ Len(sent[s]) = Len(R[p].entries)
        /\ \A k \in 1..Len(R[p].entries) : sent[s][k] = R[p].entries[k]
    BY <1>6, <2>1 DEF ReadInv
  <2>3. Broken \notin Entries /\ Broken # Bad
    BY TokenAssumption
  <2>4. p + 1 \in 0..N /\ p + 1 \in 1..N /\ (p + 1) - 1 = p /\ Line(s) = log[s][p+1]
    BY <1>1, <1>6, <2>1 DEF Line
  <2>5. R[p+1] = [R[p] EXCEPT !.end = "failed"]
    BY <1>2, <2>1, <2>2, <2>3, <2>4 DEF Contract!ReadLine
  <2>6. R[p+1].entries = R[p].entries /\ R[p+1].end = "failed"
    BY <1>5, <2>5 DEF Readings
  <2>7. R[N] = R[p+1]
    BY <1>1, <2>4, <2>6, ReadingGrows DEF R, N
  <2>8. Read(s)' = R[p]
    BY <1>4, <1>6, <2>1 DEF Read, R
  <2> QED
    BY <1>6, <2>1, <2>2, <2>6, <2>7, <2>8 DEF ReadInv
<1>12. CASE PutSentinel(s)
  <2>1. /\ pos' = pos /\ rpc[s] # "exited" /\ rpc'[s] = "exited" /\ perrs' = perrs /\ err' = err
        /\ rpc[s] = "read" => p = N
        /\ sent'[s] = Append(sent[s], Sentinel)
    BY <1>6, <1>8, <1>12 DEF PutSentinel, AtEnd, N
  <2>2. /\ R[p].errs = perrs[s]
        /\ Len(sent[s]) = Len(R[p].entries)
        /\ \A k \in 1..Len(R[p].entries) : sent[s][k] = R[p].entries[k]
    BY <1>6, <2>1 DEF ReadInv
  <2>3. R[N].entries = R[p].entries /\ (err[s] <=> R[N].end = "failed")
    BY <1>6, <2>1 DEF ReadInv
  <2>4. /\ Len(sent'[s]) = Len(R[p].entries) + 1
        /\ \A k \in 1..Len(R[p].entries) : sent'[s][k] = R[p].entries[k]
    BY <1>1, <1>5, <2>1, <2>2
  <2>5. Read(s)' = R[p]
    BY <1>4, <1>6, <2>1 DEF Read, R
  <2> QED
    BY <1>6, <2>1, <2>2, <2>3, <2>4, <2>5 DEF ReadInv
<1> QED
  BY <1>9, <1>10, <1>11, <1>12 DEF Reader

LEMMA ReadInvStep ==
  ASSUME IInv, \A s \in Sides : ReadInv(s), [Next]_vars
  PROVE  \A s \in Sides : ReadInv(s)'
<1> SUFFICES ASSUME NEW t \in Sides PROVE ReadInv(t)'
  OBVIOUS
<1>1. ASSUME UNCHANGED input, pos'[t] = pos[t], perrs'[t] = perrs[t], rpc'[t] = rpc[t],
             sent'[t] = sent[t], err'[t] = err[t]
      PROVE  ReadInv(t)'
  <2>1. Contract!Reading(t)' = Contract!Reading(t) /\ log' = log
    BY <1>1, SameReading DEF input
  <2> QED
    BY <1>1, <2>1 DEF ReadInv, Read, Contract!Stream
<1>2. CASE UNCHANGED <<input, reader>>
  BY <1>1, <1>2 DEF reader
<1>3. ASSUME NEW s \in Sides, Reader(s) PROVE ReadInv(t)'
  <2>1. CASE t = s
    BY <1>3, <2>1, ReadStep
  <2>2. CASE t # s
    <3>1. /\ pos'[t] = pos[t] /\ perrs'[t] = perrs[t] /\ rpc'[t] = rpc[t]
          /\ sent'[t] = sent[t] /\ err'[t] = err[t]
      BY <1>3, <2>2 DEF IInv, TypeOK, Reader, PutEntry, ReadBad, ReadBroken, PutSentinel
    <3> QED
      BY <1>1, <1>3, <3>1 DEF Reader
  <2> QED
    BY <2>1, <2>2
<1> QED
  BY <1>2, <1>3 DEF Next, Main, Idle, vars

\* What the main thread can take is what the contract reads.
Es(s) == Contract!Stream(s).entries

LEMMA Taken ==
  ASSUME IInv, NEW s \in Sides, ReadInv(s)
  PROVE  /\ Contract!Stream(s) \in Readings /\ Es(s) \in Seq(Entries)
         /\ \A k \in 1..Len(sent[s]) : sent[s][k] \in Entries =>
              k <= Len(Es(s)) /\ sent[s][k] = Es(s)[k]
         /\ rpc[s] = "exited" => Len(sent[s]) = Len(Es(s)) + 1
         /\ rpc[s] = "exited" /\ ~err[s] => Contract!Stream(s).end # "failed"
         /\ err[s] => Contract!Stream(s).end = "failed"
<1> DEFINE N == Len(log[s])
           R == Contract!Reading(s)
           p == pos[s]
<1>1. log[s] \in Seq(Lines) /\ N \in Nat /\ p \in 0..N /\ N \in 0..N /\ p <= N
  BY DEF IInv, TypeOK, ReaderInv
<1>2. R \in [0..N -> Readings]
  BY <1>1, ReadingSteps
<1>3. Begins(R[p].entries, R[N].entries)
  BY <1>1, ReadingGrows
<1>4. Contract!Stream(s) = R[N] /\ Read(s) = R[p]
  BY DEF Contract!Stream, Read
<1>5. sent[s] \in Seq(Entries \cup {Sentinel}) /\ Sentinel \notin Entries
  BY TokenAssumption DEF IInv, TypeOK
<1> HIDE DEF N, R, p
<1>6. /\ R[N] \in Readings /\ R[N].entries \in Seq(Entries) /\ R[p].entries \in Seq(Entries)
  BY <1>1, <1>2 DEF Readings
<1>7. ASSUME NEW k \in 1..Len(sent[s]), sent[s][k] \in Entries
      PROVE  k <= Len(R[N].entries) /\ sent[s][k] = R[N].entries[k]
  <2>1. k \in 1..Len(R[p].entries)
    <3>1. rpc[s] = "exited" => sent[s][Len(sent[s])] = Sentinel
      BY DEF IInv, ReaderInv
    <3>2. rpc[s] = "exited" => k # Len(sent[s])
      BY <1>5, <1>7, <3>1
    <3>3. Len(sent[s]) = Len(R[p].entries) + (IF rpc[s] = "exited" THEN 1 ELSE 0)
      BY <1>4 DEF ReadInv
    <3>4. Len(sent[s]) \in Nat /\ Len(R[p].entries) \in Nat
      BY <1>5, <1>6
    <3> DEFINE l == Len(sent[s])
               m == Len(R[p].entries)
    <3>5. k \in 1..l /\ l \in Nat /\ m \in Nat
      BY <3>4
    <3>6. l = m \/ (l = m + 1 /\ k # l)
      <4>1. CASE rpc[s] = "exited"
        BY <3>2, <3>3, <4>1
      <4>2. CASE rpc[s] # "exited"
        BY <3>3, <3>5, <4>2
      <4> QED
        BY <4>1, <4>2
    <3> HIDE DEF l, m
    <3>7. k \in 1..m
      BY <3>5, <3>6
    <3> QED
      BY <3>7 DEF m
  <2>2. sent[s][k] = R[p].entries[k]
    BY <1>4, <2>1 DEF ReadInv
  <2>3. Len(R[N].entries) \in Nat /\ Len(R[p].entries) \in Nat
    BY <1>6
  <2> QED
    BY <1>3, <2>1, <2>2, <2>3 DEF Begins
<1>8. rpc[s] = "exited" => Len(sent[s]) = Len(R[N].entries) + 1
  BY <1>4 DEF ReadInv
<1>9. err[s] => rpc[s] # "read"
  BY DEF ReadInv
<1>10. rpc[s] # "read" => (err[s] <=> R[N].end = "failed")
  BY <1>4 DEF ReadInv
<1> QED
  BY <1>4, <1>6, <1>7, <1>8, <1>9, <1>10 DEF Es

-----------------------------------------------------------------------------
(* Comparing the entries.                                                   *)

LEMMA TimesType ==
  ASSUME NEW n \in Nat, NEW kind \in Kinds
  PROVE  Contract!Times(n, kind) \in Seq(Kinds) /\ Len(Contract!Times(n, kind)) = n
         /\ \A k \in 1..n : Contract!Times(n, kind)[k] = kind
BY DEF Contract!Times

LEMMA GapType ==
  ASSUME NEW es, NEW k
  PROVE  Contract!Gap(es, k) \in Seq(Kinds)
BY TimesType, "SEQ_GAP" \in Kinds DEF Contract!Gap, Kinds

\* A pair of entries adds to what was found before it.
Pair(found, r, i, k) ==
  found \o Contract!Gap(r, k) \o Contract!Gap(i, k) \o Contract!Times(Issues(r[k], i[k]), "FIELD")

LEMMA PairType ==
  ASSUME NEW found \in Seq(Kinds), NEW r \in Seq(Entries), NEW i \in Seq(Entries),
         NEW k, k \in 1..Len(r), k \in 1..Len(i)
  PROVE  /\ found \o Contract!Gap(r, k) \in Seq(Kinds)
         /\ found \o Contract!Gap(r, k) \o Contract!Gap(i, k) \in Seq(Kinds)
         /\ Pair(found, r, i, k) \in Seq(Kinds)
         /\ Begins(found, found \o Contract!Gap(r, k))
         /\ Begins(found \o Contract!Gap(r, k), found \o Contract!Gap(r, k) \o Contract!Gap(i, k))
         /\ Begins(found \o Contract!Gap(r, k) \o Contract!Gap(i, k), Pair(found, r, i, k))
         /\ Begins(found, Pair(found, r, i, k))
<1> DEFINE a == found \o Contract!Gap(r, k)
           b == a \o Contract!Gap(i, k)
           c == b \o Contract!Times(Issues(r[k], i[k]), "FIELD")
<1>1. Contract!Times(Issues(r[k], i[k]), "FIELD") \in Seq(Kinds)
  <2>1. r[k] \in Entries /\ i[k] \in Entries
    OBVIOUS
  <2> QED
    BY <2>1, IssuesAssumption, TimesType DEF Kinds
<1>2. Contract!Gap(r, k) \in Seq(Kinds) /\ Contract!Gap(i, k) \in Seq(Kinds)
  BY GapType
<1>3. a \in Seq(Kinds) /\ Begins(found, a)
  BY <1>2, BeginsConcat
<1> HIDE DEF a
<1>4. b \in Seq(Kinds) /\ Begins(a, b)
  BY <1>2, <1>3, BeginsConcat
<1> HIDE DEF b
<1>5. c \in Seq(Kinds) /\ Begins(b, c)
  BY <1>1, <1>4, BeginsConcat
<1> HIDE DEF c
<1>6. Begins(found, c)
  BY <1>3, <1>4, <1>5, BeginsTransitive
<1> QED
  BY <1>3, <1>4, <1>5, <1>6 DEF Pair, a, b, c

LEMMA ShorterType ==
  ASSUME NEW r \in Seq(Entries), NEW i \in Seq(Entries)
  PROVE  /\ Contract!Shorter(r, i) \in Nat
         /\ Contract!Shorter(r, i) <= Len(r) /\ Contract!Shorter(r, i) <= Len(i)
         /\ Contract!Shorter(r, i) = Len(r) \/ Contract!Shorter(r, i) = Len(i)
BY DEF Contract!Shorter

LEMMA ComparingSteps ==
  ASSUME cfg \in Configs, NEW r \in Seq(Entries), NEW i \in Seq(Entries)
  PROVE  /\ Contract!Comparing(r, i) \in [0..Contract!Shorter(r, i) -> Seq(Kinds)]
         /\ Contract!Comparing(r, i)[0] = Contract!Times(cfg.badHashes, "HASH")
         /\ \A k \in 1..Contract!Shorter(r, i) :
              Contract!Comparing(r, i)[k] = Pair(Contract!Comparing(r, i)[k-1], r, i, k)
<1> DEFINE N == Contract!Shorter(r, i)
           first == Contract!Times(cfg.badHashes, "HASH")
           IsFound(g) == g = [k \in 0..N |-> IF k = 0 THEN first ELSE Pair(g[k-1], r, i, k)]
           F == [p \in (1..N) \X Seq(Kinds) |-> Pair(p[2], r, i, p[1])]
           R == Contract!Comparing(r, i)
<1>0. N \in Nat /\ N <= Len(r) /\ N <= Len(i)
  BY ShorterType
<1>1. R = CHOOSE g : IsFound(g)
  BY DEF Contract!Comparing, Pair
<1>2. \A k \in 1..N, found \in Seq(Kinds) : Pair(found, r, i, k) \in Seq(Kinds)
  <2> SUFFICES ASSUME NEW k \in 1..N, NEW found \in Seq(Kinds) PROVE Pair(found, r, i, k) \in Seq(Kinds)
    OBVIOUS
  <2>1. k \in 1..Len(r) /\ k \in 1..Len(i)
    BY <1>0
  <2> QED
    BY <2>1, PairType
<1>3. F \in [(1..N) \X Seq(Kinds) -> Seq(Kinds)]
  BY <1>2
<1>4. first \in Seq(Kinds)
  BY ConfigType, TimesType DEF Kinds
<1>5. \A k \in 1..N, st \in Seq(Kinds) : F[<<k, st>>] = Pair(st, r, i, k)
  OBVIOUS
<1> HIDE DEF F, N, R, first
<1>6. PICK g : Iterates(g, N, Seq(Kinds), first, F)
  BY <1>0, <1>3, <1>4, Iterated
<1>7. IsFound(g)
  <2>1. ASSUME NEW k \in 0..N
        PROVE  g[k] = IF k = 0 THEN first ELSE Pair(g[k-1], r, i, k)
    <3>1. k # 0 => k \in 1..N /\ k - 1 \in 0..N
      BY <1>0
    <3>2. k # 0 => F[<<k, g[k-1]>>] = Pair(g[k-1], r, i, k)
      BY <1>5, <1>6, <3>1 DEF Iterates
    <3> QED
      BY <1>6, <3>1, <3>2 DEF Iterates
  <2> QED
    BY <1>6, <2>1 DEF Iterates
<1>8. IsFound(R)
  BY <1>1, <1>7
<1>9. /\ R = [k \in 0..N |-> R[k]]
      /\ \A k \in 0..N : R[k] = IF k = 0 THEN first ELSE Pair(R[k-1], r, i, k)
  BY <1>8
<1> DEFINE G == {k \in 0..N : R[k] \in Seq(Kinds)}
<1>10. 0 \in G
  <2>1. 0 \in 0..N
    BY <1>0
  <2>2. R[0] = first
    BY <1>9, <2>1
  <2> QED
    BY <1>4, <2>1, <2>2
<1>11. ASSUME NEW k \in 1..N, k - 1 \in G PROVE k \in G
  <2>1. k \in 0..N /\ k # 0
    BY <1>0
  <2>2. R[k] = Pair(R[k-1], r, i, k)
    BY <1>9, <2>1
  <2> QED
    BY <1>2, <1>11, <2>1, <2>2
<1> HIDE DEF G
<1>12. \A k \in 0..N : k \in G
  BY <1>0, <1>10, <1>11, UpTo
<1>13. R \in [0..N -> Seq(Kinds)]
  BY <1>9, <1>12 DEF G
<1>14. R[0] = first /\ \A k \in 1..N : R[k] = Pair(R[k-1], r, i, k)
  BY <1>0, <1>9
<1> QED
  BY <1>13, <1>14 DEF N, R, first

LEMMA ComparingGrows ==
  ASSUME cfg \in Configs, NEW r \in Seq(Entries), NEW i \in Seq(Entries),
         NEW j \in 0..Contract!Shorter(r, i)
  PROVE  \A k \in 0..Contract!Shorter(r, i) : j <= k =>
           Begins(Contract!Comparing(r, i)[j], Contract!Comparing(r, i)[k])
<1> DEFINE N == Contract!Shorter(r, i)
           R == Contract!Comparing(r, i)
           G == {k \in 0..N : j <= k => Begins(R[j], R[k])}
<1>0. N \in Nat /\ N <= Len(r) /\ N <= Len(i) /\ j \in 0..N
  BY ShorterType
<1>1. R \in [0..N -> Seq(Kinds)] /\ \A k \in 1..N : R[k] = Pair(R[k-1], r, i, k)
  BY ComparingSteps
<1> HIDE DEF N, R
<1>2. Begins(R[j], R[j])
  BY <1>0, <1>1 DEF Begins
<1>3. 0 \in G
  <2>1. j <= 0 => j = 0
    BY <1>0
  <2> QED
    BY <1>0, <1>2, <2>1
<1>4. ASSUME NEW k \in 1..N, k - 1 \in G PROVE k \in G
  <2> SUFFICES ASSUME j <= k PROVE Begins(R[j], R[k])
    BY <1>0
  <2>1. CASE j = k
    BY <1>2, <2>1
  <2>2. CASE j # k
    <3>1. k \in 0..N /\ k - 1 \in 0..N /\ j <= k - 1 /\ k \in 1..Len(r) /\ k \in 1..Len(i)
      BY <1>0, <2>2
    <3>2. Begins(R[j], R[k-1])
      BY <1>4, <3>1
    <3>3. Begins(R[k-1], R[k])
      BY <1>1, <3>1, PairType
    <3>4. R[j] \in Seq(Kinds) /\ R[k-1] \in Seq(Kinds) /\ R[k] \in Seq(Kinds)
      BY <1>0, <1>1, <3>1
    <3> QED
      BY <3>2, <3>3, <3>4, BeginsTransitive
  <2> QED
    BY <2>1, <2>2
<1> HIDE DEF G
<1>5. \A k \in 0..N : k \in G
  BY <1>0, <1>3, <1>4, UpTo
<1> QED
  BY <1>5 DEF G, N, R

-----------------------------------------------------------------------------
(* The events of the logs that are compared.                                *)

\* What was found after k pairs.
Found(k) == Contract!Comparing(Es("rtl"), Es("iss"))[k]

Shortest == Contract!Shorter(Es("rtl"), Es("iss"))

NoGap(rs) == \A k \in 1..Len(rs) : rs[k] # "SEQ_GAP"

Outcome == IF exc THEN Contract!Raised ELSE Contract!Result(results)

LEMMA SameContract ==
  ASSUME UNCHANGED input
  PROVE  /\ \A s \in Sides : Contract!Stream(s)' = Contract!Stream(s) /\ Es(s)' = Es(s)
         /\ Contract!Comparing(Es("rtl"), Es("iss"))' = Contract!Comparing(Es("rtl"), Es("iss"))
         /\ Contract!Allowed' = Contract!Allowed
<1>1. cfg' = cfg /\ log' = log
  BY DEF input
<1>2. \A s \in Sides : Contract!Stream(s)' = Contract!Stream(s) /\ Es(s)' = Es(s)
  BY <1>1, SameReading DEF Contract!Stream, Es, input
<1>3. Contract!Comparing(Es("rtl"), Es("iss"))' = Contract!Comparing(Es("rtl"), Es("iss"))
  BY <1>1 DEF Contract!Comparing, Es, Contract!Reading, Contract!ReadLine, Contract!Stream,
              Contract!Shorter, Contract!Times, Contract!Gap, Contract!Anomaly
<1>4. Contract!Events' = Contract!Events
  BY <1>1 DEF Contract!Events, Contract!Comparing, Contract!Reading, Contract!ReadLine,
              Contract!Stream, Contract!Shorter, Contract!Times, Contract!Gap, Contract!Anomaly
<1>5. Contract!Reported' = Contract!Reported
  BY <1>1, <1>4 DEF Contract!Reported
<1>6. \A s : Contract!Stream(s)' = Contract!Stream(s)
  BY <1>1, SameReading DEF Contract!Stream, input
<1>7. Contract!FailureReached' = Contract!FailureReached /\ Contract!SomeFailure' = Contract!SomeFailure
  BY <1>1, <1>6 DEF Contract!FailureReached, Contract!SomeFailure
<1>8. Contract!StepRefused' = Contract!StepRefused /\ Contract!Full' = Contract!Full
  BY <1>1, <1>5 DEF Contract!StepRefused, Contract!Full
<1>9. Contract!Allowed' = Contract!Allowed
  BY <1>5, <1>7, <1>8 DEF Contract!Allowed, Contract!Result, Contract!Raised
<1> QED
  BY <1>2, <1>3, <1>9

\* Everything that is found on the way is where the contract's report begins.
LEMMA FoundBegins ==
  ASSUME cfg \in Configs, \A s \in Sides : Es(s) \in Seq(Entries)
  PROVE  /\ Contract!Events \in Seq(Kinds)
         /\ Shortest \in Nat
         /\ \A k \in 0..Shortest : Found(k) \in Seq(Kinds) /\ Begins(Found(k), Contract!Events)
         /\ Contract!Events = Found(Shortest)
              \o (IF Len(Es("rtl")) = Len(Es("iss")) THEN <<>> ELSE <<"LENGTH">>)
<1> DEFINE tail == IF Len(Es("rtl")) = Len(Es("iss")) THEN <<>> ELSE <<"LENGTH">>
<1>1. Es("rtl") \in Seq(Entries) /\ Es("iss") \in Seq(Entries)
  BY DEF Sides
<1>2. Shortest \in Nat
  BY <1>1, ShorterType DEF Shortest
<1>3. \A k \in 0..Shortest : Found(k) \in Seq(Kinds)
  BY <1>1, ComparingSteps DEF Found, Shortest
<1>4. tail \in Seq(Kinds)
  <2>1. <<>> \in Seq(Kinds) /\ <<"LENGTH">> \in Seq(Kinds)
    BY DEF Kinds
  <2> QED
    BY <2>1
<1>5. Contract!Events = Found(Shortest) \o tail
  BY DEF Contract!Events, Found, Shortest, Es
<1> HIDE DEF tail
<1>6. Contract!Events \in Seq(Kinds) /\ Begins(Found(Shortest), Contract!Events)
  BY <1>2, <1>3, <1>4, <1>5, BeginsConcat
<1>7. ASSUME NEW k \in 0..Shortest PROVE Begins(Found(k), Contract!Events)
  <2>1. Shortest \in 0..Shortest /\ k <= Shortest
    BY <1>2
  <2>2. Begins(Found(k), Found(Shortest))
    BY <1>1, <2>1, ComparingGrows DEF Found, Shortest
  <2> QED
    BY <1>3, <1>6, <2>1, <2>2, BeginsTransitive
<1> QED
  BY <1>2, <1>3, <1>5, <1>6, <1>7 DEF tail

-----------------------------------------------------------------------------
(* The outcomes the contract allows.                                        *)

LEMMA ReportedIs ==
  ASSUME cfg \in Configs, Contract!Events \in Seq(Kinds), NEW rs \in Seq(Kinds),
         Begins(rs, Contract!Events),
         (cfg.max > 0 /\ Len(rs) = cfg.max)
           \/ (rs = Contract!Events /\ (cfg.max = 0 \/ Len(rs) <= cfg.max))
  PROVE  Contract!Reported = rs
<1> DEFINE es == Contract!Events
<1>1. cfg.max \in Nat /\ Len(rs) \in Nat /\ Len(es) \in Nat
  BY ConfigType
<1>2. CASE rs = es
  BY <1>1, <1>2 DEF Contract!Reported
<1>3. CASE rs # es
  <2>1. cfg.max > 0 /\ Len(rs) = cfg.max /\ Len(rs) <= Len(es)
    BY <1>3 DEF Begins
  <2>2. Len(es) # cfg.max
    BY <1>3, <2>1, SeqEqual DEF Begins
  <2>3. Contract!Reported = SubSeq(es, 1, cfg.max)
    BY <1>1, <2>1, <2>2 DEF Contract!Reported
  <2>4. \A k \in 1..cfg.max : es[k] \in Kinds /\ es[k] = rs[k]
    BY <1>1, <2>1 DEF Begins
  <2>5. /\ SubSeq(es, 1, cfg.max) \in Seq(Kinds) /\ Len(SubSeq(es, 1, cfg.max)) = cfg.max
        /\ \A k \in 1..cfg.max : SubSeq(es, 1, cfg.max)[k] = es[k]
    BY <1>1, <2>1, <2>4, SubSeqProperties
  <2>6. SubSeq(es, 1, cfg.max) = rs
    BY <2>1, <2>4, <2>5, SeqEqual
  <2> QED
    BY <2>3, <2>6
<1> QED
  BY <1>2, <1>3

LEMMA ResultAllowed ==
  ASSUME cfg \in Configs, Contract!Events \in Seq(Kinds), NEW rs \in Seq(Kinds),
         Begins(rs, Contract!Events), cfg.strict => NoGap(rs),
         \/ cfg.max > 0 /\ Len(rs) = cfg.max
         \/ rs = Contract!Events /\ (cfg.max = 0 \/ Len(rs) <= cfg.max) /\ ~Contract!FailureReached
  PROVE  Contract!Result(rs) \in Contract!Allowed
<1>1. Contract!Reported = rs
  BY ReportedIs
<1>2. ~Contract!StepRefused
  BY <1>1 DEF Contract!StepRefused, NoGap
<1>3. Contract!Full \/ ~Contract!FailureReached
  BY <1>1 DEF Contract!Full
<1> QED
  BY <1>1, <1>2, <1>3 DEF Contract!Allowed

LEMMA RefusedAllowed ==
  ASSUME cfg \in Configs, cfg.strict, Contract!Events \in Seq(Kinds), NEW rs \in Seq(Kinds),
         ~Limit(rs), Begins(Append(rs, "SEQ_GAP"), Contract!Events)
  PROVE  Contract!Raised \in Contract!Allowed
<1> DEFINE es == Contract!Events
           n  == Len(rs) + 1
<1>1. cfg.max \in Nat /\ Len(rs) \in Nat /\ Len(es) \in Nat
  BY ConfigType
<1>2. n <= Len(es) /\ es[n] = "SEQ_GAP" /\ n \in 1..Len(es)
  BY <1>1 DEF Begins
<1>3. cfg.max = 0 \/ n <= cfg.max
  BY <1>1 DEF Limit
<1>4. n \in DOMAIN Contract!Reported /\ Contract!Reported[n] = "SEQ_GAP"
  <2>1. CASE cfg.max = 0 \/ Len(es) <= cfg.max
    BY <1>1, <1>2, <2>1 DEF Contract!Reported
  <2>2. CASE ~(cfg.max = 0 \/ Len(es) <= cfg.max)
    <3>1. Contract!Reported = SubSeq(es, 1, cfg.max)
      BY <2>2 DEF Contract!Reported
    <3>2. \A k \in 1..cfg.max : es[k] \in Kinds
      BY <1>1, <2>2
    <3>3. /\ SubSeq(es, 1, cfg.max) \in Seq(Kinds) /\ Len(SubSeq(es, 1, cfg.max)) = cfg.max
          /\ \A k \in 1..cfg.max : SubSeq(es, 1, cfg.max)[k] = es[k]
      BY <1>1, <2>2, <3>2, SubSeqProperties
    <3>4. n \in 1..cfg.max
      BY <1>1, <1>3, <2>2
    <3> QED
      BY <1>2, <3>1, <3>3, <3>4
  <2> QED
    BY <2>1, <2>2
<1>5. Contract!StepRefused
  BY <1>4 DEF Contract!StepRefused
<1> QED
  BY <1>5 DEF Contract!Allowed

LEMMA FailedAllowed ==
  ASSUME DOMAIN log = Sides, NEW s \in Sides, Contract!Stream(s).end = "failed"
  PROVE  Contract!Raised \in Contract!Allowed
<1>1. Contract!SomeFailure
  BY DEF Contract!SomeFailure
<1> QED
  BY <1>1 DEF Contract!Allowed

\* A loop that stops at the limit adds the first of what there is to add.
LEMMA AddUpToBegins ==
  ASSUME TypeOK, NEW rs \in Seq(Kinds), NEW kind \in Kinds, NEW n \in Nat,
         cfg.max = 0 \/ Len(rs) <= cfg.max
  PROVE  LET all == rs \o Contract!Times(n, kind)
             new == AddUpTo(rs, kind, n)
         IN  /\ new \in Seq(Kinds) /\ all \in Seq(Kinds)
             /\ Begins(new, all)
             /\ ~Limit(new) => new = all
             /\ Limit(new) => cfg.max > 0 /\ Len(new) = cfg.max
             /\ kind # "SEQ_GAP" /\ NoGap(rs) => NoGap(new)
<1> DEFINE room == IF cfg.max = 0 THEN n ELSE cfg.max - Len(rs)
           k    == IF n <= room THEN n ELSE room
           some == Contract!Times(k, kind)
           all  == rs \o Contract!Times(n, kind)
           new  == rs \o some
<1>1. cfg.max \in Nat /\ Len(rs) \in Nat
  BY ConfigAssumption DEF TypeOK
<1>2. /\ k \in Nat /\ k <= n
      /\ k # n => cfg.max > 0 /\ Len(rs) + k = cfg.max
      /\ cfg.max > 0 => Len(rs) + k <= cfg.max
  BY <1>1
<1>3. AddUpTo(rs, kind, n) = new
  BY DEF AddUpTo, Contract!Times
<1> HIDE DEF k
<1>4. /\ some \in Seq(Kinds) /\ Len(some) = k /\ \A j \in 1..k : some[j] = kind
      /\ Contract!Times(n, kind) \in Seq(Kinds) /\ Len(Contract!Times(n, kind)) = n
      /\ \A j \in 1..n : Contract!Times(n, kind)[j] = kind
  BY <1>2, TimesType
<1> HIDE DEF some
<1>5. /\ new \in Seq(Kinds) /\ Len(new) = Len(rs) + k
      /\ \A j \in 1..Len(rs) + k : new[j] = IF j <= Len(rs) THEN rs[j] ELSE some[j - Len(rs)]
      /\ all \in Seq(Kinds) /\ Len(all) = Len(rs) + n
      /\ \A j \in 1..Len(rs) + n :
           all[j] = IF j <= Len(rs) THEN rs[j] ELSE Contract!Times(n, kind)[j - Len(rs)]
  BY <1>4, ConcatProperties
<1>6. ~Limit(new) => new = all
  <2>1. ~Limit(new) => k = n
    BY <1>1, <1>2, <1>5 DEF Limit
  <2> QED
    BY <2>1 DEF some
<1>7. Limit(new) => cfg.max > 0 /\ Len(new) = cfg.max
  BY <1>1, <1>2, <1>5 DEF Limit
<1> HIDE DEF new, all
<1>8. \A j \in 1..Len(new) : j <= Len(rs) \/ j - Len(rs) \in 1..k
  BY <1>1, <1>2, <1>5
<1>9. ASSUME NEW j \in 1..Len(new)
      PROVE  all[j] = new[j] /\ (j <= Len(rs) => new[j] = rs[j]) /\ (j > Len(rs) => new[j] = kind)
  <2>1. j \in 1..Len(rs) + k /\ j \in 1..Len(rs) + n
    BY <1>1, <1>2, <1>5
  <2>2. CASE j <= Len(rs)
    BY <1>1, <1>5, <2>1, <2>2
  <2>3. CASE j > Len(rs)
    <3>1. j - Len(rs) \in 1..k /\ j - Len(rs) \in 1..n
      BY <1>1, <1>2, <2>1, <2>3
    <3> QED
      BY <1>1, <1>4, <1>5, <2>1, <2>3, <3>1
  <2> QED
    BY <1>1, <2>2, <2>3
<1>10. Begins(new, all)
  BY <1>1, <1>2, <1>5, <1>9 DEF Begins
<1>11. kind # "SEQ_GAP" /\ NoGap(rs) => NoGap(new)
  BY <1>1, <1>5, <1>9 DEF NoGap
<1> QED
  BY <1>3, <1>5, <1>6, <1>7, <1>10, <1>11 DEF all

-----------------------------------------------------------------------------
(* The main thread.                                                         *)

InLoop == {"get_rtl", "get_iss", "pair", "step_iss", "fields"}

\* What a step validator remembers of the entries it has seen.
ValidatorInv(s) ==
  /\ seen[s] = {Es(s)[k].step : k \in 1..Validated(s)}
  /\ last[s] = IF Validated(s) = 0 THEN None ELSE Es(s)[Validated(s)].step

\* What the sequential comparison has found by now.
FoundByNow ==
  IF mpc = "step_iss" THEN Found(Compared) \o Contract!Gap(Es("rtl"), Compared + 1)
  ELSE IF mpc = "fields"
    THEN Found(Compared) \o Contract!Gap(Es("rtl"), Compared + 1)
                         \o Contract!Gap(Es("iss"), Compared + 1)
  ELSE Found(Compared)

LoopInv ==
  /\ mpc = "preflight" => head["rtl"] = 0
  /\ mpc \in InLoop \cup {"preflight"} => \A s \in Sides : ValidatorInv(s)
  /\ mpc \in InLoop => results = FoundByNow /\ (cfg.strict => NoGap(results))
  /\ mpc \in AfterLoop \cup {"returned_early"} => Outcome \in Contract!Allowed

RefInv == IInv /\ (\A s \in Sides : ReadInv(s)) /\ LoopInv

\* What the invariant says of the streams, in one place.
LEMMA StreamFacts ==
  ASSUME RefInv
  PROVE  /\ cfg \in Configs /\ cfg.max \in Nat /\ results \in Seq(Kinds)
         /\ DOMAIN log = Sides
         /\ \A s \in Sides : Es(s) \in Seq(Entries) /\ Len(Es(s)) \in Nat /\ head[s] \in Nat
         /\ \A s \in Sides : err[s] => Contract!Stream(s).end = "failed"
BY Taken, ConfigType DEF RefInv, IInv, TypeOK

LEMMA HeldEntry ==
  ASSUME RefInv, NEW s \in Sides, Held(s), ~done[s]
  PROVE  head[s] \in 1..Len(Es(s)) /\ cur[s] = Es(s)[head[s]] /\ cur[s] \in Entries
<1>1. cur[s] \in Entries /\ cur[s] = sent[s][head[s]]
  BY DEF RefInv, IInv, TypeOK, Held
<1>2. head[s] \in 1..Len(sent[s])
  BY DEF RefInv, IInv, TypeOK, Held, QueueInv
<1>3. head[s] <= Len(Es(s)) /\ cur[s] = Es(s)[head[s]]
  BY <1>1, <1>2, Taken DEF RefInv
<1>4. Len(Es(s)) \in Nat
  BY StreamFacts
<1> QED
  BY <1>1, <1>2, <1>3, <1>4

LEMMA HeldEnd ==
  ASSUME RefInv, NEW s \in Sides, done[s]
  PROVE  head[s] = Len(Es(s)) + 1 /\ (~err[s] => Contract!Stream(s).end # "failed")
BY Taken DEF RefInv, IInv, QueueInv

\* A step that leaves the input, the results and the validators where they are.
LEMMA QuietStep ==
  ASSUME RefInv, UNCHANGED input, UNCHANGED <<results, exc>>,
         \/ mpc' = mpc /\ UNCHANGED <<head, last, seen>>
         \/ mpc \in AfterLoop /\ mpc' \in AfterLoop
  PROVE  LoopInv'
<1>1. /\ \A s \in Sides : Es(s)' = Es(s)
      /\ Contract!Comparing(Es("rtl"), Es("iss"))' = Contract!Comparing(Es("rtl"), Es("iss"))
      /\ Contract!Allowed' = Contract!Allowed
  BY SameContract
<1>2. (mpc' \in AfterLoop \cup {"returned_early"}) => Outcome' \in Contract!Allowed'
  <2>1. mpc' \in AfterLoop \cup {"returned_early"} => mpc \in AfterLoop \cup {"returned_early"}
    BY DEF AfterLoop
  <2>2. Outcome' = Outcome
    BY DEF Outcome, Contract!Raised, Contract!Result
  <2> QED
    BY <1>1, <2>1, <2>2 DEF RefInv, LoopInv
<1>3. CASE mpc \in AfterLoop /\ mpc' \in AfterLoop
  BY <1>2, <1>3 DEF LoopInv, AfterLoop, InLoop
<1>4. CASE mpc' = mpc /\ UNCHANGED <<head, last, seen>>
  <2>1. \A s \in Sides : ValidatorInv(s) => ValidatorInv(s)'
    BY <1>1, <1>4 DEF ValidatorInv, Validated
  <2>2. FoundByNow' = FoundByNow
    <3>1. Compared' = Compared
      BY <1>4 DEF Compared
    <3>2. Es("rtl")' = Es("rtl") /\ Es("iss")' = Es("iss")
      BY <1>1 DEF Sides
    <3> QED
      BY <1>1, <1>4, <3>1, <3>2 DEF FoundByNow, Found, Contract!Gap, Contract!Times, Contract!Anomaly
  <2>3. cfg' = cfg
    BY DEF input
  <2> QED
    BY <1>2, <1>4, <2>1, <2>2, <2>3 DEF RefInv, LoopInv, NoGap
<1> QED
  BY <1>3, <1>4

LEMMA GetRefines ==
  ASSUME RefInv, MainFrame, NEW s \in Sides, Get(s)
  PROVE  LoopInv'
<1>1. /\ \A t \in Sides : Es(t)' = Es(t)
      /\ Contract!Comparing(Es("rtl"), Es("iss"))' = Contract!Comparing(Es("rtl"), Es("iss"))
      /\ cfg' = cfg
  BY SameContract DEF MainFrame, input
<1>2. /\ ~done[s] /\ head' = [head EXCEPT ![s] = @ + 1]
      /\ mpc' = (IF s = "rtl" THEN "get_iss" ELSE "pair")
      /\ mpc = (IF s = "rtl" THEN "get_rtl" ELSE "get_iss")
      /\ UNCHANGED <<last, seen, results>>
  BY DEF RefInv, IInv, LockstepInv, Get, Sides
<1>3. head \in [Sides -> Nat]
  BY DEF RefInv, IInv, TypeOK
<1>4. Compared' = Compared /\ \A t \in Sides : Validated(t)' = Validated(t)
  BY <1>2, <1>3 DEF Compared, Validated, Sides
<1>5. \A t \in Sides : ValidatorInv(t)'
  BY <1>1, <1>2, <1>4 DEF RefInv, LoopInv, InLoop, ValidatorInv
<1>6. FoundByNow' = FoundByNow
  BY <1>1, <1>2, <1>4 DEF FoundByNow, Found
<1> QED
  BY <1>1, <1>2, <1>5, <1>6 DEF RefInv, LoopInv, InLoop, AfterLoop, NoGap

LEMMA RaiseRefines ==
  ASSUME RefInv, MainFrame, RaiseReaderError
  PROVE  LoopInv'
<1>1. PICK s \in Sides : err[s]
  BY DEF RaiseReaderError, ReaderFailed
<1>2. Contract!Raised \in Contract!Allowed
  BY <1>1, StreamFacts, FailedAllowed
<1>3. Outcome' = Contract!Raised /\ mpc' = "drain_rtl"
  BY DEF RaiseReaderError, Outcome, Contract!Raised
<1>4. Contract!Allowed' = Contract!Allowed
  BY SameContract DEF MainFrame
<1> QED
  BY <1>2, <1>3, <1>4 DEF LoopInv, InLoop, AfterLoop

\* At the end of a log, in the state in which a pair is looked at.
LEMMA EndOfLogs ==
  ASSUME RefInv, mpc = "pair", ~ReaderFailed, done["rtl"] \/ done["iss"]
  PROVE  /\ results = Found(Shortest) /\ ~exc /\ ~Limit(results)
         /\ Begins(results, Contract!Events)
         /\ cfg.strict => NoGap(results)
         /\ ~Contract!FailureReached
         /\ (done["rtl"] /\ done["iss"]) <=> Len(Es("rtl")) = Len(Es("iss"))
<1>1. /\ head["rtl"] = head["iss"] /\ Held("rtl") /\ Held("iss")
      /\ ~Limit(results) /\ ~exc
  BY DEF RefInv, IInv, LockstepInv, LimitInv, VerdictInv, AfterLoop
<1>2. results = Found(head["rtl"] - 1) /\ (cfg.strict => NoGap(results))
  BY DEF RefInv, LoopInv, InLoop, FoundByNow, Compared
<1>3. \A s \in Sides : /\ ~done[s] => head[s] \in 1..Len(Es(s))
                       /\ done[s] => head[s] = Len(Es(s)) + 1 /\ Contract!Stream(s).end # "failed"
                       /\ Len(Es(s)) \in Nat /\ head[s] \in Nat
  BY <1>1, HeldEntry, HeldEnd, StreamFacts DEF Sides, ReaderFailed
<1>4. "rtl" \in Sides /\ "iss" \in Sides /\ \A s \in Sides : s = "rtl" \/ s = "iss"
  BY DEF Sides
<1>5. Shortest = head["rtl"] - 1
  BY <1>1, <1>3, <1>4 DEF Shortest, Contract!Shorter
<1>6. (done["rtl"] /\ done["iss"]) <=> Len(Es("rtl")) = Len(Es("iss"))
  BY <1>1, <1>3, <1>4
<1>7. ~Contract!FailureReached
  <2> SUFFICES ASSUME NEW s \in DOMAIN log, NEW t \in DOMAIN log, s # t,
                      Contract!Stream(s).end = "failed",
                      Len(Contract!Stream(s).entries) <= Len(Contract!Stream(t).entries)
               PROVE  FALSE
    BY DEF Contract!FailureReached
  <2>1. s \in Sides /\ t \in Sides
    BY StreamFacts
  <2>2. ~done[s] /\ done[t]
    BY <1>3, <1>4, <2>1
  <2> QED
    BY <1>1, <1>3, <1>4, <2>1, <2>2 DEF Es
<1>8. Begins(results, Contract!Events)
  <2>1. Shortest \in 0..Shortest
    BY StreamFacts, FoundBegins
  <2> QED
    BY <1>2, <1>5, <2>1, StreamFacts, FoundBegins
<1> QED
  BY <1>1, <1>2, <1>5, <1>6, <1>7, <1>8

LEMMA BothDoneRefines ==
  ASSUME RefInv, MainFrame, BothDone
  PROVE  LoopInv'
<1>1. mpc = "pair" /\ ~ReaderFailed /\ done["rtl"] /\ done["iss"] /\ mpc' = "drain_rtl"
      /\ results' = results /\ exc' = exc
  BY DEF BothDone
<1>2. Contract!Events = Found(Shortest) \o <<>> /\ Found(Shortest) \in Seq(Kinds)
      /\ Contract!Events \in Seq(Kinds)
  <2>1. Shortest \in 0..Shortest
    BY StreamFacts, FoundBegins
  <2> QED
    BY <1>1, <2>1, StreamFacts, FoundBegins, EndOfLogs
<1>3. Contract!Events = results
  BY <1>1, <1>2, EndOfLogs, ConcatEmptySeq
<1>4. cfg.max = 0 \/ Len(results) <= cfg.max
  BY StreamFacts DEF RefInv, IInv, LimitInv, WithinLimit
<1>5. Contract!Result(results) \in Contract!Allowed
  BY <1>1, <1>2, <1>3, <1>4, EndOfLogs, StreamFacts, ResultAllowed
<1>6. Outcome' = Contract!Result(results)
  BY <1>1, EndOfLogs DEF Outcome, Contract!Result
<1>7. Contract!Allowed' = Contract!Allowed
  BY SameContract DEF MainFrame
<1> QED
  BY <1>1, <1>5, <1>6, <1>7 DEF LoopInv, InLoop, AfterLoop

LEMMA LengthRefines ==
  ASSUME RefInv, MainFrame, LengthMismatch
  PROVE  LoopInv'
<1>1. /\ mpc = "pair" /\ ~ReaderFailed /\ (done["rtl"] \/ done["iss"])
      /\ ~(done["rtl"] /\ done["iss"]) /\ mpc' = "drain_rtl"
      /\ results' = Append(results, "LENGTH") /\ exc' = exc
  BY DEF LengthMismatch, RefInv, IInv, TypeOK, Sides
<1>2. Contract!Events = Found(Shortest) \o <<"LENGTH">> /\ Contract!Events \in Seq(Kinds)
  BY <1>1, StreamFacts, FoundBegins, EndOfLogs
<1>3. /\ results \in Seq(Kinds) /\ results = Found(Shortest) /\ cfg.max \in Nat
      /\ ~Limit(results) /\ ~exc /\ (cfg.strict => NoGap(results)) /\ ~Contract!FailureReached
  BY <1>1, StreamFacts, EndOfLogs
<1>4. results' = Contract!Events
  BY <1>1, <1>2, <1>3
<1>5. cfg.max = 0 \/ Len(results') <= cfg.max
  BY <1>1, <1>3 DEF Limit
<1>6. cfg.strict => NoGap(results')
  BY <1>1, <1>3 DEF NoGap
<1>7. Begins(results', Contract!Events)
  BY <1>4 DEF Begins
<1>8. Contract!Result(results') \in Contract!Allowed
  BY <1>2, <1>3, <1>4, <1>5, <1>6, <1>7, StreamFacts, ResultAllowed
<1>9. Outcome' = Contract!Result(results')
  BY <1>1, <1>3 DEF Outcome, Contract!Result
<1>10. Contract!Allowed' = Contract!Allowed
  BY SameContract DEF MainFrame
<1> QED
  BY <1>1, <1>8, <1>9, <1>10 DEF LoopInv, InLoop, AfterLoop

LEMMA PreflightRefines ==
  ASSUME RefInv, MainFrame, Preflight
  PROVE  LoopInv'
<1> DEFINE first == Contract!Times(cfg.badHashes, "HASH")
<1>1. /\ mpc = "preflight" /\ head["rtl"] = 0 /\ head["iss"] = 0 /\ ~exc
      /\ \A s \in Sides : ValidatorInv(s)
  BY DEF Preflight, RefInv, LoopInv, InLoop, IInv, LockstepInv, VerdictInv, AfterLoop
<1>2. /\ results' = AddUpTo(<<>>, "HASH", cfg.badHashes)
      /\ mpc' = IF Limit(results') THEN "returned_early" ELSE "get_rtl"
      /\ UNCHANGED <<head, cur, done, last, seen, exc>>
  BY DEF Preflight
<1>3. /\ TypeOK /\ <<>> \in Seq(Kinds) /\ "HASH" \in Kinds /\ cfg.badHashes \in Nat
      /\ (cfg.max = 0 \/ Len(<<>>) <= cfg.max) /\ NoGap(<<>>) /\ first \in Seq(Kinds)
  <2>1. cfg.badHashes \in Nat /\ cfg.max \in Nat
    BY ConfigType, StreamFacts
  <2>2. <<>> \in Seq(Kinds) /\ Len(<<>>) = 0 /\ "HASH" \in Kinds
    BY DEF Kinds
  <2>3. first \in Seq(Kinds)
    BY <2>1, <2>2, TimesType
  <2> QED
    BY <2>1, <2>2, <2>3 DEF RefInv, IInv, NoGap
<1>4. /\ results' \in Seq(Kinds) /\ Begins(results', <<>> \o first)
      /\ ~Limit(results') => results' = <<>> \o first
      /\ Limit(results') => cfg.max > 0 /\ Len(results') = cfg.max
      /\ NoGap(results')
  BY <1>2, <1>3, AddUpToBegins
<1>5. <<>> \o first = first
  BY <1>3, ConcatEmptySeq
<1>6. first = Found(0) /\ 0 \in 0..Shortest
  <2>1. Shortest \in Nat
    BY StreamFacts, FoundBegins
  <2>2. Es("rtl") \in Seq(Entries) /\ Es("iss") \in Seq(Entries)
    BY StreamFacts DEF Sides
  <2> QED
    BY <2>1, <2>2, StreamFacts, ComparingSteps DEF Found
<1> HIDE DEF first
<1>7. Begins(results', Contract!Events) /\ Contract!Events \in Seq(Kinds)
  BY <1>3, <1>4, <1>5, <1>6, StreamFacts, FoundBegins, BeginsTransitive
<1>8. /\ \A s \in Sides : Es(s)' = Es(s)
      /\ Contract!Comparing(Es("rtl"), Es("iss"))' = Contract!Comparing(Es("rtl"), Es("iss"))
      /\ Contract!Allowed' = Contract!Allowed
  BY SameContract DEF MainFrame
<1>9. CASE Limit(results')
  <2>1. Contract!Result(results') \in Contract!Allowed
    BY <1>4, <1>7, <1>9, StreamFacts, ResultAllowed
  <2>2. Outcome' = Contract!Result(results') /\ mpc' = "returned_early"
    BY <1>1, <1>2, <1>9 DEF Outcome, Contract!Result
  <2> QED
    BY <1>8, <2>1, <2>2 DEF LoopInv, InLoop, AfterLoop
<1>10. CASE ~Limit(results')
  <2>1. mpc' = "get_rtl" /\ results' = Found(0)
    BY <1>2, <1>4, <1>5, <1>6, <1>10
  <2>2. Compared = 0 /\ Compared' = 0 /\ \A s \in Sides : Validated(s)' = Validated(s)
    BY <1>1, <1>2, <2>1 DEF Compared, Validated
  <2>3. FoundByNow' = Found(0)
    BY <1>8, <2>1, <2>2 DEF FoundByNow, Found
  <2>4. \A s \in Sides : ValidatorInv(s)'
    BY <1>1, <1>2, <1>8, <2>2 DEF ValidatorInv
  <2>5. NoGap(results)'
    BY <1>4 DEF NoGap
  <2> QED
    BY <2>1, <2>3, <2>4, <2>5 DEF LoopInv, InLoop, AfterLoop
<1> QED
  BY <1>9, <1>10

\* In the middle of a pair: the entries in hand, the pair among those that the
\* contract compares, and what was found before.
LEMMA InPair ==
  ASSUME RefInv, mpc \in {"pair", "step_iss", "fields"}, ~done["rtl"], ~done["iss"]
  PROVE  LET k == head["rtl"]
         IN  /\ head["iss"] = k /\ k \in 1..Shortest /\ Compared = k - 1
             /\ \A s \in Sides : /\ k \in 1..Len(Es(s)) /\ Es(s) \in Seq(Entries)
                                 /\ cur[s] = Es(s)[k] /\ cur[s] \in Entries
             /\ Found(k - 1) \in Seq(Kinds)
             /\ Found(k) = Pair(Found(k - 1), Es("rtl"), Es("iss"), k)
             /\ Begins(Found(k), Contract!Events) /\ Found(k) \in Seq(Kinds)
             /\ results \in Seq(Kinds) /\ Contract!Events \in Seq(Kinds)
             /\ results = FoundByNow /\ (cfg.strict => NoGap(results))
             /\ ~exc /\ ~Limit(results)
             /\ \A s \in Sides : ValidatorInv(s)
<1> DEFINE k == head["rtl"]
<1>1. head["iss"] = k /\ Held("rtl") /\ Held("iss") /\ ~exc /\ ~Limit(results)
  BY DEF RefInv, IInv, LockstepInv, LimitInv, VerdictInv, AfterLoop
<1>2. \A s \in Sides : head[s] \in 1..Len(Es(s)) /\ cur[s] = Es(s)[head[s]] /\ cur[s] \in Entries
  BY <1>1, HeldEntry DEF Sides
<1>3. "rtl" \in Sides /\ "iss" \in Sides /\ \A s \in Sides : s = "rtl" \/ s = "iss"
  BY DEF Sides
<1>4. \A s \in Sides : head[s] = k /\ Es(s) \in Seq(Entries) /\ Len(Es(s)) \in Nat
  BY <1>1, <1>3, StreamFacts
<1>5. k \in 1..Shortest /\ k - 1 \in 0..Shortest /\ k \in 0..Shortest
  BY <1>2, <1>3, <1>4 DEF Shortest, Contract!Shorter
<1>6. Found(k) = Pair(Found(k - 1), Es("rtl"), Es("iss"), k)
  BY <1>3, <1>4, <1>5, StreamFacts, ComparingSteps DEF Found, Shortest
<1>7. /\ Found(k - 1) \in Seq(Kinds) /\ Found(k) \in Seq(Kinds)
      /\ Begins(Found(k), Contract!Events) /\ Contract!Events \in Seq(Kinds)
  BY <1>5, StreamFacts, FoundBegins
<1>8. results = FoundByNow /\ (cfg.strict => NoGap(results)) /\ \A s \in Sides : ValidatorInv(s)
  BY DEF RefInv, LoopInv, InLoop
<1>9. Compared = k - 1
  BY DEF Compared
<1>10. results \in Seq(Kinds)
  BY StreamFacts
<1> QED
  BY <1>1, <1>2, <1>4, <1>5, <1>6, <1>7, <1>8, <1>9, <1>10

\* The validators find what the contract calls an anomaly.
LEMMA SameAnomaly ==
  ASSUME NEW s \in Sides, NEW k \in Nat \ {0}, Es(s) \in Seq(Entries), k <= Len(Es(s)),
         Validated(s) = k - 1, ValidatorInv(s)
  PROVE  Anomalous(s, Es(s)[k]) <=> Contract!Anomaly(Es(s), k)
<1> DEFINE es == Es(s)
<1>1. \A j \in 1..Len(es) : es[j].step \in Nat
  BY EntryAssumption
<1>2. es[k].step \in seen[s] <=> \E j \in 1..k-1 : es[j].step = es[k].step
  BY DEF ValidatorInv
<1>3. last[s] # None <=> k > 1
  <2>1. k > 1 => last[s] = es[k-1].step /\ last[s] \in Nat
    BY <1>1 DEF ValidatorInv
  <2>2. k = 1 => last[s] = None
    BY DEF ValidatorInv
  <2>3. None \notin Nat
    BY TokenAssumption
  <2> QED
    BY <2>1, <2>2, <2>3
<1>4. k > 1 => last[s] = es[k-1].step
  BY DEF ValidatorInv
<1> QED
  BY <1>2, <1>3, <1>4 DEF Anomalous, Contract!Anomaly

LEMMA GapIs ==
  ASSUME NEW es, NEW k, NEW rs \in Seq(Kinds)
  PROVE  /\ Contract!Anomaly(es, k) => rs \o Contract!Gap(es, k) = Append(rs, "SEQ_GAP")
         /\ ~Contract!Anomaly(es, k) => rs \o Contract!Gap(es, k) = rs
<1>1. Contract!Times(1, "SEQ_GAP") = <<"SEQ_GAP">>
  BY DEF Contract!Times
<1>2. Contract!Times(0, "SEQ_GAP") = <<>>
  <2>1. Contract!Times(0, "SEQ_GAP") \in Seq(Kinds) /\ Len(Contract!Times(0, "SEQ_GAP")) = 0
    BY TimesType DEF Kinds
  <2> QED
    BY <2>1, EmptySeq
<1>3. Contract!Anomaly(es, k) => Contract!Gap(es, k) = <<"SEQ_GAP">>
  BY <1>1 DEF Contract!Gap
<1>4. ~Contract!Anomaly(es, k) => Contract!Gap(es, k) = <<>>
  BY <1>2 DEF Contract!Gap
<1>5. rs \o <<"SEQ_GAP">> = Append(rs, "SEQ_GAP")
  BY "SEQ_GAP" \in Kinds, AppendIsConcat DEF Kinds
<1>6. rs \o <<>> = rs
  BY ConcatEmptySeq
<1> QED
  BY <1>3, <1>4, <1>5, <1>6

\* The validated side s of a pair: what was found before it, and with it.
FoundBefore(s) == IF s = "rtl" THEN Found(Compared)
                  ELSE Found(Compared) \o Contract!Gap(Es("rtl"), Compared + 1)

LEMMA SameValidator ==
  ASSUME NEW t \in Sides, ValidatorInv(t), Es(t)' = Es(t), Validated(t)' = Validated(t),
         seen'[t] = seen[t], last'[t] = last[t]
  PROVE  ValidatorInv(t)'
BY DEF ValidatorInv

LEMMA CheckStepRefines ==
  ASSUME RefInv, IInv', MainFrame, NEW s \in Sides, CheckStep(s)
  PROVE  LoopInv'
<1> DEFINE k   == head["rtl"]
           bad == Anomalous(s, cur[s])
           all == results \o Contract!Gap(Es(s), k)
<1>1. /\ mpc = (IF s = "rtl" THEN "pair" ELSE "step_iss")
      /\ ~done["rtl"] /\ ~done["iss"]
      /\ results' = IF bad /\ ~cfg.strict THEN Append(results, "SEQ_GAP") ELSE results
      /\ exc' = (bad /\ cfg.strict)
      /\ last' = [last EXCEPT ![s] = cur[s].step]
      /\ seen' = [seen EXCEPT ![s] = @ \cup {cur[s].step}]
      /\ mpc' = IF exc' \/ Limit(results') THEN "drain_rtl"
                ELSE IF s = "rtl" THEN "step_iss" ELSE "fields"
      /\ UNCHANGED <<head, cur, done>>
  BY DEF CheckStep, RefInv, IInv, LockstepInv, Held, Sides, Limit
<1>2. /\ head["iss"] = k /\ k \in 1..Shortest /\ Compared = k - 1
      /\ \A t \in Sides : /\ k \in 1..Len(Es(t)) /\ Es(t) \in Seq(Entries)
                          /\ cur[t] = Es(t)[k] /\ cur[t] \in Entries
      /\ Found(k - 1) \in Seq(Kinds)
      /\ Found(k) = Pair(Found(k - 1), Es("rtl"), Es("iss"), k)
      /\ Begins(Found(k), Contract!Events) /\ Found(k) \in Seq(Kinds)
      /\ results \in Seq(Kinds) /\ Contract!Events \in Seq(Kinds)
      /\ results = FoundByNow /\ (cfg.strict => NoGap(results))
      /\ ~exc /\ ~Limit(results)
      /\ \A t \in Sides : ValidatorInv(t)
  BY <1>1, InPair
<1>3. /\ \A t \in Sides : Es(t)' = Es(t)
      /\ Contract!Comparing(Es("rtl"), Es("iss"))' = Contract!Comparing(Es("rtl"), Es("iss"))
      /\ Contract!Allowed' = Contract!Allowed /\ cfg' = cfg
  BY SameContract DEF MainFrame, input
<1>4. k \in Nat \ {0} /\ "rtl" \in Sides /\ "iss" \in Sides /\ (s = "rtl" \/ s = "iss")
  BY <1>2, StreamFacts, FoundBegins DEF Sides
<1> HIDE DEF k
<1>5. results = FoundBefore(s) /\ Compared + 1 = k
  BY <1>1, <1>2, <1>4 DEF FoundByNow, FoundBefore
<1>6. all \in Seq(Kinds) /\ Begins(all, Contract!Events)
  <2>1. /\ Found(k - 1) \o Contract!Gap(Es("rtl"), k) \in Seq(Kinds)
        /\ Found(k - 1) \o Contract!Gap(Es("rtl"), k) \o Contract!Gap(Es("iss"), k) \in Seq(Kinds)
        /\ Begins(Found(k - 1) \o Contract!Gap(Es("rtl"), k),
                  Found(k - 1) \o Contract!Gap(Es("rtl"), k) \o Contract!Gap(Es("iss"), k))
        /\ Begins(Found(k - 1) \o Contract!Gap(Es("rtl"), k) \o Contract!Gap(Es("iss"), k), Found(k))
    <3>1. /\ Es("rtl") \in Seq(Entries) /\ k \in 1..Len(Es("rtl"))
          /\ Es("iss") \in Seq(Entries) /\ k \in 1..Len(Es("iss"))
      BY <1>2, <1>4
    <3> QED
      BY <1>2, <3>1, PairType
  <2>2. \/ all = Found(k - 1) \o Contract!Gap(Es("rtl"), k)
        \/ all = Found(k - 1) \o Contract!Gap(Es("rtl"), k) \o Contract!Gap(Es("iss"), k)
    BY <1>2, <1>4, <1>5 DEF FoundBefore
  <2> HIDE DEF all
  <2>3. all \in Seq(Kinds) /\ Begins(all, Found(k))
    <3>1. CASE all = Found(k - 1) \o Contract!Gap(Es("rtl"), k)
      BY <1>2, <2>1, <3>1, BeginsTransitive
    <3>2. CASE all = Found(k - 1) \o Contract!Gap(Es("rtl"), k) \o Contract!Gap(Es("iss"), k)
      BY <2>1, <3>2
    <3> QED
      BY <2>2, <3>1, <3>2
  <2> QED
    BY <1>2, <2>3, BeginsTransitive
<1>7. Validated(s) = k - 1 /\ ValidatorInv(s)
  BY <1>1, <1>2, <1>4 DEF Validated, k
<1>8. bad <=> Contract!Anomaly(Es(s), k)
  BY <1>2, <1>4, <1>7, SameAnomaly
<1>9. /\ bad => all = Append(results, "SEQ_GAP")
      /\ ~bad => all = results
  BY <1>2, <1>8, GapIs
<1> HIDE DEF bad, all
<1>10. CASE bad /\ cfg.strict
  <2>1. Contract!Raised \in Contract!Allowed
    BY <1>2, <1>6, <1>9, <1>10, StreamFacts, RefusedAllowed
  <2>2. Outcome' = Contract!Raised /\ mpc' = "drain_rtl"
    BY <1>1, <1>10 DEF Outcome, Contract!Raised
  <2> QED
    BY <1>3, <2>1, <2>2 DEF LoopInv, InLoop, AfterLoop
<1>11. CASE ~(bad /\ cfg.strict)
  <2>1. results' = all /\ ~exc' /\ (cfg.strict => NoGap(results'))
    BY <1>1, <1>2, <1>9, <1>11
  <2>2. CASE Limit(results')
    <3>1. cfg.max > 0 /\ Len(results') = cfg.max
      <4>1. cfg.max > 0 => Len(results') <= cfg.max
        BY <1>3 DEF IInv, LimitInv, WithinLimit
      <4>2. cfg.max \in Nat /\ Len(results') \in Nat
        BY <1>6, <2>1, StreamFacts
      <4> QED
        BY <2>2, <4>1, <4>2 DEF Limit
    <3>2. Contract!Result(results') \in Contract!Allowed
      BY <1>2, <1>6, <2>1, <3>1, StreamFacts, ResultAllowed
    <3>3. Outcome' = Contract!Result(results') /\ mpc' = "drain_rtl"
      BY <1>1, <2>1, <2>2 DEF Outcome, Contract!Result
    <3> QED
      BY <1>3, <3>2, <3>3 DEF LoopInv, InLoop, AfterLoop
  <2>3. CASE ~Limit(results')
    <3>1. mpc' = IF s = "rtl" THEN "step_iss" ELSE "fields"
      BY <1>1, <2>1, <2>3
    <3>2. Compared' = Compared
      BY <1>1, <3>1 DEF Compared
    <3>3. FoundByNow' = results'
      <4>1. Es("rtl")' = Es("rtl") /\ Es("iss")' = Es("iss")
        BY <1>3, <1>4
      <4>2. FoundByNow' = IF s = "rtl" THEN Found(Compared) \o Contract!Gap(Es("rtl"), Compared + 1)
                          ELSE Found(Compared) \o Contract!Gap(Es("rtl"), Compared + 1)
                                               \o Contract!Gap(Es("iss"), Compared + 1)
        BY <1>3, <3>1, <3>2, <4>1
           DEF FoundByNow, Found, Contract!Gap, Contract!Times, Contract!Anomaly
      <4>3. FoundByNow' = results \o Contract!Gap(Es(s), k)
        BY <1>4, <1>5, <4>2 DEF FoundBefore
      <4> QED
        BY <2>1, <4>3 DEF all
    <3>4. ASSUME NEW t \in Sides, t # s PROVE ValidatorInv(t)'
      <4>1. Validated(t)' = Validated(t)
        BY <1>1, <1>4, <3>1, <3>4 DEF Validated, Sides
      <4>2. seen'[t] = seen[t] /\ last'[t] = last[t]
        BY <1>1, <3>4 DEF RefInv, IInv, TypeOK
      <4> QED
        BY <1>2, <1>3, <4>1, <4>2, SameValidator
    <3>5. ValidatorInv(s)'
      <4>1. Validated(s)' = k
        BY <1>1, <1>2, <1>4, <3>1 DEF Validated, k
      <4>2. seen'[s] = seen[s] \cup {Es(s)[k].step} /\ last'[s] = Es(s)[k].step
        BY <1>1, <1>2 DEF RefInv, IInv, TypeOK
      <4>3. seen[s] = {Es(s)[j].step : j \in 1..k-1}
        BY <1>7 DEF ValidatorInv
      <4>4. seen'[s] = {Es(s)[j].step : j \in 1..k}
        <5>1. \A j : j \in 1..k <=> j \in 1..k-1 \/ j = k
          BY <1>4
        <5> HIDE DEF k
        <5> QED
          BY <4>2, <4>3, <5>1
      <4> QED
        BY <1>3, <1>4, <4>1, <4>2, <4>4 DEF ValidatorInv
    <3>6. \A t \in Sides : ValidatorInv(t)'
      BY <3>4, <3>5
    <3>7. (cfg.strict => NoGap(results))'
      BY <1>3, <2>1 DEF NoGap
    <3> QED
      BY <3>1, <3>3, <3>6, <3>7 DEF LoopInv, InLoop, AfterLoop
  <2> QED
    BY <2>2, <2>3
<1> QED
  BY <1>10, <1>11

LEMMA FieldsRefine ==
  ASSUME RefInv, MainFrame, CompareFields
  PROVE  LoopInv'
<1> DEFINE k   == head["rtl"]
           n   == Issues(cur["rtl"], cur["iss"])
           all == results \o Contract!Times(n, "FIELD")
<1>1. /\ mpc = "fields" /\ ~done["rtl"] /\ ~done["iss"]
      /\ results' = AddUpTo(results, "FIELD", n)
      /\ mpc' = IF Limit(results') THEN "drain_rtl" ELSE "get_rtl"
      /\ UNCHANGED <<head, cur, done, last, seen, exc>>
  BY DEF CompareFields, Loop, RefInv, IInv, LockstepInv
<1>2. /\ head["iss"] = k /\ k \in 1..Shortest /\ Compared = k - 1
      /\ \A t \in Sides : /\ k \in 1..Len(Es(t)) /\ Es(t) \in Seq(Entries)
                          /\ cur[t] = Es(t)[k] /\ cur[t] \in Entries
      /\ Found(k) = Pair(Found(k - 1), Es("rtl"), Es("iss"), k)
      /\ Begins(Found(k), Contract!Events) /\ Found(k) \in Seq(Kinds)
      /\ results \in Seq(Kinds) /\ Contract!Events \in Seq(Kinds)
      /\ results = FoundByNow /\ (cfg.strict => NoGap(results))
      /\ ~exc /\ ~Limit(results)
      /\ \A t \in Sides : ValidatorInv(t)
  BY <1>1, InPair
<1>3. /\ \A t \in Sides : Es(t)' = Es(t)
      /\ Contract!Comparing(Es("rtl"), Es("iss"))' = Contract!Comparing(Es("rtl"), Es("iss"))
      /\ Contract!Allowed' = Contract!Allowed /\ cfg' = cfg
  BY SameContract DEF MainFrame, input
<1>4. k \in Nat \ {0} /\ "rtl" \in Sides /\ "iss" \in Sides
  BY <1>2, StreamFacts, FoundBegins DEF Sides
<1>5. all = Found(k)
  <2>1. Compared + 1 = k
    BY <1>2, <1>4
  <2>2. cur["rtl"] = Es("rtl")[k] /\ cur["iss"] = Es("iss")[k]
    BY <1>2, <1>4
  <2> HIDE DEF k
  <2> QED
    BY <1>1, <1>2, <2>1, <2>2 DEF FoundByNow, Pair
<1>6. /\ TypeOK /\ n \in Nat /\ "FIELD" \in Kinds /\ (cfg.max = 0 \/ Len(results) <= cfg.max)
  <2>1. n \in Nat
    BY <1>2, <1>4, IssuesAssumption
  <2>2. cfg.max \in Nat /\ (cfg.max > 0 => Len(results) <= cfg.max)
    BY StreamFacts DEF RefInv, IInv, LimitInv, WithinLimit
  <2>3. TypeOK /\ "FIELD" \in Kinds
    BY DEF RefInv, IInv, Kinds
  <2> QED
    BY <2>1, <2>2, <2>3
<1> HIDE DEF k, n
<1>7. /\ results' \in Seq(Kinds) /\ Begins(results', all)
      /\ ~Limit(results') => results' = all
      /\ Limit(results') => cfg.max > 0 /\ Len(results') = cfg.max
      /\ NoGap(results) => NoGap(results')
  BY <1>1, <1>2, <1>6, AddUpToBegins
<1> HIDE DEF all
<1>8. Begins(results', Contract!Events)
  BY <1>2, <1>5, <1>7, BeginsTransitive
<1>9. cfg.strict => NoGap(results')
  BY <1>2, <1>7
<1>10. CASE Limit(results')
  <2>1. Contract!Result(results') \in Contract!Allowed
    BY <1>2, <1>7, <1>8, <1>9, <1>10, StreamFacts, ResultAllowed
  <2>2. Outcome' = Contract!Result(results') /\ mpc' = "drain_rtl"
    BY <1>1, <1>2, <1>10 DEF Outcome, Contract!Result
  <2> QED
    BY <1>3, <2>1, <2>2 DEF LoopInv, InLoop, AfterLoop
<1>11. CASE ~Limit(results')
  <2>1. mpc' = "get_rtl" /\ results' = Found(k)
    BY <1>1, <1>5, <1>7, <1>11
  <2>2. Compared' = k /\ \A s \in Sides : Validated(s)' = Validated(s)
    BY <1>1, <2>1 DEF Compared, Validated, k
  <2>3. FoundByNow' = Found(k)
    BY <1>3, <2>1, <2>2 DEF FoundByNow, Found
  <2>4. \A s \in Sides : ValidatorInv(s)'
    BY <1>1, <1>2, <1>3, <2>2, SameValidator
  <2>5. (cfg.strict => NoGap(results))'
    BY <1>3, <1>9 DEF NoGap
  <2> QED
    BY <2>1, <2>3, <2>4, <2>5 DEF LoopInv, InLoop, AfterLoop
<1> QED
  BY <1>10, <1>11

-----------------------------------------------------------------------------
(* The refinement.                                                          *)

LEMMA RefInit == Init => RefInv
<1> SUFFICES ASSUME Init PROVE RefInv
  OBVIOUS
<1>1. LoopInv
  BY DEF Init, LoopInv, InLoop, AfterLoop, ValidatorInv, Validated, Sides
<1> QED
  BY <1>1, InitIInv, ReadInit DEF RefInv

LEMMA RefStep == RefInv /\ [Next]_vars => RefInv'
<1> SUFFICES ASSUME RefInv, [Next]_vars PROVE RefInv'
  OBVIOUS
<1>1. IInv'
  BY NextIInv DEF RefInv
<1>2. \A s \in Sides : ReadInv(s)'
  BY ReadInvStep DEF RefInv
<1>3. LoopInv'
  <2>1. CASE Main
    <3> MainFrame
      BY <2>1 DEF Main, MainFrame
    <3>1. ASSUME NEW s \in Sides, DrainOne(s) \/ DrainEmpty(s) \/ Join(s) PROVE LoopInv'
      <4>1. /\ mpc \in AfterLoop /\ mpc' \in AfterLoop /\ UNCHANGED <<results, exc>>
            /\ UNCHANGED input
        BY <3>1 DEF DrainOne, DrainEmpty, Join, DrainPc, JoinPc, AfterLoop, MainFrame
      <4> QED
        BY <4>1, QuietStep
    <3>2. \/ Preflight \/ RaiseReaderError \/ BothDone \/ LengthMismatch \/ CompareFields
          \/ \E s \in Sides : Get(s) \/ CheckStep(s)
          \/ \E s \in Sides : DrainOne(s) \/ DrainEmpty(s) \/ Join(s)
      BY <2>1 DEF Main
    <3> QED
      BY <1>1, <3>1, <3>2, PreflightRefines, RaiseRefines, BothDoneRefines, LengthRefines,
         FieldsRefine, GetRefines, CheckStepRefines
  <2>2. ASSUME NEW s \in Sides, Reader(s) PROVE LoopInv'
    BY <2>2, QuietStep DEF Reader, main
  <2>3. CASE UNCHANGED vars
    BY <2>3, QuietStep DEF vars, main
  <2> QED
    BY <2>1, <2>2, <2>3 DEF Next, Idle
<1> QED
  BY <1>1, <1>2, <1>3 DEF RefInv

LEMMA StepRefines ==
  ASSUME RefInv, RefInv', [Next]_vars
  PROVE  [Contract!Next]_<<cfg, log, Verdict>>
<1>1. UNCHANGED <<cfg, log>>
  BY DEF Next, Main, Reader, Idle, vars, input
<1>2. CASE Verdict' = Verdict
  BY <1>1, <1>2
<1>3. CASE Verdict' # Verdict
  <2>1. ~Finished /\ Finished'
    <3>1. CASE UNCHANGED <<mpc, results, exc>>
      BY <1>3, <3>1 DEF Verdict, Finished
    <3>2. CASE ~Finished
      BY <1>3, <3>2 DEF Verdict, Finished
    <3>3. CASE Finished /\ Main
      BY <3>3 DEF Finished, Main, Preflight, Get, CheckStep, RaiseReaderError, BothDone,
         LengthMismatch, CompareFields, DrainOne, DrainEmpty, Join, DrainPc, JoinPc
    <3> QED
      BY <3>1, <3>2, <3>3 DEF Next, Reader, main, Idle, vars
  <2>2. Outcome' \in Contract!Allowed'
    BY <2>1 DEF RefInv, LoopInv, Finished, AfterLoop
  <2>3. Contract!Allowed' = Contract!Allowed
    BY <1>1, SameContract DEF input
  <2>4. Verdict = Contract!Running /\ Verdict' = Outcome'
    BY <2>1 DEF Verdict, Outcome, Contract!Running, Contract!Raised, Contract!Result
  <2> QED
    BY <1>1, <2>2, <2>3, <2>4 DEF Contract!Next, Contract!Decide
<1> QED
  BY <1>2, <1>3

(* compare() with its threads implements the sequential comparison: what it *)
(* returns is the report of lockstep reading, cut at the limit, whatever    *)
(* the schedule, and it raises only for a refused step or a failed stream.  *)
THEOREM ImplementsContract == Spec => ContractHolds
<1>1. Init => Contract!Init
  BY DEF Init, Contract!Init, Contract!Running, Verdict, Finished
<1>2. RefInv /\ RefInv' /\ [Next]_vars => [Contract!Next]_<<cfg, log, Verdict>>
  BY StepRefines
<1> QED
  BY <1>1, <1>2, RefInit, RefStep, PTL DEF Spec, ContractHolds, Contract!Spec
=============================================================================
