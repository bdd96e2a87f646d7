------------------------ MODULE MCCommitLogCompare ------------------------
(* Small logs for CommitLogCompare. *)
EXTENDS CommitLogCompare

MCEntries == {[step |-> 1, v |-> "a"], [step |-> 1, v |-> "b"], [step |-> 2, v |-> "a"]}

\* Two issues between different values: one comparison can overrun the limit.
MCIssues(r, i) == IF r.v = i.v THEN 0 ELSE 2

Config(m, st, mp, h) == [max |-> m, strict |-> st, maxParse |-> mp, badHashes |-> h]

MCConfigs == {Config(1, FALSE, 1, 0), Config(0, FALSE, 2, 0), Config(2, FALSE, 0, 1),
              Config(3, TRUE, 2, 0), Config(1, FALSE, 1, 2)}

\* The smallest instance in which a reader is left behind.
FewEntries == {[step |-> 1, v |-> "a"], [step |-> 2, v |-> "b"]}
FewConfigs == {Config(1, FALSE, 1, 0), Config(0, TRUE, 0, 0)}
=============================================================================
