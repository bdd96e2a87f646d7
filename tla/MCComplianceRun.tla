-------------------------- MODULE MCComplianceRun --------------------------
(* Small instances of ComplianceRun. *)
EXTENDS ComplianceRun, TLC

\* No word at all, one word in two spellings, and the same with a trailing zero.
MCFiles == {<<"junk">>, <<"one">>, <<"short", "zero">>}
=============================================================================
