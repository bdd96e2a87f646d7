------------------------- MODULE MCVerificationRun -------------------------
(* Small instances of VerificationRun. *)
EXTENDS VerificationRun, TLC

C(pc, rd, val) == [pc |-> pc, rd |-> rd, val |-> val]

\* The reference program, and the same with one more commit, in the tolerance.
Golden == <<C(1, 1, 1), C(2, 2, 1), C(3, NoReg, 0)>>
MCIssLogs == {<<>>, Golden, Append(Golden, C(1, 1, 2))}

\* Right; a wrong value; a register not written; another one; an extra commit the walk
\* gets over; another path; cut short beyond the tolerance.
MCRtlLogs ==
  {<<>>, Golden,
   <<C(1, 1, 1), C(2, 2, 2), C(3, NoReg, 0)>>,
   <<C(1, 1, 1), C(2, NoReg, 0), C(3, NoReg, 0)>>,
   <<C(1, 1, 1), C(2, 3, 1), C(3, NoReg, 0)>>,
   <<C(1, 1, 1), C(9, 2, 1), C(2, 2, 1), C(3, NoReg, 0)>>,
   <<C(9, 1, 1), C(8, 2, 2)>>, <<C(1, 1, 1)>>}

\* An agent, a checker of the logs, a checker whose report file has the
\* agent's name, one of the sources that may be missing, and the last two.
MCKind == <<"agent", "inprocess", "checker", "inprocess", "advisory", "twin">>
MCNamesake == <<0, 0, 1, 0, 0, 0>>
=============================================================================
