----------------------------- MODULE RtlAdapter -----------------------------
(***************************************************************************)
(* Signature files, and the two programs between the compliance runner and *)
(* the simulated design: the adapter (AGENT_E/run_rtl_adapter.py) and the  *)
(* simulation backend it starts (AGENT_B/backends/run_rtl.py).             *)
(*                                                                         *)
(* A signature file is a sequence of lines: "zero" and "one" stand for     *)
(* 32-bit words written with eight digits, "short" for the word one        *)
(* written with fewer, "junk" for a comment or a line that is not          *)
(* hexadecimal. The empty sequence is a file of size zero.                 *)
(***************************************************************************)
EXTENDS Sequences, Integers, FiniteSetsExt

CONSTANTS NoFile,       \* no file of that name
          Files         \* the signature files a simulator may write

ASSUME FilesAssumption ==
  Files \subseteq Seq({"zero", "one", "short", "junk"}) /\ NoFile \notin Files

NonEmpty(file) == file # NoFile /\ file # <<>>

-----------------------------------------------------------------------------
(* What the runner reads from a file and how it compares two of them.      *)

Word(line) == IF line = "short" THEN "one" ELSE line

ParseSignature(file) ==
  LET hex(line) == line # "junk"
      kept      == SelectSeq(file, hex)
  IN  [i \in DOMAIN kept |-> Word(kept[i])]

Padded(words, i) == IF i \in DOMAIN words THEN words[i] ELSE "zero"

Mismatches(golden, dut) ==
  {i \in DOMAIN golden \cup DOMAIN dut : Padded(golden, i) # Padded(dut, i)}

FirstMismatch(golden, dut) ==
  IF Mismatches(golden, dut) = {} THEN -1 ELSE Min(Mismatches(golden, dut)) - 1

-----------------------------------------------------------------------------
(* The backend's end: how it returned, the file it left, and whether it    *)
(* wrote it where it was told to or under its own default name. An exit    *)
(* code of 1 means the program under test failed; 2 stands for any crash.  *)
BackendEnds ==
  [returned : {"0", "1", "2", "timeout", "missing"},
   file : Files \cup {NoFile}, asked : BOOLEAN]

\* Of a run that failed, only what is already under the asked name remains.
Left(b) == IF b.asked THEN b.file ELSE NoFile

ValidContent(file) == \E i \in DOMAIN file : file[i] \in {"zero", "one"}

\* The adapter's exit code and the file under the runner's name afterwards.
RunAdapter(b) ==
  CASE b.returned = "missing"            -> [exit |-> 3, file |-> NoFile]
    [] b.returned \in {"2", "timeout"}   -> [exit |-> 2, file |-> Left(b)]
    [] ~NonEmpty(b.file)                 -> [exit |-> 2, file |-> Left(b)]
    [] ~ValidContent(b.file)             -> [exit |-> 2, file |-> b.file]
    [] OTHER                             -> [exit |-> 0, file |-> b.file]

\* The adapter may also refuse before it starts the backend.
AdapterEnds ==
  {RunAdapter(b) : b \in BackendEnds} \cup {[exit |-> e, file |-> NoFile] : e \in 2..3}

=============================================================================
