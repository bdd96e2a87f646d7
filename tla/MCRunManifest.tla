--------------------------- MODULE MCRunManifest ---------------------------
(* Small instances of RunManifest. *)
EXTENDS RunManifest, TLC
CONSTANTS phases, s1, s2, a, b

\* An entry of the section, the other one, both, or the section's key itself.
MCOffered == {<<phases, s1>> :> a, <<phases, s2>> :> a, <<phases, Whole>> :> a,
              <<phases, s1>> :> b @@ <<phases, s2>> :> b}

\* Corrupt, empty, or with one entry from an earlier run.
MCInitial == {Torn, Blank, [Blank EXCEPT ![<<phases, s1>>] = a]}
=============================================================================
