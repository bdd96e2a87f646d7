---------------------------- MODULE ManifestDoc ----------------------------
(***************************************************************************)
(* The run manifest as data.  A manifest is a JSON object whose top-level  *)
(* keys hold a value or a section; a path is <<key, entry>>, and           *)
(* <<key, Whole>> stands for the key itself, when it holds no section.     *)
(* Deeper nesting is part of an entry's value.                             *)
(***************************************************************************)
EXTENDS FiniteSets
CONSTANTS Keys, Entries, Whole, Values, NoValue

ASSUME DocAssumption == Whole \notin Entries /\ NoValue \notin Values

Paths == Keys \X (Entries \union {Whole})

\* A key holds a value, a section or nothing, never a value and a section.
Docs == {d \in [Paths -> Values \union {NoValue}] :
           \A q \in Paths : d[q] # NoValue /\ q[2] # Whole => d[<<q[1], Whole>>] = NoValue}

\* The dictionaries of updates: some of the paths, each with its new value.
\* No caller sets a key and an entry of it in one dictionary.
Updates == {u \in UNION {[D -> Values] : D \in SUBSET Paths} :
              \A q \in DOMAIN u : q[2] # Whole => <<q[1], Whole>> \notin DOMAIN u}

\* _apply raises ManifestPathConflict: a prefix holds something that is not
\* an object.
Conflicts(d, u) == \E q \in DOMAIN u : q[2] # Whole /\ d[<<q[1], Whole>>] # NoValue

\* _apply on a copy: setting a key whole drops the entries it held.
Applied(d, u) ==
  [q \in Paths |-> IF q \in DOMAIN u THEN u[q]
                   ELSE IF <<q[1], Whole>> \in DOMAIN u THEN NoValue ELSE d[q]]

\* Mutation: the whole in-memory copy is sent back, not only what changed.
ChangedKeys_All(base, mine) ==
  [q \in {r \in Paths : mine[r] # NoValue} |-> mine[q]]

\* changed_keys: what a verifier's copy holds and its snapshot did not.
ChangedKeys(base, mine) ==
  [q \in {r \in Paths : mine[r] # NoValue /\ mine[r] # base[r]} |-> mine[q]]
=============================================================================
