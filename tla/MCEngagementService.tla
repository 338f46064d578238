-------------------------- MODULE MCEngagementService --------------------------
(***************************************************************************)
(* Two engagements that declare a common alias, manifests that add, change *)
(* and revert an asset, with and without permission to progress it.        *)
(***************************************************************************)
EXTENDS EngagementService, TLC

CONSTANTS p1, p2, e1, e2, a1, a2, file_read, file_search

plain  == [type |-> "repository", effects |-> {file_read}]
wide   == [type |-> "repository", effects |-> {file_read, file_search}]

MCContents == {plain, wide}

\* The same revision number is declared twice: registrations can collide.
MCManifests ==
    { [id |-> e1, revision |-> 1, expires |-> 1, progression |-> TRUE,
       scope |-> [a \in {a1} |-> plain]],
      [id |-> e1, revision |-> 2, expires |-> 2, progression |-> FALSE,
       scope |-> [a \in {a1, a2} |-> IF a = a1 THEN plain ELSE wide]],
      [id |-> e1, revision |-> 2, expires |-> 2, progression |-> TRUE,
       scope |-> [a \in {a1} |-> wide]],
      [id |-> e2, revision |-> 1, expires |-> 2, progression |-> TRUE,
       scope |-> [a \in {a2} |-> plain]] }

Symmetry == Permutations(Procs)
================================================================================
