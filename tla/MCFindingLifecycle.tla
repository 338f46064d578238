--------------------------- MODULE MCFindingLifecycle ---------------------------
(***************************************************************************)
(* Instances of FindingLifecycle for TLC.                                  *)
(***************************************************************************)
EXTENDS FindingLifecycle, TLC

Record(id, type, class, matched, refs) ==
    [id |-> id, type |-> type, class |-> class, matched |-> matched, refs |-> refs]

\* Just enough for a dependency advisory, of two classes.
DependencyRecords ==
    {Record("e1", "dependency_record", "manifest", FALSE, {}),
     Record("e2", "advisory_record", "manifest", FALSE, {}),
     Record("e3", "version_match", "checker", TRUE, {}),
     Record("e4", "counterevidence_search", "manifest", FALSE, {})}

\* What review_repository records for a secret signal, and a pattern match that left
\* nothing in the vault.
SecretRecords ==
    {Record("e1", "source_location", "source", FALSE, {}),
     Record("e2", "secret_pattern_match", "detector", FALSE, {"v1"}),
     Record("e3", "vault_confirmation", "vault", FALSE, {}),
     Record("e4", "counterevidence_search", "search", FALSE, {}),
     Record("e5", "secret_pattern_match", "detector", FALSE, {})}

V(verdict, claim, impact) == [verdict |-> verdict, claim |-> claim, impact |-> impact]

MCVerifications == {V("confirmed", TRUE, TRUE), V("rejected", FALSE, FALSE)}

Symmetry == Permutations(Callers)
================================================================================
