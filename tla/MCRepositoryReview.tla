--------------------------- MODULE MCRepositoryReview ---------------------------
(***************************************************************************)
(* Instances of RepositoryReview for TLC.                                  *)
(***************************************************************************)
EXTENDS RepositoryReview, TLC

CONSTANTS clean, leaky, v1, v2

MCSecretsIn == (clean :> {}) @@ (leaky :> {v1, v2})

MCFindings == Reviews \X Files

MCRecords ==
    {EvidenceRow(r, k, None, None) : r \in Reviews,
                                     k \in {"repository_inventory", "dependency_record"}}
        \cup
    {EvidenceRow(r, SignalKinds[i], s, c) : r \in Reviews, i \in DOMAIN SignalKinds,
                                            s \in Files, c \in Contents}

MCVerifications ==
    {ReviewVerification, [verdict |-> "confirmed", claim |-> TRUE, impact |-> TRUE]}
================================================================================
