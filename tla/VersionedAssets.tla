---------------------------- MODULE VersionedAssets ----------------------------
(***************************************************************************)
(* What "Immutable versioned asset identities" (IMPLEMENTATION_STATUS.md)  *)
(* promises, without tables, transactions or callers: an alias gets an     *)
(* owner once, and its history of contents only ever grows at the end.     *)
(***************************************************************************)
EXTENDS Naturals, Sequences

CONSTANTS Aliases, Owners, Contents, None

VARIABLES owner, history

Init ==
    /\ owner = [a \in Aliases |-> None]
    /\ history = [a \in Aliases |-> <<>>]

\* One engagement extends the aliases of "update" by one version each, atomically,
\* becoming the owner of those that had none.
Extend(e, update) ==
    /\ \A a \in DOMAIN update : owner[a] \in {None, e}
    /\ owner' = [a \in Aliases |-> IF a \in DOMAIN update THEN e ELSE owner[a]]
    /\ history' = [a \in Aliases |->
                      IF a \in DOMAIN update THEN Append(history[a], update[a])
                                             ELSE history[a]]

Next == \E e \in Owners, S \in SUBSET Aliases : \E update \in [S -> Contents] : Extend(e, update)

Spec == Init /\ [][Next]_<<owner, history>>
================================================================================
