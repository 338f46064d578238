------------------------------ MODULE GrantLedger ------------------------------
(***************************************************************************)
(* What "Signed, short-lived, single-use execution grants"                 *)
(* (IMPLEMENTATION_STATUS.md) promises, without policy, tables or callers: *)
(* an action is granted at most once, a grant is spent at most once and    *)
(* only before it expires, and no entry is ever altered otherwise.         *)
(***************************************************************************)
EXTENDS Naturals, Sequences

CONSTANTS Actions, GrantTTL

VARIABLES now, ledger

Init == now = 0 /\ ledger = <<>>

Issue(a, lifetime) ==
    /\ \A i \in DOMAIN ledger : ledger[i].action # a
    /\ ledger' = Append(ledger, [action |-> a, expires |-> now + lifetime, spent |-> FALSE])
    /\ UNCHANGED now

Spend(i) ==
    /\ ~ledger[i].spent
    /\ now < ledger[i].expires
    /\ ledger' = [ledger EXCEPT ![i] = [action |-> @.action, expires |-> @.expires,
                                        spent |-> TRUE]]
    /\ UNCHANGED now

Advance == now' = now + 1 /\ UNCHANGED ledger

Next ==
    \/ \E a \in Actions : Issue(a, GrantTTL)
    \/ \E i \in DOMAIN ledger : Spend(i)
    \/ Advance

Spec == Init /\ [][Next]_<<now, ledger>>
================================================================================
