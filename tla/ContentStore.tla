------------------------------ MODULE ContentStore ------------------------------
(***************************************************************************)
(* What a content-addressed store promises to those who name its contents: *)
(* a name shows nothing or the whole content, once and for all, and a name *)
(* that is recorded can be read.                                           *)
(***************************************************************************)
CONSTANTS
    Names   \* of artifacts and vault items

VARIABLES
    shown,    \* name -> what a reader finds: "none" or "complete"
    recorded  \* names with a row

contentVars == <<shown, recorded>>

Init ==
    /\ shown = [n \in Names |-> "none"]
    /\ recorded = {}

Keep(n) ==
    /\ shown' = [shown EXCEPT ![n] = "complete"]
    /\ UNCHANGED recorded

Index(n) ==
    /\ shown[n] = "complete"
    /\ recorded' = recorded \cup {n}
    /\ UNCHANGED shown

Next == \E n \in Names : Keep(n) \/ Index(n)

Spec == Init /\ [][Next]_contentVars
================================================================================
