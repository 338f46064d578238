----------------------------- MODULE MCToolOperator -----------------------------
(***************************************************************************)
(* Small instances of the tool operator on those of the policy engine.     *)
(***************************************************************************)
EXTENDS ToolOperator

CONSTANTS g1, o1, o2, p1, e1, a1, t1, x1, x2, probe, reader, read_only, active

lab == [type |-> "lab", effects |-> {read_only, active}, network |-> TRUE]
MCContents == {lab}

cost == [x \in Resources |-> IF x = "tool_calls" THEN 1 ELSE 0]

r4_flags == {"extended_operations", "comprehensive_assessment"}

\* Revision 2 withdraws the flag of the comprehensive profile.
Manifest(n, flags) ==
    [id |-> e1, revision |-> n, expires |-> 1, progression |-> FALSE,
     scope |-> [a \in {a1} |-> lab], maximumRisk |-> 4, flags |-> flags,
     budget |-> "default", auto |-> TRUE, maxEngagementToolCalls |-> 2,
     limits |-> [x \in Limited |-> IF x = "tool_calls" THEN 2 ELSE 1]]

MCManifests == { Manifest(1, r4_flags), Manifest(2, {"extended_operations"}) }

base == [name |-> "observed", risk |-> 2, effects |-> {read_only}, network |-> FALSE,
         flag |-> None, approval |-> FALSE, bytes |-> 1]
comprehensive == [name |-> "comprehensive", risk |-> 4, effects |-> {active},
                  network |-> TRUE, flag |-> "comprehensive_assessment", approval |-> TRUE,
                  bytes |-> 2]

MCToolManifest ==
    [t \in {probe, reader} |->
        [accepts |-> IF t = probe THEN {"lab"} ELSE {"repository"}, base |-> base,
         profiles |-> {comprehensive},
         arguments |-> {[fixed |-> "template", bounded |-> 1]}]]

MCTaskSpec ==
    [t \in {t1} |-> [engagement |-> e1, assets |-> {[alias |-> a1, revision |-> 0]},
                     risk |-> 4, allowed |-> {read_only, active}, prohibited |-> {}]]

Request(action, tool, profile, n) ==
    [action |-> action, task |-> t1, tool |-> tool, profile |-> profile,
     target |-> [alias |-> a1, revision |-> 0], cost |-> cost,
     arguments |-> [fixed |-> "template", bounded |-> n], kill_switch_armed |-> TRUE]

\* The second action names a tool its asset is not for.
MCRequests == { Request(x1, probe, "comprehensive", 1), Request(x2, reader, None, 1) }

\* An output with a secret, and one no profile lets through.
MCOutputs ==
    { [artifact |-> "rich", secrets |-> {"s1"}, bytes |-> 1],
      [artifact |-> "huge", secrets |-> {}, bytes |-> 3] }

MCR4Limit == [b \in {"default"} |-> 2]
================================================================================
