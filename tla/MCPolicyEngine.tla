----------------------------- MODULE MCPolicyEngine -----------------------------
(***************************************************************************)
(* Small instances of the policy engine: one lab asset, one tool with a    *)
(* base profile and two that need a flag and an approval, and manifests    *)
(* and requests that make the interesting cases of each run.               *)
(***************************************************************************)
EXTENDS PolicyEngine, TLC

CONSTANTS g1, g2, p1, e1, a1, t1, t2, x1, x2, x3, probe, reader, read_only, active

lab == [type |-> "lab", effects |-> {read_only, active}, network |-> TRUE]
MCContents == {lab}

\* tool_calls is the limited resource that binds, retries one that is only summed.
cost == [x \in Resources |-> IF x \in {"tool_calls", "retries"} THEN 1 ELSE 0]

Manifest(n, expires, auto, progression, flags, budget, calls, risk) ==
    [id |-> e1, revision |-> n, expires |-> expires, progression |-> progression,
     scope |-> [a \in {a1} |-> lab], maximumRisk |-> risk, flags |-> flags,
     budget |-> budget, auto |-> auto, maxEngagementToolCalls |-> 2,
     limits |-> [x \in Limited |-> IF x = "tool_calls" THEN calls ELSE 1]]

r4_flags == {"extended_operations", "comprehensive_assessment"}

\* Revision 1 is wide open; revision 2 withdraws R4 and automatic approval.
DriftManifests ==
    { Manifest(1, 1, TRUE, TRUE, r4_flags, "default", 2, 4),
      Manifest(2, 2, FALSE, FALSE, {"extended_operations"}, "default", 1, 3) }

\* Two budgets, and R4 under both.
RaceManifests ==
    { Manifest(1, 2, TRUE, FALSE, r4_flags, "default", 2, 4),
      Manifest(2, 2, TRUE, FALSE, r4_flags, "extended", 1, 4) }

base == [name |-> "observed", risk |-> 2, effects |-> {read_only}, network |-> FALSE,
         flag |-> None, approval |-> FALSE]
validation == [name |-> "active_validation", risk |-> 3, effects |-> {active},
               network |-> TRUE, flag |-> "extended_operations", approval |-> TRUE]
comprehensive == [name |-> "comprehensive", risk |-> 4, effects |-> {active},
                  network |-> TRUE, flag |-> "comprehensive_assessment", approval |-> TRUE]

MCToolManifest ==
    [t \in {probe, reader} |-> [accepts |-> IF t = probe THEN {"lab"} ELSE {"repository"}, base |-> base,
                        profiles |-> {validation, comprehensive},
                        arguments |-> {[fixed |-> "template", bounded |-> n] : n \in 1..2}]]

MCTaskSpec ==
    [t \in {t1, t2} |-> [engagement |-> e1, assets |-> {[alias |-> a1, revision |-> 0]},
                         risk |-> 4, allowed |-> {read_only, active}, prohibited |-> {}]]

Request(action, task, tool, profile, n) ==
    [action |-> action, task |-> task, tool |-> tool, profile |-> profile,
     target |-> [alias |-> a1, revision |-> 0], cost |-> cost,
     arguments |-> [fixed |-> "template", bounded |-> n], kill_switch_armed |-> TRUE]

\* Two actions of one task; the arguments of the second are outside an automatic
\* approval of the first.
DriftRequests == { Request(x1, t1, probe, "active_validation", 1),
                   Request(x2, t1, probe, "comprehensive", 2) }

\* A retried action, two R4 actions, and a second task with a budget of its own.
RaceRequests == { Request(x1, t1, probe, "comprehensive", 1),
                  Request(x2, t1, probe, "comprehensive", 1),
                  Request(x3, t2, probe, None, 1) }

MCR4Limit == [b \in {"default", "extended"} |-> IF b = "default" THEN 1 ELSE 2]

Symmetry == Permutations({g1, g2})
================================================================================
