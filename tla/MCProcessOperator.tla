--------------------------- MODULE MCProcessOperator ---------------------------
(***************************************************************************)
(* A small instance of the process operator: one engagement that budgets   *)
(* one call, a tool whose profile is the restricted one, and two agents    *)
(* that authorize, race for the grant and execute.                         *)
(***************************************************************************)
EXTENDS ProcessOperator, TLC

CONSTANTS p1, g1, g2, e1, a1, t1, read

MCManifests ==
    { [id |-> e1, revision |-> 1, assets |-> <<[alias |-> a1, type |-> "lab", effects |-> {read}]>>,
       created |-> 0, expires |-> 2, maximumRisk |-> 1, flags |-> {}, prohibited |-> {},
       selfAttested |-> TRUE, maxCalls |-> 1, maxRuntime |-> 1] }

MCToolManifest ==
    [probe |-> [accepts |-> {"lab"},
       profiles |-> << [name |-> "restricted", risk |-> 1, effects |-> {read},
                        timeout |-> 1, flag |-> None] >>]]

MCRequests ==
    { [engagement |-> e1, alias |-> a1, revision |-> 0, tool |-> "probe", effects |-> {read},
       timeout |-> 1, root |-> t1, preferred |-> None] }

\* The second command is for other profiles.
MCCommands == { {"restricted"}, {"comprehensive"} }
================================================================================
