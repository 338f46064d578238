--------------------------- MODULE MCSingleFilePolicy ---------------------------
(***************************************************************************)
(* A small instance of the single-file policy engine: one engagement of    *)
(* two revisions, one asset alias, and one tool with a read-only base      *)
(* profile and an R4 profile behind a flag.                                *)
(***************************************************************************)
EXTENDS SingleFilePolicy, TLC

CONSTANTS p1, p2, g1, g2, e1, a1, t1, read, active

Asset(effects) == [alias |-> a1, type |-> "lab", effects |-> effects]

Manifest(revision, assets, expires, risk, flags, attested, maxCalls) ==
    [id |-> e1, revision |-> revision, assets |-> assets, created |-> 0, expires |-> expires,
     maximumRisk |-> risk, flags |-> flags, prohibited |-> {"destructive"},
     selfAttested |-> attested, maxCalls |-> maxCalls, maxRuntime |-> 1]

\* Revision 1 attests its own approvals; revision 2 does not, ends earlier and allows
\* fewer calls.
MCManifests ==
    { Manifest(1, <<Asset({read, active})>>, 3, R4, {"extended"}, TRUE, 2),
      Manifest(2, <<Asset({read, active})>>, 2, R4, {"extended"}, FALSE, 1) }

MCToolManifest ==
    [probe |-> [accepts |-> {"lab"},
       profiles |-> << [name |-> "observed", risk |-> 1, effects |-> {read},
                        timeout |-> 2, flag |-> None],
                       [name |-> "comprehensive", risk |-> R4, effects |-> {active},
                        timeout |-> 1, flag |-> "extended"] >>]]

Request(revision, effects, timeout, preferred) ==
    [engagement |-> e1, alias |-> a1, revision |-> revision, tool |-> "probe",
     effects |-> effects, timeout |-> timeout, root |-> t1, preferred |-> preferred]

\* Read the latest revision for two units of runtime, or probe the first one.
MCRequests == { Request(0, {read}, 2, None), Request(1, {active}, 1, "comprehensive") }


MCRoots == {t1}
Symmetry == Permutations(Registrars) \cup Permutations(Agents)
================================================================================
