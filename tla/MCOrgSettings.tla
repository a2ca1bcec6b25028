---------------------------- MODULE MCOrgSettings ----------------------------
(* One appearance field, two of the packs of module-packs.ts, cut down to the  *)
(* modules that tell them apart.                                               *)
EXTENDS OrgSettings, TLC

MCFields == {"logoUrl"}
MCModules == {"overview", "tasks", "invoices"}
MCRequired == {"overview"}
MCPacks == {"core", "sales"}
MCPackModules == [core |-> {"overview", "tasks"}, sales |-> {"overview", "invoices"}]
Symmetry == Permutations(Reqs)

\* An organization founded through the API: its onboarding begins with false.
NewSpec == Init /\ row.onboarding = "false" /\ [][Next]_vars
=============================================================================
