---------------------------- MODULE MCAppModules ----------------------------
(* A small instance of AppModules: that of MCOrgSettings; three module lists,  *)
(* one of them suggested and then changed by hand, and four places, which the  *)
(* guard, the onboarding page and the tour treat unlike.                       *)
EXTENDS MCOrgSettings, AppModules

MCLists ==
    {ModulesForPack["core"], ModulesForPack["sales"],
     MergeRequiredModules(SuggestModules({"customers_sales"}, "it_agency", "few")
                          \ {"projects", "team"})}
MCGoals == {At("dashboard"), At("onboarding"), At("customers"), Tab("workspace")}
=============================================================================
