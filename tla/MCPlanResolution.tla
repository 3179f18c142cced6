--------------------------- MODULE MCPlanResolution ---------------------------
EXTENDS PlanResolution, TLC
CONSTANTS c1, c2, t1, t2
GenreTypes == c1 :> t1 @@ c2 :> t2
=============================================================================
