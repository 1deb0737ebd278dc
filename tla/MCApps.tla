--------------------------------- MODULE MCApps ---------------------------------
(* The administration console: a page of it, the floor-plan builder, or the *)
(* operator's session; and the workbench of the developer documentation.  A *)
(* behaviour is about one of the four.                                      *)
EXTENDS AdminConsole, LayoutBuilder, AdminSession, DocsWorkbench

CONSTANT Parts

VARIABLE part

Mishaps == [p \in Pages |-> IF p \in {"event", "restrictions", "partner"} THEN 1 ELSE 2]
AllPages == Pages

Area(type, n, amount, uniform) ==
    [key |-> <<type, n>>, type |-> type, name |-> "GIVEN",
     places |-> [by |-> "API", amount |-> amount, uniform |-> uniform]]
SomeDrafts ==
    {{Area("RESERVED", 2, 2, TRUE)}, {Area("RESERVED", 1, 2, FALSE)}, {Area("GA", 1, 0, TRUE)}}

AppsInit ==
    /\ part \in Parts
    /\ Init /\ BuilderInit /\ SessionInit /\ DocsInit
    /\ part # "console" => page = "access"
    /\ part # "builder" => draft = {Area("GA", 1, 0, TRUE)}
    /\ part # "session" => where = "console" /\ account = "READY" /\ browser = "FULL"

AppsNext ==
    /\ \/ part = "console" /\ Next /\ UNCHANGED <<builderVars, sessionVars, docsVars>>
       \/ part = "builder" /\ BuilderNext /\ UNCHANGED <<vars, sessionVars, docsVars>>
       \/ part = "session" /\ SessionNext /\ UNCHANGED <<vars, builderVars, docsVars>>
       \/ part = "docs" /\ DocsNext /\ UNCHANGED <<vars, builderVars, sessionVars>>
    /\ UNCHANGED part

AppsSpec == AppsInit /\ [][AppsNext]_<<part, vars, builderVars, sessionVars, docsVars>>
================================================================================
