------------------------------- MODULE Tenant -------------------------------
(***************************************************************************)
(* One tenant: who its users are and how they get in (Registration,        *)
(* Access), what they hold (Catalogue), what they may use (Services), what *)
(* it costs them (Schedules) and the payments they make (Flows), served by *)
(* the same sessions, any of which may die between two steps.              *)
(***************************************************************************)
EXTENDS Access, Flows

Init == AccessInit /\ CatalogueInit /\ ServicesInit /\ SchedulesInit /\ FlowsInit

accountVars == <<registrationVars, accessVars>>

\* What the gates of a payment read.
rules ==
    <<status, types, typeOf, superior, roles, holders, coins, wallets, services, granted, denied, rows>>

\* A change of the rules is noted for every payment under way.
Stir ==
    /\ stirred' = IF rules' = rules THEN stirred ELSE stirred \cup Paying
    /\ UNCHANGED receipts

Next ==
    \/ AccessNext /\ UNCHANGED <<catalogueVars, servicesVars, schedulesVars>> /\ Stir
    \/ CatalogueNext /\ UNCHANGED <<accountVars, servicesVars, schedulesVars>> /\ Stir
    \/ ServicesNext /\ UNCHANGED <<accountVars, schedulesVars>> /\ Stir
    \/ SchedulesNext /\ UNCHANGED accountVars /\ Stir
    \/ FlowsNext(status = "active") /\ UNCHANGED accountVars

vars == <<accountVars, catalogueVars, servicesVars, schedulesVars, flowsVars, pc, job, left>>

Spec == Init /\ [][Next]_vars

\* Every variable keeps its type, the index of sessions lives exactly as long
\* as it has a token, no permission is granted and denied at once, and no two
\* rows of a schedule have one scope and one lower bound.
TypeOK ==
    /\ AccessTypeOK /\ CatalogueTypeOK /\ ServicesTypeOK /\ SchedulesTypeOK
    /\ receipts \in [OrderKeys -> Subscriber \cup External \cup {None}]
    /\ pc \in [Sessions -> AccessLabels \cup CatalogueLabels \cup SchedulesLabels
                             \cup {"catalog", "pay"}]

=============================================================================
