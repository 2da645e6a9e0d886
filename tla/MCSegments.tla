----------------------------- MODULE MCSegments -----------------------------
(***************************************************************************)
(* Two tiers of one group, another group, and room for a third segment; a  *)
(* rule and a multiplier to come.                                          *)
(***************************************************************************)
EXTENDS Segments, TLC

CONSTANTS Tiers, Other, Visits, Spend

Bound(metric, gte, lte) == [metric |-> metric, gte |-> gte, lte |-> lte, eq |-> None]

Active == [op |-> "OR", conditions |-> {Bound(Visits, 1, None), Bound(Spend, 1, None)}]
Dormant == [op |-> "AND", conditions |-> {Bound(Visits, None, 0), Bound(Spend, None, 0)}]

MCCriteria == {Active, Dormant}

Tier(priority, criteria) ==
    [group |-> Tiers, priority |-> priority, criteria |-> criteria, stamped |-> FALSE]

MCSeeded == 1 :> Tier(1, Active) @@ 2 :> Tier(2, Active)

\* No rule, one for everybody, or one for the second tier.
MCLaunched ==
    {[r \in RuleIds |-> row] :
        row \in {None} \cup [segment: {None, 2}, status: {"active"}]}

\* One recompute at a time where rules or multipliers are about.
OneRecompute ==
    \/ rules = [r \in RuleIds |-> None] /\ boosts = [k \in Keys |-> None]
    \/ Cardinality({e \in Evaluators : pc[e] # "idle"}) <= 1

MCSymmetry == Permutations(Evaluators) \cup Permutations(Admins)

=============================================================================
