------------------------------ MODULE Requests ------------------------------
(***************************************************************************)
(* Sessions that serve one request at a time, a step per database          *)
(* statement or Redis command; each keeps what its request has read.       *)
(***************************************************************************)
EXTENDS Integers, FiniteSets

CONSTANTS
    Sessions,
    Budgets,    \* bound: requests per kind the clients and admins send
    None

VARIABLES
    pc, job,    \* per session, the next step and what the request holds
    left        \* per kind, the requests still to come

RequestsInit ==
    /\ left \in Budgets
    /\ pc = [s \in Sessions |-> "idle"]
    /\ job = [s \in Sessions |-> None]

Goto(s, label) == pc' = [pc EXCEPT ![s] = label]
Work(s, label, j) == Goto(s, label) /\ job' = [job EXCEPT ![s] = j]
End(s) == Work(s, "idle", None)
Others(s, label) == {t \in Sessions \ {s} : pc[t] = label}

\* A request of this kind arrives.
Request(s, kind) ==
    /\ pc[s] = "idle"
    /\ left[kind] > 0
    /\ left' = [left EXCEPT ![kind] = @ - 1]

=============================================================================
