----------------------------- MODULE RewardOnce -----------------------------
(***************************************************************************)
(* What the rewards pipeline promises: a firing (a rule, for an event) is  *)
(* paid at most once, with an amount that never changes, only for an event *)
(* that really happened, never for one that was turned away, and it is     *)
(* logged at most once and only when it was paid.  Rewards.tla implements  *)
(* this specification.                                                     *)
(***************************************************************************)
CONSTANTS Rules, Events, Amounts, None

VARIABLES
    stage,  \* per event: "unknown", "open" or "closed"
    paid,   \* per firing: the amount on the ledger, or None
    logged  \* per firing: the amount in the user's reward history, or None

Firings == Rules \X Events

OnceInit ==
    /\ stage \in [Events -> {"unknown", "open"}]
    /\ paid = [f \in Firings |-> None]
    /\ logged = [f \in Firings |-> None]

Open(e) ==
    /\ stage[e] = "unknown"
    /\ stage' = [stage EXCEPT ![e] = "open"]
    /\ UNCHANGED <<paid, logged>>

Close(e) ==
    /\ stage[e] = "open"
    /\ \A r \in Rules : paid[<<r, e>>] = None
    /\ stage' = [stage EXCEPT ![e] = "closed"]
    /\ UNCHANGED <<paid, logged>>

PayOnce(f, n) ==
    /\ stage[f[2]] = "open"
    /\ paid[f] = None
    /\ paid' = [paid EXCEPT ![f] = n]
    /\ UNCHANGED <<stage, logged>>

LogOnce(f, n) ==
    /\ paid[f] # None
    /\ logged[f] = None
    /\ logged' = [logged EXCEPT ![f] = n]
    /\ UNCHANGED <<stage, paid>>

OnceNext ==
    \/ \E e \in Events : Open(e) \/ Close(e)
    \/ \E f \in Firings, n \in Amounts : PayOnce(f, n) \/ LogOnce(f, n)

OnceSpec == OnceInit /\ [][OnceNext]_<<stage, paid, logged>>

=============================================================================
