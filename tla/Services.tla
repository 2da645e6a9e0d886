------------------------------ MODULE Services ------------------------------
(***************************************************************************)
(* Who may use a money flow, and its derived services: the services with   *)
(* their allow-lists (app/modules/services), the roles with their grants   *)
(* (app/modules/roles), the provisioning that tops both up whenever the    *)
(* tenant is saved (app/modules/tenants), the gate a payment passes and    *)
(* the readiness the console shows.                                        *)
(*                                                                         *)
(* One base flow.  Of the two allow-lists, of user types and of channels,  *)
(* which the code treats alike, one is modelled; an empty list stands for  *)
(* NULL as well.  Each edit reads and commits one row; a refused one is no *)
(* step.                                                                   *)
(***************************************************************************)
EXTENDS Catalogue

CONSTANTS
    Base,       \* the platform's service, always live
    Variants,   \* codes of derived services
    Callers,    \* values an allow-list may name
    Seasoned,   \* the grants in a tenant that payments have come to
    Defaults    \* <<role, code>>, the grants a tenant is provisioned with

Codes == {Base} \cup Variants

ASSUME ServicesAssumption == Base \notin Variants /\ Callers # {} /\ None \notin Callers \cup Codes
                           /\ Seasoned \cup Defaults \subseteq Roles \X Codes

VARIABLES
    services,   \* per code, the row: [status, allowed]
    granted,    \* <<role, code>> with permitted = true
    denied      \* <<role, code>> with permitted = false

servicesVars == <<services, granted, denied>>

NoService == [status |-> "absent", allowed |-> {}]

ServicesInit ==
    /\ services = [c \in Codes |->
           IF c = Base THEN [status |-> "active", allowed |-> {}] ELSE NoService]
    /\ granted = {entry \in Defaults \cup IF left.pay > 0 THEN Seasoned ELSE {} :
                    roles[entry[1]] = "active"}
    /\ denied = {}

-----------------------------------------------------------------------------
(* The gate                                                                *)

\* Mutant: the derived row alone decides.
EffectiveOwn(own, base) == own

\* An empty list restricts nothing, also when it comes out of the
\* intersection.
Effective(own, base) ==
    CASE base = {} -> own
      [] own = {}  -> base
      [] OTHER     -> own \cap base

Passes(allowed, caller) == allowed = {} \/ caller \in allowed

\* resolve_service_code; a caller of None is not held to a list.
Resolves(code, caller) ==
    code # Base =>
        /\ services[code].status = "active"
        /\ caller # None => Passes(Effective(services[code].allowed, services[Base].allowed), caller)

\* assert_service_allowed, on the resolved row; one that is not active is
\* not consulted.
Allows(code, caller) ==
    services[code].status = "active" /\ caller # None => Passes(services[code].allowed, caller)

Admits(code, caller) == Resolves(code, caller) /\ Allows(code, caller)

\* has_permission for a user who holds these roles: an explicit grant, or
\* else no explicit denial and, for a derived service, the base's grant.
Holds(set, held, code) == \E r \in held : roles[r] = "active" /\ <<r, code>> \in set

Permits(held, code) ==
    \/ Holds(granted, held, code)
    \/ /\ ~Holds(denied, held, code)
       /\ code \in Variants /\ services[code].status # "absent"
       /\ Holds(granted, held, Base)

\* compute_service_readiness, over all the roles of the tenant at once.
RoleReady(code) ==
    \/ Holds(granted, Roles, code)
    \/ ~Holds(denied, Roles, code) /\ Holds(granted, Roles, Base)

-----------------------------------------------------------------------------
(* Edits                                                                   *)

\* A new variant's list stays within its base's list of the moment.
CreateVariant(s) ==
    /\ Request(s, "service")
    /\ \E c \in Variants, allowed \in SUBSET Callers :
          LET base == services[Base].allowed
          IN  /\ services[c].status = "absent"
              /\ base # {} => allowed # {} /\ allowed \subseteq base
              /\ services' = [services EXCEPT ![c] = [status |-> "active", allowed |-> allowed]]
    /\ UNCHANGED <<pc, job, granted, denied, catalogueVars>>

\* update_service does not compare the lists.
UpdateService(s) ==
    /\ Request(s, "service")
    /\ \E c \in Codes, status \in {"active", "disabled"}, allowed \in SUBSET Callers :
          /\ services[c].status # "absent"
          /\ services' = [services EXCEPT ![c] = [status |-> status, allowed |-> allowed]]
    /\ UNCHANGED <<pc, job, granted, denied, catalogueVars>>

\* A base is not deleted.
DeleteVariant(s) ==
    /\ Request(s, "service")
    /\ \E c \in Variants :
          /\ services[c].status # "absent"
          /\ services' = [services EXCEPT ![c] = NoService]
    /\ UNCHANGED <<pc, job, granted, denied, catalogueVars>>

SetPermission(s) ==
    /\ Request(s, "permission")
    /\ \E entry \in Roles \X Codes :
          \/ granted' = granted \cup {entry} /\ denied' = denied \ {entry}
          \/ denied' = denied \cup {entry} /\ granted' = granted \ {entry}
    /\ UNCHANGED <<pc, job, services, catalogueVars>>

RemovePermission(s) ==
    /\ Request(s, "permission")
    /\ \E entry \in granted \cup denied :
          granted' = granted \ {entry} /\ denied' = denied \ {entry}
    /\ UNCHANGED <<pc, job, services, catalogueVars>>

\* A role's name is unique, and stays: no role is deleted.
CreateRole(s) ==
    /\ Request(s, "role")
    /\ \E r \in Roles : roles[r] = "absent" /\ roles' = [roles EXCEPT ![r] = "active"]
    /\ UNCHANGED <<pc, job, servicesVars, treeVars, userVars, holders, walletVars>>

UpdateRole(s) ==
    /\ Request(s, "role")
    /\ \E r \in Roles, to \in {"active", "inactive"} :
          roles[r] # "absent" /\ roles' = [roles EXCEPT ![r] = to]
    /\ UNCHANGED <<pc, job, servicesVars, treeVars, userVars, holders, walletVars>>

\* A role in any state; one that is held already is no step.
AssignRole(s) ==
    /\ Request(s, "role")
    /\ \E p \in People, r \in Roles :
          typeOf[p] # None /\ roles[r] # "absent" /\ holders' = holders \cup {<<p, r>>}
    /\ UNCHANGED <<pc, job, servicesVars, treeVars, userVars, roles, walletVars>>

RemoveRole(s) ==
    /\ Request(s, "role")
    /\ \E binding \in holders : holders' = holders \ {binding}
    /\ UNCHANGED <<pc, job, servicesVars, treeVars, userVars, roles, walletVars>>

-----------------------------------------------------------------------------
(* Saving the tenant: update_tenant provisions again what is missing.  The *)
(* base services are never deleted, and the ledger's accounts are not this *)
(* module's.                                                               *)

MissingCoin == IF coins[Currency] = "absent" THEN Currency ELSE None
MissingRoles == {r \in Named : roles[r] = "absent"}

\* What was denied is not granted again, what was taken away is.
MissingGrants == Defaults \ (granted \cup denied)

\* A new instrument's row is flushed, so that another insert of it waits.
SaveTenant(s) ==
    /\ Request(s, "save")
    /\ MissingCoin # None => InsertFree(MissingCoin)
    /\ Work(s, "catalog", [coin |-> MissingCoin, row |-> "staged",
                           roles |-> MissingRoles, grants |-> MissingGrants])
    /\ UNCHANGED <<catalogueVars, servicesVars>>

\* A row inserted meanwhile fails the whole; the users get no wallets.
CommitCatalog(s) ==
    LET j == job[s]
        anew == {Currency} \cap {j.coin}
    IN  /\ pc[s] = "catalog"
        /\ IF j.grants \cap (granted \cup denied) # {} \/ \E r \in j.roles : roles[r] # "absent"
           THEN UNCHANGED <<granted, roles, coins, unspread>>
           ELSE /\ granted' = granted \cup j.grants
                /\ roles' = [r \in Roles |-> IF r \in j.roles THEN "active" ELSE roles[r]]
                /\ coins' = [c \in Coins |-> IF c \in anew THEN "active" ELSE coins[c]]
                /\ unspread' = unspread \cup anew
        /\ End(s)
        /\ UNCHANGED <<left, services, denied, treeVars, userVars, holders, wallets, overlapped, partial>>

-----------------------------------------------------------------------------
ServicesNext ==
    \E s \in Sessions :
        \/ CreateVariant(s)
        \/ UpdateService(s)
        \/ DeleteVariant(s)
        \/ SetPermission(s)
        \/ RemovePermission(s)
        \/ CreateRole(s)
        \/ UpdateRole(s)
        \/ AssignRole(s)
        \/ RemoveRole(s)
        \/ SaveTenant(s)
        \/ CommitCatalog(s)

-----------------------------------------------------------------------------
(* Properties                                                              *)

ServicesTypeOK ==
    /\ services \in [Codes -> [status: {"absent", "active", "disabled"}, allowed: SUBSET Callers]]
    /\ granted \cup denied \subseteq Roles \X Codes /\ granted \cap denied = {}

\* Whoever a variant admits is on its base's list of today too, unless the
\* two lists have nothing in common.
NarrowedBaseBinds ==
    \A c \in Variants, u \in Callers :
        LET own == services[c].allowed
            base == services[Base].allowed
        IN  Admits(c, u) /\ base # {} /\ (own = {} \/ own \cap base # {}) => u \in base

\* A variant shown as lacking a role is one nobody is permitted, whatever
\* roles they hold, unless one role denies what another's base grant gives.
UnreadyIsUnusable ==
    \A c \in Codes, held \in SUBSET Roles :
        ~RoleReady(c) /\ Permits(held, c) => Holds(denied, Roles \ held, c)

\* What the services' rows say is what the gate does (services/service.py:222,
\* :441, services/schemas.py:67), but for the two exceptions the parts name.
PolicyBinds == NarrowedBaseBinds /\ UnreadyIsUnusable

=============================================================================
