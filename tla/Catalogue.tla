----------------------------- MODULE Catalogue ------------------------------
(***************************************************************************)
(* What one tenant is configured with and its users hold: the tree of user *)
(* types (app/modules/user_types) and the supervisors that follow it       *)
(* (app/modules/identity), the instruments (app/modules/instruments) and   *)
(* the wallets a user has in each, which come into being with the user,    *)
(* with the instrument and with a change of type (app/modules/accounts/    *)
(* provisioning.py), and the roles users hold (app/modules/roles).         *)
(*                                                                         *)
(* Nothing here is read under a lock: every request reads, decides and     *)
(* commits later.  A refused call is no step unless it has read before.    *)
(***************************************************************************)
EXTENDS Requests

CONSTANTS
    Types,      \* user type codes
    Seeded,     \* the types at the start, all active: a function to their parents
    System,     \* of these, the platform's, which no one may edit
    Category,   \* of every type code: "consumer", "retail" or "business"
    People,     \* users
    Newcomers,  \* of these, the ones that get created
    Enrolled,   \* per user, the type at the start
    Superiors,  \* per user, the supervisor at the start, or None
    Staff,    \* <<user, role>> at the start
    Roles,      \* names of roles
    DefaultRole, \* per type code, the role its users are created with, or None
    Coins,      \* codes of financial instruments
    Currency,   \* of these, the tenant's base currency
    Commissions \* tenants.commission_wallet_enabled, fixed at its creation

ASSUME CatalogueAssumption ==
    /\ System \subseteq DOMAIN Seeded /\ DOMAIN Seeded \subseteq Types /\ None \notin Types
    /\ Category \in [Types -> {"consumer", "retail", "business"}]
    /\ Commissions \in BOOLEAN
    /\ Newcomers \subseteq People /\ Enrolled \in [People -> Types]
    /\ Superiors \in [People -> People \cup {None}] /\ Staff \subseteq People \X Roles
    /\ DefaultRole \in [Types -> Roles \cup {None}] /\ Currency \in Coins
    /\ \A t \in DOMAIN Seeded : Seeded[t] # None =>
           /\ Seeded[t] \in DOMAIN Seeded /\ Seeded[Seeded[t]] = None
           /\ Category[Seeded[t]] = Category[t] /\ Category[t] # "consumer"
    /\ \A p \in People : Superiors[p] # None =>
           /\ Superiors[p] \in People \ Newcomers /\ Enrolled[p] \in DOMAIN Seeded
           /\ Enrolled[Superiors[p]] = Seeded[Enrolled[p]]
    /\ People \cap Sessions = {}

VARIABLES
    types,      \* per code, the row: [status, parent]
    typeOf,     \* per user, users.user_type; None before the user exists
    superior,   \* per user, users.parent_user_id
    holders,    \* <<user, role>>, the user_roles rows
    roles,      \* per name, "absent", "active" or "inactive"
    coins,      \* per code, "absent" (or deleted), "active" or "disabled"
    wallets,    \* <<user, kind, coin>>, the accounts rows
    \* history
    crossed,    \* two edits of the type tree were under way at once
    overlapped, \* <<user, coin>> that two requests worked on at once
    unspread,   \* instruments created without the backfill, or disabled since
    partial,    \* instruments committed ahead of their backfill, to come or lost
    updated,    \* users whose type was last changed by admin_update_user
    strays      \* users for whom, and sessions in which, what the choice of a
                \* supervisor rests on has changed since

treeVars == <<types, crossed>>
userVars == <<typeOf, superior, updated, strays>>
roleVars == <<holders, roles>>
walletVars == <<coins, wallets, overlapped, unspread, partial>>
catalogueVars == <<treeVars, userVars, roleVars, walletVars>>

UserTypeDef == [status: {"absent", "active", "retired"}, parent: Types \cup {None}]
Absent == [status |-> "absent", parent |-> None]

\* Users of these categories earn, and hold a wallet for it.
Eligible(t) == t # None /\ Category[t] \in {"retail", "business"}
Wanted(type) == {"main"} \cup IF Commissions /\ Eligible(type) THEN {"commission"} ELSE {}

Named == {DefaultRole[t] : t \in Types} \ {None}

\* provision_tenant_defaults has been here, in a tenant yet to be saved maybe
\* before it knew of roles; users to be created are not.
CatalogueInit ==
    /\ types = [t \in Types |->
           IF t \in DOMAIN Seeded THEN [status |-> "active", parent |-> Seeded[t]] ELSE Absent]
    /\ \E role \in {"absent", "active"} :
          /\ role = "absent" => left.save > 0
          /\ roles = [r \in Roles |-> role]
    /\ LET here == IF left.person > 0 THEN People \ Newcomers ELSE People
       IN  /\ typeOf = [p \in People |-> IF p \in here THEN Enrolled[p] ELSE None]
           /\ superior = [p \in People |-> IF p \in here THEN Superiors[p] ELSE None]
           /\ holders = {m \in Staff : m[1] \in here /\ roles[m[2]] = "active"}
           /\ wallets = UNION {{p} \X Wanted(Enrolled[p]) \X Coins : p \in here}
    /\ coins = [c \in Coins |-> "active"]
    /\ crossed = FALSE /\ overlapped = {} /\ unspread = {} /\ partial = {}
    /\ updated = {} /\ strays = {}

\* Sessions whose request is about a user, and about an instrument.
OnPeople == {s \in Sessions : pc[s] \in {"currencies", "held", "user", "retype", "update"}}
OnCoins == {s \in Sessions : pc[s] \in {"inflow", "system", "mains", "commissions", "coin"}}
CoinLabels == {"inflow", "system", "mains", "commissions", "coin", "catalog"}

-----------------------------------------------------------------------------
(* The tree of user types: two levels, in the categories that have them.   *)

Children(t) == {c \in Types : types[c].status # "absent" /\ types[c].parent = t}

EditingTree(s) == pc[s] \in {"children", "parent", "type"}

\* No tenant names a type as the platform does, or edits the platform's.
CodeAvailable(t) == t \notin System
Mutable(t) == t \notin System /\ types[t].status # "absent"

\* An approved request names the whole row it wants.  A replacement reads
\* the row it is about; a creation has none.
EditType(s) ==
    /\ Request(s, "type")
    /\ \E t \in Types, p \in Types \cup {None}, status \in {"active", "retired"} :
          \/ /\ CodeAvailable(t)
             /\ Work(s, "parent", [type |-> t, parent |-> p, status |-> status, row |-> Absent])
          \/ /\ Mutable(t)
             /\ Work(s, "children", [type |-> t, parent |-> p, status |-> status, row |-> types[t]])
    /\ crossed' = (crossed \/ \E t \in Sessions : EditingTree(t))
    /\ UNCHANGED <<types, userVars, roleVars, walletVars>>

Retiring(j) == j.status = "retired" /\ j.row.status = "active"

\* The edge to the parent is checked when it is new, and when the row returns.
Attaching(j) == j.parent # j.row.parent \/ (j.status = "active" /\ j.row.status = "retired")

\* Mutant: a row with retired children may be put under a parent.
ReadActiveChildren(s) ==
    LET j == job[s]
    IN  /\ pc[s] = "children"
        /\ IF \E c \in Children(j.type) : types[c].status = "active" /\ (Retiring(j) \/ Attaching(j))
           THEN End(s)
           ELSE Goto(s, IF Attaching(j) THEN "parent" ELSE "type") /\ UNCHANGED job
        /\ UNCHANGED <<left, catalogueVars>>

\* A parent keeps its active children, and does not become a child itself.
ReadChildren(s) ==
    LET j == job[s]
    IN  /\ pc[s] = "children"
        /\ IF \/ Retiring(j) /\ \E c \in Children(j.type) : types[c].status = "active"
              \/ Attaching(j) /\ j.parent # None /\ Children(j.type) # {}
           THEN End(s)
           ELSE Goto(s, IF Attaching(j) THEN "parent" ELSE "type") /\ UNCHANGED job
        /\ UNCHANGED <<left, catalogueVars>>

\* A parent is an active top-level type of the same category.
ReadParent(s) ==
    LET j == job[s]
        fit == \/ j.parent = None
               \/ /\ Category[j.type] # "consumer"
                  /\ types[j.parent] = [status |-> "active", parent |-> None]
                  /\ Category[j.parent] = Category[j.type]
    IN  /\ pc[s] = "parent"
        /\ IF fit THEN Goto(s, "type") /\ UNCHANGED job ELSE End(s)
        /\ UNCHANGED <<left, catalogueVars>>

\* An update writes the columns it changes.
Rewritten(j, now) ==
    [status |-> IF j.status # j.row.status THEN j.status ELSE now.status,
     parent |-> IF j.parent # j.row.parent THEN j.parent ELSE now.parent]

\* An insert meets the unique code; no row may name itself.
WriteType(s) ==
    LET j == job[s]
        now == types[j.type]
        new == IF j.row = Absent THEN [status |-> j.status, parent |-> j.parent]
                                 ELSE Rewritten(j, now)
    IN  /\ pc[s] = "type"
        /\ IF new.parent = j.type \/ (j.row = Absent /\ now # Absent)
           THEN UNCHANGED types
           ELSE types' = [types EXCEPT ![j.type] = new]
        /\ strays' = IF types'[j.type].parent = now.parent THEN strays
                     ELSE strays \cup {p \in People : typeOf[p] = j.type}
                                 \cup {w \in OnPeople : job[w].type = j.type}
        /\ End(s)
        /\ UNCHANGED <<left, crossed, typeOf, superior, updated, roleVars, walletVars>>

-----------------------------------------------------------------------------
(* Users and what they hold.  job names whom a request is about, with the  *)
(* type and the supervisor he shall have and those he was read with, and   *)
(* the coins it has seen and the accounts it will insert.                  *)

Valid(t) == types[t].status = "active"

\* A supervisor is named as a user or by an identifier of his, or not at all.
Nameable == People \cup {None}

\* _validate_type_hierarchy: a supervisor q is of the parent type, if any.
Fits(q, t) == q # None => types[t].parent # None /\ typeOf[q] = types[t].parent

Allowed(p, t, q) == Valid(t) /\ q # p /\ Fits(q, t)

About(p, t, q) ==
    [person |-> p, type |-> t, superior |-> q, wasType |-> typeOf[p], wasSuperior |-> superior[p],
     coins |-> {}, accounts |-> {}]

\* The row of a new instrument: "staged", "committed" ahead of the request's
\* end, "lost" to a rollback, or "expired" by one after it was committed.
Making(c, spread) == [coin |-> c, spread |-> spread, accounts |-> {}, row |-> "staged"]

\* create_user, from the validated type to the flushed row.
CreatePerson(s) ==
    /\ Request(s, "person")
    /\ \E p \in People, t \in Types, q \in Nameable :
          /\ p \in Newcomers /\ typeOf[p] = None /\ Allowed(p, t, q)
          /\ \A w \in OnPeople : job[w].person # p
          /\ Work(s, "currencies", About(p, t, q))
          /\ overlapped' = overlapped \cup {<<p, job[w].coin>> : w \in OnCoins}
    /\ strays' = strays \ {s}
    /\ UNCHANGED <<treeVars, typeOf, superior, updated, roleVars, coins, wallets, unspread, partial>>

\* change_user_type; one that would change nothing ends.
ChangeType(s) ==
    /\ Request(s, "retype")
    /\ \E p \in People, t \in Types, q \in Nameable :
          /\ typeOf[p] # None /\ Allowed(p, t, q) /\ <<t, q>> # <<typeOf[p], superior[p]>>
          /\ Work(s, "currencies", About(p, t, q))
          /\ overlapped' = overlapped \cup {<<p, job[w].coin>> : w \in OnCoins}
    /\ strays' = strays \ {s}
    /\ UNCHANGED <<treeVars, typeOf, superior, updated, roleVars, coins, wallets, unspread, partial>>

\* The new row is flushed before the provisioning reads, and stays locked
\* until the commit.
RowFree(s) == \A w \in Sessions : pc[w] \in {"held", "retype"} => job[w].person # job[s].person

\* provision_user_accounts: the tenant's currencies, then what the user holds.
ReadCurrencies(s) ==
    /\ pc[s] = "currencies"
    /\ RowFree(s)
    /\ Work(s, "held", [job[s] EXCEPT !.coins = {c \in Coins : coins[c] = "active"}])
    /\ UNCHANGED <<left, catalogueVars>>

ReadHeld(s) ==
    LET j == job[s]
    IN  /\ pc[s] = "held"
        /\ Work(s, IF typeOf[j.person] = None THEN "user" ELSE "retype",
                [j EXCEPT !.accounts = ({j.person} \X Wanted(j.type) \X j.coins) \ wallets])
        /\ UNCHANGED <<left, catalogueVars>>

\* An UPDATE names the columns that differ from what was read.
WriteUser(s) ==
    LET j == job[s]
        p == j.person
        retyped == j.type # j.wasType
        moved == j.superior # j.wasSuperior
    IN  /\ typeOf' = IF retyped THEN [typeOf EXCEPT ![p] = j.type] ELSE typeOf
        /\ superior' = IF moved THEN [superior EXCEPT ![p] = j.superior] ELSE superior
        /\ strays' = (strays \ {s, p})
                        \cup {r \in People : s \in strays /\ r = p}
                        \cup {r \in People : retyped /\ superior[r] = p}
                        \cup {w \in OnPeople \ {s} : p \in {job[w].person, job[w].superior}}

\* assign_default_role: no role for a type without one, or when it is missing.
Given(j) ==
    LET r == DefaultRole[j.type]
    IN  IF r # None /\ roles[r] # "absent" THEN {<<j.person, r>>} ELSE {}

CommitUser(s) ==
    LET j == job[s]
    IN  /\ pc[s] = "user"
        /\ WriteUser(s)
        /\ wallets' = wallets \cup j.accounts
        /\ holders' = holders \cup Given(j)
        /\ End(s)
        /\ UNCHANGED <<left, treeVars, roles, coins, overlapped, unspread, partial, updated>>

\* An account someone else has inserted meanwhile fails the whole request.
CommitRetype(s) ==
    LET j == job[s]
    IN  /\ pc[s] = "retype"
        /\ IF j.accounts \cap wallets # {}
           THEN UNCHANGED <<userVars, wallets>>
           ELSE /\ WriteUser(s)
                /\ wallets' = wallets \cup j.accounts
                /\ updated' = IF j.type = j.wasType THEN updated ELSE updated \ {j.person}
        /\ End(s)
        /\ UNCHANGED <<left, treeVars, roleVars, coins, overlapped, unspread, partial>>

\* admin_update_user: the type alone, against the supervisor he has.
UpdatePerson(s) ==
    /\ Request(s, "update")
    /\ \E p \in People, t \in Types :
          /\ typeOf[p] \notin {None, t} /\ Allowed(p, t, superior[p])
          /\ Work(s, "update", About(p, t, superior[p]))
    /\ strays' = strays \ {s}
    /\ UNCHANGED <<treeVars, typeOf, superior, updated, roleVars, walletVars>>

CommitUpdate(s) ==
    /\ pc[s] = "update"
    /\ RowFree(s)
    /\ WriteUser(s)
    /\ updated' = updated \cup {job[s].person}
    /\ End(s)
    /\ UNCHANGED <<left, treeVars, roleVars, walletVars>>

\* create_account, by an admin; one that exists is refused.
CreateAccount(s) ==
    /\ Request(s, "account")
    /\ \E p \in People, kind \in {"main", "commission"}, c \in Coins :
          /\ typeOf[p] # None /\ <<p, kind, c>> \notin wallets
          /\ wallets' = wallets \cup {<<p, kind, c>>}
    /\ UNCHANGED <<pc, job, treeVars, userVars, roleVars, coins, overlapped, unspread, partial>>

InsertFree(c) ==
    \A w \in Sessions : pc[w] \in CoinLabels /\ job[w].coin = c => job[w].row # "staged"

\* create_instrument: the row is flushed, and a second one of that code waits.
CreateCoin(s) ==
    /\ Request(s, "coin")
    /\ \E c \in Coins, spread \in BOOLEAN :
          /\ coins[c] = "absent" /\ InsertFree(c)
          /\ Work(s, "inflow", Making(c, spread))
          /\ overlapped' = overlapped \cup {<<job[w].person, c>> : w \in OnPeople}
    /\ UNCHANGED <<treeVars, userVars, roleVars, coins, wallets, unspread, partial>>

\* A row of this creation is there from now on.
Active(j) == [coins EXCEPT ![j.coin] = "active"]
Unspread(j) == IF j.spread THEN unspread \ {j.coin} ELSE unspread \cup {j.coin}

\* get_or_create_system_cash_inflow: the account is there, or its creation
\* commits the instrument with it, or loses the race and rolls both back.
Inflow(s) ==
    LET j == job[s]
    IN  /\ pc[s] = "inflow"
        /\ \/ /\ \E row \in {"staged", "lost"} : Work(s, "system", [j EXCEPT !.row = row])
              /\ UNCHANGED <<coins, unspread, partial>>
           \/ /\ coins' = Active(j) /\ unspread' = Unspread(j)
              /\ partial' = IF j.spread THEN partial \cup {j.coin} ELSE partial
              /\ Work(s, "system", [j EXCEPT !.row = "committed"])
        /\ UNCHANGED <<left, treeVars, userVars, roleVars, wallets, overlapped>>

RolledBack(row) == IF row = "committed" THEN "expired" ELSE "lost"

\* The accounts of fees, commission and taxes are flushed, unless one is lost
\* to a race: that rolls back what is not committed, and the request goes on.
SystemAccounts(s) ==
    LET j == job[s]
    IN  /\ pc[s] = "system"
        /\ \E row \in {j.row, RolledBack(j.row)} :
               Work(s, IF j.spread THEN "mains" ELSE "coin", [j EXCEPT !.row = row])
        /\ UNCHANGED <<left, catalogueVars>>

\* The users without an account of this kind, as one select sees them.
Lacking(kind, c) ==
    {<<p, kind, c>> : p \in {q \in People : typeOf[q] # None /\ <<q, kind, c>> \notin wallets}}

BackfillMains(s) ==
    LET j == job[s]
    IN  /\ pc[s] = "mains"
        /\ Work(s, IF Commissions THEN "commissions" ELSE "coin",
                [j EXCEPT !.accounts = Lacking("main", j.coin)])
        /\ UNCHANGED <<left, catalogueVars>>

\* Mutant: a select over the users of the first pass.
BackfillNoCommissions(s) ==
    LET j == job[s]
    IN  /\ pc[s] = "commissions"
        /\ Work(s, "coin",
                [j EXCEPT !.accounts = @ \cup {w \in Lacking("commission", j.coin) :
                                          Eligible(typeOf[w[1]]) /\ <<w[1], "main", j.coin>> \notin @}])
        /\ UNCHANGED <<left, catalogueVars>>

BackfillCommissions(s) ==
    LET j == job[s]
    IN  /\ pc[s] = "commissions"
        /\ Work(s, "coin",
                [j EXCEPT !.accounts = @ \cup {w \in Lacking("commission", j.coin) :
                                                  Eligible(typeOf[w[1]])}])
        /\ UNCHANGED <<left, catalogueVars>>

\* An account inserted meanwhile, or the audit's read of an expired row, fails
\* the request; a lost row fails it when all else is committed.
CommitCoin(s) ==
    LET j == job[s]
        fails == j.row = "expired" \/ j.accounts \cap wallets # {}
        anew == ~fails /\ j.row = "staged"
    IN  /\ pc[s] = "coin"
        /\ coins' = IF anew THEN Active(j) ELSE coins
        /\ unspread' = IF anew THEN Unspread(j) ELSE unspread
        /\ wallets' = IF fails THEN wallets ELSE wallets \cup j.accounts
        /\ partial' = IF ~fails /\ j.spread THEN partial \ {j.coin} ELSE partial
        /\ End(s)
        /\ UNCHANGED <<left, treeVars, userVars, roleVars, overlapped>>

\* update_instrument and soft_delete_instrument; the accounts stay.
EditCoin(s) ==
    /\ Request(s, "coinedit")
    /\ \E c \in Coins, to \in {"absent", "active", "disabled"} :
          /\ coins[c] # "absent"
          /\ coins' = [coins EXCEPT ![c] = to]
          /\ unspread' = IF to = "disabled" THEN unspread \cup {c} ELSE unspread
    /\ UNCHANGED <<pc, job, treeVars, userVars, roleVars, wallets, overlapped, partial>>

-----------------------------------------------------------------------------
CatalogueNext ==
    \E s \in Sessions :
        \/ EditType(s)
        \/ ReadChildren(s)
        \/ ReadParent(s)
        \/ WriteType(s)
        \/ CreatePerson(s)
        \/ ChangeType(s)
        \/ ReadCurrencies(s)
        \/ ReadHeld(s)
        \/ CommitUser(s)
        \/ CommitRetype(s)
        \/ UpdatePerson(s)
        \/ CommitUpdate(s)
        \/ CreateAccount(s)
        \/ CreateCoin(s)
        \/ Inflow(s)
        \/ SystemAccounts(s)
        \/ BackfillMains(s)
        \/ BackfillCommissions(s)
        \/ CommitCoin(s)
        \/ EditCoin(s)

-----------------------------------------------------------------------------
(* Properties                                                              *)

CatalogueLabels ==
    {"children", "parent", "type", "currencies", "held", "user", "retype", "update",
     "inflow", "system", "mains", "commissions", "coin"}

CatalogueTypeOK ==
    /\ types \in [Types -> UserTypeDef]
    /\ typeOf \in [People -> Types \cup {None}]
    /\ superior \in [People -> Nameable] /\ strays \subseteq People \cup Sessions
    /\ holders \subseteq People \X Roles /\ roles \in [Roles -> {"absent", "active", "inactive"}]
    /\ coins \in [Coins -> {"absent", "active", "disabled"}]
    /\ wallets \subseteq People \X {"main", "commission"} \X Coins

\* The tree of user types keeps two levels, and an active type an active
\* parent of its own category, however the edits come one after the other;
\* two at once are not kept apart.
TypeTreeKept ==
    ~crossed => \A t \in Types :
        LET p == types[t].parent
        IN  types[t].status # "absent" /\ p # None =>
                /\ types[p].status # "absent" /\ types[p].parent = None
                /\ Category[p] = Category[t] /\ Category[p] # "consumer"
                /\ types[t].status = "active" => types[p].status = "active"

\* A supervisor is of the type above his user's, unless the type, or the
\* supervisor's, has been edited since he was given to the user.
SupervisorsFit ==
    \A p \in People \ strays : superior[p] # None => typeOf[superior[p]] = types[typeOf[p]].parent

\* The hierarchies of types and of users hold together
\* (user_types/service.py:238, :476, identity/service.py:208).
HierarchyKept == TypeTreeKept /\ SupervisorsFit

\* A user who can be paid in a currency has the wallets for it
\* (accounts/provisioning.py:85, instruments/service.py:245): a main one in
\* every active instrument, and a commission one when the type earns it.
\* The exceptions are instruments that were not spread or have been disabled,
\* or whose row a helper has committed (payments/service.py:491) and no backfill
\* since, where create_instrument says that "partial state is impossible"
\* (instruments/service.py:94-97); a user and an instrument that two requests
\* worked on at once; and the commission wallets of a user whose type
\* admin_update_user has changed.
WalletsComplete ==
    \A p \in People, c \in Coins :
        /\ typeOf[p] # None /\ coins[c] = "active"
        /\ c \notin unspread \cup partial /\ <<p, c>> \notin overlapped
        => /\ <<p, "main", c>> \in wallets
           /\ Commissions /\ Eligible(typeOf[p]) /\ p \notin updated
                  => <<p, "commission", c>> \in wallets

=============================================================================
