---------------------------- MODULE TenantProofs ----------------------------
(***************************************************************************)
(* Proofs about Tenant, for any users, types, services, schedules and      *)
(* sessions: what each part promises, whatever the others do meanwhile.    *)
(***************************************************************************)
EXTENDS Tenant, FiniteSetTheorems, TLAPS

-----------------------------------------------------------------------------
(* Services: what their operators promise of any rows, however edited.     *)

\* Whoever a variant admits is on its base's list of today, unless the two
\* lists have nothing in common: the resolution and the gate together.
LEMMA Narrowed == NarrowedBaseBinds
<1> SUFFICES ASSUME NEW c \in Variants, NEW u \in Callers, Admits(c, u), services[Base].allowed # {},
                    services[c].allowed = {} \/ services[c].allowed \cap services[Base].allowed # {}
             PROVE  u \in services[Base].allowed
  BY DEF NarrowedBaseBinds
<1>1. c # Base /\ u # None => Passes(Effective(services[c].allowed, services[Base].allowed), u)
  BY DEF Admits, Resolves
<1>2. c # Base
  BY ServicesAssumption
<1>3. u # None
  BY ServicesAssumption
<1> QED
  BY <1>1, <1>2, <1>3 DEF Passes, Effective

\* A variant shown as lacking a role is one nobody is permitted, unless one
\* role denies what another's grant of the base gives.
LEMMA Unready == UnreadyIsUnusable
<1> SUFFICES ASSUME NEW c \in Codes, NEW mine \in SUBSET Roles, ~RoleReady(c), Permits(mine, c)
             PROVE  Holds(denied, Roles \ mine, c)
  BY DEF UnreadyIsUnusable
<1>1. ~Holds(granted, Roles, c) /\ (Holds(denied, Roles, c) \/ ~Holds(granted, Roles, Base))
  BY DEF RoleReady
<1>2. ~Holds(granted, mine, c)
  BY <1>1 DEF Holds
<1>3. ~Holds(denied, mine, c) /\ Holds(granted, mine, Base)
  BY <1>2 DEF Permits
<1>4. Holds(denied, Roles, c)
  BY <1>1, <1>3 DEF Holds
<1> QED
  BY <1>3, <1>4 DEF Holds

-----------------------------------------------------------------------------
(* Sessions.  Each part of the tenant moves one session at a time, and     *)
(* among the labels of its own requests; a crash may end any of them.      *)

Threads == pc = [s \in Sessions |-> pc[s]] /\ job = [s \in Sessions |-> job[s]]

Only(s) == \A t \in Sessions \ {s} : pc'[t] = pc[t] /\ job'[t] = job[t]

Walk(s, labels) == pc[s] \in labels /\ pc'[s] \in labels /\ Only(s) /\ Threads'

Stay == pc' = pc /\ job' = job

LEMMA Working ==
    ASSUME Threads, NEW s \in Sessions, NEW label, NEW j, Work(s, label, j)
    PROVE  pc'[s] = label /\ job'[s] = j /\ Only(s) /\ Threads'
BY DEF Threads, Work, Goto, Only

LEMMA Going ==
    ASSUME Threads, NEW s \in Sessions, NEW label, Goto(s, label), UNCHANGED job
    PROVE  pc'[s] = label /\ job'[s] = job[s] /\ Only(s) /\ Threads'
BY DEF Threads, Goto, Only

RegistrationLabels ==
    {"idle", "quota", "spend", "register", "send", "use", "mint", "read", "write", "refer",
     "rules", "referrer", "referee", "staged"}

PayLabels == {"rules", "referrer", "referee", "staged"}

LEMMA PhoneWalks ==
    ASSUME Threads, NEW s \in Sessions
    PROVE  /\ FindPhone(s) => Walk(s, {"idle", "quota"})
           /\ ReadQuota(s) => Walk(s, {"quota", "idle", "spend"})
           /\ SpendQuota(s) => Walk(s, {"spend", "send", "register"})
           /\ Register(s) \/ SendOtp(s) => Walk(s, {"register", "send", "idle"})
<1>1. ASSUME FindPhone(s)
      PROVE  Walk(s, {"idle", "quota"})
  <2>1. pc[s] = "idle" /\ \E j : Work(s, "quota", j)
    BY <1>1 DEF FindPhone, Request
  <2> QED
    BY <2>1, Working DEF Walk
<1>2. ASSUME ReadQuota(s)
      PROVE  Walk(s, {"quota", "idle", "spend"})
  <2>1. pc[s] = "quota" /\ (Work(s, "idle", None) \/ (Goto(s, "spend") /\ UNCHANGED job))
    BY <1>2 DEF ReadQuota, End
  <2> QED
    BY <2>1, Working, Going DEF Walk
<1>3. ASSUME SpendQuota(s)
      PROVE  Walk(s, {"spend", "send", "register"})
  <2>1. pc[s] = "spend" /\ \E label \in {"send", "register"} : \E j : Work(s, label, j)
    BY <1>3 DEF SpendQuota
  <2> QED
    BY <2>1, Working DEF Walk
<1>4. ASSUME Register(s) \/ SendOtp(s)
      PROVE  Walk(s, {"register", "send", "idle"})
  <2>1. pc[s] \in {"register", "send"} /\ \E label \in {"send", "idle"} : \E j : Work(s, label, j)
    BY <1>4 DEF Register, SendOtp, End
  <2> QED
    BY <2>1, Working DEF Walk
<1> QED
  BY <1>1, <1>2, <1>3, <1>4

LEMMA OtpWalks ==
    ASSUME Threads, NEW s \in Sessions, ReadOtp(s) \/ UseOtp(s) \/ MintToken(s)
    PROVE  Walk(s, {"idle", "use", "mint"})
<1>1. pc[s] \in {"idle", "use", "mint"}
  BY DEF ReadOtp, UseOtp, MintToken, Request
<1>2. \/ \E label \in {"idle", "use", "mint"} : \E j : Work(s, label, j)
      \/ \E label \in {"idle", "use", "mint"} : Goto(s, label) /\ UNCHANGED job
  BY DEF ReadOtp, UseOtp, MintToken, End
<1> QED
  BY <1>1, <1>2, Working, Going DEF Walk

LEMMA PinWalks ==
    ASSUME Threads, NEW s \in Sessions
    PROVE  /\ TakeToken(s) => Walk(s, {"idle", "read"})
           /\ ReadPin(s) => Walk(s, {"read", "idle", "write"})
           /\ WritePin(s) => Walk(s, {"write", "refer"})
           /\ ReadReferral(s) => Walk(s, {"refer", "idle", "rules"})
<1>1. ASSUME NEW from, NEW labels, pc[s] = from, from \in labels, \E label \in labels : \E j : Work(s, label, j)
      PROVE  Walk(s, labels)
  BY <1>1, Working DEF Walk
<1>2. ASSUME TakeToken(s)
      PROVE  Walk(s, {"idle", "read"})
  BY <1>1, <1>2 DEF TakeToken, Request
<1>3. ASSUME ReadPin(s)
      PROVE  Walk(s, {"read", "idle", "write"})
  BY <1>1, <1>3 DEF ReadPin, End
<1>4. ASSUME WritePin(s)
      PROVE  Walk(s, {"write", "refer"})
  BY <1>1, <1>4 DEF WritePin
<1>5. ASSUME ReadReferral(s)
      PROVE  Walk(s, {"refer", "idle", "rules"})
  BY <1>1, <1>5 DEF ReadReferral, End
<1> QED
  BY <1>2, <1>3, <1>4, <1>5

LEMMA PayWalks ==
    ASSUME Threads, NEW s \in Sessions,
           \/ FireRule(s) \/ PayReferrer(s) \/ PayReferee(s) \/ StageRewarded(s) \/ FinishReferral(s)
           \/ PayFails(s)
    PROVE  Walk(s, {"idle"} \cup PayLabels)
<1>1. pc[s] \in {"idle"} \cup PayLabels
  BY DEF FireRule, PayReferrer, PayReferee, StageRewarded, FinishReferral, PayFails, PayLabels
<1>2. \/ \E label \in {"idle"} \cup PayLabels : \E j : Work(s, label, j)
      \/ \E label \in {"idle"} \cup PayLabels : Goto(s, label) /\ UNCHANGED job
  BY DEF FireRule, PayReferrer, PayReferee, StageRewarded, FinishReferral, PayFails, PaySide, End, PayLabels
<1> QED
  BY <1>1, <1>2, Working, Going DEF Walk

LEMMA RegistrationStays ==
    ASSUME Threads, MinutePasses \/ HourPasses \/ \E o \in Otps : OtpExpires(o) \/ TokenExpires(o)
    PROVE  Stay /\ Threads'
BY DEF MinutePasses, HourPasses, OtpExpires, TokenExpires, Stay, Threads

LEMMA RegistrationWalks ==
    ASSUME Threads, RegistrationNext
    PROVE  Threads' /\ (Stay \/ \E s \in Sessions : Walk(s, RegistrationLabels))
<1>1. \A s \in Sessions, labels \in SUBSET RegistrationLabels : Walk(s, labels) => Walk(s, RegistrationLabels)
  BY DEF Walk
<1>2. \A s \in Sessions : Walk(s, RegistrationLabels) => Threads'
  BY DEF Walk
<1>3. /\ {"idle", "quota"} \subseteq RegistrationLabels
      /\ {"quota", "idle", "spend"} \subseteq RegistrationLabels
      /\ {"spend", "send", "register"} \subseteq RegistrationLabels
      /\ {"register", "send", "idle"} \subseteq RegistrationLabels
      /\ {"idle", "use", "mint"} \subseteq RegistrationLabels
      /\ {"idle", "read"} \subseteq RegistrationLabels
      /\ {"read", "idle", "write"} \subseteq RegistrationLabels
      /\ {"write", "refer"} \subseteq RegistrationLabels
      /\ {"refer", "idle", "rules"} \subseteq RegistrationLabels
      /\ {"idle"} \cup PayLabels \subseteq RegistrationLabels
  BY DEF RegistrationLabels, PayLabels
<1>4. ASSUME NEW s \in Sessions,
             \/ FindPhone(s) \/ ReadQuota(s) \/ SpendQuota(s) \/ Register(s) \/ SendOtp(s) \/ ReadOtp(s)
             \/ UseOtp(s) \/ MintToken(s)
      PROVE  Walk(s, RegistrationLabels)
  BY <1>1, <1>3, <1>4, PhoneWalks, OtpWalks
<1>5. ASSUME NEW s \in Sessions,
             \/ TakeToken(s) \/ ReadPin(s) \/ WritePin(s) \/ ReadReferral(s) \/ FireRule(s)
             \/ PayReferrer(s) \/ PayReferee(s) \/ StageRewarded(s) \/ FinishReferral(s) \/ PayFails(s)
      PROVE  Walk(s, RegistrationLabels)
  BY <1>1, <1>3, <1>5, PinWalks, PayWalks
<1> QED
  BY <1>2, <1>4, <1>5, RegistrationStays DEF RegistrationNext

OfCatalogue == {"idle"} \cup CatalogueLabels

TreeLabels == {"children", "parent", "type"}
PeopleLabels == {"currencies", "held", "user", "retype", "update"}
SpreadLabels == {"inflow", "system", "mains", "commissions", "coin"}

LEMMA TreeWalks ==
    ASSUME Threads, NEW s \in Sessions, EditType(s) \/ ReadChildren(s) \/ ReadParent(s) \/ WriteType(s)
    PROVE  Walk(s, {"idle"} \cup TreeLabels)
<1>1. pc[s] \in {"idle"} \cup TreeLabels
  BY DEF EditType, ReadChildren, ReadParent, WriteType, Request, TreeLabels
<1>2. \/ \E label \in {"idle"} \cup TreeLabels : \E j : Work(s, label, j)
      \/ \E label \in {"idle"} \cup TreeLabels : Goto(s, label) /\ UNCHANGED job
  BY DEF EditType, ReadChildren, ReadParent, WriteType, End, TreeLabels
<1> QED
  BY <1>1, <1>2, Working, Going DEF Walk

LEMMA PeopleWalks ==
    ASSUME Threads, NEW s \in Sessions,
           \/ CreatePerson(s) \/ ChangeType(s) \/ ReadCurrencies(s) \/ ReadHeld(s) \/ CommitUser(s)
           \/ CommitRetype(s) \/ UpdatePerson(s) \/ CommitUpdate(s)
    PROVE  Walk(s, {"idle"} \cup PeopleLabels)
<1>1. pc[s] \in {"idle"} \cup PeopleLabels
  BY DEF CreatePerson, ChangeType, ReadCurrencies, ReadHeld, CommitUser, CommitRetype, UpdatePerson,
         CommitUpdate, Request, PeopleLabels
<1>2. \E label \in {"idle"} \cup PeopleLabels : \E j : Work(s, label, j)
  BY DEF CreatePerson, ChangeType, ReadCurrencies, ReadHeld, CommitUser, CommitRetype, UpdatePerson,
         CommitUpdate, End, PeopleLabels
<1> QED
  BY <1>1, <1>2, Working DEF Walk

LEMMA SpreadWalks ==
    ASSUME Threads, NEW s \in Sessions,
           \/ CreateCoin(s) \/ Inflow(s) \/ SystemAccounts(s) \/ BackfillMains(s)
           \/ BackfillCommissions(s) \/ CommitCoin(s)
    PROVE  Walk(s, {"idle"} \cup SpreadLabels)
<1>1. pc[s] \in {"idle"} \cup SpreadLabels
  BY DEF CreateCoin, Inflow, SystemAccounts, BackfillMains, BackfillCommissions, CommitCoin, Request,
         SpreadLabels
<1>2. \E label \in {"idle"} \cup SpreadLabels : \E j : Work(s, label, j)
  BY DEF CreateCoin, Inflow, SystemAccounts, BackfillMains, BackfillCommissions, CommitCoin, End,
         SpreadLabels
<1> QED
  BY <1>1, <1>2, Working DEF Walk

LEMMA CatalogueStays ==
    ASSUME Threads, NEW s \in Sessions, CreateAccount(s) \/ EditCoin(s)
    PROVE  Stay /\ Threads'
BY DEF CreateAccount, EditCoin, Stay, Threads

LEMMA CatalogueWalks ==
    ASSUME Threads, CatalogueNext
    PROVE  Threads' /\ (Stay \/ \E s \in Sessions : Walk(s, OfCatalogue))
<1>1. ({"idle"} \cup TreeLabels) \cup ({"idle"} \cup PeopleLabels) \cup ({"idle"} \cup SpreadLabels)
          \subseteq OfCatalogue
  BY DEF OfCatalogue, CatalogueLabels, TreeLabels, PeopleLabels, SpreadLabels
<1>2. \A s \in Sessions, labels \in SUBSET OfCatalogue : Walk(s, labels) => Walk(s, OfCatalogue)
  BY DEF Walk
<1>3. \A s \in Sessions : Walk(s, OfCatalogue) => Threads'
  BY DEF Walk
<1> QED
  BY <1>1, <1>2, <1>3, TreeWalks, PeopleWalks, SpreadWalks, CatalogueStays DEF CatalogueNext

LEMMA ServicesWalks ==
    ASSUME Threads, ServicesNext
    PROVE  Threads' /\ (Stay \/ \E s \in Sessions : Walk(s, {"idle", "catalog"}))
<1>1. ASSUME NEW s \in Sessions,
             \/ CreateVariant(s) \/ UpdateService(s) \/ DeleteVariant(s) \/ SetPermission(s)
             \/ RemovePermission(s) \/ CreateRole(s) \/ UpdateRole(s) \/ AssignRole(s) \/ RemoveRole(s)
      PROVE  Stay /\ Threads'
  BY <1>1 DEF CreateVariant, UpdateService, DeleteVariant, SetPermission, RemovePermission, CreateRole,
              UpdateRole, AssignRole, RemoveRole, Stay, Threads
<1>2. ASSUME NEW s \in Sessions, SaveTenant(s) \/ CommitCatalog(s)
      PROVE  Walk(s, {"idle", "catalog"})
  <2>1. pc[s] \in {"idle", "catalog"} /\ \E label \in {"idle", "catalog"} : \E j : Work(s, label, j)
    BY <1>2 DEF SaveTenant, CommitCatalog, Request, End
  <2> QED
    BY <2>1, Working DEF Walk
<1>3. \A s \in Sessions : Walk(s, {"idle", "catalog"}) => Threads'
  BY DEF Walk
<1> QED
  BY <1>1, <1>2, <1>3 DEF ServicesNext

LEMMA FlowsWalks ==
    ASSUME Threads, NEW active, FlowsNext(active)
    PROVE  Threads' /\ \E s \in Sessions : Walk(s, {"idle", "pay"})
<1>1. ASSUME NEW s \in Sessions, NEW gate, NEW passed, NEW j, Turn(s, gate, passed, j)
      PROVE  Walk(s, {"idle", "pay"})
  <2>1. pc[s] = "pay" /\ \E label \in {"idle", "pay"} : \E q : Work(s, label, q)
    BY <1>1 DEF Turn, At, End
  <2> QED
    BY <2>1, Working DEF Walk
<1>2. ASSUME NEW s \in Sessions,
             \/ ReadType(s) \/ ResolveService(s) \/ RequirePermission(s) \/ FindExisting(s)
             \/ CheckStanding(s, active) \/ CheckService(s) \/ CheckPayee(s) \/ CheckAgent(s)
             \/ CheckConfigured(s) \/ FindWallets(s)
      PROVE  Walk(s, {"idle", "pay"})
  BY <1>1, <1>2 DEF ReadType, ResolveService, RequirePermission, FindExisting, CheckStanding,
                    CheckService, CheckPayee, CheckAgent, CheckConfigured, FindWallets, Ask
<1>3. ASSUME NEW s \in Sessions,
             \/ CheckLimits(s) \/ CheckSend(s) \/ CheckReceive(s) \/ EnforceStepUp(s) \/ ResolveFee(s)
             \/ CalculateCommission(s) \/ ResolveEarner(s) \/ CheckFunds(s)
      PROVE  Walk(s, {"idle", "pay"})
  BY <1>1, <1>3 DEF CheckLimits, CheckSend, CheckReceive, EnforceStepUp, ResolveFee,
                    CalculateCommission, ResolveEarner, CheckFunds, Ask
<1>4. ASSUME NEW s \in Sessions, Send(s) \/ Post(s)
      PROVE  Walk(s, {"idle", "pay"})
  <2>1. pc[s] \in {"idle", "pay"} /\ \E label \in {"idle", "pay"} : \E j : Work(s, label, j)
    BY <1>4 DEF Send, Post, Request, At, End
  <2> QED
    BY <2>1, Working DEF Walk
<1>5. \A s \in Sessions : Walk(s, {"idle", "pay"}) => Threads'
  BY DEF Walk
<1> QED
  BY <1>2, <1>3, <1>4, <1>5 DEF FlowsNext

OfSchedules == {"idle"} \cup SchedulesLabels

LEMMA SchedulesWalks ==
    ASSUME Threads, SchedulesNext
    PROVE  Threads' /\ \E s \in Sessions : Walk(s, OfSchedules)
<1>1. ASSUME NEW s \in Sessions, Apply(s)
      PROVE  Walk(s, OfSchedules)
  <2>1. PICK p \in Plans : /\ pc[s] = "idle"
                           /\ \E j : Work(s, Label[p.op], j)
    BY <1>1 DEF Apply, Request
  <2>2. Label[p.op] \in OfSchedules
    BY SchedulesAssumption DEF Label, OfSchedules, SchedulesLabels
  <2> QED
    BY <2>1, <2>2, Working DEF Walk, OfSchedules
<1>2. ASSUME NEW s \in Sessions, NEW kind, NEW allowed, Insert(s, kind, allowed)
      PROVE  Walk(s, OfSchedules)
  <2>1. pc[s] \in OfSchedules /\ \E label \in OfSchedules : \E j : Work(s, label, j)
    BY <1>2 DEF Insert, End, OfSchedules, SchedulesLabels
  <2> QED
    BY <2>1, Working DEF Walk
<1>3. ASSUME NEW s \in Sessions, NEW kind, Replace(s, kind) \/ Delete(s, kind)
      PROVE  Walk(s, OfSchedules)
  <2>1. pc[s] \in OfSchedules /\ \E label \in OfSchedules : \E j : Work(s, label, j)
    BY <1>3 DEF Replace, Delete, End, OfSchedules, SchedulesLabels
  <2> QED
    BY <2>1, Working DEF Walk
<1>4. ASSUME NEW s \in Sessions,
             \/ CreatePricing(s) \/ CreateLimit(s) \/ CreateWalletLimit(s) \/ CreateCommission(s)
             \/ CreateTax(s) \/ CreatePolicy(s) \/ CreateRate(s)
      PROVE  Walk(s, OfSchedules)
  BY <1>2, <1>4 DEF CreatePricing, CreateLimit, CreateWalletLimit, CreateCommission, CreateTax,
                    CreatePolicy, CreateRate
<1>5. ASSUME NEW s \in Sessions,
             \/ ReplacePricing(s) \/ ReplaceLimit(s) \/ ReplaceWalletLimit(s) \/ ReplaceCommission(s)
             \/ ReplaceTax(s) \/ ReplacePolicy(s) \/ ReplaceRate(s)
      PROVE  Walk(s, OfSchedules)
  BY <1>3, <1>5 DEF ReplacePricing, ReplaceLimit, ReplaceWalletLimit, ReplaceCommission, ReplaceTax,
                    ReplacePolicy, ReplaceRate
<1>6. ASSUME NEW s \in Sessions,
             \/ DeletePricing(s) \/ DeleteLimit(s) \/ DeleteWalletLimit(s) \/ DeleteCommission(s)
             \/ DeleteTax(s) \/ DeletePolicy(s) \/ DeleteRate(s)
      PROVE  Walk(s, OfSchedules)
  BY <1>3, <1>6 DEF DeletePricing, DeleteLimit, DeleteWalletLimit, DeleteCommission, DeleteTax,
                    DeletePolicy, DeleteRate
<1>7. \A s \in Sessions : Walk(s, OfSchedules) => Threads'
  BY DEF Walk
<1> QED
  BY <1>1, <1>4, <1>5, <1>6, <1>7 DEF SchedulesNext

\* A session whose process dies.
Dies(s) == pc'[s] = "idle" /\ Only(s) /\ Threads'

GateLabels ==
    {"idle", "gate", "compare", "count", "lock", "drop", "reset", "issue", "index", "slide", "unlist",
     "charge", "fee", "members", "kill", "unindex", "level", "clear", "newpin"}

\* A step of a request of Access itself, but for a level's commit and a crash.
GateStep(s) ==
    \/ Login(s) \/ StepUp(s) \/ ChangePin(s) \/ Gate(s) \/ Compare(s) \/ Count(s) \/ Lock(s) \/ Drop(s)
    \/ Reset(s) \/ Issue(s) \/ Index(s) \/ UseSession(s) \/ SlideIndex(s) \/ Logout(s) \/ Unlist(s)
    \/ ChargeConflict(s) \/ StageChange(s) \/ AccountLost(s) \/ ChargeReused(s) \/ ChargePosted(s)
    \/ ChargeRefused(s) \/ SetLevel(s) \/ Members(s) \/ Kill(s) \/ Unindex(s)
    \/ ClearLockout(s) \/ ClearCounter(s) \/ CommitPin(s)

LEMMA GateWalks ==
    ASSUME Threads, NEW s \in Sessions, GateStep(s)
    PROVE  Walk(s, GateLabels)
<1>1. ASSUME \/ Login(s) \/ StepUp(s) \/ ChangePin(s) \/ Gate(s) \/ Compare(s) \/ Count(s) \/ Lock(s)
             \/ Drop(s) \/ Reset(s)
      PROVE  Walk(s, GateLabels)
  <2>1. pc[s] \in GateLabels
    BY <1>1 DEF Login, StepUp, ChangePin, Gate, Compare, Count, Lock, Drop, Reset, Request, GateLabels
  <2>2. \/ \E label \in GateLabels : \E j : Work(s, label, j)
        \/ \E label \in GateLabels : Goto(s, label) /\ UNCHANGED job
    BY <1>1 DEF Login, StepUp, ChangePin, Gate, Compare, Count, Lock, Drop, Reset, End, GateLabels
  <2> QED
    BY <2>1, <2>2, Working, Going DEF Walk
<1>2. ASSUME \/ Issue(s) \/ Index(s) \/ UseSession(s) \/ SlideIndex(s) \/ Logout(s) \/ Unlist(s)
             \/ ChargeConflict(s) \/ StageChange(s) \/ AccountLost(s) \/ ChargeReused(s)
             \/ ChargePosted(s) \/ ChargeRefused(s)
      PROVE  Walk(s, GateLabels)
  <2>1. pc[s] \in GateLabels
    BY <1>2 DEF Issue, Index, UseSession, SlideIndex, Logout, Unlist, ChargeConflict, StageChange,
                AccountLost, HoldsUser, ChargeReused, ChargePosted, ChargeRefused, Request, GateLabels
  <2>2. \E label \in GateLabels : \E j : Work(s, label, j)
    BY <1>2 DEF Issue, Index, UseSession, SlideIndex, Logout, Unlist, ChargeConflict, StageChange,
                AccountLost, ChargeReused, ChargePosted, ChargeRefused, End, GateLabels
  <2> QED
    BY <2>1, <2>2, Working DEF Walk
<1>3. ASSUME \/ SetLevel(s) \/ Members(s) \/ Kill(s) \/ Unindex(s) \/ ClearLockout(s) \/ ClearCounter(s)
             \/ CommitPin(s)
      PROVE  Walk(s, GateLabels)
  <2>1. pc[s] \in GateLabels
    BY <1>3 DEF SetLevel, Members, Kill, Unindex, ClearLockout, ClearCounter, CommitPin, Request,
                GateLabels
  <2>2. \/ \E label \in GateLabels : \E j : Work(s, label, j)
        \/ \E label \in GateLabels : Goto(s, label) /\ UNCHANGED job
    BY <1>3 DEF SetLevel, Members, Kill, Unindex, ClearLockout, ClearCounter, CommitPin, End, GateLabels
  <2> QED
    BY <2>1, <2>2, Working, Going DEF Walk
<1> QED
  BY <1>1, <1>2, <1>3 DEF GateStep

LEMMA AccessWalks ==
    ASSUME Threads, AccessNext
    PROVE  /\ Threads'
           /\ \/ Stay
              \/ \E s \in Sessions : Walk(s, AccessLabels) \/ Dies(s) \/ CommitLevel(s)
<1>1. CASE RegistrationNext
  <2>1. RegistrationLabels \subseteq AccessLabels
    BY DEF RegistrationLabels, AccessLabels
  <2> QED
    BY <1>1, <2>1, RegistrationWalks DEF Walk
<1>2. CASE Tick \/ CounterExpires \/ LockoutLapses
  BY <1>2 DEF Tick, CounterExpires, LockoutLapses, Stay, Threads
<1>3. ASSUME NEW s \in Sessions, GateStep(s)
      PROVE  Walk(s, AccessLabels)
  <2>1. GateLabels \subseteq AccessLabels
    BY DEF GateLabels, AccessLabels
  <2> QED
    BY <1>3, <2>1, GateWalks DEF Walk
<1>4. ASSUME NEW s \in Sessions, Crash(s)
      PROVE  Dies(s)
  BY <1>4, Working DEF Crash, End, Dies
<1>5. ASSUME NEW s \in Sessions, CommitLevel(s)
      PROVE  Threads'
  BY <1>5 DEF CommitLevel, Goto, Threads
<1>6. \A s \in Sessions : Walk(s, AccessLabels) \/ Dies(s) => Threads'
  BY DEF Walk, Dies
<1> QED
  BY <1>1, <1>2, <1>3, <1>4, <1>5, <1>6 DEF AccessNext, GateStep

\* Whoever is at one of these labels after the step was there before, with the
\* same request.
Keeps(labels) == \A t \in Sessions : pc'[t] \in labels => pc'[t] = pc[t] /\ job'[t] = job[t]

OwnAccess == AccessLabels \ {"idle"}

LEMMA AccessKeeps ==
    ASSUME Threads, AccessNext
    PROVE  Keeps(CatalogueLabels \cup {"catalog"} \cup SchedulesLabels \cup {"pay"})
<1> DEFINE labels == CatalogueLabels \cup {"catalog"} \cup SchedulesLabels \cup {"pay"}
<1>1. labels \cap AccessLabels = {} /\ "idle" \notin labels /\ "idle" \in AccessLabels
  BY DEF CatalogueLabels, SchedulesLabels, AccessLabels
<1> HIDE DEF labels
<1>2. ASSUME NEW s \in Sessions, Walk(s, AccessLabels) \/ Dies(s)
      PROVE  Keeps(labels)
  BY <1>1, <1>2 DEF Walk, Dies, Only, Keeps
<1>3. ASSUME NEW s \in Sessions, CommitLevel(s)
      PROVE  Keeps(labels)
  <2>1. /\ pc' = [pc EXCEPT ![s] = "idle"]
        /\ \A t \in Sessions \ {s} : t \notin LoggingIn => job'[t] = job[t]
    BY <1>3 DEF CommitLevel, Goto
  <2>2. \A t \in LoggingIn : pc[t] \in AccessLabels
    BY DEF LoggingIn, AccessLabels
  <2> QED
    BY <1>1, <2>1, <2>2 DEF Keeps, Threads
<1>4. Stay => Keeps(labels)
  BY DEF Stay, Keeps
<1>5. Keeps(labels)
  BY <1>2, <1>3, <1>4, AccessWalks
<1> QED
  BY <1>5 DEF labels

LEMMA OthersKeep ==
    ASSUME Threads, NEW labels, NEW others, labels \cap others = {},
           Stay \/ \E s \in Sessions : Walk(s, others)
    PROVE  Keeps(labels)
BY DEF Stay, Walk, Only, Keeps

LEMMA CatalogueKeeps ==
    ASSUME Threads, CatalogueNext
    PROVE  Keeps(OwnAccess \cup {"catalog"} \cup SchedulesLabels \cup {"pay"})
<1>1. (OwnAccess \cup {"catalog"} \cup SchedulesLabels \cup {"pay"}) \cap OfCatalogue = {}
  BY DEF OwnAccess, AccessLabels, SchedulesLabels, CatalogueLabels, OfCatalogue
<1> QED
  BY <1>1, CatalogueWalks, OthersKeep

LEMMA ServicesKeep ==
    ASSUME Threads, ServicesNext
    PROVE  Keeps(OwnAccess \cup CatalogueLabels \cup SchedulesLabels \cup {"pay"})
<1>1. (OwnAccess \cup CatalogueLabels \cup SchedulesLabels \cup {"pay"}) \cap {"idle", "catalog"} = {}
  BY DEF OwnAccess, AccessLabels, SchedulesLabels, CatalogueLabels
<1> QED
  BY <1>1, ServicesWalks, OthersKeep

LEMMA SchedulesKeep ==
    ASSUME Threads, SchedulesNext
    PROVE  Keeps(OwnAccess \cup CatalogueLabels \cup {"catalog", "pay"})
<1>1. (OwnAccess \cup CatalogueLabels \cup {"catalog", "pay"}) \cap OfSchedules = {}
  BY DEF OwnAccess, AccessLabels, OfSchedules, SchedulesLabels, CatalogueLabels
<1> QED
  BY <1>1, SchedulesWalks, OthersKeep

LEMMA FlowsKeep ==
    ASSUME Threads, NEW active, FlowsNext(active)
    PROVE  Keeps(OwnAccess \cup CatalogueLabels \cup SchedulesLabels \cup {"catalog"})
<1>1. (OwnAccess \cup CatalogueLabels \cup SchedulesLabels \cup {"catalog"}) \cap {"idle", "pay"} = {}
  BY DEF OwnAccess, AccessLabels, SchedulesLabels, CatalogueLabels
<1> QED
  BY <1>1, FlowsWalks, OthersKeep

LEMMA ThreadsInit == Init => Threads
BY DEF Init, AccessInit, RegistrationInit, RequestsInit, Threads

LEMMA ThreadsStep == Threads /\ [Next]_vars => Threads'
<1> SUFFICES ASSUME Threads, [Next]_vars
             PROVE  Threads'
  OBVIOUS
<1>1. CASE UNCHANGED vars
  BY <1>1 DEF vars, Threads
<1> QED
  BY <1>1, AccessWalks, CatalogueWalks, ServicesWalks, SchedulesWalks, FlowsWalks DEF Next

-----------------------------------------------------------------------------
(* The schedules                                                           *)

Filled(r) == r.from # None /\ r.to # None => r.from < r.to

Disjoint(r, q) == r.from # None /\ q.from # None => ~Overlap(r, q)

\* The rows a session has yet to write are bands of one schedule.
Drawn(rs) ==
    /\ rs \in Seq(ScheduleRow) /\ rs # <<>>
    /\ \A i \in DOMAIN rs : Scope(rs[i]) = Scope(rs[1]) /\ Filled(rs[i])
    /\ \A i, j \in DOMAIN rs : i # j => Disjoint(rs[i], rs[j])

ScopeOf(s) == Scope(Head(job[s].todo))

Editing == {s \in Sessions : pc[s] \in SchedulesLabels}

Table ==
    /\ SchedulesTypeOK
    /\ BandsDisjoint

\* Two requests at work on one scope have been seen.
Apartness == \A s, t \in Editing : s # t /\ ScopeOf(s) = ScopeOf(t) => ScopeOf(s) \in layered

\* What a session alone on its scope knows of the rows there.
Fresh(s) ==
    /\ pc[s] \in {"add", "replace"} =>
           job[s] = [todo |-> job[s].todo, old |-> job[s].old] /\ Drawn(job[s].todo)
    /\ pc[s] = "add" /\ ScopeOf(s) \notin layered =>
           \A q \in rows, i \in DOMAIN job[s].todo : Scope(q) = ScopeOf(s) => Disjoint(q, job[s].todo[i])
    /\ pc[s] = "replace" /\ ScopeOf(s) \notin layered =>
           \A q \in rows : Scope(q) = ScopeOf(s) => q \in job[s].old

BandsInv == Table /\ Apartness /\ \A s \in Sessions : Fresh(s)

LEMMA RowFields ==
    ASSUME NEW r \in ScheduleRow
    PROVE  /\ r.from \in Bound /\ r.to \in Bound
           /\ r.kind \notin Banded => r.from = None
BY DEF ScheduleRow, PricingConfig, CommissionConfig, LimitConfig, WalletLimitConfig, TaxConfig,
       StepUpPolicy, PointsConversionRate, Bound, Banded

LEMMA DisjointBothWays ==
    ASSUME NEW r \in ScheduleRow, NEW q \in ScheduleRow, Disjoint(r, q)
    PROVE  Disjoint(q, r)
BY DEF Disjoint, Overlap

\* Bands in order do not overlap, where they are bounded below.
LEMMA OrderedApart ==
    ASSUME NEW rs \in Seq(ScheduleRow), BandsOrdered(rs), NEW i \in DOMAIN rs, NEW j \in DOMAIN rs, i # j
    PROVE  Disjoint(rs[i], rs[j])
<1>1. rs[i] \in ScheduleRow /\ rs[j] \in ScheduleRow /\ i \in Nat /\ j \in Nat
  OBVIOUS
<1> SUFFICES ASSUME rs[i].from # None, rs[j].from # None, Overlap(rs[i], rs[j])
             PROVE  FALSE
  BY DEF Disjoint
<1>2. /\ rs[i].from \in Nat /\ rs[j].from \in Nat
      /\ rs[i].to \in Nat \cup {None} /\ rs[j].to \in Nat \cup {None}
  BY <1>1, RowFields DEF Bound
<1>3. /\ Precedes(rs, i, j) => rs[i].to # None /\ rs[i].to < rs[j].from
      /\ Precedes(rs, j, i) => rs[j].to # None /\ rs[j].to < rs[i].from
  BY DEF BandsOrdered
<1>4. Precedes(rs, i, j) \/ Precedes(rs, j, i)
  BY <1>1, <1>2 DEF Precedes
<1> QED
  BY <1>2, <1>3, <1>4 DEF Overlap

\* A payload that passes the validation is such a schedule.
LEMMA ValidDrawn ==
    ASSUME NEW rs \in Seq(ScheduleRow), ValidBands(rs)
    PROVE  Drawn(rs)
<1>1. rs # <<>> /\ DOMAIN rs = 1..Len(rs) /\ \A i \in DOMAIN rs : rs[i] \in ScheduleRow
  BY DEF ValidBands
<1>2. CASE rs[1].kind \in Banded
  <2>1. SharedScope(rs) /\ BandsOrdered(rs)
    BY <1>2 DEF ValidBands
  <2>2. \A i \in DOMAIN rs : Scope(rs[i]) = Scope(rs[1]) /\ Filled(rs[i])
    BY <1>1, <2>1 DEF SharedScope, BandsOrdered, Filled
  <2> QED
    BY <1>1, <2>1, <2>2, OrderedApart DEF Drawn
<1>3. CASE rs[1].kind \notin Banded
  <2>1. Len(rs) = 1
    BY <1>3 DEF ValidBands
  <2>2. \A i \in DOMAIN rs : i = 1 /\ rs[i].from = None
    BY <1>1, <1>3, <2>1, RowFields
  <2> QED
    BY <1>1, <2>2 DEF Drawn, Filled
<1> QED
  BY <1>2, <1>3

LEMMA BandsInit == ASSUME Init PROVE BandsInv
<1>1. /\ rows = (IF left.pay + left.config > 0 THEN Booked ELSE {}) /\ layered = {}
      /\ \A s \in Sessions : pc[s] = "idle"
  BY DEF Init, SchedulesInit, AccessInit, RegistrationInit, RequestsInit
<1>2. rows \subseteq Booked
  BY <1>1
<1>3. Table
  BY <1>2, SchedulesAssumption DEF Table, SchedulesTypeOK, BandsDisjoint
<1> QED
  BY <1>1, <1>3 DEF BandsInv, Apartness, Editing, SchedulesLabels, Fresh

\* The rest of the tenant edits no schedule.
LEMMA BandsElsewhere ==
    ASSUME BandsInv, UNCHANGED schedulesVars, Keeps(SchedulesLabels)
    PROVE  BandsInv'
<1>1. rows' = rows /\ layered' = layered
  BY DEF schedulesVars
<1>2. Table'
  BY <1>1 DEF BandsInv, Table, SchedulesTypeOK, BandsDisjoint
<1>3. \A t \in Editing' : t \in Editing /\ pc'[t] = pc[t] /\ job'[t] = job[t]
  BY DEF Keeps, Editing
<1>4. Apartness'
  BY <1>1, <1>3 DEF BandsInv, Apartness, ScopeOf
<1>5. ASSUME NEW s \in Sessions
      PROVE  Fresh(s)'
  <2>1. CASE s \in Editing'
    BY <1>1, <1>3, <2>1 DEF BandsInv, Fresh, ScopeOf
  <2>2. CASE s \notin Editing'
    BY <2>2 DEF Editing, SchedulesLabels, Fresh
  <2> QED
    BY <2>1, <2>2
<1> QED
  BY <1>2, <1>4, <1>5 DEF BandsInv

LEMMA ApplyKeeps ==
    ASSUME Threads, BandsInv, NEW s \in Sessions, Apply(s)
    PROVE  BandsInv'
<1>1. PICK p \in Plans :
          /\ p.op # "delete" => ValidBands(p.rows)
          /\ Work(s, Label[p.op], [todo |-> p.rows, old |-> InScope(Head(p.rows))])
          /\ layered' = IF On(Scope(Head(p.rows))) # {} \/ (p.op = "create" /\ InScope(Head(p.rows)) # {})
                        THEN layered \cup {Scope(Head(p.rows))} ELSE layered
  BY DEF Apply
<1> DEFINE scope == Scope(Head(p.rows))
<1>2. rows' = rows /\ layered \subseteq layered' /\ (On(scope) # {} => scope \in layered')
  BY <1>1 DEF Apply
<1>3. /\ pc'[s] = Label[p.op] /\ job'[s] = [todo |-> p.rows, old |-> InScope(Head(p.rows))]
      /\ Only(s)
  BY <1>1, Working
<1>4. p.op \in {"create", "update", "delete"} /\ p.rows \in Seq(ScheduleRow)
  BY SchedulesAssumption
<1>5. /\ ScopeOf(s)' = scope
      /\ \A t \in Sessions \ {s} : ScopeOf(t)' = ScopeOf(t)
  BY <1>3 DEF ScopeOf, Only
<1> HIDE DEF scope
<1>6. Table'
  BY <1>2 DEF BandsInv, Table, SchedulesTypeOK, BandsDisjoint
<1>7. Apartness'
  <2>1. \A t \in Editing \ {s} : ScopeOf(t) = scope => t \in On(scope)
    BY DEF Editing, SchedulesLabels, On, ScopeOf
  <2>2. \A t \in Editing' \ {s} : t \in Editing
    BY <1>3 DEF Editing, Only
  <2>3. ASSUME NEW t \in Editing', NEW u \in Editing', t # u, ScopeOf(t)' = ScopeOf(u)'
        PROVE  ScopeOf(t)' \in layered'
    <3>1. CASE t # s /\ u # s
      <4>1. /\ t \in Editing /\ u \in Editing /\ t \in Sessions /\ u \in Sessions
            /\ ScopeOf(t)' = ScopeOf(t) /\ ScopeOf(u)' = ScopeOf(u)
        BY <1>5, <2>2, <3>1 DEF Editing
      <4> QED
        BY <1>2, <2>3, <4>1 DEF BandsInv, Apartness
    <3>2. CASE t = s \/ u = s
      <4>1. PICK w \in Editing \ {s} : ScopeOf(w) = scope /\ ScopeOf(t)' = scope
        BY <1>5, <2>2, <2>3, <3>2 DEF Editing
      <4> QED
        BY <1>2, <2>1, <4>1
    <3> QED
      BY <3>1, <3>2
  <2> QED
    BY <2>3 DEF Apartness
<1>8. ASSUME NEW t \in Sessions
      PROVE  Fresh(t)'
  <2>1. CASE t # s
    <3>1. pc'[t] = pc[t] /\ job'[t] = job[t] /\ Fresh(t)
      BY <1>3, <2>1 DEF Only, BandsInv
    <3> QED
      BY <1>2, <3>1 DEF Fresh, ScopeOf
  <2>2. CASE t = s
    <3>1. pc'[s] = "add" => p.op = "create"
      BY <1>3, <1>4 DEF Label
    <3>2. pc'[s] = "replace" => p.op = "update"
      BY <1>3, <1>4 DEF Label
    <3>3. pc'[s] \in {"add", "replace"} =>
              job'[s] = [todo |-> job'[s].todo, old |-> job'[s].old] /\ Drawn(job'[s].todo)
      BY <1>1, <1>3, <1>4, <3>1, <3>2, ValidDrawn
    <3>4. pc'[s] = "add" /\ scope \notin layered' => InScope(Head(p.rows)) = {}
      BY <1>1, <3>1 DEF scope
    <3>5. \A q \in rows' : Scope(q) = scope => q \in InScope(Head(p.rows))
      BY <1>2 DEF InScope, scope
    <3> QED
      BY <1>3, <1>5, <2>2, <3>3, <3>4, <3>5 DEF Fresh
  <2> QED
    BY <2>1, <2>2
<1> QED
  BY <1>6, <1>7, <1>8 DEF BandsInv

\* What the session at work leaves of a schedule that is not its own.
LEMMA OtherScopes ==
    ASSUME BandsInv, NEW s \in Editing, Only(s), NEW t \in Sessions \ {s},
           layered \ {ScopeOf(s)} \subseteq layered', layered' \subseteq layered,
           \A q \in rows' : q \in rows \/ Scope(q) = ScopeOf(s),
           t \in Editing => ScopeOf(t) # ScopeOf(s) \/ ScopeOf(s) \in layered'
    PROVE  Fresh(t)'
<1>1. pc'[t] = pc[t] /\ job'[t] = job[t] /\ Fresh(t)
  BY DEF Only, BandsInv
<1>2. pc[t] \in {"add", "replace"} => t \in Editing
  BY DEF Editing, SchedulesLabels
<1>3. t \in Editing /\ ScopeOf(t) \notin layered' => ScopeOf(t) \notin layered /\ ScopeOf(t) # ScopeOf(s)
  OBVIOUS
<1> QED
  BY <1>1, <1>2, <1>3 DEF Fresh, ScopeOf

\* The session ends, or goes on in its scope.
LEMMA StillApart ==
    ASSUME BandsInv, NEW s \in Editing, Only(s),
           pc'[s] = "idle" \/ (ScopeOf(s)' = ScopeOf(s) /\ layered' = layered),
           layered \ {ScopeOf(s)} \subseteq layered',
           \A t \in Editing \ {s} : ScopeOf(t) = ScopeOf(s) => ScopeOf(s) \in layered'
    PROVE  Apartness'
<1>1. \A t \in Editing' \ {s} : t \in Editing /\ t \in Sessions /\ ScopeOf(t)' = ScopeOf(t)
  BY DEF Editing, Only, ScopeOf
<1>2. ASSUME NEW t \in Editing', NEW u \in Editing', t # u, ScopeOf(t)' = ScopeOf(u)'
      PROVE  ScopeOf(t)' \in layered'
  <2>1. CASE t # s /\ u # s
    <3>1. ScopeOf(t) \in layered /\ ScopeOf(t)' = ScopeOf(t) /\ ScopeOf(u) = ScopeOf(t)
      BY <1>1, <1>2, <2>1 DEF BandsInv, Apartness
    <3> QED
      BY <1>1, <2>1, <3>1
  <2>2. CASE t = s \/ u = s
    <3>1. pc'[s] # "idle"
      BY <1>2, <2>2 DEF Editing, SchedulesLabels
    <3>2. PICK w \in Editing \ {s} : ScopeOf(w) = ScopeOf(s) /\ ScopeOf(t)' = ScopeOf(s)
      BY <1>1, <1>2, <2>2, <3>1
    <3> QED
      BY <3>2
  <2> QED
    BY <2>1, <2>2
<1> QED
  BY <1>2 DEF Apartness

LEMMA InsertKeeps ==
    ASSUME Threads, BandsInv, NEW s \in Sessions, NEW kind, NEW allowed, Insert(s, kind, allowed)
    PROVE  BandsInv'
<1> DEFINE rs == job[s].todo
           r == Head(rs)
<1>1. pc[s] = "add" /\ layered' = layered /\ s \in Editing
  BY DEF Insert, Editing, SchedulesLabels
<1>2. /\ Drawn(rs) /\ rs \in Seq(ScheduleRow) /\ rs # <<>>
      /\ r = rs[1] /\ 1 \in DOMAIN rs /\ r \in ScheduleRow /\ ScopeOf(s) = Scope(r)
  <2>1. Drawn(rs) /\ rs \in Seq(ScheduleRow) /\ rs # <<>>
    BY <1>1 DEF BandsInv, Fresh, Drawn
  <2> QED
    BY <2>1 DEF ScopeOf
<1>3. ASSUME ScopeOf(s) \notin layered
      PROVE  \A q \in rows, i \in DOMAIN rs : Scope(q) = ScopeOf(s) => Disjoint(q, rs[i])
  BY <1>1, <1>3 DEF BandsInv, Fresh
<1>4. CASE allowed /\ ~Taken(r)
  <2>1. /\ rows' = rows \cup {r}
        /\ \/ End(s)
           \/ Tail(rs) # <<>> /\ Work(s, "add", [job[s] EXCEPT !.todo = Tail(rs)])
    BY <1>4 DEF Insert, Due
  <2>2. /\ Only(s)
        /\ \/ pc'[s] = "idle"
           \/ /\ pc'[s] = "add" /\ job'[s] = [job[s] EXCEPT !.todo = Tail(rs)]
              /\ Tail(rs) # <<>>
    BY <2>1, Working DEF End
  <2>3. ASSUME Tail(rs) # <<>>
        PROVE  /\ Drawn(Tail(rs)) /\ Scope(Head(Tail(rs))) = Scope(r)
               /\ \A i \in DOMAIN Tail(rs) : Disjoint(r, Tail(rs)[i])
               /\ \A i \in DOMAIN Tail(rs) : i + 1 \in DOMAIN rs /\ Tail(rs)[i] = rs[i + 1]
    <3>1. /\ Tail(rs) \in Seq(ScheduleRow) /\ Head(Tail(rs)) = Tail(rs)[1] /\ 1 \in DOMAIN Tail(rs)
          /\ \A i \in DOMAIN Tail(rs) : i \in Nat /\ i + 1 \in DOMAIN rs /\ Tail(rs)[i] = rs[i + 1] /\ i + 1 # 1
      BY <1>2, <2>3
    <3>2. \A i \in DOMAIN Tail(rs) : Scope(Tail(rs)[i]) = Scope(rs[1]) /\ Filled(Tail(rs)[i])
      BY <1>2, <3>1 DEF Drawn
    <3>3. \A i, j \in DOMAIN Tail(rs) : i # j => Disjoint(Tail(rs)[i], Tail(rs)[j])
      <4>1. \A i, j \in DOMAIN Tail(rs) : i # j => i + 1 # j + 1
        BY <3>1
      <4> QED
        BY <1>2, <3>1, <4>1 DEF Drawn
    <3>4. \A i \in DOMAIN Tail(rs) : Disjoint(r, Tail(rs)[i])
      BY <1>2, <3>1 DEF Drawn
    <3> QED
      BY <1>2, <2>3, <3>1, <3>2, <3>3, <3>4 DEF Drawn
  <2>4. Table'
    <3>1. Filled(r) /\ \A q \in rows : Scope(q) = Scope(r) => q.from # r.from
      BY <1>2, <1>4 DEF Drawn, Taken
    <3>2. SchedulesTypeOK'
      BY <1>2, <2>1, <3>1 DEF BandsInv, Table, SchedulesTypeOK, Filled
    <3>3. \A q \in rows : /\ q \in ScheduleRow
                          /\ Scope(q) = Scope(r) /\ Scope(r) \notin layered =>
                                Disjoint(q, r) /\ Disjoint(r, q)
      <4>1. \A q \in rows : q \in ScheduleRow
        BY DEF BandsInv, Table, SchedulesTypeOK
      <4>2. \A q \in rows : Scope(q) = Scope(r) /\ Scope(r) \notin layered => Disjoint(q, r)
        BY <1>2, <1>3
      <4> QED
        BY <1>2, <4>1, <4>2, DisjointBothWays
    <3>4. BandsDisjoint'
      BY <1>1, <2>1, <3>3 DEF BandsInv, Table, BandsDisjoint, Disjoint
    <3> QED
      BY <3>2, <3>4 DEF Table
  <2>5. pc'[s] # "idle" => ScopeOf(s)' = ScopeOf(s)
    <3>1. job[s] = [todo |-> job[s].todo, old |-> job[s].old]
      BY <1>1 DEF BandsInv, Fresh
    <3>2. pc'[s] # "idle" => job'[s].todo = Tail(rs)
      BY <2>2, <3>1
    <3> QED
      BY <1>2, <2>2, <2>3, <3>2 DEF ScopeOf
  <2>6. \A t \in Editing \ {s} : ScopeOf(t) = ScopeOf(s) => ScopeOf(s) \in layered
    BY <1>1 DEF BandsInv, Apartness
  <2>7. Apartness'
    BY <1>1, <2>2, <2>5, <2>6, StillApart
  <2>8. ASSUME NEW t \in Sessions, t # s
        PROVE  Fresh(t)'
    BY <1>1, <1>2, <2>1, <2>2, <2>6, <2>8, OtherScopes
  <2>9. Fresh(s)'
    <3>1. CASE pc'[s] = "idle"
      BY <3>1 DEF Fresh
    <3>2. CASE pc'[s] # "idle"
      <4>1. pc'[s] = "add" /\ job'[s].todo = Tail(rs) /\ Drawn(Tail(rs))
              /\ job'[s] = [todo |-> job'[s].todo, old |-> job'[s].old]
        <5>1. job[s] = [todo |-> job[s].todo, old |-> job[s].old]
          BY <1>1 DEF BandsInv, Fresh
        <5> QED
          BY <2>2, <2>3, <3>2, <5>1
      <4>2. ASSUME ScopeOf(s) \notin layered
            PROVE  \A q \in rows', i \in DOMAIN Tail(rs) : Scope(q) = ScopeOf(s) => Disjoint(q, Tail(rs)[i])
        BY <1>3, <2>1, <2>2, <2>3, <3>2, <4>2
      <4> QED
        BY <1>1, <2>5, <3>2, <4>1, <4>2 DEF Fresh
    <3> QED
      BY <3>1, <3>2
  <2> QED
    BY <2>4, <2>7, <2>8, <2>9 DEF BandsInv
<1>5. CASE ~(allowed /\ ~Taken(r))
  <2>1. rows' = rows /\ End(s)
    BY <1>5 DEF Insert, Due
  <2>2. Only(s) /\ pc'[s] = "idle"
    BY <2>1, Working DEF End
  <2>3. Keeps(SchedulesLabels)
    BY <2>2 DEF Keeps, Only, SchedulesLabels
  <2> QED
    BY <1>1, <2>1, <2>3, BandsElsewhere DEF schedulesVars
<1> QED
  BY <1>4, <1>5

\* A payment reads the rules and writes none of them.
LEMMA FlowsRead ==
    ASSUME NEW active, FlowsNext(active)
    PROVE  UNCHANGED <<catalogueVars, servicesVars, schedulesVars>>
<1>1. ASSUME NEW s \in Sessions, NEW gate, NEW passed, NEW j, Turn(s, gate, passed, j)
      PROVE  UNCHANGED <<catalogueVars, servicesVars, schedulesVars>>
  BY <1>1 DEF Turn
<1>2. ASSUME NEW s \in Sessions,
             \/ ReadType(s) \/ ResolveService(s) \/ RequirePermission(s) \/ FindExisting(s)
             \/ CheckStanding(s, active) \/ CheckService(s) \/ CheckPayee(s) \/ CheckAgent(s)
             \/ CheckConfigured(s) \/ FindWallets(s)
      PROVE  UNCHANGED <<catalogueVars, servicesVars, schedulesVars>>
  BY <1>1, <1>2 DEF ReadType, ResolveService, RequirePermission, FindExisting, CheckStanding,
                    CheckService, CheckPayee, CheckAgent, CheckConfigured, FindWallets, Ask
<1>3. ASSUME NEW s \in Sessions,
             \/ CheckLimits(s) \/ CheckSend(s) \/ CheckReceive(s) \/ EnforceStepUp(s) \/ ResolveFee(s)
             \/ CalculateCommission(s) \/ ResolveEarner(s) \/ CheckFunds(s)
      PROVE  UNCHANGED <<catalogueVars, servicesVars, schedulesVars>>
  BY <1>1, <1>3 DEF CheckLimits, CheckSend, CheckReceive, EnforceStepUp, ResolveFee,
                    CalculateCommission, ResolveEarner, CheckFunds, Ask
<1>4. ASSUME NEW s \in Sessions, Send(s) \/ Post(s)
      PROVE  UNCHANGED <<catalogueVars, servicesVars, schedulesVars>>
  BY <1>4 DEF Send, Post
<1> QED
  BY <1>2, <1>3, <1>4 DEF FlowsNext

LEMMA ReplaceKeeps ==
    ASSUME Threads, BandsInv, NEW s \in Sessions, NEW kind, Replace(s, kind)
    PROVE  BandsInv'
<1> DEFINE rs == job[s].todo
           kept == rows \ job[s].old
           scope == Scope(Head(rs))
<1>1. pc[s] = "replace" /\ s \in Editing /\ End(s) /\ ScopeOf(s) = scope
  BY DEF Replace, Editing, SchedulesLabels, ScopeOf
<1>2. Only(s) /\ pc'[s] = "idle"
  BY <1>1, Working DEF End
<1>3. Drawn(rs) /\ rs \in Seq(ScheduleRow) /\ scope = Scope(rs[1])
  <2>1. Drawn(rs) /\ rs \in Seq(ScheduleRow) /\ rs # <<>>
    BY <1>1 DEF BandsInv, Fresh, Drawn
  <2> QED
    BY <2>1
<1>4. \A t \in Editing \ {s} : ScopeOf(t) = scope => t \in On(scope)
  BY DEF Editing, SchedulesLabels, On, ScopeOf
<1>5. CASE Collide(rs, kept)
  <2>1. UNCHANGED schedulesVars
    BY <1>5 DEF Replace, schedulesVars
  <2>2. Keeps(SchedulesLabels)
    BY <1>2 DEF Keeps, Only, SchedulesLabels
  <2> QED
    BY <2>1, <2>2, BandsElsewhere
<1>6. CASE ~Collide(rs, kept)
  <2>1. /\ rows' = kept \cup Range(rs)
        /\ layered' = IF On(scope) = {s} /\ \A q \in kept : Scope(q) # scope
                      THEN layered \ {scope} ELSE layered
    BY <1>6 DEF Replace
  <2>2. \A q \in Range(rs) : \E i \in DOMAIN rs : q = rs[i]
    BY DEF Range
  <2>3. \A q \in Range(rs) : q \in ScheduleRow /\ Scope(q) = scope /\ Filled(q)
    BY <1>3, <2>2 DEF Drawn
  <2>4. \A q, r \in Range(rs) : q # r => Disjoint(q, r) /\ q.from # r.from
    <3>1. \A i, j \in DOMAIN rs : i # j => Disjoint(rs[i], rs[j]) /\ rs[i].from # rs[j].from
      BY <1>3, <1>6 DEF Drawn, Collide
    <3> QED
      BY <2>2, <3>1
  <2>5. \A q \in Range(rs), r \in kept : Scope(q) = Scope(r) => q.from # r.from
    BY <1>6, <2>2 DEF Collide
  <2>6. \A q \in kept : q \in rows /\ q \in ScheduleRow /\ Filled(q)
    BY DEF BandsInv, Table, SchedulesTypeOK, Filled
  <2>7. SchedulesTypeOK'
    <3>1. \A q, r \in rows : Scope(q) = Scope(r) /\ q.from = r.from => q = r
      BY DEF BandsInv, Table, SchedulesTypeOK
    <3>2. \A q \in rows' : q \in ScheduleRow /\ Filled(q)
      BY <2>1, <2>3, <2>6
    <3>3. \A q, r \in rows' : Scope(q) = Scope(r) /\ q.from = r.from => q = r
      BY <2>1, <2>4, <2>5, <2>6, <3>1
    <3> QED
      BY <3>2, <3>3 DEF SchedulesTypeOK, Filled
  <2>8. layered \ {scope} \subseteq layered' /\ layered' \subseteq layered
    BY <2>1
  <2>9. scope \notin layered' => \A q \in kept : Scope(q) # scope
    BY <1>1, <2>1 DEF BandsInv, Fresh
  <2> HIDE DEF kept, scope
  <2>10. BandsDisjoint'
    <3>1. ASSUME NEW q \in rows', NEW r \in rows', q # r, Scope(q) = Scope(r), Scope(q) \notin layered'
          PROVE  Disjoint(q, r)
      <4>1. CASE Scope(q) = scope
        BY <2>1, <2>4, <2>9, <3>1, <4>1
      <4>2. CASE Scope(q) # scope
        <5>1. q \in rows /\ r \in rows /\ Scope(q) \notin layered
          BY <2>1, <2>3, <2>6, <2>8, <3>1, <4>2
        <5> QED
          BY <3>1, <5>1 DEF BandsInv, Table, BandsDisjoint, Disjoint
      <4> QED
        BY <4>1, <4>2
    <3> QED
      BY <3>1 DEF BandsDisjoint, Disjoint
  <2>11. \A t \in Editing \ {s} : ScopeOf(t) = ScopeOf(s) => ScopeOf(s) \in layered'
    <3>1. ASSUME NEW t \in Editing \ {s}, ScopeOf(t) = ScopeOf(s)
          PROVE  ScopeOf(s) \in layered'
      <4>1. scope \in layered /\ On(scope) # {s}
        BY <1>1, <1>4, <3>1 DEF BandsInv, Apartness
      <4> QED
        BY <1>1, <2>1, <4>1
    <3> QED
      BY <3>1
  <2>12. Apartness'
    BY <1>1, <1>2, <2>8, <2>11, StillApart
  <2>13. \A t \in Sessions \ {s} : Fresh(t)'
    <3>1. \A q \in rows' : q \in rows \/ Scope(q) = ScopeOf(s)
      BY <1>1, <2>1, <2>3, <2>6
    <3> QED
      BY <1>1, <1>2, <2>8, <2>11, <3>1, OtherScopes
  <2>14. Fresh(s)'
    BY <1>2 DEF Fresh
  <2> QED
    BY <2>7, <2>10, <2>12, <2>13, <2>14 DEF BandsInv, Table
<1> QED
  BY <1>5, <1>6

LEMMA DeleteKeeps ==
    ASSUME Threads, BandsInv, NEW s \in Sessions, NEW kind, Delete(s, kind)
    PROVE  BandsInv'
<1>1. /\ rows' \subseteq rows /\ layered' = layered /\ s \in Editing /\ End(s)
  BY DEF Delete, Editing, SchedulesLabels
<1>2. Only(s) /\ pc'[s] = "idle"
  BY <1>1, Working DEF End
<1>3. Table'
  BY <1>1 DEF BandsInv, Table, SchedulesTypeOK, BandsDisjoint
<1>4. \A t \in Editing \ {s} : ScopeOf(t) = ScopeOf(s) => ScopeOf(s) \in layered'
  BY <1>1 DEF BandsInv, Apartness
<1>5. Apartness'
  BY <1>1, <1>2, <1>4, StillApart
<1>6. \A t \in Sessions \ {s} : Fresh(t)'
  BY <1>1, <1>2, <1>4, OtherScopes
<1>7. Fresh(s)'
  BY <1>2 DEF Fresh
<1> QED
  BY <1>3, <1>5, <1>6, <1>7 DEF BandsInv

LEMMA BandsStep == Threads /\ BandsInv /\ [Next]_vars => BandsInv'
<1> SUFFICES ASSUME Threads, BandsInv, [Next]_vars
             PROVE  BandsInv'
  OBVIOUS
<1>1. CASE SchedulesNext
  <2>1. ASSUME NEW s \in Sessions, Apply(s)
        PROVE  BandsInv'
    BY <2>1, ApplyKeeps
  <2>2. ASSUME NEW s \in Sessions,
               \/ CreatePricing(s) \/ CreateLimit(s) \/ CreateWalletLimit(s) \/ CreateCommission(s)
               \/ CreateTax(s) \/ CreatePolicy(s) \/ CreateRate(s)
        PROVE  BandsInv'
    BY <2>2, InsertKeeps DEF CreatePricing, CreateLimit, CreateWalletLimit, CreateCommission, CreateTax,
                             CreatePolicy, CreateRate
  <2>3. ASSUME NEW s \in Sessions,
               \/ ReplacePricing(s) \/ ReplaceLimit(s) \/ ReplaceWalletLimit(s) \/ ReplaceCommission(s)
               \/ ReplaceTax(s) \/ ReplacePolicy(s) \/ ReplaceRate(s)
        PROVE  BandsInv'
    BY <2>3, ReplaceKeeps DEF ReplacePricing, ReplaceLimit, ReplaceWalletLimit, ReplaceCommission,
                              ReplaceTax, ReplacePolicy, ReplaceRate
  <2>4. ASSUME NEW s \in Sessions,
               \/ DeletePricing(s) \/ DeleteLimit(s) \/ DeleteWalletLimit(s) \/ DeleteCommission(s)
               \/ DeleteTax(s) \/ DeletePolicy(s) \/ DeleteRate(s)
        PROVE  BandsInv'
    BY <2>4, DeleteKeeps DEF DeletePricing, DeleteLimit, DeleteWalletLimit, DeleteCommission, DeleteTax,
                             DeletePolicy, DeleteRate
  <2> QED
    BY <1>1, <2>1, <2>2, <2>3, <2>4 DEF SchedulesNext
<1>2. CASE AccessNext /\ UNCHANGED schedulesVars
  BY <1>2, AccessKeeps, BandsElsewhere DEF Keeps
<1>3. CASE CatalogueNext /\ UNCHANGED schedulesVars
  BY <1>3, CatalogueKeeps, BandsElsewhere DEF Keeps
<1>4. CASE ServicesNext /\ UNCHANGED schedulesVars
  BY <1>4, ServicesKeep, BandsElsewhere DEF Keeps
<1>5. CASE FlowsNext(status = "active")
  <2>1. UNCHANGED schedulesVars
    BY <1>5, FlowsRead
  <2>2. Keeps(SchedulesLabels)
    BY <1>5, FlowsKeep DEF Keeps
  <2> QED
    BY <2>1, <2>2, BandsElsewhere
<1>6. CASE UNCHANGED vars
  BY <1>6, BandsElsewhere DEF vars, Keeps
<1> QED
  BY <1>1, <1>2, <1>3, <1>4, <1>5, <1>6 DEF Next

\* Every amount has one price and one commission: bands of one scope do not
\* overlap, whatever edits fail, race or die half way, but where a creation
\* came upon rows or two requests met (config_requests/apply.py:359).
THEOREM SchedulesHold == Spec => []BandsDisjoint
<1>1. Init => Threads /\ BandsInv
  BY ThreadsInit, BandsInit
<1>2. Threads /\ BandsInv /\ [Next]_vars => (Threads /\ BandsInv)'
  BY ThreadsStep, BandsStep
<1>3. BandsInv => BandsDisjoint
  BY DEF BandsInv, Table
<1> QED
  BY <1>1, <1>2, <1>3, PTL DEF Spec

-----------------------------------------------------------------------------
(* What a login lock leaves of a user's sessions                           *)

\* The tokens a client can use and a lock has to reach.
Live == {t \in held : ttl[t] > 0} \ (late \cup torn)

Sliding(t) == \E s \in Sessions : pc[s] = "slide" /\ job[s].token = t

SessionsTyped ==
    /\ ttl \in [Tokens -> 0..Ttl]
    /\ index \in [tokens: SUBSET Tokens, ttl: 0..Ttl]
    /\ index.tokens = {} <=> index.ttl = 0
    /\ held \subseteq Tokens

\* The index outlives them, but for a read that has yet to extend it.
Listed == \A t \in Live : t \in index.tokens /\ (ttl[t] <= index.ttl \/ Sliding(t))

LoginLabels == {"gate", "compare", "reset", "issue", "index"}

\* What a session's request knows of them.
Served(s) ==
    /\ pc[s] \in LoginLabels \cup {"charge"} =>
           job[s] = [kind |-> job[s].kind, key |-> job[s].key, token |-> job[s].token,
                     late |-> job[s].late, staged |-> job[s].staged]
    /\ pc[s] \in {"issue", "index"} => job[s].kind = "login"
    /\ pc[s] = "index" => job[s].token \in Tokens
    /\ pc[s] = "unlist" => job[s].token \in held /\ ttl[job[s].token] = 0
    /\ pc[s] \in {"members", "kill", "unindex"} =>
           /\ job[s].to = "suspended"
           /\ job[s] = [kind |-> job[s].kind, to |-> job[s].to, before |-> job[s].before,
                        tokens |-> job[s].tokens]
    /\ pc[s] = "kill" => Live \subseteq job[s].tokens
    /\ pc[s] = "unindex" \/ (pc[s] = "level" /\ job[s].to = "suspended") => Live = {}
    /\ status = "suspended" /\ pc[s] \in LoginLabels /\ job[s].kind = "login" => job[s].late

LockInv ==
    /\ SessionsTyped
    /\ Listed
    /\ status = "suspended" => Live = {}
    /\ \A s \in Sessions : Served(s)

sessionVars == <<status, ttl, index, held, late, torn>>

LEMMA LockInit == Init => LockInv
BY AccessAssumption DEF Init, AccessInit, RegistrationInit, RequestsInit, NoIndex, LockInv, SessionsTyped,
    Listed, Live, Served, LoginLabels

\* Another session's request, while tokens at most come to an end.
LEMMA StillServed ==
    ASSUME NEW s \in Sessions, Served(s), pc'[s] = pc[s], job'[s] = job[s],
           status' = status, held \subseteq held',
           \A t \in held : ttl[t] = 0 => ttl'[t] = 0,
           Live' \subseteq Live \/ (pc[s] # "kill" /\ pc[s] # "unindex"
                                     /\ ~(pc[s] = "level" /\ job[s].to = "suspended"))
    PROVE  Served(s)'
BY DEF Served

\* A step that neither touches a token nor ends a read of one.
LEMMA LockUntouched ==
    ASSUME LockInv, UNCHANGED sessionVars,
           \A s \in Sessions : pc[s] = "slide" => pc'[s] = "slide" /\ job'[s] = job[s],
           \A s \in Sessions : Served(s)'
    PROVE  LockInv'
<1>1. Live' = Live
  BY DEF Live, sessionVars
<1>2. \A t : Sliding(t) => Sliding(t)'
  BY DEF Sliding
<1>3. Listed'
  BY <1>1, <1>2 DEF LockInv, Listed, sessionVars
<1> QED
  BY <1>1, <1>3 DEF LockInv, SessionsTyped, sessionVars

LEMMA LockMoves ==
    ASSUME LockInv, NEW s \in Sessions, Only(s), pc[s] # "slide", UNCHANGED sessionVars, Served(s)'
    PROVE  LockInv'
<1>1. Live' = Live
  BY DEF Live, sessionVars
<1>2. \A t \in Sessions \ {s} : Served(t)'
  BY <1>1, StillServed DEF LockInv, Only, sessionVars
<1>3. \A t \in Sessions : pc[t] = "slide" => pc'[t] = "slide" /\ job'[t] = job[t]
  BY DEF Only
<1> QED
  BY <1>2, <1>3, LockUntouched

Guarded == LoginLabels \cup {"charge", "slide", "unlist", "members", "kill", "unindex", "level"}

\* Whoever is at another's label is somewhere else.
LEMMA LockElsewhere ==
    ASSUME Threads, LockInv, UNCHANGED sessionVars, NEW labels, labels \cap Guarded = {},
           Stay \/ \E s \in Sessions : Walk(s, labels)
    PROVE  LockInv'
<1>1. CASE Stay
  <2>1. Live' = Live
    BY DEF Live, sessionVars
  <2>2. \A s \in Sessions : Served(s)'
    BY <1>1, <2>1, StillServed DEF LockInv, Stay, sessionVars
  <2> QED
    BY <1>1, <2>2, LockUntouched DEF Stay
<1>2. ASSUME NEW s \in Sessions, Walk(s, labels)
      PROVE  LockInv'
  <2>1. pc[s] \notin Guarded /\ pc'[s] \notin Guarded /\ Only(s)
    BY <1>2 DEF Walk
  <2>2. Served(s)'
    BY <2>1 DEF Guarded, LoginLabels, Served
  <2> QED
    BY <2>1, <2>2, LockMoves DEF Guarded
<1> QED
  BY <1>1, <1>2

LEMMA LockChecks ==
    ASSUME Threads, LockInv, NEW s \in Sessions,
           \/ Login(s) \/ StepUp(s) \/ ChangePin(s) \/ Gate(s) \/ Compare(s) \/ Count(s) \/ Lock(s)
           \/ Drop(s) \/ Reset(s)
    PROVE  LockInv'
<1>1. UNCHANGED sessionVars
  BY DEF Login, StepUp, ChangePin, Gate, Compare, Count, Lock, Drop, Reset, sessionVars, accessVars,
         redis, history
<1>2. pc[s] # "slide"
  BY DEF Login, StepUp, ChangePin, Gate, Compare, Count, Lock, Drop, Reset, Request
<1>3. ASSUME Login(s) \/ StepUp(s) \/ ChangePin(s)
      PROVE  Only(s) /\ Served(s)'
  <2>1. PICK kind, key : Work(s, "gate", Check(kind, key)) /\ (kind = "login" => status # "suspended")
    BY <1>3 DEF Login, StepUp, ChangePin
  <2>2. pc'[s] = "gate" /\ job'[s] = Check(kind, key) /\ Only(s)
    BY <2>1, Working
  <2> QED
    BY <1>1, <2>1, <2>2 DEF Served, Check, LoginLabels, sessionVars
<1>4. ASSUME Gate(s) \/ Compare(s) \/ Count(s) \/ Lock(s) \/ Drop(s) \/ Reset(s)
      PROVE  Only(s) /\ Served(s)'
  <2>1. \/ End(s)
        \/ UNCHANGED job /\ \E label \in {"lock", "drop", "count"} : Goto(s, label)
        \/ UNCHANGED job /\ pc[s] \in LoginLabels
              /\ \E label \in {"compare", "reset", "charge"} : Goto(s, label)
        \/ UNCHANGED job /\ pc[s] \in LoginLabels /\ job[s].kind = "login" /\ Goto(s, "issue")
    BY <1>4 DEF Gate, Compare, Count, Lock, Drop, Reset, LoginLabels
  <2>2. Only(s)
    BY <2>1, Working, Going DEF End
  <2>3. \/ pc'[s] \in {"idle", "lock", "drop", "count"}
        \/ job'[s] = job[s] /\ pc[s] \in LoginLabels /\ pc'[s] \in {"compare", "reset", "charge"}
        \/ job'[s] = job[s] /\ pc[s] \in LoginLabels /\ pc'[s] = "issue" /\ job[s].kind = "login"
    BY <2>1, Working, Going DEF End
  <2>4. Served(s)
    BY DEF LockInv
  <2> QED
    BY <1>1, <2>2, <2>3, <2>4 DEF Served, LoginLabels, sessionVars
<1> QED
  BY <1>1, <1>2, <1>3, <1>4, LockMoves

LEMMA LockRequests ==
    ASSUME Threads, LockInv, NEW s \in Sessions,
           \/ ChargeConflict(s) \/ StageChange(s) \/ AccountLost(s) \/ ChargeReused(s) \/ ChargePosted(s)
           \/ ChargeRefused(s) \/ SetLevel(s) \/ Members(s) \/ ClearLockout(s) \/ ClearCounter(s) \/ CommitPin(s)
    PROVE  LockInv'
<1>1. UNCHANGED sessionVars
  BY DEF ChargeConflict, StageChange, AccountLost, ChargeReused, ChargePosted, ChargeRefused, SetLevel,
         Members, ClearLockout, ClearCounter, CommitPin, sessionVars, accessVars, redis, history
<1>2. pc[s] # "slide"
  BY DEF ChargeConflict, StageChange, AccountLost, HoldsUser, ChargeReused, ChargePosted, ChargeRefused,
         SetLevel, Members, ClearLockout, ClearCounter, CommitPin, Request
<1>3. ASSUME \/ ChargeConflict(s) \/ StageChange(s) \/ AccountLost(s) \/ ChargeReused(s)
             \/ ChargePosted(s) \/ ChargeRefused(s) \/ ClearLockout(s) \/ ClearCounter(s)
             \/ CommitPin(s)
      PROVE  Only(s) /\ Served(s)'
  <2>1. \/ End(s)
        \/ \E label \in {"clear", "fee"} : \E j : Work(s, label, j)
        \/ UNCHANGED job /\ Goto(s, "newpin")
    BY <1>3 DEF ChargeConflict, StageChange, AccountLost, ChargeReused, ChargePosted, ChargeRefused,
                ClearLockout, ClearCounter, CommitPin
  <2>2. Only(s) /\ pc'[s] \in {"idle", "clear", "fee", "newpin"}
    BY <2>1, Working, Going DEF End
  <2> QED
    BY <2>2 DEF Served, LoginLabels
<1>4. ASSUME SetLevel(s)
      PROVE  Only(s) /\ Served(s)'
  <2>1. PICK to : Work(s, IF to = "suspended" THEN "members" ELSE "level",
                       [kind |-> "level", to |-> to, before |-> status, tokens |-> {}])
    BY <1>4 DEF SetLevel
  <2>2. /\ pc'[s] = IF to = "suspended" THEN "members" ELSE "level"
        /\ job'[s] = [kind |-> "level", to |-> to, before |-> status, tokens |-> {}]
        /\ Only(s)
    BY <2>1, Working
  <2> QED
    BY <2>2 DEF Served, LoginLabels
<1>5. ASSUME Members(s)
      PROVE  Only(s) /\ Served(s)'
  <2>1. pc'[s] = "kill" /\ job'[s] = [job[s] EXCEPT !.tokens = index.tokens] /\ Only(s)
    BY <1>5, Working DEF Members
  <2>2. /\ job[s].to = "suspended"
        /\ job[s] = [kind |-> job[s].kind, to |-> job[s].to, before |-> job[s].before,
                     tokens |-> job[s].tokens]
    BY <1>5 DEF Members, LockInv, Served
  <2>3. Live' = Live /\ Live \subseteq index.tokens
    BY <1>1 DEF Live, LockInv, Listed, sessionVars
  <2> QED
    BY <2>1, <2>2, <2>3 DEF Served, LoginLabels
<1> QED
  BY <1>1, <1>2, <1>3, <1>4, <1>5, LockMoves

\* The steps on tokens, one lemma each.

LEMMA IssueKeeps ==
    ASSUME Threads, LockInv, NEW s \in Sessions, Issue(s)
    PROVE  LockInv'
<1>1. PICK t \in Tokens : /\ t \notin held
                          /\ ttl' = [ttl EXCEPT ![t] = Ttl]
                          /\ Work(s, "index", [job[s] EXCEPT !.token = t])
  BY DEF Issue
<1>2. pc'[s] = "index" /\ job'[s] = [job[s] EXCEPT !.token = t] /\ Only(s)
  BY <1>1, Working
<1>3. pc[s] = "issue" /\ status' = status /\ index' = index /\ held' = held /\ late' = late /\ torn' = torn
  BY DEF Issue, history
<1>4. SessionsTyped'
  BY <1>1, <1>3, AccessAssumption DEF LockInv, SessionsTyped
<1>5. held \subseteq Tokens /\ \A k \in held : ttl'[k] = ttl[k]
  BY <1>1 DEF LockInv, SessionsTyped
<1>6. Live' = Live
  BY <1>3, <1>5 DEF Live
<1>7. Listed'
  <2>1. \A k : Sliding(k) => Sliding(k)'
    BY <1>2, <1>3 DEF Sliding, Only
  <2> QED
    BY <1>3, <1>5, <1>6, <2>1 DEF LockInv, Listed, Live
<1>8. \A k \in Sessions \ {s} : Served(k)'
  BY <1>2, <1>3, <1>5, <1>6, StillServed DEF LockInv, Only
<1>9. Served(s)'
  <2>1. Served(s)
    BY DEF LockInv
  <2>2. /\ job[s] = [kind |-> job[s].kind, key |-> job[s].key, token |-> job[s].token,
                     late |-> job[s].late, staged |-> job[s].staged]
        /\ job[s].kind = "login" /\ (status = "suspended" => job[s].late)
    BY <1>3, <2>1 DEF Served, LoginLabels
  <2>3. job'[s] = [kind |-> "login", key |-> job[s].key, token |-> t, late |-> job[s].late,
                   staged |-> job[s].staged]
    BY <1>2, <2>2
  <2> QED
    BY <1>1, <1>2, <1>3, <2>2, <2>3 DEF Served, LoginLabels
<1> QED
  BY <1>3, <1>4, <1>6, <1>7, <1>8, <1>9 DEF LockInv

\* A login a lock was under way for, or that a lock has passed, is late.
LEMMA IndexKeeps ==
    ASSUME Threads, LockInv, NEW s \in Sessions, Index(s)
    PROVE  LockInv'
<1> DEFINE t == job[s].token
<1>1. /\ pc[s] = "index" /\ status' = status /\ ttl' = ttl /\ torn' = torn /\ End(s)
      /\ index' = [tokens |-> index.tokens \cup {t}, ttl |-> Ttl]
      /\ held' = held \cup {t}
      /\ late' = IF job[s].late \/ Locking THEN late \cup {t} ELSE late
  BY DEF Index
<1>2. pc'[s] = "idle" /\ Only(s)
  BY <1>1, Working DEF End
<1>3. t \in Tokens /\ job[s].kind = "login" /\ (status = "suspended" => job[s].late)
  BY <1>1 DEF LockInv, Served, LoginLabels
<1> HIDE DEF t
<1>4. SessionsTyped'
  BY <1>1, <1>3, AccessAssumption DEF LockInv, SessionsTyped
<1>5. Live' \subseteq Live \cup {t} /\ (job[s].late \/ Locking => Live' \subseteq Live)
  BY <1>1 DEF Live
<1>6. Listed'
  <2>1. \A k \in Live' : k \in index'.tokens
    BY <1>1, <1>5 DEF LockInv, Listed
  <2>2. \A k \in Live' : k \in Tokens
    BY <1>3, <1>5 DEF LockInv, SessionsTyped, Live
  <2>3. \A k \in Live' : ttl'[k] <= index'.ttl
    BY <1>1, <2>2 DEF LockInv, SessionsTyped
  <2> QED
    BY <2>1, <2>3 DEF Listed
<1>7. \A k \in Sessions \ {s} : Served(k)'
  <2>1. ASSUME NEW k \in Sessions \ {s}
        PROVE  Live' \subseteq Live \/ (pc[k] # "kill" /\ pc[k] # "unindex"
                                          /\ ~(pc[k] = "level" /\ job[k].to = "suspended"))
    <3>1. pc[k] \in {"kill", "unindex"} => job[k].to = "suspended"
      BY DEF LockInv, Served
    <3> QED
      BY <1>5, <3>1 DEF Locking
  <2> QED
    BY <1>1, <1>2, <2>1, StillServed DEF LockInv, Only
<1>8. Served(s)'
  BY <1>2 DEF Served, LoginLabels
<1>9. status' = "suspended" => Live' = {}
  BY <1>1, <1>3, <1>5 DEF LockInv
<1> QED
  BY <1>4, <1>6, <1>7, <1>8, <1>9 DEF LockInv

LEMMA UseKeeps ==
    ASSUME Threads, LockInv, NEW s \in Sessions, UseSession(s)
    PROVE  LockInv'
<1>1. PICK t \in held : /\ ttl[t] > 0
                        /\ ttl' = [ttl EXCEPT ![t] = Ttl]
                        /\ Work(s, "slide", [Check("use", None) EXCEPT !.token = t])
  BY DEF UseSession
<1>2. pc'[s] = "slide" /\ job'[s].token = t /\ Only(s)
  BY <1>1, Working DEF Check
<1>3. pc[s] = "idle" /\ status' = status /\ index' = index /\ held' = held /\ late' = late /\ torn' = torn
  BY DEF UseSession, Request, history
<1>4. SessionsTyped'
  BY <1>1, <1>3, AccessAssumption DEF LockInv, SessionsTyped
<1>5. /\ held \subseteq Tokens /\ ttl'[t] > 0
      /\ \A k \in held : k # t => ttl'[k] = ttl[k]
  BY <1>1, AccessAssumption DEF LockInv, SessionsTyped
<1>6. Live' = Live
  BY <1>1, <1>3, <1>5 DEF Live
<1>7. Listed'
  <2>1. Sliding(t)' /\ \A k : Sliding(k) => Sliding(k)'
    BY <1>2, <1>3 DEF Sliding, Only
  <2> QED
    BY <1>3, <1>5, <1>6, <2>1 DEF LockInv, Listed, Live
<1>8. \A k \in Sessions \ {s} : Served(k)'
  BY <1>1, <1>2, <1>3, <1>5, <1>6, StillServed DEF LockInv, Only
<1>9. Served(s)'
  BY <1>2 DEF Served, LoginLabels
<1> QED
  BY <1>3, <1>4, <1>6, <1>7, <1>8, <1>9 DEF LockInv

LEMMA SlideKeeps ==
    ASSUME Threads, LockInv, NEW s \in Sessions, SlideIndex(s)
    PROVE  LockInv'
<1> DEFINE t == job[s].token
<1>1. /\ pc[s] = "slide" /\ status' = status /\ ttl' = ttl /\ held' = held /\ late' = late /\ End(s)
      /\ index' = IF index.ttl > 0 THEN [index EXCEPT !.ttl = Ttl] ELSE index
      /\ torn' = IF t \in index.tokens THEN torn ELSE torn \cup {t}
  BY DEF SlideIndex
<1>2. pc'[s] = "idle" /\ Only(s)
  BY <1>1, Working DEF End
<1>3. SessionsTyped'
  BY <1>1, AccessAssumption DEF LockInv, SessionsTyped
<1>4. Live' \subseteq Live
  BY <1>1 DEF Live
<1>5. Listed'
  <2>1. ASSUME NEW k \in Live'
        PROVE  k \in index'.tokens /\ ttl'[k] <= index'.ttl
    <3>1. k \in index.tokens /\ ttl[k] \in 0..Ttl
      BY <1>4 DEF LockInv, Listed, SessionsTyped, Live
    <3>2. index.ttl > 0
      BY <3>1 DEF LockInv, SessionsTyped
    <3> QED
      BY <1>1, <3>1, <3>2 DEF LockInv, SessionsTyped
  <2> QED
    BY <2>1 DEF Listed
<1>6. \A k \in Sessions \ {s} : Served(k)'
  BY <1>1, <1>2, <1>4, StillServed DEF LockInv, Only
<1>7. Served(s)'
  BY <1>2 DEF Served, LoginLabels
<1> QED
  BY <1>1, <1>3, <1>4, <1>5, <1>6, <1>7 DEF LockInv

LEMMA LogoutKeeps ==
    ASSUME Threads, LockInv, NEW s \in Sessions, Logout(s)
    PROVE  LockInv'
<1>1. PICK t \in held : /\ ttl' = [ttl EXCEPT ![t] = 0]
                        /\ Work(s, "unlist", [Check("logout", None) EXCEPT !.token = t])
  BY DEF Logout
<1>2. pc'[s] = "unlist" /\ job'[s].token = t /\ Only(s)
  BY <1>1, Working DEF Check
<1>3. pc[s] = "idle" /\ status' = status /\ index' = index /\ held' = held /\ late' = late /\ torn' = torn
  BY DEF Logout, Request, history
<1>4. SessionsTyped'
  BY <1>1, <1>3, AccessAssumption DEF LockInv, SessionsTyped
<1>5. /\ ttl'[t] = 0
      /\ \A k \in held : k # t => ttl'[k] = ttl[k]
  BY <1>1 DEF LockInv, SessionsTyped
<1>6. Live' \subseteq Live
  BY <1>3, <1>5 DEF Live
<1>7. Listed'
  <2>1. \A k : Sliding(k) => Sliding(k)'
    BY <1>2, <1>3 DEF Sliding, Only
  <2>2. \A k \in Live' : ttl'[k] = ttl[k]
    BY <1>3, <1>5 DEF Live
  <2> QED
    BY <1>3, <1>6, <2>1, <2>2 DEF LockInv, Listed
<1>8. \A k \in Sessions \ {s} : Served(k)'
  BY <1>2, <1>3, <1>5, <1>6, StillServed DEF LockInv, Only
<1>9. Served(s)'
  BY <1>2, <1>3, <1>5 DEF Served, LoginLabels
<1> QED
  BY <1>3, <1>4, <1>6, <1>7, <1>8, <1>9 DEF LockInv

LEMMA UnlistKeeps ==
    ASSUME Threads, LockInv, NEW s \in Sessions, Unlist(s)
    PROVE  LockInv'
<1> DEFINE rest == index.tokens \ {job[s].token}
<1>1. /\ pc[s] = "unlist" /\ status' = status /\ ttl' = ttl /\ held' = held /\ late' = late
      /\ torn' = torn /\ End(s)
      /\ index' = IF rest = {} THEN NoIndex ELSE [index EXCEPT !.tokens = rest]
  BY DEF Unlist, history
<1>2. pc'[s] = "idle" /\ Only(s)
  BY <1>1, Working DEF End
<1>3. SessionsTyped'
  BY <1>1, AccessAssumption DEF LockInv, SessionsTyped, NoIndex
<1>4. Live' = Live /\ \A k \in Live : k \in rest
  <2>1. Live' = Live
    BY <1>1 DEF Live
  <2>2. ttl[job[s].token] = 0
    BY <1>1 DEF LockInv, Served
  <2>3. \A k \in Live : k # job[s].token
    BY <2>2 DEF Live
  <2>4. \A k \in Live : k \in index.tokens
    BY DEF LockInv, Listed
  <2> QED
    BY <2>1, <2>3, <2>4
<1>5. Listed'
  <2>1. \A k : Sliding(k) => Sliding(k)'
    BY <1>1, <1>2 DEF Sliding, Only
  <2>2. \A k \in Live' : k \in index'.tokens /\ index'.ttl = index.ttl
    BY <1>1, <1>4 DEF LockInv, SessionsTyped
  <2> QED
    BY <1>1, <1>4, <2>1, <2>2 DEF LockInv, Listed
<1>6. \A k \in Sessions \ {s} : Served(k)'
  BY <1>1, <1>2, <1>4, StillServed DEF LockInv, Only
<1>7. Served(s)'
  BY <1>2 DEF Served, LoginLabels
<1> QED
  BY <1>1, <1>3, <1>4, <1>5, <1>6, <1>7 DEF LockInv

LEMMA KillKeeps ==
    ASSUME Threads, LockInv, NEW s \in Sessions, Kill(s)
    PROVE  LockInv'
<1>1. /\ pc[s] = "kill" /\ status' = status /\ index' = index /\ held' = held /\ late' = late /\ torn' = torn
      /\ ttl' = [t \in Tokens |-> IF t \in job[s].tokens THEN 0 ELSE ttl[t]]
      /\ Goto(s, "unindex") /\ UNCHANGED job
  BY DEF Kill, history
<1>2. pc'[s] = "unindex" /\ job'[s] = job[s] /\ Only(s)
  BY <1>1, Going
<1>3. SessionsTyped'
  BY <1>1, AccessAssumption DEF LockInv, SessionsTyped
<1>4. held \subseteq Tokens /\ Live \subseteq job[s].tokens /\ Served(s)
  <2>1. held \subseteq Tokens /\ Served(s)
    BY DEF LockInv, SessionsTyped
  <2> QED
    BY <1>1, <2>1 DEF Served
<1>5. Live' = {} /\ Live' \subseteq Live /\ \A k \in held : ttl[k] = 0 => ttl'[k] = 0
  BY <1>1, <1>4 DEF Live
<1>6. \A k \in Sessions \ {s} : Served(k)'
  BY <1>1, <1>2, <1>5, StillServed DEF LockInv, Only
<1>7. Served(s)'
  BY <1>1, <1>2, <1>4, <1>5 DEF Served, LoginLabels
<1> QED
  BY <1>3, <1>5, <1>6, <1>7 DEF LockInv, Listed

LEMMA UnindexKeeps ==
    ASSUME Threads, LockInv, NEW s \in Sessions, Unindex(s)
    PROVE  LockInv'
<1>1. /\ pc[s] = "unindex" /\ status' = status /\ ttl' = ttl /\ held' = held /\ late' = late /\ torn' = torn
      /\ index' = NoIndex
      /\ Goto(s, "level") /\ UNCHANGED job
  BY DEF Unindex, history
<1>2. pc'[s] = "level" /\ job'[s] = job[s] /\ Only(s)
  BY <1>1, Going
<1>3. SessionsTyped'
  BY <1>1, AccessAssumption DEF LockInv, SessionsTyped, NoIndex
<1>4. Live' = {} /\ Live' = Live
  BY <1>1 DEF LockInv, Served, Live
<1>5. \A k \in Sessions \ {s} : Served(k)'
  BY <1>1, <1>2, <1>4, StillServed DEF LockInv, Only
<1>6. Served(s)'
  BY <1>2, <1>4 DEF Served, LoginLabels
<1> QED
  BY <1>3, <1>4, <1>5, <1>6 DEF LockInv, Listed

\* The commit finds no token to reach, and marks the logins it overlaps.
LEMMA CommitLevelKeeps ==
    ASSUME Threads, LockInv, NEW s \in Sessions, CommitLevel(s)
    PROVE  LockInv'
<1>1. /\ pc[s] = "level" /\ ttl' = ttl /\ index' = index /\ held' = held /\ late' = late /\ torn' = torn
      /\ status' = (IF job[s].to # job[s].before THEN job[s].to ELSE status)
      /\ pc' = [pc EXCEPT ![s] = "idle"]
      /\ job' = [w \in Sessions |->
             CASE w = s -> None
               [] w \in LoggingIn /\ job[s].to = "suspended" -> [job[w] EXCEPT !.late = TRUE]
               [] OTHER -> job[w]]
  BY DEF CommitLevel, Goto, redis, history
<1>2. pc'[s] = "idle" /\ \A k \in Sessions \ {s} : pc'[k] = pc[k]
  BY <1>1 DEF Threads
<1>3. \A k \in Sessions \ {s} :
          job'[k] = IF k \in LoggingIn /\ job[s].to = "suspended" THEN [job[k] EXCEPT !.late = TRUE] ELSE job[k]
  BY <1>1
<1>4. SessionsTyped' /\ Live' = Live
  BY <1>1 DEF LockInv, SessionsTyped, Live
<1>5. job[s].to = "suspended" => Live = {}
  BY <1>1 DEF LockInv, Served
<1>6. status' = "suspended" => Live' = {}
  BY <1>1, <1>4, <1>5 DEF LockInv
<1>7. Listed'
  <2>1. \A k \in Sessions : pc[k] = "slide" => pc'[k] = "slide" /\ job'[k] = job[k]
    BY <1>1, <1>2, <1>3 DEF LoggingIn
  <2>2. \A k : Sliding(k) => Sliding(k)'
    BY <2>1 DEF Sliding
  <2> QED
    BY <1>1, <1>4, <2>2 DEF LockInv, Listed
<1>8. Served(s)'
  BY <1>2 DEF Served, LoginLabels
<1>9. ASSUME NEW k \in Sessions \ {s}
      PROVE  Served(k)'
  <2>1. Served(k)
    BY DEF LockInv
  <2>2. CASE k \in LoggingIn /\ job[s].to = "suspended"
    <3>1. pc[k] \in LoginLabels /\ pc'[k] = pc[k] /\ job[k].kind = "login"
      BY <1>2, <2>2 DEF LoggingIn, LoginLabels
    <3>2. job[k] = [kind |-> "login", key |-> job[k].key, token |-> job[k].token,
                    late |-> job[k].late, staged |-> job[k].staged]
      BY <2>1, <3>1 DEF Served
    <3>3. job'[k] = [kind |-> "login", key |-> job[k].key, token |-> job[k].token,
                     late |-> TRUE, staged |-> job[k].staged]
      BY <1>3, <2>2, <3>2
    <3> QED
      BY <2>1, <3>1, <3>2, <3>3 DEF Served, LoginLabels
  <2>3. CASE ~(k \in LoggingIn /\ job[s].to = "suspended")
    <3>1. pc'[k] = pc[k] /\ job'[k] = job[k]
      BY <1>2, <1>3, <2>3
    <3>2. status' = "suspended" /\ k \in LoggingIn => status = "suspended"
      BY <1>1, <2>3
    <3> QED
      BY <1>1, <1>4, <2>1, <3>1, <3>2 DEF Served, LoginLabels, LoggingIn
  <2> QED
    BY <2>2, <2>3
<1> QED
  BY <1>4, <1>6, <1>7, <1>8, <1>9 DEF LockInv

LEMMA TickKeeps ==
    ASSUME Threads, LockInv, Tick
    PROVE  LockInv'
<1>1. /\ \A s \in Sessions : pc[s] # "slide"
      /\ pc' = pc /\ job' = job /\ status' = status /\ held' = held /\ late' = late /\ torn' = torn
      /\ ttl' = [t \in Tokens |-> Down(ttl[t])]
      /\ index' = IF index.ttl > 1 THEN [index EXCEPT !.ttl = index.ttl - 1] ELSE NoIndex
  BY DEF Tick, history
<1>2. SessionsTyped'
  <2>1. ttl' \in [Tokens -> 0..Ttl]
    BY <1>1, AccessAssumption DEF LockInv, SessionsTyped, Down
  <2>2. index' \in [tokens: SUBSET Tokens, ttl: 0..Ttl] /\ (index'.tokens = {} <=> index'.ttl = 0)
    BY <1>1, AccessAssumption DEF LockInv, SessionsTyped, NoIndex
  <2> QED
    BY <1>1, <2>1, <2>2 DEF LockInv, SessionsTyped
<1>3. \A t \in held : t \in Tokens /\ ttl[t] \in 0..Ttl /\ ttl'[t] = Down(ttl[t])
  BY <1>1 DEF LockInv, SessionsTyped
<1>4. \A t \in held : ttl'[t] > 0 => ttl[t] > 1 /\ ttl'[t] = ttl[t] - 1
  BY <1>3, AccessAssumption DEF Down
<1>5. Live' \subseteq Live /\ \A t \in Live' : t \in held /\ ttl'[t] > 0
  BY <1>1, <1>3, <1>4, AccessAssumption DEF Live
<1>6. Listed'
  <2>1. ASSUME NEW t \in Live'
        PROVE  t \in index'.tokens /\ ttl'[t] <= index'.ttl
    <3>1. t \in index.tokens /\ ttl[t] <= index.ttl /\ ttl[t] \in 0..Ttl /\ index.ttl \in 0..Ttl
      BY <1>1, <1>3, <1>5 DEF LockInv, Listed, Sliding, SessionsTyped
    <3>2. ttl[t] > 1 /\ ttl'[t] = ttl[t] - 1
      BY <1>4, <1>5
    <3> QED
      BY <1>1, <3>1, <3>2, AccessAssumption DEF LockInv, SessionsTyped
  <2> QED
    BY <2>1 DEF Listed
<1>7. \A s \in Sessions : Served(s)'
  <2>1. \A t \in held : ttl[t] = 0 => ttl'[t] = 0
    BY <1>3 DEF Down
  <2> QED
    BY <1>1, <1>5, <2>1, StillServed DEF LockInv
<1> QED
  BY <1>1, <1>2, <1>5, <1>6, <1>7 DEF LockInv

LEMMA CrashKeeps ==
    ASSUME Threads, LockInv, NEW s \in Sessions, Crash(s)
    PROVE  LockInv'
<1>1. /\ status' = status /\ ttl' = ttl /\ index' = index /\ held' = held /\ late' = late /\ End(s)
      /\ torn' = IF pc[s] = "slide" THEN torn \cup {job[s].token} ELSE torn
  BY DEF Crash, redis
<1>2. pc'[s] = "idle" /\ Only(s)
  BY <1>1, Working DEF End
<1>3. SessionsTyped' /\ Live' \subseteq Live
  BY <1>1 DEF LockInv, SessionsTyped, Live
<1>4. Listed'
  <2>1. \A t \in Live' : Sliding(t) => Sliding(t)'
    BY <1>1, <1>2 DEF Sliding, Only, Live
  <2> QED
    BY <1>1, <1>3, <2>1 DEF LockInv, Listed
<1>5. \A k \in Sessions \ {s} : Served(k)'
  BY <1>1, <1>2, <1>3, StillServed DEF LockInv, Only
<1>6. Served(s)'
  BY <1>2 DEF Served, LoginLabels
<1> QED
  BY <1>1, <1>3, <1>4, <1>5, <1>6 DEF LockInv

LEMMA LockStep == Threads /\ LockInv /\ [Next]_vars => LockInv'
<1> SUFFICES ASSUME Threads, LockInv, [Next]_vars
             PROVE  LockInv'
  OBVIOUS
<1>1. UNCHANGED accountVars => UNCHANGED sessionVars
  BY DEF accountVars, accessVars, redis, history, sessionVars
<1>2. CASE AccessNext
  <2>1. CASE RegistrationNext /\ UNCHANGED accessVars
    <3>1. UNCHANGED sessionVars
      BY <2>1 DEF accessVars, redis, history, sessionVars
    <3>2. RegistrationLabels \cap Guarded = {}
      BY DEF RegistrationLabels, Guarded, LoginLabels
    <3> QED
      BY <2>1, <3>1, <3>2, RegistrationWalks, LockElsewhere
  <2>2. CASE CounterExpires \/ LockoutLapses
    <3>1. UNCHANGED sessionVars /\ Stay
      BY <2>2 DEF CounterExpires, LockoutLapses, sessionVars, Stay
    <3> QED
      BY <3>1, LockElsewhere, {} \cap Guarded = {}
  <2> QED
    BY <1>2, <2>1, <2>2, LockChecks, LockRequests, IssueKeeps, IndexKeeps, UseKeeps, SlideKeeps,
       LogoutKeeps, UnlistKeeps, KillKeeps, UnindexKeeps, CommitLevelKeeps, TickKeeps, CrashKeeps
       DEF AccessNext
<1>3. /\ OfCatalogue \cap Guarded = {} /\ {"idle", "catalog"} \cap Guarded = {}
      /\ OfSchedules \cap Guarded = {} /\ {"idle", "pay"} \cap Guarded = {}
  BY DEF OfCatalogue, CatalogueLabels, OfSchedules, SchedulesLabels, Guarded, LoginLabels
<1>4. CASE CatalogueNext /\ UNCHANGED accountVars
  BY <1>1, <1>3, <1>4, CatalogueWalks, LockElsewhere
<1>5. CASE ServicesNext /\ UNCHANGED accountVars
  BY <1>1, <1>3, <1>5, ServicesWalks, LockElsewhere
<1>6. CASE SchedulesNext /\ UNCHANGED accountVars
  BY <1>1, <1>3, <1>6, SchedulesWalks, LockElsewhere
<1>7. CASE FlowsNext(status = "active") /\ UNCHANGED accountVars
  BY <1>1, <1>3, <1>7, FlowsWalks, LockElsewhere
<1>8. CASE UNCHANGED vars
  <2>1. UNCHANGED sessionVars /\ Stay
    BY <1>1, <1>8 DEF vars, Stay
  <2> QED
    BY <2>1, LockElsewhere, {} \cap Guarded = {}
<1> QED
  BY <1>2, <1>4, <1>5, <1>6, <1>7, <1>8 DEF Next

\* However logins, reads, logouts and login locks interleave and die, a
\* suspended user is left with no session but those the lock could not see
\* (identity/service.py:2048, auth/sessions.py:88, :112).
THEOREM SuspendedIsOut == Spec => []SuspendedHasNoSession
<1>1. Init => Threads /\ LockInv
  BY ThreadsInit, LockInit
<1>2. Threads /\ LockInv /\ [Next]_vars => (Threads /\ LockInv)'
  BY ThreadsStep, LockStep
<1>3. LockInv => SuspendedHasNoSession
  BY DEF LockInv, Live, SuspendedHasNoSession
<1> QED
  BY <1>1, <1>2, <1>3, PTL DEF Spec

-----------------------------------------------------------------------------
(* The paid PIN change                                                     *)

Counted == changes \in [Keys -> Nat] /\ charged \in [Keys -> Nat]

\* Between its flush and its end a request has staged a change under a key
\* that changes nothing yet, and alone among the user's.
Staging(s) == pc[s] = "fee" => job[s].staged /\ (job[s].key \in Keys => changes[job[s].key] = 0)

Solitary == \A s, t \in Sessions : pc[s] = "fee" /\ pc[t] = "fee" => s = t

Paid == Counted /\ PinChangePaid /\ Solitary /\ \A s \in Sessions : Staging(s)

LEMMA Untouched ==
    ASSUME Paid, Keeps({"fee"}), UNCHANGED charges
    PROVE  Paid'
<1>1. \A t \in Sessions : pc'[t] = "fee" => pc[t] = "fee" /\ job'[t] = job[t]
  BY DEF Keeps
<1>2. Counted' /\ PinChangePaid'
  BY DEF Paid, Counted, PinChangePaid, charges
<1>3. Solitary'
  BY <1>1 DEF Paid, Solitary
<1>4. \A t \in Sessions : Staging(t)'
  BY <1>1 DEF Paid, Staging, charges
<1> QED
  BY <1>2, <1>3, <1>4 DEF Paid

\* Only a flush puts a session where the fee is due.
LEMMA FeeDue ==
    ASSUME Threads, AccessNext, ~\E s \in Sessions : StageChange(s)
    PROVE  Keeps({"fee"})
<1>1. ASSUME NEW s \in Sessions, NEW label, NEW j, label # "fee", Work(s, label, j)
      PROVE  Keeps({"fee"})
  BY <1>1, Working DEF Only, Keeps
<1>2. ASSUME NEW s \in Sessions, NEW label, label # "fee", Goto(s, label), UNCHANGED job
      PROVE  Keeps({"fee"})
  BY <1>2, Going DEF Only, Keeps
<1>3. CASE RegistrationNext
  <2>1. RegistrationLabels \cap {"fee"} = {}
    BY DEF RegistrationLabels
  <2> QED
    BY <1>3, <2>1, RegistrationWalks, OthersKeep
<1>4. CASE Tick \/ CounterExpires \/ LockoutLapses
  BY <1>4 DEF Tick, CounterExpires, LockoutLapses, Keeps
<1>5. ASSUME NEW s \in Sessions,
             \/ Login(s) \/ StepUp(s) \/ ChangePin(s) \/ Gate(s) \/ Compare(s) \/ Count(s) \/ Lock(s)
             \/ Drop(s) \/ Reset(s)
      PROVE  Keeps({"fee"})
  <2>1. \E label : label # "fee" /\ ((\E j : Work(s, label, j)) \/ (Goto(s, label) /\ UNCHANGED job))
    BY <1>5 DEF Login, StepUp, ChangePin, Gate, Compare, Count, Lock, Drop, Reset, End
  <2> QED
    BY <1>1, <1>2, <2>1
<1>6. ASSUME NEW s \in Sessions,
             \/ Issue(s) \/ Index(s) \/ UseSession(s) \/ SlideIndex(s) \/ Logout(s) \/ Unlist(s)
             \/ ChargeConflict(s) \/ AccountLost(s) \/ ChargeReused(s) \/ ChargePosted(s) \/ ChargeRefused(s)
      PROVE  Keeps({"fee"})
  <2>1. \E label : label # "fee" /\ \E j : Work(s, label, j)
    BY <1>6 DEF Issue, Index, UseSession, SlideIndex, Logout, Unlist, ChargeConflict, AccountLost,
                ChargeReused, ChargePosted, ChargeRefused, End
  <2> QED
    BY <1>1, <2>1
<1>7. ASSUME NEW s \in Sessions,
             \/ SetLevel(s) \/ Members(s) \/ Kill(s) \/ Unindex(s) \/ ClearLockout(s) \/ ClearCounter(s)
             \/ CommitPin(s) \/ Crash(s)
      PROVE  Keeps({"fee"})
  <2>1. \E label : label # "fee" /\ ((\E j : Work(s, label, j)) \/ (Goto(s, label) /\ UNCHANGED job))
    BY <1>7 DEF SetLevel, Members, Kill, Unindex, ClearLockout, ClearCounter, CommitPin, Crash, End
  <2> QED
    BY <1>1, <1>2, <2>1
<1>8. ASSUME NEW s \in Sessions, CommitLevel(s)
      PROVE  Keeps({"fee"})
  <2>1. /\ pc' = [pc EXCEPT ![s] = "idle"]
        /\ \A t \in Sessions \ {s} : t \notin LoggingIn => job'[t] = job[t]
    BY <1>8 DEF CommitLevel, Goto
  <2>2. \A t \in LoggingIn : pc[t] # "fee"
    BY DEF LoggingIn
  <2> QED
    BY <2>1, <2>2 DEF Keeps, Threads
<1> QED
  BY <1>3, <1>4, <1>5, <1>6, <1>7, <1>8 DEF AccessNext

\* Two actions write a row or a fee, and the others of the module neither.
LEMMA ChargesKept ==
    ASSUME AccessNext,
           ~\E s \in Sessions : ChargeReused(s) \/ ChargePosted(s)
    PROVE  UNCHANGED charges
<1>1. CASE RegistrationNext /\ UNCHANGED accessVars
  BY <1>1 DEF accessVars
<1>2. ASSUME NEW s \in Sessions,
             \/ Login(s) \/ StepUp(s) \/ ChangePin(s) \/ Gate(s) \/ ChargeConflict(s) \/ StageChange(s)
             \/ AccountLost(s) \/ ChargeRefused(s) \/ SetLevel(s) \/ Members(s) \/ CommitPin(s)
      PROVE  UNCHANGED charges
  BY <1>2 DEF Login, StepUp, ChangePin, Gate, ChargeConflict, StageChange, AccountLost, ChargeRefused,
              SetLevel, Members, CommitPin, accessVars
<1>3. ASSUME NEW s \in Sessions,
             \/ Compare(s) \/ Count(s) \/ Lock(s) \/ Drop(s) \/ Reset(s) \/ Issue(s) \/ Index(s)
             \/ UseSession(s) \/ SlideIndex(s) \/ Logout(s) \/ Unlist(s)
      PROVE  UNCHANGED charges
  BY <1>3 DEF Compare, Count, Lock, Drop, Reset, Issue, Index, UseSession, SlideIndex, Logout, Unlist
<1>4. ASSUME NEW s \in Sessions,
             \/ Kill(s) \/ Unindex(s) \/ CommitLevel(s) \/ ClearLockout(s) \/ ClearCounter(s) \/ Crash(s)
      PROVE  UNCHANGED charges
  BY <1>4 DEF Kill, Unindex, CommitLevel, ClearLockout, ClearCounter, Crash
<1>5. CASE Tick \/ CounterExpires \/ LockoutLapses
  BY <1>5 DEF Tick, CounterExpires, LockoutLapses
<1> QED
  BY <1>1, <1>2, <1>3, <1>4, <1>5 DEF AccessNext

\* The flush waits for whoever holds the user's row.
LEMMA StageKeeps ==
    ASSUME Threads, LockInv, Paid, NEW s \in Sessions, StageChange(s)
    PROVE  Paid'
<1> DEFINE j == [job[s] EXCEPT !.staged = TRUE]
<1>1. pc'[s] = "fee" /\ job'[s] = j /\ Only(s) /\ UNCHANGED charges
  BY Working DEF StageChange, accessVars
<1>2. \A t \in Sessions : pc[t] # "fee"
  BY DEF StageChange, UserHeld, HoldsUser, Paid, Staging
<1>3. j.staged /\ j.key = job[s].key
  BY DEF StageChange, LockInv, Served
<1>4. \A t \in Sessions : pc'[t] = "fee" => t = s
  BY <1>1, <1>2 DEF Only
<1>5. Staging(s)'
  BY <1>1, <1>3 DEF StageChange, Staging, charges
<1> QED
  BY <1>1, <1>4, <1>5 DEF Paid, Counted, PinChangePaid, Solitary, Staging, charges

\* A posting, of a fee or of none, ends the one request that was under way.
LEMMA PostingKeeps ==
    ASSUME Threads, Paid, NEW s \in Sessions, ChargeReused(s) \/ ChargePosted(s)
    PROVE  Paid'
<1> DEFINE k == job[s].key
<1>1. pc[s] = "fee" /\ End(s)
  BY DEF ChargeReused, ChargePosted
<1>2. \A t \in Sessions : pc'[t] # "fee"
  BY <1>1, Working DEF End, Only, Paid, Solitary
<1>3. Staged(s) = 1 /\ (k \in Keys => changes[k] = 0)
  BY <1>1 DEF Staged, Paid, Staging
<1>4. changes' = [changes EXCEPT ![k] = changes[k] + 1]
  BY <1>3 DEF ChargeReused, ChargePosted
<1>5. \/ charged' = charged /\ (k \in Spent \/ charged[k] > 0)
      \/ charged' = [charged EXCEPT ![k] = charged[k] + 1] /\ k \notin Spent /\ charged[k] = 0
  BY DEF ChargeReused, ChargePosted
<1>6. Counted' /\ PinChangePaid'
  <2>1. CASE k \notin Keys
    <3>1. changes' = changes /\ charged' = charged
      BY <1>4, <1>5, <2>1 DEF Paid, Counted
    <3> QED
      BY <3>1 DEF Paid, Counted, PinChangePaid
  <2>2. CASE k \in Keys /\ k \in Spent
    BY <1>3, <1>4, <1>5, <2>2 DEF Paid, Counted, PinChangePaid
  <2>3. CASE k \in Keys /\ k \notin Spent
    <3>1. charged[k] = 0
      BY <1>3, <2>3 DEF Paid, PinChangePaid
    <3>2. charged' = [charged EXCEPT ![k] = charged[k] + 1]
      BY <1>5, <2>3, <3>1
    <3> QED
      BY <1>3, <1>4, <2>3, <3>1, <3>2 DEF Paid, Counted, PinChangePaid
  <2> QED
    BY <2>1, <2>2, <2>3
<1> QED
  BY <1>2, <1>6 DEF Paid, Solitary, Staging

LEMMA PaidStep == Threads /\ LockInv /\ Paid /\ [Next]_vars => Paid'
<1> SUFFICES ASSUME Threads, LockInv, Paid, [Next]_vars
             PROVE  Paid'
  OBVIOUS
<1>1. "fee" \in OwnAccess
  BY DEF OwnAccess, AccessLabels
<1>2. CASE AccessNext
  BY <1>2, Untouched, FeeDue, ChargesKept, StageKeeps, PostingKeeps
<1>3. ASSUME UNCHANGED accountVars, Keeps({"fee"})
      PROVE  Paid'
  BY <1>3, Untouched DEF accountVars, accessVars
<1>4. ASSUME NEW labels, "fee" \in labels, Keeps(labels)
      PROVE  Keeps({"fee"})
  BY <1>4 DEF Keeps
<1>5. CASE CatalogueNext /\ UNCHANGED accountVars
  BY <1>1, <1>3, <1>4, <1>5, CatalogueKeeps
<1>6. CASE ServicesNext /\ UNCHANGED accountVars
  BY <1>1, <1>3, <1>4, <1>6, ServicesKeep
<1>7. CASE SchedulesNext /\ UNCHANGED accountVars
  BY <1>1, <1>3, <1>4, <1>7, SchedulesKeep
<1>8. ASSUME NEW active, FlowsNext(active), UNCHANGED accountVars
      PROVE  Paid'
  BY <1>1, <1>3, <1>4, <1>8, FlowsKeep
<1>9. CASE UNCHANGED vars
  BY <1>3, <1>9 DEF vars, Keeps
<1> QED
  BY <1>2, <1>5, <1>6, <1>7, <1>8, <1>9 DEF Next

\* A PIN change and its fee are one commit: a key changes the PIN once at
\* most, and under every key that is the change's own the fee is taken exactly
\* then, whoever waits for the user's row, loses an account to a race after
\* the flush, is refused, retries or dies (pin_change/service.py:305, :341,
\* pricing/service.py:408).
THEOREM ChangesPaid == Spec => []PinChangePaid
<1>1. Init => Threads /\ LockInv /\ Paid
  BY ThreadsInit, LockInit DEF Init, AccessInit, RegistrationInit, RequestsInit, Paid, Counted, PinChangePaid,
                     Solitary, Staging
<1>2. Paid => PinChangePaid
  BY DEF Paid
<1> QED
  BY <1>1, <1>2, ThreadsStep, LockStep, PaidStep, PTL DEF Spec

-----------------------------------------------------------------------------
(* The tree of user types                                                  *)

Edit == [type: Types, parent: Types \cup {None}, status: {"active", "retired"}, row: UserTypeDef]

\* The check of the parent.
Fit(j) ==
    \/ j.parent = None
    \/ /\ Category[j.type] # "consumer"
       /\ types[j.parent] = [status |-> "active", parent |-> None]
       /\ Category[j.parent] = Category[j.type]

\* An edit that no other crosses: what it has read is what is there.
Current(j) == j.row = Absent \/ (j.row = types[j.type] /\ j.row.status # "absent")

ChildrenAllow(j) ==
    /\ Retiring(j) => \A c \in Children(j.type) : types[c].status # "active"
    /\ Attaching(j) /\ j.parent # None => Children(j.type) = {}

Edited(s) ==
    EditingTree(s) =>
        /\ job[s] \in Edit
        /\ ~crossed =>
              /\ Current(job[s])
              /\ pc[s] = "children" => job[s].row # Absent
              /\ pc[s] \in {"parent", "type"} /\ job[s].row # Absent => ChildrenAllow(job[s])
              /\ pc[s] = "type" /\ (job[s].row = Absent \/ Attaching(job[s])) => Fit(job[s])

Alone == ~crossed => \A s, t \in Sessions : EditingTree(s) /\ EditingTree(t) => s = t

TreeInv ==
    /\ types \in [Types -> UserTypeDef]
    /\ TypeTreeKept
    /\ Alone
    /\ \A s \in Sessions : Edited(s)

LEMMA TreeInit == Init => TreeInv
<1> SUFFICES ASSUME Init
             PROVE  TreeInv
  OBVIOUS
<1>1. /\ types = [t \in Types |->
             IF t \in DOMAIN Seeded THEN [status |-> "active", parent |-> Seeded[t]] ELSE Absent]
      /\ \A s \in Sessions : pc[s] = "idle"
  BY DEF Init, CatalogueInit, AccessInit, RegistrationInit, RequestsInit
<1>2. \A t \in DOMAIN Seeded : Seeded[t] \in Types \cup {None} /\ t \in Types
  BY CatalogueAssumption
<1>3. types \in [Types -> UserTypeDef]
  BY <1>1, <1>2 DEF UserTypeDef, Absent
<1>4. TypeTreeKept
  <2>1. ASSUME NEW t \in Types, types[t].status # "absent", types[t].parent # None
        PROVE  LET p == types[t].parent
               IN  /\ types[p].status # "absent" /\ types[p].parent = None
                   /\ Category[p] = Category[t] /\ Category[p] # "consumer"
                   /\ types[p].status = "active"
    <3>1. t \in DOMAIN Seeded /\ types[t].parent = Seeded[t]
      BY <1>1, <2>1 DEF Absent
    <3>2. /\ Seeded[t] \in DOMAIN Seeded /\ Seeded[Seeded[t]] = None
          /\ Category[Seeded[t]] = Category[t] /\ Category[t] # "consumer"
      BY <2>1, <3>1, CatalogueAssumption
    <3>3. types[Seeded[t]] = [status |-> "active", parent |-> None]
      BY <1>1, <1>2, <3>2
    <3> QED
      BY <3>1, <3>2, <3>3
  <2> QED
    BY <2>1 DEF TypeTreeKept
<1> QED
  BY <1>1, <1>3, <1>4 DEF TreeInv, Alone, Edited, EditingTree

\* The rest of the tenant, and of the catalogue, edits no type.
LEMMA TreeElsewhere ==
    ASSUME TreeInv, UNCHANGED treeVars, Keeps(TreeLabels)
    PROVE  TreeInv'
<1>1. types' = types /\ crossed' = crossed
  BY DEF treeVars
<1>2. \A s \in Sessions : EditingTree(s)' => EditingTree(s) /\ pc'[s] = pc[s] /\ job'[s] = job[s]
  BY DEF Keeps, TreeLabels, EditingTree
<1>3. TypeTreeKept'
  BY <1>1 DEF TreeInv, TypeTreeKept
<1>4. Alone'
  BY <1>1, <1>2 DEF TreeInv, Alone
<1>5. ASSUME NEW s \in Sessions
      PROVE  Edited(s)'
  <2>1. CASE EditingTree(s)'
    BY <1>1, <1>2, <2>1 DEF TreeInv, Edited, Current, ChildrenAllow, Children, Fit
  <2>2. CASE ~EditingTree(s)'
    BY <2>2 DEF Edited
  <2> QED
    BY <2>1, <2>2
<1> QED
  BY <1>1, <1>3, <1>4, <1>5 DEF TreeInv

LEMMA EditTypeKeeps ==
    ASSUME Threads, TreeInv, NEW s \in Sessions, EditType(s)
    PROVE  TreeInv'
<1>1. PICK t \in Types, p \in Types \cup {None}, to \in {"active", "retired"} :
          \/ Work(s, "parent", [type |-> t, parent |-> p, status |-> to, row |-> Absent])
          \/ /\ Mutable(t)
             /\ Work(s, "children", [type |-> t, parent |-> p, status |-> to, row |-> types[t]])
  BY DEF EditType
<1>2. /\ pc[s] = "idle" /\ types' = types
      /\ crossed' = (crossed \/ \E w \in Sessions : EditingTree(w))
  BY DEF EditType, Request
<1>3. /\ Only(s)
      /\ \/ pc'[s] = "parent" /\ job'[s] = [type |-> t, parent |-> p, status |-> to, row |-> Absent]
         \/ /\ pc'[s] = "children" /\ types[t].status # "absent"
            /\ job'[s] = [type |-> t, parent |-> p, status |-> to, row |-> types[t]]
  BY <1>1, Working DEF Mutable
<1>4. TypeTreeKept'
  BY <1>2 DEF TreeInv, TypeTreeKept
<1>5. Alone'
  BY <1>2, <1>3 DEF TreeInv, Alone, Only, EditingTree
<1>6. Edited(s)'
  <2>1. types[t] \in UserTypeDef /\ Absent \in UserTypeDef
    BY DEF TreeInv, UserTypeDef, Absent
  <2>2. job'[s] \in Edit
    BY <1>3, <2>1 DEF Edit
  <2> QED
    BY <1>2, <1>3, <2>2 DEF Edited, Current, Absent
<1>7. ASSUME NEW w \in Sessions \ {s}
      PROVE  Edited(w)'
  BY <1>2, <1>3 DEF TreeInv, Edited, Only, EditingTree, Current, ChildrenAllow, Children, Fit
<1> QED
  BY <1>2, <1>4, <1>5, <1>6, <1>7 DEF TreeInv

\* An edit goes on with what it has, or ends.
LEMMA TreeMoves ==
    ASSUME TreeInv, NEW s \in Sessions, EditingTree(s), Only(s), UNCHANGED treeVars, Edited(s)'
    PROVE  TreeInv'
<1>1. types' = types /\ crossed' = crossed
  BY DEF treeVars
<1>2. TypeTreeKept'
  BY <1>1 DEF TreeInv, TypeTreeKept
<1>3. Alone'
  BY <1>1 DEF TreeInv, Alone, Only, EditingTree
<1>4. ASSUME NEW w \in Sessions \ {s}
      PROVE  Edited(w)'
  BY <1>1 DEF TreeInv, Edited, Only, EditingTree, Current, ChildrenAllow, Children, Fit
<1> QED
  BY <1>1, <1>2, <1>3, <1>4 DEF TreeInv

LEMMA ReadChildrenKeeps ==
    ASSUME Threads, TreeInv, NEW s \in Sessions, ReadChildren(s)
    PROVE  TreeInv'
<1>1. /\ pc[s] = "children" /\ EditingTree(s) /\ UNCHANGED treeVars /\ types' = types /\ crossed' = crossed
      /\ \/ End(s)
         \/ /\ ChildrenAllow(job[s])
            /\ Goto(s, IF Attaching(job[s]) THEN "parent" ELSE "type") /\ UNCHANGED job
  BY DEF ReadChildren, EditingTree, catalogueVars, treeVars, ChildrenAllow
<1>2. /\ Only(s)
      /\ \/ pc'[s] = "idle"
         \/ /\ ChildrenAllow(job[s]) /\ job'[s] = job[s]
            /\ pc'[s] = IF Attaching(job[s]) THEN "parent" ELSE "type"
  BY <1>1, Working, Going DEF End
<1>3. Edited(s)
  BY DEF TreeInv
<1>4. Edited(s)'
  <2>1. CASE pc'[s] = "idle"
    BY <2>1 DEF Edited, EditingTree
  <2>2. CASE pc'[s] # "idle"
    <3>1. job'[s] = job[s] /\ ChildrenAllow(job[s]) /\ (Current(job[s]) => Current(job[s])')
      BY <1>1, <1>2, <2>2 DEF Current
    <3>2. ChildrenAllow(job[s])'
      BY <1>1, <3>1 DEF ChildrenAllow, Children, Retiring, Attaching
    <3>3. pc'[s] = "type" => ~Attaching(job[s])
      BY <1>2, <2>2
    <3> QED
      BY <1>1, <1>3, <3>1, <3>2, <3>3 DEF Edited, EditingTree, Attaching
  <2> QED
    BY <2>1, <2>2
<1> QED
  BY <1>1, <1>2, <1>4, TreeMoves

LEMMA ReadParentKeeps ==
    ASSUME Threads, TreeInv, NEW s \in Sessions, ReadParent(s)
    PROVE  TreeInv'
<1>1. /\ pc[s] = "parent" /\ EditingTree(s) /\ UNCHANGED treeVars /\ types' = types /\ crossed' = crossed
      /\ \/ End(s)
         \/ Fit(job[s]) /\ Goto(s, "type") /\ UNCHANGED job
  BY DEF ReadParent, EditingTree, catalogueVars, treeVars, Fit
<1>2. /\ Only(s)
      /\ \/ pc'[s] = "idle"
         \/ Fit(job[s]) /\ job'[s] = job[s] /\ pc'[s] = "type"
  BY <1>1, Working, Going DEF End
<1>3. Edited(s)
  BY DEF TreeInv
<1>4. Edited(s)'
  BY <1>1, <1>2, <1>3 DEF Edited, EditingTree, Fit, Current, ChildrenAllow, Children, Retiring, Attaching
<1> QED
  BY <1>1, <1>2, <1>4, TreeMoves

LEMMA WriteTypeKeeps ==
    ASSUME Threads, TreeInv, NEW s \in Sessions, WriteType(s)
    PROVE  TreeInv'
<1> DEFINE j == job[s]
           now == types[j.type]
           new == IF j.row = Absent THEN [status |-> j.status, parent |-> j.parent] ELSE Rewritten(j, now)
<1>1. /\ pc[s] = "type" /\ EditingTree(s) /\ crossed' = crossed /\ End(s)
      /\ IF new.parent = j.type \/ (j.row = Absent /\ now # Absent)
         THEN types' = types
         ELSE types' = [types EXCEPT ![j.type] = new]
  BY DEF WriteType, EditingTree
<1>2. pc'[s] = "idle" /\ Only(s)
  BY <1>1, Working DEF End
<1>3. Edited(s)' /\ Alone'
  BY <1>1, <1>2 DEF TreeInv, Alone, Only, EditingTree, Edited
<1>4. j \in Edit /\ now \in UserTypeDef
  BY <1>1 DEF TreeInv, Edited, Edit
<1>5. types' \in [Types -> UserTypeDef]
  <2>1. new \in UserTypeDef
    BY <1>4 DEF Edit, UserTypeDef, Rewritten
  <2> QED
    BY <1>1, <1>4, <2>1 DEF TreeInv
<1>6. ASSUME NEW w \in Sessions \ {s}
      PROVE  Edited(w)'
  BY <1>1, <1>2 DEF TreeInv, Alone, Edited, Only, EditingTree
<1>7. TypeTreeKept'
  <2>1. CASE types' = types
    BY <1>1, <2>1 DEF TreeInv, TypeTreeKept
  <2>2. CASE types' # types
    <3> SUFFICES ASSUME ~crossed
                 PROVE  TypeTreeKept'
      BY <1>1 DEF TypeTreeKept
    <3>1. /\ types' = [types EXCEPT ![j.type] = new]
          /\ new.parent # j.type /\ (j.row = Absent => now = Absent)
      BY <1>1, <2>2
    <3>2. /\ Current(j) /\ (j.row # Absent => ChildrenAllow(j))
          /\ (j.row = Absent \/ Attaching(j) => Fit(j))
      BY <1>1 DEF TreeInv, Edited
    <3>3. new = [status |-> j.status, parent |-> j.parent]
      BY <1>4, <3>2 DEF Rewritten, Current, Edit, UserTypeDef
    <3> HIDE DEF new
    <3>4. /\ j.type \in Types /\ j.parent \in Types \cup {None} /\ j.status \in {"active", "retired"}
          /\ j.parent # j.type /\ None \notin Types
      BY <1>4, <3>1, <3>3, CatalogueAssumption DEF Edit
    <3>5. /\ types'[j.type] = [status |-> j.status, parent |-> j.parent]
          /\ \A t \in Types \ {j.type} : types'[t] = types[t]
      BY <3>1, <3>3, <3>4 DEF TreeInv
    <3>6. \A t \in Types : types[t].status # "absent" /\ types[t].parent # None =>
              /\ types[types[t].parent].status # "absent" /\ types[types[t].parent].parent = None
              /\ Category[types[t].parent] = Category[t] /\ Category[types[t].parent] # "consumer"
              /\ types[t].status = "active" => types[types[t].parent].status = "active"
      BY DEF TreeInv, TypeTreeKept
    \* The row itself under its parent.
    <3>7. ASSUME j.parent # None
          PROVE  /\ types[j.parent].status # "absent" /\ types[j.parent].parent = None
                 /\ Category[j.parent] = Category[j.type] /\ Category[j.parent] # "consumer"
                 /\ j.status = "active" => types[j.parent].status = "active"
      <4>1. CASE j.row = Absent \/ Attaching(j)
        BY <3>2, <3>7, <4>1 DEF Fit
      <4>2. CASE j.row # Absent /\ ~Attaching(j)
        <5>1. /\ types[j.type].parent = j.parent /\ types[j.type].status # "absent"
              /\ j.status = "active" => types[j.type].status # "retired"
          BY <3>2, <4>2 DEF Current, Attaching
        <5>2. j.status = "active" => types[j.type].status = "active"
          BY <1>4, <5>1 DEF UserTypeDef
        <5> QED
          BY <3>4, <3>6, <3>7, <5>1, <5>2
      <4> QED
        BY <4>1, <4>2
    \* The rows under it.
    <3>8. ASSUME NEW t \in Types \ {j.type}, types[t].status # "absent", types[t].parent = j.type
          PROVE  /\ j.parent = None /\ (types[t].status = "active" => j.status = "active")
                 /\ Category[j.type] = Category[t] /\ Category[j.type] # "consumer"
      <4>1. /\ types[j.type].status # "absent" /\ types[j.type].parent = None
            /\ Category[j.type] = Category[t] /\ Category[j.type] # "consumer"
            /\ types[t].status = "active" => types[j.type].status = "active"
        BY <3>4, <3>6, <3>8
      <4>2. j.row # Absent
        BY <3>1, <4>1 DEF Absent
      <4>3. j.row = types[j.type] /\ ChildrenAllow(j) /\ t \in Children(j.type)
        BY <3>2, <3>8, <4>2 DEF Current, Children
      <4>4. j.parent = None
        BY <4>1, <4>3 DEF ChildrenAllow, Attaching
      <4>5. types[t].status = "active" => j.status # "retired"
        BY <4>1, <4>3 DEF ChildrenAllow, Retiring
      <4> QED
        BY <3>4, <4>1, <4>4, <4>5
    <3>9. ASSUME NEW t \in Types, types'[t].status # "absent", types'[t].parent # None
          PROVE  /\ types'[types'[t].parent].status # "absent" /\ types'[types'[t].parent].parent = None
                 /\ Category[types'[t].parent] = Category[t] /\ Category[types'[t].parent] # "consumer"
                 /\ types'[t].status = "active" => types'[types'[t].parent].status = "active"
      <4>1. CASE t = j.type
        BY <3>4, <3>5, <3>7, <3>9, <4>1
      <4>2. CASE t # j.type /\ types[t].parent = j.type
        BY <3>4, <3>5, <3>8, <3>9, <4>2
      <4>3. CASE t # j.type /\ types[t].parent # j.type
        <5>1. types[t].parent \in Types
          BY <3>5, <3>9, <4>3 DEF TreeInv, UserTypeDef
        <5> QED
          BY <3>5, <3>6, <3>9, <4>3, <5>1
      <4> QED
        BY <4>1, <4>2, <4>3
    <3> QED
      BY <3>9 DEF TypeTreeKept
  <2> QED
    BY <2>1, <2>2
<1> QED
  BY <1>3, <1>5, <1>6, <1>7 DEF TreeInv

-----------------------------------------------------------------------------
(* The supervisors                                                         *)

PersonJob(j) ==
    /\ j = [person |-> j.person, type |-> j.type, superior |-> j.superior, wasType |-> j.wasType,
            wasSuperior |-> j.wasSuperior, coins |-> j.coins, accounts |-> j.accounts]
    /\ j.person \in People /\ j.type \in Types /\ j.superior \in Nameable

\* A user under a supervisor of the type above his.
Placed(p) == superior[p] # None => typeOf[p] \in Types /\ typeOf[superior[p]] = types[typeOf[p]].parent

\* A request whose user, supervisor and type are as it has read them.
Abreast(j) ==
    /\ j.wasType = typeOf[j.person] /\ j.wasSuperior = superior[j.person]
    /\ j.superior # j.person
    /\ j.superior # None => typeOf[j.superior] = types[j.type].parent

SupervisorsInv ==
    /\ types \in [Types -> UserTypeDef]
    /\ typeOf \in [People -> Types \cup {None}] /\ superior \in [People -> Nameable]
    /\ \A p \in People \ strays : Placed(p)
    /\ \A s \in OnPeople : PersonJob(job[s]) /\ (s \notin strays => Abreast(job[s]))

hierarchyVars == <<types, typeOf, superior>>

LEMMA SupervisorsInit == Init => SupervisorsInv
<1> SUFFICES ASSUME Init
             PROVE  SupervisorsInv
  OBVIOUS
<1>1. /\ typeOf = [p \in People |->
             IF p \in (IF left.person > 0 THEN People \ Newcomers ELSE People) THEN Enrolled[p] ELSE None]
      /\ superior = [p \in People |->
             IF p \in (IF left.person > 0 THEN People \ Newcomers ELSE People) THEN Superiors[p] ELSE None]
      /\ types = [t \in Types |->
             IF t \in DOMAIN Seeded THEN [status |-> "active", parent |-> Seeded[t]] ELSE Absent]
      /\ \A s \in Sessions : pc[s] = "idle"
  BY DEF Init, CatalogueInit, AccessInit, RegistrationInit, RequestsInit
<1>2. typeOf \in [People -> Types \cup {None}] /\ superior \in [People -> Nameable]
  BY <1>1, CatalogueAssumption DEF Nameable
<1>3. ASSUME NEW p \in People
      PROVE  Placed(p)
  <2> SUFFICES ASSUME superior[p] # None
               PROVE  typeOf[p] \in Types /\ typeOf[superior[p]] = types[typeOf[p]].parent
    BY DEF Placed
  <2>1. superior[p] = Superiors[p] /\ typeOf[p] = Enrolled[p] /\ Superiors[p] # None
    BY <1>1
  <2>2. /\ Superiors[p] \in People \ Newcomers /\ Enrolled[p] \in DOMAIN Seeded
        /\ Enrolled[Superiors[p]] = Seeded[Enrolled[p]] /\ Enrolled[p] \in Types
    BY <2>1, CatalogueAssumption
  <2>3. typeOf[Superiors[p]] = Enrolled[Superiors[p]]
    BY <1>1, <2>2
  <2>4. types[Enrolled[p]].parent = Seeded[Enrolled[p]]
    BY <1>1, <2>2
  <2> QED
    BY <2>1, <2>2, <2>3, <2>4
<1>4. OnPeople = {}
  BY <1>1 DEF OnPeople
<1>5. TreeInv
  BY TreeInit
<1> QED
  BY <1>2, <1>3, <1>4, <1>5 DEF SupervisorsInv, TreeInv

LEMMA SupervisorsElsewhere ==
    ASSUME SupervisorsInv, UNCHANGED hierarchyVars, strays' = strays, Keeps(PeopleLabels)
    PROVE  SupervisorsInv'
<1>1. \A s \in OnPeople' : s \in OnPeople /\ job'[s] = job[s]
  BY DEF Keeps, OnPeople, PeopleLabels
<1>2. \A p \in People : Placed(p) => Placed(p)'
  BY DEF Placed, hierarchyVars
<1>3. \A s \in OnPeople' : PersonJob(job[s])' /\ (s \notin strays => Abreast(job[s])')
  BY <1>1 DEF SupervisorsInv, PersonJob, Abreast, hierarchyVars
<1> QED
  BY <1>2, <1>3 DEF SupervisorsInv, hierarchyVars

\* One session goes on, and no row changes.
LEMMA SupervisorsMoves ==
    ASSUME SupervisorsInv, NEW s \in Sessions, UNCHANGED hierarchyVars, Only(s),
           strays' = strays \/ strays' = strays \ {s},
           pc'[s] \in PeopleLabels => PersonJob(job'[s]) /\ (s \notin strays' => Abreast(job'[s]))
    PROVE  SupervisorsInv'
<1>1. \A p \in People : p \notin strays' => p \notin strays
  BY CatalogueAssumption
<1>2. \A p \in People : Placed(p) => Placed(p)'
  BY DEF Placed, hierarchyVars
<1>3. ASSUME NEW w \in OnPeople'
      PROVE  PersonJob(job[w])' /\ (w \notin strays' => Abreast(job[w])')
  <2>1. CASE w = s
    <3>1. pc'[s] \in PeopleLabels
      BY <2>1 DEF OnPeople, PeopleLabels
    <3> QED
      BY <2>1, <3>1 DEF PersonJob, Abreast, hierarchyVars
  <2>2. CASE w # s
    <3>1. w \in OnPeople /\ job'[w] = job[w] /\ (w \notin strays' => w \notin strays)
      BY <2>2 DEF Only, OnPeople
    <3> QED
      BY <3>1 DEF SupervisorsInv, PersonJob, Abreast, hierarchyVars
  <2> QED
    BY <2>1, <2>2
<1> QED
  BY <1>1, <1>2, <1>3 DEF SupervisorsInv, hierarchyVars

LEMMA SupervisorsNamed ==
    ASSUME Threads, SupervisorsInv, NEW s \in Sessions, CreatePerson(s) \/ ChangeType(s) \/ UpdatePerson(s)
    PROVE  SupervisorsInv'
<1>1. UNCHANGED hierarchyVars /\ strays' = strays \ {s}
  BY DEF CreatePerson, ChangeType, UpdatePerson, hierarchyVars, treeVars
<1>2. PICK p \in People, t \in Types, q \in Nameable :
          Allowed(p, t, q) /\ \E label : Work(s, label, About(p, t, q))
  BY DEF CreatePerson, ChangeType, UpdatePerson, SupervisorsInv
<1>3. Only(s) /\ job'[s] = About(p, t, q)
  BY <1>2, Working
<1>4. PersonJob(job'[s])
  BY <1>2, <1>3 DEF PersonJob, About
<1>5. Abreast(job'[s])
  BY <1>2, <1>3 DEF Abreast, About, Allowed, Fits
<1> QED
  BY <1>1, <1>3, <1>4, <1>5, SupervisorsMoves

LEMMA SupervisorsReads ==
    ASSUME Threads, SupervisorsInv, NEW s \in Sessions, ReadCurrencies(s) \/ ReadHeld(s)
    PROVE  SupervisorsInv'
<1>1. UNCHANGED hierarchyVars /\ strays' = strays /\ s \in OnPeople
  BY DEF ReadCurrencies, ReadHeld, hierarchyVars, catalogueVars, treeVars, userVars, OnPeople
<1>2. PersonJob(job[s]) /\ (s \notin strays => Abreast(job[s]))
  BY <1>1 DEF SupervisorsInv
<1>3. PICK label, v : \/ Work(s, label, [job[s] EXCEPT !.coins = v])
                      \/ Work(s, label, [job[s] EXCEPT !.accounts = v])
  BY DEF ReadCurrencies, ReadHeld
<1>4. Only(s) /\ (job'[s] = [job[s] EXCEPT !.coins = v] \/ job'[s] = [job[s] EXCEPT !.accounts = v])
  BY <1>3, Working
<1>5. /\ PersonJob(job'[s]) /\ job'[s].person = job[s].person /\ job'[s].type = job[s].type
      /\ job'[s].superior = job[s].superior /\ job'[s].wasType = job[s].wasType
      /\ job'[s].wasSuperior = job[s].wasSuperior
  BY <1>2, <1>4 DEF PersonJob
<1>6. s \notin strays => Abreast(job'[s])
  BY <1>2, <1>5 DEF Abreast
<1> QED
  BY <1>1, <1>4, <1>5, <1>6, SupervisorsMoves

\* Whoever writes a user's row leaves astray those who relied on it.
LEMMA WriteUserKeeps ==
    ASSUME SupervisorsInv, NEW s \in OnPeople, WriteUser(s), types' = types, Only(s), pc'[s] = "idle"
    PROVE  SupervisorsInv'
<1> DEFINE j == job[s]
<1>1. PersonJob(j) /\ (s \notin strays => Abreast(j)) /\ s \in Sessions
  BY DEF SupervisorsInv, OnPeople
<1>2. PICK p \in People, t \in Types, q \in Nameable : p = j.person /\ t = j.type /\ q = j.superior
  BY <1>1 DEF PersonJob
<1>3. /\ typeOf' = IF t # j.wasType THEN [typeOf EXCEPT ![p] = t] ELSE typeOf
      /\ superior' = IF q # j.wasSuperior THEN [superior EXCEPT ![p] = q] ELSE superior
      /\ strays' = (strays \ {s, p})
                      \cup {r \in People : s \in strays /\ r = p}
                      \cup {r \in People : t # j.wasType /\ superior[r] = p}
                      \cup {w \in OnPeople \ {s} : p \in {job[w].person, job[w].superior}}
  BY <1>2 DEF WriteUser
<1>4. /\ typeOf' \in [People -> Types \cup {None}] /\ superior' \in [People -> Nameable]
      /\ typeOf \in [People -> Types \cup {None}] /\ superior \in [People -> Nameable]
      /\ \A r \in People \ {p} : typeOf'[r] = typeOf[r] /\ superior'[r] = superior[r]
  BY <1>2, <1>3 DEF SupervisorsInv
<1>5. s \notin People /\ \A w \in Sessions : w # p
  BY <1>1, <1>2, CatalogueAssumption
<1>6. ASSUME s \notin strays
      PROVE  Placed(p)'
  <2>1. /\ j.wasType = typeOf[p] /\ j.wasSuperior = superior[p] /\ q # p
        /\ q # None => typeOf[q] = types[t].parent
    BY <1>1, <1>2, <1>6 DEF Abreast
  <2>2. typeOf'[p] = t /\ superior'[p] = q
    BY <1>3, <1>4, <2>1
  <2>3. q # None => q \in People /\ typeOf'[q] = typeOf[q]
    BY <1>2, <1>4, <2>1 DEF Nameable
  <2> QED
    BY <1>2, <2>1, <2>2, <2>3 DEF Placed
<1>7. ASSUME NEW r \in People \ {p}, r \notin strays'
      PROVE  Placed(r)'
  <2>1. r \notin strays /\ (t # j.wasType => superior[r] # p)
    BY <1>3, <1>5, <1>7
  <2>2. Placed(r) /\ superior[r] \in Nameable /\ superior'[r] = superior[r] /\ typeOf'[r] = typeOf[r]
    BY <1>4, <2>1 DEF SupervisorsInv
  <2>3. superior[r] # None => typeOf'[superior[r]] = typeOf[superior[r]]
    BY <1>3, <1>4, <2>1, <2>2 DEF Nameable
  <2> QED
    BY <2>2, <2>3 DEF Placed
<1>8. \A r \in People \ strays' : Placed(r)'
  <2>1. p \notin strays' => s \notin strays
    BY <1>3
  <2> QED
    BY <1>6, <1>7, <2>1
<1>9. ASSUME NEW w \in OnPeople'
      PROVE  PersonJob(job[w])' /\ (w \notin strays' => Abreast(job[w])')
  <2>1. w \in OnPeople /\ w # s /\ w \in Sessions /\ job'[w] = job[w] /\ w # p
    BY <1>5 DEF OnPeople, Only
  <2>2. PersonJob(job[w]) /\ (w \notin strays => Abreast(job[w]))
    BY <2>1 DEF SupervisorsInv
  <2>3. PersonJob(job[w])'
    BY <2>1, <2>2 DEF PersonJob
  <2>4. ASSUME w \notin strays'
        PROVE  Abreast(job[w])'
    <3>1. w \notin strays /\ p # job[w].person /\ p # job[w].superior
      BY <1>3, <2>1, <2>4
    <3>2. /\ typeOf'[job[w].person] = typeOf[job[w].person]
          /\ superior'[job[w].person] = superior[job[w].person]
          /\ job[w].superior # None => typeOf'[job[w].superior] = typeOf[job[w].superior]
      BY <1>4, <2>2, <3>1 DEF PersonJob, Nameable
    <3> QED
      BY <2>1, <2>2, <3>1, <3>2 DEF Abreast
  <2> QED
    BY <2>3, <2>4
<1> QED
  BY <1>4, <1>8, <1>9 DEF SupervisorsInv

LEMMA SupervisorsWritten ==
    ASSUME Threads, SupervisorsInv, NEW s \in Sessions, CommitUser(s) \/ CommitRetype(s) \/ CommitUpdate(s)
    PROVE  SupervisorsInv'
<1>1. /\ types' = types /\ End(s) /\ s \in OnPeople
      /\ WriteUser(s) \/ UNCHANGED userVars
  BY DEF CommitUser, CommitRetype, CommitUpdate, treeVars, OnPeople
<1>2. Only(s) /\ pc'[s] = "idle"
  BY <1>1, Working DEF End
<1>3. CASE WriteUser(s)
  BY <1>1, <1>2, <1>3, WriteUserKeeps
<1>4. CASE UNCHANGED userVars
  <2>1. Keeps(PeopleLabels)
    BY <1>2 DEF Keeps, Only, PeopleLabels
  <2> QED
    BY <1>1, <1>4, <2>1, SupervisorsElsewhere DEF userVars, hierarchyVars
<1> QED
  BY <1>1, <1>3, <1>4

LEMMA SupervisorsRetyped ==
    ASSUME Threads, TreeInv, TreeInv', SupervisorsInv, NEW s \in Sessions, WriteType(s)
    PROVE  SupervisorsInv'
<1> DEFINE t == job[s].type
<1>1. /\ pc[s] = "type" /\ End(s) /\ typeOf' = typeOf /\ superior' = superior
      /\ types' = types \/ \E new : types' = [types EXCEPT ![t] = new]
      /\ strays' = IF types'[t].parent = types[t].parent THEN strays
                   ELSE strays \cup {p \in People : typeOf[p] = t} \cup {w \in OnPeople : job[w].type = t}
  BY DEF WriteType
<1>2. Only(s) /\ pc'[s] = "idle"
  BY <1>1, Working DEF End
<1>3. \A u \in Types : u # t => types'[u] = types[u]
  BY <1>1 DEF TreeInv
<1>4. ASSUME NEW p \in People \ strays'
      PROVE  Placed(p)'
  <2>1. Placed(p) /\ (typeOf[p] = t => types'[t].parent = types[t].parent)
    BY <1>1 DEF SupervisorsInv
  <2>2. typeOf[p] \in Types => types'[typeOf[p]].parent = types[typeOf[p]].parent
    BY <1>3, <2>1
  <2> QED
    BY <1>1, <2>1, <2>2 DEF Placed
<1>5. ASSUME NEW w \in OnPeople'
      PROVE  PersonJob(job[w])' /\ (w \notin strays' => Abreast(job[w])')
  <2>1. w \in OnPeople /\ job'[w] = job[w]
    BY <1>2 DEF OnPeople, Only
  <2>2. PersonJob(job[w]) /\ (w \notin strays => Abreast(job[w]))
    BY <2>1 DEF SupervisorsInv
  <2>3. w \notin strays' => w \notin strays /\ types'[job[w].type].parent = types[job[w].type].parent
    BY <1>1, <1>3, <2>1, <2>2 DEF PersonJob
  <2> QED
    BY <1>1, <2>1, <2>2, <2>3 DEF PersonJob, Abreast
<1> QED
  BY <1>1, <1>4, <1>5 DEF SupervisorsInv, TreeInv

\* The schedules and what users hold are separate tables.
LEMMA SchedulesRead ==
    ASSUME SchedulesNext
    PROVE  UNCHANGED <<catalogueVars, servicesVars>>
<1>1. ASSUME NEW s \in Sessions, NEW kind, NEW allowed,
             Apply(s) \/ Insert(s, kind, allowed) \/ Replace(s, kind) \/ Delete(s, kind)
      PROVE  UNCHANGED <<catalogueVars, servicesVars>>
  BY <1>1 DEF Apply, Insert, Replace, Delete
<1>2. ASSUME NEW s \in Sessions,
             \/ CreatePricing(s) \/ CreateLimit(s) \/ CreateWalletLimit(s) \/ CreateCommission(s)
             \/ CreateTax(s) \/ CreatePolicy(s) \/ CreateRate(s)
      PROVE  UNCHANGED <<catalogueVars, servicesVars>>
  BY <1>1, <1>2 DEF CreatePricing, CreateLimit, CreateWalletLimit, CreateCommission, CreateTax,
                    CreatePolicy, CreateRate
<1>3. ASSUME NEW s \in Sessions,
             \/ ReplacePricing(s) \/ ReplaceLimit(s) \/ ReplaceWalletLimit(s) \/ ReplaceCommission(s)
             \/ ReplaceTax(s) \/ ReplacePolicy(s) \/ ReplaceRate(s)
      PROVE  UNCHANGED <<catalogueVars, servicesVars>>
  BY <1>1, <1>3 DEF ReplacePricing, ReplaceLimit, ReplaceWalletLimit, ReplaceCommission, ReplaceTax,
                    ReplacePolicy, ReplaceRate
<1>4. ASSUME NEW s \in Sessions,
             \/ DeletePricing(s) \/ DeleteLimit(s) \/ DeleteWalletLimit(s) \/ DeleteCommission(s)
             \/ DeleteTax(s) \/ DeletePolicy(s) \/ DeleteRate(s)
      PROVE  UNCHANGED <<catalogueVars, servicesVars>>
  BY <1>1, <1>4 DEF DeletePricing, DeleteLimit, DeleteWalletLimit, DeleteCommission, DeleteTax,
                    DeletePolicy, DeleteRate
<1> QED
  BY <1>1, <1>2, <1>3, <1>4 DEF SchedulesNext

LEMMA HierarchyStep == Threads /\ TreeInv /\ SupervisorsInv /\ [Next]_vars => TreeInv' /\ SupervisorsInv'
<1> SUFFICES ASSUME Threads, TreeInv, SupervisorsInv, [Next]_vars
             PROVE  TreeInv' /\ SupervisorsInv'
  OBVIOUS
<1>1. ASSUME UNCHANGED <<treeVars, userVars>>, Keeps(CatalogueLabels)
      PROVE  TreeInv' /\ SupervisorsInv'
  <2>1. Keeps(TreeLabels) /\ Keeps(PeopleLabels)
    BY <1>1 DEF Keeps, TreeLabels, PeopleLabels, CatalogueLabels
  <2>2. UNCHANGED treeVars /\ UNCHANGED hierarchyVars /\ strays' = strays
    BY <1>1 DEF hierarchyVars, treeVars, userVars
  <2> QED
    BY <2>1, <2>2, TreeElsewhere, SupervisorsElsewhere
<1>2. TreeLabels \cap ({"idle"} \cup PeopleLabels) = {} /\ PeopleLabels \cap ({"idle"} \cup TreeLabels) = {}
  BY DEF TreeLabels, PeopleLabels
<1>3. ASSUME NEW s \in Sessions, EditType(s) \/ ReadChildren(s) \/ ReadParent(s) \/ WriteType(s)
      PROVE  TreeInv' /\ SupervisorsInv'
  <2>1. TreeInv'
    BY <1>3, EditTypeKeeps, ReadChildrenKeeps, ReadParentKeeps, WriteTypeKeeps
  <2>2. Keeps(PeopleLabels)
    BY <1>2, <1>3, TreeWalks, OthersKeep
  <2>3. EditType(s) \/ ReadChildren(s) \/ ReadParent(s) => UNCHANGED hierarchyVars /\ strays' = strays
    BY DEF EditType, ReadChildren, ReadParent, hierarchyVars, catalogueVars, treeVars, userVars
  <2> QED
    BY <1>3, <2>1, <2>2, <2>3, SupervisorsElsewhere, SupervisorsRetyped
<1>4. ASSUME NEW s \in Sessions,
             \/ CreatePerson(s) \/ ChangeType(s) \/ ReadCurrencies(s) \/ ReadHeld(s) \/ CommitUser(s)
             \/ CommitRetype(s) \/ UpdatePerson(s) \/ CommitUpdate(s)
      PROVE  TreeInv' /\ SupervisorsInv'
  <2>1. UNCHANGED treeVars
    BY <1>4 DEF CreatePerson, ChangeType, ReadCurrencies, ReadHeld, CommitUser, CommitRetype,
                UpdatePerson, CommitUpdate, catalogueVars
  <2>2. Keeps(TreeLabels)
    BY <1>2, <1>4, PeopleWalks, OthersKeep
  <2> QED
    BY <1>4, <2>1, <2>2, TreeElsewhere, SupervisorsNamed, SupervisorsReads, SupervisorsWritten
<1>5. ASSUME NEW s \in Sessions,
             \/ CreateCoin(s) \/ Inflow(s) \/ SystemAccounts(s) \/ BackfillMains(s)
             \/ BackfillCommissions(s) \/ CommitCoin(s) \/ CreateAccount(s) \/ EditCoin(s)
      PROVE  TreeInv' /\ SupervisorsInv'
  <2>1. UNCHANGED <<treeVars, userVars>>
    BY <1>5 DEF CreateCoin, Inflow, SystemAccounts, BackfillMains, BackfillCommissions, CommitCoin,
                CreateAccount, EditCoin, catalogueVars
  <2>2. (TreeLabels \cup PeopleLabels) \cap ({"idle"} \cup SpreadLabels) = {}
    BY DEF TreeLabels, PeopleLabels, SpreadLabels
  <2>3. Keeps(TreeLabels \cup PeopleLabels)
    BY <1>5, <2>2, SpreadWalks, CatalogueStays, OthersKeep
  <2>4. Keeps(TreeLabels) /\ Keeps(PeopleLabels)
    BY <2>3 DEF Keeps
  <2>5. UNCHANGED treeVars /\ UNCHANGED hierarchyVars /\ strays' = strays
    BY <2>1 DEF hierarchyVars, treeVars, userVars
  <2> QED
    BY <2>4, <2>5, TreeElsewhere, SupervisorsElsewhere
<1>6. CASE CatalogueNext
  BY <1>3, <1>4, <1>5, <1>6 DEF CatalogueNext
<1>7. CASE AccessNext /\ UNCHANGED catalogueVars
  BY <1>1, <1>7, AccessKeeps DEF Keeps, catalogueVars
<1>8. CASE ServicesNext
  <2>1. UNCHANGED <<treeVars, userVars>>
    <3>1. ASSUME NEW s \in Sessions,
                 \/ CreateVariant(s) \/ UpdateService(s) \/ DeleteVariant(s) \/ SetPermission(s)
                 \/ RemovePermission(s) \/ SaveTenant(s)
          PROVE  UNCHANGED <<treeVars, userVars>>
      BY <3>1 DEF CreateVariant, UpdateService, DeleteVariant, SetPermission, RemovePermission,
                  SaveTenant, catalogueVars
    <3>2. ASSUME NEW s \in Sessions,
                 CreateRole(s) \/ UpdateRole(s) \/ AssignRole(s) \/ RemoveRole(s) \/ CommitCatalog(s)
          PROVE  UNCHANGED <<treeVars, userVars>>
      BY <3>2 DEF CreateRole, UpdateRole, AssignRole, RemoveRole, CommitCatalog
    <3> QED
      BY <1>8, <3>1, <3>2 DEF ServicesNext
  <2> QED
    BY <1>1, <1>8, <2>1, ServicesKeep DEF Keeps
<1>9. CASE SchedulesNext
  BY <1>1, <1>9, SchedulesRead, SchedulesKeep DEF Keeps, catalogueVars
<1>10. CASE FlowsNext(status = "active")
  <2>1. UNCHANGED catalogueVars
    BY <1>10, FlowsRead
  <2>2. Keeps(CatalogueLabels)
    BY <1>10, FlowsKeep DEF Keeps
  <2> QED
    BY <1>1, <2>1, <2>2 DEF catalogueVars
<1>11. CASE UNCHANGED vars
  BY <1>1, <1>11 DEF vars, catalogueVars, Keeps
<1> QED
  BY <1>6, <1>7, <1>8, <1>9, <1>10, <1>11 DEF Next

\* The hierarchies of types and of users hold together, however the edits of
\* types, the changes of users and their refusals interleave, but for what two
\* edits at once, or an edit since, have undone (user_types/service.py:238,
\* :476, identity/service.py:208).
THEOREM HierarchyHolds == Spec => []HierarchyKept
<1>1. Init => Threads /\ TreeInv /\ SupervisorsInv
  BY ThreadsInit, TreeInit, SupervisorsInit
<1>2. Threads /\ TreeInv /\ SupervisorsInv /\ [Next]_vars => (Threads /\ TreeInv /\ SupervisorsInv)'
  BY ThreadsStep, HierarchyStep
<1>3. TreeInv /\ SupervisorsInv => HierarchyKept
  BY DEF TreeInv, SupervisorsInv, HierarchyKept, SupervisorsFit, Placed
<1> QED
  BY <1>1, <1>2, <1>3, PTL DEF Spec

-----------------------------------------------------------------------------
(* The wallets                                                             *)

\* An instrument a user is to have his wallets in.
Covered(p, c) == coins[c] = "active" /\ c \notin unspread \cup partial /\ <<p, c>> \notin overlapped

CoinJob(j) ==
    j = [coin |-> j.coin, spread |-> j.spread, accounts |-> j.accounts, row |-> j.row]

\* What a request about a user has read, or has yet to insert.
Provisions(s) ==
    /\ pc[s] = "held" => \A c \in Coins : Covered(job[s].person, c) => c \in job[s].coins
    /\ pc[s] \in {"user", "retype"} =>
           \A c \in Coins, kind \in Wanted(job[s].type) :
               Covered(job[s].person, c) => <<job[s].person, kind, c>> \in wallets \cup job[s].accounts
    /\ pc[s] = "update" => typeOf[job[s].person] # None

\* The users a backfill is for.
Backed(p, c) == typeOf[p] # None /\ <<p, c>> \notin overlapped

\* What a request about an instrument has yet to insert.
Backfills(s) ==
    /\ pc[s] \in SpreadLabels => CoinJob(job[s])
    /\ pc[s] \in {"mains", "commissions"} => job[s].spread
    /\ pc[s] \in {"commissions", "coin"} /\ job[s].spread =>
           \A p \in People : Backed(p, job[s].coin) =>
               <<p, "main", job[s].coin>> \in wallets \cup job[s].accounts
    /\ pc[s] = "coin" /\ job[s].spread /\ Commissions =>
           \A p \in People \ updated : Backed(p, job[s].coin) /\ Eligible(typeOf[p]) =>
               <<p, "commission", job[s].coin>> \in wallets \cup job[s].accounts

\* Two requests at work on one user and one instrument have been seen.
Met == \A s \in OnCoins, w \in OnPeople : pc[w] # "update" => <<job[w].person, job[s].coin>> \in overlapped

WalletsInv ==
    /\ coins \in [Coins -> {"absent", "active", "disabled"}]
    /\ \A c \in Coins : coins[c] = "disabled" => c \in unspread
    /\ WalletsComplete
    /\ Met
    /\ \A s \in Sessions : Provisions(s) /\ Backfills(s)

LEMMA WalletsInit == Init => WalletsInv
<1> SUFFICES ASSUME Init
             PROVE  WalletsInv
  OBVIOUS
<1>1. PICK here \in SUBSET People :
          /\ typeOf = [p \in People |-> IF p \in here THEN Enrolled[p] ELSE None]
          /\ wallets = UNION {{p} \X Wanted(Enrolled[p]) \X Coins : p \in here}
  BY DEF Init, CatalogueInit
<1>2. coins = [c \in Coins |-> "active"] /\ \A s \in Sessions : pc[s] = "idle"
  BY DEF Init, CatalogueInit, AccessInit, RegistrationInit, RequestsInit
<1>3. ASSUME NEW p \in People, NEW c \in Coins, typeOf[p] # None
      PROVE  /\ <<p, "main", c>> \in wallets
             /\ Commissions /\ Eligible(typeOf[p]) => <<p, "commission", c>> \in wallets
  <2>1. p \in here /\ typeOf[p] = Enrolled[p]
    BY <1>1, <1>3
  <2>2. \A kind \in Wanted(Enrolled[p]) : <<p, kind, c>> \in wallets
    BY <1>1, <2>1
  <2> QED
    BY <2>1, <2>2 DEF Wanted
<1>4. WalletsComplete
  BY <1>3 DEF WalletsComplete
<1>5. OnCoins = {} /\ OnPeople = {}
  BY <1>2 DEF OnCoins, OnPeople
<1> QED
  BY <1>2, <1>4, <1>5 DEF WalletsInv, Met, Provisions, Backfills, SpreadLabels

\* Rows only come; what is new to a request has met it, and is noted.
LEMMA StillProvisions ==
    ASSUME NEW s \in Sessions, Provisions(s), pc'[s] = pc[s], job'[s] = job[s], wallets \subseteq wallets',
           pc[s] \in {"held", "user", "retype"} =>
               \A c \in Coins : Covered(job[s].person, c)' => Covered(job[s].person, c),
           typeOf[job[s].person] # None => typeOf'[job[s].person] # None
    PROVE  Provisions(s)'
<1>1. pc[s] \in {"held", "user", "retype"} =>
          \A c \in Coins : (Covered(job[s].person, c))' => Covered(job[s].person, c)
  OBVIOUS
<1> QED
  BY <1>1 DEF Provisions

LEMMA StillBackfills ==
    ASSUME NEW s \in Sessions, Backfills(s), pc'[s] = pc[s], job'[s] = job[s], wallets \subseteq wallets',
           pc[s] \in {"commissions", "coin"} =>
               \A p \in People : Backed(p, job[s].coin)' =>
                   Backed(p, job[s].coin) /\ (p \notin updated' => p \notin updated /\ typeOf'[p] = typeOf[p])
    PROVE  Backfills(s)'
<1>1. ASSUME pc'[s] \in {"commissions", "coin"}, job'[s].spread, NEW p \in People, Backed(p, job[s].coin)'
      PROVE  <<p, "main", job'[s].coin>> \in wallets' \cup job'[s].accounts
  BY <1>1 DEF Backfills
<1>2. ASSUME pc'[s] = "coin", job'[s].spread, Commissions, NEW p \in People \ updated',
             Backed(p, job[s].coin)', Eligible(typeOf'[p])
      PROVE  <<p, "commission", job'[s].coin>> \in wallets' \cup job'[s].accounts
  <2>1. p \in People \ updated /\ Backed(p, job[s].coin) /\ typeOf'[p] = typeOf[p]
    BY <1>2
  <2> QED
    BY <1>2, <2>1 DEF Backfills
<1> QED
  BY <1>1, <1>2 DEF Backfills, CoinJob, Eligible

\* The rest of the tenant, and the edits of the tree: no row of these changes.
walletRows == <<typeOf, coins, wallets, overlapped, unspread, partial, updated>>

LEMMA WalletsElsewhere ==
    ASSUME WalletsInv, UNCHANGED walletRows, Keeps(PeopleLabels \cup SpreadLabels)
    PROVE  WalletsInv'
<1>1. /\ typeOf' = typeOf /\ coins' = coins /\ wallets' = wallets /\ overlapped' = overlapped
      /\ unspread' = unspread /\ partial' = partial /\ updated' = updated
  BY DEF walletRows
<1>2. \A s \in OnCoins' : s \in OnCoins /\ job'[s] = job[s]
  BY DEF Keeps, OnCoins, SpreadLabels
<1>3. \A s \in OnPeople' : s \in OnPeople /\ job'[s] = job[s] /\ pc'[s] = pc[s]
  BY DEF Keeps, OnPeople, PeopleLabels
<1>4. Met'
  BY <1>1, <1>2, <1>3 DEF WalletsInv, Met
<1>5. WalletsComplete'
  BY <1>1 DEF WalletsInv, WalletsComplete
<1>6. ASSUME NEW s \in Sessions
      PROVE  Provisions(s)' /\ Backfills(s)'
  <2>1. CASE pc'[s] \in PeopleLabels \cup SpreadLabels
    <3>1. pc'[s] = pc[s] /\ job'[s] = job[s] /\ Provisions(s) /\ Backfills(s)
      BY <2>1 DEF Keeps, WalletsInv
    <3> QED
      BY <1>1, <3>1, StillProvisions, StillBackfills DEF Covered, Backed
  <2>2. CASE pc'[s] \notin PeopleLabels \cup SpreadLabels
    BY <2>2 DEF Provisions, Backfills, PeopleLabels, SpreadLabels
  <2> QED
    BY <2>1, <2>2
<1> QED
  BY <1>1, <1>4, <1>5, <1>6 DEF WalletsInv

LEMMA CreateAccountKeeps ==
    ASSUME WalletsInv, NEW s \in Sessions, CreateAccount(s)
    PROVE  WalletsInv'
<1>1. /\ typeOf' = typeOf /\ coins' = coins /\ wallets \subseteq wallets' /\ overlapped' = overlapped
      /\ unspread' = unspread /\ partial' = partial /\ updated' = updated /\ pc' = pc /\ job' = job
  BY DEF CreateAccount, userVars
<1>2. Met'
  BY <1>1 DEF WalletsInv, Met, OnCoins, OnPeople
<1>3. WalletsComplete'
  BY <1>1 DEF WalletsInv, WalletsComplete
<1>4. \A w \in Sessions : Provisions(w)' /\ Backfills(w)'
  BY <1>1, StillProvisions, StillBackfills DEF WalletsInv, Covered, Backed
<1> QED
  BY <1>1, <1>2, <1>3, <1>4 DEF WalletsInv

\* An instrument that returns is noted, unless all its users have it.
LEMMA EditCoinKeeps ==
    ASSUME WalletsInv, NEW s \in Sessions, EditCoin(s)
    PROVE  WalletsInv'
<1>1. /\ typeOf' = typeOf /\ wallets' = wallets /\ overlapped' = overlapped /\ updated' = updated
      /\ partial' = partial /\ pc' = pc /\ job' = job
  BY DEF EditCoin, userVars
<1>2. PICK c \in Coins, to \in {"absent", "active", "disabled"} :
          /\ coins[c] # "absent"
          /\ coins' = [coins EXCEPT ![c] = to]
          /\ unspread' = IF to = "disabled" THEN unspread \cup {c} ELSE unspread
  BY DEF EditCoin
<1>3. /\ coins' \in [Coins -> {"absent", "active", "disabled"}]
      /\ \A d \in Coins : coins'[d] = "disabled" => d \in unspread'
  BY <1>2 DEF WalletsInv
<1>4. \A p, d : d \in Coins /\ Covered(p, d)' => Covered(p, d)
  BY <1>1, <1>2 DEF WalletsInv, Covered
<1>5. Met'
  BY <1>1 DEF WalletsInv, Met, OnCoins, OnPeople
<1>6. WalletsComplete'
  BY <1>1, <1>4 DEF WalletsInv, WalletsComplete, Covered
<1>7. \A w \in Sessions : Provisions(w)' /\ Backfills(w)'
  BY <1>1, <1>4, StillProvisions, StillBackfills DEF WalletsInv, Backed
<1> QED
  BY <1>3, <1>5, <1>6, <1>7 DEF WalletsInv

\* provision_tenant_defaults notes the instrument it makes as one without wallets.
LEMMA CommitCatalogKeeps ==
    ASSUME Threads, WalletsInv, NEW s \in Sessions, CommitCatalog(s)
    PROVE  WalletsInv'
<1>1. /\ typeOf' = typeOf /\ wallets' = wallets /\ overlapped' = overlapped /\ updated' = updated
      /\ partial' = partial /\ pc[s] = "catalog" /\ End(s)
  BY DEF CommitCatalog, userVars
<1>2. pc'[s] = "idle" /\ Only(s)
  BY <1>1, Working DEF End
<1>3. PICK anew : \/ coins' = coins /\ unspread' = unspread
                  \/ /\ coins' = [c \in Coins |-> IF c \in anew THEN "active" ELSE coins[c]]
                     /\ unspread' = unspread \cup anew
  BY DEF CommitCatalog
<1>4. /\ coins' \in [Coins -> {"absent", "active", "disabled"}]
      /\ \A d \in Coins : coins'[d] = "disabled" => d \in unspread'
  BY <1>3 DEF WalletsInv
<1>5. \A p, d : d \in Coins /\ Covered(p, d)' => Covered(p, d)
  BY <1>1, <1>3 DEF WalletsInv, Covered
<1>6. Met'
  BY <1>1, <1>2 DEF WalletsInv, Met, OnCoins, OnPeople, Only
<1>7. WalletsComplete'
  BY <1>1, <1>5 DEF WalletsInv, WalletsComplete, Covered
<1>8. \A w \in Sessions \ {s} : Provisions(w)' /\ Backfills(w)'
  BY <1>1, <1>2, <1>5, StillProvisions, StillBackfills DEF WalletsInv, Backed, Only
<1>9. Provisions(s)' /\ Backfills(s)'
  BY <1>2 DEF Provisions, Backfills, SpreadLabels
<1> QED
  BY <1>4, <1>6, <1>7, <1>8, <1>9 DEF WalletsInv

\* One session goes on and writes nothing; whom it meets is noted.
LEMMA WalletsMoves ==
    ASSUME WalletsInv, NEW s \in Sessions, Only(s),
           UNCHANGED <<typeOf, coins, wallets, unspread, partial, updated>>, overlapped \subseteq overlapped',
           Provisions(s)', Backfills(s)',
           s \in OnCoins' => \A w \in OnPeople \ {s} : pc[w] # "update" =>
                                 <<job[w].person, job'[s].coin>> \in overlapped',
           s \in OnPeople' /\ pc'[s] # "update" => \A w \in OnCoins \ {s} :
                                 <<job'[s].person, job[w].coin>> \in overlapped'
    PROVE  WalletsInv'
<1>1. /\ typeOf' = typeOf /\ coins' = coins /\ wallets' = wallets /\ unspread' = unspread
      /\ partial' = partial /\ updated' = updated
  OBVIOUS
<1>2. \A w \in Sessions \ {s} : /\ pc'[w] = pc[w] /\ job'[w] = job[w]
                                /\ w \in OnCoins' <=> w \in OnCoins
                                /\ w \in OnPeople' <=> w \in OnPeople
  BY DEF Only, OnCoins, OnPeople
<1>3. OnCoins' \subseteq Sessions /\ OnPeople' \subseteq Sessions /\ ~(s \in OnCoins' /\ s \in OnPeople')
  BY DEF OnCoins, OnPeople
<1>4. Met'
  <2>1. ASSUME NEW c \in OnCoins', NEW w \in OnPeople', pc'[w] # "update"
        PROVE  <<job'[w].person, job'[c].coin>> \in overlapped'
    <3>1. CASE c = s
      BY <1>2, <1>3, <2>1, <3>1
    <3>2. CASE w = s
      BY <1>2, <1>3, <2>1, <3>2
    <3>3. CASE c # s /\ w # s
      BY <1>2, <1>3, <2>1, <3>3 DEF WalletsInv, Met
    <3> QED
      BY <3>1, <3>2, <3>3
  <2> QED
    BY <2>1 DEF Met
<1>5. WalletsComplete'
  BY <1>1 DEF WalletsInv, WalletsComplete
<1>6. \A p, c : /\ Covered(p, c)' => Covered(p, c)
                /\ Backed(p, c)' => Backed(p, c)
  BY <1>1 DEF Covered, Backed
<1>7. \A w \in Sessions \ {s} : Provisions(w)' /\ Backfills(w)'
  BY <1>1, <1>2, <1>6, StillProvisions, StillBackfills DEF WalletsInv
<1> QED
  BY <1>1, <1>4, <1>5, <1>7 DEF WalletsInv

LEMMA WalletsNamed ==
    ASSUME Threads, WalletsInv, NEW s \in Sessions, CreatePerson(s) \/ ChangeType(s)
    PROVE  WalletsInv'
<1>1. UNCHANGED <<typeOf, coins, wallets, unspread, partial, updated>>
  BY DEF CreatePerson, ChangeType
<1>2. PICK p \in People, t \in Types, q \in Nameable :
          /\ Work(s, "currencies", About(p, t, q))
          /\ overlapped' = overlapped \cup {<<p, job[w].coin>> : w \in OnCoins}
  BY DEF CreatePerson, ChangeType
<1>3. Only(s) /\ pc'[s] = "currencies" /\ job'[s].person = p
  BY <1>2, Working DEF About
<1>4. Provisions(s)' /\ Backfills(s)' /\ s \notin OnCoins'
  BY <1>3 DEF Provisions, Backfills, SpreadLabels, OnCoins
<1> QED
  BY <1>1, <1>2, <1>3, <1>4, WalletsMoves

LEMMA WalletsUpdate ==
    ASSUME Threads, WalletsInv, NEW s \in Sessions, UpdatePerson(s)
    PROVE  WalletsInv'
<1>1. UNCHANGED <<typeOf, coins, wallets, unspread, partial, updated>> /\ overlapped' = overlapped
  BY DEF UpdatePerson, walletVars
<1>2. PICK p \in People, t \in Types :
          typeOf[p] # None /\ Work(s, "update", About(p, t, superior[p]))
  BY DEF UpdatePerson
<1>3. Only(s) /\ pc'[s] = "update" /\ job'[s].person = p
  BY <1>2, Working DEF About
<1>4. Provisions(s)' /\ Backfills(s)' /\ s \notin OnCoins'
  BY <1>1, <1>2, <1>3 DEF Provisions, Backfills, SpreadLabels, OnCoins
<1> QED
  BY <1>1, <1>3, <1>4, WalletsMoves

LEMMA WalletsReads ==
    ASSUME Threads, SupervisorsInv, WalletsInv, NEW s \in Sessions, ReadCurrencies(s) \/ ReadHeld(s)
    PROVE  WalletsInv'
<1>1. UNCHANGED <<typeOf, coins, wallets, unspread, partial, updated>> /\ overlapped' = overlapped
  BY DEF ReadCurrencies, ReadHeld, catalogueVars, userVars, walletVars
<1>2. s \in OnPeople /\ pc[s] # "update"
  BY DEF ReadCurrencies, ReadHeld, OnPeople
<1>3. PersonJob(job[s])
  BY <1>2 DEF SupervisorsInv
<1>4. \A w \in OnCoins : <<job[s].person, job[w].coin>> \in overlapped
  BY <1>2 DEF WalletsInv, Met
<1>5. ASSUME ReadCurrencies(s)
      PROVE  /\ Only(s) /\ pc'[s] = "held" /\ job'[s].person = job[s].person
             /\ Provisions(s)'
  <2>1. Only(s) /\ pc'[s] = "held" /\ job'[s] = [job[s] EXCEPT !.coins = {c \in Coins : coins[c] = "active"}]
    BY <1>5, Working DEF ReadCurrencies
  <2>2. job'[s].person = job[s].person /\ job'[s].coins = {c \in Coins : coins[c] = "active"}
    BY <1>3, <2>1 DEF PersonJob
  <2> QED
    BY <1>1, <2>1, <2>2 DEF Provisions, Covered
<1>6. ASSUME ReadHeld(s)
      PROVE  /\ Only(s) /\ pc'[s] \in {"user", "retype"} /\ job'[s].person = job[s].person
             /\ Provisions(s)'
  <2> DEFINE j == job[s]
             new == ({j.person} \X Wanted(j.type) \X j.coins) \ wallets
  <2>1. /\ Only(s) /\ pc'[s] \in {"user", "retype"} /\ job'[s] = [j EXCEPT !.accounts = new]
        /\ pc[s] = "held"
    BY <1>6, Working DEF ReadHeld
  <2>2. job'[s].person = j.person /\ job'[s].type = j.type /\ job'[s].accounts = new
    BY <1>3, <2>1 DEF PersonJob
  <2>3. \A c \in Coins : Covered(j.person, c) => c \in j.coins
    BY <2>1 DEF WalletsInv, Provisions
  <2>4. \A c \in j.coins, kind \in Wanted(j.type) : <<j.person, kind, c>> \in wallets \cup new
    OBVIOUS
  <2>5. (\A c \in Coins : Covered(j.person, c)' => c \in j.coins)
    BY <1>1, <2>2, <2>3 DEF Covered
  <2>6. \A t : Wanted(t)' = Wanted(t)
    BY DEF Wanted, Eligible
  <2> HIDE DEF new
  <2> QED
    BY <1>1, <2>1, <2>2, <2>4, <2>5, <2>6 DEF Provisions
<1>7. Only(s) /\ pc'[s] \in {"held", "user", "retype"} /\ job'[s].person = job[s].person /\ Provisions(s)'
  BY <1>5, <1>6
<1>8. Backfills(s)' /\ s \notin OnCoins'
  BY <1>7 DEF Backfills, SpreadLabels, OnCoins
<1> QED
  BY <1>1, <1>4, <1>7, <1>8, WalletsMoves

\* A user's row and the accounts it lacks are one commit.
LEMMA WalletsCommitted ==
    ASSUME Threads, SupervisorsInv, WalletsInv, NEW s \in Sessions,
           pc[s] \in {"user", "retype"}, End(s), WriteUser(s), wallets' = wallets \cup job[s].accounts,
           UNCHANGED <<coins, overlapped, unspread, partial>>, updated \ {job[s].person} \subseteq updated',
           updated' = updated \/ job[s].type # job[s].wasType
    PROVE  WalletsInv'
<1> DEFINE j == job[s]
<1>1. pc'[s] = "idle" /\ Only(s) /\ s \in OnPeople /\ pc[s] # "update"
  BY Working DEF End, OnPeople
<1>2. PersonJob(j) /\ j.person \in People /\ j.type \in Types /\ None \notin Types
  BY <1>1, CatalogueAssumption DEF SupervisorsInv, PersonJob
<1>3. /\ \A q \in People \ {j.person} : typeOf'[q] = typeOf[q]
      /\ typeOf'[j.person] = IF j.type # j.wasType THEN j.type ELSE typeOf[j.person]
  BY <1>2 DEF WriteUser, SupervisorsInv
<1>4. \A c \in Coins, kind \in Wanted(j.type) : Covered(j.person, c) => <<j.person, kind, c>> \in wallets'
  BY DEF WalletsInv, Provisions
<1>5. \A p, c : Covered(p, c)' <=> Covered(p, c)
  BY DEF Covered
<1>6. ASSUME NEW p \in People, NEW c \in Coins, typeOf'[p] # None, Covered(p, c)
      PROVE  /\ <<p, "main", c>> \in wallets'
             /\ Commissions /\ Eligible(typeOf'[p]) /\ p \notin updated' => <<p, "commission", c>> \in wallets'
  <2>1. CASE p = j.person /\ j.type # j.wasType
    BY <1>3, <1>4, <1>6, <2>1 DEF Wanted
  <2>2. CASE p # j.person \/ j.type = j.wasType
    <3>1. typeOf'[p] = typeOf[p] /\ (p \notin updated' => p \notin updated)
      BY <1>3, <2>2
    <3> QED
      BY <1>6, <3>1 DEF WalletsInv, WalletsComplete, Covered
  <2> QED
    BY <2>1, <2>2
<1>7. WalletsComplete'
  BY <1>5, <1>6 DEF WalletsComplete, Covered, Eligible
<1>8. Met'
  BY <1>1 DEF WalletsInv, Met, OnCoins, OnPeople, Only
<1>9. Provisions(s)' /\ Backfills(s)'
  BY <1>1 DEF Provisions, Backfills, SpreadLabels
<1>10. ASSUME NEW w \in Sessions \ {s}
       PROVE  Provisions(w)' /\ Backfills(w)'
  <2>1. pc'[w] = pc[w] /\ job'[w] = job[w] /\ Provisions(w) /\ Backfills(w)
    BY <1>1 DEF Only, WalletsInv
  <2>2. pc[w] \in {"commissions", "coin"} => <<j.person, job[w].coin>> \in overlapped
    BY <1>1 DEF WalletsInv, Met, OnCoins
  <2>3. pc[w] \in {"commissions", "coin"} =>
            \A p \in People : Backed(p, job[w].coin)' =>
                Backed(p, job[w].coin) /\ (p \notin updated' => p \notin updated /\ typeOf'[p] = typeOf[p])
    BY <1>3, <2>1, <2>2 DEF Backed
  <2>4. pc[w] = "update" => job[w].person \in People
    <3>1. pc[w] = "update" => w \in OnPeople
      BY DEF OnPeople
    <3> QED
      BY <3>1 DEF SupervisorsInv, PersonJob
  <2>5. pc[w] = "update" /\ typeOf[job[w].person] # None => typeOf'[job[w].person] # None
    BY <1>2, <1>3, <2>4
  <2>6. Provisions(w)'
    BY <1>5, <2>1, <2>5 DEF Provisions, Wanted, Eligible, Covered
  <2> QED
    BY <2>1, <2>3, <2>6, StillBackfills
<1> QED
  BY <1>7, <1>8, <1>9, <1>10 DEF WalletsInv

LEMMA WalletsUpdated ==
    ASSUME Threads, SupervisorsInv, WalletsInv, NEW s \in Sessions, CommitUpdate(s)
    PROVE  WalletsInv'
<1> DEFINE j == job[s]
<1>1. /\ pc[s] = "update" /\ End(s) /\ WriteUser(s) /\ updated' = updated \cup {j.person}
      /\ coins' = coins /\ wallets' = wallets /\ overlapped' = overlapped /\ unspread' = unspread
      /\ partial' = partial
  BY DEF CommitUpdate, walletVars
<1>2. pc'[s] = "idle" /\ Only(s) /\ s \in OnPeople
  BY <1>1, Working DEF End, OnPeople
<1>3. PersonJob(j) /\ j.person \in People /\ j.type \in Types /\ None \notin Types
  BY <1>2, CatalogueAssumption DEF SupervisorsInv, PersonJob
<1>4. typeOf[j.person] # None
  BY <1>1 DEF WalletsInv, Provisions
<1>5. /\ \A q \in People \ {j.person} : typeOf'[q] = typeOf[q]
      /\ \A q \in People : typeOf'[q] # None <=> typeOf[q] # None
  BY <1>1, <1>3, <1>4 DEF WriteUser, SupervisorsInv
<1>6. \A p, c : Covered(p, c)' <=> Covered(p, c)
  BY <1>1 DEF Covered
<1>7. WalletsComplete'
  BY <1>1, <1>5 DEF WalletsInv, WalletsComplete, Eligible
<1>8. Met'
  BY <1>1, <1>2 DEF WalletsInv, Met, OnCoins, OnPeople, Only
<1>9. Provisions(s)' /\ Backfills(s)'
  BY <1>2 DEF Provisions, Backfills, SpreadLabels
<1>10. ASSUME NEW w \in Sessions \ {s}
       PROVE  Provisions(w)' /\ Backfills(w)'
  <2>1. pc'[w] = pc[w] /\ job'[w] = job[w] /\ Provisions(w) /\ Backfills(w)
    BY <1>2 DEF Only, WalletsInv
  <2>2. \A p \in People : Backed(p, job[w].coin)' =>
            Backed(p, job[w].coin) /\ (p \notin updated' => p \notin updated /\ typeOf'[p] = typeOf[p])
    BY <1>1, <1>5, <2>1 DEF Backed
  <2>3. pc[w] = "update" => job[w].person \in People
    <3>1. pc[w] = "update" => w \in OnPeople
      BY DEF OnPeople
    <3> QED
      BY <3>1 DEF SupervisorsInv, PersonJob
  <2>4. Provisions(w)'
    BY <1>1, <1>5, <1>6, <2>1, <2>3 DEF Provisions, Wanted, Eligible, Covered
  <2> QED
    BY <1>1, <2>1, <2>2, <2>4, StillBackfills
<1> QED
  BY <1>1, <1>7, <1>8, <1>9, <1>10 DEF WalletsInv

LEMMA WalletsOfPeople ==
    ASSUME Threads, SupervisorsInv, WalletsInv, NEW s \in Sessions, CommitUser(s) \/ CommitRetype(s)
    PROVE  WalletsInv'
<1>1. /\ pc[s] \in {"user", "retype"} /\ End(s)
      /\ UNCHANGED <<coins, overlapped, unspread, partial>>
  BY DEF CommitUser, CommitRetype
<1>2. \/ /\ WriteUser(s) /\ wallets' = wallets \cup job[s].accounts
         /\ updated' = updated \/ (updated' = updated \ {job[s].person} /\ job[s].type # job[s].wasType)
      \/ UNCHANGED userVars /\ wallets' = wallets
  BY DEF CommitUser, CommitRetype
<1>3. CASE UNCHANGED userVars /\ wallets' = wallets
  <2>1. pc'[s] = "idle" /\ Only(s)
    BY <1>1, Working DEF End
  <2>2. Keeps(PeopleLabels \cup SpreadLabels)
    BY <2>1 DEF Keeps, Only, PeopleLabels, SpreadLabels
  <2> QED
    BY <1>1, <1>3, <2>2, WalletsElsewhere DEF userVars, walletRows
<1> QED
  BY <1>1, <1>2, <1>3, WalletsCommitted

\* An instrument on its way to its users.
LEMMA WalletsSpread ==
    ASSUME Threads, WalletsInv, NEW s \in Sessions,
           CreateCoin(s) \/ SystemAccounts(s) \/ BackfillMains(s) \/ BackfillCommissions(s)
    PROVE  WalletsInv'
<1>1. UNCHANGED <<typeOf, coins, wallets, unspread, partial, updated>> /\ overlapped \subseteq overlapped'
  BY DEF CreateCoin, SystemAccounts, BackfillMains, BackfillCommissions, catalogueVars, userVars, walletVars
<1>2. ASSUME CreateCoin(s)
      PROVE  WalletsInv'
  <2>1. PICK c \in Coins, spread \in BOOLEAN :
            /\ Work(s, "inflow", Making(c, spread))
            /\ overlapped' = overlapped \cup {<<job[w].person, c>> : w \in OnPeople}
    BY <1>2 DEF CreateCoin
  <2>2. /\ Only(s) /\ pc'[s] = "inflow"
        /\ job'[s] = [coin |-> c, spread |-> spread, accounts |-> {}, row |-> "staged"]
    BY <2>1, Working DEF Making
  <2>3. Provisions(s)' /\ Backfills(s)' /\ s \notin OnPeople'
    BY <2>2 DEF Provisions, Backfills, CoinJob, OnPeople
  <2> QED
    BY <1>1, <2>1, <2>2, <2>3, WalletsMoves
<1>3. ASSUME s \in OnCoins, Only(s), pc'[s] \in SpreadLabels, job'[s].coin = job[s].coin, Backfills(s)'
      PROVE  WalletsInv'
  <2>1. \A w \in OnPeople \ {s} : pc[w] # "update" => <<job[w].person, job'[s].coin>> \in overlapped'
    BY <1>1, <1>3 DEF WalletsInv, Met
  <2>2. Provisions(s)' /\ s \notin OnPeople'
    BY <1>3 DEF Provisions, SpreadLabels, OnPeople
  <2> QED
    BY <1>1, <1>3, <2>1, <2>2, WalletsMoves
<1>6. ASSUME SystemAccounts(s)
      PROVE  WalletsInv'
  <2> DEFINE j == job[s]
  <2>1. PICK row :
            /\ Only(s) /\ pc[s] = "system" /\ pc'[s] = (IF j.spread THEN "mains" ELSE "coin")
            /\ job'[s] = [j EXCEPT !.row = row]
    BY <1>6, Working DEF SystemAccounts
  <2>2. CoinJob(j) /\ s \in OnCoins
    BY <2>1 DEF WalletsInv, Backfills, SpreadLabels, OnCoins
  <2>3. job'[s] = [coin |-> j.coin, spread |-> j.spread, accounts |-> j.accounts, row |-> row]
    BY <2>1, <2>2 DEF CoinJob
  <2>4. Backfills(s)'
    BY <2>1, <2>3 DEF Backfills, CoinJob
  <2> QED
    BY <1>3, <2>1, <2>2, <2>3, <2>4 DEF SpreadLabels
<1>4. ASSUME BackfillMains(s)
      PROVE  WalletsInv'
  <2> DEFINE j == job[s]
  <2>1. /\ Only(s) /\ pc[s] = "mains" /\ pc'[s] = (IF Commissions THEN "commissions" ELSE "coin")
        /\ job'[s] = [j EXCEPT !.accounts = Lacking("main", j.coin)]
    BY <1>4, Working DEF BackfillMains
  <2>2. CoinJob(j) /\ j.spread /\ s \in OnCoins
    BY <2>1 DEF WalletsInv, Backfills, SpreadLabels, OnCoins
  <2>3. job'[s] = [coin |-> j.coin, spread |-> j.spread, accounts |-> Lacking("main", j.coin),
                   row |-> j.row]
    BY <2>1, <2>2 DEF CoinJob
  <2>4. \A p \in People : typeOf[p] # None => <<p, "main", j.coin>> \in wallets \cup Lacking("main", j.coin)
    BY DEF Lacking
  <2>5. Backfills(s)'
    <3>1. \A p, c : Backed(p, c)' => typeOf[p] # None
      BY <1>1 DEF Backed
    <3> QED
      BY <1>1, <2>1, <2>2, <2>3, <2>4, <3>1 DEF Backfills, CoinJob
  <2> QED
    BY <1>3, <2>1, <2>2, <2>3, <2>5 DEF SpreadLabels
<1>5. ASSUME BackfillCommissions(s)
      PROVE  WalletsInv'
  <2> DEFINE j == job[s]
             new == j.accounts \cup {w \in Lacking("commission", j.coin) : Eligible(typeOf[w[1]])}
  <2>1. /\ Only(s) /\ pc[s] = "commissions" /\ pc'[s] = "coin" /\ job'[s] = [j EXCEPT !.accounts = new]
        /\ overlapped' = overlapped
    BY <1>5, Working DEF BackfillCommissions, catalogueVars, walletVars
  <2>2. /\ CoinJob(j) /\ j.spread /\ s \in OnCoins
        /\ \A p \in People : Backed(p, j.coin) => <<p, "main", j.coin>> \in wallets \cup j.accounts
    BY <2>1 DEF WalletsInv, Backfills, SpreadLabels, OnCoins
  <2>3. job'[s] = [coin |-> j.coin, spread |-> j.spread, accounts |-> new, row |-> j.row]
    BY <2>1, <2>2 DEF CoinJob
  <2>4. ASSUME NEW p \in People, typeOf[p] # None, Eligible(typeOf[p])
        PROVE  <<p, "commission", j.coin>> \in wallets \cup new
    <3>1. <<p, "commission", j.coin>>[1] = p
      OBVIOUS
    <3> QED
      BY <2>4, <3>1 DEF Lacking
  <2>5. Backfills(s)'
    <3>1. \A p, c : Backed(p, c)' => Backed(p, c) /\ typeOf[p] # None
      BY <1>1, <2>1 DEF Backed
    <3>2. \A p \in People : Backed(p, j.coin) => <<p, "main", j.coin>> \in wallets \cup new
      BY <2>2
    <3> HIDE DEF new
    <3> QED
      BY <1>1, <2>1, <2>3, <2>4, <3>1, <3>2 DEF Backfills, CoinJob, Eligible
  <2> QED
    BY <1>3, <2>1, <2>2, <2>3, <2>5 DEF SpreadLabels
<1> QED
  BY <1>2, <1>4, <1>5, <1>6

\* A commit of a request about an instrument touches no other's rows, and
\* whoever is then to have a wallet in its own has one.
LEMMA CoinWritten ==
    ASSUME WalletsInv, NEW s \in OnCoins, NEW own, own = job[s].coin, Only(s), UNCHANGED <<typeOf, overlapped, updated>>,
           wallets \subseteq wallets', coins' \in [Coins -> {"absent", "active", "disabled"}],
           \A c \in Coins : coins'[c] = "disabled" => c \in unspread',
           \A c \in Coins : c # own =>
               /\ coins'[c] = coins[c]
               /\ c \in unspread' <=> c \in unspread
               /\ c \in partial' <=> c \in partial,
           \A p \in People : own \in Coins /\ typeOf[p] # None /\ Covered(p, own)' =>
               /\ <<p, "main", own>> \in wallets'
               /\ Commissions /\ Eligible(typeOf[p]) /\ p \notin updated =>
                      <<p, "commission", own>> \in wallets',
           Provisions(s)', Backfills(s)', s \notin OnPeople',
           s \in OnCoins' => job'[s].coin = own
    PROVE  WalletsInv'
<1>1. s \in Sessions /\ typeOf' = typeOf /\ overlapped' = overlapped /\ updated' = updated
  BY DEF OnCoins
<1>2. WalletsComplete'
  <2>1. ASSUME NEW p \in People, NEW c \in Coins, typeOf[p] # None, coins'[c] = "active",
               c \notin unspread' \cup partial', <<p, c>> \notin overlapped
        PROVE  /\ <<p, "main", c>> \in wallets'
               /\ Commissions /\ Eligible(typeOf[p]) /\ p \notin updated => <<p, "commission", c>> \in wallets'
    <3>1. CASE c = own
      <4>1. Covered(p, own)'
        BY <1>1, <2>1, <3>1 DEF Covered
      <4> QED
        BY <2>1, <3>1, <4>1
    <3>2. CASE c # own
      BY <2>1, <3>2 DEF WalletsInv, WalletsComplete
    <3> QED
      BY <3>1, <3>2
  <2> QED
    BY <1>1, <2>1 DEF WalletsComplete, Eligible
<1>3. \A w \in Sessions \ {s} : /\ pc'[w] = pc[w] /\ job'[w] = job[w]
                                /\ w \in OnCoins' <=> w \in OnCoins
                                /\ w \in OnPeople' <=> w \in OnPeople
  BY DEF Only, OnCoins, OnPeople
<1>4. Met'
  <2>1. ASSUME NEW c \in OnCoins', NEW w \in OnPeople', pc'[w] # "update"
        PROVE  <<job'[w].person, job'[c].coin>> \in overlapped
    <3>1. w \in Sessions \ {s} /\ c \in Sessions
      BY <2>1 DEF OnCoins, OnPeople
    <3>2. c \in OnCoins /\ job'[c].coin = job[c].coin /\ w \in OnPeople /\ job'[w] = job[w] /\ pc[w] # "update"
      BY <1>3, <2>1, <3>1
    <3> QED
      BY <3>2 DEF WalletsInv, Met
  <2> QED
    BY <1>1, <2>1 DEF Met
<1>5. ASSUME NEW w \in Sessions \ {s}
      PROVE  Provisions(w)' /\ Backfills(w)'
  <2>1. pc'[w] = pc[w] /\ job'[w] = job[w] /\ Provisions(w) /\ Backfills(w)
    BY <1>3 DEF WalletsInv
  <2>2. pc[w] \in {"held", "user", "retype"} => <<job[w].person, own>> \in overlapped
    BY DEF WalletsInv, Met, OnPeople
  <2>3. pc[w] \in {"held", "user", "retype"} =>
            \A c \in Coins : Covered(job[w].person, c)' => Covered(job[w].person, c)
    BY <1>1, <2>1, <2>2 DEF Covered
  <2>4. \A p, c : Backed(p, c)' => Backed(p, c)
    BY <1>1 DEF Backed
  <2> QED
    BY <1>1, <2>1, <2>3, <2>4, StillProvisions, StillBackfills
<1> QED
  BY <1>2, <1>4, <1>5 DEF WalletsInv

\* The helper's commit brings the row without the wallets, and is noted.
LEMMA InflowKeeps ==
    ASSUME Threads, WalletsInv, NEW s \in Sessions, Inflow(s)
    PROVE  WalletsInv'
<1> DEFINE j == job[s]
<1> PICK own : own = j.coin
  OBVIOUS
<1>1. PICK row : /\ pc[s] = "inflow" /\ Work(s, "system", [j EXCEPT !.row = row])
                 /\ UNCHANGED userVars /\ wallets' = wallets /\ overlapped' = overlapped
                 /\ \/ UNCHANGED <<coins, unspread, partial>>
                    \/ /\ coins' = Active(j) /\ unspread' = Unspread(j)
                       /\ partial' = IF j.spread THEN partial \cup {j.coin} ELSE partial
  BY DEF Inflow
<1>2. pc'[s] = "system" /\ job'[s] = [j EXCEPT !.row = row] /\ Only(s)
  BY <1>1, Working
<1>3. CoinJob(j) /\ s \in OnCoins /\ s \notin OnPeople'
  BY <1>1, <1>2 DEF WalletsInv, Backfills, SpreadLabels, OnCoins, OnPeople
<1>4. job'[s] = [coin |-> j.coin, spread |-> j.spread, accounts |-> j.accounts, row |-> row]
  BY <1>2, <1>3 DEF CoinJob
<1>5. Provisions(s)' /\ Backfills(s)' /\ job'[s].coin = j.coin
  BY <1>2, <1>4 DEF Provisions, Backfills, CoinJob
<1>6. typeOf' = typeOf /\ updated' = updated
  BY <1>1 DEF userVars
<1>7. CASE UNCHANGED <<coins, unspread, partial>>
  <2>1. \A w \in OnPeople \ {s} : pc[w] # "update" => <<job[w].person, job'[s].coin>> \in overlapped'
    BY <1>1, <1>3, <1>5 DEF WalletsInv, Met
  <2> QED
    BY <1>1, <1>2, <1>3, <1>5, <1>6, <1>7, <2>1, WalletsMoves
<1>8. CASE /\ coins' = Active(j) /\ unspread' = Unspread(j)
           /\ partial' = IF j.spread THEN partial \cup {j.coin} ELSE partial
  <2>1. \A c \in Coins : c # own =>
            /\ coins'[c] = coins[c]
            /\ c \in unspread' <=> c \in unspread
            /\ c \in partial' <=> c \in partial
    BY <1>8 DEF WalletsInv, Active, Unspread
  <2>2. /\ coins' \in [Coins -> {"absent", "active", "disabled"}]
        /\ \A c \in Coins : coins'[c] = "disabled" => c \in unspread'
    BY <1>8, <2>1 DEF WalletsInv, Active
  <2>3. own \in unspread' \cup partial'
    BY <1>8 DEF Unspread
  <2>4. \A p \in People : ~Covered(p, own)'
    BY <2>3 DEF Covered
  <2> QED
    BY <1>1, <1>2, <1>3, <1>5, <1>6, <2>1, <2>2, <2>4, CoinWritten
<1> QED
  BY <1>1, <1>7, <1>8

LEMMA CommitCoinKeeps ==
    ASSUME Threads, WalletsInv, NEW s \in Sessions, CommitCoin(s)
    PROVE  WalletsInv'
<1> DEFINE j == job[s]
           refused == j.row = "expired" \/ j.accounts \cap wallets # {}
           anew == ~refused /\ j.row = "staged"
<1>1. /\ pc[s] = "coin" /\ End(s) /\ UNCHANGED userVars /\ overlapped' = overlapped
      /\ coins' = (IF anew THEN Active(j) ELSE coins)
      /\ unspread' = (IF anew THEN Unspread(j) ELSE unspread)
      /\ wallets' = (IF refused THEN wallets ELSE wallets \cup j.accounts)
      /\ partial' = (IF ~refused /\ j.spread THEN partial \ {j.coin} ELSE partial)
  BY DEF CommitCoin
<1> HIDE DEF refused
<1> PICK own : own = j.coin
  OBVIOUS
<1>2. pc'[s] = "idle" /\ Only(s) /\ s \in OnCoins /\ s \notin OnPeople' /\ s \notin OnCoins'
  BY <1>1, Working DEF End, OnCoins, OnPeople
<1>3. typeOf' = typeOf /\ updated' = updated
  BY <1>1 DEF userVars
<1>4. CASE refused
  <2>1. Keeps(PeopleLabels \cup SpreadLabels)
    BY <1>2 DEF Keeps, Only, PeopleLabels, SpreadLabels
  <2> QED
    BY <1>1, <1>3, <1>4, <2>1, WalletsElsewhere DEF walletRows
<1>5. CASE ~refused
  <2>1. \A c \in Coins : c # own =>
            /\ coins'[c] = coins[c]
            /\ c \in unspread' <=> c \in unspread
            /\ c \in partial' <=> c \in partial
    BY <1>1, <1>5 DEF WalletsInv, Active, Unspread
  <2>2. /\ coins' \in [Coins -> {"absent", "active", "disabled"}]
        /\ \A c \in Coins : coins'[c] = "disabled" => c \in unspread'
    <3>1. CASE anew
      BY <1>1, <2>1, <3>1 DEF WalletsInv, Active
    <3>2. CASE ~anew
      BY <1>1, <3>2 DEF WalletsInv
    <3> QED
      BY <3>1, <3>2
  <2>3. ASSUME NEW p \in People, own \in Coins, typeOf[p] # None, Covered(p, own)'
        PROVE  /\ <<p, "main", own>> \in wallets'
               /\ Commissions /\ Eligible(typeOf[p]) /\ p \notin updated =>
                      <<p, "commission", own>> \in wallets'
    <3>1. CASE j.spread
      <4>1. Backed(p, own)
        BY <1>1, <2>3 DEF Covered, Backed
      <4> QED
        BY <1>1, <1>5, <3>1, <4>1 DEF WalletsInv, Backfills
    <3>2. CASE ~j.spread
      <4>1. ~anew /\ partial' = partial
        BY <1>1, <2>3, <3>2 DEF Covered, Unspread
      <4>2. Covered(p, own)
        BY <1>1, <2>3, <4>1 DEF Covered
      <4>3. /\ <<p, "main", own>> \in wallets
            /\ Commissions /\ Eligible(typeOf[p]) /\ p \notin updated => <<p, "commission", own>> \in wallets
        BY <2>3, <4>2 DEF WalletsInv, WalletsComplete, Covered
      <4> QED
        BY <1>1, <1>5, <4>3
    <3> QED
      BY <3>1, <3>2
  <2>4. Provisions(s)' /\ Backfills(s)'
    BY <1>2 DEF Provisions, Backfills, SpreadLabels
  <2>5. wallets \subseteq wallets'
    BY <1>1
  <2> HIDE DEF anew
  <2> QED
    BY <1>1, <1>2, <1>3, <2>1, <2>2, <2>3, <2>4, <2>5, CoinWritten
<1> QED
  BY <1>4, <1>5

LEMMA WalletsStep == Threads /\ SupervisorsInv /\ WalletsInv /\ [Next]_vars => WalletsInv'
<1> SUFFICES ASSUME Threads, SupervisorsInv, WalletsInv, [Next]_vars
             PROVE  WalletsInv'
  OBVIOUS
<1>1. ASSUME UNCHANGED <<userVars, walletVars>>, Keeps(CatalogueLabels)
      PROVE  WalletsInv'
  BY <1>1, WalletsElsewhere DEF Keeps, PeopleLabels, SpreadLabels, CatalogueLabels, walletRows, userVars,
                                walletVars
<1>2. ASSUME NEW s \in Sessions, EditType(s) \/ ReadChildren(s) \/ ReadParent(s) \/ WriteType(s)
      PROVE  WalletsInv'
  <2>1. (PeopleLabels \cup SpreadLabels) \cap ({"idle"} \cup TreeLabels) = {}
    BY DEF TreeLabels, PeopleLabels, SpreadLabels
  <2>2. Keeps(PeopleLabels \cup SpreadLabels)
    BY <1>2, <2>1, TreeWalks, OthersKeep
  <2>3. UNCHANGED walletRows
    BY <1>2 DEF EditType, ReadChildren, ReadParent, WriteType, catalogueVars, userVars, walletVars, walletRows
  <2> QED
    BY <2>2, <2>3, WalletsElsewhere
<1>3. CASE CatalogueNext
  BY <1>2, <1>3, WalletsNamed, WalletsUpdate, WalletsReads, WalletsOfPeople, WalletsUpdated, WalletsSpread,
     InflowKeeps, CommitCoinKeeps, CreateAccountKeeps, EditCoinKeeps DEF CatalogueNext
<1>4. CASE AccessNext /\ UNCHANGED catalogueVars
  BY <1>1, <1>4, AccessKeeps DEF Keeps, catalogueVars
<1>5. CASE ServicesNext
  <2>1. ASSUME NEW s \in Sessions,
               \/ CreateVariant(s) \/ UpdateService(s) \/ DeleteVariant(s) \/ SetPermission(s)
               \/ RemovePermission(s) \/ SaveTenant(s) \/ CreateRole(s) \/ UpdateRole(s) \/ AssignRole(s)
               \/ RemoveRole(s)
        PROVE  UNCHANGED <<userVars, walletVars>>
    BY <2>1 DEF CreateVariant, UpdateService, DeleteVariant, SetPermission, RemovePermission, SaveTenant,
                CreateRole, UpdateRole, AssignRole, RemoveRole, catalogueVars
  <2>2. UNCHANGED <<userVars, walletVars>> \/ \E s \in Sessions : CommitCatalog(s)
    BY <1>5, <2>1 DEF ServicesNext
  <2> QED
    BY <1>1, <1>5, <2>2, CommitCatalogKeeps, ServicesKeep DEF Keeps
<1>6. CASE SchedulesNext
  BY <1>1, <1>6, SchedulesRead, SchedulesKeep DEF Keeps, catalogueVars
<1>7. CASE FlowsNext(status = "active")
  <2>1. UNCHANGED catalogueVars
    BY <1>7, FlowsRead
  <2>2. Keeps(CatalogueLabels)
    BY <1>7, FlowsKeep DEF Keeps
  <2> QED
    BY <1>1, <2>1, <2>2 DEF catalogueVars
<1>8. CASE UNCHANGED vars
  BY <1>1, <1>8 DEF vars, catalogueVars, Keeps
<1> QED
  BY <1>3, <1>4, <1>5, <1>6, <1>7, <1>8 DEF Next

\* A user who can be paid in a currency has the wallets for it, whichever way
\* the user, the type and the instrument came about and however their requests
\* interleave or die (accounts/provisioning.py:85, instruments/service.py:245),
\* but for the instruments whose row a helper has committed ahead of the
\* backfill (payments/service.py:491), until one is backfilled.
THEOREM WalletsHold == Spec => []WalletsComplete
<1>1. Init => Threads /\ TreeInv /\ SupervisorsInv /\ WalletsInv
  BY ThreadsInit, TreeInit, SupervisorsInit, WalletsInit
<1>2. Threads /\ TreeInv /\ SupervisorsInv /\ WalletsInv /\ [Next]_vars =>
          (Threads /\ TreeInv /\ SupervisorsInv /\ WalletsInv)'
  BY ThreadsStep, HierarchyStep, WalletsStep
<1>3. WalletsInv => WalletsComplete
  BY DEF WalletsInv
<1> QED
  BY <1>1, <1>2, <1>3, PTL DEF Spec

-----------------------------------------------------------------------------
(* Registration                                                            *)

OwnRegistration == RegistrationLabels \ {"idle"}

\* The user row apart, only registration's own actions write its variables.
registrationRest ==
    <<quota, verified, burst, crowded, otp, tokens, referral, paid, minted, firstPins, raced, rivals>>

LEMMA KeepsLess ==
    ASSUME NEW labels, NEW fewer \in SUBSET labels, Keeps(labels)
    PROVE  Keeps(fewer)
BY DEF Keeps

LEMMA GateLeaves ==
    ASSUME Threads, AccessNext, ~RegistrationNext
    PROVE  Keeps(OwnRegistration) /\ UNCHANGED registrationRest /\ user' \in {user, "ready"}
<1>1. OwnRegistration \cap GateLabels = {} /\ "idle" \notin OwnRegistration
  BY DEF OwnRegistration, RegistrationLabels, GateLabels
<1>2. ASSUME NEW s \in Sessions, GateStep(s)
      PROVE  Keeps(OwnRegistration)
  BY <1>1, <1>2, GateWalks, OthersKeep
<1>3. ASSUME NEW s \in Sessions, Crash(s)
      PROVE  Keeps(OwnRegistration) /\ UNCHANGED registrationVars
  <2>1. Dies(s)
    BY <1>3, Working DEF Crash, End, Dies
  <2> QED
    BY <1>1, <1>3, <2>1 DEF Dies, Only, Keeps, Crash
<1>4. ASSUME NEW s \in Sessions, CommitLevel(s)
      PROVE  Keeps(OwnRegistration) /\ UNCHANGED registrationVars
  <2>1. /\ pc' = [pc EXCEPT ![s] = "idle"]
        /\ \A t \in Sessions \ {s} : t \notin LoggingIn => job'[t] = job[t]
        /\ UNCHANGED registrationVars
    BY <1>4 DEF CommitLevel, Goto
  <2>2. \A t \in LoggingIn : pc[t] \notin OwnRegistration
    BY DEF LoggingIn, OwnRegistration, RegistrationLabels
  <2> QED
    BY <1>1, <2>1, <2>2 DEF Keeps, Threads
<1>5. CASE Tick \/ CounterExpires \/ LockoutLapses
  BY <1>5 DEF Tick, CounterExpires, LockoutLapses, registrationVars, phoneVars, registrationRest, Keeps
<1>6. ASSUME NEW s \in Sessions,
             \/ Login(s) \/ StepUp(s) \/ ChangePin(s) \/ Gate(s) \/ Compare(s) \/ Count(s) \/ Lock(s)
             \/ Drop(s) \/ Reset(s) \/ Issue(s) \/ Index(s) \/ UseSession(s) \/ SlideIndex(s)
      PROVE  UNCHANGED registrationVars
  BY <1>6 DEF Login, StepUp, ChangePin, Gate, Compare, Count, Lock, Drop, Reset, Issue, Index, UseSession,
              SlideIndex
<1>7. ASSUME NEW s \in Sessions,
             \/ Logout(s) \/ Unlist(s) \/ ChargeConflict(s) \/ StageChange(s) \/ AccountLost(s)
             \/ ChargeReused(s) \/ ChargePosted(s) \/ ChargeRefused(s) \/ SetLevel(s) \/ Members(s)
             \/ Kill(s) \/ Unindex(s) \/ ClearLockout(s) \/ ClearCounter(s)
      PROVE  UNCHANGED registrationVars
  BY <1>7 DEF Logout, Unlist, ChargeConflict, StageChange, AccountLost, ChargeReused, ChargePosted,
              ChargeRefused, SetLevel, Members, Kill, Unindex, ClearLockout, ClearCounter
<1>8. ASSUME NEW s \in Sessions, CommitPin(s)
      PROVE  UNCHANGED registrationRest /\ user' = "ready"
  BY <1>8 DEF CommitPin, registrationRest, phoneVars
<1>9. UNCHANGED registrationVars => UNCHANGED registrationRest /\ user' = user
  BY DEF registrationVars, registrationRest, phoneVars
<1> QED
  BY <1>2, <1>3, <1>4, <1>5, <1>6, <1>7, <1>8, <1>9 DEF AccessNext, GateStep

LEMMA RegistrationElsewhere ==
    ASSUME Threads, [Next]_vars, ~RegistrationNext
    PROVE  Keeps(OwnRegistration) /\ UNCHANGED registrationRest /\ user' \in {user, "ready"}
<1>1. OwnRegistration \subseteq OwnAccess
  BY DEF OwnRegistration, RegistrationLabels, OwnAccess, AccessLabels
<1>2. UNCHANGED accountVars => UNCHANGED registrationRest /\ user' = user
  BY DEF accountVars, registrationVars, registrationRest, phoneVars
<1>3. CASE AccessNext
  BY <1>3, GateLeaves
<1>4. CASE CatalogueNext /\ UNCHANGED accountVars
  <2>1. OwnRegistration \subseteq OwnAccess \cup {"catalog"} \cup SchedulesLabels \cup {"pay"}
    BY <1>1
  <2> QED
    BY <1>2, <1>4, <2>1, CatalogueKeeps, KeepsLess
<1>5. CASE ServicesNext /\ UNCHANGED accountVars
  <2>1. OwnRegistration \subseteq OwnAccess \cup CatalogueLabels \cup SchedulesLabels \cup {"pay"}
    BY <1>1
  <2> QED
    BY <1>2, <1>5, <2>1, ServicesKeep, KeepsLess
<1>6. CASE SchedulesNext /\ UNCHANGED accountVars
  <2>1. OwnRegistration \subseteq OwnAccess \cup CatalogueLabels \cup {"catalog", "pay"}
    BY <1>1
  <2> QED
    BY <1>2, <1>6, <2>1, SchedulesKeep, KeepsLess
<1>7. CASE FlowsNext(status = "active") /\ UNCHANGED accountVars
  <2>1. OwnRegistration \subseteq OwnAccess \cup CatalogueLabels \cup SchedulesLabels \cup {"catalog"}
    BY <1>1
  <2> QED
    BY <1>2, <1>7, <2>1, FlowsKeep, KeepsLess
<1>8. CASE UNCHANGED vars
  BY <1>2, <1>8 DEF vars, Keeps
<1> QED
  BY <1>3, <1>4, <1>5, <1>6, <1>7, <1>8 DEF Next

\* Until two requests have been at the quota at once, whoever goes on to spend
\* it found both windows open, alone.
QuotaInv ==
    /\ quota \in [minute: BOOLEAN, hour: Nat] /\ burst \in Nat
    /\ ~crowded =>
          /\ burst <= 1 /\ quota.hour <= LONG_WINDOW_MAX
          /\ ~quota.minute => burst = 0
          /\ \A s \in Sessions : pc[s] = "spend" => ~quota.minute /\ quota.hour < LONG_WINDOW_MAX
          /\ \A s, t \in Sessions : pc[s] = "spend" /\ pc[t] = "spend" => s = t

quotaVars == <<quota, burst, crowded>>

LEMMA QuotaUntouched ==
    ASSUME QuotaInv, Keeps({"spend"}), UNCHANGED quotaVars
    PROVE  QuotaInv'
BY DEF QuotaInv, Keeps, quotaVars

LEMMA ReadQuotaKeeps ==
    ASSUME Threads, QuotaInv, NEW s \in Sessions, ReadQuota(s)
    PROVE  QuotaInv'
<1>1. CASE quota.minute \/ quota.hour >= LONG_WINDOW_MAX
  <2>1. pc'[s] = "idle" /\ Only(s) /\ UNCHANGED quotaVars
    BY <1>1, Working DEF ReadQuota, End, quotaVars
  <2>2. Keeps({"spend"})
    BY <2>1 DEF Only, Keeps
  <2> QED
    BY <2>1, <2>2, QuotaUntouched
<1>2. CASE ~(quota.minute \/ quota.hour >= LONG_WINDOW_MAX)
  <2>1. /\ pc'[s] = "spend" /\ Only(s) /\ UNCHANGED <<quota, burst>>
        /\ crowded' = (crowded \/ Others(s, "spend") # {})
    BY <1>2, Going DEF ReadQuota
  <2>2. quota.hour < LONG_WINDOW_MAX /\ ~quota.minute
    BY <1>2, RegistrationAssumption DEF QuotaInv
  <2>3. ASSUME ~crowded'
        PROVE  ~crowded /\ \A t \in Sessions \ {s} : pc[t] # "spend"
    BY <2>1, <2>3 DEF Others
  <2> QED
    BY <2>1, <2>2, <2>3 DEF QuotaInv, Only
<1> QED
  BY <1>1, <1>2

LEMMA SpendQuotaKeeps ==
    ASSUME Threads, QuotaInv, NEW s \in Sessions, SpendQuota(s)
    PROVE  QuotaInv'
<1>1. /\ pc[s] = "spend" /\ pc'[s] # "spend" /\ Only(s)
      /\ quota' = [minute |-> TRUE, hour |-> quota.hour + 1] /\ burst' = burst + 1 /\ crowded' = crowded
  BY Working DEF SpendQuota
<1> QED
  BY <1>1, RegistrationAssumption DEF QuotaInv, Only

LEMMA WindowsKeep ==
    ASSUME Threads, QuotaInv, MinutePasses \/ HourPasses
    PROVE  QuotaInv'
<1>1. Keeps({"spend"})
  BY RegistrationStays DEF Stay, Keeps
<1>2. CASE MinutePasses
  <2>1. /\ quota' = [minute |-> FALSE, hour |-> quota.hour] /\ burst' = 0 /\ UNCHANGED crowded
        /\ quota.minute
    BY <1>2 DEF MinutePasses, QuotaInv
  <2> QED
    BY <1>1, <2>1, RegistrationAssumption DEF QuotaInv, Keeps
<1>3. CASE HourPasses
  <2>1. /\ quota' = [minute |-> quota.minute, hour |-> 0] /\ UNCHANGED <<burst, crowded>>
        /\ quota.hour > 0
    BY <1>3 DEF HourPasses, QuotaInv
  <2> QED
    BY <1>1, <2>1, RegistrationAssumption DEF QuotaInv, Keeps
<1> QED
  BY <1>2, <1>3

LEMMA QuotaStep == Threads /\ QuotaInv /\ [Next]_vars => QuotaInv'
<1> SUFFICES ASSUME Threads, QuotaInv, [Next]_vars
             PROVE  QuotaInv'
  OBVIOUS
<1>1. CASE ~RegistrationNext
  <2>1. {"spend"} \subseteq OwnRegistration /\ (UNCHANGED registrationRest => UNCHANGED quotaVars)
    BY DEF OwnRegistration, RegistrationLabels, registrationRest, quotaVars
  <2> QED
    BY <1>1, <2>1, RegistrationElsewhere, KeepsLess, QuotaUntouched
<1>2. ASSUME NEW s \in Sessions, FindPhone(s) \/ Register(s) \/ SendOtp(s) \/ ReadOtp(s) \/ UseOtp(s) \/ MintToken(s)
      PROVE  QuotaInv'
  <2>1. UNCHANGED quotaVars
    BY <1>2 DEF FindPhone, Register, SendOtp, ReadOtp, UseOtp, MintToken, registrationVars, phoneVars, quotaVars
  <2>2. /\ {"spend"} \cap {"idle", "quota"} = {} /\ {"spend"} \cap {"register", "send", "idle"} = {}
        /\ {"spend"} \cap {"idle", "use", "mint"} = {}
    OBVIOUS
  <2> QED
    BY <1>2, <2>1, <2>2, PhoneWalks, OtpWalks, OthersKeep, QuotaUntouched
<1>3. ASSUME NEW s \in Sessions, TakeToken(s) \/ ReadPin(s) \/ WritePin(s) \/ ReadReferral(s)
      PROVE  QuotaInv'
  <2>1. UNCHANGED quotaVars
    BY <1>3 DEF TakeToken, ReadPin, WritePin, ReadReferral, registrationVars, phoneVars, quotaVars
  <2>2. /\ {"spend"} \cap {"idle", "read"} = {} /\ {"spend"} \cap {"read", "idle", "write"} = {}
        /\ {"spend"} \cap {"write", "refer"} = {} /\ {"spend"} \cap {"refer", "idle", "rules"} = {}
    OBVIOUS
  <2> QED
    BY <1>3, <2>1, <2>2, PinWalks, OthersKeep, QuotaUntouched
<1>4. ASSUME NEW s \in Sessions,
             \/ FireRule(s) \/ PayReferrer(s) \/ PayReferee(s) \/ StageRewarded(s) \/ FinishReferral(s)
             \/ PayFails(s)
      PROVE  QuotaInv'
  <2>1. UNCHANGED quotaVars
    BY <1>4 DEF FireRule, PayReferrer, PayReferee, StageRewarded, FinishReferral, PayFails, PaySide,
                registrationVars, phoneVars, quotaVars
  <2>2. {"spend"} \cap ({"idle"} \cup PayLabels) = {}
    BY DEF PayLabels
  <2> QED
    BY <1>4, <2>1, <2>2, PayWalks, OthersKeep, QuotaUntouched
<1>5. CASE \E o \in Otps : OtpExpires(o) \/ TokenExpires(o)
  BY <1>5, QuotaUntouched DEF OtpExpires, TokenExpires, phoneVars, quotaVars, Keeps
<1>6. CASE RegistrationNext
  BY <1>2, <1>3, <1>4, <1>5, <1>6, ReadQuotaKeeps, SpendQuotaKeeps, WindowsKeep DEF RegistrationNext
<1> QED
  BY <1>1, <1>6

-----------------------------------------------------------------------------
(* One-time passwords and the tokens they buy                              *)

Verifying(s) == pc[s] \in {"use", "mint"}

OtpTypes ==
    /\ otp \in [Otps -> OtpRequest] /\ tokens \in [Otps -> Nat] /\ minted \in [Otps -> Nat]
    /\ firstPins \in Nat
    /\ \A s \in Sessions : Verifying(s) => job[s].otp \in Otps

\* Whatever leads to a first PIN begins with a verified phone.
VerifiedFirst ==
    /\ firstPins > 0 => verified
    /\ \A o \in Otps : tokens[o] > 0 => verified
    /\ \A s \in Sessions : pc[s] \in {"mint", "read", "write"} => verified

\* A password that can still be used has bought nothing, and nobody is past
\* its use.
Unspent ==
    \A o \in Otps : otp[o] \in {"unsent", "live"} =>
        minted[o] = 0 /\ \A s \in Sessions : pc[s] = "mint" => job[s].otp # o

\* A password no two requests verified at once has one request at it at most,
\* and nothing minted while it has.
Bought ==
    /\ OneTokenPerOtp
    /\ \A s \in Sessions : Verifying(s) /\ job[s].otp \notin raced => minted[job[s].otp] = 0
    /\ \A s, t \in Sessions :
          Verifying(s) /\ Verifying(t) /\ job[s].otp = job[t].otp /\ job[s].otp \notin raced => s = t

OtpInv == OtpTypes /\ VerifiedFirst /\ Unspent /\ Bought

otpVars == <<otp, tokens, minted, firstPins, verified, raced>>

LEMMA OtpUntouched ==
    ASSUME OtpInv, Keeps({"use", "mint", "read", "write"}), UNCHANGED otpVars
    PROVE  OtpInv'
<1>1. \A t \in Sessions : pc'[t] \in {"use", "mint", "read", "write"} => pc'[t] = pc[t] /\ job'[t] = job[t]
  BY DEF Keeps
<1>2. OtpTypes'
  BY <1>1 DEF OtpInv, OtpTypes, Verifying, otpVars
<1>3. VerifiedFirst'
  BY <1>1 DEF OtpInv, VerifiedFirst, otpVars
<1>4. Unspent'
  BY <1>1 DEF OtpInv, Unspent, otpVars
<1>5. Bought'
  BY <1>1 DEF OtpInv, Bought, OneTokenPerOtp, Verifying, otpVars
<1> QED
  BY <1>2, <1>3, <1>4, <1>5 DEF OtpInv

LEMMA SendOtpKeeps ==
    ASSUME Threads, OtpInv, NEW s \in Sessions, SendOtp(s)
    PROVE  OtpInv'
<1>1. PICK o \in Otps : otp[o] = "unsent" /\ otp' = [otp EXCEPT ![o] = "live"]
  BY DEF SendOtp
<1>2. /\ UNCHANGED <<tokens, minted, firstPins, verified, raced>>
      /\ \A t \in Sessions : pc'[t] \in {"use", "mint", "read", "write"} => pc'[t] = pc[t] /\ job'[t] = job[t]
  BY Working DEF SendOtp, End, phoneVars, Only
<1>3. OtpTypes'
  BY <1>1, <1>2 DEF OtpInv, OtpTypes, OtpRequest, Verifying
<1>4. VerifiedFirst'
  BY <1>2 DEF OtpInv, VerifiedFirst
<1>5. Unspent'
  BY <1>1, <1>2 DEF OtpInv, OtpTypes, Unspent
<1>6. Bought'
  BY <1>2 DEF OtpInv, Bought, OneTokenPerOtp, Verifying
<1> QED
  BY <1>3, <1>4, <1>5, <1>6 DEF OtpInv

LEMMA ReadOtpKeeps ==
    ASSUME Threads, OtpInv, NEW s \in Sessions, ReadOtp(s)
    PROVE  OtpInv'
<1>1. PICK o \in Otps :
          /\ otp[o] = "live" /\ Work(s, "use", [otp |-> o])
          /\ raced' = IF \E t \in Others(s, "use") : job[t].otp = o THEN raced \cup {o} ELSE raced
  BY DEF ReadOtp
<1>2. /\ UNCHANGED <<otp, tokens, minted, firstPins, verified>>
      /\ pc'[s] = "use" /\ job'[s].otp = o /\ Only(s)
  BY <1>1, Working DEF ReadOtp, phoneVars
<1>3. OtpTypes'
  BY <1>2 DEF OtpInv, OtpTypes, Verifying, Only
<1>4. VerifiedFirst'
  BY <1>2 DEF OtpInv, VerifiedFirst, Only
<1>5. Unspent'
  BY <1>2 DEF OtpInv, Unspent, Only
<1>6. Bought'
  <2>1. raced \subseteq raced' /\ minted[o] = 0
    BY <1>1 DEF OtpInv, Unspent
  <2>2. \A t \in Sessions \ {s} : Verifying(t)' /\ job'[t].otp = o => o \in raced'
    <3>1. ASSUME NEW t \in Sessions \ {s}, Verifying(t)', job'[t].otp = o
          PROVE  t \in Others(s, "use") /\ job[t].otp = o
      BY <1>1, <1>2, <3>1 DEF Only, Verifying, Others, OtpInv, Unspent
    <3> QED
      BY <1>1, <3>1
  <2>3. \A t \in Sessions \ {s} : Verifying(t)' => Verifying(t) /\ job'[t] = job[t]
    BY <1>2 DEF Verifying, Only
  <2> QED
    BY <1>2, <2>1, <2>2, <2>3 DEF OtpInv, Bought, OneTokenPerOtp
<1> QED
  BY <1>3, <1>4, <1>5, <1>6 DEF OtpInv

LEMMA UseOtpKeeps ==
    ASSUME Threads, OtpInv, NEW s \in Sessions, UseOtp(s)
    PROVE  OtpInv'
<1> DEFINE o == job[s].otp
<1>1. /\ pc[s] = "use" /\ pc'[s] = "mint" /\ job' = job /\ Only(s)
      /\ otp' = [otp EXCEPT ![o] = "used"] /\ verified' = TRUE
      /\ UNCHANGED <<tokens, minted, firstPins, raced>>
  BY Going DEF UseOtp
<1>2. o \in Otps
  BY <1>1 DEF OtpInv, OtpTypes, Verifying
<1>3. OtpTypes'
  BY <1>1, <1>2 DEF OtpInv, OtpTypes, OtpRequest, Verifying, Only
<1>4. VerifiedFirst'
  BY <1>1 DEF OtpInv, VerifiedFirst
<1>5. Unspent'
  BY <1>1, <1>2 DEF OtpInv, OtpTypes, Unspent, Only
<1>6. Bought'
  <2>1. \A t \in Sessions : Verifying(t)' <=> Verifying(t)
    BY <1>1 DEF Verifying, Only
  <2> QED
    BY <1>1, <2>1 DEF OtpInv, Bought, OneTokenPerOtp
<1> QED
  BY <1>3, <1>4, <1>5, <1>6 DEF OtpInv

LEMMA MintTokenKeeps ==
    ASSUME Threads, OtpInv, NEW s \in Sessions, MintToken(s)
    PROVE  OtpInv'
<1> DEFINE o == job[s].otp
<1>1. /\ pc[s] = "mint" /\ pc'[s] = "idle" /\ Only(s)
      /\ tokens' = [tokens EXCEPT ![o] = tokens[o] + 1]
      /\ minted' = [minted EXCEPT ![o] = minted[o] + 1]
      /\ UNCHANGED <<otp, firstPins, verified, raced>>
  BY Working DEF MintToken, End, phoneVars
<1>2. o \in Otps /\ tokens[o] \in Nat /\ minted[o] \in Nat
  BY <1>1 DEF OtpInv, OtpTypes, Verifying
<1>3. OtpTypes'
  BY <1>1, <1>2 DEF OtpInv, OtpTypes, Verifying, Only
<1>4. VerifiedFirst'
  BY <1>1, <1>2 DEF OtpInv, OtpTypes, VerifiedFirst, Only
<1>5. Unspent'
  BY <1>1, <1>2 DEF OtpInv, OtpTypes, Unspent, Only
<1>6. Bought'
  <2>1. \A t \in Sessions : Verifying(t)' => t # s /\ Verifying(t) /\ job'[t] = job[t]
    BY <1>1 DEF Verifying, Only
  <2>2. o \notin raced => minted[o] = 0
    BY <1>1 DEF OtpInv, Bought, Verifying
  <2>3. \A q \in Otps \ {o} : minted'[q] = minted[q]
    BY <1>1 DEF OtpInv, OtpTypes
  <2>4. o \notin raced => minted'[o] = 1
    BY <1>1, <1>2, <2>2 DEF OtpInv, OtpTypes
  <2>5. OneTokenPerOtp'
    BY <1>1, <2>3, <2>4 DEF OtpInv, Bought, OneTokenPerOtp
  <2>6. \A t \in Sessions : Verifying(t)' /\ job'[t].otp = o => o \in raced
    BY <1>1, <2>1 DEF OtpInv, Bought, Verifying
  <2>7. \A t \in Sessions : Verifying(t)' => job'[t].otp \in Otps
    BY <2>1 DEF OtpInv, OtpTypes
  <2> QED
    BY <1>1, <2>1, <2>3, <2>5, <2>6, <2>7 DEF OtpInv, Bought
<1> QED
  BY <1>3, <1>4, <1>5, <1>6 DEF OtpInv

\* A token leaves, to be used or not.
LEMMA TokenLeaves ==
    ASSUME OtpInv, NEW o \in Otps, tokens[o] > 0, tokens' = [tokens EXCEPT ![o] = tokens[o] - 1],
           UNCHANGED <<otp, minted, firstPins, verified, raced>>,
           \A t \in Sessions : pc'[t] \in {"use", "mint", "write"} => pc'[t] = pc[t] /\ job'[t] = job[t]
    PROVE  OtpInv'
<1>1. verified
  BY DEF OtpInv, VerifiedFirst
<1>2. OtpTypes'
  BY DEF OtpInv, OtpTypes, Verifying
<1>3. VerifiedFirst'
  BY <1>1 DEF VerifiedFirst
<1>4. Unspent'
  BY DEF OtpInv, Unspent
<1>5. Bought'
  BY DEF OtpInv, Bought, OneTokenPerOtp, Verifying
<1> QED
  BY <1>2, <1>3, <1>4, <1>5 DEF OtpInv

LEMMA PinReads ==
    ASSUME Threads, OtpInv, NEW s \in Sessions, ReadPin(s) \/ WritePin(s)
    PROVE  OtpInv'
<1>1. /\ pc[s] \in {"read", "write"} /\ Only(s)
      /\ pc'[s] \in {"write", "idle", "refer"}
      /\ UNCHANGED <<otp, tokens, minted, verified, raced>>
      /\ firstPins' \in {firstPins, firstPins + 1}
  <2>1. CASE ReadPin(s)
    BY <2>1, Working DEF ReadPin, End, phoneVars
  <2>2. CASE WritePin(s)
    BY <2>2, Working DEF WritePin, phoneVars
  <2> QED
    BY <2>1, <2>2
<1>2. verified
  BY <1>1 DEF OtpInv, VerifiedFirst
<1>3. \A t \in Sessions : Verifying(t)' => pc'[t] = pc[t] /\ job'[t] = job[t]
  BY <1>1 DEF Verifying, Only
<1>4. OtpTypes'
  BY <1>1, <1>3 DEF OtpInv, OtpTypes, Verifying
<1>5. VerifiedFirst'
  BY <1>1, <1>2 DEF VerifiedFirst
<1>6. Unspent'
  BY <1>1, <1>3 DEF OtpInv, Unspent, Verifying
<1>7. Bought'
  BY <1>1, <1>3 DEF OtpInv, Bought, OneTokenPerOtp, Verifying
<1> QED
  BY <1>4, <1>5, <1>6, <1>7 DEF OtpInv

LEMMA OtpExpiresKeeps ==
    ASSUME OtpInv, NEW o \in Otps, OtpExpires(o)
    PROVE  OtpInv'
<1>1. otp' = [otp EXCEPT ![o] = "expired"] /\ UNCHANGED <<pc, job, tokens, minted, firstPins, verified, raced>>
  BY DEF OtpExpires, phoneVars
<1>2. OtpTypes'
  BY <1>1 DEF OtpInv, OtpTypes, OtpRequest, Verifying
<1>3. VerifiedFirst'
  BY <1>1 DEF OtpInv, VerifiedFirst
<1>4. Unspent'
  BY <1>1 DEF OtpInv, OtpTypes, Unspent
<1>5. Bought'
  BY <1>1 DEF OtpInv, Bought, OneTokenPerOtp, Verifying
<1> QED
  BY <1>2, <1>3, <1>4, <1>5 DEF OtpInv

LEMMA OtpStep == Threads /\ OtpInv /\ [Next]_vars => OtpInv'
<1> SUFFICES ASSUME Threads, OtpInv, [Next]_vars
             PROVE  OtpInv'
  OBVIOUS
<1> DEFINE labels == {"use", "mint", "read", "write"}
<1>1. CASE ~RegistrationNext
  <2>1. labels \subseteq OwnRegistration /\ (UNCHANGED registrationRest => UNCHANGED otpVars)
    BY DEF OwnRegistration, RegistrationLabels, registrationRest, otpVars
  <2> QED
    BY <1>1, <2>1, RegistrationElsewhere, KeepsLess, OtpUntouched
<1>2. ASSUME NEW s \in Sessions, FindPhone(s) \/ ReadQuota(s) \/ SpendQuota(s) \/ Register(s)
      PROVE  OtpInv'
  <2>1. UNCHANGED otpVars
    BY <1>2 DEF FindPhone, ReadQuota, SpendQuota, Register, registrationVars, phoneVars, otpVars
  <2>2. /\ labels \cap {"idle", "quota"} = {} /\ labels \cap {"quota", "idle", "spend"} = {}
        /\ labels \cap {"spend", "send", "register"} = {} /\ labels \cap {"register", "send", "idle"} = {}
    OBVIOUS
  <2> QED
    BY <1>2, <2>1, <2>2, PhoneWalks, OthersKeep, OtpUntouched
<1>3. ASSUME NEW s \in Sessions, TakeToken(s)
      PROVE  OtpInv'
  <2>1. PICK o \in Otps : tokens[o] > 0 /\ tokens' = [tokens EXCEPT ![o] = tokens[o] - 1]
    BY <1>3 DEF TakeToken
  <2>2. UNCHANGED <<otp, minted, firstPins, verified, raced>> /\ pc'[s] = "read" /\ Only(s)
    BY <1>3, Working DEF TakeToken, phoneVars
  <2> QED
    BY <2>1, <2>2, TokenLeaves DEF Only
<1>4. ASSUME NEW o \in Otps, TokenExpires(o)
      PROVE  OtpInv'
  BY <1>4, TokenLeaves DEF TokenExpires, phoneVars
<1>5. ASSUME NEW s \in Sessions, ReadReferral(s)
      PROVE  OtpInv'
  <2>1. UNCHANGED otpVars
    BY <1>5 DEF ReadReferral, registrationVars, phoneVars, otpVars
  <2>2. labels \cap {"refer", "idle", "rules"} = {}
    OBVIOUS
  <2> QED
    BY <1>5, <2>1, <2>2, PinWalks, OthersKeep, OtpUntouched
<1>6. ASSUME NEW s \in Sessions,
             \/ FireRule(s) \/ PayReferrer(s) \/ PayReferee(s) \/ StageRewarded(s) \/ FinishReferral(s)
             \/ PayFails(s)
      PROVE  OtpInv'
  <2>1. UNCHANGED otpVars
    BY <1>6 DEF FireRule, PayReferrer, PayReferee, StageRewarded, FinishReferral, PayFails, PaySide,
                registrationVars, phoneVars, otpVars
  <2>2. labels \cap ({"idle"} \cup PayLabels) = {}
    BY DEF PayLabels
  <2> QED
    BY <1>6, <2>1, <2>2, PayWalks, OthersKeep, OtpUntouched
<1>7. CASE MinutePasses \/ HourPasses
  BY <1>7, OtpUntouched DEF MinutePasses, HourPasses, otpVars, Keeps
<1>8. CASE RegistrationNext
  BY <1>2, <1>3, <1>4, <1>5, <1>6, <1>7, <1>8, SendOtpKeeps, ReadOtpKeeps, UseOtpKeeps, MintTokenKeeps,
     PinReads, OtpExpiresKeeps
     DEF RegistrationNext
<1> QED
  BY <1>1, <1>8

-----------------------------------------------------------------------------
(* The first PIN and the referral it pays                                  *)

Setting(s) == pc[s] \in {"write", "refer"} \cup PayLabels

\* Each side is paid under one rule.
Distinct == \A w, v \in paid : w[2] = v[2] => w = v

\* Until two requests have been setting the first PIN at once, one request
\* sets it and pays the referral, and its copy of the row has every stamp.
PinInv ==
    /\ firstPins \in Nat
    /\ user # "ready" => firstPins = 0
    /\ ~rivals =>
          /\ firstPins <= 1
          /\ \A s, t \in Sessions : Setting(s) /\ Setting(t) => s = t
          /\ \A s \in Sessions : pc[s] = "write" => firstPins = 0
          /\ firstPins = 0 => paid = {} /\ \A s \in Sessions : Setting(s) => pc[s] = "write"
          /\ \A s \in Sessions : pc[s] = "refer" => paid = {}
          /\ \A s \in Sessions : pc[s] \in PayLabels => \A w \in paid : w[2] \in job[s].row.rewarded
          /\ Distinct

Stamped(row) ==
    /\ \A side \in row.rewarded : \E r \in Rules : <<r, side>> \in paid
    /\ row.status = "rewarded" => "referrer" \in row.rewarded

\* A session's copy of the referral, and how far it has come with it.
Claim(s) ==
    /\ job[s] = [row |-> job[s].row, todo |-> job[s].todo, rule |-> job[s].rule]
    /\ job[s].row \in Referral /\ job[s].todo \subseteq Rules /\ Stamped(job[s].row)
    /\ pc[s] # "rules" => job[s].rule \in Rules
    /\ pc[s] \in {"referee", "staged"} => "referrer" \in job[s].row.rewarded

ReferralInv ==
    /\ referral \in Referral /\ paid \subseteq Rules \X Sides
    /\ Stamped(referral)
    /\ \A s \in Sessions : pc[s] \in PayLabels => Claim(s)

FirstInv == PinInv /\ ReferralInv

firstVars == <<user, firstPins, rivals, paid, referral>>

LEMMA FirstUntouched ==
    ASSUME FirstInv, Keeps({"write", "refer"} \cup PayLabels),
           UNCHANGED <<firstPins, rivals, paid, referral>>, user' \in {user, "ready"}
    PROVE  FirstInv'
<1>1. \A t \in Sessions : Setting(t)' => Setting(t) /\ pc'[t] = pc[t] /\ job'[t] = job[t]
  BY DEF Keeps, Setting
<1>2. \A t \in Sessions : pc'[t] \in {"write", "refer"} \cup PayLabels => Setting(t)'
  BY DEF Setting
<1>3. PinInv'
  BY <1>1, <1>2 DEF FirstInv, PinInv, Distinct, Setting
<1>4. ReferralInv'
  BY <1>1, <1>2 DEF FirstInv, ReferralInv, Claim, Stamped
<1> QED
  BY <1>3, <1>4 DEF FirstInv

LEMMA RegisterKeeps ==
    ASSUME Threads, FirstInv, NEW s \in Sessions, Register(s)
    PROVE  FirstInv'
<1>1. Keeps({"write", "refer"} \cup PayLabels)
  <2>1. ({"write", "refer"} \cup PayLabels) \cap {"register", "send", "idle"} = {}
    BY DEF PayLabels
  <2> QED
    BY <2>1, PhoneWalks, OthersKeep
<1>2. CASE user = "absent"
  <2>1. user' = "new" /\ referral' = Referred(job[s].quoted) /\ UNCHANGED <<firstPins, rivals, paid>>
    BY <1>2 DEF Register
  <2>2. firstPins = 0
    BY <1>2 DEF FirstInv, PinInv
  <2>3. \A t \in Sessions : Setting(t)' => Setting(t) /\ pc'[t] = pc[t] /\ job'[t] = job[t]
    BY <1>1 DEF Keeps, Setting
  <2>4. \A t \in Sessions : pc'[t] \in {"write", "refer"} \cup PayLabels => Setting(t)'
    BY DEF Setting
  <2>5. PinInv'
    BY <2>1, <2>2, <2>3, <2>4 DEF FirstInv, PinInv, Distinct, Setting
  <2>6. referral' \in Referral /\ Stamped(referral)'
    BY <2>1 DEF Referred, NoStamp, Referral, Sides, Stamped
  <2>7. ReferralInv'
    BY <2>1, <2>3, <2>4, <2>6 DEF FirstInv, ReferralInv, Claim, Stamped
  <2> QED
    BY <2>5, <2>7 DEF FirstInv
<1>3. CASE user # "absent"
  BY <1>1, <1>3, FirstUntouched DEF Register, phoneVars
<1> QED
  BY <1>2, <1>3

LEMMA ReadPinKeeps ==
    ASSUME Threads, FirstInv, NEW s \in Sessions, ReadPin(s)
    PROVE  FirstInv'
<1>1. /\ pc[s] = "read" /\ Only(s) /\ UNCHANGED <<user, firstPins, paid, referral>>
      /\ rivals' = (rivals \/ (user = "new" /\ Others(s, "write") # {}))
      /\ pc'[s] = IF user = "new" THEN "write" ELSE "idle"
  BY Working DEF ReadPin, End
<1>2. \A t \in Sessions \ {s} : (Setting(t)' <=> Setting(t)) /\ pc'[t] = pc[t] /\ job'[t] = job[t]
  BY <1>1 DEF Only, Setting
<1>3. pc'[s] \notin {"refer"} \cup PayLabels
  BY <1>1 DEF PayLabels
<1>4. ReferralInv'
  BY <1>1, <1>2, <1>3 DEF FirstInv, ReferralInv, Claim, Stamped
<1>5. CASE user = "new"
  <2>1. firstPins = 0
    BY <1>5 DEF FirstInv, PinInv
  <2>2. ASSUME ~rivals'
        PROVE  ~rivals /\ \A t \in Sessions \ {s} : ~Setting(t)
    BY <1>1, <1>5, <2>1, <2>2 DEF FirstInv, PinInv, Others
  <2>3. PinInv'
    BY <1>1, <1>2, <1>3, <1>5, <2>1, <2>2 DEF FirstInv, PinInv, Distinct, Setting
  <2> QED
    BY <1>4, <2>3 DEF FirstInv
<1>6. CASE user # "new"
  <2>1. ~rivals' => ~rivals
    BY <1>1, <1>6
  <2>2. ~Setting(s)'
    BY <1>1, <1>6 DEF Setting, PayLabels
  <2>3. PinInv'
    BY <1>1, <1>2, <1>6, <2>1, <2>2 DEF FirstInv, PinInv, Distinct, Setting
  <2> QED
    BY <1>4, <2>3 DEF FirstInv
<1> QED
  BY <1>5, <1>6

LEMMA WritePinKeeps ==
    ASSUME Threads, FirstInv, NEW s \in Sessions, WritePin(s)
    PROVE  FirstInv'
<1>1. /\ pc[s] = "write" /\ pc'[s] = "refer" /\ Only(s)
      /\ user' = "ready" /\ firstPins' = firstPins + 1 /\ UNCHANGED <<rivals, paid, referral>>
  BY Working DEF WritePin
<1>2. \A t \in Sessions \ {s} : (Setting(t)' <=> Setting(t)) /\ pc'[t] = pc[t] /\ job'[t] = job[t]
  BY <1>1 DEF Only, Setting
<1>3. pc'[s] \notin PayLabels /\ Setting(s) /\ Setting(s)'
  BY <1>1 DEF PayLabels, Setting
<1>4. ReferralInv'
  BY <1>1, <1>2, <1>3 DEF FirstInv, ReferralInv, Claim, Stamped
<1>5. ~rivals => firstPins = 0 /\ paid = {} /\ \A t \in Sessions \ {s} : ~Setting(t)
  BY <1>1, <1>3 DEF FirstInv, PinInv
<1>6. \A t \in Sessions \ {s} : pc'[t] \in {"write", "refer"} \cup PayLabels => Setting(t)
  BY <1>2 DEF Setting
<1>7. PinInv'
  BY <1>1, <1>2, <1>3, <1>5, <1>6 DEF FirstInv, PinInv, Distinct
<1> QED
  BY <1>4, <1>7 DEF FirstInv

\* A step of the request that pays, to its next side or its end.
LEMMA ClaimMoves ==
    ASSUME FirstInv, NEW s \in Sessions, Only(s), pc[s] \in {"refer"} \cup PayLabels,
           pc'[s] \in {"idle"} \cup PayLabels,
           UNCHANGED <<user, firstPins, rivals>>, paid \subseteq paid', paid' \subseteq Rules \X Sides,
           referral' \in Referral, Stamped(referral)',
           pc'[s] \in PayLabels => Claim(s)',
           ~rivals => Distinct' /\ (pc'[s] \in PayLabels => \A w \in paid' : w[2] \in job'[s].row.rewarded)
    PROVE  FirstInv'
<1>1. \A t \in Sessions \ {s} : (Setting(t)' <=> Setting(t)) /\ pc'[t] = pc[t] /\ job'[t] = job[t]
  BY DEF Only, Setting
<1>2. Setting(s) /\ pc[s] # "write" /\ pc'[s] \notin {"write", "refer"}
  BY DEF Setting, PayLabels
<1>3. ReferralInv'
  <2>1. ASSUME NEW t \in Sessions \ {s}, pc'[t] \in PayLabels
        PROVE  Claim(t)'
    <3>1. Claim(t)
      BY <1>1, <2>1 DEF FirstInv, ReferralInv
    <3> QED
      BY <1>1, <3>1 DEF Claim, Stamped
  <2> QED
    BY <2>1 DEF ReferralInv
<1>4. ~rivals => firstPins # 0 /\ \A t \in Sessions \ {s} : ~Setting(t)
  BY <1>2 DEF FirstInv, PinInv
<1>5. \A t \in Sessions \ {s} : pc'[t] \in {"write", "refer"} \cup PayLabels => Setting(t)
  BY <1>1 DEF Setting
<1>6. PinInv'
  BY <1>1, <1>2, <1>4, <1>5 DEF FirstInv, PinInv
<1> QED
  BY <1>3, <1>6 DEF FirstInv

LEMMA ReadReferralKeeps ==
    ASSUME Threads, FirstInv, NEW s \in Sessions, ReadReferral(s)
    PROVE  FirstInv'
<1>1. /\ pc[s] = "refer" /\ Only(s) /\ UNCHANGED firstVars
      /\ \/ pc'[s] = "idle"
         \/ pc'[s] = "rules" /\ job'[s] = [row |-> referral, todo |-> Rules, rule |-> None]
  BY Working DEF ReadReferral, End, registrationVars, firstVars
<1>2. pc'[s] \in PayLabels => Claim(s)' /\ job'[s].row = referral
  BY <1>1 DEF Claim, FirstInv, ReferralInv, Stamped, firstVars, PayLabels
<1>3. ~rivals => paid = {} /\ paid' = {}
  BY <1>1 DEF FirstInv, PinInv, firstVars
<1>4. Stamped(referral)'
  BY <1>1 DEF FirstInv, ReferralInv, Stamped, firstVars
<1> QED
  BY <1>1, <1>2, <1>3, <1>4, ClaimMoves DEF firstVars, FirstInv, ReferralInv, Distinct, PayLabels

\* A step that pays nothing and stamps nothing.
LEMMA ClaimGoes ==
    ASSUME FirstInv, NEW s \in Sessions, Only(s), pc[s] \in PayLabels, pc'[s] \in {"idle"} \cup PayLabels,
           UNCHANGED <<user, firstPins, rivals, paid>>, referral' \in Referral, Stamped(referral)',
           pc'[s] \in PayLabels => Claim(s)' /\ job'[s].row.rewarded = job[s].row.rewarded
    PROVE  FirstInv'
<1>1. ~rivals => Distinct' /\ (pc'[s] \in PayLabels => \A w \in paid' : w[2] \in job'[s].row.rewarded)
  BY DEF FirstInv, PinInv, Distinct
<1> QED
  BY <1>1, ClaimMoves DEF FirstInv, ReferralInv

LEMMA FireRuleKeeps ==
    ASSUME Threads, FirstInv, NEW s \in Sessions, FireRule(s)
    PROVE  FirstInv'
<1> DEFINE j == job[s]
<1>1. PICK r \in j.todo : Work(s, "referrer", [j EXCEPT !.rule = r, !.todo = j.todo \ {r}])
  BY DEF FireRule
<1>2. pc[s] = "rules" /\ pc'[s] = "referrer" /\ Only(s) /\ UNCHANGED firstVars
  BY <1>1, Working DEF FireRule, registrationVars, firstVars
<1>3. Claim(s)
  BY <1>2 DEF FirstInv, ReferralInv, PayLabels
<1>4. job'[s] = [row |-> j.row, todo |-> j.todo \ {r}, rule |-> r]
  <2>1. job'[s] = [j EXCEPT !.rule = r, !.todo = j.todo \ {r}]
    BY <1>1, Working
  <2> QED
    BY <1>3, <2>1 DEF Claim
<1>5. Claim(s)'
  BY <1>2, <1>3, <1>4 DEF Claim, Stamped, firstVars
<1>6. Stamped(referral)'
  BY <1>2 DEF FirstInv, ReferralInv, Stamped, firstVars
<1> QED
  BY <1>2, <1>4, <1>5, <1>6, ClaimGoes DEF firstVars, FirstInv, ReferralInv, PayLabels

LEMMA SideSkipped ==
    ASSUME Threads, FirstInv, NEW s \in Sessions, NEW next \in {"referee", "staged"}, pc[s] \in PayLabels,
           pc[s] # "rules", "referrer" \in job[s].row.rewarded,
           Goto(s, next), UNCHANGED <<user, firstPins, rivals, paid, referral, job>>
    PROVE  FirstInv'
<1>1. pc'[s] = next /\ job'[s] = job[s] /\ Only(s)
  BY Going
<1>2. Claim(s)
  BY DEF FirstInv, ReferralInv
<1>3. Claim(s)'
  BY <1>1, <1>2 DEF Claim, Stamped
<1>4. Stamped(referral)'
  BY DEF FirstInv, ReferralInv, Stamped
<1> QED
  BY <1>1, <1>3, <1>4, ClaimGoes DEF FirstInv, ReferralInv, PayLabels

LEMMA SidePaid ==
    ASSUME Threads, FirstInv, NEW s \in Sessions, NEW side \in Sides, NEW next \in {"referee", "staged"},
           pc[s] \in PayLabels, pc[s] # "rules",
           "referrer" \in job[s].row.rewarded \cup {side},
           side \notin job[s].row.rewarded,
           paid' = paid \cup {<<job[s].rule, side>>},
           referral' = IF <<job[s].rule, side>> \in paid THEN referral ELSE Merged(job[s].row),
           Work(s, next, [job[s] EXCEPT !.row.rewarded = job[s].row.rewarded \cup {side}]),
           UNCHANGED <<user, firstPins, rivals>>
    PROVE  FirstInv'
<1> DEFINE j == job[s]
<1>1. Claim(s)
  BY DEF FirstInv, ReferralInv
<1>2. j.row = [rewarded |-> j.row.rewarded, status |-> j.row.status] /\ j.row.rewarded \subseteq Sides
  BY <1>1 DEF Claim, Referral
<1>3. /\ pc'[s] = next /\ Only(s)
      /\ job'[s] = [row |-> [rewarded |-> j.row.rewarded \cup {side}, status |-> j.row.status],
                    todo |-> j.todo, rule |-> j.rule]
  <2>1. pc'[s] = next /\ Only(s)
    BY Working
  <2>2. job'[s] = [j EXCEPT !.row.rewarded = j.row.rewarded \cup {side}]
    BY Working
  <2>3. j = [row |-> j.row, todo |-> j.todo, rule |-> j.rule]
    BY <1>1 DEF Claim
  <2> QED
    BY <1>2, <2>1, <2>2, <2>3
<1>4. paid \subseteq paid' /\ paid' \subseteq Rules \X Sides /\ j.rule \in Rules
  BY <1>1 DEF Claim, FirstInv, ReferralInv
<1>5. Claim(s)'
  <2>1. job'[s].row = [rewarded |-> j.row.rewarded \cup {side}, status |-> j.row.status]
    BY <1>3
  <2>2. job'[s].row \in Referral
    BY <1>1, <1>2, <2>1 DEF Claim, Referral
  <2>3. Stamped(job[s].row)'
    <3>1. Stamped(j.row) /\ <<j.rule, side>> \in paid'
      BY <1>1 DEF Claim
    <3> QED
      BY <1>4, <2>1, <3>1 DEF Stamped
  <2>4. job'[s].todo \subseteq Rules /\ job'[s].rule \in Rules
    BY <1>1, <1>3, <1>4 DEF Claim
  <2> QED
    BY <1>3, <2>1, <2>2, <2>3, <2>4 DEF Claim
<1>6. referral' \in Referral /\ Stamped(referral)'
  <2>1. referral \in Referral /\ Stamped(referral)
    BY DEF FirstInv, ReferralInv
  <2>2. CASE referral' = referral
    BY <1>4, <2>1, <2>2 DEF Stamped
  <2>3. CASE referral' = Merged(j.row)
    BY <1>1, <1>2, <1>4, <2>1, <2>3 DEF Merged, Claim, Stamped, Referral
  <2> QED
    BY <2>2, <2>3
<1>7. ~rivals => Distinct' /\ \A w \in paid' : w[2] \in job'[s].row.rewarded
  <2>1. SUFFICES ASSUME ~rivals
                 PROVE  Distinct' /\ \A w \in paid' : w[2] \in job'[s].row.rewarded
    OBVIOUS
  <2>2. Distinct /\ \A w \in paid : w[2] \in j.row.rewarded
    BY <2>1 DEF FirstInv, PinInv
  <2>3. \A w \in paid : w[2] # side
    BY <2>2
  <2> QED
    BY <1>3, <2>2, <2>3 DEF Distinct
<1> QED
  BY <1>3, <1>4, <1>5, <1>6, <1>7, ClaimMoves DEF PayLabels

LEMMA PaySidesKeep ==
    ASSUME Threads, FirstInv, NEW s \in Sessions, PayReferrer(s) \/ PayReferee(s)
    PROVE  FirstInv'
<1>1. CASE PayReferrer(s)
  <2>1. pc[s] = "referrer" /\ PaySide(s, "referrer", TRUE, "referee") /\ pc[s] \in PayLabels
    BY <1>1 DEF PayReferrer, PayLabels
  <2> QED
    BY <2>1, SidePaid, SideSkipped DEF PaySide, Sides
<1>2. CASE PayReferee(s)
  <2>1. /\ pc[s] = "referee" /\ PaySide(s, "referee", job[s].rule \in TwoSided, "staged")
        /\ pc[s] \in PayLabels
    BY <1>2 DEF PayReferee, PayLabels
  <2>2. "referrer" \in job[s].row.rewarded
    BY <2>1 DEF FirstInv, ReferralInv, Claim
  <2> QED
    BY <2>1, <2>2, SidePaid, SideSkipped DEF PaySide, Sides
<1> QED
  BY <1>1, <1>2

LEMMA StageRewardedKeeps ==
    ASSUME Threads, FirstInv, NEW s \in Sessions, StageRewarded(s)
    PROVE  FirstInv'
<1> DEFINE j == job[s]
<1>1. pc[s] = "staged" /\ pc'[s] = "rules" /\ Only(s) /\ UNCHANGED firstVars
  BY Working DEF StageRewarded, registrationVars, firstVars
<1>2. Claim(s)
  BY <1>1 DEF FirstInv, ReferralInv, PayLabels
<1>3. j.row = [rewarded |-> j.row.rewarded, status |-> j.row.status] /\ j.row.rewarded \subseteq Sides
  BY <1>2 DEF Claim, Referral
<1>4. job'[s] = [row |-> [rewarded |-> j.row.rewarded, status |-> "rewarded"], todo |-> j.todo, rule |-> None]
  <2>1. job'[s] = [j EXCEPT !.row.status = "rewarded", !.rule = None]
    BY Working DEF StageRewarded
  <2>2. j = [row |-> j.row, todo |-> j.todo, rule |-> j.rule]
    BY <1>2 DEF Claim
  <2> QED
    BY <1>3, <2>1, <2>2
<1>5. Claim(s)'
  BY <1>1, <1>2, <1>3, <1>4 DEF Claim, Stamped, Referral, firstVars
<1>6. Stamped(referral)'
  BY <1>1 DEF FirstInv, ReferralInv, Stamped, firstVars
<1> QED
  BY <1>1, <1>4, <1>5, <1>6, ClaimGoes DEF firstVars, FirstInv, ReferralInv, PayLabels

LEMMA ClaimEnds ==
    ASSUME Threads, FirstInv, NEW s \in Sessions, FinishReferral(s) \/ PayFails(s)
    PROVE  FirstInv'
<1>1. pc[s] \in PayLabels /\ pc'[s] = "idle" /\ Only(s) /\ UNCHANGED <<user, firstPins, rivals, paid>>
  <2>1. CASE FinishReferral(s)
    BY <2>1, Working DEF FinishReferral, End, PayLabels
  <2>2. CASE PayFails(s)
    BY <2>2, Working DEF PayFails, End, PayLabels, registrationVars
  <2> QED
    BY <2>1, <2>2
<1>2. Claim(s) /\ referral \in Referral /\ Stamped(referral)
  BY <1>1 DEF FirstInv, ReferralInv
<1>3. referral' \in Referral /\ Stamped(referral)'
  <2>1. referral' = referral \/ referral' = Merged(job[s].row)
    BY DEF FinishReferral, PayFails, registrationVars
  <2> QED
    BY <1>1, <1>2, <2>1 DEF Merged, Claim, Stamped, Referral
<1> QED
  BY <1>1, <1>3, ClaimGoes DEF PayLabels

LEMMA FirstStep == Threads /\ FirstInv /\ [Next]_vars => FirstInv'
<1> SUFFICES ASSUME Threads, FirstInv, [Next]_vars
             PROVE  FirstInv'
  OBVIOUS
<1> DEFINE labels == {"write", "refer"} \cup PayLabels
<1>1. CASE ~RegistrationNext
  <2>1. labels \subseteq OwnRegistration
    BY DEF OwnRegistration, RegistrationLabels, PayLabels
  <2>2. UNCHANGED registrationRest => UNCHANGED <<firstPins, rivals, paid, referral>>
    BY DEF registrationRest
  <2> QED
    BY <1>1, <2>1, <2>2, RegistrationElsewhere, KeepsLess, FirstUntouched
<1>2. ASSUME NEW s \in Sessions,
             \/ FindPhone(s) \/ ReadQuota(s) \/ SpendQuota(s) \/ SendOtp(s) \/ ReadOtp(s) \/ UseOtp(s)
             \/ MintToken(s) \/ TakeToken(s)
      PROVE  FirstInv'
  <2>1. UNCHANGED firstVars
    BY <1>2 DEF FindPhone, ReadQuota, SpendQuota, SendOtp, ReadOtp, UseOtp, MintToken, TakeToken,
                registrationVars, phoneVars, firstVars
  <2>2. /\ labels \cap {"idle", "quota"} = {} /\ labels \cap {"quota", "idle", "spend"} = {}
        /\ labels \cap {"spend", "send", "register"} = {} /\ labels \cap {"register", "send", "idle"} = {}
        /\ labels \cap {"idle", "use", "mint"} = {} /\ labels \cap {"idle", "read"} = {}
    BY DEF PayLabels
  <2>3. Keeps(labels)
    BY <1>2, <2>2, PhoneWalks, OtpWalks, PinWalks, OthersKeep
  <2> QED
    BY <2>1, <2>3, FirstUntouched DEF firstVars
<1>3. CASE MinutePasses \/ HourPasses \/ \E o \in Otps : OtpExpires(o) \/ TokenExpires(o)
  BY <1>3, FirstUntouched DEF MinutePasses, HourPasses, OtpExpires, TokenExpires, phoneVars, Keeps
<1>4. CASE RegistrationNext
  BY <1>2, <1>3, <1>4, RegisterKeeps, ReadPinKeeps, WritePinKeeps, ReadReferralKeeps, FireRuleKeeps,
     PaySidesKeep, StageRewardedKeeps, ClaimEnds
     DEF RegistrationNext
<1> QED
  BY <1>1, <1>4

LEMMA RegistrationStarts == Init => QuotaInv /\ OtpInv /\ FirstInv
<1> SUFFICES ASSUME Init
             PROVE  QuotaInv /\ OtpInv /\ FirstInv
  OBVIOUS
<1>1. RegistrationInit /\ \A s \in Sessions : pc[s] = "idle"
  BY DEF Init, AccessInit, RegistrationInit, RequestsInit
<1>2. QuotaInv
  BY <1>1, RegistrationAssumption DEF RegistrationInit, QuotaInv
<1>3. OtpInv
  BY <1>1 DEF RegistrationInit, OtpInv, OtpTypes, VerifiedFirst, Unspent, Bought, OneTokenPerOtp, OtpRequest,
              Verifying
<1>4. FirstInv
  BY <1>1 DEF RegistrationInit, FirstInv, PinInv, ReferralInv, Stamped, NoStamp, Referral, Distinct, Setting,
              PayLabels
<1> QED
  BY <1>2, <1>3, <1>4

\* At most one of the rules has paid a side.
LEMMA PaidOnce ==
    ASSUME Distinct
    PROVE  OnePaymentPerSide
<1> SUFFICES ASSUME NEW side \in Sides
             PROVE  Cardinality({r \in Rules : <<r, side>> \in paid}) <= 1
  BY DEF OnePaymentPerSide
<1> DEFINE payers == {r \in Rules : <<r, side>> \in paid}
<1>1. \A q, r \in payers : q = r
  BY DEF Distinct
<1> HIDE DEF payers
<1>2. ASSUME payers = {}
      PROVE  Cardinality(payers) <= 1
  BY <1>2, FS_EmptySet
<1>3. ASSUME payers # {}
      PROVE  Cardinality(payers) <= 1
  <2>1. PICK r \in payers : TRUE
    BY <1>3
  <2>2. payers = {r}
    BY <1>1, <2>1
  <2>3. Cardinality({r}) = 1
    BY FS_Singleton
  <2> QED
    BY <2>2, <2>3
<1>4. Cardinality(payers) <= 1
  BY <1>2, <1>3
<1> QED
  BY <1>4 DEF payers

\* However requests, expiries and crashes fall, and whatever else the tenant
\* does meanwhile: a password buys one token, the first PIN is set once and on
\* a verified phone, each side of a referral is paid once, a stamp stands for
\* money, and the quota of passwords holds, but for the requests seen to race
\* (identity/service.py:2477, :2549).
THEOREM RegistersOnce == Spec => []RegistrationOnce
<1> DEFINE Inv == Threads /\ QuotaInv /\ OtpInv /\ FirstInv
<1>1. Init => Inv
  BY ThreadsInit, RegistrationStarts
<1>2. Inv /\ [Next]_vars => Inv'
  BY ThreadsStep, QuotaStep, OtpStep, FirstStep
<1>3. Inv => RegistrationOnce
  <2> SUFFICES ASSUME Inv
               PROVE  RegistrationOnce
    OBVIOUS
  <2>1. QuotaKept
    BY DEF QuotaInv, QuotaKept
  <2>2. (firstPins > 0 => verified) /\ OneTokenPerOtp
    BY DEF OtpInv, VerifiedFirst, Bought
  <2>3. ~rivals => firstPins <= 1 /\ OnePaymentPerSide
    BY PaidOnce DEF FirstInv, PinInv
  <2>4. StampIsPaid
    BY DEF FirstInv, ReferralInv, Stamped, StampIsPaid
  <2> QED
    BY <2>1, <2>2, <2>3, <2>4 DEF RegistrationOnce
<1> QED
  BY <1>1, <1>2, <1>3, PTL DEF Spec

-----------------------------------------------------------------------------
(* Guesses at the PIN                                                      *)

Doing(labels) == {s \in Sessions : pc[s] \in labels}

\* With no lock set the failures not counted yet are those of requests about
\* to count, and the count stays below the threshold but for requests about to
\* lock; once the lock is set only requests past the gate still compare.
Guesses ==
    /\ wrong \in Nat /\ fails \in Nat
    /\ ~lockout =>
          /\ wrong <= fails + Cardinality(Doing({"count"}))
          /\ wrong <= MaxAttempts - 1 + Cardinality(Doing({"count", "lock"}))
    /\ lockout => wrong + Cardinality(Doing({"compare"})) <= MaxAttempts - 1 + Cardinality(Sessions)

GuessLabels == {"compare", "count", "lock"}

LEMMA DoingFinite ==
    ASSUME NEW labels
    PROVE  /\ IsFiniteSet(Doing(labels)) /\ Cardinality(Doing(labels)) \in Nat
           /\ Cardinality(Doing(labels)) <= Cardinality(Sessions)
BY FS_Subset, FS_CardinalityType, AccessAssumption DEF Doing

LEMMA DoingSame ==
    ASSUME NEW labels, \A t \in Sessions : pc'[t] \in labels <=> pc[t] \in labels
    PROVE  Doing(labels)' = Doing(labels)
BY DEF Doing

LEMMA DoingMore ==
    ASSUME NEW labels, NEW s \in Sessions, Only(s), pc[s] \notin labels, pc'[s] \in labels
    PROVE  Cardinality(Doing(labels)') = Cardinality(Doing(labels)) + 1
<1>1. Doing(labels)' = Doing(labels) \cup {s} /\ s \notin Doing(labels)
  BY DEF Doing, Only
<1> QED
  BY <1>1, FS_AddElement, DoingFinite

LEMMA DoingLess ==
    ASSUME NEW labels, NEW s \in Sessions, Only(s), pc[s] \in labels, pc'[s] \notin labels
    PROVE  Cardinality(Doing(labels)') = Cardinality(Doing(labels)) - 1
<1>1. Doing(labels)' = Doing(labels) \ {s} /\ s \in Doing(labels)
  BY DEF Doing, Only
<1> QED
  BY <1>1, FS_RemoveElement, DoingFinite

LEMMA DoingApart ==
    Cardinality(Doing({"compare"})) + Cardinality(Doing({"count", "lock"})) <= Cardinality(Sessions)
<1>1. Doing({"compare"}) \cap Doing({"count", "lock"}) = {}
  BY DEF Doing
<1>2. Doing({"compare"}) \cup Doing({"count", "lock"}) \subseteq Sessions
  BY DEF Doing
<1>3. Cardinality(Doing({"compare"}) \cup Doing({"count", "lock"}))
          = Cardinality(Doing({"compare"})) + Cardinality(Doing({"count", "lock"}))
  <2>1. /\ IsFiniteSet(Doing({"compare"})) /\ IsFiniteSet(Doing({"count", "lock"}))
        /\ Cardinality(Doing({"compare"})) \in Nat /\ Cardinality(Doing({"count", "lock"})) \in Nat
    BY DoingFinite
  <2>2. Cardinality(Doing({"compare"}) \cup Doing({"count", "lock"}))
            = Cardinality(Doing({"compare"})) + Cardinality(Doing({"count", "lock"})) - Cardinality({})
    BY <1>1, <2>1, FS_Union
  <2> QED
    BY <2>1, <2>2, FS_EmptySet
<1>4. Cardinality(Doing({"compare"}) \cup Doing({"count", "lock"})) <= Cardinality(Sessions)
  BY <1>2, FS_Subset, AccessAssumption
<1> QED
  BY <1>3, <1>4

\* Nobody comes to one of these labels or leaves it.
Steady(labels) == \A t \in Sessions : (pc[t] \in labels \/ pc'[t] \in labels) => pc'[t] = pc[t]

LEMMA OthersSteady ==
    ASSUME Threads, NEW labels, NEW others, labels \cap others = {},
           Stay \/ \E s \in Sessions : Walk(s, others)
    PROVE  Steady(labels)
BY DEF Stay, Walk, Only, Steady

LEMMA SteadyDoing ==
    ASSUME Steady(GuessLabels)
    PROVE  /\ Doing({"count"})' = Doing({"count"}) /\ Doing({"count", "lock"})' = Doing({"count", "lock"})
           /\ Doing({"compare"})' = Doing({"compare"})
BY DEF Steady, GuessLabels, Doing

LEMMA GuessesUntouched ==
    ASSUME Guesses, Steady(GuessLabels), UNCHANGED <<wrong, fails, lockout>>
    PROVE  Guesses'
BY SteadyDoing DEF Guesses

\* Whatever the sessions are at, nothing is owed for no wrong guess.
LEMMA GuessesCleared ==
    ASSUME wrong' = 0, fails' \in Nat
    PROVE  Guesses'
<1>1. MaxAttempts \in Nat \ {0}
  BY AccessAssumption
<1>2. Cardinality(Sessions) \in Nat
  BY FS_CardinalityType, AccessAssumption
<1>3. ASSUME NEW labels
      PROVE  Cardinality(Doing(labels)') \in Nat /\ Cardinality(Doing(labels)') <= Cardinality(Sessions)
  <2>1. Doing(labels)' \subseteq Sessions
    BY DEF Doing
  <2> QED
    BY <2>1, FS_Subset, FS_CardinalityType, AccessAssumption
<1> QED
  BY <1>1, <1>2, <1>3 DEF Guesses

LEMMA GateKeeps ==
    ASSUME Threads, Guesses, NEW s \in Sessions, Gate(s)
    PROVE  Guesses'
<1>1. pc[s] = "gate" /\ UNCHANGED <<wrong, fails, lockout>>
  BY DEF Gate, accessVars, redis, history
<1>2. pc'[s] = (IF lockout THEN "idle" ELSE "compare") /\ Only(s)
  BY Working, Going DEF Gate, End
<1>3. Doing({"count"})' = Doing({"count"}) /\ Doing({"count", "lock"})' = Doing({"count", "lock"})
  BY <1>1, <1>2 DEF Doing, Only
<1>4. lockout => Doing({"compare"})' = Doing({"compare"})
  BY <1>1, <1>2 DEF Doing, Only
<1> QED
  BY <1>1, <1>3, <1>4 DEF Guesses

LEMMA CompareKeeps ==
    ASSUME Threads, Guesses, NEW s \in Sessions, Compare(s)
    PROVE  Guesses'
<1>1. pc[s] = "compare" /\ UNCHANGED <<fails, lockout>>
  BY DEF Compare, redis
<1>2. CASE Goto(s, "reset") /\ UNCHANGED wrong
  <2>1. pc'[s] = "reset" /\ Only(s)
    BY <1>2, Going DEF Compare
  <2>2. Doing({"count"})' = Doing({"count"}) /\ Doing({"count", "lock"})' = Doing({"count", "lock"})
    BY <1>1, <2>1 DEF Doing, Only
  <2>3. Cardinality(Doing({"compare"})') = Cardinality(Doing({"compare"})) - 1
    BY <1>1, <2>1, DoingLess
  <2> QED
    BY <1>1, <1>2, <2>2, <2>3, DoingFinite, AccessAssumption, FS_CardinalityType DEF Guesses
<1>3. CASE Goto(s, "count") /\ wrong' = wrong + 1
  <2>1. pc'[s] = "count" /\ Only(s)
    BY <1>3, Going DEF Compare
  <2>2. /\ Cardinality(Doing({"count"})') = Cardinality(Doing({"count"})) + 1
        /\ Cardinality(Doing({"count", "lock"})') = Cardinality(Doing({"count", "lock"})) + 1
    BY <1>1, <2>1, DoingMore
  <2>3. Cardinality(Doing({"compare"})') = Cardinality(Doing({"compare"})) - 1
    BY <1>1, <2>1, DoingLess
  <2> QED
    BY <1>1, <1>3, <2>2, <2>3, DoingFinite, AccessAssumption, FS_CardinalityType DEF Guesses
<1> QED
  BY <1>2, <1>3 DEF Compare

LEMMA CountKeeps ==
    ASSUME Threads, Guesses, NEW s \in Sessions, Count(s)
    PROVE  Guesses'
<1>1. pc[s] = "count" /\ fails' = fails + 1 /\ UNCHANGED <<wrong, lockout>>
  BY DEF Count, history
<1>2. pc'[s] = (IF fails + 1 >= MaxAttempts THEN "lock" ELSE "idle") /\ Only(s)
  BY Working, Going DEF Count, End
<1>3. Doing({"compare"})' = Doing({"compare"})
  BY <1>1, <1>2 DEF Doing, Only
<1>4. Cardinality(Doing({"count"})') = Cardinality(Doing({"count"})) - 1
  BY <1>1, <1>2, DoingLess
<1>5. CASE fails + 1 >= MaxAttempts
  <2>1. Doing({"count", "lock"})' = Doing({"count", "lock"})
    BY <1>1, <1>2, <1>5 DEF Doing, Only
  <2> QED
    BY <1>1, <1>3, <1>4, <2>1, DoingFinite, AccessAssumption DEF Guesses
<1>6. CASE ~(fails + 1 >= MaxAttempts)
  <2>1. Doing({"count"})' \subseteq Doing({"count", "lock"})' /\ Doing({"count", "lock"})' \subseteq Sessions
    BY DEF Doing
  <2>2. /\ Cardinality(Doing({"count"})') <= Cardinality(Doing({"count", "lock"})')
        /\ Cardinality(Doing({"count", "lock"})') \in Nat
    BY <2>1, FS_Subset, FS_CardinalityType, AccessAssumption
  <2> QED
    BY <1>1, <1>3, <1>4, <1>6, <2>2, DoingFinite, AccessAssumption DEF Guesses
<1> QED
  BY <1>5, <1>6

LEMMA LockKeeps ==
    ASSUME Threads, Guesses, NEW s \in Sessions, Lock(s)
    PROVE  Guesses'
<1>1. pc[s] = "lock" /\ lockout' = TRUE /\ UNCHANGED <<wrong, fails>> /\ pc'[s] = "drop" /\ Only(s)
  BY Going DEF Lock, history
<1>2. Doing({"compare"})' = Doing({"compare"})
  BY <1>1 DEF Doing, Only
<1>3. Cardinality(Sessions) \in Nat /\ MaxAttempts \in Nat
  BY FS_CardinalityType, AccessAssumption
<1> QED
  BY <1>1, <1>2, <1>3, DoingApart, DoingFinite DEF Guesses

LEMMA DropKeeps ==
    ASSUME Threads, Guesses, NEW s \in Sessions, Drop(s)
    PROVE  Guesses'
<1>1. /\ pc[s] = "drop" /\ pc'[s] = "idle" /\ Only(s) /\ fails' = 0 /\ lockout' = lockout
      /\ wrong' = IF lockout THEN wrong ELSE 0
  BY Working DEF Drop, End
<1>2. CASE lockout
  <2>1. Doing({"compare"})' = Doing({"compare"})
    BY <1>1 DEF Doing, Only
  <2> QED
    BY <1>1, <1>2, <2>1 DEF Guesses
<1>3. CASE ~lockout
  BY <1>1, <1>3, GuessesCleared
<1> QED
  BY <1>2, <1>3

LEMMA CrashGuesses ==
    ASSUME Threads, Guesses, NEW s \in Sessions, Crash(s)
    PROVE  Guesses'
<1>1. /\ pc'[s] = "idle" /\ Only(s) /\ UNCHANGED <<fails, lockout>>
      /\ wrong' = IF pc[s] \in {"count", "lock"} THEN Down(wrong) ELSE wrong
  BY Working DEF Crash, End, redis
<1>2. wrong' \in Nat /\ wrong' <= wrong /\ (pc[s] \in {"count", "lock"} => wrong' = 0 \/ wrong' = wrong - 1)
  BY <1>1 DEF Guesses, Down
<1>3. /\ pc[s] = "count" => Cardinality(Doing({"count"})') = Cardinality(Doing({"count"})) - 1
      /\ pc[s] # "count" => Doing({"count"})' = Doing({"count"})
  BY <1>1, DoingLess, DoingSame DEF Only
<1>4. /\ pc[s] \in {"count", "lock"} =>
            Cardinality(Doing({"count", "lock"})') = Cardinality(Doing({"count", "lock"})) - 1
      /\ pc[s] \notin {"count", "lock"} => Doing({"count", "lock"})' = Doing({"count", "lock"})
  BY <1>1, DoingLess, DoingSame DEF Only
<1>5. /\ pc[s] = "compare" => Cardinality(Doing({"compare"})') = Cardinality(Doing({"compare"})) - 1
      /\ pc[s] # "compare" => Doing({"compare"})' = Doing({"compare"})
  BY <1>1, DoingLess, DoingSame DEF Only
<1>6. CASE wrong' = 0
  BY <1>1, <1>6, GuessesCleared DEF Guesses
<1>7. CASE wrong' # 0
  <2>1. /\ Cardinality(Doing({"count"})) \in Nat /\ Cardinality(Doing({"count", "lock"})) \in Nat
        /\ Cardinality(Doing({"compare"})) \in Nat /\ Cardinality(Sessions) \in Nat
        /\ MaxAttempts \in Nat
    BY DoingFinite, AccessAssumption, FS_CardinalityType
  <2>2. CASE pc[s] = "count"
    BY <1>1, <1>2, <1>3, <1>4, <1>5, <1>7, <2>1, <2>2 DEF Guesses
  <2>3. CASE pc[s] = "lock"
    BY <1>1, <1>2, <1>3, <1>4, <1>5, <1>7, <2>1, <2>3 DEF Guesses
  <2>4. CASE pc[s] \notin {"count", "lock"}
    BY <1>1, <1>2, <1>3, <1>4, <1>5, <2>1, <2>4 DEF Guesses
  <2> QED
    BY <2>2, <2>3, <2>4
<1> QED
  BY <1>6, <1>7

QuietLabels == GateLabels \ GuessLabels

LEMMA QuietSteps ==
    ASSUME Threads, NEW s \in Sessions,
           \/ Login(s) \/ StepUp(s) \/ ChangePin(s) \/ Issue(s) \/ Index(s) \/ UseSession(s) \/ SlideIndex(s)
           \/ Logout(s) \/ Unlist(s) \/ ChargeConflict(s) \/ StageChange(s) \/ AccountLost(s)
           \/ ChargeReused(s) \/ ChargePosted(s) \/ ChargeRefused(s) \/ SetLevel(s) \/ Members(s)
           \/ Kill(s) \/ Unindex(s) \/ CommitPin(s)
    PROVE  Walk(s, QuietLabels) /\ UNCHANGED <<wrong, fails, lockout>>
<1>1. ASSUME Login(s) \/ StepUp(s) \/ ChangePin(s) \/ Issue(s) \/ Index(s) \/ UseSession(s) \/ SlideIndex(s)
      PROVE  Walk(s, QuietLabels) /\ UNCHANGED <<wrong, fails, lockout>>
  <2>1. pc[s] \in QuietLabels /\ \E label \in QuietLabels : \E j : Work(s, label, j)
    BY <1>1 DEF Login, StepUp, ChangePin, Issue, Index, UseSession, SlideIndex, Request, End, QuietLabels,
                GateLabels, GuessLabels
  <2>2. UNCHANGED <<wrong, fails, lockout>>
    BY <1>1 DEF Login, StepUp, ChangePin, Issue, Index, UseSession, SlideIndex, accessVars, redis, history
  <2> QED
    BY <2>1, <2>2, Working DEF Walk
<1>2. ASSUME \/ Logout(s) \/ Unlist(s) \/ ChargeConflict(s) \/ StageChange(s) \/ AccountLost(s)
             \/ ChargeReused(s) \/ ChargePosted(s) \/ ChargeRefused(s)
      PROVE  Walk(s, QuietLabels) /\ UNCHANGED <<wrong, fails, lockout>>
  <2>1. pc[s] \in QuietLabels /\ \E label \in QuietLabels : \E j : Work(s, label, j)
    BY <1>2 DEF Logout, Unlist, ChargeConflict, StageChange, AccountLost, HoldsUser, ChargeReused,
                ChargePosted, ChargeRefused, Request, End, QuietLabels, GateLabels, GuessLabels
  <2>2. UNCHANGED <<wrong, fails, lockout>>
    BY <1>2 DEF Logout, Unlist, ChargeConflict, StageChange, AccountLost, ChargeReused, ChargePosted,
                ChargeRefused, accessVars, redis, history
  <2> QED
    BY <2>1, <2>2, Working DEF Walk
<1>3. ASSUME SetLevel(s) \/ Members(s) \/ Kill(s) \/ Unindex(s) \/ CommitPin(s)
      PROVE  Walk(s, QuietLabels) /\ UNCHANGED <<wrong, fails, lockout>>
  <2>1. /\ pc[s] \in QuietLabels
        /\ \/ \E label \in QuietLabels : \E j : Work(s, label, j)
           \/ \E label \in QuietLabels : Goto(s, label) /\ UNCHANGED job
    BY <1>3 DEF SetLevel, Members, Kill, Unindex, CommitPin, Request, End, QuietLabels, GateLabels, GuessLabels
  <2>2. UNCHANGED <<wrong, fails, lockout>>
    BY <1>3 DEF SetLevel, Members, Kill, Unindex, CommitPin, accessVars, redis, history
  <2> QED
    BY <2>1, <2>2, Working, Going DEF Walk
<1> QED
  BY <1>1, <1>2, <1>3

\* Everything that clears the counter or the lock forgets the wrong guesses.
LEMMA ClearingKeeps ==
    ASSUME Guesses,
           \/ \E s \in Sessions : Reset(s) \/ ClearLockout(s) \/ ClearCounter(s)
           \/ CounterExpires \/ LockoutLapses
    PROVE  Guesses'
<1>1. wrong' = 0 /\ fails' \in {0, fails}
  BY DEF Reset, ClearLockout, ClearCounter, CounterExpires, LockoutLapses
<1> QED
  BY <1>1, GuessesCleared DEF Guesses

LEMMA AccessGuesses == Threads /\ Guesses /\ AccessNext => Guesses'
<1> SUFFICES ASSUME Threads, Guesses, AccessNext
             PROVE  Guesses'
  OBVIOUS
<1>1. CASE RegistrationNext /\ UNCHANGED accessVars
  <2>1. GuessLabels \cap RegistrationLabels = {}
    BY DEF GuessLabels, RegistrationLabels
  <2> QED
    BY <1>1, <2>1, RegistrationWalks, OthersSteady, GuessesUntouched DEF accessVars, redis, history
<1>2. ASSUME NEW s \in Sessions, Walk(s, QuietLabels), UNCHANGED <<wrong, fails, lockout>>
      PROVE  Guesses'
  <2>1. GuessLabels \cap QuietLabels = {}
    BY DEF QuietLabels
  <2> QED
    BY <1>2, <2>1, OthersSteady, GuessesUntouched
<1>3. ASSUME NEW s \in Sessions, CommitLevel(s)
      PROVE  Guesses'
  <2>1. pc[s] = "level" /\ pc' = [pc EXCEPT ![s] = "idle"] /\ UNCHANGED <<wrong, fails, lockout>>
    BY <1>3 DEF CommitLevel, Goto, redis, history
  <2>2. Steady(GuessLabels)
    BY <2>1 DEF Threads, Steady, GuessLabels
  <2> QED
    BY <2>1, <2>2, GuessesUntouched
<1>4. CASE Tick
  BY <1>4, GuessesUntouched DEF Tick, history, Steady
<1> QED
  BY <1>1, <1>2, <1>3, <1>4, QuietSteps, ClearingKeeps, GateKeeps, CompareKeeps, CountKeeps, LockKeeps,
     DropKeeps, CrashGuesses
     DEF AccessNext

LEMMA GuessesStep == Threads /\ Guesses /\ [Next]_vars => Guesses'
<1> SUFFICES ASSUME Threads, Guesses, [Next]_vars
             PROVE  Guesses'
  OBVIOUS
<1>1. UNCHANGED accountVars => UNCHANGED <<wrong, fails, lockout>>
  BY DEF accountVars, accessVars, redis, history
<1>2. /\ GuessLabels \cap OfCatalogue = {} /\ GuessLabels \cap {"idle", "catalog"} = {}
      /\ GuessLabels \cap OfSchedules = {} /\ GuessLabels \cap {"idle", "pay"} = {}
  BY DEF GuessLabels, OfCatalogue, CatalogueLabels, OfSchedules, SchedulesLabels
<1>3. CASE AccessNext
  BY <1>3, AccessGuesses
<1>4. CASE CatalogueNext /\ UNCHANGED accountVars
  BY <1>1, <1>2, <1>4, CatalogueWalks, OthersSteady, GuessesUntouched
<1>5. CASE ServicesNext /\ UNCHANGED accountVars
  BY <1>1, <1>2, <1>5, ServicesWalks, OthersSteady, GuessesUntouched
<1>6. CASE SchedulesNext /\ UNCHANGED accountVars
  BY <1>1, <1>2, <1>6, SchedulesWalks, OthersSteady, GuessesUntouched
<1>7. CASE FlowsNext(status = "active") /\ UNCHANGED accountVars
  BY <1>1, <1>2, <1>7, FlowsWalks, OthersSteady, GuessesUntouched
<1>8. CASE UNCHANGED vars
  BY <1>1, <1>8, GuessesUntouched DEF vars, Steady
<1> QED
  BY <1>3, <1>4, <1>5, <1>6, <1>7, <1>8 DEF Next

LEMMA GuessesInit == Init => Guesses
<1> SUFFICES ASSUME Init
             PROVE  Guesses
  OBVIOUS
<1>1. wrong = 0 /\ fails = 0 /\ lockout = FALSE
  BY DEF Init, AccessInit
<1> QED
  BY <1>1, DoingFinite, AccessAssumption DEF Guesses

\* However logins, step-ups, PIN changes, unlocks and crashes interleave, no
\* more PINs are compared in a row than the threshold and the requests already
\* past the gate (auth/lockout.py:41).
THEOREM TriesAreBounded == Spec => []TriesBounded
<1>1. Guesses => TriesBounded
  <2> SUFFICES ASSUME Guesses
               PROVE  TriesBounded
    OBVIOUS
  <2>1. Cardinality(Sessions) \in Nat /\ MaxAttempts \in Nat
    BY FS_CardinalityType, AccessAssumption
  <2> QED
    BY <2>1, DoingFinite DEF Guesses, TriesBounded
<1> QED
  BY <1>1, ThreadsInit, ThreadsStep, GuessesInit, GuessesStep, PTL DEF Spec

-----------------------------------------------------------------------------
(* The order of a payment's gates                                          *)

GateNames ==
    {"type", "code", "permission", "replay", "standing", "service", "payee", "agent", "configured",
     "wallets", "limits", "send", "receive", "step_up", "fee", "commission", "earner", "funds", "post"}

\* The flows that resolve the service before they know whose type applies.
Unjudged == {"fund", "withdraw"}

Length(gates) == Len(gates)

\* The gates whose questions are about the type, and about the service.
UnderType == {"configured", "limits", "send", "fee"}
UnderCode == {"permission", "service", "configured", "limits", "fee", "commission", "earner"}

\* In these gates, g comes before each of the others named.
Ahead(gates, g, names) == \A i, k \in 1..Length(gates) : gates[i] = g /\ gates[k] \in names => i < k

Asks(gates, names) == \A g \in names : \E i \in 1..Length(gates) : gates[i] = g

\* What one gate settles another's question is about.
Ordered(gates, unjudged) ==
    /\ gates \in Seq(GateNames) /\ Length(gates) \in Nat /\ Length(gates) > 1
    /\ \A i \in 1..Length(gates) : gates[i] = "post" <=> i = Length(gates)
    /\ Ahead(gates, "type", UnderType)
    /\ Ahead(gates, "code", UnderCode)
    /\ IF unjudged THEN Ahead(gates, "code", {"type"}) ELSE Ahead(gates, "type", {"code", "service"})
    /\ Ahead(gates, "commission", {"earner"})
    /\ (\E i \in 1..Length(gates) : gates[i] = "earner") => Asks(gates, {"commission"})

\* The gates a flow owes its rules.
Owed(f) ==
    {"type", "code", "wallets", "configured", "limits"}
        \cup (IF f \in Subscriber THEN {"permission", "step_up"} ELSE {})
        \cup (IF f # "fund" THEN {"send"} ELSE {})
        \cup (IF f \in {"p2p", "fund"} THEN {"receive"} ELSE {})
        \cup (IF f \notin Unjudged THEN {"service", "fee"} ELSE {})
        \cup (IF f \in {"p2p"} \cup Commissioned THEN {"payee"} ELSE {})
        \cup (IF f = "cash_out" THEN {"agent"} ELSE {})
        \cup (IF f \in Commissioned THEN {"commission", "earner"} ELSE {})

\* No flow asks before it knows what it asks about.
LEMMA P2POrder == Ordered(P2PGates, FALSE) /\ Asks(P2PGates, Owed("p2p"))
<1>1. P2PGates \in Seq(GateNames) /\ Length(P2PGates) \in Nat /\ Length(P2PGates) > 1
  BY DEF P2PGates, GateNames, Length
<1>2. \A i \in 1..Length(P2PGates) : P2PGates[i] = "post" <=> i = Length(P2PGates)
  BY DEF P2PGates, Length
<1>3. Ahead(P2PGates, "type", UnderType)
  BY DEF P2PGates, Ahead, UnderType, Length
<1>4. Ahead(P2PGates, "code", UnderCode)
  BY DEF P2PGates, Ahead, UnderCode, Length
<1>5. Ahead(P2PGates, "type", {"code", "service"})
  BY DEF P2PGates, Ahead, Length
<1>6. Ahead(P2PGates, "commission", {"earner"})
  BY DEF P2PGates, Ahead, Length
<1>7. (\E i \in 1..Length(P2PGates) : P2PGates[i] = "earner")
          => Asks(P2PGates, {"commission"})
  BY DEF P2PGates, Asks, Length
<1>8. Asks(P2PGates, Owed("p2p"))
  BY DEF P2PGates, Asks, Length, Owed, Subscriber, Unjudged, Commissioned
<1> QED
  BY <1>1, <1>2, <1>3, <1>4, <1>5, <1>6, <1>7, <1>8 DEF Ordered

LEMMA CashInOrder == Ordered(CashInGates, FALSE) /\ Asks(CashInGates, Owed("cash_in"))
<1>1. CashInGates \in Seq(GateNames) /\ Length(CashInGates) \in Nat /\ Length(CashInGates) > 1
  BY DEF CashInGates, GateNames, Length
<1>2. \A i \in 1..Length(CashInGates) : CashInGates[i] = "post" <=> i = Length(CashInGates)
  BY DEF CashInGates, Length
<1>3. Ahead(CashInGates, "type", UnderType)
  BY DEF CashInGates, Ahead, UnderType, Length
<1>4. Ahead(CashInGates, "code", UnderCode)
  BY DEF CashInGates, Ahead, UnderCode, Length
<1>5. Ahead(CashInGates, "type", {"code", "service"})
  BY DEF CashInGates, Ahead, Length
<1>6. Ahead(CashInGates, "commission", {"earner"})
  BY DEF CashInGates, Ahead, Length
<1>7. (\E i \in 1..Length(CashInGates) : CashInGates[i] = "earner")
          => Asks(CashInGates, {"commission"})
  BY DEF CashInGates, Asks, Length
<1>8. Asks(CashInGates, Owed("cash_in"))
  BY DEF CashInGates, Asks, Length, Owed, Subscriber, Unjudged, Commissioned
<1> QED
  BY <1>1, <1>2, <1>3, <1>4, <1>5, <1>6, <1>7, <1>8 DEF Ordered

LEMMA CashOutOrder == Ordered(CashOutGates, FALSE) /\ Asks(CashOutGates, Owed("cash_out"))
<1>1. CashOutGates \in Seq(GateNames) /\ Length(CashOutGates) \in Nat /\ Length(CashOutGates) > 1
  BY DEF CashOutGates, GateNames, Length
<1>2. \A i \in 1..Length(CashOutGates) : CashOutGates[i] = "post" <=> i = Length(CashOutGates)
  BY DEF CashOutGates, Length
<1>3. Ahead(CashOutGates, "type", UnderType)
  BY DEF CashOutGates, Ahead, UnderType, Length
<1>4. Ahead(CashOutGates, "code", UnderCode)
  BY DEF CashOutGates, Ahead, UnderCode, Length
<1>5. Ahead(CashOutGates, "type", {"code", "service"})
  BY DEF CashOutGates, Ahead, Length
<1>6. Ahead(CashOutGates, "commission", {"earner"})
  BY DEF CashOutGates, Ahead, Length
<1>7. (\E i \in 1..Length(CashOutGates) : CashOutGates[i] = "earner")
          => Asks(CashOutGates, {"commission"})
  BY DEF CashOutGates, Asks, Length
<1>8. Asks(CashOutGates, Owed("cash_out"))
  BY DEF CashOutGates, Asks, Length, Owed, Subscriber, Unjudged, Commissioned
<1> QED
  BY <1>1, <1>2, <1>3, <1>4, <1>5, <1>6, <1>7, <1>8 DEF Ordered

LEMMA AirtimeOrder == Ordered(AirtimeGates, FALSE) /\ Asks(AirtimeGates, Owed("airtime_recharge"))
<1>1. AirtimeGates \in Seq(GateNames) /\ Length(AirtimeGates) \in Nat /\ Length(AirtimeGates) > 1
  BY DEF AirtimeGates, GateNames, Length
<1>2. \A i \in 1..Length(AirtimeGates) : AirtimeGates[i] = "post" <=> i = Length(AirtimeGates)
  BY DEF AirtimeGates, Length
<1>3. Ahead(AirtimeGates, "type", UnderType)
  BY DEF AirtimeGates, Ahead, UnderType, Length
<1>4. Ahead(AirtimeGates, "code", UnderCode)
  BY DEF AirtimeGates, Ahead, UnderCode, Length
<1>5. Ahead(AirtimeGates, "type", {"code", "service"})
  BY DEF AirtimeGates, Ahead, Length
<1>6. Ahead(AirtimeGates, "commission", {"earner"})
  BY DEF AirtimeGates, Ahead, Length
<1>7. (\E i \in 1..Length(AirtimeGates) : AirtimeGates[i] = "earner")
          => Asks(AirtimeGates, {"commission"})
  BY DEF AirtimeGates, Asks, Length
<1>8. Asks(AirtimeGates, Owed("airtime_recharge"))
  BY DEF AirtimeGates, Asks, Length, Owed, Subscriber, Unjudged, Commissioned
<1> QED
  BY <1>1, <1>2, <1>3, <1>4, <1>5, <1>6, <1>7, <1>8 DEF Ordered

LEMMA FundOrder == Ordered(FundGates, TRUE) /\ Asks(FundGates, Owed("fund"))
<1>1. FundGates \in Seq(GateNames) /\ Length(FundGates) \in Nat /\ Length(FundGates) > 1
  BY DEF FundGates, GateNames, Length
<1>2. \A i \in 1..Length(FundGates) : FundGates[i] = "post" <=> i = Length(FundGates)
  BY DEF FundGates, Length
<1>3. Ahead(FundGates, "type", UnderType)
  BY DEF FundGates, Ahead, UnderType, Length
<1>4. Ahead(FundGates, "code", UnderCode)
  BY DEF FundGates, Ahead, UnderCode, Length
<1>5. Ahead(FundGates, "code", {"type"})
  BY DEF FundGates, Ahead, Length
<1>6. Ahead(FundGates, "commission", {"earner"})
  BY DEF FundGates, Ahead, Length
<1>7. (\E i \in 1..Length(FundGates) : FundGates[i] = "earner")
          => Asks(FundGates, {"commission"})
  BY DEF FundGates, Asks, Length
<1>8. Asks(FundGates, Owed("fund"))
  BY DEF FundGates, Asks, Length, Owed, Subscriber, Unjudged, Commissioned
<1> QED
  BY <1>1, <1>2, <1>3, <1>4, <1>5, <1>6, <1>7, <1>8 DEF Ordered

LEMMA WithdrawOrder == Ordered(WithdrawGates, TRUE) /\ Asks(WithdrawGates, Owed("withdraw"))
<1>1. WithdrawGates \in Seq(GateNames) /\ Length(WithdrawGates) \in Nat /\ Length(WithdrawGates) > 1
  BY DEF WithdrawGates, GateNames, Length
<1>2. \A i \in 1..Length(WithdrawGates) : WithdrawGates[i] = "post" <=> i = Length(WithdrawGates)
  BY DEF WithdrawGates, Length
<1>3. Ahead(WithdrawGates, "type", UnderType)
  BY DEF WithdrawGates, Ahead, UnderType, Length
<1>4. Ahead(WithdrawGates, "code", UnderCode)
  BY DEF WithdrawGates, Ahead, UnderCode, Length
<1>5. Ahead(WithdrawGates, "code", {"type"})
  BY DEF WithdrawGates, Ahead, Length
<1>6. Ahead(WithdrawGates, "commission", {"earner"})
  BY DEF WithdrawGates, Ahead, Length
<1>7. (\E i \in 1..Length(WithdrawGates) : WithdrawGates[i] = "earner")
          => Asks(WithdrawGates, {"commission"})
  BY DEF WithdrawGates, Asks, Length
<1>8. Asks(WithdrawGates, Owed("withdraw"))
  BY DEF WithdrawGates, Asks, Length, Owed, Subscriber, Unjudged, Commissioned
<1> QED
  BY <1>1, <1>2, <1>3, <1>4, <1>5, <1>6, <1>7, <1>8 DEF Ordered

LEMMA MerchantOrder == Ordered(MerchantGates, FALSE) /\ Asks(MerchantGates, Owed("merchant_cashin"))
<1>1. MerchantGates \in Seq(GateNames) /\ Length(MerchantGates) \in Nat /\ Length(MerchantGates) > 1
  BY DEF MerchantGates, GateNames, Length
<1>2. \A i \in 1..Length(MerchantGates) : MerchantGates[i] = "post" <=> i = Length(MerchantGates)
  BY DEF MerchantGates, Length
<1>3. Ahead(MerchantGates, "type", UnderType)
  BY DEF MerchantGates, Ahead, UnderType, Length
<1>4. Ahead(MerchantGates, "code", UnderCode)
  BY DEF MerchantGates, Ahead, UnderCode, Length
<1>5. Ahead(MerchantGates, "type", {"code", "service"})
  BY DEF MerchantGates, Ahead, Length
<1>6. Ahead(MerchantGates, "commission", {"earner"})
  BY DEF MerchantGates, Ahead, Length
<1>7. (\E i \in 1..Length(MerchantGates) : MerchantGates[i] = "earner")
          => Asks(MerchantGates, {"commission"})
  BY DEF MerchantGates, Asks, Length
<1>8. Asks(MerchantGates, Owed("merchant_cashin"))
  BY DEF MerchantGates, Asks, Length, Owed, Subscriber, Unjudged, Commissioned
<1> QED
  BY <1>1, <1>2, <1>3, <1>4, <1>5, <1>6, <1>7, <1>8 DEF Ordered

\* Every flow asks all that it owes its rules, in an order that makes sense.
LEMMA GatesOrdered ==
    ASSUME NEW f \in Subscriber \cup External
    PROVE  Ordered(Gates[f], f \in Unjudged) /\ Asks(Gates[f], Owed(f))
<1>1. CASE f = "p2p"
  <2>1. Gates[f] = P2PGates /\ (f \in Unjudged) = FALSE
    BY <1>1 DEF Gates, Unjudged
  <2> QED
    BY <1>1, <2>1, P2POrder
<1>2. CASE f = "cash_in"
  <2>1. Gates[f] = CashInGates /\ (f \in Unjudged) = FALSE
    BY <1>2 DEF Gates, Unjudged
  <2> QED
    BY <1>2, <2>1, CashInOrder
<1>3. CASE f = "cash_out"
  <2>1. Gates[f] = CashOutGates /\ (f \in Unjudged) = FALSE
    BY <1>3 DEF Gates, Unjudged
  <2> QED
    BY <1>3, <2>1, CashOutOrder
<1>4. CASE f = "airtime_recharge"
  <2>1. Gates[f] = AirtimeGates /\ (f \in Unjudged) = FALSE
    BY <1>4 DEF Gates, Unjudged
  <2> QED
    BY <1>4, <2>1, AirtimeOrder
<1>5. CASE f = "fund"
  <2>1. Gates[f] = FundGates /\ (f \in Unjudged) = TRUE
    BY <1>5 DEF Gates, Unjudged
  <2> QED
    BY <1>5, <2>1, FundOrder
<1>6. CASE f = "withdraw"
  <2>1. Gates[f] = WithdrawGates /\ (f \in Unjudged) = TRUE
    BY <1>6 DEF Gates, Unjudged
  <2> QED
    BY <1>6, <2>1, WithdrawOrder
<1>7. CASE f = "merchant_cashin"
  <2>1. Gates[f] = MerchantGates /\ (f \in Unjudged) = FALSE
    BY <1>7 DEF Gates, Unjudged
  <2> QED
    BY <1>7, <2>1, MerchantOrder
<1> QED
  BY <1>1, <1>2, <1>3, <1>4, <1>5, <1>6, <1>7 DEF Subscriber, External

LEMMA ReceiveOrder ==
    /\ Asks(P2PGates, {"type", "send"})
    /\ Ahead(P2PGates, "type", {"receive"}) /\ Ahead(P2PGates, "send", {"receive"})
BY DEF P2PGates, Ahead, Asks, Length

-----------------------------------------------------------------------------
(* What a payment has found                                                *)

GatesOf(j) == Gates[j.order.flow]
Done(j) == Length(GatesOf(j)) - Length(j.gates)
Past(j) == {GatesOf(j)[i] : i \in 1..Done(j)}

Carried(j) ==
    j = [order |-> j.order, gates |-> j.gates, type |-> j.type, code |-> j.code, cap |-> j.cap,
         fee |-> j.fee, commission |-> j.commission, parent |-> j.parent, pays |-> j.pays]

\* The gates to come are the last ones of the flow's.
Queue(j) ==
    /\ Carried(j) /\ j.order \in Orders
    /\ j.gates \in Seq(GateNames) /\ Length(j.gates) \in 1..Length(GatesOf(j))
    /\ \A i \in 1..Length(j.gates) : j.gates[i] = GatesOf(j)[Done(j) + i]

LEMMA FlowOrdered ==
    ASSUME NEW j, j.order \in Orders
    PROVE  /\ Ordered(GatesOf(j), j.order.flow \in Unjudged) /\ Asks(GatesOf(j), Owed(j.order.flow))
           /\ Length(GatesOf(j)) \in Nat /\ Length(GatesOf(j)) > 1
<1>1. j.order.flow \in Subscriber \cup External
  BY FlowsAssumption
<1>2. Ordered(GatesOf(j), j.order.flow \in Unjudged) /\ Asks(GatesOf(j), Owed(j.order.flow))
  BY <1>1, GatesOrdered DEF GatesOf
<1> QED
  BY <1>2 DEF Ordered

LEMMA AtHead ==
    ASSUME NEW j, Queue(j)
    PROVE  /\ Length(GatesOf(j)) \in Nat /\ Done(j) \in Nat /\ Done(j) + 1 \in 1..Length(GatesOf(j))
           /\ Head(j.gates) = GatesOf(j)[Done(j) + 1]
           /\ Head(j.gates) = "post" <=> Length(j.gates) = 1
<1>1. Ordered(GatesOf(j), j.order.flow \in Unjudged) /\ Length(GatesOf(j)) \in Nat
  BY FlowOrdered DEF Queue
<1>2. Length(j.gates) \in Nat /\ Length(j.gates) >= 1 /\ Length(j.gates) <= Length(GatesOf(j))
  BY <1>1 DEF Queue
<1>3. Done(j) \in Nat /\ Done(j) + 1 \in 1..Length(GatesOf(j))
  BY <1>1, <1>2 DEF Done
<1>4. Head(j.gates) = GatesOf(j)[Done(j) + 1]
  BY <1>2 DEF Queue
<1>5. Head(j.gates) = "post" <=> Done(j) + 1 = Length(GatesOf(j))
  BY <1>1, <1>3, <1>4 DEF Ordered
<1>6. Done(j) = Length(GatesOf(j)) - Length(j.gates)
  BY DEF Done
<1>7. Done(j) + 1 = Length(GatesOf(j)) <=> Length(j.gates) = 1
  BY <1>1, <1>2, <1>6
<1> QED
  BY <1>1, <1>3, <1>4, <1>5, <1>7

\* What comes after the next gate has not been asked,
LEMMA NotYet ==
    ASSUME NEW j, Queue(j), NEW names, Ahead(GatesOf(j), Head(j.gates), names)
    PROVE  Past(j) \cap names = {}
<1> SUFFICES ASSUME NEW i \in 1..Done(j), GatesOf(j)[i] \in names
             PROVE  FALSE
  BY DEF Past
<1>1. Done(j) \in Nat /\ Done(j) + 1 \in 1..Length(GatesOf(j)) /\ Length(GatesOf(j)) \in Nat
  BY AtHead
<1>2. i \in 1..Length(GatesOf(j))
  BY <1>1
<1>3. Done(j) + 1 < i
  BY <1>1, <1>2, AtHead DEF Ahead
<1> QED
  BY <1>1, <1>3

\* and what comes before it has.
LEMMA Already ==
    ASSUME NEW j, Queue(j), NEW g, NEW names, Asks(GatesOf(j), {g}), Ahead(GatesOf(j), g, names),
           Head(j.gates) \in names
    PROVE  g \in Past(j)
<1>1. Done(j) \in Nat /\ Done(j) + 1 \in 1..Length(GatesOf(j)) /\ Length(GatesOf(j)) \in Nat
  BY AtHead
<1>2. PICK i \in 1..Length(GatesOf(j)) : GatesOf(j)[i] = g
  BY DEF Asks
<1>3. i < Done(j) + 1
  BY <1>1, <1>2, AtHead DEF Ahead
<1> QED
  BY <1>1, <1>2, <1>3 DEF Past

LEMMA Rest ==
    ASSUME NEW S, NEW q \in Seq(S), Length(q) > 0
    PROVE  /\ Tail(q) \in Seq(S) /\ Length(Tail(q)) = Length(q) - 1
           /\ \A i \in 1..Length(q) - 1 : Tail(q)[i] = q[i + 1]
BY DEF Length

\* A gate that is passed joins the ones before it.
LEMMA MoveOn ==
    ASSUME NEW j, Queue(j), Head(j.gates) # "post", NEW k, k.order = j.order, k.gates = Tail(j.gates),
           Carried(k)
    PROVE  Queue(k) /\ Past(k) = Past(j) \cup {Head(j.gates)}
<1>1. /\ Length(GatesOf(j)) \in Nat /\ Done(j) \in Nat /\ Done(j) + 1 \in 1..Length(GatesOf(j))
      /\ Head(j.gates) = GatesOf(j)[Done(j) + 1] /\ Length(j.gates) # 1
  BY AtHead
<1>2. /\ j.gates \in Seq(GateNames) /\ Length(j.gates) \in Nat /\ Length(j.gates) > 1
      /\ Length(j.gates) <= Length(GatesOf(j))
  <2>1. j.gates \in Seq(GateNames) /\ Length(j.gates) \in 1..Length(GatesOf(j))
    BY DEF Queue
  <2> QED
    BY <1>1, <2>1
<1>3. /\ Tail(j.gates) \in Seq(GateNames) /\ Length(Tail(j.gates)) = Length(j.gates) - 1
      /\ \A i \in 1..Length(j.gates) - 1 : Tail(j.gates)[i] = j.gates[i + 1]
  <2>1. Length(j.gates) > 0
    BY <1>2
  <2> QED
    BY <1>2, <2>1, Rest
<1>4. GatesOf(k) = GatesOf(j) /\ Done(k) = Done(j) + 1
  <2>1. GatesOf(k) = GatesOf(j)
    BY DEF GatesOf
  <2>2. Done(k) = Length(GatesOf(k)) - Length(k.gates) /\ Done(j) = Length(GatesOf(j)) - Length(j.gates)
    BY DEF Done
  <2> QED
    BY <1>1, <1>2, <1>3, <2>1, <2>2
<1>5. \A n \in 1..Length(j.gates) : j.gates[n] = GatesOf(j)[Done(j) + n]
  BY DEF Queue
<1>6. ASSUME NEW i \in 1..Length(k.gates)
      PROVE  k.gates[i] = GatesOf(k)[Done(k) + i]
  <2>1. Length(k.gates) = Length(j.gates) - 1
    BY <1>3
  <2>2. i + 1 \in 1..Length(j.gates) /\ Done(k) + i = Done(j) + (i + 1) /\ i \in 1..Length(j.gates) - 1
    <3>1. i \in 1..Length(j.gates) - 1
      BY <2>1
    <3>2. i + 1 \in 1..Length(j.gates)
      BY <1>2, <3>1
    <3>3. Done(k) + i = Done(j) + (i + 1)
      BY <1>1, <1>4, <3>1
    <3> QED
      BY <3>1, <3>2, <3>3
  <2>3. j.gates[i + 1] = GatesOf(j)[Done(j) + (i + 1)]
    BY <1>5, <2>2
  <2>4. k.gates[i] = j.gates[i + 1]
    BY <1>3, <2>2
  <2> QED
    BY <1>4, <2>2, <2>3, <2>4
<1>7. Queue(k)
  <2>1. k.order \in Orders /\ k.gates \in Seq(GateNames)
    BY <1>3 DEF Queue
  <2>2. Length(k.gates) \in 1..Length(GatesOf(k))
    BY <1>1, <1>2, <1>3, <1>4
  <2> QED
    BY <1>6, <2>1, <2>2 DEF Queue
<1>8. Past(k) = {GatesOf(j)[i] : i \in 1..Done(j) + 1}
  BY <1>4 DEF Past
<1>9. 1..Done(j) + 1 = (1..Done(j)) \cup {Done(j) + 1}
  BY <1>1
<1> QED
  BY <1>1, <1>7, <1>8, <1>9 DEF Past

\* Who comes to the last gate has passed all that the flow owes.
LEMMA AllAsked ==
    ASSUME NEW j, Queue(j), Head(j.gates) = "post"
    PROVE  Owed(j.order.flow) \subseteq Past(j)
<1>1. /\ Length(GatesOf(j)) \in Nat /\ Done(j) = Length(GatesOf(j)) - 1
      /\ Ordered(GatesOf(j), j.order.flow \in Unjudged) /\ Asks(GatesOf(j), Owed(j.order.flow))
  BY AtHead, FlowOrdered DEF Done, Queue
<1>2. "post" \notin Owed(j.order.flow)
  BY DEF Owed
<1> SUFFICES ASSUME NEW g \in Owed(j.order.flow)
             PROVE  g \in Past(j)
  OBVIOUS
<1>3. PICK i \in 1..Length(GatesOf(j)) : GatesOf(j)[i] = g
  BY <1>1 DEF Asks
<1>4. i # Length(GatesOf(j))
  BY <1>1, <1>2, <1>3 DEF Ordered
<1> QED
  BY <1>1, <1>3, <1>4 DEF Past

Whose(j) == typeOf[Judged(j.order)]
Rate(j) == Commission(j.code, Earner(j.order), j.order.amount)

\* What a gate that was passed says of the payment, as long as the rules stay.
Answer(j, g) ==
    LET o == j.order
    IN  /\ g = "type" => j.type = Whose(j)
        /\ g = "code" => Resolves(j.code, IF o.flow \in Unjudged THEN None ELSE Whose(j))
        /\ g = "permission" => Permits(RolesOf(o.payer), j.code)
        /\ g = "service" /\ o.flow \notin Unjudged => Allows(j.code, Whose(j))
        /\ g = "payee" => o.payer # o.payee
        /\ g = "agent" => Category[typeOf[o.payee]] = "retail"
        /\ g = "wallets" => WalletsThere(o)
        /\ g = "configured" => Configured(j.code, Whose(j))
        /\ g = "limits" => Within(FindLimit(j.code, Whose(j)), o.amount)
        /\ g = "send" => j.cap = FindWalletLimit(Whose(j)) /\ Within(j.cap, o.amount)
        /\ g = "receive" => Within(FindWalletLimit(typeOf[o.payee]), o.amount)
        /\ g = "step_up" => o.pin \/ Trusted(o.amount)
        /\ g = "fee" => j.fee = Fee(j.code, Whose(j), o.amount)
        /\ g = "commission" =>
              j.commission = Rate(j).own /\ j.parent = Rate(j).parent /\ j.pays = Rate(j).pays
        /\ g = "earner" /\ Rate(j).own > 0 => <<Earner(o), Rate(j).pays, Currency>> \in wallets

Found(j, past) ==
    /\ \A g \in past : Answer(j, g)
    /\ j.type = IF "type" \in past THEN Whose(j) ELSE None

asked == <<types, typeOf, superior, roles, holders, wallets, services, granted, denied, rows>>

\* The answers stand as long as the rows do.
LEMMA RightsStand ==
    ASSUME UNCHANGED asked
    PROVE  /\ \A code, u : Resolves(code, u)' = Resolves(code, u) /\ Allows(code, u)' = Allows(code, u)
           /\ \A u, code : Permits(RolesOf(u), code)' = Permits(RolesOf(u), code)
           /\ \A o : WalletsThere(o)' = WalletsThere(o)
BY DEF asked, Resolves, Allows, Permits, Holds, RolesOf, WalletsThere

LEMMA RowsStand ==
    ASSUME UNCHANGED asked
    PROVE  /\ \A kind, code, type : For(kind, code, type)' = For(kind, code, type)
           /\ \A code, type, n : FindPricing(code, type, n)' = FindPricing(code, type, n)
           /\ \A code, type, n : FindCommission(code, type, n)' = FindCommission(code, type, n)
           /\ \A code, type : FindLimit(code, type)' = FindLimit(code, type)
           /\ \A type : FindWalletLimit(type)' = FindWalletLimit(type)
           /\ \A code : FindPolicy(code)' = FindPolicy(code)
<1>1. \A kind, code, type : For(kind, code, type)' = For(kind, code, type)
  BY DEF asked, For
<1> QED
  BY <1>1 DEF FindPricing, FindCommission, FindLimit, FindWalletLimit, FindPolicy

LEMMA CostsStand ==
    ASSUME UNCHANGED asked
    PROVE  /\ \A code, type : Configured(code, type)' = Configured(code, type)
           /\ \A n : Trusted(n)' = Trusted(n)
           /\ \A code, type, n : Fee(code, type, n)' = Fee(code, type, n)
           /\ \A code, u, n : Commission(code, u, n)' = Commission(code, u, n)
<1>1. \A u, pays : ParentPaid(u, pays)' = ParentPaid(u, pays)
  BY DEF asked, ParentPaid
<1>2. \A code, u, n : FindCommission(code, typeOf[u], n)' = FindCommission(code, typeOf[u], n)
  BY RowsStand DEF asked
<1>3. \A code, u, n : Commission(code, u, n)' = Commission(code, u, n)
  BY <1>1, <1>2 DEF Commission
<1> QED
  BY <1>3, RowsStand DEF Configured, PricingExists, LimitExists, Trusted, Fee

\* Nothing but the rules and what the payment holds decides an answer.
LEMMA AnswersStand ==
    ASSUME UNCHANGED asked
    PROVE  \A j, past : Found(j, past) => Found(j, past)'
<1> SUFFICES ASSUME NEW j, NEW past, Found(j, past)
             PROVE  Found(j, past)'
  OBVIOUS
<1>1. Whose(j)' = Whose(j) /\ \A u : typeOf'[u] = typeOf[u]
  BY DEF asked, Whose
<1>2. Rate(j)' = Rate(j)
  BY CostsStand DEF Rate
<1>3. ASSUME NEW g, Answer(j, g)
      PROVE  Answer(j, g)'
  BY <1>1, <1>2, <1>3, RightsStand, RowsStand, CostsStand DEF Answer, asked
<1> QED
  BY <1>1, <1>3 DEF Found
-----------------------------------------------------------------------------
(* One gate of a payment                                                   *)

Sound(s) == pc[s] = "pay" => Queue(job[s]) /\ (s \notin stirred => Found(job[s], Past(job[s])))

\* The request ends, or comes to its next gate with every answer it was given.
Moves(s) ==
    /\ pc[s] = "pay"
    /\ \/ End(s)
       \/ \E k : Work(s, "pay", k) /\ Queue(k) /\ (s \notin stirred => Found(k, Past(k)))

\* A step past a gate, if its answer and the earlier ones hold of what is left.
LEMMA Passing ==
    ASSUME NEW s \in Sessions, Sound(s), NEW g, At(s, g), g # "post", NEW k, Carried(k), Work(s, "pay", k),
           k.order = job[s].order, k.gates = Tail(job[s].gates),
           s \notin stirred => \A h \in Past(job[s]) \cup {g} : Answer(k, h),
           s \notin stirred => k.type = IF g = "type" THEN Whose(k) ELSE job[s].type
    PROVE  Moves(s)
<1>1. pc[s] = "pay" /\ Queue(job[s]) /\ Head(job[s].gates) = g
  BY DEF At, Sound
<1>2. Queue(k) /\ Past(k) = Past(job[s]) \cup {g}
  BY <1>1, MoveOn
<1>3. ASSUME s \notin stirred
      PROVE  Found(k, Past(k))
  <2>1. Found(job[s], Past(job[s])) /\ Whose(k) = Whose(job[s])
    BY <1>1, <1>3 DEF Sound, Whose
  <2> QED
    BY <1>2, <1>3, <2>1 DEF Found
<1> QED
  BY <1>1, <1>2, <1>3 DEF Moves

\* The fields an answer is about, but for the gates to come.
Alike(j, k) ==
    /\ k.order = j.order /\ k.type = j.type /\ k.code = j.code /\ k.cap = j.cap /\ k.fee = j.fee
    /\ k.commission = j.commission /\ k.parent = j.parent /\ k.pays = j.pays

LEMMA Onward ==
    ASSUME NEW j, Carried(j), NEW k, k = [j EXCEPT !.gates = Tail(j.gates)]
    PROVE  Carried(k) /\ Alike(j, k) /\ k.gates = Tail(j.gates)
BY DEF Carried, Alike

LEMMA AlikeAnswers ==
    ASSUME NEW j, NEW k, Alike(j, k), NEW g, Answer(j, g)
    PROVE  Answer(k, g)
BY DEF Alike, Answer, Whose, Rate

\* A gate that leaves nothing behind but its answer.
LEMMA Asking ==
    ASSUME NEW s \in Sessions, Sound(s), NEW g, At(s, g), g # "post", g # "type",
           \/ End(s)
           \/ /\ Work(s, "pay", [job[s] EXCEPT !.gates = Tail(job[s].gates)])
              /\ s \notin stirred => Answer(job[s], g)
    PROVE  Moves(s)
<1> DEFINE j == job[s]
           k == [j EXCEPT !.gates = Tail(j.gates)]
<1>1. pc[s] = "pay" /\ Queue(j)
  BY DEF At, Sound
<1>2. CASE End(s)
  BY <1>1, <1>2 DEF Moves
<1>3. CASE Work(s, "pay", k) /\ (s \notin stirred => Answer(j, g))
  <2>1. Carried(k) /\ Alike(j, k) /\ k.gates = Tail(j.gates)
    BY <1>1, Onward DEF Queue
  <2>2. ASSUME s \notin stirred, NEW h \in Past(j) \cup {g}
        PROVE  Answer(k, h)
    <3>1. Answer(j, h)
      BY <1>1, <1>3, <2>2 DEF Sound, Found
    <3> QED
      BY <2>1, <3>1, AlikeAnswers
  <2> HIDE DEF k
  <2> QED
    BY <1>3, <2>1, <2>2, Passing DEF Alike
<1> QED
  BY <1>2, <1>3

\* What the order of the gates lets each of them know.
LEMMA TypeIsKnown ==
    ASSUME NEW j, Queue(j),
           \/ Head(j.gates) \in UnderType
           \/ j.order.flow \notin Unjudged /\ Head(j.gates) \in {"code", "service"}
    PROVE  "type" \in Past(j)
<1>1. Ordered(GatesOf(j), j.order.flow \in Unjudged) /\ Asks(GatesOf(j), Owed(j.order.flow))
  BY FlowOrdered DEF Queue
<1>2. Asks(GatesOf(j), {"type"})
  BY <1>1 DEF Asks, Owed
<1>3. CASE Head(j.gates) \in UnderType
  BY <1>1, <1>2, <1>3, Already DEF Ordered
<1>4. CASE j.order.flow \notin Unjudged /\ Head(j.gates) \in {"code", "service"}
  <2>1. Ahead(GatesOf(j), "type", {"code", "service"})
    BY <1>1, <1>4 DEF Ordered
  <2> QED
    BY <1>2, <1>4, <2>1, Already
<1> QED
  BY <1>3, <1>4

LEMMA CodeIsAhead ==
    ASSUME NEW j, Queue(j), Head(j.gates) = "code"
    PROVE  /\ Past(j) \cap UnderCode = {}
           /\ j.order.flow \in Unjudged => "type" \notin Past(j)
<1>1. Ordered(GatesOf(j), j.order.flow \in Unjudged)
  BY FlowOrdered DEF Queue
<1>2. Ahead(GatesOf(j), "code", UnderCode)
  BY <1>1 DEF Ordered
<1>3. j.order.flow \in Unjudged => Ahead(GatesOf(j), "code", {"type"})
  BY <1>1 DEF Ordered
<1>4. j.order.flow \in Unjudged => Past(j) \cap {"type"} = {}
  BY <1>3, NotYet
<1> QED
  BY <1>2, <1>4, NotYet

LEMMA CommissionIsKnown ==
    ASSUME NEW j, Queue(j), Head(j.gates) = "earner"
    PROVE  "commission" \in Past(j)
<1>1. Ordered(GatesOf(j), j.order.flow \in Unjudged)
  BY FlowOrdered DEF Queue
<1>2. Asks(GatesOf(j), {"commission"})
  BY <1>1, AtHead DEF Ordered
<1> QED
  BY <1>1, <1>2, Already DEF Ordered

LEMMA CapIsKnown ==
    ASSUME NEW j, Queue(j), j.order.flow = "p2p", Head(j.gates) = "receive"
    PROVE  {"type", "send"} \subseteq Past(j)
<1>1. GatesOf(j) = P2PGates
  BY DEF GatesOf, Gates
<1>2. Asks(GatesOf(j), {"type"}) /\ Asks(GatesOf(j), {"send"})
  BY <1>1, ReceiveOrder DEF Asks
<1>3. "type" \in Past(j)
  BY <1>1, <1>2, ReceiveOrder, Already
<1>4. "send" \in Past(j)
  BY <1>1, <1>2, ReceiveOrder, Already
<1> QED
  BY <1>3, <1>4

\* The gates that only ask.
LEMMA AskMoves ==
    ASSUME NEW s \in Sessions, Sound(s), NEW active,
           \/ RequirePermission(s) \/ FindExisting(s) \/ CheckStanding(s, active) \/ CheckPayee(s)
           \/ CheckAgent(s) \/ FindWallets(s) \/ CheckFunds(s) \/ EnforceStepUp(s)
    PROVE  Moves(s)
<1>1. \A g : g \in {"replay", "standing", "funds"} => Answer(job[s], g)
  BY DEF Answer
<1>2. CASE FindExisting(s) \/ CheckStanding(s, active) \/ CheckFunds(s)
  <2>1. \E g \in {"replay", "standing", "funds"} :
           At(s, g) /\ (Work(s, "pay", [job[s] EXCEPT !.gates = Tail(job[s].gates)]) \/ End(s))
    BY <1>2 DEF FindExisting, CheckStanding, CheckFunds, Ask, Turn
  <2> QED
    BY <1>1, <2>1, Asking
<1>3. CASE RequirePermission(s)
  <2>1. /\ At(s, "permission")
        /\ IF Permits(RolesOf(job[s].order.payer), job[s].code)
           THEN Work(s, "pay", [job[s] EXCEPT !.gates = Tail(job[s].gates)]) ELSE End(s)
    BY <1>3 DEF RequirePermission, Ask, Turn
  <2>2. Permits(RolesOf(job[s].order.payer), job[s].code) => Answer(job[s], "permission")
    BY DEF Answer
  <2> QED
    BY <2>1, <2>2, Asking
<1>4. CASE CheckPayee(s)
  <2>1. /\ At(s, "payee")
        /\ IF job[s].order.payer # job[s].order.payee
           THEN Work(s, "pay", [job[s] EXCEPT !.gates = Tail(job[s].gates)]) ELSE End(s)
    BY <1>4 DEF CheckPayee, Ask, Turn
  <2>2. job[s].order.payer # job[s].order.payee => Answer(job[s], "payee")
    BY DEF Answer
  <2> QED
    BY <2>1, <2>2, Asking
<1>5. CASE CheckAgent(s)
  <2>1. /\ At(s, "agent")
        /\ \/ Category[typeOf[job[s].order.payee]] = "retail"
              /\ Work(s, "pay", [job[s] EXCEPT !.gates = Tail(job[s].gates)])
           \/ End(s)
    BY <1>5 DEF CheckAgent, Ask, Turn
  <2>2. Category[typeOf[job[s].order.payee]] = "retail" => Answer(job[s], "agent")
    BY DEF Answer
  <2> QED
    BY <2>1, <2>2, Asking
<1>6. CASE FindWallets(s)
  <2>1. /\ At(s, "wallets")
        /\ IF WalletsThere(job[s].order)
           THEN Work(s, "pay", [job[s] EXCEPT !.gates = Tail(job[s].gates)]) ELSE End(s)
    BY <1>6 DEF FindWallets, Ask, Turn
  <2>2. WalletsThere(job[s].order) => Answer(job[s], "wallets")
    BY DEF Answer
  <2> QED
    BY <2>1, <2>2, Asking
<1>7. CASE EnforceStepUp(s)
  <2>1. /\ At(s, "step_up")
        /\ IF job[s].order.pin \/ Trusted(job[s].order.amount)
           THEN Work(s, "pay", [job[s] EXCEPT !.gates = Tail(job[s].gates)]) ELSE End(s)
    BY <1>7 DEF EnforceStepUp, Ask, Turn
  <2>2. job[s].order.pin \/ Trusted(job[s].order.amount) => Answer(job[s], "step_up")
    BY DEF Answer
  <2> QED
    BY <2>1, <2>2, Asking
<1> QED
  BY <1>2, <1>3, <1>4, <1>5, <1>6, <1>7

\* The gates that ask about the type, the service or the commission found.
LEMMA JudgeMoves ==
    ASSUME NEW s \in Sessions, Sound(s), CheckService(s) \/ CheckConfigured(s) \/ CheckLimits(s)
    PROVE  Moves(s)
<1> DEFINE j == job[s]
           next == [j EXCEPT !.gates = Tail(j.gates)]
<1>1. ASSUME s \notin stirred, pc[s] = "pay",
             \/ Head(j.gates) \in {"configured", "limits"}
             \/ j.order.flow \notin Unjudged /\ Head(j.gates) = "service"
      PROVE  j.type = Whose(j)
  BY <1>1, TypeIsKnown DEF Sound, Found, UnderType
<1>2. CASE CheckService(s)
  <2>1. At(s, "service") /\ ((Allows(j.code, j.type) /\ Work(s, "pay", next)) \/ End(s))
    BY <1>2 DEF CheckService, Ask, Turn
  <2>2. Allows(j.code, j.type) /\ s \notin stirred => Answer(j, "service")
    BY <1>1, <2>1 DEF Answer, At
  <2> QED
    BY <2>1, <2>2, Asking
<1>3. CASE CheckConfigured(s)
  <2>1. At(s, "configured") /\ ((Configured(j.code, j.type) /\ Work(s, "pay", next)) \/ End(s))
    BY <1>3 DEF CheckConfigured, Ask, Turn
  <2>2. Configured(j.code, j.type) /\ s \notin stirred => Answer(j, "configured")
    BY <1>1, <2>1 DEF Answer, At
  <2> QED
    BY <2>1, <2>2, Asking
<1>4. CASE CheckLimits(s)
  <2>1. /\ At(s, "limits")
        /\ ((Within(FindLimit(j.code, j.type), j.order.amount) /\ Work(s, "pay", next)) \/ End(s))
    BY <1>4 DEF CheckLimits, Ask, Turn
  <2>2. Within(FindLimit(j.code, j.type), j.order.amount) /\ s \notin stirred => Answer(j, "limits")
    BY <1>1, <2>1 DEF Answer, At
  <2> QED
    BY <2>1, <2>2, Asking
<1> QED
  BY <1>2, <1>3, <1>4

\* The cap a p2p payment kept is the payee's too when the types are one.
LEMMA ReceiveMoves ==
    ASSUME NEW s \in Sessions, Sound(s), CheckReceive(s)
    PROVE  Moves(s)
<1> DEFINE j == job[s]
           o == j.order
           known == o.flow = "p2p" /\ typeOf[o.payee] = j.type
           row == IF known THEN j.cap ELSE FindWalletLimit(typeOf[o.payee])
<1>1. /\ At(s, "receive")
      /\ \/ Within(row, o.amount) /\ Work(s, "pay", [j EXCEPT !.gates = Tail(j.gates)])
         \/ End(s)
  BY DEF CheckReceive, Ask, Turn
<1>2. s \notin stirred => row = FindWalletLimit(typeOf[o.payee])
  <2> SUFFICES ASSUME s \notin stirred, known
               PROVE  j.cap = FindWalletLimit(typeOf[o.payee])
    OBVIOUS
  <2>1. Queue(j) /\ Found(j, Past(j)) /\ Head(j.gates) = "receive"
    BY <1>1 DEF At, Sound
  <2>2. {"type", "send"} \subseteq Past(j)
    BY <2>1, CapIsKnown
  <2>3. j.type = Whose(j) /\ Answer(j, "send")
    BY <2>1, <2>2 DEF Found
  <2> QED
    BY <2>3 DEF Answer
<1>3. Within(row, o.amount) /\ s \notin stirred => Answer(j, "receive")
  BY <1>2 DEF Answer
<1> QED
  BY <1>1, <1>3, Asking

LEMMA EarnerMoves ==
    ASSUME NEW s \in Sessions, Sound(s), ResolveEarner(s)
    PROVE  Moves(s)
<1> DEFINE j == job[s]
           there == j.commission > 0 => <<Earner(j.order), j.pays, Currency>> \in wallets
<1>1. /\ At(s, "earner")
      /\ \/ End(s)
         \/ there /\ Work(s, "pay", [j EXCEPT !.gates = Tail(j.gates)])
  BY DEF ResolveEarner, Ask, Turn
<1>2. ASSUME s \notin stirred, there
      PROVE  Answer(j, "earner")
  <2>1. Queue(j) /\ Found(j, Past(j)) /\ Head(j.gates) = "earner"
    BY <1>1, <1>2 DEF At, Sound
  <2>2. Answer(j, "commission")
    BY <2>1, CommissionIsKnown DEF Found
  <2> QED
    BY <1>2, <2>2 DEF Answer
<1> QED
  BY <1>1, <1>2, Asking

\* The gates that leave something for the later ones.
LEMMA TypeKept ==
    ASSUME NEW j, Carried(j), NEW w, NEW v, NEW k, k = [j EXCEPT !.type = v, !.gates = w]
    PROVE  k = [order |-> j.order, gates |-> w, type |-> v, code |-> j.code, cap |-> j.cap,
                fee |-> j.fee, commission |-> j.commission, parent |-> j.parent, pays |-> j.pays]
BY DEF Carried

LEMMA CodeKept ==
    ASSUME NEW j, Carried(j), NEW w, NEW v, NEW k, k = [j EXCEPT !.code = v, !.gates = w]
    PROVE  k = [order |-> j.order, gates |-> w, type |-> j.type, code |-> v, cap |-> j.cap,
                fee |-> j.fee, commission |-> j.commission, parent |-> j.parent, pays |-> j.pays]
BY DEF Carried

LEMMA CapKept ==
    ASSUME NEW j, Carried(j), NEW w, NEW v, NEW k, k = [j EXCEPT !.cap = v, !.gates = w]
    PROVE  k = [order |-> j.order, gates |-> w, type |-> j.type, code |-> j.code, cap |-> v,
                fee |-> j.fee, commission |-> j.commission, parent |-> j.parent, pays |-> j.pays]
BY DEF Carried

LEMMA FeeKept ==
    ASSUME NEW j, Carried(j), NEW w, NEW v, NEW k, k = [j EXCEPT !.fee = v, !.gates = w]
    PROVE  k = [order |-> j.order, gates |-> w, type |-> j.type, code |-> j.code, cap |-> j.cap,
                fee |-> v, commission |-> j.commission, parent |-> j.parent, pays |-> j.pays]
BY DEF Carried

LEMMA CommissionKept ==
    ASSUME NEW j, Carried(j), NEW w, NEW a, NEW b, NEW c, NEW k,
           k = [j EXCEPT !.commission = a, !.parent = b, !.pays = c, !.gates = w]
    PROVE  k = [order |-> j.order, gates |-> w, type |-> j.type, code |-> j.code, cap |-> j.cap,
                fee |-> j.fee, commission |-> a, parent |-> b, pays |-> c]
BY DEF Carried

LEMMA TypeMoves ==
    ASSUME NEW s \in Sessions, Sound(s), ReadType(s)
    PROVE  Moves(s)
<1> DEFINE j == job[s]
<1>1. /\ At(s, "type")
      /\ \/ End(s)
         \/ \E k :
               k = [j EXCEPT !.type = Whose(j), !.gates = Tail(j.gates)] /\ Work(s, "pay", k)
  BY DEF ReadType, Turn, Whose
<1>2. pc[s] = "pay" /\ Queue(j) /\ Head(j.gates) = "type"
  BY <1>1 DEF At, Sound
<1>3. CASE End(s)
  BY <1>2, <1>3 DEF Moves
<1>4. ASSUME NEW k, k = [j EXCEPT !.type = Whose(j), !.gates = Tail(j.gates)],
             Work(s, "pay", k)
      PROVE  Moves(s)
  <2>1. /\ Carried(k) /\ k.order = j.order /\ k.gates = Tail(j.gates)
        /\ k.type = Whose(j) /\ k.code = j.code /\ k.cap = j.cap /\ k.fee = j.fee
        /\ k.commission = j.commission /\ k.parent = j.parent /\ k.pays = j.pays
    <3>1. Carried(j)
      BY <1>2 DEF Queue
    <3> QED
      BY <1>4, <3>1, TypeKept DEF Carried
  <2>2. Whose(k) = Whose(j)
    BY <2>1 DEF Whose
  <2>3. ASSUME s \notin stirred, NEW h \in Past(j) \cup {"type"}
        PROVE  Answer(k, h)
    <3>1. Found(j, Past(j)) /\ (h # "type" => Answer(j, h))
      BY <1>2, <2>3 DEF Sound, Found
    <3> QED
      BY <2>1, <2>2, <3>1 DEF Answer, Rate
  <2> QED
    BY <1>1, <1>4, <2>1, <2>2, <2>3, Passing
<1> QED
  BY <1>1, <1>3, <1>4

LEMMA CodeMoves ==
    ASSUME NEW s \in Sessions, Sound(s), ResolveService(s)
    PROVE  Moves(s)
<1> DEFINE j == job[s]
           code == IF j.order.code = None THEN Base ELSE j.order.code
<1>1. /\ At(s, "code")
      /\ \/ End(s)
         \/ Resolves(code, j.type) /\ \E k :
               k = [j EXCEPT !.code = code, !.gates = Tail(j.gates)] /\ Work(s, "pay", k)
  BY DEF ResolveService, Turn
<1>2. pc[s] = "pay" /\ Queue(j) /\ Head(j.gates) = "code"
  BY <1>1 DEF At, Sound
<1>3. CASE End(s)
  BY <1>2, <1>3 DEF Moves
<1>4. ASSUME NEW k, k = [j EXCEPT !.code = code, !.gates = Tail(j.gates)],
             Work(s, "pay", k), Resolves(code, j.type)
      PROVE  Moves(s)
  <2>1. /\ Carried(k) /\ k.order = j.order /\ k.gates = Tail(j.gates)
        /\ k.type = j.type /\ k.code = code /\ k.cap = j.cap /\ k.fee = j.fee
        /\ k.commission = j.commission /\ k.parent = j.parent /\ k.pays = j.pays
    <3>1. Carried(j)
      BY <1>2 DEF Queue
    <3> QED
      BY <1>4, <3>1, CodeKept DEF Carried
  <2>2. Whose(k) = Whose(j)
    BY <2>1 DEF Whose
  <2>3. ASSUME s \notin stirred, NEW h \in Past(j) \cup {"code"}
        PROVE  Answer(k, h)
    <3>1. Found(j, Past(j)) /\ (h # "code" => Answer(j, h))
      BY <1>2, <2>3 DEF Sound, Found
    <3>2. CASE h = "code"
      <4>1. j.order.flow \in Unjudged => j.type = None
        BY <1>2, <3>1, CodeIsAhead DEF Found
      <4>2. j.order.flow \notin Unjudged => j.type = Whose(j)
        BY <1>2, <3>1, TypeIsKnown DEF Found
      <4> QED
        BY <1>4, <2>1, <2>2, <3>2, <4>1, <4>2 DEF Answer
    <3>3. CASE h # "code"
      <4>1. h \notin UnderCode
        BY <1>2, <2>3, <3>3, CodeIsAhead
      <4> QED
        BY <2>1, <2>2, <3>1, <3>3, <4>1 DEF Answer, UnderCode
    <3> QED
      BY <3>2, <3>3
  <2> QED
    BY <1>1, <1>4, <2>1, <2>2, <2>3, Passing
<1> QED
  BY <1>1, <1>3, <1>4

LEMMA SendMoves ==
    ASSUME NEW s \in Sessions, Sound(s), CheckSend(s)
    PROVE  Moves(s)
<1> DEFINE j == job[s]
           row == FindWalletLimit(j.type)
<1>1. /\ At(s, "send")
      /\ \/ End(s)
         \/ Within(row, j.order.amount) /\ \E k :
               k = [j EXCEPT !.cap = row, !.gates = Tail(j.gates)] /\ Work(s, "pay", k)
  BY DEF CheckSend, Turn
<1>2. pc[s] = "pay" /\ Queue(j) /\ Head(j.gates) = "send"
  BY <1>1 DEF At, Sound
<1>3. CASE End(s)
  BY <1>2, <1>3 DEF Moves
<1>4. ASSUME NEW k, k = [j EXCEPT !.cap = row, !.gates = Tail(j.gates)],
             Work(s, "pay", k), Within(row, j.order.amount)
      PROVE  Moves(s)
  <2>1. /\ Carried(k) /\ k.order = j.order /\ k.gates = Tail(j.gates)
        /\ k.type = j.type /\ k.code = j.code /\ k.cap = row /\ k.fee = j.fee
        /\ k.commission = j.commission /\ k.parent = j.parent /\ k.pays = j.pays
    <3>1. Carried(j)
      BY <1>2 DEF Queue
    <3> QED
      BY <1>4, <3>1, CapKept DEF Carried
  <2>2. Whose(k) = Whose(j)
    BY <2>1 DEF Whose
  <2>3. ASSUME s \notin stirred, NEW h \in Past(j) \cup {"send"}
        PROVE  Answer(k, h)
    <3>1. Found(j, Past(j)) /\ (h # "send" => Answer(j, h))
      BY <1>2, <2>3 DEF Sound, Found
    <3>2. j.type = Whose(j)
      BY <1>2, <3>1, TypeIsKnown DEF Found, UnderType
    <3> QED
      BY <1>4, <2>1, <2>2, <3>1, <3>2 DEF Answer, Rate
  <2> QED
    BY <1>1, <1>4, <2>1, <2>2, <2>3, Passing
<1> QED
  BY <1>1, <1>3, <1>4

LEMMA FeeMoves ==
    ASSUME NEW s \in Sessions, Sound(s), ResolveFee(s)
    PROVE  Moves(s)
<1> DEFINE j == job[s]
           cost == Fee(j.code, j.type, j.order.amount)
<1>1. /\ At(s, "fee")
      /\ \/ End(s)
         \/ \E k :
               k = [j EXCEPT !.fee = cost, !.gates = Tail(j.gates)] /\ Work(s, "pay", k)
  BY DEF ResolveFee, Turn
<1>2. pc[s] = "pay" /\ Queue(j) /\ Head(j.gates) = "fee"
  BY <1>1 DEF At, Sound
<1>3. CASE End(s)
  BY <1>2, <1>3 DEF Moves
<1>4. ASSUME NEW k, k = [j EXCEPT !.fee = cost, !.gates = Tail(j.gates)],
             Work(s, "pay", k)
      PROVE  Moves(s)
  <2>1. /\ Carried(k) /\ k.order = j.order /\ k.gates = Tail(j.gates)
        /\ k.type = j.type /\ k.code = j.code /\ k.cap = j.cap /\ k.fee = cost
        /\ k.commission = j.commission /\ k.parent = j.parent /\ k.pays = j.pays
    <3>1. Carried(j)
      BY <1>2 DEF Queue
    <3> QED
      BY <1>4, <3>1, FeeKept DEF Carried
  <2>2. Whose(k) = Whose(j)
    BY <2>1 DEF Whose
  <2>3. ASSUME s \notin stirred, NEW h \in Past(j) \cup {"fee"}
        PROVE  Answer(k, h)
    <3>1. Found(j, Past(j)) /\ (h # "fee" => Answer(j, h))
      BY <1>2, <2>3 DEF Sound, Found
    <3>2. j.type = Whose(j)
      BY <1>2, <3>1, TypeIsKnown DEF Found, UnderType
    <3> QED
      BY <1>4, <2>1, <2>2, <3>1, <3>2 DEF Answer, Rate
  <2> QED
    BY <1>1, <1>4, <2>1, <2>2, <2>3, Passing
<1> QED
  BY <1>1, <1>3, <1>4

LEMMA CommissionMoves ==
    ASSUME NEW s \in Sessions, Sound(s), CalculateCommission(s)
    PROVE  Moves(s)
<1> DEFINE j == job[s]
           c == Rate(j)
<1>1. /\ At(s, "commission")
      /\ \/ End(s)
         \/ \E k :
               k = [j EXCEPT !.commission = c.own, !.parent = c.parent, !.pays = c.pays,
                             !.gates = Tail(j.gates)] /\ Work(s, "pay", k)
  BY DEF CalculateCommission, Turn, Rate
<1>2. pc[s] = "pay" /\ Queue(j) /\ Head(j.gates) = "commission"
  BY <1>1 DEF At, Sound
<1>3. CASE End(s)
  BY <1>2, <1>3 DEF Moves
<1>4. ASSUME NEW k, k = [j EXCEPT !.commission = c.own, !.parent = c.parent, !.pays = c.pays,
                                       !.gates = Tail(j.gates)],
             Work(s, "pay", k)
      PROVE  Moves(s)
  <2>1. /\ Carried(k) /\ k.order = j.order /\ k.gates = Tail(j.gates)
        /\ k.type = j.type /\ k.code = j.code /\ k.cap = j.cap /\ k.fee = j.fee
        /\ k.commission = c.own /\ k.parent = c.parent /\ k.pays = c.pays
    <3>1. Carried(j)
      BY <1>2 DEF Queue
    <3> QED
      BY <1>4, <3>1, CommissionKept DEF Carried
  <2>2. Whose(k) = Whose(j)
    BY <2>1 DEF Whose
  <2>3. ASSUME s \notin stirred, NEW h \in Past(j) \cup {"commission"}
        PROVE  Answer(k, h)
    <3>1. Found(j, Past(j)) /\ (h # "commission" => Answer(j, h))
      BY <1>2, <2>3 DEF Sound, Found
    <3> QED
      BY <2>1, <2>2, <3>1 DEF Answer, Rate
  <2> QED
    BY <1>1, <1>4, <2>1, <2>2, <2>3, Passing
<1> QED
  BY <1>1, <1>3, <1>4

-----------------------------------------------------------------------------
(* Payments are governed                                                   *)

Governed == \A s \in Sessions : Sound(s)

LEMMA MovesKeep ==
    ASSUME Threads, Governed, NEW s \in Sessions, Moves(s),
           UNCHANGED <<catalogueVars, servicesVars, schedulesVars, stirred>>
    PROVE  Governed'
<1>1. UNCHANGED asked
  BY DEF asked, catalogueVars, treeVars, userVars, roleVars, walletVars, servicesVars, schedulesVars
<1>2. Only(s) /\ (pc'[s] = "pay" => Queue(job'[s]) /\ (s \notin stirred => Found(job'[s], Past(job'[s]))))
  BY Working DEF Moves, End
<1>3. Sound(s)'
  BY <1>1, <1>2, AnswersStand DEF Sound
<1>4. ASSUME NEW t \in Sessions \ {s}
      PROVE  Sound(t)'
  <2>1. Sound(t) /\ pc'[t] = pc[t] /\ job'[t] = job[t]
    BY <1>2 DEF Governed, Only
  <2> QED
    BY <1>1, <2>1, AnswersStand DEF Sound
<1> QED
  BY <1>3, <1>4 DEF Governed

\* A rule that changes is noted for whoever it may have answered.
LEMMA StirKeeps ==
    ASSUME Governed, Keeps({"pay"}), Stir
    PROVE  Governed'
<1> SUFFICES ASSUME NEW s \in Sessions, pc'[s] = "pay"
             PROVE  Sound(s)'
  BY DEF Governed, Sound
<1>1. pc[s] = "pay" /\ job'[s] = job[s] /\ Queue(job[s])
  BY DEF Keeps, Governed, Sound
<1>2. ASSUME s \notin stirred'
      PROVE  Found(job[s], Past(job[s]))'
  <2>1. rules' = rules /\ s \notin stirred
    BY <1>1, <1>2 DEF Stir, Paying
  <2>2. UNCHANGED asked
    BY <2>1 DEF rules, asked
  <2>3. Found(job[s], Past(job[s]))
    BY <1>1, <2>1 DEF Governed, Sound
  <2> QED
    BY <1>1, <2>2, <2>3, AnswersStand
<1> QED
  BY <1>1, <1>2 DEF Sound

LEMMA SendKeeps ==
    ASSUME Threads, Governed, NEW s \in Sessions, Send(s)
    PROVE  Governed'
<1>1. PICK o \in Orders :
         Work(s, "pay", [order |-> o, gates |-> Gates[o.flow], type |-> None, code |-> None, cap |-> None,
                         fee |-> 0, commission |-> 0, parent |-> 0, pays |-> "main"])
  BY DEF Send
<1>2. PICK k : /\ Work(s, "pay", k)
               /\ k = [order |-> o, gates |-> Gates[o.flow], type |-> None, code |-> None, cap |-> None,
                       fee |-> 0, commission |-> 0, parent |-> 0, pays |-> "main"]
  BY <1>1
<1>3. Carried(k) /\ k.order = o /\ k.gates = GatesOf(k) /\ k.type = None
  BY <1>2 DEF Carried, GatesOf
<1>4. Ordered(GatesOf(k), k.order.flow \in Unjudged)
  BY <1>3, FlowOrdered
<1>5. Done(k) = 0
  BY <1>3, <1>4 DEF Done, Ordered
<1>6. Queue(k) /\ Past(k) = {}
  <2>1. \A i \in 1..Length(k.gates) : k.gates[i] = GatesOf(k)[Done(k) + i]
    BY <1>3, <1>4, <1>5 DEF Ordered
  <2>2. k.gates \in Seq(GateNames) /\ Length(k.gates) \in 1..Length(GatesOf(k))
    BY <1>3, <1>4 DEF Ordered
  <2>3. 1..0 = {}
    OBVIOUS
  <2> QED
    BY <1>3, <1>5, <2>1, <2>2, <2>3 DEF Queue, Past
<1>7. Only(s) /\ job'[s] = k /\ stirred' = stirred \ {s}
  BY <1>2, Working DEF Send
<1>8. UNCHANGED asked
  BY DEF Send, asked, catalogueVars, treeVars, userVars, roleVars, walletVars, servicesVars, schedulesVars
<1>9. Found(k, {})
  BY <1>3 DEF Found
<1>10. Sound(s)'
  BY <1>6, <1>7, <1>8, <1>9, AnswersStand DEF Sound
<1>11. ASSUME NEW t \in Sessions \ {s}
       PROVE  Sound(t)'
  <2>1. Sound(t) /\ pc'[t] = pc[t] /\ job'[t] = job[t] /\ (t \in stirred' <=> t \in stirred)
    BY <1>7 DEF Governed, Only
  <2> QED
    BY <1>8, <2>1, AnswersStand DEF Sound
<1> QED
  BY <1>10, <1>11 DEF Governed

LEMMA FlowsGoverned ==
    ASSUME Threads, Governed, NEW active, FlowsNext(active)
    PROVE  Governed'
<1>1. UNCHANGED <<catalogueVars, servicesVars, schedulesVars>>
  BY FlowsRead
<1>2. ASSUME NEW s \in Sessions, NEW gate, NEW passed, NEW j, Turn(s, gate, passed, j)
      PROVE  UNCHANGED stirred
  BY <1>2 DEF Turn, flowsVars
<1>3. ASSUME NEW s \in Sessions,
             \/ RequirePermission(s) \/ FindExisting(s) \/ CheckStanding(s, active) \/ CheckPayee(s)
             \/ CheckAgent(s) \/ FindWallets(s) \/ CheckFunds(s) \/ EnforceStepUp(s)
      PROVE  Moves(s) /\ UNCHANGED stirred
  <2>1. UNCHANGED stirred
    BY <1>2, <1>3 DEF RequirePermission, FindExisting, CheckStanding, CheckPayee, CheckAgent, FindWallets,
                      CheckFunds, EnforceStepUp, Ask
  <2> QED
    BY <1>3, <2>1, AskMoves DEF Governed
<1>4. ASSUME NEW s \in Sessions, CheckService(s) \/ CheckConfigured(s) \/ CheckLimits(s)
      PROVE  Moves(s) /\ UNCHANGED stirred
  BY <1>2, <1>4, JudgeMoves DEF Governed, CheckService, CheckConfigured, CheckLimits, Ask
<1>5. ASSUME NEW s \in Sessions, CheckReceive(s) \/ ResolveEarner(s)
      PROVE  Moves(s) /\ UNCHANGED stirred
  BY <1>2, <1>5, ReceiveMoves, EarnerMoves DEF Governed, CheckReceive, ResolveEarner, Ask
<1>6. ASSUME NEW s \in Sessions,
             ReadType(s) \/ ResolveService(s) \/ CheckSend(s) \/ ResolveFee(s) \/ CalculateCommission(s)
      PROVE  Moves(s) /\ UNCHANGED stirred
  <2>1. UNCHANGED stirred
    BY <1>2, <1>6 DEF ReadType, ResolveService, CheckSend, ResolveFee, CalculateCommission
  <2> QED
    BY <1>6, <2>1, TypeMoves, CodeMoves, SendMoves, FeeMoves, CommissionMoves DEF Governed
<1>7. ASSUME NEW s \in Sessions, Post(s)
      PROVE  Moves(s) /\ UNCHANGED stirred
  BY <1>7 DEF Post, Moves, At
<1> QED
  BY <1>1, <1>3, <1>4, <1>5, <1>6, <1>7, MovesKeep, SendKeeps DEF FlowsNext

LEMMA GovernedStep == Threads /\ Governed /\ [Next]_vars => Governed'
<1> SUFFICES ASSUME Threads, Governed, [Next]_vars
             PROVE  Governed'
  OBVIOUS
<1>1. ASSUME NEW labels, Keeps(labels), "pay" \in labels, Stir
      PROVE  Governed'
  BY <1>1, StirKeeps DEF Keeps
<1>2. CASE AccessNext /\ Stir
  BY <1>1, <1>2, AccessKeeps
<1>3. CASE CatalogueNext /\ Stir
  BY <1>1, <1>3, CatalogueKeeps
<1>4. CASE ServicesNext /\ Stir
  BY <1>1, <1>4, ServicesKeep
<1>5. CASE SchedulesNext /\ Stir
  BY <1>1, <1>5, SchedulesKeep
<1>6. CASE FlowsNext(status = "active")
  BY <1>6, FlowsGoverned
<1>7. CASE UNCHANGED vars
  <2>1. Keeps({"pay"}) /\ rules' = rules /\ UNCHANGED <<stirred, receipts>>
    BY <1>7 DEF vars, Keeps, rules, accountVars, accessVars, catalogueVars, treeVars, userVars, roleVars,
                walletVars, servicesVars, schedulesVars, flowsVars
  <2> QED
    BY <2>1, StirKeeps DEF Stir
<1> QED
  BY <1>2, <1>3, <1>4, <1>5, <1>6, <1>7 DEF Next

\* What the gates of a flow found is all its rules ask of it.
LEMMA GovernedPosts ==
    ASSUME NEW j, Queue(j), Head(j.gates) = "post", Found(j, Past(j))
    PROVE  Entitled(j) /\ Affordable(j) /\ Charged(j)
<1> DEFINE o == j.order
<1>1. o.flow \in Subscriber \cup External
  BY FlowsAssumption DEF Queue
<1>2. \A g \in Owed(o.flow) : Answer(j, g)
  BY AllAsked DEF Found
<1>3. Answer(j, "code") /\ Answer(j, "wallets") /\ Answer(j, "configured") /\ Answer(j, "limits")
  BY <1>2 DEF Owed
<1>4. /\ o.flow \in Subscriber => Answer(j, "permission") /\ Answer(j, "step_up")
      /\ o.flow # "fund" => Answer(j, "send")
      /\ o.flow \in {"p2p", "fund"} => Answer(j, "receive")
      /\ o.flow \notin Unjudged => Answer(j, "service") /\ Answer(j, "fee")
      /\ o.flow \in {"p2p"} \cup Commissioned => Answer(j, "payee")
      /\ o.flow = "cash_out" => Answer(j, "agent")
      /\ o.flow \in Commissioned => Answer(j, "commission") /\ Answer(j, "earner")
  BY <1>2 DEF Owed
<1>5. Whose(j) = typeOf[Judged(o)] /\ (o.flow \notin Unjudged => Whose(j) = typeOf[o.payer])
  BY DEF Whose, Judged, Unjudged
<1>6. Entitled(j)
  <2>1. o.flow \in Subscriber => Permits(RolesOf(o.payer), j.code)
    BY <1>4 DEF Answer
  <2>2. IF o.flow \in {"fund", "withdraw"} THEN Resolves(j.code, None) ELSE Admits(j.code, typeOf[o.payer])
    BY <1>3, <1>4, <1>5 DEF Answer, Unjudged, Admits
  <2>3. /\ o.flow \in {"p2p"} \cup Commissioned => o.payer # o.payee
        /\ o.flow = "cash_out" => Category[typeOf[o.payee]] = "retail"
        /\ WalletsThere(o)
    BY <1>3, <1>4 DEF Answer
  <2> QED
    BY <2>1, <2>2, <2>3 DEF Entitled
<1>7. Affordable(j)
  <2>1. /\ For("pricing", j.code, Whose(j)) # {} /\ FindLimit(j.code, Whose(j)) # None
        /\ o.amount <= FindLimit(j.code, Whose(j)).terms
    BY <1>3 DEF Answer, Configured, PricingExists, LimitExists, Within
  <2>2. /\ o.flow # "fund" => Within(FindWalletLimit(Whose(j)), o.amount)
        /\ o.flow \in {"p2p", "fund"} => Within(FindWalletLimit(typeOf[o.payee]), o.amount)
        /\ o.flow \in Subscriber /\ ~o.pin => Trusted(o.amount)
    BY <1>4 DEF Answer
  <2> QED
    BY <1>5, <2>1, <2>2 DEF Affordable
<1>8. Charged(j)
  <2>1. o.flow \notin {"fund", "withdraw"} => j.fee = Fee(j.code, typeOf[o.payer], o.amount)
    BY <1>4, <1>5 DEF Answer, Unjudged
  <2>2. ASSUME o.flow \in Commissioned
        PROVE  /\ <<j.commission, j.parent, j.pays>> = <<Rate(j).own, Rate(j).parent, Rate(j).pays>>
               /\ Rate(j).own > 0 => <<Earner(o), Rate(j).pays, Currency>> \in wallets
    BY <1>4, <2>2 DEF Answer
  <2>3. Rate(j).parent > 0 => <<superior[Earner(o)], Rate(j).pays, Currency>> \in wallets
    BY DEF Rate, Commission, ParentPaid
  <2> QED
    BY <2>1, <2>2, <2>3 DEF Charged, Rate
<1> QED
  BY <1>6, <1>7, <1>8

\* Whatever the order of its gates, what a flow is about to post is what the
\* rows allow the payer, the payee and the amount, and costs what they say,
\* unless a rule has changed under the payment (payments/service.py:182,
\* cashin/service.py:154, external/service.py:335).
THEOREM FlowsAreGoverned == Spec => []PaymentsGoverned
<1>1. Init => Governed
  BY DEF Init, AccessInit, RegistrationInit, RequestsInit, Governed, Sound
<1>2. Governed => PaymentsGoverned
  BY GovernedPosts DEF Governed, Sound, PaymentsGoverned, At
<1> QED
  BY <1>1, <1>2, ThreadsInit, ThreadsStep, GovernedStep, PTL DEF Spec

-----------------------------------------------------------------------------
(* The types of what the invariants above leave open.                      *)

Labels == AccessLabels \cup CatalogueLabels \cup SchedulesLabels \cup {"catalog", "pay"}

LabelsTyped == pc \in [Sessions -> Labels]

LEMMA LabelsStep == Threads /\ LabelsTyped /\ [Next]_vars => LabelsTyped'
<1> SUFFICES ASSUME Threads, LabelsTyped, [Next]_vars
             PROVE  LabelsTyped'
  OBVIOUS
<1>1. pc' = [s \in Sessions |-> pc'[s]]
  BY ThreadsStep DEF Threads
<1>2. /\ "idle" \in Labels /\ AccessLabels \subseteq Labels /\ OfCatalogue \subseteq Labels
      /\ {"idle", "catalog"} \subseteq Labels /\ OfSchedules \subseteq Labels /\ {"idle", "pay"} \subseteq Labels
  BY DEF Labels, AccessLabels, OfCatalogue, OfSchedules
<1>3. ASSUME NEW s \in Sessions, pc'[s] \in Labels, Only(s)
      PROVE  LabelsTyped'
  <2>1. \A t \in Sessions : pc'[t] \in Labels
    BY <1>3 DEF Only, LabelsTyped
  <2> QED
    BY <1>1, <2>1 DEF LabelsTyped
<1>4. ASSUME NEW s \in Sessions, NEW labels \in SUBSET Labels, Walk(s, labels)
      PROVE  LabelsTyped'
  BY <1>3, <1>4 DEF Walk
<1>5. Stay => LabelsTyped'
  BY DEF Stay, LabelsTyped
<1>6. CASE AccessNext
  <2>1. ASSUME NEW s \in Sessions, CommitLevel(s)
        PROVE  LabelsTyped'
    BY <1>2, <2>1 DEF CommitLevel, Goto, LabelsTyped
  <2> QED
    BY <1>2, <1>3, <1>4, <1>5, <1>6, <2>1, AccessWalks DEF Dies
<1>7. CASE CatalogueNext
  BY <1>2, <1>4, <1>5, <1>7, CatalogueWalks
<1>8. CASE ServicesNext
  BY <1>2, <1>4, <1>5, <1>8, ServicesWalks
<1>9. CASE SchedulesNext
  BY <1>2, <1>4, <1>9, SchedulesWalks
<1>10. CASE FlowsNext(status = "active")
  BY <1>2, <1>4, <1>10, FlowsWalks
<1>11. CASE UNCHANGED vars
  BY <1>5, <1>11 DEF vars, Stay
<1> QED
  BY <1>6, <1>7, <1>8, <1>9, <1>10, <1>11 DEF Next

Levels == {"active", "txn_locked", "suspended"}

\* The user's row, the lock and the history of the sessions.
Account ==
    /\ user \in {"absent", "new", "ready"} /\ verified \in BOOLEAN
    /\ status \in Levels /\ lockout \in BOOLEAN /\ fails \in Nat
    /\ late \subseteq Tokens /\ torn \subseteq Tokens

\* What a request brings to them.
Brings(s) ==
    /\ pc[s] = "slide" => job[s].token \in Tokens
    /\ pc[s] = "level" => job[s].to \in Levels

AccountInv == Account /\ \A s \in Sessions : Brings(s)

LEMMA AccountElsewhere ==
    ASSUME AccountInv, Account', Keeps({"slide", "level"})
    PROVE  AccountInv'
BY DEF AccountInv, Brings, Keeps

LEMMA AccountMoves ==
    ASSUME AccountInv, Account', NEW s \in Sessions, Only(s), Brings(s)'
    PROVE  AccountInv'
BY DEF AccountInv, Brings, Only

LEMMA ChecksTyped ==
    ASSUME Threads, AccountInv, NEW s \in Sessions,
           \/ Login(s) \/ StepUp(s) \/ ChangePin(s) \/ Gate(s) \/ Compare(s) \/ Count(s) \/ Lock(s)
           \/ Drop(s) \/ Reset(s)
    PROVE  AccountInv'
<1>1. UNCHANGED registrationVars /\ UNCHANGED <<status, late, torn>>
  BY DEF Login, StepUp, ChangePin, Gate, Compare, Count, Lock, Drop, Reset, accessVars, history
<1>2. (lockout' = lockout \/ lockout' = TRUE) /\ fails' \in {fails, fails + 1, 0}
  BY DEF Login, StepUp, ChangePin, Gate, Compare, Count, Lock, Drop, Reset, accessVars, redis
<1>3. Account'
  <2>1. lockout' \in BOOLEAN
    BY <1>2 DEF AccountInv, Account
  <2>2. fails' \in Nat
    BY <1>2 DEF AccountInv, Account
  <2>3. user' = user /\ verified' = verified
    BY <1>1 DEF registrationVars, phoneVars
  <2> QED
    BY <1>1, <2>1, <2>2, <2>3 DEF AccountInv, Account
<1>4. \/ \E label \in {"idle", "gate"} : \E j : Work(s, label, j)
      \/ UNCHANGED job /\ \E label \in {"compare", "reset", "count", "lock", "drop", "issue", "charge"} :
                              Goto(s, label)
  BY DEF Login, StepUp, ChangePin, Gate, Compare, Count, Lock, Drop, Reset, End
<1>5. Only(s) /\ pc'[s] \notin {"slide", "level"}
  BY <1>4, Working, Going
<1> QED
  BY <1>3, <1>5, AccountMoves DEF Brings

LEMMA ChargesTyped ==
    ASSUME Threads, AccountInv, NEW s \in Sessions,
           \/ Issue(s) \/ Logout(s) \/ Unlist(s) \/ ChargeConflict(s) \/ StageChange(s) \/ AccountLost(s)
           \/ ChargeReused(s) \/ ChargePosted(s) \/ ChargeRefused(s) \/ Members(s) \/ Kill(s)
           \/ ClearLockout(s) \/ ClearCounter(s) \/ CommitPin(s)
    PROVE  AccountInv'
<1>1. UNCHANGED registrationRest /\ user' \in {user, "ready"} /\ UNCHANGED <<status, late, torn>>
  BY DEF Issue, Logout, Unlist, ChargeConflict, StageChange, AccountLost, ChargeReused, ChargePosted,
         ChargeRefused, Members, Kill, ClearLockout, ClearCounter, CommitPin, accessVars, history, registrationVars, registrationRest,
         phoneVars
<1>2. (lockout' = lockout \/ lockout' = FALSE) /\ fails' \in {fails, 0}
  BY DEF Issue, Logout, Unlist, ChargeConflict, StageChange, AccountLost, ChargeReused, ChargePosted,
         ChargeRefused, Members, Kill, ClearLockout, ClearCounter, CommitPin, accessVars, redis
<1>3. Account'
  <2>1. lockout' \in BOOLEAN
    BY <1>2 DEF AccountInv, Account
  <2>2. fails' \in Nat
    BY <1>2 DEF AccountInv, Account
  <2>3. user' \in {"absent", "new", "ready"} /\ verified' = verified
    BY <1>1 DEF registrationRest, AccountInv, Account
  <2> QED
    BY <1>1, <2>1, <2>2, <2>3 DEF AccountInv, Account
<1>4. \/ \E label \in {"idle", "index", "unlist", "kill", "clear", "fee"} : \E j : Work(s, label, j)
      \/ UNCHANGED job /\ \E label \in {"unindex", "newpin"} : Goto(s, label)
  BY DEF Issue, Logout, Unlist, ChargeConflict, StageChange, AccountLost, ChargeReused, ChargePosted,
         ChargeRefused, Members, Kill, ClearLockout, ClearCounter, CommitPin, End
<1>5. Only(s) /\ pc'[s] \notin {"slide", "level"}
  BY <1>4, Working, Going
<1> QED
  BY <1>3, <1>5, AccountMoves DEF Brings

LEMMA SessionsTypedToo ==
    ASSUME Threads, LockInv, AccountInv, NEW s \in Sessions, Index(s) \/ UseSession(s) \/ SlideIndex(s)
    PROVE  AccountInv'
<1>1. UNCHANGED registrationVars /\ UNCHANGED <<status, lockout, fails>>
  BY DEF Index, UseSession, SlideIndex
<1>2. user' = user /\ verified' = verified
  BY <1>1 DEF registrationVars, phoneVars
<1>3. ASSUME Index(s)
      PROVE  AccountInv'
  <2>1. /\ pc[s] = "index" /\ End(s) /\ torn' = torn
        /\ late' \in {late, late \cup {job[s].token}}
    BY <1>3 DEF Index
  <2>2. job[s].token \in Tokens
    BY <2>1 DEF LockInv, Served
  <2>3. Account'
    BY <1>1, <1>2, <2>1, <2>2 DEF AccountInv, Account
  <2>4. Only(s) /\ pc'[s] = "idle"
    BY <2>1, Working DEF End
  <2> QED
    BY <2>3, <2>4, AccountMoves DEF Brings
<1>4. ASSUME UseSession(s)
      PROVE  AccountInv'
  <2>1. PICK t \in held : Work(s, "slide", [Check("use", None) EXCEPT !.token = t])
    BY <1>4 DEF UseSession
  <2>2. t \in Tokens
    BY DEF LockInv, SessionsTyped
  <2>3. Only(s) /\ pc'[s] = "slide" /\ job'[s] = [Check("use", None) EXCEPT !.token = t]
    BY <2>1, Working
  <2>4. job'[s].token = t
    BY <2>3 DEF Check
  <2>5. late' = late /\ torn' = torn
    BY <1>4 DEF UseSession, history
  <2>6. Account'
    BY <1>1, <1>2, <2>5 DEF AccountInv, Account
  <2> QED
    BY <2>2, <2>3, <2>4, <2>6, AccountMoves DEF Brings
<1>5. ASSUME SlideIndex(s)
      PROVE  AccountInv'
  <2>1. /\ pc[s] = "slide" /\ End(s) /\ late' = late
        /\ torn' \in {torn, torn \cup {job[s].token}}
    BY <1>5 DEF SlideIndex
  <2>2. job[s].token \in Tokens
    BY <2>1 DEF AccountInv, Brings
  <2>3. Account'
    BY <1>1, <1>2, <2>1, <2>2 DEF AccountInv, Account
  <2>4. Only(s) /\ pc'[s] = "idle"
    BY <2>1, Working DEF End
  <2> QED
    BY <2>3, <2>4, AccountMoves DEF Brings
<1> QED
  BY <1>3, <1>4, <1>5

LEMMA LevelsTyped ==
    ASSUME Threads, LockInv, AccountInv, NEW s \in Sessions, SetLevel(s) \/ Unindex(s) \/ CommitLevel(s)
    PROVE  AccountInv'
<1>1. UNCHANGED registrationVars /\ UNCHANGED <<lockout, fails, late, torn>>
  BY DEF SetLevel, Unindex, CommitLevel, accessVars, redis, history
<1>2. user' = user /\ verified' = verified
  BY <1>1 DEF registrationVars, phoneVars
<1>3. ASSUME SetLevel(s)
      PROVE  AccountInv'
  <2>1. PICK to \in Levels : Work(s, IF to = "suspended" THEN "members" ELSE "level",
                                  [kind |-> "level", to |-> to, before |-> status, tokens |-> {}])
    BY <1>3 DEF SetLevel, Levels
  <2>2. Only(s) /\ pc'[s] \in {"members", "level"} /\ job'[s].to = to
    BY <2>1, Working
  <2>3. Account'
    BY <1>1, <1>2, <1>3 DEF SetLevel, accessVars, AccountInv, Account
  <2> QED
    BY <2>2, <2>3, AccountMoves DEF Brings
<1>4. ASSUME Unindex(s)
      PROVE  AccountInv'
  <2>1. pc[s] = "unindex" /\ Goto(s, "level") /\ job' = job /\ status' = status
    BY <1>4 DEF Unindex
  <2>2. job[s].to = "suspended"
    BY <2>1 DEF LockInv, Served
  <2>3. Only(s) /\ pc'[s] = "level" /\ job'[s] = job[s]
    BY <2>1, Going
  <2>4. Account'
    BY <1>1, <1>2, <2>1 DEF AccountInv, Account
  <2> QED
    BY <2>2, <2>3, <2>4, AccountMoves DEF Brings, Levels
<1>5. ASSUME CommitLevel(s)
      PROVE  AccountInv'
  <2>1. /\ pc[s] = "level" /\ status' \in {status, job[s].to}
        /\ pc' = [pc EXCEPT ![s] = "idle"]
        /\ \A t \in Sessions \ {s} : t \notin LoggingIn => job'[t] = job[t]
    BY <1>5 DEF CommitLevel, Goto
  <2>2. job[s].to \in Levels
    BY <2>1 DEF AccountInv, Brings
  <2>3. Account'
    BY <1>1, <1>2, <2>1, <2>2 DEF AccountInv, Account
  <2>4. \A t \in LoggingIn : pc[t] \notin {"slide", "level"}
    BY DEF LoggingIn
  <2>5. Keeps({"slide", "level"})
    BY <2>1, <2>4 DEF Keeps, Threads
  <2> QED
    BY <2>3, <2>5, AccountElsewhere
<1> QED
  BY <1>3, <1>4, <1>5

LEMMA CrashTyped ==
    ASSUME Threads, AccountInv, NEW s \in Sessions, Crash(s)
    PROVE  AccountInv'
<1>1. /\ UNCHANGED registrationVars /\ UNCHANGED <<status, redis, late>> /\ End(s)
      /\ torn' = IF pc[s] = "slide" THEN torn \cup {job[s].token} ELSE torn
  BY DEF Crash
<1>2. user' = user /\ verified' = verified /\ lockout' = lockout /\ fails' = fails
  BY <1>1 DEF registrationVars, phoneVars, redis
<1>3. torn' \subseteq Tokens
  BY <1>1 DEF AccountInv, Account, Brings
<1>4. Account'
  BY <1>1, <1>2, <1>3 DEF AccountInv, Account
<1>5. Only(s) /\ pc'[s] = "idle"
  BY <1>1, Working DEF End
<1> QED
  BY <1>4, <1>5, AccountMoves DEF Brings

LEMMA TimeTyped ==
    ASSUME AccountInv, Tick \/ CounterExpires \/ LockoutLapses
    PROVE  AccountInv'
<1>1. /\ UNCHANGED registrationVars /\ UNCHANGED <<status, late, torn>> /\ Stay
      /\ (lockout' = lockout \/ lockout' = FALSE) /\ fails' \in {fails, 0}
  BY DEF Tick, CounterExpires, LockoutLapses, history, Stay
<1>2. user' = user /\ verified' = verified
  BY <1>1 DEF registrationVars, phoneVars
<1>3. lockout' \in BOOLEAN
  BY <1>1 DEF AccountInv, Account
<1>4. Account'
  BY <1>1, <1>2, <1>3 DEF AccountInv, Account
<1> QED
  BY <1>1, <1>4, AccountElsewhere DEF Stay, Keeps

LEMMA RegistrationTyped ==
    ASSUME Threads, AccountInv, RegistrationNext, UNCHANGED accessVars
    PROVE  AccountInv'
<1>1. UNCHANGED <<status, lockout, fails, late, torn>>
  BY DEF accessVars, redis, history
<1>2. ASSUME NEW s \in Sessions,
             \/ FindPhone(s) \/ ReadQuota(s) \/ SpendQuota(s) \/ Register(s) \/ SendOtp(s) \/ ReadOtp(s)
             \/ UseOtp(s) \/ MintToken(s) \/ TakeToken(s)
      PROVE  user' \in {user, "new"} /\ (verified' = verified \/ verified' = TRUE)
  BY <1>2 DEF FindPhone, ReadQuota, SpendQuota, Register, SendOtp, ReadOtp, UseOtp, MintToken, TakeToken,
              registrationVars, phoneVars
<1>3. ASSUME NEW s \in Sessions,
             \/ ReadPin(s) \/ WritePin(s) \/ ReadReferral(s) \/ FireRule(s) \/ PayReferrer(s)
             \/ PayReferee(s) \/ StageRewarded(s) \/ FinishReferral(s) \/ PayFails(s)
      PROVE  user' \in {user, "ready"} /\ verified' = verified
  BY <1>3 DEF ReadPin, WritePin, ReadReferral, FireRule, PayReferrer, PayReferee, PaySide, StageRewarded,
              FinishReferral, PayFails, registrationVars, phoneVars
<1>4. ASSUME MinutePasses \/ HourPasses \/ \E o \in Otps : OtpExpires(o) \/ TokenExpires(o)
      PROVE  user' = user /\ verified' = verified
  BY <1>4 DEF MinutePasses, HourPasses, OtpExpires, TokenExpires, phoneVars
<1>5. user' \in {user, "new", "ready"} /\ (verified' = verified \/ verified' = TRUE)
  BY <1>2, <1>3, <1>4 DEF RegistrationNext
<1>6. verified' \in BOOLEAN
  BY <1>5 DEF AccountInv, Account
<1>7. Account'
  BY <1>1, <1>5, <1>6 DEF AccountInv, Account
<1>8. {"slide", "level"} \cap RegistrationLabels = {}
  BY DEF RegistrationLabels
<1>9. Keeps({"slide", "level"})
  BY <1>8, RegistrationWalks, OthersKeep
<1> QED
  BY <1>7, <1>9, AccountElsewhere

LEMMA AccountStep == Threads /\ LockInv /\ AccountInv /\ [Next]_vars => AccountInv'
<1> SUFFICES ASSUME Threads, LockInv, AccountInv, [Next]_vars
             PROVE  AccountInv'
  OBVIOUS
<1>1. CASE AccessNext
  BY <1>1, ChecksTyped, ChargesTyped, SessionsTypedToo, LevelsTyped, CrashTyped, TimeTyped,
     RegistrationTyped DEF AccessNext
<1>2. ASSUME UNCHANGED accountVars, NEW labels, OwnAccess \subseteq labels, Keeps(labels)
      PROVE  AccountInv'
  <2>1. Account'
    BY <1>2 DEF accountVars, registrationVars, phoneVars, accessVars, redis, history, AccountInv, Account
  <2>2. Keeps({"slide", "level"})
    BY <1>2 DEF OwnAccess, AccessLabels, Keeps
  <2> QED
    BY <2>1, <2>2, AccountElsewhere
<1>3. CASE CatalogueNext /\ UNCHANGED accountVars
  BY <1>2, <1>3, CatalogueKeeps
<1>4. CASE ServicesNext /\ UNCHANGED accountVars
  BY <1>2, <1>4, ServicesKeep
<1>5. CASE SchedulesNext /\ UNCHANGED accountVars
  BY <1>2, <1>5, SchedulesKeep
<1>6. CASE FlowsNext(status = "active") /\ UNCHANGED accountVars
  BY <1>2, <1>6, FlowsKeep
<1>7. CASE UNCHANGED vars
  BY <1>2, <1>7 DEF vars, Keeps
<1> QED
  BY <1>1, <1>3, <1>4, <1>5, <1>6, <1>7 DEF Next

\* Roles, their holders and grants, and the services.
Rights ==
    /\ holders \subseteq People \X Roles /\ roles \in [Roles -> {"absent", "active", "inactive"}]
    /\ ServicesTypeOK

\* What a provisioning is about to grant.
Grants(s) == pc[s] = "catalog" => job[s].grants \subseteq Roles \X Codes

RightsInv == Rights /\ \A s \in Sessions : Grants(s)

rightsVars == <<holders, roles, servicesVars>>

LEMMA RightsElsewhere ==
    ASSUME RightsInv, Rights', Keeps({"catalog"})
    PROVE  RightsInv'
BY DEF RightsInv, Grants, Keeps

LEMMA RightsUntouched ==
    ASSUME RightsInv, UNCHANGED rightsVars, NEW labels, "catalog" \in labels, Keeps(labels)
    PROVE  RightsInv'
<1>1. Rights'
  BY DEF RightsInv, Rights, rightsVars, servicesVars, ServicesTypeOK
<1>2. Keeps({"catalog"})
  BY DEF Keeps
<1> QED
  BY <1>1, <1>2, RightsElsewhere

\* The services, by edits of one row.
LEMMA ServicesTyped ==
    ASSUME RightsInv, NEW s \in Sessions,
           \/ CreateVariant(s) \/ UpdateService(s) \/ DeleteVariant(s) \/ SetPermission(s)
           \/ RemovePermission(s) \/ CreateRole(s) \/ UpdateRole(s) \/ AssignRole(s) \/ RemoveRole(s)
    PROVE  RightsInv'
<1>1. Keeps({"catalog"})
  BY DEF CreateVariant, UpdateService, DeleteVariant, SetPermission, RemovePermission, CreateRole,
         UpdateRole, AssignRole, RemoveRole, Keeps
<1>2. ASSUME CreateVariant(s) \/ UpdateService(s) \/ DeleteVariant(s)
      PROVE  Rights'
  <2>1. UNCHANGED <<granted, denied, holders, roles>>
    BY <1>2 DEF CreateVariant, UpdateService, DeleteVariant, catalogueVars, roleVars
  <2>2. \E c \in Codes, mode \in {"absent", "active", "disabled"}, allowed \in SUBSET Callers :
            services' = [services EXCEPT ![c] = [status |-> mode, allowed |-> allowed]]
    BY <1>2 DEF CreateVariant, UpdateService, DeleteVariant, NoService, Codes
  <2>3. services' \in [Codes -> [status: {"absent", "active", "disabled"}, allowed: SUBSET Callers]]
    BY <2>2 DEF RightsInv, Rights, ServicesTypeOK
  <2> QED
    BY <2>1, <2>3 DEF RightsInv, Rights, ServicesTypeOK
<1>3. ASSUME SetPermission(s) \/ RemovePermission(s)
      PROVE  Rights'
  <2>1. UNCHANGED <<services, holders, roles>>
    BY <1>3 DEF SetPermission, RemovePermission, catalogueVars, roleVars
  <2>2. (granted' \cup denied') \subseteq Roles \X Codes /\ granted' \cap denied' = {}
    BY <1>3 DEF SetPermission, RemovePermission, RightsInv, Rights, ServicesTypeOK
  <2> QED
    BY <2>1, <2>2 DEF RightsInv, Rights, ServicesTypeOK
<1>4. ASSUME CreateRole(s) \/ UpdateRole(s)
      PROVE  Rights'
  <2>1. UNCHANGED <<servicesVars, holders>>
    BY <1>4 DEF CreateRole, UpdateRole
  <2>2. roles' \in [Roles -> {"absent", "active", "inactive"}]
    BY <1>4 DEF CreateRole, UpdateRole, RightsInv, Rights
  <2> QED
    BY <2>1, <2>2 DEF RightsInv, Rights, servicesVars, ServicesTypeOK
<1>5. ASSUME AssignRole(s) \/ RemoveRole(s)
      PROVE  Rights'
  <2>1. UNCHANGED <<servicesVars, roles>>
    BY <1>5 DEF AssignRole, RemoveRole
  <2>2. holders' \subseteq People \X Roles
    BY <1>5 DEF AssignRole, RemoveRole, RightsInv, Rights
  <2> QED
    BY <2>1, <2>2 DEF RightsInv, Rights, servicesVars, ServicesTypeOK
<1> QED
  BY <1>1, <1>2, <1>3, <1>4, <1>5, RightsElsewhere

LEMMA CatalogTyped ==
    ASSUME Threads, RightsInv, NEW s \in Sessions, SaveTenant(s) \/ CommitCatalog(s)
    PROVE  RightsInv'
<1>1. ASSUME SaveTenant(s)
      PROVE  RightsInv'
  <2>1. /\ UNCHANGED rightsVars
        /\ Work(s, "catalog", [coin |-> MissingCoin, row |-> "staged", roles |-> MissingRoles,
                               grants |-> MissingGrants])
    BY <1>1 DEF SaveTenant, rightsVars, catalogueVars, roleVars
  <2>2. Only(s) /\ job'[s].grants = MissingGrants
    BY <2>1, Working
  <2>3. MissingGrants \subseteq Roles \X Codes
    BY ServicesAssumption DEF MissingGrants
  <2>4. Rights'
    BY <2>1 DEF RightsInv, Rights, rightsVars, servicesVars, ServicesTypeOK
  <2> QED
    BY <2>2, <2>3, <2>4 DEF RightsInv, Grants, Only
<1>2. ASSUME CommitCatalog(s)
      PROVE  RightsInv'
  <2>1. /\ pc[s] = "catalog" /\ End(s) /\ UNCHANGED <<services, denied, holders>>
        /\ \/ UNCHANGED <<granted, roles>>
           \/ /\ job[s].grants \cap (granted \cup denied) = {}
              /\ granted' = granted \cup job[s].grants
              /\ roles' = [r \in Roles |-> IF r \in job[s].roles THEN "active" ELSE roles[r]]
    BY <1>2 DEF CommitCatalog
  <2>2. job[s].grants \subseteq Roles \X Codes
    BY <2>1 DEF RightsInv, Grants
  <2>3. (granted' \cup denied') \subseteq Roles \X Codes /\ granted' \cap denied' = {}
    BY <2>1, <2>2 DEF RightsInv, Rights, ServicesTypeOK
  <2>4. roles' \in [Roles -> {"absent", "active", "inactive"}]
    BY <2>1 DEF RightsInv, Rights
  <2>5. Rights'
    BY <2>1, <2>3, <2>4 DEF RightsInv, Rights, ServicesTypeOK
  <2>6. Only(s) /\ pc'[s] = "idle"
    BY <2>1, Working DEF End
  <2>7. Keeps({"catalog"})
    BY <2>6 DEF Only, Keeps
  <2> QED
    BY <2>5, <2>7, RightsElsewhere
<1> QED
  BY <1>1, <1>2

LEMMA RightsStep == Threads /\ SupervisorsInv /\ RightsInv /\ [Next]_vars => RightsInv'
<1> SUFFICES ASSUME Threads, SupervisorsInv, RightsInv, [Next]_vars
             PROVE  RightsInv'
  OBVIOUS
<1>1. CASE AccessNext /\ UNCHANGED <<catalogueVars, servicesVars>>
  BY <1>1, AccessKeeps, RightsUntouched DEF catalogueVars, roleVars, rightsVars
<1>2. CASE CatalogueNext /\ UNCHANGED servicesVars
  <2>1. ASSUME NEW s \in Sessions, CommitUser(s)
        PROVE  RightsInv'
    <3>1. /\ s \in OnPeople /\ roles' = roles /\ holders' = holders \cup Given(job[s])
      BY <2>1 DEF CommitUser, OnPeople
    <3>2. job[s].person \in People /\ job[s].type \in Types
      BY <3>1 DEF SupervisorsInv, PersonJob
    <3>3. Given(job[s]) \subseteq People \X Roles
      BY <3>2, CatalogueAssumption DEF Given
    <3>4. Rights'
      BY <1>2, <3>1, <3>3 DEF RightsInv, Rights, servicesVars, ServicesTypeOK
    <3> QED
      BY <1>2, <3>4, CatalogueKeeps, RightsElsewhere DEF Keeps
  <2>2. ASSUME NEW s \in Sessions,
               \/ EditType(s) \/ ReadChildren(s) \/ ReadParent(s) \/ WriteType(s) \/ CreatePerson(s)
               \/ ChangeType(s) \/ ReadCurrencies(s) \/ ReadHeld(s) \/ CommitRetype(s)
        PROVE  UNCHANGED roleVars
    BY <2>2 DEF EditType, ReadChildren, ReadParent, WriteType, CreatePerson, ChangeType, ReadCurrencies,
                ReadHeld, CommitRetype, catalogueVars
  <2>3. ASSUME NEW s \in Sessions,
               \/ UpdatePerson(s) \/ CommitUpdate(s) \/ CreateAccount(s) \/ CreateCoin(s) \/ Inflow(s)
               \/ SystemAccounts(s) \/ BackfillMains(s) \/ BackfillCommissions(s) \/ CommitCoin(s)
               \/ EditCoin(s)
        PROVE  UNCHANGED roleVars
    BY <2>3 DEF UpdatePerson, CommitUpdate, CreateAccount, CreateCoin, Inflow, SystemAccounts,
                BackfillMains, BackfillCommissions, CommitCoin, EditCoin, catalogueVars
  <2>4. UNCHANGED roleVars => UNCHANGED rightsVars
    BY <1>2 DEF roleVars, rightsVars
  <2>5. UNCHANGED rightsVars => RightsInv'
    BY <1>2, CatalogueKeeps, RightsUntouched
  <2> QED
    BY <1>2, <2>1, <2>2, <2>3, <2>4, <2>5 DEF CatalogueNext
<1>3. CASE ServicesNext
  BY <1>3, ServicesTyped, CatalogTyped DEF ServicesNext
<1>4. CASE SchedulesNext
  <2>1. UNCHANGED rightsVars
    BY <1>4, SchedulesRead DEF catalogueVars, roleVars, rightsVars
  <2> QED
    BY <1>4, <2>1, SchedulesKeep, RightsUntouched
<1>5. CASE FlowsNext(status = "active")
  <2>1. UNCHANGED rightsVars
    BY <1>5, FlowsRead DEF catalogueVars, roleVars, rightsVars
  <2> QED
    BY <1>5, <2>1, FlowsKeep, RightsUntouched
<1>6. CASE UNCHANGED vars
  <2>1. UNCHANGED rightsVars /\ Keeps({"catalog"})
    BY <1>6 DEF vars, catalogueVars, roleVars, rightsVars, Keeps
  <2> QED
    BY <2>1, RightsUntouched
<1> QED
  BY <1>1, <1>2, <1>3, <1>4, <1>5, <1>6 DEF Next

Wallets == People \X {"main", "commission"} \X Coins

\* The accounts, and the notes about supervisors.
Holdings == wallets \subseteq Wallets /\ strays \subseteq People \cup Sessions

\* The accounts a request is about to insert.
Inserts(s) ==
    /\ pc[s] = "held" => job[s].coins \subseteq Coins
    /\ pc[s] \in {"user", "retype"} => job[s].accounts \subseteq Wallets
    /\ pc[s] \in SpreadLabels => job[s].coin \in Coins /\ job[s].accounts \subseteq Wallets

HoldingsInv == Holdings /\ \A s \in Sessions : Inserts(s)

LEMMA HoldingsElsewhere ==
    ASSUME HoldingsInv, Holdings', NEW labels, {"held", "user", "retype"} \cup SpreadLabels \subseteq labels,
           Keeps(labels)
    PROVE  HoldingsInv'
BY DEF HoldingsInv, Inserts, Keeps

LEMMA HoldingsMoves ==
    ASSUME HoldingsInv, Holdings', NEW s \in Sessions, Only(s), Inserts(s)'
    PROVE  HoldingsInv'
BY DEF HoldingsInv, Inserts, Only

LEMMA TreeTyped ==
    ASSUME Threads, HoldingsInv, NEW s \in Sessions,
           EditType(s) \/ ReadChildren(s) \/ ReadParent(s) \/ WriteType(s)
    PROVE  HoldingsInv'
<1>1. wallets' = wallets
  BY DEF EditType, ReadChildren, ReadParent, WriteType, catalogueVars, walletVars
<1>2. strays' \subseteq People \cup Sessions
  <2>1. ASSUME EditType(s) \/ ReadChildren(s) \/ ReadParent(s)
        PROVE  strays' = strays
    BY <2>1 DEF EditType, ReadChildren, ReadParent, catalogueVars, userVars
  <2>2. ASSUME WriteType(s)
        PROVE  strays' \subseteq strays \cup People \cup OnPeople
    BY <2>2 DEF WriteType
  <2>3. OnPeople \subseteq Sessions
    BY DEF OnPeople
  <2> QED
    BY <2>1, <2>2, <2>3 DEF HoldingsInv, Holdings
<1>3. ({"held", "user", "retype"} \cup SpreadLabels) \cap ({"idle"} \cup TreeLabels) = {}
  BY DEF TreeLabels, SpreadLabels
<1>4. Keeps({"held", "user", "retype"} \cup SpreadLabels)
  BY <1>3, TreeWalks, OthersKeep
<1> QED
  BY <1>1, <1>2, <1>4, HoldingsElsewhere DEF HoldingsInv, Holdings

LEMMA RequestsTyped ==
    ASSUME Threads, HoldingsInv, NEW s \in Sessions, CreatePerson(s) \/ ChangeType(s) \/ UpdatePerson(s)
    PROVE  HoldingsInv'
<1>1. wallets' = wallets /\ strays' = strays \ {s}
  BY DEF CreatePerson, ChangeType, UpdatePerson, walletVars
<1>2. \E label \in {"currencies", "update"} : \E j : Work(s, label, j)
  BY DEF CreatePerson, ChangeType, UpdatePerson
<1>3. Only(s) /\ pc'[s] \in {"currencies", "update"}
  BY <1>2, Working
<1>4. Holdings'
  BY <1>1 DEF HoldingsInv, Holdings
<1> QED
  BY <1>3, <1>4, HoldingsMoves DEF Inserts, SpreadLabels

LEMMA ReadsTyped ==
    ASSUME Threads, SupervisorsInv, HoldingsInv, NEW s \in Sessions, ReadCurrencies(s) \/ ReadHeld(s)
    PROVE  HoldingsInv'
<1>1. wallets' = wallets /\ strays' = strays /\ s \in OnPeople
  BY DEF ReadCurrencies, ReadHeld, catalogueVars, userVars, walletVars, OnPeople
<1>2. PersonJob(job[s])
  BY <1>1 DEF SupervisorsInv
<1>3. Holdings'
  BY <1>1 DEF HoldingsInv, Holdings
<1>4. ASSUME ReadCurrencies(s)
      PROVE  HoldingsInv'
  <2>1. Only(s) /\ pc'[s] = "held" /\ job'[s] = [job[s] EXCEPT !.coins = {c \in Coins : coins[c] = "active"}]
    BY <1>4, Working DEF ReadCurrencies
  <2>2. job'[s].coins = {c \in Coins : coins[c] = "active"}
    BY <1>2, <2>1 DEF PersonJob
  <2> QED
    BY <1>3, <2>1, <2>2, HoldingsMoves DEF Inserts, SpreadLabels
<1>5. ASSUME ReadHeld(s)
      PROVE  HoldingsInv'
  <2> DEFINE j == job[s]
             new == ({j.person} \X Wanted(j.type) \X j.coins) \ wallets
  <2>1. /\ Only(s) /\ pc[s] = "held" /\ pc'[s] \in {"user", "retype"}
        /\ job'[s] = [j EXCEPT !.accounts = new]
    BY <1>5, Working DEF ReadHeld
  <2>2. job'[s].accounts = new
    BY <1>2, <2>1 DEF PersonJob
  <2>3. j.person \in People /\ j.coins \subseteq Coins
    BY <1>2, <2>1 DEF PersonJob, HoldingsInv, Inserts
  <2>4. Wanted(j.type) \subseteq {"main", "commission"}
    BY DEF Wanted
  <2>5. new \subseteq Wallets
    BY <2>3, <2>4 DEF Wallets
  <2> QED
    BY <1>3, <2>1, <2>2, <2>5, HoldingsMoves DEF Inserts, SpreadLabels
<1> QED
  BY <1>4, <1>5

LEMMA CommitsTyped ==
    ASSUME Threads, SupervisorsInv, HoldingsInv, NEW s \in Sessions,
           CommitUser(s) \/ CommitRetype(s) \/ CommitUpdate(s)
    PROVE  HoldingsInv'
<1>1. /\ pc[s] \in {"user", "retype", "update"} /\ End(s) /\ s \in OnPeople
      /\ WriteUser(s) \/ strays' = strays
      /\ wallets' = wallets \/ (pc[s] # "update" /\ wallets' = wallets \cup job[s].accounts)
  BY DEF CommitUser, CommitRetype, CommitUpdate, userVars, walletVars, OnPeople
<1>2. wallets' \subseteq Wallets
  BY <1>1 DEF HoldingsInv, Holdings, Inserts
<1>3. strays' \subseteq People \cup Sessions
  <2>1. WriteUser(s) => strays' \subseteq strays \cup People \cup OnPeople
    BY DEF WriteUser
  <2>2. OnPeople \subseteq Sessions
    BY DEF OnPeople
  <2> QED
    BY <1>1, <2>1, <2>2 DEF HoldingsInv, Holdings
<1>4. Only(s) /\ pc'[s] = "idle"
  BY <1>1, Working DEF End
<1> QED
  BY <1>2, <1>3, <1>4, HoldingsMoves DEF Inserts, SpreadLabels, Holdings

LEMMA SpreadTyped ==
    ASSUME Threads, WalletsInv, HoldingsInv, NEW s \in Sessions,
           \/ CreateCoin(s) \/ Inflow(s) \/ SystemAccounts(s) \/ BackfillMains(s)
           \/ BackfillCommissions(s)
    PROVE  HoldingsInv'
<1>1. Holdings'
  BY DEF CreateCoin, Inflow, SystemAccounts, BackfillMains, BackfillCommissions, catalogueVars, userVars,
         walletVars, HoldingsInv, Holdings
<1>2. ASSUME NEW c \in Coins, NEW kind \in {"main", "commission"}
      PROVE  Lacking(kind, c) \subseteq Wallets
  <2>1. \A p \in People : <<p, kind, c>> \in Wallets
    BY DEF Wallets
  <2> QED
    BY <2>1 DEF Lacking
<1>3. ASSUME CreateCoin(s)
      PROVE  HoldingsInv'
  <2>1. PICK c \in Coins, spread \in BOOLEAN : Work(s, "inflow", Making(c, spread))
    BY <1>3 DEF CreateCoin
  <2>2. Only(s) /\ pc'[s] = "inflow" /\ job'[s].coin = c /\ job'[s].accounts = {}
    BY <2>1, Working DEF Making
  <2> QED
    BY <1>1, <2>2, HoldingsMoves DEF Inserts
<1>5. ASSUME Inflow(s) \/ SystemAccounts(s)
      PROVE  HoldingsInv'
  <2> DEFINE j == job[s]
  <2>1. PICK row : /\ pc[s] \in SpreadLabels /\ Only(s) /\ pc'[s] \in {"system", "mains", "coin"}
                   /\ job'[s] = [j EXCEPT !.row = row]
    BY <1>5, Working DEF Inflow, SystemAccounts, SpreadLabels
  <2>2. CoinJob(j) /\ j.coin \in Coins /\ j.accounts \subseteq Wallets
    BY <2>1 DEF WalletsInv, Backfills, HoldingsInv, Inserts
  <2>3. job'[s].coin = j.coin /\ job'[s].accounts = j.accounts
    BY <2>1, <2>2 DEF CoinJob
  <2>4. Inserts(s)'
    BY <2>1, <2>2, <2>3 DEF Inserts, Wallets
  <2> QED
    BY <1>1, <2>1, <2>4, HoldingsMoves
<1>4. ASSUME BackfillMains(s) \/ BackfillCommissions(s)
      PROVE  HoldingsInv'
  <2> DEFINE j == job[s]
  <2>1. PICK new : /\ pc[s] \in SpreadLabels /\ Only(s) /\ pc'[s] \in SpreadLabels
                   /\ job'[s] = [j EXCEPT !.accounts = new]
                   /\ new \subseteq j.accounts \cup Lacking("main", j.coin) \cup Lacking("commission", j.coin)
    <3>1. ASSUME BackfillMains(s)
          PROVE  /\ pc[s] \in SpreadLabels /\ Only(s) /\ pc'[s] \in SpreadLabels
                 /\ job'[s] = [j EXCEPT !.accounts = Lacking("main", j.coin)]
      BY <3>1, Working DEF BackfillMains, SpreadLabels
    <3>2. ASSUME BackfillCommissions(s)
          PROVE  /\ pc[s] \in SpreadLabels /\ Only(s) /\ pc'[s] \in SpreadLabels
                 /\ job'[s] = [j EXCEPT !.accounts = j.accounts \cup
                                   {w \in Lacking("commission", j.coin) : Eligible(typeOf[w[1]])}]
      BY <3>2, Working DEF BackfillCommissions, SpreadLabels
    <3>3. CASE BackfillMains(s)
      BY <3>1, <3>3
    <3>4. CASE BackfillCommissions(s)
      <4>1. {w \in Lacking("commission", j.coin) : Eligible(typeOf[w[1]])} \subseteq Lacking("commission", j.coin)
        OBVIOUS
      <4> QED
        BY <3>2, <3>4, <4>1
    <3> QED
      BY <1>4, <3>3, <3>4
  <2>2. CoinJob(j) /\ j.coin \in Coins /\ j.accounts \subseteq Wallets
    BY <2>1 DEF WalletsInv, Backfills, HoldingsInv, Inserts
  <2>3. job'[s].coin = j.coin /\ job'[s].accounts = new
    BY <2>1, <2>2 DEF CoinJob
  <2>4. new \subseteq Wallets
    BY <1>2, <2>1, <2>2
  <2>5. Inserts(s)'
    BY <2>1, <2>2, <2>3, <2>4 DEF Inserts, SpreadLabels, Wallets
  <2> QED
    BY <1>1, <2>1, <2>5, HoldingsMoves
<1> QED
  BY <1>3, <1>4, <1>5

LEMMA CoinsTyped ==
    ASSUME Threads, HoldingsInv, NEW s \in Sessions, CommitCoin(s) \/ CreateAccount(s) \/ EditCoin(s)
    PROVE  HoldingsInv'
<1>1. strays' = strays
  BY DEF CommitCoin, CreateAccount, EditCoin, userVars
<1>2. ASSUME CommitCoin(s)
      PROVE  HoldingsInv'
  <2>1. pc[s] = "coin" /\ End(s) /\ wallets' \in {wallets, wallets \cup job[s].accounts}
    BY <1>2 DEF CommitCoin
  <2>2. wallets' \subseteq Wallets
    BY <2>1 DEF HoldingsInv, Holdings, Inserts, SpreadLabels
  <2>3. Only(s) /\ pc'[s] = "idle"
    BY <2>1, Working DEF End
  <2> QED
    BY <1>1, <2>2, <2>3, HoldingsMoves DEF HoldingsInv, Holdings, Inserts, SpreadLabels
<1>3. ASSUME CreateAccount(s) \/ EditCoin(s)
      PROVE  HoldingsInv'
  <2>1. \/ wallets' = wallets
        \/ \E p \in People, kind \in {"main", "commission"}, c \in Coins :
               wallets' = wallets \cup {<<p, kind, c>>}
    BY <1>3 DEF CreateAccount, EditCoin
  <2>2. \A p \in People, kind \in {"main", "commission"}, c \in Coins : <<p, kind, c>> \in Wallets
    BY DEF Wallets
  <2>3. wallets' \subseteq Wallets
    BY <2>1, <2>2 DEF HoldingsInv, Holdings
  <2>4. Keeps({"held", "user", "retype"} \cup SpreadLabels)
    BY <1>3, CatalogueStays DEF Stay, Keeps
  <2> QED
    BY <1>1, <2>3, <2>4, HoldingsElsewhere DEF HoldingsInv, Holdings
<1> QED
  BY <1>2, <1>3

LEMMA HoldingsStep ==
    Threads /\ SupervisorsInv /\ WalletsInv /\ HoldingsInv /\ [Next]_vars => HoldingsInv'
<1> SUFFICES ASSUME Threads, SupervisorsInv, WalletsInv, HoldingsInv, [Next]_vars
             PROVE  HoldingsInv'
  OBVIOUS
<1>1. ASSUME UNCHANGED <<wallets, strays>>, NEW labels, CatalogueLabels \subseteq labels, Keeps(labels)
      PROVE  HoldingsInv'
  <2>1. {"held", "user", "retype"} \cup SpreadLabels \subseteq labels
    BY <1>1 DEF CatalogueLabels, SpreadLabels
  <2> QED
    BY <1>1, <2>1, HoldingsElsewhere DEF HoldingsInv, Holdings
<1>2. UNCHANGED catalogueVars => UNCHANGED <<wallets, strays>>
  BY DEF catalogueVars, userVars, walletVars
<1>3. CASE CatalogueNext
  BY <1>3, TreeTyped, RequestsTyped, ReadsTyped, CommitsTyped, SpreadTyped, CoinsTyped DEF CatalogueNext
<1>4. CASE AccessNext /\ UNCHANGED catalogueVars
  BY <1>1, <1>2, <1>4, AccessKeeps
<1>5. CASE ServicesNext
  <2>1. ASSUME NEW s \in Sessions,
               \/ CreateVariant(s) \/ UpdateService(s) \/ DeleteVariant(s) \/ SetPermission(s)
               \/ RemovePermission(s) \/ SaveTenant(s) \/ CreateRole(s) \/ UpdateRole(s) \/ AssignRole(s)
               \/ RemoveRole(s) \/ CommitCatalog(s)
        PROVE  UNCHANGED <<wallets, strays>>
    BY <2>1 DEF CreateVariant, UpdateService, DeleteVariant, SetPermission, RemovePermission, SaveTenant,
                CreateRole, UpdateRole, AssignRole, RemoveRole, CommitCatalog, catalogueVars, userVars,
                walletVars
  <2> QED
    BY <1>1, <1>5, <2>1, ServicesKeep DEF ServicesNext
<1>6. CASE SchedulesNext
  BY <1>1, <1>2, <1>6, SchedulesRead, SchedulesKeep
<1>7. CASE FlowsNext(status = "active")
  BY <1>1, <1>2, <1>7, FlowsRead, FlowsKeep
<1>8. CASE UNCHANGED vars
  BY <1>1, <1>2, <1>8 DEF vars, Keeps
<1> QED
  BY <1>3, <1>4, <1>5, <1>6, <1>7, <1>8 DEF Next

Receipts == receipts \in [OrderKeys -> Subscriber \cup External \cup {None}]

LEMMA ReceiptsStep == Governed /\ Receipts /\ [Next]_vars => Receipts'
<1> SUFFICES ASSUME Governed, Receipts, [Next]_vars
             PROVE  Receipts'
  OBVIOUS
<1>1. UNCHANGED receipts => Receipts'
  BY DEF Receipts
<1>2. ASSUME NEW s \in Sessions, Post(s)
      PROVE  Receipts'
  <2>1. job[s].order \in Orders
    BY <1>2 DEF Post, At, Governed, Sound, Queue
  <2>2. job[s].order.flow \in Subscriber \cup External
    BY <2>1, FlowsAssumption
  <2>3. receipts' \in {receipts, [receipts EXCEPT ![job[s].order.key] = job[s].order.flow]}
    BY <1>2 DEF Post
  <2> QED
    BY <2>2, <2>3 DEF Receipts
<1>3. ASSUME NEW s \in Sessions, NEW gate, NEW passed, NEW j, Turn(s, gate, passed, j)
      PROVE  UNCHANGED receipts
  BY <1>3 DEF Turn, flowsVars
<1>4. ASSUME NEW s \in Sessions,
             \/ Send(s) \/ ReadType(s) \/ ResolveService(s) \/ RequirePermission(s) \/ FindExisting(s)
             \/ CheckStanding(s, status = "active") \/ CheckService(s) \/ CheckPayee(s) \/ CheckAgent(s)
             \/ CheckConfigured(s)
      PROVE  UNCHANGED receipts
  BY <1>3, <1>4 DEF Send, ReadType, ResolveService, RequirePermission, FindExisting, CheckStanding,
                    CheckService, CheckPayee, CheckAgent, CheckConfigured, Ask
<1>5. ASSUME NEW s \in Sessions,
             \/ FindWallets(s) \/ CheckLimits(s) \/ CheckSend(s) \/ CheckReceive(s) \/ EnforceStepUp(s)
             \/ ResolveFee(s) \/ CalculateCommission(s) \/ ResolveEarner(s) \/ CheckFunds(s)
      PROVE  UNCHANGED receipts
  BY <1>3, <1>5 DEF FindWallets, CheckLimits, CheckSend, CheckReceive, EnforceStepUp, ResolveFee,
                    CalculateCommission, ResolveEarner, CheckFunds, Ask
<1>6. CASE FlowsNext(status = "active")
  BY <1>1, <1>2, <1>4, <1>5, <1>6 DEF FlowsNext
<1>7. Stir => UNCHANGED receipts
  BY DEF Stir
<1>8. UNCHANGED vars => UNCHANGED receipts
  BY DEF vars, flowsVars
<1> QED
  BY <1>1, <1>6, <1>7, <1>8 DEF Next

LEMMA TypesStart == Init => LabelsTyped /\ AccountInv /\ RightsInv /\ HoldingsInv /\ Receipts
<1> SUFFICES ASSUME Init
             PROVE  LabelsTyped /\ AccountInv /\ RightsInv /\ HoldingsInv /\ Receipts
  OBVIOUS
<1>1. pc = [s \in Sessions |-> "idle"]
  BY DEF Init, AccessInit, RegistrationInit, RequestsInit
<1>2. LabelsTyped
  BY <1>1 DEF LabelsTyped, Labels, AccessLabels
<1>3. AccountInv
  <2>1. user \in {"absent", "ready"} /\ verified = (user = "ready")
    BY DEF Init, AccessInit, RegistrationInit
  <2>2. status = "active" /\ lockout = FALSE /\ fails = 0 /\ late = {} /\ torn = {}
    BY DEF Init, AccessInit
  <2> QED
    BY <1>1, <2>1, <2>2 DEF AccountInv, Account, Brings, Levels
<1>4. RightsInv
  <2>1. /\ \E role \in {"absent", "active"} : roles = [r \in Roles |-> role]
        /\ holders \subseteq Staff
    BY DEF Init, CatalogueInit
  <2>2. /\ services = [c \in Codes |-> IF c = Base THEN [status |-> "active", allowed |-> {}] ELSE NoService]
        /\ granted \subseteq Seasoned \cup Defaults /\ denied = {}
    BY DEF Init, ServicesInit
  <2>3. holders \subseteq People \X Roles /\ granted \subseteq Roles \X Codes
    BY <2>1, <2>2, CatalogueAssumption, ServicesAssumption
  <2>4. services \in [Codes -> [status: {"absent", "active", "disabled"}, allowed: SUBSET Callers]]
    BY <2>2 DEF NoService
  <2> QED
    BY <1>1, <2>1, <2>2, <2>3, <2>4 DEF RightsInv, Rights, Grants, ServicesTypeOK
<1>5. HoldingsInv
  <2>1. PICK here \in SUBSET People : wallets = UNION {{p} \X Wanted(Enrolled[p]) \X Coins : p \in here}
    BY DEF Init, CatalogueInit
  <2>2. \A p \in People : {p} \X Wanted(Enrolled[p]) \X Coins \subseteq Wallets
    BY DEF Wanted, Wallets
  <2>3. wallets \subseteq Wallets
    BY <2>1, <2>2
  <2>4. strays = {}
    BY DEF Init, CatalogueInit
  <2> QED
    BY <1>1, <2>3, <2>4 DEF HoldingsInv, Holdings, Inserts, SpreadLabels
<1>6. Receipts
  BY DEF Init, FlowsInit, Receipts
<1> QED
  BY <1>2, <1>3, <1>4, <1>5, <1>6

\* Whatever the parts of a tenant do between each other's steps, every row and
\* key keeps its type, the index of sessions lives as long as it has a token
\* (auth/sessions.py:64), no permission is granted and denied at once, and no
\* two rows of a schedule have one scope and one lower bound: what a request
\* has read before its process was overtaken is still fit to be written.
THEOREM TenantTyped == Spec => []TypeOK
<1> DEFINE Inv ==
        /\ Threads /\ LockInv /\ TreeInv /\ SupervisorsInv /\ WalletsInv /\ BandsInv
        /\ QuotaInv /\ OtpInv /\ FirstInv /\ Governed
        /\ LabelsTyped /\ AccountInv /\ RightsInv /\ HoldingsInv /\ Receipts
<1>1. Init => Inv
  <2>1. Init => Governed
    BY DEF Init, AccessInit, RegistrationInit, RequestsInit, Governed, Sound
  <2> QED
    BY <2>1, ThreadsInit, LockInit, TreeInit, SupervisorsInit, WalletsInit, BandsInit, RegistrationStarts,
       TypesStart
<1>2. Inv /\ [Next]_vars => Inv'
  BY ThreadsStep, LockStep, HierarchyStep, WalletsStep, BandsStep, QuotaStep, OtpStep, FirstStep,
     GovernedStep, LabelsStep, AccountStep, RightsStep, HoldingsStep, ReceiptsStep
<1>3. Inv => TypeOK
  <2> SUFFICES ASSUME Inv
               PROVE  TypeOK
    OBVIOUS
  <2>1. AccessTypeOK
    BY DEF AccessTypeOK, OtpInv, OtpTypes, FirstInv, ReferralInv, QuotaInv, LockInv, SessionsTyped,
           AccountInv, Account, Levels
  <2>2. CatalogueTypeOK
    BY DEF CatalogueTypeOK, SupervisorsInv, WalletsInv, HoldingsInv, Holdings, Wallets, RightsInv, Rights
  <2>3. ServicesTypeOK /\ SchedulesTypeOK
    BY DEF RightsInv, Rights, BandsInv, Table
  <2>4. pc \in [Sessions -> AccessLabels \cup CatalogueLabels \cup SchedulesLabels \cup {"catalog", "pay"}]
    BY DEF LabelsTyped, Labels
  <2> QED
    BY <2>1, <2>2, <2>3, <2>4 DEF Receipts, TypeOK
<1> QED
  BY <1>1, <1>2, <1>3, PTL DEF Spec

=============================================================================
