---------------------------- MODULE MCApprovals ----------------------------
(***************************************************************************)
(* Two proposals, three admins and two sessions; two currencies, of which  *)
(* the second has no money in its float, and may have no float, yet.       *)
(***************************************************************************)
EXTENDS Approvals

CONSTANTS P1, P2, Phone, Email, Account, Old, Key, OtherKey, Partner

MCFloat == 1
MCEmptyFloat == 2
MCWallet == 3
MCOtherWallet == 4
MCEarned == 5          \* a commission wallet
MCBank == 6
MCOtherBank == 7
MCThirdBank == 8       \* to come
MCAccounts == 1..8
MCFloats == {MCFloat, MCEmptyFloat}
MCMirrors == {MCBank, MCOtherBank, MCThirdBank}
MCMirrored == (MCBank :> 1) @@ (MCOtherBank :> 1)
MCGuarded == MCAccounts \ MCMirrors
MCCapped == {MCWallet, MCOtherWallet}
MCCap == [a \in MCCapped |-> 2]
MCOpening == <<2, 0, 1, 0, 2, 0, 0, 0>>
MCCurrencyOf ==
    [a \in MCAccounts |->
        IF a \in {MCFloat, MCWallet, MCEarned, MCBank} THEN 1 ELSE 2]
MCMains == MCEarned :> MCWallet
MCNames == {1, 2}
MCPolicy == [any |-> 2, mirror |-> 1, adjust |-> 1, fund |-> None, commission_withdrawal |-> 1]

Withdrawing(a, amount) == [op |-> "withdraw", account |-> a, amount |-> amount, mirror |-> MCBank]
Funding(a, n) == [op |-> "fund", account |-> a, amount |-> n]

\* One payload that the schema refuses, and one that no cap lets through.
MCMoneyOffers ==
    {Funding(MCWallet, 1), Funding(MCWallet, 2), Funding(MCWallet, 0), Funding(MCOtherWallet, 1),
     Withdrawing(MCWallet, All), Withdrawing(MCEarned, 1),
     [op |-> "adjust", account |-> MCFloat, amount |-> -1, mirror |-> MCBank],
     [op |-> "adjust", account |-> MCEmptyFloat, amount |-> 1, mirror |-> MCOtherBank],
     [op |-> "mirror", currency |-> 2, name |-> 1]}

MCPeople == {Old}

MCUserOffers ==
    {[op |-> "create", identifiers |-> {Phone}, verified |-> {}],
     [op |-> "create", identifiers |-> {Phone, Email}, verified |-> {Email}],
     [op |-> "create", identifiers |-> {Account}, verified |-> {}],
     [op |-> "update", target |-> Old, status |-> "suspended"]}

MCExtras == {Email, Account}
MCAccountNumbers == {Account}
MCPartnerOffers == (Key :> {Phone}) @@ (OtherKey :> {Account, Phone})

Band(from, fee) == [from |-> from, fee |-> fee]

\* One scope with one row; a schedule whose last band collides with it.
MCSeeded == {[scope |-> "p2p", from |-> 3, fee |-> 1, by |-> None]}

MCConfigOffers ==
    {[op |-> "create", scope |-> "p2p", bands |-> <<Band(1, 2), Band(2, 2), Band(3, 2)>>],
     [op |-> "update", scope |-> "p2p", bands |-> <<Band(1, 3)>>],
     [op |-> "delete", scope |-> "p2p", bands |-> <<>>]}

\* Two spellings of one number.
MCEarners == {"0712", "+254712"}
MCWalletOf == [n \in MCEarners |-> MCEarned]

RowOf(msisdn, amount) == [msisdn |-> msisdn, amount |-> amount]

\* Two rows on one wallet, which covers either but not both; a duplicate.
MCBatchOffers ==
    {[op |-> "disbursement", mirror |-> None,
      rows |-> <<RowOf("0712", 1), RowOf("+254712", 2)>>],
     [op |-> "withdrawal", mirror |-> MCBank,
      rows |-> <<RowOf("0712", 1), RowOf("0712", 1)>>]}

MCKeys == (Proposals \X {"money-op"}) \cup (Proposals \X {"row"} \X (1..2))

MoneyRequests(p, pl) ==
    CASE pl.op = "fund"     -> {Fund(p, pl)}
      [] pl.op = "withdraw" -> {Withdrawal(p, pl, n) : n \in 1..3}
      [] pl.op = "adjust"   -> {Adjustment(p, pl)}
      [] pl.op = "mirror"   -> {}

MCRequests ==
    UNION {MoneyRequests(p, pl) : p \in Proposals, pl \in MCMoneyOffers}
        \cup {RowRequest(p, i, b) : p \in Proposals, b \in MCBatchOffers, i \in 1..2}

MCSymmetry == Permutations(Admins) \cup Permutations(Sessions) \cup Permutations(Proposals)

Touches(pl) ==
    CASE pl.op = "mirror" -> MCMirrors
      [] pl.op = "fund"   -> {pl.account, FloatFor(pl.account)}
      [] OTHER            -> {pl.account}

\* Two proposals at once are of one queue, and two money requests share an
\* account.  A second batch, and a second round, is that of a lone proposal.
\* A batch may run beside a withdrawal from the wallet it pays from.
\* Nobody files a request when every proposal has been made.
OneQueue ==
    LET filed == {p \in Proposals : request[p] # None}
        money == {p \in filed : request[p].kind = "money"}
        batches == {p \in filed : request[p].kind = "batch"}
        filing == {s \in Sessions : pc[s] \in {"user", "config"}}
        around == \/ \E u \in users : u.by \notin Proposals /\ u.identifiers \notin {{i} : i \in MCPeople}
                  \/ \E i \in ApiKeys : apiKeys[i] # None
        partnered == \/ \E u \in users : u.by \in PartnerKeys
                     \/ \E s \in Sessions : pc[s] \in {"partner", "record"}
        kinds == {request[p].kind : p \in filed} \cup {pc[s] : s \in filing}
        mirroring == money # {} /\ \A p \in money : request[p].payload.op = "mirror"
    IN  /\ \/ Cardinality(kinds) <= 1
           \/ /\ kinds = {"money", "batch"}
              /\ \A p \in money : request[p].payload = Withdrawing(MCEarned, 1)
        /\ Cardinality(batches) <= 1
        /\ Cardinality(filed) + Cardinality(filing) <= Cardinality(Proposals)
        /\ \A p, q \in money : Touches(request[p].payload) \cap Touches(request[q].payload) # {}
        /\ (\E p \in filed : Resubmissions(p) > 0) =>
               Cardinality(filed) + Cardinality(filing) <= 1
        /\ (\E m \in DOMAIN MCMirrored : mirrors[m].name # MCMirrored[m]) => mirroring
        /\ around =>
               /\ kinds \subseteq {"user"} /\ Cardinality(filed) + Cardinality(filing) <= 1
               /\ \A p \in filed : /\ request[p].payload.op = "create"
                                  /\ request[p].status \in {"PENDING", "APPLIED"}
                                  /\ Resubmissions(p) = 0
        /\ (\E i \in ApiKeys : apiKeys[i] = "revoked") => partnered
        /\ kinds \subseteq {"money"} \/ MCEmptyFloat \notin floats

=============================================================================
