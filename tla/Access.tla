------------------------------- MODULE Access -------------------------------
(***************************************************************************)
(* How one user gets in, is kept out and changes the PIN: PIN login and    *)
(* step-up with the failure counter and lockout (app/auth/lockout.py,      *)
(* app/modules/identity/service.py, app/modules/step_up/service.py), the   *)
(* sliding sessions with their per-user index (app/auth/sessions.py), the  *)
(* admin overrides, and the paid PIN change (app/modules/pin_change).      *)
(* Redis commands and database commits are steps of their own; which PIN a *)
(* client sends is left open.                                              *)
(***************************************************************************)
EXTENDS Registration

CONSTANTS
    Tokens,      \* session tokens, each generated once
    MaxAttempts, \* PIN_MAX_ATTEMPTS
    Ttl,         \* SESSION_TTL_SECONDS, in ticks
    Keys,        \* idempotency keys of PIN changes
    Spent        \* of these, the ones another flow has posted under

ASSUME AccessAssumption ==
    /\ MaxAttempts \in Nat \ {0}
    /\ Ttl \in Nat \ {0}
    /\ Spent \subseteq Keys
    /\ IsFiniteSet(Sessions)

VARIABLES
    status,      \* users.status
    lockout,     \* the lockout key exists
    fails,       \* the failure counter
    ttl,         \* per session token, the ticks it has left; 0 when gone
    index,       \* the user's index of tokens, [tokens, ttl]
    changes,     \* per key, pin_changes rows
    charged,     \* per key, fee postings of a PIN change
    \* history
    held,        \* tokens returned to a client
    late,        \* tokens of logins that overlapped a login lock
    torn,        \* tokens whose last read did not slide the index
    wrong        \* failed comparisons since the lock was cleared, or the counter
                 \* with no lock set, but for those of requests that died before
                 \* recording them

redis == <<lockout, fails, ttl, index>>
charges == <<changes, charged>>
history == <<held, late, torn, wrong>>
accessVars == <<status, redis, charges, history>>

NoIndex == [tokens |-> {}, ttl |-> 0]

AccessInit ==
    /\ RegistrationInit
    /\ status = "active"
    /\ lockout = FALSE /\ fails = 0
    /\ ttl = [t \in Tokens |-> 0]
    /\ index = NoIndex
    /\ changes = [k \in Keys |-> 0] /\ charged = [k \in Keys |-> 0]
    /\ held = {} /\ late = {} /\ torn = {} /\ wrong = 0

-----------------------------------------------------------------------------
(* PIN checks.  job says whose.                                            *)

Check(kind, key) ==
    [kind |-> kind, key |-> key, token |-> None, late |-> FALSE, staged |-> FALSE]

\* A suspended user is turned away before the PIN is looked at.
Login(s) ==
    /\ user = "ready"
    /\ status # "suspended"
    /\ Request(s, "login")
    /\ Work(s, "gate", Check("login", None))
    /\ UNCHANGED <<registrationVars, accessVars>>

\* The step-up of a payment, above its policy's threshold.
StepUp(s) ==
    /\ user = "ready"
    /\ Request(s, "stepup")
    /\ Work(s, "gate", Check("stepup", None))
    /\ UNCHANGED <<registrationVars, accessVars>>

\* change_pin: a key that already has its row is answered with it.
ChangePin(s) ==
    /\ user = "ready"
    /\ status = "active"
    /\ Request(s, "change")
    /\ \E k \in Keys : changes[k] = 0 /\ Work(s, "gate", Check("change", k))
    /\ UNCHANGED <<registrationVars, accessVars>>

\* is_locked; a locked user's PIN is not compared.
Gate(s) ==
    /\ pc[s] = "gate"
    /\ IF lockout THEN End(s) ELSE Goto(s, "compare") /\ UNCHANGED job
    /\ UNCHANGED <<registrationVars, left, accessVars>>

Compare(s) ==
    /\ pc[s] = "compare"
    /\ \/ Goto(s, "reset") /\ UNCHANGED wrong
       \/ Goto(s, "count") /\ wrong' = wrong + 1
    /\ UNCHANGED <<registrationVars, job, left, status, redis, charges, held, late, torn>>

\* Mutant: the account is locked one failure too late.
CountOneMore(s) ==
    /\ pc[s] = "count"
    /\ fails' = fails + 1
    /\ IF fails + 1 > MaxAttempts THEN Goto(s, "lock") /\ UNCHANGED job ELSE End(s)
    /\ UNCHANGED <<registrationVars, left, status, lockout, ttl, index, charges, history>>

\* register_failure: INCR, then SET and DEL once the threshold is reached.
Count(s) ==
    /\ pc[s] = "count"
    /\ fails' = fails + 1
    /\ IF fails + 1 >= MaxAttempts THEN Goto(s, "lock") /\ UNCHANGED job ELSE End(s)
    /\ UNCHANGED <<registrationVars, left, status, lockout, ttl, index, charges, history>>

Lock(s) ==
    /\ pc[s] = "lock"
    /\ lockout' = TRUE
    /\ Goto(s, "drop")
    /\ UNCHANGED <<registrationVars, job, left, status, fails, ttl, index, charges, history>>

\* If the lock has been cleared meanwhile, this deletes a count begun anew.
Drop(s) ==
    /\ pc[s] = "drop"
    /\ fails' = 0
    /\ wrong' = IF lockout THEN wrong ELSE 0
    /\ End(s)
    /\ UNCHANGED <<registrationVars, left, status, lockout, ttl, index, charges, held, late, torn>>

\* reset_failures, after which the caller goes on.
Reset(s) ==
    /\ pc[s] = "reset"
    /\ fails' = 0 /\ wrong' = 0
    /\ CASE job[s].kind = "login"  -> Goto(s, "issue") /\ UNCHANGED job
         [] job[s].kind = "change" -> Goto(s, "charge") /\ UNCHANGED job
         [] OTHER                  -> End(s)
    /\ UNCHANGED <<registrationVars, left, status, lockout, ttl, index, charges, held, late, torn>>

-----------------------------------------------------------------------------
(* Sessions                                                                *)

\* An admin has read the index of a user being locked and not committed yet.
Locking == \E a \in Sessions : pc[a] \in {"kill", "unindex", "level"} /\ job[a].to = "suspended"

\* create_session: the token's key, then its place in the user's index.
Issue(s) ==
    /\ pc[s] = "issue"
    /\ \E t \in Tokens :
          /\ t \notin held /\ ttl[t] = 0 /\ \A w \in Sessions : pc[w] = "index" => job[w].token # t
          /\ ttl' = [ttl EXCEPT ![t] = Ttl]
          /\ Work(s, "index", [job[s] EXCEPT !.token = t])
    /\ UNCHANGED <<registrationVars, left, status, lockout, fails, index, charges, history>>

\* Mutant: SADD without EXPIRE.
IndexUntimed(s) ==
    LET t == job[s].token
    IN  /\ pc[s] = "index"
        /\ index' = [index EXCEPT !.tokens = @ \cup {t}]
        /\ held' = held \cup {t}
        /\ late' = IF job[s].late \/ Locking THEN late \cup {t} ELSE late
        /\ End(s)
        /\ UNCHANGED <<registrationVars, left, status, lockout, fails, ttl, charges, torn, wrong>>

Index(s) ==
    LET t == job[s].token
    IN  /\ pc[s] = "index"
        /\ index' = [tokens |-> index.tokens \cup {t}, ttl |-> Ttl]
        /\ held' = held \cup {t}
        /\ late' = IF job[s].late \/ Locking THEN late \cup {t} ELSE late
        /\ End(s)
        /\ UNCHANGED <<registrationVars, left, status, lockout, fails, ttl, charges, torn, wrong>>

\* read_session: the token's expiry slides, then the index's.
UseSession(s) ==
    /\ Request(s, "use")
    /\ \E t \in held :
          /\ ttl[t] > 0
          /\ ttl' = [ttl EXCEPT ![t] = Ttl]
          /\ Work(s, "slide", [Check("use", None) EXCEPT !.token = t])
    /\ UNCHANGED <<registrationVars, status, lockout, fails, index, charges, history>>

\* Mutant: the index keeps the expiry of the last login.
SlideNothing(s) ==
    /\ pc[s] = "slide"
    /\ End(s)
    /\ UNCHANGED <<registrationVars, left, accessVars>>

\* EXPIRE does nothing to an index that is gone.
SlideIndex(s) ==
    LET t == job[s].token
    IN  /\ pc[s] = "slide"
        /\ index' = IF index.ttl > 0 THEN [index EXCEPT !.ttl = Ttl] ELSE index
        /\ torn' = IF t \in index.tokens THEN torn ELSE torn \cup {t}
        /\ End(s)
        /\ UNCHANGED <<registrationVars, left, status, lockout, fails, ttl, charges, held, late, wrong>>

\* invalidate_session.
Logout(s) ==
    /\ Request(s, "logout")
    /\ \E t \in held :
          /\ ttl[t] > 0
          /\ ttl' = [ttl EXCEPT ![t] = 0]
          /\ Work(s, "unlist", [Check("logout", None) EXCEPT !.token = t])
    /\ UNCHANGED <<registrationVars, status, lockout, fails, index, charges, history>>

Unlist(s) ==
    LET rest == index.tokens \ {job[s].token}
    IN  /\ pc[s] = "unlist"
        /\ index' = IF rest = {} THEN NoIndex ELSE [index EXCEPT !.tokens = rest]
        /\ End(s)
        /\ UNCHANGED <<registrationVars, left, status, lockout, fails, ttl, charges, history>>

-----------------------------------------------------------------------------
(* The paid PIN change: the new hash and the pin_changes row are flushed,  *)
(* the accounts of the charges looked up or created, and the ledger's      *)
(* posting of the fee commits all of it.                                   *)

\* The flush has written the user's row: another change of his waits there.
HoldsUser(s) == pc[s] = "fee" /\ job[s].staged
UserHeld == \E w \in Sessions : HoldsUser(w)

\* A request under the same key has committed its row (unique violation).
ChargeConflict(s) ==
    /\ pc[s] = "charge"
    /\ ~UserHeld /\ changes[job[s].key] > 0
    /\ End(s)
    /\ UNCHANGED <<registrationVars, left, accessVars>>

StageChange(s) ==
    /\ pc[s] = "charge"
    /\ ~UserHeld /\ changes[job[s].key] = 0
    /\ Work(s, "fee", [job[s] EXCEPT !.staged = TRUE])
    /\ UNCHANGED <<registrationVars, left, accessVars>>

\* Mutant: after its rollback the request goes on to charge.
AccountLostGoesOn(s) ==
    /\ HoldsUser(s)
    /\ Work(s, "fee", [job[s] EXCEPT !.staged = FALSE])
    /\ UNCHANGED <<registrationVars, left, accessVars>>

\* get_or_create_system_fee_account or its like of the tax loses the race to
\* create the account: its rollback discards what the request has staged and
\* expires the rows it holds, the next read of which fails the request.
AccountLost(s) ==
    /\ HoldsUser(s)
    /\ End(s)
    /\ UNCHANGED <<registrationVars, left, accessVars>>

Staged(s) == IF job[s].staged THEN 1 ELSE 0

\* The ledger answers a key posted under with what was posted, and change_pin
\* commits what it has staged.
ChargeReused(s) ==
    LET k == job[s].key
    IN  /\ pc[s] = "fee"
        /\ k \in Spent \/ charged[k] > 0
        /\ changes' = [changes EXCEPT ![k] = @ + Staged(s)]
        /\ End(s)
        /\ UNCHANGED <<registrationVars, left, status, redis, charged, history>>

ChargePosted(s) ==
    LET k == job[s].key
    IN  /\ pc[s] = "fee"
        /\ k \notin Spent /\ charged[k] = 0
        /\ changes' = [changes EXCEPT ![k] = @ + Staged(s)]
        /\ charged' = [charged EXCEPT ![k] = @ + 1]
        /\ End(s)
        /\ UNCHANGED <<registrationVars, left, status, redis, history>>

\* A gate refuses ahead of the flush, or the wallet does not cover the fee.
ChargeRefused(s) ==
    /\ pc[s] \in {"charge", "fee"}
    /\ End(s)
    /\ UNCHANGED <<registrationVars, left, accessVars>>

-----------------------------------------------------------------------------
(* Admin overrides                                                         *)

\* set_user_access_level: the row is read; a login lock first kills the
\* sessions, and only then is the level committed.
SetLevel(s) ==
    /\ Request(s, "level")
    /\ \E to \in {"active", "txn_locked", "suspended"} :
          Work(s, IF to = "suspended" THEN "members" ELSE "level",
               [kind |-> "level", to |-> to, before |-> status, tokens |-> {}])
    /\ UNCHANGED <<registrationVars, accessVars>>

Members(s) ==
    /\ pc[s] = "members"
    /\ Work(s, "kill", [job[s] EXCEPT !.tokens = index.tokens])
    /\ UNCHANGED <<registrationVars, left, accessVars>>

Kill(s) ==
    /\ pc[s] = "kill"
    /\ ttl' = [t \in Tokens |-> IF t \in job[s].tokens THEN 0 ELSE ttl[t]]
    /\ Goto(s, "unindex")
    /\ UNCHANGED <<registrationVars, job, left, status, lockout, fails, index, charges, history>>

Unindex(s) ==
    /\ pc[s] = "unindex"
    /\ index' = NoIndex
    /\ Goto(s, "level")
    /\ UNCHANGED <<registrationVars, job, left, status, lockout, fails, ttl, charges, history>>

\* Logins that read the status before this commit, and have yet to index
\* their token.
LoggingIn == {w \in Sessions :
    pc[w] \in {"gate", "compare", "reset", "issue", "index"} /\ job[w].kind = "login"}

\* The row is written only if the level differs from the one read.
CommitLevel(s) ==
    LET j == job[s]
    IN  /\ pc[s] = "level"
        /\ status' = IF j.to # j.before THEN j.to ELSE status
        /\ Goto(s, "idle")
        /\ job' = [w \in Sessions |->
               CASE w = s -> None
                 [] w \in LoggingIn /\ j.to = "suspended" -> [job[w] EXCEPT !.late = TRUE]
                 [] OTHER -> job[w]]
        /\ UNCHANGED <<registrationVars, left, redis, charges, history>>

\* admin_unlock_user and admin_reset_pin: clear_lockout deletes two keys;
\* a reset then commits the new PIN.
ClearLockout(s) ==
    /\ user # "absent"
    /\ Request(s, "clear")
    /\ \E reset \in BOOLEAN : Work(s, "clear", [kind |-> "clear", reset |-> reset])
    /\ lockout' = FALSE /\ wrong' = 0
    /\ UNCHANGED <<registrationVars, status, fails, ttl, index, charges, held, late, torn>>

ClearCounter(s) ==
    /\ pc[s] = "clear"
    /\ fails' = 0 /\ wrong' = 0
    /\ IF job[s].reset THEN Goto(s, "newpin") /\ UNCHANGED job ELSE End(s)
    /\ UNCHANGED <<registrationVars, left, status, lockout, ttl, index, charges, held, late, torn>>

CommitPin(s) ==
    /\ pc[s] = "newpin"
    /\ user' = "ready"
    /\ End(s)
    /\ UNCHANGED <<phoneVars, otp, tokens, referral, paid, minted, firstPins, raced, rivals, left, accessVars>>

-----------------------------------------------------------------------------
(* Time and failures                                                       *)

Down(n) == IF n > 0 THEN n - 1 ELSE 0

\* A tick is a large part of an hour: no request sits between its two
\* commands on a session.
Tick ==
    /\ \A s \in Sessions : pc[s] \notin {"index", "slide"}
    /\ index.ttl > 0 \/ \E t \in Tokens : ttl[t] > 0
    /\ ttl' = [t \in Tokens |-> Down(ttl[t])]
    /\ index' = IF index.ttl > 1 THEN [index EXCEPT !.ttl = @ - 1] ELSE NoIndex
    /\ UNCHANGED <<registrationVars, pc, job, left, status, lockout, fails, charges, history>>

CounterExpires ==
    /\ fails > 0
    /\ fails' = 0 /\ wrong' = 0
    /\ UNCHANGED <<registrationVars, pc, job, left, status, lockout, ttl, index, charges, held, late, torn>>

\* The window is half an hour: no request sits between its SET and its DEL.
LockoutLapses ==
    /\ lockout
    /\ \A s \in Sessions : pc[s] \notin {"compare", "count", "lock", "drop"}
    /\ lockout' = FALSE /\ wrong' = 0
    /\ UNCHANGED <<registrationVars, pc, job, left, status, fails, ttl, index, charges, held, late, torn>>

\* The process dies; what it staged in the database is gone.
Crash(s) ==
    /\ pc[s] # "idle"
    /\ torn' = IF pc[s] = "slide" THEN torn \cup {job[s].token} ELSE torn
    /\ wrong' = IF pc[s] \in {"count", "lock"} THEN Down(wrong) ELSE wrong
    /\ End(s)
    /\ UNCHANGED <<registrationVars, left, status, redis, charges, held, late>>

-----------------------------------------------------------------------------
AccessNext ==
    \/ RegistrationNext /\ UNCHANGED accessVars
    \/ \E s \in Sessions :
          \/ Login(s)
          \/ StepUp(s)
          \/ ChangePin(s)
          \/ Gate(s)
          \/ Compare(s)
          \/ Count(s)
          \/ Lock(s)
          \/ Drop(s)
          \/ Reset(s)
          \/ Issue(s)
          \/ Index(s)
          \/ UseSession(s)
          \/ SlideIndex(s)
          \/ Logout(s)
          \/ Unlist(s)
          \/ ChargeConflict(s)
          \/ StageChange(s)
          \/ AccountLost(s)
          \/ ChargeReused(s)
          \/ ChargePosted(s)
          \/ ChargeRefused(s)
          \/ SetLevel(s)
          \/ Members(s)
          \/ Kill(s)
          \/ Unindex(s)
          \/ CommitLevel(s)
          \/ ClearLockout(s)
          \/ ClearCounter(s)
          \/ CommitPin(s)
          \/ Crash(s)
    \/ Tick
    \/ CounterExpires
    \/ LockoutLapses

-----------------------------------------------------------------------------
(* Properties                                                              *)

AccessLabels ==
    {"idle", "quota", "spend", "register", "send", "use", "mint", "read", "write", "refer",
     "rules", "referrer", "referee", "staged", "gate", "compare", "count", "lock", "drop", "reset", "issue", "index",
     "slide", "unlist", "charge", "fee", "members", "kill", "unindex", "level", "clear", "newpin"}

AccessTypeOK ==
    /\ user \in {"absent", "new", "ready"}
    /\ otp \in [Otps -> OtpRequest]
    /\ referral \in Referral
    /\ quota \in [minute: BOOLEAN, hour: Nat]
    /\ verified \in BOOLEAN
    /\ paid \subseteq Rules \X Sides
    /\ status \in {"active", "txn_locked", "suspended"}
    /\ lockout \in BOOLEAN
    /\ fails \in Nat
    /\ ttl \in [Tokens -> 0..Ttl]
    /\ index \in [tokens: SUBSET Tokens, ttl: 0..Ttl]
    /\ index.tokens = {} <=> index.ttl = 0
    /\ held \subseteq Tokens /\ late \subseteq Tokens /\ torn \subseteq Tokens

\* NFR-0190 (auth/lockout.py:41): however logins, step-ups and PIN changes
\* interleave, no more PINs are compared in a row than the threshold and the
\* requests already past the gate.
TriesBounded == wrong <= MaxAttempts + Cardinality(Sessions) - 1

\* A login-locked user has no live session (identity/service.py:2048,
\* auth/sessions.py:88, :112), but for those of logins the lock overlapped
\* and of reads cut between the token's expiry and the index's.
SuspendedHasNoSession ==
    status = "suspended" => \A t \in held : ttl[t] > 0 => t \in late \cup torn

\* A PIN change and its fee are one commit (pin_change/service.py:305): however
\* changes of the user race, are retried, lose the race for an account, are
\* refused or die, a key changes the PIN once at most, and under a key that is
\* the change's own it is charged for exactly then.  Under a key that another
\* flow has posted with (Spent) the PIN changes and nothing is charged, where
\* change_pin says "ATOMICALLY with the charge".  For a tariff with a fee.
PinChangePaid ==
    \A k \in Keys :
        /\ changes[k] <= 1
        /\ k \notin Spent => charged[k] = changes[k]

=============================================================================
