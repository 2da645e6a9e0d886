---------------------------- MODULE Registration ----------------------------
(***************************************************************************)
(* Self-registration of one phone: the quota of one-time passwords, the    *)
(* registration token, the first PIN and the referral it pays              *)
(* (app/modules/identity/service.py send_otp, verify_otp, set_pin;         *)
(* app/auth/rate_limit.py and sessions.py;                                 *)
(* app/modules/rules/referral_evaluator.py).                               *)
(* The database rows and the Redis keys are written by separate commands,  *)
(* one step each.                                                          *)
(***************************************************************************)
EXTENDS Requests

CONSTANTS
    Otps,       \* the one-time passwords sent, 1..n in this order
    Rules,      \* active signup referral rules
    TwoSided,   \* of these, the ones that also pay the referee
    LONG_WINDOW_MAX

Sides == {"referrer", "referee"}

\* A code quoted at registration: a user's own, or nobody's.
Quoted == {"none", "known", "unknown"}

ASSUME RegistrationAssumption ==
    /\ Otps = 1..Cardinality(Otps)
    /\ TwoSided \subseteq Rules
    /\ LONG_WINDOW_MAX \in Nat

VARIABLES
    user,       \* the user row: "absent", "new" (no PIN) or "ready"
    otp,        \* per OTP row: "unsent", "live", "used" or "expired"
    tokens,     \* live registration tokens, by the OTP they were minted for
    referral,   \* the referral row: who is stamped as rewarded, and its status
    paid,       \* <<rule, side>> rewards issued
    quota,      \* Redis: whether the minute's key lives, and the hour's counter
    verified,   \* the phone identifier's flag
    \* history
    burst,      \* OTP sends allowed since the minute's key last lapsed
    crowded,    \* two requests were consuming the quota at once
    minted,     \* per OTP, registration tokens handed out
    firstPins,  \* initial PINs set
    raced,      \* OTPs two requests verified at once
    rivals      \* two requests were setting the initial PIN at once

phoneVars == <<quota, verified, burst, crowded>>

registrationVars ==
    <<user, otp, tokens, referral, paid, phoneVars, minted, firstPins, raced, rivals>>

NoStamp == [rewarded |-> {}, status |-> "none"]

RegistrationInit ==
    /\ RequestsInit
    /\ user = IF left.otp > 0 THEN "absent" ELSE "ready"
    /\ otp = [o \in Otps |-> "unsent"]
    /\ tokens = [o \in Otps |-> 0]
    /\ referral = NoStamp
    /\ paid = {}
    /\ quota = [minute |-> FALSE, hour |-> 0]
    /\ verified = (user = "ready")
    /\ burst = 0 /\ crowded = FALSE
    /\ minted = [o \in Otps |-> 0]
    /\ firstPins = 0 /\ raced = {} /\ rivals = FALSE

-----------------------------------------------------------------------------
(* One-time passwords                                                      *)

CodeExists(code) == code # "unknown"

\* A new phone that quotes a code nobody has is refused, at no cost.
FindPhone(s) ==
    /\ Request(s, "otp")
    /\ \E code \in Quoted :
          IF user = "absent"
          THEN CodeExists(code) /\ Work(s, "quota", [quoted |-> code])
          ELSE Work(s, "quota", [quoted |-> None])
    /\ UNCHANGED registrationVars

\* Both windows are looked at before either is charged (429 if one is full).
ReadQuota(s) ==
    /\ pc[s] = "quota"
    /\ IF quota.minute \/ quota.hour >= LONG_WINDOW_MAX
       THEN End(s) /\ UNCHANGED crowded
       ELSE /\ Goto(s, "spend") /\ UNCHANGED job
            /\ crowded' = (crowded \/ Others(s, "spend") # {})
    /\ UNCHANGED <<user, otp, tokens, referral, paid, quota, verified, burst, left,
                   minted, firstPins, raced, rivals>>

SpendQuota(s) ==
    /\ pc[s] = "spend"
    /\ quota' = [minute |-> TRUE, hour |-> quota.hour + 1]
    /\ burst' = burst + 1
    /\ Work(s, IF job[s].quoted = None THEN "send" ELSE "register", job[s])
    /\ UNCHANGED <<user, otp, tokens, referral, paid, verified, crowded, left,
                   minted, firstPins, raced, rivals>>

\* A referrer is somebody else: nobody has the new user's own code yet.
Referred(code) == IF code = "known" THEN [NoStamp EXCEPT !.status = "pending"] ELSE NoStamp

\* The user, the identifier and the referral of a quoted code, in one commit;
\* the identifier is unique, so one of two racing requests is refused.
Register(s) ==
    /\ pc[s] = "register"
    /\ IF user = "absent"
       THEN /\ user' = "new"
            /\ referral' = Referred(job[s].quoted)
            /\ Work(s, "send", None)
       ELSE End(s) /\ UNCHANGED <<user, referral>>
    /\ UNCHANGED <<phoneVars, otp, tokens, paid, left, minted, firstPins, raced, rivals>>

SendOtp(s) ==
    /\ pc[s] = "send"
    /\ \E o \in Otps :
          /\ otp[o] = "unsent" /\ \A q \in Otps : q < o => otp[q] # "unsent"
          /\ otp' = [otp EXCEPT ![o] = "live"]
    /\ End(s)
    /\ UNCHANGED <<phoneVars, user, tokens, referral, paid, left, minted, firstPins, raced, rivals>>

\* verify_otp reads the latest live row, with no lock, and compares.
ReadOtp(s) ==
    /\ Request(s, "verify")
    /\ \E o \in Otps :
          /\ otp[o] = "live" /\ \A q \in Otps : otp[q] = "live" => q <= o
          /\ Work(s, "use", [otp |-> o])
          /\ raced' = IF \E t \in Others(s, "use") : job[t].otp = o THEN raced \cup {o} ELSE raced
    /\ UNCHANGED <<phoneVars, user, otp, tokens, referral, paid, minted, firstPins, rivals>>

\* Mutant: used_at is set on the row but never committed.
UseOtpUncommitted(s) ==
    /\ pc[s] = "use"
    /\ Goto(s, "mint")
    /\ UNCHANGED <<registrationVars, job, left>>

UseOtp(s) ==
    /\ pc[s] = "use"
    /\ otp' = [otp EXCEPT ![job[s].otp] = "used"]
    /\ verified' = TRUE
    /\ Goto(s, "mint")
    /\ UNCHANGED <<user, quota, burst, crowded, tokens, referral, paid, job, left,
                   minted, firstPins, raced, rivals>>

MintToken(s) ==
    LET o == job[s].otp
    IN  /\ pc[s] = "mint"
        /\ tokens' = [tokens EXCEPT ![o] = @ + 1]
        /\ minted' = [minted EXCEPT ![o] = @ + 1]
        /\ End(s)
        /\ UNCHANGED <<phoneVars, user, otp, referral, paid, left, firstPins, raced, rivals>>

-----------------------------------------------------------------------------
(* The first PIN                                                           *)

\* consume_registration_token: read and deleted in one command.
TakeToken(s) ==
    /\ Request(s, "set")
    /\ \E o \in Otps :
          /\ tokens[o] > 0
          /\ tokens' = [tokens EXCEPT ![o] = @ - 1]
    /\ Work(s, "read", None)
    /\ UNCHANGED <<phoneVars, user, otp, referral, paid, minted, firstPins, raced, rivals>>

\* A user who has a PIN is refused (409).
ReadPin(s) ==
    /\ pc[s] = "read"
    /\ IF user = "new" THEN Work(s, "write", None) ELSE End(s)
    /\ rivals' = (rivals \/ (user = "new" /\ Others(s, "write") # {}))
    /\ UNCHANGED <<phoneVars, user, otp, tokens, referral, paid, left, minted, firstPins, raced>>

WritePin(s) ==
    /\ pc[s] = "write"
    /\ user' = "ready"
    /\ firstPins' = firstPins + 1
    /\ Work(s, "refer", None)
    /\ UNCHANGED <<phoneVars, otp, tokens, referral, paid, left, minted, raced, rivals>>

-----------------------------------------------------------------------------
(* The referral: a PENDING one is read without a lock and paid rule by     *)
(* rule.  job is the session's copy of the row, with the rules to go; the  *)
(* next commit of the session writes the copy.                             *)

ReadReferral(s) ==
    /\ pc[s] = "refer"
    /\ IF referral.status = "pending" /\ Rules # {}
       THEN Work(s, "rules", [row |-> referral, todo |-> Rules, rule |-> None])
       ELSE End(s)
    /\ UNCHANGED <<registrationVars, left>>

FireRule(s) ==
    /\ pc[s] = "rules"
    /\ \E r \in job[s].todo :
          Work(s, "referrer", [job[s] EXCEPT !.rule = r, !.todo = @ \ {r}])
    /\ UNCHANGED <<registrationVars, left>>

\* What the row holds once the session has written its copy.
Merged(row) ==
    [rewarded |-> referral.rewarded \cup row.rewarded,
     status |-> IF "rewarded" \in {referral.status, row.status} THEN "rewarded" ELSE referral.status]

\* A side that is stamped is skipped.  The issuance commits the reward and
\* what the session has staged, or finds the reward already issued.
PaySide(s, side, wanted, next) ==
    LET j == job[s]
    IN  /\ IF wanted /\ side \notin j.row.rewarded
           THEN /\ paid' = paid \cup {<<j.rule, side>>}
                /\ referral' = IF <<j.rule, side>> \in paid THEN referral ELSE Merged(j.row)
                /\ Work(s, next, [j EXCEPT !.row.rewarded = @ \cup {side}])
           ELSE Goto(s, next) /\ UNCHANGED <<paid, referral, job>>
        /\ UNCHANGED <<phoneVars, user, otp, tokens, left, minted, firstPins, raced, rivals>>

PayReferrer(s) == pc[s] = "referrer" /\ PaySide(s, "referrer", TRUE, "referee")

PayReferee(s) ==
    /\ pc[s] = "referee"
    /\ PaySide(s, "referee", job[s].rule \in TwoSided, "staged")

\* The status is staged after each rule, and committed with the last.
StageRewarded(s) ==
    /\ pc[s] = "staged"
    /\ Work(s, "rules", [job[s] EXCEPT !.row.status = "rewarded", !.rule = None])
    /\ UNCHANGED <<registrationVars, left>>

FinishReferral(s) ==
    /\ pc[s] = "rules"
    /\ job[s].todo = {}
    /\ referral' = Merged(job[s].row)
    /\ End(s)
    /\ UNCHANGED <<phoneVars, user, otp, tokens, paid, left, minted, firstPins, raced, rivals>>

\* An issuance raises (a budget, a fault): rolled back, logged and dropped.
PayFails(s) ==
    /\ pc[s] \in {"referrer", "referee"}
    /\ End(s)
    /\ UNCHANGED <<registrationVars, left>>

-----------------------------------------------------------------------------
OtpExpires(o) ==
    /\ otp[o] = "live"
    /\ otp' = [otp EXCEPT ![o] = "expired"]
    /\ UNCHANGED <<phoneVars, user, tokens, referral, paid, pc, job, left,
                   minted, firstPins, raced, rivals>>

TokenExpires(o) ==
    /\ tokens[o] > 0
    /\ tokens' = [tokens EXCEPT ![o] = @ - 1]
    /\ UNCHANGED <<phoneVars, user, otp, referral, paid, pc, job, left,
                   minted, firstPins, raced, rivals>>

\* Bound: the windows lapse only while there is a request to notice.
Watched == left.otp > 0 \/ \E s \in Sessions : pc[s] = "quota"

MinutePasses ==
    /\ quota.minute /\ Watched
    /\ quota' = [quota EXCEPT !.minute = FALSE]
    /\ burst' = 0
    /\ UNCHANGED <<user, otp, tokens, referral, paid, verified, crowded, pc, job, left,
                   minted, firstPins, raced, rivals>>

HourPasses ==
    /\ quota.hour > 0 /\ Watched
    /\ quota' = [quota EXCEPT !.hour = 0]
    /\ UNCHANGED <<user, otp, tokens, referral, paid, verified, burst, crowded, pc, job, left,
                   minted, firstPins, raced, rivals>>

RegistrationNext ==
    \/ MinutePasses
    \/ HourPasses
    \/ \E s \in Sessions :
          \/ FindPhone(s)
          \/ ReadQuota(s)
          \/ SpendQuota(s)
          \/ Register(s)
          \/ SendOtp(s)
          \/ ReadOtp(s)
          \/ UseOtp(s)
          \/ MintToken(s)
          \/ TakeToken(s)
          \/ ReadPin(s)
          \/ WritePin(s)
          \/ ReadReferral(s)
          \/ FireRule(s)
          \/ PayReferrer(s)
          \/ PayReferee(s)
          \/ StageRewarded(s)
          \/ FinishReferral(s)
          \/ PayFails(s)
    \/ \E o \in Otps : OtpExpires(o) \/ TokenExpires(o)

-----------------------------------------------------------------------------
(* Properties                                                              *)

OtpRequest == {"unsent", "live", "used", "expired"}

Referral == [rewarded: SUBSET Sides, status: {"none", "pending", "rewarded"}]

\* The two windows hold unless requests consume the quota at the same moment.
QuotaKept == ~crowded => burst <= 1 /\ quota.hour <= LONG_WINDOW_MAX

OneTokenPerOtp == \A o \in Otps \ raced : minted[o] <= 1

OnePaymentPerSide ==
    \A side \in Sides : Cardinality({r \in Rules : <<r, side>> \in paid}) <= 1

\* A stamp is only ever written after the money it stands for.
StampIsPaid ==
    /\ \A side \in referral.rewarded : \E r \in Rules : <<r, side>> \in paid
    /\ referral.status = "rewarded" => "referrer" \in referral.rewarded

\* Registration happens once (identity/service.py:2477, :2549): an OTP no two
\* requests verified at the same moment buys one token; unless two requests
\* were setting it at the same moment the first PIN is set once and neither
\* side of the referral is paid under two rules; a referral marked as rewarded
\* was paid; nobody sets a first PIN before the phone is verified; and a phone
\* is sent no more passwords than its quota, but for racing requests
\* (auth/rate_limit.py:22).
RegistrationOnce ==
    /\ QuotaKept
    /\ firstPins > 0 => verified
    /\ OneTokenPerOtp
    /\ ~rivals => firstPins <= 1 /\ OnePaymentPerSide
    /\ StampIsPaid

=============================================================================
