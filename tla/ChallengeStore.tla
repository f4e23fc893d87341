---------------------------- MODULE ChallengeStore ----------------------------
(***************************************************************************)
(* mailbox.ChallengeStore: the outstanding mailbox challenges, one per     *)
(* canonical address.  Create and Verify run under the store's mutex, so   *)
(* each is one step; the time they are given is the one their caller read  *)
(* when its request arrived.  A code is any member of Code: two challenges *)
(* may be given equal codes.  The id of a challenge, and the counts kept   *)
(* by id, are history: the store keeps none of them.                       *)
(***************************************************************************)
EXTENDS Naturals

CONSTANTS
    Address,           \* canonical addresses (CanonicalEmail)
    Binding,           \* what a code is bound to: a browser key, a session
    Code,              \* verification codes
    MaxCodeAttempts,   \* wrong codes that consume a challenge
    TTL,               \* lifetime of a challenge
    NoChallenge,       \* the address has no entry in the map
    MaxChallenges      \* bound on the challenges created

ASSUME ChallengeAssumption ==
    /\ MaxCodeAttempts \in Nat \ {0}
    /\ TTL \in Nat \ {0}
    /\ MaxChallenges \in Nat

VARIABLES
    pending,   \* the map of outstanding challenges
    made,      \* how many challenges were created
    compared,  \* by id: codes the challenge was compared with
    accepted   \* by id: times the challenge was redeemed

storeVars == <<pending, made, compared, accepted>>

Id == 1..MaxChallenges
Challenge == [id : Id, code : Code, binding : Binding, exp : Nat, attempts : Nat]

ASSUME NoChallengeAssumption == NoChallenge \notin Challenge

StoreTypeOK ==
    /\ pending \in [Address -> Challenge \cup {NoChallenge}]
    /\ made \in 0..MaxChallenges
    /\ compared \in [Id -> Nat]
    /\ accepted \in [Id -> Nat]

StoreInit ==
    /\ pending = [a \in Address |-> NoChallenge]
    /\ made = 0
    /\ compared = [i \in Id |-> 0]
    /\ accepted = [i \in Id |-> 0]

-----------------------------------------------------------------------------
Expired(a, now) == pending[a] # NoChallenge /\ pending[a].exp <= now

\* Create: drop what has expired, replace what the address has.
Create(a, b, c, now) ==
    /\ made < MaxChallenges
    /\ made' = made + 1
    /\ pending' = [x \in Address |->
            IF x = a
            THEN [id |-> made + 1, code |-> c, binding |-> b, exp |-> now + TTL, attempts |-> 0]
            ELSE IF Expired(x, now) THEN NoChallenge ELSE pending[x]]
    /\ UNCHANGED <<compared, accepted>>

\* Mutant: the code is compared before the binding.
VerdictCodeFirst(a, c, b, now) ==
    CASE pending[a] = NoChallenge  -> "none"
      [] Expired(a, now)           -> "expired"
      [] pending[a] # NoChallenge /\ ~Expired(a, now) /\ pending[a].code # c -> "wrong"
      [] pending[a] # NoChallenge /\ ~Expired(a, now) /\ pending[a].code = c
            /\ pending[a].binding # b -> "mismatch"
      [] OTHER -> "ok"

\* Verify: the checks in the order the code makes them.
Verdict(a, c, b, now) ==
    IF pending[a] = NoChallenge THEN "none"
    ELSE IF Expired(a, now) THEN "expired"
    ELSE IF pending[a].binding # b THEN "mismatch"
    ELSE IF pending[a].code # c THEN "wrong"
    ELSE "ok"

\* Mutant: one attempt too many.
SpentAllAttemptsLate(a) == pending[a].attempts + 1 > MaxCodeAttempts

\* Verify: does this wrong code use up the challenge?
SpentAllAttempts(a) == pending[a].attempts + 1 >= MaxCodeAttempts

\* Mutant: an accepted code stays in the store.
VerifyKeepsCode(a, verdict) ==
    /\ pending' = IF verdict = "expired" THEN [pending EXCEPT ![a] = NoChallenge] ELSE pending
    /\ LET compares == verdict \in {"wrong", "ok"} IN
        /\ compared' = IF compares THEN [compared EXCEPT ![pending[a].id] = @ + 1] ELSE compared
        /\ accepted' = IF verdict = "ok" THEN [accepted EXCEPT ![pending[a].id] = @ + 1] ELSE accepted
    /\ UNCHANGED made

\* Verify: what each outcome leaves behind.
Verify(a, verdict) ==
    /\ pending' = CASE verdict \in {"none", "mismatch"} -> pending
                    [] verdict \in {"expired", "ok"} -> [pending EXCEPT ![a] = NoChallenge]
                    [] verdict = "wrong" ->
                        IF SpentAllAttempts(a)
                        THEN [pending EXCEPT ![a] = NoChallenge]
                        ELSE [pending EXCEPT ![a].attempts = @ + 1]
    /\ LET compares == verdict \in {"wrong", "ok"} IN
        /\ compared' = IF compares THEN [compared EXCEPT ![pending[a].id] = @ + 1] ELSE compared
        /\ accepted' = IF verdict = "ok" THEN [accepted EXCEPT ![pending[a].id] = @ + 1] ELSE accepted
    /\ UNCHANGED made

\* The store dies with its process.
StoreLost ==
    /\ pending' = [a \in Address |-> NoChallenge]
    /\ UNCHANGED <<made, compared, accepted>>

-----------------------------------------------------------------------------
\* A mailed code is good for one acceptance, whatever requests race for it
\* (Verify deletes the challenge it accepts).
CodeUsedOnce == \A i \in Id : accepted[i] <= 1

\* No challenge is ever compared with more than MaxCodeAttempts codes: the
\* chance of guessing one is bounded however the guesses are interleaved
\* with correct submissions and with other addresses' requests.
GuessesBounded == \A i \in Id : compared[i] <= MaxCodeAttempts
=============================================================================
