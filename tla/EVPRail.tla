------------------------------- MODULE EVPRail -------------------------------
(***************************************************************************)
(* The EVP rail of cmd/tamayo/evp.go: the issuance endpoint that mails a   *)
(* code bound to a browser key and turns the code into an email            *)
(* verification token (EVT), charging the mailbox's issuance budget.  The  *)
(* budget is the journaled one of Serve: a reservation is one step here    *)
(* and survives a restart; the challenge store and the gate key that turns *)
(* an address into a budget key do not.                                    *)
(***************************************************************************)
EXTENDS ChallengeStore, FiniteSets

CONSTANTS
    Handler,       \* issuance requests handled at once
    NoCode,        \* the request carries no code
    BudgetLimit,   \* EVTs per mailbox and window
    Window,        \* length of the budget window
    MaxTime,       \* bound on the clock
    MaxRestarts    \* bound on the restarts

ASSUME EVPAssumption ==
    /\ IsFiniteSet(Handler)
    /\ BudgetLimit \in Nat
    /\ Window \in Nat \ {0}
    /\ MaxTime \in Nat
    /\ MaxRestarts \in Nat

VARIABLES
    clock,
    gateKey,   \* which start's random gate key is in use
    pc,        \* where each handler is
    req,       \* the request each handler serves
    used,      \* permits reserved, by budget key and window
    evts       \* ghost: EVTs issued, by budget key and window

vars == <<storeVars, clock, gateKey, pc, req, used, evts>>

Time == 0..MaxTime
Request == [addr : Address, browser : Binding, code : Code \cup {NoCode}, now : Time]
Idle == [pc |-> "idle"]

\* BucketID under the gate key of one start, in one window.
Bucket == (0..MaxRestarts) \X Address \X Time
BucketOf(q) == <<gateKey, q.addr, q.now \div Window>>

TypeOK ==
    /\ StoreTypeOK
    /\ clock \in Time
    /\ gateKey \in 0..MaxRestarts
    /\ pc \in [Handler -> {"idle", "arrived", "verified", "charged"}]
    /\ \A h \in Handler : pc[h] # "idle" => req[h] \in Request
    /\ used \in [Bucket -> 0..BudgetLimit]
    /\ evts \in [Bucket -> Nat]

Init ==
    /\ StoreInit
    /\ clock = 0
    /\ gateKey = 0
    /\ pc = [h \in Handler |-> "idle"]
    /\ req = [h \in Handler |-> Idle]
    /\ used = [b \in Bucket |-> 0]
    /\ evts = [b \in Bucket |-> 0]

-----------------------------------------------------------------------------
Goto(h, p) == pc' = [pc EXCEPT ![h] = p]
Finish(h) == Goto(h, "idle") /\ req' = [req EXCEPT ![h] = Idle]

\* handleEVPIssuance reads the clock and accepts the message signature: the
\* browser key is the one the request is signed with.
Arrive(h, a, b, c) ==
    /\ pc[h] = "idle"
    /\ Goto(h, "arrived")
    /\ req' = [req EXCEPT ![h] = [addr |-> a, browser |-> b, code |-> c, now |-> clock]]
    /\ UNCHANGED <<storeVars, clock, gateKey, used, evts>>

\* No code yet: make a challenge and mail its code.  A failed delivery
\* leaves the challenge pending.
SendCode(h) ==
    /\ pc[h] = "arrived" /\ req[h].code = NoCode
    /\ \E c \in Code : Create(req[h].addr, req[h].browser, c, req[h].now)
    /\ Finish(h)
    /\ UNCHANGED <<clock, gateKey, used, evts>>

RedeemCode(h) ==
    /\ pc[h] = "arrived" /\ req[h].code # NoCode
    /\ LET q == req[h]
           verdict == Verdict(q.addr, q.code, q.browser, q.now) IN
        /\ Verify(q.addr, verdict)
        /\ IF verdict = "ok" THEN Goto(h, "verified") /\ UNCHANGED req ELSE Finish(h)
    /\ UNCHANGED <<clock, gateKey, used, evts>>

\* Mutant: the permit is counted against the limit only afterwards.
ChargePermitUnchecked(h) ==
    /\ pc[h] = "verified"
    /\ LET b == BucketOf(req[h]) IN
        IF used[b] < BudgetLimit
        THEN used' = [used EXCEPT ![b] = @ + 1]
        ELSE UNCHANGED used
    /\ Goto(h, "charged")
    /\ UNCHANGED <<storeVars, clock, gateKey, req, evts>>

\* Mutant: the permit is reserved whatever the limit.
ChargePermitUnlimited(h) ==
    /\ pc[h] = "verified"
    /\ used' = [used EXCEPT ![BucketOf(req[h])] = @ + 1]
    /\ Goto(h, "charged")
    /\ UNCHANGED <<storeVars, clock, gateKey, req, evts>>

\* One permit out of the mailbox's window; without one the code is gone too.
ChargePermit(h) ==
    /\ pc[h] = "verified"
    /\ LET b == BucketOf(req[h]) IN
        IF used[b] + 1 <= BudgetLimit
        THEN used' = [used EXCEPT ![b] = @ + 1] /\ Goto(h, "charged") /\ UNCHANGED req
        ELSE Finish(h) /\ UNCHANGED used
    /\ UNCHANGED <<storeVars, clock, gateKey, evts>>

\* The store charged the permit, the journal did not take it: 429.
ChargeNotJournaled(h) ==
    /\ pc[h] = "verified"
    /\ LET b == BucketOf(req[h]) IN
        /\ used[b] + 1 <= BudgetLimit
        /\ used' = [used EXCEPT ![b] = @ + 1]
    /\ Finish(h)
    /\ UNCHANGED <<storeVars, clock, gateKey, evts>>

IssueEVT(h) ==
    /\ pc[h] = "charged"
    /\ evts' = [evts EXCEPT ![BucketOf(req[h])] = @ + 1]
    /\ Finish(h)
    /\ UNCHANGED <<storeVars, clock, gateKey, used>>

\* The holder key or the signer fails: 500, with the permit and the code gone.
IssueFails(h) ==
    /\ pc[h] = "charged"
    /\ Finish(h)
    /\ UNCHANGED <<storeVars, clock, gateKey, used, evts>>

\* cmdServe: a new process draws a new gate key; openJournal replays the
\* reservations under the keys they were made with.
Restart ==
    /\ gateKey < MaxRestarts
    /\ gateKey' = gateKey + 1
    /\ StoreLost
    /\ pc' = [h \in Handler |-> "idle"]
    /\ req' = [h \in Handler |-> Idle]
    /\ UNCHANGED <<clock, used, evts>>

Tick ==
    /\ clock < MaxTime
    /\ clock' = clock + 1
    /\ UNCHANGED <<storeVars, gateKey, pc, req, used, evts>>

Next ==
    \/ \E h \in Handler :
        \/ \E a \in Address, b \in Binding, c \in Code \cup {NoCode} : Arrive(h, a, b, c)
        \/ SendCode(h) \/ RedeemCode(h)
        \/ ChargePermit(h) \/ ChargeNotJournaled(h) \/ IssueEVT(h) \/ IssueFails(h)
    \/ Restart \/ Tick

Spec == Init /\ [][Next]_vars

-----------------------------------------------------------------------------
\* A code stays good until it expires, whatever other browsers and other
\* addresses do: only a new request for the same address, or a submission
\* under the browser key the code is bound to, changes a live challenge of a
\* running process (Create's purge, Verify's order of checks).
ChallengeUndisturbed ==
    [][\A a \in Address :
        /\ pending[a] # NoChallenge /\ pending[a].exp > clock
        /\ pending'[a] # pending[a]
        /\ gateKey' = gateKey
        => \E h \in Handler :
            /\ pc[h] = "arrived" /\ pc'[h] # "arrived"
            /\ req[h].addr = a
            /\ req[h].code = NoCode \/ req[h].browser = pending[a].binding]_vars

\* One start of the server hands out at most BudgetLimit EVTs per mailbox and
\* window, however the requests of a mailbox overlap between the check of
\* their code, the reservation and the answer.
EVTsWithinBudget == \A b \in Bucket : evts[b] <= BudgetLimit

\* What mailbox.go says of the gate ("one canonical address maps to one
\* issuance budget bucket per window") and evp.go of the rail ("each issued
\* EVT charges the mailbox's per-window issuance budget"), with a journal
\* that keeps budgets across restarts: a mailbox gets at most BudgetLimit
\* EVTs in a window.
MailboxWithinBudget ==
    \A a \in Address, w \in Time :
        LET EvtsUnder[g \in 0..MaxRestarts] ==
                evts[<<g, a, w>>] + (IF g = 0 THEN 0 ELSE EvtsUnder[g - 1])
        IN EvtsUnder[MaxRestarts] <= BudgetLimit
=============================================================================
