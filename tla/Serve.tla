-------------------------------- MODULE Serve --------------------------------
(***************************************************************************)
(* The reference runtime `tamayo serve -state-dir`: the three handlers of  *)
(* cmd/tamayo/serve.go that change state (handleVerifyBurn,                *)
(* handleVerifyPvt, handleBlindSign), the in-memory stores they use, the   *)
(* journal that makes these durable, and the startup that replays it.      *)
(*                                                                         *)
(* Every handler has one shape: change a store under its mutex, append the *)
(* change to the journal, check what is left to check, answer.  A request  *)
(* refused before its store is touched changes nothing and is not a step.  *)
(* Handlers run concurrently, and the process or the machine may die at    *)
(* any point; a client may send any request any number of times.           *)
(***************************************************************************)
EXTENDS Journal, FiniteSets

CONSTANTS
    Epoch,        \* key versions an operator may mount with -issuer
    BurnNonce,    \* nonces of burn tokens
    ReplayKey,    \* origin \x00 nonce of a private-identity presentation
    BudgetKey,    \* budget keys of AuthorizeMint
    Limit,        \* issuance limits a policy file may set
    MaxCount,     \* largest blind-sign batch
    Window,       \* budget window, in seconds
    MaxTime       \* bound on the wall clock

ASSUME ServeAssumption ==
    /\ IsFiniteSet(Handler)
    /\ Limit \subseteq Nat
    /\ MaxCount \in Nat
    /\ Window \in Nat \ {0}
    /\ MaxTime \in Nat

Time == 0..MaxTime

SpendRec  == [t : {"spend"}, epoch : Epoch, nonce : BurnNonce]
PvtRec    == [t : {"pvt"}, key : ReplayKey]
BudgetRec == [t : {"budget"}, key : BudgetKey, amount : 1..MaxCount,
              limit : Limit, unix : Time]

\* The records that stand for the single use of something.
OnceRec == SpendRec \cup PvtRec

ASSUME RecAssumption == Rec = OnceRec \cup BudgetRec

\* memoryBudgetKey: a budget key in the window a time belongs to.
Bucket == BudgetKey \X Time
BucketOf(r) == <<r.key, r.unix \div Window>>

VARIABLES
    status,    \* "down", "replaying", "serving", or "refused" to start
    live,      \* key versions of the issuers this process mounted
    limit,     \* the budget limit of the policy this process compiled
    pos,       \* how many entries openJournal has replayed
    spent,     \* MemorySpentStore.seen, by key version and nonce
    seenPvt,   \* replay keys of the presentations seen
    used,      \* MemoryBudgetStore.used
    pc,        \* where each handler is
    job,       \* what each handler is working on
    answered,  \* ghost: 200 answers given so far for each single use
    issued     \* ghost: tokens signed so far for each budget bucket

procVars == <<status, live, limit, pos>>
memVars  == <<spent, seenPvt, used>>
handVars == <<pc, job>>
ghostVars == <<answered, issued>>
vars == <<journalVars, procVars, memVars, handVars, ghostVars>>

\* A handler's record, and the verdict of the checks that follow its append:
\* these depend on the request and on what is fixed at startup only.
Job == [rec : Rec, ok : BOOLEAN]
NoJob == [rec |-> Empty, ok |-> FALSE]

TypeOK ==
    /\ JournalTypeOK
    /\ status \in {"down", "replaying", "serving", "refused"}
    /\ live \subseteq Epoch
    /\ limit \in Limit
    /\ pos \in Nat
    /\ spent \subseteq Epoch \X BurnNonce
    /\ seenPvt \subseteq ReplayKey
    /\ used \in [Bucket -> Nat]
    /\ pc \in [Handler -> {"idle", "authorizing", "marked", "written", "journaled"}]
    /\ job \in [Handler -> Job \cup {NoJob}]
    /\ answered \in [OnceRec -> Nat]
    /\ issued \in [Bucket -> Nat]

Init ==
    /\ JournalInit
    /\ status = "down"
    /\ live = {}
    /\ limit \in Limit
    /\ pos = 0
    /\ spent = {}
    /\ seenPvt = {}
    /\ used = [b \in Bucket |-> 0]
    /\ pc = [h \in Handler |-> "idle"]
    /\ job = [h \in Handler |-> NoJob]
    /\ answered = [r \in OnceRec |-> 0]
    /\ issued = [b \in Bucket |-> 0]

-----------------------------------------------------------------------------
(* The stores.                                                             *)

\* CheckAndMark, and the map lookup of handleVerifyPvt: is r used up?
Marked(r) ==
    \/ r.t = "spend" /\ <<r.epoch, r.nonce>> \in spent
    \/ r.t = "pvt" /\ r.key \in seenPvt

\* Record the use of r; marking twice is marking once.
Mark(r) ==
    /\ spent' = IF r.t = "spend" THEN spent \cup {<<r.epoch, r.nonce>>} ELSE spent
    /\ seenPvt' = IF r.t = "pvt" THEN seenPvt \cup {r.key} ELSE seenPvt
    /\ UNCHANGED used

\* Mutant: a replayed reservation is held against the limit in force now.
FitsCurrentLimit(r) == used[BucketOf(r)] + r.amount <= limit

\* Mutant: the check forgets the amount asked for.
FitsIgnoresAmount(r) == used[BucketOf(r)] < r.limit

\* MemoryBudgetStore.Reserve: are there r.amount permits left?
Fits(r) == used[BucketOf(r)] + r.amount <= r.limit

Charge(r) ==
    /\ used' = [used EXCEPT ![BucketOf(r)] = @ + r.amount]
    /\ UNCHANGED <<spent, seenPvt>>

\* The stores die with their process.
ForgetMemory ==
    /\ spent' = {}
    /\ seenPvt' = {}
    /\ used' = [b \in Bucket |-> 0]

-----------------------------------------------------------------------------
(* Startup: cmdServe and openJournal.                                      *)

\* The operator chooses the issuer files and the policy of every start.
Start ==
    /\ status \in {"down", "refused"}
    /\ status' = "replaying"
    /\ live' \in SUBSET Epoch \ {{}}
    /\ limit' \in Limit
    /\ pos' = 0
    /\ UNCHANGED <<journalVars, memVars, handVars, ghostVars>>

\* openJournal: one well-formed entry.  A duplicate mark is ignored, and a
\* reservation that does not fit is dropped; the limit is the recorded one.
Replay ==
    /\ status = "replaying" /\ pos < ScanLen
    /\ pos' = pos + 1
    /\ LET r == Scanned(pos + 1) IN
        /\ ~Refused(r)
        /\ IF r \in OnceRec THEN Mark(r)
           ELSE IF Fits(r) THEN Charge(r) ELSE UNCHANGED memVars
    /\ UNCHANGED <<journalVars, status, live, limit, handVars, ghostVars>>

\* openJournal: an entry it cannot read; cmdServe returns the error.
Refuse ==
    /\ status = "replaying" /\ pos < ScanLen
    /\ Refused(Scanned(pos + 1))
    /\ status' = "refused"
    /\ pos' = 0
    /\ ForgetMemory
    /\ UNCHANGED <<journalVars, live, limit, handVars, ghostVars>>

Listen ==
    /\ status = "replaying" /\ pos = ScanLen
    /\ status' = "serving"
    /\ pos' = 0
    /\ UNCHANGED <<journalVars, live, limit, memVars, handVars, ghostVars>>

-----------------------------------------------------------------------------
(* Handlers, up to the change of a store.                                  *)

Idle(h) == status = "serving" /\ pc[h] = "idle"

\* Mutant: the store is marked without being checked.
TakeUnchecked(h, r, ok) ==
    /\ Idle(h)
    /\ Mark(r)
    /\ pc' = [pc EXCEPT ![h] = "marked"]
    /\ job' = [job EXCEPT ![h] = [rec |-> r, ok |-> ok]]
    /\ UNCHANGED <<journalVars, procVars, ghostVars>>

\* CheckAndMark, or the lookup of seenPvt under s.mu: one handler takes an
\* unused use; every other request for it is answered 409.
Take(h, r, ok) ==
    /\ Idle(h)
    /\ ~Marked(r)
    /\ Mark(r)
    /\ pc' = [pc EXCEPT ![h] = "marked"]
    /\ job' = [job EXCEPT ![h] = [rec |-> r, ok |-> ok]]
    /\ UNCHANGED <<journalVars, procVars, ghostVars>>

\* handleVerifyBurn: a token is taken once it names a live key version and
\* verifies; a request that fails these checks leaves the token unspent.
VerifyBurn(h, r) == r.epoch \in live /\ Take(h, r, TRUE)

\* handleVerifyPvt: the replay key is taken before anything is verified; ok
\* says whether the token's key is live and the presentation verifies.
VerifyPvt(h, r, ok) == Take(h, r, ok)

\* handleBlindSign: read the clock and check everything but the budget; ok
\* says whether SignAuthorizedBlind will accept the family and the targets.
BlindSign(h, r, ok) ==
    /\ Idle(h)
    /\ r.limit = limit
    /\ pc' = [pc EXCEPT ![h] = "authorizing"]
    /\ job' = [job EXCEPT ![h] = [rec |-> r, ok |-> ok]]
    /\ UNCHANGED <<journalVars, procVars, memVars, ghostVars>>

\* The handler answers and its goroutine ends.
Done(h) ==
    /\ pc' = [pc EXCEPT ![h] = "idle"]
    /\ job' = [job EXCEPT ![h] = NoJob]

\* journaledBudgets.Reserve charges the store before the journal.
Reserve(h) ==
    /\ pc[h] = "authorizing"
    /\ Fits(job[h].rec)
    /\ Charge(job[h].rec)
    /\ pc' = [pc EXCEPT ![h] = "marked"]
    /\ UNCHANGED <<journalVars, procVars, job, ghostVars>>

\* AuthorizeMint fails budget_available: 403.
ReserveExceeded(h) ==
    /\ pc[h] = "authorizing"
    /\ ~Fits(job[h].rec)
    /\ Done(h)
    /\ UNCHANGED <<journalVars, procVars, memVars, ghostVars>>

-----------------------------------------------------------------------------
(* Handlers, the append and the answer.                                    *)

Write(h) ==
    /\ pc[h] = "marked"
    /\ JournalWrite(h, job[h].rec)
    /\ pc' = [pc EXCEPT ![h] = "written"]
    /\ UNCHANGED <<procVars, memVars, job, ghostVars>>

\* 500, or 403 from AuthorizeMint: the store keeps the change.
WriteError(h) ==
    /\ pc[h] = "marked"
    /\ JournalWriteError(job[h].rec)
    /\ Done(h)
    /\ UNCHANGED <<procVars, memVars, ghostVars>>

Sync(h) ==
    /\ pc[h] = "written"
    /\ JournalSync(h)
    /\ pc' = [pc EXCEPT ![h] = "journaled"]
    /\ UNCHANGED <<procVars, memVars, job, ghostVars>>

SyncError(h) ==
    /\ pc[h] = "written"
    /\ JournalSyncError(h)
    /\ Done(h)
    /\ UNCHANGED <<procVars, memVars, ghostVars>>

\* handleVerifyBurn and handleVerifyPvt: 200 when the last checks pass, 401
\* when they do not.
AnswerOnce(h) ==
    /\ pc[h] = "journaled"
    /\ job[h].rec \in OnceRec
    /\ answered' = IF job[h].ok THEN [answered EXCEPT ![job[h].rec] = @ + 1] ELSE answered
    /\ Done(h)
    /\ UNCHANGED <<journalVars, procVars, memVars, issued>>

\* handleBlindSign: the signatures leave the server, or SignAuthorizedBlind
\* refuses and the charge stays.
AnswerMint(h) ==
    /\ pc[h] = "journaled"
    /\ job[h].rec \in BudgetRec
    /\ issued' = IF job[h].ok
                 THEN [issued EXCEPT ![BucketOf(job[h].rec)] = @ + job[h].rec.amount]
                 ELSE issued
    /\ Done(h)
    /\ UNCHANGED <<journalVars, procVars, memVars, answered>>

-----------------------------------------------------------------------------
(* Failures.                                                               *)

ProcessDies ==
    /\ status' = "down"
    /\ pos' = 0
    /\ ForgetMemory
    /\ pc' = [h \in Handler |-> "idle"]
    /\ job' = [h \in Handler |-> NoJob]
    /\ UNCHANGED <<live, limit, ghostVars>>

Crash ==
    /\ status \in {"replaying", "serving"}
    /\ JournalKilled
    /\ ProcessDies

PowerLoss ==
    /\ JournalPowerLoss
    /\ ProcessDies

-----------------------------------------------------------------------------
HandlerStep(h) ==
    \/ Reserve(h) \/ ReserveExceeded(h)
    \/ Write(h) \/ WriteError(h) \/ Sync(h) \/ SyncError(h)
    \/ AnswerOnce(h) \/ AnswerMint(h)

Next ==
    \/ Start \/ Replay \/ Refuse \/ Listen
    \/ \E h \in Handler :
        \/ \E r \in SpendRec : VerifyBurn(h, r)
        \/ \E r \in PvtRec, ok \in BOOLEAN : VerifyPvt(h, r, ok)
        \/ \E r \in BudgetRec, ok \in BOOLEAN : BlindSign(h, r, ok)
        \/ HandlerStep(h)
    \/ Crash \/ PowerLoss

Spec == Init /\ [][Next]_vars

\* A running goroutine is scheduled, and a sync.Mutex, which hands itself to
\* the oldest waiter once that has waited a millisecond, starves nobody.
FairSpec ==
    /\ Spec
    /\ \A h \in Handler :
        /\ WF_vars(HandlerStep(h))
        /\ SF_vars(Write(h) \/ WriteError(h))

-----------------------------------------------------------------------------
(* The abstract service and the state of it that a state of Serve stands   *)
(* for.                                                                    *)

\* The handler works on the single use r.
Holds(h, r) == pc[h] # "idle" /\ job[h].rec = r

holder ==
    [r \in OnceRec |-> IF \E h \in Handler : Holds(h, r)
                       THEN CHOOSE h \in Handler : Holds(h, r)
                       ELSE Nobody]

Promise == INSTANCE SingleUse WITH Use <- OnceRec, Worker <- Handler, None <- Nobody

-----------------------------------------------------------------------------
(* Properties.                                                             *)

\* A burn token is accepted at most once, and a presentation nonce at most
\* once per origin, whatever handlers run together, whenever the process or
\* the machine dies, and whichever issuer files the next start mounts
\* (handleVerifyBurn, handleVerifyPvt, openJournal).
AtMostOnce == \A r \in OnceRec : answered[r] <= 1

\* Tokens leave the server only while all that left it for the same budget
\* key and window, before and after every restart, fits the limit of the
\* policy in force (journaledBudgets.Reserve, openJournal).
WithinBudget ==
    [][\A b \in Bucket : issued'[b] > issued[b] => issued'[b] <= limit]_vars

\* The runtime implements SingleUse: no two handlers ever work on one token
\* or presentation nonce, none works on an answered one, and the answer is
\* given by the handler that took it.
KeepsPromise == Promise!Spec

\* openJournal never drops a reservation of the journal: the limit and the
\* time it replays are the recorded ones, and the order of two records in
\* the file, which may not be the order the store was charged in, does not
\* matter.
ReplayDropsNothing ==
    status = "replaying" /\ pos < ScanLen /\ Scanned(pos + 1) \in BudgetRec
        => Fits(Scanned(pos + 1))

\* Every request that reached a store is answered, or dies with the process:
\* no path of append leaves the journal mutex behind.
EveryRequestAnswered ==
    \A h \in Handler : pc[h] # "idle" ~> pc[h] = "idle"

\* What docs/known-gaps.md and the header of state.go promise of -state-dir:
\* the journal is replayed at the next start.
RestartSurvives == status # "refused"
=============================================================================
