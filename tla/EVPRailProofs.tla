---------------------------- MODULE EVPRailProofs ----------------------------
(***************************************************************************)
(* The EVP rail keeps what ChallengeStoreProofs shows of its store: each   *)
(* step is one store operation or leaves the store alone.  And it keeps    *)
(* its budget: a permit in the hands of a handler counts as an EVT.        *)
(***************************************************************************)
EXTENDS EVPRail, ChallengeStoreProofs, FiniteSetTheorems

\* Where a handler has accepted a request, the request is one.
RequestsTyped == \A h \in Handler : pc[h] # "idle" => req[h] \in Request

RailInv ==
    /\ StoreInv
    /\ clock \in Time
    /\ pc \in [Handler -> {"idle", "arrived", "verified", "charged"}]
    /\ req \in [Handler -> Request \cup {Idle}]
    /\ RequestsTyped

\* The rail starts with an empty store and idle handlers.
LEMMA RailInitInv == Init => RailInv
  BY StoreInitInv, EVPAssumption DEF Init, RailInv, RequestsTyped, Time

\* A handler that ends holds no request.
LEMMA FinishKeepsRequests ==
  ASSUME RailInv, NEW h \in Handler, Finish(h)
  PROVE  /\ pc' \in [Handler -> {"idle", "arrived", "verified", "charged"}]
         /\ req' \in [Handler -> Request \cup {Idle}]
         /\ RequestsTyped'
  BY DEF RailInv, RequestsTyped, Finish, Goto

\* A handler that goes on keeps its request.
LEMMA GotoKeepsRequests ==
  ASSUME RailInv, NEW h \in Handler, pc[h] # "idle", UNCHANGED req,
         Goto(h, "verified") \/ Goto(h, "charged")
  PROVE  /\ pc' \in [Handler -> {"idle", "arrived", "verified", "charged"}]
         /\ req' \in [Handler -> Request \cup {Idle}]
         /\ RequestsTyped'
  BY DEF RailInv, RequestsTyped, Goto

\* One step per action; only SendCode, RedeemCode and Restart touch the store.
LEMMA RailNextInv == RailInv /\ [Next]_vars => RailInv'
<1> SUFFICES ASSUME RailInv, [Next]_vars PROVE RailInv'
  OBVIOUS
<1>1. ASSUME NEW h \in Handler, NEW a \in Address, NEW b \in Binding,
             NEW c \in Code \cup {NoCode}, Arrive(h, a, b, c)
      PROVE  RailInv'
  <2>1. StoreInv'
    BY <1>1, StoreStutter DEF Arrive, RailInv
  <2>2. [addr |-> a, browser |-> b, code |-> c, now |-> clock] \in Request
    BY DEF RailInv, Request
  <2> QED BY <1>1, <2>1, <2>2 DEF Arrive, Goto, RailInv, RequestsTyped
<1>2. ASSUME NEW h \in Handler, SendCode(h)
      PROVE  RailInv'
  <2>1. req[h] \in Request
    BY <1>2 DEF SendCode, RailInv, RequestsTyped
  <2>2. req[h].addr \in Address /\ req[h].browser \in Binding /\ req[h].now \in Nat
    BY <2>1, EVPAssumption DEF Request, Time
  <2>3. StoreInv'
    BY <1>2, <2>2, CreateKeepsInv DEF SendCode, RailInv
  <2> QED BY <1>2, <2>3, FinishKeepsRequests DEF SendCode, RailInv
<1>3. ASSUME NEW h \in Handler, RedeemCode(h)
      PROVE  RailInv'
  <2>1. req[h] \in Request /\ req[h].code # NoCode
    BY <1>3 DEF RedeemCode, RailInv, RequestsTyped
  <2>2. /\ req[h].addr \in Address /\ req[h].browser \in Binding
        /\ req[h].now \in Nat /\ req[h].code \in Code
    BY <2>1, EVPAssumption DEF Request, Time
  <2>3. Verify(req[h].addr, Verdict(req[h].addr, req[h].code, req[h].browser, req[h].now))
    BY <1>3 DEF RedeemCode
  <2>4. StoreInv'
    BY <2>2, <2>3, VerifyKeepsInv DEF RailInv
  <2>5. Finish(h) \/ (Goto(h, "verified") /\ UNCHANGED req)
    BY <1>3 DEF RedeemCode
  <2> QED BY <1>3, <2>4, <2>5, FinishKeepsRequests, GotoKeepsRequests DEF RedeemCode, RailInv
<1>4. ASSUME NEW h \in Handler,
             ChargePermit(h) \/ ChargeNotJournaled(h) \/ IssueEVT(h) \/ IssueFails(h)
      PROVE  RailInv'
  <2>1. StoreInv'
    BY <1>4, StoreStutter DEF ChargePermit, ChargeNotJournaled, IssueEVT, IssueFails, RailInv
  <2>2. Finish(h) \/ (Goto(h, "charged") /\ UNCHANGED req)
    BY <1>4 DEF ChargePermit, ChargeNotJournaled, IssueEVT, IssueFails
  <2>3. pc[h] # "idle" /\ clock' = clock
    BY <1>4 DEF ChargePermit, ChargeNotJournaled, IssueEVT, IssueFails
  <2> QED BY <2>1, <2>2, <2>3, FinishKeepsRequests, GotoKeepsRequests DEF RailInv
<1>5. CASE Restart
  BY <1>5, StoreLostKeepsInv DEF Restart, RailInv, RequestsTyped
<1>6. CASE Tick
  BY <1>6, StoreStutter, EVPAssumption DEF Tick, RailInv, RequestsTyped, Time
<1>7. CASE UNCHANGED vars
  BY <1>7, StoreStutter DEF vars, RailInv, RequestsTyped
<1> QED BY <1>1, <1>2, <1>3, <1>4, <1>5, <1>6, <1>7 DEF Next

\* The store's invariant holds throughout every run of the rail.
LEMMA RailAlwaysInv == Spec => []RailInv
  BY RailInitInv, RailNextInv, PTL DEF Spec

\* A mailed code is accepted at most once, whatever requests race for it and
\* however often the server restarts (ChallengeStore.Verify).
THEOREM RailCodeUsedOnce == Spec => []CodeUsedOnce
<1>1. RailInv => CodeUsedOnce
  BY DEF RailInv, StoreInv
<1> QED BY <1>1, RailAlwaysInv, PTL

\* No challenge is compared with more than MaxCodeAttempts codes, for any
\* number of requests, addresses and browsers (ChallengeStore.Verify).
THEOREM RailGuessesBounded == Spec => []GuessesBounded
<1>1. RailInv => GuessesBounded
  BY DEF RailInv, StoreInv
<1> QED BY <1>1, RailAlwaysInv, PTL
-----------------------------------------------------------------------------
(* The budget.                                                             *)

\* The handlers between Reserve and the answer that drew on bucket b.
InHand(b) == {h \in Handler : pc[h] = "charged" /\ BucketOf(req[h]) = b}

\* What was issued or is about to be was reserved.
Covered == \A b \in Bucket : evts[b] + Cardinality(InHand(b)) <= used[b]

BudgetInv ==
    /\ RailInv
    /\ gateKey \in 0..MaxRestarts
    /\ used \in [Bucket -> 0..BudgetLimit]
    /\ evts \in [Bucket -> Nat]
    /\ Covered

\* The bucket of a request exists.
LEMMA BucketOfType ==
  ASSUME NEW q \in Request, gateKey \in 0..MaxRestarts
  PROVE  BucketOf(q) \in Bucket
<1>1. q.addr \in Address /\ q.now \in Time
  BY DEF Request
<1>2. \A x \in Nat, w \in Nat \ {0} : x \div w \in Nat /\ x \div w <= x
  OBVIOUS
<1>3. q.now \div Window \in Time
  BY <1>1, <1>2, EVPAssumption DEF Time
<1> QED BY <1>1, <1>3 DEF BucketOf, Bucket

\* The handlers in hand are finitely many.
LEMMA InHandFinite ==
  ASSUME NEW b
  PROVE  IsFiniteSet(InHand(b)) /\ Cardinality(InHand(b)) \in Nat
  BY EVPAssumption, FS_Subset, FS_CardinalityType DEF InHand

\* A step of a handler that neither draws nor spends a permit.
LEMMA QuietKeepsBudget ==
  ASSUME BudgetInv, RailInv', UNCHANGED <<gateKey, used, evts>>,
         \A b \in Bucket : InHand(b)' = InHand(b)
  PROVE  BudgetInv'
<1>1. \A b \in Bucket : Cardinality(InHand(b))' = Cardinality(InHand(b))
  OBVIOUS
<1> QED BY <1>1 DEF BudgetInv, Covered

\* A handler without a permit may arrive, be refused or have its code taken.
LEMMA EmptyHanded ==
  ASSUME BudgetInv, NEW h \in Handler, pc[h] # "charged", gateKey' = gateKey,
         NEW p, NEW q, p # "charged",
         pc' = [pc EXCEPT ![h] = p], req' = [req EXCEPT ![h] = q]
  PROVE  \A b \in Bucket : InHand(b)' = InHand(b)
<1> SUFFICES ASSUME NEW b \in Bucket, NEW g \in Handler
             PROVE  (pc'[g] = "charged" /\ BucketOf(req[g])' = b)
                        <=> (pc[g] = "charged" /\ BucketOf(req[g]) = b)
  BY DEF InHand
<1>1. CASE g = h
  BY <1>1 DEF BudgetInv, RailInv
<1>2. CASE g # h
  BY <1>2 DEF BudgetInv, RailInv, BucketOf
<1> QED BY <1>1, <1>2

\* At first nothing is reserved, in hand or issued.
LEMMA BudgetInitInv == Init => BudgetInv
<1> SUFFICES ASSUME Init PROVE BudgetInv
  OBVIOUS
<1>1. \A b \in Bucket : InHand(b) = {}
  BY DEF Init, InHand
<1>2. \A b \in Bucket : Cardinality(InHand(b)) = 0
  BY <1>1, FS_EmptySet
<1> QED BY <1>2, RailInitInv, EVPAssumption DEF Init, BudgetInv, Covered

\* ChargePermit that is granted moves one permit from the budget to a hand.
LEMMA GrantKeepsBudget ==
  ASSUME BudgetInv, RailInv', NEW h \in Handler, pc[h] = "verified",
         used[BucketOf(req[h])] + 1 <= BudgetLimit,
         used' = [used EXCEPT ![BucketOf(req[h])] = @ + 1],
         Goto(h, "charged"), UNCHANGED <<req, gateKey, evts>>
  PROVE  BudgetInv'
<1>1. PICK c \in Bucket : c = BucketOf(req[h])
  BY BucketOfType DEF BudgetInv, RailInv, RequestsTyped
<1>2. InHand(c)' = InHand(c) \cup {h} /\ h \notin InHand(c)
  BY <1>1 DEF InHand, Goto, BucketOf, BudgetInv, RailInv
<1>3. \A b \in Bucket \ {c} : InHand(b)' = InHand(b)
  BY <1>1 DEF InHand, Goto, BucketOf, BudgetInv, RailInv
<1>4. Cardinality(InHand(c))' = Cardinality(InHand(c)) + 1
  BY <1>2, InHandFinite, FS_AddElement
<1>5. used' = [used EXCEPT ![c] = @ + 1] /\ used[c] + 1 <= BudgetLimit
  BY <1>1
<1>6. used' \in [Bucket -> 0..BudgetLimit]
  BY <1>1, <1>5, EVPAssumption DEF BudgetInv
<1>7. Covered'
  <2> SUFFICES ASSUME NEW b \in Bucket
               PROVE  evts'[b] + Cardinality(InHand(b))' <= used'[b]
    BY DEF Covered
  <2>1. CASE b = c
    <3>1. evts[c] \in Nat /\ used[c] \in Nat /\ Cardinality(InHand(c)) \in Nat
      BY <1>1, InHandFinite, EVPAssumption DEF BudgetInv
    <3>2. evts[c] + Cardinality(InHand(c)) <= used[c]
      BY <1>1 DEF BudgetInv, Covered
    <3>3. evts'[c] = evts[c] /\ used'[c] = used[c] + 1
      BY <1>1, <1>5 DEF BudgetInv
    <3>4. evts'[c] + Cardinality(InHand(c))' <= used'[c]
      BY <3>1, <3>2, <3>3, <1>4
    <3> QED BY <2>1, <3>4
  <2>2. CASE b # c
    <3>1. Cardinality(InHand(b))' = Cardinality(InHand(b)) /\ used'[b] = used[b]
      BY <2>2, <1>3, <1>5 DEF BudgetInv
    <3> QED BY <3>1 DEF BudgetInv, Covered
  <2> QED BY <2>1, <2>2
<1> QED BY <1>6, <1>7 DEF BudgetInv

\* IssueEVT turns the permit in hand into an EVT.
LEMMA IssueKeepsBudget ==
  ASSUME BudgetInv, RailInv', NEW h \in Handler, IssueEVT(h)
  PROVE  BudgetInv'
<1>1. PICK c \in Bucket : c = BucketOf(req[h])
  BY BucketOfType DEF IssueEVT, BudgetInv, RailInv, RequestsTyped
<1>2. InHand(c)' = InHand(c) \ {h} /\ h \in InHand(c)
  <2>1. h \in InHand(c)
    BY <1>1 DEF IssueEVT, InHand
  <2>2. \A g \in Handler \ {h} : pc'[g] = pc[g] /\ req'[g] = req[g]
    BY DEF IssueEVT, Finish, Goto, BudgetInv, RailInv
  <2>3. pc'[h] # "charged" /\ gateKey' = gateKey
    BY DEF IssueEVT, Finish, Goto, BudgetInv, RailInv
  <2>4. \A g : g \in InHand(c)' <=> g \in InHand(c) /\ g # h
    BY <2>2, <2>3 DEF InHand, BucketOf
  <2> QED BY <2>1, <2>4
<1>3. \A b \in Bucket \ {c} : InHand(b)' = InHand(b)
  BY <1>1 DEF IssueEVT, InHand, Finish, Goto, BucketOf, BudgetInv, RailInv
<1>4. evts' = [evts EXCEPT ![c] = @ + 1] /\ used' = used /\ gateKey' = gateKey
  BY <1>1 DEF IssueEVT
<1>5. Cardinality(InHand(c))' = Cardinality(InHand(c)) - 1
  BY <1>2, InHandFinite, FS_RemoveElement
<1>6. Covered'
  <2> SUFFICES ASSUME NEW b \in Bucket
               PROVE  evts'[b] + Cardinality(InHand(b))' <= used'[b]
    BY DEF Covered
  <2>1. CASE b = c
    <3>1. evts[c] \in Nat /\ used[c] \in Nat /\ Cardinality(InHand(c)) \in Nat
      BY <1>1, InHandFinite, EVPAssumption DEF BudgetInv
    <3>2. evts[c] + Cardinality(InHand(c)) <= used[c]
      BY <1>1 DEF BudgetInv, Covered
    <3>3. evts'[c] = evts[c] + 1 /\ used'[c] = used[c]
      BY <1>1, <1>4 DEF BudgetInv
    <3>4. evts'[c] + Cardinality(InHand(c))' <= used'[c]
      BY <3>1, <3>2, <3>3, <1>5
    <3> QED BY <2>1, <3>4
  <2>2. CASE b # c
    <3>1. Cardinality(InHand(b))' = Cardinality(InHand(b)) /\ evts'[b] = evts[b]
      BY <2>2, <1>3, <1>4 DEF BudgetInv
    <3> QED BY <3>1, <1>4 DEF BudgetInv, Covered
  <2> QED BY <2>1, <2>2
<1> QED BY <1>1, <1>4, <1>6 DEF BudgetInv

\* IssueFails drops the permit in hand.
LEMMA IssueFailsKeepsBudget ==
  ASSUME BudgetInv, RailInv', NEW h \in Handler, IssueFails(h)
  PROVE  BudgetInv'
<1>1. UNCHANGED <<gateKey, used, evts>>
  BY DEF IssueFails
<1>2. /\ pc'[h] # "charged"
      /\ \A g \in Handler \ {h} : pc'[g] = pc[g] /\ req'[g] = req[g]
  BY DEF IssueFails, Finish, Goto, BudgetInv, RailInv
<1>3. \A b \in Bucket : InHand(b)' \subseteq InHand(b)
  BY <1>1, <1>2 DEF InHand, BucketOf
<1>4. \A b \in Bucket : /\ Cardinality(InHand(b))' \in Nat /\ Cardinality(InHand(b)) \in Nat
                       /\ Cardinality(InHand(b))' <= Cardinality(InHand(b))
  BY <1>3, InHandFinite, FS_Subset, FS_CardinalityType
<1>5. Covered'
  BY <1>1, <1>4, EVPAssumption DEF BudgetInv, Covered
<1> QED BY <1>1, <1>5 DEF BudgetInv

\* A permit drawn and not journaled is lost: the budget only shrinks.
LEMMA LostPermitKeepsBudget ==
  ASSUME BudgetInv, RailInv', NEW h \in Handler, ChargeNotJournaled(h)
  PROVE  BudgetInv'
<1>1. PICK c \in Bucket : c = BucketOf(req[h])
  BY BucketOfType DEF ChargeNotJournaled, BudgetInv, RailInv, RequestsTyped
<1>2. \A b \in Bucket : InHand(b)' = InHand(b)
  BY EmptyHanded DEF ChargeNotJournaled, Finish, Goto
<1>3. /\ used' = [used EXCEPT ![c] = @ + 1] /\ used[c] + 1 <= BudgetLimit
      /\ evts' = evts /\ gateKey' = gateKey
  BY <1>1 DEF ChargeNotJournaled
<1>4. \A b \in Bucket : Cardinality(InHand(b))' = Cardinality(InHand(b))
  BY <1>2
<1>5. used' \in [Bucket -> 0..BudgetLimit] /\ \A b \in Bucket : used[b] <= used'[b]
  BY <1>1, <1>3, EVPAssumption DEF BudgetInv
<1>6. Covered'
  BY <1>3, <1>4, <1>5, InHandFinite DEF BudgetInv, Covered
<1> QED BY <1>3, <1>5, <1>6 DEF BudgetInv

\* One step per action.
LEMMA BudgetNextInv == BudgetInv /\ [Next]_vars => BudgetInv'
<1> SUFFICES ASSUME BudgetInv, [Next]_vars PROVE BudgetInv'
  OBVIOUS
<1>0. RailInv'
  BY RailNextInv DEF BudgetInv
<1>1. ASSUME NEW h \in Handler, NEW a \in Address, NEW b \in Binding,
             NEW c \in Code \cup {NoCode}, Arrive(h, a, b, c)
      PROVE  BudgetInv'
  BY <1>0, <1>1, EmptyHanded, QuietKeepsBudget DEF Arrive, Goto
<1>2. ASSUME NEW h \in Handler, SendCode(h)
      PROVE  BudgetInv'
  BY <1>0, <1>2, EmptyHanded, QuietKeepsBudget DEF SendCode, Finish, Goto
<1>3. ASSUME NEW h \in Handler, RedeemCode(h)
      PROVE  BudgetInv'
  <2>1. UNCHANGED <<gateKey, used, evts>> /\ pc[h] # "charged"
    BY <1>3 DEF RedeemCode
  <2>2. CASE Finish(h)
    BY <2>1, <2>2, <1>0, EmptyHanded, QuietKeepsBudget DEF Finish, Goto
  <2>3. CASE Goto(h, "verified") /\ UNCHANGED req
    <3>1. req' = [req EXCEPT ![h] = req[h]]
      BY <2>3 DEF BudgetInv, RailInv
    <3> QED BY <2>1, <2>3, <3>1, <1>0, EmptyHanded, QuietKeepsBudget DEF Goto
  <2> QED BY <1>3, <2>2, <2>3 DEF RedeemCode
<1>4. ASSUME NEW h \in Handler, ChargePermit(h)
      PROVE  BudgetInv'
  <2>1. UNCHANGED <<gateKey, evts>> /\ pc[h] = "verified"
    BY <1>4 DEF ChargePermit
  <2>2. CASE Finish(h) /\ UNCHANGED used
    BY <2>1, <2>2, <1>0, EmptyHanded, QuietKeepsBudget DEF Finish, Goto
  <2>3. CASE ~(Finish(h) /\ UNCHANGED used)
    BY <2>1, <2>3, <1>4, <1>0, GrantKeepsBudget DEF ChargePermit
  <2> QED BY <2>2, <2>3
<1>5. ASSUME NEW h \in Handler, ChargeNotJournaled(h)
      PROVE  BudgetInv'
  BY <1>0, <1>5, LostPermitKeepsBudget
<1>6. ASSUME NEW h \in Handler, IssueEVT(h)
      PROVE  BudgetInv'
  BY <1>0, <1>6, IssueKeepsBudget
<1>7. ASSUME NEW h \in Handler, IssueFails(h)
      PROVE  BudgetInv'
  BY <1>0, <1>7, IssueFailsKeepsBudget
<1>8. CASE Restart
  <2>1. /\ gateKey' \in 0..MaxRestarts /\ used' = used /\ evts' = evts
        /\ \A b \in Bucket : InHand(b)' = {}
    BY <1>8, EVPAssumption DEF Restart, InHand, BudgetInv
  <2>2. \A b \in Bucket : Cardinality(InHand(b))' = 0
    BY <2>1, FS_EmptySet
  <2>3. \A b \in Bucket : evts[b] + 0 <= used[b]
    BY InHandFinite, EVPAssumption DEF BudgetInv, Covered
  <2> QED BY <1>0, <2>1, <2>2, <2>3 DEF BudgetInv, Covered
<1>9. CASE Tick
  <2>1. \A b \in Bucket : InHand(b)' = InHand(b)
    BY <1>9 DEF Tick, InHand, BucketOf
  <2> QED BY <1>0, <1>9, <2>1, QuietKeepsBudget DEF Tick
<1>10. CASE UNCHANGED vars
  <2>1. \A b \in Bucket : InHand(b)' = InHand(b)
    BY <1>10 DEF vars, InHand, BucketOf
  <2> QED BY <1>0, <1>10, <2>1, QuietKeepsBudget DEF vars
<1> QED BY <1>1, <1>2, <1>3, <1>4, <1>5, <1>6, <1>7, <1>8, <1>9,
           <1>10 DEF Next

\* What is issued or in hand stays covered by reservations.
LEMMA BudgetAlwaysInv == Spec => []BudgetInv
  BY BudgetInitInv, BudgetNextInv, PTL DEF Spec

\* Every variable of the rail keeps its type.
THEOREM RailTypeCorrect == Spec => []TypeOK
<1>1. BudgetInv => TypeOK
  BY DEF BudgetInv, RailInv, StoreInv, RequestsTyped, TypeOK
<1> QED BY <1>1, BudgetAlwaysInv, PTL

\* A start of the server issues at most BudgetLimit EVTs per mailbox and
\* window, for any number of handlers, mailboxes and restarts.
THEOREM RailWithinBudget == Spec => []EVTsWithinBudget
<1>1. BudgetInv => EVTsWithinBudget
  BY InHandFinite, EVPAssumption DEF BudgetInv, Covered, EVTsWithinBudget
<1> QED BY <1>1, BudgetAlwaysInv, PTL
-----------------------------------------------------------------------------
(* Live challenges.                                                        *)

\* A handler works with the time of an earlier moment.
TimesRead == \A h \in Handler : pc[h] # "idle" => req[h].now <= clock

\* The clock never runs behind a handler.
LEMMA TimesReadNext == RailInv /\ TimesRead /\ [Next]_vars => TimesRead'
<1> SUFFICES ASSUME RailInv, TimesRead, [Next]_vars, NEW g \in Handler, pc'[g] # "idle"
             PROVE  req'[g].now <= clock'
  BY DEF TimesRead
<1>0. clock \in Nat /\ pc \in [Handler -> {"idle", "arrived", "verified", "charged"}]
      /\ req \in [Handler -> Request \cup {Idle}]
  BY EVPAssumption DEF RailInv, Time
<1>1. pc[g] # "idle" => req[g].now \in Nat /\ req[g].now <= clock
  BY EVPAssumption DEF RailInv, RequestsTyped, TimesRead, Request, Time
<1>2. ASSUME NEW h \in Handler, NEW a \in Address, NEW b \in Binding,
             NEW c \in Code \cup {NoCode}, Arrive(h, a, b, c)
      PROVE  req'[g].now <= clock'
  BY <1>0, <1>1, <1>2 DEF Arrive, Goto
<1>3. ASSUME NEW h \in Handler, clock' = clock, pc[h] # "idle",
             \/ Finish(h)
             \/ (Goto(h, "verified") \/ Goto(h, "charged")) /\ UNCHANGED req
      PROVE  req'[g].now <= clock'
  BY <1>0, <1>1, <1>3 DEF Finish, Goto
<1>4. ASSUME NEW h \in Handler,
             \/ SendCode(h) \/ RedeemCode(h)
             \/ ChargePermit(h) \/ ChargeNotJournaled(h) \/ IssueEVT(h) \/ IssueFails(h)
      PROVE  req'[g].now <= clock'
  <2>1. clock' = clock /\ pc[h] # "idle"
    BY <1>4 DEF SendCode, RedeemCode, ChargePermit, ChargeNotJournaled, IssueEVT, IssueFails
  <2>2. \/ Finish(h)
        \/ (Goto(h, "verified") \/ Goto(h, "charged")) /\ UNCHANGED req
    BY <1>4 DEF SendCode, RedeemCode, ChargePermit, ChargeNotJournaled, IssueEVT, IssueFails
  <2> QED BY <1>3, <2>1, <2>2
<1>5. CASE Restart
  BY <1>5 DEF Restart
<1>6. CASE Tick
  BY <1>0, <1>1, <1>6 DEF Tick
<1>7. CASE UNCHANGED vars
  BY <1>1, <1>7 DEF vars
<1> QED BY <1>2, <1>4, <1>5, <1>6, <1>7 DEF Next

\* Create at an earlier time purges no live challenge of another address.
LEMMA CreateSparesOthers ==
  ASSUME NEW a \in Address, NEW b, NEW c, NEW d, NEW now \in Nat, NEW time \in Nat,
         StoreInv, Create(d, b, c, now), now <= time, a # d,
         pending[a] # NoChallenge, pending[a].exp > time
  PROVE  pending'[a] = pending[a]
<1>1. pending[a].exp \in Nat
  BY DEF StoreInv, StoreTypeOK, Challenge
<1>2. ~Expired(a, now)
  BY <1>1 DEF Expired
<1> QED BY <1>2 DEF Create

\* Verify at an earlier time changes a live challenge only under its binding.
LEMMA VerifySparesOthers ==
  ASSUME NEW a \in Address, NEW b, NEW c, NEW d \in Address, NEW now \in Nat, NEW time \in Nat,
         StoreInv, Verify(d, Verdict(d, c, b, now)), now <= time,
         pending[a] # NoChallenge, pending[a].exp > time, pending'[a] # pending[a]
  PROVE  a = d /\ pending[a].binding = b
<1> DEFINE verdict == Verdict(d, c, b, now)
<1>1. pending \in [Address -> Challenge \cup {NoChallenge}] /\ pending[a].exp \in Nat
  BY DEF StoreInv, StoreTypeOK, Challenge
<1>2. verdict \in {"none", "expired", "mismatch", "wrong", "ok"}
  BY DEF Verdict
<1>3. /\ verdict \in {"none", "mismatch"} => pending' = pending
      /\ verdict \in {"expired", "ok"} => pending' = [pending EXCEPT ![d] = NoChallenge]
      /\ verdict = "wrong" => \/ pending' = [pending EXCEPT ![d] = NoChallenge]
                              \/ pending' = [pending EXCEPT ![d].attempts = @ + 1]
  <2> HIDE DEF verdict
  <2>1. Verify(d, verdict)
    BY DEF verdict
  <2> QED BY <2>1 DEF Verify
<1>4. a = d
  BY <1>1, <1>2, <1>3
<1>5. verdict \in {"expired", "ok", "wrong"}
  BY <1>2, <1>3
<1>6. ~Expired(a, now)
  BY <1>1 DEF Expired
<1>7. verdict \in {"ok", "wrong"} => pending[d].binding = b
  BY DEF Verdict
<1>8. verdict # "expired"
  BY <1>4, <1>6 DEF Verdict
<1> QED BY <1>4, <1>5, <1>7, <1>8

\* A live challenge of a running process is changed only by a new request for
\* its address or a submission under its browser key, for any number of
\* handlers that read the clock early and act late (Create, Verify).
THEOREM RailChallengeUndisturbed == Spec => ChallengeUndisturbed
<1> DEFINE Undisturbed ==
      \A a \in Address :
        /\ pending[a] # NoChallenge /\ pending[a].exp > clock
        /\ pending'[a] # pending[a]
        /\ gateKey' = gateKey
        => \E h \in Handler :
            /\ pc[h] = "arrived" /\ pc'[h] # "arrived"
            /\ req[h].addr = a
            /\ req[h].code = NoCode \/ req[h].browser = pending[a].binding
<1>1. BudgetInv /\ TimesRead /\ [Next]_vars => [Undisturbed]_vars
  <2> SUFFICES ASSUME BudgetInv, TimesRead, Next, NEW a \in Address,
                      pending[a] # NoChallenge, pending[a].exp > clock,
                      pending'[a] # pending[a], gateKey' = gateKey
               PROVE  \E h \in Handler :
                        /\ pc[h] = "arrived" /\ pc'[h] # "arrived"
                        /\ req[h].addr = a
                        /\ req[h].code = NoCode \/ req[h].browser = pending[a].binding
    OBVIOUS
  <2>1. /\ StoreInv /\ clock \in Nat /\ gateKey \in Nat
        /\ pc \in [Handler -> {"idle", "arrived", "verified", "charged"}]
    BY EVPAssumption DEF BudgetInv, RailInv, Time
  <2>2. \A h \in Handler : pc[h] = "arrived" =>
          req[h].now \in Nat /\ req[h].now <= clock /\ req[h].addr \in Address
    BY EVPAssumption DEF BudgetInv, RailInv, RequestsTyped, TimesRead, Request, Time
  <2>3. PICK h \in Handler : SendCode(h) \/ RedeemCode(h)
    BY <2>1 DEF Next, Arrive, ChargePermit, ChargeNotJournaled, IssueEVT, IssueFails, Restart,
                Tick, storeVars
  <2>4. CASE SendCode(h)
    <3>1. /\ pc[h] = "arrived" /\ req[h].code = NoCode /\ pc'[h] = "idle"
          /\ \E c \in Code : Create(req[h].addr, req[h].browser, c, req[h].now)
      BY <2>1, <2>4 DEF SendCode, Finish, Goto
    <3>2. req[h].addr = a
      BY <2>1, <2>2, <3>1, CreateSparesOthers
    <3> QED BY <3>1, <3>2
  <2>5. CASE RedeemCode(h)
    <3>1. /\ pc[h] = "arrived" /\ pc'[h] # "arrived"
          /\ Verify(req[h].addr, Verdict(req[h].addr, req[h].code, req[h].browser, req[h].now))
      BY <2>1, <2>5 DEF RedeemCode, Finish, Goto
    <3>2. req[h].addr = a /\ pending[a].binding = req[h].browser
      BY <2>1, <2>2, <3>1, VerifySparesOthers
    <3> QED BY <3>1, <3>2
  <2> QED BY <2>3, <2>4, <2>5
<1>2. Init => TimesRead
  BY DEF Init, TimesRead
<1>3. BudgetInv => RailInv
  BY DEF BudgetInv
<1> QED BY <1>1, <1>2, <1>3, BudgetAlwaysInv, TimesReadNext, PTL DEF Spec, ChallengeUndisturbed
=============================================================================
