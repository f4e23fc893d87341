---------------------------- MODULE IssuerdProofs ----------------------------
(***************************************************************************)
(* What issuerd promises of its sessions and of the tokens it mints, for   *)
(* every number of sessions, addresses and concurrent requests.  A handler *)
(* works on after it let go of the session lock, so the invariant says of  *)
(* each handler what stays true of the session it holds: the evidence it   *)
(* has seen and the binding it has read.                                   *)
(***************************************************************************)
EXTENDS Issuerd, ChallengeStoreProofs, FiniteSetTheorems

Holds(h) == pc[h] \in {"found", "proved", "bound", "charged"}

\* The evidence that mailbox a owns session s, along the session's direction.
Evidence(s, a) == <<s, a>> \in (IF sess[s].mode = "send" THEN mailed ELSE coded)

\* What a handler knows at each place it can be interrupted.
HandlerOK(h) ==
    /\ pc[h] = "idle" => req[h] = NoReq
    /\ pc[h] = "creating" => req[h] \in CreateReq /\ req[h].now <= clock
    /\ pc[h] = "found" => req[h] \in SendReq \cup VerifyReq \cup MailReq \cup MintReq
    /\ pc[h] = "proved" => req[h] \in VerifyReq \cup MailReq /\ Evidence(req[h].id, req[h].addr)
    /\ pc[h] = "bound" => req[h] \in BoundReq
    /\ pc[h] = "charged" => req[h] \in PaidReq
    /\ pc[h] \in {"bound", "charged"} => sess[req[h].id].mailbox = req[h].mailbox
    /\ Holds(h) => sess[req[h].id] \in SessionRec

\* A pending code belongs to a session of the code direction, and was sent
\* for it: the binding of the store is the session.
CodesOfCodeSessions ==
    \A a \in Address : pending[a] # NoChallenge =>
        LET s == pending[a].binding IN
        sess[s] \in SessionRec /\ sess[s].mode = "code" /\ <<s, a>> \in coded

\* The session of a token exists and is bound for good.
OwnersBound ==
    \A s \in Session, a \in Address :
        <<s, a>> \in owners => sess[s] \in SessionRec /\ sess[s].mailbox = a

StateTyped ==
    /\ clock \in Time
    /\ sess \in [Session -> SessionRec \cup {NoSession}]
    /\ pc \in [Handler -> {"idle", "creating", "found", "proved", "bound", "charged"}]
    /\ req \in [Handler -> Request \cup {NoReq}]
    /\ mailed \subseteq Session \X Address
    /\ coded \subseteq Session \X Address
    /\ owners \subseteq Session \X Address

TableTyped ==
    /\ table \subseteq {s \in Session : sess[s] # NoSession}
    /\ IsFiniteSet(table)
    /\ Cardinality(table) <= MaxSessions

SessionInv ==
    /\ StoreInv
    /\ StateTyped
    /\ TableTyped
    /\ \A h \in Handler : HandlerOK(h)
    /\ CodesOfCodeSessions
    /\ OwnersBound
    /\ VerifiedByOwnProof
-----------------------------------------------------------------------------
(* Sessions only gain: an object keeps its direction and its expiry, and a *)
(* mailbox once bound stays; evidence is never withdrawn.                  *)

SessionsKept ==
    /\ \A s \in Session : sess[s] \in SessionRec =>
        /\ sess'[s] \in SessionRec
        /\ sess'[s].mode = sess[s].mode
        /\ sess[s].mailbox # NoMailbox => sess'[s].mailbox = sess[s].mailbox
    /\ mailed \subseteq mailed'
    /\ coded \subseteq coded'

\* The session of a handler's request is a session id.
LEMMA HeldId ==
  ASSUME NEW h \in Handler, HandlerOK(h), Holds(h)
  PROVE  req[h].id \in Session
  BY DEF HandlerOK, Holds, SendReq, VerifyReq, MailReq, MintReq, BoundReq, PaidReq

\* What a handler knows is not disturbed by the steps of the others.
LEMMA OthersKeep ==
  ASSUME NEW g \in Handler, HandlerOK(g), SessionsKept,
         clock \in Time, clock' \in Time, clock <= clock',
         pc'[g] = pc[g], req'[g] = req[g]
  PROVE  HandlerOK(g)'
<1>1. pc[g] = "creating" => req[g].now <= clock'
  BY IssuerdAssumption DEF HandlerOK, CreateReq, Time
<1>2. Holds(g) => /\ req[g].id \in Session
                  /\ sess[req[g].id] \in SessionRec
                  /\ sess'[req[g].id] \in SessionRec
                  /\ sess'[req[g].id].mode = sess[req[g].id].mode
  BY HeldId DEF HandlerOK, SessionsKept
<1>3. pc[g] = "proved" => Evidence(req[g].id, req[g].addr)'
  BY <1>2 DEF HandlerOK, Evidence, Holds, SessionsKept
<1>4. pc[g] \in {"bound", "charged"} => sess'[req[g].id].mailbox = req[g].mailbox
  <2> SUFFICES ASSUME pc[g] \in {"bound", "charged"}
               PROVE  sess'[req[g].id].mailbox = req[g].mailbox
    OBVIOUS
  <2>1. req[g] \in BoundReq \cup PaidReq /\ sess[req[g].id].mailbox = req[g].mailbox
    BY DEF HandlerOK
  <2>2. req[g].mailbox # NoMailbox
    BY <2>1, IssuerdAssumption DEF BoundReq, PaidReq
  <2> QED BY <2>1, <2>2, <1>2 DEF Holds, SessionsKept
<1> QED BY <1>1, <1>2, <1>3, <1>4 DEF HandlerOK, Holds

\* So a step of handler h has to be looked at for h only.
LEMMA StepKeepsHandlers ==
  ASSUME NEW h \in Handler, NEW p, NEW q, Step(h, p, q), SessionInv, SessionsKept,
         p \in {"idle", "creating", "found", "proved", "bound", "charged"},
         q \in Request \cup {NoReq}, clock' = clock, HandlerOK(h)'
  PROVE  /\ pc' \in [Handler -> {"idle", "creating", "found", "proved", "bound", "charged"}]
         /\ req' \in [Handler -> Request \cup {NoReq}]
         /\ \A g \in Handler : HandlerOK(g)'
<1>1. /\ pc' \in [Handler -> {"idle", "creating", "found", "proved", "bound", "charged"}]
      /\ req' \in [Handler -> Request \cup {NoReq}]
      /\ \A g \in Handler \ {h} : pc'[g] = pc[g] /\ req'[g] = req[g]
  BY DEF Step, SessionInv, StateTyped
<1>2. clock \in Time /\ clock <= clock' /\ clock' \in Time
  BY IssuerdAssumption DEF SessionInv, StateTyped, Time
<1>3. \A g \in Handler \ {h} : HandlerOK(g)'
  BY <1>1, <1>2, OthersKeep DEF SessionInv
<1> QED BY <1>1, <1>3

\* A handler that has answered knows nothing.
LEMMA FinishKeepsHandlers ==
  ASSUME NEW h \in Handler, Finish(h), SessionInv, SessionsKept, clock' = clock
  PROVE  /\ pc' \in [Handler -> {"idle", "creating", "found", "proved", "bound", "charged"}]
         /\ req' \in [Handler -> Request \cup {NoReq}]
         /\ \A g \in Handler : HandlerOK(g)'
<1>1. pc'[h] = "idle" /\ req'[h] = NoReq
  BY DEF Finish, Step, SessionInv, StateTyped
<1>2. HandlerOK(h)'
  BY <1>1 DEF HandlerOK, Holds
<1> QED BY <1>2, StepKeepsHandlers DEF Finish

\* The claims about tokens, codes and verified sessions survive a step that
\* adds no token and no code and binds no session.
LEMMA QuietKeepsClaims ==
  ASSUME SessionInv, UNCHANGED <<sess, table, owners, coded>>, mailed \subseteq mailed',
         \A a \in Address : pending'[a] # NoChallenge =>
            pending[a] # NoChallenge /\ pending'[a].binding = pending[a].binding
  PROVE  TableTyped' /\ CodesOfCodeSessions' /\ OwnersBound' /\ VerifiedByOwnProof'
<1>1. TableTyped'
  BY DEF SessionInv, TableTyped
<1>2. CodesOfCodeSessions'
  BY DEF SessionInv, CodesOfCodeSessions
<1>3. OwnersBound'
  BY DEF SessionInv, OwnersBound
<1>4. VerifiedByOwnProof'
  BY DEF SessionInv, VerifiedByOwnProof
<1> QED BY <1>1, <1>2, <1>3, <1>4

\* UNCHANGED sess keeps the sessions.
LEMMA SameSessionsKept ==
  ASSUME UNCHANGED sess, mailed \subseteq mailed', coded \subseteq coded'
  PROVE  SessionsKept
  BY DEF SessionsKept

\* issuerd starts without sessions, codes or requests.
LEMMA SessionInitInv == Init => SessionInv
<1> SUFFICES ASSUME Init PROVE SessionInv
  OBVIOUS
<1>1. StoreInv
  BY StoreInitInv DEF Init
<1>2. StateTyped
  BY IssuerdAssumption DEF Init, StateTyped, Time
<1>3. TableTyped
  BY IssuerdAssumption, FS_EmptySet DEF Init, TableTyped
<1>4. \A h \in Handler : HandlerOK(h)
  BY DEF Init, HandlerOK, Holds
<1>5. CodesOfCodeSessions /\ OwnersBound
  BY DEF Init, StoreInit, CodesOfCodeSessions, OwnersBound
<1>6. VerifiedByOwnProof
  BY DEF Init, VerifiedByOwnProof
<1> QED BY <1>1, <1>2, <1>3, <1>4, <1>5, <1>6 DEF SessionInv
-----------------------------------------------------------------------------
(* One lemma per group of actions.                                         *)

\* A request that arrives, or a mint that reads its binding, changes nothing
\* but its handler.
LEMMA MoveKeepsInv ==
  ASSUME SessionInv, NEW h \in Handler, NEW p, NEW q, Step(h, p, q),
         p \in {"idle", "creating", "found", "proved", "bound", "charged"},
         q \in Request \cup {NoReq},
         UNCHANGED <<storeVars, clock, sessionVars, mailed, coded, owners>>,
         HandlerOK(h)'
  PROVE  SessionInv'
<1>1. StoreInv'
  BY StoreStutter DEF SessionInv
<1>2. SessionsKept
  BY SameSessionsKept DEF sessionVars
<1>3. /\ pc' \in [Handler -> {"idle", "creating", "found", "proved", "bound", "charged"}]
      /\ req' \in [Handler -> Request \cup {NoReq}]
      /\ \A g \in Handler : HandlerOK(g)'
  BY <1>2, StepKeepsHandlers
<1>4. StateTyped'
  BY <1>3 DEF SessionInv, StateTyped, sessionVars
<1>5. TableTyped' /\ CodesOfCodeSessions' /\ OwnersBound' /\ VerifiedByOwnProof'
  BY QuietKeepsClaims DEF sessionVars, storeVars
<1> QED BY <1>1, <1>3, <1>4, <1>5 DEF SessionInv

\* A request that is refused changes nothing but its handler.
LEMMA RefusalKeepsInv ==
  ASSUME SessionInv, NEW h \in Handler, Finish(h),
         UNCHANGED <<storeVars, clock, sessionVars, mailed, coded, owners>>
  PROVE  SessionInv'
<1>1. pc'[h] = "idle" /\ req'[h] = NoReq
  BY DEF Finish, Step, SessionInv, StateTyped
<1>2. HandlerOK(h)'
  BY <1>1 DEF HandlerOK, Holds
<1> QED BY <1>2, MoveKeepsInv DEF Finish

\* CreateSession: the time it notes is not ahead of the clock.
LEMMA CreateSessionKeepsInv ==
  ASSUME SessionInv, NEW h \in Handler, NEW mode \in Mode, CreateSession(h, mode)
  PROVE  SessionInv'
<1> DEFINE q == [op |-> "create", mode |-> mode, now |-> clock]
<1>1. q \in CreateReq /\ q.now <= clock /\ clock' = clock
  BY IssuerdAssumption DEF CreateSession, SessionInv, StateTyped, CreateReq, Time
<1>2. pc'[h] = "creating" /\ req'[h] = q
  BY DEF CreateSession, Step, SessionInv, StateTyped
<1>3. HandlerOK(h)'
  BY <1>1, <1>2 DEF HandlerOK, Holds
<1> HIDE DEF q
<1>4. Step(h, "creating", q) /\ q \in Request
  BY <1>1 DEF CreateSession, Request, q
<1> QED BY <1>3, <1>4, MoveKeepsInv DEF CreateSession, ghostVars

\* GetSession finds a session of the table, and the table holds sessions.
LEMMA GetSessionKeepsInv ==
  ASSUME SessionInv, NEW h \in Handler,
         NEW q \in SendReq \cup VerifyReq \cup MailReq \cup MintReq, GetSession(h, q)
  PROVE  SessionInv'
<1>1. pc'[h] = "found" /\ req'[h] = q /\ sess' = sess
  BY DEF GetSession, Step, SessionInv, StateTyped, sessionVars
<1>2. sess[q.id] \in SessionRec
  BY DEF GetSession, Found, SessionInv, StateTyped, TableTyped
<1>3. HandlerOK(h)'
  BY <1>1, <1>2 DEF HandlerOK, Holds
<1>4. Step(h, "found", q) /\ q \in Request
  BY DEF GetSession, Request
<1> QED BY <1>3, <1>4, MoveKeepsInv DEF GetSession, ghostVars

\* Every request that arrives is one of these.
LEMMA ArriveKeepsInv ==
  ASSUME SessionInv, NEW h \in Handler, Arrive(h)
  PROVE  SessionInv'
<1>0. clock \in Time
  BY DEF SessionInv, StateTyped
<1>1. ASSUME NEW mode \in Mode, CreateSession(h, mode) PROVE SessionInv'
  BY <1>1, CreateSessionKeepsInv
<1>2. ASSUME NEW s \in Session, NEW a \in Address,
             GetSession(h, [op |-> "send", id |-> s, addr |-> a, since |-> clock])
      PROVE  SessionInv'
  <2>1. [op |-> "send", id |-> s, addr |-> a, since |-> clock] \in SendReq
    BY <1>0 DEF SendReq
  <2> QED BY <1>2, <2>1, GetSessionKeepsInv
<1>3. ASSUME NEW s \in Session, NEW a \in Address, NEW c \in Code,
             GetSession(h, [op |-> "verify", id |-> s, addr |-> a, code |-> c, since |-> clock])
      PROVE  SessionInv'
  <2>1. [op |-> "verify", id |-> s, addr |-> a, code |-> c, since |-> clock] \in VerifyReq
    BY <1>0 DEF VerifyReq
  <2> QED BY <1>3, <2>1, GetSessionKeepsInv
<1>4. ASSUME NEW s \in Session, NEW a \in Address,
             GetSession(h, [op |-> "mail", id |-> s, addr |-> a])
      PROVE  SessionInv'
  <2>1. [op |-> "mail", id |-> s, addr |-> a] \in MailReq
    BY DEF MailReq
  <2> QED BY <1>4, <2>1, GetSessionKeepsInv
<1>5. ASSUME NEW s \in Session, GetSession(h, [op |-> "mint", id |-> s, since |-> clock])
      PROVE  SessionInv'
  <2>1. [op |-> "mint", id |-> s, since |-> clock] \in MintReq
    BY <1>0 DEF MintReq
  <2> QED BY <1>5, <2>1, GetSessionKeepsInv
<1> QED BY <1>1, <1>2, <1>3, <1>4, <1>5 DEF Arrive

\* gcLocked keeps a finite part of the table.
LEMMA UnexpiredFinite ==
  ASSUME TableTyped, NEW now
  PROVE  /\ Unexpired(now) \subseteq table
         /\ IsFiniteSet(Unexpired(now))
         /\ Cardinality(Unexpired(now)) \in Nat
         /\ Cardinality(Unexpired(now)) <= MaxSessions
<1>1. Unexpired(now) \subseteq table
  BY DEF Unexpired
<1>2. /\ IsFiniteSet(Unexpired(now)) /\ Cardinality(Unexpired(now)) <= Cardinality(table)
      /\ Cardinality(Unexpired(now)) \in Nat /\ Cardinality(table) \in Nat
  BY <1>1, FS_Subset, FS_CardinalityType DEF TableTyped
<1> QED BY <1>1, <1>2, IssuerdAssumption DEF TableTyped

\* A new session is a pending session.
LEMMA NewSessionType ==
  ASSUME NEW mode \in Mode, NEW now \in Nat
  PROVE  [mode |-> mode, mailbox |-> NoMailbox, exp |-> now + SessionTTL, minted |-> FALSE]
            \in SessionRec
  BY IssuerdAssumption DEF SessionRec

\* InsertSession: a fresh id is bound to nothing, and no token, code or
\* handler refers to it.
LEMMA InsertKeepsInv ==
  ASSUME SessionInv, NEW h \in Handler, InsertSession(h)
  PROVE  SessionInv'
<1>1. req[h] \in CreateReq /\ req[h].mode \in Mode /\ req[h].now \in Nat
  BY IssuerdAssumption DEF InsertSession, SessionInv, HandlerOK, CreateReq, Time
<1>2. /\ Finish(h)
      /\ UNCHANGED <<pending, made, compared, accepted, clock, mailed, coded, owners>>
  BY DEF InsertSession, ghostVars, storeVars
<1>3. StoreInv'
  BY StoreStutter DEF SessionInv, InsertSession
<1>4. CASE table' = Unexpired(req[h].now) /\ sess' = sess
  <2>1. SessionsKept
    BY <1>2, <1>4, SameSessionsKept
  <2>2. TableTyped'
    BY <1>4, UnexpiredFinite DEF SessionInv, TableTyped
  <2>3. CodesOfCodeSessions' /\ OwnersBound' /\ VerifiedByOwnProof'
    BY <1>2, <1>4 DEF SessionInv, CodesOfCodeSessions, OwnersBound, VerifiedByOwnProof
  <2>4. StateTyped' /\ \A g \in Handler : HandlerOK(g)'
    BY <1>2, <1>4, <2>1, FinishKeepsHandlers DEF SessionInv, StateTyped
  <2> QED BY <1>3, <2>2, <2>3, <2>4 DEF SessionInv
<1>5. CASE HasRoom(req[h].now) /\ ~UNCHANGED sess
  <2> DEFINE new == [mode |-> req[h].mode, mailbox |-> NoMailbox,
                     exp |-> req[h].now + SessionTTL, minted |-> FALSE]
  <2>1. PICK s \in Session :
            /\ sess[s] = NoSession
            /\ sess' = [sess EXCEPT ![s] = new]
            /\ table' = Unexpired(req[h].now) \cup {s}
    BY <1>5 DEF InsertSession
  <2>2. new \in SessionRec /\ new.mailbox = NoMailbox
    BY <1>1, IssuerdAssumption DEF SessionRec
  <2> HIDE DEF new
  <2>3. /\ sess' \in [Session -> SessionRec \cup {NoSession}]
        /\ sess'[s] = new
        /\ \A x \in Session \ {s} : sess'[x] = sess[x]
    BY <2>1, <2>2 DEF SessionInv, StateTyped
  <2>4. sess[s] \notin SessionRec
    BY <2>1, NoSessionAssumption
  <2>5. SessionsKept
    BY <1>2, <2>3, <2>4 DEF SessionsKept
  <2>6. TableTyped'
    <3> DEFINE kept == Unexpired(req[h].now)
    <3>1. kept \subseteq table /\ IsFiniteSet(kept) /\ Cardinality(kept) \in Nat
      BY UnexpiredFinite DEF SessionInv
    <3>2. s \notin kept /\ Cardinality(kept) < MaxSessions
      BY <3>1, <2>1, <1>5 DEF SessionInv, TableTyped, HasRoom
    <3>3. IsFiniteSet(table') /\ Cardinality(table') = Cardinality(kept) + 1
      BY <3>1, <3>2, <2>1, FS_AddElement
    <3>4. Cardinality(table') <= MaxSessions
      BY <3>1, <3>2, <3>3, IssuerdAssumption
    <3>5. table' \subseteq {x \in Session : sess'[x] # NoSession}
      BY <3>1, <2>1, <2>2, <2>3, NoSessionAssumption DEF SessionInv, TableTyped
    <3> QED BY <3>3, <3>4, <3>5 DEF TableTyped
  <2>7. CodesOfCodeSessions'
    <3> SUFFICES ASSUME NEW a \in Address, pending[a] # NoChallenge
                 PROVE  LET x == pending[a].binding IN
                        sess'[x] \in SessionRec /\ sess'[x].mode = "code" /\ <<x, a>> \in coded
      BY <1>2 DEF CodesOfCodeSessions
    <3>1. pending[a].binding \in Session
      BY DEF SessionInv, StoreInv, StoreTypeOK, Challenge, Session
    <3> QED BY <3>1, <2>5 DEF SessionInv, CodesOfCodeSessions, SessionsKept
  <2>8. OwnersBound'
    BY <1>2, <2>3, <2>4 DEF SessionInv, OwnersBound
  <2>9. VerifiedByOwnProof'
    BY <1>2, <2>2, <2>3 DEF SessionInv, VerifiedByOwnProof
  <2>10. StateTyped' /\ \A g \in Handler : HandlerOK(g)'
    BY <1>2, <2>3, <2>5, FinishKeepsHandlers DEF SessionInv, StateTyped
  <2> QED BY <1>3, <2>6, <2>7, <2>8, <2>9, <2>10 DEF SessionInv
<1>6. \/ table' = Unexpired(req[h].now) /\ sess' = sess
      \/ HasRoom(req[h].now) /\ ~UNCHANGED sess
  <2>1. CASE sess' = sess
    <3>1. ASSUME NEW s \in Session, sess[s] = NoSession,
                 sess' = [sess EXCEPT ![s] = [mode |-> req[h].mode, mailbox |-> NoMailbox,
                                        exp |-> req[h].now + SessionTTL, minted |-> FALSE]]
          PROVE  FALSE
      <4>1. sess'[s] \in SessionRec
        BY <3>1, <1>1, NewSessionType DEF SessionInv, StateTyped
      <4> QED BY <4>1, <3>1, <2>1, NoSessionAssumption
    <3> QED BY <2>1, <3>1 DEF InsertSession
  <2>2. CASE sess' # sess
    BY <2>2 DEF InsertSession
  <2> QED BY <2>1, <2>2
<1> QED BY <1>4, <1>5, <1>6

\* A time read since getSession is a time.
LEMMA ReadClockType ==
  ASSUME SessionInv, NEW h \in Handler, req[h].since \in Time, NEW now \in ReadClock(h)
  PROVE  now \in Time /\ now \in Nat
  BY IssuerdAssumption DEF ReadClock, SessionInv, StateTyped, Time

\* SendCode: the new code is bound to its session, which is of the code
\* direction, and the code is on record.
LEMMA SendCodeKeepsInv ==
  ASSUME SessionInv, NEW h \in Handler, SendCode(h)
  PROVE  SessionInv'
<1>1. req[h] \in SendReq /\ sess[req[h].id] \in SessionRec /\ sess[req[h].id].mode = "code"
  BY DEF SendCode, SessionInv, HandlerOK, Holds, SendReq, VerifyReq, MailReq, MintReq
<1>2. req[h].id \in Session /\ req[h].addr \in Address /\ req[h].since \in Time
  BY <1>1 DEF SendReq
<1>3. PICK c \in Code, now \in ReadClock(h) : Create(req[h].addr, req[h].id, c, now)
  BY DEF SendCode
<1>4. now \in Nat
  BY <1>2, ReadClockType
<1>5. /\ Finish(h)
      /\ coded' = coded \cup {<<req[h].id, req[h].addr>>}
      /\ UNCHANGED <<clock, sess, table, mailed, owners>>
  BY DEF SendCode, sessionVars
<1>6. StoreInv'
  BY <1>2, <1>3, <1>4, CreateKeepsInv DEF SessionInv, Session
<1>7. SessionsKept
  BY <1>5, SameSessionsKept
<1>8. StateTyped' /\ \A g \in Handler : HandlerOK(g)'
  BY <1>2, <1>5, <1>7, FinishKeepsHandlers DEF SessionInv, StateTyped
<1>9. CodesOfCodeSessions'
  <2> SUFFICES ASSUME NEW x \in Address, pending'[x] # NoChallenge
               PROVE  LET s == pending'[x].binding IN
                      sess[s] \in SessionRec /\ sess[s].mode = "code" /\ <<s, x>> \in coded'
    BY <1>5 DEF CodesOfCodeSessions
  <2>1. CASE x = req[h].addr
    <3>1. pending'[x].binding = req[h].id
      BY <2>1, <1>3 DEF Create
    <3> QED BY <3>1, <2>1, <1>1, <1>5
  <2>2. CASE x # req[h].addr
    <3>1. pending'[x] = pending[x]
      BY <2>2, <1>3 DEF Create
    <3> QED BY <3>1, <1>5 DEF SessionInv, CodesOfCodeSessions
  <2> QED BY <2>1, <2>2
<1>10. TableTyped' /\ OwnersBound'
  BY <1>5 DEF SessionInv, TableTyped, OwnersBound
<1>11. VerifiedByOwnProof'
  BY <1>5 DEF SessionInv, VerifiedByOwnProof
<1> QED BY <1>6, <1>8, <1>9, <1>10, <1>11 DEF SessionInv

\* VerifyCode: a code is accepted only for the session it is bound to, so the
\* handler that goes on has the evidence of a code session.
LEMMA VerifyCodeKeepsInv ==
  ASSUME SessionInv, NEW h \in Handler, VerifyCode(h)
  PROVE  SessionInv'
<1>1. req[h] \in VerifyReq /\ sess[req[h].id] \in SessionRec
  BY DEF VerifyCode, SessionInv, HandlerOK, Holds, SendReq, VerifyReq, MailReq, MintReq
<1>2. /\ req[h].id \in Session /\ req[h].addr \in Address /\ req[h].code \in Code
      /\ req[h].since \in Time
  BY <1>1 DEF VerifyReq
<1>3. PICK now \in ReadClock(h) :
        LET verdict == Verdict(req[h].addr, req[h].code, req[h].id, now) IN
        /\ Verify(req[h].addr, verdict)
        /\ IF verdict = "ok" THEN Step(h, "proved", req[h]) ELSE Finish(h)
  BY DEF VerifyCode
<1>4. now \in Nat
  BY <1>2, ReadClockType
<1> DEFINE v == Verdict(req[h].addr, req[h].code, req[h].id, now)
<1>5. StoreInv'
  BY <1>2, <1>3, <1>4, VerifyKeepsInv DEF SessionInv, Session
<1>6. UNCHANGED <<clock, sess, table, mailed, coded, owners>>
  BY DEF VerifyCode, sessionVars, ghostVars
<1>7. SessionsKept
  BY <1>6, SameSessionsKept
<1>8. /\ pc' \in [Handler -> {"idle", "creating", "found", "proved", "bound", "charged"}]
      /\ req' \in [Handler -> Request \cup {NoReq}]
      /\ \A g \in Handler : HandlerOK(g)'
  <2>1. CASE v # "ok"
    BY <2>1, <1>3, <1>6, <1>7, FinishKeepsHandlers
  <2>2. CASE v = "ok"
    <3>1. pending[req[h].addr] # NoChallenge /\ pending[req[h].addr].binding = req[h].id
      BY <2>2 DEF Verdict
    <3>2. Evidence(req[h].id, req[h].addr)
      BY <3>1, <1>2 DEF SessionInv, CodesOfCodeSessions, Evidence
    <3>3. pc'[h] = "proved" /\ req'[h] = req[h]
      BY <2>2, <1>3 DEF Step, SessionInv, StateTyped
    <3>4. HandlerOK(h)'
      BY <3>2, <3>3, <1>1, <1>6 DEF HandlerOK, Holds, Evidence
    <3>5. req[h] \in Request
      BY <1>1 DEF Request
    <3> QED BY <2>2, <1>3, <3>4, <3>5, <1>6, <1>7, StepKeepsHandlers
  <2> QED BY <2>1, <2>2
<1>9. StateTyped'
  BY <1>6, <1>8 DEF SessionInv, StateTyped
<1>10. \A a \in Address : pending'[a] # NoChallenge =>
            pending[a] # NoChallenge /\ pending'[a].binding = pending[a].binding
  <2> SUFFICES ASSUME NEW a \in Address, pending'[a] # NoChallenge
               PROVE  pending[a] # NoChallenge /\ pending'[a].binding = pending[a].binding
    OBVIOUS
  <2>1. \/ pending' = pending
        \/ pending' = [pending EXCEPT ![req[h].addr] = NoChallenge]
        \/ /\ v = "wrong"
           /\ pending' = [pending EXCEPT ![req[h].addr].attempts = @ + 1]
    <3>1. v \in {"none", "expired", "mismatch", "wrong", "ok"}
      BY DEF Verdict
    <3>2. Verify(req[h].addr, v)
      BY <1>3
    <3> HIDE DEF v
    <3> QED BY <3>1, <3>2 DEF Verify
  <2>2. CASE pending' = pending
    BY <2>2
  <2>3. CASE pending' = [pending EXCEPT ![req[h].addr] = NoChallenge]
    BY <2>3 DEF SessionInv, StoreInv, StoreTypeOK
  <2>4. CASE v = "wrong" /\ pending' = [pending EXCEPT ![req[h].addr].attempts = @ + 1]
    <3>1. pending[req[h].addr] # NoChallenge
      BY <2>4 DEF Verdict
    <3>2. pending[req[h].addr] \in Challenge
      BY <3>1, <1>2 DEF SessionInv, StoreInv, StoreTypeOK
    <3>3. pending'[req[h].addr] = [pending[req[h].addr] EXCEPT !.attempts = @ + 1]
      BY <2>4, <1>2 DEF SessionInv, StoreInv, StoreTypeOK
    <3>4. pending'[req[h].addr].binding = pending[req[h].addr].binding
      BY <3>2, <3>3 DEF Challenge
    <3>5. a # req[h].addr => pending'[a] = pending[a]
      BY <2>4 DEF SessionInv, StoreInv, StoreTypeOK
    <3> QED BY <3>1, <3>4, <3>5
  <2> QED BY <2>1, <2>2, <2>3, <2>4
<1>11. TableTyped' /\ CodesOfCodeSessions' /\ OwnersBound' /\ VerifiedByOwnProof'
  BY <1>6, <1>10, QuietKeepsClaims
<1> QED BY <1>5, <1>8, <1>9, <1>11 DEF SessionInv

\* IncomingMail: the sender of an accepted mail is on record for a session of
\* the send direction.
LEMMA IncomingMailKeepsInv ==
  ASSUME SessionInv, NEW h \in Handler, IncomingMail(h)
  PROVE  SessionInv'
<1>1. req[h] \in MailReq /\ sess[req[h].id] \in SessionRec
  BY DEF IncomingMail, SessionInv, HandlerOK, Holds, SendReq, VerifyReq, MailReq, MintReq
<1>2. req[h].id \in Session /\ req[h].addr \in Address
  BY <1>1 DEF MailReq
<1>3. CASE sess[req[h].id].mode # "send"
  BY <1>3, RefusalKeepsInv DEF IncomingMail
<1>4. CASE sess[req[h].id].mode = "send"
  <2>1. /\ Step(h, "proved", req[h])
        /\ mailed' = mailed \cup {<<req[h].id, req[h].addr>>}
        /\ UNCHANGED <<storeVars, clock, sess, table, coded, owners>>
    BY <1>4 DEF IncomingMail, sessionVars
  <2>2. SessionsKept
    BY <2>1, SameSessionsKept
  <2>3. pc'[h] = "proved" /\ req'[h] = req[h]
    BY <2>1 DEF Step, SessionInv, StateTyped
  <2>4. HandlerOK(h)'
    BY <2>1, <2>3, <1>1, <1>4 DEF HandlerOK, Holds, Evidence
  <2>5. req[h] \in Request
    BY <1>1 DEF Request
  <2>6. /\ pc' \in [Handler -> {"idle", "creating", "found", "proved", "bound", "charged"}]
        /\ req' \in [Handler -> Request \cup {NoReq}]
        /\ \A g \in Handler : HandlerOK(g)'
    BY <2>1, <2>2, <2>4, <2>5, StepKeepsHandlers
  <2>7. StateTyped'
    BY <2>1, <2>6, <1>2 DEF SessionInv, StateTyped
  <2>8. TableTyped' /\ CodesOfCodeSessions' /\ OwnersBound' /\ VerifiedByOwnProof'
    BY <2>1, QuietKeepsClaims DEF storeVars
  <2>9. StoreInv'
    BY <2>1, StoreStutter DEF SessionInv
  <2> QED BY <2>6, <2>7, <2>8, <2>9 DEF SessionInv
<1> QED BY <1>3, <1>4

\* MarkVerified binds a session only with evidence, and never rebinds one.
LEMMA MarkVerifiedKeepsInv ==
  ASSUME SessionInv, NEW h \in Handler, MarkVerified(h)
  PROVE  SessionInv'
<1> DEFINE s == req[h].id
           a == req[h].addr
<1>1. s \in Session /\ a \in Address /\ sess[s] \in SessionRec /\ Evidence(s, a)
  BY DEF MarkVerified, SessionInv, HandlerOK, Holds, VerifyReq, MailReq
<1>2. Finish(h) /\ UNCHANGED <<storeVars, clock, table, mailed, coded, owners>>
  BY DEF MarkVerified, ghostVars
<1>3. CASE sess[s].mailbox # NoMailbox
  <2>1. sess' = sess
    BY <1>3 DEF MarkVerified
  <2> QED BY <2>1, <1>2, RefusalKeepsInv DEF sessionVars
<1>4. CASE sess[s].mailbox = NoMailbox
  <2>1. sess' = [sess EXCEPT ![s].mailbox = a]
    BY <1>4 DEF MarkVerified
  <2> HIDE DEF s, a
  <2>2. /\ sess'[s] \in SessionRec
        /\ sess'[s].mode = sess[s].mode /\ sess'[s].mailbox = a
    <3>1. sess'[s] = [sess[s] EXCEPT !.mailbox = a]
      BY <2>1, <1>1 DEF SessionInv, StateTyped
    <3> QED BY <3>1, <1>1 DEF SessionRec
  <2>3. /\ sess' \in [Session -> SessionRec \cup {NoSession}]
        /\ \A x \in Session \ {s} : sess'[x] = sess[x]
    <3>1. \A x \in Session \ {s} : sess'[x] = sess[x]
      BY <2>1, <1>1 DEF SessionInv, StateTyped
    <3>2. DOMAIN sess' = Session /\ sess' = [x \in Session |-> sess'[x]]
      BY <2>1 DEF SessionInv, StateTyped
    <3>3. \A x \in Session : sess'[x] \in SessionRec \cup {NoSession}
      BY <3>1, <2>2 DEF SessionInv, StateTyped
    <3> QED BY <3>1, <3>2, <3>3
  <2>4. SessionsKept
    BY <1>2, <1>4, <2>2, <2>3 DEF SessionsKept
  <2>5. StateTyped' /\ \A g \in Handler : HandlerOK(g)'
    BY <1>2, <2>3, <2>4, FinishKeepsHandlers DEF SessionInv, StateTyped
  <2>6. TableTyped'
    BY <1>2, <2>2, <2>3, NoSessionAssumption DEF SessionInv, TableTyped
  <2>7. CodesOfCodeSessions'
    <3> SUFFICES ASSUME NEW x \in Address, pending[x] # NoChallenge
                 PROVE  LET y == pending[x].binding IN
                        sess'[y] \in SessionRec /\ sess'[y].mode = "code" /\ <<y, x>> \in coded
      BY <1>2 DEF CodesOfCodeSessions, storeVars
    <3>1. pending[x].binding \in Session
      BY DEF SessionInv, StoreInv, StoreTypeOK, Challenge, Session
    <3> QED BY <3>1, <2>4 DEF SessionInv, CodesOfCodeSessions, SessionsKept
  <2>8. OwnersBound'
    BY <1>2, <1>4, <2>3, IssuerdAssumption DEF SessionInv, OwnersBound
  <2>9. VerifiedByOwnProof'
    BY <1>1, <1>2, <2>2, <2>3 DEF SessionInv, VerifiedByOwnProof, Evidence
  <2>10. StoreInv'
    BY <1>2, StoreStutter DEF SessionInv
  <2> QED BY <2>5, <2>6, <2>7, <2>8, <2>9, <2>10 DEF SessionInv
<1> QED BY <1>3, <1>4

\* ReadBinding: the mailbox the handler goes on with is the one the session is
\* bound to for good.
LEMMA ReadBindingKeepsInv ==
  ASSUME SessionInv, NEW h \in Handler, ReadBinding(h)
  PROVE  SessionInv'
<1>1. req[h] \in MintReq /\ sess[req[h].id] \in SessionRec
  BY DEF ReadBinding, SessionInv, HandlerOK, Holds, SendReq, VerifyReq, MailReq, MintReq
<1>2. req[h].id \in Session /\ req[h].since \in Time
  BY <1>1 DEF MintReq
<1>3. UNCHANGED <<storeVars, clock, sessionVars, mailed, coded, owners>>
  BY DEF ReadBinding, ghostVars
<1>4. CASE sess[req[h].id].mailbox = NoMailbox
  BY <1>3, <1>4, RefusalKeepsInv DEF ReadBinding
<1>5. CASE sess[req[h].id].mailbox # NoMailbox
  <2> DEFINE q == [op |-> "mint", id |-> req[h].id, since |-> req[h].since,
                   mailbox |-> sess[req[h].id].mailbox]
  <2>2. sess[req[h].id].mailbox \in Address
    BY <1>1, <1>5 DEF SessionRec
  <2>3. q \in BoundReq /\ q.id = req[h].id /\ q.mailbox = sess[req[h].id].mailbox
    BY <1>2, <2>2 DEF BoundReq
  <2>4. Step(h, "bound", q)
    BY <1>5 DEF ReadBinding
  <2> HIDE DEF q
  <2>5. pc'[h] = "bound" /\ req'[h] = q
    BY <2>4 DEF Step, SessionInv, StateTyped
  <2>6. HandlerOK(h)'
    BY <2>3, <2>5, <1>1, <1>3 DEF HandlerOK, Holds, sessionVars
  <2>7. q \in Request
    BY <2>3 DEF Request
  <2> QED BY <2>4, <2>6, <2>7, <1>3, MoveKeepsInv
<1> QED BY <1>4, <1>5

\* A mint in hand at a time that was read.
LEMMA PaidAtType ==
  ASSUME SessionInv, NEW h \in Handler, pc[h] = "bound", NEW now \in ReadClock(h)
  PROVE  /\ PaidAt(req[h], now) \in PaidReq
         /\ PaidAt(req[h], now).id = req[h].id
         /\ PaidAt(req[h], now).mailbox = req[h].mailbox
<1>1. req[h] \in BoundReq
  BY DEF SessionInv, HandlerOK
<1>2. /\ req[h].id \in Session /\ req[h].since \in Time /\ req[h].mailbox \in Address
      /\ now \in Time
  BY <1>1, ReadClockType DEF BoundReq
<1> QED BY <1>2 DEF PaidAt, PaidReq

\* Authorize adds the time it read to what the handler knows.
LEMMA AuthorizeKeepsInv ==
  ASSUME SessionInv, NEW h \in Handler, Authorize(h)
  PROVE  SessionInv'
<1>1. HandlerOK(h) /\ pc[h] = "bound"
  BY DEF Authorize, SessionInv
<1>2. UNCHANGED <<storeVars, clock, sessionVars, mailed, coded, owners>>
  BY DEF Authorize, ghostVars
<1>3. CASE Finish(h)
  BY <1>2, <1>3, RefusalKeepsInv
<1>4. ASSUME NEW now \in ReadClock(h), Step(h, "charged", PaidAt(req[h], now))
      PROVE  SessionInv'
  <2> DEFINE q == PaidAt(req[h], now)
  <2>0. q \in PaidReq /\ q.id = req[h].id /\ q.mailbox = req[h].mailbox
    BY <1>1, PaidAtType
  <2> HIDE DEF q
  <2>1. pc'[h] = "charged" /\ req'[h] = q
    BY <1>4 DEF Step, SessionInv, StateTyped, q
  <2>2. HandlerOK(h)'
    BY <2>0, <2>1, <1>1, <1>2 DEF HandlerOK, Holds, sessionVars
  <2>3. q \in Request
    BY <2>0 DEF Request
  <2>4. Step(h, "charged", q)
    BY <1>4 DEF q
  <2> QED BY <1>2, <2>2, <2>3, <2>4, MoveKeepsInv
<1> QED BY <1>3, <1>4 DEF Authorize

\* Sign: the token belongs to the mailbox that was read, and noting the
\* session as minted leaves the rest of it alone.
LEMMA SignKeepsInv ==
  ASSUME SessionInv, NEW h \in Handler, Sign(h)
  PROVE  SessionInv'
<1> DEFINE s == req[h].id
           m == req[h].mailbox
<1>1. s \in Session /\ m \in Address /\ sess[s] \in SessionRec /\ sess[s].mailbox = m
  BY DEF Sign, SessionInv, HandlerOK, Holds, PaidReq
<1>2. /\ Finish(h)
      /\ sess' = [sess EXCEPT ![s].minted = TRUE]
      /\ owners' = owners \cup {<<s, m>>}
      /\ UNCHANGED <<storeVars, clock, table, mailed, coded>>
  BY DEF Sign
<1> HIDE DEF s, m
<1>3. /\ sess'[s] \in SessionRec
      /\ sess'[s].mode = sess[s].mode /\ sess'[s].mailbox = sess[s].mailbox
  <2>1. sess'[s] = [sess[s] EXCEPT !.minted = TRUE]
    BY <1>1, <1>2 DEF SessionInv, StateTyped
  <2> QED BY <2>1, <1>1 DEF SessionRec
<1>4. /\ sess' \in [Session -> SessionRec \cup {NoSession}]
      /\ \A x \in Session \ {s} : sess'[x] = sess[x]
  <2>1. \A x \in Session \ {s} : sess'[x] = sess[x]
    BY <1>1, <1>2 DEF SessionInv, StateTyped
  <2>2. DOMAIN sess' = Session /\ sess' = [x \in Session |-> sess'[x]]
    BY <1>2 DEF SessionInv, StateTyped
  <2>3. \A x \in Session : sess'[x] \in SessionRec \cup {NoSession}
    BY <2>1, <1>3 DEF SessionInv, StateTyped
  <2> QED BY <2>1, <2>2, <2>3
<1>5. SessionsKept
  BY <1>2, <1>3, <1>4 DEF SessionsKept
<1>6. StateTyped' /\ \A g \in Handler : HandlerOK(g)'
  BY <1>1, <1>2, <1>4, <1>5, FinishKeepsHandlers DEF SessionInv, StateTyped
<1>7. TableTyped'
  BY <1>2, <1>3, <1>4, NoSessionAssumption DEF SessionInv, TableTyped
<1>8. CodesOfCodeSessions'
  <2> SUFFICES ASSUME NEW x \in Address, pending[x] # NoChallenge
               PROVE  LET y == pending[x].binding IN
                      sess'[y] \in SessionRec /\ sess'[y].mode = "code" /\ <<y, x>> \in coded
    BY <1>2 DEF CodesOfCodeSessions, storeVars
  <2>1. pending[x].binding \in Session
    BY DEF SessionInv, StoreInv, StoreTypeOK, Challenge, Session
  <2> QED BY <2>1, <1>5 DEF SessionInv, CodesOfCodeSessions, SessionsKept
<1>9. OwnersBound'
  BY <1>1, <1>2, <1>3, <1>4 DEF SessionInv, OwnersBound
<1>10. VerifiedByOwnProof'
  BY <1>1, <1>2, <1>3, <1>4, NoSessionAssumption DEF SessionInv, VerifiedByOwnProof
<1>11. StoreInv'
  BY <1>2, StoreStutter DEF SessionInv
<1> QED BY <1>6, <1>7, <1>8, <1>9, <1>10, <1>11 DEF SessionInv

\* Time passing makes no handler know less.
LEMMA TickKeepsInv ==
  ASSUME SessionInv, Tick
  PROVE  SessionInv'
<1>1. UNCHANGED <<storeVars, sess, table, pc, req, mailed, coded, owners>>
  BY DEF Tick, sessionVars, handVars, ghostVars
<1>2. clock \in Time /\ clock' \in Time /\ clock <= clock'
  BY IssuerdAssumption DEF Tick, SessionInv, StateTyped, Time
<1>3. SessionsKept
  BY <1>1, SameSessionsKept
<1>4. \A g \in Handler : HandlerOK(g)'
  BY <1>1, <1>2, <1>3, OthersKeep DEF SessionInv
<1>5. TableTyped' /\ CodesOfCodeSessions' /\ OwnersBound' /\ VerifiedByOwnProof'
  BY <1>1, QuietKeepsClaims DEF storeVars
<1>6. StateTyped' /\ StoreInv'
  BY <1>1, <1>2, StoreStutter DEF SessionInv, StateTyped
<1> QED BY <1>4, <1>5, <1>6 DEF SessionInv

\* A stuttering step.
LEMMA StutterKeepsInv ==
  ASSUME SessionInv, UNCHANGED vars
  PROVE  SessionInv'
<1>1. UNCHANGED <<storeVars, clock, sess, table, pc, req, mailed, coded, owners>>
  BY DEF vars, sessionVars, handVars, ghostVars
<1>2. \A g \in Handler : HandlerOK(g)'
  BY <1>1 DEF SessionInv, HandlerOK, Holds, Evidence
<1>3. TableTyped' /\ CodesOfCodeSessions' /\ OwnersBound' /\ VerifiedByOwnProof'
  BY <1>1, QuietKeepsClaims DEF storeVars
<1>4. StateTyped' /\ StoreInv'
  BY <1>1, StoreStutter DEF SessionInv, StateTyped
<1> QED BY <1>2, <1>3, <1>4 DEF SessionInv

\* One step per action.
LEMMA SessionNextInv == SessionInv /\ [Next]_vars => SessionInv'
<1> SUFFICES ASSUME SessionInv, [Next]_vars PROVE SessionInv'
  OBVIOUS
<1>1. ASSUME NEW h \in Handler, Arrive(h) PROVE SessionInv'
  BY <1>1, ArriveKeepsInv
<1>2. ASSUME NEW h \in Handler, InsertSession(h) PROVE SessionInv'
  BY <1>2, InsertKeepsInv
<1>3. ASSUME NEW h \in Handler, SendCode(h) PROVE SessionInv'
  BY <1>3, SendCodeKeepsInv
<1>4. ASSUME NEW h \in Handler, SendCodeRefused(h) PROVE SessionInv'
  BY <1>4, RefusalKeepsInv DEF SendCodeRefused, ghostVars
<1>5. ASSUME NEW h \in Handler, VerifyCode(h) PROVE SessionInv'
  BY <1>5, VerifyCodeKeepsInv
<1>6. ASSUME NEW h \in Handler, IncomingMail(h) PROVE SessionInv'
  BY <1>6, IncomingMailKeepsInv
<1>7. ASSUME NEW h \in Handler, MarkVerified(h) PROVE SessionInv'
  BY <1>7, MarkVerifiedKeepsInv
<1>8. ASSUME NEW h \in Handler, ReadBinding(h) PROVE SessionInv'
  BY <1>8, ReadBindingKeepsInv
<1>9. ASSUME NEW h \in Handler, Authorize(h) PROVE SessionInv'
  BY <1>9, AuthorizeKeepsInv
<1>10. ASSUME NEW h \in Handler, Sign(h) PROVE SessionInv'
  BY <1>10, SignKeepsInv
<1>11. ASSUME NEW h \in Handler, SignFails(h) PROVE SessionInv'
  BY <1>11, RefusalKeepsInv DEF SignFails, ghostVars
<1>12. CASE Tick
  BY <1>12, TickKeepsInv
<1>13. CASE UNCHANGED vars
  BY <1>13, StutterKeepsInv
<1> QED BY <1>1, <1>2, <1>3, <1>4, <1>5, <1>6, <1>7, <1>8, <1>9, <1>10, <1>11,
           <1>12, <1>13 DEF Next

\* The session invariant holds throughout.
LEMMA SessionAlwaysInv == Spec => []SessionInv
  BY SessionInitInv, SessionNextInv, PTL DEF Spec

\* A session is verified only along its own direction, for any number of
\* sessions, addresses and requests in flight (handleVerifyCode, markVerified).
THEOREM IssuerdVerifiedByOwnProof == Spec => []VerifiedByOwnProof
<1>1. SessionInv => VerifiedByOwnProof
  BY DEF SessionInv
<1> QED BY <1>1, SessionAlwaysInv, PTL

\* A token is charged to the mailbox its session is bound to, though the
\* binding is read in one critical section and used after it (handleMint).
THEOREM IssuerdTokensOfBoundMailbox == Spec => []TokensOfBoundMailbox
<1>1. SessionInv => TokensOfBoundMailbox
  <2> SUFFICES ASSUME SessionInv, NEW p \in owners PROVE sess[p[1]].mailbox = p[2]
    BY DEF TokensOfBoundMailbox
  <2>1. PICK s \in Session, a \in Address : p = <<s, a>>
    BY DEF SessionInv, StateTyped
  <2> QED BY <2>1 DEF SessionInv, OwnersBound
<1> QED BY <1>1, SessionAlwaysInv, PTL
-----------------------------------------------------------------------------
(* The session table.                                                      *)

\* Only InsertSession removes sessions from the table, and only a handler that
\* is creating one ends a creation.
LEMMA OnlyInsertTouchesTable ==
  ASSUME SessionInv, [Next]_vars, ~\E h \in Handler : InsertSession(h)
  PROVE  /\ table' = table
         /\ \A g \in Handler : pc[g] = "creating" => pc'[g] = pc[g]
<1> DEFINE Goal == /\ table' = table
                   /\ \A g \in Handler : pc[g] = "creating" => pc'[g] = pc[g]
<1>0. ASSUME NEW h \in Handler, NEW p, NEW q, Step(h, p, q), pc[h] # "creating", table' = table
      PROVE  Goal
  BY <1>0 DEF Step, SessionInv, StateTyped
<1>1. ASSUME NEW h \in Handler, Arrive(h) PROVE Goal
  <2>1. ASSUME NEW q, GetSession(h, q) PROVE Goal
    BY <2>1, <1>0 DEF GetSession, sessionVars
  <2>2. ASSUME NEW mode, CreateSession(h, mode) PROVE Goal
    BY <2>2, <1>0 DEF CreateSession, sessionVars
  <2> QED BY <1>1, <2>1, <2>2 DEF Arrive
<1>2. ASSUME NEW h \in Handler,
             SendCode(h) \/ SendCodeRefused(h) \/ VerifyCode(h) \/ IncomingMail(h)
      PROVE  Goal
  <2>1. pc[h] = "found" /\ table' = table
    BY <1>2 DEF SendCode, SendCodeRefused, VerifyCode, IncomingMail, sessionVars
  <2>2. Finish(h) \/ Step(h, "proved", req[h])
    BY <1>2 DEF SendCode, SendCodeRefused, VerifyCode, IncomingMail
  <2> QED BY <2>1, <2>2, <1>0 DEF Finish
<1>3. ASSUME NEW h \in Handler, MarkVerified(h) \/ Sign(h)
      PROVE  Goal
  BY <1>3, <1>0 DEF MarkVerified, Sign, Finish
<1>4. ASSUME NEW h \in Handler, ReadBinding(h) \/ Authorize(h) \/ SignFails(h)
      PROVE  Goal
  <2>1. pc[h] # "creating" /\ table' = table
    BY <1>4 DEF ReadBinding, Authorize, SignFails, sessionVars
  <2>2. \E p, q : Step(h, p, q)
    BY <1>4 DEF ReadBinding, Authorize, SignFails, Finish
  <2> QED BY <2>1, <2>2, <1>0
<1>5. CASE Tick
  BY <1>5 DEF Tick, sessionVars, handVars
<1>6. CASE UNCHANGED vars
  BY <1>6 DEF vars, sessionVars, handVars
<1> QED BY <1>1, <1>2, <1>3, <1>4, <1>5, <1>6 DEF Next

\* The table stays within its capacity, loses only expired sessions, and
\* refuses a session only when it is full of live ones, whatever creations
\* overlap (handleCreateSession, gcLocked).
THEOREM IssuerdTableKept == Spec => TableKept
<1> DEFINE Kept ==
        /\ Cardinality(table') <= MaxSessions
        /\ \A s \in table \ table' : clock > sess[s].exp
        /\ \A h \in Handler :
            pc[h] = "creating" /\ pc'[h] = "idle" /\ sess' = sess
            => Cardinality({s \in table : req[h].now <= sess[s].exp}) >= MaxSessions
<1>1. SessionInv /\ [Next]_vars => Kept
  <2> SUFFICES ASSUME SessionInv, [Next]_vars PROVE Kept
    OBVIOUS
  <2>1. Cardinality(table') <= MaxSessions
    BY SessionNextInv DEF SessionInv, TableTyped
  <2>2. CASE ~\E h \in Handler : InsertSession(h)
    BY <2>1, <2>2, OnlyInsertTouchesTable
  <2>3. ASSUME NEW h \in Handler, InsertSession(h) PROVE Kept
    <3>1. /\ req[h] \in CreateReq /\ req[h].now \in Nat /\ req[h].now <= clock
          /\ clock \in Nat /\ req[h].mode \in Mode
      BY <2>3, IssuerdAssumption
      DEF InsertSession, SessionInv, StateTyped, HandlerOK, CreateReq, Time
    <3>2. \A s \in table \ table' : clock > sess[s].exp
      <4> SUFFICES ASSUME NEW s \in table, s \notin table' PROVE clock > sess[s].exp
        OBVIOUS
      <4>1. s \in Session /\ sess[s] \in SessionRec
        BY DEF SessionInv, StateTyped, TableTyped
      <4>2. sess[s].exp \in Nat
        BY <4>1 DEF SessionRec
      <4>3. ~(req[h].now <= sess[s].exp)
        BY <2>3 DEF InsertSession, Unexpired
      <4> QED BY <3>1, <4>2, <4>3
    <3>3. \A g \in Handler \ {h} : pc'[g] = pc[g]
      BY <2>3 DEF InsertSession, Finish, Step, SessionInv, StateTyped
    <3>4. sess' = sess => Cardinality({s \in table : req[h].now <= sess[s].exp}) >= MaxSessions
      <4> SUFFICES ASSUME sess' = sess
                   PROVE  Cardinality(Unexpired(req[h].now)) >= MaxSessions
        BY DEF Unexpired
      <4>1. ASSUME NEW s \in Session, sess[s] = NoSession,
                   sess' = [sess EXCEPT ![s] = [mode |-> req[h].mode, mailbox |-> NoMailbox,
                                        exp |-> req[h].now + SessionTTL, minted |-> FALSE]]
            PROVE  FALSE
        <5>1. sess'[s] \in SessionRec
          BY <4>1, <3>1, NewSessionType DEF SessionInv, StateTyped
        <5> QED BY <5>1, <4>1, NoSessionAssumption
      <4>2. ~HasRoom(req[h].now)
        BY <2>3, <4>1 DEF InsertSession
      <4> QED BY <4>2, UnexpiredFinite, IssuerdAssumption DEF SessionInv, HasRoom
    <3> QED BY <2>1, <3>2, <3>3, <3>4
  <2> QED BY <2>2, <2>3
<1> QED BY <1>1, SessionAlwaysInv, PTL DEF Spec, TableKept
-----------------------------------------------------------------------------
(* The budget: a permit in the hands of a handler counts as a token.       *)

\* The mints between AuthorizeMint and the answer that drew on bucket b.
InHand(b) == {h \in Handler : pc[h] = "charged" /\ BucketOf(req[h]) = b}

\* What was signed or is about to be was reserved.
Covered == \A b \in Bucket : signed[b] + Cardinality(InHand(b)) <= used[b]

BudgetInv ==
    /\ SessionInv
    /\ used \in [Bucket -> 0..BudgetLimit]
    /\ signed \in [Bucket -> Nat]
    /\ Covered

\* The bucket of a mint in hand exists.
LEMMA BucketOfType ==
  ASSUME NEW q \in PaidReq
  PROVE  BucketOf(q) \in Bucket
<1>1. q.mailbox \in Address /\ q.at \in Time
  BY DEF PaidReq
<1>2. \A x \in Nat, w \in Nat \ {0} : x \div w \in Nat /\ x \div w <= x
  OBVIOUS
<1>3. q.at \div Window \in Time
  BY <1>1, <1>2, IssuerdAssumption DEF Time
<1> QED BY <1>1, <1>3 DEF BucketOf, Bucket

\* The mints in hand are finitely many.
LEMMA InHandFinite ==
  ASSUME NEW b
  PROVE  IsFiniteSet(InHand(b)) /\ Cardinality(InHand(b)) \in Nat
  BY IssuerdAssumption, FS_Subset, FS_CardinalityType DEF InHand

\* A step of a handler that neither draws nor spends a permit.
LEMMA QuietKeepsBudget ==
  ASSUME BudgetInv, SessionInv', UNCHANGED <<used, signed>>,
         NEW h \in Handler, pc[h] # "charged", NEW p, NEW q, p # "charged", Step(h, p, q)
  PROVE  BudgetInv'
<1>1. /\ pc[h] # "charged" /\ pc'[h] # "charged"
      /\ \A g \in Handler \ {h} : pc'[g] = pc[g] /\ req'[g] = req[g]
  BY DEF Step, BudgetInv, SessionInv, StateTyped
<1>2. \A b \in Bucket : InHand(b)' = InHand(b)
  BY <1>1 DEF InHand, BucketOf
<1>3. \A b \in Bucket : Cardinality(InHand(b))' = Cardinality(InHand(b))
  BY <1>2
<1> QED BY <1>3 DEF BudgetInv, Covered

\* At first nothing is reserved, in hand or signed.
LEMMA BudgetInitInv == Init => BudgetInv
<1> SUFFICES ASSUME Init PROVE BudgetInv
  OBVIOUS
<1>1. \A b \in Bucket : InHand(b) = {}
  BY DEF Init, InHand
<1>2. \A b \in Bucket : Cardinality(InHand(b)) = 0
  BY <1>1, FS_EmptySet
<1> QED BY <1>2, SessionInitInv, IssuerdAssumption DEF Init, BudgetInv, Covered

\* Authorize moves one permit from the budget to a hand, or refuses.
LEMMA AuthorizeKeepsBudget ==
  ASSUME BudgetInv, SessionInv', NEW h \in Handler, Authorize(h)
  PROVE  BudgetInv'
<1>1. CASE Finish(h) /\ UNCHANGED used
  BY <1>1, QuietKeepsBudget DEF Authorize, Finish, ghostVars
<1>2. CASE ~(Finish(h) /\ UNCHANGED used)
  <2>0. PICK now \in ReadClock(h) :
            /\ used[BucketOf(PaidAt(req[h], now))] + 1 <= BudgetLimit
            /\ used' = [used EXCEPT ![BucketOf(PaidAt(req[h], now))] = @ + 1]
            /\ Step(h, "charged", PaidAt(req[h], now))
    BY <1>2 DEF Authorize
  <2> DEFINE q == PaidAt(req[h], now)
  <2>9. pc[h] = "bound" /\ signed' = signed
    BY DEF Authorize, ghostVars
  <2>1. PICK c \in Bucket : c = BucketOf(q)
    BY <2>9, PaidAtType, BucketOfType DEF BudgetInv
  <2>2. /\ used' = [used EXCEPT ![c] = @ + 1] /\ used[c] + 1 <= BudgetLimit
        /\ Step(h, "charged", q) /\ signed' = signed /\ pc[h] = "bound"
    BY <2>0, <2>1, <2>9
  <2> HIDE DEF q
  <2>3. /\ pc'[h] = "charged" /\ req'[h] = q
        /\ \A g \in Handler \ {h} : pc'[g] = pc[g] /\ req'[g] = req[g]
    BY <2>2 DEF Step, BudgetInv, SessionInv, StateTyped
  <2>4. InHand(c)' = InHand(c) \cup {h} /\ h \notin InHand(c)
    BY <2>1, <2>2, <2>3 DEF InHand, BucketOf
  <2>5. \A b \in Bucket \ {c} : InHand(b)' = InHand(b)
    BY <2>1, <2>2, <2>3 DEF InHand, BucketOf
  <2>6. Cardinality(InHand(c))' = Cardinality(InHand(c)) + 1
    BY <2>4, InHandFinite, FS_AddElement
  <2>7. used' \in [Bucket -> 0..BudgetLimit]
    BY <2>1, <2>2, IssuerdAssumption DEF BudgetInv
  <2>8. Covered'
    <3> SUFFICES ASSUME NEW b \in Bucket
                 PROVE  signed'[b] + Cardinality(InHand(b))' <= used'[b]
      BY DEF Covered
    <3>1. CASE b = c
      <4>1. signed[c] \in Nat /\ used[c] \in Nat /\ Cardinality(InHand(c)) \in Nat
        BY InHandFinite, IssuerdAssumption DEF BudgetInv
      <4>2. signed[c] + Cardinality(InHand(c)) <= used[c]
        BY DEF BudgetInv, Covered
      <4>3. signed'[c] = signed[c] /\ used'[c] = used[c] + 1
        BY <2>2 DEF BudgetInv
      <4>4. signed'[c] + Cardinality(InHand(c))' <= used'[c]
        BY <4>1, <4>2, <4>3, <2>6
      <4> QED BY <3>1, <4>4
    <3>2. CASE b # c
      <4>1. Cardinality(InHand(b))' = Cardinality(InHand(b)) /\ used'[b] = used[b]
        BY <3>2, <2>2, <2>5 DEF BudgetInv
      <4> QED BY <4>1, <2>2 DEF BudgetInv, Covered
    <3> QED BY <3>1, <3>2
  <2> QED BY <2>2, <2>7, <2>8 DEF BudgetInv
<1> QED BY <1>1, <1>2

\* Sign turns the permit in hand into a token.
LEMMA SignKeepsBudget ==
  ASSUME BudgetInv, SessionInv', NEW h \in Handler, Sign(h)
  PROVE  BudgetInv'
<1>1. PICK c \in Bucket : c = BucketOf(req[h])
  BY BucketOfType DEF Sign, BudgetInv, SessionInv, HandlerOK
<1>2. /\ signed' = [signed EXCEPT ![c] = @ + 1] /\ used' = used
      /\ pc[h] = "charged" /\ Finish(h)
  BY <1>1 DEF Sign
<1>3. /\ pc'[h] # "charged"
      /\ \A g \in Handler \ {h} : pc'[g] = pc[g] /\ req'[g] = req[g]
  BY <1>2 DEF Finish, Step, BudgetInv, SessionInv, StateTyped
<1>4. InHand(c)' = InHand(c) \ {h} /\ h \in InHand(c)
  <2>1. h \in InHand(c)
    BY <1>1, <1>2 DEF InHand
  <2>2. \A g : g \in InHand(c)' <=> g \in InHand(c) /\ g # h
    BY <1>3 DEF InHand, BucketOf
  <2> QED BY <2>1, <2>2
<1>5. \A b \in Bucket \ {c} : InHand(b)' = InHand(b)
  BY <1>1, <1>3 DEF InHand, BucketOf
<1>6. Cardinality(InHand(c))' = Cardinality(InHand(c)) - 1
  BY <1>4, InHandFinite, FS_RemoveElement
<1>7. Covered'
  <2> SUFFICES ASSUME NEW b \in Bucket
               PROVE  signed'[b] + Cardinality(InHand(b))' <= used'[b]
    BY DEF Covered
  <2>1. CASE b = c
    <3>1. signed[c] \in Nat /\ used[c] \in Nat /\ Cardinality(InHand(c)) \in Nat
      BY InHandFinite, IssuerdAssumption DEF BudgetInv
    <3>2. signed[c] + Cardinality(InHand(c)) <= used[c]
      BY DEF BudgetInv, Covered
    <3>3. signed'[c] = signed[c] + 1 /\ used'[c] = used[c]
      BY <1>2 DEF BudgetInv
    <3>4. signed'[c] + Cardinality(InHand(c))' <= used'[c]
      BY <3>1, <3>2, <3>3, <1>6
    <3> QED BY <2>1, <3>4
  <2>2. CASE b # c
    <3>1. Cardinality(InHand(b))' = Cardinality(InHand(b)) /\ signed'[b] = signed[b]
      BY <2>2, <1>2, <1>5 DEF BudgetInv
    <3> QED BY <3>1, <1>2 DEF BudgetInv, Covered
  <2> QED BY <2>1, <2>2
<1> QED BY <1>2, <1>7 DEF BudgetInv

\* SignFails drops the permit in hand.
LEMMA SignFailsKeepsBudget ==
  ASSUME BudgetInv, SessionInv', NEW h \in Handler, SignFails(h)
  PROVE  BudgetInv'
<1>1. UNCHANGED <<used, signed>> /\ Finish(h)
  BY DEF SignFails, ghostVars
<1>2. /\ pc'[h] # "charged"
      /\ \A g \in Handler \ {h} : pc'[g] = pc[g] /\ req'[g] = req[g]
  BY <1>1 DEF Finish, Step, BudgetInv, SessionInv, StateTyped
<1>3. \A b \in Bucket : InHand(b)' \subseteq InHand(b)
  BY <1>2 DEF InHand, BucketOf
<1>4. \A b \in Bucket : /\ Cardinality(InHand(b))' \in Nat /\ Cardinality(InHand(b)) \in Nat
                       /\ Cardinality(InHand(b))' <= Cardinality(InHand(b))
  BY <1>3, InHandFinite, FS_Subset, FS_CardinalityType
<1>5. Covered'
  BY <1>1, <1>4, IssuerdAssumption DEF BudgetInv, Covered
<1> QED BY <1>1, <1>5 DEF BudgetInv

\* One step per action.
LEMMA BudgetNextInv == BudgetInv /\ [Next]_vars => BudgetInv'
<1> SUFFICES ASSUME BudgetInv, [Next]_vars PROVE BudgetInv'
  OBVIOUS
<1>0. SessionInv'
  BY SessionNextInv DEF BudgetInv
<1>1. ASSUME NEW h \in Handler, Arrive(h) PROVE BudgetInv'
  <2>1. ASSUME NEW q, GetSession(h, q) PROVE BudgetInv'
    BY <2>1, <1>0, QuietKeepsBudget DEF GetSession, ghostVars
  <2>2. ASSUME NEW mode, CreateSession(h, mode) PROVE BudgetInv'
    BY <2>2, <1>0, QuietKeepsBudget DEF CreateSession, ghostVars
  <2> QED BY <1>1, <2>1, <2>2 DEF Arrive
<1>2. ASSUME NEW h \in Handler,
             \/ InsertSession(h) \/ SendCode(h) \/ SendCodeRefused(h)
             \/ VerifyCode(h) \/ IncomingMail(h) \/ MarkVerified(h)
      PROVE  BudgetInv'
  <2>1. pc[h] # "charged" /\ UNCHANGED <<used, signed>>
    BY <1>2 DEF InsertSession, SendCode, SendCodeRefused, VerifyCode, IncomingMail,
                MarkVerified, ghostVars
  <2>2. Finish(h) \/ Step(h, "proved", req[h])
    BY <1>2 DEF InsertSession, SendCode, SendCodeRefused, VerifyCode, IncomingMail, MarkVerified
  <2> QED BY <2>1, <2>2, <1>0, QuietKeepsBudget DEF Finish
<1>3. ASSUME NEW h \in Handler, ReadBinding(h) PROVE BudgetInv'
  <2>1. pc[h] # "charged" /\ UNCHANGED <<used, signed>>
    BY <1>3 DEF ReadBinding, ghostVars
  <2>2. Finish(h) \/ \E q : Step(h, "bound", q)
    BY <1>3 DEF ReadBinding
  <2> QED BY <2>1, <2>2, <1>0, QuietKeepsBudget DEF Finish
<1>4. ASSUME NEW h \in Handler, Authorize(h) PROVE BudgetInv'
  BY <1>4, <1>0, AuthorizeKeepsBudget
<1>5. ASSUME NEW h \in Handler, Sign(h) PROVE BudgetInv'
  BY <1>5, <1>0, SignKeepsBudget
<1>6. ASSUME NEW h \in Handler, SignFails(h) PROVE BudgetInv'
  BY <1>6, <1>0, SignFailsKeepsBudget
<1>7. CASE Tick \/ UNCHANGED vars
  <2>1. UNCHANGED <<pc, req, used, signed>>
    BY <1>7 DEF Tick, vars, handVars, ghostVars
  <2>2. \A b \in Bucket : InHand(b)' = InHand(b)
    BY <2>1 DEF InHand, BucketOf
  <2>3. \A b \in Bucket : Cardinality(InHand(b))' = Cardinality(InHand(b))
    BY <2>2
  <2> QED BY <1>0, <2>1, <2>3 DEF BudgetInv, Covered
<1> QED BY <1>1, <1>2, <1>3, <1>4, <1>5, <1>6, <1>7 DEF Next

\* What is signed or in hand stays covered by reservations.
LEMMA BudgetAlwaysInv == Spec => []BudgetInv
  BY BudgetInitInv, BudgetNextInv, PTL DEF Spec

\* Every variable of issuerd keeps its type.
THEOREM IssuerdTypeCorrect == Spec => []TypeOK
<1>1. BudgetInv => TypeOK
  BY DEF BudgetInv, SessionInv, StoreInv, StateTyped, TableTyped, TypeOK
<1> QED BY <1>1, BudgetAlwaysInv, PTL

\* One mailbox gets at most BudgetLimit tokens in a window, over all its
\* sessions and however their mints overlap (AuthorizeMint).
THEOREM IssuerdWithinBudget == Spec => []MintsWithinBudget
<1>1. BudgetInv => MintsWithinBudget
  BY InHandFinite, IssuerdAssumption DEF BudgetInv, Covered, MintsWithinBudget
<1> QED BY <1>1, BudgetAlwaysInv, PTL
=============================================================================
