------------------------------- MODULE Issuerd -------------------------------
(***************************************************************************)
(* services/issuerd: sessions that prove control of a mailbox, by a mail   *)
(* sent from it or by a code sent to it, and the tokens minted for a       *)
(* proven session out of the mailbox's budget.  Everything is in memory:   *)
(* the module models one process.                                          *)
(*                                                                         *)
(* Requests are handled concurrently.  getSession returns a pointer, so a  *)
(* handler goes on with its session after gcLocked removed it from the     *)
(* table.  A request refused before it changes anything is not a step.     *)
(* The binding of a code is the session id (sessionBinding is injective).  *)
(***************************************************************************)
EXTENDS ChallengeStore, FiniteSets

CONSTANTS
    Handler,       \* requests handled at once
    NoMailbox,     \* the session is still pending
    NoSession,     \* the session id was not drawn yet
    MaxSessions,   \* capacity of the session table (maxSessions)
    SessionTTL,    \* lifetime of a session
    BudgetLimit,   \* tokens per mailbox and window
    Window,        \* length of the budget window
    MaxTime        \* bound on the clock

ASSUME IssuerdAssumption ==
    /\ MaxSessions \in Nat
    /\ SessionTTL \in Nat
    /\ BudgetLimit \in Nat
    /\ Window \in Nat \ {0}
    /\ MaxTime \in Nat
    /\ NoMailbox \notin Address
    /\ IsFiniteSet(Handler)

Session == Binding
Mode == {"send", "code"}
Time == 0..MaxTime

VARIABLES
    clock,
    sess,     \* the session objects, by id; one is never freed while held
    table,    \* ids in the sessions map
    pc,       \* where each handler is
    req,      \* the request each handler serves
    used,     \* permits reserved, by mailbox bucket and window
    mailed,   \* ghost: <<session, sender>> of the mails accepted
    coded,    \* ghost: <<session, address>> of the codes sent
    signed,   \* ghost: tokens signed, by mailbox bucket and window
    owners    \* ghost: <<session, mailbox>> of the tokens signed

sessionVars == <<sess, table>>
handVars == <<pc, req>>
ghostVars == <<mailed, coded, signed, owners>>
vars == <<storeVars, clock, sessionVars, handVars, used, ghostVars>>

\* A session is verified when it has a mailbox: markVerified sets Status and
\* Bucket together.  BucketID is injective, so the address stands for it.
SessionRec == [mode : Mode, mailbox : Address \cup {NoMailbox}, exp : Nat, minted : BOOLEAN]

ASSUME NoSessionAssumption == NoSession \notin SessionRec

CreateReq == [op : {"create"}, mode : Mode, now : Time]
SendReq   == [op : {"send"}, id : Session, addr : Address, since : Time]
VerifyReq == [op : {"verify"}, id : Session, addr : Address, code : Code, since : Time]
MailReq   == [op : {"mail"}, id : Session, addr : Address]
MintReq   == [op : {"mint"}, id : Session, since : Time]
BoundReq  == [op : {"mint"}, id : Session, since : Time, mailbox : Address]
PaidReq   == [op : {"mint"}, id : Session, since : Time, mailbox : Address, at : Time]
NoReq     == [op |-> "none"]
Request   ==
    CreateReq \cup SendReq \cup VerifyReq \cup MailReq \cup MintReq \cup BoundReq \cup PaidReq

Bucket == Address \X Time

TypeOK ==
    /\ StoreTypeOK
    /\ clock \in Time
    /\ sess \in [Session -> SessionRec \cup {NoSession}]
    /\ table \subseteq {s \in Session : sess[s] # NoSession}
    /\ pc \in [Handler -> {"idle", "creating", "found", "proved", "bound", "charged"}]
    /\ req \in [Handler -> Request \cup {NoReq}]
    /\ used \in [Bucket -> 0..BudgetLimit]
    /\ mailed \subseteq Session \X Address
    /\ coded \subseteq Session \X Address
    /\ signed \in [Bucket -> Nat]
    /\ owners \subseteq Session \X Address

Init ==
    /\ StoreInit
    /\ clock = 0
    /\ sess = [s \in Session |-> NoSession]
    /\ table = {}
    /\ pc = [h \in Handler |-> "idle"]
    /\ req = [h \in Handler |-> NoReq]
    /\ used = [b \in Bucket |-> 0]
    /\ mailed = {} /\ coded = {} /\ owners = {}
    /\ signed = [b \in Bucket |-> 0]

-----------------------------------------------------------------------------
Step(h, p, q) == pc' = [pc EXCEPT ![h] = p] /\ req' = [req EXCEPT ![h] = q]
Finish(h) == Step(h, "idle", NoReq)

\* handleCreateSession reads the time, then waits for the lock.
CreateSession(h, mode) ==
    /\ pc[h] = "idle"
    /\ Step(h, "creating", [op |-> "create", mode |-> mode, now |-> clock])
    /\ UNCHANGED <<storeVars, clock, sessionVars, used, ghostVars>>

\* gcLocked: what the table keeps.
Unexpired(now) == {s \in table : now <= sess[s].exp}

\* Mutant: the capacity is checked before the expired sessions go.
HasRoomBeforeGC(now) == Cardinality(table) < MaxSessions

\* Is there room for a session once the expired ones are gone?
HasRoom(now) == Cardinality(Unexpired(now)) < MaxSessions

\* Under the lock: drop what expired, refuse when full, insert a fresh id.
InsertSession(h) ==
    /\ pc[h] = "creating"
    /\ LET q == req[h] IN
        \/ ~HasRoom(q.now) /\ table' = Unexpired(q.now) /\ UNCHANGED sess
        \/ /\ HasRoom(q.now)
           /\ \E s \in Session :
                /\ sess[s] = NoSession
                /\ sess' = [sess EXCEPT ![s] = [mode |-> q.mode, mailbox |-> NoMailbox,
                                        exp |-> q.now + SessionTTL, minted |-> FALSE]]
                /\ table' = Unexpired(q.now) \cup {s}
    /\ Finish(h)
    /\ UNCHANGED <<storeVars, clock, used, ghostVars>>

\* getSession: the session a request names, if it is still there.
Found(s) == s \in table /\ clock <= sess[s].exp

GetSession(h, q) ==
    /\ pc[h] = "idle"
    /\ Found(q.id)
    /\ Step(h, "found", q)
    /\ UNCHANGED <<storeVars, clock, sessionVars, used, ghostVars>>

\* A clock read between getSession and the current step.
ReadClock(h) == req[h].since..clock

-----------------------------------------------------------------------------
(* The code direction.                                                     *)

\* Mutant: any session may have a code sent.
SendCodeAnyMode(h) ==
    /\ pc[h] = "found" /\ req[h].op = "send"
    /\ \E c \in Code, now \in ReadClock(h) : Create(req[h].addr, req[h].id, c, now)
    /\ coded' = coded \cup {<<req[h].id, req[h].addr>>}
    /\ Finish(h)
    /\ UNCHANGED <<clock, sessionVars, used, mailed, signed, owners>>

\* handleSendCode.  A failed delivery leaves the challenge pending.
SendCode(h) ==
    /\ pc[h] = "found" /\ req[h].op = "send"
    /\ sess[req[h].id].mode = "code"
    /\ \E c \in Code, now \in ReadClock(h) : Create(req[h].addr, req[h].id, c, now)
    /\ coded' = coded \cup {<<req[h].id, req[h].addr>>}
    /\ Finish(h)
    /\ UNCHANGED <<clock, sessionVars, used, mailed, signed, owners>>

\* 409: the session is not in code mode.
SendCodeRefused(h) ==
    /\ pc[h] = "found" /\ req[h].op = "send"
    /\ sess[req[h].id].mode # "code"
    /\ Finish(h)
    /\ UNCHANGED <<storeVars, clock, sessionVars, used, ghostVars>>

\* handleVerifyCode up to the store's verdict; it does not look at the mode.
VerifyCode(h) ==
    /\ pc[h] = "found" /\ req[h].op = "verify"
    /\ \E now \in ReadClock(h) :
        LET q == req[h]
            verdict == Verdict(q.addr, q.code, q.id, now) IN
        /\ Verify(q.addr, verdict)
        /\ IF verdict = "ok" THEN Step(h, "proved", q) ELSE Finish(h)
    /\ UNCHANGED <<clock, sessionVars, used, ghostVars>>

-----------------------------------------------------------------------------
(* The send direction.                                                     *)

\* handleIncomingMail up to markVerified: the sender is the From address,
\* believed for its aligned DKIM signature.
IncomingMail(h) ==
    /\ pc[h] = "found" /\ req[h].op = "mail"
    /\ IF sess[req[h].id].mode = "send"
       THEN /\ Step(h, "proved", req[h])
            /\ mailed' = mailed \cup {<<req[h].id, req[h].addr>>}
       ELSE Finish(h) /\ UNCHANGED mailed
    /\ UNCHANGED <<storeVars, clock, sessionVars, used, coded, signed, owners>>

\* Mutant: the last proof wins.
MarkVerifiedReplaces(h) ==
    /\ pc[h] = "proved"
    /\ sess' = [sess EXCEPT ![req[h].id].mailbox = req[h].addr]
    /\ Finish(h)
    /\ UNCHANGED <<storeVars, clock, table, used, ghostVars>>

\* markVerified: the first proof binds the session, later ones get 409.
MarkVerified(h) ==
    /\ pc[h] = "proved"
    /\ sess' = IF sess[req[h].id].mailbox = NoMailbox
               THEN [sess EXCEPT ![req[h].id].mailbox = req[h].addr]
               ELSE sess
    /\ Finish(h)
    /\ UNCHANGED <<storeVars, clock, table, used, ghostVars>>

-----------------------------------------------------------------------------
(* handleMint.                                                             *)

\* The mailbox of the session is read once, under the lock.
ReadBinding(h) ==
    /\ pc[h] = "found" /\ req[h].op = "mint"
    /\ LET mailbox == sess[req[h].id].mailbox IN
        IF mailbox = NoMailbox
        THEN Finish(h)
        ELSE Step(h, "bound", [op |-> "mint", id |-> req[h].id, since |-> req[h].since,
                               mailbox |-> mailbox])
    /\ UNCHANGED <<storeVars, clock, sessionVars, used, ghostVars>>

\* The mint at the time handleMint reads for it, and its budget bucket.
PaidAt(q, now) ==
    [op |-> "mint", id |-> q.id, since |-> q.since, mailbox |-> q.mailbox, at |-> now]
BucketOf(q) == <<q.mailbox, q.at \div Window>>

\* Mutant: a permit is taken whatever the limit.
AuthorizeUnlimited(h) ==
    /\ pc[h] = "bound"
    /\ \E now \in ReadClock(h) : LET q == PaidAt(req[h], now) IN
        used' = [used EXCEPT ![BucketOf(q)] = @ + 1] /\ Step(h, "charged", q)
    /\ UNCHANGED <<storeVars, clock, sessionVars, ghostVars>>

\* Mutant: the limit is tested against the tokens already handed out.
AuthorizeBySigned(h) ==
    /\ pc[h] = "bound"
    /\ \E now \in ReadClock(h) : LET q == PaidAt(req[h], now) IN
        IF signed[BucketOf(q)] + 1 <= BudgetLimit THEN Step(h, "charged", q) ELSE Finish(h)
    /\ UNCHANGED <<storeVars, clock, sessionVars, used, ghostVars>>

\* AuthorizeMint charges one permit of the mailbox's window, or denies.
Authorize(h) ==
    /\ pc[h] = "bound"
    /\ \E now \in ReadClock(h) : LET q == PaidAt(req[h], now) IN
        IF used[BucketOf(q)] + 1 <= BudgetLimit
        THEN used' = [used EXCEPT ![BucketOf(q)] = @ + 1] /\ Step(h, "charged", q)
        ELSE Finish(h) /\ UNCHANGED used
    /\ UNCHANGED <<storeVars, clock, sessionVars, ghostVars>>

\* Blind-sign, finalize, note the session as minted, answer.
Sign(h) ==
    /\ pc[h] = "charged"
    /\ signed' = [signed EXCEPT ![BucketOf(req[h])] = @ + 1]
    /\ owners' = owners \cup {<<req[h].id, req[h].mailbox>>}
    /\ sess' = [sess EXCEPT ![req[h].id].minted = TRUE]
    /\ Finish(h)
    /\ UNCHANGED <<storeVars, clock, table, used, mailed, coded>>

\* Blind-sign or finalize fails: the permit is gone and there is no token.
SignFails(h) ==
    /\ pc[h] = "charged"
    /\ Finish(h)
    /\ UNCHANGED <<storeVars, clock, sessionVars, used, ghostVars>>

-----------------------------------------------------------------------------
Tick ==
    /\ clock < MaxTime
    /\ clock' = clock + 1
    /\ UNCHANGED <<storeVars, sessionVars, handVars, used, ghostVars>>

Arrive(h) ==
    \/ \E mode \in Mode : CreateSession(h, mode)
    \/ \E s \in Session, a \in Address :
        \/ GetSession(h, [op |-> "send", id |-> s, addr |-> a, since |-> clock])
        \/ \E c \in Code :
            GetSession(h, [op |-> "verify", id |-> s, addr |-> a, code |-> c, since |-> clock])
        \/ GetSession(h, [op |-> "mail", id |-> s, addr |-> a])
    \/ \E s \in Session : GetSession(h, [op |-> "mint", id |-> s, since |-> clock])

Next ==
    \/ \E h \in Handler :
        \/ Arrive(h) \/ InsertSession(h)
        \/ SendCode(h) \/ SendCodeRefused(h) \/ VerifyCode(h)
        \/ IncomingMail(h) \/ MarkVerified(h)
        \/ ReadBinding(h) \/ Authorize(h) \/ Sign(h) \/ SignFails(h)
    \/ Tick

Spec == Init /\ [][Next]_vars

-----------------------------------------------------------------------------
\* A session is verified only along its own direction: a "send" session by a
\* mail of that sender naming it, a "code" session by a code that was sent to
\* that address for it.  handleVerifyCode never looks at the mode; the
\* session binding of the code is what keeps the directions apart.
VerifiedByOwnProof ==
    \A s \in Session : sess[s] # NoSession /\ sess[s].mailbox # NoMailbox =>
        <<s, sess[s].mailbox>> \in (IF sess[s].mode = "send" THEN mailed ELSE coded)

\* Every token of a session was charged to the mailbox the session is bound
\* to ("a later verification cannot replace the session's first mailbox
\* binding", markVerified), although handleMint reads the binding, lets go of
\* the lock and signs later.
TokensOfBoundMailbox ==
    \A p \in owners : sess[p[1]].mailbox = p[2]

\* One mailbox gets at most BudgetLimit tokens in a window, over all its
\* sessions and however their mints overlap.
MintsWithinBudget == \A b \in Bucket : signed[b] <= BudgetLimit

\* The session table under concurrent creations: it never holds more than
\* MaxSessions; a session leaves it only after its last second, though gcLocked
\* runs with a time read earlier; and a session is refused for lack of room
\* only if the table is full of sessions that had not expired when the request
\* came: expired ones do not occupy it.
TableKept ==
    [][ /\ Cardinality(table') <= MaxSessions
        /\ \A s \in table \ table' : clock > sess[s].exp
        /\ \A h \in Handler :
            pc[h] = "creating" /\ pc'[h] = "idle" /\ sess' = sess
            => Cardinality({s \in table : req[h].now <= sess[s].exp}) >= MaxSessions ]_vars
=============================================================================
