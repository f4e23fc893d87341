------------------------- MODULE ChallengeStoreProofs -------------------------
(***************************************************************************)
(* What Create, Verify and the loss of the store keep true of mailbox      *)
(* challenges, for every number of addresses, bindings, codes and          *)
(* attempts.  The specifications that use the store cite these lemmas.     *)
(***************************************************************************)
EXTENDS ChallengeStore, TLAPS

\* A challenge that was not created yet has no history.
Fresh == \A i \in Id : i > made => compared[i] = 0 /\ accepted[i] = 0

\* A pending challenge was created, was not redeemed, and was compared with
\* exactly the wrong codes it counts, fewer than the limit.
PendingUnused ==
    \A a \in Address : pending[a] # NoChallenge =>
        /\ pending[a].id <= made
        /\ accepted[pending[a].id] = 0
        /\ compared[pending[a].id] = pending[a].attempts
        /\ pending[a].attempts < MaxCodeAttempts

\* No challenge is pending for two addresses.
PendingApart ==
    \A a, b \in Address :
        pending[a] # NoChallenge /\ pending[b] # NoChallenge /\ pending[a].id = pending[b].id
        => a = b

StoreInv ==
    /\ StoreTypeOK
    /\ Fresh
    /\ PendingUnused
    /\ PendingApart
    /\ CodeUsedOnce
    /\ GuessesBounded

\* A new store satisfies the invariant.
LEMMA StoreInitInv == StoreInit => StoreInv
  BY ChallengeAssumption
  DEF StoreInit, StoreInv, StoreTypeOK, Fresh, PendingUnused, PendingApart,
      CodeUsedOnce, GuessesBounded, Id

\* Create keeps it: the new challenge has a new id and no history, and the
\* purge only removes entries.
LEMMA CreateKeepsInv ==
  ASSUME NEW a \in Address, NEW b \in Binding, NEW c \in Code, NEW now \in Nat,
         StoreInv, Create(a, b, c, now)
  PROVE  StoreInv'
<1> DEFINE new == [id |-> made + 1, code |-> c, binding |-> b, exp |-> now + TTL, attempts |-> 0]
<1>1. new \in Challenge /\ made + 1 \in Id
  BY ChallengeAssumption DEF Create, StoreInv, StoreTypeOK, Challenge, Id
<1>2. /\ pending' \in [Address -> Challenge \cup {NoChallenge}]
      /\ pending'[a] = new
      /\ \A x \in Address \ {a} : pending'[x] = pending[x] \/ pending'[x] = NoChallenge
  BY <1>1 DEF Create, StoreInv, StoreTypeOK
<1>3. made' = made + 1 /\ compared' = compared /\ accepted' = accepted
  BY DEF Create
<1> HIDE DEF new
<1>4. new # NoChallenge /\ new.id = made + 1 /\ new.attempts = 0
  BY <1>1, NoChallengeAssumption DEF new
<1>5. StoreTypeOK'
  BY <1>1, <1>2, <1>3 DEF StoreInv, StoreTypeOK, Id
<1>6. Fresh'
  BY <1>3 DEF StoreInv, StoreTypeOK, Fresh, Id
<1>7. PendingUnused'
  <2> SUFFICES ASSUME NEW x \in Address, pending'[x] # NoChallenge
               PROVE  /\ pending'[x].id <= made'
                      /\ accepted'[pending'[x].id] = 0
                      /\ compared'[pending'[x].id] = pending'[x].attempts
                      /\ pending'[x].attempts < MaxCodeAttempts
    BY DEF PendingUnused
  <2>1. CASE x = a
    BY <2>1, <1>1, <1>2, <1>3, <1>4, ChallengeAssumption DEF StoreInv, StoreTypeOK, Fresh
  <2>2. CASE x # a
    <3>1. pending'[x] = pending[x] /\ pending[x] \in Challenge
      BY <2>2, <1>2 DEF StoreInv, StoreTypeOK
    <3>2. pending[x].id \in Nat
      BY <3>1 DEF Challenge, Id
    <3> QED BY <3>1, <3>2, <1>3 DEF StoreInv, StoreTypeOK, PendingUnused
  <2> QED BY <2>1, <2>2
<1>8. PendingApart'
  <2>1. \A x \in Address \ {a} : pending'[x] # NoChallenge => pending'[x].id <= made /\ pending'[x].id \in Nat
    BY <1>2 DEF StoreInv, StoreTypeOK, PendingUnused, Challenge, Id
  <2>2. made \in Nat
    BY DEF StoreInv, StoreTypeOK
  <2> QED BY <2>1, <2>2, <1>2, <1>4 DEF StoreInv, PendingApart
<1>9. CodeUsedOnce' /\ GuessesBounded'
  BY <1>3 DEF StoreInv, CodeUsedOnce, GuessesBounded
<1> QED BY <1>5, <1>6, <1>7, <1>8, <1>9 DEF StoreInv

\* Verify keeps it: a comparison is counted with the attempt it costs, and
\* what is redeemed or used up is no longer pending.
LEMMA VerifyKeepsInv ==
  ASSUME NEW a \in Address, NEW c \in Code, NEW b \in Binding, NEW now \in Nat,
         StoreInv, Verify(a, Verdict(a, c, b, now))
  PROVE  StoreInv'
<1> DEFINE v == Verdict(a, c, b, now)
           i == pending[a].id
<1>0. v \in {"none", "expired", "mismatch", "wrong", "ok"}
  BY DEF Verdict
<1>1. v \in {"wrong", "ok"} => pending[a] # NoChallenge
  BY DEF Verdict
<1>2. pending[a] # NoChallenge =>
        /\ pending[a] \in Challenge
        /\ i \in Id /\ i \in Nat /\ i <= made
        /\ accepted[i] = 0
        /\ compared[i] = pending[a].attempts
        /\ pending[a].attempts \in Nat
        /\ pending[a].attempts + 1 <= MaxCodeAttempts
  BY ChallengeAssumption DEF StoreInv, StoreTypeOK, PendingUnused, Challenge, Id
<1>3. Verify(a, v) /\ made' = made
  BY DEF Verify
<1> HIDE DEF v
<1>4. CASE v \in {"none", "mismatch"}
  <2>1. UNCHANGED storeVars
    BY <1>3, <1>4 DEF Verify, storeVars
  <2> QED BY <2>1 DEF storeVars, StoreInv, StoreTypeOK, Fresh, PendingUnused, PendingApart,
                      CodeUsedOnce, GuessesBounded
<1>5. CASE v = "expired"
  <2>1. /\ pending' = [pending EXCEPT ![a] = NoChallenge]
        /\ compared' = compared /\ accepted' = accepted
    BY <1>3, <1>5 DEF Verify
  <2> QED BY <2>1, <1>3 DEF StoreInv, StoreTypeOK, Fresh, PendingUnused, PendingApart,
                            CodeUsedOnce, GuessesBounded
<1>6. CASE v \in {"wrong", "ok"}
  <2>1. compared' = [compared EXCEPT ![i] = @ + 1]
    BY <1>3, <1>6 DEF Verify
  <2>2. \/ accepted' = accepted
        \/ v = "ok" /\ accepted' = [accepted EXCEPT ![i] = @ + 1]
    BY <1>3 DEF Verify
  <2>3. \/ pending' = [pending EXCEPT ![a] = NoChallenge]
        \/ /\ pending' = [pending EXCEPT ![a].attempts = @ + 1]
           /\ pending[a].attempts + 1 < MaxCodeAttempts
           /\ v = "wrong"
    <3>1. CASE v = "ok"
      BY <3>1, <1>3 DEF Verify
    <3>2. CASE v = "wrong" /\ SpentAllAttempts(a)
      BY <3>2, <1>3 DEF Verify
    <3>3. CASE v = "wrong" /\ ~SpentAllAttempts(a)
      <4>1. pending' = [pending EXCEPT ![a].attempts = @ + 1]
        BY <3>3, <1>3 DEF Verify
      <4>2. pending[a].attempts + 1 < MaxCodeAttempts
        BY <3>3, <1>1, <1>2, ChallengeAssumption DEF SpentAllAttempts
      <4> QED BY <4>1, <4>2, <3>3
    <3> QED BY <1>6, <3>1, <3>2, <3>3
  <2>4. v = "wrong" => accepted' = accepted
    BY <1>3 DEF Verify
  <2>5. /\ pending[a] # NoChallenge /\ pending[a] \in Challenge
        /\ i \in Id /\ i \in Nat /\ i <= made
        /\ compared[i] \in Nat /\ accepted[i] = 0
        /\ compared[i] + 1 <= MaxCodeAttempts
    BY <1>1, <1>2, <1>6
  <2>6. compared'[i] = compared[i] + 1 /\ accepted'[i] <= 1 /\ accepted'[i] \in Nat
    BY <2>1, <2>2, <2>5 DEF StoreInv, StoreTypeOK
  <2>7. \A j \in Id \ {i} : compared'[j] = compared[j] /\ accepted'[j] = accepted[j]
    BY <2>1, <2>2 DEF StoreInv, StoreTypeOK
  <2>8. \A x \in Address \ {a} :
          pending'[x] = pending[x] /\ (pending[x] # NoChallenge => pending[x].id # i)
    BY <2>3, <2>5 DEF StoreInv, StoreTypeOK, PendingApart
  <2>9. \/ pending'[a] = NoChallenge
        \/ /\ pending'[a] \in Challenge
           /\ pending'[a].id = i
           /\ pending'[a].attempts = pending[a].attempts + 1
           /\ pending'[a].attempts < MaxCodeAttempts
           /\ accepted' = accepted
    <3>1. CASE pending' = [pending EXCEPT ![a] = NoChallenge]
      BY <3>1 DEF StoreInv, StoreTypeOK
    <3>2. CASE /\ pending' = [pending EXCEPT ![a].attempts = @ + 1]
               /\ pending[a].attempts + 1 < MaxCodeAttempts
               /\ v = "wrong"
      <4>1. pending'[a] = [pending[a] EXCEPT !.attempts = @ + 1]
        BY <3>2 DEF StoreInv, StoreTypeOK
      <4> QED BY <4>1, <3>2, <2>4, <2>5 DEF Challenge
    <3> QED BY <2>3, <3>1, <3>2
  <2>10. StoreTypeOK'
    <3>1. pending' \in [Address -> Challenge \cup {NoChallenge}]
      <4>1. DOMAIN pending' = Address /\ pending' = [x \in Address |-> pending'[x]]
        BY <2>3 DEF StoreInv, StoreTypeOK
      <4>2. \A x \in Address : pending'[x] \in Challenge \cup {NoChallenge}
        BY <2>8, <2>9 DEF StoreInv, StoreTypeOK
      <4> QED BY <4>1, <4>2
    <3>2. compared' \in [Id -> Nat] /\ accepted' \in [Id -> Nat]
      BY <2>1, <2>2, <2>5 DEF StoreInv, StoreTypeOK
    <3> QED BY <3>1, <3>2, <1>3 DEF StoreInv, StoreTypeOK
  <2>11. Fresh'
    <3> SUFFICES ASSUME NEW j \in Id, j > made
                 PROVE  compared'[j] = 0 /\ accepted'[j] = 0
      BY <1>3 DEF Fresh
    <3>1. j # i
      BY <2>5 DEF StoreInv, StoreTypeOK, Id
    <3> QED BY <3>1, <2>7 DEF StoreInv, Fresh
  <2>12. PendingUnused'
    <3> SUFFICES ASSUME NEW x \in Address, pending'[x] # NoChallenge
                 PROVE  /\ pending'[x].id <= made
                        /\ accepted'[pending'[x].id] = 0
                        /\ compared'[pending'[x].id] = pending'[x].attempts
                        /\ pending'[x].attempts < MaxCodeAttempts
      BY <1>3 DEF PendingUnused
    <3>1. CASE x = a
      BY <3>1, <2>9, <2>5, <2>6, <1>2
    <3>2. CASE x # a
      <4>1. pending'[x] = pending[x] /\ pending[x].id \in Id \ {i}
        BY <3>2, <2>8 DEF StoreInv, StoreTypeOK, Challenge
      <4> QED BY <4>1, <2>7 DEF StoreInv, PendingUnused
    <3> QED BY <3>1, <3>2
  <2>13. PendingApart'
    BY <2>8, <2>9 DEF StoreInv, PendingApart
  <2>14. CodeUsedOnce' /\ GuessesBounded'
    BY <2>5, <2>6, <2>7 DEF StoreInv, CodeUsedOnce, GuessesBounded
  <2> QED BY <2>10, <2>11, <2>12, <2>13, <2>14 DEF StoreInv
<1> QED BY <1>0, <1>4, <1>5, <1>6

\* The store dies with its process; the history stays.
LEMMA StoreLostKeepsInv == StoreInv /\ StoreLost => StoreInv'
  BY DEF StoreLost, StoreInv, StoreTypeOK, Fresh, PendingUnused, PendingApart,
         CodeUsedOnce, GuessesBounded

\* Steps of the store's users that do not touch it.
LEMMA StoreStutter == StoreInv /\ UNCHANGED storeVars => StoreInv'
  BY DEF storeVars, StoreInv, StoreTypeOK, Fresh, PendingUnused, PendingApart,
         CodeUsedOnce, GuessesBounded
=============================================================================
