---------------------------- MODULE MailproofProofs ----------------------------
(***************************************************************************)
(* What the mailproof image host promises of its nonces and its quotas,    *)
(* for every number of requests, nonces, pseudonyms and images, and that   *)
(* the demo app keeps its types while it enrols and uploads.  The host     *)
(* takes its lock twice for one upload, so the invariant says what a       *)
(* handler between the two holds still owns: its nonce.                    *)
(***************************************************************************)
EXTENDS MCMailproof, TLAPS, FiniteSetTheorems

StoredUnder(p) == {i \in Image : images[i] = p}

\* What a handler carries at each place.
RequestsTyped ==
    \A h \in Handler :
        /\ pc[h] = "challenge" => req[h] \in Challenge
        /\ pc[h] \in {"upload", "verified"} => req[h] \in Upload

\* A nonce no request drew is not outstanding and authorized nothing.
UndrawnUnused == \A n \in Nonce \ drawn : nonces[n] = Unused /\ uploads[n] = 0

\* An outstanding nonce has authorized nothing and is in nobody's hands.
OutstandingUnspent ==
    \A n \in Nonce : nonces[n] # Unused =>
        /\ uploads[n] = 0
        /\ \A h \in Handler : pc[h] = "verified" => req[h].nonce # n

\* The nonce of an upload between its two critical sections is drawn, has
\* authorized nothing yet, and is in no other hands.
VerifiedOwnsNonce ==
    \A h \in Handler : pc[h] = "verified" =>
        /\ req[h].nonce \in drawn
        /\ uploads[req[h].nonce] = 0
        /\ \A g \in Handler \ {h} : pc[g] = "verified" => req[g].nonce # req[h].nonce

NoncesFinite == IsFiniteSet(Outstanding) /\ NoncesBounded

ImagesCounted ==
    \A p \in Pseudonym :
        IsFiniteSet(StoredUnder(p)) /\ perPseud[p] = Cardinality(StoredUnder(p))

HostInv ==
    /\ TypeOK
    /\ RequestsTyped
    /\ UndrawnUnused
    /\ OutstandingUnspent
    /\ VerifiedOwnsNonce
    /\ OneUploadPerNonce
    /\ NoncesFinite
    /\ ImagesCounted
-----------------------------------------------------------------------------
\* The host starts with no nonces, images or requests.
LEMMA HostInitInv == Init => HostInv
<1> SUFFICES ASSUME Init PROVE HostInv
  OBVIOUS
<1>1. TypeOK
  <2>1. NoReq \in Challenge
    BY ImageHostAssumption DEF NoReq, Challenge, Time
  <2> QED BY <2>1, ImageHostAssumption DEF Init, TypeOK, Time
<1>2. RequestsTyped /\ UndrawnUnused /\ OutstandingUnspent /\ VerifiedOwnsNonce /\ OneUploadPerNonce
  BY DEF Init, RequestsTyped, UndrawnUnused, OutstandingUnspent, VerifiedOwnsNonce,
         OneUploadPerNonce
<1>3. NoncesFinite
  <2>1. Outstanding = {}
    BY DEF Init, Outstanding
  <2> QED BY <2>1, FS_EmptySet, ImageHostAssumption DEF NoncesFinite, NoncesBounded
<1>4. ImagesCounted
  <2>1. \A p \in Pseudonym : StoredUnder(p) = {}
    BY ImageHostAssumption DEF Init, StoredUnder
  <2> QED BY <2>1, FS_EmptySet DEF Init, ImagesCounted
<1> QED BY <1>1, <1>2, <1>3, <1>4 DEF HostInv

\* A step of handler h leaves the others where they are.
LEMMA StepFrame ==
  ASSUME HostInv, NEW h \in Handler, NEW p, NEW q, Step(h, p, q),
         p \in {"idle", "challenge", "upload", "verified"}, q \in Upload \cup Challenge
  PROVE  /\ pc' \in [Handler -> {"idle", "challenge", "upload", "verified"}]
         /\ req' \in [Handler -> Upload \cup Challenge]
         /\ pc'[h] = p /\ req'[h] = q
         /\ \A g \in Handler \ {h} : pc'[g] = pc[g] /\ req'[g] = req[g]
  BY DEF Step, HostInv, TypeOK

\* A handler that has answered is idle.
LEMMA FinishFrame ==
  ASSUME HostInv, NEW h \in Handler, Finish(h)
  PROVE  /\ pc' \in [Handler -> {"idle", "challenge", "upload", "verified"}]
         /\ req' \in [Handler -> Upload \cup Challenge]
         /\ pc'[h] = "idle"
         /\ \A g \in Handler \ {h} : pc'[g] = pc[g] /\ req'[g] = req[g]
<1>1. NoReq \in Upload \cup Challenge
  BY ImageHostAssumption DEF NoReq, Challenge, Time
<1> QED BY <1>1, StepFrame DEF Finish

\* A table that lost nonces only is still within its limit.
LEMMA FewerNonces ==
  ASSUME NoncesFinite, Outstanding' \subseteq Outstanding
  PROVE  NoncesFinite'
<1>1. IsFiniteSet(Outstanding') /\ Cardinality(Outstanding') <= Cardinality(Outstanding)
      /\ Cardinality(Outstanding) \in Nat /\ Cardinality(Outstanding') \in Nat
  BY FS_Subset, FS_CardinalityType DEF NoncesFinite
<1> QED BY <1>1, ImageHostAssumption DEF NoncesFinite, NoncesBounded

\* What the handlers own is not disturbed by a step that spends no nonce.
LEMMA UnspentKeepsClaims ==
  ASSUME HostInv, NEW h \in Handler, uploads' = uploads, drawn \subseteq drawn',
         pc'[h] # "verified",
         \A g \in Handler \ {h} : pc'[g] = pc[g] /\ req'[g] = req[g]
  PROVE  VerifiedOwnsNonce' /\ OneUploadPerNonce'
<1>1. VerifiedOwnsNonce'
  <2> SUFFICES ASSUME NEW g \in Handler, pc'[g] = "verified"
               PROVE  /\ req'[g].nonce \in drawn'
                      /\ uploads'[req'[g].nonce] = 0
                      /\ \A f \in Handler \ {g} :
                            pc'[f] = "verified" => req'[f].nonce # req'[g].nonce
    BY DEF VerifiedOwnsNonce
  <2>1. g # h /\ pc[g] = "verified" /\ req'[g] = req[g]
    OBVIOUS
  <2> QED BY <2>1 DEF HostInv, VerifiedOwnsNonce
<1>2. OneUploadPerNonce'
  BY DEF HostInv, OneUploadPerNonce
<1> QED BY <1>1, <1>2

\* A request arrives.
LEMMA ArriveKeepsHost ==
  ASSUME HostInv, NEW h \in Handler, Arrive(h)
  PROVE  HostInv'
<1>1. UNCHANGED <<clock, drawn, nonces, images, perPseud, uploads>>
  BY DEF Arrive, hostVars
<1>2. PICK p, q : /\ Step(h, p, q)
                  /\ \/ p = "challenge" /\ q \in Challenge
                     \/ p = "upload" /\ q \in Upload
  <2>1. [now |-> clock] \in Challenge
    BY DEF HostInv, TypeOK, Challenge
  <2> QED BY <2>1 DEF Arrive
<1>3. /\ pc' \in [Handler -> {"idle", "challenge", "upload", "verified"}]
      /\ req' \in [Handler -> Upload \cup Challenge]
      /\ pc'[h] = p /\ req'[h] = q
      /\ \A g \in Handler \ {h} : pc'[g] = pc[g] /\ req'[g] = req[g]
  BY <1>2, StepFrame
<1>4. TypeOK'
  BY <1>1, <1>3 DEF HostInv, TypeOK
<1>5. RequestsTyped'
  BY <1>2, <1>3 DEF HostInv, RequestsTyped
<1>6. UndrawnUnused' /\ NoncesFinite' /\ ImagesCounted'
  BY <1>1 DEF HostInv, UndrawnUnused, NoncesFinite, NoncesBounded, Outstanding, ImagesCounted,
              StoredUnder
<1>7. OutstandingUnspent'
  BY <1>1, <1>2, <1>3 DEF HostInv, OutstandingUnspent
<1>8. VerifiedOwnsNonce' /\ OneUploadPerNonce'
  BY <1>1, <1>2, <1>3, UnspentKeepsClaims
<1> QED BY <1>4, <1>5, <1>6, <1>7, <1>8 DEF HostInv

\* handleChallenge: the purge only shrinks the table, and a new nonce is one
\* that nothing was ever done with.
LEMMA ChallengeKeepsHost ==
  ASSUME HostInv, NEW h \in Handler, handleChallenge(h)
  PROVE  HostInv'
<1> DEFINE now == req[h].now
<1>1. Finish(h) /\ UNCHANGED <<clock, images, perPseud, uploads>> /\ pc[h] = "challenge"
  BY DEF handleChallenge
<1>2. now \in Nat
  BY <1>1, ImageHostAssumption DEF HostInv, RequestsTyped, Challenge, Time
<1>3. /\ pc' \in [Handler -> {"idle", "challenge", "upload", "verified"}]
      /\ req' \in [Handler -> Upload \cup Challenge]
      /\ pc'[h] = "idle"
      /\ \A g \in Handler \ {h} : pc'[g] = pc[g] /\ req'[g] = req[g]
  BY <1>1, FinishFrame
<1>4. RequestsTyped'
  BY <1>3 DEF HostInv, RequestsTyped
<1>5. ImagesCounted'
  BY <1>1 DEF HostInv, ImagesCounted, StoredUnder
<1>6. /\ Purged(now) \subseteq Outstanding /\ IsFiniteSet(Purged(now))
      /\ Cardinality(Purged(now)) \in Nat
  <2>1. Purged(now) \subseteq Outstanding
    BY DEF Purged
  <2> QED BY <2>1, FS_Subset, FS_CardinalityType DEF HostInv, NoncesFinite
<1>7. CASE /\ nonces' = [n \in Nonce |-> IF n \in Purged(now) THEN nonces[n] ELSE Unused]
           /\ UNCHANGED drawn
  <2>1. TypeOK'
    BY <1>1, <1>3, <1>7 DEF HostInv, TypeOK
  <2>2. NoncesFinite'
    <3>1. Outstanding' \subseteq Outstanding
      BY <1>7, <1>6 DEF Outstanding
    <3> QED BY <3>1, FewerNonces DEF HostInv
  <2>3. UndrawnUnused' /\ OutstandingUnspent'
    BY <1>1, <1>3, <1>7 DEF HostInv, UndrawnUnused, OutstandingUnspent
  <2>4. VerifiedOwnsNonce' /\ OneUploadPerNonce'
    BY <1>1, <1>3, <1>7, UnspentKeepsClaims
  <2> QED BY <1>4, <1>5, <2>1, <2>2, <2>3, <2>4 DEF HostInv
<1>8. ASSUME NEW new \in Nonce \ drawn, HasRoom(now),
             drawn' = drawn \cup {new},
             nonces' = [n \in Nonce |-> IF n = new THEN now + ChallengeTTL
                                        ELSE IF n \in Purged(now) THEN nonces[n] ELSE Unused]
      PROVE  HostInv'
  <2>0. now + ChallengeTTL \in Nat
    BY <1>2, ImageHostAssumption
  <2> HIDE DEF now
  <2>1. TypeOK'
    BY <1>1, <1>3, <1>8, <2>0 DEF HostInv, TypeOK
  <2>2. NoncesFinite'
    <3>1. Outstanding' = Purged(now) \cup {new} /\ new \notin Purged(now)
      BY <1>8, <1>6, <2>0, ImageHostAssumption DEF HostInv, UndrawnUnused, Outstanding
    <3>2. IsFiniteSet(Outstanding') /\ Cardinality(Outstanding') = Cardinality(Purged(now)) + 1
      BY <3>1, <1>6, FS_AddElement
    <3> QED BY <3>2, <1>6, <1>8, ImageHostAssumption
            DEF HasRoom, NoncesFinite, NoncesBounded
  <2>3. UndrawnUnused'
    <3>1. \A n \in Nonce \ drawn : n \notin Purged(now)
      BY <1>6 DEF HostInv, UndrawnUnused, Outstanding
    <3> QED BY <3>1, <1>1, <1>8 DEF HostInv, UndrawnUnused
  <2>4. OutstandingUnspent'
    <3> SUFFICES ASSUME NEW n \in Nonce, nonces'[n] # Unused
                 PROVE  /\ uploads'[n] = 0
                        /\ \A g \in Handler : pc'[g] = "verified" => req'[g].nonce # n
      BY DEF OutstandingUnspent
    <3>1. CASE n = new
      BY <3>1, <1>1, <1>3, <1>8 DEF HostInv, UndrawnUnused, VerifiedOwnsNonce
    <3>2. CASE n # new
      <4>1. nonces[n] # Unused
        BY <3>2, <1>8
      <4> QED BY <4>1, <1>1, <1>3 DEF HostInv, OutstandingUnspent
    <3> QED BY <3>1, <3>2
  <2>5. VerifiedOwnsNonce' /\ OneUploadPerNonce'
    BY <1>1, <1>3, <1>8, UnspentKeepsClaims
  <2> QED BY <1>4, <1>5, <2>1, <2>2, <2>3, <2>4, <2>5 DEF HostInv
<1> QED BY <1>7, <1>8 DEF handleChallenge

\* Consume: the nonce moves from the table into the handler's hands, or is
\* thrown away.
LEMMA ConsumeKeepsHost ==
  ASSUME HostInv, NEW h \in Handler, Consume(h)
  PROVE  HostInv'
<1> DEFINE q == req[h]
<1>1. /\ UNCHANGED <<clock, drawn, images, perPseud, uploads>> /\ pc[h] = "upload"
      /\ nonces' = [nonces EXCEPT ![q.nonce] = Unused]
  BY DEF Consume
<1>2. q \in Upload /\ q.nonce \in Nonce
  BY <1>1 DEF HostInv, RequestsTyped, Upload
<1>3. \/ Finish(h)
      \/ nonces[q.nonce] # Unused /\ Step(h, "verified", q)
  BY DEF Consume
<1>4. /\ pc' \in [Handler -> {"idle", "challenge", "upload", "verified"}]
      /\ req' \in [Handler -> Upload \cup Challenge]
      /\ \A g \in Handler \ {h} : pc'[g] = pc[g] /\ req'[g] = req[g]
      /\ \/ pc'[h] = "idle"
         \/ pc'[h] = "verified" /\ req'[h] = q /\ nonces[q.nonce] # Unused
  BY <1>2, <1>3, StepFrame, FinishFrame
<1> HIDE DEF q
<1>5. /\ nonces'[q.nonce] = Unused
      /\ \A n \in Nonce \ {q.nonce} : nonces'[n] = nonces[n]
  BY <1>1, <1>2 DEF HostInv, TypeOK
<1>6. TypeOK'
  BY <1>1, <1>2, <1>4 DEF HostInv, TypeOK
<1>7. RequestsTyped'
  BY <1>2, <1>4 DEF HostInv, RequestsTyped
<1>8. UndrawnUnused' /\ ImagesCounted'
  BY <1>1, <1>5 DEF HostInv, UndrawnUnused, ImagesCounted, StoredUnder
<1>9. NoncesFinite'
  <2>1. Outstanding' \subseteq Outstanding
    BY <1>5 DEF Outstanding
  <2> QED BY <2>1, FewerNonces DEF HostInv
<1>10. OutstandingUnspent'
  BY <1>1, <1>4, <1>5 DEF HostInv, OutstandingUnspent
<1>11. VerifiedOwnsNonce' /\ OneUploadPerNonce'
  <2>1. CASE pc'[h] = "idle"
    BY <2>1, <1>1, <1>4, UnspentKeepsClaims
  <2>2. CASE pc'[h] = "verified" /\ req'[h] = q /\ nonces[q.nonce] # Unused
    <3>1. /\ q.nonce \in drawn /\ uploads[q.nonce] = 0
          /\ \A g \in Handler : pc[g] = "verified" => req[g].nonce # q.nonce
      BY <2>2, <1>2 DEF HostInv, UndrawnUnused, OutstandingUnspent
    <3>2. VerifiedOwnsNonce'
      BY <2>2, <3>1, <1>1, <1>4 DEF HostInv, VerifiedOwnsNonce
    <3> QED BY <3>2, <1>1 DEF HostInv, OneUploadPerNonce
  <2> QED BY <1>4, <2>1, <2>2
<1> QED BY <1>6, <1>7, <1>8, <1>9, <1>10, <1>11 DEF HostInv

\* Store: the nonce in hand becomes the upload it authorizes, and a new image
\* is counted once.
LEMMA StoreKeepsHost ==
  ASSUME HostInv, NEW h \in Handler, Store(h)
  PROVE  HostInv'
<1> DEFINE q == req[h]
<1>1. /\ UNCHANGED <<clock, drawn, nonces>> /\ pc[h] = "verified" /\ Finish(h)
      /\ perPseud[q.pseudonym] < MaxImages
      /\ uploads' = [uploads EXCEPT ![q.nonce] = @ + 1]
      /\ \/ images' = images /\ perPseud' = perPseud
         \/ /\ images[q.image] = Nobody
            /\ images' = [images EXCEPT ![q.image] = q.pseudonym]
            /\ perPseud' = [perPseud EXCEPT ![q.pseudonym] = @ + 1]
  BY DEF Store
<1>2. q \in Upload /\ q.nonce \in Nonce /\ q.image \in Image /\ q.pseudonym \in Pseudonym
  BY <1>1 DEF HostInv, RequestsTyped, Upload
<1>3. /\ pc' \in [Handler -> {"idle", "challenge", "upload", "verified"}]
      /\ req' \in [Handler -> Upload \cup Challenge]
      /\ pc'[h] = "idle"
      /\ \A g \in Handler \ {h} : pc'[g] = pc[g] /\ req'[g] = req[g]
  BY <1>1, FinishFrame
<1>4. /\ q.nonce \in drawn /\ uploads[q.nonce] = 0 /\ nonces[q.nonce] = Unused
      /\ \A g \in Handler \ {h} : pc[g] = "verified" => req[g].nonce # q.nonce
  BY <1>1, <1>2 DEF HostInv, VerifiedOwnsNonce, OutstandingUnspent
<1> HIDE DEF q
<1>5. /\ uploads' \in [Nonce -> Nat] /\ uploads'[q.nonce] = 1
      /\ \A n \in Nonce \ {q.nonce} : uploads'[n] = uploads[n]
  BY <1>1, <1>2, <1>4 DEF HostInv, TypeOK
<1>6. TypeOK'
  <2>1. images' \in [Image -> Pseudonym \cup {Nobody}]
    BY <1>1, <1>2 DEF HostInv, TypeOK
  <2>2. perPseud' \in [Pseudonym -> 0..MaxImages]
    BY <1>1, <1>2, ImageHostAssumption DEF HostInv, TypeOK
  <2> QED BY <2>1, <2>2, <1>1, <1>3, <1>5 DEF HostInv, TypeOK
<1>7. RequestsTyped'
  BY <1>3 DEF HostInv, RequestsTyped
<1>8. UndrawnUnused'
  BY <1>1, <1>4, <1>5 DEF HostInv, UndrawnUnused
<1>9. OutstandingUnspent'
  BY <1>1, <1>3, <1>4, <1>5 DEF HostInv, OutstandingUnspent
<1>10. VerifiedOwnsNonce'
  <2> SUFFICES ASSUME NEW g \in Handler, pc'[g] = "verified"
               PROVE  /\ req'[g].nonce \in drawn'
                      /\ uploads'[req'[g].nonce] = 0
                      /\ \A f \in Handler \ {g} :
                            pc'[f] = "verified" => req'[f].nonce # req'[g].nonce
    BY DEF VerifiedOwnsNonce
  <2>1. g # h /\ pc[g] = "verified" /\ req'[g] = req[g] /\ req[g].nonce # q.nonce
    BY <1>3, <1>4
  <2>2. req[g].nonce \in Nonce
    BY <2>1 DEF HostInv, RequestsTyped, Upload
  <2> QED BY <2>1, <2>2, <1>1, <1>3, <1>5 DEF HostInv, VerifiedOwnsNonce
<1>11. OneUploadPerNonce'
  BY <1>5 DEF HostInv, OneUploadPerNonce
<1>12. NoncesFinite'
  BY <1>1 DEF HostInv, NoncesFinite, NoncesBounded, Outstanding
<1>13. ImagesCounted'
  <2>1. CASE images' = images /\ perPseud' = perPseud
    BY <2>1 DEF HostInv, ImagesCounted, StoredUnder
  <2>2. CASE /\ images[q.image] = Nobody
             /\ images' = [images EXCEPT ![q.image] = q.pseudonym]
             /\ perPseud' = [perPseud EXCEPT ![q.pseudonym] = @ + 1]
    <3> SUFFICES ASSUME NEW p \in Pseudonym
                 PROVE  IsFiniteSet(StoredUnder(p)') /\ perPseud'[p] = Cardinality(StoredUnder(p)')
      BY DEF ImagesCounted
    <3>0. IsFiniteSet(StoredUnder(p)) /\ perPseud[p] = Cardinality(StoredUnder(p))
      BY DEF HostInv, ImagesCounted
    <3>1. CASE p = q.pseudonym
      <4>1. StoredUnder(p)' = StoredUnder(p) \cup {q.image} /\ q.image \notin StoredUnder(p)
        BY <2>2, <3>1, <1>2, ImageHostAssumption DEF StoredUnder, HostInv, TypeOK
      <4>2. /\ IsFiniteSet(StoredUnder(p) \cup {q.image})
            /\ Cardinality(StoredUnder(p) \cup {q.image}) = Cardinality(StoredUnder(p)) + 1
        BY <4>1, <3>0, FS_AddElement
      <4>3. perPseud'[p] = perPseud[p] + 1
        BY <2>2, <3>1 DEF HostInv, TypeOK
      <4> QED BY <3>0, <4>1, <4>2, <4>3
    <3>2. CASE p # q.pseudonym
      <4>1. StoredUnder(p)' = StoredUnder(p)
        BY <2>2, <3>2, <1>2, ImageHostAssumption DEF StoredUnder, HostInv, TypeOK
      <4>2. perPseud'[p] = perPseud[p]
        BY <2>2, <3>2 DEF HostInv, TypeOK
      <4> QED BY <3>0, <4>1, <4>2
    <3> QED BY <3>1, <3>2
  <2> QED BY <1>1, <2>1, <2>2
<1> QED BY <1>6, <1>7, <1>8, <1>9, <1>10, <1>11, <1>12, <1>13 DEF HostInv

\* QuotaReached: the nonce in hand is lost.
LEMMA RefuseKeepsHost ==
  ASSUME HostInv, NEW h \in Handler, QuotaReached(h)
  PROVE  HostInv'
<1>1. Finish(h) /\ UNCHANGED <<clock, drawn, nonces, images, perPseud, uploads>>
  BY DEF QuotaReached, hostVars
<1>2. /\ pc' \in [Handler -> {"idle", "challenge", "upload", "verified"}]
      /\ req' \in [Handler -> Upload \cup Challenge]
      /\ pc'[h] = "idle"
      /\ \A g \in Handler \ {h} : pc'[g] = pc[g] /\ req'[g] = req[g]
  BY <1>1, FinishFrame
<1>3. TypeOK' /\ RequestsTyped'
  BY <1>1, <1>2 DEF HostInv, TypeOK, RequestsTyped
<1>4. UndrawnUnused' /\ NoncesFinite' /\ ImagesCounted'
  BY <1>1 DEF HostInv, UndrawnUnused, NoncesFinite, NoncesBounded, Outstanding, ImagesCounted,
              StoredUnder
<1>5. OutstandingUnspent'
  BY <1>1, <1>2 DEF HostInv, OutstandingUnspent
<1>6. VerifiedOwnsNonce' /\ OneUploadPerNonce'
  BY <1>1, <1>2, UnspentKeepsClaims
<1> QED BY <1>3, <1>4, <1>5, <1>6 DEF HostInv

\* Time passing, and stuttering.
LEMMA IdleKeepsHost ==
  ASSUME HostInv, clock' \in Time, UNCHANGED <<hostVars, pc, req, uploads>>
  PROVE  HostInv'
<1>1. UNCHANGED <<drawn, nonces, images, perPseud, pc, req, uploads>>
  BY DEF hostVars
<1>2. TypeOK' /\ RequestsTyped'
  BY <1>1 DEF HostInv, TypeOK, RequestsTyped
<1>3. UndrawnUnused' /\ NoncesFinite' /\ ImagesCounted'
  BY <1>1 DEF HostInv, UndrawnUnused, NoncesFinite, NoncesBounded, Outstanding, ImagesCounted,
              StoredUnder
<1>4. OutstandingUnspent' /\ VerifiedOwnsNonce' /\ OneUploadPerNonce'
  BY <1>1 DEF HostInv, OutstandingUnspent, VerifiedOwnsNonce, OneUploadPerNonce
<1> QED BY <1>2, <1>3, <1>4 DEF HostInv

\* One step per action.
LEMMA HostNextInv == HostInv /\ [Next]_vars => HostInv'
<1> SUFFICES ASSUME HostInv, [Next]_vars PROVE HostInv'
  OBVIOUS
<1>1. ASSUME NEW h \in Handler, Arrive(h) PROVE HostInv'
  BY <1>1, ArriveKeepsHost
<1>2. ASSUME NEW h \in Handler, handleChallenge(h) PROVE HostInv'
  BY <1>2, ChallengeKeepsHost
<1>3. ASSUME NEW h \in Handler, Consume(h) PROVE HostInv'
  BY <1>3, ConsumeKeepsHost
<1>4. ASSUME NEW h \in Handler, Store(h) PROVE HostInv'
  BY <1>4, StoreKeepsHost
<1>5. ASSUME NEW h \in Handler, QuotaReached(h) PROVE HostInv'
  BY <1>5, RefuseKeepsHost
<1>6. CASE Tick
  <2>1. clock' \in Time
    BY <1>6, ImageHostAssumption DEF Tick, HostInv, TypeOK, Time
  <2> QED BY <1>6, <2>1, IdleKeepsHost DEF Tick
<1>7. CASE UNCHANGED vars
  BY <1>7, IdleKeepsHost DEF vars, HostInv, TypeOK
<1> QED BY <1>1, <1>2, <1>3, <1>4, <1>5, <1>6, <1>7 DEF Next

\* The host's invariant holds throughout.
LEMMA HostAlwaysInv == Spec => []HostInv
  BY HostInitInv, HostNextInv, PTL DEF Spec
-----------------------------------------------------------------------------
(* The enrolment overlay keeps its types.                                  *)

Screens == {Choose, CodeEmailEntry, Failed, Minting}
            \cup UNION {{AwaitingEmail(s), CodeEntry(s)} : s \in SessionId}
Stopped == {Idle} \cup [at : Starting, live : BOOLEAN]
Engaged == [at : Working, live : BOOLEAN, session : SessionId]

\* A flow at work on a session has one.
LEMMA EngagedFlow ==
  ASSUME EnrollTypeOK, NEW f \in Flow, flow[f].at \in Working
  PROVE  flow[f] \in Engaged /\ flow[f].session \in SessionId /\ flow[f].live \in BOOLEAN
<1>1. flow[f] \in Stopped \cup Engaged
  BY DEF EnrollTypeOK, Stopped, Engaged
<1>2. flow[f] \notin Stopped
  BY DEF Stopped, Idle, Starting, Working
<1> QED BY <1>1, <1>2 DEF Engaged

\* A flow that goes on, ends or is cancelled keeps screen and flows typed.
LEMMA ProceedTyped ==
  ASSUME EnrollTypeOK, NEW f \in Flow, NEW at \in Stopped \cup Engaged, NEW to \in Screens,
         Proceed(f, at, to)
  PROVE  screen' \in Screens /\ flow' \in [Flow -> Stopped \cup Engaged]
<1>1. flow \in [Flow -> Stopped \cup Engaged] /\ screen \in Screens /\ Idle \in Stopped
  BY DEF EnrollTypeOK, Stopped, Engaged, Screens
<1> QED BY <1>1 DEF Proceed

\* A failed call shows the error.
LEMMA FailTyped ==
  ASSUME EnrollTypeOK, NEW f \in Flow, Fail(f)
  PROVE  screen' \in Screens /\ flow' \in [Flow -> Stopped \cup Engaged]
<1>1. Idle \in Stopped /\ Failed \in Screens
  BY DEF Stopped, Screens
<1> QED BY <1>1, ProceedTyped DEF Fail

\* The types, with the names used here.
LEMMA EnrollTypes ==
  EnrollTypeOK <=>
    /\ overlay \in {"hidden", "shown", "closing"}
    /\ screen \in Screens
    /\ flow \in [Flow -> Stopped \cup Engaged]
    /\ session \in [SessionId -> {"none", "send", "code", "verified"}]
    /\ permits \in 0 .. MaxPermits
    /\ token \in SessionId \cup {NoToken}
  BY DEF EnrollTypeOK, Screens, Stopped, Engaged

\* The same after a step.
LEMMA EnrollTypesNext ==
  ASSUME overlay' \in {"hidden", "shown", "closing"},
         screen' \in Screens,
         flow' \in [Flow -> Stopped \cup Engaged],
         session' \in [SessionId -> {"none", "send", "code", "verified"}],
         permits' \in 0 .. MaxPermits,
         token' \in SessionId \cup {NoToken}
  PROVE  EnrollTypeOK'
  BY DEF EnrollTypeOK, Screens, Stopped, Engaged

\* The app starts with the overlay hidden.
LEMMA EnrollInitTyped == EnrollInit => EnrollTypeOK
  BY EnrollAssumption DEF EnrollInit, EnrollTypeOK

\* startSession: the new session is shown, or nothing is.
LEMMA StartSessionTyped ==
  ASSUME EnrollTypeOK, NEW f \in Flow, NEW at, NEW mode \in {"send", "code"},
         NEW next \in {"poll", "sendCode"}, NEW to \in [SessionId -> Screens],
         StartSession(f, at, mode, next, to)
  PROVE  EnrollTypeOK'
<1>1. UNCHANGED <<overlay, permits, token>>
  BY DEF StartSession
<1>2. session' \in [SessionId -> {"none", "send", "code", "verified"}]
  BY EnrollTypes DEF StartSession
<1>3. screen' \in Screens /\ flow' \in [Flow -> Stopped \cup Engaged]
  <2>1. CASE Fail(f)
    BY <2>1, FailTyped
  <2>2. ASSUME NEW s \in SessionId, Proceed(f, On(next, s), to[s])
        PROVE  screen' \in Screens /\ flow' \in [Flow -> Stopped \cup Engaged]
    <3>1. On(next, s) \in Engaged /\ to[s] \in Screens
      BY DEF On, Engaged, Working
    <3> QED BY <2>2, <3>1, ProceedTyped
  <2> QED BY <2>1, <2>2 DEF StartSession
<1> QED BY <1>1, <1>2, <1>3, EnrollTypes, EnrollTypesNext

\* mint() goes on with the session of its flow.
LEMMA ThenMintTyped ==
  ASSUME EnrollTypeOK, NEW f \in Flow, flow[f].at \in Working, ThenMint(f)
  PROVE  screen' \in Screens /\ flow' \in [Flow -> Stopped \cup Engaged]
<1>1. On("mint", flow[f].session) \in Engaged /\ Minting \in Screens
  BY EngagedFlow DEF On, Engaged, Working, Screens
<1> QED BY <1>1, ProceedTyped DEF ThenMint

\* The coroutines, call by call.
LEMMA FlowStepTyped ==
  ASSUME EnrollTypeOK, NEW f \in Flow, FlowStep(f)
  PROVE  EnrollTypeOK'
<1>1. CASE CreateSend(f)
  <2>1. [s \in SessionId |-> AwaitingEmail(s)] \in [SessionId -> Screens]
    BY DEF Screens
  <2> QED BY <1>1, <2>1, StartSessionTyped DEF CreateSend
<1>2. CASE CreateCode(f)
  <2>1. [s \in SessionId |-> screen] \in [SessionId -> Screens]
    BY EnrollTypes
  <2> QED BY <1>2, <2>1, StartSessionTyped DEF CreateCode
<1>3. CASE SendCode(f)
  <2>1. flow[f].session \in SessionId
    BY <1>3, EngagedFlow DEF SendCode, Working
  <2>2. Idle \in Stopped /\ CodeEntry(flow[f].session) \in Screens
    BY <2>1 DEF Stopped, Screens
  <2>3. screen' \in Screens /\ flow' \in [Flow -> Stopped \cup Engaged]
    BY <1>3, <2>2, ProceedTyped, FailTyped DEF SendCode
  <2> QED BY <1>3, <2>3, EnrollTypes, EnrollTypesNext DEF SendCode, issuerVars
<1>4. CASE AwaitVerified(f)
  <2>1. flow[f].at \in Working
    BY <1>4 DEF AwaitVerified, Working
  <2>2. screen' \in Screens /\ flow' \in [Flow -> Stopped \cup Engaged]
    BY <1>4, <2>1, ThenMintTyped, FailTyped DEF AwaitVerified
  <2> QED BY <1>4, <2>2, EnrollTypes, EnrollTypesNext DEF AwaitVerified, issuerVars
<1>5. CASE VerifyCode(f)
  <2>1. flow[f].at \in Working
    BY <1>5 DEF VerifyCode, Working
  <2>2. screen' \in Screens /\ flow' \in [Flow -> Stopped \cup Engaged]
    BY <1>5, <2>1, ThenMintTyped, FailTyped DEF VerifyCode
  <2>3. session' \in [SessionId -> {"none", "send", "code", "verified"}]
    BY <1>5, EnrollTypes DEF VerifyCode
  <2> QED BY <1>5, <2>2, <2>3, EnrollTypes, EnrollTypesNext DEF VerifyCode
<1>6. CASE Mint(f)
  <2>1. flow[f].session \in SessionId
    BY <1>6, EngagedFlow DEF Mint, Working
  <2>2. Idle \in Stopped /\ screen \in Screens
    BY EnrollTypes DEF Stopped
  <2>3. screen' \in Screens /\ flow' \in [Flow -> Stopped \cup Engaged]
    BY <1>6, <2>2, ProceedTyped, FailTyped DEF Mint
  <2>4. permits' \in 0 .. MaxPermits /\ session' = session
    BY <1>6, EnrollTypes, EnrollAssumption DEF Mint, HasPermit
  <2>5. token' \in SessionId \cup {NoToken} /\ overlay' \in {"hidden", "shown", "closing"}
    BY <1>6, <2>1, EnrollTypes DEF Mint
  <2> QED BY <2>3, <2>4, <2>5, EnrollTypes, EnrollTypesNext
<1> QED BY <1>1, <1>2, <1>3, <1>4, <1>5, <1>6 DEF FlowStep

\* The user's taps.
LEMMA UserTyped ==
  ASSUME EnrollTypeOK, User
  PROVE  EnrollTypeOK'
<1>1. CASE OpenOverlay \/ Dismiss
  BY <1>1, EnrollTypes, EnrollTypesNext DEF OpenOverlay, Dismiss, issuerVars, Screens
<1>2. ASSUME NEW at \in Stopped \cup Engaged, Launch(at)
      PROVE  EnrollTypeOK'
  <2>1. flow' \in [Flow -> Stopped \cup Engaged]
    BY <1>2, EnrollTypes DEF Launch
  <2> QED BY <1>2, <2>1, EnrollTypes, EnrollTypesNext DEF Launch, screenVars, issuerVars
<1>3. CASE TapSend
  <2>1. [at |-> "createSend", live |-> TRUE] \in Stopped
    BY DEF Stopped, Starting
  <2> QED BY <1>2, <1>3, <2>1 DEF TapSend
<1>4. CASE SubmitEmail
  <2>1. [at |-> "createCode", live |-> TRUE] \in Stopped
    BY DEF Stopped, Starting
  <2> QED BY <1>2, <1>4, <2>1 DEF SubmitEmail
<1>5. CASE SubmitCode
  <2>1. screen.at = "codeEntry" /\ screen \in Screens
    BY <1>5, EnrollTypes DEF SubmitCode
  <2>2. screen.session \in SessionId
    BY <2>1 DEF Screens, Choose, CodeEmailEntry, Failed, Minting, AwaitingEmail, CodeEntry
  <2>3. [at |-> "verify", live |-> TRUE, session |-> screen.session] \in Engaged
    BY <2>2 DEF Engaged, Working
  <2> QED BY <1>2, <1>5, <2>3 DEF SubmitCode
<1>6. ASSUME NEW from, NEW to \in Screens, Turn(from, to)
      PROVE  EnrollTypeOK'
  BY <1>6, EnrollTypes, EnrollTypesNext DEF Turn, issuerVars
<1>7. Choose \in Screens /\ CodeEmailEntry \in Screens
  BY DEF Screens
<1> QED BY <1>1, <1>3, <1>4, <1>5, <1>6, <1>7 DEF User

\* Every step of the app.
LEMMA EnrollNextTyped == EnrollTypeOK /\ EnrollNext => EnrollTypeOK'
<1> SUFFICES ASSUME EnrollTypeOK, EnrollNext PROVE EnrollTypeOK'
  OBVIOUS
<1>1. CASE User
  BY <1>1, UserTyped
<1>2. CASE Dispose
  <2>1. \A f \in Flow : flow[f] # Idle => [flow[f] EXCEPT !.live = FALSE] \in Stopped \cup Engaged
    <3> SUFFICES ASSUME NEW f \in Flow, flow[f] # Idle
                 PROVE  [flow[f] EXCEPT !.live = FALSE] \in Stopped \cup Engaged
      OBVIOUS
    <3>1. flow[f] \in [at : Starting, live : BOOLEAN] \/ flow[f] \in Engaged
      BY EnrollTypes DEF Stopped
    <3>2. CASE flow[f] \in [at : Starting, live : BOOLEAN]
      BY <3>2 DEF Stopped
    <3>3. CASE flow[f] \in Engaged
      BY <3>3 DEF Engaged
    <3> QED BY <3>1, <3>2, <3>3
  <2>2. Idle \in Stopped
    BY DEF Stopped
  <2>3. flow' \in [Flow -> Stopped \cup Engaged]
    BY <1>2, <2>1, <2>2 DEF Dispose
  <2> QED BY <1>2, <2>3, EnrollTypes, EnrollTypesNext DEF Dispose, issuerVars
<1>3. CASE MailArrives
  BY <1>3, EnrollTypes, EnrollTypesNext DEF MailArrives, screenVars
<1>4. ASSUME NEW f \in Flow, FlowStep(f) PROVE EnrollTypeOK'
  BY <1>4, FlowStepTyped
<1> QED BY <1>1, <1>2, <1>3, <1>4 DEF EnrollNext
-----------------------------------------------------------------------------
(* The demo.                                                               *)

\* With the app in front of it the host is still the host: what the app does
\* on its own leaves it alone, and its uploads are steps of the host.
THEOREM DemoImplementsHost == DemoSpec => Spec
<1>1. DemoInit => Init
  BY DEF DemoInit
<1>2. [DemoNext]_<<vars, enrollVars>> => [Next]_vars
  BY DEF DemoNext
<1> QED BY <1>1, <1>2, PTL DEF DemoSpec, Spec

\* A nonce authorizes at most one upload, however the uploads that name it
\* race (handleUpload consumes it before it verifies).
THEOREM DemoOneUploadPerNonce == DemoSpec => []OneUploadPerNonce
<1>1. HostInv => OneUploadPerNonce
  BY DEF HostInv
<1> QED BY <1>1, DemoImplementsHost, HostAlwaysInv, PTL

\* The count of a pseudonym is the number of its images, within the quota,
\* for any number of images and concurrent uploads (handleUpload).
THEOREM DemoQuotaCounts == DemoSpec => []QuotaCounts
<1>1. HostInv => QuotaCounts
  <2> SUFFICES ASSUME HostInv, NEW p \in Pseudonym
               PROVE  /\ perPseud[p] = Cardinality({i \in Image : images[i] = p})
                      /\ perPseud[p] <= MaxImages
    BY DEF QuotaCounts
  <2>1. perPseud[p] \in 0..MaxImages
    BY DEF HostInv, TypeOK
  <2>2. perPseud[p] = Cardinality({i \in Image : images[i] = p})
    BY DEF HostInv, ImagesCounted, StoredUnder
  <2> QED BY <2>1, <2>2, ImageHostAssumption
<1> QED BY <1>1, DemoImplementsHost, HostAlwaysInv, PTL

\* App and host keep their types, and at most MaxNonces nonces are outstanding
\* although handlers purge with times they read before the lock.
THEOREM DemoTypeCorrect == DemoSpec => []DemoTypeOK
<1>1. DemoInit => EnrollTypeOK
  BY EnrollInitTyped DEF DemoInit
<1>2. EnrollTypeOK /\ [DemoNext]_<<vars, enrollVars>> => EnrollTypeOK'
  <2> SUFFICES ASSUME EnrollTypeOK, [DemoNext]_<<vars, enrollVars>> PROVE EnrollTypeOK'
    OBVIOUS
  <2>1. CASE EnrollNext
    BY <2>1, EnrollNextTyped
  <2>2. CASE UNCHANGED enrollVars
    BY <2>2 DEF enrollVars, screenVars, issuerVars, EnrollTypeOK
  <2> QED BY <2>1, <2>2 DEF DemoNext
<1>3. HostInv /\ EnrollTypeOK => DemoTypeOK
  BY DEF HostInv, NoncesFinite, DemoTypeOK
<1> QED BY <1>1, <1>2, <1>3, DemoImplementsHost, HostAlwaysInv, PTL DEF DemoSpec
=============================================================================
