------------------------------ MODULE ImageHost ------------------------------
(***************************************************************************)
(* examples/mailproof/imagehost: an image host that takes uploads under    *)
(* private-identity presentations.  It hands out nonces, and an upload     *)
(* spends one: the nonce is consumed first, the presentation is verified   *)
(* outside the lock, the image is stored under it.                         *)
(***************************************************************************)
EXTENDS Naturals, FiniteSets

CONSTANTS
    Handler,      \* requests handled at once
    Nonce,        \* presentation nonces
    Pseudonym,    \* origin-bound pseudonyms of the tokens in use
    Image,        \* images, by the hash that names them
    Nobody,       \* no such image
    Unused,       \* no such nonce
    MaxNonces,    \* outstanding nonces (maxOutstandingNonces)
    MaxImages,    \* images of one pseudonym (maxImagesPerPseudo)
    ChallengeTTL,
    MaxTime       \* bound on the clock

ASSUME ImageHostAssumption ==
    /\ {MaxNonces, MaxImages, ChallengeTTL, MaxTime} \subseteq Nat
    /\ Nobody \notin Pseudonym /\ Unused \notin Nat

VARIABLES
    clock,
    drawn,      \* nonces ever drawn: rand.Read gives a new one
    nonces,     \* expiry of the outstanding nonces
    images,     \* the pseudonym each image is stored under
    perPseud,   \* images counted for each pseudonym
    pc, req,
    uploads     \* ghost: uploads accepted for each nonce

hostVars == <<drawn, nonces, images, perPseud>>
vars == <<clock, hostVars, pc, req, uploads>>

Time == 0..MaxTime
\* An upload, and whether its presentation verifies; the signature covers
\* the nonce and the origin.
Upload == [nonce : Nonce, pseudonym : Pseudonym, image : Image, ok : BOOLEAN, now : Time]
Challenge == [now : Time]
NoReq == [now |-> 0]

TypeOK ==
    /\ clock \in Time
    /\ drawn \subseteq Nonce
    /\ nonces \in [Nonce -> Nat \cup {Unused}]
    /\ images \in [Image -> Pseudonym \cup {Nobody}]
    /\ perPseud \in [Pseudonym -> 0..MaxImages]
    /\ pc \in [Handler -> {"idle", "challenge", "upload", "verified"}]
    /\ req \in [Handler -> Upload \cup Challenge]
    /\ uploads \in [Nonce -> Nat]

Init ==
    /\ clock = 0
    /\ drawn = {}
    /\ nonces = [n \in Nonce |-> Unused]
    /\ images = [i \in Image |-> Nobody]
    /\ perPseud = [p \in Pseudonym |-> 0]
    /\ pc = [h \in Handler |-> "idle"]
    /\ req = [h \in Handler |-> NoReq]
    /\ uploads = [n \in Nonce |-> 0]

Step(h, p, q) == pc' = [pc EXCEPT ![h] = p] /\ req' = [req EXCEPT ![h] = q]
Finish(h) == Step(h, "idle", NoReq)

Outstanding == {n \in Nonce : nonces[n] # Unused}

-----------------------------------------------------------------------------
\* Both handlers read the clock, then wait for the lock.
Arrive(h) ==
    /\ pc[h] = "idle"
    /\ \/ Step(h, "challenge", [now |-> clock])
       \/ \E q \in Upload : q.now = clock /\ Step(h, "upload", q)
    /\ UNCHANGED <<clock, hostVars, uploads>>

\* Purge: the nonces that have not expired.
Purged(now) == {n \in Outstanding : now <= nonces[n]}

\* Mutant: one nonce too many.
HasRoomForOneMore(now) == Cardinality(Purged(now)) <= MaxNonces

HasRoom(now) == Cardinality(Purged(now)) < MaxNonces

\* handleChallenge under the lock; the purge stays when the table is full.
handleChallenge(h) ==
    /\ pc[h] = "challenge"
    /\ LET now == req[h].now IN
        \/ /\ ~HasRoom(now)
           /\ nonces' = [n \in Nonce |-> IF n \in Purged(now) THEN nonces[n] ELSE Unused]
           /\ UNCHANGED drawn
        \/ /\ HasRoom(now)
           /\ \E new \in Nonce \ drawn :
                /\ drawn' = drawn \cup {new}
                /\ nonces' = [n \in Nonce |-> IF n = new THEN now + ChallengeTTL
                                              ELSE IF n \in Purged(now) THEN nonces[n]
                                              ELSE Unused]
    /\ Finish(h)
    /\ UNCHANGED <<clock, images, perPseud, uploads>>

\* Mutant: the nonce is deleted only with the stored image.
ConsumeLater(h) ==
    /\ pc[h] = "upload"
    /\ LET q == req[h] IN
        IF nonces[q.nonce] # Unused /\ q.now <= nonces[q.nonce] /\ q.ok
        THEN Step(h, "verified", q) /\ UNCHANGED nonces
        ELSE Finish(h) /\ nonces' = [nonces EXCEPT ![q.nonce] = Unused]
    /\ UNCHANGED <<clock, drawn, images, perPseud, uploads>>

\* handleUpload, up to the quota: take the nonce out, then check its expiry,
\* the presentation and the image.
Consume(h) ==
    /\ pc[h] = "upload"
    /\ LET q == req[h] IN
        /\ nonces' = [nonces EXCEPT ![q.nonce] = Unused]
        /\ IF nonces[q.nonce] # Unused /\ q.now <= nonces[q.nonce] /\ q.ok
           THEN Step(h, "verified", q)
           ELSE Finish(h)
    /\ UNCHANGED <<clock, drawn, images, perPseud, uploads>>

\* Mutant: a second upload of an image is counted too.
StoreCountsAgain(h) ==
    /\ pc[h] = "verified"
    /\ LET q == req[h] IN
        /\ perPseud[q.pseudonym] < MaxImages
        /\ images' = [images EXCEPT ![q.image] = IF @ = Nobody THEN q.pseudonym ELSE @]
        /\ perPseud' = [perPseud EXCEPT ![q.pseudonym] = @ + 1]
        /\ uploads' = [uploads EXCEPT ![q.nonce] = @ + 1]
    /\ Finish(h)
    /\ UNCHANGED <<clock, drawn, nonces>>

\* Under the lock again: the quota, then the image unless it is there.
Store(h) ==
    /\ pc[h] = "verified"
    /\ LET q == req[h] IN
        /\ perPseud[q.pseudonym] < MaxImages
        /\ IF images[q.image] = Nobody
           THEN /\ images' = [images EXCEPT ![q.image] = q.pseudonym]
                /\ perPseud' = [perPseud EXCEPT ![q.pseudonym] = @ + 1]
           ELSE UNCHANGED <<images, perPseud>>
        /\ uploads' = [uploads EXCEPT ![q.nonce] = @ + 1]
    /\ Finish(h)
    /\ UNCHANGED <<clock, drawn, nonces>>

\* 429: the pseudonym has its images; the nonce is gone too.
QuotaReached(h) ==
    /\ pc[h] = "verified"
    /\ perPseud[req[h].pseudonym] >= MaxImages
    /\ Finish(h)
    /\ UNCHANGED <<clock, hostVars, uploads>>

Tick ==
    /\ clock < MaxTime
    /\ clock' = clock + 1
    /\ UNCHANGED <<hostVars, pc, req, uploads>>

Next ==
    \/ \E h \in Handler :
        Arrive(h) \/ handleChallenge(h) \/ Consume(h) \/ Store(h) \/ QuotaReached(h)
    \/ Tick

Spec == Init /\ [][Next]_vars

-----------------------------------------------------------------------------
\* "Nonces are what make a stolen presentation worthless: each one authorizes
\* exactly one upload" (handleChallenge): no nonce is good for two, however
\* the uploads that name it race.
OneUploadPerNonce == \A n \in Nonce : uploads[n] <= 1

\* The count of a pseudonym is the number of images stored under it, and
\* within the quota, although the nonce and the image are handled under two
\* holds of the lock and equal images meet.
QuotaCounts ==
    \A p \in Pseudonym :
        /\ perPseud[p] = Cardinality({i \in Image : images[i] = p})
        /\ perPseud[p] <= MaxImages

\* At most MaxNonces nonces are outstanding.
NoncesBounded == Cardinality(Outstanding) <= MaxNonces
=============================================================================
