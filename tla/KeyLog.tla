-------------------------------- MODULE KeyLog --------------------------------
(***************************************************************************)
(* transparency/transparency.go: the hash-chained key log, its signed      *)
(* heads and the three checks a client makes.  SHA-256 is taken to be free *)
(* of collisions: a hash is the tuple of what is hashed.  A FAEST          *)
(* signature is the name of its key: it verifies under that key alone, and *)
(* only its owner makes one.                                               *)
(***************************************************************************)
EXTENDS Integers, Sequences

\* Append: a record carries its position; key stands for KeyVersion and
\* TokenKeyID.
Append1(records, key, notBefore) ==
    Append(records, [seq |-> Len(records), key |-> key, notBefore |-> notBefore])

leafHash(r) == <<"leaf", r.seq, r.key, r.notBefore>>
genesisHead == <<"genesis">>
step(prev, leaf) == <<"head", prev, leaf>>

\* heads[i] covers the first i records.
chainHeads(records) ==
    LET heads[i \in 0..Len(records)] ==
            IF i = 0 THEN genesisHead ELSE step(heads[i - 1], leafHash(records[i]))
    IN heads

HeadOf(records) == chainHeads(records)[Len(records)]

\* Mutant: the head counts the records.
SignCount(records, logKey) ==
    [seq |-> Len(records), head |-> HeadOf(records), sig |-> logKey]

\* LogSigner.Sign: the index of the last record, and 0 for an empty log too.
Sign(records, logKey) ==
    [seq |-> IF Len(records) > 0 THEN Len(records) - 1 ELSE 0,
     head |-> HeadOf(records), sig |-> logKey]

\* Check 1: the records reproduce the head, and the pinned key signed it.
VerifyLog(logPub, records, sth) ==
    /\ sth.seq + 1 = Len(records)
    /\ HeadOf(records) = sth.head
    /\ sth.sig = logPub

\* Mutant: a client that has no key to look up yet skips the check.
VerifyInclusionSkipped(records, key) == TRUE

\* Check 2: the key in use is in the log.
VerifyInclusion(records, key) == \E i \in DOMAIN records : records[i].key = key

\* Mutant: a longer log is taken for a later one.
VerifyConsistencyByLength(old, records) == old.seq < Len(records)

\* Check 3: the old head reappears after its record of the new log.
VerifyConsistency(old, records) ==
    /\ old.seq < Len(records)
    /\ chainHeads(records)[old.seq + 1] = old.head
=============================================================================
