---------------------------- MODULE KeyLogClient ----------------------------
(***************************************************************************)
(* Clients of a key log that follow it over time with the three checks of  *)
(* package transparency, against operators who may sign any log at all and *)
(* a network that may serve any records with any signed head.  A client    *)
(* pins the log key of its first contact.                                  *)
(***************************************************************************)
EXTENDS KeyLog, FiniteSets, SequencesExt

CONSTANTS
    Client,
    Key,            \* issuer keys, named by their version
    OtherKey,       \* log keys of operators who sign any log
    NoPin,          \* the client has not met a log yet
    MaxRecords,     \* bound on the length of such a log
    MaxSigned       \* bound on the heads they sign

ASSUME KeyLogAssumption ==
    /\ MaxRecords \in Nat
    /\ MaxSigned \in Nat
    /\ NoPin \notin OtherKey

VARIABLES
    signed,   \* ghost: <<log key, log>> of every head signed
    pin,      \* the log key each client pinned
    seen,     \* the last head each client accepted
    view      \* the last records each client accepted

clientVars == <<pin, seen, view>>

\* The log that vouches for the keys ks in order (NotBefore plays no part).
LogOf(ks) == [i \in DOMAIN ks |-> [seq |-> i - 1, key |-> ks[i], notBefore |-> 0]]
Log == {LogOf(ks) : ks \in BoundedSeq(Key, MaxRecords)}

\* Heads an operator can sign over a log: its own, and one whose Seq of
\* 2^64 - 1 becomes -1 as an int.
HeadsOf(k, records) ==
    {Sign(records, k)} \cup
    (IF k \in OtherKey THEN {[Sign(records, k) EXCEPT !.seq = -1]} ELSE {})

NoHead == [seq |-> 0, head |-> genesisHead, sig |-> NoPin]

ClientInit ==
    /\ pin = [c \in Client |-> NoPin]
    /\ seen = [c \in Client |-> NoHead]
    /\ view = [c \in Client |-> <<>>]

\* Some operator signs the head of some log, an extension of its last or not.
SignHead(k, records) ==
    /\ Cardinality({p \in signed : p[1] \in OtherKey}) < MaxSigned
    /\ signed' = signed \cup {<<k, records>>}
    /\ UNCHANGED clientVars

\* The checks of a client that is about to use key, served by logPub.
Checks(c, logPub, key, records, sth) ==
    /\ VerifyLog(IF pin[c] = NoPin THEN logPub ELSE pin[c], records, sth)
    /\ VerifyInclusion(records, key)
    /\ pin[c] # NoPin => VerifyConsistency(seen[c], records)

\* What passed the checks is what the client goes on from.
Accept(c, logPub, records, sth) ==
    /\ pin' = [pin EXCEPT ![c] = IF @ = NoPin THEN logPub ELSE @]
    /\ seen' = [seen EXCEPT ![c] = sth]
    /\ view' = [view EXCEPT ![c] = records]

\* The network answers with any records and any head ever signed.
Served(c, logPub, key, records, sth) ==
    /\ Checks(c, logPub, key, records, sth)
    /\ Accept(c, logPub, records, sth)
    /\ UNCHANGED signed

-----------------------------------------------------------------------------
\* What a client accepted is what the operator it pinned committed to ("After
\* this returns nil, the records are exactly what the operator committed to",
\* VerifyLog), whatever records and heads the network mixes.  And the head it
\* goes on from never sends VerifyConsistency to a negative index: int(old.Seq)
\* of a Seq past 2^63 is negative, VerifyLog alone takes such a head for an
\* empty log, and it is the inclusion check that stops it.
RecordsCommitted ==
    \A c \in Client :
        /\ view[c] # <<>> => <<pin[c], view[c]>> \in signed
        /\ seen[c].seq >= 0

\* A client's history is appended to, never rewritten: the records it accepts
\* extend the ones it accepted before (VerifyConsistency), even when the
\* operator signs a fork or a shorter log.
HistoryAppended == [][\A c \in Client : IsPrefix(view[c], view'[c])]_<<signed, clientVars>>
=============================================================================
