------------------------------- MODULE ServeKT -------------------------------
(***************************************************************************)
(* The key-transparency log of `tamayo serve` (initKT, handleKT): built    *)
(* and signed at every start from the key epochs the operator mounts, and  *)
(* followed by clients that the network may also serve the logs of other   *)
(* operators or of an earlier start.  The operator rotates: a start keeps  *)
(* the epochs of the one before and may add newer ones.                    *)
(***************************************************************************)
EXTENDS KeyLogClient

CONSTANTS
    MaxStarts,    \* bound on the starts of the server
    MaxTime       \* bound on the clock

ASSUME KTAssumption ==
    /\ MaxStarts \in Nat
    /\ MaxTime \in Nat
    /\ NoPin = 0
    /\ \A k \in OtherKey : k \in Int /\ k < 0

VARIABLES
    clock,
    start,     \* number of this start; its log key is named by it
    live,      \* key versions mounted
    signing,   \* the key version that signs (the first -issuer file)
    kt,        \* the served log
    alarm      \* clients whose checks of the served log failed

serverVars == <<start, live, signing, kt>>
vars == <<clock, serverVars, signed, clientVars, alarm>>

\* sort.Slice: the epochs, oldest version first.
Ordered(epochs) ==
    CHOOSE s \in [1..Cardinality(epochs) -> epochs] :
        /\ {s[i] : i \in DOMAIN s} = epochs
        /\ \A i, j \in DOMAIN s : i < j => s[i] < s[j]

\* The loop that appends one record per epoch.
Published(epochs, now) ==
    LET ordered == Ordered(epochs)
        log[n \in 0..Len(ordered)] ==
            IF n = 0 THEN <<>> ELSE Append1(log[n - 1], ordered[n], now)
    IN log[Len(ordered)]

\* initKT: a fresh log key, and the head of the log signed with it.
initKT(epochs, logKey, now) ==
    LET records == Published(epochs, now)
    IN [logPub |-> logKey, records |-> records, sth |-> Sign(records, logKey)]

Init ==
    /\ clock = 0
    /\ start = 1
    /\ live = {1} /\ signing = 1
    /\ kt = initKT(live, 1, 0)
    /\ signed = {<<1, kt.records>>}
    /\ ClientInit
    /\ alarm = {}

\* The server is started again, with the epochs it had and maybe a new one.
Rotate ==
    /\ start < MaxStarts
    /\ start' = start + 1
    /\ live' \in {live, live \cup {Cardinality(live) + 1}}
    /\ live' \subseteq Key
    /\ signing' \in live'
    /\ kt' = initKT(live', start', clock)
    /\ signed' = signed \cup {<<start', kt'.records>>}
    /\ UNCHANGED <<clock, clientVars, alarm>>

\* A client fetches /v1/issuer-info and /v1/kt and checks.
Fetch(c) ==
    /\ IF Checks(c, kt.logPub, signing, kt.records, kt.sth)
       THEN Accept(c, kt.logPub, kt.records, kt.sth) /\ UNCHANGED alarm
       ELSE alarm' = alarm \cup {c} /\ UNCHANGED clientVars
    /\ UNCHANGED <<clock, serverVars, signed>>

Tick ==
    /\ clock < MaxTime
    /\ clock' = clock + 1
    /\ UNCHANGED <<serverVars, signed, clientVars, alarm>>

\* What the network may serve: the records of one head with another head.
Replayed(c) ==
    \E p, q \in signed, key \in Key : \E sth \in HeadsOf(q[1], q[2]) :
        Served(c, q[1], key, p[2], sth) /\ UNCHANGED <<clock, serverVars, alarm>>

Next ==
    \/ Rotate \/ Tick
    \/ \E k \in OtherKey, records \in Log :
        SignHead(k, records) /\ UNCHANGED <<clock, serverVars, alarm>>
    \/ \E c \in Client : Fetch(c) \/ Replayed(c)

Spec == Init /\ [][Next]_vars

-----------------------------------------------------------------------------
\* A client that pinned the running server, or no log yet, is never alarmed
\* by it: the log it serves passes the checks, for any number of epochs and
\* fetches, whatever the network served the client in between.
NoAlarmWithinStart == \A c \in alarm : pin[c] \notin {NoPin, start}

\* "Publishing multiple epochs is what lets clients pin the log and follow a
\* rotation across the overlap window" (ktState): a client that pinned the
\* log of this operator follows every rotation that keeps the epochs it knows.
RotationFollowed == \A c \in alarm : pin[c] \in OtherKey
=============================================================================
