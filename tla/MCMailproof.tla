----------------------------- MODULE MCMailproof -----------------------------
(***************************************************************************)
(* The mailproof demo app: it enrols (Enroll), and with its token uploads  *)
(* go to the image host (ImageHost).  Uploads do not depend on what the    *)
(* enrolment left at the issuer; they are explored after the ones that     *)
(* took a single session.                                                  *)
(***************************************************************************)
EXTENDS ImageHost, Enroll

\* DemoActivity: the upload button is enabled by the token.
Enrolled ==
    /\ token # NoToken /\ overlay = "hidden" /\ screen = Minting
    /\ \A f \in Flow : flow[f] = Idle
    /\ \A s \in SessionId : s # token => session[s] = "none"

DemoInit == Init /\ EnrollInit

DemoNext ==
    \/ EnrollNext /\ UNCHANGED vars
    \/ Enrolled /\ Next /\ UNCHANGED enrollVars

\* The types of both, and the table of nonces stays within its limit though
\* requests purge it with times they read before they took the lock.
DemoTypeOK == TypeOK /\ EnrollTypeOK /\ NoncesBounded

DemoSpec == DemoInit /\ [][DemoNext]_<<vars, enrollVars>> /\ EnrollFairness
=============================================================================
