------------------------------- MODULE Enroll -------------------------------
(***************************************************************************)
(* examples/mailproof/android: the enrolment overlay.  A tap launches a    *)
(* coroutine (a flow) that calls the issuer; flows share one screen, and a *)
(* button stays while its flow works, so taps can launch several.  A call  *)
(* ends in at most its timeout: done and answered, done with the answer    *)
(* lost, or refused.  Leaving the overlay cancels its flows; a call already *)
(* sent is still carried out.                                              *)
(*                                                                         *)
(* The issuer is reduced to what the app can tell: whether a session is    *)
(* proved and whether a permit is left (Issuerd has the rest).             *)
(***************************************************************************)
EXTENDS Naturals

CONSTANTS
    Flow,       \* coroutines at work at once
    SessionId,  \* sessions the issuer hands out
    NoToken,
    MaxPermits  \* permits the mailbox has left

ASSUME EnrollAssumption == MaxPermits \in Nat /\ NoToken \notin SessionId

VARIABLES
    overlay,    \* "hidden", "shown", or "closing": dismissed, not yet disposed
    screen,     \* OverlayState, with the session it shows
    flow,       \* what each coroutine is at
    session,    \* the issuer's sessions
    permits,
    token       \* session of the token the app holds

screenVars == <<overlay, screen>>
issuerVars == <<session, permits>>
enrollVars == <<screenVars, flow, issuerVars, token>>

Choose == [at |-> "choose"]
CodeEmailEntry == [at |-> "codeEmail"]
Failed == [at |-> "failed"]
Minting == [at |-> "minting"]
AwaitingEmail(s) == [at |-> "awaiting", session |-> s]
CodeEntry(s) == [at |-> "codeEntry", session |-> s]

Idle == [at |-> "idle"]
Starting == {"createSend", "createCode"}
Working == {"poll", "sendCode", "verify", "mint"}

EnrollTypeOK ==
    /\ overlay \in {"hidden", "shown", "closing"}
    /\ screen \in {Choose, CodeEmailEntry, Failed, Minting}
                    \cup UNION {{AwaitingEmail(s), CodeEntry(s)} : s \in SessionId}
    /\ flow \in [Flow -> {Idle} \cup [at : Starting, live : BOOLEAN]
                                \cup [at : Working, live : BOOLEAN, session : SessionId]]
    /\ session \in [SessionId -> {"none", "send", "code", "verified"}]
    /\ permits \in 0 .. MaxPermits
    /\ token \in SessionId \cup {NoToken}

EnrollInit ==
    /\ overlay = "hidden" /\ screen = Choose
    /\ flow = [f \in Flow |-> Idle]
    /\ session = [s \in SessionId |-> "none"]
    /\ permits = MaxPermits
    /\ token = NoToken

-----------------------------------------------------------------------------
(* The user.                                                               *)

\* "Get a token" is enabled while the app has none.
OpenOverlay ==
    /\ overlay = "hidden" /\ token = NoToken
    /\ overlay' = "shown" /\ screen' = Choose
    /\ UNCHANGED <<flow, issuerVars, token>>

Launch(at) ==
    /\ \E f \in Flow : flow[f] = Idle /\ flow' = [flow EXCEPT ![f] = at]
    /\ UNCHANGED <<screenVars, issuerVars, token>>

\* The screen stays until the coroutine writes it.
TapSend ==
    /\ overlay = "shown" /\ screen = Choose
    /\ Launch([at |-> "createSend", live |-> TRUE])

SubmitEmail ==
    /\ overlay = "shown" /\ screen = CodeEmailEntry
    /\ Launch([at |-> "createCode", live |-> TRUE])

SubmitCode ==
    /\ overlay = "shown" /\ screen.at = "codeEntry"
    /\ Launch([at |-> "verify", live |-> TRUE, session |-> screen.session])

\* "Email me a code instead", "Back" and "Start over".
Turn(from, to) ==
    /\ overlay = "shown" /\ screen = from
    /\ screen' = to
    /\ UNCHANGED <<overlay, flow, issuerVars, token>>

\* The dialog can be dismissed on any screen.
Dismiss ==
    /\ overlay = "shown"
    /\ overlay' = "closing"
    /\ UNCHANGED <<screen, flow, issuerVars, token>>

\* The composition is left: its scope cancels the flows.
Dispose ==
    /\ overlay = "closing"
    /\ overlay' = "hidden"
    /\ flow' = [f \in Flow |-> IF flow[f] = Idle THEN Idle ELSE [flow[f] EXCEPT !.live = FALSE]]
    /\ UNCHANGED <<screen, issuerVars, token>>

-----------------------------------------------------------------------------
(* The coroutines.                                                         *)

\* A flow writes the screen and goes on; a cancelled one ends without a trace.
Proceed(f, at, to) ==
    /\ flow' = [flow EXCEPT ![f] = IF @.live THEN at ELSE Idle]
    /\ screen' = IF flow[f].live THEN to ELSE screen

\* fail(): the coroutine's exception is shown.
Fail(f) == Proceed(f, Idle, Failed)

On(at, s) == [at |-> at, live |-> TRUE, session |-> s]

\* startSession: the issuer makes a session; the answer may be lost.
StartSession(f, at, mode, next, to) ==
    /\ flow[f].at = at
    /\ \/ \E s \in SessionId :
            /\ session[s] = "none"
            /\ session' = [session EXCEPT ![s] = mode]
            /\ Proceed(f, On(next, s), to[s]) \/ Fail(f)
       \/ Fail(f) /\ UNCHANGED session
    /\ UNCHANGED <<overlay, permits, token>>

\* startSendFlow: the screen shows the session, the mail app opens.
CreateSend(f) == StartSession(f, "createSend", "send", "poll", [s \in SessionId |-> AwaitingEmail(s)])

\* The screen changes only once the code was sent.
CreateCode(f) == StartSession(f, "createCode", "code", "sendCode", [s \in SessionId |-> screen])

SendCode(f) ==
    /\ flow[f].at = "sendCode"
    /\ Proceed(f, Idle, CodeEntry(flow[f].session)) \/ Fail(f)
    /\ UNCHANGED <<overlay, issuerVars, token>>

\* The user's mail reaches the issuer.
MailArrives ==
    /\ \E s \in SessionId : session[s] = "send" /\ session' = [session EXCEPT ![s] = "verified"]
    /\ UNCHANGED <<screenVars, flow, permits, token>>

\* mint(): the screen is written first, then a coroutine calls.
ThenMint(f) == Proceed(f, On("mint", flow[f].session), Minting)

\* Mutant: a flow whose mail never came ends without a word.
AwaitVerifiedSilent(f) ==
    /\ flow[f].at = "poll"
    /\ \/ session[flow[f].session] = "verified" /\ ThenMint(f)
       \/ Proceed(f, Idle, screen)
    /\ UNCHANGED <<overlay, issuerVars, token>>

\* awaitVerified: polls until verified, the deadline, or a failed call.
AwaitVerified(f) ==
    /\ flow[f].at = "poll"
    /\ (session[flow[f].session] = "verified" /\ ThenMint(f)) \/ Fail(f)
    /\ UNCHANGED <<overlay, issuerVars, token>>

\* verifyCode: the right code proves a pending session.
VerifyCode(f) ==
    /\ flow[f].at = "verify"
    /\ \/ /\ session[flow[f].session] = "code"
          /\ session' = [session EXCEPT ![flow[f].session] = "verified"]
          /\ ThenMint(f) \/ Fail(f)
       \/ Fail(f) /\ UNCHANGED session
    /\ UNCHANGED <<overlay, permits, token>>

\* AuthorizeMint, as far as the app can tell.
HasPermit == permits > 0

\* client.mint: a permit of the mailbox for a token, and the overlay closes;
\* or the permit is spent and the answer lost; or the issuer refuses.
Mint(f) ==
    /\ flow[f].at = "mint"
    /\ \/ /\ session[flow[f].session] = "verified" /\ HasPermit
          /\ permits' = permits - 1
          /\ \/ /\ flow[f].live
                /\ token' = flow[f].session
                /\ overlay' = IF overlay = "shown" THEN "closing" ELSE overlay
                /\ Proceed(f, Idle, screen)
             \/ Fail(f) /\ UNCHANGED <<overlay, token>>
       \/ Fail(f) /\ UNCHANGED <<overlay, permits, token>>
    /\ UNCHANGED session

FlowStep(f) ==
    \/ CreateSend(f) \/ CreateCode(f) \/ SendCode(f)
    \/ AwaitVerified(f) \/ VerifyCode(f) \/ Mint(f)

User ==
    \/ OpenOverlay \/ TapSend \/ SubmitEmail \/ SubmitCode
    \/ Turn(Choose, CodeEmailEntry) \/ Turn(CodeEmailEntry, Choose) \/ Turn(Failed, Choose)
    \/ Dismiss

EnrollNext ==
    \/ User \/ Dispose \/ MailArrives
    \/ \E f \in Flow : FlowStep(f)

\* Dispatchers run what is ready, every call has a timeout and awaitVerified a
\* deadline; the next frame disposes what was dismissed.  Nothing is assumed of
\* the user or of the mail.
EnrollFairness ==
    /\ \A f \in Flow : WF_enrollVars(FlowStep(f))
    /\ WF_enrollVars(Dispose)

-----------------------------------------------------------------------------
Spinner == overlay = "shown" /\ screen.at \in {"awaiting", "minting"}

\* No screen without buttons spins for ever, however many flows the taps have
\* launched and whichever of their calls fail or lose their answers: a flow that
\* attends it turns it into something the user can act on, or the overlay closes.
SpinnerEnds == Spinner ~> ~Spinner
=============================================================================
