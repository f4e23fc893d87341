# tamayo: specifications of the token stack

TLA+ models of tamayo: the reference issuer and verifier `tamayo serve`, the
policy and token service behind it, the tokens and their presentation, the
mailproof issuer `issuerd` with its Android client and its consumer
`imagehost`, the key-transparency log, and the arithmetic of the four signature
schemes; TLC runs over small instances, and TLAPS proofs, for every value of the
constants, of each safety property that the runs check of the stateful parts and
of the encodings.

Every module is a translation of source lines named in `PROJECT.json` ("map").
Above the signature schemes cryptography is ideal: a signature verifies exactly
when its owner made it, hashes and MACs do not collide, a random draw is new.
The schemes themselves are modelled as the computations they are, at small
parameters.

## The system

| Part | State | Operations | Talks to |
|---|---|---|---|
| `cmd/tamayo/serve.go` | spent set, seen presentation nonces, budgets, mounted key epochs, published key log | verify-burn, verify-pvt, blind-sign, kt, issuer-info | journal, tokenauth, tokenservice |
| `cmd/tamayo/state.go` | append-only `state.jsonl` | append (write, fsync), replay at start | file system |
| `cmd/tamayo/evp.go` | challenge store, random gate key | EVP issuance in two requests | mailbox, the journaled budgets, emailtoken |
| `mailbox` | one pending challenge per address | Create, Verify | used by evp and issuerd |
| `tokenauth` | compiled policy, budget counters | Compile, AuthorizeMint, Reserve, signed authorizations | used by serve and issuerd |
| `tokenservice` | spent store | SignAuthorizedBlind, verification facade, CheckAndMark | tokenprofile, emailtoken |
| `transparency` | hash-chained records, signed head | Append, Sign, the three client checks | serve (initKT), clients |
| `services/issuerd` | sessions, challenge store, budgets | sessions, send-code, verify-code, incoming mail, mint | mailbox, tokenauth, SMTP and webhook |
| `examples/mailproof/imagehost` | nonces, images, per-pseudonym counts | challenge, upload, serve | tokenprofile |
| `examples/mailproof/android` | the overlay's screen, the coroutines its taps launch | create session, poll, verify code, mint | issuerd, imagehost |
| `tokenprofile`, `emailtoken` | none (wire formats and verification) | issue, present, verify | crypto packages |
| `gf16`, `field`, `mayo`, `faest`, `pomfrit`, `mldsa` | none (arithmetic) | keygen, sign, verify | |
| `cmd/qemudemo`, `logging`, `web`, `tools` | none of interest | demos, log formatting, vector dumps | |

What is hard in it: net/http runs every request in its own goroutine, so any
two handlers interleave between two holds of a lock; handlers read the clock
before they take a lock, so times arrive out of order; the runtime promises
that spends and budgets survive a restart, so every point of every handler is
a point where the process or the machine may stop; writes may fail half-way;
tables have capacities; keys, limits and logs change at restarts while clients
keep what they learnt before.

What makes the parts correct:

* journal and handlers: nothing is accepted twice, and no more is issued than
  the policy allows, over any number of starts; no request hangs;
* challenge store: a code works once, for the binding it was made for, for a
  bounded number of guesses, and nobody else can spoil it;
* EVP rail and issuerd: issuance never exceeds a mailbox's budget, and only the
  mailbox that was proved is charged;
* key log: a client never accepts a rewritten history, and never rejects an
  honest log;
* imagehost: a nonce authorizes one upload, quotas hold;
* policy and token service: a decision authorizes exactly the batch, family,
  key and time it was made for, and a budget is charged to a bucket somebody
  vouches for;
* email tokens and private identities: a verifier learns an address or a
  pseudonym from its holder only, and never refuses an honest presentation;
* Android client: a screen without buttons comes to an end;
* encodings: bytes that are signed or hashed name one thing, tokens survive
  their headers;
* signature schemes: what is signed verifies, what was altered does not, and
  the different layouts in which signer and verifier compute agree.

## Modules

| Module | Models | Kind |
|---|---|---|
| `Journal` | `state.go`: the file, its mutex, write/sync errors, page cache, power loss, scanning | component |
| `Serve` | the three state-changing handlers of `serve.go`, the stores of `spend.go` and `budget.go`, startup and replay; extends `Journal` | composition |
| `SingleUse` | the promise about one token or nonce, without stores or restarts | abstract specification |
| `ServeProofs` | inductive invariant and theorems about `Serve` | proofs |
| `ChallengeStore` | `mailbox.ChallengeStore` | component |
| `EVPRail` | `evp.go`; extends `ChallengeStore` | composition |
| `ChallengeStoreProofs`, `EVPRailProofs` | inductive invariants and theorems about the two | proofs |
| `Issuerd` | `services/issuerd`; extends `ChallengeStore` | composition |
| `IssuerdProofs` | inductive invariants and theorems about `Issuerd`; uses `ChallengeStoreProofs` | proofs |
| `ImageHost` | `imagehost/main.go` | component |
| `Enroll` | the Android overlay and client | component |
| `KeyLog` | `transparency.go`: chain, heads, checks | pure operators |
| `KeyLogClient` | clients over time against an arbitrary operator; extends `KeyLog` | composition |
| `ServeKT` | `initKT` and `handleKT` over rotations; extends `KeyLogClient` | composition |
| `ServeKTProofs` | lemmas on hash chains and sorted logs, theorems about `ServeKT` | proofs |
| `Policy` | `tokenauth`: `Compile`, `AuthorizeMint` up to the budget | pure operators |
| `TokenService` | `tokenservice`: decisions, budgets, blind signing, policy emails, redemption, housekeeping; extends `Policy` | composition |
| `TokenServiceProofs` | inductive invariants and theorems about `TokenService` | proofs |
| `Presentation` | `emailtoken`, private identities of `tokenprofile`, the message signature of `evp.go` | component |
| `Wire` | byte encodings of `tokenprofile`, `tokenauth`, `mldsa` contexts; HTTP headers | pure operators |
| `Ingress` | the mail funnel of issuerd and `CanonicalEmail`; extends `Wire` | pure operators |
| `Rounding` | `mldsa`: rounding, hints and their encoding | pure operators |
| `Encodings` | one input for `Wire`, `Ingress` or `Rounding`, from sets that are parameters, and what must hold of it | composition |
| `TokenProofs` | what was ever signed, lemmas on every encoding, theorems about `Presentation`, `Encodings` and the checks of `MLDSA` | proofs |
| `Tables` | tabulation of functions for the evaluator | helper |
| `GF16` | `gf16` and the packed words of `mayo`: scalar, packed and table multiplication, echelon form | pure operators |
| `Mayo` | `mayo`: keys, signing, solving, both evaluations of the public map; extends `GF16` | pure operators |
| `MLDSA` | `mldsa`: NTT, packing, rejection loop, verification; extends `Rounding` | pure operators |
| `Faest` | `faest`: vector commitment, VOLE, Fiat-Shamir, sign and verify | pure operators |
| `Quicksilver` | `pomfrit` QuickSilver values and the MAYO circuit; extends `Mayo` | pure operators |
| `Pomfrit` | `pomfrit`: forest, VOLE, `Prove1`/`Prove2`, blind signing; extends `Faest` | pure operators |
| `MCServe`, `MCEVPRail`, `MCIssuerd`, `MCServeKT`, `MCTokenService`, `MCPresentation` | constants and symmetries for TLC | instances |
| `MCMailproof` | `Enroll` and `ImageHost` in one app | composition |
| `MailproofProofs` | inductive invariant and theorems about `ImageHost` and the app | proofs |
| `MCAlgorithms` | inputs for the pure operators and what they must compute on them; extends `Encodings` | instance |

Operators whose comment begins with "Mutant" are broken variants of the
operator that follows them.  No specification uses them; `PROJECT.json`
("mutants") says which property notices which.

### Journal and Serve

The file is a sequence `lines` and the unterminated bytes `tail`; `dlen` and
`dtail` are its durable image.  A record is written by one step and synced by
the next, under `jmu`.  A failed `Write` may leave nothing, a part of the line
or all of it but the newline; nothing in the code cuts that off, so the next
record lands on the same line (`Glued`).  A crash keeps the page cache; a power
loss keeps the durable image and any part of what came after.  `TooLong` holds
the records whose line exceeds the scanner's buffer.

A handler goes through `marked` (the store was changed), `written`,
`journaled`, and answers; `blind-sign` first waits in `authorizing`, because
the clock is read before the budget store is locked.  `VerifyPvt` marks before
it verifies and `VerifyBurn` verifies before it marks, as in the code; the
verdict of the later checks is drawn when the request arrives since it depends
on nothing that changes.  `Start` chooses the mounted epochs and the policy
limit anew each time.  `answered` and `issued` are ghosts: they count what left
the server over all starts.

Left out: `serve` without `-state-dir` (nothing survives a restart, by design),
requests that are refused before a store changes, and read-only routes.

### ChallengeStore, EVPRail, Issuerd

`Create` and `Verify` hold the store's mutex throughout, so each is a step; the
`now` they use was read by their caller earlier.  In `EVPRail` a request
carries the time of its arrival; in `Issuerd` a handler reads the clock some
time after `getSession`, which is a choice from `ReadClock`; a mint reads it after it
let go of the session lock.  `EVPRail` takes
the budget as `Serve` establishes it (a reservation is one step and survives
a restart), adds the case that the journal fails after the charge, and keeps
which start's gate key named a bucket.  In both, signing may fail after the charge,
which loses the permit (`IssueFails`, `SignFails`).  `Issuerd` keeps session objects apart
from the table of ids: a handler holds a pointer, so it goes on after
`gcLocked` removed the session.  Mail ingress is a mail naming a session, from
a sender that DKIM vouches for.  `Issuerd` models one process: it keeps nothing
but its seed file.

### KeyLog, KeyLogClient, ServeKT

A hash is the tuple of its inputs, so the chain of `chainHeads` is compared for
real.  `KeyLogClient` lets any operator sign any log and serves clients any
records with any signed head.  `ServeKT` is the honest server, restarted with
a growing list of epochs: `Ordered` is the sort by key version in `initKT`,
`Published` the loop that appends the records in that order.

### ImageHost and Enroll

The two holds of the lock in `handleUpload` are two steps with the
verification between them; `ok` is the verdict on presentation and image.

`Enroll` has the overlay's screen, which every coroutine writes, and the
coroutines (`flow`) that taps launch: buttons stay while a flow works, so there
may be several.  A call is one step that ends in the answer, in the effect at
the issuer with the answer lost, or in a refusal.  Dismissing the overlay lets
its composition go one frame later (`closing`), which cancels the flows; a call
already sent still has its effect.  The issuer is reduced to which sessions are
proved and how many permits are left.  `MCMailproof` puts the upload button
behind the token; uploads are explored after enrolments that took one session,
since they do not depend on more.

### Policy and TokenService

`Policy` has `Compile` with every refusal in it and `AuthorizeMint` up to the
reservation; `chooseEligibility` takes the first eligibility of the request that
is usable.  Strings are a handful of values with the spellings that
`EqualFold` and `TrimSpace` tell apart.  `TokenService` loads one of several
policy files through its sidecar, charges requests, and lets callers keep their
decisions: any later step may use any of them, with any batch, after a key
rotation, a wipe of the key or a `Prune`, with a time of its own or none (`NoTime`, which
`validateDecision` takes for no expiry).  Every caller in the repository passes a
budget store; without one `AuthorizeMint` charges nothing, and the model has no such
caller.  A blinded target stands for its token
input and a blind signature is the key that made it.  Nothing in the repository
calls `Prune`, `PruneEpochsBefore` or `Zeroize`; the properties say what holds
under the times and epochs they are given.  Two things the code allows and the
model shows: a policy email may be issued again on one decision until it
expires, for several holders; and the blind signer cannot see the family of
what it signs, only that of the decision.

### Presentation

Three rows of email tokens (EVT, policy email, post-quantum policy email) and
private identities, in the hands of honest holders and of one who also makes
tokens of its own (`Forged`).  A JWS is a record with the key that made it;
verification compares types, key ids, times, audience, nonce and the hash of
the token as the code does.  Times are counted in ticks, `Second` of them to a
second: claims hold whole seconds (`Unix`), the expiry is compared in seconds and
the age of a whole second with the ticks of the verifier's clock, as `checkTime`
does.  There is no common clock: what issuer, holder and verifier read are inputs
of their steps, in any order, so each may be ahead of the others.  A maximal age
of 0 is no limit, and a verifier's time of 0 (Go's zero time) switches the checks
off.  The RFC 9421 signature of an EVP request covers method, authority, path, key
and the creation time, which the browser chooses.  A private identity names an
algorithm and a key of its length; the check of the proof is dispatched on the
name, and a key of another type does not verify.

### Wire, Ingress, Rounding and Encodings

Bytes are small numbers and 32-byte values one byte; length prefixes, domain
bytes, framing and the parsers are as in the code.  Headers are sequences of
words, so that a value may contain what looks like a parameter.  In `Ingress`
an address is a sequence of characters of both cases with dots, spaces and `@`,
and the operator's verify local part and domain have a spelling of their own:
recipients are lower-cased before they are compared with the local part, which is
not, so that one with an upper-case letter matches nothing.
`Rounding` has `decompose` with the multiplication and shift of the code, at the
real modulus; a hint encoding is a sequence of positions followed by the end of
each polynomial.  `Encodings` states what is to hold of them.  Its behaviours
take one input, and `Documents(kind)`, the set it is taken from, is a parameter:
TLC has small sets, the theorems any sets of the documents' types.

### Signature schemes

`GF16` multiplies as the code does: a word is a set of bit positions, lanes are
shifted and masked.  `Mayo` follows keygen, `expandSK`, `computeA` with its
reduction modulo f, `sampleSolution`, the loop over attempts, and the verifier's
own evaluation.  The solver looks for pivots inside windows: `hi + 32` rows in `EF`
and `32/(m-row)` columns in the back substitution, with up to 142 equations.  The
width is the constant `Band`.  `SolvesFullRank` says what the code guarantees: where
the rows that `EF` searches have the pivots, a system is reported solved exactly if
its rows are independent; where the columns do too, what is returned solves it.
Outside the windows neither holds: with a first column of zeros the first pivot is
beyond `32/m = 0`, and a wrong x is reported as solved.  `sign` verifies what it
made and so returns nothing wrong; `SignWithoutHashing` does not, and `MayoSigns`
claims its preimages inside the windows only.  `MLDSA` has the real modulus and rounding constants.  `Faest`
and `Pomfrit` compute their trees and correlations with hashes as tuples and
vectors as sets under symmetric difference; where the code proves a circuit
the proof is ideal: it exists for a satisfying witness and verifies with the
values it was made from.  `Quicksilver` computes that proof for the MAYO circuit
in GF(16), with real polynomials in Delta.  PoMFRIT's VOLE seed is the constant
the code documents.  These modules force evaluation with an operator of `Tables`
(which is the identity, and the proofs about `MLDSA` say so); `Rounding` is free
of it.

## Runs

| Run | Instance | Shows |
|---|---|---|
| `serve_once` | 2 handlers, 2 epochs, 1 burn nonce, 2 presentation keys of which one too long, under `FairSpec` | `TypeOK`, `AtMostOnce`, `EveryRequestAnswered`, and `KeepsPromise`: `Serve` implements `SingleUse` |
| `serve_budget` | 2 handlers, limits 1 and 2, batches of 1 and 2, two windows | `WithinBudget`, `ReplayDropsNothing` |
| `serve_restart` | 1 handler, 2 burn nonces | violation of `RestartSurvives` |
| `evp_rail` | 2 handlers, 2 addresses, 2 browsers, 2 codes, 2 challenges, 1 restart | `TypeOK`, `CodeUsedOnce`, `GuessesBounded`, `EVTsWithinBudget`, `ChallengeUndisturbed` |
| `evp_restart` | as above, 1 address, 1 browser | violation of `MailboxWithinBudget` |
| `issuerd` | 2 handlers, 3 sessions for a table of 2, 2 addresses, 1 challenge | `TypeOK`, `VerifiedByOwnProof`, `TokensOfBoundMailbox`, `MintsWithinBudget`, `TableKept` |
| `mailproof` | 2 flows, 2 sessions, 1 permit; 2 handlers, 2 nonces for a table of 1, 2 images, quota 1 | `DemoTypeOK`, `OneUploadPerNonce`, `QuotaCounts`, `SpinnerEnds` |
| `kt` | 2 clients, the server's 2 epochs over 3 starts, and other operators that sign 2 logs of up to 3 records | `RecordsCommitted`, `HistoryAppended`, `NoAlarmWithinStart` |
| `kt_rotation` | the honest server with 3 epochs, 1 client | violation of `RotationFollowed` |
| `tokens` | 3 policy files (one a production policy without provenance) with sidecars, 2 buckets, 2 challenges, 2 epochs, 2 decisions, clock to 2 | `SignedWithinLimit`, `RedeemedOnceAndPaid`, `BucketsVouched`, `EmailOfVerifiedAddress` |
| `presentations` | 4 holders of three key types, 2 audiences, 2 nonces, 2 servers, 2 tokens, 1 proof, 2 identities shown, 2 ticks to a second | `PresentationGenuine`, `HonestPresentationAccepted`, `EVTBoundToRequester`, `PseudonymsRecognised` |
| `algorithms` | enumerated inputs, below | `LinearAlgebraExact`, `MayoSigns`, `MldsaSigns`, `FaestCommits`, `FaestSigns`, `QuicksilverProves`, `PomfritSigns`, `EncodingsFaithful`, `MailProvesSender` |

Bounds and why they are enough.  Every hazard of the concurrent parts is a
conflict of two: two handlers on one record, two proofs for one session, two
uploads with one nonce, two flows on one screen, so two exhibit it.  `Serve`
needs no bound on crashes, restarts or the length of the file: a record is
appended again only after a start forgot it, and TLC visits all the states
there are.  `serve_budget` has two limits so that restarts raise and lower it,
batches of two so that a batch can be the one that does not fit, and two
windows.  `MaxCodeAttempts` is 2: the first wrong code must leave the challenge
and the second must not.  `MaxChallenges` of 2 lets a challenge be replaced.
Clocks of 1 to 3 ticks with lifetimes of 0 to 2 let sessions, codes, tokens,
proofs and windows end while somebody holds an older time.  Tables have one id
more than they have room.  One permit lets the second mint of the overlay be
refused.  Two decisions are enough for one to be replayed under the charge of
another.  Symmetry is over interchangeable names only, and not used with
liveness.  The specifications with bounded clocks and ids stop when these run
out, hence `CHECK_DEADLOCK FALSE` there; the `Serve` runs check deadlock.

In `algorithms` a behaviour picks an algorithm and one input.  GF(16): all
scalars and pairs of lanes, in words of 8 and 16 bits (the lanes of a 64-bit
word do not see each other further than their neighbour, which two lanes have).
Solver: all matrices of 2x2 over four elements, 2x3 over three, 3x3 and 3x4 over
{0, 1}, and 4x4 of sparse rows; `Band` is 1, so that pivots lie on both sides of
both windows.
MAYO: two shapes, with and without whole nibbles to spare, 13 seeds, 2 attempts
in place of 256, so that exhaustion happens.  ML-DSA: rounding at every edge of
both gamma2; all hint encodings of two polynomials of four coefficients with
three hints; signing at degree 8 with more bits of t dropped, so that each
rejection bound is met from both sides, and two masks, so that the loop turns.
FAEST: trees of 8, 16 and 24 leaves,
every challenge, an oracle of two answers so that the grinding loop turns.
PoMFRIT: trees of 5 and 4 levels.  QuickSilver: every Delta of GF(16).  Wire:
all documents of up to three small bytes per field, all strings of up to eight
bytes for the parsers.  Mail: From addresses of up to five characters, the spaces of a quoted
local part among them, lists of up to three recipients, and a configuration in
either case.

In `presentations` the times are 2, 5 and 6 at two ticks to a second: whole and
half seconds, one tick and three or four apart, so that every age limit (1 and 3
ticks, 1 second) is met from both sides and truncation makes the difference.

The properties of `algorithms` are conjunctions of named parts, one for each
algorithm, stated in `Encodings` or beside their inputs in `MCAlgorithms`.  The
state of `TokenService` and `Presentation` is described where their variables are
declared.

Fairness.  `FairSpec` of `Serve`: a handler that can move does (weak fairness
of `HandlerStep`: goroutines are scheduled, file operations return), and a
handler waiting for the journal's mutex gets it eventually (strong fairness of
its write: `sync.Mutex` hands itself to the oldest waiter once that has waited
a millisecond).  Nothing is assumed of clients, of restarts or of the absence of
crashes.  `EnrollFairness`: a coroutine that can move does (dispatchers run
what is ready, every HTTP call has a timeout, `awaitVerified` a deadline), and a
dismissed overlay is disposed at the next frame.  Nothing is assumed of the
user, of the mail or of the success of any call.

## What the violation runs show

* `serve_restart`: the documentation says a restart replays the journal.  A
  line cut short by a failed write or by a crash makes `openJournal` reject the
  file, at this start and every later one, and a record longer than the scanner's
  buffer does the same.  A tail that is a whole record without its newline is
  replayed once and then glued to the next record.  `AtMostOnce` still holds:
  the server stays down instead of accepting anything twice.
* `evp_restart`: budgets are journaled so that a restart does not reset them,
  but the EVP rail names a mailbox's budget with a gate key drawn at each start,
  so a restart gives every mailbox a new budget inside the window.
* `kt_rotation`: rotating keys means restarting the server, and each start draws
  a new log key and re-stamps every record, so a client that pinned the log
  rejects the next one.

## Proofs

All theorems hold for every value of the constants that satisfies the named
assumptions of the modules; the invariants named below were checked with TLC on
the instances of the runs before they were proved.

| Module | Theorems | States |
|---|---|---|
| `ServeProofs` | `TypeCorrect`, `NoDoubleSpend`, `ImplementsSingleUse`, `ReplayKeepsReservations`, `IssuanceWithinBudget` | `TypeOK`, `AtMostOnce`, `KeepsPromise`, `ReplayDropsNothing`, `WithinBudget` |
| `EVPRailProofs` | `RailTypeCorrect`, `RailCodeUsedOnce`, `RailGuessesBounded`, `RailWithinBudget`, `RailChallengeUndisturbed` | `TypeOK`, `CodeUsedOnce`, `GuessesBounded`, `EVTsWithinBudget`, `ChallengeUndisturbed` |
| `IssuerdProofs` | `IssuerdTypeCorrect`, `IssuerdVerifiedByOwnProof`, `IssuerdTokensOfBoundMailbox`, `IssuerdWithinBudget`, `IssuerdTableKept` | `TypeOK`, `VerifiedByOwnProof`, `TokensOfBoundMailbox`, `MintsWithinBudget`, `TableKept` |
| `MailproofProofs` | `DemoTypeCorrect`, `DemoOneUploadPerNonce`, `DemoQuotaCounts`, `DemoImplementsHost` | `DemoTypeOK`, `OneUploadPerNonce`, `QuotaCounts`, `DemoSpec => Spec` |
| `ServeKTProofs` | `ClientsHoldCommitted`, `ClientsFollowOneHistory`, `ServerNeverAlarms` | `RecordsCommitted`, `HistoryAppended`, `NoAlarmWithinStart` |
| `TokenServiceProofs` | `ServiceSignsWithinLimit`, `ServiceRedeemsOnceAndPaid`, `ServiceEmailsVerifiedAddress`, `ServiceBucketsVouched` | `SignedWithinLimit`, `RedeemedOnceAndPaid`, `EmailOfVerifiedAddress`, `BucketsVouched` |
| `TokenProofs` | `AcceptedIsGenuine`, `HonestIsAccepted`, `EVTsBoundToRequester`, `PseudonymsAreRecognised`, `EncodingsAreFaithful`, `MailsProveSenders`, `ReleasedSuffices` | `PresentationGenuine`, `HonestPresentationAccepted`, `EVTBoundToRequester`, `PseudonymsRecognised`, `EncodingsFaithful`, `MailProvesSender`, and that what ML-DSA's signer releases its verifier can check |

What is assumed.  Numbers are naturals, windows are not empty, the marks for
"nothing" (`NoMailbox`, `NoSession`, `NoChallenge`, `Nobody`, `Unused`, `NoPin`)
are not members of what they mark the absence of, and the set of handlers is
finite: it may be any size, and a process has finitely many goroutines, so that
what is in their hands can be counted.  `RecAssumption` says that the journal
holds records of uses and of reservations.  `KTAssumption` names log keys by
numbers, those of the server's starts positive and those of other operators
negative: no two parties have the same key.  `KeysApart` says the same of the
keys of issuers and holders, and that a key has one type.  `DecodedAssumption`
says that policy files and requests were decoded into Go's types.  One theorem
has a hypothesis of its own, `ServiceBucketsVouched`: the operators whose keys
the service trusts sign production policies only.  It is needed (a development
policy may charge a bucket nobody vouches for, and whoever signs it has allowed
that), and the instance of `tokens` satisfies it.

Of the inputs of `Encodings` the assumptions give the types and what their makers
guarantee: `SignedDocuments` that fields are byte strings and numbers,
`CarriedDocuments` that a token has a holder key of the length its algorithm
fixes and an authenticator longer than the randomness in front of it,
`RoundedDocuments` that residues are below q, that what is added is at most gamma2,
and that a position in a hint is the index of a coefficient (a byte, and there are
256), `MailDocuments` that in an address which the mail parser returned a space stands
before an `@`: in a quoted local part, never in the domain.  What arrives from outside is not restricted further: the parsers are
given any byte string, `hintBitUnpack` any string of bytes of its length, the
mail funnel any recipients.

### The single-use guarantee

`AtMostOnce` is not inductive: whether a second acceptance is
possible depends on what the next replay will read.  `OnceInv` adds

* `Running`: handlers are at work, and the mutex is held, only while serving;
* `Locked`: a handler between write and sync holds the mutex;
* `Exclusive`: two handlers at work never have the same single use in hand, and
  a use in hand is not answered;
* `AnsweredDurable`: a use that was answered, or whose handler is past its
  sync, has its record among the durable lines, which no step removes, unless
  these hold a line that no start gets past;
* `Remembered`: while serving, an answered use is in the memory store, so
  `Take` refuses it;
* `Replayed`: while replaying, the entries already read are in the store; at
  `Listen` the whole file has been read, which gives `Remembered`.

The invariant has one lemma per action; a power loss keeps the durable prefix,
a crash the whole file, and a refused start never serves.  The refinement maps
`holder[r]` to the handler that has `r` in hand; `Exclusive` makes it unique,
so that `Take` is the abstract `Take`, an answer or an error is `Answer` or
`GiveUp`, both kinds of death are `Vanish`, and all else stutters.

### The journaled budget

A reservation is in up to four places: the memory of the process, the file, the
hands of a handler, and the durable part of the file.  Handlers charge in one
order and write in another, so no prefix of the file equals the memory at any
moment.  `BudgetInv` has one inequality per pair that matters:

* `ChargedInMemory`: what was issued or is in hand is charged, and so is what
  the file holds or is about to hold;
* `WorkFits`: a charge in hand fits the limit of this process, under which all
  its handlers work;
* `FileFits`: each record of the file fits its own limit after the records
  before it, so that replay finds room for it whatever the limit is now; the
  durable tail would too, if a power loss leaves it as the last line;
* `ChargedByReplay`: a start has charged exactly what it has read;
* `IssuedDurable`: what was issued, or is past its sync, is on the disk, unless
  the disk holds a line that no start gets past;
* `LastUnsynced`: an unsynced line is the last one.

The sums are sizes of sets: `Permits(e, b)` has one member for each permit that
a record of `e` draws from bucket `b`, so adding, removing and moving a record
are unions of disjoint finite sets, and no recursion is needed.

### The challenge store, the EVP rail and issuerd

`ChallengeStoreProofs` shows once, for `Create`, `Verify` and
the loss of the store, that `StoreInv` is kept; the proofs of the rail and of
issuerd only say which of their steps are which.  Neither property of the store
is inductive: that a
code is accepted once rests on the entry being gone afterwards.  `StoreInv` adds
that no challenge is used before it is made (`Fresh`), that a pending challenge
is not accepted yet and has been compared exactly as often as its counter says,
less than the limit (`PendingUnused`), and that two addresses never hold the
same challenge (`PendingApart`).  For the budget, `Covered` counts the permits
between `Reserve` and the answer: the EVTs of a bucket plus the handlers
holding a permit of it never exceed what is reserved.  A grant moves one permit
into a hand, an issue one out of it, and a permit whose journal write failed,
or whose handler died, is lost.  `ChallengeUndisturbed` needs that the time a
handler read is never ahead of the clock (`TimesRead`): a handler acting late
with an early time can keep an expired entry, never drop a live one.

An issuerd handler works on after it let go of the session lock.  `HandlerOK`
says what still holds of the session in its hands: it exists; once the
handler has its proof, the evidence for its address is on record; once it has
read the binding, the session has that binding.  This stays true because sessions
only gain (`SessionsKept`): their direction never changes, a mailbox once bound
stays, evidence is not withdrawn, even for sessions that left the table.
`CodesOfCodeSessions` carries the direction through the challenge store: a
pending code belongs to a session of the code direction.

### The image host

`handleUpload` holds its lock twice.  `VerifiedOwnsNonce` says that between the
two the handler owns its nonce: drawn, without an upload, and in no other hands;
`OutstandingUnspent` and `UndrawnUnused` say the same of nonces in the table and
of those nobody drew.  `ImagesCounted` makes the quota a statement about the
set of images.  `DemoImplementsHost` carries all of it over to the app: what
the app does on its own leaves the host alone.

### The key log

That a signed head commits to one log is proved, from the chain itself: hashes
are tuples of their inputs, so equal heads have equal last leaves and equal heads
before them, and by induction equal leaves throughout (`HeadsBind`); hence a
signed head determines its log, and an older head in a newer chain a prefix of
it (`HeadBindsLog`, `OldHeadMeansPrefix`).  Induction is done on the set of lengths
for which the claim holds (`Induction`, from the least element of a set of
naturals), and `ChainOfHeads` and `PublishedLog` first show that the recursive
functions are what their equations say.  `OrderExists` shows that finitely many
key versions can be sorted, so that the `CHOOSE` of `Ordered` finds something.
`KTInv` then says that the running server serves a log of its epochs under the
key of this start and signed nothing else with it (`ServerSound`,
`SignedSound`), and that each client goes on from the head of a log that its
pinned key signed (`ClientSound`).

### The token service

Callers keep decisions and use them again, so `SignedWithinLimit` is not
inductive: a decision not used yet may be used later.  `Reserved` bounds, for
each bucket and window, the targets that its decisions could ever sign
(`Targets`) by what was reserved, and `PaidByDecision` bounds what was signed by
those.  It speaks of windows that had not ended at any time `Prune` was called
with; a `Prune` that drops one of these breaks it.  `SpendInv` keeps
redeemed tokens of epochs still kept in the spent set; `EmailInv` and
`PolicyLoaded` keep, beside each decision and email, the policy and the request
they rest on.

### Presentations

Verifiers keep no state.  `PresentationInv` says of each thing ever signed what
is in it, above all of an issued token (`IssuedSound`): an address, a key its row
admits, a policy where the row has one, and of an EVT the request it answered, by
that key, to this server and no further than `SigMaxAge` from the time of issue.
The theorems follow by running the verifier on such things and on what the dishonest
holder makes.  What a time says after its truncation is a few lemmas on whole
seconds, for any `Second`; they are why the theorem on honest presentations has its
ages a second inside the limits and the one on genuine ones a second outside.

### Encodings and mail

Every step of `Encodings` takes an input, and nothing is claimed before, so the
two invariants are inductive as they stand and the work is in the lemmas, each
about one function of the code and all its inputs.

* What is signed and hashed.  Everything is a head of known length followed by
  strings behind their lengths, so equal bytes split in equal parts
  (`SplitAt`, `PrefixedSplits`, `FrameSplits`), also behind the binding
  and the two labels of an authorization (`AuthorizationFields`).  A batch may
  have any number of targets: `FlattenIs` shows what the fold over them computes
  and `RunsSplit` goes through it target by target, by induction on the set of
  places up to which two batches agree.
* What is carried.  The parsers invert the encoders (`BurnParses`,
  `PrivateParses`) and accept nothing else (`BytesParsed`); the first byte keeps
  the two kinds of tokens apart.  A header is described by what stands where
  (`ParamsIs`); since no word of a value is a mark, the only `=` are those after
  the two names (`EqualsIs`), so that each parameter is found and none is found
  inside a value.
* What is rounded.  A residue is its nearest multiple of 2*gamma2 and the distance
  to it; `Shift88` and `Shift32` show that the multiplication and the shift find
  that multiple, for both gamma2.  `Splits` places the result on the circle of
  residues, its wraparound at q-1 included; adding at most gamma2 moves at most
  one step on it, in the direction `useHint` takes (`NextStep88`, `NextStep32`).
* Hints.  The encoding lists the ones of the vector in the order of the two
  loops.  In one direction, well-formed bytes list the ones of the vector they
  unpack to (`UnpackedListed`), and a list is packed to the bytes it came from
  (`PackedList`); in the other, `OnesListed` finds the list by counting the ones
  before each one, and `CountsSplit` shows that the ends are where the polynomials
  change.  The shape of the vector is a parameter, so this is about all of
  ML-DSA's parameter sets.
* Mail.  The mailbox is the sender trimmed and in lower case: a space in a quoted
  local part is trimmed at its start and refused elsewhere.  `TagOf` takes a recipient apart from its ends and `NamedBy` compares it
  with the address of its tag (`AddressIs`, `TagIs`); `CanonicalIs` says when an
  address is one mailbox and `AlignedIs` when a suffix after a dot is a parent
  domain, for domains of any number of labels.

### What ML-DSA's rejection loop releases

The verifier cannot compute w: it has no s2 and no t0, and what it computes is
w - c s2 + c t0.  `ReleasedSuffices` shows that the checks of `signMu` are enough
for it to find w1, the high bits of w, from there.  `CoefficientRecovered` takes
one coefficient through both moves: the bound on the low bits of w - c s2 leaves
room for c s2 on the same step of the circle (`HighBitsKept`), and the bound on
c t0 is the one `HintRecovers` needs.  The bound on the number of hints makes them
a vector that has an encoding, so that the verifier decodes the ones which were made
(`WeightIs`, `HintsEncodeUniquely`).  The hypothesis |c s2| <= beta holds because
c has tau coefficients of one and s2 is bounded by eta.  That the verifier's product
is w - c s2 + c t0 is the linearity of the transform, and that z survives its
packing is arithmetic on bits: `MldsaSigns` checks both with TLC.

### Only model-checked

* `EveryRequestAnswered` and `SpinnerEnds`: liveness under fairness, out of the
  prover's reach.
* `LinearAlgebraExact`, `MayoSigns`, `MldsaSigns`, `FaestCommits`, `FaestSigns`,
  `QuicksilverProves` and `PomfritSigns`: the modules behind them force evaluation
  for TLC and recurse over data (matrices in echelon form, trees, the NTT), and
  what they state is about the enumerated inputs.

## Not modelled, and what is left

* The block cipher of FAEST, its extended witness and the degree-3 constraints
  over it (`rijndael.go`, `witness.go`, `faest_prove.go`, `zk_prove.go`), and the
  large binary fields of `field`: wide arithmetic without control, covered by
  the known-answer vectors of the repository.  `Faest` takes the proof as ideal.
* The hash functions, AES-CTR and the expansion of matrices from seeds: streams
  that are inputs of the models.
* `serve` without `-state-dir`: nothing survives a restart there, by design.
* The seed file of issuerd, and the adapters that carry its mail (SMTP, webhook,
  standard input): input and output around `Ingress` and `Issuerd`.
* The branch of the overlay in which the embedding app sends the mail itself
  (`AppSends`): the send is that app's code, without a timeout, and the demo does
  not use it; `SpinnerEnds` is about mail handed to a mail app.
* Length and state checks of PoMFRIT's messages (`Prove2`, `Sign3`, `pomfritVerify`):
  the model's values have the shapes that these checks establish.  `AddConstraint`'s
  panic on an answer that is no preimage is a round without a result.
* A key log, token or batch with a length beyond 32 bits: bodies of requests end
  at 1 MiB.
* The composition of `Enroll` with `Issuerd`: each has the other reduced to what
  it can observe; the product exceeds what TLC visits in the time kept for a run.
* The command line, log formatting, the web playground, the QEMU demo and the
  vector tools: no state and no decision of their own.

Theorems worth having next: lemmas on the echelon form of `GF16`, by the
induction on sets of numbers that `ServeKTProofs` and `TokenProofs` use, once that
module is free of what it needs for TLC only; the linearity of ML-DSA's transform,
which with `ReleasedSuffices` gives that what is signed verifies; and the refinement of a single atomic budget, shared by
`Serve`, `EVPRail` and `Issuerd`, whose proofs count permits in the same way.
