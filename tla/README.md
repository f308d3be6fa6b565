# The Infrix Playground in TLA+

The playground is one Go process that runs a governed flow on a node, streams
the run to browsers, keeps the resulting proof receipt behind a share link, and
serves a small single-page application that watches a run and verifies the
proof.  These modules model its concurrent core.  TLC checks them on small
instances; TLAPS proves every safety property that TLC checks, and the refinement
of the one abstract specification, for all parameters.

## 1. The system

| Part | State | Operations | Talks to |
|---|---|---|---|
| Runs (`api/runs.go`) | per run: state, steps, receipt ID, error, event history, subscriber channels; registry, ID counter | Start, execute, transition, addStep, finishOK, finishErr, publish, Subscribe, unsub, snapshot | worker (call), store (call), SSE handlers (channels), metrics |
| Worker (`worker/worker.go`) | none | Run: call the node, narrate nine steps, verify offline, make a receipt | the node (HTTP), the run (callback) |
| Receipt store (`api/receipts.go`) | map in memory, one file per receipt | Put, Get, Cleanup, loadFromDisk | the file system, the cleanup job |
| Rate limiter (`api/ratelimit.go`) | map of token buckets | Allow, pruneLocked | the handlers that start runs or verify |
| HTTP server (`api/server.go`, `agent.go`, `events.go`, `abuse.go`) | telemetry list; a deadline per agent call | create, get and stream runs, receipts, verify, agent call, telemetry, cleanup loop, shutdown | all of the above |
| Metrics (`api/metrics.go`) | counters | Inc, Snapshot | everyone |
| Run Theater (`web/playground.js` startRun, `web/spine.js`) | EventSource, queue, pacing loop, stages | callbacks, consumer loop, seal | the event stream, the router |
| Views and router (`web/playground.js`) | location hash, content of the page, theme | boot, route, landing page and its pickers, theme switch, reload, the other views | fetch, the verifier, the spine's colours |
| Receipt page (`web/playground.js`) | what was fetched, the disclosure, the flag of its listener | fetch, verify, mount the matrix, open and close, mount Cinema | the server, the verifier, the matrix, Cinema |
| Verify view (`web/playground.js`) | the output | drop, choose, paste, load the sample, verify | the verifier, the matrix |
| Tamper lab (`web/tamper.js`) | score, buttons | forge, verify, reset | the verifier |
| Check matrix (`web/checkMatrix.js`) | which rows are shown, timers | mount a result, replay | the views |
| Cinema scene (`web/bundleScene.js`) | none | convert a receipt and its bundle | the receipt page |
| Spine colours (`web/spine.js`) | a cache of colours | look up | landing page, theater |
| Configuration, process (`api/config.go`, `cmd/infrix-playground`) | flags | start, signal, shut down | the server |

What is hard about it:

- **Interleaving.** `finishOK` and `finishErr` take the run's lock three times.
  Between the sections other goroutines subscribe, leave, and read snapshots.
  `Put` and `Cleanup` do their disk half after releasing the lock.  They
  and `Allow` read the clock before they take the lock.
- **Channels.** Sends never block and drop on a full channel; three places close
  a channel.
- **Crash and restart.** The map is lost, the files stay, files are written in
  place and removed late, and a failed removal is ignored.
- **Reconnecting streams.** A browser's EventSource reconnects by itself and is
  sent the whole history again.
- **A node that never answers.** The call has no timeout; the agent endpoint has one,
  and its deadline races the end of the run.
- **Views that await.** A view fetches or verifies, and what it awaited arrives when
  another view, another receipt or another forgery may be on the page.  Timers are
  never cleared.  Listeners are attached after an await, to elements that a visitor
  can use before.
- **Zero values.** A hash missing from a package is an array of zeros, not an empty one.
- **Nulls.** The front end turns a body that is not JSON into null, which no caller
  expects; what they do next throws, behind whatever they have done before.

What makes each part correct:

- *runs*: no event is lost, repeated or reordered for a reader; channels are
  closed once; a terminal run is backed by a stored receipt or an error; a
  reader is never left hanging;
- *limiter*: burst plus the sustained rate bounds what a client gets in every
  interval; an obeyed Retry-After is honoured; clients do not affect each other;
- *store*: the link of a completed run is served until its retention ends,
  through crashes, and not for ever after;
- *theater*: stages light in order and never go back; the seal is shown only
  when it is earned; the visitor always gets an outcome;
- *HTTP surface*: no run is started that is not allowed and paid, a refused one costs
  nothing, an ID leads to its own run, an agent is answered in
  time and truthfully, the counters agree with the answers;
- *browser views*: the page shows the view of its address, also after a reload; a matrix
  belongs to the receipt, to the forgery, or to the proof handed in last; a page that listens
  does not stay at "Loading" or at "Verifying"; an open disclosure has its replay, which claims
  no more than the receipt; a spine is mounted in the colours of the theme;
- *narration*: a step carries the hash of its own artifact, or none if there is none.

## 2. The modules

| Module | Models | Lines it follows |
|---|---|---|
| `Run` | one run and its event streams | `runs.go`, `handleRunEvents`, the control of `worker.Run` and of `Put` |
| `RunContract` | abstract: what a run promises its readers | implemented by `Run` (`ImplementsContract`) |
| `RunTheater` | the page watching a run; extends `Run` | `startRun`, `makeChannel`, `mountSpine` |
| `RateLimiter` | the token buckets | `ratelimit.go` |
| `ReceiptStore` | memory, files, writers, cleanup, crashes | `receipts.go`, `cleanupLoop` |
| `Playground` | the calls to the server, over many runs | `server.go`, `agent.go`, `events.go`, `abuse.go`, `metrics.go`, RunManager in `runs.go` |
| `StepHashes` | the hash that each narrated step carries | `stepHashes` and `flowSteps` in `worker.go` |
| `Views` | boot, router, receipt view, theater, reload: who puts what on the page | `boot`, `route`, `renderReceipt`, `startRun` |
| `Landing` | landing page, pickers, theme and spine colours; extends `Views` | `renderHome`, `modeButton`, `flowButton`, `applyTheme`, `initTheme`, `stageColor` |
| `TamperLab` | the lab's tasks, buttons, score and verdict | `renderLab`, `tamper.js` |
| `CheckMatrix` | the staggered reveal of a matrix and its replay | `checkMatrix.js` |
| `BundleScene` | the scene made of a receipt and its package | `bundleScene.js` |
| `ReceiptPage` | a receipt's page; extends `CheckMatrix` and `BundleScene` | `renderReceipt` from the receipt on |
| `VerifyView` | the proofs handed in and the output | `renderVerify` |
| `ProofPages` | one of lab, receipt page and verify view; extends the three | |
| `RunProofs`, `StepHashesProofs`, `RunTheaterProofs`, `RateLimiterProofs`, `ReceiptStoreProofs`, `PlaygroundProofs`, `LandingProofs`, `ProofPagesProofs` | theorems | |
| `MC*` | the small instances; `ProofPages` and `ReceiptPage` need none | |

`RunTheater` extends `Run`, and `Run` implements `RunContract`.  The others stand side
by side and reduce their neighbours to what they observe: `Playground` has a run, the
store and the limiter as a few states each; `Views` has theaters and renders as
tasks, whose insides are `RunTheater` and `ReceiptPage`.  `ReceiptPage` mounts the
matrix of `CheckMatrix` and builds the scene of `BundleScene`.

**Run.** Every critical section of `Run.mu`, `RunManager.mu` and of the store's
lock is one action, and whatever may happen between two of them interleaves.
Start and then the executor goroutine are one thread of control, so one program
counter `pc` says where it stands: `new`, `registered`, `counted` (Start),
`calling` (the node), `narrating` (the nine `addStep`), `storing`, `persisting`
(`Put`), then `succeeding`, `ok_receipt`, `ok_transition`, `ok_publish` or
`failing`, `err_message`, `err_transition`, `err_publish` (the sections of
`finishOK` and `finishErr`), and `ended`.  A channel is named by the connection
it belongs to: `subs` is the set of registered channels, `buf` their contents,
`cap` their capacity, `closes` how often each was closed (a second time, or a
send afterwards, would panic).  `handler` follows `handleRunEvents`, `deferred`
the handlers whose deferred `unsub` has still to run, `got` what each wrote to its
response.  Events keep the type and the one field the front end reads.

**RunContract.** One log per run: `running`, steps, a verdict (`complete` or
`failed`), an outcome that goes with it, and nothing more.  A reader is handed
the log entry by entry and is told that the stream is over only after it was
handed the verdict.  `Run` maps `log` to the history, `read` to `got`, and `over`
to the handlers that ended on a closed channel.  The outcome itself is not
promised, see finding 1.

**RunTheater.** The browser is one thread, so a callback, or the consumer up to
its next await, is one action.  The connections are the `Clients` of `Run`, used
one after another.  A connection breaks at any time, losing what was written
and not dispatched; the abandoned handler hangs up later, and what it writes until
then reaches nobody and is not followed.  The `await`s of the consumer loop are the
values of `stage`: `waiting` for the queue, `running` and `settled` for the two
delays, `sealing`, `over`.  Try again starts a new run and a new theater, and the
jump to the verdict ends this one.  An attempt to connect that fails
(`ConnectFails`) raises the same error; at most `MaxErrors` of them wait in the queue.

**RateLimiter.** Time is counted in ticks and tokens in units such that a bucket
gains one unit a tick (`Cost` units make a token), which keeps the arithmetic
exact.  With the defaults (5 at once, 10 a minute) a tick is a second, `Cost` = 6,
`Cap` = 30, `Ttl` = 600.  `Arrive` reads the clock, `Admit` and `Reject` are the
locked part, and a caller may be late by `Stall` ticks.  Two history variables
carry the claims: `excess` is the most a client got beyond one unit per tick over
all intervals ending now, `promise` is the time named by its last Retry-After.

**ReceiptStore.** `mem` and `disk` hold the creation time of each record, which is all
that the code ever decides on; a file can also be `Empty` (truncated) or `Torn`.  `Put`
reads the clock (`Stamp`), takes the lock (`PutMemory`) and writes the file after releasing
it, where `os.WriteFile` is two steps, open with truncation and write.  `Cleanup` reads the
clock (`BeginSweep`, kept in `now`), takes what is expired from memory (`Sweep`) and removes
the files one by one (`Remove`), each of which may fail unnoticed.  All of these interleave, so
two writers of one ID may store their times in one order and write their files in the other.
A receipt's ID is derived from its content, which includes the second of its verification,
so two writers share an ID only if they verify at the same time.  A crash loses memory
and goroutines.

**Playground.**  A handler is a goroutine with a program counter: `new`, `checked`
(the guard and the modes), `admitted` (the limiter), `numbered` and `registered` (the
steps of `RunManager.Start`), then `answered`, or for an agent `looking`, `judging`
(the deadline), `waiting` (the pause, or the end of the request) and `fetching`
(the record).  `run` follows the goroutine that `Start` leaves behind, `store` the
creation times of the records, which `Cleanup` takes when they are older than `Keep`.
The checks before a run are written out twice in the code, in the same order (`server.go`,
`agent.go`), and once here (`Refusal`).
`tokens` come back at any time: what time brings which token is the matter of
`RateLimiter`.  `charged` and `began` are history variables.  The clock moves on
only when no handler that may run has been kept waiting for `Stall` and no stored
run for `Lag`; those are the assumptions on scheduling under which the deadline can be
spoken of, and `PlaygroundAssumption` asks that retention is longer than they are.

**StepHashes.**  A package is its export hash, its chain hash and its links, each of a
type; a hash is abstract but for `Zeros`, which any of them may be.  `HashOf` is the map that
`stepHashes` builds and the steps are narrated with.  The module has no state: `Fields` says
directly which artifacts stand for a step, `Own` which of their hashes are there, and
`HashesAreReal` and `NeverAFakeHash`, in `MCRun`, compare `HashOf` with them over all packages
of an instance.

**Views.**  The hash changes at once, the hashchange event is handled later (`changes`).
`boot` is at its fetch (`fetching`), at its end (`listening`), or was thrown out in between
by a null configuration (`thrown`); a hashchange event before its end is lost, and at its
end it routes once by itself.  The old address `#/readiness` is rewritten and rendered by the
event that causes; at an address that cannot be decoded (`malformed`) the router throws and
leaves the page as it is.  `renders` are the calls of `renderReceipt` under way, `theaters`
those of `startRun`; a view that is rendered gets a number, so that a task can tell whether its
own elements are still on the page.  Only two things touch the page without being asked: a
receipt that arrives, and a theater whose POST failed.  A fetch ends in an answer, in an error,
which is caught and shown (`ReceiptMissing`, `NoMatrix`, `PostFails`), or in null, which is
not: `ReceiptGarbled` leaves the page `cleared`, `PostGarbled` leaves a theater without its
spine.  `Receipts` are also addresses whose ID is empty: the server answers that fetch with the
index page (`server.go` 118), hence with null.  A run that ends sets the hash.  A
reload abandons all tasks and keeps the hash.  The status page fills a panel of its own.

**Landing.**  A spine is mounted when the landing page is rendered, by the router or by a
pick, and when a theater was posted, on the page or not.  `spine` is the theme whose colours
the page's spine has, `cache` the `colorCache` with the stages reduced to one.  A reload
empties the cache and comes back with the remembered theme, or the default where storage
is blocked.

**TamperLab.**  A package is the set of its forged fields and that set as it was
when the package was sealed.  `tasks` are the handlers under way, at `sealing` or
`verifying`; the verifier, a library, goes through its ten checks in order and stops at
the first that fails.  `score` is the forgery that the score line speaks of.

**CheckMatrix.**  `timers` are those set and not yet fired, ordered by due time and age.  The
page passes the result and the stagger to `Mount`.

**BundleScene.**  No state: `Scene` is `bundleToCinemaProof`, `Receipts` the receipts that the
worker's converter makes, `PackagesOf` the packages they can come with.  Those receipts always
have a level, so that the fallback for one without is not exercised; the `label` of the proof
is left out.

**ReceiptPage.**  `stage` is the await at which `renderReceipt` stands; at `listening` it is
over and its listeners are attached.  A click on the disclosure changes `open` at once and
queues a toggle event (`toggled`), which merges with one still queued, as browsers do.
`imports` are the mounts of Cinema under way, `players` those that came to an end well.

**VerifyView.**  `work` are the hand-ins under way: a file that is `reading`, a sample
`fetching`, a proof `verifying`.  `shows` is what the output shows, `complaint` an error
appended to it.  `accepted` and `overlapped` are history variables.

**ProofPages.**  The three pages share nothing but the verifier, so one of them, chosen at
the start, is followed; their fairness is stated here.

Definitions commented "Faulty" are not part of any specification.  They are
plausible bugs, kept beside the definition they distort, that show that the
properties notice them.

## 3. The runs

| Run | Instance | Shows |
|---|---|---|
| `run_streams` | a narration of 2 steps; 2 connections, one of which may stop reading; the least slack that is enough; evidence chains of up to 3 links of 5 types | `TypeOK`, `StreamIntegrity`, `ChannelDiscipline`, `EndedStreamSawVerdict`, `SnapshotMatchesHistory`, `VerdictIsBacked`, `RunFinishes`, `StreamFinishes`, `ImplementsContract`, `HashesAreReal` |
| `run_outcome` | 1 connection | finding 1 |
| `run_hashes` | chains of up to one link | finding 4 |
| `rate_bucket` | 2 clients, 2 goroutines, burst of 2, one tick stale, 9 ticks | `TypeOK`, `SustainedRate`, `RetryHonoured`, `Isolation` |
| `store_links` | 2 writers, 2 IDs, 2 crashes, retention of 2 in 5 ticks | `SoleLinkSurvives`, `RemovesNoneYoungerThanAPut`, `NoStaleLinkInTheEnd` |
| `store_rewrite` | the same, 1 crash | finding 2 |
| `theater_watch` | 2 steps, 2 connections | `SpineInOrder`, `SealIsEarned`, `SpineOnlyForward` |
| `theater_settles` | 1 step, 2 connections | `TheaterSettles` |
| `play_calls` | 2 calls, each any of 11 requests of five kinds; 1 token; timeout of 2, pause, stall and lag of 1, retention of 4, 6 ticks | `RunsAreFound`, `RunsAreAllowed`, `CountersAgree`, `AgentAnsweredInTime`, `TimeoutIsHonest`, `ProofIsThere` |
| `views_visit` | 2 receipts, landing page, status page by either address, a malformed address; 2 navigations, 2 runs, a reload, a pick, 2 themes and a switch | `PageFitsHashUnlessOvertaken`, `MatrixIsOfItsReceipt`, `SpineWearsItsTheme`, `LoadingEnds` |
| `proof_pages` | lab: 3 forgeries (one that does not re-seal), 4 clicks; receipt page: every receipt and package, every result of up to 4 checks, 2 replays, 3 clicks on the disclosure; verify view: 2 proofs and a text that is none, 3 hand-ins | `MatrixMatchesScore`, `EachIsCaughtAtItsCheck`, `ButtonsComeBack`; `LineByLineIfPatient`, `AllRevealedInTheEnd`, `OpenShowsCinema`, `SceneIsHonest`; `VerdictIsOfLastProof`, `VerifyingEnds` |
| `receipt_opens` | a result of up to 2 checks, 2 clicks | finding 3 |

The type invariants of the store, of `Playground` and of the browser modules say what their
variables hold; no run lists them.

**Bounds.**  A run publishes at most `running`, 9 steps, a verdict and an outcome, 12 events; with
slack of 16 no channel fills.  `run_streams` narrates two steps with the least slack for which
that is still so, so the argument and not the margin is checked, and the theorems of section 4
cover the code's own nine steps and sixteen places.  Connections share nothing but the run, hence
two are enough for everything a property relates (one sees the effects of the other only through
`subs`).  In `rate_bucket` the clock outlives twice the idle time of a bucket, so buckets are
spent, refilled, pruned and made anew within one behaviour, and readings of the clock overtake
each other. In `store_links` a record can be written, expire, be swept and be loaded again after
either crash, and a tick, the `Lag`, may pass between any two steps of a `Put`.  In the theater
runs a first connection can break anywhere and the second replays the history; `TheaterSettles`
takes one step and one waiting error, as its graph is searched for cycles.  In `play_calls` two
calls are enough to number, register and start in different orders and to fight for the one token;
an agent looks at its run up to three times, and the retention is the shortest that the assumption
admits, so the sweep comes as early as it can.  The two calls are alike, which is used as a
symmetry.  In `views_visit` the address at the start and two navigations let two receipts be
fetched at once and a third view overtake both, before or after a reload, and the second run is a
Try again or a theater beside the first; one switch between two mounts is what a stale colour
needs.  In `proof_pages` a forgery, a reset, and a forgery again overlap with the first
verification; the disclosure is opened, closed and opened again around every await; a third proof
is handed in while two are verified.  Three links of five types contain every pair of types that
compete for a step, in either order, beside a third.  `CHECK_DEADLOCK FALSE` is set everywhere
because one run really ends, and because the bounds on clocks and crashes stop the others.

**Fairness.**  Goroutines are scheduled fairly: Start, the executor and the handlers
of connections that are read (`Attentive`) make progress.  The node is never assumed
to answer, and a client never to connect; a peer that stops reading blocks its
handler for good.  The cleanup ticker keeps firing and a dead process is started
again.  In the browser the event loop runs, an open connection delivers what was
written to it, and EventSource reconnects; a connection need not break, and the
visitor need do nothing.  Liveness is stated from the node's answer on,
because nothing ends a call to a node that hangs.  In `Landing` and
`ProofPages` the event loop runs, timers fire, and a fetch, a hash, a verification or an
import that was begun comes to an end, be it by an error; `ButtonsComeBack`,
`LoadingEnds` and `VerifyingEnds` rest on that alone.  `Playground` states no
liveness: the deadline of an agent is a safety property against the clock.

**Findings.**  Four runs end in a counterexample.

1. `run_outcome`: a subscriber that arrives between `transition` and the publishing of
   the outcome (`runs.go` 119 and 130) gets a closed channel without the outcome.
   The comment at `runs.go` 157-159 promises it.  The page then shows a lost
   connection for a run that completed.
2. `store_rewrite`: writing the same ID again truncates a durable file (`receipts.go` 150),
   and a crash or an error then loses a completed run's link.
3. `receipt_opens`: the disclosure is on the page before the bundle is fetched and verified,
   and its toggle event is listened to only afterwards (`playground.js` 660).  Opened before,
   it stays without its replay, against the comment at 656.
4. `run_hashes`: a hash missing from the package is an array of zeros, passes the tests for
   emptiness (`worker.go` 284, 290) and is narrated (297, 307, 325), where the comment at
   276-277 says "never a fake one".  Otherwise a step carries its own hash (`HashesAreReal`).

Other disagreements the properties except by name, instead of a run that exhibits them:

- *Slow refills.*  If a burst takes longer to refill than the ten minutes an idle bucket
  is kept (`--rate-per-min 0.2` with a burst of 5), pruning (`ratelimit.go` 110) gives
  tokens away and the rate at `ratelimit.go` 38 is not sustained.  `PruneSafe` excludes it.
- *A file that was not removed* (`receipts.go` 135) brings its link back at the next start,
  although it was pruned (118).  `NoStaleLinkInTheEnd` says that it goes in the end.
- *A sweep may be early.*  Of two runs with the same receipt, the one that read the clock
  first (`receipts.go` 88) may take the lock last (91), and the other write its file last.  A
  sweep, which judges by memory, then removes a file that is not "older than maxAge" (118).  It
  is early by the length of a `Put` at most (`RemovesNoneYoungerThanAPut`).
- *A failure leaves no mark* on the spine: the failed step has the key `run` (`worker.go`
  203), which has no node there (`playground.js` 490), and an error event or a lost connection
  sets none, against `docs/ux-redesign/03-runbook-run-theater.md` 240.
- *A configuration that comes as null* replaces the defaults (`playground.js` 1075) before the
  error is caught, so that 1067 throws, and the page never listens and stays blank, against
  the comment at 1077, "defaults stand".  `LoadingEnds` excepts such a page by name.
- *A receipt that comes as null* clears its page and throws (`playground.js` 557-561); `#/r/`
  without an ID is enough.  The page stays empty and shows no error.  `LoadingEnds` and
  `PageFitsHashUnlessOvertaken` take the cleared page for one that belongs to the address.
- *A run whose POST is answered with null* goes on, but its theater throws (429) and stays
  without a spine.  `RunTheater` is about a theater whose POST was answered with a body.
- *An address that cannot be decoded* throws in the router (1086): the view of the previous
  address stays, or a blank page if there was none.  No view belongs to it, so both
  properties except it by name.
- *A receipt that arrives late* replaces the view of another address (`playground.js`
  551-557), against the routes of `docs/ux-redesign/SPEC.md` 102-103.  As long as no view is
  rendered while a receipt is being fetched, the page fits its address
  (`PageFitsHashUnlessOvertaken`).
- *The first verification of the lab* (`playground.js` 990) may end after that of a forgery,
  and show a clean matrix beside "Caught 1 / 1", against
  `docs/ux-redesign/02-runbook-tamper-lab.md` 249.  If the visitor waits for it, matrix and
  score agree (`MatrixMatchesScore`), although Reset disables no forgery either.
- *A replay during a reveal* shows rows out of order (`checkMatrix.js` 135), against 127-128.
  A patient visitor sees them line by line (`LineByLineIfPatient`).
- *Closing the disclosure during the import* lets Cinema mount into a collapsed host
  (`playground.js` 665), which 656-658 means to avoid.
- *Two proofs verified at once* (`playground.js` 689): the slower one is shown last, also when
  it was handed in first.  Otherwise the last is shown (`VerdictIsOfLastProof`).
- *A theme switch* leaves a mounted spine in its old colours (`spine.js` 96), against
  `docs/ux-redesign/03-runbook-run-theater.md` 228-230.  A spine mounted since the switch is in
  those of the theme (`SpineWearsItsTheme`).
- *The ambient spine* of the landing page takes its first step before the hero is appended
  (`playground.js` 191, 235), finds itself unconnected (276) and stops, against 175-176 and
  269-271.  It only ever fills under reduced motion.

## 4. The theorems

Every safety property that a passing run checks is a theorem of the same
specification.  All theorems rest on the named assumptions on the constants only, which TLC
evaluates in the runs; where one needs more, the statement says so.

**Runs** (`RunProofs`), for every set of connections, narration, and slack with
`Len(FlowSteps) + 3 <= Slack`:

| Theorem | States |
|---|---|
| `RunTypeCorrect` | `Spec => []TypeOK` |
| `RunLosesNoEvent` | `Spec => []StreamIntegrity` |
| `RunClosesChannelsOnce` | `Spec => []ChannelDiscipline` |
| `RunSnapshotIsHistory` | `Spec => []SnapshotMatchesHistory` |
| `RunVerdictIsBacked` | `Spec => []VerdictIsBacked` |
| `RunStreamEndsAfterVerdict` | `Spec => []EndedStreamSawVerdict` |
| `RunKeepsContract` | `Spec => ImplementsContract`, which is `Contract!Spec` |

The inductive invariant of the first three is `IInv` with `HandlersFit`.  That a registered
channel mirrors the history is not inductive, because a send on a full channel drops.
`HistoryBound` and `StateAt` bound the length of the history, and fix the state of the run,
by what `pc` allows; `Roomy` says that a registered channel has at least `Slack` places.
Together they show that no channel is ever full.  `HandlersFit` says what is true of a
channel for each state of its handler: an idle one has no channel and wrote nothing, a
registered one was never closed, none was closed twice.

The others need to know which events are out.  `ToldAt` says that they are those the snapshot
stands for, and how many they are at each `pc`; `BackedAt` says what the executor has done
before it comes to the verdict; `ClosedLate` that a closed channel still holds, with what was
written from it, the events up to the verdict.  For the refinement, the initial states map to
the initial state of `RunContract`, every event published is the next one that the contract
allows (`ToldAt`), what a handler writes is the next event of the log (`StreamIntegrity`), and
a stream ends after the verdict (`ClosedLate`); all other steps are stutters.

**Hashes** (`StepHashesProofs`), for any types of links and chains of any length:
`NarratedHashesAreReal`, `Spec => []HashesAreReal`: a step carries the hash of its own
artifact, none only if there is no such artifact, and zeros only where that artifact's hash is
missing.  The code overwrites entries of a map and looks types up in order; the reference speaks
of a link that none overrules.  That either exists needs the least element of a set of
numbers, which the library's well-founded induction gives (`LeastThere`, `GreatestThere`);
`StepCarriesItsField` then says that what is narrated is a hash of such a link, missing or not.

**Theater** (`RunTheaterProofs`), on top of `RunProofs`: `TheaterTypes`, `TheaterInOrder`
(`SpineInOrder`), `TheaterOnlyForward` (the action property `SpineOnlyForward`) and
`TheaterSealIsEarned` (`SealIsEarned`: the run is complete, which is not to say that its proof
passed, as the worker completes a run whatever the verifier said).  `NarrationAssumption` says
that the spine has one node for each step that `flowSteps` lists and none for `run`, as in the
code.  The order of the stages is not inductive by itself: it holds because of what is on its
way.  `PageFollows` relates queue, connection and spine to the history of the run: the queue holds
the events after those shown, up to the first error of the EventSource.  A second connection,
which is sent everything again, exists behind such an error only, and the consumer stops there.

**Limiter** (`RateLimiterProofs`), for every number of clients and callers and all parameters
of `RateAssumption`:

- `RateTypeCorrect`: `Spec => []TypeOK`; no bucket holds more than its burst.
- `RateIsSustained`: `PruneSafe => (Spec => []SustainedRate)`, where `PruneSafe` is
  `Cap + Stall <= Ttl + 1`, without which the pruning described above refutes it.
- `RetryAfterIsHonoured`: `Cost <= Cap => (Spec => RetryHonoured)`: a bucket that can hold
  a token at all.
- `RateIsolates`: `Cap <= Ttl + 1 => (Spec => Isolation)`: a bucket that is idle for long
  enough to be pruned is full (`PrunedIsFull`).

The invariant of the second is a potential: what a client got beyond its rate, plus
what its bucket would hold by now if it had no limit, is at most the burst plus the stall
of a caller (`Covered`); a pruned or unknown client is owed nothing, which is where
`PruneSafe` is needed.  `Fresh` says how stale a reading of the clock may be.  For the
third, `Promised` says that by the promised time the bucket will hold a token, whatever
stale reading refilled it last.

**Store** (`ReceiptStoreProofs`), for all IDs, writers, clocks and numbers of crashes, where a
Put takes less time than the retention (`StoreAssumption`): `StoreTypes`,
`CleanupRemovesNoneYoung` (`RemovesNoneYoungerThanAPut`) and `SoleLinksSurvive`
(`SoleLinkSurvives`).  The cleanup job removes files after it released the lock, so that what is
true when it decides must still be true when it removes.  `InTime` says that whoever writes a
record verified it at most `Lag` ago, `Timed` that the times in memory and in the file of an ID
are both within `Lag` after its verification, in whichever order; so a file that is being
removed is not written again and is older than the retention less the `Lag` (`SweptAreOld`).
`OwnHolds` follows the record of a writer that shares its ID with nobody from memory to disk
and back.

**HTTP surface** (`PlaygroundProofs`), for every finite set of calls, all requests, limits and
times of `PlaygroundAssumption`: `PlaygroundTypes`, `OwnRunIsFound` (`RunsAreFound`),
`OnlyAllowedRuns` (`RunsAreAllowed`), `AgentsAreAnswered` (`AgentAnsweredInTime`),
`TimeoutsAreHonest` (`TimeoutIsHonest`), `ProofsAreThere` (`ProofIsThere`) and `CountersCount`
(`CountersAgree`).  `Course` says what a handler has done by where it stands, `Numbers` that
the counter is the number of IDs given out and no two calls share one, `Found` that
the registry leads back.  The agent's properties are about time.  `Timely` bounds when a handler
wakes, relative to its deadline and to the end of its run; `Shelved` adds that a record found
missing would have to be older than the retention, which exceeds that bound.  `CountersAgree`
speaks of the moments when no handler is half done; `Tallies` is what holds at every moment.
The proof found one place where the model said less than the code: `Refusal` was a CASE whose
guards overlap, which leaves open whether a request with a bad body and a mode that is not
enabled gets 400 or 409.  The code looks at the body first, and so does `Refusal` now.

**Views** (`LandingProofs`), for all sets of receipts and of plain views, any list of themes and
any number of visits, reloads, runs and switches: `LandingTypes`, `PageFitsItsHash`
(`PageFitsHashUnlessOvertaken`), `MatrixStaysWithItsReceipt` (`MatrixIsOfItsReceipt`) and
`SpineInItsTheme` (`SpineWearsItsTheme`).  The first speaks of a page that listens; it takes the
page that a null receipt cleared for its receipt's, and asks nothing of a malformed address.
`ViewsAssumption` keeps the names of receipts, plain views and the views that are not addresses
apart.  Views are numbered as they take the page; `Numbered` says that no two tasks know the same
number, `Owned` that what is on the page under a task's number is what the task left there,
`Awaited` that, until one is overtaken, the receipt being fetched is the one whose page says so.
`Cached` says that a cached colour is that of the theme it is cached for.

**Pages that verify** (`ProofPagesProofs`), for all sets of forgeries and proofs, any number of
checks, clicks and hand-ins: `LabMatrixMatchesScore` (`MatrixMatchesScore`),
`ForgeriesAreCaughtAtTheirChecks` (the action property `EachIsCaughtAtItsCheck`), `RowsComeInTurn`
(`LineByLineIfPatient`), `CinemaIsShown` (`OpenShowsCinema`), `SceneStaysHonest` (`SceneIsHonest`)
and `VerdictOfLastProof` (`VerdictIsOfLastProof`).  Each page has its invariant, and a step of one
leaves the others alone (`PagesInv`).

- *Lab.*  A task carries the package it was started with (`Tampered`): the clean one with its
  own forgery and no other, from which `ForgedIsCaught` computes the check that fails first.
  What the verifier's checks look at is a table (`Trips`, `Holds`), since the verifier is
  external; that nothing else gets into the package, and that verdict, score and count change in
  one step, is what is proved.  Until a click is early, the first verification is
  alone (`FirstIsAlone`).
- *Matrix.*  Until a replay interrupts a reveal, the rows not shown are those with a timer, one
  each, later rows with later timers (`InTurn`).
- *Receipt page.*  An event that finds the disclosure open before the page listens is missed
  (`Heard`); nothing is imported or played before the listener set its flag (`MountedOnce`);
  the receipt and the package stay what they were when the scene was built (`SceneInv`).
- *Verify view.*  Until two overlap, at most one hand-in is being verified, and its text is the
  last accepted (`OneAtATime`); the hand-ins still being read do not matter (`OthersWait`).

Only model-checked: liveness (`StreamFinishes`, `RunFinishes`, `NoStaleLinkInTheEnd`,
`TheaterSettles`, `ButtonsComeBack`, `AllRevealedInTheEnd`, `LoadingEnds`, `VerifyingEnds`), which
rests on fairness and is out of the prover's reach, and the findings, which are counterexamples.

## 5. What is left out, and the plan

Left out for good: the node, the verifier, the schemas and Cinema (external);
wording, layout, animation and embedded assets; float rounding in the limiter;
flags and start-up, whose values are the constants; the MetaMask view (two calls to a wallet and
a panel of its own), the browser's telemetry (a flag that guards requests nobody waits
for), the copy buttons, the ambient spine (it takes no step, see above).  A disabled
limiter and a store without a directory are the trivial halves of what is modelled.  The
handlers that only read change no state.  Runs with the same receipt, which share a
record, are in `ReceiptStore`, where writers choose their IDs; `Playground` gives each run
a record of its own.

Every safety property of the runs is proved.  What could still be stated and proved:

1. an abstract specification of the receipt store (a map of links with a lifetime) and of the
   limiter (an ideal bucket per client), with the refinements that the theorems of section 4
   come close to;
2. the composition of `Run` with `ReceiptStore`, in place of the `stored` set of `Run`;
3. the safety half of the liveness properties: from which states each helpful action is
   possible, so that only the fairness argument is left to TLC.
