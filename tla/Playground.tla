----------------------------- MODULE Playground -----------------------------
(* The HTTP surface (src/api/server.go, agent.go, events.go, abuse.go) over many
   runs: calls that are refused, charged and started, the registry of runs, and
   the agent endpoint, which polls its run against a deadline while the run, the
   store and the cleanup job go on.

   Each handler is a goroutine of its own.  A run is reduced to the sections of
   RunManager.execute that a handler can tell apart (module Run has them all), the
   store to the creation time of each run's record (module ReceiptStore), the
   limiter to tokens that come back at some time (module RateLimiter).      *)
EXTENDS Integers, FiniteSets

CONSTANTS
  Calls,           \* HTTP calls
  Peers,           \* rate-limited clients, by clientKey
  Requests,        \* the requests that calls may make
  Burst,           \* RateLimitConfig.Burst
  KermitEnabled,   \* Config.KermitEnabled
  Timeout,         \* of an agent call
  Poll,            \* an agent's pause between two looks at its run
  Stall,           \* the longest a runnable handler waits for the processor
  Lag,             \* the longest from Put to the end of its run
  Keep,            \* Config.Retention
  Horizon          \* bound on the clock

Kinds == {"run", "agent", "verify", "event", "receipt"}

\* "flow" stands for what the guard of the endpoint looks at: the flow of a run, the
\* sensitive fields of an event.
AllRequests ==
  [kind : Kinds, peer : Peers, body : {"good", "bad"},
   flow : {"listed", "refused"}, mode : {"anonymous", "kermit", "unknown"}]

ASSUME PlaygroundAssumption ==
  /\ Requests \subseteq AllRequests /\ IsFiniteSet(Calls)
  /\ Burst \in Nat /\ Timeout \in Nat /\ Poll \in Nat \ {0}
  /\ Stall \in Nat /\ Lag \in Nat /\ Keep \in Nat /\ Horizon \in Nat
  /\ KermitEnabled \in BOOLEAN
  /\ Keep >= Lag + Poll + 2 * Stall

VARIABLES
  clock,
  request,    \* what each call asks
  pc,         \* where its handler stands
  answer,     \* the HTTP status it was answered with, or 0
  wake,       \* when an agent's handler may next run
  deadline,   \* when an agent's handler gives up
  began,      \* history: when its run was launched
  tokens,     \* the limiter's tokens of each client
  charged,    \* history: the calls that were charged a token
  counter,    \* RunManager.counter
  runID,      \* the ID of each call's run, or 0
  registry,   \* RunManager.runs: the call whose run has the ID, or NoRun
  run,        \* how far each call's run is
  endedAt,    \* when that run became terminal
  store,      \* CreatedAt of the record of each call's run, or Gone
  metrics,
  events      \* how many telemetry events are kept

agentVars == <<deadline, began>>
callVars == <<request, pc, answer, wake, agentVars>>
limitVars == <<tokens, charged>>
runVars == <<run, endedAt, store>>
idVars == <<counter, runID, registry>>
vars == <<clock, callVars, limitVars, runVars, idVars, metrics, events>>

NoRun == "none"
Gone == -1

IDs == 1..Cardinality(Calls)

Metrics == {"abuse_rejections", "rate_limited", "verifications",
            "runs_started", "events_received", "receipt_views"}

----------------------------------------------------------------------------
Init ==
  /\ clock = 0
  /\ request \in [Calls -> Requests]
  /\ pc = [q \in Calls |-> "new"] /\ answer = [q \in Calls |-> 0]
  /\ wake = [q \in Calls |-> 0]
  /\ deadline = [q \in Calls |-> 0] /\ began = [q \in Calls |-> 0]
  /\ tokens = [p \in Peers |-> Burst] /\ charged = {}
  /\ counter = 0 /\ runID = [q \in Calls |-> 0]
  /\ registry = [i \in IDs |-> NoRun]
  /\ run = [q \in Calls |-> NoRun]
  /\ endedAt = [q \in Calls |-> Gone] /\ store = [q \in Calls |-> Gone]
  /\ metrics = [m \in Metrics |-> 0] /\ events = 0

Goto(q, from, to) == pc[q] = from /\ pc' = [pc EXCEPT ![q] = to]

Answer(q, from, status) ==
  /\ Goto(q, from, "answered")
  /\ answer' = [answer EXCEPT ![q] = status]

Inc(m) == metrics' = [metrics EXCEPT ![m] = @ + 1]

StartsRun(q) == request[q].kind \in {"run", "agent"}

----------------------------------------------------------------------------
(* Refusals. *)

\* Faulty: the mode is not gated.
RefusalUngated(r) ==
  IF r.body = "bad" \/ r.flow = "refused" \/ r.mode = "unknown" THEN 400 ELSE 0

\* What the handlers refuse of their own accord, before anybody is charged.
Refusal(r) ==
  IF r.body = "bad" \/ r.flow = "refused" \/ r.mode = "unknown" THEN 400 ELSE
  IF r.mode = "kermit" /\ ~ KermitEnabled THEN 409 ELSE 0

\* Faulty: a request that another check refuses is counted as abuse.
AbuseAnyRefusal(r) == Refusal(r) # 0

\* The guard only sees requests that could be decoded.
Abuse(r) == r.body = "good" /\ r.flow = "refused"

Refuse(q) ==
  /\ StartsRun(q) /\ Refusal(request[q]) # 0
  /\ Answer(q, "new", Refusal(request[q]))
  /\ IF Abuse(request[q]) THEN Inc("abuse_rejections") ELSE UNCHANGED metrics
  /\ UNCHANGED <<clock, request, wake, agentVars, limitVars, runVars, idVars, events>>

Accept(q) ==
  /\ StartsRun(q) /\ Refusal(request[q]) = 0
  /\ Goto(q, "new", "checked")
  /\ UNCHANGED <<clock, request, answer, wake, agentVars, limitVars, runVars,
                 idVars, metrics, events>>

\* handleVerify asks the limiter first.
Unlimited(q) == IF request[q].kind = "verify" THEN "new" ELSE "checked"

Admit(q) ==
  LET p == request[q].peer
  IN  /\ request[q].kind \notin {"event", "receipt"} /\ tokens[p] > 0
      /\ Goto(q, Unlimited(q), "admitted")
      /\ tokens' = [tokens EXCEPT ![p] = @ - 1]
      /\ charged' = charged \cup {q}
      /\ UNCHANGED <<clock, request, answer, wake, agentVars, runVars, idVars,
                     metrics, events>>

Reject(q) ==
  /\ request[q].kind \notin {"event", "receipt"} /\ tokens[request[q].peer] = 0
  /\ Answer(q, Unlimited(q), 429)
  /\ Inc("rate_limited")
  /\ UNCHANGED <<clock, request, wake, agentVars, limitVars, runVars, idVars, events>>

Refill(p) ==
  /\ tokens[p] < Burst
  /\ tokens' = [tokens EXCEPT ![p] = @ + 1]
  /\ UNCHANGED <<clock, callVars, charged, runVars, idVars, metrics, events>>

----------------------------------------------------------------------------
(* The calls that start no run. *)

Verify(q) ==
  /\ request[q].kind = "verify"
  /\ IF request[q].body = "bad"
       THEN Answer(q, "admitted", 400) /\ UNCHANGED metrics
       ELSE Answer(q, "admitted", 200) /\ Inc("verifications")
  /\ UNCHANGED <<clock, request, wake, agentVars, limitVars, runVars, idVars, events>>

RefuseEvent(q) ==
  /\ request[q].kind = "event"
  /\ request[q].body = "bad" \/ Abuse(request[q])
  /\ Answer(q, "new", 400)
  /\ IF Abuse(request[q]) THEN Inc("abuse_rejections") ELSE UNCHANGED metrics
  /\ UNCHANGED <<clock, request, wake, agentVars, limitVars, runVars, idVars, events>>

KeepEvent(q) ==
  /\ request[q].kind = "event" /\ request[q].body = "good" /\ ~ Abuse(request[q])
  /\ Goto(q, "new", "kept")
  /\ events' = events + 1
  /\ UNCHANGED <<clock, request, answer, wake, agentVars, limitVars, runVars,
                 idVars, metrics>>

CountEvent(q) ==
  /\ Answer(q, "kept", 202)
  /\ Inc("events_received")
  /\ UNCHANGED <<clock, request, wake, agentVars, limitVars, runVars, idVars, events>>

\* A share link, of a receipt that the store has or of one that it has not.
ViewReceipt(q) ==
  /\ request[q].kind = "receipt"
  /\ \/ Answer(q, "new", 404) /\ UNCHANGED metrics
     \/ /\ \E r \in Calls : store[r] # Gone
        /\ Answer(q, "new", 200) /\ Inc("receipt_views")
  /\ UNCHANGED <<clock, request, wake, agentVars, limitVars, runVars, idVars, events>>

----------------------------------------------------------------------------
(* RunManager.Start, in the handler's goroutine. *)

\* Faulty: the ID is one more than the number of runs in the registry.
TakeIDBySize(q) ==
  /\ StartsRun(q) /\ Goto(q, "admitted", "numbered")
  /\ counter' = counter
  /\ runID' = [runID EXCEPT ![q] =
                 Cardinality({i \in IDs : registry[i] # NoRun}) + 1]
  /\ UNCHANGED <<clock, request, answer, wake, agentVars, limitVars, runVars,
                 registry, metrics, events>>

\* atomic.AddInt64
TakeID(q) ==
  /\ StartsRun(q) /\ Goto(q, "admitted", "numbered")
  /\ counter' = counter + 1
  /\ runID' = [runID EXCEPT ![q] = counter + 1]
  /\ UNCHANGED <<clock, request, answer, wake, agentVars, limitVars, runVars,
                 registry, metrics, events>>

Register(q) ==
  /\ Goto(q, "numbered", "registered")
  /\ registry' = [registry EXCEPT ![runID[q]] = q]
  /\ UNCHANGED <<clock, request, answer, wake, agentVars, limitVars, runVars,
                 counter, runID, metrics, events>>

\* Counted, made running, and left to a goroutine of its own.
Launch(q) ==
  /\ IF request[q].kind = "run"
       THEN Answer(q, "registered", 202) /\ UNCHANGED <<wake, agentVars>>
       ELSE /\ Goto(q, "registered", "looking")
            /\ wake' = [wake EXCEPT ![q] = clock]
            /\ deadline' = [deadline EXCEPT ![q] = clock + Timeout]
            /\ began' = [began EXCEPT ![q] = clock]
            /\ UNCHANGED answer
  /\ run' = [run EXCEPT ![q] = "running"]
  /\ Inc("runs_started")
  /\ UNCHANGED <<clock, request, limitVars, endedAt, store, idVars, events>>

----------------------------------------------------------------------------
(* RunManager.execute. *)

Advance(q, from, to) ==
  /\ run[q] = from /\ run' = [run EXCEPT ![q] = to]
  /\ UNCHANGED <<clock, callVars, limitVars, idVars, metrics, events>>

\* The node may never answer.
NodeAnswers(q) ==
  /\ Advance(q, "running", "storing") /\ UNCHANGED <<endedAt, store>>

Put(q) ==
  /\ Advance(q, "storing", "stored")
  /\ store' = [store EXCEPT ![q] = clock]
  /\ UNCHANGED endedAt

\* Faulty: the run does not wait for its record.
FinishEarly(q) ==
  /\ \E from \in {"storing", "stored"} : Advance(q, from, "complete")
  /\ endedAt' = [endedAt EXCEPT ![q] = clock]
  /\ UNCHANGED store

\* finishOK
Finish(q) ==
  /\ Advance(q, "stored", "complete")
  /\ endedAt' = [endedAt EXCEPT ![q] = clock]
  /\ UNCHANGED store

\* finishErr: the node, the verification or the store failed.
Fail(q) ==
  /\ \E from \in {"running", "storing"} : Advance(q, from, "failed")
  /\ endedAt' = [endedAt EXCEPT ![q] = clock]
  /\ UNCHANGED store

\* ReceiptStore.Cleanup
Cleanup ==
  LET old == {q \in Calls : store[q] # Gone /\ store[q] < clock - Keep}
  IN  /\ old # {}
      /\ store' = [q \in Calls |-> IF q \in old THEN Gone ELSE store[q]]
      /\ UNCHANGED <<clock, callVars, limitVars, run, endedAt, idVars, metrics,
                     events>>

----------------------------------------------------------------------------
(* The agent's loop. *)

\* What the loop leaves alone.
Apart == <<clock, request, agentVars, limitVars, runVars, idVars, metrics, events>>

\* Faulty: the deadline is checked before the run is looked at.
LookTooLate(q) ==
  /\ pc[q] \in {"looking", "waiting"} /\ clock >= wake[q]
  /\ IF clock > deadline[q] THEN Answer(q, pc[q], 504) ELSE
     CASE run[q] = "failed"   -> Answer(q, pc[q], 502)
       [] run[q] = "complete" -> Goto(q, pc[q], "fetching") /\ UNCHANGED answer
       [] OTHER               -> Goto(q, pc[q], "judging") /\ UNCHANGED answer
  /\ UNCHANGED <<wake, Apart>>

\* One snapshot of the run.
Look(q) ==
  /\ pc[q] \in {"looking", "waiting"} /\ clock >= wake[q]
  /\ CASE run[q] = "failed"   -> Answer(q, pc[q], 502)
       [] run[q] = "complete" -> Goto(q, pc[q], "fetching") /\ UNCHANGED answer
       [] OTHER               -> Goto(q, pc[q], "judging") /\ UNCHANGED answer
  /\ UNCHANGED <<wake, Apart>>

Fetch(q) ==
  /\ Answer(q, "fetching", IF store[q] = Gone THEN 500 ELSE 200)
  /\ UNCHANGED <<wake, Apart>>

GiveUp(q) ==
  /\ clock > deadline[q]
  /\ Answer(q, "judging", 504)
  /\ UNCHANGED <<wake, Apart>>

\* Faulty: the deadline is put off with every pause.
WaitAnew(q) ==
  /\ clock <= deadline[q]
  /\ Goto(q, "judging", "waiting")
  /\ wake' = [wake EXCEPT ![q] = clock + Poll]
  /\ deadline' = [deadline EXCEPT ![q] = clock + Timeout]
  /\ UNCHANGED <<clock, request, answer, began, limitVars, runVars, idVars, metrics, events>>

Wait(q) ==
  /\ clock <= deadline[q]
  /\ Goto(q, "judging", "waiting")
  /\ wake' = [wake EXCEPT ![q] = clock + Poll]
  /\ UNCHANGED <<answer, Apart>>

\* The agent has closed the connection; its run goes on.
HangUp(q) ==
  /\ Goto(q, "waiting", "gone")
  /\ UNCHANGED <<answer, wake, Apart>>

AgentLoop(q) == Look(q) \/ Fetch(q) \/ GiveUp(q) \/ Wait(q) \/ HangUp(q)

----------------------------------------------------------------------------
Polling(q) == pc[q] \in {"looking", "waiting", "fetching", "judging"}

\* A handler that may run does so within Stall, a stored run ends within Lag.
Tick ==
  /\ clock < Horizon
  /\ \A q \in Calls : /\ Polling(q) => clock < wake[q] + Stall
                      /\ run[q] = "stored" => clock < store[q] + Lag
  /\ clock' = clock + 1
  /\ UNCHANGED <<callVars, limitVars, runVars, idVars, metrics, events>>

Handle(q) ==
  \/ Refuse(q) \/ Accept(q) \/ Admit(q) \/ Reject(q)
  \/ Verify(q) \/ RefuseEvent(q) \/ KeepEvent(q) \/ CountEvent(q)
  \/ ViewReceipt(q)
  \/ TakeID(q) \/ Register(q) \/ Launch(q)

Execute(q) == NodeAnswers(q) \/ Put(q) \/ Finish(q) \/ Fail(q)

Next ==
  \/ \E q \in Calls : Handle(q) \/ Execute(q) \/ AgentLoop(q)
  \/ \E p \in Peers : Refill(p)
  \/ Cleanup \/ Tick

Spec == Init /\ [][Next]_vars

----------------------------------------------------------------------------
(* Properties. *)

Latest(q) == began[q] + Timeout

\* The types.
TypeOK ==
  /\ clock \in 0..Horizon /\ request \in [Calls -> Requests]
  /\ pc \in [Calls -> {"new", "checked", "admitted", "kept", "numbered", "registered",
                       "looking", "judging", "waiting", "fetching", "answered", "gone"}]
  /\ answer \in [Calls -> {0, 200, 202, 400, 404, 409, 429, 500, 502, 504}]
  /\ wake \in [Calls -> Nat] /\ began \in [Calls -> 0..Horizon]
  /\ deadline \in [Calls -> Nat]
  /\ tokens \in [Peers -> 0..Burst] /\ charged \subseteq Calls
  /\ counter \in 0..Cardinality(Calls) /\ runID \in [Calls -> {0} \cup IDs]
  /\ registry \in [IDs -> Calls \cup {NoRun}]
  /\ run \in [Calls -> {NoRun, "running", "storing", "stored", "complete", "failed"}]
  /\ endedAt \in [Calls -> 0..Horizon \cup {Gone}]
  /\ store \in [Calls -> 0..Horizon \cup {Gone}]
  /\ metrics \in [Metrics -> Nat] /\ events \in Nat

\* A call that was told an ID finds its own run under it (handleGetRun and
\* handleRunEvents look it up in the registry), however many start at once.
RunsAreFound ==
  \A q \in Calls : run[q] # NoRun => registry[runID[q]] = q

\* "The abuse guard, mode gating, and rate limiter are the SAME as /api/runs"
\* (agent.go 33-34): whichever endpoint started it, a run has an allowed flow
\* and mode and was paid for; a refused call started none and paid nothing.
RunsAreAllowed ==
  \A q \in Calls :
    /\ run[q] # NoRun =>
         /\ request[q].body = "good" /\ request[q].flow = "listed"
         /\ request[q].mode # "unknown"
         /\ request[q].mode = "kermit" => KermitEnabled
         /\ q \in charged
    /\ StartsRun(q) /\ answer[q] \in {400, 409, 429} =>
         run[q] = NoRun /\ q \notin charged

\* "bounded by a timeout" (agent.go 47-48): an agent is never kept waiting for
\* longer than its deadline, a pause and a stall, whatever the node does.
AgentAnsweredInTime ==
  \A q \in Calls : Polling(q) => clock <= Latest(q) + Poll + Stall

\* 504, "run did not complete within the timeout" (agent.go 115), is not said of
\* a run that was over by the deadline, a stall of the handler aside.
TimeoutIsHonest ==
  \A q \in Calls : answer[q] = 504 =>
    endedAt[q] = Gone \/ endedAt[q] > Latest(q) - Stall

\* 500, "run completed but no proof was stored" (agent.go 100), is never sent:
\* the record is there before the run is complete, and no sweep can take it
\* before the agent has looked.
ProofIsThere == \A q \in Calls : answer[q] # 500

\* What /metrics tells agrees with what was answered.
CountersAgree ==
  (\A q \in Calls : pc[q] \in {"new", "answered", "gone"}) =>
    /\ metrics["rate_limited"] = Cardinality({q \in Calls : answer[q] = 429})
    /\ metrics["abuse_rejections"] =
         Cardinality({q \in Calls : /\ answer[q] = 400 /\ request[q].kind # "verify"
                                    /\ request[q].body = "good"
                                    /\ request[q].flow = "refused"})
    /\ metrics["runs_started"] = Cardinality({q \in Calls : run[q] # NoRun})
    /\ metrics["events_received"] = events
    /\ \A k \in {"verify", "receipt"} :
         metrics[IF k = "verify" THEN "verifications" ELSE "receipt_views"] =
           Cardinality({q \in Calls : answer[q] = 200 /\ request[q].kind = k})
=============================================================================
