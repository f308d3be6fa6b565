-------------------------- MODULE PlaygroundProofs --------------------------
(* The HTTP surface, proved for all sets of calls, clients and requests, all
   limits and all times that satisfy PlaygroundAssumption.

   What a call has done is told by where its handler stands (Course); IDs are
   numbers that no two calls share (Numbers); each counter is the number of
   calls of its kind (Tallies).  The agent's properties are about time: the
   pause and the stall bound how long after the end of its run a handler looks
   (Timely), and the retention exceeds the sum of these and of the time a run
   takes to end once it is stored (Shelved).                              *)
EXTENDS Playground, FiniteSetTheorems, TLAPS

Starting == {"numbered", "registered"}
Ended    == {"complete", "failed"}

\* What a handler has done by the time it is where it is.
Course(q) ==
  /\ pc[q] \in {"new", "checked", "kept"} => q \notin charged
  /\ pc[q] \in {"admitted"} \cup Starting => q \in charged
  /\ pc[q] \in {"new", "checked", "kept", "admitted"} => runID[q] = 0
  /\ pc[q] \in {"new", "checked", "kept", "admitted"} \cup Starting => run[q] = NoRun
  /\ pc[q] \in {"checked"} \cup Starting => StartsRun(q)
  /\ StartsRun(q) /\ pc[q] \in {"checked", "admitted"} \cup Starting =>
       Refusal(request[q]) = 0
  /\ Polling(q) \/ pc[q] = "gone" => run[q] # NoRun
  /\ pc[q] # "answered" => answer[q] = 0
  /\ pc[q] = "kept" => request[q].kind = "event"
  /\ run[q] # NoRun => q \in charged /\ StartsRun(q) /\ Refusal(request[q]) = 0
  /\ StartsRun(q) /\ answer[q] \in {400, 409, 429} => run[q] = NoRun /\ q \notin charged

\* The registry knows a run under its ID from Register on.
Found(q) ==
  /\ pc[q] \in Starting \/ run[q] # NoRun => runID[q] # 0
  /\ pc[q] = "registered" \/ run[q] # NoRun => registry[runID[q]] = q

\* The IDs given out so far.
Numbers ==
  /\ counter = Cardinality({q \in Calls : runID[q] # 0})
  /\ \A q \in Calls : runID[q] <= counter
  /\ \A q, r \in Calls : runID[q] # 0 /\ runID[q] = runID[r] => q = r

\* How late an agent's handler may be, and how late it may see the end of its run.
Timely(q) ==
  /\ endedAt[q] # Gone <=> run[q] \in Ended
  /\ Polling(q) => /\ deadline[q] = Latest(q) /\ wake[q] <= Latest(q) + Poll
                   /\ wake[q] <= clock + Poll /\ clock <= wake[q] + Stall
                   /\ endedAt[q] # Gone => wake[q] <= endedAt[q] + Poll + Stall
  /\ pc[q] = "judging" => /\ wake[q] <= clock
                          /\ endedAt[q] # Gone => wake[q] <= endedAt[q]
  /\ answer[q] = 504 => /\ clock > Latest(q)
                        /\ endedAt[q] # Gone => endedAt[q] > Latest(q) - Stall

\* The record of an agent's run is there when the agent looks.
Shelved(q) ==
  /\ run[q] = "stored" => store[q] # Gone /\ clock <= store[q] + Lag
  /\ Polling(q) /\ run[q] = "complete" => store[q] # Gone /\ endedAt[q] <= store[q] + Lag
  /\ pc[q] = "fetching" => run[q] = "complete"
  /\ answer[q] # 500

\* The calls that each counter counts.
Counts(m, r) ==
  \/ m = "rate_limited" /\ answer[r] = 429
  \/ m = "abuse_rejections" /\ answer[r] = 400 /\ request[r].kind # "verify"
       /\ request[r].body = "good" /\ request[r].flow = "refused"
  \/ m = "runs_started" /\ run[r] # NoRun
  \/ m = "events_received" /\ answer[r] = 202 /\ request[r].kind = "event"
  \/ m = "verifications" /\ answer[r] = 200 /\ request[r].kind = "verify"
  \/ m = "receipt_views" /\ answer[r] = 200 /\ request[r].kind = "receipt"

\* An event is kept before it is counted.
Kept(r) == request[r].kind = "event" /\ (answer[r] = 202 \/ pc[r] = "kept")

Tallies ==
  /\ \A m \in Metrics : metrics[m] = Cardinality({r \in Calls : Counts(m, r)})
  /\ events = Cardinality({r \in Calls : Kept(r)})

IInv ==
  /\ TypeOK /\ Numbers
  /\ \A q \in Calls : Course(q) /\ Found(q) /\ Timely(q) /\ Shelved(q)

----------------------------------------------------------------------------
(* Types and IDs. *)

\* The constants and the clock as numbers.
LEMMA Constants ==
  /\ Burst \in Nat /\ Timeout \in Nat /\ Poll \in Nat \ {0} /\ Stall \in Nat /\ Lag \in Nat
  /\ Keep \in Nat /\ Horizon \in Nat /\ Keep >= Lag + Poll + 2 * Stall
  /\ IsFiniteSet(Calls) /\ Cardinality(Calls) \in Nat
BY PlaygroundAssumption, FS_CardinalityType

\* There is an ID left for a call that has none.
LEMMA IDsSuffice ==
  ASSUME TypeOK, Numbers, NEW q \in Calls, runID[q] = 0
  PROVE  counter + 1 \in IDs
<1> DEFINE N == {r \in Calls : runID[r] # 0}
<1>1. IsFiniteSet(Calls) /\ N \in SUBSET Calls /\ N # Calls
  BY Constants
<1>2. Cardinality(N) <= Cardinality(Calls) /\ Cardinality(N) # Cardinality(Calls)
  BY <1>1, FS_Subset
<1>3. counter = Cardinality(N) /\ counter \in Nat
  BY DEF Numbers, TypeOK
<1> HIDE DEF N
<1> QED
  BY <1>2, <1>3, Constants DEF IDs

Places   == {"new", "checked", "admitted", "kept", "numbered", "registered",
             "looking", "judging", "waiting", "fetching", "answered", "gone"}
Statuses == {0, 200, 202, 400, 404, 409, 429, 500, 502, 504}

\* Going on, being answered and being counted are well typed.
LEMMA StepTypes ==
  ASSUME TypeOK, NEW q \in Calls
  PROVE  /\ \A from, to : Goto(q, from, to) /\ to \in Places => pc' \in [Calls -> Places]
         /\ \A from, status : Answer(q, from, status) /\ status \in Statuses =>
              pc' \in [Calls -> Places] /\ answer' \in [Calls -> Statuses]
         /\ \A m \in Metrics : Inc(m) => metrics' \in [Metrics -> Nat]
<1>1. pc \in [Calls -> Places] /\ answer \in [Calls -> Statuses] /\ metrics \in [Metrics -> Nat]
  BY DEF TypeOK, Places, Statuses
<1>2. "answered" \in Places
  BY DEF Places
<1>3. ASSUME NEW from, NEW to, Goto(q, from, to), to \in Places
      PROVE  pc' \in [Calls -> Places]
  BY <1>1, <1>3 DEF Goto
<1>4. ASSUME NEW from, NEW status, Answer(q, from, status), status \in Statuses
      PROVE  pc' \in [Calls -> Places] /\ answer' \in [Calls -> Statuses]
  BY <1>1, <1>2, <1>3, <1>4 DEF Answer
<1>5. ASSUME NEW m \in Metrics, Inc(m) PROVE metrics' \in [Metrics -> Nat]
  BY <1>1, <1>5 DEF Inc
<1> QED
  BY <1>3, <1>4, <1>5

\* The types are kept.
LEMMA TypeSteps ==
  ASSUME IInv, Next
  PROVE  TypeOK'
<1>0. TypeOK
  BY DEF IInv
<1>a. /\ \A k \in {"abuse_rejections", "rate_limited", "verifications", "runs_started",
                   "events_received", "receipt_views"} : k \in Metrics
      /\ metrics \in [Metrics -> Nat]
      /\ \A r : Refusal(r) \in {0, 400, 409}
  BY <1>0 DEF Metrics, TypeOK, Refusal
<1>1. ASSUME pc' \in [Calls -> Places], answer' \in [Calls -> Statuses],
             metrics' \in [Metrics -> Nat],
             UNCHANGED <<clock, request, wake, agentVars, runVars, idVars>>,
             tokens' \in [Peers -> 0..Burst], charged' \subseteq Calls, events' \in Nat
      PROVE  TypeOK'
  BY <1>0, <1>1 DEF TypeOK, Places, Statuses, agentVars, runVars, idVars
<1>2. ASSUME NEW q \in Calls, Refuse(q) \/ Reject(q) \/ Verify(q) \/ RefuseEvent(q) \/ CountEvent(q)
                               \/ ViewReceipt(q)
      PROVE  TypeOK'
  <2>1. /\ UNCHANGED <<clock, request, wake, agentVars, limitVars, runVars, idVars, events>>
        /\ \E from, status : Answer(q, from, status) /\ status \in {200, 202, 400, 404, 409, 429}
    BY <1>2, <1>a DEF Refuse, Reject, Verify, RefuseEvent, CountEvent, ViewReceipt
  <2>2. UNCHANGED metrics \/ \E m \in Metrics : Inc(m)
    BY <1>2, <1>a DEF Refuse, Reject, Verify, RefuseEvent, CountEvent, ViewReceipt
  <2>3. pc' \in [Calls -> Places] /\ answer' \in [Calls -> Statuses]
    BY <1>0, <2>1, StepTypes DEF Statuses
  <2>4. metrics' \in [Metrics -> Nat]
    BY <1>0, <1>a, <2>2, StepTypes
  <2> QED
    BY <1>0, <1>1, <2>1, <2>3, <2>4 DEF TypeOK, limitVars
<1>3. ASSUME NEW q \in Calls, Accept(q) \/ Admit(q) \/ KeepEvent(q)
      PROVE  TypeOK'
  <2>1. /\ UNCHANGED <<clock, request, answer, wake, agentVars, runVars, idVars, metrics>>
        /\ \E from, to : Goto(q, from, to) /\ to \in {"checked", "admitted", "kept"}
    BY <1>3 DEF Accept, Admit, KeepEvent
  <2>2. events' \in {events, events + 1} /\ charged' \in {charged, charged \cup {q}}
    BY <1>3 DEF Accept, Admit, KeepEvent, limitVars
  <2>3. tokens' \in [Peers -> 0..Burst]
    BY <1>0, <1>3, Constants DEF TypeOK, Accept, Admit, KeepEvent, limitVars
  <2>4. pc' \in [Calls -> Places]
    BY <1>0, <2>1, StepTypes DEF Places
  <2> QED
    BY <1>0, <1>1, <2>1, <2>2, <2>3, <2>4 DEF TypeOK, Statuses
<1>4. ASSUME NEW q \in Calls, TakeID(q) PROVE TypeOK'
  <2>1. pc' \in [Calls -> Places]
    BY <1>0, <1>4, StepTypes DEF TakeID, Places
  <2>2. counter + 1 \in IDs
    BY <1>0, <1>4, IDsSuffice DEF IInv, Course, TakeID, Goto
  <2>3. counter' \in 0..Cardinality(Calls) /\ runID' \in [Calls -> {0} \cup IDs]
    BY <1>0, <1>4, <2>2, Constants DEF TypeOK, TakeID, IDs
  <2> QED
    BY <1>0, <1>4, <2>1, <2>3 DEF TakeID, TypeOK, Places, agentVars, limitVars, runVars
<1>5. ASSUME NEW q \in Calls, Register(q) PROVE TypeOK'
  <2>1. pc' \in [Calls -> Places]
    BY <1>0, <1>5, StepTypes DEF Register, Places
  <2>2. registry' \in [IDs -> Calls \cup {NoRun}]
    BY <1>0, <1>5 DEF TypeOK, Register
  <2> QED
    BY <1>0, <1>5, <2>1, <2>2 DEF Register, TypeOK, Places, agentVars, limitVars, runVars
<1>6. ASSUME NEW q \in Calls, Launch(q) PROVE TypeOK'
  <2>1. pc' \in [Calls -> Places] /\ answer' \in [Calls -> Statuses]
    <3>1. CASE request[q].kind = "run"
      BY <1>0, <1>6, <3>1, StepTypes DEF Launch, Statuses
    <3>2. CASE request[q].kind # "run"
      <4>1. Goto(q, "registered", "looking") /\ UNCHANGED answer
        BY <1>6, <3>2 DEF Launch
      <4> QED
        BY <1>0, <4>1, StepTypes DEF Places, Statuses, TypeOK
    <3> QED
      BY <3>1, <3>2
  <2>2. metrics' \in [Metrics -> Nat]
    BY <1>0, <1>a, <1>6, StepTypes DEF Launch
  <2>3. run' \in [Calls -> {NoRun, "running", "storing", "stored", "complete", "failed"}]
    BY <1>0, <1>6 DEF TypeOK, Launch
  <2>4. wake' \in [Calls -> Nat] /\ deadline' \in [Calls -> Nat] /\ began' \in [Calls -> 0..Horizon]
    BY <1>0, <1>6, Constants DEF TypeOK, Launch, agentVars
  <2> QED
    BY <1>0, <1>6, <2>1, <2>2, <2>3, <2>4 DEF Launch, TypeOK, Places, Statuses, limitVars, idVars
<1>7. ASSUME NEW q \in Calls, Execute(q) PROVE TypeOK'
  <2>1. /\ UNCHANGED <<clock, callVars, limitVars, idVars, metrics, events>>
        /\ \E to \in {"storing", "stored", "complete", "failed"} : run' = [run EXCEPT ![q] = to]
    BY <1>7 DEF Execute, NodeAnswers, Put, Finish, Fail, Advance
  <2>2. /\ endedAt' \in {endedAt, [endedAt EXCEPT ![q] = clock]}
        /\ store' \in {store, [store EXCEPT ![q] = clock]}
    BY <1>7 DEF Execute, NodeAnswers, Put, Finish, Fail, Advance
  <2>3. run' \in [Calls -> {NoRun, "running", "storing", "stored", "complete", "failed"}]
    BY <1>0, <2>1 DEF TypeOK
  <2>4. endedAt' \in [Calls -> 0..Horizon \cup {Gone}] /\ store' \in [Calls -> 0..Horizon \cup {Gone}]
    BY <1>0, <2>2 DEF TypeOK
  <2> QED
    BY <1>0, <2>1, <2>3, <2>4 DEF TypeOK, callVars, agentVars, limitVars, idVars
<1>8. ASSUME NEW q \in Calls, AgentLoop(q) PROVE TypeOK'
  <2>1. pc' \in [Calls -> Places] /\ answer' \in [Calls -> Statuses] /\ UNCHANGED Apart
    <3>1. \/ \E from, status : Answer(q, from, status) /\ status \in {200, 500, 502, 504}
          \/ UNCHANGED answer
             /\ \E from, to : Goto(q, from, to) /\ to \in {"fetching", "judging", "waiting", "gone"}
      BY <1>8 DEF AgentLoop, Look, Fetch, GiveUp, Wait, HangUp
    <3>2. UNCHANGED Apart
      BY <1>8 DEF AgentLoop, Look, Fetch, GiveUp, Wait, HangUp
    <3>3. answer \in [Calls -> Statuses]
      BY <1>0 DEF TypeOK, Statuses
    <3> QED
      BY <1>0, <3>1, <3>2, <3>3, StepTypes DEF Places, Statuses
  <2>2. wake' \in [Calls -> Nat]
    <3>1. wake' \in {wake, [wake EXCEPT ![q] = clock + Poll]}
      BY <1>8 DEF AgentLoop, Look, Fetch, GiveUp, Wait, HangUp
    <3>2. wake \in [Calls -> Nat] /\ clock + Poll \in Nat
      BY <1>0, Constants DEF TypeOK
    <3> QED
      BY <3>1, <3>2
  <2> QED
    BY <1>0, <2>1, <2>2 DEF TypeOK, Apart, Places, Statuses, agentVars, limitVars, runVars, idVars
<1>9. ASSUME NEW p \in Peers, Refill(p) PROVE TypeOK'
  <2>1. tokens' \in [Peers -> 0..Burst]
    BY <1>0, <1>9, Constants DEF TypeOK, Refill
  <2> QED
    BY <1>0, <1>9, <2>1 DEF TypeOK, Refill, callVars, agentVars, runVars, idVars
<1>10. CASE Cleanup
  <2>1. store' \in [Calls -> 0..Horizon \cup {Gone}]
    BY <1>0, <1>10 DEF TypeOK, Cleanup
  <2> QED
    BY <1>0, <1>10, <2>1 DEF TypeOK, Cleanup, callVars, agentVars, limitVars, idVars
<1>11. CASE Tick
  <2>1. clock' \in 0..Horizon
    BY <1>0, <1>11, Constants DEF TypeOK, Tick
  <2> QED
    BY <1>0, <1>11, <2>1 DEF TypeOK, Tick, callVars, agentVars, limitVars, runVars, idVars
<1> QED
  BY <1>2, <1>3, <1>4, <1>5, <1>6, <1>7, <1>8, <1>9, <1>10, <1>11 DEF Next, Handle

\* No ID is given out twice.
LEMMA NumberSteps ==
  ASSUME IInv, Next
  PROVE  Numbers'
<1>0. TypeOK /\ Numbers
  BY DEF IInv
<1>1. CASE UNCHANGED <<counter, runID>>
  BY <1>0, <1>1 DEF Numbers
<1>2. ASSUME NEW q \in Calls, TakeID(q) PROVE Numbers'
  <2> DEFINE N == {r \in Calls : runID[r] # 0}
             M == {r \in Calls : runID'[r] # 0}
  <2>1. /\ counter \in Nat /\ runID[q] = 0 /\ counter' = counter + 1
        /\ \A r \in Calls : runID[r] \in Nat /\ runID[r] <= counter
        /\ \A r \in Calls : runID'[r] = IF r = q THEN counter + 1 ELSE runID[r]
    <3>1. Course(q) /\ pc[q] = "admitted"
      BY <1>2 DEF IInv, TakeID, Goto
    <3> QED
      BY <1>0, <1>2, <3>1 DEF TypeOK, IDs, TakeID, Numbers, Course
  <2>2. M = N \cup {q} /\ q \notin N /\ N \in SUBSET Calls
    BY <2>1
  <2>3. IsFiniteSet(N)
    BY <2>2, Constants, FS_Subset
  <2>4. Cardinality(N \cup {q}) = Cardinality(N) + 1
    BY <2>2, <2>3, FS_AddElement
  <2>5. counter' = Cardinality(M)
    <3>1. counter = Cardinality(N)
      BY <1>0 DEF Numbers
    <3> HIDE DEF N, M
    <3> QED
      BY <2>1, <2>2, <2>4, <3>1
  <2>6. \A r \in Calls : runID'[r] <= counter'
    BY <2>1
  <2>7. \A r, v \in Calls : runID'[r] # 0 /\ runID'[r] = runID'[v] => r = v
    BY <1>0, <2>1 DEF Numbers
  <2> QED
    BY <2>5, <2>6, <2>7 DEF Numbers
<1>3. ASSUME NEW q \in Calls, Handle(q) \/ Execute(q) \/ AgentLoop(q)
      PROVE  TakeID(q) \/ UNCHANGED <<counter, runID>>
  BY <1>3 DEF Handle, Refuse, Accept, Admit, Reject, Verify, RefuseEvent, KeepEvent, CountEvent,
     ViewReceipt, Register, Launch, Execute, NodeAnswers, Put, Finish, Fail, Advance,
     AgentLoop, Look, Fetch, GiveUp, Wait, HangUp, Apart, idVars
<1>4. ASSUME NEW p \in Peers, Refill(p) PROVE UNCHANGED <<counter, runID>>
  BY <1>4 DEF Refill, idVars
<1>5. CASE Cleanup \/ Tick
  BY <1>1, <1>5 DEF Cleanup, Tick, idVars
<1> QED
  BY <1>1, <1>2, <1>3, <1>4, <1>5 DEF Next

----------------------------------------------------------------------------
(* What holds of each call. *)

\* All that these parts of the invariant look at, besides the clock.
Untouched(r) ==
  /\ pc'[r] = pc[r] /\ answer'[r] = answer[r] /\ wake'[r] = wake[r]
  /\ deadline'[r] = deadline[r] /\ began'[r] = began[r] /\ runID'[r] = runID[r]
  /\ run'[r] = run[r] /\ endedAt'[r] = endedAt[r] /\ store'[r] = store[r]
  /\ r \in charged' <=> r \in charged

CallInv(r) == Course(r) /\ Found(r) /\ Timely(r) /\ Shelved(r)

\* A step of one call does not touch the others, nor the time, nor what is asked.
LEMMA OthersUntouched ==
  ASSUME TypeOK, NEW q \in Calls, Handle(q) \/ Execute(q) \/ AgentLoop(q)
  PROVE  UNCHANGED <<clock, request>> /\ \A r \in Calls \ {q} : Untouched(r)
<1> USE DEF TypeOK, Untouched
<1>1. CASE Refuse(q) \/ Reject(q) \/ Verify(q) \/ RefuseEvent(q) \/ CountEvent(q) \/ ViewReceipt(q)
  BY <1>1 DEF Refuse, Reject, Verify, RefuseEvent, CountEvent, ViewReceipt, Answer, Goto,
     agentVars, limitVars, runVars, idVars
<1>2. CASE Accept(q) \/ Admit(q) \/ KeepEvent(q)
  BY <1>2 DEF Accept, Admit, KeepEvent, Goto, agentVars, limitVars, runVars, idVars
<1>3. CASE TakeID(q) \/ Register(q) \/ Launch(q)
  BY <1>3 DEF TakeID, Register, Launch, Answer, Goto, agentVars, limitVars, runVars, idVars
<1>4. CASE Execute(q)
  BY <1>4 DEF Execute, NodeAnswers, Put, Finish, Fail, Advance, callVars, agentVars, limitVars, idVars
<1>5. CASE AgentLoop(q)
  BY <1>5 DEF AgentLoop, Look, Fetch, GiveUp, Wait, HangUp, Apart, Answer, Goto, agentVars, limitVars,
     runVars, idVars
<1> QED
  BY <1>1, <1>2, <1>3, <1>4, <1>5 DEF Handle

\* What is not touched stays as it is.
LEMMA UntouchedStays ==
  ASSUME NEW r \in Calls, Untouched(r), CallInv(r), UNCHANGED <<clock, request>>,
         runID[r] # 0 => registry'[runID[r]] = registry[runID[r]]
  PROVE  CallInv(r)'
<1>1. Course(r)'
  BY DEF Untouched, CallInv, Course, StartsRun, Polling
<1>2. Found(r)'
  BY DEF Untouched, CallInv, Found, Starting, NoRun
<1>3. Timely(r)'
  BY DEF Untouched, CallInv, Timely, Polling, Latest
<1>4. Shelved(r)'
  BY DEF Untouched, CallInv, Shelved, Polling
<1> QED
  BY <1>1, <1>2, <1>3, <1>4 DEF CallInv

Unlaunched == {"new", "checked", "kept", "admitted", "numbered", "registered"}

\* A call whose run is not launched yet has nothing to be late for.
LEMMA UnlaunchedIsTimely ==
  ASSUME NEW q \in Calls, CallInv(q), UNCHANGED <<run, endedAt, store>>,
         pc[q] \in Unlaunched, pc'[q] \in Unlaunched \cup {"answered"}, answer'[q] \notin {500, 504}
  PROVE  run[q] = NoRun /\ Timely(q)' /\ Shelved(q)'
<1>1. run[q] = NoRun
  BY DEF CallInv, Course, Unlaunched, Starting
<1>2. ~ Polling(q)' /\ pc'[q] \notin {"judging", "fetching"} /\ answer'[q] \notin {500, 504}
  BY DEF Polling, Unlaunched
<1>3. run'[q] = run[q] /\ endedAt'[q] = endedAt[q]
  OBVIOUS
<1>4. Timely(q)'
  BY <1>2, <1>3 DEF CallInv, Timely, Ended, Gone
<1>5. Shelved(q)'
  BY <1>1, <1>2, <1>3 DEF Shelved, NoRun
<1> QED
  BY <1>1, <1>4, <1>5

\* A call that is answered without a run.
LEMMA AnswerKeeps ==
  ASSUME IInv, NEW q \in Calls, NEW from \in Unlaunched, NEW status \in {200, 202, 400, 404, 409, 429},
         Answer(q, from, status), UNCHANGED <<clock, request, wake, agentVars, limitVars, runVars, idVars>>,
         status \in {400, 409, 429} => ~ StartsRun(q) \/ from \in {"new", "checked"}
  PROVE  CallInv(q)'
<1>1. CallInv(q) /\ pc[q] = from /\ pc'[q] = "answered" /\ answer'[q] = status
  BY DEF IInv, CallInv, TypeOK, Answer, Goto
<1>2. run[q] = NoRun /\ Timely(q)' /\ Shelved(q)'
  BY <1>1, UnlaunchedIsTimely DEF runVars
<1>3. UNCHANGED <<request, run, runID, registry, charged>>
  BY DEF limitVars, runVars, idVars
<1>4. Course(q)'
  <2>1. from \in {"new", "checked"} => q \notin charged
    BY <1>1 DEF CallInv, Course
  <2>2. pc'[q] = "answered" /\ run'[q] = NoRun /\ (StartsRun(q)' <=> StartsRun(q))
        /\ (q \in charged' <=> q \in charged)
    BY <1>1, <1>2, <1>3 DEF StartsRun
  <2> QED
    BY <1>1, <2>1, <2>2 DEF Course, Starting, Polling, NoRun
<1>5. Found(q)'
  BY <1>1, <1>2, <1>3 DEF Found, Starting, NoRun
<1> QED
  BY <1>2, <1>4, <1>5 DEF CallInv

\* The steps of a handler before its run is launched.
LEMMA HandlerKeeps ==
  ASSUME IInv, NEW q \in Calls, Handle(q), ~ Launch(q)
  PROVE  CallInv(q)'
<1>0. TypeOK /\ CallInv(q) /\ Course(q) /\ Found(q)
  BY DEF IInv, CallInv
<1>1. CASE Refuse(q)
  <2>1. Refusal(request[q]) \in {400, 409}
    BY <1>1 DEF Refuse, Refusal
  <2> QED
    BY <1>1, <2>1, AnswerKeeps DEF Refuse, Unlaunched
<1>2. CASE Reject(q)
  <2>1. Unlimited(q) \in {"new", "checked"}
    BY DEF Unlimited
  <2> QED
    BY <1>2, <2>1, AnswerKeeps DEF Reject, Unlaunched
<1>3. CASE Verify(q) \/ RefuseEvent(q)
  <2>1. ~ StartsRun(q)
    BY <1>3 DEF Verify, RefuseEvent, StartsRun
  <2> QED
    BY <1>3, <2>1, AnswerKeeps DEF Verify, RefuseEvent, Unlaunched
<1>4. CASE CountEvent(q) \/ ViewReceipt(q)
  BY <1>4, AnswerKeeps DEF CountEvent, ViewReceipt, Unlaunched
<1>5. CASE Accept(q) \/ KeepEvent(q)
  <2>1. /\ pc[q] = "new" /\ UNCHANGED <<clock, request, answer, runVars, idVars, charged>>
        /\ \/ pc'[q] = "checked" /\ StartsRun(q) /\ Refusal(request[q]) = 0
           \/ pc'[q] = "kept" /\ ~ StartsRun(q) /\ request[q].kind = "event"
    BY <1>0, <1>5 DEF Accept, KeepEvent, Goto, TypeOK, limitVars, StartsRun
  <2>2. run[q] = NoRun /\ Timely(q)' /\ Shelved(q)'
    BY <1>0, <2>1, UnlaunchedIsTimely DEF Unlaunched, runVars, Course
  <2>3. Course(q)'
    <3>1. q \notin charged' /\ run'[q] = NoRun /\ runID'[q] = 0 /\ answer'[q] = 0
      BY <1>0, <2>1, <2>2 DEF Course, runVars, idVars
    <3> QED
      BY <2>1, <3>1 DEF Course, Starting, Polling, NoRun, StartsRun
  <2>4. Found(q)'
    BY <2>1, <2>2 DEF Found, Starting, NoRun, runVars
  <2> QED
    BY <2>2, <2>3, <2>4 DEF CallInv
<1>6. CASE Admit(q)
  <2>1. /\ pc[q] \in {"new", "checked"} /\ pc'[q] = "admitted" /\ q \in charged'
        /\ UNCHANGED <<clock, request, answer, runVars, idVars>>
        /\ pc[q] = "new" => ~ StartsRun(q)
    BY <1>0, <1>6 DEF Admit, Goto, TypeOK, Unlimited, StartsRun
  <2>2. run[q] = NoRun /\ Timely(q)' /\ Shelved(q)'
    BY <1>0, <2>1, UnlaunchedIsTimely DEF Unlaunched, runVars, Course
  <2>3. Course(q)'
    <3>1. run'[q] = NoRun /\ runID'[q] = 0 /\ answer'[q] = 0
          /\ (StartsRun(q) => Refusal(request[q]) = 0)
      BY <1>0, <2>1, <2>2 DEF Course, runVars, idVars
    <3> QED
      BY <2>1, <3>1 DEF Course, Starting, Polling, NoRun, StartsRun
  <2>4. Found(q)'
    BY <2>1, <2>2 DEF Found, Starting, NoRun, runVars
  <2> QED
    BY <2>2, <2>3, <2>4 DEF CallInv
<1>7. CASE TakeID(q) \/ Register(q)
  <2>1. /\ pc[q] \in {"admitted", "numbered"} /\ pc'[q] \in Starting /\ StartsRun(q)
        /\ UNCHANGED <<clock, request, answer, runVars, charged>>
    BY <1>0, <1>7 DEF TakeID, Register, Goto, TypeOK, limitVars, Course, Starting
  <2>2. run[q] = NoRun /\ Timely(q)' /\ Shelved(q)'
    BY <1>0, <2>1, UnlaunchedIsTimely DEF Unlaunched, runVars, Course, Starting
  <2>3. Course(q)'
    <3>1. run'[q] = NoRun /\ q \in charged' /\ answer'[q] = 0 /\ Refusal(request[q]) = 0
      BY <1>0, <2>1, <2>2 DEF Course, runVars, Starting
    <3> QED
      BY <2>1, <3>1 DEF Course, Starting, Polling, NoRun, StartsRun
  <2>4. Found(q)'
    <3>1. CASE TakeID(q)
      <4>1. runID'[q] # 0 /\ pc'[q] = "numbered"
        BY <1>0, <3>1 DEF TakeID, Goto, TypeOK
      <4> QED
        BY <2>1, <2>2, <4>1 DEF Found, Starting, NoRun, runVars
    <3>2. CASE Register(q)
      <4>1. /\ runID'[q] = runID[q] /\ runID[q] # 0
            /\ registry' = [registry EXCEPT ![runID[q]] = q]
        BY <1>0, <3>2 DEF Register, Goto, TypeOK, Found, Starting
      <4>2. registry'[runID[q]] = q
        BY <1>0, <4>1 DEF TypeOK
      <4> QED
        BY <4>1, <4>2 DEF Found
    <3> QED
      BY <1>7, <3>1, <3>2
  <2> QED
    BY <2>2, <2>3, <2>4 DEF CallInv
<1> QED
  BY <1>1, <1>2, <1>3, <1>4, <1>5, <1>6, <1>7 DEF Handle

\* A handler that has just launched its run is on time.
LEMMA LaunchKeeps ==
  ASSUME IInv, NEW q \in Calls, Launch(q)
  PROVE  CallInv(q)'
<1>0. TypeOK /\ CallInv(q)
  BY DEF IInv, CallInv
<1>1. pc[q] = "registered" /\ run'[q] = "running" /\ UNCHANGED <<clock, request, charged, endedAt, store, idVars>>
  BY <1>0 DEF Launch, Answer, Goto, TypeOK, limitVars
<1>2. q \in charged /\ StartsRun(q) /\ Refusal(request[q]) = 0 /\ run[q] = NoRun
      /\ runID[q] # 0 /\ registry[runID[q]] = q /\ answer[q] = 0
  BY <1>0, <1>1 DEF CallInv, Course, Found, Starting
<1>3. endedAt'[q] = Gone
  BY <1>0, <1>1, <1>2 DEF CallInv, Timely, Ended, NoRun
<1>4. \/ pc'[q] = "answered" /\ answer'[q] = 202
      \/ /\ pc'[q] = "looking" /\ answer'[q] = 0
         /\ wake'[q] = clock /\ deadline'[q] = clock + Timeout /\ began'[q] = clock
  BY <1>0, <1>2 DEF Launch, Answer, Goto, TypeOK
<1>5. Course(q)' /\ Found(q)'
  BY <1>1, <1>2, <1>4 DEF Course, Found, Starting, Polling, NoRun, StartsRun, idVars
<1>6. Timely(q)'
  <2>1. clock' = clock /\ clock \in Nat
    BY <1>0, <1>1 DEF TypeOK
  <2> QED
    BY <1>1, <1>3, <1>4, <2>1, Constants DEF Timely, Polling, Latest, Ended
<1>7. Shelved(q)'
  BY <1>1, <1>4 DEF Shelved
<1> QED
  BY <1>5, <1>6, <1>7 DEF CallInv

\* The times of a call as numbers.
LEMMA Times ==
  ASSUME TypeOK, NEW q \in Calls
  PROVE  /\ clock \in Int /\ clock >= 0 /\ wake[q] \in Int /\ deadline[q] \in Int
         /\ began[q] \in Int /\ Latest(q) \in Int
         /\ endedAt[q] \in Int /\ store[q] \in Int
         /\ endedAt[q] # Gone => endedAt[q] >= 0
         /\ store[q] # Gone => store[q] >= 0
BY Constants DEF TypeOK, Gone, Latest

\* However a run goes on while its agent polls.
LEMMA ExecuteKeeps ==
  ASSUME IInv, NEW q \in Calls, Execute(q)
  PROVE  CallInv(q)'
<1>0. TypeOK /\ CallInv(q) /\ Course(q) /\ Found(q) /\ Timely(q) /\ Shelved(q)
  BY DEF IInv, CallInv
<1>1. UNCHANGED <<clock, request, pc, answer, wake, deadline, began, runID, registry, charged>>
  BY DEF Execute, NodeAnswers, Put, Finish, Fail, Advance, callVars, agentVars, limitVars, idVars
<1>2. /\ run[q] \in {"running", "storing", "stored"}
      /\ run'[q] \in {"storing", "stored", "complete", "failed"}
  BY <1>0 DEF Execute, NodeAnswers, Put, Finish, Fail, Advance, TypeOK
<1>3. \/ run'[q] \notin Ended /\ endedAt'[q] = endedAt[q]
      \/ run'[q] \in Ended /\ endedAt'[q] = clock
  BY <1>0 DEF Execute, NodeAnswers, Put, Finish, Fail, Advance, TypeOK, Ended
<1>4. /\ run'[q] = "stored" => store'[q] = clock
      /\ run'[q] = "complete" => run[q] = "stored" /\ store'[q] = store[q]
  BY <1>0 DEF Execute, NodeAnswers, Put, Finish, Fail, Advance, TypeOK
<1>5. run[q] # NoRun /\ run[q] \notin Ended /\ endedAt[q] = Gone
  BY <1>0, <1>2 DEF NoRun, Ended, Timely
<1>6. Course(q)' /\ Found(q)'
  BY <1>0, <1>1, <1>2, <1>5 DEF Course, Found, Starting, Polling, NoRun, StartsRun
<1>7. Timely(q)'
  <2>1. endedAt'[q] # Gone <=> run'[q] \in Ended
    BY <1>0, <1>3, <1>5, Times DEF Gone
  <2>2. Polling(q)' =>
          /\ deadline'[q] = Latest(q)' /\ wake'[q] <= Latest(q)' + Poll
          /\ wake'[q] <= clock' + Poll /\ clock' <= wake'[q] + Stall
          /\ endedAt'[q] # Gone => wake'[q] <= endedAt'[q] + Poll + Stall
    <3>1. /\ Polling(q)' <=> Polling(q) /\ Latest(q)' = Latest(q)
          /\ wake'[q] = wake[q] /\ deadline'[q] = deadline[q] /\ clock' = clock
      BY <1>1 DEF Polling, Latest
    <3>2. wake[q] \in Int /\ clock \in Int
      BY <1>0, Times
    <3>3. Polling(q) => wake[q] <= clock + Poll + Stall
      BY <1>0, <3>2, Constants DEF Timely
    <3> QED
      BY <1>0, <1>1, <1>3, <1>5, <3>1, <3>3 DEF Timely
  <2>3. pc'[q] = "judging" =>
          wake'[q] <= clock' /\ (endedAt'[q] # Gone => wake'[q] <= endedAt'[q])
    BY <1>0, <1>1, <1>3, <1>5 DEF Timely
  <2>4. answer'[q] = 504 =>
          clock' > Latest(q)' /\ (endedAt'[q] # Gone => endedAt'[q] > Latest(q)' - Stall)
    <3>1. Latest(q)' = Latest(q) /\ answer'[q] = answer[q] /\ clock' = clock
      BY <1>1 DEF Latest
    <3>2. clock \in Int /\ Latest(q) \in Int
      BY <1>0, Times
    <3>3. answer[q] = 504 => clock > Latest(q) /\ clock > Latest(q) - Stall
      BY <1>0, <3>2, Constants DEF Timely
    <3> QED
      BY <1>3, <1>5, <3>1, <3>3
  <2> QED
    BY <2>1, <2>2, <2>3, <2>4 DEF Timely
<1>8. Shelved(q)'
  <2>1. run'[q] = "stored" => store'[q] # Gone /\ clock' <= store'[q] + Lag
    BY <1>0, <1>1, <1>4, Times, Constants DEF Gone
  <2>2. run'[q] = "complete" => store'[q] # Gone /\ endedAt'[q] <= store'[q] + Lag
    BY <1>0, <1>3, <1>4 DEF Shelved, Ended
  <2>3. pc'[q] # "fetching" /\ answer'[q] # 500
    BY <1>0, <1>1, <1>2 DEF Shelved
  <2> QED
    BY <2>1, <2>2, <2>3 DEF Shelved
<1> QED
  BY <1>6, <1>7, <1>8 DEF CallInv

\* The loop of an agent: whatever it sees of its run is no older than a stall.
LEMMA AgentKeeps ==
  ASSUME IInv, NEW q \in Calls, AgentLoop(q)
  PROVE  CallInv(q)'
<1>0. TypeOK /\ CallInv(q) /\ Course(q) /\ Found(q) /\ Timely(q) /\ Shelved(q)
  BY DEF IInv, CallInv
<1>1. UNCHANGED <<clock, request, deadline, began, runID, registry, charged, run, endedAt, store>>
  BY DEF AgentLoop, Look, Fetch, GiveUp, Wait, HangUp, Apart, agentVars, limitVars, runVars, idVars
<1>2. Polling(q) /\ run[q] # NoRun /\ answer[q] = 0 /\ ~ (pc[q] \in {"answered", "gone"})
  BY <1>0 DEF AgentLoop, Look, Fetch, GiveUp, Wait, HangUp, Answer, Goto, Polling, Course
<1>3. q \in charged /\ StartsRun(q) /\ Refusal(request[q]) = 0
  BY <1>0, <1>2 DEF Course
<1>4. /\ pc'[q] \in {"judging", "waiting", "fetching", "answered", "gone"}
      /\ pc'[q] # "answered" => answer'[q] = 0
      /\ answer'[q] \notin {400, 409, 429}
  BY <1>0, <1>2 DEF AgentLoop, Look, Fetch, GiveUp, Wait, HangUp, Answer, Goto, TypeOK
<1>5. Course(q)' /\ Found(q)'
  <2>1. /\ run'[q] # NoRun /\ q \in charged' /\ StartsRun(q)' /\ Refusal(request[q])' = 0
        /\ runID'[q] = runID[q] /\ registry' = registry /\ run'[q] = run[q]
    BY <1>1, <1>2, <1>3 DEF StartsRun, Refusal, NoRun
  <2>2. Course(q)'
    BY <1>4, <2>1 DEF Course, Starting, Polling, NoRun
  <2>3. Found(q)'
    BY <1>0, <1>2, <2>1 DEF Found
  <2> QED
    BY <2>2, <2>3
<1>6. Timely(q)' /\ Shelved(q)'
  <2>0. /\ clock' = clock /\ Latest(q)' = Latest(q) /\ deadline'[q] = deadline[q]
        /\ endedAt'[q] = endedAt[q] /\ run'[q] = run[q] /\ store'[q] = store[q]
    BY <1>1 DEF Latest
  <2>1. CASE Look(q)
    <3>1. wake'[q] = wake[q] /\ wake[q] <= clock
      BY <2>1 DEF Look
    <3>2. \/ pc'[q] = "answered" /\ answer'[q] = 502
          \/ pc'[q] = "fetching" /\ run[q] = "complete" /\ answer'[q] = 0
          \/ pc'[q] = "judging" /\ run[q] \notin Ended /\ answer'[q] = 0
      BY <1>0, <1>2, <2>1 DEF Look, Answer, Goto, TypeOK, Ended
    <3> QED
      BY <1>0, <1>2, <2>0, <3>1, <3>2 DEF Timely, Shelved, Polling, Ended
  <2>2. CASE Fetch(q)
    <3>1. run[q] = "complete" /\ pc'[q] = "answered" /\ answer'[q] = 200
      BY <1>0, <1>2, <2>2 DEF Fetch, Answer, Goto, TypeOK, Shelved, Polling
    <3> QED
      BY <1>0, <2>0, <3>1 DEF Timely, Shelved, Polling, Ended
  <2>3. CASE GiveUp(q)
    <3>1. pc[q] = "judging" /\ pc'[q] = "answered" /\ answer'[q] = 504 /\ clock > deadline[q]
      BY <1>0, <2>3 DEF GiveUp, Answer, Goto, TypeOK
    <3>2. clock > Latest(q) /\ clock <= wake[q] + Stall /\ (endedAt[q] # Gone => wake[q] <= endedAt[q])
      BY <1>0, <1>2, <3>1 DEF Timely
    <3>3. endedAt[q] # Gone => endedAt[q] > Latest(q) - Stall
      BY <1>0, <3>2, Times, Constants
    <3> QED
      BY <1>0, <2>0, <3>1, <3>2, <3>3 DEF Timely, Shelved, Polling, Ended
  <2>4. CASE Wait(q)
    <3>1. /\ pc[q] = "judging" /\ pc'[q] = "waiting" /\ answer'[q] = 0
          /\ wake'[q] = clock + Poll /\ clock <= deadline[q]
      BY <1>0, <1>2, <2>4 DEF Wait, Goto, TypeOK
    <3>2. /\ clock <= Latest(q) /\ deadline[q] = Latest(q) /\ clock <= wake[q] + Stall
          /\ endedAt[q] # Gone => wake[q] <= endedAt[q]
      BY <1>0, <1>2, <3>1 DEF Timely
    <3>3. /\ clock + Poll <= Latest(q) + Poll /\ clock + Poll <= clock + Poll
          /\ clock <= clock + Poll + Stall
          /\ endedAt[q] # Gone => clock + Poll <= endedAt[q] + Poll + Stall
      BY <1>0, <3>2, Times, Constants
    <3> QED
      BY <1>0, <1>2, <2>0, <3>1, <3>2, <3>3 DEF Timely, Shelved, Polling, Ended
  <2>5. CASE HangUp(q)
    <3>1. pc'[q] = "gone" /\ answer'[q] = 0
      BY <1>0, <1>2, <2>5 DEF HangUp, Goto, TypeOK
    <3> QED
      BY <1>0, <2>0, <3>1 DEF Timely, Shelved, Polling, Ended
  <2> QED
    BY <2>1, <2>2, <2>3, <2>4, <2>5 DEF AgentLoop
<1> QED
  BY <1>5, <1>6 DEF CallInv

\* A step of another call leaves this one's place in the registry alone.
LEMMA OthersKeep ==
  ASSUME IInv, NEW q \in Calls, NEW r \in Calls \ {q}, Handle(q) \/ Execute(q) \/ AgentLoop(q)
  PROVE  CallInv(r)'
<1>0. TypeOK /\ Numbers /\ CallInv(r) /\ CallInv(q)
  BY DEF IInv, CallInv
<1>1. UNCHANGED <<clock, request>> /\ Untouched(r)
  BY <1>0, OthersUntouched
<1>2. runID[r] # 0 => registry'[runID[r]] = registry[runID[r]]
  <2>1. CASE Register(q)
    <3>1. runID[q] # 0 /\ registry' = [registry EXCEPT ![runID[q]] = q]
      BY <1>0, <2>1 DEF Register, Goto, CallInv, Found, Starting
    <3>2. runID[r] # 0 => runID[r] # runID[q]
      BY <1>0 DEF Numbers
    <3> QED
      BY <1>0, <3>1, <3>2 DEF TypeOK
  <2>2. CASE ~ Register(q)
    <3>1. registry' = registry
      BY <2>2 DEF Handle, Refuse, Accept, Admit, Reject, Verify, RefuseEvent, KeepEvent, CountEvent,
         ViewReceipt, TakeID, Launch, Execute, NodeAnswers, Put, Finish, Fail, Advance,
         AgentLoop, Look, Fetch, GiveUp, Wait, HangUp, Apart, idVars
    <3> QED
      BY <3>1
  <2> QED
    BY <2>1, <2>2
<1> QED
  BY <1>0, <1>1, <1>2, UntouchedStays

\* Time may not pass an agent that is due, nor a run that is about to end.
LEMMA TickKeeps ==
  ASSUME IInv, NEW q \in Calls, Tick
  PROVE  CallInv(q)'
<1>0. TypeOK /\ Course(q) /\ Found(q) /\ Timely(q) /\ Shelved(q)
  BY DEF IInv
<1>1. /\ UNCHANGED <<request, pc, answer, wake, deadline, began, runID, registry, charged, run, endedAt, store>>
      /\ clock' = clock + 1
      /\ Polling(q) => clock < wake[q] + Stall
      /\ run[q] = "stored" => clock < store[q] + Lag
  BY DEF Tick, callVars, agentVars, limitVars, runVars, idVars
<1>2. Course(q)' /\ Found(q)'
  BY <1>0, <1>1 DEF Course, Found, Starting, Polling, StartsRun, NoRun
<1>3. /\ clock + 1 \in Int /\ (Polling(q) => clock + 1 <= wake[q] + Stall)
      /\ run[q] = "stored" => clock + 1 <= store[q] + Lag
      /\ \A t \in Int : (t <= clock => t <= clock + 1) /\ (clock > t => clock + 1 > t)
      /\ wake[q] <= clock + Poll => wake[q] <= clock + 1 + Poll
  BY <1>0, <1>1, Times, Constants
<1>4. Timely(q)'
  <2>1. Latest(q)' = Latest(q) /\ (Polling(q)' <=> Polling(q))
    BY <1>1 DEF Latest, Polling
  <2>2. wake[q] \in Int /\ Latest(q) \in Int
    BY <1>0, Times
  <2> QED
    BY <1>0, <1>1, <1>3, <2>1, <2>2 DEF Timely, Ended
<1>5. Shelved(q)'
  BY <1>0, <1>1, <1>3 DEF Shelved, Polling
<1> QED
  BY <1>2, <1>4, <1>5 DEF CallInv

\* The sweep comes too early for the records that somebody waits for.
LEMMA CleanupKeeps ==
  ASSUME IInv, NEW q \in Calls, Cleanup
  PROVE  CallInv(q)'
<1>0. TypeOK /\ Course(q) /\ Found(q) /\ Timely(q) /\ Shelved(q)
  BY DEF IInv
<1>1. /\ UNCHANGED <<clock, request, pc, answer, wake, deadline, began, runID, registry, charged, run, endedAt>>
      /\ store[q] >= clock - Keep => store'[q] = store[q]
  <2>1. store[q] >= clock - Keep => ~ (store[q] < clock - Keep)
    BY <1>0, Times, Constants
  <2> QED
    BY <2>1 DEF Cleanup, callVars, agentVars, limitVars, idVars
<1>2. Course(q)' /\ Found(q)' /\ Timely(q)'
  BY <1>0, <1>1 DEF Course, Found, Timely, Starting, Polling, StartsRun, NoRun, Latest, Ended
<1>3. run[q] = "stored" => store[q] >= clock - Keep
  BY <1>0, Times, Constants DEF Shelved
<1>4. Polling(q) /\ run[q] = "complete" => store[q] >= clock - Keep
  <2> HAVE Polling(q) /\ run[q] = "complete"
  <2>1. endedAt[q] # Gone /\ clock <= wake[q] + Stall /\ wake[q] <= endedAt[q] + Poll + Stall
    BY <1>0 DEF Timely, Ended
  <2>2. endedAt[q] <= store[q] + Lag
    BY <1>0 DEF Shelved
  <2> QED
    BY <1>0, <2>1, <2>2, Times, Constants
<1>5. Shelved(q)'
  BY <1>0, <1>1, <1>3, <1>4 DEF Shelved, Polling
<1> QED
  BY <1>2, <1>5 DEF CallInv

----------------------------------------------------------------------------
(* The invariant. *)

\* No call has done anything yet, and no ID has been given out.
LEMMA InitInv ==
  ASSUME Init
  PROVE  IInv
<1>1. TypeOK
  BY Constants DEF Init, TypeOK, IDs
<1>2. Numbers
  <2>1. {q \in Calls : runID[q] # 0} = {}
    BY DEF Init
  <2> QED
    BY <2>1, FS_EmptySet DEF Init, Numbers
<1>3. ASSUME NEW q \in Calls PROVE Course(q) /\ Found(q) /\ Timely(q) /\ Shelved(q)
  <2>1. /\ pc[q] = "new" /\ answer[q] = 0 /\ q \notin charged /\ runID[q] = 0
        /\ run[q] = NoRun /\ endedAt[q] = Gone
    BY DEF Init
  <2> QED
    BY <2>1 DEF Course, Found, Timely, Shelved, Starting, Ended, Polling, NoRun
<1> QED
  BY <1>1, <1>2, <1>3 DEF IInv

\* Every step keeps it.
LEMMA NextInv ==
  ASSUME IInv, [Next]_vars
  PROVE  IInv'
<1>1. CASE Next
  <2>1. TypeOK' /\ Numbers'
    BY <1>1, TypeSteps, NumberSteps
  <2>2. ASSUME NEW r \in Calls PROVE CallInv(r)'
    <3>1. ASSUME NEW q \in Calls, Handle(q) \/ Execute(q) \/ AgentLoop(q) PROVE CallInv(r)'
      <4>1. CASE r = q
        BY <3>1, <4>1, HandlerKeeps, LaunchKeeps, ExecuteKeeps, AgentKeeps
      <4>2. CASE r # q
        BY <3>1, <4>2, OthersKeep
      <4> QED
        BY <4>1, <4>2
    <3>2. ASSUME NEW p \in Peers, Refill(p) PROVE CallInv(r)'
      <4>1. UNCHANGED <<clock, callVars, charged, runVars, idVars>>
        BY <3>2 DEF Refill
      <4>2. UNCHANGED <<clock, request>> /\ Untouched(r) /\ registry' = registry
        BY <4>1 DEF Untouched, callVars, agentVars, runVars, idVars
      <4> QED
        BY <4>2, UntouchedStays DEF IInv, CallInv
    <3> QED
      BY <1>1, <3>1, <3>2, TickKeeps, CleanupKeeps DEF Next
  <2> QED
    BY <2>1, <2>2 DEF IInv, CallInv
<1>2. CASE UNCHANGED vars
  <2>1. UNCHANGED <<clock, request, registry>> /\ \A r \in Calls : Untouched(r)
    BY <1>2 DEF vars, callVars, agentVars, limitVars, runVars, idVars, Untouched
  <2>2. \A r \in Calls : CallInv(r)'
    BY <2>1, UntouchedStays DEF IInv, CallInv
  <2>3. TypeOK' /\ Numbers'
    BY <1>2 DEF vars, callVars, agentVars, limitVars, runVars, idVars, IInv, TypeOK, Numbers
  <2> QED
    BY <2>2, <2>3 DEF IInv, CallInv
<1> QED
  BY <1>1, <1>2

\* IInv is an invariant of the HTTP surface.
LEMMA Invariance == Spec => []IInv
<1>1. Init => IInv
  BY InitInv
<1>2. IInv /\ [Next]_vars => IInv'
  BY NextInv
<1> QED
  BY <1>1, <1>2, PTL DEF Spec

----------------------------------------------------------------------------
(* The counters. *)

\* A counter that goes up by one counts one call more.
LEMMA OneMore ==
  ASSUME NEW P, NEW Q, P \in SUBSET Calls, NEW q \in Calls, q \notin P, Q = P \cup {q}
  PROVE  Cardinality(Q) = Cardinality(P) + 1
BY Constants, FS_Subset, FS_AddElement

\* A step counts nothing, or it counts its own call in one place.
LEMMA Tallied ==
  ASSUME TypeOK, Tallies, NEW q \in Calls,
         UNCHANGED <<clock, request>>, \A r \in Calls \ {q} : Untouched(r),
         \/ UNCHANGED metrics /\ \A m \in Metrics : Counts(m, q)' <=> Counts(m, q)
         \/ \E n \in Metrics :
              /\ Inc(n) /\ ~ Counts(n, q) /\ Counts(n, q)'
              /\ \A m \in Metrics \ {n} : Counts(m, q)' <=> Counts(m, q),
         \/ UNCHANGED events /\ (Kept(q)' <=> Kept(q))
         \/ events' = events + 1 /\ ~ Kept(q) /\ Kept(q)'
  PROVE  Tallies'
<1>1. ASSUME NEW m, NEW r \in Calls \ {q}
      PROVE  (Counts(m, r)' <=> Counts(m, r)) /\ (Kept(r)' <=> Kept(r))
  BY DEF Untouched, Counts, Kept
<1>2. ASSUME NEW m \in Metrics PROVE metrics'[m] = Cardinality({r \in Calls : Counts(m, r)'})
  <2> DEFINE P == {r \in Calls : Counts(m, r)}
             Q == {r \in Calls : Counts(m, r)'}
  <2>1. metrics[m] = Cardinality(P)
    BY DEF Tallies
  <2>2. CASE metrics'[m] = metrics[m] /\ (Counts(m, q)' <=> Counts(m, q))
    <3>1. P = Q
      BY <1>1, <2>2
    <3> QED
      BY <2>1, <2>2, <3>1
  <2>3. CASE metrics'[m] = metrics[m] + 1 /\ ~ Counts(m, q) /\ Counts(m, q)'
    <3>1. Q = P \cup {q} /\ q \notin P /\ P \in SUBSET Calls
      BY <1>1, <2>3
    <3> HIDE DEF P, Q
    <3>2. Cardinality(Q) = Cardinality(P) + 1
      BY <3>1, OneMore
    <3>3. metrics'[m] = Cardinality(Q)
      BY <2>1, <2>3, <3>2
    <3> QED
      BY <3>3 DEF Q
  <2>4. metrics \in [Metrics -> Nat]
    BY DEF TypeOK
  <2> QED
    BY <2>2, <2>3, <2>4 DEF Inc
<1>3. events' = Cardinality({r \in Calls : Kept(r)'})
  <2> DEFINE P == {r \in Calls : Kept(r)}
             Q == {r \in Calls : Kept(r)'}
  <2>1. events = Cardinality(P)
    BY DEF Tallies
  <2>2. CASE UNCHANGED events /\ (Kept(q)' <=> Kept(q))
    <3>1. P = Q
      BY <1>1, <2>2
    <3> QED
      BY <2>1, <2>2, <3>1
  <2>3. CASE events' = events + 1 /\ ~ Kept(q) /\ Kept(q)'
    <3>1. Q = P \cup {q} /\ q \notin P /\ P \in SUBSET Calls
      BY <1>1, <2>3
    <3> HIDE DEF P, Q
    <3>2. Cardinality(Q) = Cardinality(P) + 1
      BY <3>1, OneMore
    <3>3. events' = Cardinality(Q)
      BY <2>1, <2>3, <3>2
    <3> QED
      BY <3>3 DEF Q
  <2> QED
    BY <2>2, <2>3
<1> QED
  BY <1>2, <1>3 DEF Tallies

\* An answered call is counted at once, an event as soon as its handler goes on.
LEMMA TallySteps ==
  ASSUME IInv, Tallies, [Next]_vars
  PROVE  Tallies'
<1>0. TypeOK
  BY DEF IInv
<1>a. \A k \in {"abuse_rejections", "rate_limited", "verifications", "runs_started",
                "events_received", "receipt_views"} : k \in Metrics
  BY DEF Metrics
<1>1. ASSUME NEW q \in Calls, Handle(q) \/ Execute(q) \/ AgentLoop(q) PROVE Tallies'
  <2>0. UNCHANGED <<clock, request>> /\ \A r \in Calls \ {q} : Untouched(r)
    BY <1>0, <1>1, OthersUntouched
  <2>1. Course(q)
    BY DEF IInv
  <2> DEFINE Same == /\ UNCHANGED <<metrics, events>> /\ (Kept(q)' <=> Kept(q))
                     /\ \A m \in Metrics : Counts(m, q)' <=> Counts(m, q)
             Counted(n) == /\ Inc(n) /\ ~ Counts(n, q) /\ Counts(n, q)'
                           /\ \A m \in Metrics \ {n} : Counts(m, q)' <=> Counts(m, q)
                           /\ UNCHANGED events /\ (Kept(q)' <=> Kept(q))
  <2>2. Same => Tallies'
    BY <1>0, <2>0, Tallied
  <2>3. \A n \in Metrics : Counted(n) => Tallies'
    BY <1>0, <2>0, Tallied
  <2>4. CASE Refuse(q)
    <3>1. /\ answer[q] = 0 /\ pc[q] = "new" /\ answer'[q] = Refusal(request[q]) /\ pc'[q] = "answered"
          /\ run'[q] = run[q] /\ request' = request /\ StartsRun(q) /\ UNCHANGED events
      BY <1>0, <2>1, <2>4 DEF Refuse, Answer, Goto, TypeOK, Course, runVars
    <3>2. Refusal(request[q]) \in {400, 409} /\ (Abuse(request[q]) => Refusal(request[q]) = 400)
      BY <2>4 DEF Refuse, Refusal, Abuse
    <3>3. CASE Abuse(request[q])
      <4>1. Inc("abuse_rejections")
        BY <2>4, <3>3 DEF Refuse
      <4>2. Counted("abuse_rejections")
        BY <3>1, <3>2, <3>3, <4>1 DEF Counts, Kept, Abuse, StartsRun
      <4> QED
        BY <1>a, <2>3, <4>2
    <3>4. CASE ~ Abuse(request[q])
      <4>1. UNCHANGED metrics
        BY <2>4, <3>4 DEF Refuse
      <4>2. Same
        BY <3>1, <3>2, <3>4, <4>1 DEF Counts, Kept, Abuse, StartsRun
      <4> QED
        BY <2>2, <4>2
    <3> QED
      BY <3>3, <3>4
  <2>5. CASE Reject(q)
    <3>1. /\ answer[q] = 0 /\ answer'[q] = 429 /\ pc'[q] = "answered"
          /\ run'[q] = run[q] /\ request' = request /\ request[q].kind # "event"
          /\ UNCHANGED events /\ Inc("rate_limited")
      BY <1>0, <2>1, <2>5 DEF Reject, Answer, Goto, TypeOK, Course, runVars, Unlimited
    <3>2. Counted("rate_limited")
      BY <3>1 DEF Counts, Kept
    <3> QED
      BY <1>a, <2>3, <3>2
  <2>6. CASE Verify(q)
    <3>1. /\ answer[q] = 0 /\ pc'[q] = "answered" /\ UNCHANGED <<request, events>>
          /\ run'[q] = run[q] /\ request[q].kind = "verify"
          /\ \/ answer'[q] = 400 /\ UNCHANGED metrics
             \/ answer'[q] = 200 /\ Inc("verifications")
      BY <1>0, <2>1, <2>6 DEF Verify, Answer, Goto, TypeOK, Course, runVars
    <3>2. Same \/ Counted("verifications")
      BY <3>1 DEF Counts, Kept
    <3> QED
      BY <1>a, <2>2, <2>3, <3>2
  <2>7. CASE RefuseEvent(q)
    <3>1. /\ answer[q] = 0 /\ pc[q] = "new" /\ answer'[q] = 400 /\ pc'[q] = "answered"
          /\ UNCHANGED <<request, events>> /\ run'[q] = run[q] /\ request[q].kind = "event"
          /\ \/ Abuse(request[q]) /\ Inc("abuse_rejections")
             \/ ~ Abuse(request[q]) /\ UNCHANGED metrics
      BY <1>0, <2>1, <2>7 DEF RefuseEvent, Answer, Goto, TypeOK, Course, runVars
    <3>2. Same \/ Counted("abuse_rejections")
      BY <3>1 DEF Counts, Kept, Abuse
    <3> QED
      BY <1>a, <2>2, <2>3, <3>2
  <2>8. CASE KeepEvent(q)
    <3>1. /\ answer[q] = 0 /\ pc[q] = "new" /\ pc'[q] = "kept" /\ answer'[q] = 0
          /\ UNCHANGED <<request, metrics>> /\ run'[q] = run[q] /\ request[q].kind = "event"
          /\ events' = events + 1
      BY <1>0, <2>1, <2>8 DEF KeepEvent, Goto, TypeOK, Course, runVars
    <3>2. ~ Kept(q) /\ Kept(q)' /\ \A m \in Metrics : Counts(m, q)' <=> Counts(m, q)
      BY <3>1 DEF Counts, Kept
    <3> QED
      BY <1>0, <2>0, <3>1, <3>2, Tallied
  <2>9. CASE CountEvent(q)
    <3>1. /\ answer[q] = 0 /\ pc[q] = "kept" /\ pc'[q] = "answered" /\ answer'[q] = 202
          /\ UNCHANGED <<request, events>> /\ run'[q] = run[q] /\ request[q].kind = "event"
          /\ Inc("events_received")
      BY <1>0, <2>1, <2>9 DEF CountEvent, Answer, Goto, TypeOK, Course, runVars
    <3>2. Counted("events_received")
      BY <3>1 DEF Counts, Kept
    <3> QED
      BY <1>a, <2>3, <3>2
  <2>10. CASE ViewReceipt(q)
    <3>1. /\ answer[q] = 0 /\ pc'[q] = "answered" /\ UNCHANGED <<request, events>>
          /\ run'[q] = run[q] /\ request[q].kind = "receipt"
          /\ \/ answer'[q] = 404 /\ UNCHANGED metrics
             \/ answer'[q] = 200 /\ Inc("receipt_views")
      BY <1>0, <2>1, <2>10 DEF ViewReceipt, Answer, Goto, TypeOK, Course, runVars
    <3>2. Same \/ Counted("receipt_views")
      BY <3>1 DEF Counts, Kept
    <3> QED
      BY <1>a, <2>2, <2>3, <3>2
  <2>11. CASE Launch(q)
    <3>1. /\ answer[q] = 0 /\ pc[q] = "registered" /\ pc'[q] \in {"answered", "looking"}
          /\ answer'[q] \in {0, 202} /\ UNCHANGED <<request, events>> /\ StartsRun(q)
          /\ run[q] = NoRun /\ run'[q] = "running" /\ Inc("runs_started")
      BY <1>0, <2>1, <2>11 DEF Launch, Answer, Goto, TypeOK, Course, Starting
    <3>2. Counted("runs_started")
      BY <3>1 DEF Counts, Kept, StartsRun, NoRun
    <3> QED
      BY <1>a, <2>3, <3>2
  <2>12. CASE Accept(q) \/ Admit(q) \/ TakeID(q) \/ Register(q)
    <3>1. /\ pc[q] # "kept" /\ pc'[q] # "kept"
          /\ UNCHANGED <<request, answer, run, metrics, events>>
      BY <1>0, <2>12 DEF Accept, Admit, TakeID, Register, Goto, TypeOK, Unlimited, runVars
    <3>2. Same
      BY <3>1 DEF Counts, Kept
    <3> QED
      BY <2>2, <3>2
  <2>13. CASE Execute(q)
    <3>1. /\ UNCHANGED <<request, pc, answer, metrics, events>>
          /\ run[q] # NoRun /\ run'[q] # NoRun
      BY <1>0, <2>13 DEF Execute, NodeAnswers, Put, Finish, Fail, Advance, callVars, TypeOK, NoRun
    <3>2. Same
      BY <3>1 DEF Counts, Kept
    <3> QED
      BY <2>2, <3>2
  <2>14. CASE AgentLoop(q)
    <3>1. /\ UNCHANGED <<request, run, metrics, events>> /\ answer[q] = 0
          /\ answer'[q] \in {0, 200, 500, 502, 504} /\ StartsRun(q)
      <4>1. UNCHANGED <<request, run, metrics, events>>
        BY <2>14 DEF AgentLoop, Look, Fetch, GiveUp, Wait, HangUp, Apart, runVars
      <4>2. Polling(q)
        BY <2>14 DEF AgentLoop, Look, Fetch, GiveUp, Wait, HangUp, Answer, Goto, Polling
      <4>3. answer[q] = 0 /\ StartsRun(q)
        BY <2>1, <4>2 DEF Course, Polling
      <4>4. answer'[q] \in {0, 200, 500, 502, 504}
        BY <1>0, <2>14, <4>3 DEF AgentLoop, Look, Fetch, GiveUp, Wait, HangUp, Answer, TypeOK
      <4> QED
        BY <4>1, <4>3, <4>4
    <3>2. Same
      BY <3>1 DEF Counts, Kept, StartsRun
    <3> QED
      BY <2>2, <3>2
  <2> QED
    BY <1>1, <2>4, <2>5, <2>6, <2>7, <2>8, <2>9, <2>10, <2>11, <2>12, <2>13, <2>14 DEF Handle
<1>2. CASE \/ \E p \in Peers : Refill(p)
           \/ Cleanup \/ Tick \/ UNCHANGED vars
  <2>1. UNCHANGED <<request, pc, answer, run, metrics, events>>
    BY <1>2 DEF Refill, Cleanup, Tick, vars, callVars, runVars
  <2>2. \A m, r : (Counts(m, r)' <=> Counts(m, r)) /\ (Kept(r)' <=> Kept(r))
    BY <2>1 DEF Counts, Kept
  <2> QED
    BY <2>1, <2>2 DEF Tallies
<1> QED
  BY <1>1, <1>2 DEF Next

----------------------------------------------------------------------------
(* The theorems. *)

\* The types of the HTTP surface: among them, that the registry has room for
\* every ID that the counter hands out (runs.go 213-216).
THEOREM PlaygroundTypes == Spec => []TypeOK
<1>1. IInv => TypeOK
  BY DEF IInv
<1> QED
  BY <1>1, Invariance, PTL

\* A client finds its own run under the ID it was told (runs.go 213-224).
THEOREM OwnRunIsFound == Spec => []RunsAreFound
<1>1. IInv => RunsAreFound
  BY DEF IInv, Found, RunsAreFound
<1> QED
  BY <1>1, Invariance, PTL

\* No endpoint starts a run that is not allowed or not paid for
\* (handlers.go handleCreateRun, agent.go handleAgentRun).
THEOREM OnlyAllowedRuns == Spec => []RunsAreAllowed
<1>1. ASSUME IInv, NEW q \in Calls, run[q] # NoRun
      PROVE  /\ request[q].body = "good" /\ request[q].flow = "listed"
             /\ request[q].mode # "unknown" /\ (request[q].mode = "kermit" => KermitEnabled)
             /\ q \in charged
  <2>1. Refusal(request[q]) = 0 /\ q \in charged /\ request[q] \in AllRequests
    BY <1>1, PlaygroundAssumption DEF IInv, Course, TypeOK
  <2> QED
    BY <2>1, PlaygroundAssumption DEF Refusal, AllRequests
<1>2. ASSUME IInv, NEW q \in Calls, StartsRun(q), answer[q] \in {400, 409, 429}
      PROVE  run[q] = NoRun /\ q \notin charged
  BY <1>2 DEF IInv, Course
<1>3. IInv => RunsAreAllowed
  BY <1>1, <1>2 DEF RunsAreAllowed
<1> QED
  BY <1>3, Invariance, PTL

\* An agent waits no longer than its deadline, a pause and a stall (agent.go 82-120).
THEOREM AgentsAreAnswered == Spec => []AgentAnsweredInTime
<1>1. ASSUME IInv, NEW q \in Calls, Polling(q) PROVE clock <= Latest(q) + Poll + Stall
  <2>1. wake[q] <= Latest(q) + Poll /\ clock <= wake[q] + Stall
    BY <1>1 DEF IInv, Timely
  <2> QED
    BY <1>1, <2>1, Times, Constants DEF IInv
<1>2. IInv => AgentAnsweredInTime
  BY <1>1 DEF AgentAnsweredInTime
<1> QED
  BY <1>2, Invariance, PTL

\* A timeout is told only of a run that was not over in time (agent.go 111-116).
THEOREM TimeoutsAreHonest == Spec => []TimeoutIsHonest
<1>1. IInv => TimeoutIsHonest
  BY DEF IInv, Timely, TimeoutIsHonest
<1> QED
  BY <1>1, Invariance, PTL

\* The proof of a completed run is there when its agent fetches it (agent.go 96-101):
\* this is what the retention must be longer than.
THEOREM ProofsAreThere == Spec => []ProofIsThere
<1>1. IInv => ProofIsThere
  BY DEF IInv, Shelved, ProofIsThere
<1> QED
  BY <1>1, Invariance, PTL

\* The counters of /metrics count what was answered.
THEOREM CountersCount == Spec => []CountersAgree
<1>1. Init => Tallies
  <2> SUFFICES ASSUME Init PROVE Tallies
    OBVIOUS
  <2>1. \A q \in Calls : pc[q] = "new" /\ answer[q] = 0 /\ run[q] = NoRun
    BY DEF Init
  <2>2. \A m : {q \in Calls : Counts(m, q)} = {}
    BY <2>1 DEF Counts
  <2>3. {q \in Calls : Kept(q)} = {}
    BY <2>1 DEF Kept
  <2> QED
    BY <2>2, <2>3, FS_EmptySet DEF Init, Tallies
<1>2. IInv /\ Tallies /\ [Next]_vars => Tallies'
  BY TallySteps
<1>3. ASSUME IInv, Tallies PROVE CountersAgree
  <2> SUFFICES ASSUME \A q \in Calls : pc[q] \in {"new", "answered", "gone"}
               PROVE  /\ metrics["rate_limited"] = Cardinality({q \in Calls : answer[q] = 429})
                      /\ metrics["abuse_rejections"] =
                           Cardinality({q \in Calls : /\ answer[q] = 400 /\ request[q].kind # "verify"
                                                      /\ request[q].body = "good"
                                                      /\ request[q].flow = "refused"})
                      /\ metrics["runs_started"] = Cardinality({q \in Calls : run[q] # NoRun})
                      /\ metrics["events_received"] = events
                      /\ metrics["verifications"] =
                           Cardinality({q \in Calls : answer[q] = 200 /\ request[q].kind = "verify"})
                      /\ metrics["receipt_views"] =
                           Cardinality({q \in Calls : answer[q] = 200 /\ request[q].kind = "receipt"})
    BY DEF CountersAgree
  <2>1. \A m \in Metrics : metrics[m] = Cardinality({q \in Calls : Counts(m, q)})
    BY <1>3 DEF Tallies
  <2>2. {q \in Calls : Counts("rate_limited", q)} = {q \in Calls : answer[q] = 429}
    BY DEF Counts
  <2>3. {q \in Calls : Counts("abuse_rejections", q)} =
          {q \in Calls : /\ answer[q] = 400 /\ request[q].kind # "verify"
                         /\ request[q].body = "good" /\ request[q].flow = "refused"}
    BY DEF Counts
  <2>4. {q \in Calls : Counts("runs_started", q)} = {q \in Calls : run[q] # NoRun}
    BY DEF Counts
  <2>5. {q \in Calls : Counts("events_received", q)} = {q \in Calls : Kept(q)}
    BY DEF Counts, Kept
  <2>6. events = Cardinality({q \in Calls : Kept(q)})
    BY <1>3 DEF Tallies
  <2>7. {q \in Calls : Counts("verifications", q)} =
          {q \in Calls : answer[q] = 200 /\ request[q].kind = "verify"}
    BY DEF Counts
  <2>8. {q \in Calls : Counts("receipt_views", q)} =
          {q \in Calls : answer[q] = 200 /\ request[q].kind = "receipt"}
    BY DEF Counts
  <2> QED
    BY <2>1, <2>2, <2>3, <2>4, <2>5, <2>6, <2>7, <2>8 DEF Metrics
<1> QED
  BY <1>1, <1>2, <1>3, Invariance, PTL DEF Spec
=============================================================================
