-------------------------------- MODULE Run --------------------------------
(* One playground run (src/api/runs.go): the forward-only state machine, the
   executor goroutine that drives it, the status snapshot, and the fan-out of
   its events to the SSE handlers (handleRunEvents in src/api/server.go).

   Every critical section of Run.mu, of RunManager.mu and of the store is one
   action; whatever the code does between two of them can interleave.  The
   executor is one goroutine, so its position is the program counter pc.  A
   client is one SSE connection: it subscribes at most once.

   The node behind callRunFlow is external: it answers, answers badly, or
   never answers.                                                          *)
EXTENDS Naturals, Sequences, FiniteSets

CONSTANTS
  Clients,     \* SSE connections
  Attentive,   \* the connections whose peer keeps reading
  StepKeys,    \* the keys of the stages a run narrates
  FlowSteps,   \* the narration: the keys of worker.flowSteps, in order
  Slack,       \* free slots of a new subscriber channel (16 in the code)
  ReceiptID    \* the ID the store derives for this run's receipt

Empty == "empty"   \* Go's zero string

ASSUME AttentiveAssumption == Attentive \subseteq Clients
ASSUME FlowStepsAssumption == FlowSteps \in Seq(StepKeys) /\ FlowSteps # <<>>
\* A run publishes at most its steps and three more events (12 <= 16 in the code).
ASSUME SlackAssumption == Slack \in Nat /\ Len(FlowSteps) + 3 <= Slack
ASSUME ReceiptAssumption == ReceiptID # Empty

VARIABLES
  pc,          \* where Start and then the executor goroutine stand
  err,         \* the executor's local error, Empty if none
  state,       \* Run.state
  steps,       \* Run.steps
  receiptID,   \* Run.receiptID
  errMsg,      \* Run.errMsg
  history,     \* Run.history
  subs,        \* Run.subs: the registered channels, named by their client
  buf,         \* the events buffered in each client's channel
  cap,         \* the capacity each channel was made with
  closes,      \* how often each channel was closed (twice panics)
  handler,     \* where each client's handleRunEvents stands
  deferred,    \* the clients whose deferred unsub() has not run yet
  got,         \* the events each handler wrote to its response
  stored,      \* receipt IDs the store serves from memory
  metrics      \* the three run counters

runVars  == <<state, steps, receiptID, errMsg, history>>
chanVars == <<subs, buf, cap, closes>>
sseVars  == <<handler, deferred, got>>
vars == <<pc, err, runVars, chanVars, sseVars, stored, metrics>>

----------------------------------------------------------------------------
(* The state machine and the events. *)

States == {"created", "running", "complete", "failed"}

CanTransition(s, next) ==
  \/ s = "created" /\ next = "running"
  \/ s = "running" /\ next \in {"complete", "failed"}

Terminal(s) == s \in {"complete", "failed"}

StateEvent(s) == [type |-> "state", val |-> s]

\* Faulty: an event type the front end does not know.
StepEventMistyped(k) == [type |-> "stage", val |-> k]

StepEvent(k)  == [type |-> "step",  val |-> k]
DoneEvent(id) == [type |-> "done",  val |-> id]
ErrorEvent(m) == [type |-> "error", val |-> m]

\* Faulty: room for the prefill and a few events only.
ChanCapTight(h) == Len(h) + Len(FlowSteps)

ChanCap(h) == Len(h) + Slack

NodeErrors   == {"call_failed", "no_package"}
MarshalError == "marshal"
StoreError   == "store"
Errors       == NodeErrors \cup {MarshalError, StoreError}

FailedStep == "run"   \* the key of the failed step worker.Run sends

Event == [type : {"state", "step", "done", "error"},
          val  : States \cup StepKeys \cup {FailedStep}
                   \cup {Empty, ReceiptID} \cup Errors]

----------------------------------------------------------------------------
(* The critical sections of Run.mu that others are built from. *)

\* A non-blocking send to every registered channel: a full one drops e.
Publish(e) ==
  /\ history' = Append(history, e)
  /\ buf' = [c \in Clients |->
               IF c \in subs /\ Len(buf[c]) < cap[c]
               THEN Append(buf[c], e) ELSE buf[c]]

\* Faulty: the channels are closed but stay registered.
CloseSubsKeepsThem ==
  /\ closes' = [c \in Clients |-> closes[c] + (IF c \in subs THEN 1 ELSE 0)]
  /\ UNCHANGED subs

\* Faulty: the channels are dropped without being closed.
CloseSubsForgetsThem == subs' = {} /\ UNCHANGED closes

CloseSubs ==
  /\ closes' = [c \in Clients |-> closes[c] + (IF c \in subs THEN 1 ELSE 0)]
  /\ subs' = {}

\* Faulty: the event announces the state the run leaves.
TransitionStale(next) ==
  IF CanTransition(state, next)
  THEN state' = next /\ Publish(StateEvent(state))
  ELSE UNCHANGED <<state, history, buf>>

\* An illegal transition is rejected and leaves everything as it is.
Transition(next) ==
  IF CanTransition(state, next)
  THEN state' = next /\ Publish(StateEvent(next))
  ELSE UNCHANGED <<state, history, buf>>

AddStep(k) ==
  /\ steps' = Append(steps, k)
  /\ Publish(StepEvent(k))

----------------------------------------------------------------------------
Init ==
  /\ pc = "new" /\ err = Empty
  /\ state = "created" /\ steps = <<>> /\ receiptID = Empty /\ errMsg = Empty
  /\ history = <<>>
  /\ subs = {} /\ buf = [c \in Clients |-> <<>>]
  /\ cap = [c \in Clients |-> 0] /\ closes = [c \in Clients |-> 0]
  /\ handler = [c \in Clients |-> "idle"] /\ deferred = {}
  /\ got = [c \in Clients |-> <<>>]
  /\ stored = {}
  /\ metrics = [started |-> 0, completed |-> 0, failed |-> 0]

Goto(from, to) == pc = from /\ pc' = to

----------------------------------------------------------------------------
(* RunManager.Start, on the goroutine of the request. *)

\* rm.runs[id] = r: from here on the run can be found and subscribed to.
Register ==
  /\ Goto("new", "registered")
  /\ UNCHANGED <<err, runVars, chanVars, sseVars, stored, metrics>>

CountStarted ==
  /\ Goto("registered", "counted")
  /\ metrics' = [metrics EXCEPT !.started = @ + 1]
  /\ UNCHANGED <<err, runVars, chanVars, sseVars, stored>>

Launch ==
  /\ Goto("counted", "calling")
  /\ Transition("running")
  /\ UNCHANGED <<err, steps, receiptID, errMsg, subs, cap, closes,
                 sseVars, stored, metrics>>

----------------------------------------------------------------------------
(* worker.Runner.Run, on the executor goroutine. *)

NodeAnswers ==
  /\ Goto("calling", "narrating")
  /\ UNCHANGED <<err, runVars, chanVars, sseVars, stored, metrics>>

NodeFails ==
  /\ Goto("calling", "failing")
  /\ err' \in NodeErrors
  /\ AddStep(FailedStep)
  /\ UNCHANGED <<state, receiptID, errMsg, subs, cap, closes,
                 sseVars, stored, metrics>>

EmitStep ==
  /\ pc = "narrating" /\ Len(steps) < Len(FlowSteps)
  /\ AddStep(FlowSteps[Len(steps) + 1])
  /\ UNCHANGED <<pc, err, state, receiptID, errMsg, subs, cap, closes,
                 sseVars, stored, metrics>>

\* Offline verification and the receipt; only marshalling can still fail.
VerifyAndMarshal ==
  /\ pc = "narrating" /\ Len(steps) = Len(FlowSteps)
  /\ \/ pc' = "storing" /\ err' = err
     \/ pc' = "failing" /\ err' = MarshalError
  /\ UNCHANGED <<runVars, chanVars, sseVars, stored, metrics>>

----------------------------------------------------------------------------
(* The rest of RunManager.execute.  ReceiptStore.Put adds the run to the
   memory map, then persists outside the lock, which can fail.             *)

PutEncodeFails ==
  /\ Goto("storing", "failing")
  /\ err' = StoreError
  /\ UNCHANGED <<runVars, chanVars, sseVars, stored, metrics>>

PutMemory ==
  /\ Goto("storing", "persisting")
  /\ stored' = stored \cup {ReceiptID}
  /\ UNCHANGED <<err, runVars, chanVars, sseVars, metrics>>

Persisted ==
  /\ pc = "persisting"
  /\ \/ pc' = "succeeding" /\ err' = err
     \/ pc' = "failing" /\ err' = StoreError
  /\ UNCHANGED <<runVars, chanVars, sseVars, stored, metrics>>

CountCompleted ==
  /\ Goto("succeeding", "ok_receipt")
  /\ metrics' = [metrics EXCEPT !.completed = @ + 1]
  /\ UNCHANGED <<err, runVars, chanVars, sseVars, stored>>

CountFailed ==
  /\ Goto("failing", "err_message")
  /\ metrics' = [metrics EXCEPT !.failed = @ + 1]
  /\ UNCHANGED <<err, runVars, chanVars, sseVars, stored>>

----------------------------------------------------------------------------
(* finishOK and finishErr: three critical sections each. *)

\* Faulty: the receipt ID is not recorded in the run.
SetReceiptForgotten ==
  /\ Goto("ok_receipt", "ok_transition")
  /\ UNCHANGED <<err, runVars, chanVars, sseVars, stored, metrics>>

SetReceipt ==
  /\ Goto("ok_receipt", "ok_transition")
  /\ receiptID' = ReceiptID
  /\ UNCHANGED <<err, state, steps, errMsg, history, chanVars, sseVars,
                 stored, metrics>>

SetMessage ==
  /\ Goto("err_message", "err_transition")
  /\ errMsg' = err
  /\ UNCHANGED <<err, state, steps, receiptID, history, chanVars, sseVars,
                 stored, metrics>>

Settle ==
  /\ \/ Goto("ok_transition", "ok_publish") /\ Transition("complete")
     \/ Goto("err_transition", "err_publish") /\ Transition("failed")
  /\ UNCHANGED <<err, steps, receiptID, errMsg, subs, cap, closes,
                 sseVars, stored, metrics>>

PublishOutcome ==
  /\ \/ Goto("ok_publish", "ended") /\ Publish(DoneEvent(receiptID))
     \/ Goto("err_publish", "ended") /\ Publish(ErrorEvent(errMsg))
  /\ CloseSubs
  /\ UNCHANGED <<err, state, steps, receiptID, errMsg, cap,
                 sseVars, stored, metrics>>

----------------------------------------------------------------------------
(* handleRunEvents, on the goroutine of one SSE connection c. *)

\* RunManager.Get misses: 404, no stream.
NotFound(c) ==
  /\ handler[c] = "idle" /\ pc = "new"
  /\ handler' = [handler EXCEPT ![c] = "refused"]
  /\ UNCHANGED <<pc, err, runVars, chanVars, deferred, got, stored, metrics>>

\* Faulty: a late subscriber gets the live events only.
SubscribeLiveOnly(c) ==
  /\ handler[c] = "idle" /\ pc # "new"
  /\ handler' = [handler EXCEPT ![c] = "streaming"]
  /\ cap' = [cap EXCEPT ![c] = ChanCap(history)]
  /\ IF Terminal(state)
     THEN /\ closes' = [closes EXCEPT ![c] = @ + 1]
          /\ UNCHANGED <<subs, deferred>>
     ELSE /\ subs' = subs \cup {c}
          /\ deferred' = deferred \cup {c}
          /\ UNCHANGED closes
  /\ UNCHANGED <<pc, err, runVars, buf, got, stored, metrics>>

\* The channel starts with the whole history; the channel of a terminal run is
\* closed at once and never registered (its unsub does nothing).
Subscribe(c) ==
  /\ handler[c] = "idle" /\ pc # "new"
  /\ handler' = [handler EXCEPT ![c] = "streaming"]
  /\ cap' = [cap EXCEPT ![c] = ChanCap(history)]
  /\ buf' = [buf EXCEPT ![c] = history]
  /\ IF Terminal(state)
     THEN /\ closes' = [closes EXCEPT ![c] = @ + 1]
          /\ UNCHANGED <<subs, deferred>>
     ELSE /\ subs' = subs \cup {c}
          /\ deferred' = deferred \cup {c}
          /\ UNCHANGED closes
  /\ UNCHANGED <<pc, err, runVars, got, stored, metrics>>

Receive(c) ==
  /\ handler[c] = "streaming" /\ buf[c] # <<>>
  /\ got' = [got EXCEPT ![c] = Append(@, Head(buf[c]))]
  /\ buf' = [buf EXCEPT ![c] = Tail(@)]
  /\ UNCHANGED <<pc, err, runVars, subs, cap, closes, handler, deferred,
                 stored, metrics>>

\* A receive from the closed and drained channel ends the response.
StreamEnds(c) ==
  /\ handler[c] = "streaming" /\ buf[c] = <<>> /\ closes[c] > 0
  /\ handler' = [handler EXCEPT ![c] = "ended"]
  /\ UNCHANGED <<pc, err, runVars, chanVars, deferred, got, stored, metrics>>

\* The request's context is done: the peer went away.
Disconnect(c) ==
  /\ handler[c] = "streaming"
  /\ handler' = [handler EXCEPT ![c] = "left"]
  /\ UNCHANGED <<pc, err, runVars, chanVars, deferred, got, stored, metrics>>

\* Faulty: unsub() closes without asking whether the channel is registered.
UnsubscribeBlindly(c) ==
  /\ handler[c] \in {"ended", "left"} /\ c \in deferred
  /\ deferred' = deferred \ {c}
  /\ subs' = subs \ {c}
  /\ closes' = [closes EXCEPT ![c] = @ + 1]
  /\ UNCHANGED <<pc, err, runVars, buf, cap, handler, got, stored, metrics>>

\* The deferred unsub() of a handler that returned.
Unsubscribe(c) ==
  /\ handler[c] \in {"ended", "left"} /\ c \in deferred
  /\ deferred' = deferred \ {c}
  /\ IF c \in subs
     THEN /\ subs' = subs \ {c}
          /\ closes' = [closes EXCEPT ![c] = @ + 1]
     ELSE UNCHANGED <<subs, closes>>
  /\ UNCHANGED <<pc, err, runVars, buf, cap, handler, got, stored, metrics>>

----------------------------------------------------------------------------
\* What the executor does once the node has answered.
Executor ==
  \/ EmitStep \/ VerifyAndMarshal
  \/ PutEncodeFails \/ PutMemory \/ Persisted
  \/ CountCompleted \/ CountFailed \/ SetReceipt \/ SetMessage
  \/ Settle \/ PublishOutcome

Start == Register \/ CountStarted \/ Launch

Handler(c) == Receive(c) \/ StreamEnds(c) \/ Unsubscribe(c)

Next ==
  \/ Start \/ NodeAnswers \/ NodeFails \/ Executor
  \/ \E c \in Clients :
       NotFound(c) \/ Subscribe(c) \/ Disconnect(c) \/ Handler(c)

\* The goroutines are scheduled fairly; the node need never answer, a client
\* need not connect, and only the attentive ones are sure to be read.
Fairness ==
  /\ WF_vars(Start) /\ WF_vars(Executor)
  /\ \A c \in Attentive : WF_vars(Handler(c))

Spec == Init /\ [][Next]_vars /\ Fairness

----------------------------------------------------------------------------
(* Properties. *)

Counters == [started : Nat, completed : Nat, failed : Nat]

PCs == {"new", "registered", "counted", "calling", "narrating", "storing",
        "persisting", "succeeding", "ok_receipt", "ok_transition",
        "ok_publish", "failing", "err_message", "err_transition",
        "err_publish", "ended"}

\* The types of the variables of runs.go and server.go modelled here.
TypeOK ==
  /\ pc \in PCs /\ err \in Errors \cup {Empty}
  /\ state \in States /\ steps \in Seq(StepKeys \cup {FailedStep})
  /\ receiptID \in {Empty, ReceiptID} /\ errMsg \in Errors \cup {Empty}
  /\ history \in Seq(Event)
  /\ subs \subseteq Clients /\ buf \in [Clients -> Seq(Event)]
  /\ cap \in [Clients -> Nat] /\ closes \in [Clients -> Nat]
  /\ handler \in [Clients -> {"idle", "refused", "streaming", "ended", "left"}]
  /\ deferred \subseteq Clients /\ got \in [Clients -> Seq(Event)]
  /\ stored \subseteq {ReceiptID}
  /\ metrics \in Counters

\* What c was sent and what waits in its channel are the first events of the
\* history: none lost, repeated or out of order (Subscribe's prefill, then
\* publishLocked's non-blocking sends, runs.go 140-184).
Mirrors(c) ==
  /\ Len(got[c]) + Len(buf[c]) <= Len(history)
  /\ \A i \in 1..Len(got[c]) : got[c][i] = history[i]
  /\ \A i \in 1..Len(buf[c]) : buf[c][i] = history[Len(got[c]) + i]
  /\ c \in subs => Len(got[c]) + Len(buf[c]) = Len(history)

\* Every stream mirrors the history and a registered channel is up to date:
\* although publishLocked drops events on a full channel, none is dropped,
\* because a run publishes at most Len(FlowSteps) + 3 <= Slack events.
StreamIntegrity == \A c \in Clients : Mirrors(c)

\* No goroutine panics: a registered channel is open, so publishLocked and
\* closeSubsLocked never meet a closed one, and no channel is closed twice by
\* the executor, by Subscribe of a terminal run and by unsub.
ChannelDiscipline ==
  \A c \in Clients : /\ closes[c] <= 1
                     /\ c \in subs => closes[c] = 0

\* A stream that the server ends has told its client that the run is over.
EndedStreamSawVerdict ==
  \A c \in Clients : handler[c] = "ended" =>
     \E i \in 1..Len(got[c]) : \E s \in {"complete", "failed"} :
        got[c][i] = StateEvent(s)

\* The i-th event that the snapshot of a run stands for.
ToldBySnapshot(i) ==
  CASE i = 1                    -> StateEvent("running")
    [] i \in 2..Len(steps) + 1  -> StepEvent(steps[i - 1])
    [] i = Len(steps) + 2       -> StateEvent(state)
    [] OTHER                    -> IF state = "complete" THEN DoneEvent(receiptID)
                                                         ELSE ErrorEvent(errMsg)

\* The re-sync the comment on publishLocked relies on: in every critical
\* section the status endpoint can see, the events published so far are those
\* that the snapshot's state, steps, receipt ID and error stand for, and only the
\* outcome of a terminal run may still be missing.
SnapshotMatchesHistory ==
  /\ Len(history) \in CASE state = "created" -> {Len(steps)} \cap {0}
                         [] state = "running" -> {Len(steps) + 1}
                         [] Terminal(state)   -> {Len(steps) + 2, Len(steps) + 3}
  /\ \A i \in 1..Len(history) : history[i] = ToldBySnapshot(i)

\* A run that a snapshot shows complete has narrated every step, has its
\* receipt ID and the store serves that receipt; a run shown failed says why
\* and hands out no receipt ID (finishOK and finishErr set them first).  Either
\* is counted by then, once and as what it is.
VerdictIsBacked ==
  /\ state = "complete" => /\ steps = FlowSteps
                          /\ receiptID \in stored
                          /\ errMsg = Empty
                          /\ metrics.completed = 1 /\ metrics.failed = 0
  /\ state = "failed" => /\ errMsg # Empty /\ receiptID = Empty
                        /\ metrics.failed = 1 /\ metrics.completed = 0

\* The comment on Subscribe (runs.go 157-159): "The caller first receives the
\* buffered history (so a late subscriber still sees prior steps), then live
\* events until the run terminates and the channel closes", so the last one of
\* a stream the server ends is the outcome.  finishOK and finishErr make the
\* run terminal one critical section before they publish it.
StreamTellsOutcome ==
  \A c \in Clients : handler[c] = "ended" =>
     \E i \in 1..Len(got[c]) : got[c][i].type \in {"done", "error"}

\* Once the node has answered, the run reaches its verdict and says so,
\* whatever the clients do: publishLocked does not wait for them.
RunFinishes == pc \in {"narrating", "failing"} ~> pc = "ended" /\ subs = {}

\* A client that keeps reading is never left hanging on a finished run.
StreamFinishes ==
  \A c \in Attentive :
     (handler[c] = "streaming" /\ Terminal(state)) ~> handler[c] \in {"ended", "left"}

----------------------------------------------------------------------------
(* What the run promises its readers, whatever the channels between them. *)

Contract == INSTANCE RunContract WITH
  Readers <- Clients,
  log     <- history,
  read    <- got,
  over    <- {c \in Clients : handler[c] = "ended"}

\* The run implements that contract.
ImplementsContract == Contract!Spec
============================================================================
