----------------------------- MODULE RunProofs -----------------------------
(* Proofs about Run, for every set of clients, every narration and every
   channel slack that satisfy the assumptions of that module.

   The argument: the position of the executor bounds the number of events it
   has published (HistoryBound), a registered channel was made with room for
   Slack events (Roomy), and a run publishes at most Len(FlowSteps) + 3 of
   them.  So no send ever finds a full channel, and a registered channel
   together with what its reader took from it is always the whole history
   (StreamIntegrity).                                                      *)
EXTENDS Run, TLAPS

Early   == {"new", "registered", "counted"}
Proving == {"storing", "persisting", "succeeding", "ok_receipt", "ok_transition"}
Failing == {"failing", "err_message", "err_transition"}

(* How far the executor's position lets the history have grown. *)
HistoryBound ==
  /\ pc \in Early => history = <<>>
  /\ pc \in Early \cup {"calling"} => steps = <<>>
  /\ pc = "calling" => Len(history) = 1
  /\ pc = "narrating" => /\ Len(steps) <= Len(FlowSteps)
                         /\ Len(history) = Len(steps) + 1
  /\ pc \in Proving => Len(history) = Len(FlowSteps) + 1
  /\ pc \in Failing => Len(history) <= Len(FlowSteps) + 1
  /\ pc \in {"ok_publish", "err_publish"} => Len(history) <= Len(FlowSteps) + 2
  /\ Len(history) <= Len(FlowSteps) + 3

\* The executor's position determines the state.
StateAt ==
  /\ pc \in Early => state = "created"
  /\ pc \in Proving \cup Failing \cup {"calling", "narrating"} => state = "running"
  /\ pc = "ok_publish" => state = "complete"
  /\ pc = "err_publish" => state = "failed"
  /\ pc = "ended" => Terminal(state)

\* A registered channel can hold a whole run, and its handler is known.
Roomy == \A c \in subs : cap[c] >= Slack

\* A connection that has not subscribed has no channel; a registered channel is
\* open; no channel was closed twice.
Fits(c) ==
  /\ handler[c] = "idle" => got[c] = <<>> /\ c \notin subs /\ closes[c] = 0
  /\ c \in subs => closes[c] = 0
  /\ closes[c] <= 1

HandlersFit == \A c \in Clients : Fits(c)

IInv == TypeOK /\ HistoryBound /\ StateAt /\ Roomy /\ StreamIntegrity


----------------------------------------------------------------------------
\* Publish keeps the types of what it writes.
LEMMA PublishTypes ==
  ASSUME history \in Seq(Event), buf \in [Clients -> Seq(Event)],
         NEW e \in Event, Publish(e)
  PROVE  /\ history' \in Seq(Event) /\ Len(history') = Len(history) + 1
         /\ buf' \in [Clients -> Seq(Event)]
  <1>1. history' = Append(history, e)
    BY DEF Publish
  <1>2. \A c \in Clients : Append(buf[c], e) \in Seq(Event)
    OBVIOUS
  <1>3. buf' \in [Clients -> Seq(Event)]
    BY <1>2 DEF Publish
  <1> QED BY <1>1, <1>3

\* Publish loses nothing while the run is short enough for every channel.
LEMMA PublishMirrors ==
  ASSUME history \in Seq(Event), buf \in [Clients -> Seq(Event)],
         got \in [Clients -> Seq(Event)], cap \in [Clients -> Nat],
         Roomy, StreamIntegrity, NEW e \in Event, Publish(e),
         got' = got, subs' \subseteq subs, Len(history) < Slack
  PROVE  StreamIntegrity'
  <1> SUFFICES ASSUME NEW c \in Clients PROVE Mirrors(c)'
    BY DEF StreamIntegrity
  <1>1. /\ Mirrors(c) /\ got[c] \in Seq(Event) /\ buf[c] \in Seq(Event)
        /\ cap[c] \in Nat
    BY DEF StreamIntegrity
  <1>2. history' = Append(history, e)
    BY DEF Publish
  <1>3. c \in subs => Len(buf[c]) < cap[c]
    BY <1>1, SlackAssumption DEF Roomy, Mirrors
  <1>4. buf'[c] = IF c \in subs THEN Append(buf[c], e) ELSE buf[c]
    BY <1>3 DEF Publish
  <1>5. CASE c \in subs
    <2> DEFINE g == Len(got[c])
               b == Len(buf[c])
    <2>1. buf'[c] = Append(buf[c], e)
      BY <1>4, <1>5
    <2>2. g + b = Len(history) /\ g \in Nat /\ b \in Nat
      BY <1>1, <1>5 DEF Mirrors
    <2>3. Len(buf'[c]) = b + 1 /\ Len(history') = Len(history) + 1
      BY <1>1, <1>2, <2>1
    <2>4. \A i \in 1..g : got[c][i] = history'[i]
      BY <1>1, <1>2, <2>2 DEF Mirrors
    <2>5. ASSUME NEW i \in 1..(b + 1)
          PROVE  buf'[c][i] = history'[g + i]
      <3>1. CASE i = b + 1
        BY <3>1, <1>1, <1>2, <2>1, <2>2
      <3>2. CASE i \in 1..b
        <4>1. buf'[c][i] = buf[c][i] BY <3>2, <1>1, <2>1
        <4>2. history'[g + i] = history[g + i] BY <3>2, <1>2, <2>2
        <4>3. buf[c][i] = history[g + i] BY <3>2, <1>1 DEF Mirrors
        <4> QED BY <4>1, <4>2, <4>3
      <3> QED BY <3>1, <3>2, <2>2
    <2> QED
      BY <2>2, <2>3, <2>4, <2>5 DEF Mirrors
  <1>6. CASE c \notin subs
    <2>1. buf'[c] = buf[c]
      BY <1>4, <1>6
    <2>2. \A i \in 1..Len(history) : history'[i] = history[i]
      BY <1>2
    <2> QED
      BY <1>1, <1>2, <1>6, <2>1, <2>2 DEF Mirrors
  <1> QED BY <1>5, <1>6

----------------------------------------------------------------------------
\* The invariant holds before the run is registered.
LEMMA InitIInv == Init => IInv
  <1> SUFFICES ASSUME Init PROVE IInv
    OBVIOUS
  <1>1. TypeOK
    BY DEF Init, TypeOK, PCs, States, Counters
  <1>2. HistoryBound /\ StateAt /\ Roomy
    BY DEF Init, HistoryBound, StateAt, Roomy, Early, Proving, Failing
  <1>3. StreamIntegrity
    BY DEF Init, StreamIntegrity, Mirrors
  <1> QED BY <1>1, <1>2, <1>3 DEF IInv

----------------------------------------------------------------------------
(* One lemma per kind of step: what leaves the channels alone, what publishes,
   what a handler does.                                                    *)

\* The position of the executor before the steps that publish something.
LEMMA ShortEnough ==
  ASSUME IInv, pc # "ended", pc = "narrating" => Len(steps) < Len(FlowSteps)
  PROVE  Len(history) < Len(FlowSteps) + 3 /\ Len(history) < Slack
  <1>1. /\ Len(FlowSteps) \in Nat /\ Len(FlowSteps) > 0
        /\ Slack \in Nat /\ Len(FlowSteps) + 3 <= Slack
    BY FlowStepsAssumption, SlackAssumption
  <1>2. Len(history) \in Nat /\ Len(steps) \in Nat /\ pc \in PCs
    BY DEF IInv, TypeOK
  <1>3. HistoryBound BY DEF IInv
  <1>4. Len(history) < Len(FlowSteps) + 3
    <2>1. CASE pc \in Early
      <3>1. Len(history) = 0 BY <1>3, <2>1 DEF HistoryBound
      <3> QED BY <1>1, <3>1
    <2>2. CASE pc = "calling"
      <3>1. Len(history) = 1 BY <1>3, <2>2 DEF HistoryBound
      <3> QED BY <1>1, <3>1
    <2>3. CASE pc = "narrating"
      <3>1. Len(history) = Len(steps) + 1 BY <1>3, <2>3 DEF HistoryBound
      <3>2. Len(steps) < Len(FlowSteps) BY <2>3
      <3> QED BY <1>1, <1>2, <3>1, <3>2
    <2>4. CASE pc \in Proving \cup Failing
      BY <1>1, <1>2, <1>3, <2>4 DEF HistoryBound
    <2>5. CASE pc \in {"ok_publish", "err_publish"}
      BY <1>1, <1>2, <1>3, <2>5 DEF HistoryBound
    <2> QED
      BY <1>2, <2>1, <2>2, <2>3, <2>4, <2>5 DEF PCs, Early, Proving, Failing
  <1> QED BY <1>1, <1>2, <1>4

\* A transition publishes or does nothing.
LEMMA TransitionSteps ==
  ASSUME TypeOK, NEW s \in States, Transition(s), CanTransition(state, s)
  PROVE  /\ state' = s /\ Publish(StateEvent(s)) /\ StateEvent(s) \in Event
  BY DEF Transition, StateEvent, Event

\* Steps of the executor that only move on.
QuietStep ==
  \/ Register \/ CountStarted \/ NodeAnswers \/ VerifyAndMarshal
  \/ PutEncodeFails \/ PutMemory \/ Persisted \/ CountCompleted
  \/ CountFailed \/ SetReceipt \/ SetMessage

\* What a step that publishes nothing leaves alone.
LEMMA QuietFrame ==
  ASSUME QuietStep
  PROVE  UNCHANGED <<state, steps, history, chanVars, sseVars>>
  BY DEF QuietStep, Register, CountStarted, NodeAnswers, VerifyAndMarshal,
     PutEncodeFails, PutMemory, Persisted, CountCompleted, CountFailed,
     SetReceipt, SetMessage, runVars, chanVars, sseVars

\* A step that publishes nothing keeps the invariant.
LEMMA QuietStepInv ==
  ASSUME IInv, QuietStep
  PROVE  IInv'
  <1>1. UNCHANGED <<state, steps, history, subs, buf, cap, closes, handler,
                    deferred, got>>
    BY QuietFrame DEF chanVars, sseVars
  <1>2. TypeOK'
    <2>1. /\ pc' \in PCs /\ err' \in Errors \cup {Empty}
          /\ receiptID' \in {Empty, ReceiptID}
          /\ errMsg' \in Errors \cup {Empty}
          /\ stored' \subseteq {ReceiptID}
      BY DEF IInv, TypeOK, QuietStep, Register, CountStarted, NodeAnswers,
         VerifyAndMarshal, PutEncodeFails, PutMemory, Persisted,
         CountCompleted, CountFailed, SetReceipt, SetMessage, runVars,
         Goto, PCs, Errors
    <2>2. metrics' \in Counters
      <3>1. metrics \in Counters BY DEF IInv, TypeOK
      <3>2. \/ metrics' = metrics
            \/ metrics' = [metrics EXCEPT !.started = @ + 1]
            \/ metrics' = [metrics EXCEPT !.completed = @ + 1]
            \/ metrics' = [metrics EXCEPT !.failed = @ + 1]
        BY DEF QuietStep, Register, CountStarted, NodeAnswers,
           VerifyAndMarshal, PutEncodeFails, PutMemory, Persisted,
           CountCompleted, CountFailed, SetReceipt, SetMessage
      <3> QED BY <3>1, <3>2 DEF Counters
    <2> QED
      BY <1>1, <2>1, <2>2 DEF IInv, TypeOK
  <1>3. HistoryBound'
    <2>1. /\ Len(FlowSteps) \in Nat /\ Len(history) \in Nat
          /\ Len(steps) \in Nat /\ HistoryBound
      BY FlowStepsAssumption DEF IInv, TypeOK
    <2>2. CASE VerifyAndMarshal
      BY <1>1, <2>1, <2>2
      DEF HistoryBound, VerifyAndMarshal, Early, Proving, Failing
    <2>3. CASE Register \/ CountStarted
      BY <1>1, <2>1, <2>3
      DEF HistoryBound, Register, CountStarted, Goto, Early, Proving, Failing
    <2>4. CASE NodeAnswers
      BY <1>1, <2>1, <2>4
      DEF HistoryBound, NodeAnswers, Goto, Early, Proving, Failing
    <2>5. CASE PutEncodeFails \/ PutMemory \/ Persisted \/ CountCompleted
               \/ CountFailed \/ SetReceipt \/ SetMessage
      BY <1>1, <2>1, <2>5
      DEF HistoryBound, PutEncodeFails, PutMemory, Persisted, CountCompleted,
          CountFailed, SetReceipt, SetMessage, Goto, Early, Proving, Failing
    <2> QED BY <2>2, <2>3, <2>4, <2>5 DEF QuietStep
  <1>4. StateAt'
    BY <1>1
    DEF IInv, StateAt, QuietStep, Register, CountStarted,
        NodeAnswers, VerifyAndMarshal, PutEncodeFails, PutMemory, Persisted,
        CountCompleted, CountFailed, SetReceipt, SetMessage, Goto, PCs,
        Early, Proving, Failing, Terminal
  <1>5. Roomy' /\ StreamIntegrity'
    BY <1>1 DEF IInv, Roomy, StreamIntegrity, Mirrors
  <1> QED BY <1>2, <1>3, <1>4, <1>5 DEF IInv

\* Steps of the executor that publish.
LEMMA PublishStep ==
  ASSUME IInv, NEW e \in Event, Publish(e), UNCHANGED <<got, cap>>,
         subs' \subseteq subs, pc # "ended",
         pc = "narrating" => Len(steps) < Len(FlowSteps)
  PROVE  /\ history' \in Seq(Event) /\ Len(history') = Len(history) + 1
         /\ buf' \in [Clients -> Seq(Event)]
         /\ Roomy' /\ StreamIntegrity'
  <1>1. Len(history) < Slack
    BY ShortEnough
  <1>2. /\ history \in Seq(Event) /\ buf \in [Clients -> Seq(Event)]
        /\ got \in [Clients -> Seq(Event)] /\ cap \in [Clients -> Nat]
        /\ Roomy /\ StreamIntegrity
    BY DEF IInv, TypeOK
  <1>3. StreamIntegrity'
    BY <1>1, <1>2, PublishMirrors
  <1>4. Roomy'
    BY <1>2 DEF Roomy
  <1> QED BY <1>2, <1>3, <1>4, PublishTypes

\* Launch publishes the first event of the run.
LEMMA LaunchInv ==
  ASSUME IInv, Launch
  PROVE  IInv'
  <1>1. pc = "counted" /\ pc' = "calling" /\ state = "created"
        /\ history = <<>> /\ steps = <<>>
    BY DEF IInv, HistoryBound, StateAt, Early, Launch, Goto
  <1>2. state' = "running" /\ Publish(StateEvent("running"))
        /\ StateEvent("running") \in Event
    BY <1>1, TransitionSteps DEF Launch, IInv, States, CanTransition
  <1>3. UNCHANGED <<err, steps, receiptID, errMsg, subs, cap, closes,
                    handler, deferred, got, stored, metrics>>
    BY DEF Launch, sseVars
  <1>4. /\ history' \in Seq(Event) /\ Len(history') = 1
        /\ buf' \in [Clients -> Seq(Event)] /\ Roomy' /\ StreamIntegrity'
    BY <1>1, <1>2, <1>3, PublishStep DEF IInv, TypeOK
  <1>5. TypeOK'
    BY <1>1, <1>2, <1>3, <1>4 DEF IInv, TypeOK, PCs, States
  <1>6. HistoryBound' /\ StateAt'
    BY <1>1, <1>2, <1>3, <1>4, FlowStepsAssumption
    DEF HistoryBound, StateAt, Early, Proving, Failing
  <1> QED BY <1>4, <1>5, <1>6 DEF IInv

\* The error paths: the failed step, with the reason kept for finishErr.
LEMMA NodeFailsInv ==
  ASSUME IInv, NodeFails
  PROVE  IInv'
  <1>1. /\ pc = "calling" /\ pc' = "failing" /\ state = "running"
        /\ Len(history) = 1 /\ steps = <<>>
    BY DEF IInv, HistoryBound, StateAt, NodeFails, Goto
  <1>2. /\ Publish(StepEvent(FailedStep)) /\ steps' = <<FailedStep>>
        /\ StepEvent(FailedStep) \in Event
    BY <1>1 DEF NodeFails, AddStep, StepEvent, Event
  <1>3. /\ UNCHANGED <<state, receiptID, errMsg, subs, cap, closes,
                       handler, deferred, got, stored, metrics>>
        /\ err' \in NodeErrors
    BY DEF NodeFails, sseVars
  <1>4. /\ history' \in Seq(Event) /\ Len(history') = 2
        /\ buf' \in [Clients -> Seq(Event)] /\ Roomy' /\ StreamIntegrity'
    BY <1>1, <1>2, <1>3, PublishStep DEF IInv, TypeOK
  <1>5. TypeOK'
    BY <1>1, <1>2, <1>3, <1>4 DEF IInv, TypeOK, PCs, Errors
  <1>6. HistoryBound' /\ StateAt'
    <2>1. Len(FlowSteps) \in Nat /\ Len(FlowSteps) > 0
      BY FlowStepsAssumption
    <2> QED
      BY <1>1, <1>2, <1>3, <1>4, <2>1
      DEF HistoryBound, StateAt, Early, Proving, Failing
  <1> QED BY <1>4, <1>5, <1>6 DEF IInv

\* A step is narrated while there is one left to narrate.
LEMMA EmitStepInv ==
  ASSUME IInv, EmitStep
  PROVE  IInv'
  <1> DEFINE k == FlowSteps[Len(steps) + 1]
  <1>1. /\ pc = "narrating" /\ pc' = pc /\ state = "running"
        /\ Len(steps) < Len(FlowSteps) /\ Len(steps) \in Nat
        /\ Len(history) = Len(steps) + 1
    BY DEF IInv, TypeOK, HistoryBound, StateAt, EmitStep
  <1>2. k \in StepKeys
    BY <1>1, FlowStepsAssumption
  <1>3. /\ Publish(StepEvent(k)) /\ steps' = Append(steps, k)
    BY DEF EmitStep, AddStep
  <1>4. StepEvent(k) \in Event
    BY <1>2 DEF StepEvent, Event
  <1>5. UNCHANGED <<err, state, receiptID, errMsg, subs, cap, closes,
                    handler, deferred, got, stored, metrics>>
    BY DEF EmitStep, sseVars
  <1>6. /\ history' \in Seq(Event) /\ Len(history') = Len(history) + 1
        /\ buf' \in [Clients -> Seq(Event)] /\ Roomy' /\ StreamIntegrity'
    BY <1>1, <1>3, <1>4, <1>5, PublishStep
  <1>7. steps' \in Seq(StepKeys \cup {FailedStep}) /\ Len(steps') = Len(steps) + 1
    BY <1>2, <1>3 DEF IInv, TypeOK
  <1>8. TypeOK'
    BY <1>1, <1>5, <1>6, <1>7 DEF IInv, TypeOK
  <1>9. HistoryBound' /\ StateAt'
    <2>1. Len(FlowSteps) \in Nat
      BY FlowStepsAssumption
    <2> QED
      BY <1>1, <1>5, <1>6, <1>7, <2>1
      DEF HistoryBound, StateAt, Early, Proving, Failing
  <1> QED BY <1>6, <1>8, <1>9 DEF IInv

\* The verdict is the last event but one.
LEMMA SettleInv ==
  ASSUME IInv, Settle
  PROVE  IInv'
  <1>1. PICK s \in {"complete", "failed"} :
          /\ Transition(s) /\ state = "running"
          /\ pc \in {"ok_transition", "err_transition"}
          /\ pc' = IF s = "complete" THEN "ok_publish" ELSE "err_publish"
    BY DEF IInv, StateAt, Settle, Goto, Proving, Failing
  <1>2. /\ state' = s /\ Publish(StateEvent(s)) /\ StateEvent(s) \in Event
    BY <1>1, TransitionSteps DEF IInv, States, CanTransition
  <1>3. UNCHANGED <<err, steps, receiptID, errMsg, subs, cap, closes,
                    handler, deferred, got, stored, metrics>>
    BY DEF Settle, sseVars
  <1>4. /\ history' \in Seq(Event) /\ Len(history') = Len(history) + 1
        /\ buf' \in [Clients -> Seq(Event)] /\ Roomy' /\ StreamIntegrity'
    BY <1>1, <1>2, <1>3, PublishStep
  <1>5. TypeOK'
    BY <1>1, <1>2, <1>3, <1>4 DEF IInv, TypeOK, PCs, States
  <1>6. HistoryBound' /\ StateAt'
    <2>1. /\ Len(FlowSteps) \in Nat /\ Len(history) \in Nat
          /\ Len(history) <= Len(FlowSteps) + 1
      BY <1>1, FlowStepsAssumption
      DEF IInv, TypeOK, HistoryBound, Proving, Failing
    <2> QED
      BY <1>1, <1>2, <1>3, <1>4, <2>1
      DEF HistoryBound, StateAt, Early, Proving, Failing
  <1> QED BY <1>4, <1>5, <1>6 DEF IInv

\* The outcome is the last event.
LEMMA PublishOutcomeInv ==
  ASSUME IInv, PublishOutcome
  PROVE  IInv'
  <1>1. PICK e \in {DoneEvent(receiptID), ErrorEvent(errMsg)} : Publish(e)
    BY DEF PublishOutcome
  <1>2. /\ pc \in {"ok_publish", "err_publish"} /\ pc' = "ended"
        /\ Terminal(state)
    BY DEF IInv, StateAt, PublishOutcome, Goto, Terminal
  <1>3. e \in Event
    <2>1. receiptID \in {Empty, ReceiptID} /\ errMsg \in Errors \cup {Empty}
      BY DEF IInv, TypeOK
    <2> QED BY <1>1, <2>1 DEF DoneEvent, ErrorEvent, Event
  <1>4. /\ UNCHANGED <<err, state, steps, receiptID, errMsg, cap,
                       handler, deferred, got, stored, metrics>>
        /\ subs' = {}
        /\ closes' = [c \in Clients |-> closes[c] + (IF c \in subs THEN 1 ELSE 0)]
    BY DEF PublishOutcome, CloseSubs, sseVars
  <1>5. /\ history' \in Seq(Event) /\ Len(history') = Len(history) + 1
        /\ buf' \in [Clients -> Seq(Event)] /\ Roomy' /\ StreamIntegrity'
    BY <1>1, <1>2, <1>3, <1>4, PublishStep
  <1>6. closes' \in [Clients -> Nat]
    BY <1>4 DEF IInv, TypeOK
  <1>7. TypeOK'
    BY <1>2, <1>4, <1>5, <1>6 DEF IInv, TypeOK, PCs
  <1>8. HistoryBound' /\ StateAt'
    <2>1. /\ Len(FlowSteps) \in Nat /\ Len(history) \in Nat
          /\ Len(history) <= Len(FlowSteps) + 2
      BY <1>2, FlowStepsAssumption DEF IInv, TypeOK, HistoryBound
    <2> QED
      BY <1>2, <1>4, <1>5, <2>1
      DEF HistoryBound, StateAt, Early, Proving, Failing, Terminal
  <1> QED BY <1>5, <1>7, <1>8 DEF IInv

----------------------------------------------------------------------------
(* The handlers.  None of them touches the run. *)

HandlerStep(c) ==
  NotFound(c) \/ Subscribe(c) \/ Disconnect(c) \/ Handler(c)

\* A handler changes nothing of the run.
LEMMA HandlerFrame ==
  ASSUME NEW c \in Clients, HandlerStep(c)
  PROVE  UNCHANGED <<pc, err, state, steps, receiptID, errMsg, history,
                     stored, metrics>>
  BY DEF HandlerStep, Handler, NotFound, Subscribe, Disconnect, Receive,
     StreamEnds, Unsubscribe, runVars

\* A handler keeps the types.
LEMMA HandlerTypes ==
  ASSUME TypeOK, NEW c \in Clients, HandlerStep(c)
  PROVE  TypeOK'
  <1>1. UNCHANGED <<pc, err, state, steps, receiptID, errMsg, history,
                    stored, metrics>>
    BY HandlerFrame
  <1>2. CASE NotFound(c) \/ StreamEnds(c) \/ Disconnect(c)
    BY <1>1, <1>2 DEF TypeOK, NotFound, StreamEnds, Disconnect, chanVars
  <1>3. CASE Subscribe(c)
    <2>1. ChanCap(history) \in Nat
      BY SlackAssumption DEF TypeOK, ChanCap
    <2>2. /\ handler' \in [Clients -> {"idle", "refused", "streaming", "ended", "left"}]
          /\ cap' \in [Clients -> Nat] /\ buf' \in [Clients -> Seq(Event)]
          /\ got' = got
      BY <1>3, <2>1 DEF TypeOK, Subscribe
    <2>3. subs' \subseteq Clients /\ deferred' \subseteq Clients
      BY <1>3 DEF TypeOK, Subscribe
    <2>4. closes' \in [Clients -> Nat]
      <3>1. closes' = [closes EXCEPT ![c] = @ + 1] \/ closes' = closes
        BY <1>3 DEF Subscribe
      <3> QED BY <3>1 DEF TypeOK
    <2> QED BY <1>1, <2>2, <2>3, <2>4 DEF TypeOK
  <1>4. CASE Receive(c)
    <2>1. buf[c] \in Seq(Event) /\ buf[c] # <<>> /\ got[c] \in Seq(Event)
      BY <1>4 DEF TypeOK, Receive
    <2>2. /\ Head(buf[c]) \in Event /\ Tail(buf[c]) \in Seq(Event)
          /\ Append(got[c], Head(buf[c])) \in Seq(Event)
      BY <2>1
    <2>3. /\ got' \in [Clients -> Seq(Event)] /\ buf' \in [Clients -> Seq(Event)]
          /\ UNCHANGED <<subs, cap, closes, handler, deferred>>
      BY <1>4, <2>2 DEF TypeOK, Receive
    <2> QED BY <1>1, <2>3 DEF TypeOK
  <1>5. CASE Unsubscribe(c)
    <2>1. /\ UNCHANGED <<buf, cap, handler, got>>
          /\ closes' \in [Clients -> Nat]
          /\ subs' \subseteq Clients /\ deferred' \subseteq Clients
      BY <1>5 DEF TypeOK, Unsubscribe
    <2> QED BY <1>1, <2>1 DEF TypeOK
  <1> QED BY <1>2, <1>3, <1>4, <1>5 DEF HandlerStep, Handler

\* What a handler takes from its channel it has written: the two together
\* stay the beginning of the history.
LEMMA HandlerMirrors ==
  ASSUME TypeOK, StreamIntegrity, NEW c \in Clients, HandlerStep(c),
         \A d \in Clients : handler[d] = "idle" => got[d] = <<>>
  PROVE  StreamIntegrity'
  <1> SUFFICES ASSUME NEW d \in Clients PROVE Mirrors(d)'
    BY DEF StreamIntegrity
  <1>1. Mirrors(d) /\ history' = history
    BY HandlerFrame DEF StreamIntegrity
  <1>2. CASE UNCHANGED <<got[d], buf[d]>> /\ subs' \subseteq subs
    BY <1>1, <1>2 DEF Mirrors
  <1>3. CASE Subscribe(c)
    <2>1. CASE c = d
      <3>1. got'[d] = <<>> /\ buf'[d] = history
        BY <1>3, <2>1 DEF Subscribe, TypeOK
      <3>2. Len(got'[d]) = 0 /\ history \in Seq(Event)
        BY <3>1 DEF TypeOK
      <3> QED BY <1>1, <3>1, <3>2 DEF Mirrors
    <2>2. CASE c # d
      <3>1. /\ UNCHANGED <<got[d], buf[d]>>
            /\ d \in subs' <=> d \in subs
        BY <1>3, <2>2 DEF Subscribe, TypeOK
      <3> QED BY <1>1, <3>1 DEF Mirrors
    <2> QED BY <2>1, <2>2
  <1>4. CASE Receive(c)
    <2>1. CASE c = d
      <3> DEFINE g == Len(got[d])
                 b == Len(buf[d])
      <3>1. /\ got[d] \in Seq(Event) /\ buf[d] \in Seq(Event)
            /\ buf[d] # <<>> /\ g \in Nat /\ b \in Nat /\ b > 0
            /\ history \in Seq(Event)
        BY <1>4, <2>1 DEF Receive, TypeOK
      <3>2. /\ got'[d] = Append(got[d], Head(buf[d]))
            /\ buf'[d] = Tail(buf[d]) /\ subs' = subs
        BY <1>4, <2>1 DEF Receive, TypeOK
      <3>3. Len(got'[d]) = g + 1 /\ Len(buf'[d]) = b - 1
        BY <3>1, <3>2
      <3>4. ASSUME NEW i \in 1..(g + 1) PROVE got'[d][i] = history[i]
        <4>1. CASE i = g + 1
          <5>1. got'[d][i] = Head(buf[d]) BY <3>1, <3>2, <4>1
          <5>2. Head(buf[d]) = buf[d][1] BY <3>1
          <5>3. buf[d][1] = history[g + 1] BY <1>1, <3>1 DEF Mirrors
          <5> QED BY <4>1, <5>1, <5>2, <5>3
        <4>2. CASE i \in 1..g
          <5>1. got'[d][i] = got[d][i] BY <3>1, <3>2, <4>2
          <5> QED BY <1>1, <4>2, <5>1 DEF Mirrors
        <4> QED BY <3>1, <4>1, <4>2
      <3>5. ASSUME NEW i \in 1..(b - 1) PROVE buf'[d][i] = history[(g + 1) + i]
        <4>1. buf'[d][i] = buf[d][i + 1] BY <3>1, <3>2
        <4>2. i + 1 \in 1..b BY <3>1
        <4>3. buf[d][i + 1] = history[g + (i + 1)] BY <1>1, <4>2 DEF Mirrors
        <4>4. \A m, n \in Nat : m + (n + 1) = (m + 1) + n OBVIOUS
        <4>5. i \in Nat OBVIOUS
        <4> QED BY <3>1, <4>1, <4>3, <4>4, <4>5
      <3>6. g + b <= Len(history) /\ (d \in subs => g + b = Len(history))
        BY <1>1 DEF Mirrors
      <3>7. (g + 1) + (b - 1) = g + b
        <4>1. \A m, n \in Nat : (m + 1) + (n - 1) = m + n OBVIOUS
        <4> QED BY <3>1, <4>1
      <3> HIDE DEF g, b
      <3> QED BY <1>1, <3>2, <3>3, <3>4, <3>5, <3>6, <3>7 DEF Mirrors
    <2>2. CASE c # d
      BY <1>1, <1>4, <2>2 DEF Receive, TypeOK, Mirrors
    <2> QED BY <2>1, <2>2
  <1> QED
    BY <1>2, <1>3, <1>4
    DEF HandlerStep, Handler, NotFound, StreamEnds, Disconnect, Unsubscribe,
        chanVars

\* A new channel has room for what is still to come.
LEMMA HandlerRoomy ==
  ASSUME TypeOK, Roomy, HandlersFit, NEW c \in Clients, HandlerStep(c)
  PROVE  Roomy'
  <1>1. CASE UNCHANGED cap /\ subs' \subseteq subs
    BY <1>1 DEF Roomy
  <1>2. CASE Subscribe(c)
    <2>1. ChanCap(history) >= Slack /\ c \notin subs
      BY <1>2, SlackAssumption DEF ChanCap, TypeOK, Subscribe, HandlersFit, Fits
    <2>2. \A d \in Clients : cap'[d] = IF d = c THEN ChanCap(history) ELSE cap[d]
      BY <1>2 DEF TypeOK, Subscribe
    <2>3. subs' \subseteq subs \cup {c} /\ subs \subseteq Clients
      BY <1>2 DEF TypeOK, Subscribe
    <2> QED BY <2>1, <2>2, <2>3 DEF Roomy
  <1> QED
    BY <1>1, <1>2
    DEF HandlerStep, Handler, NotFound, StreamEnds, Disconnect, Receive,
        Unsubscribe, chanVars

\* Every step of a handler keeps the invariant.
LEMMA HandlerInv ==
  ASSUME IInv, HandlersFit, NEW c \in Clients, HandlerStep(c)
  PROVE  IInv'
  <1>1. UNCHANGED <<pc, state, steps, history>>
    BY HandlerFrame
  <1>2. TypeOK' BY HandlerTypes DEF IInv
  <1>3. StreamIntegrity' BY HandlerMirrors DEF IInv, HandlersFit, Fits
  <1>4. Roomy' BY HandlerRoomy DEF IInv
  <1>5. HistoryBound' /\ StateAt'
    BY <1>1 DEF IInv, HistoryBound, StateAt
  <1> QED BY <1>2, <1>3, <1>4, <1>5 DEF IInv

----------------------------------------------------------------------------
(* Channels are opened and closed in order. *)

\* The executor leaves channels and handlers registered as they are.
LEMMA ExecutorFrame ==
  ASSUME QuietStep \/ Launch \/ NodeFails \/ EmitStep \/ Settle
  PROVE  UNCHANGED <<subs, cap, closes, handler, deferred, got>>
  <1>1. CASE QuietStep
    BY <1>1, QuietFrame DEF chanVars, sseVars
  <1>2. CASE Launch \/ NodeFails \/ EmitStep \/ Settle
    BY <1>2 DEF Launch, NodeFails, EmitStep, Settle, sseVars
  <1> QED BY <1>1, <1>2

\* Channels are made by Subscribe only and closed once.
LEMMA FitsStep ==
  ASSUME TypeOK, HandlersFit, Next
  PROVE  HandlersFit'
  <1> SUFFICES ASSUME NEW d \in Clients PROVE Fits(d)'
    BY DEF HandlersFit
  <1>1. Fits(d) /\ closes[d] \in Nat
    BY DEF HandlersFit, TypeOK
  <1>2. CASE QuietStep \/ Launch \/ NodeFails \/ EmitStep \/ Settle
    BY <1>1, <1>2, ExecutorFrame DEF Fits
  <1>3. CASE PublishOutcome
    <2>1. /\ subs' = {} /\ UNCHANGED <<handler, got>>
          /\ closes'[d] = closes[d] + (IF d \in subs THEN 1 ELSE 0)
      BY <1>3 DEF PublishOutcome, CloseSubs, sseVars
    <2> QED BY <1>1, <2>1 DEF Fits
  <1>4. ASSUME NEW c \in Clients, HandlerStep(c) PROVE Fits(d)'
    <2>1. CASE NotFound(c) \/ StreamEnds(c) \/ Disconnect(c)
      BY <1>1, <2>1 DEF NotFound, StreamEnds, Disconnect, chanVars, TypeOK, Fits
    <2>2. CASE Receive(c)
      BY <1>1, <2>2 DEF Receive, TypeOK, Fits
    <2>3. CASE Subscribe(c)
      BY <1>1, <2>3 DEF Subscribe, TypeOK, Fits
    <2>4. CASE Unsubscribe(c)
      <3>1. UNCHANGED <<handler, got>>
        BY <2>4 DEF Unsubscribe
      <3>2. CASE d = c /\ d \in subs
        <4>1. d \notin subs' /\ closes'[d] = closes[d] + 1
          BY <2>4, <3>2 DEF Unsubscribe, TypeOK
        <4>2. handler[d] # "idle"
          BY <2>4, <3>2 DEF Unsubscribe
        <4> QED BY <1>1, <3>1, <3>2, <4>1, <4>2 DEF Fits
      <3>3. CASE ~ (d = c /\ d \in subs)
        <4>1. (d \in subs' => d \in subs) /\ closes'[d] = closes[d]
          BY <2>4, <3>3 DEF Unsubscribe, TypeOK
        <4> QED BY <1>1, <3>1, <4>1 DEF Fits
      <3> QED BY <3>2, <3>3
    <2> QED BY <1>4, <2>1, <2>2, <2>3, <2>4 DEF HandlerStep, Handler
  <1> QED
    BY <1>2, <1>3, <1>4 DEF Next, Start, Executor, QuietStep, HandlerStep

----------------------------------------------------------------------------
\* Every step keeps the invariant.
LEMMA NextInv == IInv /\ HandlersFit /\ [Next]_vars => IInv' /\ HandlersFit'
  <1> SUFFICES ASSUME IInv, HandlersFit, [Next]_vars
               PROVE  IInv' /\ HandlersFit'
    OBVIOUS
  <1>1. ASSUME Next PROVE IInv'
    <2>1. \/ QuietStep \/ Launch \/ NodeFails \/ EmitStep \/ Settle
          \/ PublishOutcome \/ \E c \in Clients : HandlerStep(c)
      BY <1>1 DEF Next, Start, Executor, QuietStep, HandlerStep
    <2> QED
      BY <2>1, QuietStepInv, LaunchInv, NodeFailsInv, EmitStepInv, SettleInv,
         PublishOutcomeInv, HandlerInv
  <1>2. Next => HandlersFit'
    BY FitsStep DEF IInv
  <1>3. CASE UNCHANGED vars
    BY <1>3
    DEF vars, runVars, chanVars, sseVars, IInv, TypeOK, HistoryBound, StateAt,
        Roomy, StreamIntegrity, Mirrors, HandlersFit, Fits
  <1> QED
    BY <1>1, <1>2, <1>3

\* So it holds throughout.
LEMMA Invariance == Spec => [](IInv /\ HandlersFit)
  <1>1. Init => IInv /\ HandlersFit
    <2>1. Init => HandlersFit
      BY DEF Init, HandlersFit, Fits
    <2> QED BY <2>1, InitIInv
  <1> QED BY <1>1, NextInv, PTL DEF Spec

\* Every reachable state of a run is well typed.
THEOREM RunTypeCorrect == Spec => []TypeOK
  BY Invariance, PTL DEF IInv

\* No reader of a run's events ever loses, repeats or reorders one, however
\* slow it is and whenever it subscribed (runs.go 140-184).
THEOREM RunLosesNoEvent == Spec => []StreamIntegrity
  BY Invariance, PTL DEF IInv

\* Neither a publish, nor the end of a run, nor a disconnect ever sends on or
\* closes a closed channel (runs.go 140-184): no goroutine panics.
THEOREM RunClosesChannelsOnce == Spec => []ChannelDiscipline
  <1>1. HandlersFit => ChannelDiscipline
    BY DEF HandlersFit, Fits, ChannelDiscipline
  <1> QED BY <1>1, Invariance, PTL

----------------------------------------------------------------------------
(* What a run tells, and with it that a run implements RunContract.

   The argument: the position of the executor fixes how many events are out and
   each of them is the one the snapshot stands for (ToldAt); what a verdict
   needs is there before the executor gets to the verdict (BackedAt); a closed
   channel still holds, with what its handler wrote, the events up to the verdict
   (ClosedLate).  So every event that is published is the next one the contract
   allows, and a stream ends after its verdict.                            *)

Publishing == {"ok_publish", "err_publish"}

\* How many events are out, and which.
ToldAt ==
  /\ pc \in PCs \ (Early \cup Publishing \cup {"ended"}) =>
       Len(history) = Len(steps) + 1
  /\ pc \in Publishing => Len(history) = Len(steps) + 2
  /\ pc = "ended" => Len(history) = Len(steps) + 3
  /\ \A i \in 1..Len(history) : history[i] = ToldBySnapshot(i)

Stored  == {"persisting", "succeeding", "ok_receipt", "ok_transition", "ok_publish"}
Counted == {"ok_receipt", "ok_transition", "ok_publish"}
Blamed  == {"err_message", "err_transition", "err_publish"}

\* What the executor has done before each of its positions.
BackedAt ==
  /\ pc = "narrating" => \A i \in 1..Len(steps) : steps[i] = FlowSteps[i]
  /\ pc \in Proving \cup {"ok_publish"} => steps = FlowSteps
  /\ pc \in Stored => ReceiptID \in stored
  /\ pc # "ended" => /\ receiptID = IF pc \in {"ok_transition", "ok_publish"}
                                    THEN ReceiptID ELSE Empty
                     /\ pc \notin {"err_transition", "err_publish"} => errMsg = Empty
                     /\ metrics.completed = IF pc \in Counted THEN 1 ELSE 0
                     /\ metrics.failed = IF pc \in Blamed THEN 1 ELSE 0
  /\ pc \in Failing => err # Empty
  /\ pc \in {"err_transition", "err_publish"} => errMsg # Empty

\* A channel is closed late enough, and read to its end before a stream ends.
ClosedLate(c) ==
  /\ handler[c] = "streaming" /\ closes[c] > 0 =>
       Terminal(state) /\ Len(got[c]) + Len(buf[c]) >= Len(steps) + 2
  /\ handler[c] = "ended" => Terminal(state) /\ Len(got[c]) >= Len(steps) + 2

StreamsEndLate == \A c \in Clients : ClosedLate(c)

CInv == IInv /\ HandlersFit /\ ToldAt /\ BackedAt /\ VerdictIsBacked /\ StreamsEndLate

----------------------------------------------------------------------------
(* The events that are out. *)

\* What was told stays told as long as the steps told stay what they are and, once
\* the verdict is out, the rest of the snapshot does too.
LEMMA ToldStays ==
  ASSUME TypeOK, TypeOK', ToldAt,
         NEW i \in 1..Len(history),
         \A j \in 1..Len(steps) : steps'[j] = steps[j],
         Len(steps') >= Len(steps),
         \/ Len(history) <= Len(steps) + 1
         \/ UNCHANGED <<steps, state, receiptID, errMsg>>
  PROVE  ToldBySnapshot(i)' = history[i]
<1>1. history[i] = ToldBySnapshot(i) /\ i \in Nat /\ i >= 1 /\ i <= Len(history)
  BY DEF ToldAt, TypeOK
<1>2. Len(steps) \in Nat /\ Len(steps') \in Nat /\ Len(history) \in Nat
  BY DEF TypeOK
<1>3. CASE Len(history) <= Len(steps) + 1
  <2>1. i = 1 \/ (i \in 2..Len(steps) + 1 /\ i \in 2..Len(steps') + 1 /\ i - 1 \in 1..Len(steps))
    BY <1>1, <1>2, <1>3
  <2> QED
    BY <1>1, <2>1 DEF ToldBySnapshot
<1>4. CASE UNCHANGED <<steps, state, receiptID, errMsg>>
  BY <1>1, <1>4 DEF ToldBySnapshot
<1> QED
  BY <1>3, <1>4

\* A step that publishes nothing moves on in front of the verdict or behind it.
LEMMA QuietTold ==
  ASSUME IInv, IInv', ToldAt, UNCHANGED <<state, steps, history>>,
         \/ UNCHANGED <<pc, receiptID, errMsg>>
         \/ pc \in Early /\ pc' \in Early
         \/ /\ pc \in PCs \ (Early \cup Publishing \cup {"ended"})
            /\ pc' \in PCs \ (Early \cup Publishing \cup {"ended"})
  PROVE  ToldAt'
<1>1. CASE UNCHANGED <<pc, receiptID, errMsg>>
  BY <1>1 DEF ToldAt, ToldBySnapshot
<1>2. CASE pc \in Early /\ pc' \in Early
  <2>1. history' = <<>>
    BY <1>2 DEF IInv, HistoryBound
  <2> QED
    BY <1>2, <2>1 DEF ToldAt, Early, Publishing, PCs
<1>3. CASE /\ pc \in PCs \ (Early \cup Publishing \cup {"ended"})
           /\ pc' \in PCs \ (Early \cup Publishing \cup {"ended"})
  <2>1. Len(history) = Len(steps) + 1
    BY <1>3 DEF ToldAt
  <2>2. TypeOK /\ TypeOK' /\ Len(steps) \in Nat
    BY DEF IInv, TypeOK
  <2>3. \A i \in 1..Len(history) : ToldBySnapshot(i)' = history[i]
    BY <2>1, <2>2, ToldStays
  <2> QED
    BY <1>3, <2>1, <2>3 DEF ToldAt
<1> QED
  BY <1>1, <1>2, <1>3

\* A step that publishes the event the new snapshot stands for next.
LEMMA PublishTold ==
  ASSUME IInv, IInv', ToldAt, NEW e, Publish(e),
         \A j \in 1..Len(steps) : steps'[j] = steps[j],
         Len(steps') >= Len(steps),
         \/ Len(history) <= Len(steps) + 1
         \/ UNCHANGED <<steps, state, receiptID, errMsg>>,
         \A n : n = Len(history) + 1 => e = ToldBySnapshot(n)'
  PROVE  \A i \in 1..Len(history') : history'[i] = ToldBySnapshot(i)'
<1>1. TypeOK /\ TypeOK' /\ history \in Seq(Event) /\ history' = Append(history, e)
      /\ Len(history) \in Nat
  BY DEF IInv, TypeOK, Publish
<1>2. TAKE i \in 1..Len(history')
<1>3. CASE i = Len(history) + 1
  BY <1>1, <1>3
<1>4. CASE i \in 1..Len(history)
  <2>1. ToldBySnapshot(i)' = history[i]
    BY <1>1, <1>4, ToldStays
  <2> QED
    BY <1>1, <1>4, <2>1
<1> QED
  BY <1>1, <1>3, <1>4

----------------------------------------------------------------------------
\* The executor, from one position to the next.
LEMMA ToldSteps ==
  ASSUME IInv, IInv', ToldAt, BackedAt, Next
  PROVE  ToldAt'
<1>1. TypeOK /\ TypeOK' /\ Len(steps) \in Nat /\ Len(history) \in Nat
      /\ history \in Seq(Event) /\ ReceiptID # Empty
  BY ReceiptAssumption DEF IInv, TypeOK
<1>2. CASE QuietStep
  <2>1. UNCHANGED <<state, steps, history>>
    BY <1>2, QuietFrame
  <2>2. \/ pc \in Early /\ pc' \in Early
        \/ /\ pc \in PCs \ (Early \cup Publishing \cup {"ended"})
           /\ pc' \in PCs \ (Early \cup Publishing \cup {"ended"})
    BY <1>2 DEF QuietStep, Register, CountStarted, NodeAnswers, VerifyAndMarshal,
         PutEncodeFails, PutMemory, Persisted, CountCompleted, CountFailed,
         SetReceipt, SetMessage, Goto, PCs, Early, Publishing
  <2> QED
    BY <2>1, <2>2, QuietTold
<1>3. CASE Launch
  <2>1. /\ pc' = "calling" /\ history = <<>> /\ steps = <<>> /\ steps' = steps
        /\ Publish(StateEvent("running"))
    BY <1>3 DEF IInv, HistoryBound, StateAt, Early, Launch, Goto, Transition, CanTransition
  <2>2. Len(history') = 1 /\ history'[1] = StateEvent("running")
    BY <2>1 DEF Publish
  <2> QED
    BY <2>1, <2>2 DEF ToldAt, ToldBySnapshot, Early, Publishing, PCs
<1>4. CASE NodeFails
  <2>1. /\ pc = "calling" /\ pc' = "failing" /\ Len(history) = 1 /\ steps = <<>>
        /\ steps' = <<FailedStep>> /\ Publish(StepEvent(FailedStep))
    BY <1>4 DEF IInv, HistoryBound, NodeFails, Goto, AddStep
  <2>2. \A n : n = Len(history) + 1 => StepEvent(FailedStep) = ToldBySnapshot(n)'
    BY <2>1 DEF ToldBySnapshot
  <2>3. \A i \in 1..Len(history') : history'[i] = ToldBySnapshot(i)'
    BY <1>1, <2>1, <2>2, PublishTold
  <2>4. Len(history') = Len(history) + 1 /\ Len(steps') = 1
    <3>1. history' = Append(history, StepEvent(FailedStep))
      BY <2>1 DEF Publish
    <3>2. Len(history') = Len(history) + 1
      BY <1>1, <3>1
    <3> QED
      BY <2>1, <3>2
  <2> QED
    BY <2>1, <2>3, <2>4 DEF ToldAt, Early, Publishing, PCs
<1>5. CASE EmitStep
  <2> DEFINE k == FlowSteps[Len(steps) + 1]
  <2>1. /\ pc = "narrating" /\ pc' = pc /\ Len(history) = Len(steps) + 1
        /\ steps' = Append(steps, k) /\ Publish(StepEvent(k))
    BY <1>5 DEF IInv, HistoryBound, EmitStep, AddStep
  <2>2. /\ Len(steps') = Len(steps) + 1 /\ steps'[Len(steps) + 1] = k
        /\ \A j \in 1..Len(steps) : steps'[j] = steps[j]
    BY <1>1, <2>1 DEF TypeOK
  <2>3. \A n : n = Len(history) + 1 => StepEvent(k) = ToldBySnapshot(n)'
    <3>1. Len(history) + 1 \in 2..Len(steps') + 1 /\ (Len(history) + 1) - 1 = Len(steps) + 1
      BY <1>1, <2>1, <2>2
    <3> QED
      BY <1>1, <2>1, <2>2, <3>1 DEF ToldBySnapshot
  <2>4. \A i \in 1..Len(history') : history'[i] = ToldBySnapshot(i)'
    BY <1>1, <2>1, <2>2, <2>3, PublishTold
  <2>5. Len(history') = Len(history) + 1
    BY <1>1, <2>1 DEF Publish
  <2> QED
    BY <1>1, <2>1, <2>2, <2>4, <2>5 DEF ToldAt, Early, Publishing, PCs
<1>6. CASE Settle
  <2>1. PICK s \in {"complete", "failed"} :
          /\ Transition(s) /\ state = "running"
          /\ pc \in {"ok_transition", "err_transition"} /\ pc' \in Publishing
    BY <1>6 DEF IInv, StateAt, Settle, Goto, Proving, Failing, Publishing
  <2>2. /\ state' = s /\ Publish(StateEvent(s)) /\ steps' = steps
        /\ Len(history) = Len(steps) + 1
    BY <1>6, <2>1 DEF Settle, Transition, CanTransition, ToldAt, Early, Publishing, PCs
  <2>3. \A n : n = Len(history) + 1 => StateEvent(s) = ToldBySnapshot(n)'
    BY <1>1, <2>2 DEF ToldBySnapshot
  <2>4. \A i \in 1..Len(history') : history'[i] = ToldBySnapshot(i)'
    BY <1>1, <2>2, <2>3, PublishTold
  <2>5. Len(history') = Len(history) + 1
    BY <1>1, <2>2 DEF Publish
  <2> QED
    BY <1>1, <2>1, <2>2, <2>4, <2>5 DEF ToldAt, Early, Publishing, PCs
<1>7. CASE PublishOutcome
  <2> DEFINE e == IF state = "complete" THEN DoneEvent(receiptID) ELSE ErrorEvent(errMsg)
  <2>1. /\ Publish(e) /\ pc' = "ended" /\ Len(history) = Len(steps) + 2
        /\ UNCHANGED <<state, steps, receiptID, errMsg>>
    BY <1>7 DEF IInv, StateAt, ToldAt, PublishOutcome, Goto, Publishing
  <2>2. \A n : n = Len(history) + 1 => e = ToldBySnapshot(n)'
    BY <1>1, <2>1 DEF ToldBySnapshot
  <2>3. \A i \in 1..Len(history') : history'[i] = ToldBySnapshot(i)'
    BY <1>1, <2>1, <2>2, PublishTold
  <2>4. Len(history') = Len(history) + 1
    BY <1>1, <2>1 DEF Publish
  <2> QED
    BY <1>1, <2>1, <2>3, <2>4 DEF ToldAt, Early, Publishing, PCs
<1>8. ASSUME NEW c \in Clients, HandlerStep(c) PROVE ToldAt'
  BY <1>8, HandlerFrame, QuietTold
<1> QED
  BY <1>2, <1>3, <1>4, <1>5, <1>6, <1>7, <1>8 DEF Next, Start, Executor, QuietStep, HandlerStep

\* What a verdict needs is there before the executor gets to it.
LEMMA BackedSteps ==
  ASSUME IInv, IInv', BackedAt, VerdictIsBacked, Next
  PROVE  BackedAt' /\ VerdictIsBacked'
<1>1. TypeOK /\ StateAt /\ HistoryBound /\ Len(steps) \in Nat
      /\ pc \in PCs /\ metrics \in Counters /\ err \in Errors \cup {Empty}
  BY DEF IInv, TypeOK
<1>2. ReceiptID # Empty
  BY ReceiptAssumption
<1> USE DEF BackedAt, VerdictIsBacked, Early, Proving, Failing, Stored, Counted, Blamed
<1>3. CASE EmitStep
  <2>1. /\ pc = "narrating" /\ pc' = pc /\ steps' = Append(steps, FlowSteps[Len(steps) + 1])
        /\ state' = state /\ state = "running"
        /\ UNCHANGED <<err, receiptID, errMsg, metrics>>
    BY <1>1, <1>3 DEF EmitStep, AddStep, StateAt
  <2>2. \A i \in 1..Len(steps') : steps'[i] = FlowSteps[i]
    BY <1>1, <2>1 DEF TypeOK
  <2> QED
    BY <2>1, <2>2
<1>4. CASE VerifyAndMarshal
  <2>1. /\ pc = "narrating" /\ pc' \in {"storing", "failing"} /\ state = "running"
        /\ Len(steps) = Len(FlowSteps) /\ err' \in {err, MarshalError}
        /\ pc' = "failing" => err' = MarshalError
        /\ UNCHANGED <<state, steps, receiptID, errMsg, metrics>>
    BY <1>1, <1>4 DEF VerifyAndMarshal, StateAt, runVars
  <2>2. steps = FlowSteps
    BY <1>1, <2>1, FlowStepsAssumption DEF TypeOK
  <2> QED
    BY <2>1, <2>2 DEF MarshalError, Empty
<1>5. CASE NodeFails
  BY <1>1, <1>5 DEF NodeFails, Goto, NodeErrors, Empty, StateAt
<1>6. CASE Register \/ Launch \/ NodeAnswers
  BY <1>1, <1>6
     DEF Register, Launch, NodeAnswers, Goto, StateAt, HistoryBound, Transition, CanTransition,
         runVars
<1>7. CASE CountStarted \/ CountCompleted \/ CountFailed
  BY <1>1, <1>7 DEF CountStarted, CountCompleted, CountFailed, Goto, StateAt, Counters, runVars
<1>8. CASE PutEncodeFails \/ PutMemory \/ Persisted
  BY <1>1, <1>8
     DEF PutEncodeFails, PutMemory, Persisted, Goto, StateAt, StoreError, Empty, runVars
<1>9. CASE SetReceipt \/ SetMessage
  BY <1>1, <1>2, <1>9 DEF SetReceipt, SetMessage, Goto, StateAt
<1>10. CASE Settle
  BY <1>1, <1>2, <1>10 DEF Settle, Goto, StateAt, Transition, CanTransition
<1>11. CASE PublishOutcome
  BY <1>1, <1>11 DEF PublishOutcome, Goto, StateAt
<1>12. ASSUME NEW c \in Clients, HandlerStep(c) PROVE BackedAt' /\ VerdictIsBacked'
  BY <1>12, HandlerFrame
<1> QED
  BY <1>3, <1>4, <1>5, <1>6, <1>7, <1>8, <1>9, <1>10, <1>11, <1>12
     DEF Next, Start, Executor, HandlerStep

\* The run is terminal from the executor's publishing on.
LEMMA VerdictAt ==
  ASSUME IInv
  PROVE  Terminal(state) <=> pc \in Publishing \cup {"ended"}
BY DEF IInv, TypeOK, StateAt, Terminal, PCs, Early, Proving, Failing, Publishing

\* A channel is closed with the verdict in it, or after its reader left.
LEMMA EndSteps ==
  ASSUME CInv, IInv', Next
  PROVE  StreamsEndLate'
<1> SUFFICES ASSUME NEW d \in Clients PROVE ClosedLate(d)'
  BY DEF StreamsEndLate
<1>1. /\ TypeOK /\ TypeOK' /\ StateAt /\ ToldAt /\ HandlersFit /\ Fits(d) /\ ClosedLate(d)
      /\ Mirrors(d) /\ Len(steps) \in Nat /\ Len(history) \in Nat
      /\ got[d] \in Seq(Event) /\ buf[d] \in Seq(Event) /\ closes[d] \in Nat
  BY DEF CInv, IInv, TypeOK, StreamIntegrity, StreamsEndLate, HandlersFit
<1>2. CASE QuietStep
  BY <1>1, <1>2, QuietFrame DEF ClosedLate, chanVars, sseVars
<1>3. CASE Launch \/ NodeFails \/ EmitStep \/ Settle
  <2>1. ~ Terminal(state)
    BY <1>1, <1>3 DEF StateAt, Terminal, Launch, NodeFails, EmitStep, Settle, Goto,
         Early, Proving, Failing
  <2>2. UNCHANGED <<handler[d], closes[d]>>
    BY <1>3, ExecutorFrame
  <2> QED
    BY <1>1, <2>1, <2>2 DEF ClosedLate
<1>4. CASE PublishOutcome
  <2>1. /\ UNCHANGED <<steps, state, got, handler>> /\ pc \in Publishing
        /\ closes'[d] = closes[d] + (IF d \in subs THEN 1 ELSE 0)
    BY <1>4 DEF PublishOutcome, CloseSubs, sseVars, Goto, Publishing
  <2>2. Terminal(state) /\ Len(history) = Len(steps) + 2
    BY <1>1, <2>1, VerdictAt DEF CInv, ToldAt
  <2>3. Len(buf'[d]) >= Len(buf[d]) /\ Len(buf'[d]) \in Nat
    <3>1. PICK e : Publish(e)
      BY <1>4 DEF PublishOutcome
    <3>2. buf'[d] \in {buf[d], Append(buf[d], e)}
      BY <3>1 DEF Publish
    <3>3. \A x : Len(Append(buf[d], x)) = Len(buf[d]) + 1
      BY <1>1
    <3> QED
      BY <1>1, <3>2, <3>3
  <2>4. handler[d] = "streaming" /\ closes'[d] > 0 =>
          Len(got[d]) + Len(buf[d]) >= Len(steps) + 2
    <3>1. CASE d \in subs
      <4>1. Len(got[d]) + Len(buf[d]) = Len(history)
        BY <1>1, <3>1 DEF Mirrors
      <4>2. Len(got[d]) + Len(buf[d]) = Len(steps) + 2
        BY <2>2, <4>1
      <4>3. \A a : \A n \in Nat : a = n + 2 => a >= n + 2
        OBVIOUS
      <4>4. Len(steps) \in Nat
        BY <1>1
      <4> QED
        BY <4>2, <4>3, <4>4
    <3>2. CASE d \notin subs
      <4>1. closes'[d] = closes[d]
        BY <1>1, <2>1, <3>2
      <4> QED
        BY <1>1, <4>1 DEF ClosedLate
    <3> QED
      BY <3>1, <3>2
  <2>5. \A g, b, n \in Nat : \A e \in Nat : g + b >= n /\ e >= b => g + e >= n
    OBVIOUS
  <2>6. Len(got[d]) \in Nat /\ Len(buf[d]) \in Nat /\ Len(steps) + 2 \in Nat
    BY <1>1
  <2>7. handler[d] = "streaming" /\ closes'[d] > 0 =>
          Len(got[d]) + Len(buf'[d]) >= Len(steps) + 2
    BY <2>3, <2>4, <2>5, <2>6
  <2> QED
    BY <1>1, <2>2, <2>1, <2>7 DEF ClosedLate
<1>5. ASSUME NEW c \in Clients, HandlerStep(c) PROVE ClosedLate(d)'
  <2>1. UNCHANGED <<state, steps, history>>
    BY <1>5, HandlerFrame
  <2>2. CASE c # d
    <3>1. UNCHANGED <<handler[d], closes[d], got[d], buf[d]>>
      BY <1>1, <1>5, <2>2
         DEF TypeOK, HandlerStep, Handler, NotFound, Subscribe, Disconnect, Receive,
             StreamEnds, Unsubscribe, chanVars
    <3> QED
      BY <1>1, <2>1, <3>1 DEF ClosedLate
  <2>3. CASE c = d /\ (NotFound(d) \/ Disconnect(d))
    BY <1>1, <2>1, <2>3 DEF TypeOK, NotFound, Disconnect, ClosedLate
  <2>4. CASE c = d /\ Unsubscribe(d)
    BY <1>1, <2>1, <2>4 DEF TypeOK, Unsubscribe, ClosedLate
  <2>5. CASE c = d /\ Subscribe(d)
    <3>1. /\ handler'[d] = "streaming" /\ buf'[d] = history /\ got'[d] = <<>>
          /\ closes'[d] > 0 => Terminal(state)
      BY <1>1, <2>5 DEF TypeOK, Subscribe, Fits
    <3>2. Terminal(state) => Len(history) >= Len(steps) + 2
      BY <1>1, VerdictAt DEF CInv, ToldAt
    <3>3. Len(got'[d]) = 0
      BY <3>1
    <3> QED
      BY <1>1, <2>1, <3>1, <3>2, <3>3 DEF ClosedLate
  <2>6. CASE c = d /\ Receive(d)
    <3>1. /\ handler'[d] = "streaming" /\ handler[d] = "streaming" /\ closes' = closes
          /\ got'[d] = Append(got[d], Head(buf[d])) /\ buf'[d] = Tail(buf[d]) /\ buf[d] # <<>>
      BY <1>1, <2>6 DEF TypeOK, Receive
    <3>2. Len(got'[d]) = Len(got[d]) + 1
      BY <1>1, <3>1
    <3>3. Len(buf'[d]) = Len(buf[d]) - 1
      BY <1>1, <3>1
    <3>4. Len(got'[d]) + Len(buf'[d]) = Len(got[d]) + Len(buf[d])
      <4>1. \A g, b \in Nat : (g + 1) + (b - 1) = g + b
        OBVIOUS
      <4>2. Len(got[d]) \in Nat /\ Len(buf[d]) \in Nat
        BY <1>1
      <4> QED
        BY <3>2, <3>3, <4>1, <4>2
    <3> QED
      BY <1>1, <2>1, <3>1, <3>4 DEF ClosedLate
  <2>7. CASE c = d /\ StreamEnds(d)
    <3>1. /\ handler[d] = "streaming" /\ buf[d] = <<>> /\ closes[d] > 0 /\ got' = got
          /\ handler'[d] = "ended"
      BY <1>1, <2>7 DEF TypeOK, StreamEnds
    <3>2. Len(buf[d]) = 0 /\ Len(got[d]) \in Nat
      BY <1>1, <3>1
    <3> QED
      BY <1>1, <2>1, <3>1, <3>2 DEF ClosedLate
  <2> QED
    BY <1>5, <2>2, <2>3, <2>4, <2>5, <2>6, <2>7 DEF HandlerStep, Handler
<1> QED
  BY <1>2, <1>3, <1>4, <1>5 DEF Next, Start, Executor, QuietStep, HandlerStep

----------------------------------------------------------------------------
\* The invariant holds before the run is registered,
LEMMA InitCInv == Init => CInv
<1> SUFFICES ASSUME Init PROVE CInv
  OBVIOUS
<1>1. IInv /\ HandlersFit
  BY InitIInv DEF Init, HandlersFit, Fits
<1>2. ToldAt /\ BackedAt /\ VerdictIsBacked /\ StreamsEndLate
  BY DEF Init, ToldAt, BackedAt, VerdictIsBacked, StreamsEndLate, ClosedLate, Early, Publishing,
     Proving, Failing, Stored, Counted, Blamed, PCs
<1> QED
  BY <1>1, <1>2 DEF CInv

\* and every step keeps it.
LEMMA NextCInv == CInv /\ [Next]_vars => CInv'
<1> SUFFICES ASSUME CInv, [Next]_vars PROVE CInv'
  OBVIOUS
<1>1. IInv' /\ HandlersFit'
  BY NextInv DEF CInv
<1>2. CASE Next
  BY <1>1, <1>2, ToldSteps, BackedSteps, EndSteps DEF CInv
<1>3. CASE UNCHANGED vars
  BY <1>1, <1>3
     DEF vars, runVars, chanVars, sseVars, CInv, ToldAt, ToldBySnapshot, BackedAt,
         VerdictIsBacked, StreamsEndLate, ClosedLate
<1> QED
  BY <1>2, <1>3

\* So it holds throughout.
LEMMA ContractInvariance == Spec => []CInv
BY InitCInv, NextCInv, PTL DEF Spec

\* In every critical section that the status endpoint can see, the events that are
\* out are those that the snapshot stands for (runs.go 105-150).
THEOREM RunSnapshotIsHistory == Spec => []SnapshotMatchesHistory
<1>1. CInv => SnapshotMatchesHistory
  BY DEF CInv, IInv, TypeOK, StateAt, HistoryBound, ToldAt, SnapshotMatchesHistory, Terminal,
     PCs, Early, Proving, Failing, Publishing
<1> QED
  BY <1>1, ContractInvariance, PTL

\* A verdict is only ever shown with what it needs: the steps, the receipt that
\* the store serves or the reason, and its count (runs.go 252-300).
THEOREM RunVerdictIsBacked == Spec => []VerdictIsBacked
BY ContractInvariance, PTL DEF CInv

\* A stream that was ended has handed its reader the verdict.
LEMMA EndedWithVerdict == CInv => EndedStreamSawVerdict
<1>1. ASSUME CInv, NEW c \in Clients, handler[c] = "ended"
      PROVE  \E i \in 1..Len(got[c]) : \E s \in {"complete", "failed"} :
                got[c][i] = StateEvent(s)
  <2> DEFINE n == Len(steps) + 2
  <2>1. /\ Terminal(state) /\ Len(got[c]) >= n /\ Len(got[c]) \in Nat /\ Len(steps) \in Nat
        /\ Len(history) \in Nat
        /\ Len(got[c]) + Len(buf[c]) <= Len(history) /\ Len(buf[c]) \in Nat
    BY <1>1 DEF CInv, IInv, TypeOK, StreamIntegrity, Mirrors, StreamsEndLate, ClosedLate
  <2>2. n \in 1..Len(got[c]) /\ n \in 1..Len(history)
    <3>1. \A g, b, h, m \in Nat : g >= m + 2 /\ g + b <= h => m + 2 \in 1..g /\ m + 2 \in 1..h
      OBVIOUS
    <3> QED
      BY <2>1, <3>1
  <2>3. got[c][n] = history[n]
    BY <1>1, <2>2 DEF CInv, IInv, StreamIntegrity, Mirrors
  <2>4. history[n] = ToldBySnapshot(n)
    BY <1>1, <2>2 DEF CInv, ToldAt
  <2>5. ToldBySnapshot(n) = StateEvent(state)
    BY <2>1 DEF ToldBySnapshot
  <2> QED
    BY <2>1, <2>2, <2>4, <2>5, <2>3 DEF Terminal
<1> QED
  BY <1>1 DEF EndedStreamSawVerdict

\* No stream ends before its reader was sent the terminal state (runs.go 159-184).
THEOREM RunStreamEndsAfterVerdict == Spec => []EndedStreamSawVerdict
BY EndedWithVerdict, ContractInvariance, PTL

----------------------------------------------------------------------------
(* A run implements RunContract. *)

\* What the contract calls the verdict of a run is an event of its own.
LEMMA VerdictOfState ==
  ASSUME NEW s
  PROVE  /\ Contract!Verdict(StateEvent(s)) <=> Terminal(s)
         /\ \A k : ~ Contract!Verdict(StepEvent(k))
         /\ StateEvent(s).type = "state" /\ StateEvent(s).val = s
         /\ \A k : StepEvent(k).type = "step"
BY DEF Contract!Verdict, Contract!Is, StateEvent, StepEvent, Terminal

\* Before the verdict is out, the log holds none.
LEMMA NoVerdictYet ==
  ASSUME CInv, pc \in PCs \ (Publishing \cup {"ended"})
  PROVE  ~ Contract!HasVerdict(history) /\ ~ Contract!Sealed
<1>1. /\ history \in Seq(Event) /\ Len(steps) \in Nat /\ Len(history) \in Nat
      /\ Len(history) <= Len(steps) + 1
  BY DEF CInv, IInv, TypeOK, ToldAt, HistoryBound, Early, PCs, Publishing
<1>2. ASSUME NEW i \in 1..Len(history)
      PROVE  ~ Contract!Verdict(history[i]) /\ history[i].type \notin {"done", "error"}
  <2>1. i = 1 \/ i \in 2..Len(steps) + 1
    BY <1>1
  <2>2. history[i] = ToldBySnapshot(i)
    BY DEF CInv, ToldAt
  <2>3. history[i] = StateEvent("running") \/ history[i] = StepEvent(steps[i - 1])
    BY <1>1, <2>1, <2>2 DEF ToldBySnapshot
  <2> QED
    BY <2>3, VerdictOfState DEF Terminal
<1>3. ~ Contract!HasVerdict(history)
  BY <1>2 DEF Contract!HasVerdict
<1>4. ~ Contract!Sealed
  BY <1>1, <1>2 DEF Contract!Sealed
<1> QED
  BY <1>3, <1>4

\* Once it is out, it is in the log, last of all until the outcome is.
LEMMA VerdictLast ==
  ASSUME CInv, pc \in Publishing
  PROVE  /\ Contract!HasVerdict(history) /\ ~ Contract!Sealed /\ history # <<>>
         /\ Contract!Is(history[Len(history)], "state", "complete") <=> pc = "ok_publish"
<1>1. /\ history \in Seq(Event) /\ Len(steps) \in Nat /\ Len(history) = Len(steps) + 2
      /\ Terminal(state)
  BY VerdictAt DEF CInv, IInv, TypeOK, ToldAt
<1>2. Len(history) \in 1..Len(history) /\ Len(history) # 1 /\ history # <<>>
      /\ Len(history) \notin 2..Len(steps) + 1
  BY <1>1
<1>3. history[Len(history)] = StateEvent(state)
  BY <1>1, <1>2 DEF CInv, ToldAt, ToldBySnapshot
<1>4. Contract!HasVerdict(history)
  BY <1>1, <1>2, <1>3, VerdictOfState DEF Contract!HasVerdict
<1>5. ~ Contract!Sealed
  BY <1>3, VerdictOfState DEF Contract!Sealed
<1>6. Contract!Is(history[Len(history)], "state", "complete") <=> pc = "ok_publish"
  BY <1>3, VerdictOfState DEF Contract!Is, CInv, IInv, StateAt, Publishing
<1> QED
  BY <1>2, <1>4, <1>5, <1>6

\* An event that may follow is a step of the contract.
LEMMA PublishImplements ==
  ASSUME CInv, NEW e \in Event, Publish(e), UNCHANGED <<got, handler>>,
         ~ Contract!Sealed, Contract!MayFollow(e)
  PROVE  Contract!Publish
<1>1. history \in Seq(Event) /\ history' = Append(history, e)
  BY DEF CInv, IInv, TypeOK, Publish
<1>2. Len(history') = Len(history) + 1 /\ history'[Len(history')] = e
  BY <1>1
<1>3. SubSeq(history', 1, Len(history)) = history
  BY <1>1
<1> QED
  BY <1>2, <1>3 DEF Contract!Publish

\* Every step of a run is a step of the contract, or none of its business.
LEMMA NextImplements ==
  ASSUME CInv, CInv', [Next]_vars
  PROVE  [Contract!Next]_(Contract!vars)
<1>1. /\ TypeOK /\ StateAt /\ ToldAt /\ HistoryBound /\ ReceiptID # Empty
  BY ReceiptAssumption DEF CInv, IInv
<1>2. CASE QuietStep
  BY <1>2, QuietFrame DEF sseVars, Contract!vars
<1>3. CASE Launch
  <2>1. history = <<>> /\ Publish(StateEvent("running")) /\ UNCHANGED <<got, handler>>
    BY <1>1, <1>3
       DEF HistoryBound, StateAt, Early, Launch, Goto, Transition, CanTransition, sseVars
  <2>2. Contract!MayFollow(StateEvent("running")) /\ ~ Contract!Sealed
    BY <2>1 DEF Contract!MayFollow, Contract!Is, Contract!Sealed, StateEvent
  <2>3. StateEvent("running") \in Event
    BY DEF StateEvent, Event, States
  <2> QED
    BY <2>1, <2>2, <2>3, PublishImplements DEF Contract!Next
<1>4. CASE NodeFails \/ EmitStep
  <2>1. PICK k \in StepKeys \cup {FailedStep} : Publish(StepEvent(k))
    <3>1. CASE NodeFails
      BY <3>1 DEF NodeFails, AddStep
    <3>2. CASE EmitStep
      <4>1. Len(steps) + 1 \in 1..Len(FlowSteps)
        BY <1>1, <3>2, FlowStepsAssumption DEF EmitStep, TypeOK
      <4> QED
        BY <3>2, <4>1, FlowStepsAssumption DEF EmitStep, AddStep
    <3> QED
      BY <1>4, <3>1, <3>2
  <2>2. UNCHANGED <<got, handler>> /\ pc \in {"calling", "narrating"}
    BY <1>4 DEF NodeFails, EmitStep, Goto, sseVars
  <2>3. pc \in PCs \ (Publishing \cup {"ended"}) /\ Len(history) # 0
    <3>1. Len(steps) \in Nat
      BY <1>1 DEF TypeOK
    <3> QED
      BY <1>1, <2>2, <3>1 DEF PCs, Publishing, HistoryBound
  <2>4. StepEvent(k) \in Event
    BY DEF StepEvent, Event
  <2>5. ~ Contract!HasVerdict(history) /\ ~ Contract!Sealed
    BY <2>3, NoVerdictYet
  <2>6. Contract!MayFollow(StepEvent(k))
    <3>1. history # <<>>
      BY <2>3
    <3> QED
      BY <2>5, <3>1 DEF Contract!MayFollow, StepEvent
  <2> QED
    BY <2>1, <2>4, <2>5, <2>6, <2>2, PublishImplements DEF Contract!Next
<1>5. CASE Settle
  <2>1. PICK s \in {"complete", "failed"} : Transition(s)
    BY <1>5 DEF Settle
  <2>2. /\ pc \in {"ok_transition", "err_transition"} /\ state = "running"
        /\ UNCHANGED <<got, handler>> /\ Publish(StateEvent(s))
    BY <1>1, <1>5, <2>1
       DEF Settle, Goto, StateAt, Proving, Failing, Transition, CanTransition, sseVars
  <2>3. ~ Contract!HasVerdict(history) /\ ~ Contract!Sealed
    BY <2>2, NoVerdictYet DEF PCs, Publishing
  <2>4. history # <<>> /\ StateEvent(s) \in Event
    <3>1. Len(history) = Len(steps) + 1 /\ Len(steps) \in Nat
      BY <1>1, <2>2 DEF ToldAt, TypeOK, PCs, Early, Publishing
    <3>2. Len(history) # 0
      BY <3>1
    <3> QED
      BY <3>2 DEF StateEvent, Event, States
  <2>5. Contract!MayFollow(StateEvent(s))
    BY <2>3, <2>4, VerdictOfState DEF Contract!MayFollow, Terminal
  <2> QED
    BY <2>2, <2>3, <2>4, <2>5, PublishImplements DEF Contract!Next
<1>6. CASE PublishOutcome
  <2> DEFINE e == IF pc = "ok_publish" THEN DoneEvent(receiptID) ELSE ErrorEvent(errMsg)
  <2>1. Publish(e) /\ pc \in Publishing /\ UNCHANGED <<got, handler>>
    BY <1>6 DEF PublishOutcome, Goto, Publishing, sseVars
  <2>2. e \in Event
    BY <1>1 DEF TypeOK, DoneEvent, ErrorEvent, Event
  <2>3. Contract!MayFollow(e) /\ ~ Contract!Sealed
    BY <2>1, VerdictLast DEF Contract!MayFollow, DoneEvent, ErrorEvent
  <2> QED
    BY <2>1, <2>2, <2>3, PublishImplements DEF Contract!Next
<1>7. ASSUME NEW c \in Clients, HandlerStep(c)
      PROVE  [Contract!Next]_(Contract!vars)
  <2>1. history' = history
    BY <1>7, HandlerFrame
  <2>2. CASE NotFound(c) \/ Subscribe(c) \/ Disconnect(c) \/ Unsubscribe(c)
    <3>1. got' = got /\ \A d \in Clients : handler'[d] = "ended" <=> handler[d] = "ended"
      BY <1>1, <2>2 DEF NotFound, Subscribe, Disconnect, Unsubscribe, TypeOK
    <3> QED
      BY <2>1, <3>1 DEF Contract!vars
  <2>3. CASE Receive(c)
    <3>1. /\ handler[c] = "streaming" /\ handler' = handler /\ buf[c] # <<>>
          /\ got' = [got EXCEPT ![c] = Append(@, Head(buf[c]))]
      BY <2>3 DEF Receive
    <3>2. /\ got[c] \in Seq(Event) /\ buf[c] \in Seq(Event) /\ history \in Seq(Event)
          /\ Len(got[c]) \in Nat /\ Len(buf[c]) \in Nat /\ Len(history) \in Nat
      BY <1>1 DEF TypeOK
    <3>3. Len(buf[c]) >= 1 /\ Head(buf[c]) = buf[c][1]
      BY <3>1, <3>2
    <3>4. Len(got[c]) < Len(history) /\ Head(buf[c]) = history[Len(got[c]) + 1]
      <4>1. /\ Len(got[c]) + Len(buf[c]) <= Len(history)
            /\ \A i \in 1..Len(buf[c]) : buf[c][i] = history[Len(got[c]) + i]
        BY DEF CInv, IInv, StreamIntegrity, Mirrors
      <4>2. \A g, b, h \in Nat : g + b <= h /\ b >= 1 => g < h
        OBVIOUS
      <4>3. 1 \in 1..Len(buf[c])
        BY <3>2, <3>3
      <4> QED
        BY <3>2, <3>3, <4>1, <4>2, <4>3
    <3>5. Contract!Read(c)
      BY <2>1, <3>1, <3>4 DEF Contract!Read
    <3> QED
      BY <3>5 DEF Contract!Next
  <2>4. CASE StreamEnds(c)
    <3>1. /\ handler[c] = "streaming" /\ got' = got
          /\ handler' = [handler EXCEPT ![c] = "ended"]
      BY <2>4 DEF StreamEnds
    <3>2. {d \in Clients : handler'[d] = "ended"} = {d \in Clients : handler[d] = "ended"} \cup {c}
      BY <1>1, <3>1 DEF TypeOK
    <3>3. Contract!HasVerdict(got[c])
      <4>1. handler'[c] = "ended" /\ CInv'
        BY <1>1, <3>1 DEF TypeOK
      <4>2. PICK i \in 1..Len(got[c]), s \in {"complete", "failed"} : got[c][i] = StateEvent(s)
        <5>1. EndedStreamSawVerdict'
          BY <4>1, EndedWithVerdict, PTL
        <5> QED
          BY <3>1, <4>1, <5>1 DEF EndedStreamSawVerdict
      <4> QED
        BY <4>2, VerdictOfState DEF Contract!HasVerdict, Terminal
    <3>4. Contract!End(c)
      BY <2>1, <3>1, <3>2, <3>3 DEF Contract!End
    <3> QED
      BY <3>4 DEF Contract!Next
  <2> QED
    BY <1>7, <2>2, <2>3, <2>4 DEF HandlerStep, Handler
<1>8. CASE UNCHANGED vars
  BY <1>8 DEF vars, runVars, sseVars, Contract!vars
<1> QED
  BY <1>2, <1>3, <1>4, <1>5, <1>6, <1>7, <1>8
     DEF Next, Start, Executor, QuietStep, HandlerStep

\* A new run is a new log without readers.
LEMMA InitImplements == Init => Contract!Init
BY DEF Init, Contract!Init

\* A run keeps its promise to its readers (RunContract): whatever the channels,
\* goroutines and connections do, the log grows by what may follow, every reader is
\* handed it from its first entry on, in order, and is only told that it is over
\* after the verdict (runs.go 105-184, server.go's handleRunEvents).
THEOREM RunKeepsContract == Spec => ImplementsContract
<1>1. CInv /\ CInv' /\ [Next]_vars => [Contract!Next]_(Contract!vars)
  BY NextImplements
<1> QED
  BY InitImplements, <1>1, ContractInvariance, PTL
     DEF Spec, ImplementsContract, Contract!Spec
=============================================================================
