-------------------------- MODULE RunTheaterProofs --------------------------
(* The Run Theater, proved for all narrations, connections and channel slacks
   that satisfy the assumptions of Run and RunTheater, on top of what is proved
   of the run itself (CInv of RunProofs).

   The argument: until the page is told an outcome, its queue holds the events
   of the history that follow those it has shown, up to the first error of the
   EventSource (Waits).  A second connection, which is sent the history anew,
   only ever exists behind such an error, and the consumer stops there.  So what
   it takes is the next event of the history, and the spine always shows a
   prefix of the narration (Shown).                                        *)
EXTENDS RunTheater, RunProofs

\* The narration is the flow's, or the one step that says it failed.
NarratesFlow ==
  /\ \A i \in 1..Len(steps) : steps[i] = FailedStep \/ (i <= Len(FlowSteps) /\ steps[i] = FlowSteps[i])
  /\ pc \notin Early \cup {"calling", "narrating"} => steps \in {FlowSteps, <<FailedStep>>}

\* The spine after the first n events of the history, none of which was a failure:
\* the step of the j-th stage is event j + 1.
Shown(n) ==
  /\ \A j \in 1..Len(FlowSteps) :
       spine[FlowSteps[j]] =
         IF j + 1 < n \/ (j + 1 = n /\ stage # "running") THEN "complete"
         ELSE IF j + 1 = n THEN "running" ELSE "pending"
  /\ stage = "running" => /\ n - 1 \in 1..Len(FlowSteps)
                          /\ current = FlowSteps[n - 1]
  /\ \A i \in 1..n : history[i] # StepEvent(FailedStep)

\* The queue: events n + 1 to n + m of the history, then nothing or an error.
Waits(n, m) ==
  /\ m <= Len(queue) /\ n + m <= Len(history)
  /\ \A k \in 1..m : queue[k] = history[n + k]
  /\ IF m < Len(queue) THEN queue[m + 1] = SseError
     ELSE \/ source = "connecting" /\ n = 0 /\ queue = <<>>
          \/ source = "open" /\ n + m = arrived

PageFollows ==
  \E n \in 0..Len(history) :
    /\ Shown(n)
    /\ terminated \/ \E m \in Nat : Waits(n, m)

\* The page says an outcome when, and only when, it has stopped reading.
Settled ==
  /\ terminated <=> stage \in {"sealing", "over"}
  /\ ~ terminated => note = "none"
  /\ note = "sealed" => state = "complete" /\ \A k \in StepKeys : spine[k] = "complete"

\* What was dispatched on a connection came over it.
Dispatched == source = "open" => conn \in Clients /\ arrived <= Len(got[conn])

PInv == TheaterTypeOK /\ NarratesFlow /\ PageFollows /\ Settled /\ Dispatched

----------------------------------------------------------------------------
(* The run behind the page. *)

\* Whatever the page does, the run takes one of its own steps or none.
LEMMA TheaterRuns == [TheaterNext]_theaterVars => [Next]_vars
<1> SUFFICES ASSUME [TheaterNext]_theaterVars PROVE [Next]_vars
  OBVIOUS
<1>1. CASE Server
  BY <1>1 DEF Server, HandlerRuns, Handler, Next
<1>2. CASE Connect
  <2> DEFINE c == CHOOSE x \in Clients : handler[x] = "idle"
  <2>1. c \in Clients
    BY <1>2 DEF Connect
  <2>2. Subscribe(c)
    BY <1>2 DEF Connect
  <2> QED
    BY <2>1, <2>2 DEF Next
<1>3. CASE ConnectFails \/ OnMessage \/ OnError
  BY <1>3 DEF ConnectFails, OnMessage, OnError
<1>4. CASE Consumer
  BY <1>4 DEF Consumer, TakeStep, TakeFailedStep, TakeDone, TakeError, TakeOther, Take,
     PaceStage, PaceNext, OpenVerdict
<1>5. CASE UNCHANGED theaterVars
  BY <1>5 DEF theaterVars
<1> QED
  BY <1>1, <1>2, <1>3, <1>4, <1>5 DEF TheaterNext

\* What is out stays out, what was written stays written, and a run that is
\* complete stays complete.
LEMMA RunGrows ==
  ASSUME CInv, CInv', [Next]_vars
  PROVE  /\ Len(history) <= Len(history')
         /\ \A i \in 1..Len(history) : history'[i] = history[i]
         /\ \A c \in Clients : Len(got[c]) <= Len(got'[c])
         /\ state = "complete" => state' = "complete"
<1>0. /\ history \in Seq(Event) /\ got \in [Clients -> Seq(Event)] /\ Len(history) \in Nat
      /\ \A c \in Clients : Len(got[c]) \in Nat
  BY DEF CInv, IInv, TypeOK
<1>1. CASE QuietStep \/ UNCHANGED vars
  BY <1>0, <1>1, QuietFrame DEF vars, runVars, sseVars
<1>2. CASE Launch \/ NodeFails \/ EmitStep \/ Settle \/ PublishOutcome
  <2>1. got' = got
    BY <1>2 DEF Launch, NodeFails, EmitStep, Settle, PublishOutcome, sseVars
  <2>2. history' = history \/ \E e : history' = Append(history, e)
    BY <1>2 DEF Launch, NodeFails, EmitStep, Settle, PublishOutcome, Transition, AddStep, Publish
  <2>3. state = "complete" => state' = "complete"
    BY <1>2 DEF Launch, NodeFails, EmitStep, Settle, PublishOutcome, Transition, CanTransition
  <2> QED
    BY <1>0, <2>1, <2>2, <2>3
<1>3. ASSUME NEW c \in Clients, HandlerStep(c)
      PROVE  /\ UNCHANGED <<history, state>>
             /\ \A d \in Clients : Len(got[d]) <= Len(got'[d])
  <2>1. UNCHANGED <<history, state>>
    BY <1>3, HandlerFrame
  <2>2. CASE Receive(c)
    <3>1. \A d \in Clients : got'[d] = IF d = c THEN Append(got[c], Head(buf[c])) ELSE got[d]
      BY <1>0, <2>2 DEF Receive
    <3>2. Len(Append(got[c], Head(buf[c]))) = Len(got[c]) + 1
      <4>1. Head(buf[c]) \in Event /\ got[c] \in Seq(Event)
        BY <1>0, <2>2 DEF Receive, CInv, IInv, TypeOK
      <4> QED
        BY <4>1
    <3>3. ASSUME NEW d \in Clients PROVE Len(got[d]) <= Len(got'[d])
      <4>1. Len(got[d]) \in Nat /\ (d = c \/ got'[d] = got[d]) /\ got'[c] = Append(got[c], Head(buf[c]))
        BY <1>0, <3>1
      <4> QED
        BY <3>2, <4>1
    <3> QED
      BY <2>1, <3>3
  <2>3. CASE got' = got
    BY <1>0, <2>1, <2>3
  <2> QED
    BY <1>3, <2>2, <2>3 DEF HandlerStep, Handler, NotFound, Subscribe, Disconnect, StreamEnds,
       Unsubscribe
<1> QED
  BY <1>0, <1>1, <1>2, <1>3 DEF Next, Start, Executor, QuietStep, HandlerStep

\* The steps are narrated in the order of the flow.
LEMMA NarrationSteps ==
  ASSUME CInv, NarratesFlow, [Next]_vars
  PROVE  NarratesFlow'
<1>0. /\ steps \in Seq(StepKeys \cup {FailedStep}) /\ FlowSteps \in Seq(StepKeys)
      /\ Len(steps) \in Nat /\ Len(FlowSteps) \in Nat /\ Len(FlowSteps) >= 1
  BY FlowStepsAssumption DEF CInv, IInv, TypeOK
<1>1. CASE EmitStep
  <2>1. /\ pc = "narrating" /\ pc' = pc
        /\ Len(steps) < Len(FlowSteps) /\ steps' = Append(steps, FlowSteps[Len(steps) + 1])
    BY <1>1 DEF EmitStep, AddStep
  <2> QED
    BY <1>0, <2>1 DEF NarratesFlow
<1>2. CASE NodeFails
  <2>1. steps = <<>> /\ steps' = Append(steps, FailedStep)
    BY <1>2 DEF NodeFails, AddStep, Goto, CInv, IInv, HistoryBound
  <2>2. Len(steps') = 1 /\ steps'[1] = FailedStep
    BY <2>1
  <2>3. \A i \in 1..Len(steps') : steps'[i] = FailedStep
    BY <2>2
  <2>4. (\A i \in 1..Len(steps) : steps[i] = FailedStep \/ (i <= Len(FlowSteps) /\ steps[i] = FlowSteps[i]))'
    BY <2>3 DEF FailedStep
  <2>5. (pc \notin Early \cup {"calling", "narrating"} => steps \in {FlowSteps, <<FailedStep>>})'
    BY <2>1
  <2> QED
    BY <2>4, <2>5 DEF NarratesFlow
<1>3. CASE UNCHANGED <<pc, steps>>
  BY <1>3 DEF NarratesFlow
<1>4. CASE steps' = FlowSteps /\ steps' = steps
  BY <1>0, <1>4 DEF NarratesFlow
<1>5. CASE UNCHANGED steps /\ pc' \in Early \cup {"calling", "narrating"}
  BY <1>5 DEF NarratesFlow
<1>6. CASE UNCHANGED steps /\ pc \notin Early \cup {"calling", "narrating"}
  BY <1>6 DEF NarratesFlow
<1>7. CASE Launch \/ NodeAnswers \/ Register \/ CountStarted
  <2>1. UNCHANGED steps /\ pc' \in Early \cup {"calling", "narrating"}
    BY <1>7 DEF Launch, NodeAnswers, Register, CountStarted, Goto, Early, runVars
  <2> QED
    BY <1>5, <2>1
<1>8. CASE VerifyAndMarshal
  <2>1. UNCHANGED steps /\ pc = "narrating" /\ Len(steps) = Len(FlowSteps)
    BY <1>8 DEF VerifyAndMarshal, runVars
  <2>2. \A i \in 1..Len(steps) : steps[i] = FlowSteps[i]
    BY <2>1 DEF CInv, BackedAt
  <2>3. steps = FlowSteps
    BY <1>0, <2>1, <2>2
  <2> QED
    BY <1>4, <2>1, <2>3
<1>9. CASE PutEncodeFails \/ PutMemory \/ Persisted \/ CountCompleted \/ CountFailed \/ SetReceipt
           \/ SetMessage \/ Settle \/ PublishOutcome
  <2>1. UNCHANGED steps /\ pc \notin Early \cup {"calling", "narrating"}
    BY <1>9 DEF PutEncodeFails, PutMemory, Persisted, CountCompleted, CountFailed, SetReceipt,
       SetMessage, Settle, PublishOutcome, Goto, Early, runVars
  <2> QED
    BY <1>6, <2>1
<1>10. ASSUME NEW c \in Clients, HandlerStep(c) PROVE UNCHANGED <<pc, steps>>
  BY <1>10, HandlerFrame
<1>11. CASE UNCHANGED vars
  BY <1>3, <1>11 DEF vars, runVars
<1> QED
  BY <1>1, <1>2, <1>3, <1>7, <1>8, <1>9, <1>10, <1>11 DEF Next, Start, Executor, HandlerStep

\* What the i-th event of the history says.
LEMMA EventSays ==
  ASSUME CInv, NEW i \in 1..Len(history)
  PROVE  /\ history[i] \in Event
         /\ history[i].type = "step" => i - 1 \in 1..Len(steps) /\ history[i].val = steps[i - 1]
         /\ history[i].type = "done" => state = "complete" /\ i = Len(FlowSteps) + 3
<1>1. /\ history \in Seq(Event) /\ Len(steps) \in Nat /\ Len(history) \in Nat
      /\ Len(history) <= Len(steps) + 3 /\ history[i] = ToldBySnapshot(i)
      /\ state = "complete" => steps = FlowSteps
  BY DEF CInv, IInv, TypeOK, ToldAt, HistoryBound, VerdictIsBacked, Early, PCs, Publishing
<1>2. CASE i = 1
  BY <1>1, <1>2 DEF ToldBySnapshot, StateEvent
<1>3. CASE i \in 2..Len(steps) + 1
  <2>1. history[i] = StepEvent(steps[i - 1])
    BY <1>1, <1>3 DEF ToldBySnapshot
  <2> QED
    BY <1>1, <1>3, <2>1 DEF StepEvent
<1>4. CASE i = Len(steps) + 2
  <2>1. history[i] = StateEvent(state)
    BY <1>1, <1>4 DEF ToldBySnapshot
  <2> QED
    BY <1>1, <2>1 DEF StateEvent
<1>5. CASE i > Len(steps) + 2
  <2>1. i = Len(steps) + 3
    BY <1>1, <1>5
  <2>2. history[i] = IF state = "complete" THEN DoneEvent(receiptID) ELSE ErrorEvent(errMsg)
    BY <1>1, <1>5 DEF ToldBySnapshot
  <2> QED
    BY <1>1, <2>1, <2>2 DEF DoneEvent, ErrorEvent
<1> QED
  BY <1>1, <1>2, <1>3, <1>4, <1>5

----------------------------------------------------------------------------
(* The queue and the consumer. *)

\* The consumer takes the next event of the history, or an error.
LEMMA TakesTheNext ==
  ASSUME CInv, PInv, stage = "waiting", queue # <<>>,
         NEW n \in 0..Len(history), Shown(n), NEW m \in Nat, Waits(n, m)
  PROVE  /\ Len(history) \in Nat /\ Len(FlowSteps) \in Nat
         /\ \/ m = 0 /\ Head(queue) = SseError
            \/ m \in Nat \ {0} /\ n + 1 <= Len(history) /\ Head(queue) = history[n + 1]
         /\ Head(queue).type = "step" /\ Head(queue).val # FailedStep =>
              n \in 1..Len(FlowSteps) /\ Head(queue).val = FlowSteps[n]
         /\ Head(queue).type = "state" => n = 0 \/ n > Len(FlowSteps)
         /\ Head(queue).type = "done" => state = "complete" /\ n = Len(FlowSteps) + 2
<1>0. /\ queue \in Seq(Event \cup {SseError}) /\ history \in Seq(Event) /\ Len(history) \in Nat
      /\ Len(FlowSteps) \in Nat /\ Len(queue) \in Nat /\ Len(steps) \in Nat /\ NarratesFlow
  <2>1. queue \in Seq(Event \cup {SseError}) /\ NarratesFlow
    BY DEF PInv, TheaterTypeOK
  <2>2. history \in Seq(Event) /\ steps \in Seq(StepKeys \cup {FailedStep})
    BY DEF CInv, IInv, TypeOK
  <2> QED
    BY <2>1, <2>2, FlowStepsAssumption
<1>1. Head(queue) = queue[1] /\ Len(queue) >= 1
  BY <1>0
<1>2. \/ m = 0 /\ Head(queue) = SseError
      \/ m \in Nat \ {0} /\ n + 1 <= Len(history) /\ Head(queue) = history[n + 1]
  BY <1>0, <1>1 DEF Waits
<1>3. CASE Head(queue) = SseError
  BY <1>0, <1>2, <1>3 DEF SseError
<1>4. CASE n + 1 <= Len(history) /\ Head(queue) = history[n + 1]
  <2>0. n + 1 \in 1..Len(history) /\ n \in Nat
    BY <1>0, <1>4
  <2>1. /\ Head(queue).type = "step" => n \in 1..Len(steps) /\ Head(queue).val = steps[n]
        /\ Head(queue).type = "done" => state = "complete" /\ n = Len(FlowSteps) + 2
    <3>1. n + 1 - 1 = n /\ (n + 1 = Len(FlowSteps) + 3 => n = Len(FlowSteps) + 2)
      BY <1>0, <2>0
    <3> QED
      BY <1>4, <2>0, <3>1, EventSays
  <2>2. Head(queue).type = "step" /\ Head(queue).val # FailedStep =>
          n \in 1..Len(FlowSteps) /\ Head(queue).val = FlowSteps[n]
    BY <1>0, <2>1 DEF NarratesFlow
  <2>3. ASSUME Head(queue).type = "state", n # 0 PROVE n > Len(FlowSteps)
    <3>1. n + 1 > Len(steps) + 1
      <4>1. n + 1 \in 2..Len(steps) + 1 => history[n + 1] = StepEvent(steps[n])
        <5>1. history[n + 1] = ToldBySnapshot(n + 1)
          BY <2>0 DEF CInv, ToldAt
        <5>2. (n + 1) - 1 = n /\ (n + 1 \in 2..Len(steps) + 1 => n + 1 # 1)
          BY <1>0, <2>0
        <5> QED
          BY <5>1, <5>2 DEF ToldBySnapshot
      <4> QED
        BY <1>0, <1>4, <2>0, <2>3, <4>1 DEF StepEvent
    <3>2. steps \in {FlowSteps, <<FailedStep>>}
      <4>1. Len(history) > Len(steps) + 1
        BY <1>0, <2>0, <3>1
      <4>2. pc \notin Early \cup {"calling", "narrating"}
        BY <1>0, <4>1 DEF CInv, IInv, ToldAt, HistoryBound, TypeOK, PCs, Early, Publishing
      <4> QED
        BY <1>0, <4>2 DEF NarratesFlow
    <3>3. CASE steps = <<FailedStep>>
      <4>1. 2 \in 1..n /\ 2 \in 1..Len(history) /\ Len(steps) = 1 /\ steps[1] = FailedStep
        BY <1>0, <2>0, <3>1, <3>3
      <4>2. history[2] = StepEvent(FailedStep)
        BY <4>1 DEF CInv, ToldAt, ToldBySnapshot
      <4> QED
        BY <4>1, <4>2 DEF Shown
    <3> QED
      BY <1>0, <2>0, <3>1, <3>2, <3>3
  <2> QED
    BY <1>0, <1>2, <2>1, <2>2, <2>3
<1> QED
  BY <1>2, <1>3, <1>4

\* The rest of the queue then follows the event taken.
LEMMA RestWaits ==
  ASSUME CInv, PInv, queue # <<>>, queue' = Tail(queue),
         UNCHANGED <<history, source, arrived>>,
         NEW n \in Nat, NEW m \in Nat \ {0}, Waits(n, m)
  PROVE  Waits(n + 1, m - 1)'
<1>1. /\ queue \in Seq(Event \cup {SseError}) /\ Len(queue) \in Nat /\ Len(history) \in Nat
      /\ arrived \in Nat
  <2>1. queue \in Seq(Event \cup {SseError}) /\ arrived \in Nat
    BY DEF PInv, TheaterTypeOK
  <2>2. history \in Seq(Event)
    BY DEF CInv, IInv, TypeOK
  <2> QED
    BY <2>1, <2>2
<1>2. /\ Len(queue') = Len(queue) - 1
      /\ \A k \in 1..Len(queue) - 1 : queue'[k] = queue[k + 1]
  BY <1>1
<1>3. m <= Len(queue) /\ n + m <= Len(history) /\ (n + 1) + (m - 1) = n + m
  BY <1>1 DEF Waits
<1>4. ASSUME NEW k \in 1..m - 1 PROVE queue'[k] = history[(n + 1) + k]
  <2>1. queue'[k] = queue[k + 1] /\ k + 1 \in 1..m /\ n + (k + 1) = (n + 1) + k
    BY <1>1, <1>2, <1>3
  <2> QED
    BY <2>1 DEF Waits
<1>5. CASE m < Len(queue)
  <2>1. queue'[(m - 1) + 1] = SseError /\ m - 1 < Len(queue')
    BY <1>1, <1>2, <1>3, <1>5 DEF Waits
  <2> QED
    BY <1>1, <1>2, <1>3, <1>4, <2>1 DEF Waits
<1>6. CASE m = Len(queue)
  <2>1. source = "open" /\ n + m = arrived /\ ~ (m - 1 < Len(queue')) /\ m - 1 <= Len(queue')
    BY <1>1, <1>2, <1>6 DEF Waits
  <2> QED
    BY <1>1, <1>2, <1>3, <1>4, <2>1 DEF Waits
<1> QED
  BY <1>1, <1>3, <1>5, <1>6

\* Something is added to the queue behind what waits in it.
LEMMA MoreWaits ==
  ASSUME CInv, PInv, UNCHANGED history,
         NEW e \in Event \cup {SseError}, queue' = Append(queue, e),
         NEW n \in Nat, NEW m \in Nat, Waits(n, m)
  PROVE  /\ m < Len(queue) \/ e = SseError => Waits(n, m)'
         /\ (/\ m = Len(queue) /\ source = "open" /\ source' = "open" /\ arrived' = arrived + 1
             /\ arrived + 1 <= Len(history) /\ e = history[arrived + 1])
            => Waits(n, m + 1)'
<1>1. /\ queue \in Seq(Event \cup {SseError}) /\ Len(queue) \in Nat /\ Len(history) \in Nat
      /\ arrived \in Nat
  <2>1. queue \in Seq(Event \cup {SseError}) /\ arrived \in Nat
    BY DEF PInv, TheaterTypeOK
  <2>2. history \in Seq(Event)
    BY DEF CInv, IInv, TypeOK
  <2> QED
    BY <2>1, <2>2
<1>2. /\ Len(queue') = Len(queue) + 1 /\ queue'[Len(queue) + 1] = e
      /\ \A k \in 1..Len(queue) : queue'[k] = queue[k]
  BY <1>1
<1>3. /\ m <= Len(queue) /\ n + m <= Len(history) /\ m <= Len(queue')
      /\ \A k \in 1..m : queue'[k] = history[n + k]
  BY <1>1, <1>2 DEF Waits
<1>4. ASSUME m < Len(queue) \/ e = SseError PROVE Waits(n, m)'
  <2>1. m < Len(queue') /\ queue'[m + 1] = SseError
    BY <1>1, <1>2, <1>3, <1>4 DEF Waits
  <2> QED
    BY <1>3, <2>1 DEF Waits
<1>5. ASSUME m = Len(queue), source = "open", source' = "open", arrived' = arrived + 1,
             arrived + 1 <= Len(history), e = history[arrived + 1]
      PROVE  Waits(n, m + 1)'
  <2>1. n + m = arrived /\ ~ (m + 1 < Len(queue')) /\ m + 1 <= Len(queue') /\ n + (m + 1) = arrived'
        /\ n + (m + 1) <= Len(history)
    BY <1>1, <1>2, <1>5 DEF Waits
  <2>2. \A k \in 1..m + 1 : queue'[k] = history[n + k]
    BY <1>1, <1>2, <1>3, <1>5, <2>1
  <2> QED
    BY <1>5, <2>1, <2>2 DEF Waits
<1> QED
  BY <1>4, <1>5

\* What waits does not change when the history only grows.
LEMMA WaitsStays ==
  ASSUME CInv, CInv', [Next]_vars, UNCHANGED <<queue, source, arrived>>,
         NEW n \in Nat, NEW m \in Nat, Waits(n, m)
  PROVE  Waits(n, m)'
<1>1. /\ Len(history) \in Nat /\ Len(history') \in Nat
  BY DEF CInv, IInv, TypeOK
<1>2. /\ Len(history) <= Len(history') /\ \A i \in 1..Len(history) : history'[i] = history[i]
  BY RunGrows
<1>3. n + m <= Len(history') /\ \A k \in 1..m : n + k \in 1..Len(history)
  BY <1>1, <1>2 DEF Waits
<1> QED
  BY <1>2, <1>3 DEF Waits

\* Nor does the spine.
LEMMA ShownStays ==
  ASSUME CInv, CInv', [Next]_vars, UNCHANGED <<spine, current>>,
         stage' = stage \/ (stage # "running" /\ stage' # "running"),
         NEW n \in 0..Len(history), Shown(n)
  PROVE  n \in 0..Len(history') /\ Shown(n)'
<1>1. /\ Len(history) \in Nat /\ Len(history') \in Nat
  BY DEF CInv, IInv, TypeOK
<1>2. /\ Len(history) <= Len(history') /\ \A i \in 1..Len(history) : history'[i] = history[i]
  BY RunGrows
<1>3. n \in 0..Len(history') /\ \A i \in 1..n : history'[i] = history[i]
  BY <1>1, <1>2
<1>4. (\A i \in 1..n : history[i] # StepEvent(FailedStep))'
  BY <1>3 DEF Shown
<1> QED
  BY <1>3, <1>4 DEF Shown

\* The page follows the history: one step of the connection, the queue or the
\* consumer.
LEMMA PageSteps ==
  ASSUME CInv, CInv', PInv, TheaterNext
  PROVE  PageFollows'
<1>0. PICK n \in 0..Len(history) : Shown(n) /\ (terminated \/ \E m \in Nat : Waits(n, m))
  BY DEF PInv, PageFollows
<1>a. [Next]_vars
  BY TheaterRuns
<1>b. /\ queue \in Seq(Event \cup {SseError}) /\ Len(queue) \in Nat /\ n \in Nat
      /\ Len(history) \in Nat /\ Len(FlowSteps) \in Nat /\ arrived \in Nat
      /\ spine \in [StepKeys -> {"pending", "running", "complete", "failed"}]
      /\ \A j \in 1..Len(FlowSteps) : FlowSteps[j] \in StepKeys
  <2>1. /\ queue \in Seq(Event \cup {SseError}) /\ arrived \in Nat
        /\ spine \in [StepKeys -> {"pending", "running", "complete", "failed"}]
    BY DEF PInv, TheaterTypeOK
  <2>2. history \in Seq(Event)
    BY DEF CInv, IInv, TypeOK
  <2> QED
    BY <2>1, <2>2, FlowStepsAssumption
<1>c. terminated <=> stage \in {"sealing", "over"}
  BY DEF PInv, Settled
\* The steps that leave the spine as it is.
<1>1. ASSUME UNCHANGED <<spine, current>>,
             stage' = stage \/ (stage # "running" /\ stage' # "running"),
             terminated' \/ \E m \in Nat : Waits(n, m)'
      PROVE  PageFollows'
  BY <1>a, <1>1, <1>0, ShownStays DEF PageFollows
<1>2. CASE Server
  <2>1. UNCHANGED browserVars
    BY <1>2 DEF Server
  <2>2. ASSUME NEW m \in Nat, Waits(n, m) PROVE Waits(n, m)'
    BY <1>a, <1>b, <2>1, <2>2, WaitsStays DEF browserVars
  <2> QED
    BY <1>0, <1>1, <2>1, <2>2 DEF browserVars
<1>3. CASE Connect
  <2>1. /\ UNCHANGED <<queue, terminated, stage, current, spine, history>>
        /\ source = "connecting" /\ source' = "open" /\ arrived' = 0
    BY <1>3 DEF Connect, Subscribe, runVars
  <2>2. ASSUME NEW m \in Nat, Waits(n, m) PROVE Waits(n, m)'
    BY <1>b, <2>1, <2>2 DEF Waits
  <2> QED
    BY <1>0, <1>1, <2>1, <2>2
<1>4. CASE ConnectFails \/ OnError
  <2>1. /\ UNCHANGED <<terminated, stage, current, spine, history>>
        /\ ~ terminated => queue' = Append(queue, SseError)
    BY <1>4 DEF ConnectFails, OnError, vars, runVars
  <2>2. ASSUME NEW m \in Nat, Waits(n, m), ~ terminated PROVE Waits(n, m)'
    BY <1>b, <2>1, <2>2, MoreWaits
  <2> QED
    BY <1>0, <1>1, <2>1, <2>2
<1>5. CASE OnMessage
  <2>1. /\ UNCHANGED <<terminated, stage, current, spine, history, source>>
        /\ source = "open" /\ arrived < Len(got[conn])
        /\ queue' = Append(queue, got[conn][arrived + 1]) /\ arrived' = arrived + 1
    BY <1>5 DEF OnMessage, vars, runVars
  <2>2. /\ arrived + 1 <= Len(history) /\ got[conn][arrived + 1] = history[arrived + 1]
        /\ history[arrived + 1] \in Event
    <3>1. conn \in Clients /\ Mirrors(conn)
      BY <2>1 DEF PInv, Dispatched, CInv, IInv, StreamIntegrity
    <3>2. /\ got[conn] \in Seq(Event) /\ buf[conn] \in Seq(Event) /\ history \in Seq(Event)
      BY <3>1 DEF CInv, IInv, TypeOK
    <3>3. arrived + 1 \in 1..Len(got[conn]) /\ Len(got[conn]) <= Len(history)
      <4>1. Len(got[conn]) \in Nat /\ Len(buf[conn]) \in Nat
        BY <3>2
      <4>2. Len(got[conn]) + Len(buf[conn]) <= Len(history)
        BY <3>1 DEF Mirrors
      <4>3. \A x, a, b, h \in Nat : x < a /\ a + b <= h => x + 1 \in 1..a /\ a <= h
        OBVIOUS
      <4>4. arrived \in Nat /\ Len(history) \in Nat /\ arrived < Len(got[conn])
        BY <1>b, <2>1
      <4> QED
        BY <4>1, <4>2, <4>3, <4>4
    <3>4. Len(got[conn]) \in Nat
      BY <3>2
    <3>5. arrived + 1 \in 1..Len(history)
      BY <1>b, <3>3, <3>4
    <3> QED
      BY <3>1, <3>2, <3>3, <3>5 DEF Mirrors
  <2>3. ASSUME NEW m \in Nat, Waits(n, m) PROVE \E k \in Nat : Waits(n, k)'
    <3>1. CASE m < Len(queue)
      BY <1>b, <2>1, <2>2, <2>3, <3>1, MoreWaits
    <3>2. CASE m = Len(queue)
      <4>1. Waits(n, m + 1)'
        BY <1>b, <2>1, <2>2, <2>3, <3>2, MoreWaits
      <4> QED
        BY <4>1
    <3> QED
      BY <1>b, <2>3, <3>1, <3>2 DEF Waits
  <2> QED
    BY <1>0, <1>1, <2>1, <2>3
<1>6. CASE TakeStep \/ TakeOther
  <2>1. /\ stage = "waiting" /\ queue # <<>> /\ queue' = Tail(queue)
        /\ UNCHANGED <<history, source, arrived>>
    BY <1>6 DEF TakeStep, TakeOther, Take, vars, runVars
  <2>2. PICK m \in Nat : Waits(n, m)
    BY <1>0, <1>c, <2>1
  <2>3. /\ Head(queue) # SseError
        /\ Head(queue) # StepEvent(FailedStep)
    BY <1>6 DEF TakeStep, TakeOther, Take, SseError, StepEvent
  <2>4. /\ m \in Nat \ {0} /\ n + 1 <= Len(history) /\ Head(queue) = history[n + 1]
        /\ Head(queue).type = "step" /\ Head(queue).val # FailedStep =>
              n \in 1..Len(FlowSteps) /\ Head(queue).val = FlowSteps[n]
        /\ Head(queue).type = "state" => n = 0 \/ n > Len(FlowSteps)
    BY <1>0, <2>1, <2>2, <2>3, TakesTheNext
  <2>5. Waits(n + 1, m - 1)' /\ m - 1 \in Nat
    BY <1>b, <2>1, <2>2, <2>4, RestWaits
  <2>6. n + 1 \in 0..Len(history') /\ \A i \in 1..n + 1 : history'[i] # StepEvent(FailedStep)
    BY <1>0, <1>b, <2>1, <2>3, <2>4 DEF Shown
  <2>7. CASE TakeStep
    <3>1. /\ n \in 1..Len(FlowSteps) /\ current' = FlowSteps[n] /\ stage' = "running"
          /\ spine' = [spine EXCEPT ![FlowSteps[n]] = "running"]
      BY <1>b, <2>4, <2>7 DEF TakeStep, Take, SpineSet
    <3>2. ASSUME NEW j \in 1..Len(FlowSteps)
          PROVE  spine'[FlowSteps[j]] = IF j + 1 < n + 1 THEN "complete"
                                        ELSE IF j = n THEN "running" ELSE "pending"
      <4>1. CASE j = n
        BY <1>b, <3>1, <4>1
      <4>2. CASE j # n
        <5>1. FlowSteps[j] # FlowSteps[n]
          BY <3>1, <4>2, NarrationAssumption
        <5>2. spine[FlowSteps[j]] = IF j + 1 < n \/ j + 1 = n THEN "complete" ELSE "pending"
          BY <1>0, <2>1, <4>2 DEF Shown
        <5> QED
          BY <1>b, <3>1, <4>2, <5>1, <5>2
      <4> QED
        BY <4>1, <4>2
    <3>3. (\A i \in 1..n + 1 : history[i] # StepEvent(FailedStep))'
      BY <2>6 DEF StepEvent, FailedStep
    <3>4. Shown(n + 1)'
      BY <1>b, <3>1, <3>2, <3>3 DEF Shown
    <3> QED
      BY <2>5, <2>6, <3>4 DEF PageFollows
  <2>8. CASE TakeOther
    <3>1. (n = 0 \/ n > Len(FlowSteps)) /\ UNCHANGED <<stage, spine, current>>
      BY <2>4, <2>8 DEF TakeOther, Take
    <3>2. (\A i \in 1..n + 1 : history[i] # StepEvent(FailedStep))'
      BY <2>6 DEF StepEvent, FailedStep
    <3>3. \A j \in 1..Len(FlowSteps) : (j + 1 < n \/ j + 1 = n) <=> (j + 1 < n + 1 \/ j + 1 = n + 1)
      BY <1>b, <3>1
    <3>4. Shown(n + 1)'
      BY <1>0, <2>1, <3>1, <3>2, <3>3 DEF Shown
    <3> QED
      BY <2>5, <2>6, <3>4 DEF PageFollows
  <2> QED
    BY <1>6, <2>7, <2>8
<1>7. CASE TakeFailedStep \/ TakeDone \/ TakeError
  <2>1. UNCHANGED <<spine, current>> /\ stage = "waiting" /\ stage' # "running" /\ terminated'
    BY <1>7, NarrationAssumption DEF TakeFailedStep, TakeDone, TakeError, Take, SpineSet, Terminate
  <2> QED
    BY <1>1, <2>1
<1>8. CASE PaceStage
  <2>1. /\ stage = "running" /\ stage' = "settled" /\ SpineSet(current, "complete")
        /\ UNCHANGED <<vars, source, conn, arrived, queue, terminated, current>>
    BY <1>8 DEF PaceStage
  <2>2. n - 1 \in 1..Len(FlowSteps) /\ current = FlowSteps[n - 1]
    BY <1>0, <2>1 DEF Shown
  <2>3. spine' = [spine EXCEPT ![FlowSteps[n - 1]] = "complete"]
    BY <1>b, <2>1, <2>2 DEF SpineSet
  <2>4. ASSUME NEW j \in 1..Len(FlowSteps)
        PROVE  spine'[FlowSteps[j]] = IF j + 1 < n \/ j + 1 = n THEN "complete" ELSE "pending"
    <3>1. CASE j = n - 1
      BY <1>b, <2>3, <3>1
    <3>2. CASE j # n - 1
      <4>1. FlowSteps[j] # FlowSteps[n - 1]
        BY <2>2, <3>2, NarrationAssumption
      <4>2. spine[FlowSteps[j]] = IF j + 1 < n THEN "complete" ELSE "pending"
        BY <1>0, <1>b, <2>1, <3>2 DEF Shown
      <4> QED
        BY <1>b, <2>3, <3>2, <4>1, <4>2
    <3> QED
      BY <3>1, <3>2
  <2>5. UNCHANGED history
    BY <2>1 DEF vars, runVars
  <2>6. (\A i \in 1..n : history[i] # StepEvent(FailedStep))'
    BY <1>0, <2>5 DEF Shown, StepEvent, FailedStep
  <2>7. Shown(n)'
    BY <2>1, <2>4, <2>6 DEF Shown
  <2>8. ASSUME NEW m \in Nat, Waits(n, m) PROVE Waits(n, m)'
    BY <2>1, <2>5, <2>8 DEF Waits
  <2> QED
    BY <1>0, <2>1, <2>5, <2>7, <2>8 DEF PageFollows
<1>9. CASE PaceNext \/ OpenVerdict
  <2>1. /\ UNCHANGED <<vars, source, arrived, queue, terminated, current, spine>>
        /\ stage # "running" /\ stage' # "running"
    BY <1>9 DEF PaceNext, OpenVerdict
  <2>2. ASSUME NEW m \in Nat, Waits(n, m) PROVE Waits(n, m)'
    BY <2>1, <2>2 DEF Waits, vars, runVars
  <2> QED
    BY <1>0, <1>1, <2>1, <2>2
<1> QED
  BY <1>2, <1>3, <1>4, <1>5, <1>6, <1>7, <1>8, <1>9 DEF TheaterNext, Consumer

\* The types of the page.
LEMMA PageTypes ==
  ASSUME CInv, PInv, TheaterNext
  PROVE  TheaterTypeOK'
<1>0. TheaterTypeOK
  BY DEF PInv
<1>a. /\ queue \in Seq(Event \cup {SseError}) /\ arrived \in Nat
      /\ Append(queue, SseError) \in Seq(Event \cup {SseError})
      /\ queue # <<>> => Tail(queue) \in Seq(Event \cup {SseError})
  <2> DEFINE S == Event \cup {SseError}
  <2>1. queue \in Seq(S) /\ arrived \in Nat /\ SseError \in S
    BY <1>0 DEF TheaterTypeOK
  <2> HIDE DEF S
  <2>2. Append(queue, SseError) \in Seq(S) /\ (queue # <<>> => Tail(queue) \in Seq(S))
    BY <2>1
  <2> QED
    BY <2>1, <2>2 DEF S
\* What each step may change.
<1>1. ASSUME queue' \in {queue, Append(queue, SseError)}, source' \in {"connecting", "open", "closed"},
             conn' \in Clients \cup {NoConn}, arrived' \in Nat,
             UNCHANGED <<terminated, stage, current, spine, note>>
      PROVE  TheaterTypeOK'
  BY <1>0, <1>a, <1>1 DEF TheaterTypeOK
<1>2. ASSUME queue # <<>>, queue' = Tail(queue), UNCHANGED <<conn, arrived>>,
             source' \in {"connecting", "open", "closed"}, terminated' \in BOOLEAN,
             stage' \in {"waiting", "running", "settled", "sealing", "over"},
             current' \in StepKeys \cup {Empty},
             spine' \in [StepKeys -> {"pending", "running", "complete", "failed"}],
             note' \in {"none", "sealed", "stage failed", "run failed", "lost"}
      PROVE  TheaterTypeOK'
  BY <1>0, <1>a, <1>2 DEF TheaterTypeOK
<1>3. CASE Server
  BY <1>0, <1>1, <1>3 DEF Server, browserVars, TheaterTypeOK
<1>4. CASE Connect
  <2> DEFINE c == CHOOSE x \in Clients : handler[x] = "idle"
  <2>1. c \in Clients /\ conn' = c
    BY <1>4 DEF Connect
  <2> QED
    BY <1>1, <1>4, <2>1 DEF Connect
<1>5. CASE ConnectFails \/ OnError
  BY <1>0, <1>1, <1>5 DEF ConnectFails, OnError, TheaterTypeOK
<1>6. CASE OnMessage
  <2>1. got[conn][arrived + 1] \in Event
    <3>1. conn \in Clients /\ arrived < Len(got[conn])
      BY <1>6 DEF OnMessage, PInv, Dispatched
    <3>2. got[conn] \in Seq(Event)
      BY <3>1 DEF CInv, IInv, TypeOK
    <3>3. arrived + 1 \in 1..Len(got[conn])
      BY <1>a, <3>1, <3>2
    <3> QED
      BY <3>2, <3>3
  <2>2. \A S, s : \A e \in S : s \in Seq(S) => Append(s, e) \in Seq(S)
    OBVIOUS
  <2>3. Append(queue, got[conn][arrived + 1]) \in Seq(Event \cup {SseError})
    BY <1>a, <2>1, <2>2
  <2> QED
    <3>1. /\ UNCHANGED <<terminated, stage, current, spine, note, source, conn>>
          /\ queue' = Append(queue, got[conn][arrived + 1]) /\ arrived' = arrived + 1
      BY <1>6 DEF OnMessage
    <3> QED
      <4>1. queue' \in Seq(Event \cup {SseError}) /\ arrived' \in Nat
        BY <1>a, <2>3, <3>1
      <4>2. SseError' = SseError /\ Event' = Event
        BY DEF SseError, Event, Empty, States, Errors, NodeErrors, MarshalError, StoreError, FailedStep
      <4> QED
        BY <1>0, <3>1, <4>1, <4>2 DEF TheaterTypeOK
<1>7. CASE TakeStep
  <2>1. Head(queue).val \in StepKeys
    <3>1. PICK n \in 0..Len(history) : Shown(n) /\ (terminated \/ \E m \in Nat : Waits(n, m))
      BY DEF PInv, PageFollows
    <3>2. stage = "waiting" /\ queue # <<>> /\ ~ terminated
          /\ Head(queue).type = "step" /\ Head(queue).val # FailedStep
      BY <1>7 DEF TakeStep, Take, PInv, Settled
    <3>3. n \in 1..Len(FlowSteps) /\ Head(queue).val = FlowSteps[n]
      BY <3>1, <3>2, TakesTheNext
    <3> QED
      BY <3>3, FlowStepsAssumption
  <2> QED
    BY <1>0, <1>2, <1>7, <2>1 DEF TakeStep, Take, SpineSet, TheaterTypeOK
<1>8. CASE TakeFailedStep \/ TakeDone \/ TakeError \/ TakeOther
  BY <1>0, <1>2, <1>8 DEF TakeFailedStep, TakeDone, TakeError, TakeOther, Take, Terminate, SpineSet,
     TheaterTypeOK
<1>9. CASE PaceStage \/ PaceNext \/ OpenVerdict
  BY <1>0, <1>9 DEF PaceStage, PaceNext, OpenVerdict, SpineSet, TheaterTypeOK
<1> QED
  BY <1>3, <1>4, <1>5, <1>6, <1>7, <1>8, <1>9 DEF TheaterNext, Consumer

\* A seal is put on a whole spine; an outcome ends the reading.
LEMMA SettledSteps ==
  ASSUME CInv, CInv', PInv, TheaterNext
  PROVE  Settled'
<1>0. Settled
  BY DEF PInv
<1>1. state = "complete" => state' = "complete"
  BY TheaterRuns, RunGrows
<1>2. CASE UNCHANGED <<terminated, stage, note, spine>>
  BY <1>0, <1>1, <1>2 DEF Settled
<1>3. CASE Server \/ Connect \/ ConnectFails \/ OnMessage \/ OnError \/ TakeOther
  BY <1>2, <1>3 DEF Server, Connect, ConnectFails, OnMessage, OnError, TakeOther, Take, browserVars
<1>4. CASE TakeStep \/ PaceStage
  BY <1>0, <1>1, <1>4 DEF TakeStep, Take, PaceStage, Settled
<1>5. CASE TakeFailedStep \/ TakeError
  BY <1>5 DEF TakeFailedStep, TakeError, Take, Terminate, Settled
<1>6. CASE TakeDone
  <2>1. PICK n \in 0..Len(history) : Shown(n) /\ (terminated \/ \E m \in Nat : Waits(n, m))
    BY DEF PInv, PageFollows
  <2>2. /\ stage = "waiting" /\ queue # <<>> /\ ~ terminated /\ Head(queue).type = "done"
        /\ terminated' = TRUE /\ stage' = "sealing" /\ note' = "sealed" /\ spine' = spine
        /\ UNCHANGED state
    BY <1>0, <1>6 DEF TakeDone, Take, Terminate, Settled, vars, runVars
  <2>3. /\ state = "complete" /\ n = Len(FlowSteps) + 2 /\ Len(FlowSteps) \in Nat
    BY <2>1, <2>2, TakesTheNext
  <2>4. \A j \in 1..Len(FlowSteps) : spine[FlowSteps[j]] = "complete"
    BY <2>1, <2>2, <2>3 DEF Shown
  <2> QED
    BY <2>2, <2>3, <2>4, NarrationAssumption DEF Settled
<1>7. CASE PaceNext \/ OpenVerdict
  BY <1>0, <1>1, <1>7 DEF PaceNext, OpenVerdict, Settled
<1> QED
  BY <1>3, <1>4, <1>5, <1>6, <1>7 DEF TheaterNext, Consumer

\* Nothing is dispatched that did not arrive.
LEMMA DispatchedSteps ==
  ASSUME CInv, CInv', PInv, TheaterNext
  PROVE  Dispatched'
<1>0. Dispatched /\ arrived \in Nat /\ \A c \in Clients : Len(got[c]) \in Nat /\ Len(got'[c]) \in Nat
  <2>1. got \in [Clients -> Seq(Event)] /\ got' \in [Clients -> Seq(Event)]
    BY DEF CInv, IInv, TypeOK
  <2>2. Dispatched /\ arrived \in Nat
    BY DEF PInv, TheaterTypeOK
  <2>3. \A c \in Clients : got[c] \in Seq(Event) /\ got'[c] \in Seq(Event)
    BY <2>1
  <2> QED
    BY <2>2, <2>3
<1>1. \A c \in Clients : Len(got[c]) <= Len(got'[c])
  BY TheaterRuns, RunGrows
<1>2. CASE UNCHANGED <<source, conn, arrived>>
  BY <1>0, <1>1, <1>2 DEF Dispatched
<1>3. CASE Server \/ TakeStep \/ TakeOther \/ PaceStage \/ PaceNext \/ OpenVerdict
  BY <1>2, <1>3 DEF Server, TakeStep, TakeOther, Take, PaceStage, PaceNext, OpenVerdict, browserVars
<1>4. CASE Connect
  <2> DEFINE c == CHOOSE x \in Clients : handler[x] = "idle"
  <2>1. c \in Clients /\ conn' = c /\ arrived' = 0
    BY <1>4 DEF Connect
  <2> QED
    BY <1>0, <2>1 DEF Dispatched
<1>5. CASE OnMessage
  BY <1>0, <1>1, <1>5 DEF OnMessage, Dispatched, vars, sseVars
<1>6. CASE ConnectFails \/ OnError \/ TakeFailedStep \/ TakeDone \/ TakeError
  BY <1>6 DEF ConnectFails, OnError, TakeFailedStep, TakeDone, TakeError, Terminate, Dispatched
<1> QED
  BY <1>3, <1>4, <1>5, <1>6 DEF TheaterNext, Consumer

----------------------------------------------------------------------------
(* The invariant and what follows from it. *)

\* It holds before the first connection,
LEMMA InitPInv == TheaterInit => CInv /\ PInv
<1> SUFFICES ASSUME TheaterInit PROVE CInv /\ PInv
  OBVIOUS
<1>1. CInv
  BY InitCInv DEF TheaterInit
<1>2. Settled /\ Dispatched
  BY DEF TheaterInit, Settled, Dispatched
<1>3. NarratesFlow
  <2>1. pc = "new" /\ steps = <<>>
    BY DEF TheaterInit, Init
  <2>2. \A i \in 1..Len(steps) : FALSE
    BY <2>1
  <2> QED
    BY <2>1, <2>2 DEF NarratesFlow, Early
<1>4. TheaterTypeOK
  <2>1. queue = <<>> /\ queue \in Seq(Event \cup {SseError})
    BY DEF TheaterInit
  <2> QED
    BY <2>1 DEF TheaterInit, TheaterTypeOK
<1>5. Shown(0) /\ Waits(0, 0)
  <2>1. \A j \in 1..Len(FlowSteps) : FlowSteps[j] \in StepKeys
    BY NarrationAssumption
  <2>2. Len(FlowSteps) \in Nat
    BY FlowStepsAssumption
  <2> QED
    BY <2>1, <2>2 DEF TheaterInit, Init, Shown, Waits
<1>6. PageFollows
  BY <1>5 DEF PageFollows, TheaterInit, Init
<1> QED
  BY <1>1, <1>2, <1>3, <1>4, <1>6 DEF PInv

\* and every step keeps it.
LEMMA NextPInv == CInv /\ PInv /\ [TheaterNext]_theaterVars => CInv' /\ PInv'
<1> SUFFICES ASSUME CInv, PInv, [TheaterNext]_theaterVars PROVE CInv' /\ PInv'
  OBVIOUS
<1>1. [Next]_vars
  BY TheaterRuns
<1>2. CInv'
  BY <1>1, NextCInv
<1>3. NarratesFlow'
  BY <1>1, NarrationSteps DEF PInv
<1>4. CASE TheaterNext
  BY <1>2, <1>3, <1>4, PageTypes, PageSteps, SettledSteps, DispatchedSteps DEF PInv
<1>5. CASE UNCHANGED theaterVars
  <2>1. UNCHANGED <<vars, browserVars>>
    BY <1>5 DEF theaterVars
  <2>2. PageFollows'
    BY <2>1 DEF PInv, PageFollows, Shown, Waits, vars, runVars, browserVars, StepEvent, FailedStep,
       SseError, Empty
  <2> QED
    BY <1>2, <1>3, <2>1, <2>2 DEF PInv, Settled, Dispatched, TheaterTypeOK, vars, runVars, sseVars,
       browserVars, Event, States, Errors, NodeErrors, MarshalError, StoreError, Empty, SseError,
       FailedStep
<1> QED
  BY <1>4, <1>5

\* So it holds throughout.
LEMMA TheaterInvariance == TheaterSpec => [](CInv /\ PInv)
BY InitPInv, NextPInv, PTL DEF TheaterSpec

\* The types of the page's state.
THEOREM TheaterTypes == TheaterSpec => []TheaterTypeOK
<1>1. PInv => TheaterTypeOK
  BY DEF PInv
<1> QED
  BY <1>1, TheaterInvariance, PTL

\* Through history, channel, connection, queue and pacing, and however often the
\* connection breaks, the stages light up in the order of the narration, one at a
\* time (playground.js 380-382).
THEOREM TheaterInOrder == TheaterSpec => []SpineInOrder
<1>1. PInv => SpineInOrder
  <2> SUFFICES ASSUME PInv, NEW i \in 1..Len(FlowSteps), NEW j \in 1..Len(FlowSteps), i < j,
                      spine[FlowSteps[j]] # "pending"
               PROVE  spine[FlowSteps[i]] = "complete"
    BY DEF SpineInOrder
  <2>1. PICK n \in 0..Len(history) : Shown(n)
    BY DEF PInv, PageFollows
  <2> QED
    BY <2>1, FlowStepsAssumption DEF Shown
<1> QED
  BY <1>1, TheaterInvariance, PTL

\* The page shows no stage twice, although a new connection is sent the whole
\* history again (EventSource's reconnect, playground.js startRun).
THEOREM TheaterOnlyForward == TheaterSpec => SpineOnlyForward
<1> DEFINE Forward == \A k \in StepKeys : spine[k] # spine'[k] =>
             <<spine[k], spine'[k]>> \in {<<"pending", "running">>, <<"running", "complete">>}
<1>1. CInv /\ PInv /\ [TheaterNext]_theaterVars => [Forward]_theaterVars
  <2> SUFFICES ASSUME CInv, PInv, TheaterNext, NEW k \in StepKeys, spine[k] # spine'[k]
               PROVE  <<spine[k], spine'[k]>> \in {<<"pending", "running">>, <<"running", "complete">>}
    OBVIOUS
  <2>1. PICK n \in 0..Len(history) : Shown(n) /\ (terminated \/ \E m \in Nat : Waits(n, m))
    BY DEF PInv, PageFollows
  <2>2. spine \in [StepKeys -> {"pending", "running", "complete", "failed"}]
        /\ Len(FlowSteps) \in Nat /\ Len(history) \in Nat
    <3>1. history \in Seq(Event)
      BY DEF CInv, IInv, TypeOK
    <3>2. spine \in [StepKeys -> {"pending", "running", "complete", "failed"}]
      BY DEF PInv, TheaterTypeOK
    <3> QED
      BY <3>1, <3>2, FlowStepsAssumption
  <2>3. CASE TakeStep
    <3>1. stage = "waiting" /\ queue # <<>> /\ ~ terminated
          /\ Head(queue).type = "step" /\ Head(queue).val # FailedStep
      BY <2>3 DEF TakeStep, Take, PInv, Settled
    <3>2. n \in 1..Len(FlowSteps) /\ Head(queue).val = FlowSteps[n]
      BY <2>1, <3>1, TakesTheNext
    <3>3. k = FlowSteps[n] /\ spine'[k] = "running"
      BY <2>2, <2>3, <3>2 DEF TakeStep, SpineSet
    <3>4. spine[FlowSteps[n]] = "pending"
      BY <2>1, <2>2, <3>1, <3>2 DEF Shown
    <3> QED
      BY <3>3, <3>4
  <2>4. CASE PaceStage
    <3>1. stage = "running" /\ n - 1 \in 1..Len(FlowSteps) /\ current = FlowSteps[n - 1]
      BY <2>1, <2>4 DEF PaceStage, Shown
    <3>2. k = FlowSteps[n - 1] /\ spine'[k] = "complete"
      BY <2>2, <2>4, <3>1 DEF PaceStage, SpineSet
    <3>3. spine[FlowSteps[n - 1]] = "running"
      BY <2>1, <2>2, <3>1 DEF Shown
    <3> QED
      BY <3>2, <3>3
  <2>5. CASE Server \/ Connect \/ ConnectFails \/ OnMessage \/ OnError \/ TakeFailedStep
             \/ TakeDone \/ TakeError \/ TakeOther \/ PaceNext \/ OpenVerdict
    BY <2>5, NarrationAssumption DEF Server, Connect, ConnectFails, OnMessage, OnError,
       TakeFailedStep, TakeDone, TakeError, TakeOther, PaceNext, OpenVerdict, Terminate, SpineSet,
       browserVars
  <2> QED
    BY <2>3, <2>4, <2>5 DEF TheaterNext, Consumer
<1> QED
  BY <1>1, TheaterInvariance, PTL DEF TheaterSpec, SpineOnlyForward

\* A page that says the proof is sealed shows every stage complete, of a run that
\* is complete and whose receipt the store serves.
THEOREM TheaterSealIsEarned == TheaterSpec => []SealIsEarned
<1>1. CInv /\ PInv => SealIsEarned
  BY DEF CInv, VerdictIsBacked, PInv, Settled, SealIsEarned
<1> QED
  BY <1>1, TheaterInvariance, PTL
=============================================================================
