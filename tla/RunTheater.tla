----------------------------- MODULE RunTheater -----------------------------
(* The Run Theater (startRun in src/web/playground.js) watching a run: the
   EventSource with its reconnects, the queue that decouples the callbacks from
   the paced consumer (makeChannel), the spine of stages (src/web/spine.js),
   and the jump to the verdict.  It is composed with the server side, Run; the
   connections are the Clients of that module, used one after another.

   The browser is one thread: a callback or the consumer up to its next await
   is one action.  A connection may break at any time; what was written to it
   and not dispatched is lost, and the server notices later.               *)
EXTENDS Run

CONSTANTS
  NoConn,     \* no connection yet
  MaxErrors   \* bound on the errors of failed attempts waiting in the queue

ASSUME TheaterAssumption == NoConn \notin Clients /\ MaxErrors \in Nat
\* The spine has one node for each narrated step; "run" is none of them.
ASSUME NarrationAssumption ==
  /\ \A i, j \in 1..Len(FlowSteps) : FlowSteps[i] = FlowSteps[j] => i = j
  /\ StepKeys = {FlowSteps[i] : i \in 1..Len(FlowSteps)}
  /\ FailedStep \notin StepKeys

VARIABLES
  source,     \* the EventSource: its readyState
  conn,       \* its connection
  arrived,    \* how many events of that connection were dispatched
  queue,      \* makeChannel's buf
  terminated,
  stage,      \* where the consumer loop awaits
  current,    \* the step it is pacing
  spine,      \* the data-state of each node
  note        \* what the stage card says of the outcome

browserVars == <<source, conn, arrived, queue, terminated, stage, current,
                 spine, note>>
theaterVars == <<vars, browserVars>>

SseError == [type |-> "__sse_error", val |-> Empty]

----------------------------------------------------------------------------
TheaterInit ==
  /\ Init
  /\ source = "connecting" /\ conn = NoConn /\ arrived = 0
  /\ queue = <<>> /\ terminated = FALSE
  /\ stage = "waiting" /\ current = Empty
  /\ spine = [k \in StepKeys |-> "pending"]
  /\ note = "none"

(* The EventSource. *)

\* The POST has returned, so the run is launched.  EventSource also comes here
\* by itself after an error.
Connect ==
  /\ source = "connecting" /\ pc \notin {"new", "registered", "counted"}
  /\ \E c \in Clients : handler[c] = "idle"
  /\ LET c == CHOOSE x \in Clients : handler[x] = "idle" IN
       Subscribe(c) /\ conn' = c
  /\ source' = "open" /\ arrived' = 0
  /\ UNCHANGED <<queue, terminated, stage, current, spine, note>>

OnMessage ==
  /\ source = "open" /\ arrived < Len(got[conn])
  /\ queue' = Append(queue, got[conn][arrived + 1])
  /\ arrived' = arrived + 1
  /\ UNCHANGED <<vars, source, conn, terminated, stage, current, spine, note>>

\* Faulty: the page leaves it to EventSource to reconnect.
OnErrorSilent ==
  /\ source = "open"
  /\ source' = "connecting"
  /\ UNCHANGED <<vars, conn, arrived, queue, terminated, stage, current,
                 spine, note>>

\* Faulty: the page closes the source and tells nobody.
OnErrorCloses ==
  /\ source = "open" /\ source' = "closed"
  /\ UNCHANGED <<vars, conn, arrived, queue, terminated, stage, current,
                 spine, note>>

\* The connection breaks, or the server ended the response and everything in
\* it was dispatched: EventSource reports an error and will connect again.
OnError ==
  /\ source = "open"
  /\ source' = "connecting"
  /\ queue' = IF terminated THEN queue ELSE Append(queue, SseError)
  /\ UNCHANGED <<vars, conn, arrived, terminated, stage, current, spine, note>>

\* An attempt to connect fails: EventSource tries again, or gives up when the
\* answer was not a stream.
ConnectFails ==
  /\ source = "connecting" /\ pc \notin {"new", "registered", "counted"}
  /\ Cardinality({i \in DOMAIN queue : queue[i] = SseError}) < MaxErrors
  /\ source' \in {"connecting", "closed"}
  /\ queue' = IF terminated THEN queue ELSE Append(queue, SseError)
  /\ UNCHANGED <<vars, conn, arrived, terminated, stage, current, spine, note>>

EndOfStream ==
  source = "open" /\ handler[conn] = "ended" /\ arrived = Len(got[conn])

----------------------------------------------------------------------------
(* The consumer loop. *)

\* spine.set: a key without a node is ignored.
SpineSet(k, s) ==
  spine' = IF k \in StepKeys THEN [spine EXCEPT ![k] = s] ELSE spine

\* ch.next() resolves with the oldest event, of one of the given types.
Take(types) ==
  /\ stage = "waiting" /\ queue # <<>> /\ Head(queue).type \in types
  /\ queue' = Tail(queue)
  /\ UNCHANGED <<vars, conn, arrived>>

\* The run is over for the page: terminated = true, src.close().
Terminate(outcome) ==
  /\ terminated' = TRUE /\ source' = "closed"
  /\ note' = outcome
  /\ UNCHANGED current

\* Faulty: the handler of a step is not awaited.
TakeStepUnpaced ==
  /\ stage \in {"waiting", "running"} /\ queue # <<>>
  /\ Head(queue).type = "step" /\ Head(queue).val # FailedStep
  /\ queue' = Tail(queue) /\ current' = Head(queue).val
  /\ SpineSet(Head(queue).val, "running")
  /\ stage' = "running"
  /\ UNCHANGED <<vars, conn, arrived, source, terminated, note>>

TakeStep ==
  /\ Take({"step"}) /\ Head(queue).val # FailedStep
  /\ current' = Head(queue).val
  /\ SpineSet(Head(queue).val, "running")
  /\ stage' = "running"
  /\ UNCHANGED <<source, terminated, note>>

TakeFailedStep ==
  /\ Take({"step"}) /\ Head(queue).val = FailedStep
  /\ SpineSet(FailedStep, "failed")
  /\ stage' = "over" /\ Terminate("stage failed")

TakeDone ==
  /\ Take({"done"})
  /\ stage' = "sealing" /\ Terminate("sealed")
  /\ UNCHANGED spine

TakeError ==
  /\ Take({"error", "__sse_error"})
  /\ stage' = "over"
  /\ Terminate(IF Head(queue).type = "error" THEN "run failed" ELSE "lost")
  /\ UNCHANGED spine

\* "state" and any unknown event types are ignored.
TakeOther ==
  /\ Take({"state"})
  /\ UNCHANGED <<source, terminated, stage, current, spine, note>>

\* The pacing: 150 ms on a stage, 40 ms to the next.
PaceStage ==
  /\ stage = "running" /\ stage' = "settled"
  /\ SpineSet(current, "complete")
  /\ UNCHANGED <<vars, source, conn, arrived, queue, terminated, current, note>>

PaceNext ==
  /\ stage = "settled" /\ stage' = "waiting"
  /\ UNCHANGED <<vars, source, conn, arrived, queue, terminated, current,
                 spine, note>>

\* The seal beat has played: location.hash becomes the verdict's.
OpenVerdict ==
  /\ stage = "sealing" /\ stage' = "over"
  /\ UNCHANGED <<vars, source, conn, arrived, queue, terminated, current, spine, note>>

Consumer ==
  \/ TakeStep \/ TakeFailedStep \/ TakeDone \/ TakeError \/ TakeOther
  \/ PaceStage \/ PaceNext \/ OpenVerdict

----------------------------------------------------------------------------
\* The handler of a connection that the page has left hangs up some time after;
\* what it writes until then reaches nobody.
HandlerRuns(c) ==
  IF source = "open" /\ conn = c THEN Handler(c) ELSE Disconnect(c) \/ Unsubscribe(c)

Server ==
  /\ \/ Start \/ NodeAnswers \/ NodeFails \/ Executor
     \/ \E c \in Clients : HandlerRuns(c)
  /\ UNCHANGED browserVars

TheaterNext ==
  \/ Server
  \/ Connect \/ ConnectFails
  \/ OnMessage \/ OnError \/ Consumer

\* The browser and the server keep running and a written event or the end of
\* the response arrives, unless the connection breaks, which it need not.
TheaterFairness ==
  /\ WF_theaterVars(Start /\ UNCHANGED browserVars)
  /\ WF_theaterVars(Executor /\ UNCHANGED browserVars)
  /\ \A c \in Clients : WF_theaterVars(HandlerRuns(c) /\ UNCHANGED browserVars)
  /\ WF_theaterVars(Connect)
  /\ WF_theaterVars(OnMessage) /\ WF_theaterVars(Consumer)
  /\ WF_theaterVars(EndOfStream /\ OnError)

TheaterSpec == TheaterInit /\ [][TheaterNext]_theaterVars /\ TheaterFairness

----------------------------------------------------------------------------
(* Properties. *)

\* The types of the page's state.
TheaterTypeOK ==
  /\ source \in {"connecting", "open", "closed"}
  /\ conn \in Clients \cup {NoConn} /\ arrived \in Nat
  /\ queue \in Seq(Event \cup {SseError})
  /\ terminated \in BOOLEAN
  /\ stage \in {"waiting", "running", "settled", "sealing", "over"}
  /\ current \in StepKeys \cup {Empty}
  /\ spine \in [StepKeys -> {"pending", "running", "complete", "failed"}]
  /\ note \in {"none", "sealed", "stage failed", "run failed", "lost"}

\* "without dropping or reordering any" (playground.js 380-382): through server
\* channel, connection, queue and pacing, the stages light up in the order of
\* the narration, one at a time.
SpineInOrder ==
  \A i, j \in 1..Len(FlowSteps) : i < j =>
    (spine[FlowSteps[j]] # "pending" => spine[FlowSteps[i]] = "complete")

\* A stage never goes back: although EventSource reconnects by itself and the
\* server then replays the whole history, the page shows no stage twice.
SpineOnlyForward ==
  [][\A k \in StepKeys : spine[k] # spine'[k] =>
       <<spine[k], spine'[k]>> \in {<<"pending", "running">>,
                                    <<"running", "complete">>}]_theaterVars

\* When the page says the proof is sealed, every stage is complete, the run is
\* complete on the server, and the receipt it navigates to is in the store.
SealIsEarned ==
  note = "sealed" =>
    /\ \A k \in StepKeys : spine[k] = "complete"
    /\ state = "complete" /\ receiptID \in stored

\* "no dead end" (docs/ux-redesign/03-runbook-run-theater.md 240-241): once the
\* node has answered, the page tells the visitor an outcome, whatever happens to
\* the connections.
TheaterSettles == pc \in {"narrating", "failing"} ~> stage = "over"
============================================================================
