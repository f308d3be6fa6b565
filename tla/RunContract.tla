----------------------------- MODULE RunContract -----------------------------
(* What a run (src/api/runs.go) promises the readers of its event stream, with
   no channel, buffer or goroutine in sight.  There is one log per run.  It
   tells the states of the run in order, its steps while the run is under way,
   and one outcome at the end, after which it is sealed.  A reader is handed
   the log entry by entry from the first one, and is told that the stream is
   over only after it was handed the verdict: the terminal state.          *)
EXTENDS Naturals, Sequences

CONSTANT Readers

VARIABLES
  log,    \* the events published so far
  read,   \* the events each reader was handed
  over    \* the readers whose stream was ended by the server

vars == <<log, read, over>>

Is(e, type, val) == e.type = type /\ e.val = val

Verdict(e) == Is(e, "state", "complete") \/ Is(e, "state", "failed")

HasVerdict(s) == \E i \in 1..Len(s) : Verdict(s[i])

Sealed == log # <<>> /\ log[Len(log)].type \in {"done", "error"}

Init ==
  /\ log = <<>>
  /\ read = [r \in Readers |-> <<>>]
  /\ over = {}

\* The next entry: "running" first, steps until the verdict, then the outcome
\* that goes with the verdict.
MayFollow(e) ==
  IF log = <<>> THEN Is(e, "state", "running")
  ELSE IF ~ HasVerdict(log) THEN e.type = "step" \/ Verdict(e)
  ELSE IF Is(log[Len(log)], "state", "complete") THEN e.type = "done"
  ELSE e.type = "error"

Publish ==
  /\ ~ Sealed
  /\ Len(log') = Len(log) + 1 /\ SubSeq(log', 1, Len(log)) = log
  /\ MayFollow(log'[Len(log')])
  /\ UNCHANGED <<read, over>>

Read(r) ==
  /\ r \notin over /\ Len(read[r]) < Len(log)
  /\ read' = [read EXCEPT ![r] = Append(@, log[Len(@) + 1])]
  /\ UNCHANGED <<log, over>>

End(r) ==
  /\ r \notin over /\ HasVerdict(read[r])
  /\ over' = over \cup {r}
  /\ UNCHANGED <<log, read>>

Next == Publish \/ \E r \in Readers : Read(r) \/ End(r)

Spec == Init /\ [][Next]_vars
=============================================================================
