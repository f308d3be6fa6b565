----------------------------- MODULE CheckMatrix -----------------------------
(* The verdict matrix (src/web/checkMatrix.js): mountCheckMatrix builds one row
   per check and reveals them by timers, one every stagger; the button "Re-verify
   line by line" (src/web/playground.js) reveals them again.  Timers that an
   earlier reveal has set are not cleared.  Time is counted in staggers.  The
   page that shows the matrix mounts it: see ReceiptPage.                    *)
EXTENDS Naturals, FiniteSets

CONSTANTS
  Total,      \* the number of checks in the result
  Replays     \* bound on the clicks

ASSUME MatrixAssumption ==
  Total \in Nat \ {0} /\ Replays \in Nat

VARIABLES
  stagger,    \* 1, or 0 under reduced motion
  checks,     \* the result: whether each check passed
  mounted,    \* the matrix is on the page, and with it the button enabled
  revealed,   \* the rows shown
  timers,     \* the timers set: which row, when, and by which reveal
  clock,
  replays,
  rushed      \* history: a replay began before the last reveal was over

matrixVars ==
  <<stagger, checks, mounted, revealed, timers, clock, replays, rushed>>

Rows == 1..Total

\* The verifier stops at the first check that fails: later rows are not there.
Results == {r \in UNION {[1..n -> BOOLEAN] : n \in Rows} :
              /\ \A i \in DOMAIN r : i < Cardinality(DOMAIN r) => r[i]
              /\ r[Cardinality(DOMAIN r)] => Cardinality(DOMAIN r) = Total}

Shown == DOMAIN checks

----------------------------------------------------------------------------
MatrixInit ==
  /\ stagger = 1 /\ checks = <<>> /\ mounted = FALSE
  /\ revealed = {} /\ timers = {} /\ clock = 0
  /\ replays = 0 /\ rushed = FALSE

\* Faulty: the rows are revealed from the last to the first.
RowTimersReversed(n, rows) ==
  {[row |-> i, due |-> clock + Cardinality(rows) - i, of |-> n] : i \in rows}

\* One timer per row, a stagger apart.
RowTimers(n, rows) == {[row |-> i, due |-> clock + i - 1, of |-> n] : i \in rows}

\* Faulty: a reveal does nothing but hide while an earlier one is under way.
RevealOnce(n, rows, pace) ==
  IF pace = 0
    THEN revealed' = rows /\ UNCHANGED timers
    ELSE /\ revealed' = {}
         /\ timers' = IF timers # {} THEN {} ELSE RowTimers(n, rows)

\* reveal, the n-th time.
Reveal(n, rows, pace) ==
  IF pace = 0
    THEN revealed' = rows /\ UNCHANGED timers
    ELSE /\ revealed' = {}
         /\ timers' = timers \cup RowTimers(n, rows)

\* The page passes the result, and no stagger under reduced motion.
Mount(result, pace) ==
  /\ ~ mounted /\ mounted' = TRUE
  /\ checks' = result /\ stagger' = pace
  /\ Reveal(0, DOMAIN result, pace)
  /\ UNCHANGED <<clock, replays, rushed>>

\* A click on "Re-verify line by line".
Replay ==
  /\ mounted /\ replays < Replays
  /\ replays' = replays + 1
  /\ rushed' = (rushed \/ timers # {})
  /\ Reveal(replays + 1, Shown, stagger)
  /\ UNCHANGED <<stagger, checks, mounted, clock>>

\* Timers fire in the order they are due, and of two due at once the older first.
First(t) ==
  \A u \in timers : t.due < u.due \/ (t.due = u.due /\ t.of <= u.of)

Fire(t) ==
  /\ t.due <= clock /\ First(t)
  /\ timers' = timers \ {t}
  /\ revealed' = revealed \cup {t.row}
  /\ UNCHANGED <<stagger, checks, mounted, clock, replays, rushed>>

Tick ==
  /\ timers # {} /\ \A t \in timers : t.due > clock
  /\ clock' = clock + 1
  /\ UNCHANGED <<stagger, checks, mounted, revealed, timers, replays, rushed>>

MatrixNext ==
  \/ \E result \in Results, pace \in {0, 1} : Mount(result, pace)
  \/ Replay \/ (\E t \in timers : Fire(t)) \/ Tick

----------------------------------------------------------------------------
(* Properties. *)

\* The types; a timer is never set for a row that is not there.
MatrixTypeOK ==
  /\ stagger \in {0, 1} /\ checks \in Results \cup {<<>>} /\ mounted \in BOOLEAN
  /\ revealed \subseteq Shown
  /\ \A t \in timers : t.row \in Shown /\ t.due \in Nat /\ t.of \in 0..replays
  /\ clock \in Nat /\ replays \in 0..Replays /\ rushed \in BOOLEAN

\* "With stagger they turn on one at a time so a skeptic literally watches each
\* check land" (checkMatrix.js 127-128): the rows shown are always the first
\* ones, for a visitor who lets each reveal come to its end.  The timers of one that
\* was interrupted show later rows before earlier ones.
LineByLineIfPatient ==
  ~ rushed => \A i \in revealed : \A j \in 1..i : j \in revealed

\* "`replay()` re-applies `data-revealed` to all rows"
\* (docs/ux-redesign/01-runbook-check-matrix.md 282): after the clicks have stopped, all
\* rows are shown, whatever timers of earlier reveals were still to fire.
AllRevealedInTheEnd == [](mounted => <>[](revealed = Shown))
=============================================================================
