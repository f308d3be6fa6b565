--------------------------- MODULE ProofPagesProofs ---------------------------
(* The pages that verify proofs in the browser, for all sets of forgeries and of
   proofs, any number of checks, and any number of clicks and hand-ins.    *)
EXTENDS ProofPages, FiniteSetTheorems, TLAPS

----------------------------------------------------------------------------
(* The tamper lab.

   A task carries the package it was started with (Tampered), which trips the
   check of its forgery and no earlier one.  Until a visitor is early, the first
   verification is alone (FirstIsAlone).                                   *)

Packages == [forged : SUBSET Forgeries, sealed : SUBSET Forgeries]
Tasks == [no : Nat, what : Forgeries \cup {"first", "reset"}, pkg : Packages,
          at : {"sealing", "verifying"}]

Tampered ==
  /\ clean = Pristine /\ clicks \in Nat /\ tasks \subseteq Tasks
  /\ \A t \in tasks :
       t.pkg = IF t.what \in Forgeries THEN Forge(Pristine, t.what) ELSE Pristine

FirstIsAlone ==
  /\ sample # "loaded" => tasks = {} /\ score.of = "prompt"
  /\ ~ early => \A t \in tasks : t.what = "first" => tasks = {t} /\ score.of = "prompt"

LabInv == Tampered /\ FirstIsAlone /\ MatrixMatchesScore

\* The forgeries are none of the other things a task or the score speaks of.
LEMMA ForgeriesApart ==
  /\ Forgeries \subseteq {"approver", "planhash", "outcome", "chainhash", "policy", "trust", "plugin"}
  /\ \A x \in {"first", "reset", "prompt", "clean"} : x \notin Forgeries
BY LabAssumption DEF Trips

\* A package nobody touched passes.
LEMMA CleanPasses == Result(Pristine) = Passed
<1>1. \A i \in DOMAIN Checks : Holds(Checks[i], Pristine)
  BY DEF Holds, Pristine
<1> QED
  BY <1>1 DEF Result

\* What a forged package does not pass is the check that its forgery is said to trip.
LEMMA ForgedFails ==
  ASSUME NEW f \in Forgeries, NEW i \in DOMAIN Checks
  PROVE  ~ Holds(Checks[i], Forge(Pristine, f)) <=> Checks[i] = Trips[f]
<1> DEFINE forgery == Forge(Pristine, f)
<1>1. forgery.forged = {f} /\ forgery.sealed = IF Reseals(f) THEN {f} ELSE {}
  BY DEF Forge, Pristine
<1>2. f \in {"approver", "planhash", "outcome", "chainhash", "policy", "trust", "plugin"}
  BY ForgeriesApart
<1>3. f = "approver" <=> Trips[f] = "export_hash"
  BY <1>2 DEF Trips
<1> HIDE DEF forgery
<1>4. Checks[i] = "export_hash" => (~ Holds(Checks[i], forgery) <=> Checks[i] = Trips[f])
  BY <1>1, <1>3 DEF Holds, Reseals
<1>5. Checks[i] # "export_hash" => (~ Holds(Checks[i], forgery) <=> Checks[i] = Trips[f])
  BY <1>1, <1>3 DEF Holds
<1> QED
  BY <1>4, <1>5 DEF forgery

\* Each forgery is caught, at its check.
LEMMA ForgedIsCaught ==
  ASSUME NEW f \in Forgeries
  PROVE  Result(Forge(Pristine, f)) = Trips[f] /\ Trips[f] # Passed
<1> DEFINE bad == {i \in DOMAIN Checks : ~ Holds(Checks[i], Forge(Pristine, f))}
<1>1. f \in {"approver", "planhash", "outcome", "chainhash", "policy", "trust", "plugin"}
  BY ForgeriesApart
<1>2. DOMAIN Checks = 1..10
  BY DEF Checks
<1>3. \E i \in DOMAIN Checks : Checks[i] = Trips[f]
  <2>1. /\ Checks[2] = "export_hash" /\ Checks[4] = "plan_hash" /\ Checks[5] = "outcome_digest"
        /\ Checks[6] = "inclusion_proof[0]" /\ Checks[8] = "trust_snapshot[0]"
        /\ Checks[9] = "policy_decision_digest" /\ Checks[10] = "plugin_versions[0]"
    BY DEF Checks
  <2>2. Trips[f] \in {"export_hash", "plan_hash", "outcome_digest", "inclusion_proof[0]",
                     "trust_snapshot[0]", "policy_decision_digest", "plugin_versions[0]"}
    BY <1>1 DEF Trips
  <2> QED
    BY <1>2, <2>1, <2>2
<1>4. \A i, j \in DOMAIN Checks : Checks[i] = Checks[j] => i = j
  BY <1>2 DEF Checks
<1>5. \A i \in DOMAIN Checks : i \in bad <=> Checks[i] = Trips[f]
  BY ForgedFails
<1>6. PICK k \in DOMAIN Checks : bad = {k} /\ Checks[k] = Trips[f]
  BY <1>3, <1>4, <1>5
<1>7. Result(Forge(Pristine, f)) = Checks[CHOOSE i \in bad : \A j \in bad : i <= j]
  BY <1>6 DEF Result
<1>8. (CHOOSE i \in bad : \A j \in bad : i <= j) = k
  BY <1>2, <1>6
<1>9. Trips[f] # Passed
  BY <1>1 DEF Trips, Passed
<1> QED
  BY <1>6, <1>7, <1>8, <1>9


\* A click starts a task with the clean package or a forged copy.
LEMMA ClickKeeps ==
  ASSUME LabInv, NEW t \in Tasks, Click(t), t.what # "first", UNCHANGED <<sample, clean, score, attempts, caught>>,
         t.pkg = IF t.what \in Forgeries THEN Forge(Pristine, t.what) ELSE Pristine,
         verdict' \in {verdict, Loading}
  PROVE  LabInv'
<1>1. tasks' = tasks \cup {t} /\ clicks' = clicks + 1 /\ sample = "loaded"
  BY DEF Click
<1>2. Tampered'
  BY <1>1 DEF LabInv, Tampered
<1>3. ~ early' => ~ early /\ \A u \in tasks : u.what # "first"
  BY DEF Click
<1>4. FirstIsAlone'
  BY <1>1, <1>3 DEF LabInv, FirstIsAlone
<1>5. Loading \notin Matrices
  BY DEF Loading, Matrices, Passed, Checks
<1>6. MatrixMatchesScore'
  BY <1>3, <1>5 DEF LabInv, MatrixMatchesScore, Agree
<1> QED
  BY <1>2, <1>4, <1>6 DEF LabInv

\* The lab is not there yet.
LEMMA LabStarts == LabInit => LabInv
BY DEF LabInit, LabInv, Tampered, FirstIsAlone, MatrixMatchesScore, Agree, Line,
   Matrices, Passed, Checks

\* Every step of the lab keeps LabInv.
LEMMA LabSteps == LabInv /\ [LabNext]_labVars => LabInv'
<1> SUFFICES ASSUME LabInv, [LabNext]_labVars PROVE LabInv'
  OBVIOUS
<1>0. /\ clean = Pristine /\ clicks \in Nat /\ clicks + 1 \in Nat /\ tasks \subseteq Tasks
      /\ Pristine \in Packages /\ Loading \notin Matrices
  BY DEF LabInv, Tampered, Pristine, Packages, Loading, Matrices, Passed, Checks
<1>1. CASE SampleLoaded
  <2> DEFINE t == [no |-> 0, what |-> "first", pkg |-> clean, at |-> "verifying"]
  <2>1. /\ tasks' = {t} /\ t \in Tasks /\ t.what = "first" /\ t.pkg = Pristine
        /\ sample' = "loaded" /\ verdict' = Loading /\ score.of = "prompt"
        /\ UNCHANGED <<clean, clicks, score, attempts, caught>>
    BY <1>0, <1>1 DEF SampleLoaded, Tasks, LabInv, FirstIsAlone
  <2> HIDE DEF t
  <2>2. Tampered' /\ FirstIsAlone'
    BY <2>1, ForgeriesApart DEF LabInv, Tampered, FirstIsAlone
  <2>3. MatrixMatchesScore'
    BY <1>0, <2>1 DEF LabInv, MatrixMatchesScore, Agree
  <2> QED
    BY <2>2, <2>3 DEF LabInv
<1>2. CASE SampleMissing
  BY <1>2 DEF SampleMissing, host, LabInv, Tampered, FirstIsAlone, MatrixMatchesScore, Agree
<1>3. ASSUME NEW f \in Forgeries, ClickForgery(f) PROVE LabInv'
  <2> DEFINE at == IF Reseals(f) THEN "sealing" ELSE "verifying"
             t == [no |-> clicks + 1, what |-> f, pkg |-> Forge(clean, f), at |-> at]
  <2>1. Forge(clean, f) \in Packages
    BY <1>0 DEF Forge, Pristine, Packages
  <2>2. at \in {"sealing", "verifying"}
    OBVIOUS
  <2>3. t \in Tasks /\ t.what = f /\ t.pkg = Forge(Pristine, f)
    BY <1>0, <2>1, <2>2 DEF Tasks
  <2>4. Click(t) /\ UNCHANGED <<sample, clean, score, attempts, caught>> /\ verdict' \in {verdict, Loading}
    BY <1>3 DEF ClickForgery
  <2> QED
    BY <2>3, <2>4, ForgeriesApart, ClickKeeps
<1>4. CASE ClickReset
  <2> DEFINE t == [no |-> clicks + 1, what |-> "reset", pkg |-> clean, at |-> "verifying"]
  <2>1. t \in Tasks /\ t.what = "reset" /\ t.pkg = Pristine
    BY <1>0 DEF Tasks
  <2>2. Click(t) /\ UNCHANGED <<sample, clean, score, attempts, caught>> /\ verdict' = Loading
    BY <1>4 DEF ClickReset
  <2> QED
    BY <2>1, <2>2, ForgeriesApart, ClickKeeps
<1>5. ASSUME NEW t \in tasks, Resealed(t) PROVE LabInv'
  <2> DEFINE on == [t EXCEPT !.at = "verifying"]
  <2>1. on \in Tasks /\ on.what = t.what /\ on.pkg = t.pkg
    BY <1>0 DEF Tasks
  <2>2. /\ tasks' = (tasks \ {t}) \cup {on} /\ verdict' = Loading
        /\ UNCHANGED <<sample, clean, clicks, score, attempts, caught, early>>
    BY <1>5 DEF Resealed
  <2> HIDE DEF on
  <2>3. Tampered'
    BY <2>1, <2>2 DEF LabInv, Tampered
  <2>4. FirstIsAlone'
    BY <2>1, <2>2 DEF LabInv, FirstIsAlone
  <2>5. MatrixMatchesScore'
    BY <1>0, <2>2 DEF LabInv, MatrixMatchesScore, Agree
  <2> QED
    BY <2>3, <2>4, <2>5 DEF LabInv
<1>6. ASSUME NEW t \in tasks, Verified(t) PROVE LabInv'
  <2>1. /\ tasks' = tasks \ {t} /\ verdict' = Result(t.pkg)
        /\ UNCHANGED <<sample, clean, clicks, early>> /\ Say(t, verdict')
        /\ t.what \in Forgeries \cup {"first", "reset"}
        /\ t.pkg = IF t.what \in Forgeries THEN Forge(Pristine, t.what) ELSE Pristine
    BY <1>0, <1>6 DEF Verified, LabInv, Tampered, Tasks
  <2>2. Tampered'
    BY <2>1 DEF LabInv, Tampered
  <2>3. CASE t.what \in Forgeries
    <3>1. /\ verdict' = Trips[t.what] /\ verdict' # Passed
          /\ score' = Line(t.what, FALSE)
      BY <2>1, <2>3, ForgedIsCaught, ForgeriesApart DEF Say, IsForgery, Line
    <3>2. attempts' = attempts + 1 /\ caught' = caught + 1
      BY <1>6, <2>1, <2>3, <3>1 DEF Verified, IsForgery
    <3>3. FirstIsAlone'
      BY <2>1, <2>3, ForgeriesApart DEF LabInv, FirstIsAlone
    <3>4. MatrixMatchesScore'
      BY <2>3, <3>1, <3>2 DEF LabInv, MatrixMatchesScore, Agree, Line
    <3> QED
      BY <2>2, <3>3, <3>4 DEF LabInv
  <2>4. CASE t.what = "reset"
    <3>1. /\ verdict' = Passed /\ score' = Line("clean", FALSE)
          /\ UNCHANGED <<attempts, caught>>
      BY <1>6, <2>1, <2>4, CleanPasses, ForgeriesApart DEF Verified, Say, IsForgery
    <3>2. FirstIsAlone'
      BY <2>1, <2>4, ForgeriesApart DEF LabInv, FirstIsAlone
    <3>3. MatrixMatchesScore'
      BY <3>1, ForgeriesApart DEF LabInv, MatrixMatchesScore, Agree, Line
    <3> QED
      BY <2>2, <3>2, <3>3 DEF LabInv
  <2>5. CASE t.what = "first"
    <3>1. verdict' = Passed /\ UNCHANGED <<score, attempts, caught>>
      BY <1>6, <2>1, <2>5, CleanPasses, ForgeriesApart DEF Verified, Say, IsForgery
    <3>2. FirstIsAlone' /\ (~ early => score.of = "prompt")
      BY <2>1, <2>5, <3>1 DEF LabInv, FirstIsAlone
    <3>3. MatrixMatchesScore'
      BY <2>1, <3>1, <3>2, ForgeriesApart DEF LabInv, MatrixMatchesScore, Agree
    <3> QED
      BY <2>2, <3>2, <3>3 DEF LabInv
  <2> QED
    BY <2>1, <2>3, <2>4, <2>5
<1>7. ASSUME NEW t \in tasks, Throws(t) PROVE LabInv'
  BY <1>7 DEF Throws, host, LabInv, Tampered, FirstIsAlone, MatrixMatchesScore, Agree
<1>8. CASE UNCHANGED labVars
  BY <1>8 DEF labVars, host, LabInv, Tampered, FirstIsAlone, MatrixMatchesScore, Agree
<1> QED
  BY <1>1, <1>2, <1>3, <1>4, <1>5, <1>6, <1>7, <1>8 DEF LabNext, LabMoves

----------------------------------------------------------------------------
(* The check matrix.

   For a patient visitor there is one timer for each row that is not shown, and
   the rows below it have later ones (InTurn).                              *)

Times == [row : Nat, due : Nat, of : Nat]

Timed ==
  /\ clock \in Nat /\ replays \in Nat /\ timers \subseteq Times
  /\ \E n \in Nat : Shown = 1..n
  /\ \A t \in timers : t.row \in Shown
  /\ ~ mounted => timers = {}

InTurn ==
  ~ rushed =>
    /\ revealed = {i \in Shown : \A t \in timers : t.row # i}
    /\ \A t, u \in timers : (t.row = u.row => t = u) /\ (t.row < u.row => t.due < u.due)
    /\ \A t \in timers : \A i \in Shown : i > t.row => \E u \in timers : u.row = i

MatrixInv == Timed /\ InTurn

\* What follows for the rows on the page.
LEMMA InTurnIsLineByLine == MatrixInv => LineByLineIfPatient
<1> SUFFICES ASSUME MatrixInv, ~ rushed, NEW i \in revealed, NEW j \in 1..i PROVE j \in revealed
  BY DEF LineByLineIfPatient
<1>1. PICK n \in Nat : Shown = 1..n
  BY DEF MatrixInv, Timed
<1>2. i \in Shown /\ \A t \in timers : t.row # i
  BY DEF MatrixInv, InTurn
<1>3. j \in Shown /\ j <= i
  BY <1>1, <1>2
<1>4. ASSUME NEW t \in timers, t.row = j PROVE FALSE
  <2>1. j # i /\ i > j
    BY <1>1, <1>2, <1>3, <1>4
  <2>2. \E u \in timers : u.row = i
    BY <1>2, <1>4, <2>1 DEF MatrixInv, InTurn
  <2> QED
    BY <1>2, <2>2
<1> QED
  BY <1>3, <1>4 DEF MatrixInv, InTurn

\* A reveal that nothing is left over from.
LEMMA RevealKeeps ==
  ASSUME timers = {}, clock \in Nat, NEW n \in Nat, NEW m \in Nat, NEW pace,
         Reveal(n, 1..m, pace), Shown' = 1..m
  PROVE  InTurn' /\ timers' \subseteq Times /\ \A t \in timers' : t.row \in Shown'
<1>1. CASE pace = 0
  BY <1>1 DEF Reveal, InTurn
<1>2. CASE pace # 0
  <2>1. revealed' = {} /\ timers' = {[row |-> i, due |-> clock + i - 1, of |-> n] : i \in 1..m}
    BY <1>2 DEF Reveal, RowTimers
  <2>2. \A i \in 1..m : clock + i - 1 \in Nat /\ \A j \in 1..m : i < j => clock + i - 1 < clock + j - 1
    OBVIOUS
  <2>3. timers' \subseteq Times
    BY <2>1, <2>2 DEF Times
  <2>4. \A i \in Shown' : \E u \in timers' : u.row = i
    <3> SUFFICES ASSUME NEW i \in 1..m PROVE \E u \in timers' : u.row = i
      OBVIOUS
    <3>1. [row |-> i, due |-> clock + i - 1, of |-> n] \in timers'
      BY <2>1
    <3> QED
      BY <3>1
  <2>5. \A t, u \in timers' : (t.row = u.row => t = u) /\ (t.row < u.row => t.due < u.due)
    BY <2>1, <2>2
  <2> QED
    BY <2>1, <2>3, <2>4, <2>5 DEF InTurn
<1> QED
  BY <1>1, <1>2

\* A result has at least one row and no gap.
LEMMA ResultsAreRows ==
  ASSUME NEW result \in Results
  PROVE  \E n \in Nat : DOMAIN result = 1..n
BY MatrixAssumption DEF Results, Rows

\* The matrix is mounted once, when no timer is set.
LEMMA MountKeeps ==
  ASSUME MatrixInv, NEW result \in Results, NEW pace \in {0, 1}, Mount(result, pace)
  PROVE  MatrixInv'
<1>1. PICK m \in Nat : DOMAIN result = 1..m
  BY ResultsAreRows
<1>2. /\ timers = {} /\ clock \in Nat /\ Reveal(0, 1..m, pace) /\ Shown' = 1..m
      /\ mounted' /\ UNCHANGED <<clock, replays>>
  BY <1>1 DEF MatrixInv, Timed, Mount, Shown
<1>3. InTurn' /\ timers' \subseteq Times /\ \A t \in timers' : t.row \in Shown'
  BY <1>2, RevealKeeps
<1> QED
  BY <1>2, <1>3 DEF MatrixInv, Timed

\* The earliest timer is that of the first row not shown.
LEMMA FireKeeps ==
  ASSUME MatrixInv, NEW t \in timers, Fire(t)
  PROVE  MatrixInv'
<1>1. /\ timers' = timers \ {t} /\ revealed' = revealed \cup {t.row}
      /\ Shown' = Shown /\ UNCHANGED <<mounted, clock, replays, rushed>>
  BY DEF Fire, Shown
<1>2. Timed'
  BY <1>1 DEF MatrixInv, Timed
<1>3. InTurn'
  <2> SUFFICES ASSUME ~ rushed PROVE InTurn'
    BY <1>1 DEF InTurn
  <2>1. \A u \in timers : t.row \in Nat /\ u.row \in Nat /\ t.due \in Nat /\ u.due \in Nat
    BY DEF MatrixInv, Timed, Times
  <2>2. \A u \in timers : u # t => t.row < u.row
    <3> SUFFICES ASSUME NEW u \in timers, u # t PROVE t.row < u.row
      OBVIOUS
    <3>1. t.due <= u.due
      BY <2>1 DEF Fire, First
    <3>2. u.row # t.row /\ (u.row < t.row => u.due < t.due)
      BY DEF MatrixInv, InTurn
    <3> QED
      BY <2>1, <3>1, <3>2
  <2>3. \A u \in timers' : \A i \in Shown' : i > u.row => \E v \in timers' : v.row = i
    <3> SUFFICES ASSUME NEW u \in timers', NEW i \in Shown', i > u.row PROVE \E v \in timers' : v.row = i
      OBVIOUS
    <3>1. PICK v \in timers : v.row = i
      BY <1>1 DEF MatrixInv, InTurn
    <3>2. t.row < u.row /\ t.row # i
      BY <1>1, <2>1, <2>2, <3>1
    <3> QED
      BY <1>1, <3>1, <3>2
  <2>4. t.row \in Shown
    BY DEF MatrixInv, Timed
  <2>5. revealed' = {i \in Shown' : \A u \in timers' : u.row # i}
    BY <1>1, <2>1, <2>2, <2>4 DEF MatrixInv, InTurn
  <2> QED
    BY <1>1, <2>3, <2>5 DEF MatrixInv, InTurn
<1> QED
  BY <1>2, <1>3 DEF MatrixInv

\* A replay that interrupts a reveal is no patient visitor's.
LEMMA ReplayKeeps ==
  ASSUME MatrixInv, Replay
  PROVE  MatrixInv'
<1>1. PICK m \in Nat : Shown = 1..m
  BY DEF MatrixInv, Timed
<1>2. /\ mounted /\ mounted' = mounted /\ clock' = clock /\ clock \in Nat /\ Shown' = Shown
      /\ replays' \in Nat /\ replays + 1 \in Nat /\ Reveal(replays + 1, Shown, stagger)
  BY DEF Replay, MatrixInv, Timed, Shown
<1>3. CASE timers = {}
  <2>1. InTurn' /\ timers' \subseteq Times /\ \A t \in timers' : t.row \in Shown'
    BY <1>1, <1>2, <1>3, RevealKeeps
  <2> QED
    BY <1>1, <1>2, <2>1 DEF MatrixInv, Timed
<1>4. CASE timers # {}
  <2>1. rushed'
    BY <1>4 DEF Replay
  <2>2. \A t \in timers' : t \in timers \/ \E i \in 1..m : t = [row |-> i, due |-> clock + i - 1, of |-> replays + 1]
    BY <1>1, <1>2 DEF Reveal, RowTimers
  <2>3. \A i \in 1..m : clock + i - 1 \in Nat
    BY <1>2
  <2>4. \A t \in timers' : t \in Times /\ t.row \in Shown
    BY <1>1, <1>2, <2>2, <2>3 DEF MatrixInv, Timed, Times
  <2> QED
    BY <1>1, <1>2, <2>1, <2>4 DEF MatrixInv, Timed, InTurn
<1> QED
  BY <1>3, <1>4

\* Whatever else the matrix or its page does.
LEMMA MatrixStays ==
  ASSUME MatrixInv, clock' \in Nat, UNCHANGED <<checks, mounted, revealed, timers, replays, rushed>>
  PROVE  MatrixInv'
BY DEF MatrixInv, Timed, InTurn, Shown

\* No check is there yet.
LEMMA MatrixStarts == MatrixInit => MatrixInv
<1> SUFFICES ASSUME MatrixInit PROVE MatrixInv
  OBVIOUS
<1>1. /\ timers = {} /\ revealed = {} /\ clock = 0 /\ replays = 0
      /\ Shown = {}
  BY DEF MatrixInit, Shown
<1>2. Shown = 1..0
  BY <1>1
<1> QED
  BY <1>1, <1>2 DEF MatrixInv, Timed, InTurn

\* The clock moves on.
LEMMA TickKeeps ==
  ASSUME MatrixInv, Tick
  PROVE  MatrixInv'
<1>1. clock' \in Nat
  BY DEF MatrixInv, Timed, Tick
<1> QED
  BY <1>1, MatrixStays DEF Tick

----------------------------------------------------------------------------
(* The receipt's page.

   While the page loads, an event that finds the disclosure open is missed, and
   the matrix host tells how far the page is (Stages).  The flag of the
   listener is set before Cinema is asked for and never taken back, so nothing
   is imported or played without it (MountedOnce).                         *)

Stages ==
  /\ stage \in {"loading", "fetching", "verifying", "listening"}
  /\ matrixHost \in {"matrix", "error"} <=> stage = "listening"
  /\ stage \in {"fetching", "verifying"} => matrixHost = "loading"

Heard ==
  /\ stage = "loading" => ~ open /\ ~ toggled
  /\ stage # "listening" /\ open /\ ~ toggled => missed
  /\ stage = "listening" /\ open /\ ~ toggled => missed \/ cinemaMounted

MountedOnce ==
  /\ imports \in Nat /\ players \in Nat /\ imports + players <= 1
  /\ imports + players > 0 => cinemaMounted

PageInv == Stages /\ Heard /\ MountedOnce

\* What follows for a disclosure that stands open.
LEMMA PageInvShowsCinema == PageInv => OpenShowsCinema
<1>1. PageInv => imports + players <= 1
  BY DEF PageInv, MountedOnce
<1>2. PageInv => (StandsOpen /\ ~ missed => cinemaMounted)
  BY Zenon DEF PageInv, Stages, Heard, StandsOpen
<1> QED
  BY <1>1, <1>2 DEF OpenShowsCinema

\* The page as it is opened.
LEMMA ReceiptStarts == ReceiptInit => MatrixInv /\ PageInv
<1> SUFFICES ASSUME ReceiptInit PROVE MatrixInv /\ PageInv
  OBVIOUS
<1>1. MatrixInv
  BY MatrixStarts DEF ReceiptInit
<1>2. Stages
  BY DEF ReceiptInit, Stages, Nothing
<1>3. Heard
  BY DEF ReceiptInit, Heard
<1>4. MountedOnce
  BY DEF ReceiptInit, MountedOnce
<1> QED
  BY <1>1, <1>2, <1>3, <1>4 DEF PageInv

\* Loading goes on, and the disclosure is left alone.
LEMMA LoadKeeps ==
  ASSUME PageInv, PageLoads
  PROVE  PageInv'
<1>1. UNCHANGED disclosureVars
  BY DEF PageLoads, ReceiptShown, BundleArrives, BundleMissing, BundleVerified, VerifierThrows
<1>2. Stages'
  BY DEF PageInv, Stages, PageLoads, ReceiptShown, BundleArrives, BundleMissing, BundleVerified,
         VerifierThrows
<1>3. stage # "listening" /\ stage' # "loading"
  BY DEF PageLoads, ReceiptShown, BundleArrives, BundleMissing, BundleVerified, VerifierThrows
<1>4. open' = open /\ toggled' = toggled /\ missed' = missed /\ cinemaMounted' = cinemaMounted
  BY <1>1 DEF disclosureVars
<1>5. Heard'
  BY <1>3, <1>4 DEF PageInv, Heard
<1>6. MountedOnce'
  BY <1>1 DEF disclosureVars, PageInv, MountedOnce
<1> QED
  BY <1>2, <1>5, <1>6 DEF PageInv

\* A click queues an event.
LEMMA ToggleKeeps ==
  ASSUME PageInv, Toggle
  PROVE  PageInv'
<1>1. Stages'
  BY DEF PageInv, Stages, Toggle
<1>2. toggled' /\ stage' # "loading"
  BY DEF Toggle
<1>3. Heard'
  BY <1>2 DEF Heard
<1>4. MountedOnce'
  BY DEF PageInv, MountedOnce, Toggle
<1> QED
  BY <1>1, <1>3, <1>4 DEF PageInv

\* An event is missed, or finds the flag set, or sets it.
LEMMA EventKeeps ==
  ASSUME PageInv, ToggleEvent
  PROVE  PageInv'
<1>1. Stages'
  BY DEF PageInv, Stages, ToggleEvent
<1>2. stage' = stage /\ open' = open /\ stage # "loading"
  BY DEF PageInv, Heard, ToggleEvent
<1>3. stage # "listening" => missed'
  <2>1. stage # "listening" => matrixHost = "loading"
    BY <1>2 DEF PageInv, Stages
  <2> QED
    BY <2>1 DEF ToggleEvent
<1>4. stage = "listening" /\ open => cinemaMounted'
  BY DEF ToggleEvent
<1>5. Heard'
  BY <1>2, <1>3, <1>4 DEF Heard
<1>6. MountedOnce'
  <2>1. imports \in Nat /\ players \in Nat /\ imports + players <= 1 /\ players' = players
    BY DEF PageInv, MountedOnce, ToggleEvent
  <2>2. imports + players > 0 => cinemaMounted
    BY DEF PageInv, MountedOnce
  <2>3. CASE stage = "listening" /\ open /\ ~ cinemaMounted
    <3>1. cinemaMounted' /\ imports' = imports + 1
      BY <2>3 DEF ToggleEvent
    <3>2. ~ (imports + players > 0)
      BY <2>2, <2>3
    <3>3. imports' \in Nat /\ players' \in Nat /\ imports' + players' <= 1
      BY <2>1, <3>1, <3>2
    <3> QED
      BY <3>1, <3>3 DEF MountedOnce
  <2>4. CASE ~ (stage = "listening" /\ open /\ ~ cinemaMounted)
    <3>1. cinemaMounted' = cinemaMounted /\ imports' = imports
      BY <2>4 DEF ToggleEvent
    <3> QED
      BY <2>1, <3>1 DEF PageInv, MountedOnce
  <2> QED
    BY <2>3, <2>4
<1> QED
  BY <1>1, <1>5, <1>6 DEF PageInv

\* An import becomes a player or a note.
LEMMA CinemaKeeps ==
  ASSUME PageInv, CinemaReady
  PROVE  PageInv'
<1>1. Stages' /\ Heard'
  BY DEF PageInv, Stages, Heard, CinemaReady
<1>2. /\ imports \in Nat /\ players \in Nat /\ imports + players <= 1
      /\ imports > 0 /\ imports' = imports - 1 /\ players' \in {players, players + 1}
  BY DEF PageInv, MountedOnce, CinemaReady
<1>3. imports' \in Nat /\ players' \in Nat /\ imports' + players' <= 1 /\ imports + players > 0
  <2>1. imports = 1 /\ players = 0
    BY <1>2
  <2>2. imports' = 0
    BY <1>2, <2>1
  <2>3. CASE players' = 0
    BY <2>1, <2>2, <2>3
  <2>4. CASE players' = 1
    BY <2>1, <2>2, <2>4
  <2>5. players' = 0 \/ players' = 1
    <3>1. players' = players \/ players' = players + 1
      BY <1>2
    <3> QED
      BY <2>1, <3>1
  <2> QED
    BY <2>3, <2>4, <2>5
<1>4. cinemaMounted' = cinemaMounted /\ cinemaMounted
  BY <1>3 DEF PageInv, MountedOnce, CinemaReady
<1> QED
  BY <1>1, <1>3, <1>4 DEF PageInv, MountedOnce

\* The matrix moves on its own, and the page moves it in BundleVerified only.
LEMMA MatrixSteps ==
  ASSUME MatrixInv, [ReceiptNext]_receiptVars
  PROVE  MatrixInv'
<1>1. CASE BundleVerified
  BY <1>1, MountKeeps DEF BundleVerified
<1>2. CASE MatrixMoves
  <2>1. CASE Replay
    BY <2>1, ReplayKeeps
  <2>2. ASSUME NEW t \in timers, Fire(t) PROVE MatrixInv'
    BY <2>2, FireKeeps
  <2>3. CASE Tick
    BY <2>3, TickKeeps
  <2> QED
    BY <1>2, <2>1, <2>2, <2>3 DEF MatrixMoves
<1>3. CASE UNCHANGED matrixVars
  <2>1. clock' \in Nat
    BY <1>3 DEF matrixVars, MatrixInv, Timed
  <2> QED
    BY <1>3, <2>1, MatrixStays DEF matrixVars
<1>4. BundleVerified \/ MatrixMoves \/ UNCHANGED matrixVars
  BY DEF ReceiptNext, PageLoads, ReceiptShown, BundleArrives, BundleMissing, VerifierThrows,
         Toggle, ToggleEvent, CinemaReady, receiptVars
<1> QED
  BY <1>1, <1>2, <1>3, <1>4

\* Every step of the page keeps both.
LEMMA ReceiptSteps == MatrixInv /\ PageInv /\ [ReceiptNext]_receiptVars => MatrixInv' /\ PageInv'
<1> SUFFICES ASSUME MatrixInv, PageInv, [ReceiptNext]_receiptVars PROVE MatrixInv' /\ PageInv'
  OBVIOUS
<1>1. MatrixInv'
  BY MatrixSteps
<1>2. ASSUME UNCHANGED pageVars PROVE PageInv'
  BY <1>2 DEF pageVars, disclosureVars, PageInv, Stages, Heard, MountedOnce
<1>3. PageInv'
  BY <1>2, LoadKeeps, ToggleKeeps, EventKeeps, CinemaKeeps DEF ReceiptNext, MatrixMoves, receiptVars
<1> QED
  BY <1>1, <1>3

----------------------------------------------------------------------------
(* The scene of the replay.

   Once the page listens, the receipt and the package are what they stay to be, so
   the scene is still the one built from them (SceneInv); what an honest scene is
   then follows from the receipts and packages there are.                  *)

SceneInv ==
  /\ stage # "loading" => receipt \in Receipts
  /\ stage = "verifying" => pkg \in PackagesOf(receipt)
  /\ stage = "listening" => pkg \in PackagesOf(receipt) \cup {NoPackage}
  /\ cinemaMounted => stage = "listening" /\ scene = Scene(receipt, pkg)

\* The stages shown, one by one.
LEMMA StagesShown ==
  ASSUME NEW anchored \in BOOLEAN, NEW steps, steps = Steps(anchored)
  PROVE  /\ DOMAIN steps = 1..(IF anchored THEN 7 ELSE 6)
         /\ Len(steps) = (IF anchored THEN 7 ELSE 6)
         /\ \A i \in DOMAIN steps : steps[i] = Flow[i]
<1>1. Len(Flow) = 7 /\ DOMAIN Flow = 1..7
  BY DEF Flow
<1>2. CASE anchored
  BY <1>1, <1>2 DEF Steps
<1>3. CASE ~ anchored
  <2>1. steps = [i \in 1..6 |-> Flow[i]] /\ Len(steps) = 6
    BY <1>1, <1>3 DEF Steps, Flow
  <2> QED
    BY <1>3, <2>1
<1> QED
  BY <1>2, <1>3

\* No stage comes twice, and the anchor is the last.
LEMMA FlowIsALine ==
  /\ \A i, j \in 1..7 : Flow[i] = Flow[j] => i = j
  /\ Flow[1] = "intent"
  /\ \A i \in 1..7 : Flow[i] = "anchor" <=> i = 7
BY DEF Flow

\* The scene of any receipt and package there can be is honest.
LEMMA ScenesAreHonest ==
  ASSUME SceneInv
  PROVE  SceneIsHonest
<1> SUFFICES ASSUME cinemaMounted PROVE SceneIsHonest
  BY DEF SceneIsHonest
<1> DEFINE anchored == Anchored(receipt, pkg)
           steps == Steps(anchored)
           n == IF anchored THEN 7 ELSE 6
           nodes == {scene.nodes[i] : i \in DOMAIN scene.nodes}
<1>1. /\ receipt \in Receipts /\ pkg \in PackagesOf(receipt) \cup {NoPackage}
      /\ scene = Scene(receipt, pkg)
  BY DEF SceneInv
<1>2. /\ scene.nodes = steps /\ scene.level = Level(receipt, anchored)
      /\ scene.edges = {<<steps[i - 1], steps[i]>> : i \in 2..Len(steps)}
      /\ scene.id = IF receipt.l0Verified THEN "l0_confirmed" ELSE "offline"
  BY <1>1 DEF Scene
<1>3. anchored \in BOOLEAN
  BY <1>1 DEF Anchored, Receipts
<1>4. DOMAIN steps = 1..n /\ Len(steps) = n /\ \A i \in 1..n : steps[i] = Flow[i]
  BY <1>3, StagesShown
<1>5. scene.level = receipt.level /\ (receipt.level = "L4" <=> receipt.l0Verified)
  BY <1>1, <1>2 DEF Level, Receipts, NoLevel
<1>6. receipt.level = "L4" => anchored
  BY <1>1 DEF Receipts, Anchored
<1> HIDE DEF steps, anchored
<1>7. nodes = {Flow[i] : i \in 1..n} /\ n \in {6, 7} /\ (n = 7 <=> anchored)
  BY <1>2, <1>3, <1>4
<1>8. scene.edges = {<<Flow[i - 1], Flow[i]>> : i \in 2..n}
  BY <1>2, <1>4, <1>7
<1> HIDE DEF n, nodes
<1>9. "anchor" \in nodes <=> anchored
  BY <1>7, FlowIsALine
<1>10. scene.level = "L4" <=> scene.id = "l0_confirmed"
  BY <1>2, <1>5
<1>11. \A e \in scene.edges : e[1] \in nodes /\ e[2] \in nodes
  BY <1>7, <1>8
<1>12. ASSUME NEW node \in nodes \ {"intent"} PROVE Cardinality(Entered(node)) = 1
  <2>1. PICK k \in 1..n : node = Flow[k]
    BY <1>7, <1>12
  <2>2. k \in 2..n
    BY <1>7, <1>12, <2>1, FlowIsALine
  <2>3. \A i \in 2..n : Flow[i] = node => i = k
    BY <1>7, <2>1, <2>2, FlowIsALine
  <2>4. Entered(node) = {<<Flow[k - 1], Flow[k]>>}
    BY <1>8, <2>1, <2>2, <2>3 DEF Entered
  <2> QED
    BY <2>4, FS_Singleton
<1>13. "anchor" \in nodes => receipt.anchorTx \/ pkg = "anchored"
  BY <1>9 DEF anchored, Anchored
<1> QED
  BY <1>5, <1>6, <1>9, <1>10, <1>11, <1>12, <1>13 DEF SceneIsHonest, nodes

\* No scene is there yet.
LEMMA SceneStarts == ReceiptInit => SceneInv
BY DEF ReceiptInit, SceneInv

\* What was fetched stays, and the listener builds the scene from it.
LEMMA SceneSteps ==
  ASSUME SceneInv, [ReceiptNext]_receiptVars
  PROVE  SceneInv'
<1>1. CASE PageLoads
  <2>1. stage # "listening" /\ UNCHANGED <<cinemaMounted, scene>>
    BY <1>1 DEF PageLoads, ReceiptShown, BundleArrives, BundleMissing, BundleVerified, VerifierThrows,
                disclosureVars
  <2>2. ~ cinemaMounted'
    BY <2>1 DEF SceneInv
  <2>3. (stage # "loading" => receipt \in Receipts)'
    BY <1>1 DEF PageLoads, ReceiptShown, BundleArrives, BundleMissing, BundleVerified, VerifierThrows, SceneInv
  <2>4. (stage = "verifying" => pkg \in PackagesOf(receipt))'
    BY <1>1 DEF PageLoads, ReceiptShown, BundleArrives, BundleMissing, BundleVerified, VerifierThrows, SceneInv
  <2>5. (stage = "listening" => pkg \in PackagesOf(receipt) \cup {NoPackage})'
    BY <1>1 DEF PageLoads, ReceiptShown, BundleArrives, BundleMissing, BundleVerified, VerifierThrows, SceneInv
  <2> QED
    BY <2>2, <2>3, <2>4, <2>5 DEF SceneInv
<1>2. CASE ToggleEvent
  BY <1>2 DEF ToggleEvent, SceneInv
<1>3. CASE UNCHANGED <<stage, receipt, pkg, cinemaMounted, scene>>
  BY <1>3 DEF SceneInv
<1> QED
  BY <1>1, <1>2, <1>3 DEF ReceiptNext, Toggle, CinemaReady, MatrixMoves, receiptVars, pageVars, disclosureVars

----------------------------------------------------------------------------
(* The verify view.

   While no two proofs were verified at once, at most one is being verified, and it is
   the last accepted (OneAtATime).                                         *)

HandIn == [no : Nat, text : Proofs \cup {NotJSON},
           at : {"reading", "fetching", "pasted", "verifying"}]

\* What is needed of the types.
Typed == work \subseteq HandIn /\ handed \in Nat

\* While no two proofs were verified at once, the one that is being verified is
\* the last accepted, and nothing older is shown beside it.
OneAtATime ==
  ~ overlapped =>
    /\ \A v, w \in Being("verifying") : v = w
    /\ \A w \in Being("verifying") : w.text = accepted

VInv == Typed /\ OneAtATime /\ VerdictIsOfLastProof

----------------------------------------------------------------------------
\* A hand-in that is not verified yet makes no difference to those that are.
LEMMA OthersWait ==
  ASSUME NEW w, NEW others, others \subseteq work, work \subseteq HandIn,
         work \ {w} \subseteq others, w.at # "verifying"
  PROVE  {v \in others : v.at = "verifying"} = Being("verifying")
BY DEF Being

\* handle keeps the invariant, for a pasted text or one that was read.
LEMMA HandleKeeps ==
  ASSUME VInv, NEW w \in HandIn, w.at # "verifying",
         NEW others, others \subseteq work, work \ {w} \subseteq others,
         Handle(w, others), handed' \in Nat
  PROVE  VInv'
<1> DEFINE accept == [w EXCEPT !.at = "verifying"]
<1>1. work \subseteq HandIn
  BY DEF VInv, Typed
<1>2. {v \in others : v.at = "verifying"} = Being("verifying")
  BY <1>1, OthersWait
<1>3. CASE w.text # NotJSON /\ Accept(w, others)
  <2>1. accept \in HandIn /\ accept.at = "verifying" /\ accept.text = w.text
    BY DEF HandIn
  <2>2. Being("verifying")' = Being("verifying") \cup {accept}
    BY <1>2, <1>3, <2>1 DEF Being, Accept
  <2>3. Typed'
    BY <1>1, <1>3, <2>1 DEF Typed, Accept
  <2>4. OneAtATime'
    BY <1>3, <2>1, <2>2 DEF OneAtATime, Accept
  <2>5. VerdictIsOfLastProof'
    BY <1>3, <2>2 DEF VerdictIsOfLastProof, Accept
  <2> QED
    BY <2>3, <2>4, <2>5 DEF VInv
<1>4. CASE w.text = NotJSON /\ work' = others
           /\ UNCHANGED <<shows, accepted, overlapped>>
  <2>1. Being("verifying")' = Being("verifying")
    BY <1>2, <1>4 DEF Being
  <2> QED
    BY <1>1, <1>4, <2>1 DEF VInv, Typed, OneAtATime, VerdictIsOfLastProof
<1> QED
  BY <1>3, <1>4 DEF Handle

\* A file chosen, or the sample asked for, waits to be read.
LEMMA AskKeeps ==
  ASSUME VInv, NEW text \in Proofs \cup {NotJSON}, NEW at \in {"reading", "fetching"},
         Ask(text, at)
  PROVE  VInv'
<1> DEFINE new == [no |-> handed', text |-> text, at |-> at]
<1>1. handed' \in Nat
  BY DEF VInv, Typed, Ask
<1>2. new \in HandIn /\ new.at # "verifying"
  BY <1>1 DEF HandIn
<1>3. work' = work \cup {new}
  BY DEF Ask
<1>4. Being("verifying")' = Being("verifying")
  BY <1>2, <1>3 DEF Being
<1> QED
  BY <1>1, <1>2, <1>3, <1>4 DEF VInv, Typed, OneAtATime, VerdictIsOfLastProof, Ask

----------------------------------------------------------------------------
\* It holds of the page as it is opened.
LEMMA VerifyStarts == VerifyInit => VInv
BY DEF VerifyInit, VInv, Typed, OneAtATime, VerdictIsOfLastProof, Being

\* Every hand-in's step keeps it.
LEMMA VerifySteps == VInv /\ [VerifyNext]_verifyVars => VInv'
<1> SUFFICES ASSUME VInv, [VerifyNext]_verifyVars PROVE VInv'
  OBVIOUS
<1>0. work \subseteq HandIn /\ handed \in Nat
  BY DEF VInv, Typed
<1>1. CASE ChooseFile
  BY <1>1, AskKeeps DEF ChooseFile
<1>2. CASE LoadSample
  BY <1>2, AskKeeps, VerifyAssumption DEF LoadSample
<1>3. CASE Paste
  <2>1. PICK text \in Proofs \cup {NotJSON} :
          Handle([no |-> handed', text |-> text, at |-> "pasted"], work)
    BY <1>3 DEF Paste
  <2>2. handed' \in Nat
    BY <1>0, <1>3 DEF Paste
  <2> DEFINE new == [no |-> handed', text |-> text, at |-> "pasted"]
  <2>3. new \in HandIn /\ new.at # "verifying"
    BY <2>2 DEF HandIn
  <2> QED
    BY <2>1, <2>2, <2>3, HandleKeeps
<1>4. ASSUME NEW w \in work, HandInRead(w) PROVE VInv'
  BY <1>0, <1>4, HandleKeeps DEF HandInRead
<1>5. ASSUME NEW w \in work, HandInLost(w) PROVE VInv'
  <2>1. Being("verifying")' = Being("verifying")
    BY <1>5 DEF HandInLost, Being
  <2> QED
    BY <1>5, <2>1 DEF HandInLost, VInv, Typed, OneAtATime, VerdictIsOfLastProof
<1>6. ASSUME NEW w \in work, HandInVerified(w) \/ HandInThrows(w) PROVE VInv'
  <2>1. w \in Being("verifying") /\ work' = work \ {w}
    BY <1>6 DEF HandInVerified, HandInThrows, Being
  <2>2. Being("verifying")' = Being("verifying") \ {w}
    BY <2>1 DEF Being
  <2>3. Typed'
    BY <1>0, <1>6, <2>1 DEF Typed, HandInVerified, HandInThrows
  <2>4. OneAtATime'
    BY <1>6, <2>2 DEF VInv, OneAtATime, HandInVerified, HandInThrows
  <2>5. VerdictIsOfLastProof'
    <3>1. ~ overlapped => Being("verifying")' = {} /\ w.text = accepted
      BY <2>1, <2>2 DEF VInv, OneAtATime
    <3> QED
      BY <1>6, <3>1, VerifyAssumption
         DEF VerdictIsOfLastProof, HandInVerified, HandInThrows
  <2> QED
    BY <2>3, <2>4, <2>5 DEF VInv
<1>7. CASE UNCHANGED verifyVars
  <2>1. Being("verifying")' = Being("verifying")
    BY <1>7 DEF verifyVars, Being
  <2> QED
    BY <1>7, <2>1 DEF verifyVars, VInv, Typed, OneAtATime, VerdictIsOfLastProof
<1> QED
  BY <1>1, <1>2, <1>3, <1>4, <1>5, <1>6, <1>7 DEF VerifyNext, HandInMoves

----------------------------------------------------------------------------
(* The three pages together: each page's steps leave the others alone. *)

PagesInv == LabInv /\ MatrixInv /\ PageInv /\ SceneInv /\ VInv

\* The invariant of the pages.
THEOREM PagesKeepInv == Spec => []PagesInv
<1>1. Init => PagesInv
  BY LabStarts, ReceiptStarts, SceneStarts, VerifyStarts DEF Init, PagesInv
<1>2. PagesInv /\ [Next]_vars => PagesInv'
  <2> SUFFICES ASSUME PagesInv, [Next]_vars PROVE PagesInv'
    OBVIOUS
  <2>1. [LabNext]_labVars /\ [ReceiptNext]_receiptVars /\ [VerifyNext]_verifyVars
    BY DEF Next, OnLab, OnReceipt, OnVerify, vars
  <2> QED
    BY <2>1, LabSteps, ReceiptSteps, SceneSteps, VerifySteps DEF PagesInv
<1> QED
  BY <1>1, <1>2, PTL DEF Spec

\* Once no task is under way, the tamper lab's matrix and the line above it speak of
\* the same package (src/web/playground.js renderTamper), unless a visitor clicked
\* while the first verification was under way.
THEOREM LabMatrixMatchesScore == Spec => []MatrixMatchesScore
<1>1. PagesInv => MatrixMatchesScore
  BY DEF PagesInv, LabInv
<1> QED
  BY PagesKeepInv, <1>1, PTL

\* However forgeries, resets and verifications overlap, what is verified for a forgery is
\* the clean package with that forgery alone (Tampered), which the verifier stops at the
\* check of that forgery; score and counts follow in the same step (src/web/playground.js,
\* renderLab).
THEOREM ForgeriesAreCaughtAtTheirChecks == Spec => EachIsCaughtAtItsCheck
<1>1. ASSUME LabInv, NEW t \in tasks, IsForgery(t), Verified(t)
      PROVE  /\ verdict' = Trips[t.what] /\ score' = Line(t.what, FALSE)
             /\ attempts' = attempts + 1 /\ caught' = caught + 1
  <2>1. t.what \in Forgeries /\ t.pkg = Forge(Pristine, t.what)
    BY <1>1 DEF LabInv, Tampered, IsForgery
  <2>2. Result(t.pkg) = Trips[t.what] /\ Result(t.pkg) # Passed
    BY <2>1, ForgedIsCaught
  <2>3. verdict' = Result(t.pkg) /\ Say(t, Result(t.pkg))
    BY <1>1 DEF Verified
  <2>4. attempts' = attempts + 1 /\ caught' = caught + 1
    BY <1>1, <2>2 DEF Verified
  <2>5. score' = Line(t.what, FALSE)
    BY <2>1, <2>2, <2>3, ForgeriesApart DEF Say, IsForgery, Line
  <2> QED
    BY <2>2, <2>3, <2>4, <2>5
<1>2. PagesInv => LabInv
  BY DEF PagesInv
<1>3. PagesInv /\ [Next]_vars =>
        [\A t \in tasks : IsForgery(t) /\ Verified(t) =>
           /\ verdict' = Trips[t.what] /\ score' = Line(t.what, FALSE)
           /\ attempts' = attempts + 1 /\ caught' = caught + 1]_labVars
  BY <1>1, <1>2
<1> QED
  BY PagesKeepInv, <1>3, PTL DEF Spec, EachIsCaughtAtItsCheck

\* The rows of the check matrix come on one after the other for a visitor who lets
\* each reveal end, however many checks there are and however often it is replayed.
THEOREM RowsComeInTurn == Spec => []LineByLineIfPatient
<1>1. PagesInv => LineByLineIfPatient
  BY InTurnIsLineByLine DEF PagesInv
<1> QED
  BY PagesKeepInv, <1>1, PTL

\* An open disclosure shows its replay, unless its event came before the verdict, and
\* Cinema is mounted once.
THEOREM CinemaIsShown == Spec => []OpenShowsCinema
<1>1. PagesInv => OpenShowsCinema
  BY PageInvShowsCinema DEF PagesInv
<1> QED
  BY PagesKeepInv, <1>1, PTL

\* The scene of the replay claims what the receipt and its package carry, and shows
\* the stages as one line from the intent (bundleToCinemaProof).
THEOREM SceneStaysHonest == Spec => []SceneIsHonest
<1>1. PagesInv => SceneIsHonest
  BY ScenesAreHonest DEF PagesInv
<1> QED
  BY PagesKeepInv, <1>1, PTL

\* On the verify view, unless two proofs were being verified at once, the verdict
\* shown is that of the last proof accepted.
THEOREM VerdictOfLastProof == Spec => []VerdictIsOfLastProof
<1>1. PagesInv => VerdictIsOfLastProof
  BY DEF PagesInv, VInv
<1> QED
  BY PagesKeepInv, <1>1, PTL
=============================================================================
