------------------------------ MODULE TamperLab ------------------------------
(* The Tamper Lab: renderLab in src/web/playground.js with the forgeries of
   src/web/tamper.js and the verdict of src/web/checkMatrix.js.

   The browser is one thread.  The sample is fetched once; then the first
   verification, every click on a forgery and every click on Reset are tasks
   which interleave where they await: the re-sealing of a forged package and the
   verification of it.  The end of a verification, the matrix it mounts and
   the score line it sets are one action, as are the first steps of a click.

   A package is reduced to which of its fields are forged, and to the fields as
   they were when its export hash was computed.  The verifier is a library; it
   checks in a fixed order and stops at the first check that fails.         *)
EXTENDS Naturals, FiniteSets

CONSTANTS
  Forgeries,    \* the IDs: those of the table Trips that are tried
  Clicks        \* bound on the clicks

\* tamper.js: the check each forgery is said to trip, and whether it re-seals.
Trips == [approver  |-> "export_hash",      planhash |-> "plan_hash",
          outcome   |-> "outcome_digest",   chainhash |-> "inclusion_proof[0]",
          policy    |-> "policy_decision_digest",
          trust     |-> "trust_snapshot[0]", plugin |-> "plugin_versions[0]"]

ASSUME LabAssumption == Forgeries \subseteq DOMAIN Trips /\ Clicks \in Nat

VARIABLES
  sample,     \* "fetching", "loaded" or "unavailable"
  clean,      \* the package behind the lab
  tasks,      \* the tasks under way, by the number of their click
  clicks,     \* how many clicks there were; the first verification is task 0
  busy,       \* the forgery buttons are disabled
  resetOff,   \* the reset button is disabled
  verdict,    \* what the verdict host shows
  score,      \* what the score line says
  attempts, caught,
  early       \* history: a click came before the first verification was over

host == <<verdict, score, attempts, caught>>
labVars == <<sample, clean, tasks, clicks, busy, resetOff, host, early>>

Pristine == [forged |-> {}, sealed |-> {}]

----------------------------------------------------------------------------
(* The forgeries. *)

Reseals(f) == f # "approver"

\* Faulty: the field to forge is not found, so that nothing changes.
ForgeMissed(pkg, f) == IF f = "chainhash" THEN pkg ELSE
  LET forged == pkg.forged \cup {f}
  IN  [forged |-> forged, sealed |-> IF Reseals(f) THEN forged ELSE pkg.sealed]

\* mutate, and for a sophisticated forgery reseal.
Forge(pkg, f) ==
  LET forged == pkg.forged \cup {f}
  IN  [forged |-> forged, sealed |-> IF Reseals(f) THEN forged ELSE pkg.sealed]

----------------------------------------------------------------------------
(* The verifier. *)

Checks == <<"version", "export_hash", "bundle_data", "plan_hash",
            "outcome_digest", "inclusion_proof[0]", "anchor_proof",
            "trust_snapshot[0]", "policy_decision_digest", "plugin_versions[0]">>

\* What a check looks at.  Renaming the approver leaves every binding but the
\* seal intact.
Holds(check, pkg) ==
  IF check = "export_hash" THEN pkg.sealed = pkg.forged
  ELSE \A f \in pkg.forged : f = "approver" \/ Trips[f] # check

Passed == "passed"

\* The first check that fails.
Result(pkg) ==
  LET bad == {i \in DOMAIN Checks : ~ Holds(Checks[i], pkg)}
  IN  IF bad = {} THEN Passed ELSE Checks[CHOOSE i \in bad : \A j \in bad : i <= j]

----------------------------------------------------------------------------
\* The score line: which forgery it speaks of, or none.
Line(of, evaded) == [of |-> of, evaded |-> evaded]

LabInit ==
  /\ sample = "fetching" /\ clean = Pristine
  /\ tasks = {} /\ clicks = 0
  /\ busy = FALSE /\ resetOff = FALSE
  /\ verdict = "empty" /\ score = Line("prompt", FALSE) /\ attempts = 0 /\ caught = 0
  /\ early = FALSE

Loading == "loading"

\* The lab is built; the first verification starts.
SampleLoaded ==
  /\ sample = "fetching" /\ sample' = "loaded"
  /\ tasks' = {[no |-> 0, what |-> "first", pkg |-> clean, at |-> "verifying"]}
  /\ verdict' = Loading
  /\ UNCHANGED <<clean, clicks, busy, resetOff, score, attempts, caught, early>>

SampleMissing ==
  /\ sample = "fetching" /\ sample' = "unavailable"
  /\ UNCHANGED <<clean, tasks, clicks, busy, resetOff, host, early>>

\* A click is counted, and starts a task.
Click(task) ==
  /\ sample = "loaded" /\ clicks < Clicks
  /\ clicks' = clicks + 1
  /\ early' = (early \/ \E t \in tasks : t.what = "first")
  /\ tasks' = tasks \cup {task}

\* Faulty: the clean package is forged, not a copy.
ClickForgeryInPlace(f) ==
  LET pkg == Forge(clean, f)
      at  == IF Reseals(f) THEN "sealing" ELSE "verifying"
  IN  /\ ~ busy /\ Click([no |-> clicks + 1, what |-> f, pkg |-> pkg, at |-> at])
      /\ busy' = TRUE /\ resetOff' = TRUE /\ clean' = pkg
      /\ verdict' = IF at = "verifying" THEN Loading ELSE verdict
      /\ UNCHANGED <<sample, score, attempts, caught>>

\* setBusy, and applyForgery up to its await.
ClickForgery(f) ==
  LET pkg == Forge(clean, f)
      at  == IF Reseals(f) THEN "sealing" ELSE "verifying"
  IN  /\ ~ busy /\ Click([no |-> clicks + 1, what |-> f, pkg |-> pkg, at |-> at])
      /\ busy' = TRUE /\ resetOff' = TRUE
      /\ verdict' = IF at = "verifying" THEN Loading ELSE verdict
      /\ UNCHANGED <<sample, clean, score, attempts, caught>>

ClickReset ==
  /\ ~ resetOff
  /\ Click([no |-> clicks + 1, what |-> "reset", pkg |-> clean, at |-> "verifying"])
  /\ verdict' = Loading
  /\ UNCHANGED <<sample, clean, busy, resetOff, score, attempts, caught>>

\* The forged package is sealed again; its verification starts.
Resealed(t) ==
  /\ t.at = "sealing"
  /\ tasks' = (tasks \ {t}) \cup {[t EXCEPT !.at = "verifying"]}
  /\ verdict' = Loading
  /\ UNCHANGED <<sample, clean, clicks, busy, resetOff, score, attempts, caught, early>>

----------------------------------------------------------------------------
IsForgery(t) == t.what \in Forgeries

\* Faulty: buttons are enabled only after a success.
ReleaseOnSuccess(t, ok) ==
  IF IsForgery(t) /\ ok THEN busy' = FALSE /\ resetOff' = FALSE
                        ELSE UNCHANGED <<busy, resetOff>>

\* The finally of a forgery's handler.
Release(t, ok) ==
  IF IsForgery(t) THEN busy' = FALSE /\ resetOff' = FALSE
                  ELSE UNCHANGED <<busy, resetOff>>

\* What the score line says after a verification.
Say(t, result) ==
  CASE IsForgery(t)     -> score' = Line(t.what, result = Passed)
    [] t.what = "reset" -> score' = Line("clean", FALSE)
    [] t.what = "first" -> UNCHANGED score

Verified(t) ==
  LET result == Result(t.pkg)
  IN  /\ t.at = "verifying" /\ tasks' = tasks \ {t}
      /\ verdict' = result
      /\ IF IsForgery(t)
           THEN /\ attempts' = attempts + 1
                /\ caught' = IF result # Passed THEN caught + 1 ELSE caught
           ELSE UNCHANGED <<attempts, caught>>
      /\ Say(t, result) /\ Release(t, TRUE)
      /\ UNCHANGED <<sample, clean, clicks, early>>

\* The hasher or the verifier throws.  A forgery's handler shows the error below
\* what the verdict host shows; the others are left as they are.
Throws(t) ==
  /\ tasks' = tasks \ {t}
  /\ Release(t, FALSE)
  /\ UNCHANGED <<sample, clean, clicks, host, early>>

LabMoves == \E t \in tasks : Resealed(t) \/ Verified(t) \/ Throws(t)

LabNext ==
  \/ SampleLoaded \/ SampleMissing
  \/ \E f \in Forgeries : ClickForgery(f)
  \/ ClickReset \/ LabMoves

----------------------------------------------------------------------------
(* Properties. *)

Matrices == {Passed} \cup {Checks[i] : i \in DOMAIN Checks}

\* The types.
LabTypeOK ==
  /\ sample \in {"fetching", "loaded", "unavailable"}
  /\ clean \in [forged : SUBSET Forgeries, sealed : SUBSET Forgeries]
  /\ \A t \in tasks : /\ t.no \in 0..clicks
                      /\ t.what \in Forgeries \cup {"first", "reset"}
                      /\ t.at \in {"sealing", "verifying"}
  /\ clicks \in 0..Clicks /\ busy \in BOOLEAN /\ resetOff \in BOOLEAN
  /\ verdict \in {"empty", Loading} \cup Matrices
  /\ score \in [of : Forgeries \cup {"prompt", "clean"}, evaded : BOOLEAN]
  /\ attempts \in 0..Clicks /\ caught \in 0..attempts /\ early \in BOOLEAN

\* The matrix is the one the score line speaks of: the check the forgery is said
\* to trip, or a clean pass.
Agree ==
  verdict \in Matrices =>
    verdict = IF score.of \in Forgeries THEN Trips[score.of] ELSE Passed

\* "Each forgery button produces a **specific** failing check", "Reset returns to
\* 10/10", "every one of the 7 forgeries -> caught at exactly its `trips` check"
\* (docs/ux-redesign/02-runbook-tamper-lab.md 249, 252, 323), in any interleaving of
\* forgeries and resets, if the visitor waits for the first verification to be
\* over before the first click; otherwise its matrix may be mounted last.
MatrixMatchesScore == ~ early => Agree

\* Nothing evades (docs/ux-redesign/02-runbook-tamper-lab.md 293, 323): a forgery is
\* applied to the package as it was sealed, and what is verified in its name is that one
\* forgery and nothing else, whatever was forged, reset or verified before or meanwhile.
\* So each verification of a forgery that ends stops at the check it is said to trip,
\* and in the same step the score names this forgery and counts it as caught.
EachIsCaughtAtItsCheck ==
  [][\A t \in tasks : IsForgery(t) /\ Verified(t) =>
        /\ verdict' = Trips[t.what] /\ score' = Line(t.what, FALSE)
        /\ attempts' = attempts + 1 /\ caught' = caught + 1]_labVars

\* Whatever is thrown, a click on a forgery does not leave the lab dead.
ButtonsComeBack == busy ~> ~ busy
=============================================================================
