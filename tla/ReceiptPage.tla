----------------------------- MODULE ReceiptPage -----------------------------
(* A receipt's page (renderReceipt in src/web/playground.js) from its receipt on:
   the bundle is fetched and verified, the matrix mounted, and the disclosure
   "Inspect the full proof" may be opened and closed at any time.  The browser
   queues a toggle event for it, and merges it with one still queued.  The page
   listens to those events only after its last await.                      *)
EXTENDS CheckMatrix, BundleScene

CONSTANT Toggles    \* bound on the clicks on the disclosure

ASSUME PageAssumption == Toggles \in Nat

VARIABLES
  stage,          \* where renderReceipt stands
  receipt, pkg,   \* what was fetched
  matrixHost,     \* "loading", "matrix" or "error"
  open,           \* the disclosure is open
  toggled,        \* a toggle event is queued
  cinemaMounted,  \* the flag of the listener
  imports,        \* mounts of Cinema under way
  players,        \* mounted players of the replay
  scene,          \* the scene given to the last
  toggles,
  missed          \* history: the last toggle event came before the verdict

disclosureVars == <<open, toggled, cinemaMounted, imports, players, scene, toggles, missed>>
pageVars == <<stage, receipt, pkg, matrixHost, disclosureVars>>
receiptVars == <<matrixVars, pageVars>>

Nothing == "nothing"

----------------------------------------------------------------------------
ReceiptInit ==
  /\ MatrixInit
  /\ stage = "loading" /\ receipt = NoReceipt /\ pkg = Nothing /\ matrixHost = Nothing
  /\ open = FALSE /\ toggled = FALSE
  /\ cinemaMounted = FALSE /\ imports = 0 /\ players = 0 /\ scene = EmptyScene
  /\ toggles = 0 /\ missed = FALSE

ReceiptShown ==
  /\ stage = "loading" /\ stage' = "fetching"
  /\ receipt' \in Receipts /\ matrixHost' = "loading"
  /\ UNCHANGED <<matrixVars, pkg, disclosureVars>>

BundleArrives ==
  /\ stage = "fetching" /\ stage' = "verifying"
  /\ pkg' \in PackagesOf(receipt)
  /\ UNCHANGED <<matrixVars, receipt, matrixHost, disclosureVars>>

\* Faulty: a missing bundle ends renderReceipt.
BundleMissingReturns ==
  /\ stage = "fetching" /\ stage' = "over"
  /\ pkg' = NoPackage /\ matrixHost' = "error"
  /\ UNCHANGED <<matrixVars, receipt, disclosureVars>>

BundleMissing ==
  /\ stage = "fetching" /\ stage' = "listening"
  /\ pkg' = NoPackage /\ matrixHost' = "error"
  /\ UNCHANGED <<matrixVars, receipt, disclosureVars>>

BundleVerified ==
  /\ stage = "verifying" /\ stage' = "listening"
  /\ \E result \in Results, pace \in {0, 1} : Mount(result, pace)
  /\ matrixHost' = "matrix"
  /\ UNCHANGED <<receipt, pkg, disclosureVars>>

VerifierThrows ==
  /\ stage = "verifying" /\ stage' = "listening"
  /\ matrixHost' = "error"
  /\ UNCHANGED <<matrixVars, receipt, pkg, disclosureVars>>

----------------------------------------------------------------------------
\* The visitor clicks on the disclosure.
Toggle ==
  /\ stage # "loading" /\ toggles < Toggles
  /\ toggles' = toggles + 1
  /\ open' = ~ open /\ toggled' = TRUE
  /\ UNCHANGED <<matrixVars, stage, receipt, pkg, matrixHost,
                 cinemaMounted, imports, players, scene, missed>>

\* Faulty: the flag is not looked at.
ToggleEventAgain ==
  /\ toggled /\ toggled' = FALSE
  /\ missed' = (matrixHost = "loading")
  /\ IF stage = "listening" /\ open
       THEN /\ cinemaMounted' = TRUE /\ imports' = imports + 1
            /\ scene' = Scene(receipt, pkg)
       ELSE UNCHANGED <<cinemaMounted, imports, scene>>
  /\ UNCHANGED <<matrixVars, stage, receipt, pkg, matrixHost, open, players, toggles>>

\* The toggle event, and the listener as far as the import of Cinema.
ToggleEvent ==
  /\ toggled /\ toggled' = FALSE
  /\ missed' = (matrixHost = "loading")
  /\ IF stage = "listening" /\ open /\ ~ cinemaMounted
       THEN /\ cinemaMounted' = TRUE /\ imports' = imports + 1
            /\ scene' = Scene(receipt, pkg)
       ELSE UNCHANGED <<cinemaMounted, imports, scene>>
  /\ UNCHANGED <<matrixVars, stage, receipt, pkg, matrixHost, open, players, toggles>>

\* Cinema is there, or a note says that it is not available.
CinemaReady ==
  /\ imports > 0 /\ imports' = imports - 1
  /\ players' \in {players, players + 1}
  /\ UNCHANGED <<matrixVars, stage, receipt, pkg, matrixHost,
                 open, toggled, cinemaMounted, scene, toggles, missed>>

\* The matrix once it is mounted.
MatrixMoves ==
  /\ Replay \/ (\E t \in timers : Fire(t)) \/ Tick
  /\ UNCHANGED pageVars

PageLoads ==
  ReceiptShown \/ BundleArrives \/ BundleMissing \/ BundleVerified \/ VerifierThrows

ReceiptNext == PageLoads \/ Toggle \/ ToggleEvent \/ CinemaReady \/ MatrixMoves

ReceiptSpec == ReceiptInit /\ [][ReceiptNext]_receiptVars

----------------------------------------------------------------------------
(* Properties. *)

\* The types.
ReceiptTypeOK ==
  /\ MatrixTypeOK
  /\ stage \in {"loading", "fetching", "verifying", "listening"}
  /\ receipt \in Receipts \cup {NoReceipt}
  /\ pkg \in {Nothing, NoPackage, "anchored", "not anchored"}
  /\ matrixHost \in {Nothing, "loading", "matrix", "error"}
  /\ open \in BOOLEAN /\ toggled \in BOOLEAN /\ cinemaMounted \in BOOLEAN
  /\ imports \in 0..1 /\ players \in 0..1 /\ toggles \in 0..Toggles
  /\ missed \in BOOLEAN

\* The disclosure stands open on a page that is done loading, its event handled.
StandsOpen == matrixHost \in {"matrix", "error"} /\ open /\ ~ toggled

\* "Lazy-mount the Cinema replay only when the disclosure first opens"
\* (src/web/playground.js 656-658): on a page that has come to its verdict, an
\* open disclosure has its replay.
FirstOpeningMounts == StandsOpen => cinemaMounted

\* The same, unless the event came before the verdict; and however the disclosure
\* is opened and closed while the import is under way, Cinema is mounted once.
OpenShowsCinema ==
  /\ StandsOpen /\ ~ missed => cinemaMounted
  /\ imports + players <= 1

Entered(node) == {e \in scene.edges : e[2] = node}

\* "Verifies the replay scene builder produces a non-blank, honest scene ... the
\* anchor node appears only when the proof is anchored, and the assurance never
\* inflates a local L3 receipt to L4" (src/web/test/bundleScene.test.mjs 3-6), for
\* every receipt and package the page can hold, also when the package of an L3
\* receipt is anchored: L4 is shown with a confirmed anchor and its node only, and
\* the stages shown form one line from the intent.
SceneIsHonest ==
  cinemaMounted =>
    LET nodes == {scene.nodes[i] : i \in DOMAIN scene.nodes}
    IN  /\ scene.level = receipt.level
        /\ scene.level = "L4" <=> scene.id = "l0_confirmed"
        /\ scene.level = "L4" => "anchor" \in nodes
        /\ "anchor" \in nodes => receipt.anchorTx \/ pkg = "anchored"
        /\ \A e \in scene.edges : e[1] \in nodes /\ e[2] \in nodes
        /\ \A n \in nodes \ {"intent"} : Cardinality(Entered(n)) = 1
=============================================================================
