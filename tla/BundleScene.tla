----------------------------- MODULE BundleScene -----------------------------
(* The replay scene (src/web/bundleScene.js): a proof receipt and its package
   become a graph of the stages of the governed flow, with the assurance that is
   shown beside it.  The module has no state.  Positions, colours and the labels
   of the nodes are left out.                                              *)
EXTENDS Naturals, Sequences

Flow == <<"intent", "plan", "policy", "approval", "credential", "outcome", "anchor">>

NoLevel == "none"
NoPackage == "no package"

\* What the worker's converter makes of a verification: level L4 is only given to a
\* proof whose anchor was confirmed on the ledger.
Receipts ==
  {r \in [level : {"L3", "L4"}, l0Verified : BOOLEAN, anchorTx : BOOLEAN] :
     /\ r.level = "L4" <=> r.l0Verified
     /\ r.l0Verified => r.anchorTx}

NoReceipt == [level |-> NoLevel, l0Verified |-> FALSE, anchorTx |-> FALSE]

\* The packages that such a receipt can come with.
PackagesOf(receipt) ==
  {"anchored"} \cup IF receipt.l0Verified THEN {} ELSE {"not anchored"}

----------------------------------------------------------------------------
Anchored(receipt, pkg) == pkg = "anchored" \/ receipt.anchorTx

\* The stages that are shown: all but the anchor, which is the last, unless anchored.
Steps(anchored) == IF anchored THEN Flow ELSE SubSeq(Flow, 1, Len(Flow) - 1)

\* Faulty: the level is read off the anchor.
LevelFromAnchor(receipt, anchored) == IF anchored THEN "L4" ELSE "L3"

\* The receipt's own level; only a receipt without one is judged by its anchor.
Level(receipt, anchored) ==
  IF receipt.level # NoLevel THEN receipt.level ELSE IF anchored THEN "L4" ELSE "L3"

\* bundleToCinemaProof.
Scene(receipt, pkg) ==
  LET anchored == Anchored(receipt, pkg)
      steps    == Steps(anchored)
  IN  [nodes |-> steps,
       edges |-> {<<steps[i - 1], steps[i]>> : i \in 2..Len(steps)},
       id    |-> IF receipt.l0Verified THEN "l0_confirmed" ELSE "offline",
       level |-> Level(receipt, anchored)]

EmptyScene == [nodes |-> <<>>, edges |-> {}, id |-> "none", level |-> NoLevel]
=============================================================================
