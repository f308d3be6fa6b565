------------------------------ MODULE ProofPages ------------------------------
(* The three pages of src/web/playground.js that verify proofs in the browser: the
   tamper lab, a receipt's page, and the verify view.  The router shows one of them
   at a time, and each works on elements and variables of its own; which one the
   visitor is on is chosen at the start.  What happens when the visitor moves
   on is the matter of Views.                                              *)
EXTENDS TamperLab, ReceiptPage, VerifyView

VARIABLE shown    \* the page: "lab", "receipt" or "verify"

vars == <<shown, labVars, receiptVars, verifyVars>>

Init == shown \in {"lab", "receipt", "verify"} /\ LabInit /\ ReceiptInit /\ VerifyInit

OnLab == shown = "lab" /\ LabNext /\ UNCHANGED <<shown, receiptVars, verifyVars>>
OnReceipt == shown = "receipt" /\ ReceiptNext /\ UNCHANGED <<shown, labVars, verifyVars>>
OnVerify == shown = "verify" /\ VerifyNext /\ UNCHANGED <<shown, labVars, receiptVars>>

Next == OnLab \/ OnReceipt \/ OnVerify

\* The event loop runs, timers fire, and every fetch, hash, verification and import
\* comes to an end.  The visitor need do nothing.
Fairness ==
  /\ WF_vars(OnLab /\ (SampleLoaded \/ SampleMissing))
  /\ WF_vars(OnLab /\ LabMoves)
  /\ WF_vars(OnReceipt /\ PageLoads)
  /\ WF_vars(OnReceipt /\ (ToggleEvent \/ CinemaReady))
  /\ WF_vars(OnReceipt /\ (Tick \/ \E t \in timers : Fire(t)))
  /\ WF_vars(OnVerify /\ HandInMoves)

Spec == Init /\ [][Next]_vars /\ Fairness
=============================================================================
