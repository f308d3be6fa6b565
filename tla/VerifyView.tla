------------------------------ MODULE VerifyView ------------------------------
(* The verify view (renderVerify in src/web/playground.js): a visitor hands in
   proofs, by dropping or choosing a file, by pasting, or by loading the sample,
   and all of them end in handle, which verifies and mounts the matrix.  Nothing
   disables a second hand-in while the first is read or verified.          *)
EXTENDS Naturals, FiniteSets

CONSTANTS
  Proofs,     \* texts that parse; the verifier tells them apart
  Sample,     \* the one of them that the server offers
  HandIns     \* bound on the hand-ins

VARIABLES
  work,         \* the hand-ins under way: number, text, and where they are
  shows,        \* what the output shows, above any error appended to it
  complaint,    \* an error is appended
  handed,       \* how many hand-ins there were
  accepted,     \* history: the last text that parsed
  overlapped    \* history: one was accepted while another was being verified

verifyVars == <<work, shows, complaint, handed, accepted, overlapped>>

NotJSON == "not JSON"
Blank == "blank"
Working == "verifying in your browser"
Failed == "error"

ASSUME VerifyAssumption ==
  /\ Sample \in Proofs /\ HandIns \in Nat
  /\ Proofs \cap {NotJSON, Blank, Working, Failed} = {}

Being(what) == {w \in work : w.at = what}

----------------------------------------------------------------------------
VerifyInit ==
  /\ work = {} /\ shows = Blank /\ complaint = FALSE
  /\ handed = 0 /\ accepted = Blank /\ overlapped = FALSE

\* Faulty: the verdict of the last proof stays until the next one is there.
AcceptQuietly(w, others) ==
  /\ work' = others \cup {[w EXCEPT !.at = "verifying"]}
  /\ accepted' = w.text
  /\ overlapped' = (overlapped \/ Being("verifying") # {})
  /\ UNCHANGED <<shows, complaint>>

\* handle, as far as its await, for a text that parses.
Accept(w, others) ==
  /\ work' = others \cup {[w EXCEPT !.at = "verifying"]}
  /\ shows' = Working /\ complaint' = FALSE
  /\ accepted' = w.text
  /\ overlapped' = (overlapped \/ Being("verifying") # {})

Handle(w, others) ==
  \/ w.text # NotJSON /\ Accept(w, others)
  \/ /\ w.text = NotJSON
     /\ work' = others /\ complaint' = TRUE
     /\ UNCHANGED <<shows, accepted, overlapped>>

\* A file is dropped or chosen, or the sample asked for.
Ask(text, at) ==
  /\ handed < HandIns /\ handed' = handed + 1
  /\ work' = work \cup {[no |-> handed', text |-> text, at |-> at]}
  /\ UNCHANGED <<shows, complaint, accepted, overlapped>>

ChooseFile == \E text \in Proofs \cup {NotJSON} : Ask(text, "reading")

LoadSample == Ask(Sample, "fetching")

\* The paste box is handled at once.
Paste ==
  /\ handed < HandIns /\ handed' = handed + 1
  /\ \E text \in Proofs \cup {NotJSON} :
       Handle([no |-> handed', text |-> text, at |-> "pasted"], work)

HandInRead(w) ==
  /\ w.at \in {"reading", "fetching"}
  /\ Handle(w, work \ {w})
  /\ UNCHANGED handed

\* A file that cannot be read is not spoken of; a missing sample is.
HandInLost(w) ==
  /\ w.at \in {"reading", "fetching"}
  /\ work' = work \ {w}
  /\ complaint' = (complaint \/ w.at = "fetching")
  /\ UNCHANGED <<shows, handed, accepted, overlapped>>

\* mountCheckMatrix replaces the output.
HandInVerified(w) ==
  /\ w.at = "verifying" /\ work' = work \ {w}
  /\ shows' = w.text /\ complaint' = FALSE
  /\ UNCHANGED <<handed, accepted, overlapped>>

\* Faulty: the error is not caught.
HandInThrowsUnheard(w) ==
  /\ w.at = "verifying" /\ work' = work \ {w}
  /\ UNCHANGED <<shows, complaint, handed, accepted, overlapped>>

\* The error takes the place of what was shown.
HandInThrows(w) ==
  /\ w.at = "verifying" /\ work' = work \ {w}
  /\ shows' = Failed /\ complaint' = FALSE
  /\ UNCHANGED <<handed, accepted, overlapped>>

HandInMoves == \E w \in work :
  HandInRead(w) \/ HandInLost(w) \/ HandInVerified(w) \/ HandInThrows(w)

VerifyNext == ChooseFile \/ LoadSample \/ Paste \/ HandInMoves

VerifySpec == VerifyInit /\ [][VerifyNext]_verifyVars

----------------------------------------------------------------------------
(* Properties. *)

\* The types.
VerifyTypeOK ==
  /\ \A w \in work : /\ w.no \in 1..handed /\ w.text \in Proofs \cup {NotJSON}
                     /\ w.at \in {"reading", "fetching", "verifying"}
  /\ shows \in Proofs \cup {Blank, Working, Failed} /\ complaint \in BOOLEAN
  /\ handed \in 0..HandIns /\ accepted \in Proofs \cup {Blank}
  /\ overlapped \in BOOLEAN

\* "Drop a file, pick a file, paste JSON, or load the sample -- every door flows
\* into the same RB-01 verdict matrix" (src/web/playground.js 675-676): the
\* verdict shown is that of the last proof accepted, whatever was read or refused
\* in between, unless two were being verified at once, when the slower one is
\* shown last.  And what is shown while one is verified is no older verdict.
VerdictIsOfLastProof ==
  ~ overlapped =>
    IF Being("verifying") # {} THEN shows = Working
                               ELSE shows \in Proofs => shows = accepted

\* The view does not stay at "Verifying in your browser", however hand-ins overlap.
VerifyingEnds == shows = Working ~> shows # Working
=============================================================================
