------------------------------- MODULE MCRun -------------------------------
(* Small instances of Run for TLC, with the hashes of what is narrated. *)
EXTENDS Run, StepHashes

CONSTANTS c1, c2

OneClient  == {c1}
TwoClients == {c1, c2}

\* The narration of worker.flowSteps.
CodeSteps == <<"intent", "plan", "policy", "approval", "credential",
               "outcome", "anchor", "export", "verify">>

ShortSteps == <<"intent", "anchor">>
ShortKeys  == {"intent", "anchor"}

SomeTypes == {"intent", "policy", "policy_decision", "external_proof",
              "trust_assumption"}

\* "each carrying the REAL hash of the artifact it corresponds to in the package"
\* (worker.go 211-213, 263-274): for every package that a node may return, no step
\* carries the hash of another artifact, or none although its own has one.  Where
\* the hash of its own artifact is missing, it may carry the zeros found there,
\* see NeverAFakeHash.  Asked of a run that has yet to call its node: all packages
\* are still possible.
HashesAreReal ==
  pc = "new" => \A pkg \in Packages : \A n \in DOMAIN CodeSteps :
                   \/ CarriesOwnHash(pkg, CodeSteps[n])
                   \/ NarratesZeros(pkg, CodeSteps[n])

\* "callers treat a missing hash as no hash line, never a fake one" (worker.go
\* 276-277).  Violated: a missing hash is an array of zeros, which passes the tests
\* for emptiness (worker.go 284 and 290), and is narrated.
NeverAFakeHash ==
  pc = "new" => \A pkg \in Packages : \A n \in DOMAIN CodeSteps :
                   CarriesOwnHash(pkg, CodeSteps[n])
============================================================================
