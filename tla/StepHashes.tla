------------------------------ MODULE StepHashes ------------------------------
(* The hashes that worker.Run narrates a proof with (stepHashes in
   src/worker/worker.go): each step of the flow carries the hash of the artifact
   of the package it stands for, if there is one.  A pure function; the short
   form of eight bytes is not modelled.  A hash is an array in the package, so
   that one which is missing there is all zeros, and is narrated as such.   *)
EXTENDS Naturals, Sequences

CONSTANTS
  Hashes,     \* hashes of artifacts
  Zeros,      \* the hash that is all zeros
  LinkTypes,  \* the types of links that occur
  MaxLinks    \* bound on the links of an evidence chain

ASSUME HashesAssumption == Zeros \notin Hashes /\ MaxLinks \in Nat

AnyHash == Hashes \cup {Zeros}

Links == UNION {[1..n -> [type : LinkTypes, hash : AnyHash]] : n \in 0..MaxLinks}

\* The bundle may not parse, or have no chain.
Packages ==
  [exportHash : AnyHash, chained : {TRUE}, links : Links, chainHash : AnyHash]
  \cup [exportHash : AnyHash, chained : {FALSE}, links : {<<>>}, chainHash : {Zeros}]

NoHash == "no hash"

----------------------------------------------------------------------------
\* Faulty: the first of several links of a type counts.
LastFirst(links, types) ==
  LET ofType == {i \in DOMAIN links : links[i].type = types[1]}
      rest   == {i \in DOMAIN links : \E n \in DOMAIN types : links[i].type = types[n]}
      from   == IF ofType # {} THEN ofType ELSE rest
  IN  IF from = {} THEN NoHash
      ELSE links[CHOOSE i \in from : \A j \in from : i <= j].hash

\* byType and link: the last link of the first of these types that occurs.
Link(links, types) ==
  LET Of(t)   == {i \in DOMAIN links : links[i].type = t}
      present == {n \in DOMAIN types : Of(types[n]) # {}}
  IN  IF present = {} THEN NoHash
      ELSE LET t == types[CHOOSE n \in present : \A m \in present : n <= m]
           IN  links[CHOOSE i \in Of(t) : \A j \in Of(t) : j <= i].hash

\* The types of links that stand for a step, in order of preference.
TypesOf(step) ==
  CASE step = "policy"     -> <<"policy_decision", "policy">>
    [] step = "credential" -> <<"external_proof", "credential", "trust_assumption">>
    [] OTHER               -> <<step>>

HashOf(pkg, step) ==
  CASE step = "verify"                   -> NoHash
    [] step = "export"                   -> pkg.exportHash
    [] step = "anchor" /\ pkg.chained    -> pkg.chainHash
    [] step = "anchor" /\ ~ pkg.chained  -> NoHash
    [] OTHER                             -> Link(pkg.links, TypesOf(step))

----------------------------------------------------------------------------
(* The reference: the artifacts that may stand for a step.  The verdict is computed,
   not stored, so that no artifact stands for it.                           *)

Rank(step, link) == CHOOSE n \in DOMAIN TypesOf(step) : TypesOf(step)[n] = link.type

Candidates(pkg, step) ==
  {i \in DOMAIN pkg.links : \E n \in DOMAIN TypesOf(step) :
                              TypesOf(step)[n] = pkg.links[i].type}

\* By a link of a better type, or by a later one of the same.
Overruled(pkg, step, i) ==
  \E j \in Candidates(pkg, step) :
    LET r == Rank(step, pkg.links[i])
        s == Rank(step, pkg.links[j])
    IN  s < r \/ (s = r /\ j > i)

\* The hashes of the artifacts that stand for a step, missing or not.
Fields(pkg, step) ==
  CASE step = "verify" -> {}
    [] step = "export" -> {pkg.exportHash}
    [] step = "anchor" -> IF pkg.chained THEN {pkg.chainHash} ELSE {}
    [] OTHER           -> {pkg.links[i].hash :
                             i \in {i \in Candidates(pkg, step) : ~ Overruled(pkg, step, i)}}

\* A hash that is all zeros is no hash of an artifact.
Own(pkg, step) == Fields(pkg, step) \ {Zeros}

CarriesOwnHash(pkg, step) ==
  IF Own(pkg, step) = {} THEN HashOf(pkg, step) = NoHash
                         ELSE HashOf(pkg, step) \in Own(pkg, step)

\* The artifact is there, and its hash is not.
NarratesZeros(pkg, step) ==
  Zeros \in Fields(pkg, step) /\ HashOf(pkg, step) = Zeros
=============================================================================
