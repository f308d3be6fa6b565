--------------------------- MODULE StepHashesProofs ---------------------------
(* Each narrated step carries the hash of its own artifact, for all packages: any
   types of links and chains of any length.

   byType and link of the code look for the first type that occurs and then for the
   last link of it; the reference, for a candidate that none overrules.  That both
   exist is the least-number principle (LeastThere), and then they are the
   same link.                                                              *)
EXTENDS MCRun, WellFoundedInduction, TLAPS

\* A set of natural numbers that is not empty has a least element.
LEMMA LeastThere ==
  ASSUME NEW T, T \subseteq Nat, T # {}
  PROVE  \E x \in T : \A y \in T : x <= y
<1> DEFINE R == OpToRel(<, Nat)
<1>1. IsWellFoundedOn(R, Nat)
  BY NatLessThanWellFounded
<1>2. \A x, y \in Nat : <<x, y>> \in R <=> x < y
  BY DEF OpToRel
<1> HIDE DEF R
<1>3. PICK x \in T : \A y \in T : ~ (<<y, x>> \in R)
  BY <1>1, WFMin
<1>4. \A y \in T : ~ (y < x)
  BY <1>2, <1>3
<1>5. \A y \in T : x <= y
  BY <1>4
<1> QED
  BY <1>5

\* And a greatest one, if it is bounded.
LEMMA GreatestThere ==
  ASSUME NEW n \in Nat, NEW T, T \subseteq 1..n, T # {}
  PROVE  \E x \in T : \A y \in T : y <= x
<1> DEFINE D == {n - x : x \in T}
<1>1. D \subseteq Nat /\ D # {}
  <2>1. \A x \in T : x \in 1..n /\ n - x \in Nat
    OBVIOUS
  <2> QED
    BY <2>1
<1>2. PICK d \in D : \A e \in D : d <= e
  BY <1>1, LeastThere
<1>3. PICK x \in T : d = n - x
  OBVIOUS
<1>4. ASSUME NEW y \in T PROVE y <= x
  <2>1. d <= n - y
    BY <1>2
  <2> QED
    BY <1>3, <2>1
<1> QED
  BY <1>4

----------------------------------------------------------------------------
\* The types that stand for a step are a sequence without repetitions.
LEMMA TypesAreRanked ==
  ASSUME NEW step
  PROVE  /\ \E k \in Nat : DOMAIN TypesOf(step) = 1..k
         /\ \A n, m \in DOMAIN TypesOf(step) : TypesOf(step)[n] = TypesOf(step)[m] => n = m
<1>1. CASE step = "policy"
  BY <1>1 DEF TypesOf
<1>2. CASE step = "credential"
  BY <1>2 DEF TypesOf
<1>3. CASE step # "policy" /\ step # "credential"
  <2>1. TypesOf(step) = <<step>>
    BY <1>3 DEF TypesOf
  <2> QED
    BY <2>1
<1> QED
  BY <1>1, <1>2, <1>3

\* A candidate's rank is the place of its type.
LEMMA RankIsPlace ==
  ASSUME NEW step, NEW link, NEW n \in DOMAIN TypesOf(step), TypesOf(step)[n] = link.type
  PROVE  Rank(step, link) = n
BY TypesAreRanked DEF Rank

\* Link finds the candidate that none overrules, if there is a candidate.
LEMMA LinkIsBest ==
  ASSUME NEW pkg \in Packages, NEW step
  PROVE  LET best == {i \in Candidates(pkg, step) : ~ Overruled(pkg, step, i)}
         IN  IF Candidates(pkg, step) = {}
               THEN best = {} /\ Link(pkg.links, TypesOf(step)) = NoHash
               ELSE \E i \in best : Link(pkg.links, TypesOf(step)) = pkg.links[i].hash
<1> DEFINE links == pkg.links
           types == TypesOf(step)
           Of(t) == {i \in DOMAIN links : links[i].type = t}
           present == {n \in DOMAIN types : Of(types[n]) # {}}
           best == {i \in Candidates(pkg, step) : ~ Overruled(pkg, step, i)}
<1>1. \E k \in Nat : DOMAIN links = 1..k
  <2>1. links \in Links \/ links = <<>>
    BY DEF Packages
  <2> QED
    BY <2>1, HashesAssumption DEF Links
<1>2. \E k \in Nat : DOMAIN types = 1..k
  BY TypesAreRanked
<1>3. Candidates(pkg, step) = {i \in DOMAIN links : \E n \in DOMAIN types : types[n] = links[i].type}
  BY DEF Candidates
<1>4. Link(links, types) =
        IF present = {} THEN NoHash
        ELSE LET t == types[CHOOSE n \in present : \A m \in present : n <= m]
             IN  links[CHOOSE i \in Of(t) : \A j \in Of(t) : j <= i].hash
  BY DEF Link
<1> HIDE DEF links, types
<1>5. CASE present = {}
  <2>1. Candidates(pkg, step) = {}
    BY <1>3, <1>5
  <2>2. Link(links, types) = NoHash
    BY <1>4, <1>5
  <2> QED
    BY <2>1, <2>2 DEF links, types
<1>6. CASE present # {}
  <2> DEFINE first == CHOOSE n \in present : \A m \in present : n <= m
             last == CHOOSE i \in Of(types[first]) : \A j \in Of(types[first]) : j <= i
  <2>1. first \in present /\ \A m \in present : first <= m
    <3>1. \E n \in present : \A m \in present : n <= m
      <4>1. present \subseteq Nat
        BY <1>2
      <4> QED
        BY <1>6, <4>1, LeastThere
    <3> QED
      BY <3>1
  <2>2. last \in Of(types[first]) /\ \A j \in Of(types[first]) : j <= last
    <3>1. Of(types[first]) # {}
      BY <2>1
    <3>2. \E i \in Of(types[first]) : \A j \in Of(types[first]) : j <= i
      BY <1>1, <3>1, GreatestThere
    <3> QED
      BY <3>2
  <2>3. Link(links, types) = links[last].hash
    BY <1>4, <1>6
  <2> HIDE DEF first, last
  <2>4. first \in DOMAIN types /\ last \in Candidates(pkg, step) /\ links[last].type = types[first]
    BY <1>3, <2>1, <2>2
  <2>5. Rank(step, links[last]) = first
    BY <2>4, RankIsPlace DEF types
  <2>6. ASSUME NEW j \in Candidates(pkg, step),
               LET s == Rank(step, links[j]) IN s < first \/ (s = first /\ j > last)
        PROVE  FALSE
    <3>1. PICK m \in DOMAIN types : types[m] = links[j].type /\ j \in DOMAIN links
      BY <1>3
    <3>2. Rank(step, links[j]) = m
      BY <3>1, RankIsPlace DEF types
    <3>3. m \in present /\ first <= m
      BY <2>1, <3>1
    <3>4. m = first /\ j > last
      BY <1>2, <2>4, <2>6, <3>2, <3>3
    <3>5. j <= last
      BY <2>2, <3>1, <3>4
    <3> QED
      BY <1>1, <2>2, <3>1, <3>4, <3>5
  <2>7. ~ Overruled(pkg, step, last)
    BY <2>5, <2>6 DEF Overruled, links
  <2>8. last \in best /\ Candidates(pkg, step) # {}
    BY <2>4, <2>7
  <2> QED
    BY <2>3, <2>8 DEF links, types
<1> QED
  BY <1>5, <1>6

\* The reference and the code agree, for any package and any step narrated, but for
\* the zeros of a hash that is missing.
LEMMA StepCarriesItsField ==
  ASSUME NEW pkg \in Packages, NEW step
  PROVE  IF Fields(pkg, step) = {} THEN HashOf(pkg, step) = NoHash
                                   ELSE HashOf(pkg, step) \in Fields(pkg, step)
<1>1. CASE step = "verify"
  BY <1>1 DEF Fields, HashOf
<1>2. CASE step = "export"
  BY <1>2 DEF Fields, HashOf
<1>3. CASE step = "anchor"
  <2>1. CASE pkg.chained
    BY <1>3, <2>1 DEF Fields, HashOf
  <2>2. CASE ~ pkg.chained
    BY <1>3, <2>2 DEF Fields, HashOf
  <2> QED
    BY <2>1, <2>2
<1>4. CASE step \notin {"verify", "export", "anchor"}
  <2> DEFINE best == {i \in Candidates(pkg, step) : ~ Overruled(pkg, step, i)}
  <2>1. Fields(pkg, step) = {pkg.links[i].hash : i \in best}
    BY <1>4 DEF Fields
  <2>2. HashOf(pkg, step) = Link(pkg.links, TypesOf(step))
    BY <1>4 DEF HashOf
  <2>3. IF Candidates(pkg, step) = {}
          THEN best = {} /\ Link(pkg.links, TypesOf(step)) = NoHash
          ELSE \E i \in best : Link(pkg.links, TypesOf(step)) = pkg.links[i].hash
    BY LinkIsBest
  <2> HIDE DEF best
  <2> QED
    BY <2>1, <2>2, <2>3
<1> QED
  BY <1>1, <1>2, <1>3, <1>4

LEMMA StepCarriesOwnHash ==
  ASSUME NEW pkg \in Packages, NEW step
  PROVE  CarriesOwnHash(pkg, step) \/ NarratesZeros(pkg, step)
<1>1. CASE Fields(pkg, step) = {}
  BY <1>1, StepCarriesItsField DEF CarriesOwnHash, Own
<1>2. CASE Fields(pkg, step) # {}
  <2>1. HashOf(pkg, step) \in Fields(pkg, step)
    BY <1>2, StepCarriesItsField
  <2>2. CASE HashOf(pkg, step) = Zeros
    BY <2>1, <2>2 DEF NarratesZeros
  <2>3. CASE HashOf(pkg, step) # Zeros
    BY <2>1, <2>3 DEF CarriesOwnHash, Own
  <2> QED
    BY <2>2, <2>3
<1> QED
  BY <1>1, <1>2

\* "each carrying the REAL hash of the artifact it corresponds to in the package"
\* (worker.go 211-213), for every package there is: each step carries the hash of
\* its own artifact, none if there is no artifact, and zeros only where that
\* artifact's hash is missing in the package.
THEOREM NarratedHashesAreReal == Spec => []HashesAreReal
<1>1. HashesAreReal
  BY StepCarriesOwnHash DEF HashesAreReal
<1> QED
  BY <1>1, PTL
=============================================================================
