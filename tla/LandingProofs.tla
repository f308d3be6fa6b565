----------------------------- MODULE LandingProofs -----------------------------
(* The page and its colours, proved for all sets of receipts and hashes, any
   list of themes, and any number of visits, reloads, runs and switches.

   Views are numbered in the order they take the page.  A render and a theater
   know the number of their view, and no two know the same (Numbered): what is
   on the page under that number is what they left there (Owned).  While no view
   was rendered during a fetch, the receipt that is fetched is the one whose
   page says so (Awaited); this makes it safe for it to replace the page.  *)
EXTENDS Landing, TLAPS

Loads == [no : Nat, id : Receipts, at : {"fetching", "verifying"}]
Plays == [no : Nat, at : {"posting", "running"}]
Pages == [view : Plain \cup {"blank", "home", "loading", "verdict",
                             "cleared", "no receipt", "theater", "run failed"},
          id : Receipts \cup {None}, no : Nat,
          matrix : Receipts \cup {None}, button : BOOLEAN, error : BOOLEAN]

Typed ==
  /\ hash \in Hashes /\ changes \in Nat /\ count \in Nat
  /\ page \in Pages /\ renders \subseteq Loads /\ theaters \subseteq Plays

Numbered ==
  /\ page.no <= count
  /\ \A r \in renders : r.no <= count
  /\ \A t \in theaters : t.no <= count
  /\ \A r, s \in renders : r.no = s.no => r = s
  /\ \A t, u \in theaters : t.no = u.no => t = u
  /\ \A r \in renders, t \in theaters : r.no # t.no

Owned ==
  /\ \A r \in renders : page.no = r.no => page.id = r.id
  /\ \A t \in theaters : page.no = t.no => page.view = "theater"
  /\ page.id # None => page.view \in {"loading", "cleared", "verdict", "no receipt"}

Awaited ==
  ~ overtaken =>
    \A r \in renders : r.at = "fetching" => page.no = r.no /\ page.view = "loading"

\* What the renders and the theaters may rely on.
Order == Typed /\ Numbered /\ Owned /\ Awaited /\ MatrixIsOfItsReceipt

\* A cached colour is that of the theme it is cached for.
Cached ==
  /\ theme \in DOMAIN Themes /\ cache \in [DOMAIN Themes -> {Unknown} \cup DOMAIN Themes]
  /\ \A t \in DOMAIN Themes : cache[t] \in {Unknown, t}

\* The inductive invariant of the page and its colours.
LInv == Order /\ PageFitsHashUnlessOvertaken /\ Cached /\ SpineWearsItsTheme

----------------------------------------------------------------------------
(* Who may write on the page. *)

\* A view just rendered is nobody's but that of who rendered it.
LEMMA RenderKeeps ==
  ASSUME Order, NEW view, NEW id, Render(view, id), hash' \in Hashes, changes' \in Nat,
         \/ /\ view = "loading" /\ id \in Receipts /\ theaters' = theaters
            /\ renders' = renders \cup {[no |-> count', id |-> id, at |-> "fetching"]}
         \/ /\ view = "theater" /\ id = None /\ renders' = renders
            /\ theaters' = theaters \cup {[no |-> count', at |-> "posting"]}
         \/ /\ view \in Plain \cup {"home"} /\ id = None
            /\ renders' = renders /\ theaters' = theaters
  PROVE  Order' /\ page'.view = view /\ page'.id = id
<1> DEFINE load == [no |-> count', id |-> id, at |-> "fetching"]
           play == [no |-> count', at |-> "posting"]
<1>1. /\ count \in Nat /\ count' = count + 1 /\ count' \in Nat
      /\ page'.view = view /\ page'.id = id /\ page'.no = count'
      /\ page'.matrix = None /\ page'.button = FALSE
  BY DEF Order, Typed, Render, View
<1>2. page' \in Pages
  BY <1>1 DEF Render, View, Pages
<1>3. /\ \A r \in renders : r.no \in Nat /\ r.no <= count /\ r.no # count' /\ r.no <= count'
      /\ \A t \in theaters : t.no \in Nat /\ t.no <= count /\ t.no # count' /\ t.no <= count'
  <2>1. /\ \A r \in renders : r.no \in Nat /\ r.no <= count
        /\ \A t \in theaters : t.no \in Nat /\ t.no <= count
    BY DEF Order, Typed, Numbered, Loads, Plays
  <2> QED
    BY <1>1, <2>1
<1>4. /\ \A r \in renders' : r \in renders \/ (r = load /\ view = "loading")
      /\ \A t \in theaters' : t \in theaters \/ (t = play /\ view = "theater")
      /\ ~ (view = "loading" /\ view = "theater")
  OBVIOUS
<1>5. Typed'
  <2>1. renders' \subseteq Loads /\ theaters' \subseteq Plays
    BY <1>1 DEF Order, Typed, Loads, Plays
  <2> QED
    BY <1>1, <1>2, <2>1 DEF Typed
<1>6. Numbered'
  <2>1. /\ \A r \in renders' : r.no <= count' /\ (r.no = count' => r = load)
        /\ \A t \in theaters' : t.no <= count' /\ (t.no = count' => t = play)
    BY <1>1, <1>3, <1>4
  <2>2. /\ \A r, u \in renders' : r.no = u.no => r = u
        /\ \A t, u \in theaters' : t.no = u.no => t = u
        /\ \A r \in renders', t \in theaters' : r.no # t.no
    BY <1>3, <1>4 DEF Order, Numbered
  <2> QED
    BY <1>1, <2>1, <2>2 DEF Numbered
<1>7. Owned'
  <2>1. \A r \in renders' : r.no = count' => r.id = id
    BY <1>1, <1>3, <1>4
  <2>2. \A t \in theaters' : t.no = count' => view = "theater"
    BY <1>1, <1>3, <1>4
  <2>3. id # None => view = "loading"
    OBVIOUS
  <2> QED
    BY <1>1, <2>1, <2>2, <2>3 DEF Owned
<1>8. Awaited'
  <2>1. ~ overtaken' => \A r \in renders : r.at # "fetching"
    BY DEF Render
  <2> QED
    BY <1>1, <1>4, <2>1 DEF Awaited
<1>9. MatrixIsOfItsReceipt'
  BY <1>1 DEF MatrixIsOfItsReceipt
<1> QED
  BY <1>1, <1>5, <1>6, <1>7, <1>8, <1>9 DEF Order

\* Nothing comes onto the page, and nobody new has a claim to it.
LEMMA PageStays ==
  ASSUME Order, UNCHANGED <<page, renders, count, overtaken>>, hash' \in Hashes, changes' \in Nat,
         theaters' \subseteq Plays,
         \A t \in theaters' : \E u \in theaters : t.no = u.no,
         \A t, u \in theaters' : t.no = u.no => t = u
  PROVE  Order'
<1>1. Typed'
  BY DEF Order, Typed
<1>2. Numbered'
  BY DEF Order, Numbered
<1>3. Owned' /\ Awaited'
  BY DEF Order, Owned, Awaited
<1>4. MatrixIsOfItsReceipt'
  BY DEF Order, MatrixIsOfItsReceipt
<1> QED
  BY <1>1, <1>2, <1>3, <1>4 DEF Order

\* The two awaits of renderReceipt, and what comes after.
ReceiptComes(r) == ReceiptArrives(r) \/ ReceiptGarbled(r) \/ ReceiptMissing(r)
RenderGoesOn(r) == ReceiptComes(r) \/ MatrixMounts(r) \/ NoMatrix(r)

\* What renderReceipt does once it has fetched or verified: its own page.
LEMMA RenderMoves ==
  ASSUME Order, NEW r \in renders,
         RenderGoesOn(r)
  PROVE  Order'
<1>1. UNCHANGED <<hash, changes, theaters, count, overtaken>>
  BY DEF RenderGoesOn, ReceiptComes, ReceiptArrives, ReceiptGarbled, ReceiptMissing, MatrixMounts, NoMatrix
<1>2. /\ r \in Loads /\ r.no \in Nat /\ r.id \in Receipts /\ r.no <= count
      /\ page \in Pages /\ renders \subseteq Loads
  BY DEF Order, Typed, Numbered, Loads
<1> DEFINE on == [r EXCEPT !.at = "verifying"]
<1>3. on \in Loads /\ on.no = r.no /\ on.id = r.id /\ on.at = "verifying"
  BY <1>2 DEF Loads
<1>4. /\ renders' \subseteq (renders \ {r}) \cup {on}
      /\ on \in renders' => ReceiptArrives(r) \/ on \in renders
  BY DEF RenderGoesOn, ReceiptComes, ReceiptArrives, ReceiptGarbled, ReceiptMissing, MatrixMounts, NoMatrix
<1>5. \A s \in renders \ {r} : s.no # r.no
  BY DEF Order, Numbered
<1>6. Numbered' /\ renders' \subseteq Loads
  <2>1. page'.no \in {page.no, r.no}
    <3>1. CASE ReceiptArrives(r)
      BY <3>1 DEF ReceiptArrives, View
    <3>2. CASE ReceiptMissing(r)
      BY <3>2 DEF ReceiptMissing, View
    <3>4. CASE ReceiptGarbled(r)
      BY <3>4 DEF ReceiptGarbled, View
    <3>3. CASE MatrixMounts(r) \/ NoMatrix(r)
      BY <1>2, <3>3 DEF MatrixMounts, NoMatrix, Pages
    <3> QED
      BY <3>1, <3>2, <3>3, <3>4 DEF RenderGoesOn, ReceiptComes
  <2>2. \A s \in renders' : s = on \/ (s \in renders /\ s # r)
    BY <1>4
  <2>3. page'.no <= count'
    BY <1>1, <1>2, <2>1 DEF Order, Numbered
  <2>4. \A s \in renders' : s.no <= count'
    BY <1>1, <1>2, <1>3, <2>2 DEF Order, Numbered
  <2>5. \A s, u \in renders' : s.no = u.no => s = u
    BY <1>3, <1>5, <2>2 DEF Order, Numbered
  <2>6. \A s \in renders', t \in theaters' : s.no # t.no
    BY <1>1, <1>3, <2>2 DEF Order, Numbered
  <2> QED
    BY <1>1, <1>2, <1>3, <1>4, <2>3, <2>4, <2>5, <2>6 DEF Order, Numbered
<1>7. CASE ReceiptComes(r)
  <2>1. /\ page'.view \in {"cleared", "verdict", "no receipt"} /\ page'.id = r.id /\ page'.no = r.no
        /\ page'.matrix = None /\ page'.button = FALSE /\ page' \in Pages
        /\ r.at = "fetching"
    <3>1. CASE ReceiptArrives(r)
      BY <1>2, <3>1 DEF ReceiptArrives, View, Pages
    <3>2. CASE ReceiptMissing(r)
      <4>1. /\ page' = [view |-> "no receipt", id |-> r.id, no |-> r.no, matrix |-> None,
                         button |-> FALSE, error |-> TRUE]
            /\ r.at = "fetching"
        BY <3>2 DEF ReceiptMissing, View
      <4> QED
        BY <1>2, <4>1 DEF Pages
    <3>3. CASE ReceiptGarbled(r)
      BY <1>2, <3>3 DEF ReceiptGarbled, View, Pages
    <3> QED
      BY <1>7, <3>1, <3>2, <3>3 DEF ReceiptComes
  <2>2. Typed'
    BY <1>1, <1>6, <2>1 DEF Order, Typed
  <2>3. Owned'
    <3>1. \A s \in renders' : s.no = r.no => s.id = r.id
      BY <1>3, <1>4, <1>5
    <3>2. \A t \in theaters : t.no # r.no
      BY DEF Order, Numbered
    <3> QED
      BY <1>1, <2>1, <3>1, <3>2 DEF Owned
  <2>4. Awaited'
    <3>1. \A s \in renders' : s.at = "fetching" => s \in renders /\ s # r
      BY <1>3, <1>4
    <3>2. ~ overtaken => \A s \in renders : s.at = "fetching" => s = r
      BY <2>1 DEF Order, Numbered, Awaited
    <3> QED
      BY <1>1, <3>1, <3>2 DEF Awaited
  <2>5. MatrixIsOfItsReceipt'
    BY <2>1 DEF MatrixIsOfItsReceipt
  <2> QED
    BY <1>6, <2>2, <2>3, <2>4, <2>5 DEF Order
<1>8. CASE MatrixMounts(r) \/ NoMatrix(r)
  <2>1. /\ page'.view = page.view /\ page'.id = page.id /\ page'.no = page.no /\ page' \in Pages
        /\ renders' = renders \ {r}
    BY <1>2, <1>8 DEF MatrixMounts, NoMatrix, Pages
  <2>2. \/ page'.matrix = page.matrix /\ page'.button = page.button
        \/ page'.matrix = r.id /\ page.no = r.no
    BY <1>2, <1>8 DEF MatrixMounts, NoMatrix, Pages
  <2>3. Typed'
    BY <1>1, <1>6, <2>1 DEF Order, Typed
  <2>4. Owned' /\ Awaited'
    BY <1>1, <2>1 DEF Order, Owned, Awaited
  <2>5. MatrixIsOfItsReceipt'
    <3>1. r.id # None /\ (page.no = r.no => page.id = r.id)
      BY <1>2, ViewsAssumption DEF Order, Owned
    <3> QED
      BY <2>1, <2>2, <3>1 DEF Order, MatrixIsOfItsReceipt
  <2> QED
    BY <1>6, <2>3, <2>4, <2>5 DEF Order
<1> QED
  BY <1>7, <1>8 DEF RenderGoesOn

\* What a theater does once its run was posted or was not.
LEMMA TheaterMoves ==
  ASSUME Order, NEW t \in theaters,
         Posted(t) \/ PostFails(t) \/ PostGarbled(t) \/ RunFails(t) \/ \E id \in Receipts : RunSealed(t, id)
  PROVE  Order'
<1> DEFINE on == [t EXCEPT !.at = "running"]
<1>1. /\ t \in Plays /\ on \in Plays /\ on.no = t.no /\ page \in Pages
      /\ hash \in Hashes /\ changes \in Nat /\ theaters \subseteq Plays
      /\ \A u \in theaters \ {t} : u.no # t.no
  BY DEF Order, Typed, Numbered, Plays
<1>2. hash' \in Hashes /\ changes' \in Nat /\ UNCHANGED <<renders, count, overtaken>>
  <2>1. CASE Posted(t) \/ PostFails(t) \/ PostGarbled(t) \/ RunFails(t)
    BY <1>1, <2>1 DEF Posted, PostFails, PostGarbled, RunFails
  <2>2. ASSUME NEW id \in Receipts, RunSealed(t, id)
        PROVE  hash' \in Hashes /\ changes' \in Nat /\ UNCHANGED <<renders, count, overtaken>>
    BY <1>1, <2>2 DEF RunSealed, Hashes
  <2> QED
    BY <2>1, <2>2
<1>3. /\ theaters' \subseteq Plays
      /\ \A u \in theaters' : \E v \in theaters : u.no = v.no
      /\ \A u, v \in theaters' : u.no = v.no => u = v
  <2>1. \A u \in theaters' : u \in theaters \ {t} \/ u = on
    BY DEF Posted, PostFails, PostGarbled, RunFails, RunSealed
  <2> QED
    BY <1>1, <2>1 DEF Order, Numbered
<1>4. CASE page' = page
  BY <1>2, <1>3, <1>4, PageStays
<1>5. CASE PostFails(t) \/ RunFails(t)
  <2>1. /\ page' \in Pages /\ page'.id = page.id /\ page'.no = page.no
        /\ page'.matrix = page.matrix /\ page'.button = page.button
        /\ page'.view = page.view \/ (page.no = t.no /\ page'.view = "run failed")
        /\ theaters' = theaters \ {t}
    BY <1>1, <1>5 DEF PostFails, RunFails, Pages
  <2>2. page.no = t.no => page.id = None /\ \A r \in renders : r.no # page.no
    BY DEF Order, Owned, Numbered
  <2>3. Typed'
    BY <1>1, <1>2, <1>3, <2>1 DEF Order, Typed
  <2>4. Numbered'
    BY <1>2, <2>1 DEF Order, Numbered
  <2>5. Owned'
    BY <1>1, <1>2, <2>1, <2>2 DEF Order, Owned
  <2>6. Awaited'
    BY <1>2, <2>1, <2>2 DEF Order, Awaited
  <2>7. MatrixIsOfItsReceipt'
    BY <2>1 DEF Order, MatrixIsOfItsReceipt
  <2> QED
    BY <2>3, <2>4, <2>5, <2>6, <2>7 DEF Order
<1> QED
  BY <1>4, <1>5 DEF Posted, PostGarbled, RunSealed

\* A hash names one view.
LEMMA HashNames ==
  ASSUME hash \in Hashes, page \in Pages
  PROVE  Fits <=> \/ /\ hash \in Receipts
                     /\ page.view \in {"loading", "cleared", "verdict", "no receipt"}
                     /\ page.id = hash
                  \/ hash = "home" /\ page.view \in {"home", "theater", "run failed"}
                  \/ hash = "malformed"
                  \/ hash \in Plain /\ page.view = hash
<1>1. /\ "home" \notin Receipts /\ "home" \notin Plain /\ "readiness" \notin Plain
      /\ "malformed" \notin Receipts /\ "malformed" \notin Plain
      /\ \A h \in Receipts : h \notin Plain
  BY ViewsAssumption
<1>2. page.view # "readiness"
  BY <1>1 DEF Pages
<1>3. CASE hash \in Receipts
  BY <1>1, <1>3 DEF Fits
<1>4. CASE hash = "home"
  BY <1>1, <1>4 DEF Fits
<1>5. CASE hash = "malformed"
  BY <1>1, <1>5 DEF Fits
<1>6. CASE hash \notin Receipts \cup {"home", "malformed"}
  BY <1>1, <1>2, <1>6 DEF Fits, Hashes
<1> QED
  BY <1>3, <1>4, <1>5, <1>6

\* route renders the view of the hash, or sets another hash.
LEMMA RouteKeeps ==
  ASSUME Order, NEW left \in Nat, RouteNow(left), UNCHANGED theaters
  PROVE  Order' /\ (changes' = 0 => Fits')
<1>0. /\ hash \in Hashes /\ "status" \in Hashes /\ "home" \notin Receipts
      /\ {"readiness", "malformed"} \cap (Receipts \cup Plain \cup {"home"}) = {}
      /\ Receipts \cap (Plain \cup {"home"}) = {}
  BY ViewsAssumption DEF Order, Typed, Hashes
<1>1. CASE hash = "readiness"
  <2>1. /\ hash' = "status" /\ changes' = left + 1
        /\ UNCHANGED <<page, renders, count, overtaken>>
    BY <1>0, <1>1 DEF RouteNow
  <2>2. Order'
    BY <1>0, <2>1, PageStays DEF Order, Typed, Numbered
  <2> QED
    BY <2>1, <2>2
<1>2. CASE hash \in Receipts
  <2>1. /\ hash' = hash /\ changes' = left /\ Render("loading", hash)
        /\ renders' = renders \cup {[no |-> count', id |-> hash, at |-> "fetching"]}
    BY <1>0, <1>2 DEF RouteNow
  <2>2. Order' /\ page'.view = "loading" /\ page'.id = hash
    BY <1>0, <1>2, <2>1, RenderKeeps
  <2> QED
    BY <1>0, <1>2, <2>1, <2>2 DEF Fits
<1>3. CASE hash \in Plain \cup {"home"}
  <2>1. hash' = hash /\ changes' = left /\ Render(hash, None) /\ UNCHANGED renders
    BY <1>0, <1>3 DEF RouteNow
  <2>2. Order' /\ page'.view = hash
    BY <1>0, <1>3, <2>1, RenderKeeps
  <2> QED
    BY <1>0, <1>3, <2>1, <2>2 DEF Fits
<1>4. CASE hash = "malformed"
  <2>1. changes' = left /\ UNCHANGED <<hash, page, renders, count, overtaken>>
    BY <1>0, <1>4 DEF RouteNow
  <2>2. Order'
    BY <1>0, <2>1, PageStays DEF Order, Typed, Numbered
  <2> QED
    BY <1>0, <1>4, <2>1, <2>2 DEF Fits
<1> QED
  BY <1>0, <1>1, <1>2, <1>3, <1>4 DEF Hashes

\* The steps of the views, among them those that touch nothing.
LEMMA ViewSteps ==
  ASSUME Order, PageFitsHashUnlessOvertaken, [Next]_vars
  PROVE  Order' /\ PageFitsHashUnlessOvertaken'
<1>0. /\ hash \in Hashes /\ changes \in Nat /\ page \in Pages /\ theaters \subseteq Plays
      /\ \A t, u \in theaters : t.no = u.no => t = u
  BY DEF Order, Typed, Numbered
<1>1. CASE Routed
  <2>1. CASE boot' = "listening"
    <3>1. \/ RouteNow(changes) /\ UNCHANGED theaters
          \/ changes > 0 /\ RouteNow(changes - 1) /\ UNCHANGED theaters
      BY <1>1, <2>1 DEF Routed, Boot, BootThrows, Route
    <3>2. changes > 0 => changes - 1 \in Nat
      BY <1>0
    <3> QED
      BY <1>0, <3>1, <3>2, RouteKeeps DEF PageFitsHashUnlessOvertaken
  <2>2. CASE boot' # "listening"
    <3>1. changes' \in Nat /\ UNCHANGED <<hash, page, renders, theaters, count, overtaken>>
      BY <1>0, <1>1, <2>2 DEF Routed, Boot, BootThrows, Route
    <3>2. Order'
      BY <1>0, <3>1, PageStays
    <3> QED
      BY <2>2, <3>2 DEF PageFitsHashUnlessOvertaken
  <2> QED
    BY <2>1, <2>2
<1>2. CASE Pick \/ StartRun
  <2>1. /\ page.view \in {"home", "run failed"} /\ UNCHANGED <<boot, hash, changes>>
        /\ \/ Render("home", None) /\ UNCHANGED <<renders, theaters>>
           \/ /\ Render("theater", None) /\ UNCHANGED renders
              /\ theaters' = theaters \cup {[no |-> count', at |-> "posting"]}
    BY <1>2 DEF Pick, StartRun
  <2>2. Order' /\ page'.view \in {"home", "theater"}
    BY <1>0, <2>1, RenderKeeps
  <2>3. ~ overtaken' => ~ overtaken
    BY <2>1 DEF Render
  <2>4. Fits => hash \in {"home", "malformed"}
    BY <1>0, <2>1, HashNames, ViewsAssumption
  <2>5. hash \in {"home", "malformed"} => Fits'
    BY <2>1, <2>2, ViewsAssumption DEF Fits
  <2> QED
    BY <2>1, <2>2, <2>3, <2>4, <2>5 DEF PageFitsHashUnlessOvertaken
<1>3. ASSUME NEW r \in renders, RenderGoesOn(r)
      PROVE  Order' /\ PageFitsHashUnlessOvertaken'
  <2>1. Order' /\ UNCHANGED <<boot, hash, changes, overtaken>>
    BY <1>3, RenderMoves DEF RenderGoesOn, ReceiptComes, ReceiptArrives, ReceiptGarbled, ReceiptMissing, MatrixMounts, NoMatrix
  <2>2. CASE ReceiptComes(r)
    <3>1. /\ r.at = "fetching" /\ page'.id = r.id
          /\ page'.view \in {"cleared", "verdict", "no receipt"}
      <4>1. CASE ReceiptArrives(r)
        BY <4>1 DEF ReceiptArrives, View
      <4>2. CASE ReceiptMissing(r)
        BY <4>2 DEF ReceiptMissing, View
      <4>3. CASE ReceiptGarbled(r)
        BY <4>3 DEF ReceiptGarbled, View
      <4> QED
        BY <2>2, <4>1, <4>2, <4>3 DEF ReceiptComes
    <3>2. ~ overtaken => page.view = "loading" /\ page.id = r.id
      BY <3>1 DEF Order, Awaited, Owned
    <3>3. ~ overtaken /\ Fits => (hash \in Receipts /\ hash = r.id) \/ hash = "malformed"
      BY <1>0, <3>2, HashNames, ViewsAssumption
    <3>4. (hash \in Receipts /\ hash = r.id) \/ hash = "malformed" => Fits'
      BY <2>1, <3>1, ViewsAssumption DEF Fits
    <3> QED
      BY <2>1, <3>3, <3>4 DEF PageFitsHashUnlessOvertaken
  <2>3. CASE MatrixMounts(r) \/ NoMatrix(r)
    <3>1. page'.view = page.view /\ page'.id = page.id
      BY <1>0, <2>3 DEF MatrixMounts, NoMatrix, Pages
    <3> QED
      BY <2>1, <3>1 DEF PageFitsHashUnlessOvertaken, Fits
  <2> QED
    BY <1>3, <2>2, <2>3 DEF RenderGoesOn
<1>4. ASSUME NEW t \in theaters, Posted(t) \/ PostFails(t) \/ PostGarbled(t) \/ RunFails(t)
      PROVE  Order' /\ PageFitsHashUnlessOvertaken'
  <2>1. Order' /\ UNCHANGED <<boot, hash, changes, overtaken>>
    BY <1>4, TheaterMoves DEF Posted, PostFails, PostGarbled, RunFails
  <2>2. /\ page'.id = page.id
        /\ page'.view = page.view \/ (page.view = "theater" /\ page'.view = "run failed")
    BY <1>0, <1>4 DEF Posted, PostFails, PostGarbled, RunFails, Pages, Order, Owned
  <2>3. Fits => Fits'
    <3>1. CASE page'.view = page.view
      BY <2>1, <2>2, <3>1 DEF Fits
    <3>2. CASE page.view = "theater" /\ page'.view = "run failed"
      <4>1. Fits => hash \in {"home", "malformed"}
        BY <1>0, <3>2, HashNames, ViewsAssumption
      <4>2. hash \in {"home", "malformed"} => Fits'
        BY <2>1, <3>2, ViewsAssumption DEF Fits
      <4> QED
        BY <4>1, <4>2
    <3> QED
      BY <2>2, <3>1, <3>2
  <2> QED
    BY <2>1, <2>3 DEF PageFitsHashUnlessOvertaken
<1>5. ASSUME NEW t \in theaters, NEW id \in Receipts, RunSealed(t, id)
      PROVE  Order' /\ PageFitsHashUnlessOvertaken'
  <2>1. Order' /\ UNCHANGED <<boot, page, overtaken>> /\ hash' = id
        /\ changes' = IF id = hash THEN changes ELSE changes + 1
    BY <1>5, TheaterMoves DEF RunSealed
  <2>2. changes' = 0 => hash' = hash /\ changes = 0
    BY <1>0, <2>1
  <2> QED
    BY <2>1, <2>2 DEF PageFitsHashUnlessOvertaken, Fits
<1>6. ASSUME NEW h \in Hashes, Visit(h) PROVE Order' /\ PageFitsHashUnlessOvertaken'
  <2>1. /\ UNCHANGED <<page, renders, theaters, count, overtaken>> /\ hash' = h
        /\ changes' = changes + 1
    BY <1>6 DEF Visit
  <2>2. Order'
    BY <1>0, <2>1, PageStays
  <2> QED
    BY <1>0, <2>1, <2>2 DEF PageFitsHashUnlessOvertaken
<1>7. CASE Reload
  <2>1. /\ boot' = "fetching" /\ changes' = 0 /\ renders' = {} /\ theaters' = {}
        /\ hash' = hash /\ count' = count /\ count \in Nat
        /\ page' = [view |-> "blank", id |-> None, no |-> count, matrix |-> None,
                    button |-> FALSE, error |-> FALSE]
    BY <1>7 DEF Reload, View, Order, Typed
  <2>2. Typed'
    BY <1>0, <2>1 DEF Typed, Pages
  <2>3. Numbered' /\ Owned' /\ Awaited' /\ MatrixIsOfItsReceipt'
    BY <2>1 DEF Numbered, Owned, Awaited, MatrixIsOfItsReceipt
  <2> QED
    BY <2>1, <2>2, <2>3 DEF Order, PageFitsHashUnlessOvertaken
<1>8. CASE UNCHANGED viewsVars
  <2>1. UNCHANGED <<boot, hash, changes, page, renders, theaters, count, overtaken>>
    BY <1>8 DEF viewsVars
  <2>2. Order'
    BY <1>0, <2>1, PageStays
  <2> QED
    BY <2>1, <2>2 DEF PageFitsHashUnlessOvertaken, Fits
<1> QED
  BY <1>1, <1>2, <1>3, <1>4, <1>5, <1>6, <1>7, <1>8
     DEF Next, LandingRouted, LandingPosted, SwitchTheme, LandingReload, OtherViews, RendersOn,
         RenderGoesOn, ReceiptComes, Theaters, vars

----------------------------------------------------------------------------
(* The colours. *)

\* The themes are numbered from one.
LEMMA ThemePlaces ==
  /\ 1 \in DOMAIN Themes /\ Unknown \notin DOMAIN Themes
  /\ \A i \in DOMAIN Themes : (i % Len(Themes)) + 1 \in DOMAIN Themes
<1>1. Len(Themes) \in Nat \ {0} /\ DOMAIN Themes = 1..Len(Themes)
  BY LandingAssumption
<1>2. \A n \in Nat \ {0} : \A i \in 1..n : (i % n) + 1 \in 1..n
  OBVIOUS
<1> QED
  BY <1>1, <1>2 DEF Unknown

\* A colour that is looked up is that of the theme at the time.
LEMMA ColoursKeep ==
  ASSUME Cached
  PROVE  /\ Coloured \in [DOMAIN Themes -> {Unknown} \cup DOMAIN Themes]
         /\ \A t \in DOMAIN Themes : Coloured[t] \in {Unknown, t}
         /\ Coloured[CacheKey(theme)] = theme
BY ThemePlaces DEF Cached, Coloured, CacheKey

\* Every mounting takes the theme's colours; a switch leaves a mounted spine behind.
LEMMA ColourSteps ==
  ASSUME Cached, SpineWearsItsTheme, [Next]_vars
  PROVE  Cached' /\ SpineWearsItsTheme'
<1>1. ASSUME NEW no, MountSpine(no), UNCHANGED theme
      PROVE  Cached' /\ SpineWearsItsTheme'
  BY <1>1, ColoursKeep DEF MountSpine, Cached, SpineWearsItsTheme
<1>2. CASE NoSpine /\ UNCHANGED theme
  BY <1>2 DEF NoSpine, Cached, SpineWearsItsTheme
<1>3. CASE SwitchTheme
  <2>1. theme' \in DOMAIN Themes /\ cache' = cache
    BY <1>3, ThemePlaces DEF SwitchTheme, Cached
  <2>2. Cached'
    BY <2>1 DEF Cached
  <2> QED
    BY <1>3, <2>2 DEF SwitchTheme, SpineWearsItsTheme
<1>4. CASE LandingReload
  <2>1. theme' \in DOMAIN Themes /\ spine' = Unknown
        /\ cache' = [t \in DOMAIN Themes |-> Unknown]
    BY <1>4, ThemePlaces DEF LandingReload, Cached
  <2> QED
    BY <2>1 DEF Cached, SpineWearsItsTheme
<1>5. CASE UNCHANGED vars
  BY <1>5 DEF vars, Cached, SpineWearsItsTheme
<1> QED
  BY <1>1, <1>2, <1>3, <1>4, <1>5 DEF Next, LandingRouted, Pick, LandingPosted, OtherViews

----------------------------------------------------------------------------
(* The types. *)

\* What Order does not say of the views.
Bounded ==
  /\ visits \in 0..Visits /\ reloads \in 0..Reloads /\ runs \in 0..Runs
  /\ switches \in 0..Switches /\ picks \in 0..Picks
  /\ \A r \in renders : r.no >= 1
  /\ \A t \in theaters : t.no >= 1

\* The limits are numbers.
LEMMA Limits ==
  Visits \in Nat /\ Reloads \in Nat /\ Runs \in Nat /\ Switches \in Nat /\ Picks \in Nat
<1>1. Visits \in Nat /\ Reloads \in Nat /\ Runs \in Nat
  BY ViewsAssumption
<1>2. Switches \in Nat /\ Picks \in Nat
  BY LandingAssumption
<1> QED
  BY <1>1, <1>2

\* Views are numbered from one; visits, reloads, runs, switches and picks stop at
\* their bounds.
LEMMA BoundSteps ==
  ASSUME Order, Bounded, [Next]_vars
  PROVE  Bounded'
<1>0. count \in Nat /\ renders \subseteq Loads /\ theaters \subseteq Plays
  BY DEF Order, Typed
<1>a. /\ Visits \in Nat /\ Reloads \in Nat /\ Runs \in Nat /\ Switches \in Nat /\ Picks \in Nat
      /\ \A n, m \in Nat : n < m => n + 1 \in 0..m
  BY Limits
<1>1. ASSUME NEW view, NEW id, Render(view, id) PROVE count' >= 1
  BY <1>0, <1>1 DEF Render
<1>2. CASE LandingRouted
  <2>1. UNCHANGED <<theaters, bounds, switches, picks>>
    BY <1>2 DEF LandingRouted, Routed, Boot, BootThrows, Route
  <2>2. \/ UNCHANGED renders
        \/ /\ Render("loading", hash)
           /\ renders' = renders \cup {[no |-> count', id |-> hash, at |-> "fetching"]}
    BY <1>2 DEF LandingRouted, Routed, Boot, BootThrows, Route, RouteNow
  <2>3. \A r \in renders' : r.no >= 1
    BY <1>1, <2>2 DEF Bounded
  <2> QED
    BY <2>1, <2>3 DEF Bounded, bounds
<1>3. CASE Pick
  <2>1. picks' \in 0..Picks
    BY <1>a, <1>3 DEF Pick, Bounded
  <2> QED
    BY <1>3, <2>1 DEF Pick, Bounded, bounds
<1>4. CASE StartRun /\ UNCHANGED <<switches, picks>>
  <2>1. /\ runs < Runs /\ runs' = runs + 1 /\ UNCHANGED <<renders, visits, reloads>>
        /\ theaters' = theaters \cup {[no |-> count', at |-> "posting"]} /\ Render("theater", None)
    BY <1>4 DEF StartRun
  <2>2. runs' \in 0..Runs
    BY <1>a, <2>1 DEF Bounded
  <2>3. \A t \in theaters' : t.no >= 1
    BY <1>1, <2>1 DEF Bounded
  <2> QED
    BY <1>4, <2>1, <2>2, <2>3 DEF Bounded
<1>5. ASSUME NEW r \in renders, RenderGoesOn(r),
             UNCHANGED <<switches, picks>>
      PROVE  Bounded'
  <2>1. /\ UNCHANGED <<theaters, bounds>>
        /\ renders' \subseteq renders \cup {[r EXCEPT !.at = "verifying"]}
    BY <1>5 DEF RenderGoesOn, ReceiptComes, ReceiptArrives, ReceiptGarbled, ReceiptMissing, MatrixMounts, NoMatrix
  <2>2. [r EXCEPT !.at = "verifying"].no = r.no
    BY <1>0 DEF Loads
  <2>3. \A s \in renders' : s.no >= 1
    BY <2>1, <2>2 DEF Bounded
  <2> QED
    BY <1>5, <2>1, <2>3 DEF Bounded, bounds
<1>6. ASSUME NEW t \in theaters, UNCHANGED <<switches, picks>>,
             Posted(t) \/ PostFails(t) \/ PostGarbled(t) \/ RunFails(t) \/ \E id \in Receipts : RunSealed(t, id)
      PROVE  Bounded'
  <2>1. /\ UNCHANGED <<renders, bounds>>
        /\ theaters' \subseteq theaters \cup {[t EXCEPT !.at = "running"]}
    BY <1>6 DEF Posted, PostFails, PostGarbled, RunFails, RunSealed
  <2>2. [t EXCEPT !.at = "running"].no = t.no
    BY <1>0 DEF Plays
  <2>3. \A u \in theaters' : u.no >= 1
    BY <2>1, <2>2 DEF Bounded
  <2> QED
    BY <1>6, <2>1, <2>3 DEF Bounded, bounds
<1>7. ASSUME NEW h \in Hashes, Visit(h), UNCHANGED <<switches, picks>> PROVE Bounded'
  <2>1. /\ visits < Visits /\ visits' = visits + 1
        /\ UNCHANGED <<renders, theaters, reloads, runs>>
    BY <1>7 DEF Visit
  <2>2. visits' \in 0..Visits
    BY <1>a, <2>1 DEF Bounded
  <2> QED
    BY <1>7, <2>1, <2>2 DEF Bounded
<1>8. CASE LandingReload
  <2>1. /\ reloads < Reloads /\ reloads' = reloads + 1
        /\ UNCHANGED <<visits, runs, switches, picks>> /\ renders' = {} /\ theaters' = {}
    BY <1>8 DEF LandingReload, Reload
  <2>2. reloads' \in 0..Reloads
    BY <1>a, <2>1 DEF Bounded
  <2> QED
    BY <2>1, <2>2 DEF Bounded
<1>9. CASE SwitchTheme
  <2>1. /\ switches < Switches /\ switches' = switches + 1
        /\ UNCHANGED <<renders, theaters, visits, reloads, runs, picks>>
    BY <1>9 DEF SwitchTheme, viewsVars, bounds
  <2>2. switches' \in 0..Switches
    BY <1>a, <2>1 DEF Bounded
  <2> QED
    BY <2>1, <2>2 DEF Bounded
<1>10. CASE UNCHANGED vars
  BY <1>10 DEF vars, viewsVars, bounds, Bounded
<1> QED
  BY <1>2, <1>3, <1>4, <1>5, <1>6, <1>7, <1>8, <1>9, <1>10
     DEF Next, LandingPosted, OtherViews, RendersOn, RenderGoesOn, ReceiptComes, Theaters

\* What Cached does not say of the colours, and the flags.
Switched ==
  /\ spine \in {Unknown} \cup DOMAIN Themes
  /\ boot \in {"fetching", "listening", "thrown"}
  /\ overtaken \in BOOLEAN /\ faded \in BOOLEAN

\* A spine has the colours of some theme.
LEMMA SwitchSteps ==
  ASSUME Cached, Switched, [Next]_vars
  PROVE  Switched'
<1>1. ASSUME NEW no, MountSpine(no) \/ NoSpine
      PROVE  spine' \in {Unknown} \cup DOMAIN Themes
  BY <1>1, ColoursKeep DEF MountSpine, NoSpine, Cached, Switched
<1>2. ASSUME NEW no, MountSpine(no) \/ NoSpine
      PROVE  faded' \in BOOLEAN
  BY <1>2 DEF MountSpine, NoSpine, Switched
<1>3. ASSUME NEW view, NEW id, Render(view, id) PROVE overtaken' \in BOOLEAN
  BY <1>3 DEF Render
<1>4. CASE LandingRouted
  <2>1. /\ boot' \in {"fetching", "listening", "thrown"}
        /\ (\E left : RouteNow(left)) \/ overtaken' = overtaken
    BY <1>4 DEF LandingRouted, Routed, Boot, BootThrows, Route, Switched
  <2>2. overtaken' \in BOOLEAN
    BY <1>3, <2>1 DEF RouteNow, Switched
  <2> QED
    BY <1>1, <1>2, <1>4, <2>1, <2>2 DEF LandingRouted, Switched
<1>5. CASE Pick
  BY <1>1, <1>2, <1>3, <1>5 DEF Pick, Switched
<1>6. CASE LandingPosted
  BY <1>1, <1>2, <1>6 DEF LandingPosted, Posted, Switched
<1>7. CASE OtherViews
  <2>1. boot' = boot /\ overtaken' \in BOOLEAN
    BY <1>3, <1>7 DEF OtherViews, Visit, RendersOn, ReceiptArrives, ReceiptGarbled, ReceiptMissing,
       MatrixMounts, NoMatrix, StartRun, Theaters, PostFails, PostGarbled, RunFails, RunSealed,
       Switched
  <2> QED
    BY <1>1, <1>2, <1>7, <2>1 DEF OtherViews, Switched
<1>8. CASE SwitchTheme
  BY <1>8 DEF SwitchTheme, viewsVars, Switched
<1>9. CASE LandingReload
  BY <1>9 DEF LandingReload, Reload, Switched
<1>10. CASE UNCHANGED vars
  BY <1>10 DEF vars, viewsVars, Switched
<1> QED
  BY <1>4, <1>5, <1>6, <1>7, <1>8, <1>9, <1>10 DEF Next

----------------------------------------------------------------------------
(* The theorems. *)

\* The page is opened blank, and nobody has a claim to it.
LEMMA PageOpens == Init => LInv /\ Bounded /\ Switched
<1> SUFFICES ASSUME Init PROVE LInv /\ Bounded /\ Switched
  OBVIOUS
<1> USE DEF Init, ViewsInit
<1>1. Typed
  BY DEF View, Typed, Pages
<1>2. Numbered /\ Owned /\ Awaited /\ MatrixIsOfItsReceipt
  BY DEF View, Numbered, Owned, Awaited, MatrixIsOfItsReceipt
<1>3. PageFitsHashUnlessOvertaken
  BY DEF PageFitsHashUnlessOvertaken
<1>4. Cached /\ SpineWearsItsTheme
  BY DEF Cached, SpineWearsItsTheme
<1>5. Switched
  BY DEF Switched
<1>6. Bounded
  <2>1. 0 \in 0..Visits /\ 0 \in 0..Reloads /\ 0 \in 0..Runs /\ 0 \in 0..Switches /\ 0 \in 0..Picks
    BY Limits
  <2> QED
    BY <2>1 DEF Bounded
<1> QED
  BY <1>1, <1>2, <1>3, <1>4, <1>5, <1>6 DEF LInv, Order

\* LInv is an invariant of the landing page and the views.
LEMMA Invariance == Spec => [](LInv /\ Bounded /\ Switched)
<1>1. LInv /\ Bounded /\ Switched /\ [Next]_vars => (LInv /\ Bounded /\ Switched)'
  BY ViewSteps, ColourSteps, BoundSteps, SwitchSteps DEF LInv
<1> QED
  BY PageOpens, <1>1, PTL DEF Spec

\* The types of the views and the colours.
THEOREM LandingTypes == Spec => []LandingTypeOK
<1>1. ASSUME LInv, Bounded, Switched PROVE LandingTypeOK
  <2>1. Typed /\ Numbered /\ Cached
    BY <1>1 DEF LInv, Order
  <2>2. page.no \in 0..count
    <3>1. page.no \in Nat /\ count \in Nat
      BY <2>1 DEF Typed, Pages
    <3> QED
      BY <2>1, <3>1 DEF Numbered
  <2>3. page \in [view : Plain \cup {"blank", "home", "loading", "cleared",
                                   "verdict", "no receipt", "theater", "run failed"},
                  id : Receipts \cup {None}, no : 0..count,
                  matrix : Receipts \cup {None}, button : BOOLEAN, error : BOOLEAN]
    BY <2>1, <2>2 DEF Typed, Pages
  <2>4. \A r \in renders : /\ r.no \in 1..count /\ r.id \in Receipts
                           /\ r.at \in {"fetching", "verifying"}
    BY <1>1, <2>1 DEF Typed, Numbered, Loads, Bounded
  <2>5. \A t \in theaters : t.no \in 1..count /\ t.at \in {"posting", "running"}
    BY <1>1, <2>1 DEF Typed, Numbered, Plays, Bounded
  <2>6. ViewsTypeOK
    BY <1>1, <2>1, <2>3, <2>4, <2>5 DEF ViewsTypeOK, Typed, Bounded, Switched
  <2> QED
    BY <1>1, <2>1, <2>6 DEF LandingTypeOK, Cached, Bounded, Switched
<1> QED
  BY <1>1, Invariance, PTL

\* The page shows the view of its address once it listens and the events have been handled,
\* unless a view was rendered while a receipt was being fetched (src/web/playground.js, route
\* and renderReceipt).  Of a receipt that came as null, it is the page cleared for it; an
\* address that cannot be decoded has no view.
THEOREM PageFitsItsHash == Spec => []PageFitsHashUnlessOvertaken
<1>1. LInv => PageFitsHashUnlessOvertaken
  BY DEF LInv
<1> QED
  BY <1>1, Invariance, PTL

\* A matrix is mounted beside its own receipt only, however renders overlap
\* (src/web/playground.js, renderReceipt).
THEOREM MatrixStaysWithItsReceipt == Spec => []MatrixIsOfItsReceipt
<1>1. LInv => MatrixIsOfItsReceipt
  BY DEF LInv, Order
<1> QED
  BY <1>1, Invariance, PTL

\* A spine that is mounted is in the colours of the theme until it is switched
\* (src/web/spine.js, stageColor).
THEOREM SpineInItsTheme == Spec => []SpineWearsItsTheme
<1>1. LInv => SpineWearsItsTheme
  BY DEF LInv
<1> QED
  BY <1>1, Invariance, PTL
=============================================================================
