-------------------------------- MODULE Views --------------------------------
(* The router and the views of the single-page application (boot, route,
   renderReceipt and startRun in src/web/playground.js): who puts what on the page,
   and where an error that nobody catches ends a task half way.

   The location's hash changes at once, its hashchange event comes later.  Until
   the configuration has been fetched nobody listens to it, and the page is blank.  A view
   is rendered at once as far as its first await.  What it does after that goes
   to elements of its own, which may have left the page, except in two places: a
   receipt that has been fetched replaces the page, and a run that could not be
   posted appends its error to the page.  A run that ends sets the hash.

   api() throws when a request fails or is refused, which its callers catch; a body
   that is not JSON, or breaks off, it turns into null, which none of them expects. *)
EXTENDS Naturals, FiniteSets

CONSTANTS
  Receipts,   \* receipt IDs, also the empty one; also the hashes #/r/<id>
  Plain,      \* the other hashes: #/status, #/verify, #/lab, #/metamask
  Visits,     \* bound on the visitor's navigations
  Reloads,    \* bound on the reloads of the page
  Runs        \* bound on the runs started

None == "none"

ASSUME ViewsAssumption ==
  /\ Visits \in Nat /\ Reloads \in Nat /\ Runs \in Nat
  /\ Receipts \cap Plain = {} /\ "status" \in Plain
  /\ {"home", "readiness", "malformed"} \cap (Receipts \cup Plain) = {}
  /\ None \notin Receipts   \* and no hash is taken for a view it does not stand for
  /\ {"blank", "loading", "cleared", "verdict", "no receipt", "theater", "run failed"}
       \cap Plain = {}

\* "malformed" is one like #/r/%, which cannot be decoded.
Hashes == Receipts \cup Plain \cup {"home", "readiness", "malformed"}

VARIABLES
  boot,       \* where boot stands: at its fetch, at its end, or thrown out before
  hash,       \* location.hash
  changes,    \* hashchange events to come
  page,       \* what is on the page
  renders,    \* the receipts being rendered
  theaters,   \* the theaters under way
  count,      \* how many views were rendered
  visits, reloads, runs,
  overtaken   \* history: a view was rendered while a receipt was being fetched

bounds == <<visits, reloads, runs>>
viewsVars == <<boot, hash, changes, page, renders, theaters, count, bounds, overtaken>>

\* A view just rendered, the no-th: its receipt, the package of its matrix,
\* whether "Re-verify line by line" is enabled, whether it shows an error.
View(view, id, no) ==
  [view |-> view, id |-> id, no |-> no, matrix |-> None, button |-> FALSE,
   error |-> FALSE]

----------------------------------------------------------------------------
ViewsInit ==
  /\ boot = "fetching"
  /\ hash \in Hashes /\ changes = 0
  /\ page = View("blank", None, 0)
  /\ renders = {} /\ theaters = {} /\ count = 0
  /\ visits = 0 /\ reloads = 0 /\ runs = 0 /\ overtaken = FALSE

\* The visitor follows a link, or the back button.
Visit(h) ==
  /\ visits < Visits /\ h # hash
  /\ visits' = visits + 1
  /\ hash' = h /\ changes' = changes + 1
  /\ UNCHANGED <<boot, page, renders, theaters, count, reloads, runs, overtaken>>

\* The page is loaded again at its address; what it was doing is gone.
Reload ==
  /\ boot # "fetching" /\ boot' = "fetching"
  /\ reloads < Reloads /\ reloads' = reloads + 1
  /\ changes' = 0 /\ renders' = {} /\ theaters' = {}
  /\ page' = View("blank", None, count) /\ overtaken' = FALSE
  /\ UNCHANGED <<hash, count, visits, runs>>

\* A new view takes the page.
Render(view, id) ==
  /\ count' = count + 1
  /\ page' = View(view, id, count')
  /\ overtaken' = (overtaken \/ \E r \in renders : r.at = "fetching")

\* route, with so many events left: a view for the hash, another hash for an old
\* address, or an error.
RouteNow(left) ==
  \/ /\ hash = "readiness"
     /\ hash' = "status" /\ changes' = left + 1
     /\ UNCHANGED <<page, renders, count, overtaken>>
  \/ /\ hash = "malformed"
     /\ changes' = left
     /\ UNCHANGED <<hash, page, renders, count, overtaken>>
  \/ /\ hash \in Receipts
     /\ Render("loading", hash)
     /\ renders' = renders \cup {[no |-> count', id |-> hash, at |-> "fetching"]}
     /\ changes' = left /\ UNCHANGED hash
  \/ /\ hash \in Plain \cup {"home"}
     /\ Render(hash, None)
     /\ changes' = left /\ UNCHANGED <<hash, renders>>

\* boot after the configuration was fetched, or the request failed: listen, and route.
Boot ==
  /\ boot = "fetching" /\ boot' = "listening"
  /\ RouteNow(changes)
  /\ UNCHANGED <<theaters, bounds>>

\* The configuration is null, which updateFooterClaim trips over.
BootThrows ==
  /\ boot = "fetching" /\ boot' = "thrown"
  /\ UNCHANGED <<hash, changes, page, renders, theaters, count, bounds, overtaken>>

\* A hashchange event.  It is lost on a page that does not listen yet.
Route ==
  /\ changes > 0
  /\ IF boot = "listening"
       THEN RouteNow(changes - 1)
       ELSE changes' = changes - 1 /\ UNCHANGED <<hash, page, renders, count, overtaken>>
  /\ UNCHANGED <<boot, theaters, bounds>>

----------------------------------------------------------------------------
(* renderReceipt after its first await. *)

ReceiptArrives(r) ==
  /\ r \in renders /\ r.at = "fetching"
  /\ renders' = (renders \ {r}) \cup {[r EXCEPT !.at = "verifying"]}
  /\ page' = View("verdict", r.id, r.no)
  /\ UNCHANGED <<boot, hash, changes, theaters, count, bounds, overtaken>>

\* Its body is null: the page is cleared, and then the receipt's mode is read.
ReceiptGarbled(r) ==
  /\ r \in renders /\ r.at = "fetching"
  /\ renders' = renders \ {r}
  /\ page' = View("cleared", r.id, r.no)
  /\ UNCHANGED <<boot, hash, changes, theaters, count, bounds, overtaken>>

\* Faulty: the error is not caught.
ReceiptThrows(r) ==
  /\ r \in renders /\ r.at = "fetching"
  /\ renders' = renders \ {r}
  /\ UNCHANGED <<boot, hash, changes, page, theaters, count, bounds, overtaken>>

\* The request failed, or was refused.
ReceiptMissing(r) ==
  /\ r \in renders /\ r.at = "fetching"
  /\ renders' = renders \ {r}
  /\ page' = [View("no receipt", r.id, r.no) EXCEPT !.error = TRUE]
  /\ UNCHANGED <<boot, hash, changes, theaters, count, bounds, overtaken>>

\* Faulty: the matrix goes to whatever host is on the page.
MatrixMountsAnywhere(r) ==
  /\ r \in renders /\ r.at = "verifying"
  /\ renders' = renders \ {r}
  /\ page' = IF page.view = "verdict"
               THEN [page EXCEPT !.matrix = r.id, !.button = TRUE] ELSE page
  /\ UNCHANGED <<boot, hash, changes, theaters, count, bounds, overtaken>>

\* The bundle has been fetched and verified.
MatrixMounts(r) ==
  /\ r \in renders /\ r.at = "verifying"
  /\ renders' = renders \ {r}
  /\ page' = IF page.no = r.no
               THEN [page EXCEPT !.matrix = r.id, !.button = TRUE] ELSE page
  /\ UNCHANGED <<boot, hash, changes, theaters, count, bounds, overtaken>>

NoMatrix(r) ==
  /\ r \in renders /\ r.at = "verifying"
  /\ renders' = renders \ {r}
  /\ page' = IF page.no = r.no THEN [page EXCEPT !.error = TRUE] ELSE page
  /\ UNCHANGED <<boot, hash, changes, theaters, count, bounds, overtaken>>

----------------------------------------------------------------------------
(* startRun, as far as the page is concerned. *)

\* From the landing page, or by "Try again".
StartRun ==
  /\ page.view \in {"home", "run failed"} /\ runs < Runs
  /\ runs' = runs + 1
  /\ Render("theater", None)
  /\ theaters' = theaters \cup {[no |-> count', at |-> "posting"]}
  /\ UNCHANGED <<boot, hash, changes, renders, visits, reloads>>

Posted(t) ==
  /\ t \in theaters /\ t.at = "posting"
  /\ theaters' = (theaters \ {t}) \cup {[t EXCEPT !.at = "running"]}
  /\ UNCHANGED <<boot, hash, changes, page, renders, count, bounds, overtaken>>

PostFails(t) ==
  /\ t \in theaters /\ t.at = "posting"
  /\ theaters' = theaters \ {t}
  /\ page' = [page EXCEPT !.error = TRUE]
  /\ UNCHANGED <<boot, hash, changes, renders, count, bounds, overtaken>>

\* The answer is null: the run goes on, the theater stays without its spine.
PostGarbled(t) ==
  /\ t \in theaters /\ t.at = "posting"
  /\ theaters' = theaters \ {t}
  /\ UNCHANGED <<boot, hash, changes, page, renders, count, bounds, overtaken>>

RunFails(t) ==
  /\ t \in theaters /\ t.at = "running"
  /\ theaters' = theaters \ {t}
  /\ page' = IF page.no = t.no THEN [page EXCEPT !.view = "run failed"] ELSE page
  /\ UNCHANGED <<boot, hash, changes, renders, count, bounds, overtaken>>

\* Faulty: history.replaceState, which raises no event.
RunSealedQuietly(t, id) ==
  /\ t \in theaters /\ t.at = "running"
  /\ theaters' = theaters \ {t}
  /\ hash' = id
  /\ UNCHANGED <<boot, changes, page, renders, count, bounds, overtaken>>

RunSealed(t, id) ==
  /\ t \in theaters /\ t.at = "running"
  /\ theaters' = theaters \ {t}
  /\ hash' = id /\ changes' = IF id = hash THEN changes ELSE changes + 1
  /\ UNCHANGED <<boot, page, renders, count, bounds, overtaken>>

----------------------------------------------------------------------------
RendersOn == \E r \in renders :
  \/ ReceiptArrives(r) \/ ReceiptGarbled(r) \/ ReceiptMissing(r)
  \/ MatrixMounts(r) \/ NoMatrix(r)

Theaters == \E t \in theaters :
  PostFails(t) \/ PostGarbled(t) \/ RunFails(t) \/ \E id \in Receipts : RunSealed(t, id)

TheaterPosted == \E t \in theaters : Posted(t)

Routed == Boot \/ BootThrows \/ Route

----------------------------------------------------------------------------
(* Properties. *)

\* The types.
ViewsTypeOK ==
  /\ boot \in {"fetching", "listening", "thrown"} /\ hash \in Hashes /\ changes \in Nat
  /\ page \in [view : Plain \cup {"blank", "home", "loading", "cleared", "verdict",
                                  "no receipt", "theater", "run failed"},
               id : Receipts \cup {None}, no : 0..count,
               matrix : Receipts \cup {None}, button : BOOLEAN, error : BOOLEAN]
  /\ \A r \in renders : /\ r.no \in 1..count /\ r.id \in Receipts
                        /\ r.at \in {"fetching", "verifying"}
  /\ \A t \in theaters : t.no \in 1..count /\ t.at \in {"posting", "running"}
  /\ count \in Nat /\ visits \in 0..Visits
  /\ reloads \in 0..Reloads /\ runs \in 0..Runs
  /\ overtaken \in BOOLEAN

\* The views that belong to the hash (docs/ux-redesign/SPEC.md 99-106), and the page
\* that a receipt was to appear on which came as null.  No view belongs to a hash
\* that is malformed.
Fits ==
  CASE hash \in Receipts   -> /\ page.view \in {"loading", "cleared", "verdict", "no receipt"}
                              /\ page.id = hash
    [] hash = "home"       -> page.view \in {"home", "theater", "run failed"}
    [] hash = "malformed"  -> TRUE
    [] OTHER               -> page.view = hash

\* The page shows the view of its address, docs/ux-redesign/SPEC.md 99-106
\* ("#/r/<id>  The Verdict", "#/verify  Drop a proof", ...), once the page listens and
\* the hashchange events have been handled, unless a view was rendered while a receipt
\* was being fetched, which may then replace it.  A hash that changed before the page
\* listened, an old address, a reload, the runs of theaters left behind, and the links
\* they open, do no harm; nor does an error: a receipt that comes as null clears its
\* own page, and a malformed address is one that no view can fit.
PageFitsHashUnlessOvertaken == boot = "listening" /\ changes = 0 /\ ~ overtaken => Fits

\* However the renders of several receipts overlap, the matrix shown beside a
\* receipt is that of its own bundle, and "Re-verify line by line" is disabled
\* until it exists (docs/ux-redesign/01-runbook-check-matrix.md 328-330).
MatrixIsOfItsReceipt ==
  /\ page.matrix \in {None, page.id}
  /\ page.button => page.matrix # None

\* What keeps a page blank: boot was thrown out, as a null configuration replaces the
\* defaults that were to stand (playground.js 1067, 1075-1077), or route was, by the
\* address (1086).
StaysBlank == page.view = "blank" /\ (boot = "thrown" \/ hash = "malformed")

\* A page at "Loading proof receipt" leaves it, with a verdict, with an error, or cleared
\* by a receipt that came as null; and one that is blank comes to a view, whatever is
\* fetched or reloaded, unless the configuration came as null or the address is malformed.
LoadingEnds ==
  page.view \in {"blank", "loading"} ~> (page.view \notin {"blank", "loading"} \/ StaysBlank)
=============================================================================
