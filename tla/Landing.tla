------------------------------- MODULE Landing -------------------------------
(* The landing page and the colours (renderHome, flowButton, modeButton and the
   theme in src/web/playground.js, stageColor in src/web/spine.js), on top of the
   views.  A spine is mounted by the landing page and by a theater whose run was
   posted; its colours are looked up then, in a cache, and are not touched again.
   The stages share their colour here: what matters is the theme it comes from.

   The ambient fill of the landing spine is left out: its first step runs before
   the page holds the spine, and stops there.                              *)
EXTENDS Views, Sequences

CONSTANTS
  Themes,     \* in the order of the switch, the default first
  Switches,   \* bound on the theme switches
  Picks       \* bound on the picks of a flow or a mode

ASSUME LandingAssumption ==
  Themes \in Seq(STRING) /\ Len(Themes) > 0 /\ Switches \in Nat /\ Picks \in Nat

VARIABLES
  theme,      \* the theme of the document, by its place
  cache,      \* the colours looked up, by the key of the cache
  spine,      \* the spine on the page: the theme whose colours it has
  switches, picks,
  faded       \* history: the theme was switched since the spine was mounted

vars == <<viewsVars, theme, cache, spine, switches, picks, faded>>

Unknown == 0

----------------------------------------------------------------------------
Init ==
  /\ ViewsInit
  /\ theme \in DOMAIN Themes    \* as remembered from an earlier visit
  /\ cache = [t \in DOMAIN Themes |-> Unknown]
  /\ spine = Unknown
  /\ switches = 0 /\ picks = 0 /\ faded = FALSE

\* Faulty: the cache is by stage only.
CacheKeyOfStage(t) == 1

\* "theme + ':' + key" of stageColor, for any one stage.
CacheKey(t) == t

\* stageColor.
Coloured ==
  IF cache[CacheKey(theme)] # Unknown THEN cache
                                      ELSE [cache EXCEPT ![CacheKey(theme)] = theme]

\* mountSpine in the view no, which may have left the page.
MountSpine(no) ==
  /\ cache' = Coloured
  /\ IF no = page'.no
       THEN spine' = Coloured[CacheKey(theme)] /\ faded' = FALSE
       ELSE UNCHANGED <<spine, faded>>

\* A view that takes the page takes the spine away.
NoSpine ==
  /\ IF page'.no = page.no THEN UNCHANGED <<spine, faded>>
                           ELSE spine' = Unknown /\ faded' = FALSE
  /\ UNCHANGED cache

\* route, and with the landing page its spine.
LandingRouted ==
  /\ Routed
  /\ IF page'.view = "home" /\ page'.no # page.no THEN MountSpine(page'.no) ELSE NoSpine
  /\ UNCHANGED <<theme, switches, picks>>

\* A click on a flow or a mode: it is selected, and the landing page rendered again.
Pick ==
  /\ page.view = "home" /\ picks < Picks
  /\ picks' = picks + 1
  /\ Render("home", None) /\ MountSpine(count')
  /\ UNCHANGED <<boot, hash, changes, renders, theaters, bounds, theme, switches>>

\* A theater mounts its spine when its run was posted.
LandingPosted ==
  /\ \E t \in theaters : Posted(t) /\ MountSpine(t.no)
  /\ UNCHANGED <<theme, switches, picks>>

\* The theme button.
SwitchTheme ==
  /\ switches < Switches /\ switches' = switches + 1
  /\ theme' = (theme % Len(Themes)) + 1
  /\ faded' = (spine # Unknown)
  /\ UNCHANGED <<viewsVars, cache, spine, picks>>

\* The theme is remembered, if the browser's storage allows it.
LandingReload ==
  /\ Reload
  /\ theme' \in {theme, 1}
  /\ cache' = [t \in DOMAIN Themes |-> Unknown]
  /\ spine' = Unknown /\ faded' = FALSE
  /\ UNCHANGED <<switches, picks>>

\* The steps of the views that mount no spine.
OtherViews ==
  /\ (\E h \in Hashes : Visit(h)) \/ RendersOn \/ StartRun \/ Theaters
  /\ NoSpine /\ UNCHANGED <<theme, switches, picks>>

Next ==
  LandingRouted \/ Pick \/ LandingPosted \/ SwitchTheme \/ LandingReload \/ OtherViews

\* The event loop runs, and every fetch comes to an end.
Fairness ==
  /\ WF_vars(LandingRouted)
  /\ WF_vars(OtherViews /\ RendersOn)

Spec == Init /\ [][Next]_vars /\ Fairness

----------------------------------------------------------------------------
(* Properties. *)

\* The types.
LandingTypeOK ==
  /\ ViewsTypeOK
  /\ theme \in DOMAIN Themes
  /\ cache \in [DOMAIN Themes -> {Unknown} \cup DOMAIN Themes]
  /\ spine \in {Unknown} \cup DOMAIN Themes
  /\ switches \in 0..Switches /\ picks \in 0..Picks /\ faded \in BOOLEAN

\* "Cached per theme so a theme switch re-resolves" (src/web/spine.js 55-56): a spine
\* that was mounted since the last switch is in the colours of the theme, however
\* switches, reloads, landing pages and theaters posted late follow one another.
\* A spine on the page during a switch keeps the colours it had.
SpineWearsItsTheme == spine # Unknown /\ ~ faded => spine = theme
=============================================================================
