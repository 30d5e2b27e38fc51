----------------------------- MODULE PanelProofs -----------------------------
(***************************************************************************)
(* Why the person at the device can rely on the panel, for any number of   *)
(* screens, levels, frames, restarts and faults.                           *)
(***************************************************************************)
EXTENDS MCPanel, SequenceTheorems, TLAPS

-----------------------------------------------------------------------------
(* The buttons of the RP2040's panel (PanelInput)                          *)

\* What the dashboard draws itself, and what it drew last; the screens of two
\* others; a press that has not acted and was made on this view, or on an
\* update's; a press of LEFT that the dashboard need not act upon when it is let
\* go.
AlertView == View("alert", "", 0)
InfoView == View("info", "", 0)
DashViews == {Dash, AlertView, InfoView}
LastView == IF alert.drawn THEN AlertView ELSE IF info.drawn THEN InfoView ELSE Dash
FwView == View("fw", "", 0)
TrustView == View("trust", "", 0)
Untaken(b, view) == press[b].at \in {view, FwView} /\ press[b].acts = 0
LeftDone == nav.left => nav.consumed

\* The types.
TrustOK(t) == t \in [on : BOOLEAN, init : BOOLEAN, prev : SUBSET Buttons]
Pages == {"root", "bright", "info", "output", "confirm"}
MenuOK(m) == m \in [on : BOOLEAN, page : Pages, cursor : 0..(NumRoot - 1),
                  sub : 0..1, prev : SUBSET Buttons, init : BOOLEAN, notice : BOOLEAN]
Layer(l) == l \in [active : BOOLEAN, drawn : BOOLEAN]
Types ==
    /\ down \subseteq Buttons /\ scr \in 0..(ScreenCount - 1) /\ frames \in 0..MaxFrames
    /\ nav \in [seen : SUBSET Buttons, right : BOOLEAN, left : BOOLEAN, consumed : BOOLEAN, held : BOOLEAN,
                 fired : BOOLEAN, home : BOOLEAN]
    /\ MenuOK(menu) /\ TrustOK(trust) /\ Layer(alert) /\ Layer(info)
    /\ set \in Blobs /\ flash \in Blobs
    /\ {crossed, guard, pending, fromLocal, answered, fw} \subseteq BOOLEAN

\* A press has acted at most once, and is remembered with what was shown.
PressOK == /\ press = [b \in Buttons |-> press[b]]
           /\ \A b \in Buttons : DOMAIN press[b] = {"at", "acts"} /\ press[b].acts \in 0..1

\* Who owns the display: prompt before menu, each with the release guard up once
\* it has looked at the buttons; an update closes the menu.
Priority ==
    /\ trust.on => ~menu.on
    /\ trust.init => trust.on /\ guard /\ ~pending
    /\ menu.on /\ menu.init => guard /\ ~fw

\* What the dashboard remembers of the buttons is what it saw.  A LEFT it still
\* has to act upon was pressed on one of its own views or an update's, unless
\* somebody else has had the display and it may have been let go since.
OwedWell == press["left"].acts = 0 /\ press["left"].at \in DashViews \cup {FwView}
Memory ==
    /\ nav.consumed => nav.left /\ nav.fired
    /\ ~guard => /\ nav.right = ("right" \in nav.seen)
                 /\ nav.left = ("left" \in nav.seen)
    /\ ~LeftDone /\ ~crossed => shown \in DashViews /\ OwedWell
    /\ ~LeftDone /\ ~guard /\ "left" \in down => OwedWell

\* Buttons the owner of the display has not seen down were pressed on what it
\* shows, and have not acted: for the prompt, the menu and the dashboard.
TrustFresh == trust.init =>
    /\ shown \in {FwView, TrustView}
    /\ \A b \in down \ trust.prev : Untaken(b, TrustView)
MenuFresh == menu.on /\ menu.init =>
    /\ shown = MenuView(menu)
    /\ \A b \in down \ menu.prev : Untaken(b, MenuView(menu))
DashFresh == ~guard =>
    /\ shown \in {LastView, FwView} /\ ~(alert.drawn /\ info.drawn)
    /\ \A b \in down \ nav.seen : Untaken(b, LastView)

\* The inductive invariant.
IInv == Types /\ PressOK /\ Priority /\ Memory /\ TrustFresh /\ MenuFresh /\ DashFresh
        /\ AsShown /\ NoticeTrue /\ SettingsKept /\ (answered => ~pending)

-----------------------------------------------------------------------------
\* The books of the presses.
LEMMA AccountKeeps ==
  ASSUME NEW effects, PressOK, AsShown, Account(effects),
         \A e \in effects : /\ e.button \in Buttons /\ Matches(press[e.button].at, e.by)
                            /\ press[e.button].acts = 0
  PROVE  /\ AsShown' /\ PressOK'
         /\ \A b \in Buttons : /\ press'[b].at = press[b].at
                               /\ (\A e \in effects : e.button # b) => press'[b].acts = press[b].acts
<1>1. AsShown'
  BY DEF Account, AsShown
<1>2. press' = [b \in Buttons |->
                   IF \E e \in effects : e.button = b
                   THEN [press[b] EXCEPT !.acts = IF @ = 2 THEN 2 ELSE @ + 1] ELSE press[b]]
  BY DEF Account
<1>3. ASSUME NEW b \in Buttons
      PROVE  /\ DOMAIN press'[b] = {"at", "acts"} /\ press'[b].acts \in 0..1
             /\ press'[b].at = press[b].at
             /\ (\A e \in effects : e.button # b) => press'[b].acts = press[b].acts
  <2>1. CASE \E e \in effects : e.button = b
    <3>1. press[b].acts = 0
      BY <2>1
    <3>2. press'[b] = [press[b] EXCEPT !.acts = IF @ = 2 THEN 2 ELSE @ + 1]
      BY <2>1, <1>2
    <3>3. press'[b].acts = 1
      BY <3>1, <3>2 DEF PressOK
    <3> QED
      BY <2>1, <3>2, <3>3 DEF PressOK
  <2>2. CASE ~\E e \in effects : e.button = b
    BY <2>2, <1>2 DEF PressOK
  <2> QED
    BY <2>1, <2>2
<1> QED
  BY <1>1, <1>2, <1>3 DEF PressOK

\* A pass in which nobody acts leaves the presses alone.
LEMMA NothingDone ==
  ASSUME PressOK, AsShown, Account({})
  PROVE  AsShown' /\ press' = press
<1>1. AsShown'
  BY DEF Account, AsShown
<1>2. press' = [b \in Buttons |-> press[b]]
  BY DEF Account
<1> QED
  BY <1>1, <1>2 DEF PressOK

\* The views are what they are.
LEMMA ViewFacts ==
  /\ FwView.who = "fw" /\ TrustView.who = "trust" /\ FwView # TrustView
  /\ \A m : MenuView(m).who = "menu"
  /\ Dash.who = "dash" /\ AlertView.who = "alert" /\ InfoView.who = "info"
  /\ LastView \in DashViews
BY DEF FwView, TrustView, View, MenuView, Dash, AlertView, InfoView, LastView, DashViews

-----------------------------------------------------------------------------
USE PanelConstants

\* A button goes down: what is shown is what it was pressed on.
LEMMA PressStep ==
  ASSUME IInv, NEW b \in Buttons, Press(b)
  PROVE  IInv'
<1> USE DEF Press, IInv
<1>1. PressOK' /\ press'[b] = [at |-> shown, acts |-> 0] /\ \A c \in Buttons \ {b} : press'[c] = press[c]
  BY DEF PressOK
<1>2. Types'
  BY DEF Types, display, Blobs
<1>3. Priority'
  BY DEF Priority, display
<1>4. UNCHANGED <<LeftDone, LastView, MenuView(menu)>>
  BY DEF display, LeftDone, LastView, MenuView
<1>5. ASSUME NEW view, shown \in {view, FwView}, NEW seen, \A c \in down \ seen : Untaken(c, view),
             NEW c \in down' \ seen
      PROVE  Untaken(c, view)'
  <2>1. CASE c = b
    BY <1>5, <2>1, <1>1 DEF Untaken
  <2>2. CASE c # b
    BY <1>5, <2>2, <1>1 DEF Untaken, Types
  <2> QED
    BY <2>1, <2>2
<1>6. Memory'
  <2>1. ASSUME shown \in DashViews \cup {FwView}, b = "left"
        PROVE  OwedWell'
    BY <2>1, <1>1 DEF OwedWell
  <2>2. ASSUME OwedWell, b # "left"
        PROVE  OwedWell'
    BY <2>2, <1>1 DEF OwedWell, Buttons
  <2>3. ~guard => shown \in DashViews \cup {FwView}
    BY ViewFacts DEF DashFresh
  <2> QED
    BY <1>4, <2>1, <2>2, <2>3 DEF Memory, display
<1>7. TrustFresh' /\ MenuFresh' /\ DashFresh'
  <2>1. TrustFresh'
    BY <1>5 DEF TrustFresh, display
  <2>2. MenuFresh'
    BY <1>4, <1>5 DEF MenuFresh, display
  <2>3. DashFresh'
    BY <1>4, <1>5 DEF DashFresh, display
  <2> QED
    BY <2>1, <2>2, <2>3
<1> QED
  BY <1>1, <1>2, <1>3, <1>6, <1>7 DEF display, AsShown, NoticeTrue, SettingsKept

\* A button goes up; the press of LEFT is kept for the dashboard's pass.
LEMMA ReleaseStep ==
  ASSUME IInv, NEW b \in Buttons, Release(b)
  PROVE  IInv'
<1> USE DEF Release, IInv
<1>1. PressOK' /\ (\A c \in Buttons \ {b} : press'[c] = press[c]) /\ (~LeftDone => press'["left"] = press["left"])
  BY DEF PressOK, NotPressed, ActsOnRelease, LeftOwed, LeftDone
<1>2. Types'
  BY DEF Types, display, Blobs
<1>3. Priority'
  BY DEF Priority, display
<1>4. Memory'
  BY <1>1 DEF Memory, OwedWell, display, LeftDone, Buttons
<1>5. TrustFresh'
  BY <1>1 DEF TrustFresh, display, Untaken, Types
<1>6. MenuFresh'
  BY <1>1 DEF MenuFresh, display, Untaken, Types, MenuView
<1>7. DashFresh'
  BY <1>1 DEF DashFresh, LastView, display, Untaken, Types
<1> QED
  BY <1>1, <1>2, <1>3, <1>4, <1>5, <1>6, <1>7 DEF display, AsShown, NoticeTrue, SettingsKept

\* A pass while an update session owns the display: nobody looks at buttons.
LEMMA FwPassStep ==
  ASSUME IInv, FwPass
  PROVE  IInv'
<1> USE DEF FwPass, IInv
<1>1. AsShown' /\ press' = press
  BY NothingDone
<1>2. Types' /\ PressOK'
  BY <1>1 DEF Types, Crosses, PressOK
<1>3. Priority' /\ Memory' /\ TrustFresh' /\ MenuFresh' /\ DashFresh'
  BY <1>1 DEF Priority, Crosses, LeftOwed, LeftDone, FwView, LastView, Memory, OwedWell, TrustFresh, MenuFresh,
              DashFresh, Untaken
<1> QED
  BY <1>1, <1>2, <1>3 DEF display, NoticeTrue, SettingsKept

\* trust_ui_tick: the prompt takes the buttons as it finds them at first, and
\* acts on those pressed since.
LEMMA TrustPassStep ==
  ASSUME IInv, TrustPass
  PROVE  IInv'
<1> USE DEF TrustPass, IInv
<1>1. CASE trust' = Off /\ Account({}) /\ UNCHANGED shown
  <2>1. AsShown' /\ press' = press
    BY <1>1, NothingDone
  <2>2. Types' /\ PressOK'
    BY <1>1, <2>1 DEF Types, Crosses, TrustOK, Off, PressOK
  <2>3. Priority' /\ Memory' /\ TrustFresh' /\ MenuFresh' /\ DashFresh'
    BY <1>1, <2>1 DEF Priority, Crosses, LeftOwed, LeftDone, Memory, OwedWell, TrustFresh, MenuFresh, DashFresh, Off
  <2> QED
    BY <2>1, <2>2, <2>3 DEF NoticeTrue, SettingsKept, Types
<1>2. CASE /\ trust' = [trust EXCEPT !.init = TRUE, !.prev = down]
           /\ Account({Effect(b, TrustView) : b \in {b \in down : trust.init /\ b \notin trust.prev}})
           /\ shown' = TrustView
  <2> DEFINE E == {Effect(b, TrustView) : b \in {b \in down : trust.init /\ b \notin trust.prev}}
  <2>1. \A e \in E : e.button \in Buttons /\ Matches(press[e.button].at, e.by) /\ press[e.button].acts = 0
    <3>1. ASSUME NEW b \in down, trust.init, b \notin trust.prev
          PROVE  Untaken(b, TrustView)
      BY <3>1 DEF TrustFresh
    <3> QED
      <4> SUFFICES ASSUME NEW b \in down, trust.init, b \notin trust.prev
                   PROVE  LET e == Effect(b, TrustView) IN
                          e.button \in Buttons /\ Matches(press[e.button].at, e.by) /\ press[e.button].acts = 0
        OBVIOUS
      <4>1. Effect(b, TrustView).button = b /\ Effect(b, TrustView).by = TrustView
        BY DEF Effect
      <4>2. b \in Buttons /\ Untaken(b, TrustView)
        BY <3>1 DEF Types
      <4> QED
        BY <4>1, <4>2, ViewFacts DEF Matches, Untaken
  <2>2. AsShown' /\ PressOK' /\ (\A b \in Buttons : press'[b].at = press[b].at)
    BY <1>2, <2>1, AccountKeeps
  <2>3. Types'
    BY <1>2 DEF Types, Crosses, TrustOK
  <2>4. trust'.on /\ trust'.init /\ trust'.prev = down
    BY <1>2 DEF Types, TrustOK
  <2>5. Priority' /\ TrustFresh' /\ MenuFresh' /\ DashFresh'
    BY <1>2, <2>4, ViewFacts DEF Priority, TrustFresh, MenuFresh, DashFresh
  <2>6. Memory'
    BY DEF Memory, Crosses, LeftOwed, LeftDone
  <2> QED
    BY <2>2, <2>3, <2>5, <2>6 DEF NoticeTrue, SettingsKept, Types
<1> QED
  BY <1>1, <1>2 DEF TrustView

-----------------------------------------------------------------------------
\* What the menu may become by an edge, and by a pass.
MenuGoes(m) ==
    /\ MenuOK(menu') /\ (menu'.on => menu'.prev = m.prev)
    /\ set' \in Blobs /\ flash' \in Blobs /\ (~menu'.on => flash' = set')
    /\ {pending', fromLocal', answered'} \subseteq BOOLEAN /\ (answered' => ~pending') /\ blamed' = blamed

\* The places of the menu's entries.
LEMMA IndexOK ==
  ASSUME NEW x \in {"bright", "info", "output", "network"}
  PROVE  IndexOf(x) \in 0..(NumRoot - 1)
<1>1. /\ Items[0 + 1] = "bright" /\ Items[2 + 1] = "info" /\ Items[3 + 1] = "output" /\ Items[4 + 1] = "network"
  BY DEF Items
<1> QED
  BY <1>1 DEF IndexOf, NumRoot

\* Settings stay settings, changed or read back from an older version.
LEMMA SetOK ==
  ASSUME NEW f \in Blobs
  PROVE  /\ [f EXCEPT !.bright = (@ + 1) % Levels] \in Blobs
         /\ [f EXCEPT !.sound = ~@] \in Blobs
         /\ ui_settings_begin(f) \in Blobs /\ Default \in Blobs
<1>1. \A n \in Int : n % Levels \in 0..(Levels - 1)
  OBVIOUS
<1>2. Default \in Blobs
  BY DEF Default, Blobs, Version
<1> QED
  <2>1. [f EXCEPT !.bright = (@ + 1) % Levels] \in Blobs
    <3>1. (f.bright + 1) % Levels \in 0..(Levels - 1)
      BY <1>1 DEF Blobs
    <3> QED
      BY <3>1 DEF Blobs
  <2>2. [f EXCEPT !.sound = ~@] \in Blobs
    BY DEF Blobs
  <2>3. ui_settings_begin(f) \in Blobs
    BY <1>2 DEF Blobs, ui_settings_begin
  <2> QED
    BY <1>2, <2>1, <2>2, <2>3

\* A row of a page with two.
LEMMA Zero == 0 \in 0..1
OBVIOUS

\* A page of the menu, or a row of one, is a menu.
Turned(m, n) ==
    \/ \E p \in Pages, s \in 0..1 : n = [m EXCEPT !.page = p, !.sub = s]
    \/ \E p \in Pages, c \in 0..(NumRoot - 1) : n = [m EXCEPT !.page = p, !.cursor = c]
    \/ n = [m EXCEPT !.sub = 1 - m.sub]

\* Turning a page or moving in one keeps the menu's types and its memory.
LEMMA TurnsTo ==
  ASSUME NEW m, MenuOK(m), NEW n, Turned(m, n)
  PROVE  MenuOK(n) /\ n.prev = m.prev /\ n.on = m.on
<1>1. 1 - m.sub \in 0..1
  BY DEF MenuOK
<1>2. CASE \E p \in Pages, s \in 0..1 : n = [m EXCEPT !.page = p, !.sub = s]
  BY <1>2 DEF MenuOK
<1>3. CASE \E p \in Pages, c \in 0..(NumRoot - 1) : n = [m EXCEPT !.page = p, !.cursor = c]
  BY <1>3 DEF MenuOK
<1>4. CASE n = [m EXCEPT !.sub = 1 - m.sub]
  BY <1>1, <1>4 DEF MenuOK
<1> QED
  BY <1>2, <1>3, <1>4 DEF Turned

\* The menu, closed and just opened.
LEMMA OpenedOK ==
  /\ MenuOK(MenuOff) /\ ~MenuOff.on
  /\ MenuOK(Opened) /\ Opened.on /\ ~Opened.init
<1>1. MenuOK(MenuOff) /\ ~MenuOff.on /\ ~MenuOff.init
  <2>1. "root" \in Pages /\ 0 \in 0..(NumRoot - 1) /\ 0 \in 0..1
    BY DEF Pages, NumRoot
  <2> QED
    BY <2>1 DEF MenuOff, MenuOK
<1> HIDE DEF MenuOff
<1>2. Opened = [MenuOff EXCEPT !.on = TRUE]
  BY DEF Opened
<1> QED
  BY <1>1, <1>2 DEF MenuOK

\* handle_edge: one press on any page of the local menu.
LEMMA EdgeHandled ==
  ASSUME NEW m, MenuOK(m), m.on, NEW b \in Buttons, handle_edge(m, b), Types, answered => ~pending
  PROVE  MenuGoes(m)
<1> USE DEF MenuGoes
<1>0. /\ set \in Blobs /\ flash \in Blobs /\ {pending, fromLocal, answered} \subseteq BOOLEAN
      /\ [set EXCEPT !.bright = (@ + 1) % Levels] \in Blobs /\ [set EXCEPT !.sound = ~@] \in Blobs
  BY SetOK DEF Types
<1>1. CASE Root(m, b)
  <2>1. (m.cursor + 1) % NumRoot \in 0..(NumRoot - 1)
    BY DEF MenuOK, NumRoot
  <2>2. CASE b = "left" /\ menu' = [m EXCEPT !.cursor = (@ + 1) % NumRoot]
             /\ UNCHANGED <<set, flash, pending, fromLocal, answered, blamed>>
    BY <1>0, <2>1, <2>2 DEF MenuOK
  <2>3. CASE Items[m.cursor + 1] \in {"bright", "info", "output"}
             /\ menu' = [m EXCEPT !.page = Items[m.cursor + 1], !.sub = 0]
             /\ UNCHANGED <<set, flash, pending, fromLocal, answered, blamed>>
    <3>1. PICK p \in Pages : menu' = [m EXCEPT !.page = p, !.sub = 0]
      BY <2>3 DEF Pages
    <3>2. MenuOK(menu') /\ menu'.prev = m.prev /\ menu'.on
      <4>1. Turned(m, menu')
        BY <3>1, Zero DEF Turned
      <4> QED
        BY <4>1, TurnsTo
    <3> QED
      BY <1>0, <2>3, <3>2
  <2>4. CASE set' = [set EXCEPT !.sound = ~@] /\ ui_settings_commit
             /\ menu' = m /\ UNCHANGED <<pending, fromLocal, answered, blamed>>
    BY <1>0, <2>4 DEF ui_settings_commit
  <2>5. CASE UNCHANGED set /\ pending' = TRUE /\ fromLocal' = TRUE /\ answered' = FALSE
             /\ local_menu_close /\ UNCHANGED blamed
    BY <1>0, <2>5, OpenedOK DEF local_menu_close, ui_settings_commit
  <2>6. CASE UNCHANGED set /\ local_menu_close /\ UNCHANGED <<pending, fromLocal, answered, blamed>>
    BY <1>0, <2>6, OpenedOK DEF local_menu_close, ui_settings_commit
  <2> QED
    BY <1>1, <2>2, <2>3, <2>4, <2>5, <2>6 DEF Root
<1>2. CASE Bright(m, b)
  <2>1. CASE b = "right"
    BY <1>0, <1>2, <2>1 DEF Bright
  <2>2. CASE b # "right"
    <3>1. menu' = [m EXCEPT !.page = "root", !.cursor = IndexOf("bright")] /\ IndexOf("bright") \in 0..(NumRoot - 1)
      BY <1>2, <2>2, IndexOK DEF Bright
    <3>2. MenuOK(menu') /\ menu'.prev = m.prev /\ menu'.on
      <4>1. Turned(m, menu')
        BY <3>1 DEF Turned, Pages
      <4> QED
        BY <4>1, TurnsTo
    <3> QED
      BY <1>0, <1>2, <2>2, <3>2 DEF Bright, ui_settings_commit
  <2> QED
    BY <2>1, <2>2
<1>3. CASE Info(m, b)
  <2>1. MenuOK(menu') /\ menu'.prev = m.prev /\ menu'.on
    <3>1. Turned(m, menu')
      BY <1>3, IndexOK DEF Info, Turned, Pages
    <3> QED
      BY <3>1, TurnsTo
  <2> QED
    BY <1>0, <1>3, <2>1 DEF Info
<1>4. CASE Output(m, b)
  <2>1. IndexOf("output") \in 0..(NumRoot - 1)
    BY IndexOK
  <2>2. \/ menu' = [m EXCEPT !.sub = 1 - m.sub]
        \/ menu' = [m EXCEPT !.page = "root", !.cursor = IndexOf("output")]
        \/ menu' = [m EXCEPT !.page = "confirm", !.sub = 0]
        \/ menu' = m
    BY <1>4 DEF Output, MenuOK
  <2>3. MenuOK(menu') /\ menu'.prev = m.prev /\ menu'.on
    <3>1. Turned(m, menu') \/ menu' = m
      <4>1. "root" \in Pages /\ "confirm" \in Pages
        BY DEF Pages
      <4> QED
        BY <2>1, <2>2, <4>1, Zero DEF Turned
    <3> QED
      BY <3>1, TurnsTo
  <2> QED
    BY <1>0, <1>4, <2>3 DEF Output
<1>5. CASE Confirm(m, b)
  <2>1. 1 - m.sub \in 0..1
    BY DEF MenuOK
  <2>2. \/ menu' = [m EXCEPT !.sub = 1 - m.sub]
        \/ menu' = [m EXCEPT !.page = "output", !.sub = 0]
    BY <1>5 DEF Confirm, MenuOK
  <2>3. MenuOK(menu') /\ menu'.prev = m.prev /\ menu'.on
    <3>1. Turned(m, menu')
      <4>1. "output" \in Pages
        BY DEF Pages
      <4> QED
        BY <2>2, <4>1, Zero DEF Turned
    <3> QED
      BY <3>1, TurnsTo
  <2> QED
    BY <1>0, <1>5, <2>3 DEF Confirm
<1> QED
  BY <1>1, <1>2, <1>3, <1>4, <1>5 DEF handle_edge, MenuOK, Pages

\* local_menu_tick: the presses since the last pass, RIGHT first.
LEMMA MenuPassStep ==
  ASSUME IInv, MenuPass
  PROVE  IInv'
<1> USE DEF IInv
<1> DEFINE m == [menu EXCEPT !.prev = down]
<1>1. /\ MenuOK(m) /\ m.prev = down /\ m.on /\ m.init = menu.init /\ MenuView(m) = MenuView(menu)
      /\ MenuOK([m EXCEPT !.notice = FALSE]) /\ [m EXCEPT !.notice = FALSE].prev = down
      /\ [m EXCEPT !.notice = FALSE].on
  BY DEF MenuPass, Types, MenuOK, MenuView
<1>2. /\ ~fw /\ ~trust.on /\ menu.on /\ guard' = TRUE /\ Crosses
      /\ UNCHANGED <<down, scr, nav, trust, fw, alert, info, frames>>
  BY DEF MenuPass
<1>3. set \in Blobs /\ flash \in Blobs /\ {pending, fromLocal, answered} \subseteq BOOLEAN
  BY DEF Types
<1>4. MenuGoes(m) /\ AsShown' /\ PressOK'
  <2>1. CASE MenuAdopts
    <3>1. /\ menu' = [menu EXCEPT !.init = TRUE, !.prev = down] /\ Account({})
          /\ UNCHANGED <<set, flash, pending, fromLocal, answered, blamed>>
      BY <2>1 DEF MenuPass
    <3> QED
      BY <3>1, <1>2, <1>3, NothingDone DEF MenuGoes, Types, MenuOK, PressOK
  <2>2. CASE ~MenuAdopts
    <3>0. Ticks(m) /\ menu.init
      BY <2>2 DEF MenuPass, MenuAdopts
    <3>1. CASE /\ m.notice /\ menu' = m /\ Account({})
               /\ UNCHANGED <<set, flash, pending, fromLocal, answered, blamed>>
      BY <3>1, <1>1, <1>3, NothingDone DEF MenuGoes, PressOK
    <3>2. CASE /\ Edges # {} /\ Account({Effect(First(Edges), MenuView(m))})
               /\ handle_edge([m EXCEPT !.notice = FALSE], First(Edges))
      <4>1. First(Edges) \in Edges /\ First(Edges) \in Buttons
        BY <3>2 DEF First, Edges, Types, Buttons
      <4>2. Untaken(First(Edges), MenuView(m))
        BY <4>1, <3>0, <1>1, <1>2 DEF MenuFresh, Edges
      <4>3. \A e \in {Effect(First(Edges), MenuView(m))} :
               e.button \in Buttons /\ Matches(press[e.button].at, e.by) /\ press[e.button].acts = 0
        BY <4>1, <4>2, ViewFacts DEF Effect, Matches, Untaken
      <4>4. AsShown' /\ PressOK'
        BY <3>2, <4>3, AccountKeeps
      <4>5. MenuGoes([m EXCEPT !.notice = FALSE])
        BY <3>2, <4>1, <1>1, EdgeHandled
      <4> QED
        BY <4>4, <4>5, <1>1 DEF MenuGoes
    <3>3. CASE /\ Account({}) /\ menu' = [m EXCEPT !.notice = FALSE]
               /\ UNCHANGED <<set, flash, pending, fromLocal, answered, blamed>>
      BY <3>3, <1>1, <1>3, NothingDone DEF MenuGoes, PressOK
    <3>4. CASE /\ Account({}) /\ UNCHANGED set
               /\ local_menu_close /\ UNCHANGED <<pending, fromLocal, answered, blamed>>
      BY <3>4, <1>1, <1>3, NothingDone, OpenedOK DEF MenuGoes, PressOK, local_menu_close, ui_settings_commit
    <3> QED
      BY <3>0, <3>1, <3>2, <3>3, <3>4 DEF Ticks
  <2> QED
    BY <2>1, <2>2
<1>5. shown' = IF menu'.on THEN MenuView(menu') ELSE shown
  BY DEF MenuPass
<1>6. Types'
  BY <1>2, <1>4 DEF Types, Crosses, MenuGoes
<1>7. Priority'
  BY <1>2 DEF Priority
<1>8. Memory'
  BY <1>2 DEF Memory, Crosses, LeftOwed, LeftDone
<1>9. TrustFresh' /\ MenuFresh' /\ DashFresh'
  BY <1>1, <1>2, <1>4, <1>5 DEF Priority, TrustFresh, MenuFresh, DashFresh, MenuGoes
<1> QED
  BY <1>4, <1>6, <1>7, <1>8, <1>9 DEF MenuGoes, NoticeTrue, SettingsKept

-----------------------------------------------------------------------------
\* A pass under the release guard: nothing acts until all is let go.
LEMMA GuardPassStep ==
  ASSUME IInv, GuardPass
  PROVE  IInv'
<1> USE DEF GuardPass, IInv
<1>1. AsShown' /\ press' = press
  BY NothingDone
<1>2. Types' /\ PressOK'
  BY <1>1 DEF Types, display, Blobs, PressOK
<1>3. Priority' /\ Memory' /\ TrustFresh' /\ MenuFresh' /\ DashFresh'
  BY <1>1 DEF Priority, display, LeftDone, Memory, OwedWell, TrustFresh, MenuFresh, DashFresh, LastView, Untaken, MenuView
<1> QED
  BY <1>1, <1>2, <1>3 DEF display, NoticeTrue, SettingsKept

\* A press the dashboard has not seen was made on what the dashboard drew last,
\* or on an update's screen.
LEMMA FreshOnDash ==
  ASSUME IInv, OnDash, NEW b \in down \ nav.seen
  PROVE  ~guard /\ Untaken(b, LastView) /\ ~(alert.drawn /\ info.drawn) /\ b \in Buttons
BY DEF IInv, OnDash, Free, DashFresh, Types

\* A message is closed by presses made on it, and the presses are used up.
LEMMA DismissStep ==
  ASSUME IInv, OnDash, FreshPress # {}, guard' = TRUE, nav' = [nav EXCEPT !.seen = down],
         NEW view, \A b \in FreshPress : Untaken(b, view),
         Account({Effect(b, view) : b \in FreshPress}),
         UNCHANGED <<down, shown, scr, crossed, trust, menu, pending, fromLocal, answered, blamed, fw, set, flash, frames>>,
         Layer(alert'), Layer(info')
  PROVE  IInv'
<1> USE DEF IInv
<1> DEFINE E == {Effect(b, view) : b \in FreshPress}
<1>1. \A e \in E : e.button \in Buttons /\ Matches(press[e.button].at, e.by) /\ press[e.button].acts = 0
  <2> SUFFICES ASSUME NEW b \in FreshPress
               PROVE  LET e == Effect(b, view) IN
                      e.button \in Buttons /\ Matches(press[e.button].at, e.by) /\ press[e.button].acts = 0
    OBVIOUS
  <2>1. Effect(b, view).button = b /\ Effect(b, view).by = view
    BY DEF Effect
  <2>2. b \in Buttons /\ Untaken(b, view)
    BY DEF Types, FreshPress
  <2> QED
    BY <2>1, <2>2, ViewFacts DEF Matches, Untaken
<1>2. /\ AsShown' /\ PressOK'
      /\ \A b \in Buttons : /\ press'[b].at = press[b].at
                            /\ (\A e \in E : e.button # b) => press'[b].acts = press[b].acts
  BY <1>1, AccountKeeps
<1>3. nav' \in [seen : SUBSET Buttons, right : BOOLEAN, left : BOOLEAN, consumed : BOOLEAN, held : BOOLEAN,
                 fired : BOOLEAN, home : BOOLEAN]
      /\ nav'.left = nav.left /\ nav'.consumed = nav.consumed /\ nav'.fired = nav.fired
  BY DEF Types
<1>4. Types'
  BY <1>3 DEF Types
<1>5. PICK f \in FreshPress : TRUE
  OBVIOUS
<1>6. ~guard /\ down # {}
  BY <1>5, FreshOnDash DEF FreshPress
<1>7. Priority'
  BY DEF Priority, OnDash, Free
<1>8. Memory'
  <2>1. ASSUME ~LeftDone', ~crossed
        PROVE  OwedWell' /\ shown' \in DashViews
    <3>1. "left" \in nav.seen /\ OwedWell /\ shown \in DashViews
      BY <2>1, <1>3, <1>6 DEF Memory, LeftDone
    <3>2. \A e \in E : e.button # "left"
      BY <3>1 DEF FreshPress, Effect
    <3> QED
      BY <3>1, <3>2, <1>2 DEF OwedWell, Buttons
  <2> QED
    BY <1>3, <2>1 DEF Memory
<1>9. TrustFresh' /\ MenuFresh' /\ DashFresh'
  BY DEF TrustFresh, MenuFresh, DashFresh, OnDash, Free, Priority
<1> QED
  BY <1>2, <1>4, <1>7, <1>8, <1>9 DEF NoticeTrue, SettingsKept

\* A press closes the banner it was made on.
LEMMA DismissAlertStep ==
  ASSUME IInv, DismissAlert
  PROVE  IInv'
<1>1. \A b \in FreshPress : Untaken(b, View("alert", "", 0))
  <2> SUFFICES ASSUME NEW b \in FreshPress
               PROVE  Untaken(b, AlertView)
    BY DEF AlertView
  <2>1. Untaken(b, LastView) /\ alert.drawn /\ ~(alert.drawn /\ info.drawn)
    BY FreshOnDash DEF DismissAlert, FreshPress, Dismisses
  <2> QED
    BY <2>1 DEF LastView
<1>2. FreshPress # {}
  BY DEF DismissAlert, Dismisses
<1>4. Layer(alert') /\ Layer(info')
  BY DEF DismissAlert, IInv, Types, Layer, Quiet
<1> QED
  BY <1>1, <1>2, <1>4, DismissStep DEF DismissAlert

\* A press closes the notice it was made on.
LEMMA DismissInfoStep ==
  ASSUME IInv, DismissInfo
  PROVE  IInv'
<1>1. \A b \in FreshPress : Untaken(b, View("info", "", 0))
  <2> SUFFICES ASSUME NEW b \in FreshPress
               PROVE  Untaken(b, InfoView)
    BY DEF InfoView
  <2>1. Untaken(b, LastView) /\ info.drawn /\ ~(alert.drawn /\ info.drawn)
    BY FreshOnDash DEF DismissInfo, FreshPress, Dismisses
  <2> QED
    BY <2>1 DEF LastView
<1>2. FreshPress # {}
  BY DEF DismissInfo, Dismisses
<1>4. Layer(alert') /\ Layer(info')
  BY DEF DismissInfo, IInv, Types, Layer, Quiet
<1> QED
  BY <1>1, <1>2, <1>4, DismissStep DEF DismissInfo

\* The dashboard's memory of the buttons.
NavSet == [seen : SUBSET Buttons, right : BOOLEAN, left : BOOLEAN, consumed : BOOLEAN, held : BOOLEAN,
           fired : BOOLEAN, home : BOOLEAN]

\* What the hold makes of the memory.
LEMMA HoldFacts ==
  ASSUME nav \in NavSet, scr \in Int, NEW due \in BOOLEAN
  PROVE  /\ Hold(due) \in NavSet /\ Hold(due).left = nav.left
         /\ "left" \in down => /\ nav.fired => Hold(due).fired
                               /\ Hold(due).consumed = (nav.consumed \/ (Hold(due).fired /\ ~nav.fired))
         /\ "left" \notin down => ~Hold(due).fired /\ Hold(due).consumed = nav.consumed
<1>1. CASE "left" \in down
  <2> DEFINE home == IF nav.held THEN nav.home ELSE scr = 0
             fires == nav.held /\ home /\ ~nav.fired /\ due
  <2>1. home \in BOOLEAN
    BY DEF NavSet
  <2>2. fires \in BOOLEAN
    OBVIOUS
  <2>3. Hold(due) = [nav EXCEPT !.held = TRUE, !.home = home, !.fired = @ \/ fires, !.consumed = @ \/ fires]
    BY <1>1 DEF Hold
  <2> HIDE DEF home
  <2>4. fires => ~nav.fired
    OBVIOUS
  <2> HIDE DEF fires
  <2> QED
    BY <1>1, <2>1, <2>2, <2>3, <2>4 DEF NavSet
<1>2. CASE "left" \notin down
  BY <1>2 DEF Hold, NavSet
<1> QED
  BY <1>1, <1>2

\* The dashboard's pass: RIGHT on its edge, LEFT when it is let go or held, the
\* hand-off, and what is drawn at the end.
LEMMA DashPassStep ==
  ASSUME IInv, DashPass
  PROVE  IInv'
<1> USE DEF IInv
<1>1. PICK due, late, idle, covers \in BOOLEAN :
          LET h == Hold(due)
              fires == h.fired /\ ~nav.fired
              next == "right" \in down /\ ~nav.right
              up == nav.left /\ "left" \notin down
              back == up /\ ~h.consumed
              to == (scr + (IF next THEN 1 ELSE 0) + (IF back THEN ScreenCount - 1 ELSE 0)) % ScreenCount IN
          /\ nav' = [h EXCEPT !.seen = down, !.right = "right" \in down, !.left = "left" \in down,
                              !.consumed = @ /\ ~up]
          /\ crossed' = (crossed /\ nav'.left)
          /\ menu' = IF Reopens(late).on THEN Reopens(late) ELSE IF fires THEN Opened ELSE menu
          /\ pending' = (pending /\ ~late) /\ answered' = (answered /\ pending')
          /\ blamed' = (blamed \/ (answered /\ pending /\ late))
          /\ fromLocal' = (fromLocal /\ pending)
          /\ scr' = IF idle /\ ~next /\ ~back THEN 0 ELSE to
          /\ Account({Effect("left", Dash) : x \in {y \in {1} : fires \/ (back /\ ~crossed)}}
                     \cup {Effect("right", Dash) : x \in {y \in {1} : next}})
          /\ alert' = [alert EXCEPT !.drawn = alert.active /\ ~covers]
          /\ info' = [info EXCEPT !.drawn = info.active /\ ~covers /\ ~alert.active]
          /\ shown' = IF alert'.drawn THEN View("alert", "", 0) ELSE IF info'.drawn THEN View("info", "", 0) ELSE Dash
  BY DEF DashPass
<1> DEFINE h == Hold(due)
           fires == h.fired /\ ~nav.fired
           next == "right" \in down /\ ~nav.right
           up == nav.left /\ "left" \notin down
           back == up /\ ~h.consumed
           known == back /\ ~crossed
           E == {Effect("left", Dash) : x \in {y \in {1} : fires \/ known}}
                  \cup {Effect("right", Dash) : x \in {y \in {1} : next}}
<1>2. ~fw /\ ~trust.on /\ ~menu.on /\ (guard => down = {}) /\ ~trust.init /\ OnDash
      /\ guard' = FALSE /\ UNCHANGED <<down, trust, fw, set, flash, frames>>
  BY DEF DashPass, OnDash, Free, Priority
<1>3. nav \in NavSet /\ scr \in Int
  BY DEF Types, NavSet
<1>4. /\ h \in NavSet /\ h.left = nav.left
      /\ "left" \in down => (nav.fired => h.fired) /\ h.consumed = (nav.consumed \/ fires)
      /\ "left" \notin down => ~h.fired /\ h.consumed = nav.consumed
  BY <1>3, HoldFacts
<1> HIDE DEF h
<1>5. /\ nav' \in NavSet /\ nav'.seen = down /\ nav'.right = ("right" \in down) /\ nav'.left = ("left" \in down)
      /\ nav'.consumed = (h.consumed /\ ~up) /\ nav'.fired = h.fired
  <2>1. nav' = [h EXCEPT !.seen = down, !.right = "right" \in down, !.left = "left" \in down,
                         !.consumed = @ /\ ~up]
    BY <1>1 DEF h
  <2>2. down \in SUBSET Buttons /\ ("right" \in down) \in BOOLEAN /\ ("left" \in down) \in BOOLEAN
    BY DEF Types
  <2> HIDE DEF up
  <2> QED
    BY <1>4, <2>1, <2>2 DEF NavSet
<1>6. ASSUME next
      PROVE  press["right"].acts = 0 /\ press["right"].at \in DashViews \cup {FwView}
  <2>1. "right" \in down \ nav.seen
    BY <1>2, <1>6 DEF Memory
  <2> QED
    BY <1>2, <2>1, FreshOnDash, ViewFacts DEF Untaken
<1>7. ASSUME "left" \in down, ~nav.fired \/ ~nav.consumed
      PROVE  OwedWell
  <2>0. ~nav.consumed /\ ~guard
    BY <1>2, <1>7 DEF Memory
  <2>1. CASE nav.left
    BY <1>7, <2>0, <2>1 DEF Memory, LeftDone
  <2>2. CASE ~nav.left
    <3>1. "left" \in down \ nav.seen
      BY <1>2, <1>7, <2>2 DEF Memory
    <3> QED
      BY <1>2, <3>1, FreshOnDash, ViewFacts DEF Untaken, OwedWell
  <2> QED
    BY <2>1, <2>2
<1>8. ASSUME fires \/ known
      PROVE  OwedWell
  <2>1. CASE fires
    BY <1>4, <1>7, <2>1
  <2>2. CASE known
    BY <1>4, <2>2 DEF Memory, LeftDone
  <2> QED
    BY <1>8, <2>1, <2>2
<1>9. \A e \in E : /\ e.button \in Buttons /\ Matches(press[e.button].at, e.by) /\ press[e.button].acts = 0
                   /\ e.button = "left" => fires \/ back
  <2>1. \A e \in E : (e = Effect("left", Dash) /\ (fires \/ known)) \/ (e = Effect("right", Dash) /\ next)
    BY Zenon
  <2>2. \A b : Effect(b, Dash).button = b /\ Effect(b, Dash).by = Dash
    BY DEF Effect
  <2>3. \A at \in DashViews \cup {FwView} : Matches(at, Dash)
    BY ViewFacts DEF Matches, DashViews
  <2>4. known => back
    OBVIOUS
  <2> HIDE DEF E, fires, known, back, next
  <2> QED
    BY <1>6, <1>8, <2>1, <2>2, <2>3, <2>4 DEF OwedWell, Buttons
<1>10. /\ AsShown' /\ PressOK'
       /\ \A b \in Buttons : /\ press'[b].at = press[b].at
                             /\ (\A e \in E : e.button # b) => press'[b].acts = press[b].acts
  <2>1. Account(E)
    BY <1>1 DEF h
  <2> HIDE DEF E
  <2> QED
    BY <1>9, <2>1, AccountKeeps
<1>11. shown' = LastView' /\ shown' \in DashViews /\ ~(alert'.drawn /\ info'.drawn)
       /\ Layer(alert') /\ Layer(info')
  <2>1. /\ alert' = [alert EXCEPT !.drawn = alert.active /\ ~covers]
        /\ info' = [info EXCEPT !.drawn = info.active /\ ~covers /\ ~alert.active]
        /\ shown' = IF alert'.drawn THEN View("alert", "", 0) ELSE IF info'.drawn THEN View("info", "", 0) ELSE Dash
    BY <1>1
  <2>2. Layer(alert') /\ Layer(info') /\ ~(alert'.drawn /\ info'.drawn)
    BY <2>1 DEF Types, Layer
  <2> QED
    BY <2>1, <2>2 DEF LastView, AlertView, InfoView, DashViews
<1>12. crossed' \in BOOLEAN /\ (crossed' => crossed)
  BY <1>1, <1>5 DEF Types
<1>13. menu' \in {NoModem, Opened, menu}
  <2>1. menu' = IF Reopens(late).on THEN Reopens(late) ELSE IF fires THEN Opened ELSE menu
    BY <1>1 DEF h
  <2>2. ~MenuOff.on
    BY DEF MenuOff
  <2> HIDE DEF fires
  <2> QED
    BY <2>1, <2>2 DEF Reopens
<1>14. MenuOK(menu') /\ (menu'.on => ~menu'.init)
  <2>1. MenuOK(Opened) /\ ~Opened.init
    BY OpenedOK
  <2>2. MenuOK(NoModem) /\ ~NoModem.init
    <3>1. NoModem = [Opened EXCEPT !.cursor = IndexOf("network"), !.notice = TRUE]
      BY DEF NoModem
    <3>2. IndexOf("network") \in 0..(NumRoot - 1)
      BY IndexOK
    <3> QED
      BY <2>1, <3>1, <3>2 DEF MenuOK
  <2> HIDE DEF fires
  <2> QED
    BY <1>2, <1>13, <2>1, <2>2 DEF Types
<1>16. /\ pending' = (pending /\ ~late) /\ ~answered' /\ answered' \in BOOLEAN /\ ~blamed' /\ fromLocal' \in BOOLEAN
  <2>1. /\ pending' = (pending /\ ~late) /\ answered' = (answered /\ pending')
        /\ blamed' = (blamed \/ (answered /\ pending /\ late)) /\ fromLocal' = (fromLocal /\ pending)
    BY <1>1
  <2> QED
    BY <2>1, Zenon DEF NoticeTrue
<1>17. scr' \in 0..(ScreenCount - 1)
  <2>1. PICK n \in Int : scr' = 0 \/ scr' = n % ScreenCount
    <3>1. (scr + (IF next THEN 1 ELSE 0) + (IF back THEN ScreenCount - 1 ELSE 0)) \in Int
      BY <1>3
    <3>2. scr' = IF idle /\ ~next /\ ~back THEN 0
                 ELSE (scr + (IF next THEN 1 ELSE 0) + (IF back THEN ScreenCount - 1 ELSE 0)) % ScreenCount
      BY <1>1 DEF h
    <3> QED
      BY <3>1, <3>2
  <2> QED
    BY <2>1
<1>18. Types'
  BY <1>2, <1>5, <1>11, <1>12, <1>14, <1>16, <1>17 DEF Types, NavSet
<1>19. Priority'
  BY <1>2, <1>14 DEF Priority
<1>20. Memory'
  <2>1. nav'.consumed => nav'.left /\ nav'.fired
    BY <1>4, <1>5 DEF Memory
  <2>2. ASSUME ~LeftDone'
        PROVE  OwedWell'
    <3>1. "left" \in down /\ ~nav.consumed /\ ~fires /\ ~back
      BY <2>2, <1>4, <1>5 DEF LeftDone
    <3>2. \A e \in E : e.button # "left"
      BY <3>1, <1>9
    <3> HIDE DEF E
    <3> QED
      BY <3>1, <3>2, <1>7, <1>10 DEF OwedWell, Buttons
  <2> QED
    BY <1>5, <1>11, <2>1, <2>2 DEF Memory
<1>21. TrustFresh' /\ MenuFresh' /\ DashFresh'
  BY <1>2, <1>5, <1>11, <1>14 DEF TrustFresh, MenuFresh, DashFresh
<1>22. SettingsKept' /\ NoticeTrue'
  BY <1>2, <1>16 DEF SettingsKept, NoticeTrue
<1> QED
  BY <1>10, <1>16, <1>18, <1>19, <1>20, <1>21, <1>22

-----------------------------------------------------------------------------
\* What comes in between two passes.
LEMMA Arrived ==
  ASSUME IInv, Arrives \/ Follows
  PROVE  frames' \in 0..MaxFrames /\ UNCHANGED <<down, press, wrong>>
BY DEF IInv, Types, Arrives, Follows

\* A trust prompt arrives and takes the display.
LEMMA PromptStep ==
  ASSUME IInv, trust_prompt
  PROVE  IInv'
<1> USE DEF IInv
<1>1. /\ frames' \in 0..MaxFrames /\ UNCHANGED <<down, press, wrong, shown>>
      /\ trust' = [Off EXCEPT !.on = TRUE]
      /\ UNCHANGED <<scr, nav, crossed, guard, pending, fromLocal, answered, blamed, fw, alert, info, set>>
  BY Arrived DEF trust_prompt, Frame
<1>2. trust' = [on |-> TRUE, init |-> FALSE, prev |-> {}] /\ TrustOK(trust') /\ trust'.on /\ ~trust'.init
  BY <1>1 DEF Off, TrustOK
<1>3. MenuOK(menu') /\ ~menu'.on /\ flash' = set' /\ set' \in Blobs
  <2>1. CASE menu.on
    <3>1. menu' = MenuOff /\ flash' = set'
      BY <2>1 DEF trust_prompt, local_menu_close, ui_settings_commit
    <3> QED
      BY <3>1, <1>1, OpenedOK DEF Types
  <2>2. CASE ~menu.on
    BY <2>2, <1>1 DEF trust_prompt, Types, SettingsKept
  <2> QED
    BY <2>1, <2>2
<1>4. Types' /\ PressOK'
  BY <1>1, <1>2, <1>3 DEF Types, PressOK
<1>5. Priority' /\ Memory' /\ TrustFresh' /\ MenuFresh' /\ DashFresh'
  <2>1. Priority'
    BY <1>1, <1>2, <1>3 DEF Priority
  <2>2. Memory'
    BY <1>1 DEF Memory, OwedWell, LeftDone
  <2> QED
    BY <1>1, <1>2, <1>3, <2>1, <2>2 DEF TrustFresh, MenuFresh, DashFresh, LastView, Untaken
<1> QED
  BY <1>1, <1>3, <1>4, <1>5 DEF AsShown, NoticeTrue, SettingsKept

\* ui.set_screen takes prompt and menu down.
LEMMA SetScreenStep ==
  ASSUME IInv, NEW n \in 0..(ScreenCount - 1), set_screen(n)
  PROVE  IInv'
<1> USE DEF IInv
<1>1. /\ frames' \in 0..MaxFrames /\ UNCHANGED <<down, press, wrong, shown>>
      /\ trust' = Off /\ fromLocal' = FALSE
      /\ UNCHANGED <<nav, crossed, guard, pending, answered, blamed, fw, alert, info, set, flash>>
  BY Arrived DEF set_screen, Frame, Follows
<1>2. ~trust'.on /\ ~trust'.init /\ TrustOK(trust')
  BY <1>1 DEF Off, TrustOK
<1>3. MenuOK(Opened) /\ Opened.on /\ ~Opened.init
  BY OpenedOK
<1>5. \/ menu' = Opened /\ scr' = scr
      \/ menu' = menu /\ scr' = n
  BY DEF set_screen
<1>6. Types' /\ PressOK'
  BY <1>1, <1>2, <1>3, <1>5 DEF Types, PressOK
<1>7. Priority'
  BY <1>1, <1>2, <1>3, <1>5 DEF Priority
<1>8. Memory' /\ TrustFresh'
  BY <1>1, <1>2 DEF Memory, OwedWell, LeftDone, TrustFresh
<1>9. MenuFresh'
  BY <1>1, <1>3, <1>5 DEF MenuFresh, Untaken, MenuView
<1>10. DashFresh'
  BY <1>1 DEF DashFresh, LastView, Untaken
<1> QED
  BY <1>1, <1>3, <1>5, <1>6, <1>7, <1>8, <1>9, <1>10 DEF AsShown, NoticeTrue, SettingsKept

\* The ESP32 starts anew.
LEMMA HelloStep ==
  ASSUME IInv, hello
  PROVE  IInv'
<1> USE DEF IInv
<1>1. /\ frames' \in 0..MaxFrames /\ UNCHANGED <<down, press, wrong, shown>>
      /\ trust' = Off /\ scr' = 0
      /\ UNCHANGED <<nav, crossed, guard, menu, pending, fromLocal, answered, blamed, fw, set, flash>>
  BY Arrived DEF hello, Frame
<1>2. ~trust'.on /\ ~trust'.init /\ TrustOK(trust')
  BY <1>1 DEF Off, TrustOK
<1>3. Layer(alert') /\ Layer(info') /\ alert'.drawn = alert.drawn /\ info'.drawn = info.drawn
  BY DEF hello, Types, Layer
<1>5. Types' /\ PressOK'
  BY <1>1, <1>2, <1>3 DEF Types, PressOK
<1>6. Priority'
  BY <1>1, <1>2 DEF Priority
<1>7. Memory' /\ TrustFresh'
  BY <1>1, <1>2 DEF Memory, OwedWell, LeftDone, TrustFresh
<1>8. MenuFresh'
  BY <1>1 DEF MenuFresh, Untaken, MenuView
<1>9. DashFresh'
  BY <1>1, <1>3 DEF DashFresh, LastView, Untaken
<1> QED
  BY <1>1, <1>5, <1>6, <1>7, <1>8, <1>9 DEF AsShown, NoticeTrue, SettingsKept

\* A message for one of the two layers.
LEMMA MessageStep ==
  ASSUME IInv, display_msg
  PROVE  IInv'
<1> USE DEF IInv
<1>1. /\ frames' \in 0..MaxFrames /\ UNCHANGED <<down, press, wrong, shown>>
      /\ UNCHANGED <<scr, nav, crossed, guard, trust, menu, pending, fromLocal, answered, blamed, fw, set, flash>>
  BY Arrived DEF display_msg, Frame
<1>2. Layer(alert') /\ Layer(info') /\ alert'.drawn = alert.drawn /\ info'.drawn = info.drawn
  BY DEF display_msg, Types, Layer
<1>3. Types' /\ PressOK'
  BY <1>1, <1>2 DEF Types, PressOK
<1>4. Priority' /\ Memory' /\ TrustFresh'
  BY <1>1 DEF Priority, Memory, OwedWell, LeftDone, TrustFresh, Untaken
<1>5. MenuFresh'
  BY <1>1 DEF MenuFresh, Untaken, MenuView
<1>6. DashFresh'
  BY <1>1, <1>2 DEF DashFresh, LastView, Untaken
<1> QED
  BY <1>1, <1>3, <1>4, <1>5, <1>6 DEF AsShown, NoticeTrue, SettingsKept

\* ui.local_reset: the settings go back to the default, and are stored.
LEMMA ResetStep ==
  ASSUME IInv, local_reset
  PROVE  IInv'
<1> USE DEF IInv
<1>1. /\ frames' \in 0..MaxFrames /\ UNCHANGED <<down, press, wrong, shown>>
      /\ UNCHANGED <<scr, nav, crossed, guard, trust, menu, pending, fromLocal, answered, blamed, fw, alert, info>>
      /\ set' = Default /\ flash' = Default
  BY Arrived DEF local_reset, Frame, display, ui_settings_commit
<1>2. Types' /\ PressOK'
  BY <1>1, SetOK DEF Types, PressOK
<1>3. Priority' /\ Memory' /\ TrustFresh'
  BY <1>1 DEF Priority, Memory, OwedWell, LeftDone, TrustFresh, Untaken
<1>4. MenuFresh' /\ DashFresh'
  BY <1>1 DEF MenuFresh, Untaken, MenuView, DashFresh, LastView
<1> QED
  BY <1>1, <1>2, <1>3, <1>4 DEF AsShown, NoticeTrue, SettingsKept

\* An update session begins, for which the menu is closed, or ends.
LEMMA SessionStep ==
  ASSUME IInv, fw_session
  PROVE  IInv'
<1> USE DEF IInv
<1>1. /\ frames' \in 0..MaxFrames /\ UNCHANGED <<down, press, wrong, shown>>
      /\ fw' \in BOOLEAN
      /\ UNCHANGED <<scr, nav, crossed, guard, trust, pending, fromLocal, answered, blamed, alert, info, set>>
  BY Arrived DEF fw_session, fw_begin, fw_end, Frame, Follows, Types
<1>2. /\ MenuOK(menu') /\ flash' \in Blobs /\ (~menu'.on => flash' = set')
      /\ ~menu'.on \/ (menu' = menu /\ ~fw')
  <2>1. CASE menu' = MenuOff /\ flash' = set'
    BY <1>1, <2>1, OpenedOK DEF Types
  <2>2. CASE menu' = menu /\ flash' = flash /\ (~menu.on \/ ~fw')
    BY <1>1, <2>2 DEF Types, SettingsKept
  <2> QED
    BY <2>1, <2>2 DEF fw_session, fw_begin, fw_end, local_menu_close, ui_settings_commit
<1>3. Types' /\ PressOK'
  BY <1>1, <1>2 DEF Types, PressOK
<1>4. Priority' /\ Memory'
  BY <1>1, <1>2 DEF Priority, Memory, OwedWell, LeftDone
<1>5. TrustFresh' /\ MenuFresh' /\ DashFresh'
  BY <1>1, <1>2 DEF TrustFresh, MenuFresh, Untaken, MenuView, DashFresh, LastView
<1> QED
  BY <1>1, <1>2, <1>3, <1>4, <1>5 DEF AsShown, NoticeTrue, SettingsKept

\* Both a new start and a restart.
Started ==
    /\ down = {} /\ shown = Dash
    /\ scr = 0 /\ nav = Unpressed /\ crossed = FALSE /\ guard = FALSE /\ trust = Off /\ menu = MenuOff
    /\ pending = FALSE /\ fromLocal = FALSE /\ answered = FALSE /\ fw = FALSE /\ alert = Quiet /\ info = Quiet
    /\ set \in Blobs /\ flash = set /\ frames \in 0..MaxFrames /\ PressOK /\ ~wrong /\ ~blamed

\* A panel that has just started satisfies the invariant.
LEMMA StartedOK == Started => IInv
<1> SUFFICES ASSUME Started PROVE IInv
  OBVIOUS
<1> USE DEF Started
<1>1. MenuOK(menu) /\ ~menu.on
  BY OpenedOK
<1>2. Types
  <2>1. nav \in NavSet
    BY DEF Unpressed, NavSet
  <2>2. TrustOK(trust) /\ Layer(alert) /\ Layer(info)
    BY DEF TrustOK, Off, Layer, Quiet
  <2> QED
    <3>1. scr \in 0..(ScreenCount - 1)
      OBVIOUS
    <3> QED
      BY <1>1, <2>1, <2>2, <3>1 DEF Types, NavSet
<1>3. /\ nav.left = FALSE /\ nav.consumed = FALSE /\ nav.right = FALSE /\ nav.seen = {} /\ ~trust.on /\ ~trust.init
      /\ ~alert.drawn /\ ~info.drawn
  BY DEF Unpressed, Off, Quiet
<1>4. Priority /\ Memory /\ TrustFresh /\ MenuFresh
  <2>0. ("right" \in nav.seen) = FALSE /\ ("left" \in nav.seen) = FALSE /\ LeftDone
    BY <1>3 DEF LeftDone
  <2>1. Memory
    BY <1>3, <2>0 DEF Memory
  <2> QED
    BY <1>1, <1>3, <2>1 DEF Priority, TrustFresh, MenuFresh
<1>5. DashFresh
  BY <1>3 DEF DashFresh, LastView
<1> QED
  BY <1>1, <1>2, <1>4, <1>5 DEF IInv, AsShown, NoticeTrue, SettingsKept

\* A restart: the settings are those stored.
LEMMA RestartStep ==
  ASSUME IInv, Restart
  PROVE  IInv'
<1>1. frames' \in 0..MaxFrames /\ UNCHANGED <<down, press, wrong>>
  BY Arrived DEF Restart
<1>2. set' \in Blobs /\ flash' = set'
  BY SetOK DEF Restart, IInv, Types
<1>3. Started'
  BY <1>1, <1>2 DEF Restart, Started, IInv, AsShown, NoticeTrue, PressOK
<1> QED
  BY <1>3, StartedOK, PTL

\* The first start.
LEMMA InitOK == Init => IInv
<1> SUFFICES ASSUME Init PROVE IInv
  OBVIOUS
<1>1. PressOK
  BY DEF Init, PressOK, NotPressed
<1>2. set \in Blobs /\ flash = set
  BY SetOK DEF Init
<1> QED
  BY <1>1, <1>2, StartedOK DEF Init, Started

\* Every step of the panel, the person and the other processors.
LEMMA PanelStep ==
  ASSUME IInv, [Next]_vars
  PROVE  IInv'
<1>1. CASE UNCHANGED vars
  <2> USE DEF vars, display
  <2>1. Types' /\ PressOK'
    BY <1>1 DEF IInv, Types, PressOK
  <2>2. Priority' /\ Memory' /\ TrustFresh'
    BY <1>1 DEF IInv, Priority, Memory, OwedWell, LeftDone, TrustFresh, Untaken
  <2>3. MenuFresh' /\ DashFresh'
    BY <1>1 DEF IInv, MenuFresh, DashFresh, LastView, Untaken, MenuView
  <2> QED
    BY <1>1, <2>1, <2>2, <2>3 DEF IInv, AsShown, NoticeTrue, SettingsKept
<1>2. CASE Pass
  BY <1>2, FwPassStep, TrustPassStep, MenuPassStep, GuardPassStep, DismissAlertStep, DismissInfoStep, DashPassStep
     DEF Pass
<1>3. CASE \E b \in Buttons : Press(b) \/ Release(b)
  BY <1>3, PressStep, ReleaseStep
<1>4. CASE \E n \in 0..(ScreenCount - 1) : set_screen(n)
  BY <1>4, SetScreenStep
<1>5. CASE trust_prompt \/ hello \/ display_msg \/ local_reset \/ fw_session \/ Restart
  BY <1>5, PromptStep, HelloStep, MessageStep, ResetStep, SessionStep, RestartStep
<1> QED
  BY <1>1, <1>2, <1>3, <1>4, <1>5 DEF Next

\* loop()'s button dispatch (main.cpp, local_menu.cpp, trust_ui.cpp): however
\* presses, passes, prompts, messages, update sessions and restarts interleave,
\* a press acts at most once and only on what was shown when it was made (or,
\* made on an update's screen, on what comes up after it), the menu's notice is
\* true, and settings that were changed are stored once the menu is left; for
\* any number of screens and levels.
THEOREM PanelAlwaysSound == Spec => []PanelSound
<1>1. IInv /\ [Next]_vars => IInv'
  BY PanelStep
<1>2. IInv => PanelSound
  BY DEF IInv, PanelSound, TypeOK, Types, MenuOK, Pages, OneEffect, PressOK
<1> QED
  BY <1>1, <1>2, InitOK, PTL DEF Spec

-----------------------------------------------------------------------------
(* The owner's confirmation (TrustAnchor)                                  *)

\* The claim task has a candidate; it has armed its nonce; it waits for a result
\* it has reset.
Candidate == {"nonce", "result", "armed", "drain", "send", "enter", "wait", "woken", "late", "bind"}
Armed == {"result", "armed", "drain", "send", "enter", "wait", "woken", "late"}
Awaiting == Armed \ {"result"}

\* A nonce that a fingerprint carries is the claim task's own, never the menu's;
\* under the claim task's nonce, the fingerprint is the candidate's; and a
\* confirmation under it means that the person agreed to the candidate.
Genuine(n) ==
    /\ n \in Nat /\ 0 < n /\ n < fresh /\ n # tmenu.nonce
    /\ claim.pc \in Armed /\ n = prompt.nonce => n = claim.nonce
Names(n, w) == claim.pc \in Candidate /\ n = claim.nonce => w = claim.who
Answers(n) == claim.pc \in Candidate /\ n = claim.nonce => claim.who \in agreed

Fingerprint(f) == f.kind = "prompt" /\ f.mode = "fingerprint"
Confirms(f) == f.kind = "result" /\ f.result = Trust!CONFIRMED

DownFrames == [kind : {"prompt"}, mode : Trust!Modes, nonce : Nat, who : Wallets \cup {Nobody}]
                  \cup {Trust!HELLO, Trust!SET_SCREEN}

TrustTypes ==
    /\ DOMAIN claim = {"pc", "who", "nonce"} /\ claim.who \in Wallets \cup {Nobody} /\ claim.nonce \in Nat
    /\ DOMAIN prompt = {"nonce", "result", "armed", "sig"} /\ prompt.armed \in BOOLEAN
    /\ DOMAIN tmenu = {"active", "address", "nonce"} /\ tmenu.nonce \in Nat /\ tmenu.address \in BOOLEAN
    /\ DOMAIN rp = {"on", "mode", "nonce", "who", "age", "hold", "miss"} /\ rp.on \in BOOLEAN
    /\ rp.mode \in Trust!Modes /\ rp.hold \in Nat /\ rp.miss \in Nat /\ rp.age \in Nat
    /\ tdown \in Seq(DownFrames) /\ (tup = <<>> \/ tup = <<Head(tup)>>)
    /\ grip \in BOOLEAN /\ stalled \in BOOLEAN /\ fresh \in Nat \ {0} /\ watching \in Nat /\ slack \in Nat

NonceOwn ==
    /\ tmenu.nonce < fresh
    /\ claim.pc \in Candidate => 0 < claim.nonce /\ claim.nonce < fresh /\ claim.nonce # tmenu.nonce
DownGenuine == \A i \in 1..Len(tdown) :
    Fingerprint(tdown[i]) => Genuine(tdown[i].nonce) /\ Names(tdown[i].nonce, tdown[i].who)
ShownGenuine == rp.on /\ rp.mode = "fingerprint" => Genuine(rp.nonce) /\ Names(rp.nonce, rp.who)
UpGenuine == tup # <<>> /\ Confirms(Head(tup)) => Genuine(Head(tup).nonce) /\ Answers(Head(tup).nonce)
ResultTrue ==
    /\ claim.pc \in Awaiting /\ prompt.result = Trust!CONFIRMED => claim.who \in agreed
    /\ claim.pc = "bind" => claim.who \in agreed

\* What the RP2040 counts of the hold is what the person did.
HoldCounted == rp.on /\ rp.mode = "fingerprint" =>
    /\ watching > 0 <=> rp.hold > 0
    /\ rp.hold <= watching \/ watching > TRUST_CONFIRM
    /\ slack = rp.miss /\ (watching = 0 => slack = 0)

TrustInv == /\ TrustTypes /\ NonceOwn /\ DownGenuine /\ ShownGenuine /\ UpGenuine /\ ResultTrue /\ HoldCounted
            /\ BoundByConfirmation

\* The nonces in use mean after a step what they meant before.
Kept == \A n, w :
    /\ Genuine(n) /\ Names(n, w) => Genuine(n)' /\ Names(n, w)'
    /\ Genuine(n) /\ Answers(n) => Genuine(n)' /\ Answers(n)'

\* What takes something from the lines, or adds to the line to the RP2040 what
\* is no fingerprint or a genuine one, keeps them so.
DownKept ==
    \/ UNCHANGED tdown
    \/ tdown # <<>> /\ tdown' = Tail(tdown)
    \/ tdown' = <<>>
    \/ \E f \in DownFrames : /\ tdown' = Append(tdown, f)
                             /\ Fingerprint(f) => Genuine(f.nonce)' /\ Names(f.nonce, f.who)'
UpKept == UNCHANGED tup \/ (tup # <<>> /\ tup' = Tail(tup)) \/ tup' = <<>>

LEMMA LinesKept ==
  ASSUME TrustInv, Kept, DownKept, UpKept
  PROVE  /\ DownGenuine' /\ UpGenuine' /\ tdown' \in Seq(DownFrames) /\ (tup' = <<>> \/ tup' = <<Head(tup')>>)
<1> USE DEF TrustInv, TrustTypes
<1>1. DownGenuine' /\ tdown' \in Seq(DownFrames)
  <2>1. CASE UNCHANGED tdown
    BY <2>1 DEF DownGenuine, Kept
  <2>2. CASE tdown # <<>> /\ tdown' = Tail(tdown)
    <3>1. /\ tdown' \in Seq(DownFrames) /\ Len(tdown') = Len(tdown) - 1
          /\ \A i \in 1..Len(tdown') : tdown'[i] = tdown[i + 1] /\ i + 1 \in 1..Len(tdown)
      <4>1. /\ Tail(tdown) \in Seq(DownFrames) /\ Len(Tail(tdown)) = Len(tdown) - 1 /\ Len(tdown) \in Nat
            /\ \A i \in 1..Len(Tail(tdown)) : Tail(tdown)[i] = tdown[i + 1]
        BY <2>2, HeadTailProperties
      <4> QED
        BY <2>2, <4>1
    <3>2. ASSUME NEW i \in 1..Len(tdown'), NEW f, f = tdown'[i], Fingerprint(f)
          PROVE  Genuine(f.nonce)' /\ Names(f.nonce, f.who)'
      <4>1. f = tdown[i + 1] /\ i + 1 \in 1..Len(tdown)
        BY <3>1, <3>2
      <4>2. Genuine(f.nonce) /\ Names(f.nonce, f.who)
        BY <3>2, <4>1 DEF DownGenuine
      <4> QED
        BY <4>2 DEF Kept
    <3> QED
      BY <3>1, <3>2 DEF DownGenuine
  <2>3. CASE tdown' = <<>>
    BY <2>3 DEF DownGenuine
  <2>4. CASE \E f \in DownFrames : /\ tdown' = Append(tdown, f)
                                   /\ Fingerprint(f) => Genuine(f.nonce)' /\ Names(f.nonce, f.who)'
    <3> PICK f \in DownFrames : /\ tdown' = Append(tdown, f)
                                /\ Fingerprint(f) => Genuine(f.nonce)' /\ Names(f.nonce, f.who)'
      BY <2>4
    <3>1. /\ tdown' \in Seq(DownFrames) /\ Len(tdown') = Len(tdown) + 1 /\ tdown'[Len(tdown) + 1] = f
          /\ \A i \in 1..Len(tdown) : tdown'[i] = tdown[i]
      BY AppendProperties
    <3> QED
      BY <3>1 DEF DownGenuine, Kept
  <2> QED
    BY <2>1, <2>2, <2>3, <2>4 DEF DownKept
<1>2. tup' = <<>> \/ UNCHANGED tup
  <2>1. CASE tup # <<>> /\ tup' = Tail(tup)
    <3>1. tup = <<Head(tup)>>
      BY <2>1
    <3>2. \A x : Tail(<<x>>) = <<>>
      OBVIOUS
    <3> QED
      BY <2>1, <3>1, <3>2
  <2> QED
    BY <2>1 DEF UpKept
<1>3. UpGenuine' /\ (tup' = <<>> \/ tup' = <<Head(tup')>>)
  BY <1>2 DEF UpGenuine, Kept
<1> QED
  BY <1>1, <1>3

\* A step that leaves the screen and the person alone and keeps the lines.
LEMMA EspKept ==
  ASSUME TrustInv, Kept, UNCHANGED <<rp, grip, watching, slack, agreed>>, DownGenuine', UpGenuine', TrustTypes', NonceOwn',
         ResultTrue', BoundByConfirmation'
  PROVE  TrustInv'
<1>1. ShownGenuine'
  BY DEF TrustInv, ShownGenuine, Kept
<1>2. HoldCounted'
  BY DEF TrustInv, HoldCounted
<1> QED
  BY <1>1, <1>2 DEF TrustInv

\* The claim task.
LEMMA ClaimStep ==
  ASSUME TrustInv, Trust!ClaimTask
  PROVE  TrustInv'
<1> USE DEF Trust!person, Trust!attention
<1>1. UNCHANGED <<rp, grip, stalled, watching, slack, agreed, tmenu, tup>>
  BY DEF Trust!ClaimTask, Trust!ShowsCode, Trust!Polls, Trust!TryCandidate, Trust!ArmNonce, Trust!ArmResult, Trust!ArmRaise,
     Trust!ArmDrain, Trust!SendFingerprint, Trust!EnterWait, Trust!Woken, Trust!ReadsResult, Trust!WaitExpires,
     Trust!GivesUp, Trust!BindOwner
<1> DEFINE Claimed == /\ DOMAIN claim' = {"pc", "who", "nonce"} /\ claim'.who \in Wallets \cup {Nobody} /\ claim'.nonce \in Nat
                      /\ DOMAIN prompt' = {"nonce", "result", "armed", "sig"} /\ prompt'.armed \in BOOLEAN
                      /\ fresh' \in Nat \ {0}
           Meaning == Kept /\ NonceOwn' /\ ResultTrue' /\ BoundByConfirmation'
<1>2. ASSUME Claimed, Meaning, DownKept
      PROVE  TrustInv'
  <2>3. UpKept
    BY <1>1 DEF UpKept
  <2>1. DownGenuine' /\ UpGenuine' /\ tdown' \in Seq(DownFrames)
    BY <1>2, <2>3, LinesKept
  <2>2. TrustTypes'
    BY <1>1, <1>2, <2>1 DEF TrustInv, TrustTypes
  <2> QED
    BY <1>1, <1>2, <2>1, <2>2, EspKept
<1> USE DEF TrustInv, TrustTypes, Genuine, Names, Answers, Candidate, Armed, Awaiting, Kept, NonceOwn, ResultTrue,
        BoundByConfirmation, Trust!BoundByConfirmation, Trust!Goes, Trust!NoClaim, Trust!CONFIRMED, Trust!TIMEOUT
<1>3. CASE Trust!Polls
  <2>1. Claimed /\ Meaning /\ UNCHANGED tdown
    BY <1>1, <1>3 DEF Trust!Polls
  <2> QED
    BY <1>2, <2>1 DEF DownKept
<1>4. CASE Trust!TryCandidate
  <2>1. Claimed /\ Meaning /\ UNCHANGED tdown
    BY <1>1, <1>4 DEF Trust!TryCandidate
  <2> QED
    BY <1>2, <2>1 DEF DownKept
<1>5. CASE Trust!ArmNonce
  <2>1. Claimed /\ Meaning /\ UNCHANGED tdown
    BY <1>1, <1>5 DEF Trust!ArmNonce
  <2> QED
    BY <1>2, <2>1 DEF DownKept
<1>6. CASE Trust!ArmResult
  <2>1. Claimed /\ Meaning /\ UNCHANGED tdown
    BY <1>1, <1>6 DEF Trust!ArmResult
  <2> QED
    BY <1>2, <2>1 DEF DownKept
<1>7. CASE Trust!ArmRaise
  <2>1. Claimed /\ Meaning /\ UNCHANGED tdown
    BY <1>1, <1>7 DEF Trust!ArmRaise
  <2> QED
    BY <1>2, <2>1 DEF DownKept
<1>8. CASE Trust!ArmDrain
  <2>1. Claimed /\ Meaning /\ UNCHANGED tdown
    BY <1>1, <1>8 DEF Trust!ArmDrain
  <2> QED
    BY <1>2, <2>1 DEF DownKept
<1>9. CASE Trust!EnterWait
  <2>1. Claimed /\ Meaning /\ UNCHANGED tdown
    BY <1>1, <1>9 DEF Trust!EnterWait
  <2> QED
    BY <1>2, <2>1 DEF DownKept
<1>10. CASE Trust!Woken
  <2>1. Claimed /\ Meaning /\ UNCHANGED tdown
    BY <1>1, <1>10 DEF Trust!Woken
  <2> QED
    BY <1>2, <2>1 DEF DownKept
<1>11. CASE Trust!ReadsResult
  <2>1. Claimed /\ Meaning /\ UNCHANGED tdown
    BY <1>1, <1>11 DEF Trust!ReadsResult
  <2> QED
    BY <1>2, <2>1 DEF DownKept
<1>12. CASE Trust!WaitExpires
  <2>1. Claimed /\ Meaning /\ UNCHANGED tdown
    BY <1>1, <1>12 DEF Trust!WaitExpires
  <2> QED
    BY <1>2, <2>1 DEF DownKept
<1>16. CASE Trust!GivesUp
  <2>1. Claimed /\ Meaning /\ UNCHANGED tdown
    BY <1>1, <1>16 DEF Trust!GivesUp
  <2> QED
    BY <1>2, <2>1 DEF DownKept
<1>13. CASE Trust!BindOwner
  <2>1. Claimed /\ Meaning /\ UNCHANGED tdown
    BY <1>1, <1>13 DEF Trust!BindOwner
  <2> QED
    BY <1>2, <2>1 DEF DownKept
<1>14. CASE Trust!ShowsCode
  <2> DEFINE f == Trust!Prompt("code", 0, Nobody)
  <2>1. f \in DownFrames /\ ~Fingerprint(f)
    BY DEF DownFrames, Fingerprint, Trust!Prompt, Trust!Modes
  <2>2. Claimed /\ Meaning /\ tdown' = Append(tdown, f)
    BY <1>1, <1>14 DEF Trust!ShowsCode
  <2> QED
    BY <1>2, <2>1, <2>2 DEF DownKept
<1>15. CASE Trust!SendFingerprint
  <2> DEFINE f == Trust!Prompt("fingerprint", claim.nonce, claim.who)
  <2>1. f \in DownFrames /\ f.nonce = claim.nonce /\ f.who = claim.who
    BY DEF DownFrames, Trust!Prompt, Trust!Modes
  <2>2. Claimed /\ Meaning /\ tdown' = Append(tdown, f) /\ claim' = [claim EXCEPT !.pc = "enter"] /\ claim.pc = "send"
        /\ UNCHANGED fresh
    BY <1>1, <1>15 DEF Trust!SendFingerprint
  <2> HIDE DEF f
  <2>3. Genuine(f.nonce)' /\ Names(f.nonce, f.who)'
    BY <1>1, <2>1, <2>2 DEF f
  <2> QED
    BY <1>2, <2>1, <2>2, <2>3 DEF DownKept
<1> QED
  BY <1>3, <1>4, <1>5, <1>6, <1>7, <1>8, <1>9, <1>10, <1>11, <1>12, <1>13, <1>14, <1>15, <1>16
     DEF Trust!ClaimTask

\* The receive task.
LEMMA ReceiveStep ==
  ASSUME TrustInv, Trust!RxTask
  PROVE  TrustInv'
<1> USE DEF Trust!person, Trust!attention
<1>1. UNCHANGED <<rp, grip, stalled, watching, slack, agreed, claim, owner>>
  BY DEF Trust!RxTask, Trust!OnResult, Trust!Release, Trust!Raise, Trust!OnActivate, Trust!OnPress
<1> DEFINE Received == /\ DOMAIN prompt' = {"nonce", "result", "armed", "sig"} /\ prompt'.armed \in BOOLEAN
                       /\ DOMAIN tmenu' = {"active", "address", "nonce"} /\ tmenu'.nonce \in Nat /\ tmenu'.address \in BOOLEAN
                       /\ fresh' \in Nat \ {0}
           Meaning == Kept /\ NonceOwn' /\ ResultTrue'
<1>2. ASSUME Received, Meaning, DownKept, UpKept
      PROVE  TrustInv'
  <2>1. DownGenuine' /\ UpGenuine' /\ tdown' \in Seq(DownFrames) /\ (tup' = <<>> \/ tup' = <<Head(tup')>>)
    BY <1>2, LinesKept
  <2>2. TrustTypes'
    BY <1>1, <1>2, <2>1 DEF TrustInv, TrustTypes
  <2>3. BoundByConfirmation'
    BY <1>1 DEF TrustInv, BoundByConfirmation, Trust!BoundByConfirmation
  <2> QED
    BY <1>1, <1>2, <2>1, <2>2, <2>3, EspKept
<1> DEFINE Any(nonce) == Trust!Prompt("menu", nonce, Nobody)
           Wallet == Trust!Prompt("wallet", tmenu.nonce, Nobody)
<1>3. /\ \A n \in Nat : Any(n) \in DownFrames /\ ~Fingerprint(Any(n))
      /\ tmenu.nonce \in Nat => Wallet \in DownFrames /\ ~Fingerprint(Wallet)
      /\ Trust!SET_SCREEN \in DownFrames /\ ~Fingerprint(Trust!SET_SCREEN)
  BY DEF DownFrames, Fingerprint, Trust!Prompt, Trust!Modes, Trust!SET_SCREEN
<1> HIDE DEF Any, Wallet
<1>4. ASSUME NEW f \in DownFrames, ~Fingerprint(f), tdown' = Append(tdown, f)
      PROVE  DownKept
  BY <1>4 DEF DownKept
<1> USE DEF TrustInv, TrustTypes, Genuine, Names, Answers, Candidate, Armed, Awaiting, Kept, NonceOwn, ResultTrue,
        Trust!CONFIRMED, Trust!TIMEOUT
<1>5. CASE Trust!OnResult
  <2>1. tup # <<>> /\ tup' = Tail(tup) /\ Head(tup).kind = "result" /\ UNCHANGED <<tdown, fresh>>
    BY <1>5 DEF Trust!OnResult
  <2>2. DownKept /\ UpKept
    BY <2>1 DEF DownKept, UpKept
  <2>3. CASE prompt.armed /\ Head(tup).nonce = prompt.nonce
    <3>1. prompt' = [prompt EXCEPT !.result = Head(tup).result] /\ UNCHANGED tmenu
      BY <1>5, <2>3 DEF Trust!OnResult
    <3>2. Head(tup).result = Trust!CONFIRMED /\ claim.pc \in Armed => claim.who \in agreed
      BY <2>1, <2>3 DEF UpGenuine, Confirms
    <3>3. Received /\ Kept /\ NonceOwn'
      BY <1>1, <2>1, <3>1
    <3>4. ResultTrue'
      BY <1>1, <3>1, <3>2
    <3> QED
      BY <1>2, <2>2, <3>3, <3>4
  <2>4. CASE ~(prompt.armed /\ Head(tup).nonce = prompt.nonce)
    <3>1. /\ UNCHANGED prompt
          /\ tmenu' = IF tmenu.active /\ Head(tup).nonce = tmenu.nonce THEN [tmenu EXCEPT !.active = FALSE] ELSE tmenu
      BY <1>5, <2>4 DEF Trust!OnResult
    <3>2. DOMAIN tmenu' = {"active", "address", "nonce"} /\ tmenu'.nonce = tmenu.nonce /\ tmenu'.address = tmenu.address
      BY <3>1
    <3>3. Received /\ Kept /\ NonceOwn' /\ ResultTrue'
      BY <1>1, <2>1, <3>1, <3>2
    <3> QED
      BY <1>2, <2>2, <3>3
  <2> QED
    BY <2>3, <2>4
<1>6. CASE Trust!Release
  <2>1. Received /\ Kept /\ NonceOwn' /\ ResultTrue' /\ UNCHANGED <<tdown, tup>>
    BY <1>1, <1>6 DEF Trust!Release
  <2> QED
    BY <1>2, <2>1 DEF DownKept, UpKept
<1>7. CASE Trust!Raise
  <2>1. Received /\ Kept /\ NonceOwn' /\ ResultTrue' /\ UNCHANGED tup /\ tdown' = Append(tdown, Wallet)
    BY <1>1, <1>7 DEF Trust!Raise, Wallet
  <2> QED
    BY <1>2, <1>3, <1>4, <2>1 DEF UpKept
<1>8. ASSUME NEW m, DOMAIN m = {"active", "address", "nonce"}, m.address \in BOOLEAN, Trust!PushScreen(m),
             tup # <<>> /\ tup' = Tail(tup),
             (m.nonce = tmenu.nonce /\ UNCHANGED fresh) \/ (m.nonce = fresh /\ fresh' = fresh + 1)
      PROVE  TrustInv'
  <2>1. UpKept /\ tmenu' = m
    BY <1>8 DEF UpKept, Trust!PushScreen
  <2>2. CASE m.address
    <3>1. UNCHANGED tdown /\ prompt' = [prompt EXCEPT !.nonce = m.nonce, !.result = Trust!TIMEOUT]
      BY <1>8, <2>2 DEF Trust!PushScreen
    <3>2. Received /\ Kept /\ NonceOwn' /\ ResultTrue'
      BY <1>1, <1>8, <2>1, <3>1, SMTT(60)
    <3> QED
      BY <1>2, <2>1, <3>1, <3>2 DEF DownKept
  <2>3. CASE ~m.address
    <3>1. UNCHANGED prompt /\ tdown' = Append(tdown, Any(m.nonce))
      BY <1>8, <2>3 DEF Trust!PushScreen, Any
    <3>2. Received /\ Kept /\ NonceOwn' /\ ResultTrue'
      BY <1>1, <1>8, <2>1, <3>1
    <3>3. DownKept
      BY <1>3, <1>4, <1>8, <3>1
    <3> QED
      BY <1>2, <2>1, <3>2, <3>3
  <2> QED
    BY <2>2, <2>3
<1>9. CASE Trust!OnActivate
  <2> DEFINE m == [active |-> TRUE, address |-> FALSE, nonce |-> fresh]
  <2>1. DOMAIN m = {"active", "address", "nonce"} /\ m.address \in BOOLEAN /\ m.nonce = fresh
    OBVIOUS
  <2>2. Trust!PushScreen(m) /\ tup # <<>> /\ tup' = Tail(tup) /\ fresh' = fresh + 1
    BY <1>9 DEF Trust!OnActivate
  <2> HIDE DEF m
  <2> QED
    BY <1>8, <2>1, <2>2
<1>10. CASE Trust!OnPress
  <2>1. tup # <<>> /\ tup' = Tail(tup) /\ UNCHANGED fresh
    BY <1>10 DEF Trust!OnPress
  <2>2. CASE \E a \in {FALSE, ~tmenu.address} : Trust!PushScreen([tmenu EXCEPT !.address = a])
    <3> PICK a \in {FALSE, ~tmenu.address} : Trust!PushScreen([tmenu EXCEPT !.address = a])
      BY <2>2
    <3> PICK m : m = [tmenu EXCEPT !.address = a]
      OBVIOUS
    <3>1. DOMAIN m = {"active", "address", "nonce"} /\ m.address \in BOOLEAN /\ m.nonce = tmenu.nonce
      OBVIOUS
    <3>2. Trust!PushScreen(m)
      OBVIOUS
    <3>3. (m.nonce = tmenu.nonce /\ UNCHANGED fresh) \/ (m.nonce = fresh /\ fresh' = fresh + 1)
      BY <2>1, <3>1
    <3> HIDE DEF TrustInv
    <3> QED
      BY ONLY <1>8, <2>1, <3>1, <3>2, <3>3
  <2>3. CASE tmenu' = [tmenu EXCEPT !.active = FALSE] /\ tdown' = Append(tdown, Trust!SET_SCREEN) /\ UNCHANGED prompt
    <3>1. Received /\ Kept /\ NonceOwn' /\ ResultTrue'
      BY <1>1, <2>1, <2>3
    <3> QED
      BY <1>2, <1>3, <1>4, <2>1, <2>3, <3>1 DEF UpKept
  <2>4. CASE UNCHANGED <<tmenu, prompt, tdown>>
    <3>1. Received /\ Kept /\ NonceOwn' /\ ResultTrue'
      BY <1>1, <2>1, <2>4
    <3> QED
      BY <1>2, <2>1, <2>4, <3>1 DEF DownKept, UpKept
  <2> QED
    BY <1>10, <2>2, <2>3, <2>4 DEF Trust!OnPress
<1> QED
  BY <1>5, <1>6, <1>7, <1>9, <1>10 DEF Trust!RxTask

\* The RP2040 takes a frame.
LEMMA FrameStep ==
  ASSUME TrustInv, Trust!OnFrame
  PROVE  TrustInv'
<1>1. /\ tdown # <<>> /\ tdown' = Tail(tdown) /\ watching' = 0 /\ slack' = 0
      /\ UNCHANGED <<claim, prompt, tmenu, owner, fresh, grip, stalled, tup, agreed>>
  BY DEF Trust!OnFrame, Trust!LooksAgain, Trust!esp
<1>2. Kept
  BY <1>1 DEF Kept, Genuine, Names, Answers
<1>3. DownKept /\ UpKept
  BY <1>1 DEF DownKept, UpKept
<1>4. DownGenuine' /\ UpGenuine' /\ tdown' \in Seq(DownFrames) /\ (tup' = <<>> \/ tup' = <<Head(tup')>>)
  BY <1>2, <1>3, LinesKept
<1>5. NonceOwn' /\ ResultTrue' /\ BoundByConfirmation'
  BY <1>1 DEF TrustInv, NonceOwn, ResultTrue, BoundByConfirmation, Trust!BoundByConfirmation
<1> DEFINE f == Head(tdown)
<1>6. f = tdown[1] /\ 1 \in 1..Len(tdown)
  BY <1>1, HeadTailProperties DEF TrustInv, TrustTypes
<1> HIDE DEF f
<1>7. CASE f.kind = "prompt"
  <2>1. rp' = [Trust!Blank EXCEPT !.on = TRUE, !.mode = f.mode, !.nonce = f.nonce, !.who = f.who]
    BY <1>7 DEF Trust!OnFrame, f
  <2>2. /\ DOMAIN rp' = {"on", "mode", "nonce", "who", "age", "hold", "miss"} /\ rp'.on \in BOOLEAN
        /\ rp'.hold = 0 /\ rp'.miss = 0 /\ rp'.age = 0 /\ rp'.mode = f.mode /\ rp'.nonce = f.nonce /\ rp'.who = f.who
    BY <2>1 DEF Trust!Blank
  <2>3. f.mode = "fingerprint" => Genuine(f.nonce) /\ Names(f.nonce, f.who)
    BY <1>6, <1>7 DEF TrustInv, DownGenuine, Fingerprint
  <2>4. f.mode = "fingerprint" => Genuine(rp.nonce)' /\ Names(rp.nonce, rp.who)'
    BY <1>1, <2>2, <2>3 DEF Genuine, Names
  <2>5. ShownGenuine'
    BY <2>2, <2>4 DEF ShownGenuine
  <2>6. f.mode \in Trust!Modes
    <3>1. f \in DownFrames
      BY <1>6 DEF TrustInv, TrustTypes
    <3> QED
      BY <1>7, <3>1 DEF DownFrames, Trust!HELLO, Trust!SET_SCREEN
  <2>7. HoldCounted' /\ TrustTypes'
    BY <1>1, <1>4, <2>2, <2>6 DEF TrustInv, TrustTypes, HoldCounted
  <2> QED
    BY <1>4, <1>5, <2>5, <2>7 DEF TrustInv
<1>8. CASE f.kind # "prompt"
  <2>1. rp' = [rp EXCEPT !.on = FALSE, !.hold = 0, !.miss = 0]
    BY <1>8 DEF Trust!OnFrame, f
  <2>2. /\ DOMAIN rp' = {"on", "mode", "nonce", "who", "age", "hold", "miss"} /\ rp'.on \in BOOLEAN /\ ~rp'.on
        /\ rp'.hold = 0 /\ rp'.miss = 0 /\ rp'.age = rp.age /\ rp'.mode = rp.mode
    BY <2>1 DEF TrustInv, TrustTypes
  <2>3. ShownGenuine' /\ HoldCounted' /\ TrustTypes'
    BY <1>1, <1>4, <2>2 DEF TrustInv, TrustTypes, HoldCounted, ShownGenuine
  <2> QED
    BY <1>4, <1>5, <2>3 DEF TrustInv
<1> QED
  BY <1>7, <1>8

\* The numbers.
LEMMA TrustNumbers == TRUST_CONFIRM \in Nat \ {0} /\ RELEASE_GRACE \in Nat /\ CONFIRM_TIMEOUT \in Nat
BY TrustConstants DEF Trust!TrustAnchorConstants

\* What the person does in a pass.
LEMMA WatchStep ==
  ASSUME TrustInv, Trust!Watches
  PROVE  LET current == rp.on /\ rp.mode = "fingerprint"
             goesOn == IF stalled THEN watching > 0 ELSE grip \/ (watching > 0 /\ slack < RELEASE_GRACE) IN
         /\ watching' = (IF current /\ goesOn THEN IF watching > TRUST_CONFIRM THEN watching ELSE watching + 1 ELSE 0)
         /\ slack' = (IF watching' = 0 \/ (grip /\ ~stalled) THEN 0 ELSE IF stalled THEN slack ELSE slack + 1)
         /\ watching' \in Nat /\ slack' \in Nat /\ agreed \subseteq agreed' /\ grip' = grip
         /\ current /\ ~stalled /\ grip /\ watching' > TRUST_CONFIRM => rp.who \in agreed'
<1> USE DEF TrustInv, TrustTypes
<1> DEFINE current == rp.on /\ rp.mode = "fingerprint"
           held == IF watching > TRUST_CONFIRM THEN watching ELSE watching + 1
           agrees == current /\ ~stalled /\ grip /\ watching' > TRUST_CONFIRM
           goesOn == IF stalled THEN watching > 0 ELSE grip \/ (watching > 0 /\ slack < RELEASE_GRACE)
<1>1. /\ watching' = (IF current /\ goesOn THEN held ELSE 0)
      /\ slack' = (IF watching' = 0 \/ (grip /\ ~stalled) THEN 0 ELSE IF stalled THEN slack ELSE slack + 1)
      /\ agreed' = (IF agrees THEN agreed \cup {rp.who} ELSE agreed)
      /\ grip' = grip
  BY DEF Trust!Watches
<1>2. watching' \in Nat /\ slack' \in Nat
  <2> HIDE DEF goesOn, current
  <2> QED BY <1>1, TrustNumbers
<1>3. agreed \subseteq agreed' /\ (agrees => rp.who \in agreed')
  <2> HIDE DEF agrees
  <2> QED BY <1>1
<1> QED
  BY <1>1, <1>2, <1>3

\* A pass of the RP2040's loop.
LEMMA PassStep ==
  ASSUME TrustInv, Trust!Tick
  PROVE  TrustInv'
<1> USE TrustNumbers DEF TrustInv, TrustTypes
<1>1. /\ tup = <<>> /\ Trust!Watches /\ UNCHANGED <<prompt, tmenu, stalled, tdown, owner, fresh>>
      /\ claim' = (IF claim.pc = "query" THEN [claim EXCEPT !.pc = "answer"] ELSE claim)
      /\ tdown = <<>>
  BY DEF Trust!Tick, Trust!Goes
<1>2. /\ watching' \in Nat /\ slack' \in Nat /\ agreed \subseteq agreed' /\ grip' = grip
  BY <1>1, WatchStep
<1>3. NonceOwn' /\ ResultTrue' /\ BoundByConfirmation' /\ DownGenuine'
  BY <1>1, <1>2, SMTT(60) DEF NonceOwn, ResultTrue, BoundByConfirmation, Trust!BoundByConfirmation, DownGenuine, Candidate, Armed,
     Awaiting
<1>4. Kept
  BY <1>1, <1>2 DEF Kept, Genuine, Names, Answers, Candidate, Armed
<1>5. DOMAIN claim' = {"pc", "who", "nonce"} /\ claim'.who \in Wallets \cup {Nobody} /\ claim'.nonce \in Nat
  BY <1>1
<1> DEFINE Screened == /\ DOMAIN rp' = {"on", "mode", "nonce", "who", "age", "hold", "miss"} /\ rp'.on \in BOOLEAN
                       /\ rp'.hold \in Nat /\ rp'.miss \in Nat /\ rp'.age \in Nat /\ rp'.mode \in Trust!Modes
                       /\ rp'.on => rp.on /\ rp'.mode = rp.mode /\ rp'.nonce = rp.nonce /\ rp'.who = rp.who
           Sends == \/ tup' = <<>> \/ (tup' = <<Head(tup')>> /\ ~Confirms(Head(tup')))
                    \/ /\ tup' = <<Head(tup')>> /\ Head(tup').nonce = rp.nonce
                       /\ rp.on /\ rp.mode = "fingerprint" /\ rp.who \in agreed'
<1>6. ASSUME Screened, Sends, HoldCounted'
      PROVE  TrustInv'
  <2>1. ShownGenuine'
    <3>1. rp'.on /\ rp'.mode = "fingerprint" => Genuine(rp.nonce) /\ Names(rp.nonce, rp.who)
      BY <1>6 DEF ShownGenuine
    <3>2. rp'.on /\ rp'.mode = "fingerprint" => Genuine(rp.nonce)' /\ Names(rp.nonce, rp.who)'
      BY <1>1, <1>2, <1>6, <3>1 DEF Genuine, Names, Candidate, Armed
    <3> QED
      BY <3>2 DEF ShownGenuine
  <2>2. UpGenuine' /\ (tup' = <<>> \/ tup' = <<Head(tup')>>)
    <3>1. CASE tup' = <<>> \/ (tup' = <<Head(tup')>> /\ ~Confirms(Head(tup')))
      BY <3>1 DEF UpGenuine, Confirms
    <3>2. CASE /\ tup' = <<Head(tup')>> /\ Head(tup').nonce = rp.nonce
               /\ rp.on /\ rp.mode = "fingerprint" /\ rp.who \in agreed'
      <4>1. Genuine(rp.nonce) /\ Names(rp.nonce, rp.who)
        BY <3>2 DEF ShownGenuine
      <4>2. Genuine(Head(tup).nonce)' /\ Answers(Head(tup).nonce)'
        BY <1>1, <1>2, <3>2, <4>1 DEF Genuine, Names, Answers, Candidate, Armed
      <4> QED
        BY <3>2, <4>2 DEF UpGenuine
    <3> QED
      BY <1>6, <3>1, <3>2
  <2>3. TrustTypes'
    BY <1>1, <1>2, <1>5, <1>6, <2>2
  <2> QED
    BY <1>3, <1>6, <2>1, <2>2, <2>3
<1> DEFINE current == rp.on /\ rp.mode = "fingerprint"
           goesOn == IF stalled THEN watching > 0 ELSE grip \/ (watching > 0 /\ slack < RELEASE_GRACE)
<1>7. /\ watching' = (IF current /\ goesOn THEN IF watching > TRUST_CONFIRM THEN watching ELSE watching + 1 ELSE 0)
      /\ slack' = (IF watching' = 0 \/ (grip /\ ~stalled) THEN 0 ELSE IF stalled THEN slack ELSE slack + 1)
      /\ current /\ ~stalled /\ grip /\ watching' > TRUST_CONFIRM => rp.who \in agreed'
  BY <1>1, WatchStep
<1>8. CASE stalled
  <2>1. tup' = <<>> /\ Trust!Stalls
    BY <1>1, <1>8 DEF Trust!Tick
  <2>2. CASE ~rp.on \/ rp.age = CONFIRM_TIMEOUT
    <3>1. rp' = rp
      BY <2>1, <2>2 DEF Trust!Stalls
    <3>2. Screened
      BY <3>1
    <3>3. HoldCounted'
      BY <1>7, <1>8, <3>1 DEF HoldCounted
    <3> QED
      BY <1>6, <2>1, <3>2, <3>3
  <2>3. CASE ~(~rp.on \/ rp.age = CONFIRM_TIMEOUT)
    <3>1. rp' = [rp EXCEPT !.age = rp.age + 1, !.hold = IF rp.hold > 0 THEN rp.hold + 1 ELSE rp.hold]
      BY <2>1, <2>3 DEF Trust!Stalls
    <3>2. Screened /\ rp'.hold = (IF rp.hold > 0 THEN rp.hold + 1 ELSE rp.hold) /\ rp'.miss = rp.miss
      BY <3>1, SMTT(60)
    <3>3. HoldCounted'
      BY <1>7, <1>8, <3>2 DEF HoldCounted
    <3> QED
      BY <1>6, <2>1, <3>2, <3>3
  <2> QED
    BY <2>2, <2>3
<1>9. CASE ~stalled
  <2>1. Trust!TrustUiTick
    BY <1>9 DEF Trust!Tick
  <2>2. \A n, r : Trust!Result(n, r).nonce = n /\ (Confirms(Trust!Result(n, r)) <=> r = Trust!CONFIRMED)
    BY DEF Trust!Result, Confirms
  <2>3. \A x : Head(<<x>>) = x
    OBVIOUS
  <2>4. ~Confirms(Trust!PRESS) /\ ~Confirms(Trust!ACTIVATE)
    BY DEF Confirms, Trust!PRESS, Trust!ACTIVATE
  <2>9. /\ DOMAIN Trust!Aged = {"on", "mode", "nonce", "who", "age", "hold", "miss"} /\ Trust!Aged.age \in Nat
        /\ Trust!Aged.on = rp.on /\ Trust!Aged.mode = rp.mode /\ Trust!Aged.nonce = rp.nonce /\ Trust!Aged.who = rp.who
        /\ Trust!Aged.hold = rp.hold /\ Trust!Aged.miss = rp.miss
    BY DEF Trust!Aged
  <2>10. Trust!Off.mode = rp.mode /\ (rp' = Trust!Off => Screened)
    BY DEF Trust!Off
  <2>11. rp' = Trust!Aged => Screened
    BY <2>9
  <2>5. CASE ~rp.on
    <3>1. rp' = rp /\ tup' \in {<<>>, <<Trust!ACTIVATE>>}
      BY <2>1, <2>5 DEF Trust!TrustUiTick, Trust!IdleTick
    <3>2. Screened /\ HoldCounted'
      BY <2>5, <3>1 DEF HoldCounted
    <3>3. Sends
      BY <2>3, <2>4, <3>1
    <3> QED
      BY <1>6, <3>2, <3>3
  <2>6. CASE rp.on /\ rp.mode \in {"menu", "wallet"}
    <3>1. Trust!MenuTick
      BY <2>1, <2>6 DEF Trust!TrustUiTick
    <3>2. rp' = Trust!Off \/ rp' = Trust!Aged
      BY <3>1 DEF Trust!MenuTick
    <3>3. Screened /\ rp'.mode = rp.mode
      BY ONLY <2>9, <2>10, <2>11, <3>2
    <3>4. HoldCounted'
      BY <2>6, <3>3 DEF HoldCounted
    <3>5. tup' \in {<<>>, <<Trust!PRESS>>, <<Trust!Result(rp.nonce, Trust!TIMEOUT)>>}
      BY <3>1 DEF Trust!MenuTick
    <3>6. Sends
      BY <2>2, <2>3, <2>4, <3>5 DEF Trust!CONFIRMED, Trust!TIMEOUT
    <3> QED
      BY <1>6, <3>3, <3>4, <3>6
  <2>7. CASE rp.on /\ rp.mode = "code"
    <3>1. Trust!CodeTick
      BY <2>1, <2>7 DEF Trust!TrustUiTick
    <3>2. (rp' = Trust!Off \/ rp' = Trust!Aged) /\ tup' = <<>>
      BY <3>1 DEF Trust!CodeTick
    <3>3. Screened /\ rp'.mode = rp.mode
      BY ONLY <2>9, <2>10, <2>11, <3>2
    <3>4. HoldCounted'
      BY <2>7, <3>3 DEF HoldCounted
    <3> QED
      BY <1>6, <3>2, <3>3, <3>4
  <2>8. CASE rp.on /\ rp.mode = "fingerprint"
    <3>1. Trust!FingerprintTick
      BY <2>1, <2>8 DEF Trust!TrustUiTick
    <3>2. CASE rp.age = CONFIRM_TIMEOUT
      <4>1. tup' = <<Trust!Result(rp.nonce, Trust!TIMEOUT)>> /\ rp' = Trust!Off
        BY <3>1, <3>2 DEF Trust!FingerprintTick
      <4>2. Screened /\ ~rp'.on
        BY <4>1 DEF Trust!Off
      <4>3. Sends
        BY <2>2, <2>3, <4>1 DEF Trust!CONFIRMED, Trust!TIMEOUT
      <4>4. HoldCounted'
        BY <4>2 DEF HoldCounted
      <4> QED
        BY <1>6, <4>2, <4>3, <4>4
    <3>3. CASE rp.age # CONFIRM_TIMEOUT /\ grip /\ rp.hold >= TRUST_CONFIRM
      <4>1. tup' = <<Trust!Result(rp.nonce, Trust!CONFIRMED)>> /\ rp' = Trust!Off
        BY <3>1, <3>3 DEF Trust!FingerprintTick
      <4>2. Screened /\ ~rp'.on
        BY <4>1 DEF Trust!Off
      <4>3. watching' > TRUST_CONFIRM
        BY <1>7, <1>9, <2>8, <3>3 DEF HoldCounted
      <4>4. rp.who \in agreed'
        BY <1>7, <1>9, <2>8, <3>3, <4>3
      <4>5. Sends
        BY <2>2, <2>3, <2>8, <4>1, <4>4
      <4>6. HoldCounted'
        BY <4>2 DEF HoldCounted
      <4> QED
        BY <1>6, <4>2, <4>5, <4>6
    <3>4. CASE rp.age # CONFIRM_TIMEOUT /\ grip /\ ~(rp.hold >= TRUST_CONFIRM)
      <4>1. tup' = <<>> /\ rp' = [Trust!Aged EXCEPT !.hold = Trust!Aged.hold + 1, !.miss = 0]
        BY <3>1, <3>4 DEF Trust!FingerprintTick
      <4>2. Screened /\ rp'.hold = rp.hold + 1 /\ rp'.miss = 0
        <5>1. DOMAIN rp' = DOMAIN Trust!Aged /\ rp'.hold = Trust!Aged.hold + 1 /\ rp'.miss = 0
          BY <2>9, <4>1
        <5>2. /\ rp'.on = Trust!Aged.on /\ rp'.mode = Trust!Aged.mode /\ rp'.nonce = Trust!Aged.nonce
              /\ rp'.who = Trust!Aged.who /\ rp'.age = Trust!Aged.age
          BY <2>9, <4>1
        <5> QED
          BY <2>8, <2>9, <5>1, <5>2
      <4>3. HoldCounted'
        BY <1>7, <1>9, <2>8, <3>4, <4>2 DEF HoldCounted
      <4> QED
        BY <1>6, <4>1, <4>2, <4>3
    <3>5. CASE rp.age # CONFIRM_TIMEOUT /\ ~grip /\ rp.hold > 0 /\ rp.miss < RELEASE_GRACE
      <4>1. tup' = <<>> /\ rp' = [Trust!Aged EXCEPT !.hold = Trust!Aged.hold + 1, !.miss = Trust!Aged.miss + 1]
        BY <3>1, <3>5 DEF Trust!FingerprintTick
      <4>2. Screened /\ rp'.hold = rp.hold + 1 /\ rp'.miss = rp.miss + 1
        <5>1. DOMAIN rp' = DOMAIN Trust!Aged /\ rp'.hold = Trust!Aged.hold + 1 /\ rp'.miss = Trust!Aged.miss + 1
          BY <2>9, <4>1
        <5>2. /\ rp'.on = Trust!Aged.on /\ rp'.mode = Trust!Aged.mode /\ rp'.nonce = Trust!Aged.nonce
              /\ rp'.who = Trust!Aged.who /\ rp'.age = Trust!Aged.age
          BY <2>9, <4>1
        <5> QED
          BY <2>8, <2>9, <5>1, <5>2
      <4>3. HoldCounted'
        BY <1>7, <1>9, <2>8, <3>5, <4>2, SMTT(60) DEF HoldCounted
      <4> QED
        BY <1>6, <4>1, <4>2, <4>3
    <3>6. CASE rp.age # CONFIRM_TIMEOUT /\ ~grip /\ ~(rp.hold > 0 /\ rp.miss < RELEASE_GRACE)
      <4>1. tup' = <<>> /\ rp' = [Trust!Aged EXCEPT !.hold = 0, !.miss = 0]
        BY <3>1, <3>6 DEF Trust!FingerprintTick
      <4>2. Screened /\ rp'.hold = 0 /\ rp'.miss = 0
        <5>1. DOMAIN rp' = DOMAIN Trust!Aged /\ rp'.hold = 0 /\ rp'.miss = 0
          BY <2>9, <4>1
        <5>2. /\ rp'.on = Trust!Aged.on /\ rp'.mode = Trust!Aged.mode /\ rp'.nonce = Trust!Aged.nonce
              /\ rp'.who = Trust!Aged.who /\ rp'.age = Trust!Aged.age
          BY <2>9, <4>1
        <5> QED
          BY <2>8, <2>9, <5>1, <5>2
      <4>3. HoldCounted'
        BY <1>7, <1>9, <2>8, <3>6, <4>2 DEF HoldCounted
      <4> QED
        BY <1>6, <4>1, <4>2, <4>3
    <3> QED
      BY <3>2, <3>3, <3>4, <3>5, <3>6
  <2> QED
    BY <2>5, <2>6, <2>7, <2>8 DEF Trust!Modes
<1> QED
  BY <1>8, <1>9

\* Faults, and the person's hands.
LEMMA FaultStep ==
  ASSUME TrustInv, \/ Trust!Grips \/ Trust!FrameLost \/ Trust!EspRestarts \/ Trust!RpRestarts
                   \/ Trust!TransferBegins \/ Trust!TransferEnds
  PROVE  TrustInv'
<1> USE DEF Trust!person, Trust!attention, Trust!esp
<1>1. CASE Trust!Grips \/ Trust!TransferBegins \/ Trust!TransferEnds
  <2>1. /\ UNCHANGED <<claim, prompt, tmenu, owner, fresh, rp, tdown, tup, watching, slack, agreed>>
    BY <1>1 DEF Trust!Grips, Trust!TransferBegins, Trust!TransferEnds
  <2>2. grip' \in BOOLEAN /\ stalled' \in BOOLEAN
    BY <1>1 DEF Trust!Grips, Trust!TransferBegins, Trust!TransferEnds, TrustInv, TrustTypes
  <2>3. TrustTypes'
    BY <2>1, <2>2 DEF TrustInv, TrustTypes
  <2> QED
    BY <2>1, <2>3 DEF TrustInv, NonceOwn, DownGenuine, ShownGenuine, UpGenuine, ResultTrue, HoldCounted,
       BoundByConfirmation, Trust!BoundByConfirmation, Genuine, Names, Answers
<1>2. CASE Trust!FrameLost
  <2>1. UNCHANGED <<claim, prompt, tmenu, owner, fresh, rp, grip, stalled, watching, slack, agreed>>
    BY <1>2 DEF Trust!FrameLost
  <2>2. Kept
    BY <2>1 DEF Kept, Genuine, Names, Answers
  <2>3. DownKept /\ UpKept
    BY <1>2 DEF Trust!FrameLost, DownKept, UpKept
  <2>4. DownGenuine' /\ UpGenuine' /\ tdown' \in Seq(DownFrames) /\ (tup' = <<>> \/ tup' = <<Head(tup')>>)
    BY <2>2, <2>3, LinesKept
  <2>5. TrustTypes' /\ NonceOwn' /\ ResultTrue' /\ BoundByConfirmation'
    BY <2>1, <2>4 DEF TrustInv, TrustTypes, NonceOwn, ResultTrue, BoundByConfirmation, Trust!BoundByConfirmation
  <2> QED
    BY <2>1, <2>2, <2>4, <2>5, EspKept
<1>3. CASE Trust!EspRestarts
  <2>1. /\ claim' = Trust!NoClaim /\ prompt' = Trust!Disarmed /\ tmenu' = Trust!MenuClosed /\ tup' = <<>>
        /\ tdown' = Append(tdown, Trust!HELLO)
        /\ UNCHANGED <<owner, fresh, rp, grip, stalled, watching, slack, agreed>>
    BY <1>3 DEF Trust!EspRestarts
  <2>2. Trust!HELLO \in DownFrames /\ ~Fingerprint(Trust!HELLO)
    BY DEF DownFrames, Fingerprint, Trust!HELLO
  <2>3. DownKept /\ UpKept
    BY <2>1, <2>2 DEF DownKept, UpKept
  <2>4. Kept
    BY <2>1 DEF Kept, Genuine, Names, Answers, Trust!NoClaim, Trust!MenuClosed, Candidate, Armed
  <2>5. DownGenuine' /\ UpGenuine' /\ tdown' \in Seq(DownFrames) /\ (tup' = <<>> \/ tup' = <<Head(tup')>>)
    BY <2>3, <2>4, LinesKept
  <2>6. TrustTypes'
    BY <2>1, <2>5 DEF TrustInv, TrustTypes, Trust!NoClaim, Trust!MenuClosed, Trust!Disarmed
  <2>7. NonceOwn' /\ ResultTrue' /\ BoundByConfirmation'
    BY <2>1 DEF TrustInv, TrustTypes, NonceOwn, ResultTrue, BoundByConfirmation, Trust!BoundByConfirmation,
       Trust!NoClaim, Trust!MenuClosed, Candidate, Awaiting, Armed
  <2> QED
    BY <2>1, <2>4, <2>5, <2>6, <2>7, EspKept
<1>4. CASE Trust!RpRestarts
  <2>1. /\ rp' = Trust!Blank /\ stalled' \in BOOLEAN /\ tdown' = <<>> /\ watching' = 0 /\ slack' = 0
        /\ UNCHANGED <<claim, prompt, tmenu, owner, fresh, grip, tup, agreed>>
    BY <1>4 DEF Trust!RpRestarts, Trust!LooksAgain
  <2>2. Kept
    BY <2>1 DEF Kept, Genuine, Names, Answers
  <2>3. DownKept /\ UpKept
    BY <2>1 DEF DownKept, UpKept
  <2>4. DownGenuine' /\ UpGenuine' /\ tdown' \in Seq(DownFrames) /\ (tup' = <<>> \/ tup' = <<Head(tup')>>)
    BY <2>2, <2>3, LinesKept
  <2>5. /\ DOMAIN rp' = {"on", "mode", "nonce", "who", "age", "hold", "miss"} /\ rp'.on \in BOOLEAN /\ ~rp'.on
        /\ rp'.mode \in Trust!Modes /\ rp'.hold \in Nat /\ rp'.miss \in Nat /\ rp'.age \in Nat
    BY <2>1 DEF Trust!Blank, Trust!Modes
  <2>6. TrustTypes' /\ ShownGenuine' /\ HoldCounted'
    BY <2>1, <2>4, <2>5 DEF TrustInv, TrustTypes, ShownGenuine, HoldCounted
  <2>7. NonceOwn' /\ ResultTrue' /\ BoundByConfirmation'
    BY <2>1 DEF TrustInv, NonceOwn, ResultTrue, BoundByConfirmation, Trust!BoundByConfirmation
  <2> QED
    BY <2>4, <2>6, <2>7 DEF TrustInv
<1> QED
  BY <1>1, <1>2, <1>3, <1>4

LEMMA TrustHolds ==
  /\ Trust!Init => TrustInv
  /\ TrustInv /\ UNCHANGED trustvars => TrustInv'
<1>1. ASSUME Trust!Init PROVE TrustInv
  <2>1. /\ claim = Trust!NoClaim /\ prompt = Trust!Disarmed /\ tmenu = Trust!MenuClosed /\ rp = Trust!Blank
        /\ grip \in BOOLEAN /\ stalled \in BOOLEAN /\ tdown = <<>> /\ tup = <<>> /\ owner = Nobody /\ fresh = 1
        /\ watching = 0 /\ slack = 0
    BY <1>1 DEF Trust!Init
  <2>2. TrustTypes
    BY <2>1 DEF TrustTypes, Trust!NoClaim, Trust!Disarmed, Trust!MenuClosed, Trust!Blank, Trust!Modes
  <2>3. ~rp.on /\ claim.pc \notin Candidate
    BY <2>1 DEF Trust!Blank, Trust!NoClaim, Candidate
  <2>4. NonceOwn /\ DownGenuine /\ ShownGenuine /\ UpGenuine /\ ResultTrue /\ HoldCounted /\ BoundByConfirmation
    BY <2>1, <2>3 DEF NonceOwn, DownGenuine, ShownGenuine, UpGenuine, ResultTrue, HoldCounted, BoundByConfirmation,
       Trust!BoundByConfirmation, Trust!MenuClosed, Candidate, Awaiting, Armed
  <2> QED
    BY <2>2, <2>4 DEF TrustInv
<1>2. ASSUME TrustInv, UNCHANGED trustvars PROVE TrustInv'
  BY <1>2 DEF trustvars, TrustInv, TrustTypes, NonceOwn, DownGenuine, ShownGenuine, UpGenuine, ResultTrue, HoldCounted,
     BoundByConfirmation, Trust!BoundByConfirmation, Genuine, Names, Answers
<1> QED
  BY <1>1, <1>2

\* An owner is bound (arkiv_claim.c, wups_link.c, trust_ui.cpp) only if the
\* person at the device agreed to that very owner: whatever the interleaving of
\* the claim task, the receive task, its menu and the RP2040's loop, for any
\* number of wallets, prompts, lost frames, restarts and transfers, and for any
\* lengths of the hold, the grace and the timeouts, if nonces do not repeat.
THEOREM BoundOnlyByConfirmation == PanelSpec => []BoundByConfirmation
<1>1. PanelInit => TrustInv
  BY TrustHolds DEF PanelInit, MCInit
<1>2. TrustInv /\ [MCNext]_all => TrustInv'
  <2> SUFFICES ASSUME TrustInv, [MCNext]_all PROVE TrustInv'
    OBVIOUS
  <2>1. Trust!Next \/ UNCHANGED trustvars
    BY DEF MCNext, all
  <2> QED
    BY <2>1, ClaimStep, ReceiveStep, FrameStep, PassStep, FaultStep, TrustHolds DEF Trust!Next
<1>3. TrustInv => BoundByConfirmation
  BY DEF TrustInv
<1> QED
  BY <1>1, <1>2, <1>3, PTL DEF PanelSpec

-----------------------------------------------------------------------------
(* The ESP32's menu (OledMenu)                                             *)

\* What a frame makes of the display; what the display will show once the frames
\* under way have arrived, and that it is what the ESP32 would have it show.
Image(f) == IF f.kind = "prompt" THEN [nonce |-> f.nonce, text |-> f.text] ELSE Esp!Dark
Final == IF edown = <<>> THEN eshown ELSE Image(edown[Len(edown)])
InStep == Final.nonce = emenu.nonce /\ Final.text \in Esp!render_screen(emenu.screen, emenu.cursor)

Listed == \E S : edown \in Seq(S)
MenuFields == DOMAIN emenu = {"active", "screen", "cursor", "nonce"} /\ emenu.active \in BOOLEAN

\* A confirm screen whose cursor is not on "Back" has had LEFT applied to it.
ConfirmMoved == emenu.screen \in Esp!ConfirmScreens => emenu.cursor = 0 \/ moved

EspInv ==
    /\ MenuFields /\ Listed /\ losses \in Nat /\ moved \in BOOLEAN
    /\ ConfirmMoved
    /\ losses = 0 /\ emenu.active => Final = Esp!Dark \/ InStep

LEMMA Appended ==
  ASSUME Listed, NEW f
  PROVE  LET d == Append(edown, f) IN
         /\ \E S : d \in Seq(S)
         /\ d # <<>> /\ d[Len(d)] = f
<1> PICK S : edown \in Seq(S)
  BY DEF Listed
<1> DEFINE d == Append(edown, f)
           R == S \cup {f}
<1>1. edown \in Seq(R)
  OBVIOUS
<1>2. d \in Seq(R) /\ Len(d) = Len(edown) + 1 /\ d[Len(edown) + 1] = f /\ Len(edown) \in Nat
  BY <1>1, AppendProperties
<1>3. d # <<>> /\ d[Len(d)] = f
  BY <1>2
<1> QED
  BY <1>2, <1>3

LEMMA Taken ==
  ASSUME Listed, edown # <<>>
  PROVE  /\ \E S : Tail(edown) \in Seq(S)
         /\ IF Tail(edown) = <<>> THEN Head(edown) = edown[Len(edown)]
            ELSE Tail(edown)[Len(Tail(edown))] = edown[Len(edown)]
<1> PICK S : edown \in Seq(S)
  BY DEF Listed
<1>1. /\ Head(edown) = edown[1] /\ Tail(edown) \in Seq(S) /\ Len(Tail(edown)) = Len(edown) - 1 /\ Len(edown) \in Nat
      /\ \A i \in 1..Len(Tail(edown)) : Tail(edown)[i] = edown[i + 1]
  BY HeadTailProperties
<1>2. Tail(edown) = <<>> => Len(edown) = 1
  <2>1. Tail(edown) = <<>> => Len(Tail(edown)) = 0
    BY EmptySeq
  <2> QED
    BY ONLY <1>1, <2>1
<1>3. Tail(edown) # <<>> => Len(Tail(edown)) \in 1..Len(Tail(edown))
  BY <1>1
<1> QED
  BY <1>1, <1>2, <1>3

\* A screen that is pushed is what the display will show.
LEMMA PushShows ==
  ASSUME Listed, NEW m, NEW what, Esp!Push(m, what)
  PROVE  Listed' /\ InStep' /\ emenu' = m
<1>1. PICK t \in Esp!render_screen(m.screen, m.cursor) : edown' = Append(edown, Esp!Prompt(m.nonce, t)) /\ emenu' = m
  BY DEF Esp!Push
<1> DEFINE f == Esp!Prompt(m.nonce, t)
<1>2. Image(f).nonce = m.nonce /\ Image(f).text = t
  BY DEF Image, Esp!Prompt
<1>4. edown' = Append(edown, f)
  BY <1>1
<1> HIDE DEF f
<1>3. Listed' /\ edown' # <<>> /\ edown'[Len(edown')] = f
  BY <1>4, Appended DEF Listed
<1>5. Final' = Image(f)
  BY <1>3 DEF Final, Image
<1>6. Final'.nonce = m.nonce /\ Final'.text \in Esp!render_screen(m.screen, m.cursor)
  BY <1>2, <1>5
<1> QED
  BY <1>1, <1>3, <1>6 DEF InStep, Esp!render_screen, Esp!Text, Esp!KEY_ERROR

\* The confirm screens are entered with the cursor on "Back".
LEMMA LeadsToBack == Esp!LeadsTo # <<>> /\ Esp!LeadsTo[1] \in Esp!ConfirmScreens => Esp!LeadsTo[2] = 0
<1> DEFINE s == emenu.screen
           h == Esp!Highlighted
<1>1. CASE s = "root" /\ h = "HTTP Key"
  BY <1>1 DEF Esp!LeadsTo, Esp!ConfirmScreens
<1>2. CASE s = "key" /\ h = "New key"
  BY <1>2 DEF Esp!LeadsTo, Esp!ConfirmScreens
<1>3. CASE ~(s = "root" /\ h = "HTTP Key") /\ ~(s = "key" /\ h = "New key")
  <2>1. Esp!LeadsTo = IF s \in DOMAIN Esp!Lead /\ h \in DOMAIN Esp!Lead[s] THEN Esp!Lead[s][h] ELSE <<>>
    BY <1>3 DEF Esp!LeadsTo
  <2>2. CASE s \in DOMAIN Esp!Lead /\ h \in DOMAIN Esp!Lead[s]
    <3> HIDE DEF s, h
    <3>1. DOMAIN Esp!Lead = {"root", "wallet", "mode", "reset", "regen", "key", "newkey"}
      BY DEF Esp!Lead
    <3>2. CASE s = "root"
      <4>1. h \in {"Mode", "Reset", "Wallet"}
        BY <2>2, <3>2 DEF Esp!Lead
      <4> QED
        BY <2>1, <2>2, <3>2, <4>1 DEF Esp!Lead, Esp!ConfirmScreens
    <3>3. CASE s = "wallet"
      <4>1. h \in {"Address", "Balance", "Regen", "Back"}
        BY <2>2, <3>3 DEF Esp!Lead
      <4> QED
        BY <2>1, <2>2, <3>3, <4>1 DEF Esp!Lead, Esp!ConfirmScreens
    <3>4. CASE s \in {"mode", "reset", "regen", "key", "newkey"}
      <4>1. h = "Back"
        BY <2>2, <3>4 DEF Esp!Lead
      <4> QED
        BY <2>1, <2>2, <3>4, <4>1 DEF Esp!Lead, Esp!ConfirmScreens
    <3> QED
      BY <2>2, <3>1, <3>2, <3>3, <3>4
  <2> QED
    BY <2>1, <2>2
<1> QED
  BY <1>1, <1>2, <1>3

\* Entering a screen.
LEMMA EnterStep ==
  ASSUME EspInv, NEW s, NEW c, NEW what, Esp!Enter(s, c, what), s \in Esp!ConfirmScreens => c = 0, losses' = losses
  PROVE  EspInv'
<1> PICK m : m = [emenu EXCEPT !.screen = s, !.cursor = c]
  OBVIOUS
<1>1. Esp!Push(m, what) /\ ~moved' /\ moved' \in BOOLEAN
  BY DEF Esp!Enter
<1>2. /\ DOMAIN m = {"active", "screen", "cursor", "nonce"} /\ m.active = emenu.active /\ m.screen = s /\ m.cursor = c
      /\ m.nonce = emenu.nonce
  BY DEF EspInv, MenuFields
<1>3. Listed' /\ InStep' /\ emenu' = m
  BY <1>1, PushShows DEF EspInv
<1>4. MenuFields' /\ ConfirmMoved'
  BY <1>1, <1>2, <1>3 DEF EspInv, MenuFields, ConfirmMoved
<1> QED
  BY <1>1, <1>3, <1>4 DEF EspInv

\* The chip restarts.
LEMMA MenuRestartStep ==
  ASSUME EspInv, Esp!Restart, losses' = losses
  PROVE  EspInv'
<1>1. /\ emenu' = [Esp!Closed EXCEPT !.nonce = emenu.nonce] /\ ~moved' /\ moved' \in BOOLEAN
      /\ edown' = Append(Append(edown, Esp!Prompt(emenu.nonce, Esp!WAIT)), Esp!SET_SCREEN)
  BY DEF Esp!Restart
<1>2. MenuFields' /\ ~emenu'.active /\ emenu'.screen = "root"
  BY <1>1 DEF Esp!Closed, MenuFields
<1>3. Listed'
  <2> PICK d : d = Append(edown, Esp!Prompt(emenu.nonce, Esp!WAIT))
    OBVIOUS
  <2>1. PICK S : d \in Seq(S)
    BY Appended DEF EspInv
  <2>2. Append(d, Esp!SET_SCREEN) \in Seq(S \cup {Esp!SET_SCREEN})
    BY <2>1, AppendProperties
  <2> QED
    BY <1>1, <2>2 DEF Listed
<1> QED
  BY <1>1, <1>2, <1>3 DEF EspInv, ConfirmMoved, Esp!ConfirmScreens

LEMMA EspStep ==
  ASSUME EspInv, Esp!Next
  PROVE  EspInv'
<1>1. CASE Esp!OnActivate
  <2> PICK m : m = [active |-> TRUE, screen |-> "root", cursor |-> 0, nonce |-> emenu.nonce + 1]
    OBVIOUS
  <2>1. Esp!Push(m, "none") /\ moved' \in BOOLEAN /\ losses' = losses
    BY <1>1 DEF Esp!OnActivate
  <2>2. Listed' /\ InStep' /\ emenu' = m
    BY <2>1, PushShows DEF EspInv
  <2>3. MenuFields' /\ ConfirmMoved'
    BY <2>2 DEF MenuFields, ConfirmMoved, Esp!ConfirmScreens
  <2> QED
    BY <2>1, <2>2, <2>3 DEF EspInv
<1>2. ASSUME UNCHANGED <<emenu, eshown, edown, losses, moved>> PROVE EspInv'
  BY <1>2 DEF EspInv, MenuFields, Listed, ConfirmMoved, Final, InStep, Esp!render_screen, Esp!Text
<1>3. CASE Esp!Ignored \/ Esp!Presses \/ Esp!Activates
  BY <1>2, <1>3 DEF Esp!Ignored, Esp!Presses, Esp!Activates
<1>4. CASE Esp!LeavePage
  <2>1. \E c : Esp!Enter("wallet", c, "none") /\ losses' = losses
    BY <1>4 DEF Esp!LeavePage
  <2> QED
    BY <2>1, EnterStep DEF Esp!ConfirmScreens
<1>5. CASE Esp!OnLeft
  <2> PICK m : m = [emenu EXCEPT !.cursor = (emenu.cursor + 1) % Esp!screen_item_count(emenu.screen)]
    OBVIOUS
  <2>1. Esp!Push(m, "none") /\ moved' /\ moved' \in BOOLEAN /\ losses' = losses
    BY <1>5 DEF Esp!OnLeft
  <2>2. /\ DOMAIN m = {"active", "screen", "cursor", "nonce"} /\ m.active = emenu.active
    BY DEF EspInv, MenuFields
  <2>3. Listed' /\ InStep' /\ emenu' = m
    BY <2>1, PushShows DEF EspInv
  <2>4. MenuFields' /\ ConfirmMoved'
    BY <2>1, <2>2, <2>3 DEF EspInv, MenuFields, ConfirmMoved
  <2> QED
    BY <2>1, <2>3, <2>4 DEF EspInv
<1>6. CASE Esp!SelectScreen
  <2>1. Esp!LeadsTo # <<>> /\ Esp!Enter(Esp!LeadsTo[1], Esp!LeadsTo[2], "none") /\ losses' = losses
    BY <1>6 DEF Esp!SelectScreen
  <2> QED
    BY <2>1, LeadsToBack, EnterStep
<1>7. CASE Esp!SelectExit
  <2>1. /\ emenu' = [emenu EXCEPT !.active = FALSE] /\ edown' = Append(edown, Esp!SET_SCREEN) /\ emenu.screen = "root"
        /\ moved' \in BOOLEAN /\ losses' = losses
    BY <1>7 DEF Esp!SelectExit
  <2>2. Listed'
    BY <2>1, Appended DEF EspInv, Listed
  <2>3. MenuFields' /\ ~emenu'.active /\ emenu'.screen = "root"
    BY <2>1 DEF EspInv, MenuFields
  <2> QED
    BY <2>1, <2>2, <2>3 DEF EspInv, ConfirmMoved, Esp!ConfirmScreens
<1>8. CASE Esp!SelectMode \/ Esp!Wipe
  BY <1>8, MenuRestartStep DEF Esp!SelectMode, Esp!Wipe
<1>9. CASE Esp!RegenWallet
  <2>1. CASE Esp!Restart
    BY <1>9, <2>1, MenuRestartStep DEF Esp!RegenWallet
  <2>2. CASE ~Esp!Restart
    <3> DEFINE last3 == <<Esp!Prompt(emenu.nonce, Esp!WAIT), Esp!Prompt(emenu.nonce, Esp!FAILED),
                          Esp!Prompt(emenu.nonce, Esp!Text(emenu.screen, emenu.cursor))>>
    <3>1. edown' = edown \o last3 /\ UNCHANGED <<emenu, moved, losses>>
      BY <1>9, <2>2 DEF Esp!RegenWallet
    <3>2. Len(last3) = 3 /\ last3[3] = Esp!Prompt(emenu.nonce, Esp!Text(emenu.screen, emenu.cursor))
      OBVIOUS
    <3>3. last3 \in Seq({last3[1], last3[2], last3[3]})
      OBVIOUS
    <3> HIDE DEF last3
    <3>4. PICK S : edown \in Seq(S)
      BY DEF EspInv, Listed
    <3>5. PICK R : R = S \cup {last3[1], last3[2], last3[3]}
      OBVIOUS
    <3>6. edown \in Seq(R) /\ last3 \in Seq(R)
      BY <3>3, <3>4, <3>5
    <3>7. edown' \in Seq(R) /\ Len(edown') = Len(edown) + 3 /\ edown'[Len(edown) + 3] = last3[3] /\ Len(edown) \in Nat
      <4>1. PICK e : e = edown \o last3
        OBVIOUS
      <4>2. /\ e \in Seq(R) /\ Len(e) = Len(edown) + Len(last3) /\ Len(edown) \in Nat
            /\ \A i \in 1 .. Len(edown) + Len(last3) : e[i] = IF i <= Len(edown) THEN edown[i] ELSE last3[i - Len(edown)]
        BY ONLY <3>6, <4>1, ConcatProperties
      <4>3. e[Len(edown) + 3] = last3[3] /\ Len(e) = Len(edown) + 3
        <5>1. Len(edown) + 3 \in 1 .. Len(edown) + Len(last3) /\ ~(Len(edown) + 3 <= Len(edown))
              /\ (Len(edown) + 3) - Len(edown) = 3
          BY ONLY <3>2, <4>2
        <5> QED
          BY ONLY <3>2, <4>2, <5>1
      <4> QED
        BY ONLY <3>1, <4>1, <4>2, <4>3
    <3>8. edown' # <<>> /\ edown'[Len(edown')] = last3[3]
      BY <3>7
    <3>9. InStep'
      BY <3>1, <3>2, <3>8 DEF Final, InStep, Image, Esp!Prompt, Esp!render_screen, Esp!Text
    <3> QED
      BY <3>1, <3>7, <3>9 DEF EspInv, MenuFields, Listed, ConfirmMoved
  <2> QED
    BY <2>1, <2>2
<1>10. CASE Esp!RegenKey
  BY <1>10, EnterStep DEF Esp!RegenKey, Esp!ConfirmScreens
<1>11. CASE Esp!OnTimeout
  <2>1. /\ emenu' = emenu \/ emenu' = [emenu EXCEPT !.active = FALSE]
        /\ UNCHANGED <<eshown, edown, losses, moved>>
    BY <1>11 DEF Esp!OnTimeout
  <2>2. CASE emenu' = emenu
    BY <1>2, <2>1, <2>2
  <2>3. CASE emenu' = [emenu EXCEPT !.active = FALSE]
    <3>1. MenuFields' /\ ~emenu'.active /\ emenu'.screen = emenu.screen /\ emenu'.cursor = emenu.cursor
      BY <2>3 DEF EspInv, MenuFields
    <3> QED
      BY <2>1, <3>1 DEF EspInv, Listed, ConfirmMoved
  <2> QED
    BY <2>1, <2>2, <2>3
<1>12. CASE Esp!OnFrame
  <2>1. /\ edown # <<>> /\ edown' = Tail(edown) /\ eshown' = Image(Head(edown))
        /\ UNCHANGED <<emenu, losses, moved>>
    BY <1>12 DEF Esp!OnFrame, Image
  <2>2. Listed' /\ Final' = Final
    BY <2>1, Taken DEF EspInv, Listed, Final, Image
  <2> QED
    BY <2>1, <2>2 DEF EspInv, MenuFields, ConfirmMoved, InStep, Esp!render_screen, Esp!Text
<1>13. CASE Esp!TimesOut
  <2>1. edown = <<>> /\ eshown' = Esp!Dark /\ UNCHANGED <<emenu, edown, losses, moved>>
    BY <1>13 DEF Esp!TimesOut
  <2> QED
    BY <2>1 DEF EspInv, MenuFields, Listed, ConfirmMoved, Final
<1>14. CASE Esp!FrameLost
  <2>1. /\ losses' = losses + 1 /\ UNCHANGED <<emenu, moved>>
        /\ edown' = edown \/ (edown # <<>> /\ edown' = Tail(edown))
    BY <1>14 DEF Esp!FrameLost
  <2>2. Listed'
    BY <2>1, Taken DEF EspInv, Listed
  <2> QED
    BY <2>1, <2>2 DEF EspInv, MenuFields, ConfirmMoved
<1> QED
  BY <1>1, <1>3, <1>4, <1>5, <1>6, <1>7, <1>8, <1>9, <1>10, <1>11, <1>12, <1>13, <1>14 DEF Esp!Next

LEMMA EspHolds ==
  /\ PanelInit => EspInv
  /\ EspInv /\ [MCNext]_all => EspInv'
<1>1. ASSUME Esp!Init PROVE EspInv
  <2>1. emenu = Esp!Closed /\ eshown = Esp!Dark /\ edown = <<>> /\ losses = 0 /\ moved \in BOOLEAN
    BY <1>1 DEF Esp!Init
  <2>2. <<>> \in Seq({})
    OBVIOUS
  <2> QED
    BY <2>1, <2>2 DEF EspInv, MenuFields, Listed, ConfirmMoved, Final, Esp!Closed
<1>2. ASSUME EspInv, UNCHANGED menuvars PROVE EspInv'
  BY <1>2 DEF menuvars, EspInv, MenuFields, Listed, ConfirmMoved, Final, InStep, Esp!render_screen, Esp!Text
<1>3. [MCNext]_all => Esp!Next \/ UNCHANGED menuvars
  BY DEF MCNext, all
<1> QED
  BY <1>1, <1>2, <1>3, EspStep DEF PanelInit, MCInit

\* oled_menu.c: with the frames arrived and none lost, the OLED shows the screen
\* and the cursor the next press is applied to, or nothing, or that the key could
\* not be had; for any number of openings, presses and prompts under way.
THEOREM DisplayAlwaysInStep == PanelSpec => []DisplayInStep
<1>1. EspInv => DisplayInStep
  BY DEF EspInv, DisplayInStep, Esp!DisplayInStep, Final, InStep
<1> QED
  BY <1>1, EspHolds, PTL DEF PanelSpec

\* oled_menu.c: the settings, the wallet and the key are destroyed only from
\* their confirm screen and after LEFT was applied there, whatever is lost or
\* pressed ahead of the display; but for a key that cannot be read.
THEOREM AlwaysDestroyedDeliberately == PanelSpec => DestroyedDeliberately
<1> DEFINE Deliberate == /\ destroyed' \notin {"none", "unread key"} => emenu.screen \in Esp!ConfirmScreens /\ moved
                         /\ destroyed' = "unread key" => emenu'.screen = "key"
<1>1. EspInv /\ [MCNext]_all => [Deliberate]_Esp!vars
  <2> SUFFICES ASSUME EspInv, [MCNext]_all, ~UNCHANGED Esp!vars
               PROVE  Deliberate
    OBVIOUS
  <2>1. Esp!Next
    BY DEF MCNext, all, menuvars, Esp!vars
  <2>7. ASSUME NEW m, NEW what, Esp!Push(m, what)
        PROVE  destroyed' = what \/ (destroyed' = "unread key" /\ emenu'.screen = "key")
    BY <2>7 DEF Esp!Push
  <2>8. destroyed' = "unread key" => emenu'.screen = "key"
    <3>1. CASE Esp!OnActivate \/ Esp!LeavePage \/ Esp!OnLeft \/ Esp!SelectScreen
      <4>1. \E m : Esp!Push(m, "none")
        BY <3>1 DEF Esp!OnActivate, Esp!LeavePage, Esp!OnLeft, Esp!SelectScreen, Esp!Enter
      <4> QED
        BY <2>7, <4>1
    <3>2. CASE Esp!RegenKey
      <4>1. \E m : \E what \in {"key", "none"} : Esp!Push(m, what)
        BY <3>2 DEF Esp!RegenKey, Esp!Enter
      <4> QED
        BY <2>7, <4>1
    <3>3. CASE ~(Esp!OnActivate \/ Esp!LeavePage \/ Esp!OnLeft \/ Esp!SelectScreen \/ Esp!RegenKey)
      BY <2>1, <3>3 DEF Esp!Next, Esp!Ignored, Esp!SelectExit, Esp!SelectMode, Esp!Wipe, Esp!RegenWallet, Esp!OnTimeout,
         Esp!OnFrame, Esp!Presses, Esp!Activates, Esp!TimesOut, Esp!FrameLost
    <3> QED
      BY <3>1, <3>2, <3>3
  <2>9. SUFFICES ASSUME destroyed' \notin {"none", "unread key"}
                 PROVE  emenu.screen \in Esp!ConfirmScreens /\ moved
    BY <2>8
  <2>2. Esp!Wipe \/ Esp!RegenWallet \/ Esp!RegenKey
    <3>1. CASE Esp!OnActivate \/ Esp!LeavePage \/ Esp!OnLeft \/ Esp!SelectScreen
      <4>1. \E m : Esp!Push(m, "none")
        BY <3>1 DEF Esp!OnActivate, Esp!LeavePage, Esp!OnLeft, Esp!SelectScreen, Esp!Enter
      <4> QED
        BY <2>7, <2>9, <4>1
    <3> QED
      BY <2>1, <2>9, <3>1 DEF Esp!Next, Esp!Ignored, Esp!SelectExit, Esp!SelectMode, Esp!OnTimeout, Esp!OnFrame,
         Esp!Presses, Esp!Activates, Esp!TimesOut, Esp!FrameLost
  <2>3. /\ emenu.screen \in Esp!ConfirmScreens
        /\ emenu.screen = "reset" => Esp!Highlighted = "Wipe"
        /\ emenu.screen \in {"regen", "newkey"} => Esp!Highlighted = "Regen"
    BY <2>2 DEF Esp!Wipe, Esp!RegenWallet, Esp!RegenKey, Esp!ConfirmScreens
  <2>4. emenu.cursor # 0
    <3>1. CASE emenu.screen = "reset"
      <4>1. Esp!Items["reset"][1] = "Back"
        BY DEF Esp!Items
      <4> QED
        BY <2>3, <3>1, <4>1 DEF Esp!Highlighted
    <3>2. CASE emenu.screen = "regen"
      <4>1. Esp!Items["regen"][1] = "Back"
        BY DEF Esp!Items
      <4> QED
        BY <2>3, <3>2, <4>1 DEF Esp!Highlighted
    <3>3. CASE emenu.screen = "newkey"
      <4>1. Esp!Items["newkey"][1] = "Back"
        BY DEF Esp!Items
      <4> QED
        BY <2>3, <3>3, <4>1 DEF Esp!Highlighted
    <3> QED
      BY <2>3, <3>1, <3>2, <3>3 DEF Esp!ConfirmScreens
  <2> QED
    BY <2>3, <2>4 DEF EspInv, ConfirmMoved
<1> QED
  BY <1>1, EspHolds, PTL DEF PanelSpec, DestroyedDeliberately, Esp!DestroyedDeliberately

-----------------------------------------------------------------------------
(* The banner (Banner)                                                     *)

BannerTypes ==
    /\ Ban!TypeOK
    /\ active \in BOOLEAN /\ beeped \in BOOLEAN /\ chirp \in BOOLEAN /\ hidden \in BOOLEAN /\ heard \in BOOLEAN
    /\ excused \in BOOLEAN /\ alarms \in 0..1 /\ chirps \in 0..1

\* A banner is what the ESP32 said last, is not one that was dismissed, and has
\* sounded if it is marked so.
RaisedTrue == active =>
    /\ text = said /\ text # Ban!None /\ dismissed = Ban!None
    /\ beeped => heard
    /\ ~beeped => alarms = 0

\* What the ESP32 said and the banner does not show has an excuse.
SilenceExcused ==
    /\ said # Ban!None /\ ~active => excused
    /\ dismissed # Ban!None => excused

\* A notice has chirped, or is still to.
ChirpOwed ==
    /\ chirp => chirps = 0
    /\ note # Ban!None => chirp \/ chirps = 1

BannerInv == BannerTypes /\ RaisedTrue /\ SilenceExcused /\ ChirpOwed /\ Ban!BannerTrue /\ Ban!HeardOnce


\* What a frame of the ESP32 does to the banner.
LEMMA ArriveStep ==
  ASSUME BannerInv, NEW t \in Ban!Faults \cup {Ban!None}, Ban!Arrives(t),
         UNCHANGED <<note, noteAge, chirp, chirps, drawn, hidden>>, lost' \in 0..MaxLost, now' = FALSE,
         fault' \in Ban!Faults \cup {Ban!None}
  PROVE  BannerInv'
<1> USE DEF BannerInv, BannerTypes, Ban!TypeOK
<1>1. ChirpOwed' /\ Ban!BannerTrue' /\ Ban!HeardOnce'
  BY DEF ChirpOwed, Ban!BannerTrue, Ban!HeardOnce
<1>2. said' = t /\ (excused' <=> excused /\ t = dismissed /\ dismissedAge < Cooldown) /\ excused' \in BOOLEAN
  BY DEF Ban!Arrives
<1>3. CASE t = Ban!None
  <2>1. /\ ~active' /\ active' \in BOOLEAN /\ text' = Ban!None /\ dismissed' = Ban!None /\ dismissedAge' = 0
        /\ UNCHANGED <<beeped, asserted, heard, alarms>>
    BY <1>3 DEF Ban!Arrives, Ban!Clears
  <2> QED
    BY <1>1, <1>2, <1>3, <2>1, BanConstants DEF Ban!BannerConstants, RaisedTrue, SilenceExcused
<1>4. CASE t # Ban!None /\ Ban!InCooldown(t)
  <2>1. asserted' = 0 /\ UNCHANGED <<active, text, beeped, dismissed, dismissedAge, heard, alarms>>
    BY <1>4 DEF Ban!Arrives, Ban!Raises
  <2>2. dismissed # Ban!None /\ t = dismissed /\ dismissedAge < Cooldown
    BY <1>4 DEF Ban!InCooldown
  <2>3. ~active /\ excused
    BY <2>2 DEF RaisedTrue, SilenceExcused
  <2>4. RaisedTrue' /\ SilenceExcused'
    BY <1>2, <2>1, <2>2, <2>3 DEF RaisedTrue, SilenceExcused
  <2> QED
    BY <1>1, <1>2, <2>1, <2>4, BanConstants DEF Ban!BannerConstants
<1>5. CASE t # Ban!None /\ ~Ban!InCooldown(t)
  <2>1. /\ asserted' = 0 /\ text' = t /\ active' /\ active' \in BOOLEAN /\ (beeped' <=> beeped /\ active) /\ beeped' \in BOOLEAN
        /\ dismissed' = Ban!None /\ dismissedAge' = 0
    BY <1>5 DEF Ban!Arrives, Ban!Raises, Ban!RaisesAgain
  <2>2. CASE active
    <3>1. UNCHANGED <<heard, alarms>>
      BY <1>5, <2>2 DEF Ban!Arrives, Ban!Raises, Ban!sounds
    <3> QED
      BY <1>1, <1>2, <1>5, <2>1, <2>2, <3>1, BanConstants DEF Ban!BannerConstants, RaisedTrue, SilenceExcused
  <2>3. CASE ~active
    <3>1. ~heard' /\ heard' \in BOOLEAN /\ alarms' = 0
      BY <1>5, <2>3 DEF Ban!Arrives, Ban!Raises
    <3> QED
      BY <1>1, <1>2, <1>5, <2>1, <2>3, <3>1, BanConstants DEF Ban!BannerConstants, RaisedTrue, SilenceExcused
  <2> QED
    BY <2>2, <2>3
<1> QED
  BY <1>3, <1>4, <1>5

\* What the drawing pass does to the sounds, the texts and the excuse.
LEMMA DrawStep ==
  ASSUME BannerInv, Ban!Draw
  PROVE  BannerInv'
<1> USE DEF BannerInv, BannerTypes, Ban!TypeOK
<1>1. /\ (active' <=> Ban!Active) /\ active' \in BOOLEAN /\ text' = (IF Ban!Expired THEN Ban!None ELSE text)
      /\ (Ban!Active <=> active /\ ~Ban!Expired) /\ (Ban!Expired => active)
  BY DEF Ban!Draw, Ban!Active, Ban!Expired
<1>2. dismissed' \in {dismissed, Ban!None} /\ dismissedAge' \in {dismissedAge, 0}
  BY DEF Ban!Draw
<1>3. /\ (excused' <=> excused \/ Ban!Expired) /\ excused' \in BOOLEAN /\ UNCHANGED <<fault, asserted, hidden, lost, said>>
  BY DEF Ban!Draw
<1>4. /\ (beeped' <=> beeped \/ Ban!Sounds) /\ beeped' \in BOOLEAN /\ (heard' <=> heard \/ Ban!Sounds)
      /\ heard' \in BOOLEAN
  BY DEF Ban!Draw
<1>5. Ban!Sounds <=> Ban!Active /\ ~hidden /\ text # Ban!FwUpdate /\ ~beeped
  BY DEF Ban!Sounds
<1>6. alarms' = (IF Ban!Sounds /\ alarms < 2 THEN alarms + 1 ELSE alarms)
  BY DEF Ban!Draw
<1>7. alarms' \in 0..1 /\ (active' => (~beeped' => alarms' = 0))
  BY <1>1, <1>4, <1>5, <1>6 DEF RaisedTrue
<1>8. RaisedTrue' /\ SilenceExcused'
  BY <1>1, <1>2, <1>3, <1>4, <1>5, <1>7 DEF RaisedTrue, SilenceExcused
<1>9. /\ note' = (IF Ban!NoteOver THEN Ban!None ELSE note) /\ noteAge' \in {noteAge, 0}
      /\ (chirp' <=> chirp /\ ~Ban!NoteOver /\ drawn' # "note") /\ chirp' \in BOOLEAN
      /\ chirps' = (IF drawn' = "note" /\ chirp /\ chirps < 2 THEN chirps + 1 ELSE chirps)
      /\ drawn' = (IF hidden THEN "above" ELSE IF Ban!Active THEN "banner" ELSE IF Ban!Noted THEN "note" ELSE "dash")
      /\ (Ban!Noted <=> note # Ban!None /\ ~Ban!NoteOver)
  BY DEF Ban!Draw, Ban!Noted
<1>10. ChirpOwed' /\ chirps' \in 0..1 /\ (drawn' = "note" => chirps' = 1)
  BY <1>9 DEF ChirpOwed
<1>11. drawn' = "banner" => Ban!Active /\ ~hidden
  BY <1>9
<1>12. Ban!BannerTrue'
  <2>1. drawn' = "banner" => text' = said'
    BY <1>1, <1>3, <1>11 DEF RaisedTrue
  <2>2. said # Ban!None /\ ~excused' /\ ~hidden => Ban!Active
    BY <1>1, <1>3 DEF SilenceExcused
  <2>3. said' # Ban!None /\ ~excused' /\ ~hidden' => drawn' = "banner"
    BY <2>2, <1>3, <1>9
  <2> QED
    BY <2>1, <2>3 DEF Ban!BannerTrue
<1>13. Ban!HeardOnce'
  <2>1. drawn' = "banner" /\ text' # Ban!FwUpdate => heard'
    BY <1>1, <1>4, <1>5, <1>11 DEF RaisedTrue
  <2> QED
    BY <1>7, <1>10, <2>1 DEF Ban!HeardOnce
<1>14. Ban!TypeOK'
  BY <1>1, <1>2, <1>3, <1>4, <1>9, BanConstants DEF Ban!BannerConstants
<1> QED
  BY <1>1, <1>3, <1>4, <1>7, <1>8, <1>9, <1>10, <1>12, <1>13, <1>14

LEMMA BannerStep ==
  ASSUME BannerInv, Ban!Next
  PROVE  BannerInv'
<1> USE DEF BannerInv, BannerTypes, Ban!TypeOK
<1>1. ASSUME NEW t \in Ban!Faults \cup {Ban!None}, Ban!Send(t), now' = FALSE, fault' = t,
             UNCHANGED <<note, noteAge, chirp, chirps, drawn, hidden>>
      PROVE  BannerInv'
  <2>1. CASE Ban!Arrives(t) /\ UNCHANGED lost
    BY <1>1, <2>1, ArriveStep
  <2>2. CASE lost < MaxLost /\ lost' = lost + 1 /\ UNCHANGED <<Ban!banner, Ban!sounds, said, excused>>
    BY <1>1, <2>2, BanConstants
       DEF Ban!banner, Ban!sounds, Ban!BannerConstants, RaisedTrue, SilenceExcused, ChirpOwed, Ban!BannerTrue, Ban!HeardOnce
  <2> QED
    BY <1>1, <2>1, <2>2 DEF Ban!Send
<1>2. CASE Ban!Changes
  BY <1>1, <1>2 DEF Ban!Changes, Ban!notice
<1>3. CASE Ban!Repeats
  BY <1>1, <1>3 DEF Ban!Repeats, Ban!notice
<1>4. CASE Ban!Hello
  <2>1. ~active' /\ active' \in BOOLEAN /\ ~chirp' /\ chirp' \in BOOLEAN /\ excused' \in BOOLEAN /\ ~now'
    BY <1>4 DEF Ban!Hello
  <2>2. /\ dismissed' = Ban!None /\ dismissedAge' = 0 /\ note' = Ban!None /\ noteAge' = 0 /\ chirps' = 0
        /\ said' = Ban!None /\ fault' = Ban!None
        /\ UNCHANGED <<text, beeped, asserted, heard, alarms, drawn, hidden, lost>>
    BY <1>4 DEF Ban!Hello, Ban!sounds
  <2> QED
    BY <2>1, <2>2, BanConstants
       DEF Ban!BannerConstants, RaisedTrue, SilenceExcused, ChirpOwed, Ban!BannerTrue, Ban!HeardOnce
<1>5. CASE \E t \in Ban!Notes \cup {Ban!None} : Ban!Note(t)
  <2> PICK t \in Ban!Notes \cup {Ban!None} : Ban!Note(t)
    BY <1>5
  <2>1. /\ note' = t /\ noteAge' = 0 /\ (chirp' <=> t # Ban!None /\ (chirp \/ t # note)) /\ chirp' \in BOOLEAN
        /\ chirps' = (IF t # note THEN 0 ELSE chirps)
    BY DEF Ban!Note
  <2>2. UNCHANGED <<fault, active, text, beeped, asserted, dismissed, dismissedAge, heard, alarms, drawn, hidden, lost,
                    said, excused>> /\ now' = FALSE
    BY DEF Ban!Note, Ban!banner, Ban!sounds
  <2>3. ChirpOwed' /\ chirps' \in 0..1
    BY <2>1 DEF ChirpOwed
  <2> QED
    BY <2>1, <2>2, <2>3, BanConstants
       DEF Ban!BannerConstants, RaisedTrue, SilenceExcused, Ban!BannerTrue, Ban!HeardOnce
<1>6. CASE Ban!Draw
  BY <1>6, DrawStep
<1>7. CASE Ban!Dismiss
  <2>1. active /\ ~active' /\ active' \in BOOLEAN /\ excused' /\ excused' \in BOOLEAN /\ ~now'
    BY <1>7 DEF Ban!Dismiss
  <2>2. /\ dismissed' = text /\ dismissedAge' = 0 /\ text' = Ban!None
        /\ UNCHANGED <<fault, beeped, asserted, note, noteAge, chirp, chirps, heard, alarms, hidden, lost, said>>
    BY <1>7 DEF Ban!Dismiss, Ban!notice, Ban!sounds
  <2> QED
    BY <2>1, <2>2, BanConstants
     DEF Ban!BannerConstants, RaisedTrue, SilenceExcused, ChirpOwed,
         Ban!BannerTrue, Ban!HeardOnce
<1>8. CASE Ban!DismissNote
  <2>1. ~chirp' /\ chirp' \in BOOLEAN /\ ~now' /\ note' = Ban!None /\ noteAge' = 0
    BY <1>8 DEF Ban!DismissNote
  <2>2. UNCHANGED <<fault, active, text, beeped, asserted, dismissed, dismissedAge, heard, alarms, chirps, hidden,
                    lost, said, excused>>
    BY <1>8 DEF Ban!DismissNote, Ban!banner, Ban!sounds
  <2> QED
    BY <2>1, <2>2, BanConstants
     DEF Ban!BannerConstants, RaisedTrue, SilenceExcused, ChirpOwed,
         Ban!BannerTrue, Ban!HeardOnce
<1>9. CASE Ban!Hides
  BY <1>9 DEF Ban!Hides, Ban!banner, Ban!notice, Ban!sounds, RaisedTrue, SilenceExcused, ChirpOwed,
         Ban!BannerTrue, Ban!HeardOnce
<1>10. CASE Ban!Tick
  <2>1. asserted' \in 0..StaleTtl /\ dismissedAge' \in 0..Cooldown /\ noteAge' \in 0..InfoTtl
    BY <1>10, BanConstants DEF Ban!Tick, Ban!Older, Ban!BannerConstants
  <2>2. UNCHANGED <<fault, active, text, beeped, dismissed, note, chirp, heard, alarms, chirps, drawn, hidden, lost, said,
                    excused>> /\ now' = FALSE
    BY <1>10 DEF Ban!Tick, Ban!sounds
  <2> QED
    BY <2>1, <2>2 DEF RaisedTrue, SilenceExcused, ChirpOwed, Ban!BannerTrue, Ban!HeardOnce
<1> QED
  BY <1>2, <1>3, <1>4, <1>5, <1>6, <1>7, <1>8, <1>9, <1>10 DEF Ban!Next

LEMMA BannerHolds ==
  /\ Ban!Init => BannerInv
  /\ BannerInv /\ UNCHANGED bannervars => BannerInv'
  /\ BannerInv => Ban!BannerSound
<1> USE DEF BannerInv, BannerTypes, Ban!TypeOK
<1>1. Ban!Init => BannerInv
  <2> SUFFICES ASSUME Ban!Init PROVE BannerInv
    OBVIOUS
  <2>1. /\ ~active /\ ~chirp /\ ~now /\ active \in BOOLEAN /\ chirp \in BOOLEAN /\ beeped \in BOOLEAN
        /\ hidden \in BOOLEAN /\ heard \in BOOLEAN /\ excused \in BOOLEAN
    BY DEF Ban!Init
  <2>2. /\ fault = Ban!None /\ text = Ban!None /\ asserted = 0 /\ dismissed = Ban!None /\ dismissedAge = 0
        /\ note = Ban!None /\ noteAge = 0 /\ lost = 0 /\ alarms = 0 /\ chirps = 0 /\ said = Ban!None
    BY DEF Ban!Init
  <2> QED
    BY <2>1, <2>2, BanConstants
     DEF Ban!BannerConstants, RaisedTrue, SilenceExcused, ChirpOwed, Ban!BannerTrue, Ban!HeardOnce
<1>2. BannerInv /\ UNCHANGED bannervars => BannerInv'
  BY DEF bannervars, RaisedTrue, SilenceExcused, ChirpOwed, Ban!BannerTrue, Ban!HeardOnce
<1>3. BannerInv => Ban!BannerSound
  BY DEF Ban!BannerSound
<1> QED
  BY <1>1, <1>2, <1>3

-----------------------------------------------------------------------------
(* The alarms about the CH32X (UpsAlarm)                                   *)

\* Time is counted alike since the last reading: by the panel, while it has had
\* one in this boot, and by the record.
SilenceCounted ==
    /\ last # Ups!Never => unread = last /\ reboots = 0
    /\ last = Ups!Never => uptime <= unread

\* A panel that has just started remembers nothing.
SplashFirst == uptime = 0 => screen = "splash" /\ ~stale /\ ~prev /\ ~played /\ outage = "none"

\* Stale readings are old, for as long as the ladder says, unless some were read
\* behind another screen.
StaleTrue == /\ stale => beep # Ups!Never /\ (~behind => since <= unread /\ unread > StaleAfter)
             /\ behind => stale

\* An outage owed an alarm is one the dashboard will find.
OutageOwed ==
    /\ prev => ~played
    /\ prev /\ ~Ups!Present(ui) => outage = "owed"
    /\ outage = "owed" => prev

UpsInv == /\ SilenceCounted /\ SplashFirst /\ StaleTrue /\ OutageOwed /\ Ups!UpsSound
\* The constants, one by one.
LEMMA UpsAssumption ==
  /\ {StaleAfter, Grace, ReinitAfter, ReinitRetry, RebootAfter, BadPasses, Reminder} \subseteq Nat
  /\ {Horizon, UplinkEvery} \subseteq Nat \ {0} /\ StaleAfter <= Grace
BY UpsConstants DEF Ups!UpsAlarmConstants

Age == 0..Horizon
Timer == Ups!Never..Horizon

\* The counters of time.
LEMMA AddOne ==
  /\ \A t \in Timer : Ups!Add(t) \in Timer /\ (Ups!Add(t) = Ups!Never <=> t = Ups!Never) /\ (t < Ups!Add(t) \/ t = Ups!Add(t))
  /\ \A t \in Age : Ups!Add(t) \in Age /\ Ups!Add(t) # 0 /\ Ups!Add(t) <= t + 1
  /\ \A s, t \in Age : s <= t => Ups!Add(s) <= Ups!Add(t)
BY UpsAssumption DEF Age, Timer, Ups!Add, Ups!Never

UpsTypes ==
    /\ input \in Ups!Inputs /\ ui \in Ups!Inputs /\ told \in Ups!Inputs \cup {"nothing"}
    /\ last \in Timer /\ reinit \in Timer /\ beep \in Timer
    /\ uptime \in Age /\ since \in Age /\ toldAge \in Age /\ unread \in Age
    /\ bad \in 0..BadPasses /\ alive \in BOOLEAN /\ busy \in BOOLEAN /\ stale \in BOOLEAN /\ prev \in BOOLEAN
    /\ played \in BOOLEAN /\ early \in BOOLEAN /\ behind \in BOOLEAN /\ wedge \in {"sound", "soft", "deep"}
    /\ screen \in {"splash", "other", "stale", "bad", "data"} /\ reboots \in 0..2
    /\ outage \in {"none", "owed", "sounded", "twice"}

LEMMA UpsTyped == UpsTypes <=> Ups!TypeOK
BY DEF UpsTypes, Ups!TypeOK, Age, Timer

\* What a pass makes of the unit's readings.
LEMMA ReadingStep ==
  ASSUME UpsInv, UpsTypes, Ups!Reading
  PROVE  /\ ui' = Ups!Ui /\ ui' \in Ups!Inputs /\ told' \in Ups!Inputs \cup {"nothing"} /\ toldAge' \in Age
         /\ last' = Ups!Last /\ last' \in Timer /\ uptime' = Ups!Uptime /\ uptime' \in Age /\ uptime' # 0
         /\ unread' \in Age /\ reboots' \in 0..1
         /\ SilenceCounted' /\ Ups!CloudTold'
<1> USE DEF UpsTypes
<1>1. ui' = Ups!Ui /\ last' = Ups!Last /\ uptime' = Ups!Uptime /\ uptime' \in Age /\ uptime' # 0
  BY AddOne DEF Ups!Reading, Ups!Uptime
<1>2. reboots \in 0..1
  BY DEF UpsInv, Ups!UpsSound, Ups!RebootsJustified
<1>3. CASE Ups!Heard
  <2>1. ui' = input /\ last' = 0 /\ unread' = 0 /\ reboots' = 0
    BY <1>3 DEF Ups!Reading, Ups!Ui, Ups!Last
  <2>2. SilenceCounted'
    BY <2>1 DEF SilenceCounted, Ups!Never
  <2>3. /\ told' \in Ups!Inputs \cup {"nothing"} /\ toldAge' \in Age /\ toldAge' < UplinkEvery
        /\ (Ups!Present(told') <=> Ups!Present(input))
    <3>1. CASE Ups!Publish
      BY <1>3, <3>1, UpsAssumption DEF Ups!Reading, Age
    <3>2. CASE ~Ups!Publish
      <4>1. told' = told /\ toldAge' = Ups!Add(toldAge)
        BY <3>2 DEF Ups!Reading
      <4>2. (Ups!Present(told) <=> Ups!Present(input)) /\ ~(toldAge >= UplinkEvery - 1)
        BY <1>3, <3>2 DEF Ups!Publish, Ups!Present
      <4>3. toldAge' \in Age /\ toldAge' <= toldAge + 1
        BY <4>1, AddOne
      <4> QED
        BY <4>1, <4>2, <4>3, UpsAssumption DEF Age
    <3> QED
      BY <3>1, <3>2
  <2>4. Ups!CloudTold'
    BY <2>1, <2>3 DEF Ups!CloudTold, Ups!Present
  <2> QED
    BY <1>1, <2>1, <2>2, <2>3, <2>4, UpsAssumption DEF Age, Timer, Ups!Never
<1>4. CASE ~Ups!Heard
  <2>1. ui' = ui /\ last' = Ups!Add(last) /\ unread' = Ups!Add(unread) /\ reboots' = reboots
    BY <1>4 DEF Ups!Reading, Ups!Ui, Ups!Last
  <2>2. told' = told /\ toldAge' = Ups!Add(toldAge)
    BY <1>4 DEF Ups!Reading, Ups!Publish
  <2>3. /\ last' \in Timer /\ (last' = Ups!Never <=> last = Ups!Never) /\ unread' \in Age /\ toldAge' \in Age
        /\ (last \in Age => last' # 0)
    BY <2>1, <2>2, AddOne
  <2>4. last = Ups!Never \/ last \in Age
    BY DEF Timer, Age, Ups!Never
  <2>5. SilenceCounted'
    <3>1. last' # Ups!Never => unread' = last' /\ reboots' = 0
      BY <2>1, <2>3 DEF SilenceCounted, UpsInv
    <3>2. last' = Ups!Never => Ups!Add(uptime) <= Ups!Add(unread)
      BY <2>3, AddOne DEF SilenceCounted, UpsInv
    <3> QED
      BY <1>1, <2>1, <3>1, <3>2 DEF SilenceCounted, Ups!Uptime
  <2>6. Ups!CloudTold'
    BY <2>3, <2>4 DEF Ups!CloudTold, Ups!Never
  <2> QED
    BY <1>1, <1>2, <2>1, <2>2, <2>3, <2>5, <2>6
<1> QED
  BY <1>3, <1>4

\* The pass is kept from the dashboard.
LEMMA KeptStep ==
  ASSUME UpsInv, UpsTypes, Ups!Kept
  PROVE  UpsInv' /\ UpsTypes'
<1>1. Ups!Reading /\ screen' = "other" /\ UNCHANGED <<input, alive, wedge, busy, stale, bad, prev, played, early>>
  BY DEF Ups!Kept, Ups!world
<1>2. /\ since' \in Age /\ reinit' \in Timer /\ beep' \in Timer /\ since' = Ups!Add(since)
      /\ (beep' = Ups!Never <=> beep = Ups!Never)
  BY AddOne DEF Ups!Kept, UpsTypes
<1>3. (prev => ~played) /\ ~early
  BY DEF UpsInv, OutageOwed, Ups!UpsSound, Ups!RebootsJustified
<1>11. behind' \in BOOLEAN /\ (behind' <=> behind \/ (stale /\ Ups!Heard))
  BY DEF Ups!Kept
<1>12. StaleTrue'
  <2>1. behind' => stale'
    BY <1>1, <1>11 DEF UpsInv, StaleTrue
  <2>2. stale' => beep' # Ups!Never
    BY <1>1, <1>2 DEF UpsInv, StaleTrue
  <2>3. ASSUME stale', ~behind' PROVE since' <= unread' /\ unread' > StaleAfter
    <3>1. stale /\ ~behind /\ ~Ups!Heard
      BY <1>1, <1>11, <2>3
    <3>2. unread' = Ups!Add(unread)
      BY <1>1, <3>1 DEF Ups!Reading
    <3>3. since <= unread /\ unread > StaleAfter /\ since \in Age /\ unread \in Age
      BY <3>1 DEF UpsInv, StaleTrue, UpsTypes
    <3>4. Ups!Add(since) <= Ups!Add(unread)
      BY <3>3, AddOne
    <3>5. unread' >= unread /\ unread' \in Age
      BY <3>2, <3>3, AddOne, UpsAssumption DEF Age, Timer, Ups!Never
    <3> QED
      BY <1>2, <3>2, <3>3, <3>4, <3>5, UpsAssumption DEF Age
  <2> QED
    BY <2>1, <2>2, <2>3 DEF StaleTrue
<1>4. outage' = (IF Ups!Present(Ups!Ui) THEN "none" ELSE IF Ups!Present(ui) /\ prev THEN "owed" ELSE outage)
  BY DEF Ups!Kept, Ups!Record
<1>5. /\ outage' \in {"none", "owed", "sounded", "twice"} /\ outage' # "twice"
      /\ (outage' = "owed" => prev) /\ (prev /\ ~Ups!Present(Ups!Ui) => outage' = "owed")
  BY <1>4 DEF UpsInv, OutageOwed, Ups!UpsSound, Ups!OutageSounded, UpsTypes
<1>6. UpsTypes'
  BY <1>1, <1>2, <1>5, <1>11, ReadingStep DEF UpsTypes
<1>7. SilenceCounted' /\ SplashFirst'
  BY <1>1, ReadingStep DEF SplashFirst
<1>8. OutageOwed'
  BY <1>1, <1>3, <1>5, ReadingStep DEF OutageOwed, Ups!Present
<1>9. Ups!NeverFrozen' /\ Ups!RebootsJustified' /\ Ups!OutageSounded' /\ Ups!CloudTold'
  BY <1>1, <1>3, <1>5, ReadingStep DEF Ups!NeverFrozen, Ups!RebootsJustified, Ups!OutageSounded
<1>10. Ups!TypeOK'
  BY <1>6, UpsTyped, PTL
<1> QED
  BY <1>6, <1>7, <1>8, <1>9, <1>10, <1>12 DEF UpsInv, Ups!UpsSound

\* The first pass after a start only takes the reading.
LEMMA StabilisesStep ==
  ASSUME UpsInv, UpsTypes, Ups!Stabilises
  PROVE  UpsInv' /\ UpsTypes'
<1>1. /\ Ups!Reading /\ (prev' <=> Ups!Present(Ups!Ui)) /\ prev' \in BOOLEAN
      /\ UNCHANGED <<input, alive, wedge, busy, stale, since, reinit, beep, bad, played, screen, early, behind>>
  BY DEF Ups!Stabilises, Ups!world, Ups!Present
<1>2. screen = "splash" /\ ~prev /\ ~played /\ outage = "none"
  BY DEF Ups!Stabilises, UpsInv, SplashFirst
<1>3. outage' = "none"
  BY <1>2 DEF Ups!Stabilises, Ups!Record
<1>4. ~stale /\ ~behind /\ ~early
  BY DEF Ups!Stabilises, UpsInv, SplashFirst, StaleTrue, Ups!UpsSound, Ups!RebootsJustified
<1>5. UpsTypes'
  BY <1>1, <1>3, ReadingStep DEF UpsTypes
<1>6. SilenceCounted' /\ SplashFirst' /\ StaleTrue'
  BY <1>1, <1>4, ReadingStep DEF SplashFirst, StaleTrue
<1>7. OutageOwed'
  BY <1>1, <1>2, <1>3, ReadingStep DEF OutageOwed, Ups!Present
<1>8. Ups!NeverFrozen' /\ Ups!RebootsJustified' /\ Ups!OutageSounded' /\ Ups!CloudTold'
  BY <1>1, <1>2, <1>3, <1>4, ReadingStep DEF Ups!NeverFrozen, Ups!RebootsJustified, Ups!OutageSounded
<1>9. Ups!TypeOK'
  BY <1>5, UpsTyped, PTL
<1> QED
  BY <1>5, <1>6, <1>7, <1>8, <1>9 DEF UpsInv, Ups!UpsSound

\* Whether the readings are stale, which they are not once one was heard.
LEMMA StaleMeans ==
  ASSUME UpsInv, UpsTypes, Ups!Reading
  PROVE  /\ Ups!Stale => ~Ups!Heard /\ unread' = Ups!Add(unread) /\ unread' > StaleAfter
         /\ ~Ups!Stale => unread' <= StaleAfter \/ (last' = Ups!Never /\ uptime' <= Grace)
         /\ Ups!Stale /\ Ups!Last # Ups!Never => last # Ups!Never
<1>1. /\ last' = Ups!Last /\ uptime' = Ups!Uptime /\ SilenceCounted' /\ last' \in Timer /\ unread' \in Age
      /\ uptime' \in Age
  BY ReadingStep
<1>2. Ups!Heard => Ups!Last = 0
  BY DEF Ups!Last
<1>3. Ups!Stale => ~Ups!Heard
  BY <1>2, UpsAssumption DEF Ups!Stale, Ups!Never
<1>4. ~Ups!Heard => unread' = Ups!Add(unread) /\ Ups!Last = Ups!Add(last)
  BY DEF Ups!Reading, Ups!Last
<1>5. Ups!Stale => unread' > StaleAfter
  BY <1>1, UpsAssumption DEF Ups!Stale, SilenceCounted, Age, Timer, Ups!Never
<1>6. ~Ups!Stale => unread' <= StaleAfter \/ (last' = Ups!Never /\ uptime' <= Grace)
  BY <1>1, UpsAssumption DEF Ups!Stale, SilenceCounted, Age, Timer, Ups!Never
<1>7. last \in Timer /\ (Ups!Add(last) = Ups!Never <=> last = Ups!Never)
  BY AddOne DEF UpsTypes
<1> QED
  BY <1>3, <1>4, <1>5, <1>6, <1>7

\* The dashboard's pass.
LEMMA DashboardStep ==
  ASSUME UpsInv, UpsTypes, Ups!Dashboard
  PROVE  UpsInv' /\ UpsTypes'
<1>1. /\ Ups!Reading /\ UNCHANGED <<input, alive, busy, early>> /\ ~busy /\ ~early
  BY DEF Ups!Dashboard, UpsInv, Ups!UpsSound, Ups!RebootsJustified
<1>2. /\ (stale' <=> Ups!Stale) /\ stale' \in BOOLEAN /\ since' = Ups!Since /\ beep' = Ups!Beep
      /\ reinit' = (IF Ups!ReinitDue THEN 0 ELSE Ups!Reinit) /\ wedge' \in {"sound", wedge}
  <2>1. stale' = (IF Ups!Last = Ups!Never THEN Ups!Uptime > Grace ELSE Ups!Last > StaleAfter)
    BY DEF Ups!Dashboard, Ups!Ladder, Ups!Stale
  <2>2. (stale' <=> Ups!Stale) /\ stale' \in BOOLEAN
    <3>1. Ups!Uptime \in Age /\ Ups!Last \in Timer
      BY <1>1, ReadingStep
    <3>2. CASE Ups!Last = Ups!Never
      <4>1. stale' = (Ups!Uptime > Grace)
        BY <2>1, <3>2
      <4>2. Ups!Stale <=> Ups!Uptime > Grace
        BY <3>2 DEF Ups!Stale
      <4>3. stale' <=> Ups!Uptime > Grace
        BY ONLY <4>1
      <4>4. stale' \in BOOLEAN
        BY <4>1, <3>1, UpsAssumption DEF Age
      <4> QED
        BY <4>2, <4>3, <4>4
    <3>3. CASE Ups!Last # Ups!Never
      <4>1. stale' = (Ups!Last > StaleAfter)
        BY <2>1, <3>3
      <4>2. Ups!Stale <=> Ups!Last > StaleAfter
        BY <3>3 DEF Ups!Stale
      <4>3. stale' <=> Ups!Last > StaleAfter
        BY ONLY <4>1
      <4>4. stale' \in BOOLEAN
        BY <4>1, <3>1, UpsAssumption DEF Timer, Ups!Never
      <4> QED
        BY <4>2, <4>3, <4>4
    <3> QED
      BY <3>2, <3>3
  <2>3. since' = Ups!Since /\ beep' = Ups!Beep /\ reinit' = (IF Ups!ReinitDue THEN 0 ELSE Ups!Reinit)
    BY DEF Ups!Dashboard, Ups!Ladder, Ups!Draws
  <2>4. wedge' \in {"sound", wedge}
    BY DEF Ups!Dashboard, Ups!Ladder
  <2> QED
    BY <2>2, <2>3, <2>4
<1>3. bad' = Ups!Bad /\ screen' = (IF Ups!Stale THEN "stale" ELSE IF Ups!Bad >= BadPasses THEN "bad" ELSE "data")
  BY DEF Ups!Dashboard, Ups!Draws
<1>4. /\ (played' <=> ~Ups!Present(Ups!Ui) /\ (played \/ Ups!LossAlarm)) /\ played' \in BOOLEAN
      /\ (prev' <=> Ups!Present(Ups!Ui)) /\ prev' \in BOOLEAN
  BY DEF Ups!Dashboard, Ups!Mains, Ups!Present
<1>17. behind' \in BOOLEAN /\ (behind' <=> behind /\ Ups!Stale)
  BY DEF Ups!Dashboard
<1>5. since' \in Age /\ (since' <= unread' \/ ~Ups!Stale \/ behind')
  <2>1. Ups!Since \in {0, Ups!Add(since)} /\ Ups!Add(since) \in Age /\ 0 \in Age
    BY AddOne, UpsAssumption DEF Ups!Since, UpsTypes, Age
  <2>4. CASE Ups!Stale /\ behind
    BY <1>2, <1>17, <2>1, <2>4
  <2>2. CASE Ups!Stale /\ stale /\ ~behind
    <3>1. since <= unread /\ since \in Age /\ unread \in Age
      BY <2>2 DEF UpsInv, StaleTrue, UpsTypes
    <3>2. Ups!Add(since) <= Ups!Add(unread)
      BY <3>1, AddOne
    <3> QED
      BY <1>1, <1>2, <2>1, <2>2, <3>2, StaleMeans DEF Ups!Since
  <2>3. CASE ~(Ups!Stale /\ stale)
    BY <1>1, <1>2, <2>1, <2>3, ReadingStep DEF Ups!Since, Age
  <2> QED
    BY <2>2, <2>3, <2>4
<1>6. reinit' \in Timer
  BY <1>2, AddOne, UpsAssumption DEF Ups!Reinit, UpsTypes, Timer, Ups!Never
<1>7. beep' \in Timer /\ (Ups!Stale => beep' \in 0..Reminder)
  <2>1. beep \in Timer /\ Ups!Add(beep) \in Timer /\ (Ups!Add(beep) = Ups!Never <=> beep = Ups!Never)
    BY AddOne DEF UpsTypes
  <2>2. stale => beep # Ups!Never
    BY DEF UpsInv, StaleTrue
  <2>3. beep \in Age => Ups!Add(beep) <= beep + 1
    BY AddOne
  <2> QED
    BY <1>2, <2>1, <2>2, <2>3, UpsAssumption DEF Ups!Beep, Timer, Age, Ups!Never
<1>8. bad' \in 0..BadPasses
  BY <1>3, UpsAssumption DEF Ups!Bad, UpsTypes
<1>9. /\ outage' \in {"none", "owed", "sounded", "twice"} /\ outage' # "twice" /\ outage' # "owed"
  <2> DEFINE found == IF Ups!Present(Ups!Ui) THEN "none" ELSE IF Ups!Present(ui) /\ prev THEN "owed" ELSE outage
  <2>1. outage' = (IF ~Ups!LossAlarm THEN found ELSE IF found = "owed" THEN "sounded" ELSE "twice")
    BY DEF Ups!Dashboard, Ups!Record
  <2>2. found \in {"none", "owed", "sounded", "twice"} /\ found # "twice"
    BY DEF UpsInv, UpsTypes, Ups!UpsSound, Ups!OutageSounded
  <2>3. Ups!LossAlarm => found = "owed"
    BY DEF Ups!LossAlarm, UpsInv, OutageOwed
  <2>4. found = "owed" => Ups!LossAlarm
    BY DEF Ups!LossAlarm, UpsInv, OutageOwed
  <2> HIDE DEF found
  <2> QED
    BY <2>1, <2>2, <2>3, <2>4
<1>10. UpsTypes'
  <2>1. wedge' \in {"sound", "soft", "deep"} /\ screen' \in {"splash", "other", "stale", "bad", "data"}
    BY <1>2, <1>3 DEF UpsTypes
  <2> QED
    BY <1>1, <1>2, <1>4, <1>5, <1>6, <1>7, <1>8, <1>9, <1>17, <2>1, ReadingStep DEF UpsTypes
<1>11. SilenceCounted' /\ SplashFirst' /\ Ups!CloudTold'
  BY <1>1, ReadingStep DEF SplashFirst
<1>12. StaleTrue'
  BY <1>1, <1>2, <1>5, <1>7, <1>17, StaleMeans DEF StaleTrue, Ups!Never
<1>13. OutageOwed'
  BY <1>1, <1>4, <1>9, ReadingStep DEF OutageOwed, Ups!Present
<1>14. Ups!NeverFrozen'
  BY <1>1, <1>2, <1>3, <1>7, StaleMeans DEF Ups!NeverFrozen
<1>15. Ups!RebootsJustified' /\ Ups!OutageSounded'
  BY <1>1, <1>9, ReadingStep DEF Ups!RebootsJustified, Ups!OutageSounded
<1>16. Ups!TypeOK'
  BY <1>10, UpsTyped, PTL
<1> QED
  BY <1>10, <1>11, <1>12, <1>13, <1>14, <1>15, <1>16 DEF UpsInv, Ups!UpsSound

\* The restart for a port gone deaf.
LEMMA RebootStep ==
  ASSUME UpsInv, UpsTypes, Ups!Reboot
  PROVE  UpsInv' /\ UpsTypes'
<1>1. /\ ui' = "off" /\ last' = Ups!Never /\ uptime' = 0 /\ since' = 0 /\ reinit' = Ups!Never /\ beep' = Ups!Never
      /\ bad' = 0 /\ told' = "nothing" /\ toldAge' = 0 /\ screen' = "splash" /\ wedge' = "sound" /\ outage' = "none"
      /\ UNCHANGED <<input, alive, busy>> /\ unread' = Ups!Add(unread)
      /\ reboots' = (IF reboots = 2 THEN 2 ELSE reboots + 1)
  BY DEF Ups!Reboot
<1>2. ~stale' /\ ~behind' /\ ~prev' /\ ~played' /\ behind' \in BOOLEAN /\ stale' \in BOOLEAN /\ prev' \in BOOLEAN /\ played' \in BOOLEAN
  BY DEF Ups!Reboot
<1>3. unread' \in Age
  BY <1>1, AddOne DEF UpsTypes
<1>4. ~Ups!Heard
  BY UpsAssumption DEF Ups!Reboot, Ups!RebootDue, Ups!Stale, Ups!Last, Ups!Never
<1>5. last # Ups!Never
  BY <1>4, AddOne DEF Ups!Reboot, Ups!RebootDue, Ups!Last, UpsTypes
<1>6. reboots' = 1
  BY <1>1, <1>5 DEF UpsInv, SilenceCounted
<1>13. unread' > StaleAfter
  BY <1>1, <1>3, <1>4, <1>5, AddOne, UpsAssumption
   DEF Ups!Reboot, Ups!RebootDue, Ups!Stale, Ups!Last, UpsInv, SilenceCounted, UpsTypes, Age, Timer, Ups!Never
<1>7. ~behind => unread' >= RebootAfter
  <2> SUFFICES ASSUME ~behind PROVE unread' >= RebootAfter
    OBVIOUS
  <2>1. Ups!Since >= RebootAfter
    BY DEF Ups!Reboot, Ups!RebootDue
  <2>2. CASE stale
    <3>1. Ups!Add(since) <= Ups!Add(unread)
      BY <2>2, AddOne DEF UpsInv, StaleTrue, UpsTypes
    <3>2. Ups!Since = Ups!Add(since) /\ Ups!Add(since) \in Age
      BY <2>2, AddOne DEF Ups!Reboot, Ups!RebootDue, Ups!Since, UpsTypes
    <3> QED
      BY <1>1, <1>3, <2>1, <3>1, <3>2, UpsAssumption DEF Age
  <2>3. CASE ~stale
    BY <1>3, <2>1, <2>3, UpsAssumption DEF Ups!Since, Age
  <2> QED
    BY <2>2, <2>3
<1>8. ~early' /\ early' \in BOOLEAN
  <2>1. ~early
    BY DEF UpsInv, Ups!UpsSound, Ups!RebootsJustified
  <2>2. early' = (early \/ unread' <= IF behind THEN StaleAfter ELSE RebootAfter - 1)
    BY DEF Ups!Reboot
  <2>3. ~(unread' <= IF behind THEN StaleAfter ELSE RebootAfter - 1)
    BY <1>3, <1>7, <1>13, UpsAssumption DEF Age
  <2> QED
    BY <2>1, <2>2, <2>3
<1>9. UpsTypes'
  BY <1>1, <1>2, <1>3, <1>6, <1>8, UpsAssumption DEF UpsTypes, Age, Timer, Ups!Never, Ups!Inputs
<1>10. SilenceCounted' /\ SplashFirst' /\ StaleTrue' /\ OutageOwed'
  BY <1>1, <1>2, <1>3 DEF SilenceCounted, SplashFirst, StaleTrue, OutageOwed, Age
<1>11. Ups!NeverFrozen' /\ Ups!RebootsJustified' /\ Ups!OutageSounded' /\ Ups!CloudTold'
  BY <1>1, <1>6, <1>8 DEF Ups!NeverFrozen, Ups!RebootsJustified, Ups!OutageSounded, Ups!CloudTold, Ups!Never
<1>12. Ups!TypeOK'
  BY <1>9, UpsTyped, PTL
<1> QED
  BY <1>9, <1>10, <1>11, <1>12 DEF UpsInv, Ups!UpsSound

LEMMA UpsStep ==
  ASSUME UpsInv, Ups!Next
  PROVE  UpsInv'
<1>1. UpsTypes
  BY UpsTyped DEF UpsInv, Ups!UpsSound
<1>2. CASE Ups!Pass
  BY <1>1, <1>2, KeptStep, StabilisesStep, DashboardStep, RebootStep DEF Ups!Pass
<1>3. ASSUME UNCHANGED <<Ups!panel, Ups!history>>, StaleTrue', UpsTypes'
      PROVE  UpsInv'
  <2>1. SilenceCounted' /\ SplashFirst' /\ OutageOwed'
    BY <1>3 DEF UpsInv, SilenceCounted, SplashFirst, OutageOwed, Ups!panel, Ups!history, Ups!Present
  <2>2. Ups!NeverFrozen' /\ Ups!RebootsJustified' /\ Ups!OutageSounded' /\ Ups!CloudTold'
    BY <1>3 DEF UpsInv, Ups!UpsSound, Ups!NeverFrozen, Ups!RebootsJustified, Ups!OutageSounded, Ups!CloudTold,
       Ups!panel, Ups!history, Ups!Present
  <2>3. Ups!TypeOK'
    BY <1>3, UpsTyped, PTL
  <2> QED
    BY <1>3, <2>1, <2>2, <2>3 DEF UpsInv, Ups!UpsSound
<1>4. CASE Ups!InputChanges \/ Ups!Ch32xStops \/ Ups!Deafens
  <2>3. UNCHANGED <<Ups!panel, Ups!history, busy>>
    BY <1>4 DEF Ups!InputChanges, Ups!Ch32xStops, Ups!Deafens
  <2>4. input' \in Ups!Inputs /\ alive' \in BOOLEAN /\ wedge' \in {"sound", "soft", "deep"}
    BY <1>1, <1>4 DEF Ups!InputChanges, Ups!Ch32xStops, Ups!Deafens, UpsTypes
  <2>1. UNCHANGED <<Ups!panel, Ups!history, busy>> /\ UpsTypes'
    BY <1>1, <2>3, <2>4 DEF UpsTypes, Ups!panel, Ups!history
  <2>2. StaleTrue'
    BY <2>1 DEF UpsInv, StaleTrue, Ups!panel, Ups!history
  <2> QED
    BY <1>3, <2>1, <2>2
<1>5. CASE Ups!Takes
  <2>1. UNCHANGED <<Ups!panel, Ups!history>> /\ UpsTypes' /\ busy' \in BOOLEAN
    <3>1. UNCHANGED <<Ups!panel, Ups!history, input, alive, wedge>> /\ busy' = ~busy
      BY <1>5 DEF Ups!Takes
    <3>2. busy' \in BOOLEAN
      BY <3>1
    <3> QED
      BY <1>1, <3>1, <3>2 DEF UpsTypes, Ups!panel, Ups!history
  <2>2. StaleTrue'
    BY <2>1 DEF UpsInv, StaleTrue, Ups!panel, Ups!history
  <2> QED
    BY <1>3, <2>1, <2>2
<1> QED
  BY <1>2, <1>4, <1>5 DEF Ups!Next

LEMMA UpsHolds ==
  /\ Ups!Init => UpsInv
  /\ UpsInv /\ UNCHANGED upsvars => UpsInv'
<1>1. ASSUME Ups!Init PROVE UpsInv
  <2>1. /\ alive \in BOOLEAN /\ ~busy /\ busy \in BOOLEAN /\ ~stale /\ stale \in BOOLEAN /\ ~prev /\ prev \in BOOLEAN
        /\ ~played /\ played \in BOOLEAN /\ ~early /\ early \in BOOLEAN /\ ~behind /\ behind \in BOOLEAN
    BY <1>1 DEF Ups!Init
  <2>2. /\ input = "good" /\ wedge = "sound" /\ ui = "off" /\ last = Ups!Never /\ uptime = 0 /\ since = 0
        /\ reinit = Ups!Never /\ beep = Ups!Never /\ bad = 0 /\ told = "nothing" /\ toldAge = 0 /\ screen = "splash"
        /\ unread = 0 /\ reboots = 0 /\ outage = "none"
    BY <1>1 DEF Ups!Init
  <2>3. UpsTypes
    BY <2>1, <2>2, UpsAssumption DEF UpsTypes, Age, Timer, Ups!Never, Ups!Inputs
  <2>4. SilenceCounted /\ SplashFirst /\ StaleTrue /\ OutageOwed
    BY <2>1, <2>2 DEF SilenceCounted, SplashFirst, StaleTrue, OutageOwed
  <2>5. Ups!NeverFrozen /\ Ups!RebootsJustified /\ Ups!OutageSounded /\ Ups!CloudTold
    BY <2>1, <2>2 DEF Ups!NeverFrozen, Ups!RebootsJustified, Ups!OutageSounded, Ups!CloudTold, Ups!Never
  <2> QED
    BY <2>3, <2>4, <2>5, UpsTyped DEF UpsInv, Ups!UpsSound
<1>2. ASSUME UpsInv, UNCHANGED upsvars PROVE UpsInv'
  BY <1>2 DEF upsvars, UpsInv, SilenceCounted, SplashFirst, StaleTrue, OutageOwed, Ups!UpsSound, Ups!TypeOK,
     Ups!NeverFrozen, Ups!RebootsJustified, Ups!OutageSounded, Ups!CloudTold, Ups!Present
<1> QED
  BY <1>1, <1>2

-----------------------------------------------------------------------------
(* The switch of the backend (BackendMode)                                 *)

\* A marker that names another mode than the one in effect: what the heartbeat
\* would confirm.
Foreign(mark) == mark \in Mode!Modes \ {mode}

ModeTypes ==
    /\ DOMAIN nvs = {"cur", "prev"} /\ nvs.prev \in Mode!Marks /\ mode \in Mode!Modes
    /\ DOMAIN sw = {"pc", "to"} /\ DOMAIN hb = {"pc", "prev"} /\ hb.prev \in Mode!Marks
    /\ DOMAIN receipt = {"state", "names"} /\ receipt.state \in {"none", "pending", "accepted", "dropped"}
    /\ accepted \in BOOLEAN /\ done \in BOOLEAN /\ sent \in 0..1

\* Once the SDK has the confirmation, either the heartbeat knows, or it will
\* find the receipt, or there is nothing left to confirm in this boot.
ModeInv ==
    /\ ModeTypes
    /\ accepted => hb.pc # "read" /\ receipt.state = "none"
    /\ receipt.state \in {"pending", "dropped"} => sent = 0
    /\ \/ sent = 0 \/ accepted \/ receipt.state = "accepted"
       \/ ~Foreign(nvs.prev) /\ (hb.pc = "read" => ~Foreign(hb.prev))
    /\ hb.pc = "read" => nvs.prev \in {hb.prev, mode} /\ (sw.pc # "restart" => nvs.prev = hb.prev)
    /\ Mode!DoneMeansCleared

\* A boot starts the confirmation anew.
LEMMA BootKeeps ==
  ASSUME ModeInv, NEW store, DOMAIN store = {"cur", "prev"}, store.prev \in Mode!Marks, Mode!Boot(store)
  PROVE  ModeInv'
<1>1. /\ nvs' = store /\ mode' \in Mode!Modes /\ sw' = Mode!NoSwitch /\ hb' = Mode!NoBeat
      /\ receipt' = Mode!NoReceipt /\ accepted' = FALSE /\ done' = FALSE /\ sent' = 0
  BY DEF Mode!Boot, Mode!Modes
<1>2. ModeTypes'
  <2>1. accepted' \in BOOLEAN /\ done' \in BOOLEAN
    BY ONLY <1>1, Zenon
  <2>3. sent' \in 0..1 /\ nvs' = store
    BY <1>1
  <2> QED
    BY <1>1, <2>1, <2>3 DEF ModeTypes, Mode!NoSwitch, Mode!NoBeat, Mode!NoReceipt, Mode!Marks, Mode!Modes
<1>3. ~accepted' /\ ~done' /\ sent' = 0 /\ hb'.pc # "read"
  BY <1>1 DEF Mode!NoBeat
<1> QED
  BY <1>2, <1>3 DEF ModeInv, Mode!DoneMeansCleared

\* Every step of the menu's task, the heartbeat, the queue and the power.
LEMMA ModeStep ==
  ASSUME ModeInv, Mode!Next
  PROVE  ModeInv'
<1> USE DEF Mode!history, Mode!confirming, Mode!bounds
<1>1. CASE Mode!Reselect \/ Mode!SwitchRestarts \/ Mode!FactoryReset \/ Mode!PowerFails
  <2> DEFINE erased == [cur |-> "absent", prev |-> "absent"]
  <2>1. DOMAIN erased = {"cur", "prev"} /\ erased.prev \in Mode!Marks
    BY DEF Mode!Marks
  <2>2. DOMAIN nvs = {"cur", "prev"} /\ nvs.prev \in Mode!Marks
    BY DEF ModeInv, ModeTypes
  <2>3. Mode!Boot(nvs) \/ Mode!Boot(erased)
    BY <1>1 DEF Mode!Reselect, Mode!SwitchRestarts, Mode!FactoryReset, Mode!PowerFails
  <2> HIDE DEF erased
  <2> QED
    BY <2>1, <2>2, <2>3, BootKeeps
<1>2. CASE Mode!RequestSwitch
  BY <1>2 DEF Mode!RequestSwitch, ModeInv, ModeTypes, Foreign, Mode!DoneMeansCleared
<1>3. CASE Mode!WriteCur
  BY <1>3 DEF Mode!WriteCur, ModeInv, ModeTypes, Foreign, Mode!DoneMeansCleared
<1>4. CASE Mode!WritePrev
  BY <1>4 DEF Mode!WritePrev, ModeInv, ModeTypes, Foreign, Mode!DoneMeansCleared, Mode!Marks
<1>5. CASE Mode!ReadMarker
  BY <1>5 DEF Mode!ReadMarker, ModeInv, ModeTypes, Foreign, Mode!DoneMeansCleared, Mode!Marks
<1>6. CASE Mode!NoMarker
  <2>1. ModeTypes'
    BY <1>6 DEF Mode!NoMarker, ModeInv, ModeTypes, Mode!NoBeat, Mode!NoReceipt, Mode!Marks
  <2>2. hb'.pc # "read" /\ receipt'.state = "none" /\ UNCHANGED <<nvs, mode, sw, accepted, sent>>
    BY <1>6 DEF Mode!NoMarker, Mode!NoBeat, Mode!NoReceipt
  <2>3. sw.pc # "restart" => nvs.prev = "absent"
    BY <1>6 DEF Mode!NoMarker, ModeInv
  <2>4. sent = 0 \/ accepted \/ ~Foreign(nvs.prev)
    BY <1>6, <2>3 DEF Mode!NoMarker, ModeInv, Foreign, Mode!Modes
  <2> QED
    BY <2>1, <2>2, <2>3, <2>4 DEF ModeInv, Foreign, Mode!DoneMeansCleared
<1>7. CASE Mode!StaleMarker
  <2>1. ModeTypes'
    BY <1>7 DEF Mode!StaleMarker, ModeInv, ModeTypes, Mode!NoReceipt
  <2>2. hb'.pc # "read" /\ receipt'.state = "none" /\ UNCHANGED <<nvs, mode, sw, accepted, done, sent>>
    BY <1>7 DEF Mode!StaleMarker, ModeInv, ModeTypes, Mode!NoReceipt
  <2>3. ~Foreign(nvs.prev)
    BY <1>7 DEF Mode!StaleMarker, ModeInv, Foreign
  <2> QED
    BY <2>1, <2>2, <2>3 DEF ModeInv, Foreign, Mode!DoneMeansCleared
<1>8. CASE Mode!Submit
  BY <1>8 DEF Mode!Submit, Mode!Pending, ModeInv, ModeTypes, Foreign, Mode!DoneMeansCleared, Mode!NoBeat, Mode!NoReceipt,
     Mode!Marks
<1>9. CASE Mode!StillPending
  BY <1>9 DEF Mode!StillPending, Mode!Pending, ModeInv, ModeTypes, Foreign, Mode!DoneMeansCleared, Mode!NoBeat, Mode!Marks
<1>10. CASE Mode!TakeReceipt
  BY <1>10 DEF Mode!TakeReceipt, Mode!Pending, ModeInv, ModeTypes, Foreign, Mode!DoneMeansCleared, Mode!NoBeat, Mode!NoReceipt,
     Mode!Marks
<1>11. CASE Mode!Emit
  BY <1>11 DEF Mode!Emit, Mode!Pending, ModeInv, ModeTypes, Foreign, Mode!DoneMeansCleared, Mode!NoBeat, Mode!Marks
<1>12. CASE Mode!ClearMarker
  <2>1. /\ hb'.pc # "read" /\ UNCHANGED <<mode, sw, receipt, accepted, sent>> /\ DOMAIN hb' = {"pc", "prev"}
        /\ hb'.prev \in Mode!Marks /\ hb.pc # "read"
    BY <1>12 DEF Mode!ClearMarker, Mode!NoBeat, Mode!Marks
  <2>2. \/ nvs' = [nvs EXCEPT !.prev = "absent"] /\ done' = TRUE
        \/ UNCHANGED <<nvs, done>>
    BY <1>12 DEF Mode!ClearMarker
  <2>3. CASE UNCHANGED <<nvs, done>>
    BY <2>1, <2>3 DEF ModeInv, ModeTypes, Foreign, Mode!DoneMeansCleared
  <2>4. CASE nvs' = [nvs EXCEPT !.prev = "absent"] /\ done' = TRUE
    <3>1. DOMAIN nvs' = {"cur", "prev"} /\ nvs'.prev = "absent" /\ done' \in BOOLEAN
      BY <2>4 DEF ModeInv, ModeTypes
    <3>2. ~Foreign(nvs.prev)' /\ nvs'.prev \in Mode!Marks
      BY <3>1 DEF Foreign, Mode!Modes, Mode!Marks
    <3> QED
      BY <2>1, <3>1, <3>2 DEF ModeInv, ModeTypes, Foreign, Mode!DoneMeansCleared
  <2> QED
    BY <2>2, <2>3, <2>4
<1>13. CASE Mode!Admitted \/ Mode!Dropped
  BY <1>13 DEF Mode!Admitted, Mode!Dropped, ModeInv, ModeTypes, Foreign, Mode!DoneMeansCleared
<1> QED
  BY <1>1, <1>2, <1>3, <1>4, <1>5, <1>6, <1>7, <1>8, <1>9, <1>10, <1>11, <1>12, <1>13 DEF Mode!Next, Mode!Heartbeat

LEMMA ModeHolds ==
  /\ Mode!Init => ModeInv
  /\ ModeInv /\ UNCHANGED modevars => ModeInv'
  /\ ModeInv => Mode!AdmittedOnce /\ Mode!DoneMeansCleared
<1>1. Mode!Init => ModeInv
  <2> SUFFICES ASSUME Mode!Init PROVE ModeInv
    OBVIOUS
  <2>1. /\ nvs = [cur |-> "absent", prev |-> "absent"] /\ mode \in Mode!Modes /\ sw = Mode!NoSwitch
        /\ hb = Mode!NoBeat /\ receipt = Mode!NoReceipt /\ ~accepted /\ ~done /\ accepted \in BOOLEAN
        /\ done \in BOOLEAN /\ sent = 0
    BY DEF Mode!Init, Mode!Modes
  <2>2. ModeTypes
    BY <2>1 DEF ModeTypes, Mode!NoSwitch, Mode!NoBeat, Mode!NoReceipt, Mode!Marks
  <2> QED
    BY <2>1, <2>2 DEF ModeInv, Mode!NoBeat, Mode!NoReceipt, Mode!DoneMeansCleared
<1>2. ModeInv /\ UNCHANGED modevars => ModeInv'
  BY DEF modevars, ModeInv, ModeTypes, Foreign, Mode!DoneMeansCleared
<1>3. ModeInv => Mode!AdmittedOnce /\ Mode!DoneMeansCleared
  BY DEF ModeInv, ModeTypes, Mode!AdmittedOnce
<1> QED
  BY <1>1, <1>2, <1>3

-----------------------------------------------------------------------------
(* What the owner is told                                                  *)

ReportInv == BannerInv /\ UpsInv /\ ModeInv

\* The owner is told the truth (main.cpp, backend_mode.c): the banner shows what
\* the ESP32 said last and is heard once, readings are neither shown nor alarmed
\* about when they are old, an outage is sounded once, the RP2040 restarts for a
\* deaf port once and in time, and the switch of the backend is confirmed once;
\* for all lifetimes, intervals, losses, restarts and failed writes, whoever
\* takes the display and when.
THEOREM ReportsAlwaysTrue == ReportSpec => []ReportsTrue
<1>1. ReportInit => ReportInv
  BY BannerHolds, UpsHolds, ModeHolds DEF ReportInit, MCInit, ReportInv
<1>2. ReportInv /\ [MCNext]_all => ReportInv'
  <2> SUFFICES ASSUME ReportInv, [MCNext]_all PROVE ReportInv'
    OBVIOUS
  <2>1. Ban!Next \/ UNCHANGED bannervars
    BY DEF MCNext, all, reports
  <2>2. Ups!Next \/ UNCHANGED upsvars
    BY DEF MCNext, all, reports
  <2>3. Mode!Next \/ UNCHANGED modevars
    BY DEF MCNext, all, reports
  <2> QED
    BY <2>1, <2>2, <2>3, BannerStep, BannerHolds, UpsStep, UpsHolds, ModeStep, ModeHolds DEF ReportInv
<1>3. ReportInv => ReportsTrue
  BY BannerHolds, ModeHolds DEF ReportInv, ReportsTrue, UpsInv
<1> QED
  BY <1>1, <1>2, <1>3, PTL DEF ReportSpec

-----------------------------------------------------------------------------
(* The ESP32's receive watchdog (RxWatchdog)                               *)

\* A window: the wait and the two probes; how far it has come.
Window == Idle + 2
Progress == IF pings = 0 THEN sinceRef ELSE Idle + (pings - 1) + sincePing

RxTypes ==
    /\ ota \in BOOLEAN /\ pongDue \in BOOLEAN /\ sinceRef \in 0..Idle /\ sincePing \in 0..1 /\ pings \in 0..2
    /\ cycles \in 0..RebootCycle /\ silence \in Nat

\* The rounds are reinstalls; they and the progress of the window were spent in
\* silence; a probe is under way only in a window that has been waited for, and
\* not during a transfer; an answer that will come was asked for in this tick.
RxInv ==
    /\ RxTypes /\ reinstalls = cycles
    /\ silence >= Rx!LongEnough \/ silence >= cycles * Window + Progress
    /\ pings > 0 => sinceRef = Idle /\ ~ota
    /\ pongDue => sincePing = 0

LEMMA RxNumbers == Idle \in Nat \ {0} /\ RebootCycle \in Nat \ {0} /\ Window \in Nat /\ Rx!LongEnough = RebootCycle * Window
BY RxConstants DEF Rx!RxWatchdogConstants, Window, Rx!LongEnough

LEMMA Rounds ==
  /\ \A c \in Nat : c * Window \in Nat /\ (c + 1) * Window = c * Window + Window
  /\ \A c \in Nat : c >= RebootCycle => c * Window >= RebootCycle * Window
  /\ RebootCycle * Window >= Window /\ 0 * Window = 0
<1> USE RxNumbers
<1>1. ASSUME NEW c \in Nat PROVE c * Window \in Nat /\ (c + 1) * Window = c * Window + Window
  OBVIOUS
<1>2. ASSUME NEW c \in Nat, c >= RebootCycle PROVE c * Window >= RebootCycle * Window
  <2>1. \A x \in Nat, w \in Nat : x * w >= 0
    OBVIOUS
  <2>2. (c - RebootCycle) * Window >= 0 /\ (c - RebootCycle) * Window = c * Window - RebootCycle * Window
    BY <1>2, <2>1
  <2>3. c * Window \in Int /\ RebootCycle * Window \in Int
    OBVIOUS
  <2> QED
    BY <2>2, <2>3
<1>3. RebootCycle * Window >= Window
  <2>1. (RebootCycle - 1) * Window \in Nat /\ (RebootCycle - 1 + 1) * Window = (RebootCycle - 1) * Window + Window
    BY <1>1
  <2> QED
    BY <2>1
<1> QED
  BY <1>1, <1>2, <1>3

LEMMA RxStep ==
  ASSUME RxInv, Rx!Next
  PROVE  RxInv'
<1> USE RxNumbers DEF Rx!ladder, Rx!evidence, Rx!history
<1>1. cycles * Window \in Nat /\ cycles \in Nat
  BY Rounds DEF RxInv, RxTypes
<1>2. CASE Rx!PeerChanges \/ Rx!LineBreaks
  <2>1. UNCHANGED <<ota, sinceRef, sincePing, pings, cycles, silence, reinstalls>> /\ ~pongDue' /\ pongDue' \in BOOLEAN
    BY <1>2 DEF Rx!PeerChanges, Rx!LineBreaks
  <2> QED
    BY <2>1 DEF RxInv, RxTypes, Progress, Rx!LongEnough, Window
<1>3. CASE Rx!TransferBegins
  <2>1. /\ sinceRef' = 0 /\ pings' = 0 /\ ota' \in BOOLEAN
        /\ UNCHANGED <<sincePing, cycles, pongDue, silence, reinstalls>>
    BY <1>3 DEF Rx!TransferBegins
  <2>2. Progress \in Nat /\ Progress' = 0
    BY <2>1 DEF RxInv, RxTypes, Progress
  <2>3. silence >= Rx!LongEnough \/ silence >= cycles * Window
    BY <1>1, <2>2 DEF RxInv, RxTypes
  <2> QED
    <3>1. silence' >= Rx!LongEnough' \/ silence' >= cycles' * Window' + Progress'
      BY <1>1, <2>1, <2>2, <2>3 DEF Rx!LongEnough, Window
    <3>2. RxTypes'
      BY <2>1 DEF RxInv, RxTypes
    <3> QED
      BY <2>1, <3>1, <3>2 DEF RxInv
<1>4. CASE Rx!TransferEnds \/ Rx!OtherBytes
  <2>1. /\ UNCHANGED <<sinceRef, sincePing, pings, cycles, pongDue, silence, reinstalls>> /\ ota' \in BOOLEAN
        /\ (ota' => ota)
    <3>1. CASE Rx!TransferEnds
      BY <3>1 DEF Rx!TransferEnds
    <3>2. CASE Rx!OtherBytes
      BY <3>2 DEF Rx!OtherBytes, RxInv, RxTypes
    <3> QED
      BY <1>4, <3>1, <3>2
  <2> QED
    BY <2>1 DEF RxInv, RxTypes, Progress, Rx!LongEnough, Window
<1>5. CASE Rx!FrameForUs
  <2>1. /\ sinceRef' = 0 /\ pings' = 0 /\ cycles' = 0 /\ ~pongDue' /\ pongDue' \in BOOLEAN /\ silence' = 0
        /\ reinstalls' = 0 /\ UNCHANGED <<ota, sincePing>>
    BY <1>5 DEF Rx!FrameForUs
  <2> QED
    BY <2>1, Rounds DEF RxInv, RxTypes, Progress
<1>6. CASE Rx!LastResort \/ Rx!ReinstallFails
  <2>1. /\ sinceRef' = 0 /\ pings' = 0 /\ cycles' = 0 /\ ~pongDue' /\ pongDue' \in BOOLEAN /\ silence' = 0
        /\ reinstalls' = 0 /\ sincePing' = 0 /\ ota' \in BOOLEAN
    BY <1>6 DEF Rx!LastResort, Rx!ReinstallFails, Rx!Restart
  <2> QED
    BY <2>1, Rounds DEF RxInv, RxTypes, Progress
<1>7. CASE Rx!Ping
  <2>1. /\ ~ota /\ sinceRef = Idle /\ pings < 2 /\ (pings = 0 \/ sincePing = 1) /\ pings' = pings + 1 /\ sincePing' = 0
        /\ UNCHANGED <<ota, sinceRef, cycles, silence, reinstalls>>
    BY <1>7 DEF Rx!Ping, Rx!MayPing
  <2>2. pongDue' \in BOOLEAN
    BY <1>7 DEF Rx!Ping, Rx!Heard
  <2>3. Progress' = Progress
    BY <2>1 DEF RxInv, RxTypes, Progress
  <2> QED
    <3>1. silence' >= Rx!LongEnough' \/ silence' >= cycles' * Window' + Progress'
      BY <2>1, <2>3 DEF RxInv, Rx!LongEnough, Window
    <3>2. RxTypes' /\ pongDue' \in BOOLEAN
      BY <2>1, <2>2 DEF RxInv, RxTypes
    <3> QED
      BY <2>1, <3>1, <3>2 DEF RxInv
<1>8. CASE Rx!Reinstall
  <2>1. /\ sinceRef = Idle /\ pings = 2 /\ sincePing = 1 /\ ~ota /\ sinceRef' = 0 /\ pings' = 0
        /\ cycles' = Rx!AtMost(cycles + 1, RebootCycle) /\ reinstalls' = Rx!AtMost(reinstalls + 1, RebootCycle)
        /\ UNCHANGED <<ota, sincePing, pongDue, silence>>
    BY <1>8 DEF Rx!Reinstall, Rx!MayRecover
  <2>2. Progress = Window /\ Progress' = 0
    BY <2>1 DEF Progress, Window
  <2>3. (cycles + 1) * Window = cycles * Window + Window
    BY <1>1, Rounds
  <2>4. silence >= Rx!LongEnough \/ silence >= (cycles + 1) * Window
    BY <2>2, <2>3 DEF RxInv
  <2>5. cycles' = cycles + 1 \/ (cycles' = RebootCycle /\ cycles = RebootCycle)
    BY <2>1 DEF Rx!AtMost, RxInv, RxTypes
  <2>6. silence' >= Rx!LongEnough' \/ silence' >= cycles' * Window' + Progress'
    <3>1. CASE silence >= Rx!LongEnough
      BY <2>1, <3>1 DEF Rx!LongEnough
    <3>2. CASE silence >= (cycles + 1) * Window
      <4>1. CASE cycles' = cycles + 1
        BY <1>1, <2>1, <2>2, <2>3, <3>2, <4>1 DEF Window, RxInv, RxTypes
      <4>2. CASE cycles = RebootCycle
        BY <1>1, <2>1, <2>3, <3>2, <4>2 DEF Rx!LongEnough, Window, RxInv, RxTypes
      <4> QED
        BY <2>5, <4>1, <4>2
    <3> QED
      BY <2>4, <3>1, <3>2
  <2>7. RxTypes' /\ reinstalls' = cycles'
    BY <2>1 DEF RxInv, RxTypes, Rx!AtMost
  <2> QED
    BY <2>1, <2>6, <2>7 DEF RxInv
<1>9. CASE Rx!Tick
  <2>1. /\ ~Rx!MayPing /\ ~Rx!MayRecover /\ ~pongDue /\ sincePing' = 1
        /\ sinceRef' = (IF ota THEN 0 ELSE Rx!AtMost(sinceRef + 1, Idle))
        /\ silence' = Rx!AtMost(silence + 1, Rx!LongEnough)
        /\ UNCHANGED <<ota, pings, cycles, pongDue, reinstalls>>
    BY <1>9 DEF Rx!Tick
  <2>2. RxTypes'
    BY <2>1 DEF RxInv, RxTypes, Rx!AtMost, Rx!LongEnough
  <2>3. Progress' \in Nat /\ Progress \in Nat /\ Progress' <= Progress + 1
    BY <2>1 DEF Progress, RxInv, RxTypes, Rx!MayPing, Rx!MayRecover, Rx!AtMost
  <2>4. silence' >= Rx!LongEnough \/ silence' >= cycles * Window + Progress'
    <3>1. Rx!LongEnough \in Nat
      BY Rounds
    <3>2. silence' = (IF silence + 1 > Rx!LongEnough THEN Rx!LongEnough ELSE silence + 1)
      BY <2>1 DEF Rx!AtMost
    <3>3. PICK rounds \in Nat : rounds = cycles * Window
      BY <1>1
    <3>4. silence \in Nat /\ (silence >= Rx!LongEnough \/ silence >= rounds + Progress)
      BY <3>3 DEF RxInv, RxTypes
    <3>5. silence' >= Rx!LongEnough \/ silence' >= rounds + Progress'
      BY <2>3, <3>1, <3>2, <3>3, <3>4
    <3> QED
      BY <3>3, <3>5
  <2>5. silence' >= Rx!LongEnough' \/ silence' >= cycles' * Window' + Progress'
    BY <2>1, <2>4 DEF Rx!LongEnough, Window
  <2>6. pings' > 0 => sinceRef' = Idle /\ ~ota'
    BY <2>1 DEF RxInv, RxTypes, Rx!AtMost
  <2> QED
    BY <2>1, <2>2, <2>5, <2>6 DEF RxInv
<1> QED
  BY <1>2, <1>3, <1>4, <1>5, <1>6, <1>7, <1>8, <1>9 DEF Rx!Next, Rx!Recover

\* What a recovery has behind it.
LEMMA RecoverMeans ==
  ASSUME RxInv, Rx!MayRecover
  PROVE  ~pongDue /\ silence >= Window /\ (cycles + 1 >= RebootCycle => silence >= Rx!LongEnough)
<1> USE RxNumbers
<1>1. ~pongDue /\ Progress = Window /\ cycles \in Nat /\ cycles * Window \in Nat /\ silence \in Nat
  BY Rounds DEF RxInv, RxTypes, Rx!MayRecover, Progress, Window
<1>2. (cycles + 1) * Window = cycles * Window + Window /\ Rx!LongEnough >= Window /\ Rx!LongEnough \in Nat
  BY <1>1, Rounds
<1>3. cycles + 1 >= RebootCycle => (cycles + 1) * Window >= Rx!LongEnough
  BY <1>1, Rounds
<1> QED
  BY <1>1, <1>2, <1>3 DEF RxInv

\* wups_link.c's rx_task restarts the ESP32 only after RebootCycle windows of
\* silence, each with two unanswered probes, and a reinstall after all but the
\* last; and it never tears the driver down under a peer that can be heard and
\* has just been asked; for any window, number of rounds, and transfers.
THEOREM RestartAlwaysLastResort == ReportSpec => RestartIsLastResort
<1>1. ReportInit => RxInv
  <2> SUFFICES ASSUME Rx!Init PROVE RxInv
    BY DEF ReportInit, MCInit
  <2>1. /\ ota \in BOOLEAN /\ pongDue \in BOOLEAN /\ ~pongDue /\ sinceRef = 0 /\ sincePing = 0 /\ pings = 0 /\ cycles = 0
        /\ silence = 0 /\ reinstalls = 0
    BY DEF Rx!Init
  <2> QED
    BY <2>1, RxNumbers, Rounds DEF RxInv, RxTypes, Progress
<1>2. RxInv /\ [MCNext]_all => RxInv'
  <2> SUFFICES ASSUME RxInv, [MCNext]_all PROVE RxInv'
    OBVIOUS
  <2>1. Rx!Next \/ UNCHANGED rxvars
    BY DEF MCNext, all, reports
  <2>2. UNCHANGED rxvars => RxInv'
    BY DEF rxvars, RxInv, RxTypes, Progress, Window, Rx!LongEnough
  <2> QED
    BY <2>1, <2>2, RxStep
<1>3. RxInv /\ [MCNext]_all => [Rx!LastResort => silence >= Rx!LongEnough /\ reinstalls >= RebootCycle - 1]_Rx!vars
  <2> SUFFICES ASSUME RxInv, Rx!LastResort
               PROVE  silence >= Rx!LongEnough /\ reinstalls >= RebootCycle - 1
    OBVIOUS
  <2>1. Rx!MayRecover /\ cycles + 1 >= RebootCycle
    BY DEF Rx!LastResort, Rx!Escalates
  <2> QED
    BY <2>1, RecoverMeans, RxNumbers DEF RxInv, RxTypes
<1>4. RxInv /\ [MCNext]_all => [Rx!Recover /\ Rx!Heard => ~pongDue /\ silence >= Idle + 2]_Rx!vars
  <2> SUFFICES ASSUME RxInv, Rx!Recover
               PROVE  ~pongDue /\ silence >= Idle + 2
    OBVIOUS
  <2>1. Rx!MayRecover
    BY DEF Rx!Recover, Rx!LastResort, Rx!Reinstall, Rx!ReinstallFails
  <2> QED
    BY <2>1, RecoverMeans DEF Window
<1> QED
  BY <1>1, <1>2, <1>3, <1>4, PTL DEF ReportSpec, RestartIsLastResort, Rx!RestartIsLastResort, Rx!QuietPeerSpared
=============================================================================
