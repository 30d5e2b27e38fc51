----------------------------- MODULE PanelInput -----------------------------
(***************************************************************************)
(* The two buttons of the RP2040's panel and everybody who wants them: the *)
(* firmware-update screen, the trust prompt, the local menu, the alert and *)
(* notice layers and the dashboard's navigation (loop() of main.cpp,       *)
(* local_menu.cpp, ui_settings.cpp).  A pass of loop() is one action; the  *)
(* frames it drains first are actions of their own between two passes.     *)
(* Times (the two-second hold, the hand-off's four seconds, the idle       *)
(* limits) are choices; what a pass draws is reduced to who draws.         *)
(***************************************************************************)
EXTENDS Integers, FiniteSets

CONSTANTS ScreenCount,      \* SCREEN_COUNT
          Levels,           \* UI_BRIGHTNESS_LEVELS
          MaxFrames         \* frames and other surprises in a behaviour
ASSUME PanelConstants ==
    /\ ScreenCount \in Nat \ {0} /\ Levels \in Nat \ {0} /\ MaxFrames \in Nat

Buttons == {"left", "right"}
View(who, page, sub) == [who |-> who, page |-> page, sub |-> sub]
Dash == View("dash", "", 0)

\* ROOT_BRIGHT .. ROOT_EXIT, the order of the local menu.
Items == <<"bright", "sound", "info", "output", "network", "exit">>
NumRoot == 6
IndexOf(item) == CHOOSE i \in 0..(NumRoot - 1) : Items[i + 1] = item

VARIABLES down,     \* the buttons that are pressed
          press,    \* history: of each button's last press, what was shown then and what it did
          wrong,    \* history: a press acted on something that was not shown when it was made
          shown,    \* what the display shows
          scr,      \* currentScreen
          nav,      \* the dashboard's memory of the buttons
          crossed,  \* history: somebody else has had the display since the dashboard saw LEFT down
          guard,    \* s_btn_release_guard
          trust,    \* the trust prompt: active, and its memory of the buttons
          menu,     \* the local menu
          pending,  \* a hand-off to the ESP32's menu awaits answer
          fromLocal,\* s_esp32_menu_from_local
          answered, \* history: the answer to the pending hand-off has been on the display
          blamed,   \* history: "no modem" was shown although it answered
          fw,       \* an update session owns the display
          alert, info, \* the two message layers: active, and drawn in the last pass
          set, flash,  \* the settings, and what is stored of them
          frames
display == <<scr, nav, crossed, guard, trust, menu, pending, fromLocal, answered, blamed, fw, alert, info>>
vars == <<down, press, wrong, shown, display, set, flash, frames>>

\* ui_settings_begin: a blob of the first version keeps its sound, everything
\* else that is not of this version becomes the default.
Version == 2
Default == [version |-> Version, bright |-> 0, sound |-> TRUE]
ui_settings_begin(f) ==
    IF f.version = Version THEN f
    ELSE IF f.version = 1 THEN [Default EXCEPT !.sound = f.sound] ELSE Default
Blobs == [version : 0..Version, bright : 0..(Levels - 1), sound : BOOLEAN]

Off == [on |-> FALSE, init |-> FALSE, prev |-> {}]
Quiet == [active |-> FALSE, drawn |-> FALSE]
MenuOff == [on |-> FALSE, page |-> "root", cursor |-> 0, sub |-> 0, prev |-> {}, init |-> FALSE,
            notice |-> FALSE]
Unpressed == [seen |-> {}, right |-> FALSE, left |-> FALSE, consumed |-> FALSE, held |-> FALSE, fired |-> FALSE, home |-> FALSE]

NotPressed == [at |-> Dash, acts |-> 0]

Init ==
    /\ down = {} /\ wrong = FALSE /\ shown = Dash /\ press = [b \in Buttons |-> NotPressed]
    /\ scr = 0 /\ nav = Unpressed /\ crossed = FALSE /\ guard = FALSE /\ trust = Off /\ menu = MenuOff
    /\ pending = FALSE /\ fromLocal = FALSE /\ answered = FALSE /\ blamed = FALSE /\ fw = FALSE /\ alert = Quiet /\ info = Quiet
    /\ \E f \in {b \in Blobs : b.version # 1 => b.bright = 0 /\ b.sound} :
          set = ui_settings_begin(f) /\ flash = ui_settings_begin(f)
    /\ frames = 0

-----------------------------------------------------------------------------
\* The effects of a pass are put on the account of their presses.  The
\* dashboard takes the presses made over a message that is gone; whoever comes
\* next takes those still down from an update's screen, which reads none; all
\* others act on exactly what was shown.
Effect(b, view) == [button |-> b, by |-> view]
Matches(at, by) == \/ at = by \/ at.who = "fw"
                   \/ by.who = "dash" /\ at.who \in {"alert", "info"}
Account(effects) ==
    /\ wrong' = (wrong \/ \E e \in effects : ~Matches(press[e.button].at, e.by))
    /\ press' = [b \in Buttons |->
                   IF \E e \in effects : e.button = b
                   THEN [press[b] EXCEPT !.acts = IF @ = 2 THEN 2 ELSE @ + 1] ELSE press[b]]

\* Only LEFT acts when it comes up, and only if the dashboard saw it down.
LeftOwed == nav.left /\ ~nav.consumed
ActsOnRelease(b) == b = "left" /\ LeftOwed

\* s_left_prev_down outlives whoever takes the display meanwhile.
Crosses == crossed' = (crossed \/ LeftOwed)

Press(b) == /\ b \notin down
            /\ down' = down \cup {b} /\ press' = [press EXCEPT ![b] = [at |-> shown, acts |-> 0]]
            /\ UNCHANGED <<wrong, shown, display, set, flash, frames>>
Release(b) == /\ b \in down /\ down' = down \ {b}
              /\ press' = IF ActsOnRelease(b) THEN press ELSE [press EXCEPT ![b] = NotPressed]
              /\ UNCHANGED <<wrong, shown, display, set, flash, frames>>

-----------------------------------------------------------------------------
\* loop(): an open update session reads no button.
FwPass == /\ fw /\ shown' = View("fw", "", 0) /\ Account({}) /\ Crosses
          /\ UNCHANGED <<down, scr, nav, guard, trust, menu, pending, fromLocal, answered, blamed, fw, alert, info>>
          /\ UNCHANGED <<set, flash, frames>>

\* trust_ui_tick, as far as it takes button edges; it may time out.
TrustPass ==
    /\ ~fw /\ trust.on /\ pending' = FALSE /\ guard' = TRUE /\ answered' = pending /\ Crosses
    /\ \/ trust' = Off /\ Account({}) /\ UNCHANGED shown
       \/ /\ trust' = [trust EXCEPT !.init = TRUE, !.prev = down]
          /\ Account({Effect(b, View("trust", "", 0)) : b \in {b \in down : trust.init /\ b \notin trust.prev}})
          /\ shown' = View("trust", "", 0)
    /\ UNCHANGED <<down, scr, nav, menu, fromLocal, blamed, fw, alert, info, set, flash, frames>>

-----------------------------------------------------------------------------
\* The local menu.
Opened == [MenuOff EXCEPT !.on = TRUE]
NoModem == [Opened EXCEPT !.cursor = IndexOf("network"), !.notice = TRUE]
MenuView(m) == View("menu", m.page, IF m.page = "root" THEN m.cursor ELSE m.sub)

ui_settings_commit == flash' = set'
local_menu_close == menu' = MenuOff /\ ui_settings_commit   \* what a closed menu keeps nobody reads

\* handle_edge, screen by screen; `on' is what the output's rail measures.
Root(m, b) ==
    \/ /\ b = "left" /\ menu' = [m EXCEPT !.cursor = (@ + 1) % NumRoot]
       /\ UNCHANGED <<set, flash, pending, fromLocal, answered, blamed>>
    \/ /\ b = "right" /\ Items[m.cursor + 1] \in {"bright", "info", "output"}
       /\ menu' = [m EXCEPT !.page = Items[m.cursor + 1], !.sub = 0]
       /\ UNCHANGED <<set, flash, pending, fromLocal, answered, blamed>>
    \/ /\ b = "right" /\ Items[m.cursor + 1] = "sound"
       /\ set' = [set EXCEPT !.sound = ~@] /\ ui_settings_commit
       /\ menu' = m /\ UNCHANGED <<pending, fromLocal, answered, blamed>>
    \/ /\ b = "right" /\ Items[m.cursor + 1] = "network" /\ UNCHANGED set
       /\ pending' = TRUE /\ fromLocal' = TRUE /\ answered' = FALSE /\ local_menu_close /\ UNCHANGED blamed
    \/ /\ b = "right" /\ Items[m.cursor + 1] = "exit" /\ UNCHANGED set
       /\ local_menu_close /\ UNCHANGED <<pending, fromLocal, answered, blamed>>
Bright(m, b) ==
    /\ IF b = "right"
       THEN set' = [set EXCEPT !.bright = (@ + 1) % Levels] /\ menu' = m /\ UNCHANGED flash
       ELSE UNCHANGED set /\ ui_settings_commit /\ menu' = [m EXCEPT !.page = "root", !.cursor = IndexOf("bright")]
    /\ UNCHANGED <<pending, fromLocal, answered, blamed>>
Info(m, b) == /\ menu' = [m EXCEPT !.page = "root", !.cursor = IndexOf("info")]
              /\ UNCHANGED <<set, flash, pending, fromLocal, answered, blamed>>
Output(m, b) ==
    /\ \E on \in BOOLEAN :
          menu' = IF b = "left" THEN [m EXCEPT !.sub = 1 - @]
                  ELSE IF m.sub = 0 THEN [m EXCEPT !.page = "root", !.cursor = IndexOf("output")]
                  ELSE IF on THEN [m EXCEPT !.page = "confirm", !.sub = 0] ELSE m
    /\ UNCHANGED <<set, flash, pending, fromLocal, answered, blamed>>
Confirm(m, b) ==   \* with the cursor on Confirm, RIGHT cuts the output
    /\ menu' = IF b = "left" THEN [m EXCEPT !.sub = 1 - @] ELSE [m EXCEPT !.page = "output", !.sub = 0]
    /\ UNCHANGED <<set, flash, pending, fromLocal, answered, blamed>>
handle_edge(m, b) == CASE m.page = "root" -> Root(m, b)
                       [] m.page = "bright" -> Bright(m, b)
                       [] m.page = "info" -> Info(m, b)
                       [] m.page = "output" -> Output(m, b)
                       [] m.page = "confirm" -> Confirm(m, b)

\* local_menu_tick.  LEFT goes first when both are pressed at once.
First(edges) == IF "left" \in edges THEN "left" ELSE "right"
Edges == down \ menu.prev
MenuAdopts == ~menu.init
Ticks(m) ==
    \/ /\ m.notice /\ menu' = m /\ Account({})
       /\ UNCHANGED <<set, flash, pending, fromLocal, answered, blamed>>
    \/ /\ Edges # {} /\ Account({Effect(First(Edges), MenuView(m))})
       /\ handle_edge([m EXCEPT !.notice = FALSE], First(Edges))
    \/ /\ Edges = {} /\ Account({}) /\ menu' = [m EXCEPT !.notice = FALSE]
       /\ UNCHANGED <<set, flash, pending, fromLocal, answered, blamed>>
    \/ /\ Edges = {} /\ Account({}) /\ UNCHANGED set   \* LM_IDLE_MS
       /\ local_menu_close /\ UNCHANGED <<pending, fromLocal, answered, blamed>>
MenuPass ==
    /\ ~fw /\ ~trust.on /\ menu.on /\ guard' = TRUE /\ Crosses
    /\ IF MenuAdopts
       THEN /\ menu' = [menu EXCEPT !.init = TRUE, !.prev = down] /\ Account({})
            /\ UNCHANGED <<set, flash, pending, fromLocal, answered, blamed>>
       ELSE Ticks([menu EXCEPT !.prev = down])
    /\ shown' = IF menu'.on THEN MenuView(menu') ELSE shown
    /\ UNCHANGED <<down, scr, nav, trust, fw, alert, info, frames>>

-----------------------------------------------------------------------------
\* A button still down from a menu: nothing is read until both are up.
Free == ~fw /\ ~trust.on /\ ~menu.on
GuardPass == /\ Free /\ guard /\ down # {} /\ Account({})
             /\ UNCHANGED <<down, shown, display, set, flash, frames>>
OnDash == Free /\ (guard => down = {})

\* Any fresh press closes the message that was drawn, and nothing else.
FreshPress == down \ nav.seen
Dismisses(layer) == layer.active /\ layer.drawn /\ FreshPress # {}
DismissAlertUnguarded ==
    /\ OnDash /\ Dismisses(alert) /\ alert' = Quiet /\ nav' = [nav EXCEPT !.seen = down]
    /\ Account({Effect(b, View("alert", "", 0)) : b \in FreshPress})
    /\ UNCHANGED <<down, shown, scr, crossed, guard, trust, menu, pending, fromLocal, answered, blamed, fw, info, set, flash, frames>>
DismissAlert ==
    /\ OnDash /\ Dismisses(alert) /\ alert' = Quiet /\ guard' = TRUE /\ nav' = [nav EXCEPT !.seen = down]
    /\ Account({Effect(b, View("alert", "", 0)) : b \in FreshPress})
    /\ UNCHANGED <<down, shown, scr, crossed, trust, menu, pending, fromLocal, answered, blamed, fw, info, set, flash, frames>>
DismissInfo ==
    /\ OnDash /\ ~Dismisses(alert) /\ Dismisses(info) /\ info' = Quiet /\ guard' = TRUE
    /\ nav' = [nav EXCEPT !.seen = down]
    /\ Account({Effect(b, View("info", "", 0)) : b \in FreshPress})
    /\ UNCHANGED <<down, shown, scr, crossed, trust, menu, pending, fromLocal, answered, blamed, fw, alert, set, flash, frames>>

\* The hold that opens the menu; LEFT counts from the pass that sees it first.
Hold(due) ==
    IF "left" \in down
    THEN LET begun == nav.held
             home == IF begun THEN nav.home ELSE scr = 0
             fires == begun /\ home /\ ~nav.fired /\ due IN
         [nav EXCEPT !.held = TRUE, !.home = home, !.fired = @ \/ fires, !.consumed = @ \/ fires]
    ELSE [nav EXCEPT !.held = FALSE, !.fired = FALSE, !.home = FALSE]

\* The deadline of a hand-off that nobody answered reopens the menu.
ReopensNever(late) == MenuOff
Reopens(late) == IF pending /\ late THEN NoModem ELSE MenuOff

\* checkButtons: RIGHT acts when it goes down, LEFT when it comes up again; a
\* LEFT that outlived another owner of the display is nobody's press.
DashPass ==
    /\ OnDash /\ ~Dismisses(alert) /\ ~Dismisses(info)
    /\ \E due, late, idle, hidden \in BOOLEAN :
          LET h == Hold(due)
              fires == h.fired /\ ~nav.fired
              next == "right" \in down /\ ~nav.right
              up == nav.left /\ "left" \notin down
              back == up /\ ~h.consumed
              to == (scr + (IF next THEN 1 ELSE 0) + (IF back THEN ScreenCount - 1 ELSE 0)) % ScreenCount IN
          /\ nav' = [h EXCEPT !.seen = down, !.right = "right" \in down, !.left = "left" \in down,
                              !.consumed = @ /\ ~up]
          /\ crossed' = (crossed /\ nav'.left)
          /\ menu' = IF Reopens(late).on THEN Reopens(late) ELSE IF fires THEN Opened ELSE menu
          /\ pending' = (pending /\ ~late) /\ answered' = (answered /\ pending')
          /\ blamed' = (blamed \/ (answered /\ pending /\ late))
          /\ fromLocal' = (fromLocal /\ pending)
          /\ scr' = IF idle /\ ~next /\ ~back THEN 0 ELSE to
          /\ Account({Effect("left", Dash) : x \in {y \in {1} : fires \/ (back /\ ~crossed)}}
                     \cup {Effect("right", Dash) : x \in {y \in {1} : next}})
          /\ alert' = [alert EXCEPT !.drawn = alert.active /\ ~hidden]
          /\ info' = [info EXCEPT !.drawn = info.active /\ ~hidden /\ ~alert.active]
          /\ shown' = IF alert'.drawn THEN View("alert", "", 0) ELSE IF info'.drawn THEN View("info", "", 0) ELSE Dash
    /\ guard' = FALSE
    /\ UNCHANGED <<down, trust, fw, set, flash, frames>>

-----------------------------------------------------------------------------
\* What comes in between two passes.
Arrives == frames < MaxFrames /\ frames' = frames + 1 /\ UNCHANGED <<down, press, wrong>>
Frame == Arrives /\ UNCHANGED shown
Follows == UNCHANGED <<down, press, wrong, shown, frames>>   \* what ends something that arrived

\* ui.trust_prompt: the local menu is closed first.
trust_prompt ==
    /\ Frame /\ trust' = [Off EXCEPT !.on = TRUE]
    /\ IF menu.on THEN UNCHANGED set /\ local_menu_close ELSE UNCHANGED <<menu, set, flash>>
    /\ UNCHANGED <<scr, nav, crossed, guard, pending, fromLocal, answered, blamed, fw, alert, info>>

\* ui.set_screen, with which the ESP32 also closes its menu.
set_screen(n) ==
    /\ IF trust.init THEN Follows ELSE Frame
    /\ trust' = Off /\ fromLocal' = FALSE
    /\ IF fromLocal /\ n = 0 THEN menu' = Opened /\ UNCHANGED scr ELSE scr' = n /\ UNCHANGED menu
    /\ UNCHANGED <<nav, crossed, guard, pending, answered, blamed, fw, alert, info, set, flash>>

\* system.hello of an ESP32 that has restarted.
hello == /\ Frame /\ trust' = Off /\ scr' = 0 /\ alert' = [alert EXCEPT !.active = FALSE]
         /\ info' = [info EXCEPT !.active = FALSE]
         /\ UNCHANGED <<nav, crossed, guard, menu, pending, fromLocal, answered, blamed, fw, set, flash>>

\* ui.display_msg raises and clears the layers.
display_msg == /\ Frame
               /\ \E on \in BOOLEAN :
                     \/ alert' = [alert EXCEPT !.active = on] /\ UNCHANGED info
                     \/ info' = [info EXCEPT !.active = on] /\ UNCHANGED alert
               /\ UNCHANGED <<scr, nav, crossed, guard, trust, menu, pending, fromLocal, answered, blamed, fw, set, flash>>

\* ui.local_reset.
local_reset == /\ Frame /\ set' = Default /\ ui_settings_commit /\ UNCHANGED display

\* fw_xfer BEGIN closes the local menu, whether or not it is accepted; a session
\* is given up when nothing more comes (fw_update_tick).
fw_begin == /\ Frame /\ fw' \in {fw, TRUE}
            /\ IF menu.on THEN UNCHANGED set /\ local_menu_close ELSE UNCHANGED <<menu, set, flash>>
            /\ UNCHANGED <<scr, nav, crossed, guard, trust, pending, fromLocal, answered, blamed, alert, info>>
fw_end == /\ fw /\ Follows /\ fw' = FALSE
          /\ UNCHANGED <<scr, nav, crossed, guard, trust, menu, pending, fromLocal, answered, blamed, alert, info, set, flash>>
fw_session == fw_begin \/ fw_end

\* The RP2040 restarts; what was not stored is gone (as would be a hand-off).
Restart == /\ Arrives /\ down = {} /\ ~pending /\ shown' = Dash /\ set' = ui_settings_begin(flash) /\ flash' = ui_settings_begin(flash)
           /\ scr' = 0 /\ nav' = Unpressed /\ crossed' = FALSE /\ guard' = FALSE /\ trust' = Off /\ menu' = MenuOff
           /\ pending' = FALSE /\ fromLocal' = FALSE /\ answered' = FALSE /\ UNCHANGED blamed /\ fw' = FALSE /\ alert' = Quiet /\ info' = Quiet

Pass == FwPass \/ TrustPass \/ MenuPass \/ GuardPass \/ DismissAlert \/ DismissInfo \/ DashPass
Next == \/ Pass \/ \E b \in Buttons : Press(b) \/ Release(b)
        \/ trust_prompt \/ (\E n \in 0..(ScreenCount - 1) : set_screen(n))
        \/ hello \/ display_msg \/ local_reset \/ fw_session \/ Restart

\* loop() goes round; times pass; the person lets go of the buttons, of both
\* now and then and at a moment when the firmware looks; an update session ends.
LetsGo == \E b \in Buttons : Release(b) /\ down' = {}
Spec == /\ Init /\ [][Next]_vars /\ WF_vars(Pass) /\ WF_vars(\E b \in Buttons : Release(b))
        /\ SF_vars(LetsGo)
        /\ SF_vars(DashPass /\ (pending => ~pending')) /\ WF_vars(fw_end)

-----------------------------------------------------------------------------
TypeOK ==
    /\ down \subseteq Buttons /\ scr \in 0..(ScreenCount - 1) /\ frames \in 0..MaxFrames
    /\ nav \in [seen : SUBSET Buttons, right : BOOLEAN, left : BOOLEAN, consumed : BOOLEAN, held : BOOLEAN,
                 fired : BOOLEAN, home : BOOLEAN]
    /\ menu \in [on : BOOLEAN, page : {"root", "bright", "info", "output", "confirm"}, cursor : 0..(NumRoot - 1),
                  sub : 0..1, prev : SUBSET Buttons, init : BOOLEAN, notice : BOOLEAN]
    /\ {set, flash} \subseteq Blobs

\* One press does one thing at most, whoever the display passes to meanwhile:
\* a press that opened, left or dismissed something does not navigate as well.
\* What is not a press: a LEFT the dashboard saw down before another took the
\* display moves it one screen back when it returns (main.cpp:2151), unlike what
\* main.cpp:1972 says of the release guard.
OneEffect == \A b \in Buttons : press[b].acts <= 1

\* A press acts on what was on the display when it was made: the very row of
\* the menu (so the output is cut only by a press made while "Confirm" was
\* marked), the very message; a press made on an update's screen and still down
\* when the update is given up acts on what it finds.
AsShown == ~wrong

\* The menu comes back with "no modem" only if the ESP32's menu has not been
\* on the display since the hand-off.
NoticeTrue == ~blamed

\* Whatever way the menu is left, the settings the person sees are stored.
SettingsKept == ~menu.on => flash = set

PanelSound == TypeOK /\ OneEffect /\ AsShown /\ NoticeTrue /\ SettingsKept

\* A hand-off to the ESP32 ends in its menu or back in ours, whatever
\* else wants the display meanwhile.
HandoffResolved == pending ~> (trust.on \/ menu.on)
=============================================================================
