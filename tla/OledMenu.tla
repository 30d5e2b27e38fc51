------------------------------ MODULE OledMenu ------------------------------
(***************************************************************************)
(* oled_menu.c: the system menu.  The ESP32 keeps the screen and the       *)
(* cursor; the RP2040 draws the text it is sent and passes presses on.     *)
(* The two are connected by a UART on which a frame may be lost, and a     *)
(* press is applied to the screen the ESP32 is on when it arrives, which   *)
(* need not be the one the person saw.  The receive task runs the menu, so *)
(* presses queue up while an action waits.                                 *)
(***************************************************************************)
EXTENDS Naturals, Sequences

CONSTANTS
    MaxSessions,   \* bound: nonces, one for each opening of the menu
    MaxLosses,     \* bound: frames lost
    MaxPresses,    \* bound: presses under way
    MaxFrames      \* bound: prompts under way when a press is applied

OledMenuConstants ==
    /\ MaxSessions \in Nat \ {0} /\ MaxLosses \in Nat /\ MaxPresses \in Nat \ {0}
    /\ MaxFrames \in Nat \ {0}

VARIABLES
    menu,     \* S: active, screen, cursor, nonce
    armed,    \* wups_link.c: the nonce the claim path would swallow, or 0
    shown,    \* trust_ui.cpp: the nonce and the text on the OLED
    up, down, \* presses and results to the ESP32; prompts to the RP2040
    losses,
    moved,    \* history: LEFT was applied since this screen was entered
    destroyed \* history: what the last step destroyed
vars == <<menu, armed, shown, up, down, losses, moved, destroyed>>

Items == [ root    |-> <<"Debug", "Mode", "HTTP Key", "Reset", "Wallet", "Back">>,
           mode    |-> <<"MQTT", "ARKIV", "HTTP", "Back">>,
           reset   |-> <<"Back", "Wipe">>,
           regen   |-> <<"Back", "Regen">>,
           wallet  |-> <<"Address", "Balance", "Regen", "Back">>,
           address |-> <<"Page">>,
           balance |-> <<"Page">>,
           key     |-> <<"Back", "New key">>,
           newkey  |-> <<"Back", "Regen">> ]
Screens == DOMAIN Items
ConfirmScreens == {"reset", "regen", "newkey"}

screen_item_count(s) == Len(Items[s])
Highlighted == Items[menu.screen][menu.cursor + 1]

Text(s, c) == <<s, c>>
KEY_ERROR == <<"error", 0>>
\* What may be drawn of a screen: the page of the key says so, and marks "Back"
\* whatever the cursor, when the key can be neither read nor made.
render_screen(s, c) == IF s = "key" THEN {Text(s, c), KEY_ERROR} ELSE {Text(s, c)}
WAIT == <<"wait", 0>>
FAILED == <<"failed", 0>>
Prompt(nonce, text) == [kind |-> "prompt", nonce |-> nonce, text |-> text]
SET_SCREEN == [kind |-> "set_screen"]
Press(b) == [kind |-> b]
Timeout(nonce) == [kind |-> "timeout", nonce |-> nonce]
Dark == [nonce |-> 0, text |-> <<"none", 0>>]
Closed == [active |-> FALSE, screen |-> "root", cursor |-> 0, nonce |-> 0]

Init ==
    /\ menu = Closed /\ armed = 0 /\ shown = Dark
    /\ up = <<>> /\ down = <<>> /\ losses = 0
    /\ moved = FALSE /\ destroyed = "none"

(***************************************************************************)
(* The menu, in the receive task                                           *)
(***************************************************************************)
Arrived(kind) == up # <<>> /\ Head(up).kind = kind /\ Len(down) < MaxFrames
Take(kind) == Arrived(kind) /\ up' = Tail(up)

\* push_screen, after something was destroyed or nothing.  A key that cannot be
\* read to be shown is replaced, if that can be written (http_cfg_get_secret).
\* The address page is the one screen wups_link.c arms for.
Push(m, what) ==
    /\ menu' = m
    /\ \E t \in render_screen(m.screen, m.cursor) : down' = Append(down, Prompt(m.nonce, t))
    /\ destroyed' \in {what} \cup (IF m.screen = "key" /\ what = "none" THEN {"unread key"} ELSE {})
    /\ armed' = IF m.screen = "address" THEN m.nonce ELSE armed

Enter(s, c, what) ==
    /\ Push([menu EXCEPT !.screen = s, !.cursor = c], what)
    /\ moved' = FALSE

\* Where the entries that only change the screen lead.
Lead == [ root |-> [Mode |-> <<"mode", 0>>, Reset |-> <<"reset", 0>>, Wallet |-> <<"wallet", 0>>],
          wallet |-> [Address |-> <<"address", 0>>, Balance |-> <<"balance", 0>>,
                      Regen |-> <<"regen", 0>>, Back |-> <<"root", 4>>],
          mode |-> [Back |-> <<"root", 1>>],
          reset |-> [Back |-> <<"root", 2>>],
          regen |-> [Back |-> <<"wallet", 2>>],
          key |-> [Back |-> <<"root", 2>>],
          newkey |-> [Back |-> <<"key", 0>>] ]

\* Mutant: the confirm screen of the wallet opens where it was left.
LeadsToLast ==
    CASE menu.screen = "root" /\ Highlighted = "HTTP Key" -> <<"key", 0>>
      [] menu.screen = "key" /\ Highlighted = "New key" -> <<"newkey", 0>>
      [] menu.screen = "wallet" /\ Highlighted = "Regen" -> <<"regen", 1>>
      [] OTHER -> IF menu.screen \in DOMAIN Lead /\ Highlighted \in DOMAIN Lead[menu.screen]
                  THEN Lead[menu.screen][Highlighted] ELSE <<>>

LeadsTo ==
    CASE menu.screen = "root" /\ Highlighted = "HTTP Key" -> <<"key", 0>>
      [] menu.screen = "key" /\ Highlighted = "New key" -> <<"newkey", 0>>
      [] OTHER -> IF menu.screen \in DOMAIN Lead /\ Highlighted \in DOMAIN Lead[menu.screen]
                  THEN Lead[menu.screen][Highlighted] ELSE <<>>

OnActivate ==
    /\ Take("activate") /\ menu.nonce < MaxSessions
    /\ Push([active |-> TRUE, screen |-> "root", cursor |-> 0, nonce |-> menu.nonce + 1], "none")
    /\ moved' = FALSE
    /\ UNCHANGED <<shown, losses>>

Ignored ==
    /\ ~menu.active
    /\ Take("left") \/ Take("right")
    /\ destroyed' = "none"
    /\ UNCHANGED <<menu, armed, shown, down, losses, moved>>

\* Mutant: the page of the balance is left without drawing the menu.
LeavePageUndrawn ==
    /\ menu.active /\ menu.screen \in {"address", "balance"}
    /\ Take("left") \/ Take("right")
    /\ IF menu.screen = "balance"
       THEN /\ menu' = [menu EXCEPT !.screen = "wallet", !.cursor = 1]
            /\ moved' = FALSE /\ destroyed' = "none" /\ UNCHANGED <<armed, down>>
       ELSE Enter("wallet", 0, "none")
    /\ UNCHANGED <<shown, losses>>

\* Either button leaves a page that has no list.
LeavePage ==
    /\ menu.active /\ menu.screen \in {"address", "balance"}
    /\ Take("left") \/ Take("right")
    /\ Enter("wallet", IF menu.screen = "balance" THEN 1 ELSE 0, "none")
    /\ UNCHANGED <<shown, losses>>

OnList == menu.active /\ menu.screen \notin {"address", "balance"}

OnLeft ==
    /\ OnList /\ Take("left")
    /\ Push([menu EXCEPT !.cursor = (@ + 1) % screen_item_count(menu.screen)], "none")
    /\ moved' = TRUE
    /\ UNCHANGED <<shown, losses>>

SelectScreen ==
    /\ OnList /\ Take("right")
    /\ LeadsTo # <<>> /\ Enter(LeadsTo[1], LeadsTo[2], "none")
    /\ UNCHANGED <<shown, losses>>

\* "Debug" and the root's "Back".
SelectExit ==
    /\ OnList /\ Take("right")
    /\ menu.screen = "root" /\ Highlighted \in {"Debug", "Back"}
    /\ menu' = [menu EXCEPT !.active = FALSE]
    /\ down' = Append(down, SET_SCREEN)
    /\ moved' = FALSE /\ destroyed' = "none"
    /\ UNCHANGED <<armed, shown, losses>>

\* The chip restarts: presses not yet read are gone, the hello clears the OLED.
Restart ==
    /\ menu' = [Closed EXCEPT !.nonce = menu.nonce]
    /\ armed' = 0 /\ up' = <<>> /\ moved' = FALSE
    /\ down' = Append(Append(down, Prompt(menu.nonce, WAIT)), SET_SCREEN)

\* backend_mode_request_switch restarts into the chosen mode, or in place.
SelectMode ==
    /\ OnList /\ Arrived("right")
    /\ menu.screen = "mode" /\ Highlighted # "Back"
    /\ Restart
    /\ destroyed' = "none"
    /\ UNCHANGED <<shown, losses>>

Wipe ==
    /\ OnList /\ Arrived("right")
    /\ menu.screen = "reset" /\ Highlighted = "Wipe"
    /\ Restart
    /\ destroyed' = "all"
    /\ UNCHANGED <<shown, losses>>

RegenWallet ==
    /\ OnList /\ Arrived("right")
    /\ menu.screen = "regen" /\ Highlighted = "Regen"
    /\ \/ Restart /\ destroyed' = "wallet"
       \/ /\ up' = Tail(up)
          /\ down' = down \o <<Prompt(menu.nonce, WAIT), Prompt(menu.nonce, FAILED),
                               Prompt(menu.nonce, Text(menu.screen, menu.cursor))>>
          /\ destroyed' = "none"
          /\ UNCHANGED <<menu, armed, moved>>
    /\ UNCHANGED <<shown, losses>>

\* http_cfg_regenerate_secret may fail; the key page is shown either way.
RegenKey ==
    /\ OnList /\ Take("right")
    /\ menu.screen = "newkey" /\ Highlighted = "Regen"
    /\ \E what \in {"key", "none"} : Enter("key", 0, what)
    /\ UNCHANGED <<shown, losses>>

\* A result closes the menu, unless wups_link.c takes it for the claim's.
OnTimeout ==
    /\ Take("timeout")
    /\ IF armed = Head(up).nonce
       THEN armed' = 0 /\ UNCHANGED menu
       ELSE /\ menu' = IF menu.nonce = Head(up).nonce
                       THEN [menu EXCEPT !.active = FALSE] ELSE menu
            /\ UNCHANGED armed
    /\ destroyed' = "none"
    /\ UNCHANGED <<shown, down, losses, moved>>

(***************************************************************************)
(* The RP2040 and the person                                               *)
(***************************************************************************)
OnFrame ==
    /\ down # <<>> /\ down' = Tail(down)
    /\ shown' = IF Head(down).kind = "prompt"
                THEN [nonce |-> Head(down).nonce, text |-> Head(down).text]
                ELSE Dark
    /\ destroyed' = "none"
    /\ UNCHANGED <<menu, armed, up, losses, moved>>

Presses ==
    /\ shown # Dark /\ Len(up) < MaxPresses
    /\ \E b \in {"left", "right"} : up' = Append(up, Press(b))
    /\ destroyed' = "none"
    /\ UNCHANGED <<menu, armed, shown, down, losses, moved>>

\* On the dashboard the person opens the menu; one request at a time.
Activates ==
    /\ shown = Dark /\ Len(up) < MaxPresses /\ menu.nonce < MaxSessions
    /\ \A i \in 1..Len(up) : up[i].kind # "activate"
    /\ up' = Append(up, Press("activate"))
    /\ destroyed' = "none"
    /\ UNCHANGED <<menu, armed, shown, down, losses, moved>>

\* CONFIRM_TIMEOUT_MS after the last prompt.
TimesOut ==
    /\ shown # Dark /\ up = <<>> /\ down = <<>>
    /\ shown' = Dark
    /\ up' = <<Timeout(shown.nonce)>>
    /\ destroyed' = "none"
    /\ UNCHANGED <<menu, armed, down, losses, moved>>

FrameLost ==
    /\ losses < MaxLosses /\ losses' = losses + 1
    /\ \/ up # <<>> /\ up' = Tail(up) /\ UNCHANGED down
       \/ down # <<>> /\ down' = Tail(down) /\ UNCHANGED up
    /\ destroyed' = "none"
    /\ UNCHANGED <<menu, armed, shown, moved>>

Next ==
    \/ OnActivate \/ Ignored \/ LeavePage \/ OnLeft
    \/ SelectScreen \/ SelectExit \/ SelectMode
    \/ Wipe \/ RegenWallet \/ RegenKey \/ OnTimeout
    \/ OnFrame \/ Presses \/ Activates \/ TimesOut \/ FrameLost

Spec == Init /\ [][Next]_vars

(***************************************************************************)
(* Properties                                                              *)
(***************************************************************************)
\* The types; the cursor is always on an entry of the screen it is on.
TypeOK ==
    /\ menu.active \in BOOLEAN /\ menu.screen \in Screens /\ menu.nonce \in 0..MaxSessions
    /\ menu.cursor \in 0..(screen_item_count(menu.screen) - 1)
    /\ armed \in 0..MaxSessions /\ shown.nonce \in 0..MaxSessions
    /\ moved \in BOOLEAN /\ destroyed \in {"none", "all", "wallet", "key", "unread key"}

\* oled_menu.c:213 a confirm screen "drilled into by accident doesn't wipe the
\* device with one further press": whatever is lost or pressed ahead of the
\* display, the settings, the wallet and the key are destroyed only from their
\* confirm screen and after LEFT was applied there.  The exception is a key that
\* cannot be read when its page is drawn: it counts as absent, and another is
\* made (http_cfg.c:150).
DestroyedDeliberately ==
    [][/\ destroyed' \notin {"none", "unread key"} => menu.screen \in ConfirmScreens /\ moved
       /\ destroyed' = "unread key" => menu'.screen = "key"]_vars

\* Once the frames have arrived and none was lost, the OLED shows the screen
\* and the cursor the ESP32 will apply the next press to, or nothing; or it says
\* that the key could not be had (oled_menu.c:187), and then "Back" is marked
\* also where RIGHT opens the screen for a new key.
DisplayInStep ==
    /\ up = <<>> /\ down = <<>> /\ losses = 0
    /\ menu.active /\ shown # Dark
    => shown.nonce = menu.nonce /\ shown.text \in render_screen(menu.screen, menu.cursor)

\* oled_menu.c:412 leaving the reset's confirm screen is meant to "land on
\* "Reset" so retry is easy".
BackLandsOnReset ==
    [][menu.active /\ menu'.active /\ menu.screen = "reset" /\ menu'.screen = "root"
       /\ menu'.nonce = menu.nonce
       => Items["root"][menu'.cursor + 1] = "Reset"]_vars
=============================================================================
