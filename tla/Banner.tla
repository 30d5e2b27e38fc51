------------------------------- MODULE Banner -------------------------------
(***************************************************************************)
(* The two message layers of the RP2040's panel (ui.display_msg and the    *)
(* drawing of loop() in main.cpp): the modem banner, which only the ESP32  *)
(* raises and clears with frames that are not acknowledged, and the        *)
(* operator's notice.  A banner can be dismissed for a time, runs out when *)
(* it is not raised again, and makes a sound when it appears.              *)
(***************************************************************************)
EXTENDS Integers

CONSTANTS StaleTtl,      \* ALERT_STALE_TTL_MS, in units of time
          Cooldown,      \* ALERT_DISMISS_COOLDOWN_MS
          InfoTtl,       \* INFO_TTL_MS
          MaxLost        \* frames of the ESP32 that get lost

BannerConstants == {StaleTtl, Cooldown, InfoTtl, MaxLost} \subseteq Nat

None == ""
FwUpdate == "FW UPDATE"
Faults == {"SIM ERROR", "NO NETWORK", FwUpdate}

VARIABLES fault,     \* what the ESP32 has to say
          active, text, beeped, asserted,    \* netAlertActive, netAlertText, netAlertBeeped, units since the last raise
          dismissed, dismissedAge,           \* netAlertDismissedText, units since then
          note, noteAge, chirp,              \* infoText, units since it was raised, infoChirpPending
          drawn,     \* what the last pass drew
          hidden,    \* a screen of higher priority: NO UPS, BAD PSU, a menu
          lost,
          heard,     \* history: the error sound has been heard for the banner
          alarms,    \* history: error sounds for it
          chirps,    \* history: chirps for the notice
          told,      \* history: the last frame of the ESP32 that arrived
          excused,   \* history: what it says need not be shown: it ran out, or was dismissed a while ago
          now        \* history: the last step was a drawing pass
banner == <<active, text, beeped, asserted, dismissed, dismissedAge>>
notice == <<note, noteAge, chirp, chirps>>
sounds == <<heard, alarms>>
vars == <<fault, banner, notice, sounds, drawn, hidden, lost, told, excused, now>>

Init == /\ fault = None /\ active = FALSE /\ text = None /\ beeped = FALSE /\ asserted = 0
        /\ dismissed = None /\ dismissedAge = 0 /\ note = None /\ noteAge = 0 /\ chirp = FALSE /\ drawn = "dash"
        /\ hidden = FALSE /\ lost = 0 /\ heard = FALSE /\ alarms = 0 /\ chirps = 0 /\ told = None
        /\ excused = FALSE /\ now = FALSE

-----------------------------------------------------------------------------
\* ui.display_msg of the ESP32: text or, empty, the end of it.
InCooldown(t) == dismissed # None /\ t = dismissed /\ dismissedAge < Cooldown
Clears == /\ active' = FALSE /\ text' = None /\ dismissed' = None /\ dismissedAge' = 0
          /\ UNCHANGED <<beeped, asserted, heard, alarms>>
RaisesAgain(t) == text' = t /\ active' = TRUE /\ beeped' = (beeped /\ active)
Raises(t) ==
    /\ asserted' = 0
    /\ IF InCooldown(t) THEN UNCHANGED <<active, text, beeped, dismissed, dismissedAge, heard, alarms>>
       ELSE /\ RaisesAgain(t) /\ dismissed' = None /\ dismissedAge' = 0
            /\ IF active THEN UNCHANGED sounds ELSE heard' = FALSE /\ alarms' = 0
Arrives(t) == /\ (IF t = None THEN Clears ELSE Raises(t)) /\ told' = t
              /\ excused' = (excused /\ t = dismissed /\ dismissedAge < Cooldown)

\* The ESP32 says it when something changes, and while it lasts; frames may be
\* lost.
Send(t) == \/ Arrives(t) /\ UNCHANGED lost
           \/ lost < MaxLost /\ lost' = lost + 1 /\ UNCHANGED <<banner, sounds, told, excused>>
Changes == /\ \E f \in Faults \cup {None} : f # fault /\ fault' = f /\ Send(f)
           /\ now' = FALSE /\ UNCHANGED <<notice, drawn, hidden>>
Repeats == /\ fault # None /\ Send(fault) /\ now' = FALSE /\ UNCHANGED <<fault, notice, drawn, hidden>>

\* system.hello of the ESP32.
Hello == /\ active' = FALSE /\ dismissed' = None /\ dismissedAge' = 0
         /\ note' = None /\ noteAge' = 0 /\ chirp' = FALSE /\ chirps' = 0 /\ told' = None /\ fault' = None
         /\ excused' = FALSE /\ now' = FALSE
         /\ UNCHANGED <<text, beeped, asserted, sounds, drawn, hidden, lost>>

\* ui.display_msg of anybody else: the notice; the same text only keeps it.
Notes == {"hi", "ho"}
Note(t) == /\ note' = t /\ noteAge' = 0 /\ chirp' = (t # None /\ (chirp \/ t # note))
           /\ chirps' = IF t # note THEN 0 ELSE chirps
           /\ now' = FALSE /\ UNCHANGED <<fault, banner, sounds, drawn, hidden, lost, told, excused>>

-----------------------------------------------------------------------------
Expired == active /\ asserted >= StaleTtl
Active == active /\ ~Expired
NoteOver == note # None /\ noteAge >= InfoTtl
Noted == note # None /\ ~NoteOver
Sounds == Active /\ ~hidden /\ text # FwUpdate /\ ~beeped
Draw ==
    /\ active' = Active /\ text' = (IF Expired THEN None ELSE text)
    /\ IF dismissed # None /\ dismissedAge >= Cooldown THEN dismissed' = None /\ dismissedAge' = 0
       ELSE UNCHANGED <<dismissed, dismissedAge>>
    /\ note' = (IF NoteOver THEN None ELSE note) /\ noteAge' = (IF NoteOver THEN 0 ELSE noteAge)
    /\ drawn' = IF hidden THEN "above" ELSE IF Active THEN "banner" ELSE IF Noted THEN "note" ELSE "dash"
    /\ beeped' = (beeped \/ Sounds) /\ heard' = (heard \/ Sounds)
    /\ alarms' = IF Sounds /\ alarms < 2 THEN alarms + 1 ELSE alarms
    /\ chirp' = (chirp /\ ~NoteOver /\ drawn' # "note")
    /\ chirps' = IF drawn' = "note" /\ chirp /\ chirps < 2 THEN chirps + 1 ELSE chirps
    /\ excused' = (excused \/ Expired) /\ now' = TRUE /\ UNCHANGED <<fault, asserted, hidden, lost, told>>

\* A press closes what was drawn (who gets the press is in PanelInput).
Dismiss ==
    /\ drawn = "banner" /\ active
    /\ dismissed' = text /\ dismissedAge' = 0 /\ active' = FALSE /\ text' = None /\ drawn' = "dash"
    /\ excused' = TRUE /\ now' = FALSE /\ UNCHANGED <<fault, beeped, asserted, notice, sounds, hidden, lost, told>>
DismissNote ==
    /\ ~(drawn = "banner" /\ active) /\ drawn = "note" /\ note # None
    /\ note' = None /\ noteAge' = 0 /\ chirp' = FALSE /\ drawn' = "dash"
    /\ now' = FALSE /\ UNCHANGED <<fault, banner, sounds, chirps, hidden, lost, told, excused>>

Hides == hidden' = ~hidden /\ now' = FALSE /\ UNCHANGED <<fault, banner, notice, sounds, drawn, lost, told, excused>>

\* A unit of time: long enough for many passes, and for the ESP32 to repeat.
Older(t, limit) == IF t < limit THEN t + 1 ELSE t
Tick == /\ active \/ note # None \/ dismissed # None
        /\ now' = FALSE
        /\ UNCHANGED <<fault, active, text, beeped, dismissed, note, chirp, sounds, chirps, drawn, hidden, lost, told, excused>>
        /\ asserted' = (IF active THEN Older(asserted, StaleTtl) ELSE asserted)
        /\ dismissedAge' = (IF dismissed # None THEN Older(dismissedAge, Cooldown) ELSE 0)
        /\ noteAge' = (IF note # None THEN Older(noteAge, InfoTtl) ELSE 0)

Next == \/ Changes \/ Repeats \/ Hello \/ (\E t \in Notes \cup {None} : Note(t))
        \/ Draw \/ Dismiss \/ DismissNote \/ Hides \/ Tick
\* Time passes, loop() draws, a screen of higher priority goes away at times.
Spec == Init /\ [][Next]_vars /\ WF_vars(Tick) /\ SF_vars(Draw /\ ~hidden) /\ WF_vars(Draw)

-----------------------------------------------------------------------------
TypeOK == /\ {fault, text, dismissed, told} \subseteq Faults \cup {None} /\ note \in Notes \cup {None}
          /\ {active, beeped, chirp, hidden, heard} \subseteq BOOLEAN /\ asserted \in 0..StaleTtl
          /\ dismissedAge \in 0..Cooldown /\ noteAge \in 0..InfoTtl /\ lost \in 0..MaxLost

\* What the banner shows is the last thing the ESP32 was heard to say; it is
\* shown unless it has run out, or has been dismissed and not been raised again
\* after the cooldown; an operator's notice neither raises nor hides it.
BannerTrue ==
    now => /\ drawn = "banner" => text = told
           /\ told # None /\ ~excused /\ ~hidden => drawn = "banner"

\* A banner that is drawn has been heard, once, however often it was raised,
\* hidden and raised again; so has a notice, with a chirp.
HeardOnce == now => /\ drawn = "banner" /\ text # FwUpdate => heard
                    /\ drawn = "note" => chirps = 1
                    /\ alarms <= 1 /\ chirps <= 1

BannerSound == TypeOK /\ BannerTrue /\ HeardOnce

\* A banner goes away when the ESP32 has nothing to say, even if the frame that
\* says so is lost.
BannerGoes == (active /\ fault = None) ~> (~active \/ fault # None)

\* "A real alert that replaces FW UPDATE still gets its error sound."  It does
\* not hold when FW UPDATE itself replaced an alert that had been heard.
SoundAfterUpdate == [][text = FwUpdate /\ active /\ text' \in Faults \ {FwUpdate} /\ active' => ~beeped']_vars
=============================================================================
