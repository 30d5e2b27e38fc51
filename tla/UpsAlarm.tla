------------------------------ MODULE UpsAlarm ------------------------------
(***************************************************************************)
(* The RP2040 and the readings of the CH32X (main.cpp): when they count as *)
(* stale, the ladder that heals a deaf serial port, the alarms derived     *)
(* from them and the throttle of what goes up to the cloud.  A step is one *)
(* unit of time (five seconds); the readings of the unit come first, the   *)
(* dashboard's pass last, unless a menu, a prompt, an update or a button   *)
(* that is held down (`busy') keeps the pass from being reached.           *)
(***************************************************************************)
EXTENDS Integers

CONSTANTS StaleAfter,    \* UPS_STALE_MS
          Grace,         \* UPS_STALE_BOOT_GRACE_MS
          ReinitAfter, ReinitRetry, RebootAfter,   \* UPS_RX_REINIT_AFTER_MS, _RETRY_MS, 30 s
          BadPasses,     \* BAD_PSU_DEBOUNCE_PASSES
          UplinkEvery,   \* TELEMETRY_UPLINK_INTERVAL_MS
          Reminder,      \* UPS_STALE_REMINDER_MS
          Horizon        \* where counters of time stop

UpsAlarmConstants ==
    /\ {StaleAfter, Grace, ReinitAfter, ReinitRetry, RebootAfter, BadPasses, Reminder} \subseteq Nat
    /\ {Horizon, UplinkEvery} \subseteq Nat \ {0}
    /\ StaleAfter <= Grace

Never == -1
Inputs == {"off", "low", "good"}          \* no mains, a supply that cannot do, mains
Present(v) == v # "off"                   \* ui.pg
Add(t) == IF t \in {Never, Horizon} THEN t ELSE t + 1

VARIABLES input,   \* what the input really is
          alive,   \* the CH32X sends
          wedge,   \* the port: sound, or deaf until re-initialised or until a reboot
          busy,    \* somebody else has the display
          ui,      \* the last reading
          last,    \* units since it, in this boot
          uptime,
          stale, since, reinit, beep, \* upsStaleActive, and units since it rose, since a re-initialisation, a sound
          bad,     \* badChargerDebounce
          prev, played,               \* previousPowerGood, powerLossAlertPlayed
          told, toldAge,              \* what the cloud was told last, and when
          screen,  \* what the last pass drew
          silence, reboots,           \* history: units without a reading, and reboots in them
          early,   \* history: there was a reboot before its time
          behind,  \* history: a reading came while upsStaleActive stood, behind a menu or a prompt
          outage   \* history: the outage on record: none, owed an alarm, sounded, twice
world == <<input, alive, wedge, busy>>
panel == <<ui, last, uptime, stale, since, reinit, beep, bad, prev, played, told, toldAge, screen>>
history == <<silence, reboots, early, behind, outage>>
vars == <<world, panel, history>>

Init == /\ input = "good" /\ alive = TRUE /\ wedge = "sound" /\ busy = FALSE
        /\ ui = "off" /\ last = Never /\ uptime = 0 /\ stale = FALSE /\ since = 0 /\ reinit = Never /\ beep = Never
        /\ bad = 0 /\ prev = FALSE /\ played = FALSE /\ told = "nothing" /\ toldAge = 0 /\ screen = "splash"
        /\ silence = 0 /\ reboots = 0 /\ early = FALSE /\ behind = FALSE /\ outage = "none"

-----------------------------------------------------------------------------
\* The unit's readings, as the pass at its end finds them.
Heard == alive /\ wedge = "sound"
Ui == IF Heard THEN input ELSE ui
Last == IF Heard THEN 0 ELSE Add(last)
Uptime == Add(uptime)

\* They are told to the cloud when the input changed or the last report is old.
Publish == Heard /\ (told = "nothing" \/ Present(told) # Present(input) \/ toldAge >= UplinkEvery - 1)
Reading ==
    /\ ui' = Ui /\ last' = Last /\ uptime' = Uptime
    /\ told' = (IF Publish THEN input ELSE told) /\ toldAge' = (IF Publish THEN 0 ELSE Add(toldAge))
    /\ silence' = (IF Heard THEN 0 ELSE Add(silence)) /\ reboots' = (IF Heard THEN 0 ELSE reboots)

\* Stale: no reading for long, or none at all since the start.  The ladder:
\* the port is re-initialised, again and again, then the RP2040 starts anew,
\* but not for a CH32X it has never heard.
Stale == IF Last = Never THEN Uptime > Grace ELSE Last > StaleAfter
Since == IF ~Stale \/ ~stale THEN 0 ELSE Add(since)
Reinit == IF ~Stale \/ ~stale THEN Never ELSE Add(reinit)
ReinitDue == Stale /\ Since >= ReinitAfter /\ (Reinit = Never \/ Reinit >= ReinitRetry)
RebootDue == Stale /\ Last # Never /\ Since >= RebootAfter
Ladder == /\ stale' = Stale /\ since' = Since
          /\ reinit' = IF ReinitDue THEN 0 ELSE Reinit
          /\ wedge' = IF ReinitDue /\ wedge = "soft" THEN "sound" ELSE wedge

\* What is drawn; the sound of the stale alarm comes at once, then at times.
Bad == IF Ui # "low" THEN 0 ELSE IF bad < BadPasses THEN bad + 1 ELSE bad
Beep == IF ~Stale THEN Never ELSE IF ~stale \/ beep >= Reminder THEN 0 ELSE Add(beep)
Draws == /\ bad' = Bad /\ beep' = Beep
         /\ screen' = IF Stale THEN "stale" ELSE IF Bad >= BadPasses THEN "bad" ELSE "data"

\* The loss of mains is sounded on its edge.
LossAlarmLevel == ~Present(Ui) /\ ~played
LossAlarm == prev /\ ~Present(Ui) /\ ~played
Mains == /\ played' = (~Present(Ui) /\ (played \/ LossAlarm))
         /\ prev' = Present(Ui)

\* History: an outage is on record once it is read after a pass that saw mains.
Record(rings) ==
    LET now == IF Present(Ui) THEN "none" ELSE IF Present(ui) /\ prev THEN "owed" ELSE outage IN
    outage' = IF ~rings THEN now ELSE IF now = "owed" THEN "sounded" ELSE "twice"

\* One pass: kept from the dashboard, still stabilising, drawn, or the last.
Kept == /\ busy /\ Reading /\ Record(FALSE) /\ screen' = "other"
        /\ since' = Add(since) /\ reinit' = Add(reinit) /\ beep' = Add(beep)
        /\ behind' = (behind \/ (stale /\ Heard))
        /\ UNCHANGED <<world, stale, bad, prev, played, early>>
Stabilises == /\ ~busy /\ uptime = 0 /\ Reading /\ Record(FALSE) /\ prev' = Present(Ui)
              /\ UNCHANGED <<world, stale, since, reinit, beep, bad, played, screen, early, behind>>
Dashboard == /\ ~busy /\ uptime > 0 /\ ~RebootDue /\ Reading /\ Record(LossAlarm) /\ Ladder /\ Draws /\ Mains
             /\ behind' = (behind /\ Stale)
             /\ UNCHANGED <<input, alive, busy, early>>
Reboot == /\ ~busy /\ uptime > 0 /\ RebootDue
          /\ ui' = "off" /\ last' = Never /\ uptime' = 0 /\ stale' = FALSE /\ since' = 0 /\ reinit' = Never
          /\ beep' = Never /\ bad' = 0 /\ prev' = FALSE /\ played' = FALSE /\ told' = "nothing" /\ toldAge' = 0
          /\ screen' = "splash" /\ wedge' = "sound" /\ UNCHANGED <<input, alive, busy>>
          /\ silence' = Add(silence) /\ reboots' = (IF reboots = 2 THEN 2 ELSE reboots + 1)
          /\ early' = (early \/ silence' <= IF behind THEN StaleAfter ELSE RebootAfter - 1)
          /\ behind' = FALSE /\ outage' = "none"
Pass == Kept \/ Stabilises \/ Dashboard \/ Reboot

\* The world (external): the input, the CH32X, the port; and the user.
InputChanges == input' \in Inputs \ {input} /\ UNCHANGED <<alive, wedge, busy, panel, history>>
Ch32xStops == alive' = ~alive /\ UNCHANGED <<input, wedge, busy, panel, history>>
Deafens == wedge = "sound" /\ wedge' \in {"soft", "deep"} /\ UNCHANGED <<input, alive, busy, panel, history>>
Takes == busy' = ~busy /\ UNCHANGED <<input, alive, wedge, panel, history>>

Next == Pass \/ InputChanges \/ Ch32xStops \/ Deafens \/ Takes
\* loop() goes round; nothing says that the display is ever let go.
Spec == Init /\ [][Next]_vars /\ WF_vars(Pass)

-----------------------------------------------------------------------------
TypeOK == /\ {input, ui} \subseteq Inputs /\ told \in Inputs \cup {"nothing"} /\ {last, reinit, beep} \subseteq Never..Horizon
          /\ {uptime, since, toldAge, silence} \subseteq 0..Horizon /\ bad \in 0..BadPasses
          /\ {alive, busy, stale, prev, played, early, behind} \subseteq BOOLEAN /\ wedge \in {"sound", "soft", "deep"}
          /\ screen \in {"splash", "other", "stale", "bad", "data"} /\ reboots \in 0..2
          /\ outage \in {"none", "owed", "sounded", "twice"}

\* Frozen readings are never shown, nor an alarm made of them: they are at most
\* StaleAfter old or the RP2040 has just started, and the stale alarm itself is
\* only shown, and heard again at its interval, when there are none.
NeverFrozen ==
    /\ screen \in {"data", "bad"} => silence <= StaleAfter \/ (last = Never /\ uptime <= Grace)
    /\ screen = "stale" => silence > StaleAfter /\ beep \in 0..Reminder

\* The RP2040 restarts itself once for a port gone deaf and never again before
\* it has heard the CH32X, and only after RebootAfter without a reading, with
\* one exception: when the stream came back and stopped again behind a menu or
\* a prompt, no pass saw it come (main.cpp:2249), upsStaleSinceMs is that of the
\* silence before, and the restart comes as soon as the readings are stale.
RebootsJustified == reboots <= 1 /\ ~early

\* When the dashboard is drawn, an outage read since mains was last seen has
\* been sounded, once; a supply that cannot do is not taken for an outage.
OutageSounded == /\ outage # "twice"
                 /\ screen \in {"data", "bad", "stale"} => outage # "owed"

\* The cloud knows whether there is mains as soon as the RP2040 does.
CloudTold == last = 0 => Present(told) = Present(ui) /\ toldAge < UplinkEvery

UpsSound == TypeOK /\ NeverFrozen /\ RebootsJustified /\ OutageSounded /\ CloudTold

\* A port gone deaf hears again, by a re-initialisation or by a restart, once
\* the RP2040 has heard the CH32X in this boot, if the display keeps being let
\* go: the ladder is climbed by the dashboard's pass, which a prompt renewed for
\* ever (an unclaimed device shows its claim code again every 60 s, for 90 s)
\* never lets run.
LetGo == []<><<Pass /\ ~busy>>_vars
PortHeals == LetGo => (wedge # "sound" /\ last # Never ~> wedge = "sound")
=============================================================================
