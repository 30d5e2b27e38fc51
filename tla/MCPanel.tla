-------------------------------- MODULE MCPanel -------------------------------
\* The person at the device, what they see and hear, and what the processors do
\* about a link or a port gone silent, one part per behaviour: the RP2040's
\* panel when the display changes hands and when settings are changed
\* (PanelInput), the owner's confirmation (TrustAnchor), the ESP32's menu
\* (OledMenu), the alert banner (Banner), the alarms about the CH32X (UpsAlarm),
\* the ESP32's receive watchdog (RxWatchdog) and the switch of the backend
\* (BackendMode).
EXTENDS PanelInput

CONSTANTS
    Wallets, Nobody, TRUST_CONFIRM, RELEASE_GRACE, CONFIRM_TIMEOUT, DISPLAY_TTL, TRUST_WAIT, MaxNonce, MaxTroubles,
    Cap,                                                                                    \* TrustAnchor
    MaxSessions, MaxLosses, MaxPresses, MaxPrompts,                                         \* OledMenu
    StaleTtl, Cooldown, InfoTtl, MaxLost,                                                   \* Banner
    StaleAfter, Grace, ReinitAfter, ReinitRetry, RebootAfter, BadPasses, UplinkEvery, Reminder,
    Horizon,                                                                                \* UpsAlarm
    Idle, RebootCycle, MaxTransfers,                                                        \* RxWatchdog
    MaxBoots, MaxErrors                                                                     \* BackendMode

VARIABLES part,
    claim, waited, prompt, receiver, tmenu, rp, grip, stalled, tdown, tup, owner, fresh, troubles,
    watching, slack, covered, agreed, watched,                                \* TrustAnchor
    emenu, armed, eshown, eup, edown, losses, moved, destroyed,               \* OledMenu
    fault, active, text, beeped, asserted, dismissed, dismissedAge, note, noteAge, chirp, drawn, hidden,
    lost, heard, alarms, chirps, said, excused, now,                          \* Banner
    input, alive, wedge, busy, ui, last, uptime, stale, since, reinit, beep, bad, prev, played, told, toldAge,
    screen, unread, reboots, early, behind, outage,                           \* UpsAlarm
    peer, line, ota, sinceRef, sincePing, pings, cycles, garbage, worked, pongDue, silence, reinstalls,
    transfers,                                                                \* RxWatchdog
    nvs, mode, sw, hb, receipt, accepted, done, boots, errors, was, named, sent   \* BackendMode
trustvars == <<claim, waited, prompt, receiver, tmenu, rp, grip, stalled, tdown, tup, owner, fresh,
               troubles, watching, slack, covered, agreed, watched>>
menuvars == <<emenu, armed, eshown, eup, edown, losses, moved, destroyed>>
bannervars == <<fault, active, text, beeped, asserted, dismissed, dismissedAge, note, noteAge, chirp, drawn,
                hidden, lost, heard, alarms, chirps, said, excused, now>>
upsvars == <<input, alive, wedge, busy, ui, last, uptime, stale, since, reinit, beep, bad, prev, played, told,
             toldAge, screen, unread, reboots, early, behind, outage>>
rxvars == <<peer, line, ota, sinceRef, sincePing, pings, cycles, garbage, worked, pongDue, silence, reinstalls,
            transfers>>
modevars == <<nvs, mode, sw, hb, receipt, accepted, done, boots, errors, was, named, sent>>

Trust == INSTANCE TrustAnchor WITH
    Owners <- Wallets, None <- Nobody, MaxFaults <- MaxTroubles,
    trust <- prompt, rx <- receiver, menu <- tmenu, down <- tdown, up <- tup, faults <- troubles
Esp == INSTANCE OledMenu WITH
    MaxFrames <- MaxPrompts, menu <- emenu, shown <- eshown, up <- eup, down <- edown
Ban == INSTANCE Banner WITH told <- said
Ups == INSTANCE UpsAlarm WITH silence <- unread
Rx == INSTANCE RxWatchdog
Mode == INSTANCE BackendMode WITH told <- named
ASSUME TrustConstants == Trust!TrustAnchorConstants
ASSUME EspMenuConstants == Esp!OledMenuConstants
ASSUME BanConstants == Ban!BannerConstants
ASSUME UpsConstants == Ups!UpsAlarmConstants
ASSUME RxConstants == Rx!RxWatchdogConstants
ASSUME ModeConstants == Mode!BackendModeConstants

MCInit == /\ Init /\ Trust!Init /\ Esp!Init /\ Ban!Init /\ Ups!Init /\ Rx!Init /\ Mode!Init
          /\ part # "settings" => set = Default
          /\ part # "rx" => peer = "alive" /\ line = "ok"

\* The display changes hands, with the settings left alone; and the settings
\* are changed, with nobody else wanting the display.
Undisturbed == scr' = 0 /\ ~trust'.init /\ alert' = Quiet /\ info' = Quiet /\ ~fw' /\ ~pending'

reports == <<bannervars, upsvars, rxvars, modevars>>
MCNext ==
    /\ UNCHANGED part
    /\ \/ part = "takeover" /\ Next /\ set' = set /\ UNCHANGED <<trustvars, menuvars, reports>>
       \/ part = "settings" /\ Next /\ Undisturbed /\ UNCHANGED <<trustvars, menuvars, reports>>
       \/ part = "trust" /\ Trust!Next /\ UNCHANGED <<vars, menuvars, reports>>
       \/ part = "menu" /\ Esp!Next /\ UNCHANGED <<vars, trustvars, reports>>
       \/ /\ UNCHANGED <<vars, trustvars, menuvars>>
          /\ \/ part = "banner" /\ Ban!Next /\ UNCHANGED <<upsvars, rxvars, modevars>>
             \/ part = "ups" /\ Ups!Next /\ UNCHANGED <<bannervars, rxvars, modevars>>
             \/ part = "rx" /\ Rx!Next /\ UNCHANGED <<bannervars, upsvars, modevars>>
             \/ part = "mode" /\ Mode!Next /\ UNCHANGED <<bannervars, upsvars, rxvars>>

\* The fairness of the modules, in their behaviours.
PanelFair ==
    /\ WF_vars(part = "takeover" /\ Pass) /\ WF_vars(part = "takeover" /\ \E b \in Buttons : Release(b))
    /\ SF_vars(part = "takeover" /\ LetsGo) /\ SF_vars(part = "takeover" /\ DashPass /\ (pending => ~pending'))
    /\ WF_vars(part = "takeover" /\ fw_end)
BannerFair == /\ WF_bannervars(part = "banner" /\ Ban!Tick) /\ WF_bannervars(part = "banner" /\ Ban!Draw)
              /\ SF_bannervars(part = "banner" /\ Ban!Draw /\ ~hidden)
UpsFair == WF_upsvars(part = "ups" /\ Ups!Pass)
RxFair == /\ WF_rxvars(part = "rx" /\ Rx!Tick) /\ WF_rxvars(part = "rx" /\ Rx!Ping)
          /\ WF_rxvars(part = "rx" /\ Rx!Recover) /\ WF_rxvars(part = "rx" /\ Rx!FrameForUs)
          /\ WF_rxvars(part = "rx" /\ Rx!OtherBytes) /\ WF_rxvars(part = "rx" /\ Rx!TransferEnds)
ModeFair == /\ WF_modevars(part = "mode" /\ Mode!Heartbeat) /\ WF_modevars(part = "mode" /\ Mode!Dropped)
            /\ SF_modevars(part = "mode" /\ Mode!Admitted)
            /\ SF_modevars(part = "mode" /\ Mode!Pending /\ Mode!Submit /\ receipt' # receipt)
all == <<part, vars, trustvars, menuvars, reports>>
PanelInit == part \in {"takeover", "settings", "trust"} /\ MCInit
ReportInit == part \in {"menu", "banner", "ups", "rx", "mode"} /\ MCInit
PanelSpec == PanelInit /\ [][MCNext]_all /\ PanelFair
ReportSpec == ReportInit /\ [][MCNext]_all /\ BannerFair /\ UpsFair /\ RxFair /\ ModeFair

\* No owner is bound whom the person at the device did not agree to
\* (TrustAnchor).
BoundByConfirmation == Trust!BoundByConfirmation

\* What the OLED shows is what the next press is applied to, unless it says that
\* the key could not be had (OledMenu).
DisplayInStep == Esp!DisplayInStep

\* The settings, the wallet and the key are destroyed on purpose, but for a key
\* that cannot be read (OledMenu).
DestroyedDeliberately == Esp!DestroyedDeliberately

\* What the owner is told is true: the banner, which is heard once (Banner),
\* readings that are not frozen and outages that are sounded (UpsAlarm), and
\* the confirmation of a switch, sent once and given up only when no marker is
\* left (BackendMode).
ReportsTrue == /\ Ban!BannerSound /\ Ups!UpsSound
               /\ Mode!AdmittedOnce /\ Mode!DoneMeansCleared

\* The ESP32 restarts for its receive path, and tears its driver down, only
\* after what is cheaper (RxWatchdog).
RestartIsLastResort == Rx!RestartIsLastResort /\ Rx!QuietPeerSpared

\* Nothing stays stuck: a banner goes with its fault (Banner), a deaf port
\* hears again if the display keeps being let go (UpsAlarm), a broken receive path is healed (RxWatchdog), and a
\* new mode is confirmed unless it is switched again (BackendMode; asked of the
\* last boot, which no restart excuses).
Stuck == \/ part = "banner" /\ active /\ fault = Ban!None
         \/ part = "ups" /\ wedge # "sound" /\ last # Ups!Never
         \/ part = "rx" /\ line # "ok" /\ (worked \/ line # "dead")
         \/ part = "mode" /\ mode = "mqtt" /\ boots = MaxBoots /\ nvs.prev \in Mode!Modes \ {mode}
Well == \/ part = "banner" /\ (~active \/ fault # Ban!None)
        \/ part = "ups" /\ wedge = "sound"
        \/ part = "rx" /\ (line = "ok" \/ peer # "alive")
        \/ part = "mode" /\ (sw.pc # "idle" \/ sent > 0)
LetGo == part = "ups" => []<><<Ups!Pass /\ ~busy>>_upsvars
=============================================================================
