----------------------------- MODULE TrustAnchor -----------------------------
(***************************************************************************)
(* Binding an owner to the device.  The ESP32's claim task (arkiv_claim.c) *)
(* verifies a claim, has the RP2040 show the owner's fingerprint           *)
(* (trust_ui.cpp) and waits until the person at the device has held both   *)
(* buttons.  The result is matched by nonce in wups_link.c, which the      *)
(* system menu (oled_menu.c) uses for its own screens as well: the claim   *)
(* task runs on one core while the receive task, which handles results and *)
(* runs the menu, is on the other.                                         *)
(*                                                                         *)
(* A tick is one pass of the RP2040's loop; the hold, the two timeouts and *)
(* the wait are scaled to ticks and keep their order.  Frames take less    *)
(* than a tick.  Fetching and verifying a claim takes more.                *)
(***************************************************************************)
EXTENDS Naturals, Sequences

CONSTANTS
    Owners,       \* wallets with a valid claim for this device on the chain
    None,
    TRUST_CONFIRM,     \* TRUST_CONFIRM_SECS, the hold
    RELEASE_GRACE,     \* samples without the buttons that do not end it
    CONFIRM_TIMEOUT,   \* CONFIRM_TIMEOUT_MS
    DISPLAY_TTL,       \* DISPLAY_TTL_MS
    TRUST_WAIT,        \* TRUST_WAIT_MS
    MaxNonce,     \* bound: prompts that carry a nonce of their own
    MaxFaults,    \* bound: lost frames, restarts and stalls
    Cap           \* bound: frames on the line in one direction

TrustAnchorConstants ==
    /\ None \notin Owners
    /\ {TRUST_CONFIRM, DISPLAY_TTL, MaxNonce, Cap} \subseteq Nat \ {0}
    /\ {RELEASE_GRACE, MaxFaults, CONFIRM_TIMEOUT, TRUST_WAIT} \subseteq Nat
    /\ TRUST_CONFIRM < CONFIRM_TIMEOUT /\ CONFIRM_TIMEOUT < TRUST_WAIT /\ DISPLAY_TTL < CONFIRM_TIMEOUT

VARIABLES
    claim,     \* the claim task: where it is, its candidate, its nonce
    waited,    \* ticks in wups_link_trust_wait
    trust,     \* wups_link.c: s_trust_nonce, _result, _armed, _sig
    rx,        \* the receive task: idle, or between two statements
    menu,      \* oled_menu.c: active, whether on the address page, nonce
    rp,        \* trust_ui.cpp: what is on the OLED
    grip,      \* the person holds both buttons
    stalled,   \* a firmware transfer keeps the RP2040 from running trust_ui
    down, up,  \* frames to and from the RP2040
    owner,     \* the owner bound in NVS
    fresh,     \* the next nonce; esp_random is taken not to repeat
    faults,
    watching,  \* history: ticks both buttons have been held on this screen
    slack,     \* history: samples they have been let go since
    covered,   \* history: a transfer's screen has hidden the fingerprint since
    agreed,    \* history: owners the person has agreed to
    watched    \* history: those whose fingerprint was visible all the while
vars == <<claim, waited, trust, rx, menu, rp, grip, stalled, down, up, owner,
          fresh, faults, watching, slack, covered, agreed, watched>>
esp == <<claim, waited, trust, rx, menu, owner, fresh>>
attention == <<watching, slack, covered>>
person == <<grip, attention, agreed, watched>>

CONFIRMED == 0
TIMEOUT == 1
Nonces == 0..(MaxNonce + 1)
Modes == {"fingerprint", "code", "menu", "wallet"}

Prompt(mode, nonce, who) == [kind |-> "prompt", mode |-> mode, nonce |-> nonce, who |-> who]
Result(nonce, result) == [kind |-> "result", nonce |-> nonce, result |-> result]
HELLO == [kind |-> "hello"]
SET_SCREEN == [kind |-> "set_screen"]
ACTIVATE == [kind |-> "activate"]
PRESS == [kind |-> "press"]

NoClaim == [pc |-> "poll", who |-> None, nonce |-> 0]
Disarmed == [nonce |-> 0, result |-> CONFIRMED, armed |-> FALSE, sig |-> FALSE]
MenuClosed == [active |-> FALSE, address |-> FALSE, nonce |-> 0]
Blank == [on |-> FALSE, mode |-> "menu", nonce |-> 0, who |-> None,
          age |-> 0, hold |-> 0, miss |-> 0]

Init ==
    /\ claim = NoClaim /\ waited = 0 /\ trust = Disarmed /\ rx = "idle"
    /\ menu = MenuClosed /\ rp = Blank
    /\ grip = FALSE /\ stalled = FALSE
    /\ down = <<>> /\ up = <<>>
    /\ owner = None /\ fresh = 1 /\ faults = 0
    /\ watching = 0 /\ slack = 0 /\ covered = FALSE /\ agreed = {} /\ watched = {}

(***************************************************************************)
(* The claim task                                                          *)
(***************************************************************************)
Goes(pc) == claim' = [claim EXCEPT !.pc = pc]

\* The claim code, shown at every refresh while no owner is bound.
ShowsCode ==
    /\ claim.pc = "poll" /\ owner = None /\ Len(down) < Cap
    /\ down' = Append(down, Prompt("code", 0, None))
    /\ Goes("query")
    /\ UNCHANGED <<waited, trust, rx, menu, rp, person, stalled, up, owner,
                   fresh, faults>>

Polls ==
    /\ claim.pc = "poll" /\ owner = None
    /\ Goes("query")
    /\ UNCHANGED <<waited, trust, rx, menu, rp, person, stalled, down, up,
                   owner, fresh, faults>>

\* A candidate that passes every check, or none does.
TryCandidate ==
    /\ claim.pc = "answer"
    /\ \/ /\ fresh <= MaxNonce
          /\ \E w \in Owners : claim' = [pc |-> "nonce", who |-> w, nonce |-> fresh]
          /\ fresh' = fresh + 1
       \/ claim' = NoClaim /\ UNCHANGED fresh
    /\ UNCHANGED <<waited, trust, rx, menu, rp, person, stalled, down, up,
                   owner, faults>>

\* wups_link_trust_prompt, one statement after another.
ArmNonce ==
    /\ claim.pc = "nonce"
    /\ trust' = [trust EXCEPT !.nonce = claim.nonce]
    /\ Goes("result")
    /\ UNCHANGED <<waited, rx, menu, rp, person, stalled, down, up, owner,
                   fresh, faults>>

ArmResult ==
    /\ claim.pc = "result"
    /\ trust' = [trust EXCEPT !.result = TIMEOUT]
    /\ Goes("armed")
    /\ UNCHANGED <<waited, rx, menu, rp, person, stalled, down, up, owner,
                   fresh, faults>>

ArmRaise ==
    /\ claim.pc = "armed"
    /\ trust' = [trust EXCEPT !.armed = TRUE]
    /\ Goes("drain")
    /\ UNCHANGED <<waited, rx, menu, rp, person, stalled, down, up, owner,
                   fresh, faults>>

ArmDrain ==
    /\ claim.pc = "drain"
    /\ trust' = [trust EXCEPT !.sig = FALSE]
    /\ Goes("send")
    /\ UNCHANGED <<waited, rx, menu, rp, person, stalled, down, up, owner,
                   fresh, faults>>

SendFingerprint ==
    /\ claim.pc = "send" /\ Len(down) < Cap
    /\ down' = Append(down, Prompt("fingerprint", claim.nonce, claim.who))
    /\ Goes("enter")
    /\ UNCHANGED <<waited, trust, rx, menu, rp, person, stalled, up, owner,
                   fresh, faults>>

\* wups_link_trust_wait: another prompt may have taken the nonce over.
EnterWait ==
    /\ claim.pc = "enter"
    /\ waited' = 0
    /\ IF trust.armed /\ trust.nonce = claim.nonce
       THEN Goes("wait")
       ELSE claim' = NoClaim
    /\ UNCHANGED <<trust, rx, menu, rp, person, stalled, down, up, owner,
                   fresh, faults>>

Woken ==
    /\ claim.pc = "wait" /\ trust.sig
    /\ trust' = [trust EXCEPT !.sig = FALSE]
    /\ Goes("woken")
    /\ UNCHANGED <<waited, rx, menu, rp, person, stalled, down, up, owner,
                   fresh, faults>>

ReadsResult ==
    /\ claim.pc = "woken"
    /\ claim' = IF trust.result = CONFIRMED THEN [claim EXCEPT !.pc = "bind"]
                                            ELSE NoClaim
    /\ UNCHANGED <<waited, trust, rx, menu, rp, person, stalled, down, up,
                   owner, fresh, faults>>

WaitExpires ==
    /\ claim.pc = "wait" /\ waited = TRUST_WAIT /\ ~trust.sig
    /\ Goes("late")
    /\ UNCHANGED <<waited, trust, rx, menu, rp, person, stalled, down, up,
                   owner, fresh, faults>>

GivesUp ==
    /\ claim.pc = "late"
    /\ trust' = [trust EXCEPT !.armed = FALSE]
    /\ claim' = NoClaim
    /\ UNCHANGED <<waited, rx, menu, rp, person, stalled, down, up, owner,
                   fresh, faults>>

\* cmdauth_arkiv_bind_owner may fail to write.
BindOwner ==
    /\ claim.pc = "bind"
    /\ owner' \in {claim.who, owner}
    /\ claim' = NoClaim
    /\ UNCHANGED <<waited, trust, rx, menu, rp, person, stalled, down, up,
                   fresh, faults>>

ClaimTask ==
    \/ ShowsCode \/ Polls \/ TryCandidate
    \/ ArmNonce \/ ArmResult \/ ArmRaise \/ ArmDrain \/ SendFingerprint
    \/ EnterWait \/ Woken \/ ReadsResult \/ WaitExpires \/ GivesUp \/ BindOwner

(***************************************************************************)
(* The receive task: results, and the system menu                          *)
(***************************************************************************)
\* A result for the armed nonce is stored; any other goes to the menu.
OnResult ==
    /\ rx = "idle" /\ up # <<>> /\ Head(up).kind = "result"
    /\ up' = Tail(up)
    /\ LET r == Head(up) IN
       IF trust.armed /\ r.nonce = trust.nonce
       THEN /\ trust' = [trust EXCEPT !.result = r.result]
            /\ rx' = "release"
            /\ UNCHANGED menu
       ELSE /\ menu' = IF menu.active /\ r.nonce = menu.nonce
                       THEN [menu EXCEPT !.active = FALSE] ELSE menu
            /\ UNCHANGED <<trust, rx>>
    /\ UNCHANGED <<claim, waited, rp, person, stalled, down, owner, fresh, faults>>

Release ==
    /\ rx = "release"
    /\ trust' = [trust EXCEPT !.armed = FALSE, !.sig = TRUE]
    /\ rx' = "idle"
    /\ UNCHANGED <<claim, waited, menu, rp, person, stalled, down, up, owner,
                   fresh, faults>>

\* push_screen: the address page is not of mode 2, so wups_link arms for it.
PushScreen(m) ==
    /\ Len(down) < Cap
    /\ menu' = m
    /\ IF m.address
       THEN /\ trust' = [trust EXCEPT !.nonce = m.nonce, !.result = TIMEOUT]
            /\ rx' = "raise"
            /\ UNCHANGED down
       ELSE /\ down' = Append(down, Prompt("menu", m.nonce, None))
            /\ UNCHANGED <<trust, rx>>

Raise ==
    /\ rx = "raise" /\ Len(down) < Cap
    /\ trust' = [trust EXCEPT !.armed = TRUE, !.sig = FALSE]
    /\ down' = Append(down, Prompt("wallet", menu.nonce, None))
    /\ rx' = "idle"
    /\ UNCHANGED <<claim, waited, menu, rp, person, stalled, up, owner, fresh,
                   faults>>

\* The activation gesture closes a menu left open and opens a new one.
OnActivate ==
    /\ rx = "idle" /\ up # <<>> /\ Head(up) = ACTIVATE
    /\ up' = Tail(up)
    /\ fresh' = fresh + 1
    /\ PushScreen([active |-> TRUE, address |-> FALSE, nonce |-> fresh])
    /\ UNCHANGED <<claim, waited, rp, person, stalled, owner, faults>>

\* A press moves about the lists, opens the address page, leaves it, or ends
\* the menu ("Debug", "Back").
OnPress ==
    /\ rx = "idle" /\ up # <<>> /\ Head(up) = PRESS
    /\ up' = Tail(up)
    /\ \/ /\ menu.active
          /\ \E a \in {FALSE, ~menu.address} : PushScreen([menu EXCEPT !.address = a])
       \/ /\ menu.active /\ ~menu.address /\ Len(down) < Cap
          /\ menu' = [menu EXCEPT !.active = FALSE]
          /\ down' = Append(down, SET_SCREEN)
          /\ UNCHANGED <<trust, rx>>
       \/ ~menu.active /\ UNCHANGED <<menu, trust, rx, down>>
    /\ UNCHANGED <<claim, waited, rp, person, stalled, owner, fresh, faults>>

RxTask == OnResult \/ Release \/ Raise \/ OnActivate \/ OnPress

(***************************************************************************)
(* The RP2040 and the person                                               *)
(***************************************************************************)
LooksAgain == watching' = 0 /\ slack' = 0 /\ covered' = FALSE

\* Mutant: a new prompt inherits the hold that was under way.
OnFrameKeepsHold ==
    /\ down # <<>> /\ down' = Tail(down)
    /\ rp' = IF Head(down).kind = "prompt"
             THEN [rp EXCEPT !.on = TRUE, !.mode = Head(down).mode, !.age = 0,
                             !.nonce = Head(down).nonce, !.who = Head(down).who]
             ELSE [rp EXCEPT !.on = FALSE, !.hold = 0, !.miss = 0]
    /\ LooksAgain
    /\ UNCHANGED <<esp, grip, stalled, up, faults, agreed, watched>>

\* trust_ui_on_prompt replaces whatever is shown; set_screen and the ESP32's
\* hello take it down.
OnFrame ==
    /\ down # <<>> /\ down' = Tail(down)
    /\ rp' = IF Head(down).kind = "prompt"
             THEN [Blank EXCEPT !.on = TRUE, !.mode = Head(down).mode,
                                !.nonce = Head(down).nonce, !.who = Head(down).who]
             ELSE [rp EXCEPT !.on = FALSE, !.hold = 0, !.miss = 0]
    /\ LooksAgain
    /\ UNCHANGED <<esp, grip, stalled, up, faults, agreed, watched>>

Grips ==
    /\ grip' = ~grip
    /\ UNCHANGED <<esp, rp, stalled, down, up, faults, attention, agreed, watched>>

\* What a person does who means to agree: holds both buttons, but for bounces,
\* from one pass to another at least TRUST_CONFIRM later with one fingerprint current.
\* "watched" asks in addition that the fingerprint was on the OLED throughout.
Watches ==
    LET current == rp.on /\ rp.mode = "fingerprint"
        held == IF watching > TRUST_CONFIRM THEN watching ELSE watching + 1
        agrees == current /\ ~stalled /\ grip /\ watching' > TRUST_CONFIRM
        goesOn == IF stalled THEN watching > 0
                  ELSE grip \/ (watching > 0 /\ slack < RELEASE_GRACE)
    IN  /\ watching' = IF current /\ goesOn THEN held ELSE 0
        /\ slack' = IF watching' = 0 \/ (grip /\ ~stalled) THEN 0
                    ELSE IF stalled THEN slack ELSE slack + 1
        /\ covered' = (watching' > 0 /\ (covered \/ stalled))
        /\ agreed' = IF agrees THEN agreed \cup {rp.who} ELSE agreed
        /\ watched' = IF agrees /\ ~covered' THEN watched \cup {rp.who} ELSE watched
        /\ UNCHANGED grip

Aged == [rp EXCEPT !.age = @ + 1]
Off == [rp EXCEPT !.on = FALSE]

\* trust_ui_tick in the menu's modes: the timeout, and a press passed on.
MenuTick ==
    \/ /\ rp.age = CONFIRM_TIMEOUT
       /\ up' = <<Result(rp.nonce, TIMEOUT)>> /\ rp' = Off
    \/ /\ rp.age < CONFIRM_TIMEOUT /\ rp' = Aged
       /\ up' \in {<<>>, <<PRESS>>}

CodeTick ==
    /\ rp' = IF rp.age >= DISPLAY_TTL THEN Off ELSE Aged
    /\ up' = <<>>

\* hold is 0, or one more than the ticks since both buttons went down.
FingerprintTick ==
    IF rp.age = CONFIRM_TIMEOUT THEN up' = <<Result(rp.nonce, TIMEOUT)>> /\ rp' = Off
    ELSE IF grip
         THEN IF rp.hold >= TRUST_CONFIRM
              THEN up' = <<Result(rp.nonce, CONFIRMED)>> /\ rp' = Off
              ELSE up' = <<>> /\ rp' = [Aged EXCEPT !.hold = @ + 1, !.miss = 0]
         ELSE /\ up' = <<>>
              /\ rp' = IF rp.hold > 0 /\ rp.miss < RELEASE_GRACE
                       THEN [Aged EXCEPT !.hold = @ + 1, !.miss = @ + 1]
                       ELSE [Aged EXCEPT !.hold = 0, !.miss = 0]

\* The dashboard: the activation gesture is offered while nothing is shown.
IdleTick ==
    /\ rp' = rp
    /\ up' \in {<<>>, <<ACTIVATE>>}
    /\ up' # <<>> => fresh <= MaxNonce

TrustUiTick ==
    IF ~rp.on THEN IdleTick
    ELSE CASE rp.mode \in {"menu", "wallet"} -> MenuTick
           [] rp.mode = "code" -> CodeTick
           [] rp.mode = "fingerprint" -> FingerprintTick

\* During a transfer neither buttons nor timeouts are looked at; time counts.
Stalls ==
    rp' = IF ~rp.on \/ rp.age = CONFIRM_TIMEOUT THEN rp
          ELSE [rp EXCEPT !.age = @ + 1, !.hold = IF @ > 0 THEN @ + 1 ELSE @]

\* A pass of the loop, and the time it takes.
Tick ==
    /\ down = <<>> /\ up = <<>> /\ rx = "idle"
    /\ claim.pc \in {"poll", "query", "wait"}
    /\ claim.pc = "wait" => waited < TRUST_WAIT /\ ~trust.sig
    /\ IF stalled
       THEN Stalls /\ UNCHANGED up
       ELSE TrustUiTick
    /\ waited' = IF claim.pc = "wait" THEN waited + 1 ELSE 0
    /\ IF claim.pc = "query" THEN Goes("answer") ELSE UNCHANGED claim
    /\ Watches
    /\ UNCHANGED <<trust, rx, menu, stalled, down, owner, fresh, faults>>

(***************************************************************************)
(* Faults                                                                  *)
(***************************************************************************)
Fault == faults < MaxFaults /\ faults' = faults + 1

FrameLost ==
    /\ Fault
    /\ \/ down # <<>> /\ down' = Tail(down) /\ UNCHANGED up
       \/ up # <<>> /\ up' = Tail(up) /\ UNCHANGED down
    /\ UNCHANGED <<esp, rp, person, stalled>>

\* RAM is lost, NVS is not; the hello takes the RP2040's screen down.
EspRestarts ==
    /\ Fault /\ Len(down) < Cap
    /\ claim' = NoClaim /\ waited' = 0 /\ trust' = Disarmed /\ rx' = "idle"
    /\ menu' = MenuClosed
    /\ up' = <<>> /\ down' = Append(down, HELLO)
    /\ UNCHANGED <<rp, person, stalled, owner, fresh>>

RpRestarts ==
    /\ Fault
    /\ rp' = Blank /\ stalled' = FALSE /\ down' = <<>>
    /\ LooksAgain
    /\ UNCHANGED <<esp, grip, up, agreed, watched>>

TransferBegins ==
    /\ ~stalled /\ Fault /\ stalled' = TRUE
    /\ UNCHANGED <<esp, rp, person, down, up>>

TransferEnds ==
    /\ stalled /\ stalled' = FALSE
    /\ UNCHANGED <<esp, rp, person, down, up, faults>>

Next ==
    \/ ClaimTask \/ RxTask
    \/ OnFrame \/ Grips \/ Tick
    \/ FrameLost \/ EspRestarts \/ RpRestarts \/ TransferBegins \/ TransferEnds

Spec == Init /\ [][Next]_vars
FairSpec ==
    /\ Spec
    /\ WF_vars(ClaimTask) /\ WF_vars(RxTask) /\ WF_vars(OnFrame)
    /\ SF_vars(Tick) /\ WF_vars(TransferEnds)

(***************************************************************************)
(* Properties                                                              *)
(***************************************************************************)
Claims == [pc : {"poll", "query", "answer", "nonce", "result", "armed", "drain",
                 "send", "enter", "wait", "woken", "late", "bind"},
           who : Owners \cup {None}, nonce : Nonces]
Screens == [on : BOOLEAN, mode : Modes, nonce : Nonces, who : Owners \cup {None},
            age : 0..CONFIRM_TIMEOUT, hold : Nat, miss : 0..RELEASE_GRACE]

\* The types, and the claim task's state while it has a candidate.
TypeOK ==
    /\ claim \in Claims /\ waited \in 0..TRUST_WAIT
    /\ trust \in [nonce : Nonces, result : {CONFIRMED, TIMEOUT}, armed : BOOLEAN, sig : BOOLEAN]
    /\ rx \in {"idle", "release", "raise"}
    /\ menu \in [active : BOOLEAN, address : BOOLEAN, nonce : Nonces]
    /\ rp \in Screens
    /\ grip \in BOOLEAN /\ stalled \in BOOLEAN
    /\ Len(down) <= Cap + 1 /\ Len(up) <= 1
    /\ owner \in Owners \cup {None} /\ fresh \in 1..(MaxNonce + 2)
    /\ watching \in 0..(TRUST_CONFIRM + 1) /\ slack \in 0..RELEASE_GRACE /\ covered \in BOOLEAN
    /\ agreed \subseteq Owners /\ watched \subseteq agreed

\* arkiv_claim.c step 5: an owner is bound only if the person at the device
\* agreed to that owner: both buttons were seen down at both ends of a hold of
\* the whole length, and not seen up between, with that owner's prompt current.
BoundByConfirmation == owner # None => owner \in agreed

\* trust_ui.h:8 the RP2040 "runs the 5 s both-button hold" on the screen it
\* shows: an owner is bound only after a hold with the fingerprint in view.
HoldInView == owner # None => owner \in watched

\* wups_link.c:107 "Only one prompt is ever in flight (single caller)": the
\* nonce that is armed while the claim task waits is the claim task's.
OnePromptInFlight == claim.pc = "wait" /\ trust.armed => trust.nonce = claim.nonce

\* oled_menu.c:39 "if no button event arrives for this long, the menu closes
\* itself": a menu that is left alone is closed in the end.
MenuClosesItself == []<>(~menu.active \/ up = <<PRESS>>)
=============================================================================
