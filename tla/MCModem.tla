------------------------------ MODULE MCModem -------------------------------
\* The modem, one part per behaviour: bringing it up and tearing it down, the
\* watchdog over the uplink, and the reading of its replies.
EXTENDS ModemBringup

VARIABLES part,
    reply,    \* the lines the UART has delivered
    ppp, snap, at, mode, svc, ota, busy, age, rec, trips, ok, alarm, why, armed, calm, ill, ticked
upvars == <<ppp, snap, at, mode, svc, ota, busy, age, rec, trips, ok, alarm, why, armed, calm,
            ill, ticked>>

Up == INSTANCE ModemUplink WITH
    pc <- at, alert <- alarm, stage <- why, Modes <- {"MQTT", "HTTP"}, Dead <- 1, Hold <- 2,
    Cache <- 1, Grace <- 1, AlertFails <- 2, IllMax <- 8

MaxLines == 4
Fields == {<<>>, <<0, 8>>, <<1>>, <<38>>, <<1, 3, 20>>, <<1, 20, 3, 3>>, <<1, 3>>, <<2, 0, 0, 0>>,
           <<3, 0, 15, 2>>, <<3, 1, 2, 2>>, <<3, 0>>, <<0, 1, 1, 1, 1, 1>>}
Lines == {[t |-> t, f |-> <<>>] : t \in {"OK", "ERROR", "URC"}} \cup [t: {"KEY"}, f: Fields]

\* modem_uart_baud's exchange and those like it: the lines come in one by one.
Receive == Len(reply) < MaxLines /\ \E l \in Lines : reply' = Append(reply, l)

\* A part that does not run has one initial state; over HTTP only the outage
\* itself happens.
MCInit == /\ part \in {"bringup", "uplink", "reply"} /\ Init /\ Up!Init /\ reply = <<>>
          /\ part # "bringup" =>
                m.pw = "off" /\ m.set = {} /\ m.sleep = {} /\ m.ipr = Cautious /\ target = Valid
          /\ part # "uplink" => mode = "HTTP" /\ calm
          /\ calm \/ mode = "MQTT"

MCNext == /\ UNCHANGED part
          /\ \/ part = "bringup" /\ Next /\ UNCHANGED <<upvars, reply>>
             \/ part = "uplink" /\ Up!Next /\ UNCHANGED <<vars, reply>>
             \/ part = "reply" /\ Receive /\ UNCHANGED <<vars, upvars>>

MCSpec == /\ MCInit /\ [][MCNext]_<<part, reply, vars, upvars>>
          /\ WF_vars(part = "bringup" /\ Supervise) /\ SF_vars(part = "bringup" /\ BootSeen)
          /\ WF_upvars(part = "uplink" /\ Up!Supervise) /\ WF_upvars(part = "uplink" /\ Up!Tick)

\* A call is dialled only with the card's APN and the policies confirmed, an
\* outage nothing else disturbs is shown, and the readers of the policies, the
\* rate and the registration take no value from a reply that they cannot trust
\* in full (DialVerified, ModemUplink's OutageShown, ReplyStrict).
ModemSound == DialVerified /\ Up!OutageShown /\ ReplyStrict(reply)

\* No session is begun on a modem left in CMUX framing, and the watchdog tears
\* down only a session without a healthy backend for as long as it says
\* (FreshCmux, ModemUplink's WatchdogJustified).
WatchdogJustified == FreshCmux /\ Up!WatchdogJustified

\* PPP comes up again and again, whatever failed before, and a lost uplink is
\* acted upon (ModemBringup, ModemUplink).
UplinkRestored == (part = "bringup" => Recovers) /\ Up!LossHandled
=============================================================================
