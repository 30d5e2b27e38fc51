---------------------------- MODULE PowerOutput ----------------------------
(***************************************************************************)
(* The output of the UPS: the CH32X switches the rail (VBUS_OUT_EN and the *)
(* TPS55289), negotiates its voltage as a USB-PD source, and obeys enable, *)
(* disable, cycle and reset from the WUPS bus.  PD_Process.c and the parts *)
(* of main.c around it.  One loop does everything; the partner at the port *)
(* sends when it likes, may be unplugged at any moment, and acknowledges   *)
(* what it hears unless the acknowledgement is lost.                       *)
(*                                                                         *)
(* A state's dwell ends at any time after it began.  Current limits follow *)
(* the voltage and are left out; so are the PD revision and the replies    *)
(* that change nothing at either end.                                      *)
(***************************************************************************)
EXTENDS Integers

CONSTANTS
    Debounce,     \* 5: equal samples of CC before PD_Det_Proc believes them
    Ids,          \* 8: MessageIDs
    Asks,         \* the PDO positions a partner may request, 0..7
    MaxCommands,  \* bound: power commands
    MaxPartners,  \* bound: partners plugged in
    MaxMessages,  \* bound: messages from partners
    MaxFaults,    \* bound: lost PD messages and acknowledgements
    MaxGlitches   \* bound: TPS55289 resets and missed I2C writes

ASSUME PowerOutputConstants ==
    /\ {Debounce, Ids} \subseteq Nat \ {0, 1}
    /\ Asks \subseteq 0..7
    /\ {MaxCommands, MaxPartners, MaxMessages, MaxFaults, MaxGlitches} \subseteq Nat

VARIABLES
    pd,        \* PD_Ctl, the pull on CC and DRSwap_Last_MsgID
    rx,        \* PD_Rx_Buf while Msg_Recvd is set
    serving,   \* PD_Main_Proc is between its two switch statements
    rail,      \* VBUS_OUT_EN; the TPS55289's output enable and voltage; the cached setpoint
    cycling,   \* Powercycle_State = POWERCYCLE_OFF_WAIT
    partner,   \* the port partner: its data role and what it believes was agreed
    abrupt,    \* history: one end started afresh and the other was not told: a restart or
               \* a hard reset passed the partner by, the converter let it down, or it was
               \* plugged in after a partner whose unplugging was noted and nothing else
    commands, partners, messages, faults, glitches

vars == <<pd, rx, serving, rail, cycling, partner, abrupt,
          commands, partners, messages, faults, glitches>>

Empty == [type |-> "none", arg |-> 0]
NoId == Ids

PdInit == [st |-> "idle", conn |-> FALSE, det |-> 0, stop |-> FALSE, src |-> TRUE,
           role |-> "dfp", latch |-> NoId, pdo |-> 0]
RailInit == [pa7 |-> FALSE, oe |-> FALSE, volts |-> 5, set |-> 0]
Absent == [cc |-> FALSE, awake |-> FALSE, role |-> "ufp", caps |-> FALSE, asked |-> 0,
           granted |-> FALSE, contract |-> 0, swap |-> FALSE, again |-> FALSE, mid |-> 0]

\* The partner after a hard reset: default roles, no contract.
Fresh == [Absent EXCEPT !.cc = partner.cc, !.awake = partner.awake]

Init ==
    /\ pd = PdInit /\ rx = Empty /\ serving = FALSE
    /\ rail = RailInit /\ cycling = FALSE
    /\ partner = Absent /\ abrupt = FALSE
    /\ commands = 0 /\ partners = 0 /\ messages = 0 /\ faults = 0 /\ glitches = 0

(***************************************************************************)
(* The rail                                                                *)
(***************************************************************************)
On == rail.pa7 /\ rail.oe

Volts(i) == CASE i = 2 -> 9 [] i = 3 -> 12 [] i = 4 -> 15 [] OTHER -> 5

\* The TPS55289 may miss what is written to it; the cached setpoint is changed
\* all the same.
Written(r, registers) ==
    \/ rail' = registers /\ UNCHANGED glitches
    \/ glitches < MaxGlitches /\ glitches' = glitches + 1
       /\ rail' = [registers EXCEPT !.oe = r.oe, !.volts = r.volts]

Program(r, v) == Written(r, [r EXCEPT !.oe = TRUE, !.volts = v, !.set = v])

VBUS_set_5V == Program([rail EXCEPT !.pa7 = TRUE], 5)

VBUS_disable == Written(rail, [rail EXCEPT !.pa7 = FALSE, !.oe = FALSE, !.set = 0])

\* Every two seconds main writes the cached setpoint again.
Reapply ==
    /\ ~serving /\ rail.set # 0
    /\ Program(rail, rail.set)
    /\ UNCHANGED <<pd, rx, serving, cycling, partner, abrupt, commands, partners, messages, faults>>

\* The converter restarts by itself, after a short circuit or an undervoltage.
TpsResets ==
    /\ glitches < MaxGlitches /\ glitches' = glitches + 1
    /\ rail' \in {[rail EXCEPT !.volts = 5], [rail EXCEPT !.volts = 5, !.oe = FALSE]}
    /\ UNCHANGED <<pd, rx, serving, cycling, partner, abrupt, commands, partners, messages, faults>>

(***************************************************************************)
(* Detection                                                               *)
(***************************************************************************)

\* PD_Detect: with its own pull-down on CC the source sees nobody.
PD_Detect == partner.cc /\ pd.src

\* Stop_Det_Chk: the connection is noted and nothing else.  PD_Service follows
\* each sample: the last message of a partner gone for several is dispatched.
PD_Det_Proc ==
    /\ ~serving
    /\ \/ /\ PD_Detect = pd.conn /\ pd.det # 0
          /\ pd' = [pd EXCEPT !.det = 0] /\ UNCHANGED <<rail, glitches>>
       \/ /\ PD_Detect # pd.conn /\ pd.det + 1 < Debounce
          /\ pd' = [pd EXCEPT !.det = @ + 1] /\ UNCHANGED <<rail, glitches>>
       \/ /\ PD_Detect # pd.conn /\ pd.det + 1 >= Debounce /\ (pd.conn => rx = Empty)
          /\ LET noted == [pd EXCEPT !.det = 0, !.conn = ~pd.conn]
             IN \/ pd.stop /\ pd' = noted /\ UNCHANGED <<rail, glitches>>
                \/ ~pd.stop /\ pd.conn
                   /\ pd' = [noted EXCEPT !.st = "disconnect"] /\ UNCHANGED <<rail, glitches>>
                \/ ~pd.stop /\ ~pd.conn
                   /\ pd' = [noted EXCEPT !.st = "sink_connect"] /\ VBUS_set_5V
    /\ UNCHANGED <<rx, serving, cycling, partner, abrupt, commands, partners, messages, faults>>

(***************************************************************************)
(* PD_Main_Proc, the first switch: what the state has to send.             *)
(***************************************************************************)
Listening == partner.awake /\ pd.src

\* acked: PD_Send_Handle returns DEF_PD_TX_OK.  Three attempts with three lost
\* acknowledgements are a failure although the partner heard the message.
PD_Send_Handle(heard, acked) ==
    \/ heard = Listening /\ acked = Listening /\ UNCHANGED faults
    \/ Listening /\ ~acked /\ faults < MaxFaults /\ faults' = faults + 1

\* The acknowledgement is received into the buffer of a message not yet
\* dispatched, which is then taken for one that is not supported.
Sent(acked) == rx' = IF acked /\ rx # Empty THEN [type |-> "other", arg |-> 0] ELSE rx

\* The partner when anything else goes over the line after its DR_Swap; and
\* after a soft reset, which voids what is not agreed yet.
Quietly == [partner EXCEPT !.again = FALSE]
Renewed == [Quietly EXCEPT !.caps = FALSE, !.asked = 0, !.granted = FALSE, !.swap = FALSE, !.mid = 0]

Told(heard, answer) == partner' = IF heard THEN answer ELSE partner

Serves(state) == ~serving /\ pd.st = state /\ serving' = (rx # Empty)

ServesAlone(state) == ~serving /\ pd.st = state /\ rx' = Empty /\ serving' = FALSE

\* A dwell of 160 ms is longer than the debounce.
Detected == PD_Detect = pd.conn

\* PD_PHY_Reset after VBUS_disable, which forgets the accepted PDO as well.
Sta_Disconnect ==
    /\ ServesAlone("disconnect")
    /\ VBUS_disable /\ pd' = PdInit
    /\ UNCHANGED <<cycling, partner, abrupt, commands, partners, messages, faults>>

Sta_SinkConnect ==
    /\ Serves("sink_connect") /\ Detected
    /\ pd' = [pd EXCEPT !.st = "tx_src_cap", !.stop = FALSE]
    /\ UNCHANGED <<rx, rail, cycling, partner, abrupt, commands, partners, messages, faults, glitches>>

Sta_TxSrcCap ==
    /\ Serves("tx_src_cap") /\ Detected
    /\ \E heard, acked \in BOOLEAN :
         /\ PD_Send_Handle(heard, acked) /\ Sent(acked)
         /\ Told(heard, [partner EXCEPT !.caps = TRUE, !.again = FALSE])
         /\ pd' = IF acked THEN [pd EXCEPT !.st = "rx_req_wait"] ELSE pd
    /\ UNCHANGED <<rail, cycling, abrupt, commands, partners, messages, glitches>>

Sta_RxReqWait ==
    /\ rx = Empty /\ Serves("rx_req_wait")
    /\ pd' = [pd EXCEPT !.st = "tx_hrst"]
    /\ UNCHANGED <<rx, rail, cycling, partner, abrupt, commands, partners, messages, faults, glitches>>

\* With the Accept the rail goes to the requested voltage, or to 5 V if it was
\* switched off since the Request.
Sta_TxAccept ==
    /\ Serves("tx_accept")
    /\ \E heard, acked \in BOOLEAN :
         /\ PD_Send_Handle(heard, acked) /\ Sent(acked)
         /\ Told(heard, [partner EXCEPT !.granted = (partner.asked # 0), !.again = FALSE])
         /\ pd' = [pd EXCEPT !.st = IF acked THEN "tx_ps_rdy" ELSE "tx_softrst"]
         /\ IF acked THEN Program(rail, Volts(pd.pdo)) ELSE UNCHANGED <<rail, glitches>>
    /\ UNCHANGED <<cycling, abrupt, commands, partners, messages>>

Sta_TxPsRdy ==
    /\ Serves("tx_ps_rdy")
    /\ \E heard, acked \in BOOLEAN :
         /\ PD_Send_Handle(heard, acked) /\ Sent(acked)
         /\ Told(heard, IF partner.granted
                     THEN [Quietly EXCEPT !.contract = partner.asked, !.asked = 0, !.granted = FALSE]
                     ELSE Quietly)
         /\ pd' = [pd EXCEPT !.st = IF acked THEN "idle" ELSE "tx_softrst"]
    /\ UNCHANGED <<rail, cycling, abrupt, commands, partners, messages, glitches>>

Sta_TxSoftRst ==
    /\ Serves("tx_softrst")
    /\ \E heard, acked \in BOOLEAN :
         /\ PD_Send_Handle(heard, acked) /\ Sent(acked)
         /\ Told(heard, Renewed)
         /\ pd' = [pd EXCEPT !.st = IF acked THEN "idle" ELSE "tx_hrst", !.latch = NoId]
    /\ UNCHANGED <<rail, cycling, abrupt, commands, partners, messages, glitches>>

\* A hard reset is not acknowledged.  The rail stays as it is.
Sta_TxHrst ==
    /\ ServesAlone("tx_hrst")
    /\ pd' = [pd EXCEPT !.st = "idle", !.stop = TRUE, !.role = "dfp", !.latch = NoId]
    /\ \E heard, acked \in BOOLEAN :
         /\ PD_Send_Handle(heard, acked) /\ Told(heard, Fresh)
         /\ abrupt' = (~heard /\ (abrupt \/ partner.awake))
    /\ UNCHANGED <<rail, cycling, commands, partners, messages, glitches>>

Sta_TxVdmRpi ==
    /\ Serves("tx_vdm")
    /\ \E heard, acked \in BOOLEAN : PD_Send_Handle(heard, acked) /\ Sent(acked)
    /\ pd' = [pd EXCEPT !.st = "idle"]
    /\ UNCHANGED <<rail, cycling, partner, abrupt, commands, partners, messages, glitches>>

PdState ==
    \/ Sta_Disconnect \/ Sta_SinkConnect \/ Sta_TxSrcCap \/ Sta_RxReqWait \/ Sta_TxAccept
    \/ Sta_TxPsRdy \/ Sta_TxSoftRst \/ Sta_TxHrst \/ Sta_TxVdmRpi

(***************************************************************************)
(* PD_Main_Proc, the second switch: the message received.  The states      *)
(* without a dwell have had their turn before it.                          *)
(***************************************************************************)
Received(type) ==
    /\ rx.type = type /\ (serving \/ pd.st \notin {"disconnect", "tx_softrst", "tx_hrst"})
    /\ rx' = Empty /\ serving' = FALSE
    /\ UNCHANGED <<rail, cycling, abrupt, commands, partners, messages, glitches>>

\* Every message but DR_Swap ends the window of a retransmission.
Unlatched == [pd EXCEPT !.latch = NoId]

OnRequest ==
    /\ Received("request")
    /\ pd' = [Unlatched EXCEPT !.pdo = rx.arg,
                               !.st = IF rx.arg \in 1..4 THEN "tx_accept" ELSE "tx_hrst"]
    /\ UNCHANGED <<partner, faults>>

OnSoftReset ==
    /\ Received("soft_reset")
    /\ pd' = [Unlatched EXCEPT !.st = "tx_src_cap"]
    /\ UNCHANGED <<partner, faults>>

Other(role) == IF role = "dfp" THEN "ufp" ELSE "dfp"

\* Either end changes its role with the Accept.  A partner that does not wait
\* for one ignores it.
AcceptSwap ==
    \E heard, acked \in BOOLEAN :
        /\ PD_Send_Handle(heard, acked)
        /\ Told(heard /\ partner.swap,
                [partner EXCEPT !.role = Other(partner.role), !.swap = FALSE])
        /\ pd' = IF acked THEN [pd EXCEPT !.latch = rx.arg, !.role = Other(pd.role)]
                 ELSE [pd EXCEPT !.st = "tx_hrst"]

\* Mutant: the retransmission of a DR_Swap is taken for another one.
OnDrSwapUnlatched == Received("dr_swap") /\ pd.st = "idle" /\ AcceptSwap

OnDrSwap == Received("dr_swap") /\ pd.st = "idle" /\ rx.arg # pd.latch /\ AcceptSwap

OnDrSwapRepeated ==
    /\ Received("dr_swap") /\ pd.st = "idle" /\ rx.arg = pd.latch
    /\ UNCHANGED <<pd, partner, faults>>

\* In the middle of a negotiation: Wait.
OnDrSwapBusy ==
    /\ Received("dr_swap") /\ pd.st # "idle"
    /\ \E heard, acked \in BOOLEAN :
         /\ PD_Send_Handle(heard, acked)
         /\ Told(heard, [partner EXCEPT !.swap = FALSE, !.again = FALSE])
    /\ UNCHANGED pd

\* The Raspberry Pi's discovery; other vendor messages change nothing.
OnVdm ==
    /\ Received("vdm")
    /\ pd' = IF pd.role = "dfp" THEN [Unlatched EXCEPT !.st = "tx_vdm"] ELSE Unlatched
    /\ UNCHANGED <<partner, faults>>

OnGetSrcCap ==
    /\ Received("get_src_cap")
    /\ pd' = Unlatched
    /\ \E heard, acked \in BOOLEAN :
         PD_Send_Handle(heard, acked) /\ Told(heard, [partner EXCEPT !.caps = TRUE])

\* What is not supported; Accept, Wait, VCONN_Swap, Get_Sink_Cap and Enter_USB do
\* no more.
OnOther == Received("other") /\ pd' = Unlatched /\ UNCHANGED <<partner, faults>>

Dispatch ==
    \/ OnRequest \/ OnSoftReset \/ OnDrSwap \/ OnDrSwapRepeated \/ OnDrSwapBusy
    \/ OnVdm \/ OnGetSrcCap \/ OnOther

(***************************************************************************)
(* Commands from the WUPS bus                                              *)
(***************************************************************************)

\* The partner holds a contract or a swapped role that a restart takes no
\* notice of.
Settled == partner.contract # 0 \/ partner.role # "ufp" \/ partner.swap

\* 5 V and a new negotiation with default roles.  A partner that had no time to
\* see VBUS drop, or saw none, does not know.
Power_Output_Restart ==
    /\ VBUS_set_5V
    /\ pd' = [pd EXCEPT !.st = "sink_connect", !.role = "dfp", !.latch = NoId]
    /\ abrupt' = (partner.awake /\ (abrupt \/ Settled))

Command == ~serving /\ commands < MaxCommands /\ commands' = commands + 1

PwrEnable ==
    /\ Command /\ Power_Output_Restart
    /\ UNCHANGED <<rx, serving, cycling, partner, partners, messages, faults>>

PwrDisable ==
    /\ Command /\ VBUS_disable /\ pd' = [pd EXCEPT !.pdo = 0]
    /\ UNCHANGED <<rx, serving, cycling, partner, abrupt, partners, messages, faults>>

PwrCycle ==
    /\ Command /\ VBUS_disable /\ pd' = [pd EXCEPT !.pdo = 0] /\ cycling' = TRUE
    /\ UNCHANGED <<rx, serving, partner, abrupt, partners, messages, faults>>

\* POWERCYCLE_OFF_MS is long enough for a partner without power to go down.
CycleOver == ~serving /\ cycling /\ (On \/ ~partner.awake) /\ cycling' = FALSE

\* Mutant: the end of the window restarts the negotiation and leaves the rail to it.
CycleEndsDark ==
    /\ CycleOver
    /\ pd' = [pd EXCEPT !.st = "sink_connect", !.role = "dfp", !.latch = NoId]
    /\ UNCHANGED <<rx, serving, rail, partner, abrupt, commands, partners, messages, faults, glitches>>

CycleEnds ==
    /\ CycleOver /\ Power_Output_Restart
    /\ UNCHANGED <<rx, serving, partner, commands, partners, messages, faults>>

\* PWR_RESET, or the watchdog.  PDS_EN falls, and the partner goes down.
McuResets ==
    /\ commands < MaxCommands /\ commands' = commands + 1
    /\ pd' = PdInit /\ rx' = Empty /\ serving' = FALSE /\ rail' = RailInit
    /\ cycling' = FALSE /\ abrupt' = FALSE
    /\ partner' = [Fresh EXCEPT !.awake = FALSE]
    /\ UNCHANGED <<partners, messages, faults, glitches>>

(***************************************************************************)
(* The partner.  Between two partners the debounce runs out.               *)
(***************************************************************************)
Plugged ==
    /\ ~partner.cc /\ ~pd.conn /\ pd.st # "disconnect"
    /\ partners < MaxPartners /\ partners' = partners + 1
    /\ partner' = [Absent EXCEPT !.cc = TRUE] /\ abrupt' = pd.stop
    /\ UNCHANGED <<pd, rx, serving, rail, cycling, commands, messages, faults, glitches>>

Unplugged ==
    /\ partner.cc /\ partner' = Absent /\ abrupt' = FALSE
    /\ UNCHANGED <<pd, rx, serving, rail, cycling, commands, partners, messages, faults, glitches>>

WakesUp ==
    /\ partner.cc /\ On /\ ~partner.awake
    /\ partner' = [partner EXCEPT !.awake = TRUE]
    /\ UNCHANGED <<pd, rx, serving, rail, cycling, abrupt, commands, partners, messages, faults, glitches>>

GoesDown ==
    /\ partner.awake /\ ~On
    /\ partner' = [Fresh EXCEPT !.awake = FALSE] /\ abrupt' = rail.pa7
    /\ UNCHANGED <<pd, rx, serving, rail, cycling, commands, partners, messages, faults, glitches>>

Speaks ==
    /\ Listening /\ messages < MaxMessages /\ messages' = messages + 1
    /\ UNCHANGED <<pd, serving, rail, cycling, abrupt, commands, partners, glitches>>

After(id) == IF id = Ids - 1 THEN 0 ELSE id + 1
Before(id) == IF id = 0 THEN Ids - 1 ELSE id - 1

\* The interrupt acknowledges the message and keeps it; or it comes while the
\* last one is being dispatched and is acknowledged and dropped.
Sends(message, after) ==
    /\ Speaks /\ rx = Empty
    /\ partner' = [after EXCEPT !.mid = After(@)]
    /\ \/ rx' = message /\ UNCHANGED faults
       \/ UNCHANGED rx /\ faults < MaxFaults /\ faults' = faults + 1

\* Asking again, the partner no longer relies on the old contract.
SendsRequest ==
    \E i \in Asks :
        /\ partner.caps /\ partner.asked = 0
        /\ Sends([type |-> "request", arg |-> i], [Quietly EXCEPT !.asked = i, !.contract = 0])

SendsSoftReset ==
    Sends([type |-> "soft_reset", arg |-> 0],
          Renewed)

SendsSwap ==
    /\ partner.contract # 0 /\ ~partner.swap
    /\ Sends([type |-> "dr_swap", arg |-> partner.mid], [partner EXCEPT !.swap = TRUE, !.again = TRUE])

\* Get_Source_Cap stands for the messages that are answered and change nothing.
SendsOther ==
    \E t \in {"vdm", "get_src_cap"} :
        partner.caps /\ Sends([type |-> t, arg |-> 0], Quietly)

\* The acknowledgement of a DR_Swap was lost and it comes again, with its ID.
RepeatsSwap ==
    /\ partner.again /\ Speaks /\ rx = Empty
    /\ rx' = [type |-> "dr_swap", arg |-> Before(partner.mid)]
    /\ partner' = Quietly /\ faults < MaxFaults /\ faults' = faults + 1

\* IF_RX_RESET: the interrupt turns the port into a sink.
SendsHardReset ==
    /\ Listening /\ messages < MaxMessages /\ messages' = messages + 1
    /\ pd' = [pd EXCEPT !.src = FALSE]
    /\ partner' = Fresh /\ abrupt' = FALSE
    /\ UNCHANGED <<rx, serving, rail, cycling, commands, partners, faults, glitches>>

Partner ==
    \/ Plugged \/ Unplugged \/ WakesUp \/ GoesDown \/ SendsRequest \/ SendsSoftReset
    \/ SendsSwap \/ SendsOther \/ RepeatsSwap \/ SendsHardReset

Next ==
    \/ PD_Det_Proc \/ PdState \/ Dispatch \/ Reapply \/ CycleEnds
    \/ PwrEnable \/ PwrDisable \/ PwrCycle \/ McuResets \/ TpsResets \/ Partner

Spec == Init /\ [][Next]_vars

\* The main loop runs; a partner without power goes down.
FairSpec ==
    /\ Spec
    /\ WF_vars(PD_Det_Proc) /\ WF_vars(PdState) /\ WF_vars(Dispatch)
    /\ WF_vars(Reapply) /\ WF_vars(CycleEnds) /\ WF_vars(GoesDown)

(***************************************************************************)
(* Properties                                                              *)
(***************************************************************************)
\* The types: the counters of PD_Ctl stay in their ranges and the rail has one
\* of the four voltages.
TypeOK ==
    /\ pd.st \in {"idle", "disconnect", "sink_connect", "tx_src_cap", "rx_req_wait", "tx_accept",
                  "tx_ps_rdy", "tx_softrst", "tx_hrst", "tx_vdm"}
    /\ pd.det \in 0..(Debounce - 1) /\ pd.latch \in 0..Ids /\ pd.pdo \in 0..7
    /\ {rail.volts, rail.set} \subseteq {0, 5, 9, 12, 15}
    /\ partner.contract \in 0..7 /\ partner.mid \in 0..(Ids - 1)

\* A partner is given what it was promised: while the rail is switched on and
\* it holds a contract (PS_RDY), the setpoint that the two-second watchdog
\* writes is the contract's, whatever was lost, repeated or commanded - unless
\* one end started afresh and the other was not told.
ContractHonoured ==
    partner.contract # 0 /\ rail.pa7 /\ ~abrupt => rail.set = Volts(partner.contract)

\* PD_Process.c:72 "processing it twice would toggle PD_Role back and
\* desynchronize the data roles": unless one end started afresh and the
\* other was not told, the two ends have opposite roles when no swap is under way.
RolesAgree ==
    /\ partner.awake /\ pd.src /\ ~partner.swap /\ ~abrupt
    /\ pd.st # "tx_hrst"
    => pd.role = Other(partner.role)

\* What was agreed at the port, voltage and roles, is kept.
OutputSound == ContractHonoured /\ RolesAgree

\* main.c:1260, the watchdog "Catches" missed writes and resets of the
\* converter: it comes back to the setpoint as long as there is one.
RailRestored ==
    (rail.set # 0 /\ (rail.volts # rail.set \/ ~rail.oe))
        ~> (rail.set = 0 \/ (rail.volts = rail.set /\ rail.oe))

\* A power cycle gives whoever is at the port its power back, whatever
\* commands, negotiations, unplugging or resets of the MCU come in between.
CycleCompletes == cycling ~> (rail.pa7 \/ (~cycling /\ ~partner.cc))

\* PD_Process.c:51 "so a sink unplug returns the output to a safe,
\* de-energized state instead of leaving the last negotiated 9V/15V live on an
\* open port".
UnplugDropsRail == (~partner.cc /\ On /\ rail.volts > 5) ~> (~On \/ partner.cc)
=============================================================================
