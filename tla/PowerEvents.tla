----------------------------- MODULE PowerEvents ----------------------------
(***************************************************************************)
(* What the CH32X tells the RP2040 about its supply (main.c): the readings *)
(* of the input, the battery, the charger and the converter, the edge      *)
(* detector behind power.event, the power.status frame of every second and *)
(* the transmitter that carries both.  The blocks of the main loop have    *)
(* timers of their own, which drift: the blocks due in a half second run   *)
(* in any order.  Voltages are classes between the code's thresholds.      *)
(***************************************************************************)
EXTENDS Integers, Sequences

CONSTANTS FaultHold,   \* PWR_EVT_FAULT_HOLD_S
          MaxWedges,   \* how often USART2 loses its configuration
          MaxTrips     \* faults the converter and the charger raise

PowerEventsConstants == {FaultHold, MaxWedges, MaxTrips} \subseteq Nat

\* DC input: up to 4.5 V, 5.5 V, 9 V, 10 V, more.  Battery: none, below
\* PWR_EVT_VBAT_LOW_MV, below PWR_EVT_VBAT_REARM_MV, more.
Inputs == <<"out", "band", "usb", "rise", "in">>
Above(v, class) == \E i, j \in 1..5 : Inputs[i] = v /\ Inputs[j] = class /\ i > j
Cells == {"none", "low", "mid", "high"}
TxReinitAfter == 8     \* USART2_TX_REINIT_AFTER
Blocks == {"tps", "chg", "bat", "sec"}

VARIABLES world,    \* the fault latches of the converter and the charger, and: charged
          adc,      \* DC_Inp_ADC_Val, Vbat_ADC_Val, and the input switch PA6
          chg,      \* Chg_Data: fault, cs
          latch,    \* Tps_Status_Latched
          evt,      \* the detector's statics
          tx,       \* dead: every wait for TC expires; n: Usart2_Tc_Timeouts
          time,     \* the half second within four, and the blocks still due
          left,     \* wedges and trips left
          note      \* history: what the reader of the line can tell

vars == <<world, adc, chg, latch, evt, tx, time, left, note>>

Init == /\ world = [tps |-> {}, fault |-> {}, full |-> FALSE]
        /\ adc = [dc |-> "out", vbat |-> "none", pa6 |-> FALSE]
        /\ chg = [fault |-> {}, cs |-> 0] /\ latch = {}
        /\ evt = [primed |-> FALSE, mains |-> FALSE, faults |-> {}, cs |-> 0, low |-> FALSE,
                  since |-> 0]
        /\ tx = [dead |-> FALSE, n |-> 0]
        /\ time = [half |-> 0, due |-> {}]
        /\ left = [wedges |-> MaxWedges, trips |-> MaxTrips]
        /\ note = [outer |-> "out", lows |-> 0, silent |-> 0, new |-> {}]

-----------------------------------------------------------------------------
\* TIM1_UP_IRQHandler: the supply has any voltage by now; a conversion that
\* gives no value keeps the last one, and the charger's switch follows the
\* input between 9 V and 10 V.
Get_ADC_Val(old, classes) == {old} \cup classes
InputSwitch(on, dc) == dc = "in" \/ (on /\ Above(dc, "usb"))
Sample == \E dc \in Get_ADC_Val(adc.dc, {Inputs[i] : i \in 1..5}),
             v \in Get_ADC_Val(adc.vbat, Cells) :
             adc' = [dc |-> dc, vbat |-> v, pa6 |-> InputSwitch(adc.pa6, dc)]

\* Half a second passes; the blocks whose time has come are due.
Elapse == /\ time.due = {}
          /\ IF time.half % 2 = 1 THEN Sample ELSE UNCHANGED adc
          /\ LET h == (time.half + 1) % 4 IN
             time' = [half |-> h, due |-> {"bat"} \cup (IF h % 2 = 0 THEN {"sec"} ELSE {})
                                                  \cup (IF h = 0 THEN {"tps", "chg"} ELSE {})]
          /\ UNCHANGED <<world, chg, latch, evt, tx, left, note>>

Done(block) == block \in time.due /\ time' = [time EXCEPT !.due = @ \ {block}]

\* The converter's status register holds its flags until it is read.
TpsPoll == /\ Done("tps") /\ latch' = latch \cup world.tps /\ world' = [world EXCEPT !.tps = {}]
           /\ UNCHANGED <<adc, chg, evt, tx, left, note>>

\* mp2762a_read_all: a charger without power reads as zeros, which are not used.
ReadCharger == IF adc.pa6 THEN [fault |-> world.fault, cs |-> IF world.full THEN 3 ELSE 2]
               ELSE [fault |-> {}, cs |-> 0]
ChargerPoll == /\ Done("chg") /\ chg' = ReadCharger /\ world' = [world EXCEPT !.fault = {}]
               /\ UNCHANGED <<adc, latch, evt, tx, left, note>>

\* The recovery from a fault (see I2cChips) forgets it.
BatteryPoll == /\ Done("bat") /\ chg' = [chg EXCEPT !.fault = {}]
               /\ UNCHANGED <<world, adc, latch, evt, tx, left, note>>

-----------------------------------------------------------------------------
\* Usart2_Send_Bytes, for the three pieces of each frame: a piece whose wait
\* expires is dropped, and the eighth expiry in a row configures USART2 anew;
\* the frame it happens in is lost, the ones after it are not.
ReinitFrame(t) == (TxReinitAfter - t.n + 2) \div 3
Ship(t, frames) ==
    IF ~t.dead THEN [t |-> [t EXCEPT !.n = 0], got |-> frames]
    ELSE IF Len(frames) >= ReinitFrame(t)
         THEN [t |-> [dead |-> FALSE, n |-> 0], got |-> SubSeq(frames, ReinitFrame(t) + 1, Len(frames))]
         ELSE [t |-> [t EXCEPT !.n = @ + 3 * Len(frames)], got |-> <<>>]

\* A status goes out, after the events found; the latch is empty then.
wups_send_power_status(t, events) == Ship(t, Append(events, "status"))

\* wups_power_event_tick.
Mains == IF evt.mains THEN Above(adc.dc, "out") ELSE Above(adc.dc, "band")
Faults == chg.fault \cup latch
NewFault == Faults \ evt.faults # {} /\ evt.since >= FaultHold
LowMark == ~Mains /\ ~evt.low /\ adc.vbat = "low"

Events == LET If(c, e) == IF c THEN <<e>> ELSE <<>> IN
          IF ~evt.primed THEN <<>>
          ELSE If(Mains # evt.mains, "mains") \o If(NewFault, "fault")
               \o If(Mains /\ chg.cs = 3 /\ evt.cs # 3, "full") \o If(LowMark, "low")

Older(n) == IF n < FaultHold THEN n + 1 ELSE n
Tick == [primed |-> TRUE, mains |-> Mains, faults |-> Faults, cs |-> chg.cs,
         low |-> IF ~evt.primed THEN evt.low
                 ELSE LowMark \/ (evt.low /\ ~(Mains /\ ~evt.mains) /\ adc.vbat # "high"),
         since |-> IF evt.primed /\ NewFault THEN 0 ELSE Older(evt.since)]

\* What a reader of the line can tell: the last input outside the band, the
\* low alarms since the battery was last safe, the seconds without a status
\* and the faults of this status that the one before did not have, unless
\* an announcement has just been made.
Note(events, seen) ==
    [outer |-> IF adc.dc = "band" THEN note.outer ELSE IF adc.dc = "out" THEN "out" ELSE "in",
     lows |-> IF Mains \/ adc.vbat = "high" THEN 0
              ELSE note.lows + (IF \E i \in 1..Len(events) : events[i] = "low" THEN 1 ELSE 0),
     silent |-> IF seen = <<>> THEN note.silent + 1 ELSE 0,
     new |-> IF evt.primed /\ evt.since >= FaultHold THEN Faults \ evt.faults ELSE {}]

\* The status first: the latch is empty when the detector looks at it.
SecondStatusFirst ==
    /\ Done("sec")
    /\ LET s == wups_send_power_status(tx, Events) IN
       tx' = s.t /\ note' = Note(Events, s.got)
    /\ evt' = [Tick EXCEPT !.faults = chg.fault, !.since = Older(evt.since)] /\ latch' = {}
    /\ UNCHANGED <<world, adc, chg, left>>

\* The second: detector first, then the status, which empties the latch.
Second == /\ Done("sec")
          /\ LET s == wups_send_power_status(tx, Events) IN
             tx' = s.t /\ note' = Note(Events, s.got)
          /\ evt' = Tick /\ latch' = {}
          /\ UNCHANGED <<world, adc, chg, left>>

\* system.status_query: a status for whoever asked, which empties the latch too.
Status_Query == /\ tx' = wups_send_power_status(tx, <<>>).t /\ latch' = {} /\ latch # {}
                /\ UNCHANGED <<world, adc, chg, evt, time, left, note>>

-----------------------------------------------------------------------------
\* The chips and the line (external).
Charged == /\ time.due = {} /\ adc.pa6
          /\ world' = [world EXCEPT !.full = ~@]
          /\ UNCHANGED <<adc, chg, latch, evt, tx, time, left, note>>
Trip == /\ left.trips > 0 /\ time.due = {}
        /\ \/ world' = [world EXCEPT !.tps = {"ocp"}]
           \/ adc.pa6 /\ world' = [world EXCEPT !.fault = {"chg"}]
        /\ left' = [left EXCEPT !.trips = @ - 1]
        /\ UNCHANGED <<adc, chg, latch, evt, tx, time, note>>
Wedge == /\ left.wedges > 0 /\ ~tx.dead /\ tx' = [tx EXCEPT !.dead = TRUE]
         /\ left' = [left EXCEPT !.wedges = @ - 1]
         /\ UNCHANGED <<world, adc, chg, latch, evt, time, note>>

Loop == Elapse \/ TpsPoll \/ ChargerPoll \/ BatteryPoll \/ Second
Next == Loop \/ Status_Query \/ Charged \/ Trip \/ Wedge
Spec == Init /\ [][Next]_vars

-----------------------------------------------------------------------------
\* What the line says of the supply can be relied on.  Mains events follow the
\* last input outside the band of 4.5 to 5.5 V, so a brownout in the band says
\* nothing; a discharge raises one low alarm, until the battery is safe again;
\* a fault that is new in a status frame is announced in the same second,
\* unless one was within the hold; and a transmitter that lost its configuration costs at most three
\* seconds of silence each time.
AlarmsSound ==
    /\ evt.primed => (evt.mains <=> note.outer = "in")
    /\ note.lows <= 1
    /\ note.new # {} => evt.since = 0
    /\ note.silent <= 3 * MaxWedges

\* A fault the charger reported is not forgotten before the detector has seen
\* it ("this detector wants to see those bits too", main.c:808).  It does not
\* hold: the recovery of BatteryPoll may come first.
FaultSeen == [][chg.fault \ chg'.fault \subseteq evt.faults]_vars
=============================================================================
