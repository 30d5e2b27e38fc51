------------------------------ MODULE I2cChips ------------------------------
(***************************************************************************)
(* The CH32X and the chips on its I2C bus: the MP2762A charger, the        *)
(* HUSB238 USB-PD sink of the input, and the bit-banged bus itself.  The   *)
(* main loop polls the chips one after the other; they share no state.     *)
(***************************************************************************)
EXTENDS Integers, FiniteSets, Sequences

(***************************************************************************)
(* The MP2762A (mp2762a.c and its blocks in main.c).                       *)
(* The firmware sees a status register, a charge current and its own       *)
(* battery voltage; from these it debounces the presence of a battery and  *)
(* restarts the charger after an insertion, a fault or a while without a   *)
(* battery.  The chip (external) stops on a fault, and settles in a state  *)
(* that never notices a battery when it runs without one, until its enable *)
(* bit is toggled.                                                         *)
(***************************************************************************)
CONSTANTS MaxSwaps,     \* how often the battery or the supply comes or goes
          MaxTrips      \* faults of the chip

BatDebounce == 3        \* BAT_DEBOUNCE_COUNT
StuckRestart == 6       \* STUCK_RESTART_COUNT

VARIABLES vin,          \* the charger's supply is there (ACOK)
          pack,         \* "out", "in", "full": the battery
          chip,         \* "idle", "charging", "done", "stuck", "fault", "over"
          fault,        \* Chg_Data.fault
          reg,          \* the chip's fault register
          bat,          \* present, its counter, the insertion flag
          stuck,        \* g_stuck_counter
          block,        \* the block of the loop that runs next
          spare,        \* swaps and trips left
          missed        \* history: a battery came to a charger that had settled without one, while
                        \* the one before it still counted as present

chargervars == <<vin, pack, chip, fault, reg, bat, stuck, block, spare, missed>>

\* How the chip settles when it is enabled: by what is connected to it.
Settled(v, p) == IF ~v THEN "idle"
                 ELSE IF p = "out" THEN "stuck" ELSE IF p = "in" THEN "charging" ELSE "over"

ChargerInit ==
        /\ vin \in BOOLEAN /\ pack \in {"out", "in", "full"} /\ chip = Settled(vin, pack)
        /\ fault = FALSE /\ reg = FALSE
        /\ bat = [present |-> FALSE, n |-> 0, inserted |-> FALSE] /\ stuck = 0
        /\ block = "poll" /\ spare = [swaps |-> MaxSwaps, trips |-> MaxTrips] /\ missed = FALSE

-----------------------------------------------------------------------------
\* mp2762a_restart_charging: reads the fault register, toggles CHG_EN.
Restarted == chip' = Settled(vin, pack) /\ reg' = FALSE /\ missed' = FALSE

\* mp2762a_read_all, every two seconds: without its supply the chip is off.
ReadAll == /\ block = "poll" /\ block' = "battery"
           /\ fault' = (vin /\ reg) /\ reg' = FALSE
           /\ UNCHANGED <<vin, pack, chip, bat, stuck, spare, missed>>
SkipRead == /\ block = "poll" /\ block' = "battery"
            /\ UNCHANGED <<vin, pack, chip, fault, reg, bat, stuck, spare, missed>>

\* mp2762a_poll_battery: is a battery there?  A charging current or a charge
\* that ended says so; otherwise the CH32X's own reading of the voltage does.
\* Without the supply the chip does not answer: its status reads 0x00, whose
\* clear under-voltage bit says that a battery is there, whatever is.
RawPresent == vin => chip \in {"charging", "done"} \/ pack # "out"

Debounced(raw) ==
    IF raw = bat.present THEN [bat EXCEPT !.n = 0]
    ELSE IF bat.n + 1 < BatDebounce THEN [bat EXCEPT !.n = @ + 1]
    ELSE [present |-> raw, n |-> 0, inserted |-> raw \/ bat.inserted]

Unstick(raw) == vin /\ ~raw /\ stuck + 1 >= StuckRestart
StuckCount(raw) == IF vin /\ ~raw /\ ~Unstick(raw) THEN stuck + 1 ELSE 0

\* The battery block, every half second: the poll, the restart after an
\* insertion, and the restart after a fault whether or not a battery is there.
FaultRecoveryNever == FALSE
FaultRecovery == fault

BatteryBlock ==
    /\ block = "battery" /\ block' = "poll"
    /\ LET raw == RawPresent
           seen == Debounced(raw) IN
       /\ bat' = [seen EXCEPT !.inserted = FALSE] /\ stuck' = StuckCount(raw)
       /\ IF Unstick(raw) \/ seen.inserted \/ FaultRecovery THEN Restarted ELSE UNCHANGED <<chip, reg, missed>>
       /\ fault' = IF FaultRecovery THEN FALSE ELSE fault
    /\ UNCHANGED <<vin, pack, spare>>

-----------------------------------------------------------------------------
\* The chip, the battery and the supply (external).  Taking the battery out
\* of a charging charger trips it; a battery put into one that is stuck is
\* not noticed.
Swap == /\ spare.swaps > 0 /\ spare' = [spare EXCEPT !.swaps = @ - 1]
        /\ \/ /\ pack' \in (IF pack = "out" THEN {"in", "full"} ELSE {"out"}) /\ vin' = vin
              /\ chip' = IF chip = "stuck" \/ chip = "fault" THEN chip
                         ELSE IF pack' = "out" /\ vin THEN "fault" ELSE Settled(vin, pack')
              /\ reg' = (reg \/ chip' = "fault")
              /\ missed' = (pack = "out" /\ chip = "stuck" /\ bat.present)
           \/ vin' = ~vin /\ pack' = pack /\ chip' = Settled(vin', pack) /\ reg' = FALSE /\ missed' = FALSE
        /\ UNCHANGED <<fault, bat, stuck, block>>
Trips == /\ spare.trips > 0 /\ vin /\ spare' = [spare EXCEPT !.trips = @ - 1]
         /\ chip' = "fault" /\ reg' = TRUE
         /\ UNCHANGED <<vin, pack, fault, bat, stuck, block, missed>>
Charged == /\ chip = "charging" /\ chip' = "done" /\ UNCHANGED <<vin, pack, fault, reg, bat, stuck, block, spare, missed>>

Blocks == ReadAll \/ SkipRead \/ BatteryBlock
ChargerNext == Blocks \/ Swap \/ Trips \/ Charged
ChargerFairness == WF_chargervars(Blocks) /\ SF_chargervars(ReadAll)

-----------------------------------------------------------------------------
\* A battery that can be charged is charged in the end, whatever it and the
\* supply went through: no fault and no charger that started without a battery
\* keeps it from that ("deadlock", main.c:1392), but for one that missed it: put
\* in after the charger had settled without a battery and before the absence was
\* debounced, no edge is seen and nothing toggles the charger until the battery
\* is out for longer, the supply fails or the chip trips.  A pack too full to
\* be charged counts as present, and the charger is left alone.
ChargesAgain ==
    /\ [](vin /\ pack = "in" /\ ~missed => <>(chip \in {"charging", "done"} \/ ~vin \/ pack # "in"))
    /\ <>[](vin /\ pack = "full") => <>[](bat.present /\ stuck = 0 /\ (chip = "stuck" => missed))

(***************************************************************************)
(* The HUSB238 (husb238.c and its block in main.c).  The chip takes a      *)
(* contract by itself when a source is plugged in; once per attachment the *)
(* firmware reads what the source offers, picks the voltage its policy     *)
(* prefers and asks for it.                                                *)
(***************************************************************************)
CONSTANTS Offers,        \* the sources of the instance: [1..6 -> current codes or NoOffer]
          MaxPlugs,      \* how often a source is plugged in
          UnseenSwaps    \* a source may be swapped between two polls

Volts == <<5000, 9000, 12000, 15000, 18000, 20000>>              \* HUSB238_PDO_MV
Preferred == <<15000, 12000, 18000, 20000, 9000>>                \* HUSB238_PREF_MV
Currents == <<500, 700, 1000, 1250, 1500, 1750, 2000, 2250,
              2500, 2750, 3000, 3250, 3500, 4000, 4500, 5000>>   \* HUSB238_CURRENT_LUT_MA
Floor == 9000            \* HUSB238_POLICY_V_FLOOR_MV
Cap == 20000             \* HUSB238_POLICY_V_CAP_MV
CapMA == 5000            \* HUSB238_POLICY_I_CAP_MA
Enough == 45000          \* HUSB238_POLICY_P_ENOUGH_MW
NoOffer == -1
None == 0                \* HUSB238_SEL_NONE

decode_current_mA(code) == Currents[code + 1]
Detected(caps) == {i \in 1..6 : caps[i] # NoOffer}
idx_of_mV(mv) == CHOOSE i \in 1..6 : Volts[i] = mv

\* husb238_slot_mW, husb238_slot_in_range.
slot_mA(caps, i) == LET ma == decode_current_mA(caps[i]) IN IF ma > CapMA THEN CapMA ELSE ma
slot_mW(caps, i) == (Volts[i] * slot_mA(caps, i)) \div 1000
InRange(i) == Volts[i] >= Floor /\ Volts[i] <= Cap

\* husb238_pick_best_pdo: the slot chosen, or None.
FirstPreferred(slots) ==
    LET ps == {p \in 1..5 : idx_of_mV(Preferred[p]) \in slots} IN
    idx_of_mV(Preferred[CHOOSE p \in ps : \A q \in ps : p <= q])
BestPower(caps) ==
    LET in == {slot_mW(caps, i) : i \in {j \in Detected(caps) : InRange(j)}} IN
    IF in = {} THEN 0 ELSE CHOOSE w \in in : \A v \in in : v <= w
Satisfying(caps) == {i \in Detected(caps) : Volts[i] # 5000 /\ slot_mW(caps, i) >= Enough}
InBand(caps) == {i \in Detected(caps) : InRange(i) /\ slot_mW(caps, i) >= (BestPower(caps) * 9) \div 10}
HighestPick(caps) == CHOOSE i \in Detected(caps) : \A j \in Detected(caps) : j <= i

pick_best_pdo(caps) ==
    IF Satisfying(caps) # {} THEN FirstPreferred(Satisfying(caps))
    ELSE IF BestPower(caps) > 0 THEN FirstPreferred(InBand(caps))
    ELSE IF Detected(caps) # {} THEN HighestPick(caps) ELSE None

-----------------------------------------------------------------------------
VARIABLES src,        \* the source: what it offers, and plugged in at all
          latched,    \* the chip has the source's capabilities
          contract,   \* slot and mA in force, or None
          optimized,  \* Husb_Pd_Optimized
          asked,      \* history: the requests in this attachment
          plugs

sinkvars == <<src, latched, contract, optimized, asked, plugs>>
Unplugged == [i \in 1..6 |-> NoOffer]
Nothing == [slot |-> None, mA |-> 0]

SinkInit == /\ src = Unplugged /\ latched = FALSE /\ contract = Nothing
        /\ optimized = FALSE /\ asked = 0 /\ plugs = 0

\* A source is plugged in and the chip takes the contract of its straps
\* (external); its capabilities arrive at once, or when they are asked for.
Plug == /\ plugs < MaxPlugs /\ plugs' = plugs + 1
        /\ \/ contract = Nothing /\ ~optimized
           \/ UnseenSwaps
        /\ \E o \in Offers : \E i \in Detected(o) :
              /\ src' = o /\ contract' = [slot |-> i, mA |-> decode_current_mA(0)]
              /\ latched' \in BOOLEAN
        /\ asked' = 0 /\ UNCHANGED optimized
Unplug == /\ src # Unplugged /\ src' = Unplugged /\ contract' = Nothing /\ latched' = FALSE
          /\ UNCHANGED <<optimized, asked, plugs>>

\* husb238_read_all: both readings of a chip without power mean no source.
read_all == contract.slot # None
read_src_caps == IF latched THEN src ELSE Unplugged

\* The live contract already is the pick, in voltage and in current.
Matches(i) == contract.slot = i /\ contract.mA + 50 >= slot_mA(src, i)
\* husb238_select_pdo: the chip asks the source for the slot (external).
select_pdo(i) == contract' = [slot |-> i, mA |-> decode_current_mA(src[i])] /\ asked' = asked + 1

\* The block of main.c, every two seconds.
Poll == /\ UNCHANGED <<src, plugs>>
        /\ IF ~read_all THEN optimized' = FALSE /\ UNCHANGED <<latched, contract, asked>>
           ELSE /\ ~optimized
                /\ LET caps == read_src_caps
                       pick == pick_best_pdo(caps) IN
                   IF Detected(caps) = {}
                   THEN latched' \in BOOLEAN /\ UNCHANGED <<optimized, contract, asked>>
                   ELSE /\ UNCHANGED latched
                        /\ optimized' = (pick # None)
                        /\ IF pick # None /\ ~Matches(pick)
                           THEN select_pdo(pick) ELSE UNCHANGED <<contract, asked>>

SinkNext == Plug \/ Unplug \/ Poll

-----------------------------------------------------------------------------
\* What the source gives after the negotiation: no other offer of an allowed
\* voltage has more than a tenth more power unless the one in force is enough
\* (45 W), 5 V is used only where nothing else is offered, and the one
\* request per attachment is not repeated.
SinkSettled ==
    /\ asked <= 1
    /\ optimized /\ contract # Nothing =>
          LET w == (Volts[contract.slot] * contract.mA) \div 1000 IN
          /\ \A i \in Detected(src) : InRange(i) =>
                w >= Enough \/ w >= (slot_mW(src, i) * 9) \div 10
          /\ contract.slot = 1 => Detected(src) = {1}

(***************************************************************************)
(* The bit-banged bus (i2c_lib.c) against a slave: the master's routines   *)
(* as the sequence of line changes they make, the slave as the bus         *)
(* specification has it.  The CH32X is reset in the middle of any          *)
(* transaction; I2C_init then clocks the bus free, and the transactions    *)
(* after it must mean to the slave what the firmware means.                *)
(***************************************************************************)
CONSTANTS Bits,       \* bits of a byte
          Regs, Vals  \* registers and values of the instance

Me == 1               \* the slave's address
Byte == 0..2^Bits - 1
Bit(x, i) == (x \div 2^(Bits - i)) % 2     \* the i-th bit, most significant first

\* Line changes: SDA and SCL released or pulled low, and SDA read.
SDA_HIGH == <<"D">>
SDA_LOW == <<"d">>
SCL_HIGH == <<"C">>
SCL_LOW == <<"c">>
CLOCKOUT == SCL_HIGH \o SCL_LOW

Repeat(n, seq(_)) == LET all[i \in 0..n] == IF i = 0 THEN <<>> ELSE all[i - 1] \o seq(i) IN all[n]

I2C_write(x) == LET bit(i) == (IF Bit(x, i) = 1 THEN SDA_HIGH ELSE SDA_LOW) \o CLOCKOUT IN
                Repeat(Bits, bit) \o SDA_HIGH \o CLOCKOUT
I2C_start(x) == SDA_HIGH \o SCL_HIGH \o SDA_LOW \o SCL_LOW \o I2C_write(x)
I2C_stop == SDA_LOW \o SCL_HIGH \o SDA_HIGH
I2C_read(ack) == LET bit(i) == SCL_HIGH \o <<"r">> \o SCL_LOW IN
                 SDA_HIGH \o Repeat(Bits, bit) \o (IF ack THEN SDA_LOW ELSE SDA_HIGH)
                 \o CLOCKOUT \o SDA_HIGH
I2C_write_reg(r, v) == I2C_start(2 * Me) \o I2C_write(r) \o I2C_write(v) \o I2C_stop
I2C_read_reg(r) == I2C_start(2 * Me) \o I2C_write(r) \o I2C_start(2 * Me + 1) \o I2C_read(FALSE)
                   \o I2C_stop

\* The recovery of I2C_init; a stop alone is not seen by a slave that holds SDA.
I2C_initStopOnly == SDA_HIGH \o I2C_stop
I2C_init == LET clock(i) == CLOCKOUT IN SDA_HIGH \o Repeat(Bits + 1, clock) \o I2C_stop

Script(t) == IF t.op = "write" THEN I2C_write_reg(t.reg, t.val) ELSE I2C_read_reg(t.reg)
Transactions == [op: {"write"}, reg: Regs, val: Vals] \cup [op: {"read"}, reg: Regs, val: {0}]

-----------------------------------------------------------------------------
VARIABLES line,    \* what the master does to SDA and SCL: TRUE released
          slave,   \* st, n bits into the byte, shift, the register pointer, drive
          mem,     \* the slave's registers
          got,     \* the bits the master has read
          prog,    \* the line changes still to come
          todo,    \* the transactions still to come
          now,     \* the transaction in progress, and the memory before it
          cut    \* history: the CH32X was reset, and what the slave was doing

busvars == <<line, slave, mem, got, prog, todo, now, cut>>
Idle == [st |-> "idle", n |-> 0, shift |-> 0, ptr |-> 0, drive |-> FALSE]

BusInit == /\ line = [sda |-> TRUE, scl |-> TRUE] /\ slave = Idle /\ mem \in [Byte -> {5}]
        /\ got = <<>> /\ cut = "none"
        /\ todo \in {<<t>> : t \in Transactions}
        /\ prog = <<>> /\ now = [op |-> "none", reg |-> 0, val |-> 0, mem |-> mem]

\* The slave at a falling SCL: after the byte it acknowledges, after the
\* acknowledgement it takes the byte, or sends the next bit.
Take(s) == CASE s.st = "address" -> IF s.shift \div 2 # Me THEN Idle
                                    ELSE [s EXCEPT !.st = IF s.shift % 2 = 1 THEN "send" ELSE "pointer"]
             [] s.st = "pointer" -> [s EXCEPT !.st = "data", !.ptr = s.shift]
             [] s.st = "data" -> [s EXCEPT !.ptr = (@ + 1) % 2^Bits]
             [] OTHER -> s
Drive(s) == IF s.st = "send" THEN [s EXCEPT !.drive = Bit(mem[s.ptr], s.n + 1) = 0] ELSE s
Falling(s) ==
    IF s.st \in {"idle", "started"} THEN [s EXCEPT !.st = IF @ = "started" THEN "address" ELSE @]
    ELSE IF s.st = "send"
         THEN IF s.n = Bits THEN [s EXCEPT !.drive = FALSE] ELSE Drive(s)
    ELSE IF s.n < Bits THEN s
    ELSE IF s.n = Bits /\ ~s.drive
         THEN IF s.st = "address" /\ s.shift \div 2 # Me THEN Idle ELSE [s EXCEPT !.drive = TRUE]
    ELSE Drive([Take(s) EXCEPT !.n = 0, !.shift = 0, !.drive = FALSE])

\* At a rising SCL it reads a bit, or the master's answer to its byte.
Rising(s, sda) ==
    IF s.st \in {"idle", "started"} \/ (s.drive /\ s.st # "send") THEN s
    ELSE IF s.st = "send"
         THEN IF s.n < Bits THEN [s EXCEPT !.n = @ + 1]
              ELSE IF sda THEN Idle ELSE [s EXCEPT !.n = 0, !.ptr = (@ + 1) % 2^Bits]
    ELSE IF s.n = Bits THEN s
    ELSE [s EXCEPT !.n = @ + 1, !.shift = 2 * @ + (IF sda THEN 1 ELSE 0)]

\* The lines change from l to k: START and STOP are edges of SDA at a high SCL.
Sda(l, s) == l.sda /\ ~s.drive
React(l, k, s) ==
    IF l.scl /\ ~k.scl THEN Falling(s)
    ELSE IF ~l.scl /\ k.scl THEN Rising(s, Sda(k, s))
    ELSE IF k.scl /\ Sda(l, s) /\ ~Sda(k, s) THEN [Idle EXCEPT !.st = "started", !.ptr = s.ptr]
    ELSE IF k.scl /\ ~Sda(l, s) /\ Sda(k, s) THEN [Idle EXCEPT !.ptr = s.ptr]
    ELSE s

Changed(l, c) == CASE c = "D" -> [l EXCEPT !.sda = TRUE] [] c = "d" -> [l EXCEPT !.sda = FALSE]
                   [] c = "C" -> [l EXCEPT !.scl = TRUE] [] c = "c" -> [l EXCEPT !.scl = FALSE]
                   [] OTHER -> l
Move(c) == /\ line' = Changed(line, c) /\ slave' = React(line, line', slave)
           /\ mem' = IF slave.st = "data" /\ slave.drive /\ line.scl /\ ~line'.scl
                     THEN [mem EXCEPT ![slave.ptr] = slave.shift] ELSE mem

Step == /\ prog # <<>> /\ prog' = Tail(prog) /\ Move(Head(prog))
        /\ got' = IF Head(prog) = "r" THEN Append(got, Sda(line, slave)) ELSE got
        /\ UNCHANGED <<todo, now, cut>>

Begin == /\ prog = <<>> /\ todo # <<>> /\ todo' = Tail(todo)
         /\ now' = [op |-> Head(todo).op, reg |-> Head(todo).reg, val |-> Head(todo).val, mem |-> mem]
         /\ prog' = Script(Head(todo)) /\ got' = <<>>
         /\ UNCHANGED <<line, slave, mem, cut>>

\* A reset lets both lines go, in either order; main then recovers the bus.
McuResets == /\ prog # <<>> /\ now.op # "none" /\ todo = <<>> /\ cut = "none"
             /\ \E order \in {<<"D", "C">>, <<"C", "D">>} : prog' = order \o I2C_init
             /\ cut' = IF slave.st = "send" THEN "send" ELSE "other"
             /\ \E t, u \in Transactions : todo' = <<t, u>>
             /\ now' = [now EXCEPT !.op = "none"] /\ got' = <<>>
             /\ UNCHANGED <<line, slave, mem>>

BusNext == Step \/ Begin \/ McuResets

-----------------------------------------------------------------------------
\* The transaction did what the firmware means by it, and nothing else.
Understood == IF now.op = "write" THEN mem = [now.mem EXCEPT ![now.reg] = now.val]
              ELSE mem = now.mem /\ got = [i \in 1..Bits |-> Bit(mem[now.reg], i) = 1]

\* A slave that was sending when the CH32X was reset is released: the first
\* transaction after the recovery is understood.  Whatever the reset cut, the
\* second one is.
SlaveUnderstands ==
    prog = <<>> /\ now.op # "none" /\ (cut = "send" \/ todo = <<>>) => Understood

-----------------------------------------------------------------------------
\* The three side by side.
vars == <<chargervars, sinkvars, busvars>>
Init == ChargerInit /\ SinkInit /\ BusInit
Next == \/ ChargerNext /\ UNCHANGED <<sinkvars, busvars>>
        \/ SinkNext /\ UNCHANGED <<chargervars, busvars>>
        \/ BusNext /\ UNCHANGED <<chargervars, sinkvars>>
Spec == Init /\ [][Next]_vars /\ ChargerFairness /\ WF_sinkvars(Poll)
=============================================================================
