---------------------------- MODULE MCCh32x ---------------------------------
\* The CH32X, one part per behaviour: the output and its USB-PD source, what is
\* told about the supply, the charger, the sink at the input, and the bus to
\* these chips.
EXTENDS PowerOutput

CONSTANTS FaultHold, MaxWedges,    \* PowerEvents
          EventTrips               \* faults in a behaviour of PowerEvents

VARIABLES part,
    world, adc, chg, latch, evt, tx, time, left, note,
    vin, pack, chip, fault, reg, bat, stuck, block, spare, missed,
    src, latched, contract, optimized, asked, plugs,
    line, slave, mem, got, prog, todo, now, cut
evvars == <<world, adc, chg, latch, evt, tx, time, left, note>>
chvars == <<vin, pack, chip, fault, reg, bat, stuck, block, spare, missed>>
snvars == <<src, latched, contract, optimized, asked, plugs>>
i2vars == <<line, slave, mem, got, prog, todo, now, cut>>

E == INSTANCE PowerEvents WITH MaxTrips <- EventTrips
ASSUME EventConstants == E!PowerEventsConstants

\* Sources offering 500 mA, 2.75 A or 5 A, or nothing, at up to four voltages.
C == INSTANCE I2cChips WITH MaxSwaps <- 4, MaxTrips <- 2,
    MaxPlugs <- 1, UnseenSwaps <- FALSE,
    Offers <- {o \in [1..6 -> {-1, 0, 9, 15}] :
                  {i \in 1..6 : o[i] # -1} # {} /\ (o[3] = -1 \/ o[5] = -1)},
    Bits <- 3, Regs <- {2, 5}, Vals <- {3}

MaxInputs == 3      \* commands and messages of one behaviour of the output
MaxUpsets == 2      \* partners and glitches of one behaviour of the output

MCInit == /\ part \in {"output", "events", "charger", "sink", "bus"}
          /\ Init /\ E!Init /\ C!Init
          /\ part # "charger" => ~vin /\ pack = "out"
          /\ part # "bus" => todo = <<[op |-> "read", reg |-> 2, val |-> 0]>>

MCNext == /\ UNCHANGED part
          /\ \/ /\ part = "output" /\ Next
                /\ commands' + messages' <= MaxInputs /\ partners' + glitches' <= MaxUpsets
                /\ UNCHANGED <<evvars, chvars, snvars, i2vars>>
             \/ /\ part = "events" /\ E!Next /\ left'.wedges + left'.trips >= 1
                /\ UNCHANGED <<vars, chvars, snvars, i2vars>>
             \/ part = "charger" /\ C!ChargerNext /\ UNCHANGED <<vars, evvars, snvars, i2vars>>
             \/ part = "sink" /\ C!SinkNext /\ UNCHANGED <<vars, evvars, chvars, i2vars>>
             \/ part = "bus" /\ C!BusNext /\ UNCHANGED <<vars, evvars, chvars, snvars>>

\* The fairness of PowerOutput and of the charger, in their behaviours.
MCSpec == /\ MCInit /\ [][MCNext]_<<part, vars, evvars, chvars, snvars, i2vars>>
          /\ WF_vars(part = "output" /\ PD_Det_Proc) /\ WF_vars(part = "output" /\ PdState)
          /\ WF_vars(part = "output" /\ Dispatch) /\ WF_vars(part = "output" /\ Reapply)
          /\ WF_vars(part = "output" /\ CycleEnds) /\ WF_vars(part = "output" /\ GoesDown)
          /\ WF_chvars(part = "charger" /\ C!Blocks) /\ SF_chvars(part = "charger" /\ C!ReadAll)

\* The converter comes back to its setpoint, and a power cycle gives the power
\* back.
OutputReturns == RailRestored /\ CycleCompletes

\* The supply's alarms tell what happened (PowerEvents).
AlarmsSound == E!AlarmsSound

\* The sink asks for the best of what its source offers, and what the master
\* means on the bus is what the slave takes it for (I2cChips).
BusSound == C!SinkSettled /\ C!SlaveUnderstands

\* A battery that needs charge and can have it is charged again, unless it
\* was swapped too fast to be noticed (I2cChips).
ChargesAgain == part = "charger" => C!ChargesAgain
=============================================================================
