------------------------------- MODULE CmdAuth -------------------------------
(***************************************************************************)
(* Backend-signed commands over MQTT: the SDK's event handler queues an    *)
(* envelope with the connection's generation, the command task checks it   *)
(* (cmdauth.c) and hands the frame inside to the ESP32 itself or to the    *)
(* RP2040.  The broker may deliver an envelope more than once and, across  *)
(* connections, out of order.                                              *)
(***************************************************************************)
EXTENDS Naturals, Sequences

CONSTANTS
    CAPACITY,       \* MQTT_COMMAND_CAPACITY
    Epochs,         \* what envelopes are signed under: 0, the pinned epoch, or
                    \* another key or epoch, or not validly at all
    Top,            \* bound: the highest counter
    MaxGeneration,  \* bound: connections
    MaxStoreFails   \* bound: failed writes and reads of the counter

VARIABLES
    offered,     \* envelopes the broker may deliver: counter and epoch
    connected, generation,
    s_commands,  \* the queue between the SDK's task and the command task
    s_ready,     \* cmdauth_init has read the provisioned key and epoch
    s_last_ctr,  \* the replay counter in RAM
    stored,      \* and in NVS
    ran, lapses  \* history: runs per envelope; counters not stored or not read
mqttvars == <<offered, connected, generation, s_commands, s_ready, s_last_ctr,
              stored, ran, lapses>>

Envelopes == [seq : 1..Top, by : Epochs]
CurEpoch == 0    \* cur_epoch, seeded from the provisioned epoch

Init ==
    /\ offered = {} /\ connected = FALSE /\ generation = 0 /\ s_commands = <<>>
    /\ s_ready \in BOOLEAN /\ s_last_ctr = 0 /\ stored = 0
    /\ ran = [e \in Envelopes |-> 0] /\ lapses = 0

Publishes ==
    /\ \E e \in Envelopes \ offered : offered' = offered \cup {e}
    /\ UNCHANGED <<connected, generation, s_commands, s_ready, s_last_ctr, stored, ran, lapses>>

Connects ==
    /\ ~connected /\ generation < MaxGeneration
    /\ connected' = TRUE /\ generation' = generation + 1
    /\ UNCHANGED <<offered, s_commands, s_ready, s_last_ctr, stored, ran, lapses>>

Disconnects ==
    /\ connected /\ connected' = FALSE
    /\ UNCHANGED <<offered, generation, s_commands, s_ready, s_last_ctr, stored, ran, lapses>>

\* MQTT_EVENT_DATA: a fragment, an oversized one or one too many is dropped.
OnData ==
    /\ connected
    /\ \E e \in offered :
        \/ Len(s_commands) < CAPACITY
           /\ s_commands' = Append(s_commands, [env |-> e, generation |-> generation])
        \/ UNCHANGED s_commands
    /\ UNCHANGED <<offered, connected, generation, s_ready, s_last_ctr, stored, ran, lapses>>

\* Mutant: the last counter is accepted again.
FreshOrLast(e) == e.by = CurEpoch /\ s_last_ctr <= e.seq

\* cmdauth_check_and_strip; expiry is checked only with a clock, and an
\* envelope too old is one more that may be refused.
Fresh(e) == e.by = CurEpoch /\ s_last_ctr < e.seq
Accept(e) ==
    /\ s_last_ctr' = e.seq
    /\ ran' = [ran EXCEPT ![e] = @ + 1]
    /\ \/ stored' = e.seq /\ UNCHANGED lapses
       \/ lapses < MaxStoreFails /\ lapses' = lapses + 1 /\ UNCHANGED stored

CommandTask ==
    /\ s_commands # <<>> /\ s_commands' = Tail(s_commands)
    /\ LET c == Head(s_commands) IN
        \/ /\ connected /\ c.generation = generation /\ s_ready
           /\ Fresh(c.env) /\ Accept(c.env)
        \/ UNCHANGED <<s_last_ctr, stored, ran, lapses>>
    /\ UNCHANGED <<offered, connected, generation, s_ready>>

\* cmdauth_init reads the counter back, or fails on the provisioned part; a
\* counter it cannot read is 0 from now on, in NVS too if that can be written.
Reboot ==
    /\ connected' = FALSE /\ s_commands' = <<>> /\ s_ready' \in BOOLEAN
    /\ \/ s_last_ctr' = stored /\ UNCHANGED <<stored, lapses>>
       \/ /\ stored > 0 /\ lapses < MaxStoreFails /\ lapses' = lapses + 1
          /\ s_last_ctr' = 0 /\ stored' \in {0, stored}
    /\ UNCHANGED <<offered, generation, ran>>

Next == Publishes \/ Connects \/ Disconnects \/ OnData \/ CommandTask \/ Reboot

\* Envelopes of the pinned epoch run in the order of their counters, each
\* once unless its counter could not be stored before a restart, or read in it.
Service == INSTANCE CommandService WITH
    Owners <- {CurEpoch}, Nobody <- CurEpoch + 1,
    Commands <- {e \in Envelopes : e.by = CurEpoch},
    owner <- CurEpoch, cursor <- s_last_ctr, stored <- stored, lapses <- lapses,
    runs <- [e \in {e \in Envelopes : e.by = CurEpoch} |-> ran[e]]

\* Every step of the broker, the command task and a restart is a step of the
\* abstract command service, or none that it sees.
ImplementsService == Service!Spec
=============================================================================
