----------------------------- MODULE MCCommands -----------------------------
\* The two signed-command paths, one behaviour at a time: a device is in one
\* backend mode per boot, so the other path stays as it was at start-up.
EXTENDS ArkivCommands

CONSTANTS o1, o2,
    MQTT_COMMAND_CAPACITY, Epochs, TopEnvelope, MaxConnects, MaxStoreFails    \* CmdAuth's
ASSUME EnvelopesNumbered == TopEnvelope \in Nat

VARIABLES path,
    offered, connected, generation, s_commands, s_ready, s_last_ctr, stored, envRan, envLapses
mqttvars == <<offered, connected, generation, s_commands, s_ready, s_last_ctr,
              stored, envRan, envLapses>>

MQTT == INSTANCE CmdAuth WITH
    CAPACITY <- MQTT_COMMAND_CAPACITY, Top <- TopEnvelope, MaxGeneration <- MaxConnects,
    ran <- envRan, lapses <- envLapses

MCOwners == {o1, o2}

\* Nothing, or four entities left while the device was off, numbered in turn or
\* with the last or the last but one repeating a number.
MCNumberings == {<<1, 2, 3, last>> : last \in 1..4} \cup {<<1, 2, 2, 3>>}
MCBacklogs == {<<>>} \cup
    {[i \in 1..4 |-> [seq |-> numbers[i], by |-> who[i], frame |-> i]] :
        numbers \in MCNumberings, who \in [1..4 -> MCOwners]}

\* Three situations on Arkiv: the subscriber runs beside the poll task; the
\* binding changes under the poll task alone; a backlog meets the poll task.
MCInit ==
    /\ Init /\ nvs.owner = o1 /\ MQTT!Init
    /\ path \in {"arkiv", "mqtt"}
    /\ path # "mqtt" => s_ready
    /\ \/ chain = <<>> /\ ws.sub = "off" /\ binds = 0
       \/ path = "arkiv" /\ chain = <<>> /\ ws.sub = "down" /\ binds = MaxBinds
       \/ path = "arkiv" /\ chain # <<>> /\ ws.sub = "off" /\ binds = MaxBinds

MCNext ==
    /\ UNCHANGED path
    /\ \/ /\ path = "arkiv" /\ Next
          /\ UNCHANGED mqttvars
       \/ path = "mqtt" /\ MQTT!Next /\ UNCHANGED vars

\* The fairness of ArkivCommands, for the behaviours that are on Arkiv.
MCFairness ==
    /\ WF_vars(path = "arkiv" /\ PollWakes)
    /\ WF_vars(path = "arkiv" /\ \E t \in Tasks :
                 SweepBegins(t) \/ Dispatch(t) \/ Skip(t) \/ SweepEnds(t))
    /\ \A n \in 0..MAX_PAGES - 1 :
        SF_vars(path = "arkiv" /\ sweep.pages = n /\ \E t \in Tasks : Gather(t))
MCSpec == MCInit /\ [][MCNext]_<<vars, path, mqttvars>> /\ MCFairness

\* The MQTT path, too, implements the abstract command service (CmdAuth): an
\* envelope runs once, and only the pinned epoch's.
EnvelopesRunOnce == MQTT!ImplementsService
=============================================================================
