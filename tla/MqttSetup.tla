----------------------------- MODULE MqttSetup ------------------------------
(***************************************************************************)
(* How the MQTT owner task makes the SDK client (sdk_start in mqtt.c,      *)
(* esp_mqtt_client_init and what it calls in mqtt_client.c), starts its    *)
(* task, and revives a task that gave up (mqtt_sdk_adapter.c), when any    *)
(* of the allocations on the way may fail.  A block of memory is named by  *)
(* the pointer that holds it: ptr are the pointers that are not NULL, live *)
(* the blocks the heap has given out; free() of a pointer in ptr \ live is *)
(* a double free.  Configuration the device never sets (path, interface,   *)
(* ALPN, client keys, another transport) allocates nothing.                *)
(***************************************************************************)
EXTENDS Naturals, Sequences, SequencesExt

CONSTANTS Failing,       \* the allocations that may fail
          MaxFailures,   \* how many of them do, in a behaviour
          RejectsMax     \* MQTT_RECONN_REJECTS_MAX

Data == {"error_handle", "api_lock", "outbox", "status_bits"}
Buffers == {"buffer", "in_buffer"}
Information == {"username", "password", "client_id", "will_topic", "will_message"}
Strings == Information \union {"uri"}
Uri == {"scheme", "host"}
\* The order in which one call of sdk_start allocates.
Plan == <<"client", "error_handle", "api_lock", "outbox", "status_bits", "config", "buffer", "in_buffer",
          "username", "password", "client_id", "uri", "will_topic", "will_message", "scheme", "host",
          "check", "event_loop", "handler", "publish", "task">>
Needed == ToSet(Plan) \ {"check", "publish", "task"}

VARIABLES at,            \* the owner's next step in Plan; 0 outside sdk_start
          ptr, live,
          s_client, s_started, rejects,
          tasks,         \* mqtt_tasks created and not deleted: "new", "run"
          state, stopped, \* client->state, and STOPPED_BIT
          reconnect,     \* RECONNECT_BIT
          failures,
          fault          \* "none", "double" free, or a store through "null"
vars == <<at, ptr, live, s_client, s_started, rejects, tasks, state, stopped, reconnect, failures, fault>>
heap == <<ptr, live>>
sdk == <<tasks, state, stopped, reconnect>>

Init == /\ at = 0 /\ ptr = {} /\ live = {} /\ s_client = FALSE /\ s_started = FALSE /\ rejects = 0
        /\ tasks = <<>> /\ state = "INIT" /\ stopped = FALSE /\ reconnect = FALSE
        /\ failures = 0 /\ fault = "none"

-----------------------------------------------------------------------------
Step == IF at = 0 THEN "none" ELSE Plan[at]
Given(b) == ptr' = ptr \union {b} /\ live' = live \union {b} /\ UNCHANGED failures
Fails(b) == b \in Failing /\ failures < MaxFailures /\ failures' = failures + 1
Onwards == at' = at + 1 /\ UNCHANGED <<s_client, s_started, rejects, sdk, fault>>

\* esp_mqtt_destroy_config on the pointers p: what it frees, and what is NULL
\* afterwards.  Nothing is done when there is no configuration.
Configured == Buffers \union Uri \union {"uri", "event_loop", "handler"} \union Information
destroy_configNotNull(p) ==
    IF "config" \notin p THEN [freed |-> {}, ptr |-> p]
    ELSE [freed |-> (Configured \union {"config"}) \intersect p, ptr |-> p \ Information]
destroy_config(p) ==
    IF "config" \notin p THEN [freed |-> {}, ptr |-> p]
    ELSE [freed |-> (Configured \union {"config"}) \intersect p, ptr |-> p \ ((Configured \union {"config"}) \ Buffers)]

\* esp_mqtt_client_destroy on them: the handle and all its pointers are gone.
client_destroy(p) == destroy_config(p).freed \union (p \intersect (Data \union {"transport_list", "ssl", "client"}))

Free(freed, l) == /\ live' = l \ freed
                  /\ fault' = IF freed \subseteq l THEN fault ELSE "double"
Gone(p, l) == Free(client_destroy(p), l) /\ ptr' = {}
\* esp_mqtt_client_init or sdk_start gives up: the owner tries again later.
GiveUp == at' = 0 /\ UNCHANGED <<s_client, s_started, rejects, sdk>>

-----------------------------------------------------------------------------
\* sdk_start: a client that is already there is only started again.
SdkStart == /\ at = 0 /\ ~s_started
            /\ at' = IF s_client THEN Len(Plan) ELSE 1
            /\ UNCHANGED <<heap, s_client, s_started, rejects, sdk, failures, fault>>

Allocate == Step \in Needed \ {"event_loop", "handler"} /\ Given(Step) /\ Onwards

ClientFails == /\ Step = "client" /\ Fails("client") /\ GiveUp /\ UNCHANGED <<heap, fault>>

create_client_data == Step \in Data /\ Fails(Step) /\ GiveUp /\ Gone(ptr, live)

ConfigFails == Step = "config" /\ Fails("config") /\ GiveUp /\ Gone(ptr, live)

\* Either buffer: the configuration is destroyed, but esp_mqtt_set_config
\* returns ESP_OK and esp_mqtt_client_init goes on.
BufferFails == /\ Step \in Buffers /\ Fails(Step)
               /\ LET d == destroy_config(ptr)
                  IN Free(d.freed, live) /\ ptr' = d.ptr
               /\ at' = SelectInSeq(Plan, LAMBDA s : s = "event_loop")
               /\ UNCHANGED <<s_client, s_started, rejects, sdk>>

StringFails == /\ Step \in Strings /\ Fails(Step)
               /\ LET d == destroy_config(ptr)
                  IN Gone(d.ptr, live \ d.freed)
               /\ GiveUp

\* esp_mqtt_client_set_uri does not look at what create_string returned.
UriFails == Step \in Uri /\ Fails(Step) /\ Onwards /\ UNCHANGED heap

\* The end of esp_mqtt_set_config: bounded service needs the mqtts scheme.
Check == /\ Step = "check"
         /\ \/ "scheme" \in ptr /\ Onwards /\ UNCHANGED <<heap, failures>>
            \/ "scheme" \notin ptr /\ GiveUp /\ Gone(ptr, live) /\ UNCHANGED failures

\* The loop's handle is stored in the configuration; its result is not looked at.
EventLoop == /\ Step = "event_loop"
             /\ \/ /\ "config" \in ptr /\ Given("event_loop") /\ Onwards
                \/ /\ "config" \notin ptr
                   /\ fault' = "null" /\ at' = 0
                   /\ UNCHANGED <<heap, s_client, s_started, rejects, sdk, failures>>
                \/ "config" \in ptr /\ Fails("event_loop") /\ Onwards /\ UNCHANGED heap

\* esp_mqtt_client_register_event, and sdk_start's answer to its failing.
Handler == /\ Step = "handler"
           /\ \/ "event_loop" \in ptr /\ Given("handler") /\ Onwards
              \/ "event_loop" \notin ptr /\ GiveUp /\ Gone(ptr, live) /\ UNCHANGED failures
              \/ "event_loop" \in ptr /\ Fails("handler") /\ GiveUp /\ Gone(ptr, live)

Publish == /\ Step = "publish" /\ at' = at + 1 /\ s_client' = TRUE
           /\ UNCHANGED <<heap, s_started, rejects, sdk, failures, fault>>

-----------------------------------------------------------------------------
\* esp_mqtt_client_start: its task is created and runs when it is scheduled.
Startable == state \in {"INIT", "DISCONNECTED"}
TaskCreated == /\ tasks' = Append(tasks, "new") /\ UNCHANGED <<state, stopped, reconnect, failures>>

Start == /\ Step = "task" /\ at' = 0
         /\ \/ Startable /\ TaskCreated /\ s_started' = TRUE
            \/ /\ Startable /\ Fails("task") /\ UNCHANGED <<sdk, s_started>>
         /\ UNCHANGED <<heap, s_client, rejects, fault>>

\* The owner's reconnect while the client is not connected: granted, or
\* counted; after RejectsMax of them the owner tries to revive the client.
Owner == at = 0 /\ s_started /\ state # "CONNECTED"
OwnerReconnect ==
    /\ Owner
    /\ \/ /\ state = "WAIT_RECONNECT" /\ ~reconnect
          /\ reconnect' = TRUE /\ rejects' = 0
       \/ /\ state # "WAIT_RECONNECT" /\ rejects + 1 < RejectsMax
          /\ rejects' = rejects + 1 /\ UNCHANGED reconnect
    /\ UNCHANGED <<at, heap, s_client, s_started, tasks, state, stopped, failures, fault>>

\* mqtt_sdk_revive_stopped
Revivable == state = "DISCONNECTED" /\ stopped /\ "run" \notin ToSet(tasks)
Revive ==
    /\ Owner /\ state # "WAIT_RECONNECT" /\ rejects + 1 >= RejectsMax /\ rejects' = 0
    /\ \/ ~Revivable /\ UNCHANGED <<sdk, failures>>
       \/ /\ Revivable /\ stopped' = FALSE /\ tasks' = Append(tasks, "new")
          /\ UNCHANGED <<state, reconnect, failures>>
       \/ /\ Revivable /\ Fails("task")      \* STOPPED_BIT is set again
          /\ UNCHANGED sdk
    /\ UNCHANGED <<at, heap, s_client, s_started, fault>>

-----------------------------------------------------------------------------
Running == "run" \in ToSet(tasks)
Quiet == UNCHANGED <<at, s_client, s_started, rejects>>

\* esp_mqtt_task begins.
TaskBegins == /\ "new" \in ToSet(tasks)
              /\ tasks' = [tasks EXCEPT ![SelectInSeq(tasks, LAMBDA t : t = "new")] = "run"]
              /\ state' = "INIT" /\ stopped' = FALSE
              /\ Quiet /\ UNCHANGED <<heap, reconnect, failures, fault>>

\* esp_mqtt_client_create_transport: the old list, with what it holds, is
\* destroyed before the new one is made.
Transports == {"transport_list", "ssl"}
Replaced(made) == /\ live' = (live \ Transports) \union made /\ ptr' = (ptr \ Transports) \union made
                  /\ fault' = IF Transports \intersect ptr \subseteq live THEN fault ELSE "double"
                  /\ reconnect' = FALSE

create_transport == /\ Running /\ state = "INIT" /\ Replaced(Transports) /\ state' = "BOUNDED_CONNECT"
                    /\ Quiet /\ UNCHANGED <<tasks, stopped, failures>>

\* One of the two fails: run is cleared, the loop ends, the task deletes itself.
TransportFails == /\ Running /\ state = "INIT"
                  /\ \/ Fails("transport_list") /\ Replaced({})
                     \/ Fails("ssl") /\ Replaced({"transport_list"})
                  /\ state' = "DISCONNECTED" /\ stopped' = TRUE
                  /\ tasks' = RemoveAt(tasks, SelectInSeq(tasks, LAMBDA t : t = "run"))
                  /\ Quiet

\* mqtt_transport_nb_connect wants a host; the network may fail it too.
Connect == /\ Running /\ state = "BOUNDED_CONNECT" /\ "host" \in ptr /\ state' = "CONNECTED"
           /\ Quiet /\ UNCHANGED <<heap, tasks, stopped, reconnect, failures, fault>>
ConnectFails == /\ Running /\ state = "BOUNDED_CONNECT"
                /\ \/ "host" \notin ptr /\ UNCHANGED failures
                   \/ Fails("connect")
                /\ state' = "WAIT_RECONNECT"
                /\ Quiet /\ UNCHANGED <<heap, tasks, stopped, reconnect, fault>>
ConnectionLost == /\ Running /\ state = "CONNECTED" /\ state' = "WAIT_RECONNECT"
                  /\ Quiet /\ UNCHANGED <<heap, tasks, stopped, reconnect, failures, fault>>
Reconnects == /\ Running /\ state = "WAIT_RECONNECT" /\ reconnect
              /\ reconnect' = FALSE /\ state' = "INIT"
              /\ Quiet /\ UNCHANGED <<heap, tasks, stopped, failures, fault>>

\* A store through NULL is an exception: the chip restarts.
Panic == /\ fault = "null" /\ fault' = "none" /\ ptr' = {} /\ live' = {} /\ at' = 0
         /\ s_client' = FALSE /\ s_started' = FALSE /\ rejects' = 0
         /\ tasks' = <<>> /\ state' = "INIT" /\ stopped' = FALSE /\ reconnect' = FALSE
         /\ UNCHANGED failures

OwnerStep == \/ SdkStart \/ Allocate \/ ClientFails \/ create_client_data \/ ConfigFails
             \/ BufferFails \/ StringFails \/ UriFails \/ Check \/ EventLoop \/ Handler
             \/ Publish \/ Start \/ OwnerReconnect \/ Revive
TaskStep == TaskBegins \/ create_transport \/ TransportFails \/ Connect \/ ConnectFails \/ Reconnects
Next == \/ fault # "null" /\ (OwnerStep \/ TaskStep \/ ConnectionLost)
        \/ Panic

\* The owner's loop and the client's task are scheduled; an exception restarts.
Fairness == WF_vars(fault # "null" /\ OwnerStep) /\ WF_vars(fault # "null" /\ TaskStep) /\ WF_vars(Panic)
Spec == Init /\ [][Next]_vars /\ Fairness

-----------------------------------------------------------------------------
\* What sdk_start leaves behind, whichever allocation failed in it: without a
\* handle nothing of the attempt is left on the heap; with one, everything the
\* client uses is there, the handler included, but for the host, whose
\* allocation nobody looks at.  No block is freed twice, no pointer of a
\* client in use dangles, and no client ever has two tasks.
SetupSound ==
    /\ fault # "double"
    /\ at = 0 /\ ~s_client /\ fault = "none" => live = {}
    /\ s_client => (Needed \ {"host"}) \subseteq live /\ ptr \subseteq live
    /\ Len(tasks) <= 1
    /\ s_started => s_client

\* However the allocations fail, when they stop failing the client gets its
\* connection: the start is repeated, a task that gave up is revived.  Only a
\* client made without its host never connects.
Connected == state = "CONNECTED" \/ (s_client /\ "host" \notin ptr)
SetupEnds == []<>Connected

\* mqtt_client.h says of esp_mqtt_client_init "mqtt_client_handle if
\* successfully created, NULL on error": a failed buffer is not reported, and
\* the next line stores through the destroyed configuration.
NullOnError == fault # "null"
=============================================================================
