----------------------------- MODULE HttpControl -----------------------------
(***************************************************************************)
(* HTTP control mode: the device posts its telemetry with the              *)
(* acknowledgements and refusals it owes (http_backend.c), the server      *)
(* clears those and answers with the commands it still holds               *)
(* (examples/http-control-server/server.py).  Requests and answers get     *)
(* lost, a request may reach the server after the device gave up on it,    *)
(* and a portal on the way may answer 2xx in the server's place.           *)
(***************************************************************************)
EXTENDS Naturals, Sequences, SequencesExt, FiniteSets

CONSTANTS
    ACK_PENDING_MAX,    \* acks a POST can carry; also CMDS_PER_RESP_MAX
    EXEC_RING_MAX,      \* executed ids the device remembers
    REJ_MAX,            \* refusals a POST can carry
    RESP_FIT,           \* commands that fit in HTTP_RESP_MAX - 1 bytes
    Limit,              \* --max-commands, or 0 for no limit
    MaxIds,             \* bound: commands enqueued per run of the server; MaxOdd + 1 of one
                        \* that restarts
    MaxOdd,             \* bound: the first ids, whose commands may be malformed
    MaxLate,            \* bound: abandoned requests still under way
    MaxExpired,         \* bound: commands that reach --cmd-max-age
    MaxRestarts,        \* bound: restarts of the device
    MaxServerRestarts,  \* bound: restarts of the server
    MaxRolls            \* bound: regenerations of the HTTP secret

VARIABLES
    dev,        \* RAM of the http task: s_pending, s_executed, s_rejected, s_resp_dropped
    secret,     \* the secret in the device's NVS
    post,       \* the POST under way: its body, the secret it is signed with, the answer
    late,       \* requests the device gave up on and the server has not read
    srv,        \* the server: limit, secret, commands, _next_id and its run number
    trouble,    \* what goes wrong in this behaviour: "device" (it restarts, commands expire,
                \* requests come late), "server" (it restarts, the secret changes) or
                \* "overrun" (no --max-commands)
    expired, restarts,
    ran,        \* history: how often each command was dispatched since the device started
    everRan,    \* history: commands dispatched at some time
    ackedBlind  \* history: a command was cleared as acknowledged and never dispatched
vars == <<dev, secret, post, late, srv, expired, restarts, ran, everRan, ackedBlind>>

\* What a command looks like to the device: a name it knows, another name, no
\* name, or an id of 48 characters and more.
Shapes == {"known", "unknown", "unnamed", "long_id"}
CutId == 0      \* the first 47 characters of a long id
WireId(c) == IF c.shape = "long_id" THEN CutId ELSE c.id
Commands == [id : 1..MaxIds, run : 0..MaxServerRestarts, shape : Shapes]

Idle == [st |-> "idle"]
EmptyRam == [pending |-> <<>>, executed |-> <<>>, rejected |-> <<>>, dropped |-> FALSE]

Init ==
    /\ dev = EmptyRam /\ secret = 0 /\ post = Idle /\ late = {}
    /\ trouble \in {"device", "server", "overrun"}
    /\ srv = [limit |-> IF trouble = "overrun" THEN 0 ELSE Limit, secret |-> 0, commands |-> <<>>,
              next_id |-> 1, run |-> 0]
    /\ expired = 0 /\ restarts = 0
    /\ ran = [c \in Commands |-> 0] /\ everRan = {} /\ ackedBlind = FALSE

----------------------------------------------------------------------------
\* Device: the books of the http task.

Newest(s, n) == SubSeq(s, Len(s) - Min({n, Len(s)}) + 1, Len(s))
DropFront(s, n) == SubSeq(s, Min({n, Len(s)}) + 1, Len(s))

\* The ring holds the last EXEC_RING_MAX ids.
exec_seen(d, id) == id \in Range(d.executed)
exec_add(d, id) == [d EXCEPT !.executed = Newest(Append(@, id), EXEC_RING_MAX)]

ack_add(d, id) ==
    IF id \in Range(d.pending) THEN d
    ELSE [d EXCEPT !.pending = Newest(Append(@, id), ACK_PENDING_MAX)]

rej_add(d, id, reason) ==
    LET new == [id |-> id, reason |-> reason]
        at == {i \in DOMAIN d.rejected : d.rejected[i].id = id} IN
    [d EXCEPT !.rejected =
        IF at # {} THEN [i \in DOMAIN @ |-> IF i \in at THEN new ELSE @[i]]
        ELSE Newest(Append(@, new), REJ_MAX)]

\* Mutant: a command seen before is skipped without a word.
EntryNotReacked(d, c) ==
    CASE c.shape = "long_id" -> rej_add(d, CutId, "bad_id")
      [] c.shape # "long_id" /\ exec_seen(d, c.id) -> d
      [] c.shape \in {"unnamed", "unknown"} /\ ~exec_seen(d, c.id) -> rej_add(d, c.id, "bad_args")
      [] OTHER -> [ack_add(exec_add(d, c.id), c.id) EXCEPT !.out = Append(@, c)]

\* What carrying out one entry of a response does to the books.  The payload
\* of a known name always fits, so dispatching it never fails.
Entry(d, c) ==
    CASE c.shape = "long_id" -> rej_add(d, CutId, "bad_id")
      [] c.shape # "long_id" /\ exec_seen(d, c.id) -> ack_add(d, c.id)
      [] c.shape = "unnamed" /\ ~exec_seen(d, c.id) -> rej_add(d, c.id, "bad_args")
      [] c.shape = "unknown" /\ ~exec_seen(d, c.id) -> rej_add(d, c.id, "unsupported_cmd")
      [] OTHER -> [ack_add(exec_add(d, c.id), c.id) EXCEPT !.out = Append(@, c)]

\* handle_response: the first CMDS_PER_RESP_MAX entries, if the signature is
\* over this request's nonce; "out" collects what is dispatched.
Applied(d, reply) ==
    LET d0 == [out |-> <<>>] @@ d IN
    IF reply.signed /\ reply.commands # <<>>
    THEN FoldLeft(Entry, d0, SubSeq(reply.commands, 1, Min({ACK_PENDING_MAX, Len(reply.commands)})))
    ELSE d0

\* A 2xx proves that the server saw the body: what it carried is forgotten
\* before the answer is applied.
Delivered(d, body) ==
    [d EXCEPT !.pending = DropFront(@, Len(body.acks)),
              !.rejected = DropFront(@, Len(body.rejected)),
              !.dropped = @ /\ ~body.dropped]

\* build_body, without the telemetry (see ArkivWriter).
Body == [acks |-> dev.pending, rejected |-> dev.rejected, dropped |-> dev.dropped]

PostOnce ==
    /\ post.st = "idle"
    /\ post' = [st |-> "sent", body |-> Body, secret |-> secret]
    /\ UNCHANGED <<dev, secret, late, srv, expired, restarts, ran, everRan, ackedBlind>>

\* No answer within HTTP_TIMEOUT_MS, or a transport error: nothing is
\* forgotten.  The request may be lost, read already, or still under way.
PostFails ==
    /\ post.st \in {"sent", "answered"}
    /\ post' = Idle
    /\ \/ UNCHANGED late
       \/ /\ trouble = "device" /\ post.st = "sent" /\ Cardinality(late) < MaxLate
          /\ late' = late \cup {[body |-> post.body, secret |-> post.secret]}
    /\ UNCHANGED <<dev, secret, srv, expired, restarts, ran, everRan, ackedBlind>>

\* esp_http_client_perform returned an answer other than 2xx.
Refused ==
    /\ post.st = "answered" /\ ~post.reply.ok
    /\ post' = Idle
    /\ UNCHANGED <<dev, secret, late, srv, expired, restarts, ran, everRan, ackedBlind>>

\* A 2xx.  A body beyond the capture buffer is dropped whole and reported.
Receive ==
    /\ post.st = "answered" /\ post.reply.ok
    /\ LET d == Delivered(dev, post.body)
           new == Applied(d, post.reply)
           done == Range(new.out) IN
       IF Len(post.reply.commands) > RESP_FIT
       THEN dev' = [d EXCEPT !.dropped = TRUE] /\ UNCHANGED <<ran, everRan>>
       ELSE /\ dev' = [f \in DOMAIN dev |-> new[f]]
            /\ ran' = [c \in Commands |-> ran[c] + Cardinality({i \in DOMAIN new.out : new.out[i] = c})]
            /\ everRan' = everRan \cup done
    /\ post' = Idle
    /\ UNCHANGED <<secret, late, srv, expired, restarts, ackedBlind>>

\* Power loss or restart: the books are in RAM, the secret is in flash.
Restart ==
    /\ trouble = "device" /\ restarts < MaxRestarts /\ restarts' = restarts + 1
    /\ dev' = EmptyRam /\ post' = Idle /\ ran' = [c \in Commands |-> 0]
    /\ UNCHANGED <<secret, late, srv, expired, everRan, ackedBlind>>

\* http_cfg_regenerate_secret, from the system menu; a failed write changes
\* nothing.
RegenerateSecret ==
    /\ trouble = "server" /\ secret < MaxRolls /\ secret' = secret + 1
    /\ UNCHANGED <<dev, post, late, srv, expired, restarts, ran, everRan, ackedBlind>>

----------------------------------------------------------------------------
\* Server: State and Handler of server.py.

Enqueue(shape) ==
    /\ srv.next_id <= (IF trouble = "server" THEN MaxOdd + 1 ELSE MaxIds)
    /\ (srv.next_id <= MaxOdd \/ shape = "known")
    /\ srv' = [srv EXCEPT !.next_id = @ + 1,
                          !.commands = Append(@, [id |-> srv.next_id, run |-> srv.run, shape |-> shape])]
    /\ UNCHANGED <<dev, secret, post, late, expired, restarts, ran, everRan, ackedBlind>>

Acked(body, c) == c.shape # "long_id" /\ c.id \in Range(body.acks)

\* A refusal of a long id carries its beginning and hits every command that
\* begins so; any other hits the command it names.
Rejected(body, c) == WireId(c) \in {r.id : r \in Range(body.rejected)}

\* apply_acks
Kept(body) == SelectSeq(srv.commands, LAMBDA c : ~Acked(body, c) /\ ~Rejected(body, c))

\* Mutant: the newest commands are handed out first.
TakenNewest(commands) ==
    IF srv.limit = 0 THEN commands ELSE Newest(commands, Min({srv.limit, RESP_FIT}))

\* take_pending: the oldest commands, as many as --max-commands and the body
\* allow; without a limit all of them, whatever their size.
Taken(commands) ==
    IF srv.limit = 0 THEN commands
    ELSE SubSeq(commands, 1, Min({srv.limit, RESP_FIT, Len(commands)}))

\* do_POST with a good signature: the acknowledgements, then the k commands
\* that reached --cmd-max-age, which are the oldest.
Left(body, k) == DropFront(Kept(body), k)
Serve(body, k) ==
    /\ k <= Len(Kept(body)) /\ expired + k <= MaxExpired /\ (k > 0 => trouble = "device")
    /\ srv' = [srv EXCEPT !.commands = Left(body, k)]
    /\ expired' = expired + k
    /\ ackedBlind' = (ackedBlind \/ \E c \in Range(srv.commands) : Acked(body, c) /\ c \notin everRan)

Answered(ok, signed, commands) ==
    [st |-> "answered", body |-> post.body, secret |-> post.secret,
     reply |-> [ok |-> ok, signed |-> signed, commands |-> commands]]

DoPost ==
    /\ post.st = "sent" /\ post.secret = srv.secret
    /\ \E k \in 0..MaxExpired :
        Serve(post.body, k) /\ post' = Answered(TRUE, TRUE, Taken(Left(post.body, k)))
    /\ UNCHANGED <<dev, secret, late, restarts, ran, everRan>>

\* A request signed with another secret changes nothing.
Unauthorized ==
    /\ post.st = "sent" /\ post.secret # srv.secret
    /\ post' = Answered(FALSE, FALSE, <<>>)
    /\ UNCHANGED <<dev, secret, late, srv, expired, restarts, ran, everRan, ackedBlind>>

\* The server reads a request whose sender no longer listens.
DoLatePost ==
    /\ \E r \in late :
        /\ late' = late \ {r}
        /\ IF r.secret = srv.secret THEN \E k \in 0..MaxExpired : Serve(r.body, k)
           ELSE UNCHANGED <<srv, expired, ackedBlind>>
    /\ UNCHANGED <<dev, secret, post, restarts, ran, everRan>>

\* A portal answers 2xx in the server's place; it cannot sign.
PortalAnswers ==
    /\ post.st = "sent"
    /\ post' = Answered(TRUE, FALSE, <<>>)
    /\ UNCHANGED <<dev, secret, late, srv, expired, restarts, ran, everRan, ackedBlind>>

\* The secret is a command-line argument and everything else is in memory: a
\* new secret means a new run of the server, which numbers from 1 again.
ServerRestarts ==
    /\ trouble = "server" /\ srv.run < MaxServerRestarts
    /\ srv' = [srv EXCEPT !.secret = secret, !.commands = <<>>, !.next_id = 1, !.run = @ + 1]
    /\ UNCHANGED <<dev, secret, post, late, expired, restarts, ran, everRan, ackedBlind>>

Next ==
    /\ UNCHANGED trouble
    /\ \/ PostOnce \/ PostFails \/ Refused \/ Receive \/ Restart \/ RegenerateSecret
       \/ (\E shape \in Shapes : Enqueue(shape))
       \/ DoPost \/ Unauthorized \/ DoLatePost \/ PortalAnswers \/ ServerRestarts

\* The http task posts for ever, a POST ends within its timeout, and the network lets a POST through again
\* and again, whatever it carries.
Fairness ==
    /\ WF_vars(PostOnce) /\ WF_vars(Receive \/ Refused \/ PostFails)
    /\ SF_vars(DoPost) /\ SF_vars(Receive /\ post.reply.signed)
    /\ SF_vars(DoPost /\ post.body.acks # <<>>) /\ SF_vars(DoPost /\ post.body.rejected # <<>>)
Spec == Init /\ [][Next]_<<vars, trouble>> /\ Fairness

----------------------------------------------------------------------------
\* "Idempotent by id": between two restarts the device dispatches no command
\* twice, although answers get lost after the server read the request and a
\* portal makes the device forget acknowledgements the server never saw
\* (handle_response, exec_seen).
AtMostOnce == \A c \in Commands : ran[c] <= 1

\* Why: whatever the server may still send, or has sent, and has run already
\* is among the ids the ring remembers (exec_add).
RingCovers ==
    \A c \in Range(srv.commands) \cup (IF post.st = "answered" THEN Range(post.reply.commands) ELSE {}) :
        ran[c] > 0 => exec_seen(dev, c.id)

\* "The device acks a command once it has dispatched" it: the server clears
\* nothing as acknowledged that was never dispatched (apply_acks).  A server
\* that starts again reuses its ids, so this is claimed of one run of it.
AckMeansDispatched == ~ackedBlind
AckTruthfulInRun == srv.run = 0 => AckMeansDispatched

HttpSound == AtMostOnce /\ AckTruthfulInRun

\* Every command leaves the server's queue in the end, be it acknowledged or
\* refused, when the server keeps to the device's limits and has its secret.
QueueDrained == srv.limit \in 1..RESP_FIT /\ secret = srv.secret => srv.commands = <<>>
QueueDrains == []<>QueueDrained
=============================================================================
