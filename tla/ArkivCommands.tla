---------------------------- MODULE ArkivCommands ----------------------------
(***************************************************************************)
(* Commands an owner leaves on the Arkiv chain.  Two tasks of the ESP32    *)
(* (the poll task and the worker of the websocket subscriber) sweep the    *)
(* chain under one lock: they gather the entities above the replay counter *)
(* page by page, newest first, and then dispatch them oldest number first. *)
(* A dispatched frame goes to the RP2040, whose answer comes back on the   *)
(* receive task and becomes an acknowledgement on the chain.               *)
(*                                                                         *)
(* An entity is its number, its signer and the SEQ byte of its frame.  The *)
(* format and signature checks are one outcome: an entity of a wallet that *)
(* is not bound stands for every malformed or forged one.  A wallet with   *)
(* the epoch it signs under is one member of Owners.                       *)
(***************************************************************************)
EXTENDS Naturals, Sequences, FiniteSets

CONSTANTS
    Owners, Nobody,
    PAGE_N, MAX_PAGES, MAX_PER_SWEEP, MAX_RESWEEPS,   \* ARKIV_CMD_*
    SLOTS,             \* ARKIV_ACK_SLOTS
    QUEUE_LEN,         \* ARKIV_WS_WORK_QUEUE_LEN
    SEQ_BYTES,         \* values of a frame's SEQ byte, handed out in turn
    Backlogs,          \* the chains the device may find when it starts
    Top,               \* bound: the highest number, and the entities of a backlog
    MaxChain,          \* bound: entities, and numbers, created as the device runs
    MaxBinds,          \* bound: unbindings and bindings
    MaxFaults          \* bound: failed or torn NVS operations, failed reads included

ASSUME ArkivConstants ==
    /\ Nobody \notin Owners
    /\ {PAGE_N, MAX_PAGES, MAX_PER_SWEEP, SLOTS, QUEUE_LEN, SEQ_BYTES, Top} \subseteq Nat \ {0}
    /\ {MAX_RESWEEPS, MaxChain, MaxBinds, MaxFaults} \subseteq Nat
    /\ MaxChain <= Top
    /\ \A b \in Backlogs :
        /\ b \in Seq([seq : 1..Top, by : Owners, frame : Nat]) /\ Len(b) <= Top
        /\ \A i, j \in DOMAIN b : i # j => b[i].frame # b[j].frame

VARIABLES
    chain,    \* w3pups-cmd entities for this device, in order of creation
    auth,     \* cmdauth_arkiv.c in RAM: owner, enc, ctr, claimed
    nvs,      \* its keys in flash
    left,     \* sweeps each task may still make before it sleeps
    sweep,    \* the sweep in progress, or NoSweep
    ws,       \* the subscription: its state and the length of the work queue
    slots,    \* arkiv_ack.c, oldest first: SEQ byte and command
    line,     \* commands at the RP2040 or on the way to or from it
    release,  \* the receive task between enqueueing an ack and its release
    astray,   \* history: acks that name another command than the one answered
    ran,      \* history: runs of each command under the present binding
    lapses,   \* history: numbers that could not be stored, or read back
    hidden,   \* history: entities below the pages of an incomplete gather, or passed by a stale sweep
    unmapped, \* history: those of line whose mapping expired or was evicted
    retired,  \* history: bindings that were erased
    rebound,  \* history: an owner was bound under an epoch that had been erased
    binds, faults
vars == <<chain, auth, nvs, left, sweep, ws, slots, line, release, astray, ran,
          lapses, hidden, unmapped, retired, rebound, binds, faults>>
binding == <<auth, nvs, retired, rebound, binds>>
answering == <<slots, line, release, astray, unmapped>>
ghosts == <<ran, lapses, hidden>>

Tasks == {"arkiv_poll", "arkiv_ws_wk"}
NoSweep == [by |-> "none", pages |-> 0]
Keys(o, e, n, c) == [owner |-> o, enc |-> e, ctr |-> n, claimed |-> c]
Unbound == Keys(Nobody, Nobody, 0, FALSE)
CMD_CAND_MAX == MAX_PER_SWEEP + PAGE_N
Ids == 1..Top
NeverRan == [i \in Ids |-> 0]

Init ==
    /\ chain \in Backlogs /\ sweep = NoSweep
    /\ \E o \in Owners : nvs = Keys(o, o, 0, TRUE)
    /\ auth = nvs
    /\ left = [t \in Tasks |-> 0]
    /\ ws \in [sub : {"off", "down"}, queue : {0}]
    /\ slots = <<>> /\ line = {} /\ release = 0 /\ astray = {}
    /\ ran = NeverRan /\ lapses = 0 /\ hidden = {} /\ unmapped = {}
    /\ retired = {} /\ rebound = FALSE /\ binds \in {0, MaxBinds} /\ faults = 0

(***************************************************************************)
(* The chain and the subscription                                          *)
(***************************************************************************)
Valid(i) == chain[i].by = auth.owner /\ auth.claimed
Enqueued(q) == IF q < QUEUE_LEN THEN q + 1 ELSE q

\* Anybody may leave an entity, with any number (arkiv_rpc.c does not ask for the
\* owner's).  SEQ bytes go round and are taken not to come round to a command that is
\* still to be answered (arkiv_ack.c calls that an upstream bug).
Unanswered == {i \in DOMAIN chain : (ran[i] = 0 /\ chain[i].by \notin retired) \/ i \in line}
Creates ==
    /\ Len(chain) < MaxChain
    /\ \E n \in 1..MaxChain, o \in Owners :
        LET f == Len(chain) % SEQ_BYTES
        IN /\ \A i \in Unanswered : chain[i].frame # f
           /\ chain' = Append(chain, [seq |-> n, by |-> o, frame |-> f])
    /\ \/ ws' = [ws EXCEPT !.queue = IF ws.sub = "subscribed" THEN Enqueued(@) ELSE @]
       \/ UNCHANGED ws              \* the notification is lost
    /\ UNCHANGED <<binding, left, sweep, answering, ghosts, faults>>

\* Every connection subscribes anew and asks for one catch-up sweep.
WsConnected ==
    /\ ws.sub = "down"
    /\ ws' = [sub |-> "asked", queue |-> Enqueued(ws.queue)]
    /\ UNCHANGED <<chain, binding, left, sweep, answering, ghosts, faults>>

WsSubscribed ==
    /\ ws.sub = "asked"
    /\ ws' = [ws EXCEPT !.sub = "subscribed"]
    /\ UNCHANGED <<chain, binding, left, sweep, answering, ghosts, faults>>

WsDisconnected ==
    /\ ws.sub \in {"asked", "subscribed"}
    /\ ws' = [ws EXCEPT !.sub = "down"]
    /\ UNCHANGED <<chain, binding, left, sweep, answering, ghosts, faults>>

(***************************************************************************)
(* A sweep                                                                 *)
(***************************************************************************)
PollWakes ==
    /\ left["arkiv_poll"] = 0
    /\ left' = [left EXCEPT !["arkiv_poll"] = MAX_RESWEEPS + 1]
    /\ UNCHANGED <<chain, binding, sweep, ws, answering, ghosts, faults>>

\* Everything already queued is served by one sweep.
WorkerWakes ==
    /\ left["arkiv_ws_wk"] = 0 /\ ws.queue > 0
    /\ ws' = [ws EXCEPT !.queue = 0]
    /\ left' = [left EXCEPT !["arkiv_ws_wk"] = MAX_RESWEEPS + 1]
    /\ UNCHANGED <<chain, binding, sweep, answering, ghosts, faults>>

SweepBegins(t) ==
    /\ left[t] > 0 /\ sweep.by # t
    /\ \/ ~auth.claimed /\ left' = [left EXCEPT ![t] = 0] /\ UNCHANGED sweep
       \/ /\ auth.claimed /\ sweep = NoSweep
          /\ sweep' = [by |-> t, gen |-> binds, base |-> auth.ctr, floor |-> Top + 1, pages |-> 0,
                       cand |-> {}, evicted |-> FALSE, complete |-> FALSE,
                       gathering |-> TRUE, dispatched |-> 0]
          /\ UNCHANGED left
    /\ UNCHANGED <<chain, binding, ws, answering, ghosts, faults>>

\* The order of candidates; within a page the newest entity comes first.
Before(i, j) == chain[i].seq < chain[j].seq \/ (chain[i].seq = chain[j].seq /\ i > j)
First(i) == i \in sweep.cand /\ \A j \in sweep.cand \ {i} : Before(i, j)
Lowest(S) == {i \in S : Cardinality({j \in S : Before(j, i)}) < CMD_CAND_MAX}

InWindow == {i \in DOMAIN chain : sweep.base < chain[i].seq /\ chain[i].seq < sweep.floor}
Page == {i \in InWindow : Cardinality({j \in InWindow : j > i}) < PAGE_N}
PageMin == CHOOSE n \in {chain[i].seq : i \in Page} : \A i \in Page : n <= chain[i].seq

\* One page.  The response window is re-checked, so a page is what the node
\* has in it; a short page ends the gather, and so does reaching base + 1.
Gather(t) ==
    /\ sweep.by = t /\ sweep.gathering
    /\ LET complete == Cardinality(Page) < PAGE_N \/ PageMin <= sweep.base + 1
           again == ~complete /\ sweep.pages + 1 < MAX_PAGES
           cand == Lowest(sweep.cand \cup Page)
       IN /\ sweep' = [sweep EXCEPT
                !.cand = cand,
                !.evicted = @ \/ cand # sweep.cand \cup Page,
                !.complete = complete,
                !.gathering = again,
                !.pages = IF again THEN @ + 1 ELSE 0,
                !.floor = IF again THEN PageMin ELSE Top + 1]
          /\ hidden' = IF complete \/ again THEN hidden
                       ELSE hidden \cup {i \in InWindow : chain[i].seq < PageMin}
    /\ UNCHANGED <<chain, binding, left, ws, answering, ran, lapses, faults>>

\* Mutant: an error ends the gather and what was gathered is dispatched.
GatherAbortedDispatches(t) ==
    /\ sweep.by = t /\ sweep.gathering
    /\ sweep' = [sweep EXCEPT !.gathering = FALSE, !.pages = 0]
    /\ UNCHANGED <<chain, binding, left, ws, answering, ghosts, faults>>

\* Any error of the node, the network or the parser: nothing is dispatched.
GatherAborted(t) ==
    /\ sweep.by = t /\ sweep.gathering
    /\ sweep' = NoSweep
    /\ left' = [left EXCEPT ![t] = 0]
    /\ UNCHANGED <<chain, binding, ws, answering, ghosts, faults>>

\* The slot of a SEQ byte, if it has one (arkiv_ack_has_pending, and the
\* lookup of arkiv_ack_emit).
Pending(f) == {k \in DOMAIN slots : slots[k].frame = f}
Without(s, k) == [j \in 1..(Len(s) - 1) |-> IF j < k THEN s[j] ELSE s[j + 1]]

\* arkiv_ack_track_pending: refresh in place, else a free slot, else evict.
Track(i) ==
    LET f == chain[i].frame
        m == [frame |-> f, cmd |-> i]
    IN \/ \E k \in Pending(f) : slots' = Append(Without(slots, k), m)
       \/ Pending(f) = {} /\ Len(slots) < SLOTS /\ slots' = Append(slots, m)
       \/ Pending(f) = {} /\ Len(slots) >= SLOTS /\ slots' = Append(Without(slots, 1), m)
Mapped(s) == {s[k].cmd : k \in DOMAIN s}
Unmapped(s) == unmapped \cup ((Mapped(slots) \ Mapped(s)) \cap line)

Budget(c) == faults + c <= MaxFaults /\ faults' = faults + c

\* Mutant: the signer is not compared with the owner.
AcceptedAnyone(i) == auth.claimed /\ chain[i].seq > auth.ctr

\* cmdauth_arkiv_check: every check, then the counter in RAM and in flash.
Accepted(i) == Valid(i) /\ chain[i].seq > auth.ctr
Advance(i) ==
    /\ auth' = [auth EXCEPT !.ctr = chain[i].seq]
    /\ ran' = [ran EXCEPT ![i] = @ + 1]
    /\ \/ nvs' = [nvs EXCEPT !.ctr = chain[i].seq] /\ UNCHANGED <<lapses, faults>>
       \/ Budget(1) /\ lapses' = lapses + 1 /\ UNCHANGED nvs
    /\ UNCHANGED <<binds, retired, rebound>>

\* The frame goes to the RP2040 and its mapping waits for the answer.
Forward(i) ==
    /\ Track(i)
    /\ line' = line \cup {i}
    /\ unmapped' = Unmapped(slots') \ {i}
    /\ UNCHANGED <<release, astray>>

\* fw.update and system.reset are served here and acknowledged at once, or
\* the writer's queue is full and the mapping stays.
LocalOp(i) ==
    /\ \/ UNCHANGED <<slots, unmapped>>
       \/ Track(i) /\ unmapped' = Unmapped(slots')
    /\ UNCHANGED <<line, release, astray>>

Dispatching(t) ==
    /\ sweep.by = t /\ ~sweep.gathering
    /\ sweep.cand # {} /\ sweep.dispatched < MAX_PER_SWEEP

\* A sweep begun under an earlier binding goes on with that one's window.
Passes(i) == IF sweep.gen = binds THEN {} ELSE {k \in DOMAIN chain : chain[k].seq <= chain[i].seq}
Dispatch(t) ==
    /\ Dispatching(t)
    /\ \E i \in sweep.cand :
        /\ First(i) /\ Accepted(i)
        /\ Advance(i) /\ hidden' = hidden \cup Passes(i)
        /\ \/ /\ Forward(i)
              /\ sweep' = [sweep EXCEPT !.cand = @ \ {i}, !.dispatched = @ + 1]
           \/ /\ LocalOp(i)      \* and the sweep stops
              /\ sweep' = [sweep EXCEPT !.cand = @ \ {i}, !.dispatched = MAX_PER_SWEEP]
    /\ UNCHANGED <<chain, left, ws>>

\* An entity the checks refuse, or one the counter has passed, is skipped.
Skip(t) ==
    /\ Dispatching(t)
    /\ \E i \in sweep.cand :
        First(i) /\ ~Accepted(i) /\ sweep' = [sweep EXCEPT !.cand = @ \ {i}]
    /\ UNCHANGED <<chain, binding, left, ws, answering, ghosts, faults>>

\* Mutant: the lock is not given back.
SweepEndsKeepsLock(t) ==
    /\ sweep.by = t /\ ~sweep.gathering /\ ~Dispatching(t)
    /\ left' = [left EXCEPT ![t] = 0]
    /\ UNCHANGED <<chain, binding, sweep, ws, answering, ghosts, faults>>

\* More is left behind: the task sweeps again, a bounded number of times.
SweepEnds(t) ==
    /\ sweep.by = t /\ ~sweep.gathering /\ ~Dispatching(t)
    /\ sweep' = NoSweep
    /\ LET more == sweep.dispatched > 0 /\ (sweep.cand # {} \/ sweep.evicted \/ ~sweep.complete)
       IN left' = [left EXCEPT ![t] = IF more THEN @ - 1 ELSE 0]
    /\ UNCHANGED <<chain, binding, ws, answering, ghosts, faults>>

(***************************************************************************)
(* Answers and acknowledgements                                            *)
(***************************************************************************)
\* The RP2040 never answers: the frame, the answer or the chip was lost.
AnswerLost ==
    /\ \E i \in line : line' = line \ {i} /\ unmapped' = unmapped \ {i}
    /\ UNCHANGED <<chain, binding, left, sweep, ws, slots, release, astray, ghosts, faults>>

MappingExpires ==
    /\ slots # <<>>
    /\ slots' = Without(slots, 1) /\ unmapped' = Unmapped(slots')
    /\ UNCHANGED <<chain, binding, left, sweep, ws, line, release, astray, ghosts, faults>>

\* arkiv_ack_emit up to the writer's queue: the mapping is copied, and kept
\* when the writer is not ready, cannot seal or has no room.
Emit(i) ==
    \/ \E k \in Pending(chain[i].frame) :
        /\ astray' = astray \cup ({<<slots[k].cmd, i>>} \ {<<i, i>>})
        /\ release' = slots[k].cmd
    \/ UNCHANGED <<astray, release>>

\* An answer without a mapping, or one not emitted, goes to MQTT.
OnResponse ==
    /\ release = 0
    /\ \E i \in line :
        /\ line' = line \ {i} /\ unmapped' = unmapped \ {i}
        /\ \/ auth.claimed /\ Emit(i)
           \/ ~auth.claimed /\ UNCHANGED <<astray, release>>
    /\ UNCHANGED <<chain, binding, left, sweep, ws, slots, ghosts, faults>>

\* Released by SEQ and command: the slot may be a newer command's by now.
Released(k) == slots[k].frame = chain[release].frame /\ slots[k].cmd = release
ReleaseMapping ==
    /\ release # 0 /\ release' = 0
    /\ \/ \E k \in DOMAIN slots : Released(k) /\ slots' = Without(slots, k)
       \/ (\A k \in DOMAIN slots : ~Released(k)) /\ UNCHANGED slots
    /\ UNCHANGED <<chain, binding, left, sweep, ws, line, astray, unmapped, ghosts, faults>>

(***************************************************************************)
(* Binding, unbinding, restarts                                            *)
(***************************************************************************)
BindKeys(o) == <<Keys(o, nvs.enc, nvs.ctr, nvs.claimed), Keys(o, o, nvs.ctr, nvs.claimed),
                 Keys(o, o, 0, nvs.claimed), Keys(o, o, 0, TRUE)>>

\* The claim task binds an unclaimed device; a key that cannot be written
\* leaves the earlier ones in flash and RAM as it was.
Bind ==
    /\ ~auth.claimed /\ binds < MaxBinds /\ binds' = binds + 1
    /\ \E o \in Owners :
        /\ rebound' = (rebound \/ o \in retired)
        /\ \/ nvs' = BindKeys(o)[4] /\ auth' = nvs' /\ ran' = NeverRan /\ UNCHANGED faults
           \/ Budget(1) /\ (\E k \in 1..3 : nvs' = BindKeys(o)[k]) /\ UNCHANGED <<auth, ran>>
    /\ UNCHANGED <<chain, left, sweep, ws, answering, lapses, hidden, retired>>

\* Unbinding: errors of the erasures are ignored, RAM is cleared in any case.
Torn == {Keys(nvs.owner, Nobody, 0, FALSE), Keys(Nobody, nvs.enc, 0, FALSE),
         Keys(Nobody, Nobody, nvs.ctr, FALSE), Keys(Nobody, Nobody, 0, nvs.claimed)}
Clear ==
    /\ auth.claimed /\ binds < MaxBinds /\ binds' = binds + 1
    /\ auth' = Unbound /\ ran' = NeverRan /\ retired' = retired \cup {auth.owner}
    /\ \/ nvs' = Unbound /\ UNCHANGED faults
       \/ Budget(1) /\ nvs' \in Torn
    /\ UNCHANGED <<chain, left, sweep, ws, answering, lapses, hidden, rebound>>

\* cmdauth_arkiv_init: what is found in flash, and the counter read from it.  The
\* power may also fail between two keys of a binding or an unbinding.
Reboot(found, ctr) ==
    /\ nvs' = found /\ auth' = [found EXCEPT !.ctr = ctr]
    /\ ran' = IF found.claimed /\ auth.claimed /\ found.owner = auth.owner THEN ran ELSE NeverRan
    /\ left' = [t \in Tasks |-> 0] /\ sweep' = NoSweep
    /\ ws' = [sub |-> IF ws.sub = "off" THEN "off" ELSE "down", queue |-> 0]
    /\ slots' = <<>> /\ release' = 0 /\ unmapped' = line
    /\ UNCHANGED <<chain, line, astray, hidden>>

Restart == Reboot(nvs, nvs.ctr) /\ UNCHANGED <<lapses, retired, rebound, binds, faults>>

\* A counter that cannot be read is taken for 0, and stays as it is in flash.
RestartMisread ==
    /\ nvs.ctr > 0 /\ Budget(1) /\ Reboot(nvs, 0) /\ lapses' = lapses + 1
    /\ UNCHANGED <<retired, rebound, binds>>

CutWhileBinding ==
    /\ ~auth.claimed /\ binds < MaxBinds /\ binds' = binds + 1 /\ Budget(1)
    /\ \E o \in Owners, k \in 1..3 :
        Reboot(BindKeys(o)[k], BindKeys(o)[k].ctr) /\ rebound' = (rebound \/ o \in retired)
    /\ UNCHANGED <<lapses, retired>>

Cut == {Keys(Nobody, nvs.enc, nvs.ctr, nvs.claimed), Keys(Nobody, Nobody, nvs.ctr, nvs.claimed),
        Keys(Nobody, Nobody, 0, nvs.claimed)}
CutWhileClearing ==
    /\ auth.claimed /\ binds < MaxBinds /\ binds' = binds + 1 /\ Budget(1)
    /\ \E found \in Cut : Reboot(found, found.ctr)
    /\ retired' = retired \cup {auth.owner} /\ UNCHANGED <<lapses, rebound>>

Next ==
    \/ Creates \/ WsConnected \/ WsSubscribed \/ WsDisconnected
    \/ PollWakes \/ WorkerWakes
    \/ \E t \in Tasks :
        SweepBegins(t) \/ Gather(t) \/ GatherAborted(t) \/ Dispatch(t) \/ Skip(t) \/ SweepEnds(t)
    \/ AnswerLost \/ MappingExpires \/ OnResponse \/ ReleaseMapping
    \/ Bind \/ Clear \/ Restart \/ RestartMisread \/ CutWhileBinding \/ CutWhileClearing

\* The poll task's timer and the sweep itself keep going, and a node that is
\* asked again and again answers in the end, for every page.
Fairness ==
    /\ WF_vars(PollWakes)
    /\ WF_vars(\E t \in Tasks : SweepBegins(t) \/ Dispatch(t) \/ Skip(t) \/ SweepEnds(t))
    /\ \A n \in 0..MAX_PAGES - 1 : SF_vars(sweep.pages = n /\ \E t \in Tasks : Gather(t))

Spec == Init /\ [][Next]_vars /\ Fairness

(***************************************************************************)
(* Properties                                                              *)
(***************************************************************************)
\* What the path promises: the owner's commands in order, each once.
Calls == [id : Ids, seq : 1..Top, by : Owners]
OnChain(c) == c.id \in DOMAIN chain /\ chain[c.id].seq = c.seq /\ chain[c.id].by = c.by
InForce == IF auth.claimed THEN auth.owner ELSE Nobody
CallsRun == [c \in Calls |-> IF OnChain(c) THEN ran[c.id] ELSE 0]

Service == INSTANCE CommandService WITH
    Owners <- Owners, Nobody <- Nobody, Commands <- Calls,
    owner <- InForce, cursor <- auth.ctr, stored <- nvs.ctr, runs <- CallsRun, lapses <- lapses

\* Every step of the sweeps, of the binding and of a restart is a step the
\* abstract command service allows, or none that it sees.
ImplementsService == Service!Spec

\* As many entities as fill a page, perhaps not the owner's, have come since, one
\* of them with no higher number.  Or its owner had used a higher number before,
\* or uses its number twice.
Overtaken(i) ==
    /\ i + PAGE_N <= Len(chain)
    /\ \E j \in DOMAIN chain : i < j /\ chain[j].seq <= chain[i].seq
Late(i) ==
    \E j \in DOMAIN chain \ {i} :
        /\ chain[j].by = chain[i].by
        /\ chain[j].seq = chain[i].seq \/ (j < i /\ chain[i].seq < chain[j].seq)

\* A command of the bound owner that the counter has passed has run, unless
\* the page budget hid it from the sweep, the sweep had begun under another
\* binding, or its number is out of order: no sweep burns an older command by
\* dispatching a newer one (arkiv_rpc.c, "gather, then dispatch").  A number out
\* of order need not be the owner's: a page filled with younger entities of
\* anybody ends the walk at their lowest number (arkiv_rpc.c:716), and what is
\* older and not below it is neither seen nor waited for.
NothingBurnt ==
    \A i \in DOMAIN chain :
        Valid(i) /\ chain[i].seq <= auth.ctr =>
            ran[i] > 0 \/ i \in hidden \/ lapses > 0 \/ Overtaken(i) \/ Late(i)

\* As long as no command runs a second time, for want of its number or because
\* its epoch is bound again, an acknowledgement names the command whose answer
\* it carries, and a command awaiting its answer keeps its mapping until that
\* expires or is evicted: releasing another command's mapping never takes it
\* (arkiv_ack.c).
AckTruthful == lapses = 0 /\ ~rebound => astray = {} /\ line \subseteq Mapped(slots) \cup unmapped

\* After any single failure of the flash the binding in force is whole: the
\* owner whose commands run is the one the writer seals for.
BindingWhole == faults <= 1 /\ auth.claimed /\ auth.owner # Nobody => auth.enc = auth.owner

\* No command is spent unrun, no acknowledgement names another command than
\* the one answered, and a binding is in force whole or not at all.
CommandsSound == NothingBurnt /\ AckTruthful /\ BindingWhole

\* A command left on the chain runs, or is passed by, while its owner stays
\* bound, whatever happens to the notifications, unless restarts go on for ever,
\* younger entities fill a page, one of them with no higher number, or as many
\* refused entities as a sweep has candidates crowd it out.
Refused == {j \in DOMAIN chain : ~Valid(j) /\ auth.ctr < chain[j].seq}
Waiting ==
    /\ \E i \in DOMAIN chain : Valid(i) /\ auth.ctr < chain[i].seq /\ ~Overtaken(i)
    /\ Cardinality(Refused) < CMD_CAND_MAX
CommandsReached == []<><<Restart>>_vars \/ []<>~Waiting
=============================================================================
