---------------------------- MODULE ArkivWriter ----------------------------
(***************************************************************************)
(* How arkiv_writer.cpp gets entities onto the chain: acknowledgements and *)
(* events are queued and a task submits them with retries; telemetry is    *)
(* submitted by its own task, once.  Both go through submit_create, which  *)
(* fetches the account's next nonce, signs and sends.  Any request or      *)
(* answer may be lost (arkiv_rpc.c).                                       *)
(*                                                                         *)
(* Below it, with a state of its own, what the telemetry task does besides *)
(* (arkiv_tlm.c): the cache of status frames the receive task fills, the   *)
(* entity due every 30 s, and the wallet balance the menu may ask for at   *)
(* any moment.  http_backend.c keeps the same cache.                       *)
(***************************************************************************)
EXTENDS Naturals, Sequences, FiniteSets

CONSTANTS
    QUEUE_LEN,      \* ARKIV_WRITER_QUEUE_LEN
    RETRIES,        \* ARKIV_WRITER_RETRIES
    MaxJobs,        \* bound: entities to queue
    MaxTelemetry,   \* bound: telemetry entities
    LateTasks,      \* tasks whose requests may reach the node after their timeout
    Slots,          \* power.status, host.status, net.status
    BALANCE_PERIOD, \* ARKIV_TLM_BALANCE_PERIOD, in ticks
    DEVPUB_PERIOD   \* ARKIV_TLM_DEVPUB_PERIOD

ASSUME ArkivWriterConstants == MaxJobs \in Nat

VARIABLES
    s_queue,    \* jobs waiting
    nextJob,    \* the next number a producer gives an entity
    job,        \* the job of the writer task, or none
    attempts, maybe_sent,
    hash,       \* the transaction last signed for this job
    sub,        \* per task: how far its submit_create is; it holds s_lock when past "lock"
    node,       \* the node: accepted transactions, in order
    late,       \* transactions under way after their sender gave up
    stale,      \* jobs that have reached ARKIV_WRITER_JOB_MAX_AGE_S
    telemetry,
    \* of the telemetry task:
    s_slots,     \* per slot: nothing cached, fresh, or older than the freshness limit
    ready,       \* device key present and PPP up
    claimed,     \* the writer is ready, the device is claimed and the SIM is known
    s_bal_req,   \* the menu asks for the balance
    debounced,   \* ARKIV_TLM_BAL_DEBOUNCE_S have passed since the last read began
    since,       \* ticks since the last good read, s_tick - s_bal_tick
    s_bal_seen,
    reading,     \* an eth_getBalance is under way
    s_bal,       \* what the menu shows: the last outcome and the last good one
    owed,        \* history: a request that no read has begun after
    s_tlm_ok     \* entities submitted, modulo DEVPUB_PERIOD: the public key rides with number 0
vars == <<s_queue, nextJob, job, attempts, maybe_sent, hash, sub, node, late, stale,
          telemetry>>

None == 0
Tasks == {"writer", "tlm"}
NoTx == [job |-> None, nonce |-> 0]
Telemetry == MaxJobs + 1     \* stands for every telemetry entity

Init ==
    /\ s_queue = <<>> /\ nextJob = 1 /\ job = None /\ attempts = 0 /\ maybe_sent = FALSE
    /\ hash = NoTx /\ sub = [t \in Tasks |-> [st |-> "idle", nonce |-> 0]]
    /\ node = <<>> /\ late = {} /\ stale = {} /\ telemetry = 0

Known(tx) == \E i \in DOMAIN node : node[i] = tx
Pending == Len(node)     \* eth_getTransactionCount(..., "pending")
LockFree == \A t \in Tasks : sub[t].st \in {"idle", "gate", "probe", "lock", "failed"}
Phase(t, st) == sub' = [sub EXCEPT ![t].st = st]

----------------------------------------------------------------------------
\* arkiv_writer_enqueue_create_entity: a full queue drops the entity.
Enqueue ==
    /\ nextJob <= MaxJobs /\ nextJob' = nextJob + 1
    /\ s_queue' = IF Len(s_queue) < QUEUE_LEN THEN Append(s_queue, nextJob) ELSE s_queue
    /\ UNCHANGED <<job, attempts, maybe_sent, hash, sub, node, late, stale, telemetry>>

Ages ==
    /\ \E j \in 1..nextJob - 1 : j \notin stale /\ stale' = stale \cup {j}
    /\ UNCHANGED <<s_queue, nextJob, job, attempts, maybe_sent, hash, sub, node, late, telemetry>>

TakeJob ==
    /\ sub["writer"].st = "idle" /\ s_queue # <<>>
    /\ job' = Head(s_queue) /\ s_queue' = Tail(s_queue)
    /\ attempts' = 0 /\ maybe_sent' = FALSE /\ hash' = NoTx
    /\ Phase("writer", "gate")
    /\ UNCHANGED <<nextJob, node, late, stale, telemetry>>

Done == job' = None /\ Phase("writer", "idle")

\* Before every attempt: too old is dropped, perhaps sent is asked about.
Gate ==
    /\ sub["writer"].st = "gate"
    /\ IF job \in stale THEN Done
       ELSE Phase("writer", IF maybe_sent THEN "probe" ELSE "lock") /\ UNCHANGED job
    /\ UNCHANGED <<s_queue, nextJob, attempts, maybe_sent, hash, node, late, stale, telemetry>>

\* arkiv_eth_tx_known: a hash the node has never seen is sent again.
Probe ==
    /\ sub["writer"].st = "probe"
    /\ IF Known(hash) THEN Done /\ UNCHANGED maybe_sent
       ELSE Phase("writer", "lock") /\ maybe_sent' = FALSE /\ UNCHANGED job
    /\ UNCHANGED <<s_queue, nextJob, attempts, hash, node, late, stale, telemetry>>

ProbeFails ==
    /\ sub["writer"].st = "probe" /\ Phase("writer", "failed")
    /\ UNCHANGED <<s_queue, nextJob, job, attempts, maybe_sent, hash, node, late, stale, telemetry>>

\* Mutant: there is no limit to the attempts.
FailedForever ==
    /\ sub["writer"].st = "failed"
    /\ Phase("writer", "gate")
    /\ UNCHANGED <<s_queue, nextJob, job, attempts, maybe_sent, hash, node, late, stale, telemetry>>

\* One attempt less; the next follows after the back-off, in place.
Failed ==
    /\ sub["writer"].st = "failed"
    /\ attempts' = attempts + 1
    /\ IF attempts + 1 >= RETRIES THEN Done ELSE Phase("writer", "gate") /\ UNCHANGED job
    /\ UNCHANGED <<s_queue, nextJob, maybe_sent, hash, node, late, stale, telemetry>>

\* arkiv_writer_create_entity, from the telemetry task.
TelemetryDue ==
    /\ sub["tlm"].st = "idle" /\ telemetry < MaxTelemetry
    /\ telemetry' = telemetry + 1 /\ Phase("tlm", "lock")
    /\ UNCHANGED <<s_queue, nextJob, job, attempts, maybe_sent, hash, node, late, stale>>

----------------------------------------------------------------------------
\* submit_create

Fails(t) == Phase(t, IF t = "writer" THEN "failed" ELSE "idle")
Entity(t) == IF t = "writer" THEN job ELSE Telemetry
Tx(t) == [job |-> Entity(t), nonce |-> sub[t].nonce]

TakeLock(t) ==
    /\ sub[t].st = "lock" /\ LockFree /\ Phase(t, "nonce")
    /\ UNCHANGED <<s_queue, nextJob, job, attempts, maybe_sent, hash, node, late, stale, telemetry>>

\* The lock is not free within 20 s, or one of the reads before the send fails.
GivesUp(t) ==
    /\ (sub[t].st = "lock" /\ ~LockFree) \/ sub[t].st \in {"nonce", "price"}
    /\ Fails(t)
    /\ UNCHANGED <<s_queue, nextJob, job, attempts, maybe_sent, hash, node, late, stale, telemetry>>

GetNonce(t) ==
    /\ sub[t].st = "nonce"
    /\ sub' = [sub EXCEPT ![t] = [st |-> "price", nonce |-> Pending]]
    /\ UNCHANGED <<s_queue, nextJob, job, attempts, maybe_sent, hash, node, late, stale, telemetry>>

\* The chain's head (a failed read is skipped), the gas price, the signature.
Sign(t) ==
    /\ sub[t].st = "price" /\ Phase(t, "send")
    /\ hash' = IF t = "writer" THEN Tx(t) ELSE hash
    /\ UNCHANGED <<s_queue, nextJob, job, attempts, maybe_sent, node, late, stale, telemetry>>

\* The node takes a transaction with the account's next nonce, once.
Accept(tx) == IF tx.nonce = Pending THEN node' = Append(node, tx) ELSE UNCHANGED node

Sent(t) ==
    /\ sub[t].st = "send" /\ Accept(Tx(t))
    /\ IF t = "writer" THEN Done ELSE Phase(t, "idle") /\ UNCHANGED job
    /\ UNCHANGED <<s_queue, nextJob, attempts, maybe_sent, hash, late, stale, telemetry>>

\* The node's verdict is an error: permanent for this transaction.
SendRefused(t) ==
    /\ sub[t].st = "send"
    /\ IF t = "writer" THEN Done ELSE Phase(t, "idle") /\ UNCHANGED job
    /\ UNCHANGED <<s_queue, nextJob, attempts, maybe_sent, hash, node, late, stale, telemetry>>

\* A gateway's own error, a lost request or a lost answer look alike.
SendFails(t) ==
    /\ sub[t].st = "send" /\ Fails(t)
    /\ maybe_sent' = (maybe_sent \/ t = "writer")
    /\ \/ Accept(Tx(t)) /\ UNCHANGED late
       \/ UNCHANGED <<node, late>>
       \/ t \in LateTasks /\ late' = late \cup {Tx(t)} /\ UNCHANGED node
    /\ UNCHANGED <<s_queue, nextJob, job, attempts, hash, stale, telemetry>>

ArrivesLate ==
    /\ \E tx \in late : late' = late \ {tx} /\ Accept(tx)
    /\ UNCHANGED <<s_queue, nextJob, job, attempts, maybe_sent, hash, sub, stale, telemetry>>

Step(t) == TakeLock(t) \/ GetNonce(t) \/ Sign(t) \/ Sent(t)
Next ==
    \/ Enqueue \/ Ages \/ TakeJob \/ Gate \/ Probe \/ ProbeFails \/ Failed \/ TelemetryDue
    \/ (\E t \in Tasks : Step(t) \/ GivesUp(t) \/ SendRefused(t) \/ SendFails(t))
    \/ ArrivesLate

\* The tasks run, calls return within their timeouts, and the lock is given
\* back again and again.
Fairness ==
    /\ WF_vars(TakeJob \/ Gate \/ Probe \/ Failed)
    /\ WF_vars(GetNonce("writer") \/ Sign("writer") \/ Sent("writer")) /\ SF_vars(TakeLock("writer"))
    /\ WF_vars(Step("tlm"))
Spec == Init /\ [][Next]_vars /\ Fairness

----------------------------------------------------------------------------
\* "Would otherwise become a SECOND entity with the same seq": every queued
\* entity reaches the chain at most once, and in the order of the queue, for
\* any pattern of lost requests and answers (writer_task).
OnceInOrder ==
    \A i, k \in DOMAIN node :
        i < k /\ node[i].job # Telemetry /\ node[k].job # Telemetry => node[i].job < node[k].job

\* The writer task never sticks to one job: it comes back to its queue.
WriterReturns == []<>(sub["writer"].st = "idle")

(***************************************************************************)
(* The telemetry task                                                      *)
(***************************************************************************)
tlmvars == <<s_slots, ready, claimed, s_bal_req, debounced, since, s_bal_seen, reading, s_bal,
          owed, s_tlm_ok>>
slots == <<s_slots, claimed, s_tlm_ok>>
balance == <<s_bal_req, debounced, since, s_bal_seen, reading, s_bal, owed>>

TlmInit ==
    /\ s_slots = [s \in Slots |-> "none"] /\ ready = FALSE /\ claimed = FALSE
    /\ s_bal_req = FALSE /\ debounced = TRUE /\ since = 0 /\ s_bal_seen = FALSE
    /\ reading = FALSE /\ s_bal = [state |-> "none", last_good |-> "none"]
    /\ owed = FALSE /\ s_tlm_ok = 0

\* arkiv_tlm_observe_frame: a frame that is too long for its slot is ignored.
Observe(s) ==
    /\ s_slots' = [s_slots EXCEPT ![s] = "fresh"]
    /\ UNCHANGED <<ready, claimed, balance, s_tlm_ok>>

Stales(s) ==
    /\ s_slots[s] = "fresh" /\ s_slots' = [s_slots EXCEPT ![s] = "stale"]
    /\ UNCHANGED <<ready, claimed, balance, s_tlm_ok>>

LinkChanges == ready' = ~ready /\ UNCHANGED <<slots, balance>>
ClaimChanges == claimed' = ~claimed /\ UNCHANGED <<s_slots, ready, balance, s_tlm_ok>>

\* arkiv_tlm_request_balance_refresh, from the receive task.
Request ==
    /\ s_bal_req' = TRUE /\ owed' = TRUE
    /\ UNCHANGED <<slots, ready, debounced, since, s_bal_seen, reading, s_bal>>

\* bal_due: a request (at most one read per 3 s); at a tick also until the
\* first good read, and BALANCE_PERIOD ticks after the last one.
BalDue(tick, n) ==
    /\ ready
    /\ \/ s_bal_req /\ debounced
       \/ tick /\ (~s_bal_seen \/ n >= BALANCE_PERIOD)

\* bal_refresh up to the RPC: the request is taken before the read begins.
BalBegins == reading' = TRUE /\ s_bal_req' = FALSE /\ debounced' = FALSE /\ owed' = FALSE

\* One second of the wait between two ticks.
Slice ==
    /\ ~reading
    /\ \/ BalDue(FALSE, since) /\ BalBegins
       \/ ~BalDue(FALSE, since) /\ debounced' = TRUE /\ UNCHANGED <<s_bal_req, reading, owed>>
    /\ UNCHANGED <<slots, ready, since, s_bal_seen, s_bal>>

\* The entity of a tick, unless nothing is fresh or a gate is closed: next_seq,
\* seal and submit, each of which may fail and is not repeated.
Fresh == \E s \in Slots : s_slots[s] = "fresh"
Emit ==
    \/ UNCHANGED s_tlm_ok
    \/ claimed /\ Fresh /\ s_tlm_ok' = (s_tlm_ok + 1) % DEVPUB_PERIOD

\* The end of the 30 s: the balance comes before the gates of the telemetry.
Tick ==
    /\ ~reading
    /\ since' = IF since < BALANCE_PERIOD THEN since + 1 ELSE since
    /\ \/ BalDue(TRUE, since') /\ BalBegins
       \/ ~BalDue(TRUE, since') /\ UNCHANGED <<s_bal_req, debounced, reading, owed>>
    /\ Emit
    /\ UNCHANGED <<s_slots, claimed, ready, s_bal_seen, s_bal>>

\* The answer: a balance, one too large for 64 bits, or none, which leaves
\* the last good one standing.
BalEnds ==
    /\ reading /\ reading' = FALSE
    /\ \/ \E good \in {"ok", "high"} :
            s_bal' = [state |-> good, last_good |-> good] /\ s_bal_seen' = TRUE /\ since' = 0
       \/ s_bal' = [s_bal EXCEPT !.state = "fail"] /\ UNCHANGED <<s_bal_seen, since>>
    /\ UNCHANGED <<slots, ready, s_bal_req, debounced, owed>>

TlmNext ==
    \/ \E s \in Slots : Observe(s) \/ Stales(s)
    \/ LinkChanges \/ ClaimChanges \/ Request \/ Slice \/ Tick \/ BalEnds

\* "Deferred, never dropped": a balance request that no read has begun after
\* is still flagged, whenever it came (bal_refresh clears before the RPC).
RequestKept == owed => s_bal_req
=============================================================================
