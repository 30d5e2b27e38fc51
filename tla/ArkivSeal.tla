----------------------------- MODULE ArkivSeal -----------------------------
(***************************************************************************)
(* How arkiv_writer.cpp seals what it publishes: a sequence number, issued *)
(* from a window that is reserved in flash first, is the nonce; the key is *)
(* derived from the owner's binding and cached under the binding's         *)
(* generation.  Two tasks seal; binding (cmdauth_arkiv.c) takes no lock    *)
(* that sealing takes.  A nonce used twice with one key gives the          *)
(* plaintexts away.                                                        *)
(***************************************************************************)
EXTENDS Naturals

CONSTANTS
    Tasks,               \* wups_rx (acks and events) and the telemetry task
    SEQ_RESERVE_WINDOW,
    SEQ_MAX_48,          \* scaled down: numbers the nonce field can hold
    MaxBinds,            \* bound: binds, epoch changes and clears
    MaxRestarts,
    MaxPersistFails,     \* bound: reservations whose write fails
    MaxReadFails         \* bound: restarts that cannot read the reservation

ArkivSealConstants == SEQ_RESERVE_WINDOW \in Nat

VARIABLES
    stored,      \* the reservation in flash
    seq,         \* RAM: s_seq_next and s_seq_reserved
    owner, enc,  \* RAM: versions of the fields a key is derived from
    binding_gen,
    binding,     \* how far a change of the binding has come
    cache,       \* s_seal_valid, s_seal_gen and the cached key
    seal,        \* per task: its number and how far its seal has come
    used,        \* history: the (key, number) pairs sealed with
    reused,      \* history: a pair was used twice
    faults       \* restarts, failed writes and failed reads so far
vars == <<stored, seq, owner, enc, binding_gen, binding, cache, seal, used, reused, faults>>

NoKey == [owner |-> 0, enc |-> 0]
NoCache == [valid |-> FALSE, gen |-> 0, key |-> NoKey]
NoSeal == [st |-> "idle", seq |-> 0, gen |-> 0]

\* arkiv_writer_init resumes above whatever is stored; the first number
\* forces a reservation.
Resumed(persisted) == [next |-> persisted + 1, reserved |-> persisted + 1]

Init ==
    /\ stored = 0 /\ seq = Resumed(0)
    /\ owner = 1 /\ enc = 1 /\ binding_gen = 1 /\ binding = "still"
    /\ cache = NoCache /\ seal = [t \in Tasks |-> NoSeal]
    /\ used = {} /\ reused = FALSE /\ faults = [restarts |-> 0, writes |-> 0, reads |-> 0]

----------------------------------------------------------------------------
\* arkiv_writer_next_seq, under s_seq_lock.

Exhausted == seq.next >= SEQ_MAX_48 - SEQ_RESERVE_WINDOW
Reserves == seq.next >= seq.reserved

Issue(t) == seal' = [seal EXCEPT ![t] = [@ EXCEPT !.st = "numbered", !.seq = seq.next]]

\* Mutant: the reservation that is written is the number itself.
IssueReservingShort(t) ==
    /\ Reserves
    /\ stored' = seq.next - 1
    /\ seq' = [next |-> seq.next + 1, reserved |-> seq.next + SEQ_RESERVE_WINDOW]
    /\ Issue(t)

\* The new high-water mark is in flash before a number below it is out.
IssueReserving(t) ==
    /\ Reserves
    /\ stored' = seq.next + SEQ_RESERVE_WINDOW
    /\ seq' = [next |-> seq.next + 1, reserved |-> seq.next + SEQ_RESERVE_WINDOW]
    /\ Issue(t)

NextSeq(t) ==
    /\ seal[t].st = "idle" /\ ~Exhausted
    /\ \/ IssueReserving(t)
       \/ ~Reserves /\ Issue(t) /\ seq' = [seq EXCEPT !.next = @ + 1] /\ UNCHANGED stored
    /\ UNCHANGED <<owner, enc, binding_gen, binding, cache, used, reused, faults>>

\* persist_seq_reserved fails, with the value in flash or not: no number is
\* issued and the caller drops what it wanted to publish.
PersistFails(t) ==
    /\ seal[t].st = "idle" /\ ~Exhausted /\ Reserves
    /\ faults.writes < MaxPersistFails /\ faults' = [faults EXCEPT !.writes = @ + 1]
    /\ stored' \in {stored, seq.next + SEQ_RESERVE_WINDOW}
    /\ UNCHANGED <<seq, owner, enc, binding_gen, binding, cache, seal, used, reused>>

----------------------------------------------------------------------------
\* arkiv_writer_payload_seal: s_seal_lock keeps the tasks apart.

Unlocked == \A t \in Tasks : seal[t].st \in {"idle", "numbered"}
Bound == owner # 0 /\ enc # 0

\* Derives the keys if the generation is not the cached one.
SealBegins(t) ==
    /\ seal[t].st = "numbered" /\ Unlocked
    /\ seal' = [seal EXCEPT ![t] =
         IF ~Bound THEN NoSeal
         ELSE [@ EXCEPT !.st = IF cache.valid /\ cache.gen = binding_gen THEN "keyed" ELSE "deriving",
                        !.gen = binding_gen]]
    /\ UNCHANGED <<stored, seq, owner, enc, binding_gen, binding, cache, used, reused, faults>>

\* The fields are read long after the generation was; what they say now is
\* what the key is made of.
Derive(t) ==
    /\ seal[t].st = "deriving"
    /\ cache' = [valid |-> TRUE, gen |-> seal[t].gen, key |-> [owner |-> owner, enc |-> enc]]
    /\ seal' = [seal EXCEPT ![t].st = "keyed"]
    /\ UNCHANGED <<stored, seq, owner, enc, binding_gen, binding, used, reused, faults>>

\* AES-GCM with the cached key and the number as nonce.
SealEnds(t) ==
    /\ seal[t].st = "keyed"
    /\ used' = used \cup {<<cache.key, seal[t].seq>>}
    /\ reused' = (reused \/ <<cache.key, seal[t].seq>> \in used)
    /\ seal' = [seal EXCEPT ![t] = NoSeal]
    /\ UNCHANGED <<stored, seq, owner, enc, binding_gen, binding, cache, faults>>

----------------------------------------------------------------------------
\* cmdauth_arkiv_bind_owner and _clear: the fields one after the other, the
\* generation last.  A version is new for every binding; 0 is none.

BindBegins(v) ==
    /\ binding = "still" /\ binding_gen <= MaxBinds
    /\ owner' = v /\ binding' = "owner"
    /\ UNCHANGED <<stored, seq, enc, binding_gen, cache, seal, used, reused, faults>>

BindEnc ==
    /\ binding = "owner" /\ enc' = owner /\ binding' = "enc"
    /\ UNCHANGED <<stored, seq, owner, binding_gen, cache, seal, used, reused, faults>>

BindEnds ==
    /\ binding = "enc" /\ binding_gen' = binding_gen + 1 /\ binding' = "still"
    /\ UNCHANGED <<stored, seq, owner, enc, cache, seal, used, reused, faults>>

\* A restart finds the binding as flash has it, with a generation of its own;
\* everything else starts anew.
Restart ==
    /\ faults.restarts < MaxRestarts /\ binding = "still"
    /\ \/ seq' = Resumed(stored) /\ faults' = [faults EXCEPT !.restarts = @ + 1]
       \/ /\ faults.reads < MaxReadFails
          /\ seq' = Resumed(0) /\ faults' = [faults EXCEPT !.restarts = @ + 1, !.reads = @ + 1]
    /\ cache' = NoCache /\ seal' = [t \in Tasks |-> NoSeal]
    /\ UNCHANGED <<stored, owner, enc, binding_gen, binding, used, reused>>

Next ==
    \/ \E t \in Tasks : NextSeq(t) \/ PersistFails(t) \/ SealBegins(t) \/ Derive(t) \/ SealEnds(t)
    \/ (\E v \in {0, binding_gen + 1} : BindBegins(v))
    \/ BindEnc \/ BindEnds \/ Restart

Spec == Init /\ [][Next]_vars

----------------------------------------------------------------------------
\* No key seals twice under one number: restarts, failed reservations, two
\* tasks and a changing binding included (arkiv_writer_next_seq).  It needs a
\* reservation that can be read back: arkiv_writer_init takes an unreadable
\* one for none.
NoReuse == ~reused
NonceUnique == faults.reads = 0 => NoReuse

\* A cache that passes for current holds the key of the binding in force,
\* although nothing keeps a bind out while a key is derived
\* (seal_refresh_keys_locked).
KeyCacheCurrent ==
    binding = "still" /\ cache.valid /\ cache.gen = binding_gen
        => cache.key = [owner |-> owner, enc |-> enc]
=============================================================================
