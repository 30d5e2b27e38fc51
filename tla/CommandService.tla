--------------------------- MODULE CommandService ---------------------------
(***************************************************************************)
(* What a signed-command path promises its owner, without saying how       *)
(* commands are fetched: the commands of the owner in force run in the     *)
(* order of their numbers, each at most once, unless a number could not be *)
(* stored, or read back, and the device restarted.  The Arkiv sweep (ArkivCommands) and   *)
(* the MQTT envelope (CmdAuth) are both shown to implement it.             *)
(***************************************************************************)
EXTENDS Naturals

CONSTANTS
    Owners,
    Nobody,
    Commands    \* records with at least the fields seq and by

VARIABLES
    owner,      \* whose commands run, or Nobody
    cursor,     \* the number of the last command run
    stored,     \* that number as a restart finds it
    runs,       \* how often each command ran under the present binding
    lapses      \* numbers that could not be stored, or read back
vars == <<owner, cursor, stored, runs, lapses>>

Never == [c \in Commands |-> 0]

Init == owner \in Owners \cup {Nobody} /\ cursor = 0 /\ stored = 0 /\ runs = Never /\ lapses = 0

Run(c) ==
    /\ owner = c.by /\ cursor < c.seq
    /\ cursor' = c.seq
    /\ runs' = [runs EXCEPT ![c] = @ + 1]
    /\ \/ stored' = c.seq /\ UNCHANGED lapses
       \/ stored' = stored /\ lapses' = lapses + 1
    /\ UNCHANGED owner

\* A new binding starts counting anew: the commands of an earlier one are
\* the business of the epoch, not of the counter.
Rebind(o) ==
    /\ owner' = o /\ cursor' = 0 /\ runs' = Never
    /\ stored' = 0 \/ (o = Nobody /\ UNCHANGED stored)
    /\ UNCHANGED lapses

\* The device forgets what it has not stored.  A binding that could not be
\* erased, or not be completed, comes back as it was stored.
Restart ==
    /\ cursor' = stored
    /\ \/ UNCHANGED <<owner, runs>>
       \/ owner' \in Owners \cup {Nobody} /\ owner' # owner /\ runs' = Never
    /\ UNCHANGED <<stored, lapses>>

\* A number that cannot be read is taken for none, in the store too perhaps.
Forget ==
    /\ cursor' = 0 /\ stored' \in {stored, 0} /\ lapses' = lapses + 1
    /\ \/ UNCHANGED <<owner, runs>>
       \/ owner' \in Owners \cup {Nobody} /\ owner' # owner /\ runs' = Never

\* What an earlier binding left in the store may be cleared at any time.
Erase == owner = Nobody /\ stored' = 0 /\ UNCHANGED <<owner, cursor, runs, lapses>>

Next ==
    \/ \E c \in Commands : Run(c)
    \/ \E o \in Owners \cup {Nobody} : Rebind(o)
    \/ Restart \/ Forget \/ Erase

Spec == Init /\ [][Next]_vars

\* A command runs again only if its number could not be stored or read: with no
\* lapse every command runs at most once per binding, restarts included.
Once == \A c \in Commands : runs[c] <= 1 + lapses

-----------------------------------------------------------------------------
\* Why (ArkivCommandsProofs has the proof): a command whose number is above the
\* stored one, or above the counter, has run only in lapses.
Credit(c) == IF c.seq <= stored /\ c.seq <= cursor THEN 1 ELSE 0
OnceInv ==
    /\ owner \in Owners \cup {Nobody}
    /\ cursor \in Nat /\ stored \in Nat /\ lapses \in Nat
    /\ runs \in [Commands -> Nat]
    /\ owner = Nobody => runs = Never
    /\ \A c \in Commands : runs[c] <= lapses + Credit(c)

\* Numbered commands of real owners.
Sensible == Nobody \notin Owners /\ \A c \in Commands : c.seq \in Nat /\ c.by \in Owners
=============================================================================
