---------------------------- MODULE WriteLedger ----------------------------
(***************************************************************************)
(* What the write queue owes whoever puts a write in it, with no drains,   *)
(* tabs, retries or messages: a ledger of writes that are open on the      *)
(* phone, given up on, filed by the server, or thrown away.                *)
(***************************************************************************)
CONSTANTS
    Ids, NoId, People,
    Owner,       \* [Ids -> People]: who queued it
    Needs,       \* [Ids -> Ids or NoId]: the write that must be filed first
    StableIds,   \* ids that may be accepted again
    Photos       \* writes the phone may try again by itself

VARIABLES
    accepted,    \* ids ever put in the queue
    open,        \* writes on the phone
    dead,        \* those that were given up on
    tapped,      \* writes a person has asked to try again
    filed,       \* records [id, as, after] the server holds
    thrownAway   \* ids a person discarded

ledger == <<accepted, open, dead, tapped, filed, thrownAway>>

FiledIds == {m.id : m \in filed}

Init ==
    /\ accepted = {} /\ open = {} /\ dead = {} /\ tapped = {}
    /\ filed = {} /\ thrownAway = {}

\* A write is taken on.
Accept(i) ==
    /\ i \notin open
    /\ i \notin accepted \/ i \in StableIds
    /\ accepted' = accepted \cup {i}
    /\ open' = open \cup {i}
    /\ UNCHANGED <<dead, tapped, filed, thrownAway>>

\* The server records a write of the queue once, as its owner's, after what
\* it waited on.
File(m) ==
    /\ m.id \in accepted \ FiledIds
    /\ m.as = Owner[m.id]
    /\ m.after \in FiledIds \cup thrownAway \cup {NoId}
    /\ Needs[m.id] \in FiledIds \cup {NoId}
    /\ filed' = filed \cup {m}
    /\ UNCHANGED <<accepted, open, dead, tapped, thrownAway>>

\* What is filed may leave the phone, unless it was given up on: a person has
\* been shown that.
Settle(i) ==
    /\ i \in open \ dead
    /\ i \in FiledIds
    /\ open' = open \ {i}
    /\ UNCHANGED <<accepted, dead, tapped, filed, thrownAway>>

GiveUp(i) ==
    /\ i \in open \ dead
    /\ dead' = dead \cup {i}
    /\ UNCHANGED <<accepted, open, tapped, filed, thrownAway>>

\* A person asks for some writes again; a tab that closes forgets it.
Tap(S) ==
    /\ S \subseteq accepted
    /\ tapped' = tapped \cup S
    /\ UNCHANGED <<accepted, open, dead, filed, thrownAway>>

Forget(S) ==
    /\ tapped' = tapped \ S
    /\ UNCHANGED <<accepted, open, dead, filed, thrownAway>>

\* What a person asked for comes back.
Revive(i) ==
    /\ i \in tapped
    /\ open' = open \cup {i}
    /\ dead' = dead \ {i}
    /\ tapped' \in {tapped, tapped \ {i}}
    /\ UNCHANGED <<accepted, filed, thrownAway>>

\* The phone brings back a photo it had given up on.
Recover(i) ==
    /\ i \in Photos \cap dead
    /\ dead' = dead \ {i}
    /\ UNCHANGED <<accepted, open, tapped, filed, thrownAway>>

ThrowAway(i) ==
    /\ i \in open
    /\ open' = open \ {i}
    /\ dead' = dead \ {i}
    /\ thrownAway' = thrownAway \cup {i}
    /\ UNCHANGED <<accepted, tapped, filed>>

Next ==
    \/ \E i \in Ids : \/ Accept(i) \/ Settle(i) \/ GiveUp(i)
                   \/ Revive(i) \/ Recover(i) \/ ThrowAway(i)
    \/ \E m \in [id: Ids, as: People, after: Ids \cup {NoId}] : File(m)
    \/ \E S \in SUBSET Ids : Tap(S) \/ Forget(S)

Spec == Init /\ [][Next]_ledger
=============================================================================
