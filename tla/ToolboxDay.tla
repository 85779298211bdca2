---------------------------- MODULE ToolboxDay ----------------------------
(***************************************************************************)
(* One person's toolbox talk signatures: kept on the phone, filed by       *)
(* sign_toolbox_talk, confirmed back, and read by the gates - the phone's  *)
(* (useToolboxGate) and clock_in's on the server.  The phone's clock may   *)
(* run ahead of the server's.                                              *)
(***************************************************************************)
EXTENDS Integers, FiniteSets

CONSTANTS Sigs,      \* one-time ids of signatures
          Punches,   \* one-time ids of clock-ins
          Tabs,
          DayLen,    \* moments in a day
          MaxAhead,  \* bound: how far ahead the phone's clock runs
          End        \* bound: the last moment

ASSUME ToolboxConstants == DayLen \in Nat \ {0} /\ MaxAhead \in Nat /\ End \in Nat

VARIABLES hour,      \* the server's clock
          ahead,     \* how far the phone's clock runs ahead of it
          noTalk,    \* days with no talk of their own
          repointed, \* days whose talk was replaced before anybody signed it
          sig,       \* the signatures on the phone and on their way
          filed,     \* toolbox_completions: when each counts as signed
          stored,    \* localStorage: the signing time of the last confirmation
          memory,    \* each tab's Map: NotRead until it is first looked at
          cache,     \* each tab's cached "signed today?" answer
          saved,     \* localStorage: the answer in the snapshot last written
          reading,   \* an answer on its way to the tab
          punch      \* the clock-ins

vars == <<hour, ahead, noTalk, repointed, sig, filed, stored, memory, cache, saved, reading, punch>>

None == -1
NotRead == -2
Moments == 0..(End + MaxAhead)
Days == 0..((End + MaxAhead) \div DayLen)
Day(t) == t \div DayLen
PhoneNow == hour + ahead

\* talk: the day the talk was made for; gone: the talk was deleted since.
NoSig == [at |-> None, talk |-> None, gone |-> FALSE, stage |-> "none"]
NoPunch == [stage |-> "none", day |-> 0, after |-> {}]

TypeOK ==
    /\ hour \in 0..End /\ ahead \in 0..MaxAhead
    /\ noTalk \subseteq Days /\ repointed \subseteq Days
    /\ sig \in [Sigs -> [at : Moments \cup {None}, talk : Days \cup {None}, gone : BOOLEAN,
                         stage : {"none", "queued", "refused", "sent"}]]
    /\ filed \in [Sigs -> Moments \cup {None}]
    /\ stored \in Moments \cup {None}
    /\ memory \in [Tabs -> Moments \cup {None, NotRead}]
    /\ cache \in [Tabs -> Moments \cup {None}] /\ saved \in Moments \cup {None}
    /\ reading \in [Tabs -> Moments \cup {None, NotRead}]
    /\ punch \in [Punches -> [stage : {"none", "tapped", "queued", "refused", "in"},
                              day : Days, after : SUBSET Sigs]]

Init ==
    /\ hour = 0
    /\ ahead \in 0..MaxAhead
    /\ noTalk \in {{}, {1} \cap Days}
    /\ repointed = {}
    /\ sig = [s \in Sigs |-> NoSig]
    /\ filed = [s \in Sigs |-> None]
    /\ stored = None
    /\ memory = [t \in Tabs |-> NotRead]
    /\ cache = [t \in Tabs |-> None] /\ saved = None
    /\ reading = [t \in Tabs |-> NotRead]
    /\ punch = [p \in Punches |-> NoPunch]

Phone == <<stored, memory, cache, saved, reading>>
Server == <<hour, ahead, noTalk, repointed>>

Tick ==
    /\ hour < End
    /\ hour' = hour + 1
    /\ UNCHANGED <<ahead, noTalk, repointed, sig, filed, punch>> /\ UNCHANGED Phone

\* assignTalk: the day's talk is deleted while nobody has filed a signature of
\* it, and the new one takes its place.
Repoint(d) ==
    /\ d \notin noTalk \cup repointed
    /\ \A s \in Sigs : filed[s] = None \/ sig[s].gone \/ sig[s].talk # d
    /\ repointed' = repointed \cup {d}
    /\ sig' = [s \in Sigs |-> [sig[s] EXCEPT !.gone = @ \/ sig[s].talk = d]]
    /\ UNCHANGED <<hour, ahead, noTalk, filed, punch>> /\ UNCHANGED Phone

----------------------------------------------------------------------------
(* Signing, and sending.                                                   *)

OnPhone(s) == sig[s].stage \in {"queued", "refused"}

\* A signature still on the phone that counts as today's.
TodaysPending == {s \in Sigs : OnPhone(s) /\ Day(sig[s].at) = Day(PhoneNow)}

\* getTodayTalk: the day's own talk, or on a day without one the newest other.
Shown(forDay) == IF forDay \in noTalk THEN Days \ noTalk ELSE {forDay}

\* signToolboxTalk: the talk on the screen was handed out for the day for_day;
\* on any other day it is refused before anything is kept.  The phone may
\* still show the talk that was replaced.
Sign(s, forDay, talk, gone) ==
    /\ sig[s] = NoSig
    /\ forDay = Day(PhoneNow) /\ talk \in Shown(forDay)
    /\ gone => talk \in repointed
    /\ sig' = [sig EXCEPT ![s] = [at |-> PhoneNow, talk |-> talk, gone |-> gone, stage |-> "queued"]]
    /\ UNCHANGED <<filed, punch>> /\ UNCHANGED Phone /\ UNCHANGED Server

\* The time a signature counts for: the phone's, or arrival when the phone is
\* ahead (by more than two minutes with a note, by less without one).  A late
\* one keeps the phone's time.
SignedAt(s) ==
    IF sig[s].at > hour THEN hour ELSE sig[s].at

\* Mutant: held against the phone's day instead of the day it counts for.
WrongDaysTalk_PhonesDay(s) ==
    /\ ~sig[s].gone /\ sig[s].talk # Day(sig[s].at)
    /\ Day(sig[s].at) \notin noTalk

\* The talk the signature names is still there, is another day's, and the day
\* it would count for has its own.
WrongDaysTalk(s) ==
    /\ ~sig[s].gone /\ sig[s].talk # Day(SignedAt(s))
    /\ Day(SignedAt(s)) \notin noTalk

\* sign_toolbox_talk: a repeat of the id finds the row it made.
Send(s) ==
    /\ sig[s].stage = "queued"
    /\ IF filed[s] = None /\ WrongDaysTalk(s)
       THEN /\ sig' = [sig EXCEPT ![s].stage = "refused"]
            /\ UNCHANGED filed
       ELSE /\ filed' = [filed EXCEPT ![s] = IF @ = None THEN SignedAt(s) ELSE @]
            /\ UNCHANGED sig
    /\ UNCHANGED punch /\ UNCHANGED Phone /\ UNCHANGED Server

\* Mutant: a tab that has not looked yet knows nothing.
Remembered_Unread(t) == IF memory[t] = NotRead THEN None ELSE memory[t]

\* signingTimeAtLeast, and confirmedSignatureFor.
Remembered(t) == IF memory[t] = NotRead THEN stored ELSE memory[t]
\* Mutant: what the other tab kept is not looked at.
Newest_OwnTab(t) == Remembered(t)

Newest(t) == IF stored >= Remembered(t) THEN stored ELSE Remembered(t)

\* recordConfirmedSignature, and the listener that writes the cache: both in
\* order of signing, never of arrival.  The listener stops a read in the air.
Confirm(s, t) ==
    /\ sig[s].stage = "queued" /\ filed[s] # None
    /\ sig' = [sig EXCEPT ![s].stage = "sent"]
    /\ IF filed[s] >= Newest(t)
       THEN stored' = filed[s] /\ memory' = [memory EXCEPT ![t] = filed[s]]
       ELSE stored' = stored /\ memory' = [memory EXCEPT ![t] = Newest(t)]
    /\ IF filed[s] >= cache[t]
       THEN cache' = [cache EXCEPT ![t] = filed[s]] /\ reading' = [reading EXCEPT ![t] = NotRead]
       ELSE UNCHANGED <<cache, reading>>
    /\ UNCHANGED <<saved, filed, punch>> /\ UNCHANGED Server

TryAgain(s) ==
    /\ sig[s].stage = "refused"
    /\ sig' = [sig EXCEPT ![s].stage = "queued"]
    /\ UNCHANGED <<filed, punch>> /\ UNCHANGED Phone /\ UNCHANGED Server

----------------------------------------------------------------------------
(* The screens.                                                            *)

\* myTodayCompletion: the newest row signed since the phone's midnight.
Answer ==
    LET today == {filed[s] : s \in {x \in Sigs : filed[x] # None /\ Day(filed[x]) >= Day(PhoneNow)}}
    IN  IF today = {} THEN None ELSE CHOOSE a \in today : \A b \in today : b <= a

AskForge(t) ==
    /\ reading[t] = NotRead
    /\ reading' = [reading EXCEPT ![t] = Answer]
    /\ UNCHANGED <<sig, filed, stored, memory, cache, saved, punch>> /\ UNCHANGED Server

\* Mutant: the answer of a read that was stopped.
Hear_Stopped(t) ==
    /\ cache' = [cache EXCEPT ![t] = reading[t]]
    /\ reading' = [reading EXCEPT ![t] = NotRead]
    /\ UNCHANGED <<sig, filed, stored, memory, saved, punch>> /\ UNCHANGED Server

Hear(t) ==
    /\ reading[t] # NotRead
    /\ cache' = [cache EXCEPT ![t] = reading[t]]
    /\ reading' = [reading EXCEPT ![t] = NotRead]
    /\ UNCHANGED <<sig, filed, stored, memory, saved, punch>> /\ UNCHANGED Server

\* A gate is drawn: the Map is filled from the phone on the first look.
Look(t) ==
    /\ memory[t] = NotRead
    /\ memory' = [memory EXCEPT ![t] = stored]
    /\ UNCHANGED <<sig, filed, stored, cache, saved, reading, punch>> /\ UNCHANGED Server

\* The persister's timer fires, or the page is left: the tab writes all its
\* answers over the one snapshot the tabs share.
Save(t) ==
    /\ saved' = cache[t]
    /\ UNCHANGED <<sig, filed, stored, memory, cache, reading, punch>> /\ UNCHANGED Server

\* The page is opened again, with the answers of whichever tab wrote last.
Reload(t) ==
    /\ memory' = [memory EXCEPT ![t] = NotRead]
    /\ reading' = [reading EXCEPT ![t] = NotRead]
    /\ cache' = [cache EXCEPT ![t] = saved]
    /\ UNCHANGED <<sig, filed, stored, saved, punch>> /\ UNCHANGED Server

\* useToolboxToday: Forge's row or Forge's confirmation, and it is today's.
SaysSigned(t) ==
    \/ cache[t] # None /\ Day(cache[t]) = Day(PhoneNow)
    \/ Remembered(t) # None /\ Day(Remembered(t)) = Day(PhoneNow)

GateOpen(t) == SaysSigned(t) \/ TodaysPending # {}

----------------------------------------------------------------------------
(* The clock-in behind a signature.                                        *)

\* enqueueClockIn reads the store for the signature to follow ...
TapIn(p, t) ==
    /\ punch[p] = NoPunch /\ GateOpen(t)
    /\ \E newest \in {{s} : s \in TodaysPending} \cup {{}} :
         /\ newest = {} <=> TodaysPending = {}
         /\ \A s \in newest : \A r \in TodaysPending : sig[r].at <= sig[s].at
         /\ punch' = [punch EXCEPT ![p] = [stage |-> "tapped", day |-> Day(PhoneNow), after |-> newest]]
    /\ UNCHANGED <<sig, filed>> /\ UNCHANGED Phone /\ UNCHANGED Server

\* ... and then puts the entry; the signature may have left in between.
Put(p) ==
    /\ punch[p].stage = "tapped"
    /\ punch' = [punch EXCEPT ![p].stage = "queued"]
    /\ UNCHANGED <<sig, filed>> /\ UNCHANGED Phone /\ UNCHANGED Server

\* It leaves once what it follows has left the phone; the server's gate reads
\* the day it arrives.
SignedToday == \E s \in Sigs : filed[s] # None /\ Day(filed[s]) = Day(hour)

\* Mutant: the clock-in does not wait for the signature.
SendIn_AtOnce(p) ==
    /\ punch[p].stage = "queued"
    /\ punch' = [punch EXCEPT ![p].stage = IF SignedToday THEN "in" ELSE "refused"]
    /\ UNCHANGED <<sig, filed>> /\ UNCHANGED Phone /\ UNCHANGED Server

SendIn(p) ==
    /\ punch[p].stage = "queued"
    /\ \A s \in punch[p].after : ~OnPhone(s)
    /\ punch' = [punch EXCEPT ![p].stage = IF SignedToday THEN "in" ELSE "refused"]
    /\ UNCHANGED <<sig, filed>> /\ UNCHANGED Phone /\ UNCHANGED Server

Next ==
    \/ Tick
    \/ \E d \in Days :
         \/ Repoint(d)
         \/ \E s \in Sigs, talk \in Days, gone \in BOOLEAN : Sign(s, d, talk, gone)
    \/ \E s \in Sigs : Send(s) \/ TryAgain(s) \/ \E t \in Tabs : Confirm(s, t)
    \/ \E t \in Tabs : AskForge(t) \/ Hear(t) \/ Look(t) \/ Save(t) \/ Reload(t)
    \/ \E p \in Punches : Put(p) \/ SendIn(p) \/ \E t \in Tabs : TapIn(p, t)

Spec == Init /\ [][Next]_vars

----------------------------------------------------------------------------

\* AN OPEN GATE STAYS OPEN to the end of the phone's day, through answers asked
\* earlier, older signatures confirmed late, reloads and the other tab's
\* snapshot.  It closes only as a signature leaves the phone that was filed for
\* another day, or whose confirmation another tab kept while this one remembers
\* an older.
GateStaysOpen ==
    [][\A t \in Tabs : GateOpen(t) /\ Day(PhoneNow') = Day(PhoneNow) /\ ~GateOpen(t)' =>
          \E s \in Sigs : /\ OnPhone(s) /\ ~OnPhone(s)'
                          /\ Day(filed[s]) # Day(PhoneNow) \/ memory'[t] \notin {stored', NotRead}]_vars

\* THE CONFIRMATION ON THE PHONE NEVER GOES BACK to an earlier signing.
ConfirmationIsNewest == [][stored' >= stored]_vars

\* A SIGNATURE OPENS ITS OWN DAY ONLY: a row counts for the day whose talk was
\* signed; for another only when that day had none, or the talk was gone.
OwnDayOnly ==
    \A s \in Sigs : filed[s] # None /\ ~sig[s].gone /\ Day(filed[s]) \notin noTalk
                    => Day(filed[s]) = sig[s].talk

\* A CLOCK-IN IS NOT SPENT ON A CLOSED GATE: one tapped behind an open gate
\* is refused only when it arrives on another day than it was tapped on, or
\* when the signature it follows was filed for another day - never because
\* the signature left, or was confirmed, while the tap was being kept.
FollowerIsNotSpent ==
    [][\A p \in Punches : punch[p].stage = "queued" /\ punch'[p].stage = "refused" =>
          \/ Day(hour) # punch[p].day
          \/ \E s \in punch[p].after : filed[s] # None /\ Day(filed[s]) # punch[p].day]_vars

\* 20261033000000_offline_toolbox_signing.sql:32 - what falls outside the
\* bounds is never refused, and (:39) an arrival time cannot block a clock-in.
NeverRefused == \A s \in Sigs : sig[s].stage # "refused"
===========================================================================
