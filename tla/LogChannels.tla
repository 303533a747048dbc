---------------------------- MODULE LogChannels -----------------------------
(***************************************************************************)
(* The tables of log modules and channels (Log.cpp), both kept the same    *)
(* way: an entry is claimed by raising an atomic count and filled after    *)
(* that, without a lock, while other threads register and look up.  Entry  *)
(* 0 is the default, which everybody gets once the table is full.          *)
(***************************************************************************)
EXTENDS Integers

CONSTANTS
    Registrants,    \* calls of registerLogModule or registerLogChannel, each on a thread of its own
    Limit,          \* MAX_LOG_MODULES, MAX_LOG_CHANNELS
    Levels,         \* 0 (Trace) up to the highest but Off
    Unnamed

VARIABLES
    count,      \* g_moduleCount
    entries,    \* g_modules: the name and the level of each
    claim,      \* the slot each call has claimed
    id,         \* what each call has returned
    minLevel,   \* g_minLevel
    set         \* history: the level each call's owner gave last

vars == <<count, entries, claim, id, minLevel, set>>

NoSlot == -1
Ids == 0 .. Limit - 1

Init ==
    /\ count = 1
    /\ entries = [i \in Ids |-> [name |-> Unnamed, level |-> 0]]
    /\ claim = [r \in Registrants |-> NoSlot]
    /\ id = [r \in Registrants |-> NoSlot]
    /\ minLevel = 0
    /\ set = [r \in Registrants |-> 0]

\* fetch_add.
Claim(r) ==
    /\ claim[r] = NoSlot
    /\ claim' = [claim EXCEPT ![r] = count]
    /\ count' = count + 1
    /\ UNCHANGED <<entries, id, minLevel, set>>

Unfinished(r) == claim[r] # NoSlot /\ id[r] = NoSlot

Fill(r, level) ==
    /\ Unfinished(r) /\ claim[r] < Limit
    /\ entries' = [entries EXCEPT ![claim[r]] = [name |-> r, level |-> level]]
    /\ id' = [id EXCEPT ![r] = claim[r]]
    /\ set' = [set EXCEPT ![r] = level]
    /\ UNCHANGED <<count, claim, minLevel>>

\* Mutant: the call that found the table full takes its increment back from what it read.
SettledMutant(r) == claim[r] - 1
\* The count is put back to the limit, whatever other calls have added since.
Settled(r) == Limit

Overflow(r) ==
    /\ Unfinished(r) /\ claim[r] >= Limit
    /\ count' = Settled(r)
    /\ id' = [id EXCEPT ![r] = 0]
    /\ UNCHANGED <<entries, claim, minLevel, set>>

\* moduleEntry and channelEntry.
Entry(i) == IF i < count THEN i ELSE 0

\* setModuleLevel and setChannelLevel by someone who holds the id.
SetLevel(r, level) ==
    /\ id[r] # NoSlot
    /\ entries' = [entries EXCEPT ![Entry(id[r])].level = level]
    /\ set' = [set EXCEPT ![r] = level]
    /\ UNCHANGED <<count, claim, id, minLevel>>

SetMinLevel(level) == minLevel' = level /\ UNCHANGED <<count, entries, claim, id, set>>

IsEnabled(level, i) == level >= minLevel /\ level >= entries[Entry(i)].level

Next ==
    \/ \E r \in Registrants : Claim(r) \/ Overflow(r) \/ \E l \in Levels : Fill(r, l) \/ SetLevel(r, l)
    \/ \E l \in Levels : SetMinLevel(l)

Spec == Init /\ [][Next]_vars

(***************************************************************************)
(* Properties.                                                             *)
(***************************************************************************)
\* An id that was returned resolves to the entry its caller registered, and to no
\* other's, while calls that overflow the table move the count up and down, so that
\* only its owner decides what it lets through; the default's name nobody writes.
IdsKeepTheirEntries ==
    /\ \A r \in Registrants : id[r] \notin {NoSlot, 0} =>
          /\ entries[Entry(id[r])].name = r
          /\ \A l \in Levels : IsEnabled(l, id[r]) <=> l >= minLevel /\ l >= set[r]
    /\ \A r, s \in Registrants : claim[r] = claim[s] /\ claim[r] \in Ids => r = s
    /\ entries[0].name = Unnamed
=============================================================================
