--------------------------- MODULE SynthSettings ---------------------------
(***************************************************************************)
(* The synthetic engine's saved settings: the boot load and the admin's    *)
(* changes take turns in one queue; storage may connect late, fail, or     *)
(* commit and still report an error.                                       *)
(*                                                                         *)
(* Source: internal/synthetic/engine.go (loadSettings, UpdateSettings).    *)
(***************************************************************************)
EXTENDS Integers, Sequences, SequencesExt

CONSTANTS
    Keys,           \* SettingKeys
    Values,         \* values an admin may set, all different from the defaults
    Env,            \* the default of every key
    Loader, Admins, \* who takes turns: the load, and the requests
    MaxUpdates, MaxRestarts     \* bounds

Absent == 0         \* a key that was never saved

\* The load is no request, and a saved value is one.
ASSUME SettingsAssumption == Loader \notin Admins /\ Env # Absent /\ Absent \notin Values

Idle == [at |-> "idle", key |-> CHOOSE k \in Keys : TRUE, val |-> Absent, before |-> [k \in Keys |-> Env]]

VARIABLES
    mem, loaded, dirty,     \* the settings in force, settingsLoaded, settingsDirty
    row,                    \* the settings table
    enabled,                \* the storage is connected
    turns,                  \* the turns, the first is running
    t,                      \* per turn taker: its step, change, and what it read before
    chosen,                 \* history: what the operator set last, key by key
    torn,                   \* history: a save reported an error and is in the table
    updates, restarts

settingsVars == <<mem, loaded, dirty, row, enabled, turns, t, chosen, torn, updates, restarts>>
memVars == <<mem, loaded, dirty>>
boundVars == <<updates, restarts>>

defaults == [k \in Keys |-> Env]
Actors == {Loader} \cup Admins

SettingsInit ==
    /\ mem = defaults /\ loaded = FALSE /\ dirty = FALSE
    /\ row \in [Keys -> {Absent} \cup Values] /\ enabled \in BOOLEAN
    /\ turns = <<>> /\ t = [a \in Actors |-> Idle]
    /\ chosen = row /\ torn = FALSE /\ updates = 0 /\ restarts = 0

step(a, s) == t' = [t EXCEPT ![a].at = s]
\* The place in the queue is taken under the engine's lock, and waited for without it.
settingsTurn(a, rec) == turns' = Append(turns, a) /\ t' = [t EXCEPT ![a] = rec]
\* Mutation: a turn starts without waiting for the ones before it.
Mut_NoWait(a) == t[a].at = "queued"
beginTurn(a) == t[a].at = "queued" /\ Head(turns) = a
endTurn(a) ==
    /\ \E i \in 1..Len(turns) : turns[i] = a /\ turns' = RemoveAt(turns, i)
    /\ t' = [t EXCEPT ![a] = Idle]

\* Saved over the defaults, key by key.
over(stored, s) == [k \in Keys |-> IF stored[k] = Absent THEN s[k] ELSE stored[k]]
SaveSettings(s) == row' = s

--------------------------------------------------------------------------------
(* The load, retried by the loop until it succeeds. *)

attemptLoad ==
    /\ ~loaded /\ enabled /\ t[Loader] = Idle
    /\ settingsTurn(Loader, [Idle EXCEPT !.at = "queued"])
    /\ UNCHANGED <<memVars, row, enabled, chosen, torn, boundVars>>

\* Already loaded, or the read failed: the turn ends.  A change made while storage was away is
\* newer and wins, whole: it is saved now instead of what the table holds.
loadSettings ==
    /\ beginTurn(Loader)
    /\ \/ endTurn(Loader) /\ UNCHANGED memVars
       \/ ~loaded /\ dirty /\ step(Loader, "saving") /\ UNCHANGED <<memVars, turns>>
       \/ ~loaded /\ ~dirty /\ endTurn(Loader)
          /\ mem' = over(row, mem) /\ loaded' = TRUE /\ UNCHANGED dirty
    /\ UNCHANGED <<row, enabled, chosen, torn, boundVars>>

loadSaved ==
    /\ t[Loader].at = "saving" /\ endTurn(Loader)
    /\ \/ SaveSettings(mem) /\ dirty' = FALSE /\ loaded' = TRUE /\ torn' = FALSE
       \/ SaveSettings(mem) /\ torn' = TRUE /\ UNCHANGED <<dirty, loaded>>
       \/ UNCHANGED <<row, dirty, loaded, torn>>
    /\ UNCHANGED <<mem, enabled, chosen, boundVars>>

--------------------------------------------------------------------------------
(* POST settings: one key of several. *)

UpdateSettings(a, k, v) ==
    /\ t[a] = Idle /\ updates < MaxUpdates /\ updates' = updates + 1
    /\ settingsTurn(a, [Idle EXCEPT !.at = "queued", !.key = k, !.val = v])
    /\ UNCHANGED <<memVars, row, enabled, chosen, torn, restarts>>

\* The change applies at once; without storage it is kept for the load to save.
applySettings(a) ==
    /\ beginTurn(a) /\ mem' = [mem EXCEPT ![t[a].key] = t[a].val]
    /\ IF enabled
       THEN t' = [t EXCEPT ![a] = [@ EXCEPT !.at = "saving", !.before = mem]]
            /\ UNCHANGED <<dirty, chosen, turns>>
       ELSE endTurn(a) /\ dirty' = TRUE /\ chosen' = [chosen EXCEPT ![t[a].key] = t[a].val]
    /\ UNCHANGED <<loaded, row, enabled, torn, boundVars>>

\* Every setting is saved at once; a failed save is rolled back (503).
settingsSaved(a) ==
    /\ t[a].at = "saving" /\ endTurn(a)
    /\ LET next == [t[a].before EXCEPT ![t[a].key] = t[a].val] IN
       \/ /\ SaveSettings(next) /\ dirty' = FALSE /\ torn' = FALSE
          /\ chosen' = [chosen EXCEPT ![t[a].key] = t[a].val] /\ UNCHANGED mem
       \/ /\ mem' = t[a].before /\ UNCHANGED <<dirty, chosen>>
          /\ (SaveSettings(next) /\ torn' = TRUE) \/ UNCHANGED <<row, torn>>
    /\ UNCHANGED <<loaded, enabled, boundVars>>

--------------------------------------------------------------------------------
(* Around them. *)

Connects == ~enabled /\ enabled' = TRUE
            /\ UNCHANGED <<memVars, row, turns, t, chosen, torn, boundVars>>

\* A new process starts with the defaults; what was never saved is gone with the old one.
Restarts ==
    /\ restarts < MaxRestarts /\ restarts' = restarts + 1
    /\ mem' = defaults /\ loaded' = FALSE /\ dirty' = FALSE /\ enabled' \in BOOLEAN
    /\ turns' = <<>> /\ t' = [a \in Actors |-> Idle] /\ chosen' = row /\ torn' = FALSE
    /\ UNCHANGED <<row, updates>>

SettingsNext ==
    \/ attemptLoad \/ loadSettings \/ loadSaved \/ Connects \/ Restarts
    \/ \E a \in Admins : \/ \E k \in Keys, v \in Values : UpdateSettings(a, k, v)
                         \/ applySettings(a) \/ settingsSaved(a)

SettingsSpec == SettingsInit /\ [][SettingsNext]_settingsVars

--------------------------------------------------------------------------------
(* Properties *)

\* When no turn is running, the settings in force are the saved ones, whatever loads, changes,
\* failed saves and roll-backs came before, unless a save committed and reported an error.
ForceIsSaved == loaded /\ turns = <<>> /\ ~dirty /\ ~torn => mem = over(row, defaults)

\* As engine.go:511-512 has it: once entries are allowed (the settings are loaded), a key the
\* operator has saved is in force with that value, never with the default.
NeverUnderDefaults ==
    loaded /\ turns = <<>> /\ ~torn => mem = over(chosen, defaults)

--------------------------------------------------------------------------------
(* ForceIsSaved holds by the parts below. *)

Setting == {Env} \cup Values
TurnType == [at : {"idle", "queued", "saving"}, key : Keys \cup {Idle.key}, val : Values \cup {Absent},
             before : [Keys -> Setting]]

SettingsTypeOK ==
    /\ mem \in [Keys -> Setting] /\ row \in [Keys -> Setting \cup {Absent}]
    /\ t \in [Actors -> TurnType] /\ turns \in Seq(Actors)
    /\ \A a \in Admins : t[a].at # "idle" => t[a].key \in Keys /\ t[a].val \in Values

\* Whoever is at work has one place in the queue, and only the first one saves.
TurnsInOrder ==
    /\ \A i, j \in 1..Len(turns) : turns[i] = turns[j] => i = j
    /\ \A a \in Actors : t[a].at # "idle" <=> \E i \in 1..Len(turns) : turns[i] = a
    /\ \A a \in Actors : t[a].at = "saving" => turns[1] = a

\* Settings that the table would give back, over the defaults, or over which it would be read.
backed(s) ==
    ~dirty /\ ~torn => IF loaded THEN s = over(row, defaults) ELSE \A k \in Keys : row[k] = Absent => s[k] = Env

\* While a change is being saved, the settings before it are the backed ones.
SavingChange ==
    /\ \A a \in Admins : t[a].at = "saving" =>
          backed(t[a].before) /\ mem = [t[a].before EXCEPT ![t[a].key] = t[a].val]
    /\ t[Loader].at = "saving" => ~loaded
    /\ (\A a \in Admins : t[a].at # "saving") => backed(mem)

SettingsIInv == SettingsTypeOK /\ TurnsInOrder /\ SavingChange
=============================================================================
