---------------------------- MODULE MCSynthetic -----------------------------
(* The parts of the synthetic futures engine: the book with its store, the scanner's lane, *)
(* the settings and the browser streams. No two of these modules share state. A behaviour  *)
(* picks one of them, so that one run checks all four over the sum, not the product, of    *)
(* their states; the others rest.                                                          *)
EXTENDS SynthBook, SynthLane, SynthSettings, SynthStream

CONSTANTS NIFTY, s1, s2

VARIABLE part       \* the component that moves

SyntheticVars == <<part, bookVars, synthLaneVars, settingsVars, synthStreamVars>>

SyntheticInit ==
    /\ part \in {"book", "lane", "settings", "streams"}
    /\ BookInit /\ SynthLaneInit /\ SettingsInit /\ SynthStreamInit
    /\ part # "settings" => row = [k \in Keys |-> Absent] /\ enabled

SyntheticNext ==
    /\ UNCHANGED part
    /\ \/ part = "book" /\ BookNext /\ UNCHANGED <<synthLaneVars, settingsVars, synthStreamVars>>
       \/ part = "lane" /\ SynthLaneNext /\ UNCHANGED <<bookVars, settingsVars, synthStreamVars>>
       \/ part = "settings" /\ SettingsNext /\ UNCHANGED <<bookVars, synthLaneVars, synthStreamVars>>
       \/ part = "streams" /\ SynthStreamNext /\ UNCHANGED <<bookVars, synthLaneVars, settingsVars>>

SyntheticSpec == SyntheticInit /\ [][SyntheticNext]_SyntheticVars
=============================================================================
