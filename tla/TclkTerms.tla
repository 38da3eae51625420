------------------------------ MODULE TclkTerms ------------------------------
(* What every reader of a tclk/1 venue agrees on (src/technocore/tclk.py).     *)
EXTENDS Naturals

CONSTANTS
    Second,              \* stamp units in a second (1000 in the code)
    OffersRoom,          \* offers_room
    None

ASSUME SecondAssumption == Second \in Nat \ {0}
=============================================================================
