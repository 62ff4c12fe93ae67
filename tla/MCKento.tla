-------------------------------- MODULE MCKento --------------------------------
(***************************************************************************)
(* Callers for TLC: the helper h creates g1 while the sweeper s lists and    *)
(* tears g1 down.                                                          *)
(***************************************************************************)
EXTENDS Kento

CONSTANTS h, s, g1

MCCallers == {h, s}

MCAsks ==
    [c \in MCCallers |->
        IF c = h THEN {[op |-> "provision", arg |-> g1]}
        ELSE {[op |-> "list", arg |-> None], [op |-> "teardown", arg |-> g1]}]

\* The instances that nobody asks for are there, so that some lists do not fit.
Start == KentoInit /\ Guests \ {g1} \subseteq live

FairSpec == Start /\ [][KentoNext]_kentoVars /\ KentoFairness

=============================================================================
