---------------------------- MODULE MCDiscovery ----------------------------
(***************************************************************************)
(* Values of Discovery's constants for TLC.                                *)
(***************************************************************************)
EXTENDS Discovery, TLC

CONSTANTS z1, z2, z3

Filter(key, value, negate) == [key |-> key, value |-> value, negate |-> negate]

Symmetry == Permutations(Zones)

Env(value) == <<"env", value>>
Team       == <<"team", "a">>

MCTagSets == {{}, {Env("prod")}, {Env("dev"), Team}}

\* Every kind of filter, alone and two together.
MCJobFilters ==
    {<< >>,
     <<Filter("env", "prod", FALSE)>>,
     <<Filter("env", "prod", TRUE)>>,
     <<Filter("team", "", FALSE), Filter("env", "dev", FALSE)>>,
     <<Filter("team", "", TRUE), Filter("env", "", FALSE)>>}
=============================================================================
