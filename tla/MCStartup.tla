------------------------------ MODULE MCStartup ------------------------------
(***************************************************************************)
(* Values of the constants of Startup for TLC.                             *)
(***************************************************************************)
EXTENDS Startup

CONSTANTS h1, h2, h3, manager, employee

ThreeHosts == {h1, h2, h3}
TwoPeople == {manager, employee}
=============================================================================
