--------------------------- MODULE PreparedDatabase ---------------------------
(***************************************************************************)
(* What the start-up of the hosts promises about their database, apart from *)
(* what each host checks, races for and fails at: the migrations are        *)
(* applied one after the other, none twice and none left out; then, once,   *)
(* the default data is filled in by a host that from there on serves; and   *)
(* only on such a database does any host come to serve.                    *)
(*                                                                         *)
(* Startup implements this specification (Startup!Prepared).                *)
(***************************************************************************)
EXTENDS Naturals

CONSTANTS
  Hosts,
  LastMigration

VARIABLES
  version,  \* the migrations applied are 1..version
  filled,   \* whether the default data is there
  serving   \* the hosts that serve

vars == <<version, filled, serving>>

Init ==
  /\ version = 0
  /\ filled = FALSE
  /\ serving = {}

Upgrade ==
  /\ version < LastMigration
  /\ ~filled
  /\ version' = version + 1
  /\ UNCHANGED <<filled, serving>>

Fill(h) ==
  /\ version = LastMigration
  /\ ~filled
  /\ filled' = TRUE
  /\ serving' = serving \cup {h}
  /\ UNCHANGED version

Serve(h) ==
  /\ version = LastMigration
  /\ filled
  /\ serving' = serving \cup {h}
  /\ UNCHANGED <<version, filled>>

Leave(h) ==
  /\ serving' = serving \ {h}
  /\ UNCHANGED <<version, filled>>

Next ==
  \/ Upgrade
  \/ \E h \in Hosts : Fill(h) \/ Serve(h) \/ Leave(h)

Spec == Init /\ [][Next]_vars
=============================================================================
