------------------------------- MODULE MCStartup -------------------------------
(***************************************************************************)
(* TLC's instance of Startup: two servers and the migration script on a    *)
(* new database, or on one that an earlier release with one file and one   *)
(* bundle left.                                                            *)
(***************************************************************************)
EXTENDS Startup

CONSTANTS active, candidate

MCBundles == {active, candidate}

New == [tracked |-> FALSE, names |-> {}, effects |-> [f \in Files |-> 0], bundles |-> {}]

Old == [tracked |-> TRUE, names |-> {1},
        effects |-> [f \in Files |-> IF f = 1 THEN 1 ELSE 0], bundles |-> {active}]

MCEarlier == {New, Old}

=============================================================================
