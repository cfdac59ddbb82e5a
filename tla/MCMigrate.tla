----------------------------- MODULE MCMigrate -----------------------------
(* Two tables, the second referencing the first; every configuration.      *)
EXTENDS Migrate

CONSTANTS parent, child

MCTables  == {parent, child}
MCFk      == {<<child, parent>>}
MCConfigs == Config
=============================================================================
