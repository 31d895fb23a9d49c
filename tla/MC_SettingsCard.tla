--------------------------- MODULE MC_SettingsCard --------------------------
(* One tunnel address, so that the tunnel goes and comes back with the same.*)
EXTENDS SettingsCard
=============================================================================
