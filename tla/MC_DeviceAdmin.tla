---------------------------- MODULE MC_DeviceAdmin --------------------------
(* One phone, one connection, two loads of the list that overlap.            *)
EXTENDS DeviceAdmin
=============================================================================
