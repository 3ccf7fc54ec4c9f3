------------------------------- MODULE MCKipSync ------------------------------
(* Two fields of the table, one of them the migrated one, and three versions. *)
EXTENDS KipSync
MCFieldSeq == <<"hpMode", "marikoGpuBootVolt">>
==============================================================================
