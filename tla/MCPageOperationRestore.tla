------------------------ MODULE MCPageOperationRestore ------------------------
(***************************************************************************)
(* The instances of MCPageOperationLog with backups and restorations.      *)
(***************************************************************************)
EXTENDS PageOperationRestore, MCPageOperationLog

=============================================================================
