-------------------------- MODULE MCBackupTransfer --------------------------
(* Model-checking instance of BackupTransfer: a file of two chunks and one    *)
(* of a single chunk.                                                         *)
EXTENDS BackupTransfer

TwoFiles == <<2, 1>>

=============================================================================
