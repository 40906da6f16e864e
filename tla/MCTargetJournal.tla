--------------------------- MODULE MCTargetJournal ---------------------------
(* TLC instances of TargetJournal: a file of a few dozen "bytes", with the *)
(* bounds in the proportions of JournalBounds::default.                    *)
EXTENDS TargetJournal, TLC

CONSTANTS p1, p2, i1, i2, h1, h2

(* h1 is an update, which may turn out to be a no-op and whose failures    *)
(* are final; h2 is a recovery phase or an uninstall, run again under the  *)
(* same id after a failure.                                                *)
TwoKinds == (h1 :> "update") @@ (h2 :> "retryable")

Symmetric == Permutations(Procs) \cup Permutations(Ids)

=============================================================================
