--------------------------- MODULE MCInstallation ---------------------------
(* Model-checking instance of Installation.                                 *)
EXTENDS Installation
=============================================================================
