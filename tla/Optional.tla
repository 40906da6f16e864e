------------------------------- MODULE Optional -------------------------------
(* The value of an absent optional, shared by the models that one proof       *)
(* module extends.                                                            *)
CONSTANT None
===============================================================================
