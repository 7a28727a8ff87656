--------------------------- MODULE MCStreamJournal ---------------------------
(* Small instances of StreamJournal. *)
EXTENDS StreamJournal, TLC
=============================================================================
