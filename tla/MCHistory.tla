----------------------------- MODULE MCHistory -----------------------------
(* A history of three messages, seven added, two readers.                  *)
EXTENDS History

CONSTANTS r1, r2

MCReaders == {r1, r2}
=============================================================================
