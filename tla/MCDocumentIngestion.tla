------------------------ MODULE MCDocumentIngestion ------------------------
(* Instances of DocumentIngestion for TLC. *)
EXTENDS DocumentIngestion

CONSTANTS h1, r1, r2, r3

OneDocument == {h1}
ThreeRuns   == {r1, r2, r3}
=============================================================================
