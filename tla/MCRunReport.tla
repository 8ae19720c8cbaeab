---------------------------- MODULE MCRunReport ----------------------------
(* Two boots of six lines and a journal of three two-page sectors: the start  *)
(* page, four pages of up to two lines and the page kept for the end marker.  *)
EXTENDS RunReport

MCText == (1..2) \X (1..6)
=============================================================================
