------------------------------- MODULE MCLibTest -------------------------------
(* Two commands typed at any time, two benchmark sessions, one link loss; a  *)
(* timer races the answer for one clock step.                                *)
EXTENDS LibTest

MCDurations == <<1, 1>>
==============================================================================
