--------------------------------- MODULE MCBle ---------------------------------
(* One RaceBox, a FIFO of two frames, and a few of everything that can go    *)
(* wrong.                                                                    *)
EXTENDS RaceBoxBle
==============================================================================
