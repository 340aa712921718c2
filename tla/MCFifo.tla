-------------------------------- MODULE MCFifo --------------------------------
(* The runs of Fifo; their constants are given in the cfgs.                 *)
EXTENDS Fifo
===============================================================================
