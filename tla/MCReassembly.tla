------------------------------ MODULE MCReassembly ------------------------------
(* Two sources, fragments of one, three and four segments, eight sequence       *)
(* numbers that come round within the run, and a receive buffer that holds a   *)
(* fragment of three segments exactly.                                         *)
EXTENDS Reassembly, TLC

CONSTANTS a, b

MCSource == {a, b}
MCLengths == {1, 5, 7}
MCQuota == (a :> 3) @@ (b :> 1)
===============================================================================
