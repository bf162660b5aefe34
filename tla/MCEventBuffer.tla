----------------------------- MODULE MCEventBuffer -----------------------------
(* Two event types of different capacity, so that the smaller list overflows    *)
(* while the larger one still has space, and one that no events are kept of,    *)
(* the default of EventBufferConfig.                                           *)
EXTENDS EventBuffer

CONSTANTS binary, analog, counter

MCMaxEvents == [t \in EventType |-> CASE t = binary -> 2 [] t = analog -> 1 [] t = counter -> 0]
===============================================================================
