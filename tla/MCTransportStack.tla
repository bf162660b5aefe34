---------------------------- MODULE MCTransportStack ----------------------------
(* One sender and one receiver; a segment carries one byte, so that a fragment  *)
(* of three bytes is three segments.                                           *)
EXTENDS TransportStack, TLC

CONSTANTS s, r, addrS, addrR

MCAddress == {addrS, addrR}
MCLengths == {1, 3}
MCSegment == Tpdu

EndConfig(isMaster, confirms, localAddr, remoteAddr) ==
    [IsMaster |-> isMaster, UseConfirms |-> confirms, NumRetry |-> 1,
     LocalAddr |-> localAddr, RemoteAddr |-> remoteAddr, respondToAnySource |-> FALSE]
Confirmed == (s :> EndConfig(FALSE, TRUE, addrS, addrR)) @@ (r :> EndConfig(TRUE, TRUE, addrR, addrS))
===============================================================================
