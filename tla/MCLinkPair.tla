------------------------------- MODULE MCLinkPair -------------------------------
(* A master and an outstation; segments are numbered in the order they are sent. *)
EXTENDS LinkPair, TLC

CONSTANTS m, o, addrM, addrO

MCNode == {m, o}
MCAddress == {addrM, addrO}
MCSegment == 1..3

\* A message of two segments against one of a single segment.
MCScript == (m :> << <<1, 2>> >>) @@ (o :> << <<3>> >>)

EndConfig(isMaster, localAddr, remoteAddr) ==
    [IsMaster |-> isMaster, UseConfirms |-> TRUE, NumRetry |-> 1,
     LocalAddr |-> localAddr, RemoteAddr |-> remoteAddr, respondToAnySource |-> FALSE]
MCNodeConfig == (m :> EndConfig(TRUE, addrM, addrO)) @@ (o :> EndConfig(FALSE, addrO, addrM))
===============================================================================
