------------------------------ MODULE MCLinkLayer ------------------------------
(* A small instance of LinkLayer: an outstation that uses confirms and answers *)
(* any source, and a master that does not use confirms.  The layer never looks *)
(* into a segment, so two equal ones are as good as two different ones; a frame *)
(* with src = local is one of a station other than the configured remote one.  *)
EXTENDS LinkLayer, TLC

CONSTANTS local, remote, seg

MCAddress == {local, remote}
MCSegment == {seg}
MCSendSet == {[destination |-> remote, segs |-> <<seg, seg>>]}

OutstationConfig ==
    [IsMaster |-> FALSE, UseConfirms |-> TRUE, NumRetry |-> 1,
     LocalAddr |-> local, RemoteAddr |-> remote, respondToAnySource |-> TRUE]

MasterConfig ==
    [IsMaster |-> TRUE, UseConfirms |-> FALSE, NumRetry |-> 0,
     LocalAddr |-> local, RemoteAddr |-> remote, respondToAnySource |-> FALSE]

MCConfigs == {OutstationConfig, MasterConfig}
===============================================================================
