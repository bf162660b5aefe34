-------------------------------- MODULE MCMaster --------------------------------
EXTENDS Master

CONSTANTS m1, m2, integrity, command, restart, poll, scan

MCOwner == [t \in Task |-> IF t = poll THEN m2 ELSE m1]
MCKind == [t \in Task |->
    CASE t = integrity -> "StartupIntegrity" [] t = command -> "SelectAndOperate"
      [] t = restart -> "ClearRestart" [] t = poll -> "UserPoll"
      [] t = scan -> "UserScan"]

Of(con, fir, fin, objects, iin) ==
    [SEQ |-> 0, CON |-> con, FIR |-> fir, FIN |-> fin, objects |-> objects, iin |-> iin]

\* A complete answer; the first fragment of several, one in the middle and the
\* last one, with an indication.  To a task that expects a single fragment the
\* last three are bad responses.
MCResponses ==
    {Of(TRUE, TRUE, TRUE, "good", {}), Of(TRUE, TRUE, FALSE, "good", {}),
     Of(FALSE, FALSE, FALSE, "good", {}), Of(FALSE, FALSE, TRUE, "good", {"DEVICE_RESTART"})}
MCUnsolicited == {Of(TRUE, TRUE, TRUE, "good", {})}
===============================================================================
