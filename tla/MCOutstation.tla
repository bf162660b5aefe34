------------------------------ MODULE MCOutstation ------------------------------
EXTENDS Outstation

CONSTANTS binary, crob

MCMaxEvents == [t \in EventType |-> 2]
MCClass == [t \in EventType |-> "EC1"]

EventPoll == [NoObjects EXCEPT !.classes = {"EC1"}, !.count = 10]
OctetPoll == [NoObjects EXCEPT !.cells = {1, 2}]
Malformed == [NoObjects EXCEPT !.ok = FALSE]
Command == [NoObjects EXCEPT !.item = crob]
Class1 == [NoObjects EXCEPT !.classes = {"EC1"}]

Of(f, n, x) == [function |-> f, UNS |-> FALSE, SEQ |-> n, objects |-> x]

Restart == [NoObjects EXCEPT !.item = "restart"]
LanTime == [NoObjects EXCEPT !.item = "LAN time"]

\* A READ of both sequence numbers, commands that select, operate and repeat, and
\* one request of each other kind.
MCRequests ==
    {Of("READ", n, EventPoll) : n \in AppSeqNum} \cup
    {Of("READ", 0, OctetPoll), Of("READ", 1, Malformed),
     Of("SELECT", 0, Command), Of("OPERATE", 1, Command), Of("DIRECT_OPERATE", 1, Command),
     Of("DIRECT_OPERATE_NR", 1, Command),
     Of("DISABLE_UNSOLICITED", 0, Class1), Of("ENABLE_UNSOLICITED", 1, Class1),
     Of("ASSIGN_CLASS", 1, NoObjects), Of("WRITE", 0, Restart),
     Of("RECORD_CURRENT_TIME", 0, NoObjects), Of("WRITE", 1, LanTime)}
===============================================================================
