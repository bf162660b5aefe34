---------------------------- MODULE FragmentChannel ----------------------------
(***************************************************************************)
(* What the transport layer promises to the application layer: fragments   *)
(* may be lost, but what arrives is a whole fragment that was submitted,   *)
(* never twice, and those of one source arrive in the order they were      *)
(* submitted.                                                              *)
(***************************************************************************)
EXTENDS Naturals, Sequences

CONSTANTS Source, Fragment

VARIABLES sent,       \* sent[s]: the fragments s has submitted
          delivered,  \* the fragments passed up, each with its source
          last        \* last[s]: position in sent[s] of the last one passed up

vars == <<sent, delivered, last>>

Init ==
    /\ sent = [s \in Source |-> <<>>]
    /\ delivered = <<>>
    /\ last = [s \in Source |-> 0]

Submit(s, f) ==
    /\ sent' = [sent EXCEPT ![s] = Append(@, f)]
    /\ UNCHANGED <<delivered, last>>

Deliver(s, i) ==
    /\ i > last[s]
    /\ last' = [last EXCEPT ![s] = i]
    /\ delivered' = Append(delivered, [source |-> s, asdu |-> sent[s][i]])
    /\ UNCHANGED sent

Next ==
    \E s \in Source :
        \/ \E f \in Fragment : Submit(s, f)
        \/ \E i \in DOMAIN sent[s] : Deliver(s, i)

Spec == Init /\ [][Next]_vars
===============================================================================
