---------------------------- MODULE LossyStream ----------------------------
(***************************************************************************)
(* What a wifibroadcast link promises to the clients at its ends: an       *)
(* unreliable but ordered stream.  Datagrams may be lost; those handed     *)
(* over were sent before and come in the order they were sent, each at     *)
(* most once.  Datagrams are numbered in the order they are sent.          *)
(***************************************************************************)
EXTENDS Integers

CONSTANT Numbers   \* the numbers of datagrams, a set of natural numbers

VARIABLES sent,  \* datagrams sent so far
          last   \* number of the last datagram handed over, -1 if none

Init == sent = {} /\ last = -1

Send(d) == /\ \A e \in sent : d > e
           /\ sent' = sent \cup {d} /\ UNCHANGED last

\* One call may hand over several datagrams.
Deliver(D) == /\ D # {} /\ D \subseteq sent
              /\ \A d \in D : d > last
              /\ last' \in D /\ \A d \in D : d <= last'
              /\ UNCHANGED sent

\* A receiver that restarts, or is taken back to an old session, does not know what it has
\* handed over.
Forget == last' = -1 /\ UNCHANGED sent

Next == \/ \E d \in Numbers : Send(d)
        \/ \E D \in SUBSET Numbers : Deliver(D)
        \/ Forget

Spec == Init /\ [][Next]_<<sent, last>>
=============================================================================
