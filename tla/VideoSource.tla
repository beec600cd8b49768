---------------------------- MODULE VideoSource ----------------------------
(***************************************************************************)
(* The poll loop of wfb_tx: video_source of src/tx.cpp.                    *)
(*                                                                         *)
(* Each wlan has a UDP socket of its own, and a datagram leaves on the     *)
(* wlan of the socket it came in on.  poll notes the readable sockets; they*)
(* are then served in order, each until it is empty, while more datagrams  *)
(* arrive on all of them.  The block is shared by all the sockets.         *)
(***************************************************************************)
EXTENDS Transmitter, Sequences

CONSTANTS Outputs,     \* number of wlans, and of sockets
          Backlog,     \* datagrams the kernel keeps for one socket
          MaxArrivals  \* BOUND: datagrams that ever arrive

ASSUME OutputAssumption == /\ Outputs \in Nat \ {0} /\ Backlog \in Nat \ {0}
                           /\ MaxArrivals \in Nat

VARIABLES inbox,          \* socket -> datagrams (their sizes) the kernel holds
          revents,        \* sockets of the last poll that are still to be served
          current_output, \* the wlan inject_packet uses
          arrived         \* number of datagrams that have arrived

sockets   == <<inbox, revents, current_output>>
videoVars == <<vars, sockets, arrived>>

Fds == 0..(Outputs - 1)

VideoInit == /\ Init
             /\ inbox = [i \in Fds |-> <<>>] /\ revents = {} /\ current_output = 0
             /\ arrived = 0

\* The kernel queues a datagram; with a full buffer, or while nobody has the
\* socket open, it drops it.
Arrive(i, size) ==
  /\ up
  /\ arrived < MaxArrivals /\ arrived' = arrived + 1
  /\ Len(inbox[i]) < Backlog
  /\ inbox' = [inbox EXCEPT ![i] = Append(@, size)]
  /\ UNCHANGED <<vars, revents, current_output>>

\* Mutant: the last socket is left out.
Bug_PollsAllButLast ==
  /\ up /\ revents = {}
  /\ revents' = {i \in Fds : i < Outputs - 1 /\ inbox[i] # <<>>}
  /\ revents' # {}
  /\ UNCHANGED <<vars, inbox, current_output, arrived>>

Poll == /\ up /\ revents = {}
        /\ revents' = {i \in Fds : inbox[i] # <<>>}
        /\ revents' # {}
        /\ UNCHANGED <<vars, inbox, current_output, arrived>>

Serving(i) == up /\ i \in revents /\ \A j \in revents : i <= j

\* select_output, then recv and send until the socket is empty.
Recv(i) ==
  /\ Serving(i) /\ inbox[i] # <<>>
  /\ inbox' = [inbox EXCEPT ![i] = Tail(@)]
  /\ current_output' = i
  /\ Datagram(Head(inbox[i]))
  /\ UNCHANGED <<revents, arrived>>

WouldBlock(i) ==
  /\ Serving(i) /\ inbox[i] = <<>>
  /\ revents' = revents \ {i}
  /\ UNCHANGED <<vars, inbox, current_output, arrived>>

\* The exception of inject_packet ends the process and closes its sockets.
Dies(i) ==
  /\ Serving(i) /\ inbox[i] # <<>>
  /\ \E cut \in 0..(FecN + 1) : InjectFails(Head(inbox[i]), cut)
  /\ inbox' = [j \in Fds |-> <<>>] /\ revents' = {} /\ current_output' = 0
  /\ UNCHANGED arrived

Respawn == Restart /\ UNCHANGED <<sockets, arrived>>

\* Time passes between two datagrams.
Wait == Tick /\ UNCHANGED <<sockets, arrived>>

Loop == Poll \/ \E i \in Fds : Recv(i) \/ WouldBlock(i)

VideoNext == \/ \E i \in Fds, size \in Sizes : Arrive(i, size)
             \/ Loop
             \/ \E i \in Fds : Dies(i)
             \/ Respawn
             \/ Wait

VideoSpec == VideoInit /\ [][VideoNext]_videoVars /\ WF_videoVars(Loop)
-----------------------------------------------------------------------------
\* A process that keeps running takes every datagram that has arrived, on
\* every socket, once arrivals pause (the inner loop drains one socket before
\* it looks at the next one).
AllServed == \A i \in Fds : (inbox[i] # <<>>) ~> (inbox[i] = <<>> \/ ~up)

=============================================================================
