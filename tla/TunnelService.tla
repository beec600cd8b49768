--------------------------- MODULE TunnelService ---------------------------
(***************************************************************************)
(* The tunnel as a service of the telemetry server: init_tunnel opens the  *)
(* device with the other sockets, and the cleanup that runs when a child   *)
(* of the tunnel fails closes it.  Both run in the one reactor thread.     *)
(***************************************************************************)
EXTENDS Integers, Sequences

CONSTANTS Interval, MaxPackets, MaxWaiting,
          Services, Gathering, Child, ServiceOf, Commands,
          Tunnel   \* the service that owns the device

VARIABLES connected, reading, writing, queue, running, time_left, waiting,
          to_peer, to_device, accepted, written, silent,
          commands, raised, child, opened, system_failed, reactor, exit_code,
          failure, signalled

Tun == INSTANCE TunTap
Svc == INSTANCE Service

ASSUME ConstantsOK == /\ Tun!TunAssumption /\ Svc!ServiceAssumption
                      /\ Tunnel \in Gathering
                      /\ \E c \in Child : ServiceOf[c] = Tunnel

tunnel_vars  == <<connected, reading, writing, queue, running, time_left, waiting,
                  to_peer, to_device, accepted, written, silent>>
service_vars == <<commands, raised, child, opened, system_failed, reactor, exit_code,
                  failure, signalled>>
vars         == <<tunnel_vars, service_vars>>

Init == Tun!Init /\ Svc!Init

\* init_tunnel has come to its end, so the device is there.
TunnelStarted == Svc!Started /\ Tunnel \notin raised

\* Mutant: the cleanup forgets the device.
Bug_Closing == FALSE

\* _cleanup of init_tunnel runs in this step.
Closing == /\ Tunnel \notin raised' /\ commands' = 0
           /\ Svc!Gathered(Tunnel, child) = "pending"
           /\ Svc!Gathered(Tunnel, child') # "pending"

ServiceStep == /\ Svc!Next
               /\ IF Closing THEN Tun!loseConnection ELSE UNCHANGED tunnel_vars

TunnelStep == /\ TunnelStarted /\ Svc!Turning
              /\ Tun!Next
              /\ UNCHANGED service_vars

Next == ServiceStep \/ TunnelStep

\* While the reactor runs: its clock goes on and due calls are made, a device that is watched
\* for writing is written to, or fails, in the end, and a stopped reactor ends.
Spec == /\ Init /\ [][Next]_vars
        /\ WF_vars(TunnelStep /\ Tun!Tick) /\ WF_vars(TunnelStep /\ Tun!send_keepalive)
        /\ WF_vars(TunnelStep /\ Tun!Progress)
        /\ WF_vars(ServiceStep /\ Svc!Exit)
-----------------------------------------------------------------------------
SilenceBounded         == Tun!SilenceBounded
OnlyWhenSilent         == Tun!OnlyWhenSilent
NothingLost            == Tun!NothingLost
WatchedWhenQueued      == Tun!WatchedWhenQueued
FailureEndsServer      == Svc!FailureEndsServer
StatusTruthful         == Svc!StatusTruthful
SocketsWhileAlive      == Svc!SocketsWhileAlive

\* server.py:450: a device that is still there belongs to a service that still
\* has its sockets, and nothing is written to it once the first child of the tunnel failed.
DeviceOfLivingService == TunnelStarted /\ connected => Tunnel \in opened

\* Every packet from the far side reaches the device, unless the device or the server ends
\* first; a write the device refuses, also for want of room, is its end.
Drained == \A n \in 1..MaxPackets :
             (TunnelStarted /\ accepted >= n) ~> (written >= n \/ ~connected \/ reactor = "stopped")
=============================================================================
