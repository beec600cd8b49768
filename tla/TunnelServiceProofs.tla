------------------------ MODULE TunnelServiceProofs ------------------------
(***************************************************************************)
(* Proofs about TunnelService for any services and children, any keepalive *)
(* interval and any number of packets.                                     *)
(***************************************************************************)
EXTENDS TunnelService, TLAPS

Proved == INSTANCE TunTapProofs

-----------------------------------------------------------------------------
(***************************************************************************)
(* The end of the server: the flag of common.py and the history of         *)
(* failures agree, and before the services start there is nothing to fail  *)
(* but a command.                                                          *)
(***************************************************************************)
EndInv ==
  /\ commands \in Int
  /\ commands # 0 => raised = {} /\ \A c \in Child : child[c] = "none"
  /\ commands > 0 => ~failure
  /\ failure \in BOOLEAN /\ system_failed = failure
  /\ reactor # "running" => failure \/ signalled
  /\ failure => reactor # "running"
  /\ exit_code # Svc!NotExited => reactor = "stopped" /\ (exit_code = 1 <=> failure)

LEMMA EndInit == ASSUME Svc!ServiceAssumption PROVE Init => EndInv
<1> SUFFICES ASSUME Init PROVE EndInv
  OBVIOUS
<1>1. commands \in Int /\ failure = FALSE /\ system_failed = FALSE
  BY DEF Init, Svc!Init, Svc!ServiceAssumption
<1>2. raised = {} /\ (\A c \in Child : child[c] = "none") /\ ~failure
  BY DEF Init, Svc!Init
<1>3. reactor = "running" /\ exit_code = Svc!NotExited
  BY DEF Init, Svc!Init
<1> QED  BY <1>1, <1>2, <1>3 DEF EndInv

LEMMA EndStep == ASSUME EndInv, [Next]_vars PROVE EndInv'
<1>1. CASE Svc!CommandSucceeds
  BY <1>1 DEF Svc!CommandSucceeds, EndInv
<1>2. CASE Svc!CommandFails
  BY <1>2 DEF Svc!CommandFails, Svc!FatalError, Svc!Turning, EndInv
<1>3. CASE Svc!StartServices
  <2>1. PICK rs \in SUBSET Services : /\ Svc!Outcome(child', rs)
                                      /\ failure' = Svc!Failing(child', rs)
    BY <1>3 DEF Svc!StartServices
  <2>2. failure' \in BOOLEAN
    BY <2>1 DEF Svc!Failing
  <2>3. /\ Svc!Turning /\ commands = 1 /\ commands' = 0 /\ ~failure
        /\ UNCHANGED <<exit_code, signalled>>
    BY <1>3 DEF Svc!StartServices, EndInv
  <2>4. CASE Svc!Failing(child', rs)
    BY <2>1, <2>2, <2>3, <2>4 DEF Svc!Outcome, Svc!FatalError, Svc!Turning, EndInv
  <2>5. CASE ~Svc!Failing(child', rs)
    BY <2>1, <2>2, <2>3, <2>5 DEF Svc!Outcome, Svc!Turning, EndInv
  <2> QED  BY <2>4, <2>5
<1>4. CASE \E c \in Child, code \in {0, 1} : Svc!processEnded(c, code)
  <2>1. PICK c \in Child, code \in {0, 1} : Svc!processEnded(c, code)
    BY <1>4
  <2>2. commands = 0 /\ commands' = 0 /\ Svc!Turning
    BY <2>1 DEF Svc!processEnded, EndInv
  <2>3. failure' = (failure \/ code # 0) /\ UNCHANGED <<exit_code, signalled>>
    BY <2>1 DEF Svc!processEnded
  <2>4. IF code # 0 /\ ~failure THEN system_failed' = TRUE /\ reactor' = "stopping"
                                ELSE UNCHANGED <<system_failed, reactor>>
    BY <2>1 DEF Svc!processEnded, Svc!FatalError
  <2>5. failure' \in BOOLEAN /\ system_failed' = failure'
    BY <2>3, <2>4, Zenon DEF EndInv
  <2>6. failure' => reactor' # "running"
    <3>1. CASE failure
      BY <2>4, <3>1 DEF EndInv
    <3>2. CASE ~failure
      BY <2>3, <2>4, <3>2
    <3> QED  BY <3>1, <3>2
  <2>7. reactor' # "running" => failure' \/ signalled'
    BY <2>3, <2>4 DEF EndInv
  <2>8. exit_code' = Svc!NotExited
    BY <2>2, <2>3 DEF EndInv, Svc!Turning
  <2> QED  BY <2>2, <2>5, <2>6, <2>7, <2>8 DEF EndInv
<1>5. CASE Svc!Signal
  BY <1>5 DEF Svc!Signal, EndInv
<1>6. CASE Svc!Exit
  BY <1>6 DEF Svc!Exit, EndInv, Svc!NotExited
<1>7. CASE UNCHANGED service_vars
  BY <1>7 DEF service_vars, EndInv
<1> QED  BY <1>1, <1>2, <1>3, <1>4, <1>5, <1>6, <1>7
         DEF Next, ServiceStep, TunnelStep, Svc!Next, vars

\* telemetry/common.py, server.py:466-472: the exit status tells whether anything failed, in
\* whatever order failures, signals and ends of children come.
THEOREM StatusIsTruthful == ASSUME Svc!ServiceAssumption PROVE Spec => []StatusTruthful
<1>1. EndInv => StatusTruthful
  BY DEF EndInv, StatusTruthful, Svc!StatusTruthful
<1>2. EndInv /\ [Next]_vars => EndInv'
  BY EndStep
<1> QED  BY <1>1, EndInit, <1>2, PTL DEF Spec
-----------------------------------------------------------------------------
(***************************************************************************)
(* The sockets and the device                                              *)
(***************************************************************************)
Pending(s) == Svc!Gathered(s, child) = "pending"

Spawning == \A c \in Child : child[c] = "none" <=> ServiceOf[c] \in raised

SocketsInv ==
  /\ child \in [Child -> {"none", "running", "ok", "failed"}]
  /\ commands = 0 => Spawning
  /\ commands = 0 => \A s \in Gathering \ raised : s \in opened <=> Pending(s)
  /\ commands = 0 /\ Tunnel \notin raised /\ connected => Pending(Tunnel)

LEMMA SocketsInit == ASSUME Svc!ServiceAssumption PROVE Init => SocketsInv
BY DEF Init, Svc!Init, Svc!ServiceAssumption, SocketsInv

\* A gathering that has fired never waits again.
LEMMA FiredStays ==
  ASSUME NEW s \in Services, NEW c \in Child, NEW code \in {0, 1}, Svc!processEnded(c, code),
         child \in [Child -> {"none", "running", "ok", "failed"}], Pending(s)'
  PROVE  Pending(s)
<1>1. \A d \in Child : child[d] \in {"ok", "failed"} => child'[d] = child[d]
  BY DEF Svc!processEnded
<1> QED  BY <1>1 DEF Pending, Svc!Gathered, Svc!ChildrenOf

\* The tunnel never comes back once it is closed.
LEMMA ClosedStays == ASSUME [Next]_vars, connected' PROVE connected
<1>1. CASE UNCHANGED tunnel_vars \/ Tun!loseConnection
  BY <1>1 DEF tunnel_vars, Tun!loseConnection, Tun!Disconnect
<1>2. CASE Tun!Next
  BY <1>2 DEF Tun!Next, Tun!PacketArrives, Tun!doRead, Tun!doReadRaises, Tun!Disconnect,
              Tun!send_keepalive, Tun!KeepaliveRaises, Tun!Tick, Tun!writeEmpty, Tun!write,
              Tun!doWrite, Tun!doWriteRaises
<1> QED  BY <1>1, <1>2 DEF Next, ServiceStep, TunnelStep, vars

LEMMA SocketsStep ==
  ASSUME Svc!ServiceAssumption, Tunnel \in Gathering, \E c \in Child : ServiceOf[c] = Tunnel,
         EndInv, SocketsInv, [Next]_vars
  PROVE  SocketsInv'
<1>1. CASE ServiceStep /\ Svc!StartServices
  <2>1. PICK rs \in SUBSET Services :
          /\ raised' = rs /\ child' \in Svc!Spawned(rs)
          /\ \E left \in SUBSET (Gathering \cap rs) :
               opened' = left \cup (Gathering \ (rs \cup Svc!Cleaned(child')))
    BY <1>1 DEF Svc!StartServices
  <2>2. /\ child' \in [Child -> {"none", "running", "failed"}] /\ Spawning'
    BY <2>1 DEF Svc!Spawned, Spawning
  <2>3. \A s \in Gathering \ raised' : s \in opened' <=> Pending(s)'
    BY <2>1 DEF Svc!Cleaned, Pending
  <2>4. ~(commands' = 0 /\ Tunnel \notin raised' /\ connected' /\ ~Pending(Tunnel)')
    <3> SUFFICES ASSUME commands' = 0, Tunnel \notin raised', ~Pending(Tunnel)' PROVE ~connected'
      OBVIOUS
    <3>1. \A c \in Child : child[c] = "none"
      BY <1>1 DEF Svc!StartServices, EndInv
    <3>2. Svc!Gathered(Tunnel, child) = "pending"
      BY <3>1 DEF Svc!Gathered, Svc!ChildrenOf
    <3>3. Closing
      BY <3>2 DEF Closing, Pending
    <3> QED  BY <1>1, <3>3 DEF ServiceStep, Tun!loseConnection, Tun!Disconnect
  <2>5. child' \in [Child -> {"none", "running", "ok", "failed"}]
    BY <2>2
  <2> QED  BY <2>2, <2>3, <2>4, <2>5 DEF SocketsInv
<1>2. CASE /\ ServiceStep
           /\ \E c \in Child, code \in {0, 1} : Svc!processEnded(c, code)
  <2>1. PICK c \in Child, code \in {0, 1} : Svc!processEnded(c, code)
    BY <1>2
  <2>2. commands = 0 /\ child[c] = "running" /\ UNCHANGED <<commands, raised>>
    BY <2>1 DEF Svc!processEnded, EndInv
  <2>3. /\ child' = [child EXCEPT ![c] = IF code = 0 THEN "ok" ELSE "failed"]
        /\ opened' = opened \ Svc!Cleaned(child')
    BY <2>1 DEF Svc!processEnded
  <2>4. child' \in [Child -> {"none", "running", "ok", "failed"}]
    BY <2>3 DEF SocketsInv
  <2>5. Spawning'
    BY <2>2, <2>3 DEF SocketsInv, Spawning
  <2>6. \A s \in Gathering \ raised' : s \in opened' <=> Pending(s)'
    <3> SUFFICES ASSUME NEW s \in Gathering, s \notin raised
                 PROVE  s \in opened' <=> Pending(s)'
      BY <2>2
    <3>1. s \in opened <=> Pending(s)
      BY <2>2 DEF SocketsInv
    <3>2. s \in opened' <=> s \in opened /\ Pending(s)'
      BY <2>3 DEF Svc!Cleaned, Pending
    <3>3. Pending(s)' => Pending(s)
      BY <2>1, FiredStays DEF SocketsInv, Svc!ServiceAssumption
    <3> QED  BY <3>1, <3>2, <3>3
  <2>7. ASSUME Tunnel \notin raised', connected' PROVE Pending(Tunnel)'
    <3>1. connected /\ Pending(Tunnel)
      BY <2>2, <2>7, ClosedStays DEF SocketsInv
    <3>2. ~Closing
      BY <1>2, <2>7 DEF ServiceStep, Tun!loseConnection, Tun!Disconnect
    <3> QED  BY <2>2, <2>7, <3>1, <3>2 DEF Closing, Pending
  <2> QED  BY <2>4, <2>5, <2>6, <2>7 DEF SocketsInv
<1>3. CASE UNCHANGED <<raised, child, opened>> /\ (commands' = 0 => commands = 0)
  BY <1>3, ClosedStays DEF SocketsInv, Spawning, Pending, Svc!Gathered, Svc!ChildrenOf
<1>4. CASE Svc!CommandSucceeds \/ Svc!CommandFails \/ Svc!Signal \/ Svc!Exit
  <2>1. UNCHANGED <<raised, child, opened>>
    BY <1>4 DEF Svc!CommandSucceeds, Svc!CommandFails, Svc!Signal, Svc!Exit
  <2>2. commands' = 0 => commands = 0
    BY <1>4 DEF Svc!CommandSucceeds, Svc!CommandFails, Svc!Signal, Svc!Exit, EndInv
  <2> QED  BY <1>3, <2>1, <2>2
<1>5. CASE UNCHANGED service_vars
  BY <1>3, <1>5 DEF service_vars
<1> QED  BY <1>1, <1>2, <1>4, <1>5 DEF Next, ServiceStep, TunnelStep, Svc!Next, vars

TheTunnel == /\ Svc!ServiceAssumption /\ Tunnel \in Gathering
             /\ \E c \in Child : ServiceOf[c] = Tunnel

LEMMA SocketsInvariant == ASSUME TheTunnel PROVE Spec => [](EndInv /\ SocketsInv)
<1>1. Init => EndInv /\ SocketsInv
  BY EndInit, SocketsInit DEF TheTunnel
<1>2. EndInv /\ SocketsInv /\ [Next]_vars => (EndInv /\ SocketsInv)'
  BY EndStep, SocketsStep DEF TheTunnel
<1> QED  BY <1>1, <1>2, PTL DEF Spec

\* Once something is started no command is left.
LEMMA StartedLast == ASSUME EndInv, Svc!Started PROVE commands = 0
BY DEF EndInv, Svc!Started

\* server.py:376-381, 448-451: the sockets of a service are open just while a child runs and
\* none has failed, for any services and children.
THEOREM SocketsLive == ASSUME TheTunnel PROVE Spec => []SocketsWhileAlive
<1>1. EndInv /\ SocketsInv => SocketsWhileAlive
  <2> SUFFICES ASSUME EndInv, SocketsInv, NEW s \in Gathering, s \notin raised, Svc!Started
               PROVE  s \in opened <=> /\ \A c \in Svc!ChildrenOf(s) : child[c] # "failed"
                                      /\ \E c \in Svc!ChildrenOf(s) : child[c] = "running"
    BY DEF SocketsWhileAlive, Svc!SocketsWhileAlive
  <2>1. commands = 0
    BY StartedLast
  <2>2. s \in opened <=> Pending(s)
    BY <2>1 DEF SocketsInv
  <2>3. \A c \in Svc!ChildrenOf(s) : child[c] \in {"running", "ok", "failed"}
    BY <2>1 DEF SocketsInv, Spawning, Svc!ChildrenOf
  <2> QED  BY <2>2, <2>3 DEF Pending, Svc!Gathered
<1> QED  BY <1>1, SocketsInvariant, PTL

\* server.py:450: the device is closed in the step that fires the cleanup of its service.
THEOREM DeviceLives == ASSUME TheTunnel PROVE Spec => []DeviceOfLivingService
<1>1. EndInv /\ SocketsInv => DeviceOfLivingService
  BY StartedLast DEF TheTunnel, SocketsInv, DeviceOfLivingService, TunnelStarted
<1> QED  BY <1>1, SocketsInvariant, PTL
-----------------------------------------------------------------------------
(***************************************************************************)
(* The tunnel of the server is the tunnel of TunTap, so what is proved     *)
(* there holds here.                                                       *)
(***************************************************************************)
\* Whatever the service does, its device behaves as a tunnel that may be closed at any
\* time.
THEOREM RunsTheTunnel == Spec => Proved!Spec
<1>1. Init => Proved!Init
  BY DEF Init, Tun!Init, Proved!Init
<1>2. [Next]_vars => [Proved!Next \/ Proved!loseConnection]_Proved!vars
  <2> SUFFICES ASSUME [Next]_vars
               PROVE  Proved!Next \/ Proved!loseConnection \/ UNCHANGED Proved!vars
    OBVIOUS
  <2>1. CASE UNCHANGED tunnel_vars
    BY <2>1 DEF tunnel_vars, Proved!vars
  <2>2. CASE Tun!loseConnection
    BY <2>2 DEF Tun!loseConnection, Tun!Disconnect, Tun!Quiet,
                Proved!loseConnection, Proved!Disconnect, Proved!Quiet
  <2>3. CASE Tun!Next
    BY <2>3 DEF Tun!PacketArrives, Tun!doRead, Tun!doReadRaises, Tun!send_keepalive,
                Tun!KeepaliveRaises, Tun!Tick, Tun!writeEmpty, Tun!write, Tun!doWrite,
                Tun!doWriteRaises, Tun!Quiet, Tun!Disconnect, Tun!Reset, Tun!ReadFails,
                Tun!ResetFails, Tun!SendFails, Tun!Queued, Tun!Taken,
                Proved!PacketArrives, Proved!doRead, Proved!doReadRaises, Proved!send_keepalive,
                Proved!KeepaliveRaises, Proved!Tick, Proved!writeEmpty, Proved!write,
                Proved!doWrite, Proved!doWriteRaises, Proved!Quiet, Proved!Disconnect,
                Proved!Reset, Proved!ReadFails, Proved!ResetFails, Proved!SendFails,
                Proved!Queued, Proved!Taken,
                Tun!Next, Proved!Next
  <2> QED  BY <2>1, <2>2, <2>3 DEF Next, ServiceStep, TunnelStep, vars
<1> QED  BY <1>1, <1>2, PTL DEF Spec, Proved!Spec

\* tuntap.py:140, 162: the far side of a running server is never left without a sign of life
\* for longer than the interval.
THEOREM SilenceIsBounded == ASSUME Tun!TunAssumption PROVE Spec => []SilenceBounded
<1>1. Proved!TunAssumption
  BY DEF Tun!TunAssumption, Proved!TunAssumption
<1>2. Proved!Spec => []Proved!SilenceBounded
  BY <1>1, Proved!TunSilenceBounded
<1>3. Proved!SilenceBounded => SilenceBounded
  BY DEF SilenceBounded, Tun!SilenceBounded, Proved!SilenceBounded
<1> QED  BY RunsTheTunnel, <1>2, <1>3, PTL

\* tuntap.py:87-131: no packet for the device is lost, doubled or reordered while it is there.
THEOREM NothingIsLost == ASSUME Tun!TunAssumption PROVE Spec => []NothingLost
<1>1. Proved!TunAssumption
  BY DEF Tun!TunAssumption, Proved!TunAssumption
<1>2. Proved!Spec => []Proved!NothingLost
  BY <1>1, Proved!TunNothingLost
<1>3. Proved!NothingLost => NothingLost
  BY DEF NothingLost, Tun!NothingLost, Proved!NothingLost
<1> QED  BY RunsTheTunnel, <1>2, <1>3, PTL

\* tuntap.py:100, 131: the reactor watches the device for writing just when a packet waits.
THEOREM WatchedJustThen == ASSUME Tun!TunAssumption PROVE Spec => []WatchedWhenQueued
<1>1. Proved!TunAssumption
  BY DEF Tun!TunAssumption, Proved!TunAssumption
<1>2. Proved!Spec => []Proved!WatchedWhenQueued
  BY <1>1, Proved!TunWatchedWhenQueued
<1>3. Proved!WatchedWhenQueued => WatchedWhenQueued
  BY DEF WatchedWhenQueued, Tun!WatchedWhenQueued, Proved!WatchedWhenQueued
<1> QED  BY RunsTheTunnel, <1>2, <1>3, PTL

\* tuntap.py:162: packets put the keepalive off, so it leaves only after a whole interval.
THEOREM KeepaliveWaits == ASSUME Tun!TunAssumption PROVE Spec => OnlyWhenSilent
<1>1. Proved!TunAssumption
  BY DEF Tun!TunAssumption, Proved!TunAssumption
<1>2. Proved!Spec => Proved!OnlyWhenSilent
  BY <1>1, Proved!TunOnlyWhenSilent
<1>3. [to_peer' = "keepalive" => silent >= Interval]_Proved!vars
        => [to_peer' = "keepalive" => silent >= Interval]_Tun!vars
  BY DEF Proved!vars, Tun!vars
<1> QED  BY RunsTheTunnel, <1>2, <1>3, PTL DEF OnlyWhenSilent, Tun!OnlyWhenSilent,
Proved!OnlyWhenSilent
=============================================================================
