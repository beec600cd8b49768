------------------------------ MODULE Service ------------------------------
(***************************************************************************)
(* Start-up and end of the telemetry server (telemetry/server.py and its   *)
(* copy main.py, telemetry/common.py): the commands that set up the wlans, *)
(* the services with their sockets and their children wfb_rx and wfb_tx,   *)
(* the deferreds that gather the children, and the end of the reactor.     *)
(*                                                                         *)
(* A chain of callbacks runs to its end in the call that starts it: one    *)
(* step.  The deferred of a service is fired by its first failed child, or *)
(* by the last of its children that end with code 0.                       *)
(***************************************************************************)
EXTENDS Integers, FiniteSets

CONSTANTS Services,   \* the services of init
          Gathering,  \* those that gather several children and own sockets
          Child,      \* all children
          ServiceOf,  \* the service of each child
          Commands    \* commands of init_wlans

\* What is assumed of them (TunnelService states it).
ServiceAssumption == /\ Gathering \subseteq Services
                     /\ ServiceOf \in [Child -> Services]
                     /\ Commands \in Nat \ {0}

VARIABLES commands,       \* commands of init_wlans still to be run
          raised,         \* services whose init function raised
          child,          \* as the reactor knows it
          opened,         \* services whose sockets are open
          system_failed,  \* of telemetry/common.py
          reactor,
          exit_code,
          failure,        \* history: something failed while the reactor ran
          signalled       \* history: the reactor was stopped from outside

vars == <<commands, raised, child, opened, system_failed, reactor, exit_code,
          failure, signalled>>

NotExited == -1

Init == /\ commands = Commands /\ raised = {}
        /\ child = [c \in Child |-> "none"] /\ opened = {}
        /\ system_failed = FALSE /\ reactor = "running" /\ exit_code = NotExited
        /\ failure = FALSE /\ signalled = FALSE

Turning == reactor \in {"running", "stopping"}
Started == \E s \in Services : s \in raised \/ \E c \in Child : child[c] # "none"
-----------------------------------------------------------------------------
(***************************************************************************)
(* How a failure travels                                                   *)
(***************************************************************************)
ChildrenOf(s) == {c \in Child : ServiceOf[c] = s}

\* gatherResults: the first failure counts, success needs all.
Gathered(s, ch) ==
  IF \E c \in ChildrenOf(s) : ch[c] = "failed" THEN "error"
  ELSE IF \A c \in ChildrenOf(s) : ch[c] = "ok" THEN "ok" ELSE "pending"

\* addBoth(_cleanup): the services whose sockets are closed by now.
Cleaned(ch) == {s \in Gathering : Gathered(s, ch) # "pending"}

Failing(ch, rs) == rs # {} \/ \E s \in Services : Gathered(s, ch) = "error"

\* Mutant: a reactor that is stopping already keeps the failure from being noted.
Bug_FatalError == /\ system_failed' = (system_failed \/ reactor = "running")
                  /\ reactor' = "stopping"

\* abort_on_crash, fatal_error: the flag first, then stop; a second stop is no error.
FatalError == system_failed' = TRUE /\ reactor' = "stopping"

\* FirstError of the services reaches abort_on_crash; success reaches nobody.
Outcome(ch, rs) == IF Failing(ch, rs) THEN FatalError
                   ELSE UNCHANGED <<system_failed, reactor>>
-----------------------------------------------------------------------------
(***************************************************************************)
(* Start-up                                                                *)
(***************************************************************************)
CommandSucceeds == /\ Turning /\ commands > 1
                   /\ commands' = commands - 1
                   /\ UNCHANGED <<raised, child, opened, system_failed, reactor,
                                  exit_code, failure, signalled>>

\* A code other than 0, a signal, a bandwidth that is not supported.
CommandFails == /\ Turning /\ commands > 0
                /\ commands' = -1    \* the chain has ended
                /\ FatalError /\ failure' = TRUE
                /\ UNCHANGED <<raised, child, opened, exit_code, signalled>>

\* What becomes of the children: none where init raised; the others run, or
\* could not be forked.
Spawned(rs) == {ch \in [Child -> {"none", "running", "failed"}] :
                  \A c \in Child : ch[c] = "none" <=> ServiceOf[c] \in rs}

\* The last command ends, and all services are started, whether or not one of them raises
\* (a bad address, a port in use).  The sockets it had by then stay open.
StartServices ==
  /\ Turning /\ commands = 1
  /\ commands' = 0
  /\ \E rs \in SUBSET Services :
       /\ raised' = rs
       /\ child' \in Spawned(rs)
       /\ \E left \in SUBSET (Gathering \cap rs) :
            opened' = left \cup (Gathering \ (rs \cup Cleaned(child')))
       /\ Outcome(child', rs)
       /\ failure' = Failing(child', rs)
  /\ UNCHANGED <<exit_code, signalled>>
-----------------------------------------------------------------------------
(***************************************************************************)
(* Children and the end                                                    *)
(***************************************************************************)
\* Mutant: any end of a child is a reason to stop.
Bug_ProcessEnded(c, code) ==
  /\ Turning /\ child[c] = "running"
  /\ child' = [child EXCEPT ![c] = IF code = 0 THEN "ok" ELSE "failed"]
  /\ opened' = opened \ Cleaned(child')
  /\ FatalError
  /\ failure' = (failure \/ code # 0)
  /\ UNCHANGED <<commands, raised, exit_code, signalled>>

\* processEnded; a child ended by a signal has no code, which is not 0.
processEnded(c, code) ==
  /\ Turning /\ child[c] = "running"
  /\ child' = [child EXCEPT ![c] = IF code = 0 THEN "ok" ELSE "failed"]
  /\ opened' = opened \ Cleaned(child')
  /\ IF code # 0 /\ ~failure THEN FatalError ELSE UNCHANGED <<system_failed, reactor>>
  /\ failure' = (failure \/ code # 0)
  /\ UNCHANGED <<commands, raised, exit_code, signalled>>

\* SIGINT or SIGTERM.
Signal == /\ reactor = "running"
          /\ reactor' = "stopping" /\ signalled' = TRUE
          /\ UNCHANGED <<commands, raised, child, opened, system_failed, exit_code, failure>>

\* The loop ends with the turn it is in; main gives the status.
Exit == /\ reactor = "stopping"
        /\ reactor' = "stopped"
        /\ exit_code' = (IF system_failed THEN 1 ELSE 0)
        /\ UNCHANGED <<commands, raised, child, opened, system_failed, failure, signalled>>

Next == \/ CommandSucceeds \/ CommandFails \/ StartServices
        \/ \E c \in Child, code \in {0, 1} : processEnded(c, code)
        \/ Signal \/ Exit
-----------------------------------------------------------------------------
\* The first failure anywhere (a command, an init function, a child) ends the server with
\* status 1, also when it meets a signal or another failure.
FailureEndsServer == failure ~> exit_code = 1

\* The server ends for a failure or a signal only, and its status tells which failed runs
\* there were: a child that ends with code 0 stops nothing.
StatusTruthful == /\ reactor # "running" => failure \/ signalled
                  /\ exit_code # NotExited => (exit_code = 1 <=> failure)

\* A service's sockets are open exactly as long as no child of it has failed and one still
\* runs; the first failure closes them under the other child.
SocketsWhileAlive ==
  \A s \in Gathering \ raised :
    Started => (s \in opened <=> /\ \A c \in ChildrenOf(s) : child[c] # "failed"
                                 /\ \E c \in ChildrenOf(s) : child[c] = "running")
=============================================================================
