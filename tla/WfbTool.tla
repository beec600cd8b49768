------------------------------ MODULE WfbTool ------------------------------
(***************************************************************************)
(* The broadcast tool, `wfb tx' or `wfb rx' (wfb/start.py and the process  *)
(* protocols of wfb/protocol.py): it sets the wlans up with commands run   *)
(* one after the other, spawns wfb_tx or wfb_rx, spawns it again whenever  *)
(* it dies, and on shutdown kills by name and sets the wlans back.         *)
(*                                                                         *)
(* The main thread is the reactor's; quit runs in it, so nothing is reaped *)
(* while quit runs, and one more turn of the reactor follows.  Processes   *)
(* and commands run beside it.                                             *)
(***************************************************************************)
EXTENDS Integers, Sequences

CONSTANTS Wlans,     \* the wlans in the order of the arguments
          MaxStarts  \* BOUND: times the tool is started

\* What is assumed of them (Supervisor states it).
ToolAssumption == Wlans \in Seq(STRING) /\ Wlans # <<>> /\ MaxStarts \in Nat \ {0}

VARIABLES pc,       \* of the main thread
          step,     \* the command of init_wlan that is run or is next
          command,  \* its process
          child,    \* the process of the ProcessProtocol
          stale,    \* what an earlier start of the tool left behind
          wlan,     \* mode and link of each wlan
          todo,     \* wlans quit has still to set back
          starts,
          quit_failed,  \* history: a command of quit failed
          escaped       \* history: the last kill_wfb failed, or the child had no name yet

vars == <<pc, step, command, child, stale, wlan, todo, starts, quit_failed, escaped>>

Cards == 1..Len(Wlans)

\* call_and_check_rc in init_wlan, for each wlan.
Commands == <<"down", "monitor", "up", "channel", "iwconfig channel">>
Steps    == Len(Commands) * Len(Wlans)
What(n)  == Commands[((n - 1) % Len(Commands)) + 1]
Card(n)  == ((n - 1) \div Len(Commands)) + 1

Alive(process)  == process \in {"forked", "running"}
InReactor       == pc = "reactor"

Init == /\ pc = "start" /\ step = 0 /\ command = "none"
        /\ child = "none" /\ stale = "none"
        /\ wlan = [c \in Cards |-> [mode |-> "managed", link |-> "up"]]
        /\ todo = {} /\ starts = 1
        /\ quit_failed = FALSE /\ escaped = FALSE
-----------------------------------------------------------------------------
(***************************************************************************)
(* Processes                                                               *)
(***************************************************************************)
\* Before exec a child has the name of its parent.
Exec == child = "forked" /\ child' = "running" /\ UNCHANGED stale

\* Exec fails, the program ends, or somebody kills it.
Dies == \/ /\ Alive(child) /\ child' = "zombie" /\ UNCHANGED stale
        \/ /\ Alive(stale) /\ stale' = "none" /\ UNCHANGED child

Process == /\ Exec \/ Dies
           /\ UNCHANGED <<pc, step, command, wlan, todo, starts, quit_failed, escaped>>

\* kill_wfb: what shows the name is killed; a zombie shows it and stays.
Killed(process, dead) == IF process = "running" THEN dead ELSE process

\* It swallows every exception: a kill that fails does nothing, and nobody learns of it.
kill_wfb == \/ /\ child' = Killed(child, "zombie") /\ stale' = Killed(stale, "none")
               /\ escaped' = (child = "forked")
            \/ UNCHANGED <<child, stale>> /\ escaped' = TRUE

\* What a command of init_wlan does to its wlan.
Effect(w, what) == CASE what = "down"    -> [w EXCEPT !.link = "down"]
                     [] what = "monitor" -> [w EXCEPT !.mode = "monitor"]
                     [] what = "up"      -> [w EXCEPT !.link = "up"]
                     [] OTHER            -> w

\* The process of the command does its work or fails, whatever the tool does by then.
CommandRuns ==
  /\ command = "running"
  /\ \/ /\ command' = "done"
        /\ wlan' = [wlan EXCEPT ![Card(step)] = Effect(@, What(step))]
     \/ command' = "failed" /\ UNCHANGED wlan
  /\ UNCHANGED <<pc, step, child, stale, todo, starts, quit_failed, escaped>>
-----------------------------------------------------------------------------
(***************************************************************************)
(* The reactor                                                             *)
(***************************************************************************)
\* execute: kill what is left of an earlier run, then reactor.run.
Start == /\ pc = "start" /\ pc' = "reactor"
         /\ kill_wfb
         /\ step' = 1 /\ command' = "running"
         /\ UNCHANGED <<wlan, todo, starts, quit_failed>>

\* Mutant: the child is spawned beside the last command of each wlan.
Bug_Continue == /\ step' = step + 1
                /\ IF step < Steps THEN command' = "running" ELSE command' = "none"
                /\ IF What(step + 1) = "iwconfig channel" /\ child = "none"
                   THEN child' = "forked" ELSE UNCHANGED child

\* The next command, or after the last one spawnProcess.
Continue == /\ step' = step + 1
            /\ IF step < Steps
               THEN command' = "running" /\ UNCHANGED child
               ELSE command' = "none" /\ child' = "forked"

\* An error travels to abort_on_crash, which only logs it.
Abort == command' = "none" /\ UNCHANGED <<step, child>>

CommandEnds == \/ command = "done" /\ Continue
               \/ command = "failed" /\ Abort

\* processExited spawns the child again; a fork may fail, unheard.
Respawn == child' \in {"forked", "unforked"}

Reaps == /\ child = "zombie" /\ Respawn
         /\ UNCHANGED <<step, command>>

Turn == /\ InReactor
        /\ CommandEnds \/ Reaps
        /\ UNCHANGED <<pc, stale, wlan, todo, starts, quit_failed, escaped>>
-----------------------------------------------------------------------------
(***************************************************************************)
(* Shutdown                                                                *)
(***************************************************************************)
\* SIGINT: reactor.stop, and quit begins with its first kills.
Interrupt == /\ InReactor /\ pc' = "set back"
             /\ kill_wfb
             /\ todo' = Cards
             /\ UNCHANGED <<step, command, wlan, starts, quit_failed>>

NextCard == CHOOSE c \in todo : \A d \in todo : c <= d

\* Mutant: the mode is set without the link being up again.
Bug_SetBack == [mode |-> "managed", link |-> "down"]

SetBack == [mode |-> "managed", link |-> "up"]

\* set_mode(wlan, managed_mode) and show_info.
set_mode == /\ pc = "set back" /\ todo # {}
            /\ wlan' = [wlan EXCEPT ![NextCard] = SetBack]
            /\ todo' = todo \ {NextCard}
            /\ UNCHANGED <<pc, step, command, child, stale, starts, quit_failed, escaped>>

\* A command of it fails: the exception leaves quit, the second kills with it.
set_mode_raises ==
  /\ pc = "set back" /\ todo # {}
  /\ wlan' \in {[wlan EXCEPT ![NextCard] = w] :
                  w \in {wlan[NextCard], Effect(wlan[NextCard], "down"),
                         [mode |-> "managed", link |-> "down"], SetBack}}
  /\ pc' = "last turn" /\ quit_failed' = TRUE
  /\ UNCHANGED <<step, command, child, stale, todo, starts, escaped>>

\* Mutant: quit goes on killing until ps shows no child any more.
Bug_KillAgain == /\ pc = "set back" /\ todo = {}
                 /\ kill_wfb
                 /\ pc' = IF child \in {"running", "zombie"} THEN pc ELSE "last turn"
                 /\ UNCHANGED <<step, command, wlan, todo, starts, quit_failed>>

KillAgain == /\ pc = "set back" /\ todo = {}
             /\ kill_wfb /\ pc' = "last turn"
             /\ UNCHANGED <<step, command, wlan, todo, starts, quit_failed>>

\* mainLoop calls doIteration after runUntilCurrent has fired the shutdown: what ended by
\* then is still handled, so a child killed by quit is spawned again.
LastTurn == /\ pc = "last turn" /\ pc' = "kill"
            /\ CommandEnds \/ Reaps \/ UNCHANGED <<step, command, child>>
            /\ UNCHANGED <<stale, wlan, todo, starts, quit_failed, escaped>>

\* Mutant: the kills of quit are thought to be enough.
Bug_LastKill == /\ pc = "kill" /\ pc' = "after"
                /\ UNCHANGED <<step, command, child, stale, wlan, todo, starts, quit_failed,
                               escaped>>

\* execute, after reactor.run.
LastKill == /\ pc = "kill" /\ pc' = "after"
            /\ kill_wfb
            /\ UNCHANGED <<step, command, wlan, todo, starts, quit_failed>>

\* after_execute, and the end of the program.
Exit == /\ pc = "after" /\ pc' = "exited"
        /\ UNCHANGED <<step, command, child, stale, wlan, todo, starts, quit_failed, escaped>>

\* Started again by hand, when the commands and forks of the last time have come to an end.
Restart == /\ pc = "exited" /\ starts < MaxStarts
           /\ command # "running" /\ child # "forked"
           /\ pc' = "start" /\ starts' = starts + 1
           /\ stale' = IF child = "running" THEN child ELSE stale
           /\ child' = "none" /\ step' = 0 /\ command' = "none"
           /\ quit_failed' = FALSE /\ escaped' = FALSE
           /\ UNCHANGED <<wlan, todo>>

Main == Start \/ Turn \/ set_mode \/ set_mode_raises \/ KillAgain \/ LastTurn \/ LastKill

Next == Process \/ CommandRuns \/ Main \/ Interrupt
-----------------------------------------------------------------------------
\* Every variable has its type.
TypeOK ==
  /\ pc \in {"start", "reactor", "set back", "last turn", "kill", "after", "exited"}
  /\ step \in 0..(Steps + 1) /\ command \in {"none", "running", "done", "failed"}
  /\ child \in {"none", "forked", "running", "zombie", "unforked"}
  /\ stale \in {"none", "running"}
  /\ wlan \in [Cards -> [mode : {"managed", "monitor"}, link : {"up", "down"}]]
  /\ todo \subseteq Cards /\ starts \in 1..MaxStarts
  /\ quit_failed \in BOOLEAN /\ escaped \in BOOLEAN

\* No child outlives the tool and no earlier child lives beside a new one, but for the one
\* the last turn forked, whose name the last kill could not see yet, and unless the very
\* last kill failed: one that fails earlier is made up for.
NoOrphan == /\ pc \in {"after", "exited"} /\ Alive(child) => escaped
            /\ pc \notin {"start", "exited"} /\ Alive(stale) => escaped

\* Once set up, every wlan is managed and up again when the tool has ended, unless
\* a command failed: respawns and late commands do not undo it.
WlansBack == (pc = "exited" /\ step > Steps /\ ~quit_failed) =>
               \A c \in Cards : wlan[c] = [mode |-> "managed", link |-> "up"]

\* While the reactor runs, a child runs only on wlans that are all up in monitor mode, even
\* when it is a respawned one.
ChildOnMonitor == (InReactor /\ Alive(child)) =>
                    \A c \in Cards : wlan[c] = [mode |-> "monitor", link |-> "up"]

\* An interrupted tool comes to its end, also with a zombie that nobody reaps
\* and with commands that fail.
Ends == (pc = "set back") ~> (pc = "exited")
=============================================================================
