-------------------------- MODULE SupervisorProofs --------------------------
(***************************************************************************)
(* Proofs about Supervisor for any wlans, any number of starts of the tool *)
(* and any number of kills under way.                                      *)
(***************************************************************************)
EXTENDS Supervisor, TLAPS

-----------------------------------------------------------------------------
(***************************************************************************)
(* The monitor thread.  Between its kill and its start only a kill that is *)
(* under way allows a pipeline, between its check and its restart there is *)
(* none, and a tool that finishes has asked for a kill that ends whatever  *)
(* was not started later, or could not.                                    *)
(***************************************************************************)
MonitorInv ==
  /\ pipelines \in Nat /\ kills \in Nat
  /\ pipelines > 1 => kills > 0
  /\ m_pc = "start" /\ pipelines > 0 => kills > 0
  /\ m_pc = "restart" => pipelines = 0
  /\ m_pc = "dead" => finishing
  /\ finishing => kills > 0 \/ pipelines = 0 \/ late \/ unkilled

LEMMA MonitorInit == Init => MonitorInv
BY DEF Init, Gst!Init, MonitorInv

LEMMA MonitorKept == ASSUME MonitorInv, UNCHANGED gst_vars PROVE MonitorInv'
BY DEF MonitorInv, gst_vars

LEMMA MonitorThread == ASSUME MonitorInv, Gst!Next PROVE MonitorInv'
<1>1. CASE Gst!Kill
  BY <1>1 DEF Gst!Kill, Gst!kill_monitor, MonitorInv
<1>2. CASE Gst!Start
  BY <1>2 DEF Gst!Start, Gst!StartPipeline, MonitorInv
<1>3. CASE Gst!Check
  BY <1>3 DEF Gst!Check, MonitorInv
<1>4. CASE Gst!Restart
  BY <1>4 DEF Gst!Restart, Gst!StartPipeline, MonitorInv
<1>5. CASE Gst!Wake
  BY <1>5 DEF Gst!Wake, MonitorInv
<1>6. CASE Gst!Raises
  BY <1>6 DEF Gst!Raises, MonitorInv
<1>7. CASE Gst!KillWorks
  BY <1>7 DEF Gst!KillWorks, MonitorInv
<1>8. CASE Gst!PipelineDies
  BY <1>8 DEF Gst!PipelineDies, MonitorInv
<1>9. CASE Gst!StartupRaises
  BY <1>9 DEF Gst!StartupRaises, MonitorInv
<1> QED  BY <1>1, <1>2, <1>3, <1>4, <1>5, <1>6, <1>7, <1>8, <1>9 DEF Gst!Next

LEMMA MonitorStepKeeps == ASSUME MonitorInv, [Next]_vars PROVE MonitorInv'
<1>1. CASE ToolStep
  BY <1>1, MonitorKept DEF ToolStep
<1>2. CASE MonitorStep
  BY <1>2, MonitorThread DEF MonitorStep
<1>3. CASE AfterExecute
  BY <1>3 DEF AfterExecute, Gst!after_execute, Gst!kill_monitor, MonitorInv
<1>4. CASE Exit
  BY <1>4 DEF Exit, Gst!ProgramEnds, MonitorInv
<1>5. CASE Restart
  BY <1>5 DEF Restart, Gst!ProgramStarts, MonitorInv
<1>6. CASE UNCHANGED vars
  BY <1>6, MonitorKept DEF vars
<1> QED  BY <1>1, <1>2, <1>3, <1>4, <1>5, <1>6 DEF Next

LEMMA MonitorInvariant == Spec => []MonitorInv
BY MonitorInit, MonitorStepKeeps, PTL DEF Spec

\* gst.py:26-45: a second pipeline beside an earlier one means that a kill is
\* under way, for any number of restarts of the tool.
THEOREM OnePipelineHolds == Spec => []OnePipeline
<1>1. MonitorInv => OnePipeline
  BY DEF MonitorInv, OnePipeline, Gst!OnePipeline
<1> QED  BY <1>1, MonitorInvariant, PTL

\* gst.py:49, start.py:241: the pipeline that outlives the tool is the one that was
\* started after the last kill was asked for, unless that kill could not be started.
THEOREM NoPipelineLeftHolds == Spec => []NoPipelineLeft
<1>1. MonitorInv => NoPipelineLeft
  BY DEF MonitorInv, NoPipelineLeft, Gst!NoPipelineLeft
<1> QED  BY <1>1, MonitorInvariant, PTL
-----------------------------------------------------------------------------
(***************************************************************************)
(* Setting up the wlans.  Done commands have run; a wlan whose second one  *)
(* has is in monitor mode, and one whose third one has is up.              *)
(***************************************************************************)
Done == IF command = "done" THEN step ELSE step - 1

Managed(c) == wlan[c] = [mode |-> "managed", link |-> "up"]

Wlan == [mode : {"managed", "monitor"}, link : {"up", "down"}]

\* Where the main thread is tells what the commands and the child can be.
Control ==
  /\ pc = "start" => child = "none" /\ step = 0 /\ command = "none"
  /\ pc # "start" => step >= 1
  /\ step > Tool!Steps => command = "none"
  /\ child # "none" => step > Tool!Steps
  /\ pc \in {"after", "exited"} /\ Tool!Alive(child) => escaped
  /\ pc \notin {"start", "exited"} /\ Tool!Alive(stale) => escaped

SettingUp ==
  pc = "reactor" => \A c \in Tool!Cards : /\ Done >= 5 * (c - 1) + 2 => wlan[c].mode = "monitor"
                                          /\ Done >= 5 * (c - 1) + 3 => wlan[c].link = "up"

\* The last command changes nothing, so it may still run.
AllDone == \/ pc \in {"set back", "last turn"} /\ step >= Tool!Steps
           \/ pc \in {"kill", "after", "exited"} /\ step > Tool!Steps

SettingBack ==
  /\ AllDone /\ ~quit_failed => \A c \in Tool!Cards \ todo : Managed(c)
  /\ pc \in {"last turn", "kill", "after", "exited"} /\ ~quit_failed => todo = {}

ToolInv == Tool!TypeOK /\ Control /\ SettingUp /\ SettingBack

LEMMA Steps5 ==
  ASSUME Tool!ToolAssumption
  PROVE  /\ Len(Wlans) \in Nat \ {0} /\ Tool!Steps = 5 * Len(Wlans)
         /\ Tool!Cards = 1..Len(Wlans)
<1>1. Len(Wlans) \in Nat \ {0}
  BY DEF Tool!ToolAssumption
<1>2. Len(Tool!Commands) = 5
  BY DEF Tool!Commands
<1> QED  BY <1>1, <1>2 DEF Tool!Steps, Tool!Cards

\* Command n is one of the five of its wlan.
LEMMA StepOf ==
  ASSUME Tool!ToolAssumption, NEW n \in 1..Tool!Steps
  PROVE  /\ Tool!Card(n) \in Tool!Cards
         /\ \E r \in 1..5 : n = 5 * (Tool!Card(n) - 1) + r /\ Tool!What(n) = Tool!Commands[r]
<1>1. Len(Wlans) \in Nat \ {0} /\ n \in 1..(5 * Len(Wlans)) /\ Tool!Cards = 1..Len(Wlans)
  BY Steps5
<1>2. Len(Tool!Commands) = 5
  BY DEF Tool!Commands
<1>3. Tool!Card(n) = ((n - 1) \div 5) + 1 /\ Tool!What(n) = Tool!Commands[((n - 1) % 5) + 1]
  BY <1>2 DEF Tool!Card, Tool!What
<1>4. ((n - 1) \div 5) + 1 \in 1..Len(Wlans)
  BY <1>1
<1>5. ((n - 1) % 5) + 1 \in 1..5 /\ n = 5 * ((n - 1) \div 5) + ((n - 1) % 5) + 1
  BY <1>1
<1> QED  BY <1>1, <1>3, <1>4, <1>5

LEMMA Effects ==
  ASSUME NEW w \in Wlan
  PROVE  /\ Tool!Effect(w, "down") = [mode |-> w.mode, link |-> "down"]
         /\ Tool!Effect(w, "monitor") = [mode |-> "monitor", link |-> w.link]
         /\ Tool!Effect(w, "up") = [mode |-> w.mode, link |-> "up"]
         /\ Tool!Effect(w, "channel") = w /\ Tool!Effect(w, "iwconfig channel") = w
BY DEF Tool!Effect, Wlan

LEMMA ToolInit == ASSUME Tool!ToolAssumption PROVE Init => ToolInv
<1> SUFFICES ASSUME Init PROVE ToolInv
  OBVIOUS
<1>1. Len(Wlans) \in Nat \ {0} /\ Tool!Steps = 5 * Len(Wlans)
  BY Steps5
<1>2. Tool!TypeOK
  <2>1. wlan \in [Tool!Cards -> [mode : {"managed", "monitor"}, link : {"up", "down"}]]
    BY DEF Init, Tool!Init
  <2>2. step \in 0..(Tool!Steps + 1) /\ starts \in 1..MaxStarts
    BY <1>1 DEF Init, Tool!Init, Tool!ToolAssumption
  <2> QED  BY <2>1, <2>2 DEF Init, Tool!Init, Tool!TypeOK
<1>3. Control
  BY <1>1 DEF Init, Tool!Init, Control, Tool!Alive
<1> QED  BY <1>2, <1>3 DEF Init, Tool!Init, ToolInv, SettingUp, SettingBack, AllDone
-----------------------------------------------------------------------------
(***************************************************************************)
(* Steps of the processes and of the reactor                               *)
(***************************************************************************)
LEMMA ToolKept == ASSUME ToolInv, UNCHANGED tool_vars PROVE ToolInv'
BY DEF ToolInv, tool_vars, Tool!TypeOK, Control, Tool!Alive, SettingUp, Done, SettingBack, AllDone,
       Managed

\* The work of a command on its wlan.
LEMMA WorkOf ==
  ASSUME Tool!ToolAssumption, ToolInv, command = "running", command' = "done",
         UNCHANGED <<pc, step, todo, quit_failed>>,
         wlan' = [wlan EXCEPT ![Tool!Card(step)] = Tool!Effect(@, Tool!What(step))]
  PROVE  /\ wlan' \in [Tool!Cards -> [mode : {"managed", "monitor"}, link : {"up", "down"}]]
         /\ SettingUp' /\ SettingBack'
<1>1. /\ Len(Wlans) \in Nat \ {0} /\ Tool!Steps = 5 * Len(Wlans)
      /\ Tool!Cards = 1..Len(Wlans)
  BY Steps5
<1>2. step \in 1..Tool!Steps
  <2>1. step \in 0..(Tool!Steps + 1)
    BY DEF ToolInv, Tool!TypeOK
  <2>2. step >= 1 /\ ~(step > Tool!Steps)
    BY DEF ToolInv, Control
  <2> QED  BY <1>1, <2>1, <2>2
<1>3. wlan \in [Tool!Cards -> Wlan]
  BY DEF ToolInv, Tool!TypeOK, Wlan
<1>4. Tool!Card(step) \in Tool!Cards
  BY <1>2, StepOf
<1> DEFINE d == Tool!Card(step)
<1>5. PICK r \in 1..5 : step = 5 * (d - 1) + r /\ Tool!What(step) = Tool!Commands[r]
  BY <1>2, StepOf
<1>6. d \in 1..Len(Wlans)
  BY <1>1, <1>4
<1>7. wlan[d] \in Wlan
  BY <1>3, <1>4
<1>8. /\ wlan'[d] = Tool!Effect(wlan[d], Tool!Commands[r])
      /\ \A c \in Tool!Cards \ {d} : wlan'[c] = wlan[c]
  BY <1>3, <1>4, <1>5
<1>9. /\ r = 1 => wlan'[d] = [mode |-> wlan[d].mode, link |-> "down"]
      /\ r = 2 => wlan'[d] = [mode |-> "monitor", link |-> wlan[d].link]
      /\ r = 3 => wlan'[d] = [mode |-> wlan[d].mode, link |-> "up"]
      /\ r \in {4, 5} => wlan'[d] = wlan[d]
  <2>1. /\ Tool!Commands[1] = "down" /\ Tool!Commands[2] = "monitor" /\ Tool!Commands[3] = "up"
        /\ Tool!Commands[4] = "channel" /\ Tool!Commands[5] = "iwconfig channel"
    BY DEF Tool!Commands
  <2>2. CASE r = 1
    BY <1>7, <1>8, <2>1, <2>2, Effects
  <2>3. CASE r = 2
    BY <1>7, <1>8, <2>1, <2>3, Effects
  <2>4. CASE r = 3
    BY <1>7, <1>8, <2>1, <2>4, Effects
  <2>5. CASE r \in {4, 5}
    BY <1>7, <1>8, <2>1, <2>5, Effects
  <2> QED  BY <1>5, <2>2, <2>3, <2>4, <2>5
<1>10. wlan'[d] \in Wlan
  BY <1>5, <1>7, <1>9 DEF Wlan
<1>11. wlan' \in [Tool!Cards -> Wlan]
  BY <1>3, <1>4, <1>8, <1>10
<1>12. SettingUp'
  <2> SUFFICES ASSUME pc = "reactor", NEW c \in Tool!Cards
               PROVE  /\ step >= 5 * (c - 1) + 2 => wlan'[c].mode = "monitor"
                      /\ step >= 5 * (c - 1) + 3 => wlan'[c].link = "up"
    BY DEF SettingUp, Done
  <2>1. /\ step - 1 >= 5 * (c - 1) + 2 => wlan[c].mode = "monitor"
        /\ step - 1 >= 5 * (c - 1) + 3 => wlan[c].link = "up"
    BY DEF ToolInv, SettingUp, Done
  <2>2. c \in 1..Len(Wlans)
    BY <1>1
  <2>3. CASE c = d
    BY <1>5, <1>6, <1>9, <2>1, <2>3
  <2>4. CASE c < d
    BY <1>1, <1>5, <1>6, <1>8, <2>1, <2>2, <2>4
  <2>5. CASE c > d
    BY <1>5, <1>6, <2>2, <2>5
  <2> QED  BY <1>6, <2>2, <2>3, <2>4, <2>5
<1>13. SettingBack'
  <2>1. AllDone' => AllDone /\ step = Tool!Steps
    <3>1. step <= Tool!Steps /\ ~(step > Tool!Steps) /\ (step >= Tool!Steps => step = Tool!Steps)
      BY <1>1, <1>2
    <3> QED  BY <3>1 DEF AllDone
  <2>2. step = Tool!Steps => wlan'[d] = wlan[d]
    <3> SUFFICES ASSUME step = Tool!Steps PROVE r = 5
      BY <1>9
    <3> QED  BY <1>1, <1>5, <1>6
  <2>3. step = Tool!Steps => \A c \in Tool!Cards : wlan'[c] = wlan[c]
    BY <1>8, <2>2
  <2> QED  BY <2>1, <2>3 DEF ToolInv, SettingBack, Managed
<1> QED  BY <1>11, <1>12, <1>13 DEF Wlan

LEMMA Counting ==
  ASSUME Tool!ToolAssumption, ToolInv
  PROVE  Tool!Steps \in Nat \ {0} /\ step \in 0..(Tool!Steps + 1)
<1>1. Tool!Steps \in Nat \ {0}
  BY Steps5
<1>2. step \in 0..(Tool!Steps + 1)
  BY DEF ToolInv, Tool!TypeOK
<1> QED  BY <1>1, <1>2

\* Processes and commands run.
LEMMA ProcessKeeps == ASSUME Tool!ToolAssumption, ToolInv, Tool!Process PROVE ToolInv'
<1>1. UNCHANGED <<pc, step, command, wlan, todo, starts, quit_failed, escaped>>
  BY DEF Tool!Process
<1>2. SettingUp' /\ SettingBack'
  BY <1>1 DEF ToolInv, SettingUp, Done, SettingBack, AllDone, Managed
<1>3. Tool!TypeOK'
  BY <1>1 DEF ToolInv, Tool!TypeOK, Tool!Process, Tool!Exec, Tool!Dies, Tool!Alive
<1>4. /\ child' # "none" => child # "none"
      /\ Tool!Alive(child)' => Tool!Alive(child)
      /\ stale' # "none" => stale # "none"
      /\ child = "none" => child' = "none"
      /\ Tool!Alive(stale)' => Tool!Alive(stale)
  BY DEF Tool!Process, Tool!Exec, Tool!Dies, Tool!Alive
<1>5. Control'
  BY <1>1, <1>4 DEF ToolInv, Control, Tool!Alive
<1> QED  BY <1>2, <1>3, <1>5 DEF ToolInv

LEMMA CommandKeeps == ASSUME Tool!ToolAssumption, ToolInv, Tool!CommandRuns PROVE ToolInv'
<1>1. /\ command = "running" /\ command' \in {"done", "failed"}
      /\ UNCHANGED <<pc, step, child, stale, todo, starts, quit_failed, escaped>>
  BY DEF Tool!CommandRuns
<1>2. /\ wlan' \in [Tool!Cards -> [mode : {"managed", "monitor"}, link : {"up", "down"}]]
      /\ SettingUp' /\ SettingBack'
  <2>1. CASE /\ command' = "done"
             /\ wlan' = [wlan EXCEPT ![Tool!Card(step)] = Tool!Effect(@, Tool!What(step))]
    BY <1>1, <2>1, WorkOf
  <2>2. CASE command' = "failed" /\ wlan' = wlan
    BY <1>1, <2>2 DEF ToolInv, Tool!TypeOK, SettingUp, Done, SettingBack, AllDone, Managed
  <2> QED  BY <2>1, <2>2 DEF Tool!CommandRuns
<1>3. Tool!TypeOK'
  BY <1>1, <1>2 DEF ToolInv, Tool!TypeOK
<1>4. Control'
  BY <1>1 DEF ToolInv, Control, Tool!Alive
<1> QED  BY <1>2, <1>3, <1>4 DEF ToolInv

\* The reactor sees a command or a child that ended.
LEMMA EndsKeep ==
  ASSUME Tool!ToolAssumption, ToolInv, pc # "start", Tool!CommandEnds \/ Tool!Reaps
  PROVE  /\ step' \in 1..(Tool!Steps + 1) /\ step' >= step
         /\ command' \in {"none", "running", "done", "failed"}
         /\ child' \in {"none", "forked", "running", "zombie", "unforked"}
         /\ step' > Tool!Steps => command' = "none"
         /\ child' # "none" => step' > Tool!Steps
         /\ Done' = Done
         /\ step' > Tool!Steps => step >= Tool!Steps
<1>1. Tool!Steps \in Nat \ {0} /\ step \in 1..(Tool!Steps + 1)
  BY Counting DEF ToolInv, Control
<1>2. /\ step > Tool!Steps => command = "none"
      /\ child # "none" => step > Tool!Steps
      /\ command \in {"none", "running", "done", "failed"}
      /\ child \in {"none", "forked", "running", "zombie", "unforked"}
  BY DEF ToolInv, Control, Tool!TypeOK
<1>3. CASE command = "done" /\ Tool!Continue
  <2>1. step \in 1..Tool!Steps /\ step' = step + 1
    BY <1>1, <1>2, <1>3 DEF Tool!Continue
  <2>2. CASE step < Tool!Steps
    BY <1>1, <1>2, <1>3, <2>1, <2>2 DEF Tool!Continue, Done
  <2>3. CASE step = Tool!Steps
    BY <1>1, <1>2, <1>3, <2>1, <2>3 DEF Tool!Continue, Done
  <2> QED  BY <1>1, <2>1, <2>2, <2>3
<1>4. CASE command = "failed" /\ Tool!Abort
  BY <1>1, <1>2, <1>4 DEF Tool!Abort, Done
<1>5. CASE Tool!Reaps
  BY <1>1, <1>2, <1>5 DEF Tool!Reaps, Tool!Respawn, Done
<1> QED  BY <1>3, <1>4, <1>5 DEF Tool!CommandEnds

LEMMA TurnKeeps == ASSUME Tool!ToolAssumption, ToolInv, Tool!Turn PROVE ToolInv'
<1>1. /\ pc = "reactor" /\ UNCHANGED <<pc, stale, wlan, todo, starts, quit_failed, escaped>>
      /\ Tool!CommandEnds \/ Tool!Reaps
  BY DEF Tool!Turn, Tool!InReactor
<1>2. /\ step' \in 1..(Tool!Steps + 1)
      /\ command' \in {"none", "running", "done", "failed"}
      /\ child' \in {"none", "forked", "running", "zombie", "unforked"}
      /\ step' > Tool!Steps => command' = "none"
      /\ child' # "none" => step' > Tool!Steps
      /\ Done' = Done
  BY <1>1, EndsKeep
<1>3. step' \in 0..(Tool!Steps + 1) /\ step' >= 1
  BY <1>2, Counting
<1>4. Tool!TypeOK'
  BY <1>1, <1>2, <1>3 DEF ToolInv, Tool!TypeOK
<1>5. Control'
  BY <1>1, <1>2, <1>3 DEF ToolInv, Control
<1>6. SettingUp'
  BY <1>1, <1>2 DEF ToolInv, SettingUp
<1> QED  BY <1>1, <1>4, <1>5, <1>6 DEF ToolInv, SettingBack, AllDone
-----------------------------------------------------------------------------
(***************************************************************************)
(* Steps of start-up and shutdown                                          *)
(***************************************************************************)
\* kill_wfb makes no process: what it leaves alive it had no name for, or it failed.
LEMMA Kills ==
  ASSUME ToolInv, Tool!kill_wfb
  PROVE  /\ child' \in {"none", "forked", "running", "zombie", "unforked"}
         /\ stale' \in {"none", "running"} /\ escaped' \in BOOLEAN
         /\ Tool!Alive(child') \/ Tool!Alive(stale') => escaped'
         /\ child' # "none" <=> child # "none"
BY DEF ToolInv, Tool!TypeOK, Tool!kill_wfb, Tool!Killed, Tool!Alive

LEMMA StartKeeps == ASSUME Tool!ToolAssumption, ToolInv, Tool!Start PROVE ToolInv'
<1>1. /\ pc = "start" /\ pc' = "reactor" /\ step' = 1 /\ command' = "running"
      /\ UNCHANGED <<wlan, todo, starts, quit_failed>>
      /\ child' = "none" /\ stale' \in {"none", "running"} /\ escaped' \in BOOLEAN
      /\ Tool!Alive(stale') => escaped'
  BY Kills DEF Tool!Start, ToolInv, Control
<1>2. Tool!Steps \in Nat \ {0}
  BY Counting
<1>3. Tool!TypeOK'
  BY <1>1, <1>2 DEF ToolInv, Tool!TypeOK
<1>4. Control'
  BY <1>1, <1>2 DEF Control
<1>5. SettingUp'
  <2>1. Tool!Cards = 1..Len(Wlans) /\ Len(Wlans) \in Nat
    BY Steps5
  <2>2. Done' = 0
    BY <1>1 DEF Done
  <2> QED  BY <1>1, <2>1, <2>2 DEF SettingUp
<1> QED  BY <1>1, <1>3, <1>4, <1>5 DEF ToolInv, SettingBack, AllDone

LEMMA InterruptKeeps == ASSUME Tool!ToolAssumption, ToolInv, Tool!Interrupt PROVE ToolInv'
<1>1. /\ pc = "reactor" /\ pc' = "set back" /\ todo' = Tool!Cards
      /\ UNCHANGED <<step, command, wlan, starts, quit_failed>>
  BY DEF Tool!Interrupt, Tool!InReactor
<1>2. /\ child' \in {"none", "forked", "running", "zombie", "unforked"}
      /\ stale' \in {"none", "running"} /\ escaped' \in BOOLEAN
      /\ Tool!Alive(child') \/ Tool!Alive(stale') => escaped'
      /\ child' # "none" <=> child # "none"
  BY Kills DEF Tool!Interrupt
<1>3. Tool!TypeOK'
  BY <1>1, <1>2 DEF ToolInv, Tool!TypeOK
<1>4. Control'
  BY <1>1, <1>2 DEF ToolInv, Control
<1> QED  BY <1>1, <1>3, <1>4 DEF ToolInv, SettingUp, SettingBack

LEMMA SetModeKeeps == ASSUME Tool!ToolAssumption, ToolInv, Tool!set_mode PROVE ToolInv'
<1>1. /\ pc = "set back" /\ todo' = todo \ {Tool!NextCard}
      /\ wlan' = [wlan EXCEPT ![Tool!NextCard] = Tool!SetBack]
      /\ UNCHANGED <<pc, step, command, child, stale, starts, quit_failed, escaped>>
  BY DEF Tool!set_mode
<1>2. wlan \in [Tool!Cards -> Wlan] /\ todo \subseteq Tool!Cards
  BY DEF ToolInv, Tool!TypeOK, Wlan
<1>3. wlan' \in [Tool!Cards -> Wlan]
  BY <1>1, <1>2 DEF Wlan, Tool!SetBack
<1>4. Tool!TypeOK'
  BY <1>1, <1>2, <1>3 DEF ToolInv, Tool!TypeOK, Wlan
<1>5. Control'
  BY <1>1 DEF ToolInv, Control, Tool!Alive
<1>6. SettingBack'
  <2> SUFFICES ASSUME AllDone, ~quit_failed, NEW c \in Tool!Cards, c \notin todo'
               PROVE  Managed(c)'
    BY <1>1 DEF SettingBack, AllDone
  <2>1. CASE c = Tool!NextCard
    BY <1>1, <1>2, <2>1 DEF Managed, Tool!SetBack
  <2>2. CASE c # Tool!NextCard
    <3>1. Managed(c)
      BY <1>1, <2>2 DEF ToolInv, SettingBack
    <3> QED  BY <1>1, <1>2, <2>2, <3>1 DEF Managed
  <2> QED  BY <2>1, <2>2
<1> QED  BY <1>1, <1>4, <1>5, <1>6 DEF ToolInv, SettingUp

LEMMA SetModeRaisesKeeps ==
  ASSUME Tool!ToolAssumption, ToolInv, Tool!set_mode_raises PROVE ToolInv'
<1>1. /\ pc = "set back" /\ pc' = "last turn" /\ quit_failed' = TRUE /\ todo # {}
      /\ UNCHANGED <<step, command, child, stale, todo, starts, escaped>>
  BY DEF Tool!set_mode_raises
<1>2. wlan \in [Tool!Cards -> Wlan]
  BY DEF ToolInv, Tool!TypeOK, Wlan
<1>3. wlan' \in [Tool!Cards -> Wlan]
  <2>1. PICK w \in {wlan[Tool!NextCard], Tool!Effect(wlan[Tool!NextCard], "down"),
                    [mode |-> "managed", link |-> "down"], Tool!SetBack} :
          wlan' = [wlan EXCEPT ![Tool!NextCard] = w]
    BY DEF Tool!set_mode_raises
  <2>2. CASE Tool!NextCard \notin Tool!Cards
    BY <1>2, <2>1, <2>2
  <2>3. CASE Tool!NextCard \in Tool!Cards
    <3>1. wlan[Tool!NextCard] \in Wlan
      BY <1>2, <2>3
    <3>2. Tool!Effect(wlan[Tool!NextCard], "down") \in Wlan
      <4> DEFINE w0 == wlan[Tool!NextCard]
      <4>1. Tool!Effect(w0, "down") = [mode |-> w0.mode, link |-> "down"]
        BY <3>1, Effects
      <4>2. w0.mode \in {"managed", "monitor"}
        BY <3>1 DEF Wlan
      <4> QED  BY <4>1, <4>2 DEF Wlan
    <3>3. w \in Wlan
      BY <2>1, <3>1, <3>2 DEF Wlan, Tool!SetBack
    <3> QED  BY <1>2, <2>1, <3>3
  <2> QED  BY <2>2, <2>3
<1>4. Tool!TypeOK'
  BY <1>1, <1>3 DEF ToolInv, Tool!TypeOK, Wlan
<1>5. Control'
  BY <1>1 DEF ToolInv, Control, Tool!Alive
<1> QED  BY <1>1, <1>4, <1>5 DEF ToolInv, SettingUp, SettingBack

LEMMA KillAgainKeeps == ASSUME Tool!ToolAssumption, ToolInv, Tool!KillAgain PROVE ToolInv'
<1>1. /\ pc = "set back" /\ pc' = "last turn" /\ todo = {}
      /\ UNCHANGED <<step, command, wlan, todo, starts, quit_failed>>
  BY DEF Tool!KillAgain
<1>2. /\ child' \in {"none", "forked", "running", "zombie", "unforked"}
      /\ stale' \in {"none", "running"} /\ escaped' \in BOOLEAN
      /\ Tool!Alive(child') \/ Tool!Alive(stale') => escaped'
      /\ child' # "none" <=> child # "none"
  BY Kills DEF Tool!KillAgain
<1>3. Tool!TypeOK'
  BY <1>1, <1>2 DEF ToolInv, Tool!TypeOK
<1>4. Control'
  BY <1>1, <1>2 DEF ToolInv, Control
<1>5. SettingBack'
  BY <1>1 DEF ToolInv, SettingBack, AllDone, Managed
<1> QED  BY <1>1, <1>3, <1>4, <1>5 DEF ToolInv, SettingUp

LEMMA LastTurnKeeps == ASSUME Tool!ToolAssumption, ToolInv, Tool!LastTurn PROVE ToolInv'
<1>1. /\ pc = "last turn" /\ pc' = "kill"
      /\ UNCHANGED <<stale, wlan, todo, starts, quit_failed, escaped>>
      /\ Tool!CommandEnds \/ Tool!Reaps \/ UNCHANGED <<step, command, child>>
  BY DEF Tool!LastTurn
<1>2. Tool!Steps \in Nat \ {0} /\ step \in 1..(Tool!Steps + 1)
  <2>1. step >= 1
    BY <1>1 DEF ToolInv, Control
  <2> QED  BY <2>1, Counting
<1>3. /\ step' \in 1..(Tool!Steps + 1)
      /\ command' \in {"none", "running", "done", "failed"}
      /\ child' \in {"none", "forked", "running", "zombie", "unforked"}
      /\ step' > Tool!Steps => command' = "none"
      /\ child' # "none" => step' > Tool!Steps
      /\ step' > Tool!Steps => step >= Tool!Steps
  <2>1. CASE Tool!CommandEnds \/ Tool!Reaps
    BY <1>1, <2>1, EndsKeep
  <2>2. CASE UNCHANGED <<step, command, child>>
    <3>1. /\ command \in {"none", "running", "done", "failed"}
          /\ child \in {"none", "forked", "running", "zombie", "unforked"}
      BY DEF ToolInv, Tool!TypeOK
    <3>2. (step > Tool!Steps => command = "none") /\ (child # "none" => step > Tool!Steps)
      BY DEF ToolInv, Control
    <3> QED  BY <1>2, <2>2, <3>1, <3>2
  <2> QED  BY <1>1, <2>1, <2>2
<1>4. step' \in 0..(Tool!Steps + 1) /\ step' >= 1
  BY <1>2, <1>3
<1>5. Tool!TypeOK'
  BY <1>1, <1>3, <1>4 DEF ToolInv, Tool!TypeOK
<1>6. Control'
  BY <1>1, <1>3, <1>4 DEF ToolInv, Control
<1>7. SettingBack'
  BY <1>1, <1>3 DEF ToolInv, SettingBack, AllDone, Managed
<1> QED  BY <1>1, <1>5, <1>6, <1>7 DEF ToolInv, SettingUp

LEMMA LastKillKeeps == ASSUME Tool!ToolAssumption, ToolInv, Tool!LastKill PROVE ToolInv'
<1>1. /\ pc = "kill" /\ pc' = "after"
      /\ UNCHANGED <<step, command, wlan, todo, starts, quit_failed>>
  BY DEF Tool!LastKill
<1>2. /\ child' \in {"none", "forked", "running", "zombie", "unforked"}
      /\ stale' \in {"none", "running"} /\ escaped' \in BOOLEAN
      /\ Tool!Alive(child') \/ Tool!Alive(stale') => escaped'
      /\ child' # "none" <=> child # "none"
  BY Kills DEF Tool!LastKill
<1>3. Tool!TypeOK'
  BY <1>1, <1>2 DEF ToolInv, Tool!TypeOK
<1>4. Control'
  BY <1>1, <1>2 DEF ToolInv, Control
<1>5. SettingBack'
  BY <1>1 DEF ToolInv, SettingBack, AllDone, Managed
<1> QED  BY <1>1, <1>3, <1>4, <1>5 DEF ToolInv, SettingUp

LEMMA ExitKeeps == ASSUME Tool!ToolAssumption, ToolInv, Tool!Exit PROVE ToolInv'
<1>1. /\ pc = "after" /\ pc' = "exited"
      /\ UNCHANGED <<step, command, child, stale, wlan, todo, starts, quit_failed, escaped>>
  BY DEF Tool!Exit
<1> QED  BY <1>1 DEF ToolInv, Tool!TypeOK, Control, Tool!Alive, SettingUp, SettingBack, AllDone,
                     Managed

LEMMA RestartKeeps == ASSUME Tool!ToolAssumption, ToolInv, Tool!Restart PROVE ToolInv'
<1>1. /\ pc' = "start" /\ child' = "none" /\ step' = 0 /\ command' = "none"
      /\ starts < MaxStarts /\ starts' = starts + 1 /\ UNCHANGED <<wlan, todo>>
      /\ quit_failed' = FALSE /\ escaped' = FALSE
  BY DEF Tool!Restart
<1>2. stale' \in {"none", "running"}
  BY DEF Tool!Restart, ToolInv, Tool!TypeOK
<1>3. starts' \in 1..MaxStarts /\ step' \in 0..(Tool!Steps + 1)
  <2>1. starts \in 1..MaxStarts /\ MaxStarts \in Nat
    BY DEF ToolInv, Tool!TypeOK, Tool!ToolAssumption
  <2> QED  BY <1>1, <2>1, Counting
<1>4. Tool!TypeOK'
  BY <1>1, <1>2, <1>3 DEF ToolInv, Tool!TypeOK
<1>5. Control'
  BY <1>1, Counting DEF Control
<1> QED  BY <1>1, <1>4, <1>5 DEF ToolInv, SettingUp, SettingBack, AllDone
-----------------------------------------------------------------------------
(***************************************************************************)
(* The invariant, and what it says of the children and the wlans           *)
(***************************************************************************)
LEMMA ToolStepKeeps ==
  ASSUME Tool!ToolAssumption PROVE ToolInv /\ [Next]_vars => ToolInv'
<1> SUFFICES ASSUME ToolInv, [Next]_vars PROVE ToolInv'
  OBVIOUS
<1>1. CASE Tool!Next
  BY <1>1, ProcessKeeps, CommandKeeps, StartKeeps, TurnKeeps, SetModeKeeps, SetModeRaisesKeeps,
     KillAgainKeeps, LastTurnKeeps, LastKillKeeps, InterruptKeeps DEF Tool!Next, Tool!Main
<1>2. CASE UNCHANGED tool_vars
  BY <1>2, ToolKept
<1>3. CASE Exit \/ Restart
  BY <1>3, ExitKeeps, RestartKeeps DEF Exit, Restart
<1> QED  BY <1>1, <1>2, <1>3 DEF Next, ToolStep, MonitorStep, AfterExecute, vars

LEMMA ToolInvariant == ASSUME Tool!ToolAssumption PROVE Spec => []ToolInv
BY ToolInit, ToolStepKeeps, PTL DEF Spec

\* start.py:235-243: the one child that can outlive the tool was forked in the last turn of
\* the reactor, or the last kill failed, for any number of wlans and starts.
THEOREM NoOrphanHolds == ASSUME Tool!ToolAssumption PROVE Spec => []NoOrphan
<1>1. ToolInv => NoOrphan
  BY DEF ToolInv, Control, NoOrphan, Tool!NoOrphan, Tool!Alive
<1> QED  BY <1>1, ToolInvariant, PTL

\* start.py:96-110: a child runs only when every wlan is up in monitor mode.
THEOREM ChildOnMonitorHolds == ASSUME Tool!ToolAssumption PROVE Spec => []ChildOnMonitor
<1>1. ToolInv => ChildOnMonitor
  <2> SUFFICES ASSUME ToolInv, pc = "reactor", Tool!Alive(child), NEW c \in Tool!Cards
               PROVE  wlan[c] = [mode |-> "monitor", link |-> "up"]
    BY DEF ChildOnMonitor, Tool!ChildOnMonitor, Tool!InReactor
  <2>1. /\ Len(Wlans) \in Nat \ {0} /\ Tool!Steps = 5 * Len(Wlans) /\ c \in 1..Len(Wlans)
    BY Steps5
  <2>2. step > Tool!Steps /\ command = "none" /\ step \in 0..(Tool!Steps + 1)
    BY Counting DEF ToolInv, Control, Tool!Alive
  <2>3. Done = 5 * Len(Wlans)
    BY <2>1, <2>2 DEF Done
  <2>4. wlan[c].mode = "monitor" /\ wlan[c].link = "up"
    BY <2>1, <2>3 DEF ToolInv, SettingUp
  <2>5. wlan[c] \in Wlan
    BY DEF ToolInv, Tool!TypeOK, Wlan
  <2> QED  BY <2>4, <2>5 DEF Wlan
<1> QED  BY <1>1, ToolInvariant, PTL

\* start.py:113-130: a tool whose shutdown met no failed command leaves every wlan managed
\* and up, whatever was still running when it was interrupted.
THEOREM WlansBackHolds == ASSUME Tool!ToolAssumption PROVE Spec => []WlansBack
<1>1. ToolInv => WlansBack
  BY DEF ToolInv, SettingBack, AllDone, Managed, WlansBack, Tool!WlansBack
<1> QED  BY <1>1, ToolInvariant, PTL
=============================================================================
