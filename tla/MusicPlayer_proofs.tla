-------------------------- MODULE MusicPlayer_proofs --------------------------
(***************************************************************************)
(* No two player servers are alive together, for any number of launches and *)
(* crashes and any length of the queues.  What makes it inductive: from its  *)
(* creation to its end the monitor knows the only process that can be       *)
(* alive, and open, the other place that launches, runs with no monitor.    *)
(* From the one server that can be alive follows who has sent what waits in  *)
(* the queues.                                                              *)
(***************************************************************************)
EXTENDS MusicPlayer, TLAPS

\* The part of the types the argument needs.
Typed ==
    /\ info \in [init : BOOLEAN, opened : BOOLEAN, finished : BOOLEAN, src : BOOLEAN,
                 paused : BOOLEAN, pid : Pids \cup {None}, sendq : BOOLEAN,
                 cur : {"stopped", "error"}]
    /\ rcv \in [pc : {"none", "top", "recv", "done", "msgget", "open", "stopped", "error"},
                msg : Pids \cup {None}]
    /\ mon \in [pc : {"none", "loop", "wait", "reaped", "fork", "assign", "settle"},
                pid : Pids \cup {None}]
    /\ proc \in [Pids -> {"none", "boot", "ready", "loaded", "playing", "zombie", "gone"}]
    /\ toClient \in Seq(Message)

\* The monitor exists only while the player is open or being closed.
MonitorWhileOpen ==
    mon.pc # "none" => \/ app \in {"idle", "play"} /\ info.init
                       \/ app \in {"cancel", "kill", "join"}

\* Whoever may launch next knows every process that is alive.
AliveIsKnown ==
    /\ app = "poll" => Live \subseteq {info.pid}
    /\ mon.pc \in {"loop", "settle"} => Live \subseteq {info.pid}
    /\ mon.pc \in {"wait", "assign"} => Live \subseteq {mon.pid}
    /\ mon.pc \in {"reaped", "fork"} => Live = {}

IInv == Typed /\ MonitorWhileOpen /\ AliveIsKnown /\ OneServer

-----------------------------------------------------------------------------
\* A drained queue is a queue.
LEMMA EmptyQueue == <<>> \in Seq(Message)
OBVIOUS

\* start_player_server after its killall, and vfork alone: what is alive then.
LEMMA LaunchAfterKillall ==
    ASSUME Typed, NEW p \in Pids, Forked(p, Killed(Live))
    PROVE  /\ proc' \in [Pids -> {"none", "boot", "ready", "loaded", "playing", "zombie", "gone"}]
           /\ Live' = {p}
BY DEF Typed, Forked, Killed, Live, Fresh

LEMMA LaunchAlone ==
    ASSUME Typed, NEW p \in Pids, Forked(p, proc), Live = {}
    PROVE  /\ proc' \in [Pids -> {"none", "boot", "ready", "loaded", "playing", "zombie", "gone"}]
           /\ Live' = {p}
BY DEF Typed, Forked, Live, Fresh

\* A kill, a death or a move of a living server adds none.
LEMMA NoneComesAlive ==
    ASSUME Typed, AliveIsKnown, OneServer, Live' \subseteq Live,
           UNCHANGED <<info, mon, app>>
    PROVE  AliveIsKnown' /\ OneServer'
BY DEF AliveIsKnown, OneServer

LEMMA KillTyped ==
    ASSUME Typed, NEW S, proc' = Killed(S)
    PROVE  /\ proc' \in [Pids -> {"none", "boot", "ready", "loaded", "playing", "zombie", "gone"}]
           /\ Live' \subseteq Live
BY DEF Typed, Killed, Live

-----------------------------------------------------------------------------
LEMMA InitIInv == Init => IInv
BY DEF Init, IInv, Typed, Reset, NoThread, NoMonitor, MonitorWhileOpen, AliveIsKnown,
       OneServer, Live, None, Pids

\* The operations of the application.
LEMMA AppIInv ==
    ASSUME IInv, App
    PROVE  IInv'
<1> USE DEF IInv
<1>1. CASE OpenPrepare
  <2>1. mon.pc = "none" /\ UNCHANGED <<mon, proc>>
    BY <1>1 DEF OpenPrepare, MonitorWhileOpen
  <2>2. Typed'
    <3>1. info' = [info EXCEPT !.paused = TRUE] /\ toClient' = <<>> /\ rcv'.pc = "top"
      BY <1>1 DEF OpenPrepare, NoThread
    <3>2. rcv' = [pc |-> "top", msg |-> None]
      BY <1>1 DEF OpenPrepare, NoThread
    <3> QED  BY <2>1, <3>1, <3>2, EmptyQueue DEF Typed
  <2>3. MonitorWhileOpen' /\ AliveIsKnown' /\ OneServer'
    BY <1>1, <2>1 DEF OpenPrepare, MonitorWhileOpen, AliveIsKnown, OneServer, Live
  <2> QED  BY <2>2, <2>3
<1>2. CASE OpenLaunch
  <2>1. PICK p \in Pids : Forked(p, Killed(Live)) /\ info' = [info EXCEPT !.pid = p]
    BY <1>2 DEF OpenLaunch
  <2>2. Live' = {p} /\ proc' \in [Pids -> {"none", "boot", "ready", "loaded", "playing", "zombie", "gone"}]
    BY <2>1, LaunchAfterKillall
  <2>3. mon' = mon /\ mon.pc = "none" /\ app' = "poll" /\ UNCHANGED <<rcv, toClient>>
    BY <1>2 DEF OpenLaunch, MonitorWhileOpen, queues
  <2>4. Typed' /\ info'.pid = p
    BY <2>1, <2>2, <2>3 DEF Typed
  <2> QED  BY <2>2, <2>3, <2>4 DEF MonitorWhileOpen, AliveIsKnown, OneServer
<1>3. CASE OpenDone
  <2>1. UNCHANGED <<rcv, proc, toClient>> /\ Live' = Live /\ app = "poll" /\ app' = "idle"
    BY <1>3 DEF OpenDone, queues, Live
  <2>2. Typed' /\ info'.init /\ info'.pid = info.pid /\ mon'.pc = "loop"
    BY <1>3, <2>1 DEF OpenDone, Typed, NoMonitor, None
  <2> QED  BY <2>1, <2>2 DEF MonitorWhileOpen, AliveIsKnown, OneServer
<1>4. CASE OpenTimeout
  <2>1. Live' \subseteq Live
        /\ proc' \in [Pids -> {"none", "boot", "ready", "loaded", "playing", "zombie", "gone"}]
    BY <1>4, KillTyped DEF OpenTimeout
  <2>2. mon' = mon /\ mon.pc = "none" /\ app' = "idle"
    BY <1>4 DEF OpenTimeout, MonitorWhileOpen
  <2>3. Typed'
    <3>1. info' = [info EXCEPT !.finished = TRUE] /\ toClient' = <<>> /\ rcv' = NoThread
      BY <1>4 DEF OpenTimeout
    <3> QED  BY <2>1, <2>2, <3>1, EmptyQueue DEF Typed, NoThread
  <2> QED  BY <2>1, <2>2, <2>3 DEF MonitorWhileOpen, AliveIsKnown, OneServer
<1>5. CASE CloseBegin
  <2>1. UNCHANGED <<rcv, mon, proc, toClient>> /\ Live' = Live /\ app' = "cancel"
    BY <1>5 DEF CloseBegin, queues, Live
  <2>2. Typed' /\ info'.pid = info.pid
    BY <1>5, <2>1 DEF CloseBegin, Typed
  <2> QED  BY <2>1, <2>2 DEF MonitorWhileOpen, AliveIsKnown, OneServer
<1>6. CASE CloseCancel
  <2>1. UNCHANGED <<info, mon, proc, toClient>> /\ Live' = Live
        /\ app = "cancel" /\ app' = "kill"
    BY <1>6 DEF CloseCancel, queues, Live
  <2>2. Typed'
    BY <1>6, <2>1 DEF CloseCancel, Typed, NoThread, None
  <2> QED  BY <2>1, <2>2 DEF MonitorWhileOpen, AliveIsKnown, OneServer
<1>7. CASE CloseKill
  <2>1. Live' \subseteq Live
        /\ proc' \in [Pids -> {"none", "boot", "ready", "loaded", "playing", "zombie", "gone"}]
    BY <1>7, KillTyped DEF CloseKill
  <2>2. UNCHANGED <<info, rcv, mon, toClient>> /\ app = "kill" /\ app' = "join"
    BY <1>7 DEF CloseKill, queues
  <2>3. Typed'
    BY <2>1, <2>2 DEF Typed
  <2> QED  BY <2>1, <2>2, <2>3 DEF MonitorWhileOpen, AliveIsKnown, OneServer
<1>8. CASE CloseJoin
  <2>1. UNCHANGED <<rcv, mon, proc>> /\ Live' = Live /\ app' = "idle" /\ mon.pc = "none"
    BY <1>8 DEF CloseJoin, Live
  <2>2. Typed'
    BY <1>8, <2>1 DEF CloseJoin, Typed, Reset, None
  <2> QED  BY <2>1, <2>2 DEF MonitorWhileOpen, AliveIsKnown, OneServer
<1>9. CASE StartSource \/ StartPlay \/ Stop \/ Pause \/ Resume
  <2>1. UNCHANGED <<rcv, mon, proc, toClient>> /\ Live' = Live
    BY <1>9 DEF StartSource, StartPlay, Stop, Pause, Resume, Live
  <2>2. /\ Typed' /\ info'.pid = info.pid /\ info'.init = info.init
        /\ app \in {"idle", "play"} /\ app' \in {"idle", "play"}
    <3>1. CASE StartSource
      BY <2>1, <3>1 DEF StartSource, Typed
    <3>2. CASE StartPlay
      BY <2>1, <3>2 DEF StartPlay, Typed
    <3>3. CASE Stop
      BY <2>1, <3>3 DEF Stop, Typed
    <3>4. CASE Pause
      BY <2>1, <3>4 DEF Pause, Typed
    <3>5. CASE Resume
      BY <2>1, <3>5 DEF Resume, Typed
    <3> QED  BY <1>9, <3>1, <3>2, <3>3, <3>4, <3>5
  <2> QED  BY <2>1, <2>2 DEF MonitorWhileOpen, AliveIsKnown, OneServer
<1> QED  BY <1>1, <1>2, <1>3, <1>4, <1>5, <1>6, <1>7, <1>8, <1>9 DEF App

\* The receive thread touches neither processes nor monitor.
LEMMA RcvIInv ==
    ASSUME IInv, Rcv
    PROVE  IInv'
<1> USE DEF IInv
<1>1. UNCHANGED <<app, mon, proc>> /\ Live' = Live
  BY DEF Rcv, RcvLoop, RcvTake, RcvOpened, RcvGetQueue, RcvState, Live
<1>2. info'.pid = info.pid /\ info'.init = info.init
  <2>1. CASE RcvLoop \/ RcvTake
    BY <2>1 DEF RcvLoop, RcvTake
  <2>2. CASE RcvOpened \/ RcvGetQueue \/ RcvState
    BY <2>2 DEF RcvOpened, RcvGetQueue, RcvState, Typed
  <2> QED  BY <2>1, <2>2 DEF Rcv
<1>3. Typed'
  <2>1. CASE RcvLoop
    BY <1>1, <2>1 DEF RcvLoop, Typed, queues
  <2>2. CASE RcvTake
    <3>1. Head(toClient) \in Message /\ Tail(toClient) \in Seq(Message)
      BY <2>2 DEF RcvTake, Typed
    <3> QED  BY <1>1, <2>2, <3>1 DEF RcvTake, Typed, Message
  <2>3. CASE RcvOpened \/ RcvGetQueue \/ RcvState
    BY <1>1, <2>3 DEF RcvOpened, RcvGetQueue, RcvState, Typed, NoThread, None, queues
  <2> QED  BY <2>1, <2>2, <2>3 DEF Rcv
<1> QED  BY <1>1, <1>2, <1>3 DEF MonitorWhileOpen, AliveIsKnown, OneServer

\* The monitor launches only when the process it waited for was the last alive.
LEMMA MonIInv ==
    ASSUME IInv, Mon
    PROVE  IInv'
<1> USE DEF IInv
<1>1. CASE MonLoop
  <2>1. UNCHANGED <<app, info, rcv, proc, toClient>> /\ Live' = Live
    BY <1>1 DEF MonLoop, queues, Live
  <2>2. Typed' /\ mon'.pc \in {"none", "wait"} /\ (mon'.pc = "wait" => mon'.pid = info.pid)
    BY <1>1, <2>1 DEF MonLoop, Typed, NoMonitor, None
  <2> QED  BY <1>1, <2>1, <2>2 DEF MonLoop, MonitorWhileOpen, AliveIsKnown, OneServer
<1>2. CASE MonReap
  <2>1. UNCHANGED <<app, info, rcv, toClient>> /\ mon.pc = "wait" /\ proc[mon.pid] = "zombie"
    BY <1>2 DEF MonReap, queues
  <2>2. Typed' /\ mon'.pc = "reaped"
    BY <1>2, <2>1 DEF MonReap, Typed
  <2>3. Live = {} /\ Live' = {}
    BY <1>2, <2>1 DEF MonReap, AliveIsKnown, Live, Typed
  <2> QED  BY <2>1, <2>2, <2>3 DEF MonitorWhileOpen, AliveIsKnown, OneServer
<1>3. CASE MonCheck
  <2>1. UNCHANGED <<app, rcv, proc>> /\ Live' = Live /\ mon.pc = "reaped"
    BY <1>3 DEF MonCheck, Live
  <2>2. Typed' /\ info'.init = info.init /\ info'.pid = info.pid /\ mon'.pc \in {"none", "fork"}
    <3>1. CASE info.finished /\ mon' = NoMonitor /\ UNCHANGED <<info, toClient>>
      BY <2>1, <3>1 DEF Typed, NoMonitor
    <3>2. CASE /\ info' = [info EXCEPT !.opened = FALSE]
               /\ toClient' = <<>>
               /\ mon' = [mon EXCEPT !.pc = "fork"]
      BY <2>1, <3>2, EmptyQueue DEF Typed
    <3> QED  BY <1>3, <3>1, <3>2 DEF MonCheck
  <2> QED  BY <2>1, <2>2 DEF MonitorWhileOpen, AliveIsKnown, OneServer
<1>4. CASE MonFork
  <2>1. UNCHANGED <<app, info, rcv, toClient>> /\ mon.pc = "fork" /\ Live = {}
    BY <1>4 DEF MonFork, queues, AliveIsKnown
  <2>2. CASE mon' = NoMonitor /\ UNCHANGED proc
    <3>1. Typed' /\ mon'.pc = "none" /\ Live' = {}
      BY <2>1, <2>2 DEF Typed, NoMonitor, None, Live
    <3> QED  BY <2>1, <3>1 DEF MonitorWhileOpen, AliveIsKnown, OneServer
  <2>3. ASSUME NEW p \in Pids, Forked(p, proc), mon' = [pc |-> "assign", pid |-> p]
        PROVE  IInv'
    <3>1. Live' = {p} /\ proc' \in [Pids -> {"none", "boot", "ready", "loaded", "playing", "zombie", "gone"}]
      BY <2>1, <2>3, LaunchAlone
    <3>2. Typed'
      BY <2>1, <2>3, <3>1 DEF Typed
    <3> QED  BY <2>1, <2>3, <3>1, <3>2 DEF MonitorWhileOpen, AliveIsKnown, OneServer
  <2> QED  BY <1>4, <2>2, <2>3 DEF MonFork
<1>5. CASE MonAssign
  <2>1. UNCHANGED <<app, rcv, proc, toClient>> /\ Live' = Live /\ mon.pc = "assign"
    BY <1>5 DEF MonAssign, queues, Live
  <2>2. Typed' /\ info'.init = info.init /\ info'.pid = mon.pid /\ mon'.pc = "settle"
    BY <1>5, <2>1 DEF MonAssign, Typed
  <2>3. app # "poll"
    BY <2>1 DEF MonitorWhileOpen
  <2> QED  BY <2>1, <2>2, <2>3 DEF MonitorWhileOpen, AliveIsKnown, OneServer
<1>6. CASE MonSettle
  <2>1. UNCHANGED <<app, rcv, proc, toClient>> /\ Live' = Live /\ mon.pc = "settle"
    BY <1>6 DEF MonSettle, queues, Live
  <2>2. Typed' /\ info'.init = info.init /\ info'.pid = info.pid /\ mon'.pc = "loop"
    BY <1>6, <2>1 DEF MonSettle, Typed
  <2> QED  BY <2>1, <2>2 DEF MonitorWhileOpen, AliveIsKnown, OneServer
<1> QED  BY <1>1, <1>2, <1>3, <1>4, <1>5, <1>6 DEF Mon

\* A server changes only what it is itself.
LEMMA ServerIInv ==
    ASSUME IInv, Server
    PROVE  IInv'
<1> USE DEF IInv
<1> SUFFICES ASSUME NEW p \in Pids,
                    ServerBoots(p) \/ ServerObeys(p) \/ ServerTells(p) \/ ServerCrashes(p)
             PROVE  IInv'
  BY DEF Server
<1>1. UNCHANGED <<app, info, rcv, mon>>
  BY DEF ServerBoots, ServerObeys, ServerTells, ServerCrashes
<1>2. /\ proc' \in [Pids -> {"none", "boot", "ready", "loaded", "playing", "zombie", "gone"}]
      /\ Live' \subseteq Live
  <2>1. CASE ServerBoots(p)
    BY <2>1 DEF ServerBoots, Typed, Live
  <2>2. CASE ServerObeys(p)
    BY <2>2 DEF ServerObeys, Typed, Live
  <2>3. CASE ServerTells(p)
    BY <2>3 DEF ServerTells, Typed, Live
  <2>4. CASE ServerCrashes(p)
    BY <2>4, KillTyped DEF ServerCrashes
  <2> QED  BY <2>1, <2>2, <2>3, <2>4
<1>3. toClient' \in Seq(Message)
  <2>1. \A kind \in {"open", "stopped", "error"} : Tells(p, kind) => toClient' \in Seq(Message)
    BY DEF Tells, Typed, Message
  <2> QED  BY <2>1 DEF ServerBoots, ServerObeys, ServerTells, ServerCrashes, Typed, queues
<1>4. Typed'
  BY <1>1, <1>2, <1>3 DEF Typed
<1>5. MonitorWhileOpen'
  BY <1>1 DEF MonitorWhileOpen
<1>6. AliveIsKnown' /\ OneServer'
  BY <1>1, <1>2, NoneComesAlive
<1> QED  BY <1>4, <1>5, <1>6

\* The strengthened invariant holds in every reachable state of the player.
THEOREM Invariance == Spec => []IInv
<1>1. IInv /\ [Next]_vars => IInv'
  <2>1. IInv /\ UNCHANGED vars => IInv'
    BY DEF IInv, vars, Typed, MonitorWhileOpen, AliveIsKnown, OneServer, Live
  <2> QED  BY <2>1, AppIInv, RcvIInv, MonIInv, ServerIInv DEF Next
<1> QED  BY <1>1, InitIInv, PTL DEF Spec

\* However opens, closes, timeouts, crashes and the monitor's launches
\* interleave, no two player servers are alive together.
THEOREM NoTwoServers == Spec => []OneServer
<1>1. IInv => OneServer
  BY DEF IInv
<1> QED  BY <1>1, Invariance, PTL
-----------------------------------------------------------------------------
(***************************************************************************)
(* What a close leaves alive: only what the monitor launched.              *)
(***************************************************************************)
InitOrNot ==
    /\ app \in {"launch", "poll", "cancel", "kill", "join"} => ~info.init
    /\ app = "play" => info.init

MonitorsServer ==
    /\ mon.pc = "wait" => mon.pid = info.pid
    /\ mon.pc = "assign" => mon.pid \in restarted
    /\ (info.init \/ app \in {"cancel", "kill"}) /\ mon.pc = "none" => Live \subseteq {info.pid}

RestartsOnly ==
    app \in {"join", "launch"} \/ (app = "idle" /\ ~info.init) => Live \subseteq restarted

RInv == IInv /\ InitOrNot /\ MonitorsServer /\ RestartsOnly

LEMMA AppRInv ==
    ASSUME RInv, App
    PROVE  InitOrNot' /\ MonitorsServer' /\ RestartsOnly'
<1> USE DEF RInv, IInv
<1>0. restarted' = restarted
  BY DEF App, OpenPrepare, OpenLaunch, OpenDone, OpenTimeout, CloseBegin, CloseCancel, CloseKill,
         CloseJoin, StartSource, StartPlay, Stop, Pause, Resume, history
<1>1. CASE OpenPrepare
  <2>1. UNCHANGED <<mon, proc>> /\ Live' = Live /\ app' = "launch" /\ app = "idle" /\ ~info.init
        /\ info'.init = info.init /\ info'.pid = info.pid
    BY <1>1 DEF OpenPrepare, Live, Typed
  <2> QED  BY <1>0, <2>1 DEF InitOrNot, MonitorsServer, RestartsOnly, MonitorWhileOpen
<1>2. CASE OpenLaunch
  <2>1. mon' = mon /\ mon.pc = "none" /\ app = "launch" /\ app' = "poll" /\ info'.init = info.init
    BY <1>2 DEF OpenLaunch, MonitorWhileOpen, Typed
  <2> QED  BY <1>0, <2>1 DEF InitOrNot, MonitorsServer, RestartsOnly
<1>3. CASE OpenDone
  <2>1. app' = "idle" /\ info'.init /\ mon'.pc = "loop"
    BY <1>3 DEF OpenDone, Typed, NoMonitor
  <2> QED  BY <1>0, <2>1 DEF InitOrNot, MonitorsServer, RestartsOnly
<1>4. CASE OpenTimeout
  <2>1. app = "poll" /\ app' = "idle" /\ info'.init = info.init /\ mon' = mon /\ mon.pc = "none"
    BY <1>4 DEF OpenTimeout, Typed, MonitorWhileOpen
  <2>2. Live' = {}
    BY <1>4, <2>1 DEF OpenTimeout, AliveIsKnown, Live, Killed, Typed
  <2> QED  BY <1>0, <2>1, <2>2 DEF InitOrNot, MonitorsServer, RestartsOnly
<1>5. CASE CloseBegin
  <2>1. UNCHANGED <<mon, proc>> /\ Live' = Live /\ app' = "cancel" /\ info.init
        /\ ~info'.init /\ info'.pid = info.pid
    BY <1>5 DEF CloseBegin, Live, Typed
  <2> QED  BY <1>0, <2>1 DEF InitOrNot, MonitorsServer, RestartsOnly
<1>6. CASE CloseCancel
  <2>1. UNCHANGED <<info, mon, proc>> /\ Live' = Live /\ app = "cancel" /\ app' = "kill"
    BY <1>6 DEF CloseCancel, Live
  <2> QED  BY <1>0, <2>1 DEF InitOrNot, MonitorsServer, RestartsOnly
<1>7. CASE CloseKill
  <2>1. UNCHANGED <<info, mon>> /\ app = "kill" /\ app' = "join"
    BY <1>7 DEF CloseKill
  <2>2. Live' = Live \ {info.pid}
    BY <1>7 DEF CloseKill, Live, Killed, Typed
  <2>3. Live \subseteq {info.pid} \cup restarted
    BY <2>1 DEF AliveIsKnown, MonitorsServer, Typed
  <2> QED  BY <1>0, <2>1, <2>2, <2>3 DEF InitOrNot, MonitorsServer, RestartsOnly
<1>8. CASE CloseJoin
  <2>1. UNCHANGED <<mon, proc>> /\ Live' = Live /\ app = "join" /\ app' = "idle"
        /\ mon.pc = "none" /\ ~info'.init
    BY <1>8 DEF CloseJoin, Live, Reset
  <2> QED  BY <1>0, <2>1 DEF InitOrNot, MonitorsServer, RestartsOnly
<1>9. CASE StartSource \/ StartPlay \/ Stop \/ Pause \/ Resume
  <2>1. UNCHANGED <<mon, proc>> /\ Live' = Live
    BY <1>9 DEF StartSource, StartPlay, Stop, Pause, Resume, Live
  <2>2. /\ info'.pid = info.pid /\ info'.init = info.init /\ info.init
        /\ app' \in {"idle", "play"}
    <3>1. CASE StartSource
      BY <3>1 DEF StartSource, Typed
    <3>2. CASE StartPlay
      BY <3>2 DEF StartPlay, Typed, InitOrNot
    <3>3. CASE Stop \/ Pause \/ Resume
      BY <3>3 DEF Stop, Pause, Resume, Typed
    <3> QED  BY <1>9, <3>1, <3>2, <3>3
  <2> QED  BY <1>0, <2>1, <2>2 DEF InitOrNot, MonitorsServer, RestartsOnly
<1> QED  BY <1>1, <1>2, <1>3, <1>4, <1>5, <1>6, <1>7, <1>8, <1>9 DEF App

LEMMA MonRInv ==
    ASSUME RInv, Mon
    PROVE  InitOrNot' /\ MonitorsServer' /\ RestartsOnly'
<1> USE DEF RInv, IInv
<1>1. app' = app /\ info'.init = info.init
  <2>1. CASE MonLoop \/ MonReap \/ MonFork
    BY <2>1 DEF MonLoop, MonReap, MonFork
  <2>2. CASE MonCheck \/ MonAssign \/ MonSettle
    BY <2>2 DEF MonCheck, MonAssign, MonSettle, Typed
  <2> QED  BY <2>1, <2>2 DEF Mon
<1>2. InitOrNot'
  BY <1>1 DEF InitOrNot
<1>3. CASE MonLoop
  <2>1. UNCHANGED <<info, proc, restarted>> /\ Live' = Live /\ mon.pc = "loop"
        /\ mon'.pc \in {"none", "wait"} /\ (mon'.pc = "wait" => mon'.pid = info.pid)
    BY <1>3 DEF MonLoop, Live, NoMonitor, history
  <2> QED  BY <1>1, <1>2, <2>1 DEF AliveIsKnown, MonitorsServer, RestartsOnly
<1>4. CASE MonReap
  <2>1. UNCHANGED <<info, restarted>> /\ mon.pc = "wait" /\ mon'.pc = "reaped"
    BY <1>4 DEF MonReap, history, Typed
  <2>2. Live' = {}
    BY <1>4, <2>1 DEF MonReap, AliveIsKnown, Live, Typed
  <2> QED  BY <1>1, <1>2, <2>1, <2>2 DEF MonitorsServer, RestartsOnly
<1>5. CASE MonCheck
  <2>1. UNCHANGED <<proc, restarted>> /\ Live' = {} /\ mon'.pc \in {"none", "fork"}
    BY <1>5 DEF MonCheck, history, NoMonitor, AliveIsKnown, Live, Typed
  <2> QED  BY <1>1, <1>2, <2>1 DEF MonitorsServer, RestartsOnly
<1>6. CASE MonFork
  <2>1. Live = {} /\ info' = info /\ mon.pc = "fork"
    BY <1>6 DEF MonFork, AliveIsKnown
  <2>2. CASE mon' = NoMonitor /\ UNCHANGED <<proc, restarted>>
    BY <1>1, <1>2, <2>1, <2>2 DEF MonitorsServer, RestartsOnly, Live, NoMonitor
  <2>3. ASSUME NEW p \in Pids, Forked(p, proc), mon' = [pc |-> "assign", pid |-> p],
               restarted' = restarted \cup {p}
        PROVE  MonitorsServer' /\ RestartsOnly'
    <3>1. Live' = {p}
      BY <2>1, <2>3, LaunchAlone
    <3> QED  BY <2>3, <3>1 DEF MonitorsServer, RestartsOnly
  <2> QED  BY <1>2, <1>6, <2>2, <2>3 DEF MonFork
<1>7. CASE MonAssign
  <2>1. UNCHANGED <<proc, restarted>> /\ Live' = Live /\ mon'.pc = "settle"
    BY <1>7 DEF MonAssign, history, Live, Typed
  <2> QED  BY <1>1, <1>2, <2>1 DEF MonitorsServer, RestartsOnly
<1>8. CASE MonSettle
  <2>1. UNCHANGED <<proc, restarted>> /\ Live' = Live /\ mon'.pc = "loop"
    BY <1>8 DEF MonSettle, history, Live, Typed
  <2> QED  BY <1>1, <1>2, <2>1 DEF MonitorsServer, RestartsOnly
<1> QED  BY <1>3, <1>4, <1>5, <1>6, <1>7, <1>8 DEF Mon

\* The other steps leave the operations, the monitor and the history alone.
LEMMA OtherRInv ==
    ASSUME RInv, Rcv \/ Server \/ UNCHANGED vars
    PROVE  InitOrNot' /\ MonitorsServer' /\ RestartsOnly'
<1> USE DEF RInv, IInv
<1>1. UNCHANGED <<app, mon, restarted>> /\ info'.init = info.init /\ info'.pid = info.pid
  <2>1. CASE RcvLoop \/ RcvTake \/ UNCHANGED vars
    BY <2>1 DEF RcvLoop, RcvTake, vars, history
  <2>2. CASE RcvOpened \/ RcvGetQueue \/ RcvState
    BY <2>2 DEF RcvOpened, RcvGetQueue, RcvState, history, Typed
  <2>3. ASSUME NEW p \in Pids, ServerBoots(p) \/ ServerObeys(p) \/ ServerTells(p) \/ ServerCrashes(p)
        PROVE  UNCHANGED <<app, info, mon, restarted>>
    BY <2>3 DEF ServerBoots, ServerObeys, ServerTells, ServerCrashes, history
  <2> QED  BY <2>1, <2>2, <2>3 DEF Rcv, Server
<1>2. Live' \subseteq Live
  <2>1. CASE Rcv \/ UNCHANGED vars
    BY <2>1 DEF Rcv, RcvLoop, RcvTake, RcvOpened, RcvGetQueue, RcvState, vars, Live
  <2>2. ASSUME NEW p \in Pids, ServerBoots(p) \/ ServerObeys(p) \/ ServerTells(p)
        PROVE  Live' \subseteq Live
    BY <2>2 DEF ServerBoots, ServerObeys, ServerTells, Typed, Live
  <2>3. ASSUME NEW p \in Pids, ServerCrashes(p)
        PROVE  Live' \subseteq Live
    BY <2>3, KillTyped DEF ServerCrashes
  <2> QED  BY <2>1, <2>2, <2>3 DEF Server
<1> QED  BY <1>1, <1>2 DEF InitOrNot, MonitorsServer, RestartsOnly

LEMMA RInvHolds == Spec => []RInv
<1>1. Init => RInv
  BY InitIInv DEF Init, RInv, InitOrNot, MonitorsServer, RestartsOnly, Reset, NoMonitor, Live
<1>2. RInv /\ [Next]_vars => InitOrNot' /\ MonitorsServer' /\ RestartsOnly'
  BY AppRInv, MonRInv, OtherRInv DEF Next
<1>3. IInv' /\ InitOrNot' /\ MonitorsServer' /\ RestartsOnly' => RInv'
  BY DEF RInv
<1> QED  BY <1>1, <1>2, <1>3, Invariance, PTL DEF Spec

\* After a close, or an open that failed, the only server that can be alive is
\* one the monitor launched while the close went on.
THEOREM ClosedLeavesRestarts == Spec => []OnlyRestartsOutlive
<1>1. RInv => OnlyRestartsOutlive
  BY DEF RInv, RestartsOnly, OnlyRestartsOutlive
<1> QED  BY <1>1, RInvHolds, PTL
-----------------------------------------------------------------------------
(***************************************************************************)
(* What is in the queues: the source before the play, and no mail of the   *)
(* dead.                                                                   *)
(***************************************************************************)
Commands == {"source", "play", "stop", "pause"}

Bounded ==
    /\ app \in {"idle", "launch", "poll", "cancel", "kill", "join", "play"}
    /\ toServer \in Seq(Commands) /\ Len(toServer) <= QLen
    /\ Len(toClient) <= QLen
    /\ crashes \in 0 .. MaxCrashes
    /\ restarted \subseteq Pids /\ outlived \subseteq restarted

\* Process ids are given out in order, so a later server has a greater one.
LaunchedInOrder ==
    /\ \A p \in Fresh, q \in Pids : q > p => q \in Fresh
    /\ info.pid \notin Fresh
    /\ mon.pc = "assign" => mon.pid \notin Fresh /\ mon.pid >= info.pid

\* Who can have sent what waits for the receiver.
Mail ==
    /\ app \in {"idle", "launch"} /\ ~info.init => Live \subseteq outlived
    /\ app = "launch" => \A i \in DOMAIN toClient : toClient[i].from \in outlived
    /\ app = "poll" \/ info.init =>
          \A i \in DOMAIN toClient :
              toClient[i].from >= info.pid \/ toClient[i].from \in outlived
    /\ mon.pc = "fork" => toClient = <<>>
    /\ mon.pc = "assign" => \A i \in DOMAIN toClient : toClient[i].from = mon.pid

\* Server p has a source when it comes to the i-th of the waiting commands.
Given(p, i) ==
    \/ /\ proc[p] \in {"loaded", "playing"}
       /\ \A k \in 1 .. i - 1 : toServer[k] # "stop"
    \/ \E j \in 1 .. i - 1 :
          /\ toServer[j] = "source"
          /\ \A k \in j + 1 .. i - 1 : toServer[k] # "stop"

\* It needs one for a play, and after the last of them if the client relies on it.
Wants(i) == IF i <= Len(toServer) THEN toServer[i] = "play" ELSE info.src
PlaysHaveSource(p) == \A i \in 1 .. Len(toServer) + 1 : Wants(i) => Given(p, i)

Commanded ==
    /\ ~info.init /\ app \in {"idle", "launch", "poll"} => toServer = <<>> /\ ~info.src
    /\ app = "play" => info.src
    /\ \A p \in Live \ restarted : PlaysHaveSource(p)
    /\ SourceBeforePlay

QInv == RInv /\ Bounded /\ LaunchedInOrder /\ Mail /\ Commanded

LEMMA BoundedStep ==
    ASSUME RInv, Bounded, [Next]_vars
    PROVE  Bounded'
<1> USE DEF RInv, IInv
<1>0. QLen \in Nat \ {0} /\ Len(toServer) \in Nat /\ Len(toClient) \in Nat
      /\ crashes \in Nat /\ MaxCrashes \in Nat
  BY BoundsAssumption DEF Bounded, Typed
<1>1. \A c \in Commands : Sent(c) => toServer' \in Seq(Commands) /\ Len(toServer') <= QLen
  BY <1>0 DEF Sent, CanSend, Bounded
<1>2. \A p \in Pids, k \in {"open", "stopped", "error"} : Tells(p, k) => Len(toClient') <= QLen
  BY <1>0 DEF Tells, Typed, Message
<1>3. <<>> \in Seq(Commands) /\ Len(<<>>) <= QLen
  BY <1>0
<1>4. CASE App
  <2>1. crashes' = crashes /\ restarted' = restarted
    BY <1>4 DEF App, OpenPrepare, OpenLaunch, OpenDone, OpenTimeout, CloseBegin, CloseCancel,
           CloseKill, CloseJoin, StartSource, StartPlay, Stop, Pause, Resume, history
  <2>2. app' \in {"idle", "launch", "poll", "cancel", "kill", "join", "play"}
    BY <1>4 DEF App, OpenPrepare, OpenLaunch, OpenDone, OpenTimeout, CloseBegin, CloseCancel,
           CloseKill, CloseJoin, StartSource, StartPlay, Stop, Pause, Resume, Bounded
  <2>3. toServer' \in Seq(Commands) /\ Len(toServer') <= QLen
    BY <1>1, <1>3, <1>4 DEF App, OpenPrepare, OpenLaunch, OpenDone, OpenTimeout, CloseBegin,
           CloseCancel, CloseKill, CloseJoin, StartSource, StartPlay, Stop, Pause, Resume,
           Bounded, queues, Commands
  <2>4. Len(toClient') <= QLen
    BY <1>3, <1>4 DEF App, OpenPrepare, OpenLaunch, OpenDone, OpenTimeout, CloseBegin,
           CloseCancel, CloseKill, CloseJoin, StartSource, StartPlay, Stop, Pause, Resume,
           Bounded, queues
  <2>5. outlived' = outlived \/ (outlived' = outlived \cup Live /\ Live \subseteq restarted)
    BY <1>4 DEF App, OpenPrepare, OpenLaunch, OpenDone, OpenTimeout, CloseBegin, CloseCancel,
           CloseKill, CloseJoin, StartSource, StartPlay, Stop, Pause, Resume, history, RestartsOnly
  <2> QED  BY <2>1, <2>2, <2>3, <2>4, <2>5 DEF Bounded
<1>5. CASE Rcv
  <2>1. UNCHANGED <<app, toServer, crashes, restarted, outlived>>
    BY <1>5 DEF Rcv, RcvLoop, RcvTake, RcvOpened, RcvGetQueue, RcvState, queues, history
  <2>2. Len(toClient') <= QLen
    BY <1>0, <1>5 DEF Rcv, RcvLoop, RcvTake, RcvOpened, RcvGetQueue, RcvState, queues, Bounded, Typed
  <2> QED  BY <2>1, <2>2 DEF Bounded
<1>6. CASE Mon
  <2>1. UNCHANGED <<app, toServer, crashes, outlived>>
    BY <1>6 DEF Mon, MonLoop, MonReap, MonCheck, MonFork, MonAssign, MonSettle, queues, history
  <2>2. Len(toClient') <= QLen
    BY <1>3, <1>6 DEF Mon, MonLoop, MonReap, MonCheck, MonFork, MonAssign, MonSettle, queues, Bounded
  <2>3. restarted' = restarted \/ \E p \in Pids : restarted' = restarted \cup {p}
    BY <1>6 DEF Mon, MonLoop, MonReap, MonCheck, MonFork, MonAssign, MonSettle, history
  <2> QED  BY <2>1, <2>2, <2>3 DEF Bounded
<1>7. ASSUME NEW p \in Pids, ServerBoots(p) \/ ServerObeys(p) \/ ServerTells(p) \/ ServerCrashes(p)
      PROVE  Bounded'
  <2>1. UNCHANGED <<app, restarted, outlived>>
    BY <1>7 DEF ServerBoots, ServerObeys, ServerTells, ServerCrashes, history
  <2>2. toServer' \in Seq(Commands) /\ Len(toServer') <= QLen
    BY <1>0, <1>7 DEF ServerBoots, ServerObeys, ServerTells, ServerCrashes, queues, Bounded
  <2>3. Len(toClient') <= QLen
    BY <1>2, <1>7 DEF ServerBoots, ServerObeys, ServerTells, ServerCrashes, queues, Bounded
  <2>4. crashes' \in 0 .. MaxCrashes
    BY <1>0, <1>7 DEF ServerBoots, ServerObeys, ServerTells, ServerCrashes, history, Bounded
  <2> QED  BY <2>1, <2>2, <2>3, <2>4 DEF Bounded
<1>8. CASE UNCHANGED vars
  BY <1>8 DEF vars, Bounded
<1> QED  BY <1>4, <1>5, <1>6, <1>7, <1>8 DEF Next, Server

\* A launch takes the least process id that is left.
LEMMA OrderStep ==
    ASSUME RInv, LaunchedInOrder, [Next]_vars
    PROVE  LaunchedInOrder'
<1> USE DEF RInv, IInv
<1>0. Pids \subseteq Nat /\ info.pid \in Nat /\ mon.pid \in Nat /\ None \notin Pids
  BY BoundsAssumption DEF Pids, None, Typed
<1>1. ASSUME Fresh' = Fresh, info'.pid = info.pid \/ info'.pid \notin Fresh,
             mon'.pc = "assign" => mon' = mon /\ info'.pid = info.pid
      PROVE  LaunchedInOrder'
  BY <1>1 DEF LaunchedInOrder
<1>2. ASSUME NEW p \in Pids, NEW procs, Forked(p, procs), \A q \in Pids : procs[q] = "none" <=> proc[q] = "none",
             procs \in [Pids -> {"none", "boot", "ready", "loaded", "playing", "zombie", "gone"}]
      PROVE  Fresh' = Fresh \ {p} /\ p \in Fresh /\ \A q \in Fresh : p <= q
  BY <1>2 DEF Forked, Fresh
<1>3. CASE OpenLaunch
  <2>1. PICK p \in Pids : Forked(p, Killed(Live)) /\ info' = [info EXCEPT !.pid = p]
    BY <1>3 DEF OpenLaunch
  <2>2. Fresh' = Fresh \ {p} /\ p \in Fresh /\ \A q \in Fresh : p <= q
    BY <1>2, <2>1 DEF Killed, Live, Typed
  <2>3. mon' = mon /\ mon.pc = "none" /\ info'.pid = p
    BY <1>3, <2>1 DEF OpenLaunch, MonitorWhileOpen, Typed
  <2> QED  BY <1>0, <2>2, <2>3 DEF LaunchedInOrder
<1>4. CASE App /\ ~OpenLaunch
  <2>1. Fresh' = Fresh
    BY <1>4 DEF App, OpenPrepare, OpenDone, OpenTimeout, CloseBegin, CloseCancel,
           CloseKill, CloseJoin, StartSource, StartPlay, Stop, Pause, Resume, Killed, Live, Fresh
  <2>2. mon' = mon \/ mon'.pc = "loop"
    BY <1>4 DEF App, OpenPrepare, OpenDone, OpenTimeout, CloseBegin, CloseCancel,
           CloseKill, CloseJoin, StartSource, StartPlay, Stop, Pause, Resume, NoMonitor
  <2>3. CASE CloseJoin
    BY <1>0, <1>1, <2>1, <2>3 DEF CloseJoin, Reset, Fresh
  <2>4. CASE ~CloseJoin
    <3>1. info'.pid = info.pid
      BY <1>4, <2>4 DEF App, OpenPrepare, OpenDone, OpenTimeout, CloseBegin, CloseCancel,
           CloseKill, StartSource, StartPlay, Stop, Pause, Resume, Typed
    <3> QED  BY <1>1, <2>1, <2>2, <3>1
  <2> QED  BY <2>3, <2>4
<1>5. CASE Rcv
  <2>1. info'.pid = info.pid /\ UNCHANGED <<proc, mon>>
    BY <1>5 DEF Rcv, RcvLoop, RcvTake, RcvOpened, RcvGetQueue, RcvState, Typed
  <2> QED  BY <1>1, <2>1 DEF Fresh
<1>6. CASE MonLoop \/ MonReap \/ MonCheck \/ MonSettle
  <2>1. mon'.pc # "assign" /\ info'.pid = info.pid
    BY <1>6 DEF MonLoop, MonReap, MonCheck, MonSettle, NoMonitor, Typed
  <2>2. Fresh' = Fresh
    BY <1>6 DEF MonLoop, MonReap, MonCheck, MonSettle, Fresh, Typed
  <2> QED  BY <1>1, <2>1, <2>2
<1>7. CASE MonFork
  <2>1. CASE mon' = NoMonitor /\ UNCHANGED proc
    BY <1>1, <1>7, <2>1 DEF MonFork, NoMonitor, Fresh
  <2>2. ASSUME NEW p \in Pids, Forked(p, proc), mon' = [pc |-> "assign", pid |-> p] PROVE LaunchedInOrder'
    <3>1. Fresh' = Fresh \ {p} /\ p \in Fresh /\ \A q \in Fresh : p <= q
      BY <1>2, <2>2 DEF Typed
    <3>2. info' = info /\ (info.pid = None \/ info.pid \in Pids)
      BY <1>7 DEF MonFork, Typed
    <3>3. p >= info.pid
      BY <1>0, <3>1, <3>2 DEF LaunchedInOrder, None
    <3> QED  BY <1>0, <2>2, <3>1, <3>2, <3>3 DEF LaunchedInOrder
  <2> QED  BY <1>7, <2>1, <2>2 DEF MonFork
<1>8. CASE MonAssign
  <2>1. proc' = proc /\ mon'.pc = "settle" /\ info'.pid = mon.pid /\ mon.pc = "assign"
    BY <1>8 DEF MonAssign, Typed
  <2>2. mon.pid \notin Fresh
    BY <1>0, <2>1 DEF LaunchedInOrder
  <2> QED  BY <1>1, <2>1, <2>2 DEF Fresh
<1>9. ASSUME NEW p \in Pids, ServerBoots(p) \/ ServerObeys(p) \/ ServerTells(p) \/ ServerCrashes(p)
      PROVE  LaunchedInOrder'
  <2>1. UNCHANGED <<info, mon>>
    BY <1>9 DEF ServerBoots, ServerObeys, ServerTells, ServerCrashes
  <2>2. Fresh' = Fresh
    BY <1>9 DEF ServerBoots, ServerObeys, ServerTells, ServerCrashes, Fresh, Killed, Live, Typed
  <2> QED  BY <1>1, <2>1, <2>2
<1>10. CASE UNCHANGED vars
  BY <1>1, <1>10 DEF vars, Fresh
<1> QED  BY <1>3, <1>4, <1>5, <1>6, <1>7, <1>8, <1>9, <1>10 DEF Next, Mon, Server

\* The server that is alive may write: the one the client knows, or launches,
\* or one that outlived a close.
LEMMA WhoWrites ==
    ASSUME RInv, LaunchedInOrder, Mail, NEW p \in Live
    PROVE  /\ app = "launch" => p \in outlived
           /\ app = "poll" \/ info.init => p >= info.pid
           /\ mon.pc # "fork"
           /\ mon.pc = "assign" => p = mon.pid
<1> USE DEF RInv, IInv
<1>1. app = "launch" => p \in outlived
  BY DEF Mail, InitOrNot
<1>2. mon.pc \notin {"reaped", "fork"} /\ (mon.pc = "assign" => p = mon.pid)
  BY DEF AliveIsKnown
<1>3. info.pid \in Nat /\ mon.pid \in Nat
  BY BoundsAssumption DEF Typed, Pids, None
<1>4. app = "poll" => p >= info.pid
  BY <1>3 DEF AliveIsKnown
<1>5. info.init => p >= info.pid
  <2>1. mon.pc \in {"none", "loop", "settle", "wait", "assign"}
    BY <1>2 DEF Typed
  <2> QED  BY <1>2, <1>3, <2>1 DEF AliveIsKnown, MonitorsServer, LaunchedInOrder
<1> QED  BY <1>1, <1>2, <1>4, <1>5

LEMMA MailStep ==
    ASSUME RInv, LaunchedInOrder, Mail, [Next]_vars
    PROVE  Mail'
<1> DEFINE Fewer == \/ toClient' = toClient
                    \/ toClient' = <<>>
                    \/ toClient # <<>> /\ toClient' = Tail(toClient)
<1> USE DEF RInv, IInv
<1>0. ASSUME Fewer
      PROVE  /\ \A i \in DOMAIN toClient' : \E j \in DOMAIN toClient : toClient'[i] = toClient[j]
             /\ toClient = <<>> => toClient' = <<>>
  <2>1. CASE toClient' = toClient \/ toClient' = <<>>
    BY <2>1
  <2>2. CASE toClient # <<>> /\ toClient' = Tail(toClient)
    <3>1. \A i \in DOMAIN toClient' : i + 1 \in DOMAIN toClient /\ toClient'[i] = toClient[i + 1]
      BY <2>2 DEF Typed
    <3> QED  BY <2>2, <3>1
  <2> QED  BY <1>0, <2>1, <2>2
<1>1. ASSUME Fewer, info'.pid = info.pid, info'.init = info.init,
             app' = app \/ (info.init /\ app' \in {"idle", "play"}),
             outlived' = outlived, Live' \subseteq Live,
             mon'.pc \in {"fork", "assign"} => mon' = mon
      PROVE  Mail'
  <2>1. app' = "poll" \/ app' = "launch" => app' = app
    BY <1>1 DEF InitOrNot
  <2>2. app' \in {"idle", "launch"} /\ ~info'.init => app' = app
    BY <1>1
  <2> QED  BY <1>0, <1>1, <2>1, <2>2 DEF Mail
<1>2. CASE OpenPrepare
  <2>1. /\ app = "idle" /\ ~info.init /\ ~info'.init /\ app' = "launch"
        /\ toClient' = <<>> /\ UNCHANGED <<mon, proc, outlived>> /\ mon.pc = "none"
    BY <1>2 DEF OpenPrepare, history, MonitorWhileOpen, Typed
  <2> QED  BY <2>1 DEF Mail, Live
<1>3. CASE OpenLaunch
  <2>1. /\ app = "launch" /\ app' = "poll" /\ ~info'.init
        /\ UNCHANGED <<toClient, mon, outlived>> /\ mon.pc = "none"
    BY <1>3 DEF OpenLaunch, queues, history, MonitorWhileOpen, InitOrNot, Typed
  <2> QED  BY <2>1 DEF Mail
<1>4. CASE OpenDone
  <2>1. /\ app = "poll" /\ app' = "idle" /\ info'.init /\ info'.pid = info.pid
        /\ UNCHANGED <<toClient, outlived>> /\ mon'.pc = "loop"
    BY <1>4 DEF OpenDone, queues, history, NoMonitor, Typed
  <2> QED  BY <2>1 DEF Mail
<1>5. CASE OpenTimeout
  <2>1. /\ app = "poll" /\ app' = "idle" /\ ~info'.init /\ toClient' = <<>>
        /\ mon' = mon /\ mon.pc = "none"
    BY <1>5 DEF OpenTimeout, InitOrNot, MonitorWhileOpen, Typed
  <2>2. Live' = {}
    BY <1>5, <2>1 DEF OpenTimeout, AliveIsKnown, Live, Killed, Typed
  <2> QED  BY <2>1, <2>2 DEF Mail
<1>6. CASE CloseBegin \/ CloseCancel \/ CloseKill
  <2>1. /\ app' \in {"cancel", "kill", "join"} /\ ~info'.init
        /\ UNCHANGED <<toClient, mon, outlived>>
    BY <1>6 DEF CloseBegin, CloseCancel, CloseKill, queues, history, InitOrNot, Typed
  <2> QED  BY <2>1 DEF Mail
<1>7. CASE CloseJoin
  <2>1. /\ app' = "idle" /\ ~info'.init /\ toClient' = <<>> /\ mon' = mon /\ mon.pc = "none"
        /\ outlived' = outlived \cup Live /\ Live' = Live
    BY <1>7 DEF CloseJoin, Reset, Live
  <2> QED  BY <2>1 DEF Mail
<1>8. CASE StartSource \/ StartPlay \/ Stop \/ Pause \/ Resume
  <2>1. UNCHANGED <<mon, proc, toClient, outlived>> /\ Live' = Live
    BY <1>8 DEF StartSource, StartPlay, Stop, Pause, Resume, Live, history
  <2>2. /\ info'.pid = info.pid /\ info'.init = info.init /\ info.init
        /\ app' \in {"idle", "play"}
    <3>1. CASE StartSource
      BY <3>1 DEF StartSource, Typed
    <3>2. CASE StartPlay
      BY <3>2 DEF StartPlay, Typed, InitOrNot
    <3>3. CASE Stop \/ Pause \/ Resume
      BY <3>3 DEF Stop, Pause, Resume, Typed
    <3> QED  BY <1>8, <3>1, <3>2, <3>3
  <2> QED  BY <1>1, <2>1, <2>2
<1>9. CASE Rcv
  <2>1. UNCHANGED <<app, mon, proc, outlived>> /\ Live' = Live
    BY <1>9 DEF Rcv, RcvLoop, RcvTake, RcvOpened, RcvGetQueue, RcvState, Live, history
  <2>2. info'.pid = info.pid /\ info'.init = info.init
    BY <1>9 DEF Rcv, RcvLoop, RcvTake, RcvOpened, RcvGetQueue, RcvState, Typed
  <2>3. Fewer
    BY <1>9 DEF Rcv, RcvLoop, RcvTake, RcvOpened, RcvGetQueue, RcvState, queues
  <2> QED  BY <1>1, <2>1, <2>2, <2>3
<1>10. CASE MonLoop \/ MonReap \/ MonSettle
  <2>1. UNCHANGED <<app, toClient, outlived>> /\ mon'.pc \notin {"fork", "assign"}
        /\ info'.pid = info.pid /\ info'.init = info.init
    BY <1>10 DEF MonLoop, MonReap, MonSettle, NoMonitor, queues, history, Typed
  <2>2. Live' \subseteq Live
    BY <1>10 DEF MonLoop, MonReap, MonSettle, Live, Typed
  <2> QED  BY <1>1, <2>1, <2>2
<1>11. CASE MonCheck
  <2>1. UNCHANGED <<app, proc, outlived>> /\ info'.pid = info.pid /\ info'.init = info.init
        /\ Live' = Live /\ mon'.pc \in {"none", "fork"} /\ Fewer
        /\ (mon'.pc = "fork" => toClient' = <<>>)
    BY <1>11 DEF MonCheck, NoMonitor, history, Live, Typed
  <2> QED  BY <1>0, <2>1 DEF Mail
<1>12. CASE MonFork
  <2>1. UNCHANGED <<app, info, toClient, outlived>> /\ mon.pc = "fork" /\ toClient = <<>>
        /\ mon'.pc \in {"none", "assign"}
    BY <1>12 DEF MonFork, NoMonitor, queues, Mail
  <2>2. ~(app \in {"idle", "launch"} /\ ~info.init)
    BY <2>1 DEF MonitorWhileOpen
  <2> QED  BY <2>1, <2>2 DEF Mail
<1>13. CASE MonAssign
  <2>1. UNCHANGED <<app, toClient, outlived>> /\ mon.pc = "assign" /\ mon'.pc = "settle"
        /\ info'.pid = mon.pid /\ info'.init = info.init
    BY <1>13 DEF MonAssign, queues, history, Typed
  <2>2. ~(app \in {"idle", "launch"} /\ ~info.init) /\ app # "launch"
    BY <2>1 DEF MonitorWhileOpen
  <2>3. mon.pid \in Nat
    BY BoundsAssumption DEF Typed, Pids, None
  <2> QED  BY <2>1, <2>2, <2>3 DEF Mail
<1>14. ASSUME NEW p \in Pids, ServerObeys(p) \/ ServerCrashes(p) PROVE Mail'
  <2>1. UNCHANGED <<app, info, mon, toClient, outlived>>
    BY <1>14 DEF ServerObeys, ServerCrashes, queues, history
  <2>2. Live' \subseteq Live
    BY <1>14, KillTyped DEF ServerObeys, ServerCrashes, Live, Typed
  <2> QED  BY <1>1, <2>1, <2>2
<1>15. ASSUME NEW p \in Pids, ServerBoots(p) \/ ServerTells(p) PROVE Mail'
  <2>1. UNCHANGED <<app, info, mon, outlived>> /\ p \in Live
    BY <1>15 DEF ServerBoots, ServerTells, history, Live
  <2>2. Live' \subseteq Live
    BY <1>15 DEF ServerBoots, ServerTells, Live, Typed
  <2>3. PICK kind \in {"open", "stopped", "error"} : toClient' = Append(toClient, [from |-> p, kind |-> kind])
    BY <1>15 DEF ServerBoots, ServerTells, Tells
  <2>4. \A i \in DOMAIN toClient' : toClient'[i].from = p \/ (i \in DOMAIN toClient /\ toClient'[i] = toClient[i])
    BY <2>3 DEF Typed, Message
  <2> QED  BY <2>1, <2>2, <2>4, WhoWrites DEF Mail
<1>16. CASE UNCHANGED vars
  BY <1>1, <1>16 DEF vars, Live
<1> QED
  BY <1>2, <1>3, <1>4, <1>5, <1>6, <1>7, <1>8, <1>9, <1>10, <1>11, <1>12, <1>13, <1>14, <1>15, <1>16
     DEF Next, App, Mon, Server

\* What stands before the i-th command does not change by one more at the end.
LEMMA GivenLonger ==
    ASSUME NEW p, proc'[p] = proc[p], NEW n \in Nat, NEW c, toServer'[n + 1] = c,
           \A i \in 1 .. n : toServer'[i] = toServer[i]
    PROVE  /\ \A i \in 1 .. n + 1 : Given(p, i) => Given(p, i)'
           /\ c # "stop" /\ Given(p, n + 1) => Given(p, n + 2)'
           /\ c = "source" => Given(p, n + 2)'
<1>1. ASSUME NEW i \in 1 .. n + 2, NEW m \in 1 .. n + 1, m <= i,
             \A k \in m .. i - 1 : toServer'[k] # "stop", Given(p, m)
      PROVE  Given(p, i)'
  <2>1. m - 1 \in Nat /\ i \in Nat /\ \A k \in 1 .. m - 1 : toServer'[k] = toServer[k]
    OBVIOUS
  <2>2. ASSUME proc[p] \in {"loaded", "playing"}, \A k \in 1 .. m - 1 : toServer[k] # "stop"
        PROVE  Given(p, i)'
    <3>1. \A k \in 1 .. i - 1 : toServer'[k] # "stop"
      BY <1>1, <2>1, <2>2
    <3> QED  BY <2>2, <3>1 DEF Given
  <2>3. ASSUME NEW j \in 1 .. m - 1, toServer[j] = "source", \A k \in j + 1 .. m - 1 : toServer[k] # "stop"
        PROVE  Given(p, i)'
    <3>1. j \in 1 .. i - 1 /\ toServer'[j] = "source"
      BY <1>1, <2>1, <2>3
    <3>2. \A k \in j + 1 .. i - 1 : toServer'[k] # "stop"
      BY <1>1, <2>1, <2>3
    <3> QED  BY <3>1, <3>2 DEF Given
  <2> QED  BY <1>1, <2>2, <2>3 DEF Given
<1>2. \A i \in 1 .. n + 1 : Given(p, i) => Given(p, i)'
  BY <1>1
<1>3. ASSUME c # "stop", Given(p, n + 1) PROVE Given(p, n + 2)'
  <2>1. \A k \in n + 1 .. (n + 2) - 1 : toServer'[k] # "stop"
    BY <1>3
  <2> QED  BY <1>1, <1>3, <2>1
<1>4. ASSUME c = "source" PROVE Given(p, n + 2)'
  <2>1. n + 1 \in 1 .. (n + 2) - 1 /\ \A k \in (n + 1) + 1 .. (n + 2) - 1 : toServer'[k] # "stop"
    OBVIOUS
  <2> QED  BY <1>4, <2>1 DEF Given
<1> QED  BY <1>2, <1>3, <1>4

LEMMA GivenAppended ==
    ASSUME Bounded, NEW p \in Pids, proc' = proc, NEW c \in Commands,
           toServer' = Append(toServer, c), NEW n \in Nat, n = Len(toServer)
    PROVE  /\ \A i \in 1 .. n + 1 : Given(p, i) => Given(p, i)'
           /\ c # "stop" /\ Given(p, n + 1) => Given(p, n + 2)'
           /\ c = "source" => Given(p, n + 2)'
<1>1. toServer'[n + 1] = c /\ (\A i \in 1 .. n : toServer'[i] = toServer[i])
  BY DEF Bounded
<1> QED  BY <1>1, GivenLonger

\* A server that takes its next command has what the rest expects of it.
LEMMA GivenShifted ==
    ASSUME NEW p, NEW n \in Nat \ {0}, \A k \in 1 .. n - 1 : toServer'[k] = toServer[k + 1],
           proc[p] \in {"ready", "loaded", "playing"},
           proc'[p] = IF toServer[1] = "source" THEN "loaded"
                      ELSE IF toServer[1] = "stop" THEN "ready"
                      ELSE IF proc[p] = "ready" THEN "ready"
                      ELSE IF toServer[1] = "play" THEN "playing" ELSE "loaded",
           NEW i \in 1 .. n, Given(p, i + 1)
    PROVE  Given(p, i)'
<1>1. ASSUME proc[p] \in {"loaded", "playing"}, \A k \in 1 .. (i + 1) - 1 : toServer[k] # "stop"
      PROVE  Given(p, i)'
  <2>1. proc'[p] \in {"loaded", "playing"}
    BY <1>1
  <2>2. \A k \in 1 .. i - 1 : toServer'[k] # "stop"
    BY <1>1
  <2> QED  BY <2>1, <2>2 DEF Given
<1>2. ASSUME NEW j \in 1 .. (i + 1) - 1, toServer[j] = "source",
             \A k \in j + 1 .. (i + 1) - 1 : toServer[k] # "stop"
      PROVE  Given(p, i)'
  <2>1. \A k \in 1 .. i - 1 : k >= j => toServer'[k] # "stop"
    BY <1>2
  <2>2. CASE j = 1
    <3>1. proc'[p] = "loaded"
      BY <1>2, <2>2
    <3> QED  BY <2>1, <2>2, <3>1 DEF Given
  <2>3. CASE j # 1
    <3>1. j - 1 \in 1 .. i - 1 /\ toServer'[j - 1] = "source"
      BY <1>2, <2>3
    <3>2. \A k \in (j - 1) + 1 .. i - 1 : toServer'[k] # "stop"
      BY <2>1
    <3> QED  BY <3>1, <3>2 DEF Given
  <2> QED  BY <2>2, <2>3
<1> QED  BY <1>1, <1>2 DEF Given

LEMMA GivenTaken ==
    ASSUME Typed, Bounded, NEW p \in Pids, ServerObeys(p)
    PROVE  \A i \in 1 .. Len(toServer) : Given(p, i + 1) => Given(p, i)'
<1>1. /\ proc[p] \in {"ready", "loaded", "playing"} /\ toServer # <<>> /\ toServer' = Tail(toServer)
      /\ proc'[p] = IF Head(toServer) = "source" THEN "loaded"
                    ELSE IF Head(toServer) = "stop" THEN "ready"
                    ELSE IF proc[p] = "ready" THEN "ready"
                    ELSE IF Head(toServer) = "play" THEN "playing" ELSE "loaded"
  BY DEF ServerObeys, Typed
<1>2. /\ Len(toServer) \in Nat \ {0} /\ Head(toServer) = toServer[1]
      /\ \A k \in 1 .. Len(toServer) - 1 : toServer'[k] = toServer[k + 1]
  BY <1>1 DEF Bounded
<1> QED  BY <1>1, <1>2, GivenShifted

\* The queue stays and the client expects no more; or one command is added.
LEMMA SourceKept ==
    ASSUME Bounded, toServer' = toServer, info'.src => info.src, NEW p \in Pids,
           PlaysHaveSource(p),
           proc[p] \in {"loaded", "playing"} => proc'[p] \in {"loaded", "playing"}
    PROVE  PlaysHaveSource(p)'
<1>1. \A i \in 1 .. Len(toServer) + 1 : Given(p, i) => Given(p, i)'
  BY DEF Given
<1> QED  BY <1>1 DEF PlaysHaveSource, Wants

LEMMA SourceSent ==
    ASSUME Bounded, proc' = proc, NEW p \in Pids, PlaysHaveSource(p), NEW c \in Commands, Sent(c),
           c = "play" => info.src,
           info'.src => c = "source" \/ (info.src /\ c # "stop")
    PROVE  PlaysHaveSource(p)'
<1>1. toServer' = Append(toServer, c)
  BY DEF Sent
<1>2. PICK n \in Nat : n = Len(toServer)
  BY DEF Bounded
<1>3. Len(toServer') = n + 1 /\ toServer'[n + 1] = c /\ \A i \in 1 .. n : toServer'[i] = toServer[i]
  BY <1>1, <1>2 DEF Bounded
<1>4. /\ \A i \in 1 .. n + 1 : Given(p, i) => Given(p, i)'
      /\ c # "stop" /\ Given(p, n + 1) => Given(p, n + 2)'
      /\ c = "source" => Given(p, n + 2)'
  BY <1>1, <1>2, GivenAppended
<1>5. info.src => Given(p, n + 1)
  BY <1>2 DEF PlaysHaveSource, Wants
<1>6. \A i \in 1 .. n : Wants(i)' => Given(p, i)'
  BY <1>2, <1>3, <1>4 DEF PlaysHaveSource, Wants
<1>7. Wants(n + 1)' => Given(p, n + 1)'
  BY <1>2, <1>3, <1>4, <1>5 DEF Wants
<1>8. Wants(n + 2)' => Given(p, n + 2)'
  BY <1>3, <1>4, <1>5 DEF Wants
<1>9. \A i \in 1 .. Len(toServer') + 1 : i \in 1 .. n \/ i = n + 1 \/ i = n + 2
  BY <1>3
<1>10. \A i \in 1 .. Len(toServer') + 1 : Wants(i)' => Given(p, i)'
  BY <1>6, <1>7, <1>8, <1>9
<1> QED  BY <1>10 DEF PlaysHaveSource

\* However commands and servers interleave, a server that open launched has the
\* source when it comes to a play.
LEMMA CommandedStep ==
    ASSUME RInv, Bounded, Commanded, [Next]_vars
    PROVE  Commanded'
<1> DEFINE Plays == \A p \in Live \ restarted : PlaysHaveSource(p)
<1> USE DEF RInv, IInv
<1>0. Live \subseteq Pids
  BY DEF Live
<1>1. ASSUME toServer' = toServer, info'.src => info.src, restarted \subseteq restarted',
             Live' \subseteq Live \cup restarted',
             \A p \in Live : p \in Live' /\ proc[p] \in {"loaded", "playing"}
                                => proc'[p] \in {"loaded", "playing"}
      PROVE  Plays'
  <2> SUFFICES ASSUME NEW p \in Live' \ restarted' PROVE PlaysHaveSource(p)'
    OBVIOUS
  <2> QED  BY <1>0, <1>1, SourceKept DEF Commanded
<1>2. ASSUME toServer' = <<>>, ~info'.src PROVE Plays'
  BY <1>2 DEF PlaysHaveSource, Wants
<1>3. CASE App
  <2>1. UNCHANGED <<restarted, blind>>
    BY <1>3 DEF App, OpenPrepare, OpenLaunch, OpenDone, OpenTimeout, CloseBegin, CloseCancel,
           CloseKill, CloseJoin, StartSource, StartPlay, Stop, Pause, Resume, history
  <2>2. SourceBeforePlay'
    BY <2>1 DEF Commanded, SourceBeforePlay
  <2>3. CASE OpenPrepare \/ OpenDone \/ CloseBegin \/ CloseCancel
    <3>1. UNCHANGED <<toServer, proc>> /\ info'.src = info.src /\ Live' = Live
      BY <2>3 DEF OpenPrepare, OpenDone, CloseBegin, CloseCancel, queues, Live, Typed
    <3>2. app' # "play" /\ (~info'.init /\ app' \in {"idle", "launch", "poll"} => OpenPrepare /\ ~info.init /\ app = "idle")
      BY <2>3 DEF OpenPrepare, OpenDone, CloseBegin, CloseCancel, Typed
    <3> QED  BY <1>1, <2>1, <2>2, <3>1, <3>2 DEF Commanded
  <2>4. CASE OpenLaunch
    <3>1. toServer' = <<>> /\ ~info'.src /\ app' = "poll"
      BY <2>4 DEF OpenLaunch, queues, Commanded, InitOrNot, Typed
    <3> QED  BY <1>2, <2>2, <3>1 DEF Commanded
  <2>5. CASE OpenTimeout
    <3>1. toServer' = <<>> /\ ~info'.src /\ app' = "idle"
      BY <2>5 DEF OpenTimeout, Commanded, InitOrNot, Typed
    <3> QED  BY <1>2, <2>2, <3>1 DEF Commanded
  <2>6. CASE CloseKill
    <3>1. UNCHANGED <<toServer, info>> /\ app' = "join"
      BY <2>6 DEF CloseKill, queues
    <3>2. Live' \subseteq Live /\ \A p \in Live' : proc'[p] = proc[p]
      BY <2>6 DEF CloseKill, Killed, Live
    <3> QED  BY <1>1, <2>1, <2>2, <3>1, <3>2 DEF Commanded
  <2>7. CASE CloseJoin
    <3>1. toServer' = <<>> /\ ~info'.src /\ app' = "idle"
      BY <2>7 DEF CloseJoin, Reset
    <3> QED  BY <1>2, <2>2, <3>1 DEF Commanded
  <2>8. ASSUME NEW c \in Commands, Sent(c) \/ UNCHANGED toServer, proc' = proc,
               Sent(c) => /\ c = "play" => info.src
                          /\ info'.src => c = "source" \/ (info.src /\ c # "stop"),
               UNCHANGED toServer => (info'.src => info.src)
        PROVE  Plays'
    <3>1. CASE UNCHANGED toServer
      BY <1>1, <2>1, <2>8, <3>1 DEF Live
    <3>2. CASE Sent(c)
      <4> SUFFICES ASSUME NEW p \in Live' \ restarted' PROVE PlaysHaveSource(p)'
        OBVIOUS
      <4>1. p \in Live \ restarted /\ p \in Pids /\ PlaysHaveSource(p)
        BY <2>1, <2>8 DEF Live, Commanded
      <4> QED  BY <2>8, <3>2, <4>1, SourceSent
    <3> QED  BY <2>8, <3>1, <3>2
  <2>9. ASSUME info'.init, app' = "play" => info'.src, Plays' PROVE Commanded'
    BY <2>2, <2>9 DEF Commanded
  <2>10. CASE StartSource
    <3>1. CASE Sent("source") /\ info' = [info EXCEPT !.src = TRUE]
      <4>1. Plays'
        BY <2>8, <2>10, <3>1 DEF StartSource, Commands, Sent
      <4> QED  BY <2>9, <2>10, <3>1, <4>1 DEF StartSource, Typed
    <3>2. CASE UNCHANGED <<toServer, info, app>>
      <4>1. Plays'
        BY <1>1, <2>1, <2>10, <3>2 DEF StartSource, Live
      <4> QED  BY <2>9, <2>10, <3>2, <4>1 DEF StartSource, Commanded
    <3> QED  BY <2>10, <3>1, <3>2 DEF StartSource
  <2>11. CASE StartPlay \/ Resume
    <3>1. /\ info.init /\ info.src /\ info'.init /\ info'.src /\ proc' = proc
          /\ Sent("play") \/ UNCHANGED toServer
      BY <2>11 DEF StartPlay, Resume, InitOrNot, Commanded, Typed
    <3> QED  BY <2>8, <2>9, <3>1 DEF Commands
  <2>12. CASE Stop
    <3>1. info'.init /\ ~info'.src /\ proc' = proc /\ app' = "idle" /\ (Sent("stop") \/ UNCHANGED toServer)
      BY <2>12 DEF Stop, Typed
    <3> QED  BY <2>8, <2>9, <3>1 DEF Commands
  <2>13. CASE Pause
    <3>1. /\ info'.init /\ info'.src = info.src /\ proc' = proc /\ app' = "idle"
          /\ Sent("pause") \/ UNCHANGED toServer
      BY <2>13 DEF Pause, Typed
    <3> QED  BY <2>8, <2>9, <3>1 DEF Commands
  <2> QED
    BY <1>3, <2>3, <2>4, <2>5, <2>6, <2>7, <2>10, <2>11, <2>12, <2>13 DEF App
<1>4. ASSUME UNCHANGED <<app, toServer, blind>>, info'.src = info.src, info'.init = info.init,
             restarted \subseteq restarted', Plays'
      PROVE  Commanded'
  BY <1>4 DEF Commanded, SourceBeforePlay
<1>5. CASE Rcv
  <2>1. UNCHANGED <<app, toServer, proc, restarted, blind>> /\ Live' = Live
    BY <1>5 DEF Rcv, RcvLoop, RcvTake, RcvOpened, RcvGetQueue, RcvState, Live, queues, history
  <2>2. info'.src = info.src /\ info'.init = info.init
    BY <1>5 DEF Rcv, RcvLoop, RcvTake, RcvOpened, RcvGetQueue, RcvState, Typed
  <2> QED  BY <1>1, <1>4, <2>1, <2>2
<1>6. CASE Mon
  <2>1. UNCHANGED <<app, toServer, blind>> /\ restarted \subseteq restarted'
    BY <1>6 DEF Mon, MonLoop, MonReap, MonCheck, MonFork, MonAssign, MonSettle, queues, history
  <2>2. info'.src = info.src /\ info'.init = info.init
    BY <1>6 DEF Mon, MonLoop, MonReap, MonCheck, MonFork, MonAssign, MonSettle, Typed
  <2>3. /\ Live' \subseteq Live \cup restarted'
        /\ \A p \in Live : p \in Live' => proc'[p] = proc[p] \/ proc'[p] \in {"loaded", "playing"}
    <3>1. CASE MonLoop \/ MonCheck \/ MonAssign \/ MonSettle
      BY <3>1 DEF MonLoop, MonCheck, MonAssign, MonSettle, Live
    <3>2. CASE MonReap
      BY <3>2 DEF MonReap, Live, Typed
    <3>3. CASE MonFork
      <4>1. Live = {}
        BY <3>3 DEF MonFork, AliveIsKnown
      <4>2. CASE UNCHANGED proc
        BY <4>2 DEF Live
      <4>3. ASSUME NEW p \in Pids, Forked(p, proc), restarted' = restarted \cup {p}
            PROVE  Live' \subseteq restarted'
        BY <4>1, <4>3, LaunchAlone
      <4> QED  BY <3>3, <4>1, <4>2, <4>3 DEF MonFork
    <3> QED  BY <1>6, <3>1, <3>2, <3>3 DEF Mon
  <2>4. Plays'
    BY <1>1, <2>1, <2>2, <2>3
  <2> QED  BY <1>4, <2>1, <2>2, <2>4
<1>7. ASSUME NEW p \in Pids, ServerBoots(p) \/ ServerTells(p) \/ ServerCrashes(p)
      PROVE  Commanded'
  <2>1. UNCHANGED <<app, info, toServer, restarted, blind>>
    BY <1>7 DEF ServerBoots, ServerTells, ServerCrashes, queues, history
  <2>2. /\ Live' \subseteq Live
        /\ \A q \in Live : q \in Live' /\ proc[q] \in {"loaded", "playing"} => proc'[q] \in {"loaded", "playing"}
    BY <1>7 DEF ServerBoots, ServerTells, ServerCrashes, Killed, Live, Typed
  <2> QED  BY <1>1, <1>4, <2>1, <2>2
<1>8. ASSUME NEW p \in Pids, ServerObeys(p) PROVE Commanded'
  <2>1. /\ UNCHANGED <<app, info, restarted>> /\ toServer # <<>> /\ toServer' = Tail(toServer)
        /\ p \in Live /\ Live' \subseteq Live
        /\ blind' = IF Head(toServer) = "play" /\ proc[p] = "ready" THEN blind \cup {p} ELSE blind
    BY <1>8 DEF ServerObeys, Live, Typed
  <2>2. PICK n \in Nat : n = Len(toServer) /\ n # 0
    BY <2>1 DEF Bounded
  <2>3. /\ Len(toServer') = n - 1 /\ Head(toServer) = toServer[1]
        /\ \A k \in 1 .. n - 1 : toServer'[k] = toServer[k + 1]
    BY <2>1, <2>2 DEF Bounded
  <2>4. \A q \in Live' : q = p
    BY <2>1 DEF OneServer
  <2>5. ASSUME p \notin restarted PROVE PlaysHaveSource(p)'
    <3>1. \A i \in 1 .. n + 1 : Wants(i) => Given(p, i)
      BY <2>1, <2>2, <2>5 DEF Commanded, PlaysHaveSource
    <3>2. \A i \in 1 .. n : Given(p, i + 1) => Given(p, i)'
      BY <1>8, <2>2, GivenTaken
    <3>3. \A i \in 1 .. n : Wants(i)' => Wants(i + 1)
      BY <2>1, <2>2, <2>3 DEF Wants
    <3>4. \A i \in 1 .. n : Wants(i)' => Given(p, i)'
      BY <3>1, <3>2, <3>3
    <3> QED  BY <2>3, <3>4 DEF PlaysHaveSource
  <2>6. p \notin restarted /\ Head(toServer) = "play" => proc[p] # "ready"
    <3> SUFFICES ASSUME p \notin restarted, toServer[1] = "play" PROVE proc[p] # "ready"
      BY <2>3
    <3>1. Given(p, 1)
      BY <2>1, <2>2 DEF Commanded, PlaysHaveSource, Wants
    <3> QED  BY <3>1 DEF Given
  <2>7. SourceBeforePlay'
    BY <2>1, <2>6 DEF Commanded, SourceBeforePlay
  <2>8. Plays'
    BY <2>1, <2>4, <2>5
  <2>9. toServer # <<>> /\ info' = info /\ app' = app
    BY <2>1
  <2> QED  BY <2>7, <2>8, <2>9 DEF Commanded
<1>9. CASE UNCHANGED vars
  BY <1>1, <1>4, <1>9 DEF vars, Live
<1> QED  BY <1>3, <1>5, <1>6, <1>7, <1>8, <1>9 DEF Next, Server

LEMMA QInvHolds == Spec => []QInv
<1>1. Init => Bounded /\ LaunchedInOrder /\ Mail /\ Commanded
  <2> SUFFICES ASSUME Init PROVE Bounded /\ LaunchedInOrder /\ Mail /\ Commanded
    OBVIOUS
  <2>1. Bounded
    BY BoundsAssumption DEF Init, Bounded
  <2>2. LaunchedInOrder
    BY BoundsAssumption DEF Init, LaunchedInOrder, Fresh, Pids, Reset, NoMonitor, None
  <2>3. Mail
    BY DEF Init, Mail, Live, Reset, NoMonitor
  <2>4. Commanded
    BY DEF Init, Commanded, SourceBeforePlay, Live, Reset
  <2> QED  BY <2>1, <2>2, <2>3, <2>4
<1>2. RInv /\ Bounded /\ LaunchedInOrder /\ Mail /\ Commanded /\ [Next]_vars
      => Bounded' /\ LaunchedInOrder' /\ Mail' /\ Commanded'
  BY BoundedStep, OrderStep, MailStep, CommandedStep
<1>3. RInv /\ Bounded /\ LaunchedInOrder /\ Mail /\ Commanded => QInv
  BY DEF QInv
<1> QED  BY <1>1, <1>2, <1>3, RInvHolds, PTL DEF Spec

\* The state stays in its types and the queues within QLen, for any number of
\* launches and crashes.
THEOREM TypesHold == Spec => []TypeOK
<1>1. QInv => TypeOK
  BY DEF QInv, RInv, IInv, Typed, Bounded, Commanded, SourceBeforePlay, Commands, TypeOK
<1> QED  BY <1>1, QInvHolds, PTL

\* Whatever is stopped, paused, resumed and closed, and however slowly the server
\* takes its commands, one that open launched never plays with no source; only
\* one the monitor launched, which the client takes to have the old source, can.
THEOREM SourceComesFirst == Spec => []SourceBeforePlay
<1>1. QInv => SourceBeforePlay
  BY DEF QInv, Commanded
<1> QED  BY <1>1, QInvHolds, PTL

\* Once open has returned, no message of a server that died before the present
\* one waits for the receiver, whatever crashed and was launched meanwhile.
THEOREM MailIsFresh == Spec => []NoStaleMail
<1>1. QInv => NoStaleMail
  BY DEF QInv, Mail, NoStaleMail
<1> QED  BY <1>1, QInvHolds, PTL
================================================================================
