------------------------------ MODULE MusicPlayer ------------------------------
(***************************************************************************)
(* src/linux/aui_music.c: the client of the player server, a process that   *)
(* open launches and that talks to the client over two System V queues.     *)
(* Three threads of the client share the server information with no lock:   *)
(* the application, the receiver of messages, and a monitor that waits for  *)
(* the server's death and launches another.                                 *)
(*                                                                         *)
(* Left out: the getters and seek, which all go through a pointer that open *)
(* leaves NULL, and playing times.                                          *)
(***************************************************************************)
EXTENDS Integers, Sequences

CONSTANTS
    MaxForks,       \* bound: servers launched in a behaviour, never reusing a pid
    MaxCrashes,     \* bound: servers that die by themselves
    QLen            \* messages a queue holds

ASSUME BoundsAssumption == MaxForks \in Nat \ {0} /\ MaxCrashes \in Nat /\ QLen \in Nat \ {0}

VARIABLES
    app,        \* where the application's thread is in an operation
    info,       \* server_info, with msg_qid_send and playing_info->cur_state
    rcv,        \* the receive thread and the message it has taken
    mon,        \* the monitor thread and the process it waits for or launched
    proc,       \* the server processes
    toServer, toClient,     \* the queues; toClient's messages name their sender
    crashes,
    restarted, outlived, blind  \* history, below

vars == <<app, info, rcv, mon, proc, toServer, toClient, crashes,
          restarted, outlived, blind>>
history == <<restarted, outlived, blind>>
queues == <<toServer, toClient>>

Pids == 1 .. MaxForks
None == 0

Reset == [init |-> FALSE, opened |-> FALSE, finished |-> FALSE, src |-> FALSE,
          paused |-> FALSE, pid |-> None, sendq |-> FALSE, cur |-> "stopped"]
NoThread == [pc |-> "none", msg |-> None]
NoMonitor == [pc |-> "none", pid |-> None]

Init ==
    /\ app = "idle" /\ info = Reset
    /\ rcv = NoThread /\ mon = NoMonitor
    /\ proc = [p \in Pids |-> "none"]
    /\ toServer = <<>> /\ toClient = <<>>
    /\ crashes = 0
    /\ restarted = {} /\ outlived = {} /\ blind = {}

Live == {p \in Pids : proc[p] \in {"boot", "ready", "loaded", "playing"}}
Fresh == {p \in Pids : proc[p] = "none"}
Killed(S) == [p \in Pids |-> IF p \in S \cap Live THEN "zombie" ELSE proc[p]]

\* vfork: the next process id.
Forked(p, procs) == p \in Fresh /\ (\A q \in Fresh : p <= q)
                    /\ proc' = [procs EXCEPT ![p] = "boot"]

\* delivery_message: sent, or failed after two seconds of a full or unknown queue.
CanSend_AnyLength == info.sendq   \* mutant
CanSend == info.sendq /\ Len(toServer) < QLen
Sent(c) == CanSend /\ toServer' = Append(toServer, c)

\* pthread_cancel and pthread_join: the receiver dies where it waits for messages.
Cancellable == rcv.pc \in {"top", "recv", "done"}

-----------------------------------------------------------------------------
(***************************************************************************)
(* aui_music_open                                                          *)
(***************************************************************************)
OpenPrepare ==
    /\ app = "idle" /\ ~info.init
    /\ Fresh # {}               \* bound: a launch by open does not fail
    /\ info' = [info EXCEPT !.paused = TRUE]
    /\ toClient' = <<>>
    /\ rcv' = [NoThread EXCEPT !.pc = "top"]
    /\ app' = "launch"
    /\ UNCHANGED <<mon, proc, toServer, crashes, history>>

\* start_player_server: killall, then vfork.
OpenLaunch_NoKillall ==   \* mutant
    /\ app = "launch"
    /\ \E p \in Pids :
         /\ Forked(p, proc)
         /\ info' = [info EXCEPT !.pid = p]
    /\ app' = "poll"
    /\ UNCHANGED <<rcv, mon, queues, crashes, history>>
OpenLaunch ==
    /\ app = "launch"
    /\ \E p \in Pids :
         /\ Forked(p, Killed(Live))
         /\ info' = [info EXCEPT !.pid = p]
    /\ app' = "poll"
    /\ UNCHANGED <<rcv, mon, queues, crashes, history>>

OpenDone ==
    /\ app = "poll" /\ info.opened
    /\ mon' = [NoMonitor EXCEPT !.pc = "loop"]
    /\ info' = [info EXCEPT !.init = TRUE]
    /\ app' = "idle"
    /\ UNCHANGED <<rcv, proc, queues, crashes, history>>

\* Ten seconds are enough for a receiver that runs to take what has come.
OpenTimeout_NoKill ==   \* mutant
    /\ app = "poll" /\ ~info.opened
    /\ rcv.pc = "done" \/ (rcv.pc = "recv" /\ toClient = <<>>)
    /\ info' = [info EXCEPT !.finished = TRUE]
    /\ rcv' = NoThread
    /\ proc' = proc
    /\ toServer' = <<>> /\ toClient' = <<>>
    /\ app' = "idle"
    /\ UNCHANGED <<mon, crashes, history>>
OpenTimeout ==
    /\ app = "poll" /\ ~info.opened
    /\ rcv.pc = "done" \/ (rcv.pc = "recv" /\ toClient = <<>>)
    /\ info' = [info EXCEPT !.finished = TRUE]
    /\ rcv' = NoThread
    /\ proc' = Killed({info.pid})
    /\ toServer' = <<>> /\ toClient' = <<>>
    /\ app' = "idle"
    /\ UNCHANGED <<mon, crashes, history>>

(***************************************************************************)
(* aui_music_close                                                         *)
(***************************************************************************)
CloseBegin_NotFinished ==   \* mutant
    /\ app = "idle" /\ info.init
    /\ info' = [info EXCEPT !.init = FALSE]
    /\ app' = "cancel"
    /\ UNCHANGED <<rcv, mon, proc, queues, crashes, history>>
CloseBegin ==
    /\ app = "idle" /\ info.init
    /\ info' = [info EXCEPT !.init = FALSE, !.finished = TRUE]
    /\ app' = "cancel"
    /\ UNCHANGED <<rcv, mon, proc, queues, crashes, history>>

CloseCancel ==
    /\ app = "cancel" /\ Cancellable
    /\ rcv' = NoThread
    /\ app' = "kill"
    /\ UNCHANGED <<info, mon, proc, queues, crashes, history>>

CloseKill ==
    /\ app = "kill"
    /\ proc' = Killed({info.pid})
    /\ app' = "join"
    /\ UNCHANGED <<info, rcv, mon, queues, crashes, history>>

CloseJoin ==
    /\ app = "join" /\ mon.pc = "none"
    /\ toServer' = <<>> /\ toClient' = <<>>
    /\ info' = Reset
    /\ outlived' = outlived \cup Live
    /\ app' = "idle"
    /\ UNCHANGED <<rcv, mon, proc, crashes, restarted, blind>>

(***************************************************************************)
(* aui_music_start sets the source first, unless it is thought to be set.  *)
(***************************************************************************)
StartSource ==
    /\ app = "idle" /\ info.init /\ ~info.src
    /\ \/ /\ Sent("source")
          /\ info' = [info EXCEPT !.src = TRUE]
          /\ app' = "play"
       \/ ~CanSend /\ UNCHANGED <<toServer, info, app>>
    /\ UNCHANGED <<rcv, mon, proc, toClient, crashes, history>>

StartPlay ==
    /\ app = "play" \/ (app = "idle" /\ info.init /\ info.src)
    /\ Sent("play") \/ (~CanSend /\ UNCHANGED toServer)
    /\ info' = [info EXCEPT !.paused = FALSE]
    /\ app' = "idle"
    /\ UNCHANGED <<rcv, mon, proc, toClient, crashes, history>>

\* aui_music_stop and aui_music_pause change the flags whether or not the command went.
Stop_KeepsSource ==   \* mutant
    /\ app = "idle" /\ info.init
    /\ Sent("stop") \/ (~CanSend /\ UNCHANGED toServer)
    /\ info' = info
    /\ UNCHANGED <<app, rcv, mon, proc, toClient, crashes, history>>
Stop ==
    /\ app = "idle" /\ info.init
    /\ Sent("stop") \/ (~CanSend /\ UNCHANGED toServer)
    /\ info' = [info EXCEPT !.src = FALSE]
    /\ UNCHANGED <<app, rcv, mon, proc, toClient, crashes, history>>

Pause ==
    /\ app = "idle" /\ info.init
    /\ Sent("pause") \/ (~CanSend /\ UNCHANGED toServer)
    /\ info' = [info EXCEPT !.paused = TRUE]
    /\ UNCHANGED <<app, rcv, mon, proc, toClient, crashes, history>>

\* aui_music_resume checks nothing: its caller has started and paused before.
Resume ==
    /\ app = "idle" /\ info.init /\ info.src /\ info.paused
    /\ Sent("play") \/ (~CanSend /\ UNCHANGED toServer)
    /\ info' = [info EXCEPT !.paused = FALSE]
    /\ UNCHANGED <<app, rcv, mon, proc, toClient, crashes, history>>

-----------------------------------------------------------------------------
(***************************************************************************)
(* msgrcv_thread                                                           *)
(***************************************************************************)
RcvLoop ==
    /\ rcv.pc = "top"
    /\ rcv' = [rcv EXCEPT !.pc = IF info.finished THEN "done" ELSE "recv"]
    /\ UNCHANGED <<app, info, mon, proc, queues, crashes, history>>

RcvTake ==
    /\ rcv.pc = "recv" /\ toClient # <<>>
    /\ rcv' = [pc |-> Head(toClient).kind, msg |-> Head(toClient).from]
    /\ toClient' = Tail(toClient)
    /\ UNCHANGED <<app, info, mon, proc, toServer, crashes, history>>

\* The flag first: an open that sees it may be through before the queue is known.
RcvOpened ==
    /\ rcv.pc = "open"
    /\ info' = [info EXCEPT !.opened = TRUE]
    /\ rcv' = [rcv EXCEPT !.pc = "msgget"]
    /\ UNCHANGED <<app, mon, proc, queues, crashes, history>>

RcvGetQueue ==
    /\ rcv.pc = "msgget"
    /\ info' = [info EXCEPT !.sendq = TRUE]
    /\ rcv' = [NoThread EXCEPT !.pc = "top"]
    /\ UNCHANGED <<app, mon, proc, queues, crashes, history>>

\* The end of the file or an error; a buffering notice is left out.
RcvState ==
    /\ rcv.pc \in {"stopped", "error"}
    /\ info' = [info EXCEPT !.cur = rcv.pc]
    /\ rcv' = [NoThread EXCEPT !.pc = "top"]
    /\ UNCHANGED <<app, mon, proc, queues, crashes, history>>

(***************************************************************************)
(* monitor_child_crashed_thread                                            *)
(***************************************************************************)
MonLoop ==
    /\ mon.pc = "loop"
    /\ mon' = IF info.finished /\ mon.pid # None THEN NoMonitor
              ELSE [pc |-> "wait", pid |-> info.pid]
    /\ UNCHANGED <<app, info, rcv, proc, queues, crashes, history>>

MonReap ==
    /\ mon.pc = "wait" /\ proc[mon.pid] = "zombie"
    /\ proc' = [proc EXCEPT ![mon.pid] = "gone"]
    /\ mon' = [mon EXCEPT !.pc = "reaped"]
    /\ UNCHANGED <<app, info, rcv, queues, crashes, history>>

MonCheck_NoDrain ==   \* mutant
    /\ mon.pc = "reaped"
    /\ \/ /\ info.finished
          /\ mon' = NoMonitor
          /\ UNCHANGED <<info, toClient>>
       \/ /\ ~info.finished
          /\ info' = [info EXCEPT !.opened = FALSE]
          /\ toClient' = toClient
          /\ mon' = [mon EXCEPT !.pc = "fork"]
    /\ UNCHANGED <<app, rcv, proc, toServer, crashes, history>>
MonCheck ==
    /\ mon.pc = "reaped"
    /\ \/ /\ info.finished
          /\ mon' = NoMonitor
          /\ UNCHANGED <<info, toClient>>
       \/ /\ ~info.finished
          /\ info' = [info EXCEPT !.opened = FALSE]
          /\ toClient' = <<>>
          /\ mon' = [mon EXCEPT !.pc = "fork"]
    /\ UNCHANGED <<app, rcv, proc, toServer, crashes, history>>

\* vfork fails when no process is left: the monitor gives up.
MonFork ==
    /\ mon.pc = "fork"
    /\ \/ \E p \in Pids :
            /\ Forked(p, proc)
            /\ mon' = [pc |-> "assign", pid |-> p]
            /\ restarted' = restarted \cup {p}
       \/ Fresh = {} /\ mon' = NoMonitor /\ UNCHANGED <<proc, restarted>>
    /\ UNCHANGED <<app, info, rcv, queues, crashes, outlived, blind>>

MonAssign_KeepsPid ==   \* mutant
    /\ mon.pc = "assign"
    /\ info' = info
    /\ mon' = [mon EXCEPT !.pc = "settle"]
    /\ UNCHANGED <<app, rcv, proc, queues, crashes, history>>
MonAssign ==
    /\ mon.pc = "assign"
    /\ info' = [info EXCEPT !.pid = mon.pid]
    /\ mon' = [mon EXCEPT !.pc = "settle"]
    /\ UNCHANGED <<app, rcv, proc, queues, crashes, history>>

\* Until the new server has answered or two seconds have passed.
MonSettle ==
    /\ mon.pc = "settle"
    /\ info' = [info EXCEPT !.cur = "error"]
    /\ mon' = [mon EXCEPT !.pc = "loop"]
    /\ UNCHANGED <<app, rcv, proc, queues, crashes, history>>

-----------------------------------------------------------------------------
(***************************************************************************)
(* The player server, which is not part of the repository.                 *)
(***************************************************************************)
Tells(p, kind) == Len(toClient) < QLen /\ toClient' = Append(toClient, [from |-> p, kind |-> kind])

ServerBoots(p) ==
    /\ proc[p] = "boot"
    /\ Tells(p, "open")
    /\ proc' = [proc EXCEPT ![p] = "ready"]
    /\ UNCHANGED <<app, info, rcv, mon, toServer, crashes, history>>

\* A source makes it ready to play, a stop makes it forget the source.
ServerObeys(p) ==
    /\ proc[p] \in {"ready", "loaded", "playing"} /\ toServer # <<>>
    /\ LET c == Head(toServer) IN
       /\ proc' = [proc EXCEPT ![p] =
            IF c = "source" THEN "loaded"
            ELSE IF c = "stop" THEN "ready"
            ELSE IF @ = "ready" THEN "ready"
            ELSE IF c = "play" THEN "playing" ELSE "loaded"]
       /\ blind' = IF c = "play" /\ proc[p] = "ready" THEN blind \cup {p} ELSE blind
    /\ toServer' = Tail(toServer)
    /\ UNCHANGED <<app, info, rcv, mon, toClient, crashes, restarted, outlived>>

ServerTells(p) ==
    /\ proc[p] = "playing"
    /\ \E kind \in {"stopped", "error"} :
         /\ Tells(p, kind)
         /\ proc' = [proc EXCEPT ![p] = "loaded"]
    /\ UNCHANGED <<app, info, rcv, mon, toServer, crashes, history>>

ServerCrashes(p) ==
    /\ p \in Live /\ crashes < MaxCrashes
    /\ crashes' = crashes + 1
    /\ proc' = Killed({p})
    /\ UNCHANGED <<app, info, rcv, mon, queues, history>>

App == OpenPrepare \/ OpenLaunch \/ OpenDone \/ OpenTimeout
       \/ CloseBegin \/ CloseCancel \/ CloseKill \/ CloseJoin
       \/ StartSource \/ StartPlay \/ Stop \/ Pause \/ Resume
Rcv == RcvLoop \/ RcvTake \/ RcvOpened \/ RcvGetQueue \/ RcvState
Mon == MonLoop \/ MonReap \/ MonCheck \/ MonFork \/ MonAssign \/ MonSettle
Server == \E p \in Pids : ServerBoots(p) \/ ServerObeys(p) \/ ServerTells(p) \/ ServerCrashes(p)

Next == App \/ Rcv \/ Mon \/ Server

\* The threads of the client run, an operation that has begun goes on.
Fairness == WF_vars(App /\ app # "idle") /\ WF_vars(Rcv) /\ WF_vars(Mon)
Spec == Init /\ [][Next]_vars /\ Fairness
-----------------------------------------------------------------------------
\* restarted: servers the monitor launched; outlived: servers that were alive
\* when a close returned; blind: servers that were told to play with no source.

Message == [from : Pids, kind : {"open", "stopped", "error"}]

\* The state stays in its types; the queues within what the system lets them hold.
TypeOK ==
    /\ app \in {"idle", "launch", "poll", "cancel", "kill", "join", "play"}
    /\ info \in [init : BOOLEAN, opened : BOOLEAN, finished : BOOLEAN, src : BOOLEAN,
                 paused : BOOLEAN, pid : Pids \cup {None}, sendq : BOOLEAN,
                 cur : {"stopped", "error"}]
    /\ rcv \in [pc : {"none", "top", "recv", "done", "msgget", "open", "stopped", "error"},
                msg : Pids \cup {None}]
    /\ mon \in [pc : {"none", "loop", "wait", "reaped", "fork", "assign", "settle"},
                pid : Pids \cup {None}]
    /\ proc \in [Pids -> {"none", "boot", "ready", "loaded", "playing", "zombie", "gone"}]
    /\ toServer \in Seq({"source", "play", "stop", "pause"}) /\ Len(toServer) <= QLen
    /\ toClient \in Seq(Message) /\ Len(toClient) <= QLen
    /\ crashes \in 0 .. MaxCrashes
    /\ restarted \subseteq Pids /\ outlived \subseteq restarted /\ blind \subseteq Pids

\* However opens, closes, crashes and the monitor's launches interleave, no two
\* player servers are alive together: they would share queues and decoders.
OneServer == \A p, q \in Live : p = q

\* A server that plays blind is one the monitor launched: every other start gives
\* the source before the play, through the stops and closes that forget it.
SourceBeforePlay == blind \subseteq restarted

\* After a close, or an open that failed, the only server that can be left is one
\* the monitor was launching while the close killed its predecessor.
OnlyRestartsOutlive == app = "idle" /\ ~info.init => Live \subseteq restarted

\* Once open has returned, what waits for the receiver was not sent by a server
\* that died before the present one, which would be taken for news of it; a
\* server that outlived a close may be heard until it is killed.
NoStaleMail ==
    info.init /\ app = "idle" =>
        \A i \in DOMAIN toClient :
            toClient[i].from >= info.pid \/ toClient[i].from \in outlived

\* A close that has begun returns: the receiver can be cancelled and the monitor,
\* wherever the close meets it, comes to its end.
CloseReturns == app \in {"cancel", "kill", "join"} ~> app = "idle"

\* A server that dies while the player is open is replaced, unless the player is
\* closed or no process can be launched.
CrashedServerIsReplaced ==
    info.init /\ info.pid \notin Live ~> info.pid \in Live \/ ~info.init \/ mon.pc = "none"

\* An open does not fail when the server it launched has answered: after a close,
\* says aui_music.h, the player can be opened again.
AnsweredOpenSucceeds ==
    [][app = "poll" /\ app' = "idle" /\ ~info'.init =>
            \A i \in DOMAIN toClient : toClient[i].from # info.pid]_vars
================================================================================
