----------------------------------- MODULE Pvr -----------------------------------
(***************************************************************************)
(* The sessions of src/linux/aui_pvr.c and the table of their callbacks.    *)
(* Nothing locks the table: the application opens and closes recorders and  *)
(* the player, the threads of the PVR library look callbacks up in it, and  *)
(* the event task closes and opens the player again when it reaches the end *)
(* of a recording.  The mutex guards that replay and the change to normal   *)
(* speed, nothing else.  The PVR library is external.                       *)
(***************************************************************************)
EXTENDS Naturals, Sequences, FiniteSets, FiniteSetsExt

CONSTANTS
    Recorders, Players,   \* handles the library gives to recorders and players
    Tasks,                \* event tasks, one for each aui_pvr_init
    MaxOpens,             \* bound: opens of the application
    Modes,                \* the start modes the application uses
    QueueCap,             \* messages the event queue holds (20 in the code)
    App, None

Handles == Recorders \cup Players
Sessions == 1..MaxOpens                 \* what an open passes: callback and user data
Slots == 1..Cardinality(Handles)        \* s_max_pvr_record_number

ASSUME ConstantsAssumption ==
    /\ Recorders \cap Players = {} /\ Recorders # {}
    /\ IsFiniteSet(Handles)             \* max_rec_number and max_play_number
    /\ \A p, q \in Players : p = q      \* aui_pvr_init refuses a second player
    /\ Modes \subseteq {"stop", "replay"}
    /\ QueueCap \in Nat \ {0} /\ MaxOpens \in Nat
    /\ App \notin Tasks
    /\ None \notin Handles \cup Sessions \cup Tasks \cup {App}
    /\ None \notin {"open", "close", "speed", "replay"}

VARIABLES
    opens,      \* opens so far; numbers the sessions
    inited,     \* s_pvr_mod_inited
    queueOk,    \* event_callback_id is valid
    queue,      \* the event queue: [h, end]
    live,       \* event tasks that run
    table,      \* p_st_pvr_handle: [h, cb, ud]
    mode,       \* g_ply_param.start_mode: the last open's, successful or not
    mutex,      \* the holder of s_pvr_mutexID
    engine,     \* the library: the session each handle is open for
    lib,        \* the library's thread of each handle: the slot it is about to call
    call,       \* the call each actor is in: [pc, op, h, cb, ud, slot, new, ok]
    held,       \* the session the application has open on each handle
    hurt,       \* history: open sessions a close or a replay of which has failed
    overlap     \* history: a replay met a call of the application

vars == <<opens, inited, queueOk, queue, live, table, mode, mutex, engine, lib, call,
          held, hurt, overlap>>
module == <<opens, inited, queueOk, live>>

Actors == {App} \cup Tasks
NoSlot == [h |-> None, cb |-> None, ud |-> None]
NoCall == [pc |-> "idle", op |-> None, h |-> None, cb |-> None, ud |-> None,
           slot |-> 0, new |-> FALSE, ok |-> TRUE]
Quiet == [slot |-> 0, told |-> 0]

Init ==
    /\ opens = 0
    /\ inited = FALSE /\ queueOk = FALSE
    /\ queue = <<>> /\ live = {}
    /\ table = [i \in Slots |-> NoSlot]
    /\ mode = "replay"
    /\ mutex = None
    /\ engine = [h \in Handles |-> None]
    /\ lib = [h \in Handles |-> Quiet]
    /\ call = [a \in Actors |-> NoCall]
    /\ held = [h \in Handles |-> None]
    /\ hurt = {} /\ overlap = FALSE

At(a, pc) == call[a].pc = pc
Goto(a, pc) == call' = [call EXCEPT ![a].pc = pc]
Return(a) == call' = [call EXCEPT ![a] = NoCall]

SlotsOf(h) == {i \in Slots : table[i].h = h}
FreeSlots == {i \in Slots : table[i].h = None /\ table[i].cb = None}
FreeIn(kind) == {h \in kind : engine[h] = None}
Replaying == {t \in Tasks : call[t].op = "replay"}

-----------------------------------------------------------------------------
(***************************************************************************)
(* aui_pvr_init and aui_pvr_deinit, while nothing is open.  A deinit leaves *)
(* the table, the queue and the task; every init makes new ones.            *)
(***************************************************************************)
ModuleInit ==
    /\ ~inited /\ At(App, "idle")
    /\ table' = [i \in Slots |-> NoSlot]
    /\ \/ UNCHANGED <<inited, queueOk, queue, live>>        \* pvr_attach fails
       \/ /\ inited' = TRUE
          /\ queue' = <<>>
          /\ \/ queueOk' = FALSE /\ UNCHANGED live
             \/ queueOk' = TRUE /\ UNCHANGED live           \* no task
             \/ queueOk' = TRUE /\ live # Tasks
                /\ live' = live \cup {CHOOSE t \in Tasks : t \notin live}
    /\ UNCHANGED <<opens, mode, mutex, engine, lib, call, held, hurt, overlap>>

ModuleDeinit ==
    /\ inited /\ At(App, "idle")
    /\ \A h \in Handles : held[h] = None /\ lib[h] = Quiet
    /\ inited' = FALSE
    /\ engine' = [h \in Handles |-> None]                   \* pvr_mgr_detach
    /\ UNCHANGED <<opens, queueOk, queue, live, table, mode, mutex, lib, call, held,
                   hurt, overlap>>

-----------------------------------------------------------------------------
(***************************************************************************)
(* Opening, by the application or in a replay: aui_pvr_rec_open and         *)
(* aui_pvr_ply_open with aui_pvr_callback_register.                         *)
(***************************************************************************)
\* What an open writes before it looks for a free handle.
Keeps(kind, m) == mode' = IF kind = Players THEN m ELSE mode

OpenCall(kind, m) ==
    /\ inited /\ At(App, "idle") /\ opens < MaxOpens
    /\ opens' = opens + 1
    /\ Keeps(kind, m)
    /\ LET s == opens + 1 IN
       \/ \E h \in FreeIn(kind) :
            call' = [call EXCEPT ![App] = [NoCall EXCEPT !.pc = "find", !.op = "open",
                                             !.h = h, !.cb = s, !.ud = s]]
       \/ FreeIn(kind) = {} /\ UNCHANGED call
    /\ overlap' = (overlap \/ Replaying # {})
    /\ UNCHANGED <<inited, queueOk, live, queue, table, mutex, engine, lib, held, hurt>>

Find_NewSlot(a) ==      \* mutant: the slots are not searched for the handle
    /\ At(a, "find")
    /\ call' = [call EXCEPT ![a].slot = IF FreeSlots = {} THEN 0 ELSE Min(FreeSlots),
                            ![a].new = TRUE, ![a].pc = "write"]
    /\ UNCHANGED <<module, queue, table, mode, mutex, engine, lib, held, hurt, overlap>>
\* The slot of the handle, or else the first free one, or else none.
Find(a) ==
    /\ At(a, "find")
    /\ LET own == SlotsOf(call[a].h)
           slots == IF own # {} THEN own ELSE FreeSlots
       IN call' = [call EXCEPT ![a].slot = IF slots = {} THEN 0 ELSE Min(slots),
                               ![a].new = (own = {}), ![a].pc = "write"]
    /\ UNCHANGED <<module, queue, table, mode, mutex, engine, lib, held, hurt, overlap>>

Write(a) ==
    /\ At(a, "write")
    /\ LET c == call[a] IN
       table' = IF c.slot = 0 THEN table
                ELSE [table EXCEPT ![c.slot].cb = c.cb,
                                   ![c.slot].h = IF c.new THEN c.h ELSE @]
    /\ call' = [call EXCEPT ![a].slot = 0, ![a].new = FALSE, ![a].pc = "data"]
    /\ UNCHANGED <<module, queue, mode, mutex, engine, lib, held, hurt, overlap>>

SetUserData(a) ==
    /\ At(a, "data")
    /\ table' = [i \in Slots |-> IF table[i].h = call[a].h
                                 THEN [table[i] EXCEPT !.ud = call[a].ud] ELSE table[i]]
    /\ Goto(a, "engine")
    /\ UNCHANGED <<module, queue, mode, mutex, engine, lib, held, hurt, overlap>>

\* pvr_r_open or pvr_p_open_ext; the slot stays when it fails.
EngineOpen(a) ==
    LET c == call[a] IN
    /\ At(a, "engine")
    /\ \/ /\ engine[c.h] = None
          /\ engine' = [engine EXCEPT ![c.h] = c.cb]
          /\ held' = IF a = App THEN [held EXCEPT ![c.h] = c.cb] ELSE held
          /\ UNCHANGED hurt
       \/ /\ hurt' = IF a = App THEN hurt ELSE hurt \cup ({held[c.h]} \ {None})
          /\ UNCHANGED <<engine, held>>
    /\ IF a = App THEN Return(a)
       ELSE call' = [call EXCEPT ![a].cb = None, ![a].ud = None, ![a].pc = "play"]
    /\ UNCHANGED <<module, queue, table, mode, mutex, lib, overlap>>

-----------------------------------------------------------------------------
(***************************************************************************)
(* Closing: aui_pvr_rec_close and aui_pvr_ply_close with                    *)
(* aui_pvr_callback_unregister.  The library's synchronous close waits for  *)
(* its thread to leave the callbacks.                                       *)
(***************************************************************************)
CloseCall(h) ==
    /\ At(App, "idle") /\ held[h] # None
    /\ call' = [call EXCEPT ![App] = [NoCall EXCEPT !.pc = "shut", !.op = "close", !.h = h]]
    /\ overlap' = (overlap \/ Replaying # {})
    /\ UNCHANGED <<module, queue, table, mode, mutex, engine, lib, held, hurt>>

\* Closed, or busy, or no longer there.
EngineClose(a) ==
    LET h == call[a].h IN
    /\ At(a, "shut") /\ lib[h] = Quiet
    /\ \/ /\ engine[h] # None
          /\ engine' = [engine EXCEPT ![h] = None]
          /\ call' = [call EXCEPT ![a].ok = TRUE, ![a].pc = "unreg"]
          /\ UNCHANGED hurt
       \/ /\ call' = [call EXCEPT ![a].ok = FALSE, ![a].pc = "unreg"]
          /\ hurt' = hurt \cup ({held[h]} \ {None})
          /\ UNCHANGED engine
    /\ UNCHANGED <<module, queue, table, mode, mutex, lib, held, overlap>>

Unregister_FirstUsed(a) ==  \* mutant: the handle is not compared
    LET used == {i \in Slots : table[i].cb # None} IN
    /\ At(a, "unreg")
    /\ IF used # {}
       THEN /\ table' = [table EXCEPT ![Min(used)].h = None, ![Min(used)].ud = None]
            /\ call' = [call EXCEPT ![a].slot = Min(used), ![a].pc = "unregCb"]
       ELSE Goto(a, "closed") /\ UNCHANGED table
    /\ UNCHANGED <<module, queue, mode, mutex, engine, lib, held, hurt, overlap>>
\* Whatever the library answered: the handle and the user data first ...
Unregister(a) ==
    LET own == SlotsOf(call[a].h) IN
    /\ At(a, "unreg")
    /\ IF \E i \in own : table[i].cb # None
       THEN /\ table' = [table EXCEPT ![Min(own)].h = None, ![Min(own)].ud = None]
            /\ call' = [call EXCEPT ![a].slot = Min(own), ![a].pc = "unregCb"]
       ELSE Goto(a, "closed") /\ UNCHANGED table
    /\ UNCHANGED <<module, queue, mode, mutex, engine, lib, held, hurt, overlap>>

\* ... then the callback.
UnregisterCallback(a) ==
    /\ At(a, "unregCb")
    /\ table' = [table EXCEPT ![call[a].slot].cb = None]
    /\ call' = [call EXCEPT ![a].slot = 0, ![a].pc = "closed"]
    /\ UNCHANGED <<module, queue, mode, mutex, engine, lib, held, hurt, overlap>>

\* A busy library is asked once more.
CloseReturns(h) ==
    /\ At(App, "closed") /\ h = call[App].h
    /\ \/ call[App].ok /\ UNCHANGED engine
       \/ /\ ~call[App].ok /\ engine[h] # None /\ lib[h] = Quiet
          /\ engine' = [engine EXCEPT ![h] = None]
    /\ held' = [held EXCEPT ![h] = None]
    /\ hurt' = hurt \ {held[h]}
    /\ Return(App)
    /\ UNCHANGED <<module, queue, table, mode, mutex, lib, overlap>>
CloseFails(h) ==
    /\ At(App, "closed") /\ h = call[App].h /\ ~call[App].ok
    /\ Return(App)
    /\ UNCHANGED <<module, queue, table, mode, mutex, engine, lib, held, hurt, overlap>>

-----------------------------------------------------------------------------
(***************************************************************************)
(* aui_pvr_ply_state_change to AUI_PLAYER_SPEED_NORMAL; every other state   *)
(* and aui_pvr_ply_seek only call the library.                              *)
(***************************************************************************)
SpeedCall(h) ==
    /\ h \in Players /\ At(App, "idle") /\ held[h] # None
    /\ call' = [call EXCEPT ![App] = [NoCall EXCEPT !.pc = "lock", !.op = "speed", !.h = h]]
    /\ UNCHANGED <<module, queue, table, mode, mutex, engine, lib, held, hurt, overlap>>
SpeedLock_NotWaited ==  \* mutant: the change of speed does not lock
    /\ At(App, "lock")
    /\ Goto(App, "speed")
    /\ UNCHANGED <<module, queue, table, mode, mutex, engine, lib, held, hurt, overlap>>
SpeedLock ==
    /\ At(App, "lock") /\ mutex = None
    /\ mutex' = App
    /\ Goto(App, "speed")
    /\ UNCHANGED <<module, queue, table, mode, engine, lib, held, hurt, overlap>>
SpeedUnlock ==
    /\ At(App, "speed")
    /\ mutex' = None
    /\ Return(App)
    /\ UNCHANGED <<module, queue, table, mode, engine, lib, held, hurt, overlap>>

-----------------------------------------------------------------------------
(***************************************************************************)
(* The library's threads: aui_pvr_evnt_callback.  The end of a recording is *)
(* pushed, the start of a session is pushed and announced, everything else  *)
(* is announced.  A full queue drops the message after 10 ms.               *)
(***************************************************************************)
Push_Unbounded(h, end) ==   \* mutant
    queue' = IF queueOk THEN Append(queue, [h |-> h, end |-> end]) ELSE queue
Push(h, end) ==
    queue' = IF queueOk /\ Len(queue) < QueueCap
             THEN Append(queue, [h |-> h, end |-> end]) ELSE queue

EndOfRecording(h) ==
    /\ h \in Players /\ engine[h] # None /\ lib[h] = Quiet
    /\ Push(h, TRUE)
    /\ UNCHANGED <<module, table, mode, mutex, engine, lib, call, held, hurt, overlap>>

\* The slots whose handle and callback the loop over the table finds good.
Good(h, i) == {j \in SlotsOf(h) : j > i /\ table[j].cb # None}
Finds(h, i, n) == lib' = [lib EXCEPT ![h] = IF Good(h, i) = {} THEN Quiet
                                   ELSE [slot |-> Min(Good(h, i)), told |-> n]]

Announce(h, start) ==
    /\ engine[h] # None /\ lib[h] = Quiet
    /\ IF start THEN Push(h, FALSE) ELSE UNCHANGED queue
    /\ Finds(h, 0, 0)
    /\ UNCHANGED <<module, table, mode, mutex, engine, call, held, hurt, overlap>>

\* The callback and its user data are read again for the call.
CallBack(h) ==
    /\ lib[h] # Quiet
    /\ Finds(h, lib[h].slot, lib[h].told + 1)
    /\ UNCHANGED <<module, queue, table, mode, mutex, engine, call, held, hurt, overlap>>

-----------------------------------------------------------------------------
(***************************************************************************)
(* aui_pvr_event_task and aui_pvr_msg_callback.                             *)
(***************************************************************************)
\* Whether the end of a recording is replayed depends on the last open.
Receive(t) ==
    /\ t \in live /\ At(t, "idle") /\ queueOk /\ queue # <<>>
    /\ LET m == Head(queue)
           replay == m.end /\ mode = "replay"
       IN call' = [call EXCEPT ![t] = [NoCall EXCEPT !.h = m.h,
                                         !.pc = IF replay THEN "lock" ELSE "notify"]]
    /\ queue' = Tail(queue)
    /\ UNCHANGED <<module, table, mode, mutex, engine, lib, held, hurt, overlap>>

TaskEnds(t) ==
    /\ t \in live /\ At(t, "idle") /\ ~queueOk
    /\ live' = live \ {t}
    /\ UNCHANGED <<opens, inited, queueOk, queue, table, mode, mutex, engine, lib, call, held,
                   hurt, overlap>>

\* Under the mutex: the callback of the player is kept, the player closed ...
ReplayLock(t) ==
    LET h == call[t].h
        own == SlotsOf(h)
    IN
    /\ At(t, "lock") /\ mutex = None
    /\ mutex' = t
    /\ call' = [call EXCEPT ![t].op = "replay", ![t].pc = "shut",
                            ![t].cb = IF own = {} THEN None ELSE table[Max(own)].cb,
                            ![t].ud = IF own = {} THEN None ELSE table[Max(own)].ud]
    /\ overlap' = (overlap \/ held[h] = None \/ call[App].op \in {"open", "close"})
    /\ UNCHANGED <<module, queue, table, mode, engine, lib, held, hurt>>

\* ... opened again with start mode 0 ...
ReplayOpen(t) ==
    /\ At(t, "closed")
    /\ mode' = "replay"
    /\ \/ \E h \in FreeIn(Players) :
            call' = [call EXCEPT ![t].h = h, ![t].ok = TRUE, ![t].pc = "find"]
       \/ /\ FreeIn(Players) = {}
          /\ call' = [call EXCEPT ![t] = [NoCall EXCEPT !.h = call[t].h, !.op = "replay",
                                                        !.pc = "play"]]
    /\ UNCHANGED <<module, queue, table, mutex, engine, lib, held, hurt, overlap>>

\* ... and played.  A player that does not play is left, and nobody told.
ReplayPlay(t) ==
    /\ At(t, "play")
    /\ \/ engine[call[t].h] # None
          /\ call' = [call EXCEPT ![t].pc = "notify", ![t].op = None]
       \/ Return(t)
    /\ mutex' = None
    /\ UNCHANGED <<module, queue, table, mode, engine, lib, held, hurt, overlap>>

\* The first slot of the handle that has a callback is called.
Notify(t) ==
    /\ At(t, "notify")
    /\ Return(t)
    /\ UNCHANGED <<module, queue, table, mode, mutex, engine, lib, held, hurt, overlap>>

-----------------------------------------------------------------------------
Calls(a) == Find(a) \/ Write(a) \/ SetUserData(a) \/ EngineOpen(a)
            \/ EngineClose(a) \/ Unregister(a) \/ UnregisterCallback(a)
AppSteps == \/ Calls(App) \/ SpeedLock \/ SpeedUnlock
            \/ \E h \in Handles : CloseReturns(h) \/ CloseFails(h)
TaskSteps(t) == Calls(t) \/ Receive(t) \/ ReplayLock(t) \/ ReplayOpen(t)
                \/ ReplayPlay(t) \/ Notify(t)

Next ==
    \/ ModuleInit \/ ModuleDeinit
    \/ \E kind \in {Recorders, Players}, m \in Modes : OpenCall(kind, m)
    \/ \E h \in Handles : CloseCall(h) \/ SpeedCall(h) \/ EndOfRecording(h) \/ CallBack(h)
    \/ \E h \in Handles, start \in BOOLEAN : Announce(h, start)
    \/ AppSteps
    \/ \E t \in Tasks : TaskSteps(t) \/ TaskEnds(t)

Spec == Init /\ [][Next]_vars

-----------------------------------------------------------------------------
\* The table, the queue and the calls stay in their ranges.
TypeOK ==
    /\ opens \in 0..MaxOpens
    /\ inited \in BOOLEAN /\ queueOk \in BOOLEAN /\ overlap \in BOOLEAN
    /\ queue \in Seq([h : Handles, end : BOOLEAN]) /\ Len(queue) <= QueueCap
    /\ live \subseteq Tasks
    /\ table \in [Slots -> [h : Handles \cup {None}, cb : Sessions \cup {None},
                            ud : Sessions \cup {None}]]
    /\ mode \in {"stop", "replay"}
    /\ mutex \in Actors \cup {None}
    /\ engine \in [Handles -> Sessions \cup {None}]
    /\ held \in [Handles -> Sessions \cup {None}]
    /\ hurt \subseteq Sessions
    /\ \A a \in Actors : call[a].slot \in 0..Cardinality(Handles)

\* A session the application holds has one slot of the table, with its own
\* callback and its own user data: through failed opens that leave their slot
\* behind, closes, re-initialisation, and replays that close the player and
\* open it again, as long as no call has failed on the session and no replay
\* has met a call of the application.
Registered ==
    \A h \in Handles :
        held[h] \notin hurt \cup {None} /\ ~overlap /\ Replaying = {}
            /\ ~(call[App].op = "close" /\ call[App].h = h)
        => \E i \in Slots : /\ SlotsOf(h) = {i}
                            /\ table[i].cb = held[h] /\ table[i].ud = held[h]

\* An event of a session is called into its callback, with its user data, once
\* and nowhere else: what the library's thread has checked cannot be taken or
\* changed under it by what is opened, closed and replayed meanwhile.
EventReachesOwner ==
    \A h \in Handles :
        lib[h] # Quiet /\ held[h] \notin hurt \cup {None} /\ ~overlap
        => /\ table[lib[h].slot] = [h |-> h, cb |-> held[h], ud |-> held[h]]
           /\ lib[h].told = 0

\* No event task, and no change to normal speed, comes between the close and
\* the open of a replay: pvr_p_play would be called on a closed player.  And
\* every way out of a replay, also the one that finds no player to play, gives
\* the mutex back before the next message.
Gap == {"unreg", "unregCb", "closed", "find", "write", "data", "engine"}
ReplayIsAlone ==
    /\ \A t \in Tasks : At(t, "shut") \/ call[t].pc \in Gap =>
        /\ ~At(App, "speed")
        /\ \A u \in Tasks \ {t} : call[u].pc \notin Gap \cup {"shut", "play"}
    /\ mutex # None => call[mutex].op \in {"replay", "speed"} /\ ~At(mutex, "idle")
=============================================================================
