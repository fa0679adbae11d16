-------------------------------- MODULE Pvr_proofs --------------------------------
(***************************************************************************)
(* The sessions of the recorders and the player, for any number of          *)
(* recorders, opens, event tasks and messages.  The first half follows the  *)
(* calls: which step an actor is at, what it carries, and that the holder   *)
(* of the mutex is the one task in a replay or the change of speed.         *)
(*                                                                          *)
(* The second half is about the table, which nothing locks.  While no       *)
(* replay has met a call of the application, one actor at a time works on   *)
(* the table; it owns the handle it works on, so a session that nobody      *)
(* closes or replays has a slot that nobody writes.  What a replay takes    *)
(* out of the slot it carries with it until it has put it back.             *)
(***************************************************************************)
EXTENDS Pvr, FiniteSetTheorems, WellFoundedInduction, TLAPS

Opening == {"find", "write", "data", "engine"}
Closing == {"shut", "unreg", "unregCb", "closed"}
InReplay == Opening \cup Closing \cup {"play"}
Phases == InReplay \cup {"idle", "lock", "speed", "notify"}
Ops == {None, "open", "close", "speed", "replay"}
Numbers == 0..Cardinality(Handles)

CallType == [pc : Phases, op : Ops, h : Handles \cup {None}, cb : Sessions \cup {None},
             ud : Sessions \cup {None}, slot : Numbers, new : BOOLEAN, ok : BOOLEAN]

EndsArePlayers == \A i \in 1..Len(queue) : queue[i].end => queue[i].h \in Players

Typed ==
    /\ TypeOK
    /\ EndsArePlayers
    /\ lib \in [Handles -> [slot : Numbers, told : Nat]]
    /\ call \in [Actors -> CallType]

AppCall ==
    LET c == call[App] IN
    /\ c.pc \in {"idle", "lock", "speed"} \cup Opening \cup Closing
    /\ c.op = IF c.pc \in Opening THEN "open"
              ELSE IF c.pc \in Closing THEN "close"
              ELSE IF c.pc \in {"lock", "speed"} THEN "speed" ELSE None
    /\ c.pc # "idle" => c.h \in Handles

TaskCall(t) ==
    LET c == call[t] IN
    /\ c.pc \in {"idle", "lock", "notify"} \cup InReplay
    /\ c.op = IF c.pc \in InReplay THEN "replay" ELSE None
    /\ c.pc \in InReplay \cup {"lock"} => c.h \in Players
TaskCalls == \A t \in Tasks : TaskCall(t)

Holding(a) == call[a].pc \in IF a = App THEN {"speed"} ELSE InReplay
MutexHeld == \A a \in Actors : mutex = a <=> Holding(a)

RInv == Typed /\ AppCall /\ TaskCalls /\ MutexHeld

-----------------------------------------------------------------------------
(***************************************************************************)
(* The numbers of slots: Min and Max choose from the set they are given.    *)
(***************************************************************************)
LEMMA SlotsCounted ==
    /\ Cardinality(Handles) \in Nat
    /\ Slots \subseteq Numbers /\ Numbers \subseteq Nat
    /\ 0 \in Numbers /\ 0 \notin Slots
    /\ IsFiniteSet(Slots) /\ Cardinality(Slots) = Cardinality(Handles)
<1>1. Cardinality(Handles) \in Nat
  BY ConstantsAssumption, FS_CardinalityType
<1>2. /\ IsFiniteSet(Slots)
      /\ Cardinality(Slots) = IF 1 > Cardinality(Handles) THEN 0 ELSE Cardinality(Handles) - 1 + 1
  BY <1>1, FS_Interval DEF Slots
<1> QED
  BY <1>1, <1>2 DEF Slots, Numbers

LEMMA LeastNumber ==
    ASSUME NEW S, S \subseteq Nat, S # {}
    PROVE  \E x \in S : \A y \in S : x <= y
<1>1. PICK x \in S : \A y \in S : ~(<<y, x>> \in OpToRel(<, Nat))
  BY WFMin, NatLessThanWellFounded, Zenon
<1>2. ASSUME NEW y \in S PROVE x <= y
  <2>1. ~(y < x)
    BY <1>1, Zenon DEF OpToRel
  <2>2. x \in Nat /\ y \in Nat
    OBVIOUS
  <2> QED
    BY <2>1, <2>2
<1> QED
  BY <1>2

LEMMA MinIsMember ==
    ASSUME NEW S, S \subseteq Slots, S # {}
    PROVE  Min(S) \in S
BY LeastNumber, SlotsCounted DEF Min

LEMMA MaxIsMember ==
    ASSUME NEW S, S \subseteq Slots, S # {}
    PROVE  Max(S) \in S
<1> DEFINE N == Cardinality(Handles)
           T == {N - x : x \in S}
<1>1. T \subseteq Nat /\ T # {}
  <2>1. N \in Nat /\ \A x \in S : x \in 1..N
    BY SlotsCounted DEF Slots
  <2>2. \A x \in S : N - x \in Nat
    BY <2>1
  <2> HIDE DEF N
  <2> QED
    BY <2>2
<1>2. PICK m \in T : \A y \in T : m <= y
  BY <1>1, LeastNumber
<1>3. PICK x \in S : m = N - x
  OBVIOUS
<1>4. \A y \in S : N - x <= N - y
  BY <1>2, <1>3
<1>5. \A y \in S : x >= y
  BY <1>4, SlotsCounted DEF Slots
<1> QED
  BY <1>5 DEF Max

LEMMA SlotsOfAreSlots ==
    ASSUME NEW h
    PROVE  SlotsOf(h) \subseteq Slots /\ FreeSlots \subseteq Slots
BY DEF SlotsOf, FreeSlots

-----------------------------------------------------------------------------
(***************************************************************************)
(* Types, and which call each actor can be in                               *)
(***************************************************************************)
LEMMA Kinds ==
    /\ App \in Actors /\ Tasks \subseteq Actors /\ Actors = Tasks \cup {App}
    /\ None \notin Actors /\ None \notin Sessions
    /\ None \notin {"open", "close", "speed", "replay"}
    /\ None \notin Handles /\ Players \subseteq Handles
    /\ NoCall \in CallType /\ NoSlot \in [h : Handles \cup {None}, cb : Sessions \cup {None},
                                          ud : Sessions \cup {None}]
BY ConstantsAssumption, SlotsCounted
   DEF Actors, CallType, NoCall, NoSlot, Phases, InReplay, Opening, Closing, Ops, Handles

LEMMA CallerHasHandle ==
    ASSUME AppCall, TaskCalls, NEW a \in Actors, call[a].pc \in InReplay
    PROVE  call[a].h \in Handles
BY Kinds, ConstantsAssumption DEF AppCall, TaskCalls, TaskCall, InReplay, Opening, Closing, Actors

\* The parts of Typed that different actions disturb.
TypedQueue == /\ queue \in Seq([h : Handles, end : BOOLEAN]) /\ Len(queue) <= QueueCap
              /\ EndsArePlayers
TypedTable == table \in [Slots -> [h : Handles \cup {None}, cb : Sessions \cup {None},
                                   ud : Sessions \cup {None}]]
TypedLib == lib \in [Handles -> [slot : Numbers, told : Nat]]
TypedCalls == call \in [Actors -> CallType]
TypedRest ==
    /\ opens \in 0..MaxOpens
    /\ inited \in BOOLEAN /\ queueOk \in BOOLEAN /\ overlap \in BOOLEAN
    /\ live \subseteq Tasks
    /\ mode \in {"stop", "replay"}
    /\ mutex \in Actors \cup {None}
    /\ engine \in [Handles -> Sessions \cup {None}]
    /\ held \in [Handles -> Sessions \cup {None}]
    /\ hurt \subseteq Sessions

LEMMA TypedParts ==
    Typed <=> TypedQueue /\ TypedTable /\ TypedLib /\ TypedCalls /\ TypedRest
<1>1. TypedCalls => \A a \in Actors : call[a].slot \in 0..Cardinality(Handles)
  BY DEF TypedCalls, CallType, Numbers
<1> QED
  BY <1>1 DEF Typed, TypeOK, TypedQueue, TypedTable, TypedLib, TypedCalls, TypedRest

LEMMA RInvInit == Init => RInv
<1> SUFFICES ASSUME Init PROVE RInv
  OBVIOUS
<1>1. Typed
  <2>1. EndsArePlayers /\ queue \in Seq([h : Handles, end : BOOLEAN]) /\ Len(queue) <= QueueCap
    BY ConstantsAssumption DEF Init, EndsArePlayers
  <2>2. call \in [Actors -> CallType]
    BY Kinds DEF Init
  <2>4. table \in [Slots -> [h : Handles \cup {None}, cb : Sessions \cup {None},
                             ud : Sessions \cup {None}]]
    BY Kinds DEF Init
  <2>5. lib \in [Handles -> [slot : Numbers, told : Nat]]
    BY SlotsCounted DEF Init, Quiet
  <2>6. TypedRest
    <3>1. opens \in 0..MaxOpens
      BY ConstantsAssumption DEF Init
    <3>2. engine \in [Handles -> Sessions \cup {None}] /\ held \in [Handles -> Sessions \cup {None}]
      BY DEF Init
    <3> QED
      BY <3>1, <3>2 DEF Init, TypedRest
  <2> QED
    BY <2>1, <2>2, <2>4, <2>5, <2>6, TypedParts
       DEF TypedQueue, TypedTable, TypedLib, TypedCalls
<1>2. AppCall /\ TaskCalls /\ MutexHeld
  BY Kinds, ConstantsAssumption
     DEF Init, AppCall, TaskCalls, TaskCall, MutexHeld, Holding, NoCall, InReplay, Opening, Closing, Actors
<1> QED
  BY <1>1, <1>2 DEF RInv

LEMMA QueueStep ==
    ASSUME Typed, [Next]_vars
    PROVE  TypedQueue'
<1> USE TypedParts
<1>1. ASSUME NEW h \in Handles, NEW end \in BOOLEAN, end => h \in Players, Push(h, end)
      PROVE  TypedQueue'
  <2>1. CASE queue' = queue
    BY <2>1 DEF TypedQueue, EndsArePlayers
  <2>2. CASE Len(queue) < QueueCap /\ queue' = Append(queue, [h |-> h, end |-> end])
    <3> DEFINE m == [h |-> h, end |-> end]
    <3>1. m \in [h : Handles, end : BOOLEAN] /\ (m.end => m.h \in Players)
      BY <1>1
    <3> HIDE DEF m
    <3>2. queue' = Append(queue, m) /\ Len(queue) < QueueCap
      BY <2>2 DEF m
    <3> QED
      BY <3>1, <3>2, ConstantsAssumption DEF TypedQueue, EndsArePlayers
  <2> QED
    BY <1>1, <2>1, <2>2 DEF Push
<1>2. ASSUME NEW t \in Tasks, Receive(t)
      PROVE  TypedQueue'
  <2>1. queue # <<>> /\ queue' = Tail(queue)
    BY <1>2 DEF Receive
  <2>2. /\ queue' \in Seq([h : Handles, end : BOOLEAN]) /\ Len(queue') = Len(queue) - 1
        /\ \A i \in 1..Len(queue') : queue'[i] = queue[i + 1] /\ i + 1 \in 1..Len(queue)
    BY <2>1 DEF TypedQueue
  <2> QED
    BY <2>2, ConstantsAssumption DEF TypedQueue, EndsArePlayers
<1>3. CASE ModuleInit
  <2>1. CASE queue' = <<>>
    BY <2>1, ConstantsAssumption DEF TypedQueue, EndsArePlayers
  <2>2. CASE queue' = queue
    BY <2>2 DEF TypedQueue, EndsArePlayers
  <2> QED
    BY <1>3, <2>1, <2>2 DEF ModuleInit
<1>4. ASSUME NEW h \in Handles, EndOfRecording(h)
      PROVE  TypedQueue'
  BY <1>1, <1>4 DEF EndOfRecording
<1>5. ASSUME NEW h \in Handles, NEW start \in BOOLEAN, Announce(h, start)
      PROVE  TypedQueue'
  BY <1>1, <1>5 DEF Announce, TypedQueue, EndsArePlayers
<1>6. CASE queue' = queue
  BY <1>6 DEF TypedQueue, EndsArePlayers
<1> QED
  BY <1>2, <1>3, <1>4, <1>5, <1>6
     DEF Next, vars, ModuleDeinit, OpenCall, CloseCall, SpeedCall, CallBack, AppSteps, Calls,
         TaskSteps, TaskEnds, Find, Write, SetUserData, EngineOpen, EngineClose, Unregister,
         UnregisterCallback, SpeedLock, SpeedUnlock, CloseReturns, CloseFails, ReplayLock,
         ReplayOpen, ReplayPlay, Notify

LEMMA TableStep ==
    ASSUME Typed, AppCall, TaskCalls, [Next]_vars
    PROVE  TypedTable'
<1> USE TypedParts, Kinds
<1>1. CASE ModuleInit
  BY <1>1 DEF ModuleInit, TypedTable
<1>2. ASSUME NEW a \in Actors, Write(a)
      PROVE  TypedTable'
  <2>1. call[a].h \in Handles /\ call[a].cb \in Sessions \cup {None}
    BY <1>2, CallerHasHandle DEF Write, At, TypedCalls, CallType, InReplay, Opening
  <2> QED
    BY <1>2, <2>1 DEF Write, TypedTable
<1>3. ASSUME NEW a \in Actors, SetUserData(a)
      PROVE  TypedTable'
  <2>1. call[a].ud \in Sessions \cup {None}
    BY DEF TypedCalls, CallType
  <2> QED
    BY <1>3, <2>1 DEF SetUserData, TypedTable
<1>4. ASSUME NEW a \in Actors, Unregister(a)
      PROVE  TypedTable'
  BY <1>4 DEF Unregister, TypedTable
<1>5. ASSUME NEW a \in Actors, UnregisterCallback(a)
      PROVE  TypedTable'
  BY <1>5 DEF UnregisterCallback, TypedTable
<1>6. CASE table' = table
  BY <1>6 DEF TypedTable
<1> QED
  BY <1>1, <1>2, <1>3, <1>4, <1>5, <1>6
     DEF Next, vars, ModuleDeinit, OpenCall, CloseCall, SpeedCall, CallBack, EndOfRecording,
         Announce, AppSteps, Calls, TaskSteps, TaskEnds, Find, EngineOpen, EngineClose,
         SpeedLock, SpeedUnlock, CloseReturns, CloseFails, Receive, ReplayLock, ReplayOpen,
         ReplayPlay, Notify

LEMMA LibStep ==
    ASSUME Typed, [Next]_vars
    PROVE  TypedLib'
<1> USE TypedParts
<1>1. ASSUME NEW h \in Handles, NEW i, NEW n \in Nat, Finds(h, i, n)
      PROVE  TypedLib'
  <2>1. Good(h, i) # {} => Min(Good(h, i)) \in Numbers
    <3>1. Good(h, i) \subseteq Slots
      BY DEF Good, SlotsOf
    <3> QED
      BY <3>1, MinIsMember, SlotsCounted
  <2> QED
    BY <1>1, <2>1, SlotsCounted DEF Finds, TypedLib, Quiet
<1>2. ASSUME NEW h \in Handles, CallBack(h)
      PROVE  TypedLib'
  <2>1. lib[h].told + 1 \in Nat
    BY DEF TypedLib
  <2> QED
    BY <1>1, <1>2, <2>1 DEF CallBack
<1>3. ASSUME NEW h \in Handles, NEW start \in BOOLEAN, Announce(h, start)
      PROVE  TypedLib'
  BY <1>1, <1>3 DEF Announce
<1>4. CASE lib' = lib
  BY <1>4 DEF TypedLib
<1> QED
  BY <1>2, <1>3, <1>4
     DEF Next, vars, ModuleInit, ModuleDeinit, OpenCall, CloseCall, SpeedCall, EndOfRecording,
         AppSteps, Calls, TaskSteps, TaskEnds, Find, Write, SetUserData, EngineOpen,
         EngineClose, Unregister, UnregisterCallback, SpeedLock, SpeedUnlock, CloseReturns,
         CloseFails, Receive, ReplayLock, ReplayOpen, ReplayPlay, Notify

LEMMA HeadIsMember ==
    ASSUME NEW S, NEW q \in Seq(S), q # <<>>
    PROVE  Head(q) \in S
OBVIOUS

LEMMA CallsStep ==
    ASSUME Typed, AppCall, TaskCalls, [Next]_vars
    PROVE  TypedCalls'
<1> USE TypedParts, Kinds
<1>1. ASSUME NEW a \in Actors, NEW c \in CallType, call' = [call EXCEPT ![a] = c]
      PROVE  TypedCalls'
  BY <1>1 DEF TypedCalls
<1>2. ASSUME NEW a \in Actors
      PROVE  call[a] \in CallType
  BY DEF TypedCalls
<1>3. ASSUME NEW a \in Actors, NEW pc \in Phases, Goto(a, pc)
      PROVE  TypedCalls'
  <2>1. [call[a] EXCEPT !.pc = pc] \in CallType
    BY <1>2 DEF CallType
  <2> QED
    BY <1>1, <1>3, <2>1 DEF Goto
<1>4. ASSUME NEW a \in Actors, Return(a)
      PROVE  TypedCalls'
  BY <1>1, <1>4 DEF Return
<1>5. CASE call' = call
  BY <1>5 DEF TypedCalls
<1>6. ASSUME NEW a \in Actors, Find(a)
      PROVE  TypedCalls'
  <2>1. PICK n \in Numbers, b \in BOOLEAN :
            call' = [call EXCEPT ![a].slot = n, ![a].new = b, ![a].pc = "write"]
    <3> DEFINE own == SlotsOf(call[a].h)
               slots == IF own # {} THEN own ELSE FreeSlots
               n == IF slots = {} THEN 0 ELSE Min(slots)
    <3>1. n \in Numbers
      BY MinIsMember, SlotsOfAreSlots, SlotsCounted
    <3>2. call' = [call EXCEPT ![a].slot = n, ![a].new = (own = {}), ![a].pc = "write"]
      BY <1>6 DEF Find
    <3> HIDE DEF n
    <3> QED
      BY <3>1, <3>2
  <2>2. [call[a] EXCEPT !.slot = n, !.new = b, !.pc = "write"] \in CallType
    BY <1>2 DEF CallType, Phases, InReplay, Opening
  <2>3. call' = [call EXCEPT ![a] = [call[a] EXCEPT !.slot = n, !.new = b, !.pc = "write"]]
    BY <2>1 DEF TypedCalls
  <2> QED
    BY <1>1, <2>2, <2>3
<1>7. ASSUME NEW a \in Actors, Write(a)
      PROVE  TypedCalls'
  <2> DEFINE c == [call[a] EXCEPT !.slot = 0, !.new = FALSE, !.pc = "data"]
  <2>1. c \in CallType
    BY <1>2, SlotsCounted DEF CallType, Phases, InReplay, Opening
  <2>2. call' = [call EXCEPT ![a] = c]
    BY <1>7 DEF Write, TypedCalls
  <2> QED
    BY <1>1, <2>1, <2>2
<1>8. ASSUME NEW a \in Actors, SetUserData(a)
      PROVE  TypedCalls'
  BY <1>3, <1>8 DEF SetUserData, Phases, InReplay, Opening
<1>9. ASSUME NEW a \in Actors, EngineOpen(a)
      PROVE  TypedCalls'
  <2> DEFINE c == [call[a] EXCEPT !.cb = None, !.ud = None, !.pc = "play"]
  <2>1. c \in CallType
    BY <1>2 DEF CallType, Phases, InReplay
  <2>2. Return(a) \/ call' = [call EXCEPT ![a] = c]
    BY <1>9 DEF EngineOpen, TypedCalls
  <2> QED
    BY <1>1, <1>4, <2>1, <2>2
<1>10. ASSUME NEW a \in Actors, EngineClose(a)
       PROVE  TypedCalls'
  <2>1. PICK b \in BOOLEAN : call' = [call EXCEPT ![a].ok = b, ![a].pc = "unreg"]
    BY <1>10 DEF EngineClose
  <2> DEFINE c == [call[a] EXCEPT !.ok = b, !.pc = "unreg"]
  <2>2. c \in CallType
    BY <1>2 DEF CallType, Phases, InReplay, Closing
  <2>3. call' = [call EXCEPT ![a] = c]
    BY <2>1 DEF TypedCalls
  <2> QED
    BY <1>1, <2>2, <2>3
<1>11. ASSUME NEW a \in Actors, Unregister(a)
       PROVE  TypedCalls'
  <2> DEFINE own == SlotsOf(call[a].h)
             c == [call[a] EXCEPT !.slot = Min(own), !.pc = "unregCb"]
  <2>1. CASE own # {} /\ call' = [call EXCEPT ![a].slot = Min(own), ![a].pc = "unregCb"]
    <3>1. Min(own) \in Numbers
      BY <2>1, MinIsMember, SlotsOfAreSlots, SlotsCounted
    <3>2. c \in CallType
      BY <1>2, <3>1 DEF CallType, Phases, InReplay, Closing
    <3>3. call' = [call EXCEPT ![a] = c]
      BY <2>1 DEF TypedCalls
    <3> QED
      BY <1>1, <3>2, <3>3
  <2>2. CASE Goto(a, "closed")
    BY <1>3, <2>2 DEF Phases, InReplay, Closing
  <2> QED
    BY <1>11, <2>1, <2>2 DEF Unregister
<1>12. ASSUME NEW a \in Actors, UnregisterCallback(a)
       PROVE  TypedCalls'
  <2> DEFINE c == [call[a] EXCEPT !.slot = 0, !.pc = "closed"]
  <2>1. c \in CallType
    BY <1>2, SlotsCounted DEF CallType, Phases, InReplay, Closing
  <2>2. call' = [call EXCEPT ![a] = c]
    BY <1>12 DEF UnregisterCallback, TypedCalls
  <2> QED
    BY <1>1, <2>1, <2>2
<1>13. ASSUME NEW kind \in {Recorders, Players}, NEW m \in Modes, OpenCall(kind, m)
       PROVE  TypedCalls'
  <2>1. CASE UNCHANGED call
    BY <1>5, <2>1
  <2>2. ASSUME NEW h \in FreeIn(kind),
               call' = [call EXCEPT ![App] = [NoCall EXCEPT !.pc = "find", !.op = "open",
                                              !.h = h, !.cb = opens + 1, !.ud = opens + 1]]
        PROVE  TypedCalls'
    <3>1. h \in Handles /\ opens + 1 \in Sessions
      <4>1. h \in kind
        BY DEF FreeIn
      <4>2. opens < MaxOpens /\ opens \in 0..MaxOpens
        BY <1>13 DEF OpenCall, TypedRest
      <4> QED
        BY <4>1, <4>2, ConstantsAssumption DEF Handles, Sessions
    <3>2. [NoCall EXCEPT !.pc = "find", !.op = "open", !.h = h, !.cb = opens + 1,
                         !.ud = opens + 1] \in CallType
      BY <3>1 DEF CallType, Phases, InReplay, Opening, Ops
    <3> QED
      BY <1>1, <2>2, <3>2
  <2> QED
    BY <1>13, <2>1, <2>2 DEF OpenCall
<1>14. ASSUME NEW h \in Handles, CloseCall(h)
       PROVE  TypedCalls'
  <2>1. [NoCall EXCEPT !.pc = "shut", !.op = "close", !.h = h] \in CallType
    BY DEF CallType, Phases, InReplay, Closing, Ops
  <2> QED
    BY <1>1, <1>14, <2>1 DEF CloseCall
<1>15. ASSUME NEW h \in Handles, SpeedCall(h)
       PROVE  TypedCalls'
  <2>1. [NoCall EXCEPT !.pc = "lock", !.op = "speed", !.h = h] \in CallType
    BY DEF CallType, Phases, Ops
  <2> QED
    BY <1>1, <1>15, <2>1 DEF SpeedCall
<1>16. ASSUME NEW h \in Handles, CloseReturns(h) \/ CloseFails(h)
       PROVE  TypedCalls'
  BY <1>4, <1>16 DEF CloseReturns, CloseFails
<1>17. CASE SpeedLock \/ SpeedUnlock
  BY <1>3, <1>4, <1>17 DEF SpeedLock, SpeedUnlock, Phases
<1>18. ASSUME NEW t \in Tasks, Receive(t)
       PROVE  TypedCalls'
  <2>1. PICK pc \in {"lock", "notify"} :
          call' = [call EXCEPT ![t] = [NoCall EXCEPT !.h = Head(queue).h, !.pc = pc]]
    BY <1>18 DEF Receive
  <2>2. Head(queue).h \in Handles
    <3>1. queue # <<>> /\ queue \in Seq([h : Handles, end : BOOLEAN])
      BY <1>18 DEF Receive, TypedQueue
    <3>2. Head(queue) \in [h : Handles, end : BOOLEAN]
      BY <3>1, HeadIsMember
    <3> QED
      BY <3>2
  <2>3. [NoCall EXCEPT !.h = Head(queue).h, !.pc = pc] \in CallType
    BY <2>2 DEF CallType, Phases
  <2> QED
    BY <1>1, <2>1, <2>3
<1>19. ASSUME NEW t \in Tasks, ReplayLock(t)
       PROVE  TypedCalls'
  <2> DEFINE own == SlotsOf(call[t].h)
             cb == IF own = {} THEN None ELSE table[Max(own)].cb
             ud == IF own = {} THEN None ELSE table[Max(own)].ud
             c == [call[t] EXCEPT !.op = "replay", !.pc = "shut", !.cb = cb, !.ud = ud]
  <2>1. cb \in Sessions \cup {None} /\ ud \in Sessions \cup {None}
    <3>1. own # {} => Max(own) \in Slots
      BY MaxIsMember, SlotsOfAreSlots
    <3> QED
      BY <3>1 DEF TypedTable
  <2>2. call' = [call EXCEPT ![t].op = "replay", ![t].pc = "shut", ![t].cb = cb, ![t].ud = ud]
    BY <1>19 DEF ReplayLock
  <2> HIDE DEF cb, ud
  <2>3. c \in CallType
    BY <1>2, <2>1 DEF CallType, Phases, InReplay, Closing, Ops
  <2>4. call' = [call EXCEPT ![t] = c]
    BY <2>2 DEF TypedCalls
  <2> QED
    BY <1>1, <2>3, <2>4
<1>20. ASSUME NEW t \in Tasks, ReplayOpen(t)
       PROVE  TypedCalls'
  <2>1. ASSUME NEW h \in FreeIn(Players),
               call' = [call EXCEPT ![t].h = h, ![t].ok = TRUE, ![t].pc = "find"]
        PROVE  TypedCalls'
    <3> DEFINE c == [call[t] EXCEPT !.h = h, !.ok = TRUE, !.pc = "find"]
    <3>1. c \in CallType
      BY <1>2 DEF CallType, Phases, InReplay, Opening, FreeIn
    <3>2. call' = [call EXCEPT ![t] = c]
      BY <2>1 DEF TypedCalls
    <3> QED
      BY <1>1, <3>1, <3>2
  <2>2. CASE call' = [call EXCEPT ![t] = [NoCall EXCEPT !.h = call[t].h, !.op = "replay",
                                                        !.pc = "play"]]
    <3>1. [NoCall EXCEPT !.h = call[t].h, !.op = "replay", !.pc = "play"] \in CallType
      BY <1>2 DEF CallType, Phases, InReplay, Ops
    <3> QED
      BY <1>1, <2>2, <3>1
  <2> QED
    BY <1>20, <2>1, <2>2 DEF ReplayOpen
<1>21. ASSUME NEW t \in Tasks, ReplayPlay(t) \/ Notify(t)
       PROVE  TypedCalls'
  <2> DEFINE c == [call[t] EXCEPT !.pc = "notify", !.op = None]
  <2>1. c \in CallType
    BY <1>2 DEF CallType, Phases, Ops
  <2>2. Return(t) \/ call' = [call EXCEPT ![t] = c]
    BY <1>21 DEF ReplayPlay, Notify, TypedCalls
  <2> QED
    BY <1>1, <1>4, <2>1, <2>2
<1>22. CASE ModuleInit \/ ModuleDeinit \/ UNCHANGED vars
  BY <1>5, <1>22 DEF ModuleInit, ModuleDeinit, vars
<1>23. ASSUME NEW h \in Handles,
              EndOfRecording(h) \/ CallBack(h) \/ \E start \in BOOLEAN : Announce(h, start)
       PROVE  TypedCalls'
  BY <1>5, <1>23 DEF EndOfRecording, CallBack, Announce
<1>24. ASSUME NEW t \in Tasks, TaskEnds(t)
       PROVE  TypedCalls'
  BY <1>5, <1>24 DEF TaskEnds
<1> QED
  BY <1>6, <1>7, <1>8, <1>9, <1>10, <1>11, <1>12, <1>13, <1>14, <1>15, <1>16, <1>17, <1>18,
     <1>19, <1>20, <1>21, <1>22, <1>23, <1>24 DEF Next, AppSteps, Calls, TaskSteps

LEMMA RestStep ==
    ASSUME Typed, AppCall, TaskCalls, [Next]_vars
    PROVE  TypedRest'
<1> USE TypedParts, Kinds DEF TypedRest
<1>1. CASE ModuleInit \/ ModuleDeinit \/ UNCHANGED vars
  <2>1. CASE ModuleInit /\ live # Tasks
    <3>1. (CHOOSE t \in Tasks : t \notin live) \in Tasks
      BY <2>1
    <3>2. live' \subseteq Tasks
      BY <2>1, <3>1 DEF ModuleInit
    <3> QED
      BY <2>1, <3>2 DEF ModuleInit
  <2>2. CASE ModuleInit /\ live = Tasks
    BY <2>2 DEF ModuleInit
  <2>3. CASE ModuleDeinit
    BY <2>3 DEF ModuleDeinit
  <2>4. CASE UNCHANGED vars
    BY <2>4 DEF vars
  <2> QED
    BY <1>1, <2>1, <2>2, <2>3, <2>4
<1>2. ASSUME NEW kind \in {Recorders, Players}, NEW m \in Modes, OpenCall(kind, m)
      PROVE  TypedRest'
  <2>1. opens' \in 0..MaxOpens
    <3>1. opens \in 0..MaxOpens /\ opens < MaxOpens /\ opens' = opens + 1
      BY <1>2 DEF OpenCall
    <3> QED
      BY <3>1, ConstantsAssumption
  <2>2. mode' \in {"stop", "replay"}
    BY <1>2, ConstantsAssumption DEF OpenCall, Keeps
  <2>3. overlap' \in BOOLEAN
    BY <1>2 DEF OpenCall
  <2> QED
    BY <1>2, <2>1, <2>2, <2>3 DEF OpenCall
<1>3. ASSUME NEW h \in Handles, CloseCall(h) \/ SpeedCall(h) \/ EndOfRecording(h) \/ CallBack(h)
      PROVE  TypedRest'
  BY <1>3 DEF CloseCall, SpeedCall, EndOfRecording, CallBack, module
<1>4. ASSUME NEW h \in Handles, NEW start \in BOOLEAN, Announce(h, start)
      PROVE  TypedRest'
  BY <1>4 DEF Announce, module
<1>5. ASSUME NEW a \in Actors, Calls(a)
      PROVE  TypedRest'
  <2>1. CASE Find(a) \/ Write(a) \/ SetUserData(a) \/ Unregister(a) \/ UnregisterCallback(a)
    BY <2>1 DEF Find, Write, SetUserData, Unregister, UnregisterCallback, module
  <2>2. CASE EngineOpen(a)
    <3>1. call[a].h \in Handles /\ call[a].cb \in Sessions \cup {None}
      BY <2>2, CallerHasHandle DEF EngineOpen, At, TypedCalls, CallType, InReplay, Opening
    <3>2. held' \in [Handles -> Sessions \cup {None}]
      BY <2>2, <3>1 DEF EngineOpen
    <3>3. engine' \in [Handles -> Sessions \cup {None}]
      BY <2>2, <3>1 DEF EngineOpen
    <3>4. hurt' \subseteq Sessions
      BY <2>2, <3>1 DEF EngineOpen
    <3> QED
      BY <2>2, <3>2, <3>3, <3>4 DEF EngineOpen, module
  <2>3. CASE EngineClose(a)
    <3>1. call[a].h \in Handles
      BY <2>3, CallerHasHandle DEF EngineClose, At, InReplay, Closing
    <3>2. engine' \in [Handles -> Sessions \cup {None}]
      BY <2>3, <3>1 DEF EngineClose
    <3>3. hurt' \subseteq Sessions
      BY <2>3, <3>1 DEF EngineClose
    <3> QED
      BY <2>3, <3>2, <3>3 DEF EngineClose, module
  <2> QED
    BY <1>5, <2>1, <2>2, <2>3 DEF Calls
<1>6. CASE SpeedLock \/ SpeedUnlock
  BY <1>6 DEF SpeedLock, SpeedUnlock, module
<1>7. ASSUME NEW h \in Handles, CloseReturns(h) \/ CloseFails(h)
      PROVE  TypedRest'
  BY <1>7 DEF CloseReturns, CloseFails, module
<1>8. ASSUME NEW t \in Tasks, Receive(t) \/ TaskEnds(t) \/ Notify(t)
      PROVE  TypedRest'
  BY <1>8 DEF Receive, TaskEnds, Notify, module
<1>9. ASSUME NEW t \in Tasks, ReplayLock(t)
      PROVE  TypedRest'
  BY <1>9 DEF ReplayLock, module
<1>10. ASSUME NEW t \in Tasks, ReplayOpen(t) \/ ReplayPlay(t)
       PROVE  TypedRest'
  BY <1>10 DEF ReplayOpen, ReplayPlay, module
<1> QED
  BY <1>1, <1>2, <1>3, <1>4, <1>5, <1>6, <1>7, <1>8, <1>9, <1>10 DEF Next, AppSteps, TaskSteps

(***************************************************************************)
(* What a step does to the calls, field by field: Step says how its actor's *)
(* call goes on, and every other actor stays where it is.                   *)
(***************************************************************************)
Same(a, fields) == \A f \in fields : call'[a][f] = call[a][f]
Others(a) == \A b \in Actors : b # a => call'[b] = call[b]

LEMMA Updates ==
    ASSUME TypedCalls, NEW a \in Actors, NEW c, call' = [call EXCEPT ![a] = c]
    PROVE  call'[a] = c /\ Others(a)
BY DEF TypedCalls, Others

LEMMA GotoCall ==
    ASSUME TypedCalls, NEW a \in Actors, NEW pc, Goto(a, pc)
    PROVE  /\ call'[a].pc = pc /\ Same(a, {"op", "h", "cb", "ud", "slot", "new", "ok"})
           /\ Others(a)
BY DEF TypedCalls, CallType, Goto, Same, Others

LEMMA ReturnCall ==
    ASSUME TypedCalls, NEW a \in Actors, Return(a)
    PROVE  /\ call'[a] = NoCall /\ call'[a].pc = "idle" /\ call'[a].op = None
           /\ Others(a)
<1>1. call'[a] = NoCall /\ Others(a)
  BY Updates DEF Return
<1> QED
  BY <1>1 DEF NoCall

LEMMA FindCall ==
    ASSUME TypedCalls, NEW a \in Actors, Find(a)
    PROVE  /\ call'[a].pc = "write" /\ Same(a, {"op", "h", "cb", "ud", "ok"})
           /\ call'[a].new = (SlotsOf(call[a].h) = {})
           /\ LET slots == IF SlotsOf(call[a].h) # {} THEN SlotsOf(call[a].h) ELSE FreeSlots
              IN call'[a].slot = IF slots = {} THEN 0 ELSE Min(slots)
           /\ Others(a)
<1> DEFINE own == SlotsOf(call[a].h)
           slots == IF own # {} THEN own ELSE FreeSlots
           n == IF slots = {} THEN 0 ELSE Min(slots)
           b == (own = {})
<1>1. call' = [call EXCEPT ![a].slot = n, ![a].new = b, ![a].pc = "write"]
  BY DEF Find
<1> HIDE DEF n, b
<1>2. /\ call'[a].pc = "write" /\ Same(a, {"op", "h", "cb", "ud", "ok"})
      /\ call'[a].new = b /\ call'[a].slot = n /\ Others(a)
  BY <1>1 DEF TypedCalls, CallType, Same, Others
<1> QED
  BY <1>2 DEF n, b

LEMMA WriteCall ==
    ASSUME TypedCalls, NEW a \in Actors, Write(a)
    PROVE  /\ call'[a].pc = "data" /\ Same(a, {"op", "h", "cb", "ud", "ok"})
           /\ Others(a)
<1>1. call' = [call EXCEPT ![a].slot = 0, ![a].new = FALSE, ![a].pc = "data"]
  BY DEF Write
<1> QED
  BY <1>1 DEF TypedCalls, CallType, Same, Others

LEMMA CloseCallMoves ==
    ASSUME TypedCalls, NEW a \in Actors, EngineClose(a)
    PROVE  /\ call'[a].pc = "unreg" /\ Same(a, {"op", "h", "cb", "ud", "slot", "new"})
           /\ \/ call'[a].ok /\ engine[call[a].h] # None
                 /\ engine' = [engine EXCEPT ![call[a].h] = None] /\ hurt' = hurt
              \/ ~call'[a].ok /\ engine' = engine
                 /\ hurt' = hurt \cup ({held[call[a].h]} \ {None})
           /\ Others(a)
<1>1. \/ /\ call' = [call EXCEPT ![a].ok = TRUE, ![a].pc = "unreg"]
         /\ engine[call[a].h] # None
         /\ engine' = [engine EXCEPT ![call[a].h] = None] /\ hurt' = hurt
      \/ /\ call' = [call EXCEPT ![a].ok = FALSE, ![a].pc = "unreg"]
         /\ engine' = engine /\ hurt' = hurt \cup ({held[call[a].h]} \ {None})
  BY DEF EngineClose
<1>2. ASSUME NEW b \in BOOLEAN, call' = [call EXCEPT ![a].ok = b, ![a].pc = "unreg"]
      PROVE  /\ call'[a].pc = "unreg" /\ Same(a, {"op", "h", "cb", "ud", "slot", "new"})
             /\ call'[a].ok = b /\ Others(a)
  BY <1>2 DEF TypedCalls, CallType, Same, Others
<1> QED
  BY <1>1, <1>2

LEMMA UnregisterCall ==
    ASSUME TypedCalls, NEW a \in Actors, Unregister(a)
    PROVE  LET own == SlotsOf(call[a].h) IN
           /\ Same(a, {"op", "h", "cb", "ud", "ok"}) /\ Others(a)
           /\ \/ /\ own # {} /\ call'[a].pc = "unregCb" /\ call'[a].slot = Min(own)
                 /\ table' = [table EXCEPT ![Min(own)].h = None, ![Min(own)].ud = None]
              \/ /\ \A i \in own : table[i].cb = None
                 /\ call'[a].pc = "closed" /\ table' = table
<1> DEFINE own == SlotsOf(call[a].h)
           n == Min(own)
<1>1. CASE \E i \in own : table[i].cb # None
  <2>1. call' = [call EXCEPT ![a].slot = n, ![a].pc = "unregCb"]
    BY <1>1 DEF Unregister
  <2> HIDE DEF n
  <2>2. /\ call'[a].pc = "unregCb" /\ Same(a, {"op", "h", "cb", "ud", "ok"})
        /\ call'[a].slot = n /\ Others(a)
    BY <2>1 DEF TypedCalls, CallType, Same, Others
  <2>3. table' = [table EXCEPT ![n].h = None, ![n].ud = None]
    BY <1>1 DEF Unregister, n
  <2> QED
    BY <1>1, <2>2, <2>3 DEF n
<1>2. CASE \A i \in own : table[i].cb = None
  <2>1. Goto(a, "closed") /\ table' = table
    BY <1>2 DEF Unregister
  <2> QED
    BY <1>2, <2>1, GotoCall DEF Same
<1> QED
  BY <1>1, <1>2

LEMMA UnregisterCallbackCall ==
    ASSUME TypedCalls, NEW a \in Actors, UnregisterCallback(a)
    PROVE  /\ call'[a].pc = "closed" /\ Same(a, {"op", "h", "cb", "ud", "ok"})
           /\ Others(a)
<1>1. call' = [call EXCEPT ![a].slot = 0, ![a].pc = "closed"]
  BY DEF UnregisterCallback
<1> QED
  BY <1>1 DEF TypedCalls, CallType, Same, Others

LEMMA EngineOpenCall ==
    ASSUME TypedCalls, NEW a \in Actors, EngineOpen(a)
    PROVE  /\ a = App => call'[a] = NoCall
           /\ a # App => call'[a].pc = "play" /\ Same(a, {"op", "h", "ok"})
           /\ Others(a)
<1>1. CASE a = App
  BY <1>1, ReturnCall DEF EngineOpen
<1>2. CASE a # App
  <2>1. call' = [call EXCEPT ![a].cb = None, ![a].ud = None, ![a].pc = "play"]
    BY <1>2 DEF EngineOpen
  <2> QED
    BY <1>2, <2>1 DEF TypedCalls, CallType, Same, Others
<1> QED
  BY <1>1, <1>2

LEMMA OpenCallMoves ==
    ASSUME TypedCalls, App \in Actors,
           NEW kind \in {Recorders, Players}, NEW m \in Modes, OpenCall(kind, m)
    PROVE  \/ call' = call
           \/ \E h \in Handles :
                /\ engine[h] = None
                /\ call'[App].pc = "find" /\ call'[App].op = "open" /\ call'[App].h = h
                /\ call'[App].cb = opens + 1 /\ call'[App].ud = opens + 1
                /\ Others(App)
<1>1. ASSUME NEW h \in FreeIn(kind),
             call' = [call EXCEPT ![App] = [NoCall EXCEPT !.pc = "find", !.op = "open",
                                            !.h = h, !.cb = opens + 1, !.ud = opens + 1]]
      PROVE  /\ h \in Handles /\ engine[h] = None
             /\ call'[App].pc = "find" /\ call'[App].op = "open" /\ call'[App].h = h
             /\ call'[App].cb = opens + 1 /\ call'[App].ud = opens + 1
             /\ Others(App)
  <2>1. /\ call'[App] = [NoCall EXCEPT !.pc = "find", !.op = "open", !.h = h,
                                       !.cb = opens + 1, !.ud = opens + 1]
        /\ Others(App)
    BY <1>1, Updates
  <2>2. h \in Handles /\ engine[h] = None
    BY DEF FreeIn, Handles
  <2> QED
    BY <2>1, <2>2 DEF NoCall
<1> QED
  BY <1>1 DEF OpenCall

LEMMA ReceiveCall ==
    ASSUME TypedCalls, TypedQueue, NEW t \in Tasks, t \in Actors, Receive(t)
    PROVE  /\ call[t].pc = "idle" /\ call'[t].op = None
           /\ call'[t].pc \in {"lock", "notify"} /\ call'[t].h \in Handles
           /\ call'[t].pc = "lock" => call'[t].h \in Players
           /\ Others(t)
<1> DEFINE m == Head(queue)
<1>1. m \in [h : Handles, end : BOOLEAN] /\ (m.end => m.h \in Players)
  <2>1. queue # <<>> /\ queue \in Seq([h : Handles, end : BOOLEAN])
    BY DEF Receive, TypedQueue
  <2>2. m = queue[1] /\ 1 \in 1..Len(queue)
    BY <2>1
  <2> QED
    BY <2>1, <2>2, HeadIsMember DEF TypedQueue, EndsArePlayers
<1>2. PICK pc \in {"lock", "notify"} :
        /\ pc = "lock" => m.end
        /\ call' = [call EXCEPT ![t] = [NoCall EXCEPT !.h = m.h, !.pc = pc]]
  BY DEF Receive
<1> HIDE DEF m
<1>3. call'[t] = [NoCall EXCEPT !.h = m.h, !.pc = pc] /\ Others(t)
  BY <1>2, Updates
<1>4. call[t].pc = "idle"
  BY DEF Receive, At
<1> QED
  BY <1>1, <1>2, <1>3, <1>4 DEF NoCall

LEMMA ReplayLockCall ==
    ASSUME TypedCalls, NEW t \in Tasks, t \in Actors, ReplayLock(t)
    PROVE  LET own == SlotsOf(call[t].h) IN
           /\ call[t].pc = "lock" /\ call'[t].pc = "shut" /\ call'[t].op = "replay"
           /\ call'[t].h = call[t].h
           /\ own # {} => /\ call'[t].cb = table[Max(own)].cb
                          /\ call'[t].ud = table[Max(own)].ud
           /\ Others(t)
<1> DEFINE own == SlotsOf(call[t].h)
           cb == IF own = {} THEN None ELSE table[Max(own)].cb
           ud == IF own = {} THEN None ELSE table[Max(own)].ud
<1>1. call[t].pc = "lock" /\
      call' = [call EXCEPT ![t].op = "replay", ![t].pc = "shut", ![t].cb = cb, ![t].ud = ud]
  BY DEF ReplayLock, At
<1> HIDE DEF cb, ud
<1>2. /\ call'[t].pc = "shut" /\ call'[t].op = "replay" /\ call'[t].h = call[t].h
      /\ call'[t].cb = cb /\ call'[t].ud = ud /\ Others(t)
  BY <1>1 DEF TypedCalls, CallType, Others
<1> QED
  BY <1>1, <1>2 DEF cb, ud

LEMMA ReplayOpenCall ==
    ASSUME TypedCalls, NEW t \in Tasks, t \in Actors, ReplayOpen(t)
    PROVE  /\ call[t].pc = "closed"
           /\ \/ /\ call'[t].h \in FreeIn(Players) /\ call'[t].pc = "find"
                 /\ Same(t, {"op", "cb", "ud"}) /\ Others(t)
              \/ /\ FreeIn(Players) = {} /\ call'[t].h = call[t].h
                 /\ call'[t].pc = "play" /\ call'[t].op = "replay" /\ Others(t)
<1>1. ASSUME NEW h \in FreeIn(Players),
             call' = [call EXCEPT ![t].h = h, ![t].ok = TRUE, ![t].pc = "find"]
      PROVE  call'[t].h = h /\ call'[t].pc = "find" /\ Same(t, {"op", "cb", "ud"}) /\ Others(t)
  BY <1>1 DEF TypedCalls, CallType, Same, Others
<1>2. ASSUME call' = [call EXCEPT ![t] = [NoCall EXCEPT !.h = call[t].h, !.op = "replay",
                                                        !.pc = "play"]]
      PROVE  call'[t].h = call[t].h /\ call'[t].pc = "play" /\ call'[t].op = "replay" /\ Others(t)
  <2>1. call'[t] = [NoCall EXCEPT !.h = call[t].h, !.op = "replay", !.pc = "play"] /\ Others(t)
    BY <1>2, Updates
  <2> QED
    BY <2>1 DEF NoCall
<1>3. /\ call[t].pc = "closed"
      /\ \/ \E h \in FreeIn(Players) :
              call' = [call EXCEPT ![t].h = h, ![t].ok = TRUE, ![t].pc = "find"]
         \/ /\ FreeIn(Players) = {}
            /\ call' = [call EXCEPT ![t] = [NoCall EXCEPT !.h = call[t].h, !.op = "replay",
                                                          !.pc = "play"]]
  BY DEF ReplayOpen, At
<1> QED
  BY <1>1, <1>2, <1>3

LEMMA ReplayPlayCall ==
    ASSUME TypedCalls, NEW t \in Tasks, t \in Actors, ReplayPlay(t)
    PROVE  /\ call[t].pc = "play" /\ call'[t].pc \in {"idle", "notify"} /\ call'[t].op = None
           /\ Others(t)
<1>1. CASE call' = [call EXCEPT ![t].pc = "notify", ![t].op = None]
  BY <1>1 DEF TypedCalls, CallType, Others, ReplayPlay, At
<1>2. CASE Return(t)
  BY <1>2, ReturnCall DEF ReplayPlay, At
<1> QED
  BY <1>1, <1>2 DEF ReplayPlay

\* One actor goes on with its call, and takes or gives back the mutex with it.
LEMMA OneActorMoves ==
    ASSUME AppCall, TaskCalls, MutexHeld, NEW a \in Actors, Others(a),
           IF a = App THEN AppCall' ELSE TaskCall(a)',
           \/ mutex' = mutex /\ (Holding(a)' <=> Holding(a))
           \/ mutex = None /\ mutex' = a /\ Holding(a)'
           \/ mutex = a /\ mutex' = None /\ ~Holding(a)'
    PROVE  (AppCall /\ TaskCalls /\ MutexHeld)'
<1>1. AppCall'
  BY Kinds DEF AppCall, Others
<1>2. TaskCalls'
  BY Kinds, ConstantsAssumption DEF TaskCalls, TaskCall, Others
<1>3. ASSUME NEW b \in Actors
      PROVE  (mutex = b <=> Holding(b))'
  BY Kinds DEF MutexHeld, Holding, Others
<1> QED
  BY <1>1, <1>2, <1>3 DEF MutexHeld

LEMMA CallsFit ==
    ASSUME RInv, [Next]_vars
    PROVE  (AppCall /\ TaskCalls /\ MutexHeld)'
<1>1. AppCall /\ TaskCalls /\ MutexHeld /\ TypedCalls /\ TypedQueue /\ App \in Actors
  BY TypedParts, Kinds DEF RInv
<1>2. ASSUME UNCHANGED <<call, mutex>>
      PROVE  (AppCall /\ TaskCalls /\ MutexHeld)'
  BY <1>1, <1>2 DEF AppCall, TaskCalls, TaskCall, MutexHeld, Holding
<1>3. ASSUME NEW a \in Actors, Calls(a)
      PROVE  (AppCall /\ TaskCalls /\ MutexHeld)'
  <2>1. /\ mutex' = mutex
        /\ call[a].pc \in {"find", "write", "data", "engine", "shut", "unreg", "unregCb"}
    BY <1>3 DEF Calls, At, Find, Write, SetUserData, EngineOpen, EngineClose, Unregister,
                UnregisterCallback
  <2>2. /\ Others(a)
        /\ \/ /\ call'[a].op = call[a].op /\ call'[a].h = call[a].h
              /\ \/ call[a].pc \in Opening /\ call'[a].pc \in Opening
                 \/ call[a].pc \in Closing /\ call'[a].pc \in Closing
                 \/ a # App /\ call'[a].pc = "play"
           \/ a = App /\ call'[a] = NoCall
    <3>1. CASE Find(a)
      BY <1>1, <3>1, FindCall DEF Same, Find, At, Opening
    <3>2. CASE Write(a)
      BY <1>1, <3>2, WriteCall DEF Same, Write, At, Opening
    <3>3. CASE SetUserData(a)
      <4>1. Goto(a, "engine") /\ call[a].pc = "data"
        BY <3>3 DEF SetUserData, At
      <4> QED
        BY <1>1, <4>1, GotoCall DEF Same, Opening
    <3>4. CASE EngineOpen(a)
      BY <1>1, <3>4, EngineOpenCall DEF Same
    <3>5. CASE EngineClose(a)
      BY <1>1, <3>5, CloseCallMoves DEF Same, EngineClose, At, Closing
    <3>6. CASE Unregister(a)
      BY <1>1, <3>6, UnregisterCall DEF Same, Unregister, At, Closing
    <3>7. CASE UnregisterCallback(a)
      BY <1>1, <3>7, UnregisterCallbackCall DEF Same, UnregisterCallback, At, Closing
    <3> QED
      BY <1>3, <3>1, <3>2, <3>3, <3>4, <3>5, <3>6, <3>7 DEF Calls
  <2>3. CASE a = App
    <3>1. AppCall'
      BY <1>1, <2>1, <2>2, <2>3 DEF AppCall, Opening, Closing, NoCall
    <3>2. Holding(a)' <=> Holding(a)
      BY <2>1, <2>2, <2>3 DEF Holding, NoCall, Opening, Closing
    <3> QED
      BY <1>1, <2>1, <2>2, <2>3, <3>1, <3>2, OneActorMoves
  <2>4. CASE a # App
    <3>1. TaskCall(a)'
      BY <1>1, <2>1, <2>2, <2>4, Kinds
         DEF TaskCalls, TaskCall, InReplay, Opening, Closing
    <3>2. Holding(a)' <=> Holding(a)
      BY <2>1, <2>2, <2>4 DEF Holding, InReplay, Opening, Closing
    <3> QED
      BY <1>1, <2>1, <2>2, <2>4, <3>1, <3>2, OneActorMoves
  <2> QED
    BY <2>3, <2>4
<1>4. ASSUME NEW kind \in {Recorders, Players}, NEW m \in Modes, OpenCall(kind, m)
      PROVE  (AppCall /\ TaskCalls /\ MutexHeld)'
  <2>1. mutex' = mutex /\ call[App].pc = "idle"
    BY <1>4 DEF OpenCall, At
  <2>2. CASE call' = call
    BY <1>2, <2>1, <2>2
  <2>3. CASE \E h \in Handles : /\ call'[App].pc = "find" /\ call'[App].op = "open"
                                /\ call'[App].h = h /\ Others(App)
    <3>1. AppCall'
      BY <2>3 DEF AppCall, Opening
    <3>2. Holding(App)' <=> Holding(App)
      BY <2>1, <2>3 DEF Holding
    <3> QED
      BY <1>1, <2>1, <2>3, <3>1, <3>2, OneActorMoves
  <2> QED
    BY <1>1, <1>4, <2>2, <2>3, OpenCallMoves
<1>5. ASSUME NEW h \in Handles, CloseCall(h) \/ SpeedCall(h)
      PROVE  (AppCall /\ TaskCalls /\ MutexHeld)'
  <2>1. PICK c \in {[NoCall EXCEPT !.pc = "shut", !.op = "close", !.h = h],
                    [NoCall EXCEPT !.pc = "lock", !.op = "speed", !.h = h]} :
          call' = [call EXCEPT ![App] = c]
    BY <1>5 DEF CloseCall, SpeedCall
  <2>2. call'[App] = c /\ Others(App)
    BY <1>1, <2>1, Updates
  <2>3. AppCall'
    BY <2>2 DEF AppCall, NoCall, Opening, Closing
  <2>4. mutex' = mutex /\ (Holding(App)' <=> Holding(App))
    BY <1>5, <2>2 DEF CloseCall, SpeedCall, At, Holding, NoCall
  <2> QED
    BY <1>1, <2>2, <2>3, <2>4, OneActorMoves
<1>6. ASSUME NEW h \in Handles, CloseReturns(h) \/ CloseFails(h)
      PROVE  (AppCall /\ TaskCalls /\ MutexHeld)'
  <2>1. call'[App] = NoCall /\ Others(App)
    BY <1>1, <1>6, ReturnCall DEF CloseReturns, CloseFails
  <2>2. AppCall'
    BY <2>1 DEF AppCall, NoCall, Opening, Closing
  <2>3. mutex' = mutex /\ (Holding(App)' <=> Holding(App))
    BY <1>6, <2>1 DEF CloseReturns, CloseFails, At, Holding, NoCall
  <2> QED
    BY <1>1, <2>1, <2>2, <2>3, OneActorMoves
<1>7. CASE SpeedLock
  <2>1. Goto(App, "speed") /\ call[App].pc = "lock" /\ mutex = None /\ mutex' = App
    BY <1>7 DEF SpeedLock, At
  <2>2. /\ call'[App].pc = "speed" /\ call'[App].op = call[App].op
        /\ call'[App].h = call[App].h /\ Others(App)
    BY <1>1, <2>1, GotoCall DEF Same
  <2>3. AppCall' /\ Holding(App)'
    BY <1>1, <2>1, <2>2 DEF AppCall, Holding, Opening, Closing
  <2> QED
    BY <1>1, <2>1, <2>2, <2>3, OneActorMoves
<1>8. CASE SpeedUnlock
  <2>1. Return(App) /\ call[App].pc = "speed" /\ mutex' = None
    BY <1>8 DEF SpeedUnlock, At
  <2>2. call'[App] = NoCall /\ Others(App)
    BY <1>1, <2>1, ReturnCall
  <2>3. AppCall' /\ ~Holding(App)' /\ mutex = App
    BY <1>1, <2>1, <2>2 DEF AppCall, MutexHeld, Holding, NoCall, Opening, Closing
  <2> QED
    BY <1>1, <2>1, <2>2, <2>3, OneActorMoves
<1>9. ASSUME NEW t \in Tasks, TaskSteps(t) \/ TaskEnds(t)
      PROVE  (AppCall /\ TaskCalls /\ MutexHeld)'
  <2> USE <1>1 DEF InReplay, Opening, Closing
  <2>1. t \in Actors /\ t # App
    BY Kinds, ConstantsAssumption
  <2>2. CASE Receive(t)
    <3>1. TaskCall(t)' /\ (Holding(t)' <=> Holding(t)) /\ Others(t)
      BY <2>1, <2>2, ReceiveCall DEF TaskCall, Holding
    <3> QED
      BY <2>1, <2>2, <3>1, OneActorMoves DEF Receive
  <2>3. CASE ReplayLock(t)
    <3>1. TaskCall(t)' /\ Holding(t)' /\ Others(t)
      BY <2>1, <2>3, ReplayLockCall DEF TaskCalls, TaskCall, Holding
    <3> QED
      BY <2>1, <2>3, <3>1, OneActorMoves DEF ReplayLock
  <2>4. CASE ReplayOpen(t)
    <3>1. TaskCall(t)' /\ (Holding(t)' <=> Holding(t)) /\ Others(t)
      BY <2>1, <2>4, ReplayOpenCall DEF TaskCalls, TaskCall, Holding, Same, FreeIn
    <3> QED
      BY <2>1, <2>4, <3>1, OneActorMoves DEF ReplayOpen
  <2>5. CASE ReplayPlay(t)
    <3>1. TaskCall(t)' /\ ~Holding(t)' /\ mutex = t /\ Others(t)
      BY <2>1, <2>5, ReplayPlayCall DEF TaskCall, Holding, MutexHeld
    <3> QED
      BY <2>1, <2>5, <3>1, OneActorMoves DEF ReplayPlay
  <2>6. CASE Notify(t)
    <3>1. TaskCall(t)' /\ (Holding(t)' <=> Holding(t)) /\ Others(t)
      BY <2>1, <2>6, ReturnCall DEF Notify, At, TaskCall, Holding
    <3> QED
      BY <2>1, <2>6, <3>1, OneActorMoves DEF Notify
  <2>7. CASE TaskEnds(t)
    BY <1>2, <2>7 DEF TaskEnds
  <2> QED
    BY <1>3, <1>9, <2>1, <2>2, <2>3, <2>4, <2>5, <2>6, <2>7 DEF TaskSteps
<1>10. ASSUME NEW h \in Handles,
              EndOfRecording(h) \/ CallBack(h) \/ \E start \in BOOLEAN : Announce(h, start)
       PROVE  (AppCall /\ TaskCalls /\ MutexHeld)'
  BY <1>2, <1>10 DEF EndOfRecording, CallBack, Announce
<1>11. CASE ModuleInit \/ ModuleDeinit \/ UNCHANGED vars
  BY <1>2, <1>11 DEF ModuleInit, ModuleDeinit, vars
<1> QED
  BY <1>1, <1>3, <1>4, <1>5, <1>6, <1>7, <1>8, <1>9, <1>10, <1>11 DEF Next, AppSteps

LEMMA RInvStep ==
    ASSUME RInv, [Next]_vars
    PROVE  RInv'
<1>1. Typed'
  <2>1. (TypedQueue /\ TypedTable /\ TypedLib /\ TypedCalls /\ TypedRest)'
    BY QueueStep, TableStep, LibStep, CallsStep, RestStep DEF RInv
  <2> QED
    BY <2>1, TypedParts, PTL
<1> QED
  BY <1>1, CallsFit DEF RInv

LEMMA RInvHolds == Spec => []RInv
BY RInvInit, RInvStep, PTL DEF Spec

\* Whatever sessions are opened, refused, closed and replayed, the table, the
\* queue, the calls and the history keep their types: no slot that a call is
\* about to write or to clear lies outside the table.
THEOREM TypesHold == Spec => []TypeOK
<1>1. RInv => TypeOK
  BY DEF RInv, Typed
<1> QED
  BY <1>1, RInvHolds, PTL

\* No event task and no change to normal speed comes between the close and the
\* open of a replay, and the mutex is always held by a call that gives it back.
THEOREM ReplaysExclude == Spec => []ReplayIsAlone
<1>1. RInv => ReplayIsAlone
  <2> SUFFICES ASSUME RInv PROVE ReplayIsAlone
    OBVIOUS
  <2>1. ASSUME NEW t \in Tasks, At(t, "shut") \/ call[t].pc \in Gap
        PROVE  /\ ~At(App, "speed")
               /\ \A u \in Tasks \ {t} : call[u].pc \notin Gap \cup {"shut", "play"}
    <3>1. mutex = t
      BY <2>1, Kinds, ConstantsAssumption
         DEF RInv, MutexHeld, Holding, At, Gap, InReplay, Opening, Closing
    <3> QED
      BY <3>1, Kinds, ConstantsAssumption
         DEF RInv, MutexHeld, Holding, At, Gap, InReplay, Opening, Closing
  <2>2. mutex # None => call[mutex].op \in {"replay", "speed"} /\ ~At(mutex, "idle")
    <3>1. mutex \in Tasks \cup {App, None}
      BY TypedParts DEF RInv, TypedRest, Actors
    <3> QED
      BY <3>1, Kinds, ConstantsAssumption
         DEF RInv, MutexHeld, Holding, AppCall, TaskCalls, TaskCall, At, InReplay, Opening, Closing
  <2> QED
    BY <2>1, <2>2 DEF ReplayIsAlone
<1> QED
  BY <1>1, RInvHolds, PTL

-----------------------------------------------------------------------------
(***************************************************************************)
(* What the sessions rest on: the numbers they have and what is open        *)
(***************************************************************************)

\* The application has a session open on h, and no call has failed on it.
Holds(h) == held[h] \notin hurt \cup {None}

\* A number is used once, and the one an open carries is not in use yet.
SessionNumbers ==
    /\ hurt \subseteq 1..opens
    /\ \A h \in Handles : held[h] # None => held[h] \in 1..opens
    /\ \A h, k \in Handles : held[h] = held[k] /\ held[h] # None => h = k
    /\ call[App].pc \in Opening =>
        /\ call[App].cb = opens /\ call[App].ud = opens
        /\ opens \in 1..MaxOpens /\ opens \notin hurt
        /\ \A h \in Handles : held[h] # opens

\* Nothing is open in a library that is detached.
InitedWhenUsed ==
    (call[App].pc \in Opening \/ \E h \in Handles : held[h] # None) => inited

LibraryOpen == \A h \in Handles : lib[h] # Quiet => engine[h] # None

\* A close of the application is of a session, which is hurt when it was busy.
AppCloses ==
    call[App].pc \in Closing =>
        /\ held[call[App].h] # None
        /\ call[App].pc # "shut" /\ ~call[App].ok => held[call[App].h] \in hurt

Books == SessionNumbers /\ InitedWhenUsed /\ LibraryOpen /\ AppCloses

\* While no replay has met a call of the application:
ReplayAlone ==
    Replaying # {} =>
        /\ call[App].pc \notin Opening \cup Closing
        /\ \A t \in Replaying : held[call[t].h] # None

OpensFresh == call[App].pc \in Opening => ~Holds(call[App].h)

\* No handle has two slots, and what is neither used nor free is being cleared.
OneSlot == \A i, j \in Slots : table[i].h = table[j].h /\ table[i].h # None => i = j

Clearing(a, i) == call[a].pc = "unregCb" /\ call[a].slot = i
CleanFree == \A i \in Slots : table[i].h = None /\ table[i].cb # None =>
                \E a \in Actors : Clearing(a, i)

\* The slot a call is about to write, has written or has begun to clear
InTable(a) ==
    LET c == call[a] IN
    /\ c.pc = "write" => /\ c.slot \in Slots
                         /\ c.new => c.slot \in FreeSlots /\ SlotsOf(c.h) = {}
                         /\ ~c.new => c.slot \in SlotsOf(c.h)
    /\ c.pc = "data" => \E i \in Slots : table[i].h = c.h /\ table[i].cb = c.cb
    /\ c.pc = "engine" => \E i \in Slots : table[i] = [h |-> c.h, cb |-> c.cb, ud |-> c.ud]
    /\ c.pc = "unregCb" => c.slot \in Slots /\ table[c.slot].h = None
CallsInTable == \A a \in Actors : InTable(a)

\* A session has its slot and its handle in the library, unless a close or a replay
\* has shut it: then the library has nothing open there.
Owned(h) == \E i \in Slots : table[i] = [h |-> h, cb |-> held[h], ud |-> held[h]]
ShutBy(a, h) == /\ call[a].h = h /\ call[a].op \in {"close", "replay"}
                /\ call[a].pc \notin {"shut", "play"}
Shut(h) == \E a \in Actors : ShutBy(a, h)
Settled(h) == Holds(h) => IF Shut(h) THEN engine[h] = None
                          ELSE Owned(h) /\ engine[h] = held[h]
AllSettled == \A h \in Handles : Settled(h)

\* A replay carries the callback and the user data of the session.
Restores(t) ==
    call[t].pc \in Opening \cup Closing /\ Holds(call[t].h)
    => call[t].cb = held[call[t].h] /\ call[t].ud = held[call[t].h]
AllRestore == \A t \in Tasks : Restores(t)

\* The library's thread has found the session's slot.
Tells(h) == Holds(h) /\ lib[h] # Quiet => lib[h].told = 0 /\ lib[h].slot \in SlotsOf(h)
AllTold == \A h \in Handles : Tells(h)

Undisturbed == /\ ReplayAlone /\ OpensFresh /\ OneSlot /\ CleanFree /\ CallsInTable
               /\ AllSettled /\ AllRestore /\ AllTold

SInv == RInv /\ Books /\ (~overlap => Undisturbed)

(***************************************************************************)
(* Which steps can disturb what                                             *)
(***************************************************************************)
AppOwn == \/ \E kind \in {Recorders, Players}, m \in Modes : OpenCall(kind, m)
          \/ \E h \in Handles : CloseCall(h) \/ SpeedCall(h) \/ CloseReturns(h) \/ CloseFails(h)
          \/ SpeedLock \/ SpeedUnlock
TaskOwn(t) == Receive(t) \/ ReplayLock(t) \/ ReplayOpen(t) \/ ReplayPlay(t) \/ Notify(t)
NoCalls == \/ ModuleInit \/ ModuleDeinit \/ UNCHANGED vars
           \/ \E h \in Handles : EndOfRecording(h) \/ CallBack(h)
           \/ \E h \in Handles, start \in BOOLEAN : Announce(h, start)
           \/ \E t \in Tasks : TaskEnds(t)

LEMMA StepOf ==
    ASSUME [Next]_vars
    PROVE  \/ NoCalls \/ AppOwn
           \/ \E a \in Actors : Calls(a)
           \/ \E t \in Tasks : TaskOwn(t)
BY Kinds DEF Next, NoCalls, AppOwn, TaskOwn, AppSteps, TaskSteps

LEMMA NoCallsFrame ==
    ASSUME NoCalls
    PROVE  UNCHANGED <<opens, mutex, call, held, hurt, overlap>>
BY DEF NoCalls, ModuleInit, ModuleDeinit, vars, EndOfRecording, CallBack, Announce, TaskEnds,
       module

LEMMA CallsFrame ==
    ASSUME TypedCalls, NEW a \in Actors, Calls(a)
    PROVE  Others(a) /\ call[a].pc \in InReplay \ {"play", "closed"} /\ UNCHANGED overlap
<1>1. CASE Find(a)
  BY <1>1, FindCall DEF Find, At, InReplay, Opening
<1>2. CASE Write(a)
  BY <1>2, WriteCall DEF Write, At, InReplay, Opening
<1>3. CASE SetUserData(a)
  BY <1>3, GotoCall DEF SetUserData, At, InReplay, Opening
<1>4. CASE EngineOpen(a)
  BY <1>4, EngineOpenCall DEF EngineOpen, At, InReplay, Opening
<1>5. CASE EngineClose(a)
  BY <1>5, CloseCallMoves DEF EngineClose, At, InReplay, Closing
<1>6. CASE Unregister(a)
  BY <1>6, UnregisterCall DEF Unregister, At, InReplay, Closing
<1>7. CASE UnregisterCallback(a)
  BY <1>7, UnregisterCallbackCall DEF UnregisterCallback, At, InReplay, Closing
<1> QED
  BY <1>1, <1>2, <1>3, <1>4, <1>5, <1>6, <1>7 DEF Calls

LEMMA AppOwnFrame ==
    ASSUME TypedCalls, App \in Actors, AppOwn
    PROVE  Others(App)
<1>1. ASSUME NEW kind \in {Recorders, Players}, NEW m \in Modes, OpenCall(kind, m)
      PROVE  Others(App)
  BY <1>1, OpenCallMoves DEF Others
<1>2. ASSUME NEW h \in Handles, CloseCall(h) \/ SpeedCall(h)
      PROVE  Others(App)
  BY <1>2, Updates DEF CloseCall, SpeedCall
<1>3. ASSUME NEW h \in Handles, CloseReturns(h) \/ CloseFails(h)
      PROVE  Others(App)
  BY <1>3, ReturnCall DEF CloseReturns, CloseFails
<1>4. CASE SpeedLock \/ SpeedUnlock
  BY <1>4, ReturnCall, GotoCall DEF SpeedLock, SpeedUnlock
<1> QED
  BY <1>1, <1>2, <1>3, <1>4 DEF AppOwn

LEMMA TaskOwnFrame ==
    ASSUME TypedCalls, TypedQueue, NEW t \in Tasks, t \in Actors, TaskOwn(t)
    PROVE  Others(t) /\ UNCHANGED <<table, engine, lib, held, hurt, opens, inited>>
<1>1. CASE Receive(t)
  BY <1>1, ReceiveCall DEF Receive, module
<1>2. CASE ReplayLock(t)
  BY <1>2, ReplayLockCall DEF ReplayLock, module
<1>3. CASE ReplayOpen(t)
  BY <1>3, ReplayOpenCall DEF ReplayOpen, module
<1>4. CASE ReplayPlay(t)
  BY <1>4, ReplayPlayCall DEF ReplayPlay, module
<1>5. CASE Notify(t)
  BY <1>5, ReturnCall DEF Notify, module
<1> QED
  BY <1>1, <1>2, <1>3, <1>4, <1>5 DEF TaskOwn

\* The application and the sessions it holds
LEMMA HeldFrame ==
    ASSUME [Next]_vars
    PROVE  \/ held' = held /\ hurt \subseteq hurt'
           \/ EngineOpen(App)
           \/ \E h \in Handles : CloseReturns(h)
<1>1. CASE NoCalls
  BY <1>1, NoCallsFrame
<1>2. CASE AppOwn
  BY <1>2 DEF AppOwn, OpenCall, CloseCall, SpeedCall, CloseFails, SpeedLock, SpeedUnlock
<1>3. ASSUME NEW a \in Actors, Calls(a)
      PROVE  (held' = held /\ hurt \subseteq hurt') \/ EngineOpen(App)
  BY <1>3 DEF Calls, Find, Write, SetUserData, EngineOpen, EngineClose, Unregister,
              UnregisterCallback
<1>4. ASSUME NEW t \in Tasks, TaskOwn(t)
      PROVE  held' = held /\ hurt \subseteq hurt'
  BY <1>4 DEF TaskOwn, Receive, ReplayLock, ReplayOpen, ReplayPlay, Notify
<1> QED
  BY <1>1, <1>2, <1>3, <1>4, StepOf

LEMMA EngineFrame ==
    ASSUME [Next]_vars
    PROVE  \/ engine' = engine
           \/ ModuleDeinit
           \/ \E a \in Actors : EngineOpen(a) \/ EngineClose(a)
           \/ \E h \in Handles : CloseReturns(h)
<1>1. CASE NoCalls
  BY <1>1 DEF NoCalls, ModuleInit, vars, EndOfRecording, CallBack, Announce, TaskEnds
<1>2. CASE AppOwn
  BY <1>2 DEF AppOwn, OpenCall, CloseCall, SpeedCall, CloseFails, SpeedLock, SpeedUnlock
<1>3. ASSUME NEW a \in Actors, Calls(a)
      PROVE  engine' = engine \/ EngineOpen(a) \/ EngineClose(a)
  BY <1>3 DEF Calls, Find, Write, SetUserData, Unregister, UnregisterCallback
<1>4. ASSUME NEW t \in Tasks, TaskOwn(t)
      PROVE  engine' = engine
  BY <1>4 DEF TaskOwn, Receive, ReplayLock, ReplayOpen, ReplayPlay, Notify
<1> QED
  BY <1>1, <1>2, <1>3, <1>4, StepOf

LEMMA TableFrame ==
    ASSUME [Next]_vars
    PROVE  \/ table' = table
           \/ ModuleInit
           \/ \E a \in Actors : Write(a) \/ SetUserData(a) \/ Unregister(a)
                                \/ UnregisterCallback(a)
<1>1. CASE NoCalls
  BY <1>1 DEF NoCalls, ModuleDeinit, vars, EndOfRecording, CallBack, Announce, TaskEnds
<1>2. CASE AppOwn
  BY <1>2 DEF AppOwn, OpenCall, CloseCall, SpeedCall, CloseReturns, CloseFails, SpeedLock,
              SpeedUnlock
<1>3. ASSUME NEW a \in Actors, Calls(a)
      PROVE  table' = table \/ Write(a) \/ SetUserData(a) \/ Unregister(a)
             \/ UnregisterCallback(a)
  BY <1>3 DEF Calls, Find, EngineOpen, EngineClose
<1>4. ASSUME NEW t \in Tasks, TaskOwn(t)
      PROVE  table' = table
  BY <1>4 DEF TaskOwn, Receive, ReplayLock, ReplayOpen, ReplayPlay, Notify
<1> QED
  BY <1>1, <1>2, <1>3, <1>4, StepOf

LEMMA LibFrame ==
    ASSUME [Next]_vars
    PROVE  \/ lib' = lib
           \/ \E h \in Handles : CallBack(h) \/ \E start \in BOOLEAN : Announce(h, start)
<1>1. CASE NoCalls
  BY <1>1 DEF NoCalls, ModuleInit, ModuleDeinit, vars, EndOfRecording, TaskEnds
<1>2. CASE AppOwn
  BY <1>2 DEF AppOwn, OpenCall, CloseCall, SpeedCall, CloseReturns, CloseFails, SpeedLock,
              SpeedUnlock
<1>3. ASSUME NEW a \in Actors, Calls(a)
      PROVE  lib' = lib
  BY <1>3 DEF Calls, Find, Write, SetUserData, EngineOpen, EngineClose, Unregister,
              UnregisterCallback
<1>4. ASSUME NEW t \in Tasks, TaskOwn(t)
      PROVE  lib' = lib
  BY <1>4 DEF TaskOwn, Receive, ReplayLock, ReplayOpen, ReplayPlay, Notify
<1> QED
  BY <1>1, <1>2, <1>3, <1>4, StepOf

\* An actor's call goes on by its own steps only.
LEMMA CallFrame ==
    ASSUME TypedCalls, TypedQueue, [Next]_vars, NEW b \in Actors
    PROVE  \/ call'[b] = call[b]
           \/ Calls(b)
           \/ b = App /\ AppOwn
           \/ b \in Tasks /\ TaskOwn(b)
<1>1. CASE NoCalls
  BY <1>1, NoCallsFrame
<1>2. CASE AppOwn
  BY <1>2, AppOwnFrame, Kinds DEF Others
<1>3. ASSUME NEW a \in Actors, Calls(a)
      PROVE  call'[b] = call[b] \/ Calls(b)
  BY <1>3, CallsFrame DEF Others
<1>4. ASSUME NEW t \in Tasks, TaskOwn(t)
      PROVE  call'[b] = call[b] \/ (b \in Tasks /\ TaskOwn(b))
  BY <1>4, TaskOwnFrame, Kinds DEF Others
<1> QED
  BY <1>1, <1>2, <1>3, <1>4, StepOf

LEMMA OverlapStays ==
    ASSUME [Next]_vars, ~overlap'
    PROVE  ~overlap
<1>1. CASE NoCalls
  BY <1>1, NoCallsFrame
<1>2. CASE AppOwn
  BY <1>2 DEF AppOwn, OpenCall, CloseCall, SpeedCall, CloseReturns, CloseFails, SpeedLock,
              SpeedUnlock
<1>3. ASSUME NEW a \in Actors, Calls(a)
      PROVE  ~overlap
  BY <1>3 DEF Calls, Find, Write, SetUserData, EngineOpen, EngineClose, Unregister,
              UnregisterCallback
<1>4. ASSUME NEW t \in Tasks, TaskOwn(t)
      PROVE  ~overlap
  BY <1>4 DEF TaskOwn, Receive, ReplayLock, ReplayOpen, ReplayPlay, Notify
<1> QED
  BY <1>1, <1>2, <1>3, <1>4, StepOf

(***************************************************************************)
(* The books: sessions are numbered apart, and what is open is on them.     *)
(***************************************************************************)
LEMMA Parts ==
    ASSUME RInv
    PROVE  /\ AppCall /\ TaskCalls /\ MutexHeld
           /\ TypedQueue /\ TypedTable /\ TypedLib /\ TypedCalls /\ TypedRest
           /\ App \in Actors /\ Tasks \subseteq Actors /\ App \notin Tasks
           /\ Actors = Tasks \cup {App}
BY TypedParts, Kinds, ConstantsAssumption DEF RInv

LEMMA CallsKeep ==
    ASSUME TypedCalls, NEW a \in Actors, Calls(a), ~EngineOpen(a)
    PROVE  /\ Same(a, {"op", "h", "cb", "ud"})
           /\ call'[a].ok = call[a].ok \/ EngineClose(a)
           /\ \/ call[a].pc \in Opening /\ call'[a].pc \in Opening
              \/ call[a].pc \in Closing /\ call'[a].pc \in Closing \ {"shut"}
           /\ held' = held
           /\ hurt' = hurt \/ EngineClose(a)
           /\ opens' = opens /\ inited' = inited
<1>1. CASE Find(a)
  <2>1. call[a].pc = "find" /\ UNCHANGED <<held, hurt, module>>
    BY <1>1 DEF Find, At
  <2> QED
    BY <1>1, <2>1, FindCall DEF Opening, Same, module
<1>2. CASE Write(a)
  <2>1. call[a].pc = "write" /\ UNCHANGED <<held, hurt, module>>
    BY <1>2 DEF Write, At
  <2> QED
    BY <1>2, <2>1, WriteCall DEF Opening, Same, module
<1>3. CASE SetUserData(a)
  BY <1>3, GotoCall DEF SetUserData, At, Opening, Same, module
<1>4. CASE EngineClose(a)
  BY <1>4, CloseCallMoves DEF EngineClose, At, Closing, Same, module
<1>5. CASE Unregister(a)
  <2>1. call[a].pc = "unreg" /\ UNCHANGED <<held, hurt, module>>
    BY <1>5 DEF Unregister, At
  <2> QED
    BY <1>5, <2>1, UnregisterCall DEF Closing, Same, module
<1>6. CASE UnregisterCallback(a)
  <2>1. call[a].pc = "unregCb" /\ UNCHANGED <<held, hurt, module>>
    BY <1>6 DEF UnregisterCallback, At
  <2> QED
    BY <1>6, <2>1, UnregisterCallbackCall DEF Closing, Same, module
<1> QED
  BY <1>1, <1>2, <1>3, <1>4, <1>5, <1>6 DEF Calls

LEMMA CloseCallCall ==
    ASSUME TypedCalls, App \in Actors, NEW h \in Handles, CloseCall(h)
    PROVE  /\ call[App].pc = "idle" /\ call'[App].pc = "shut" /\ call'[App].op = "close"
           /\ call'[App].h = h /\ Others(App)
<1>1. call'[App] = [NoCall EXCEPT !.pc = "shut", !.op = "close", !.h = h] /\ Others(App)
  BY Updates DEF CloseCall
<1>2. call[App].pc = "idle"
  BY DEF CloseCall, At
<1> QED
  BY <1>1, <1>2 DEF NoCall

LEMMA SpeedCallCall ==
    ASSUME TypedCalls, App \in Actors, NEW h \in Handles, SpeedCall(h)
    PROVE  /\ call[App].pc = "idle" /\ call'[App].pc = "lock" /\ call'[App].op = "speed"
           /\ call'[App].h = h /\ Others(App)
<1>1. call'[App] = [NoCall EXCEPT !.pc = "lock", !.op = "speed", !.h = h] /\ Others(App)
  BY Updates DEF SpeedCall
<1>2. call[App].pc = "idle"
  BY DEF SpeedCall, At
<1> QED
  BY <1>1, <1>2 DEF NoCall

\* How the application comes to be opening or closing
LEMMA AppOwnKeeps ==
    ASSUME TypedCalls, App \in Actors, AppOwn
    PROVE  /\ call[App].pc \in Opening => FALSE
           /\ call'[App].pc \in Opening =>
                \E kind \in {Recorders, Players}, m \in Modes : OpenCall(kind, m)
           /\ call'[App].pc \in Closing => \E h \in Handles : CloseCall(h)
<1>1. ASSUME NEW kind \in {Recorders, Players}, NEW m \in Modes, OpenCall(kind, m)
      PROVE  call[App].pc = "idle" /\ call'[App].pc \in {"idle", "find"}
  BY <1>1, OpenCallMoves DEF OpenCall, At
<1>2. ASSUME NEW h \in Handles, CloseCall(h)
      PROVE  call[App].pc = "idle" /\ call'[App].pc = "shut"
  BY <1>2, CloseCallCall
<1>3. ASSUME NEW h \in Handles, SpeedCall(h)
      PROVE  call[App].pc = "idle" /\ call'[App].pc = "lock"
  BY <1>3, SpeedCallCall
<1>4. ASSUME NEW h \in Handles, CloseReturns(h) \/ CloseFails(h)
      PROVE  call[App].pc = "closed" /\ call'[App].pc = "idle"
  BY <1>4, ReturnCall DEF CloseReturns, CloseFails, At
<1>5. CASE SpeedLock \/ SpeedUnlock
  BY <1>5, ReturnCall, GotoCall DEF SpeedLock, SpeedUnlock, At, Opening, Closing
<1> QED
  BY <1>1, <1>2, <1>3, <1>4, <1>5 DEF AppOwn, Opening, Closing

LEMMA NumbersStep ==
    ASSUME RInv, SessionNumbers, [Next]_vars
    PROVE  SessionNumbers'
<1> USE Parts
<1>1. opens \in Nat /\ opens \in 0..MaxOpens /\ None \notin 1..opens
  <2>1. opens \in 0..MaxOpens /\ MaxOpens \in Nat
    BY ConstantsAssumption DEF TypedRest
  <2> QED
    BY <2>1, Kinds DEF Sessions
<1>2. ASSUME UNCHANGED <<opens, held, hurt>>,
             call'[App].pc \in Opening => /\ call[App].pc \in Opening
                                          /\ call'[App].cb = call[App].cb
                                          /\ call'[App].ud = call[App].ud
      PROVE  SessionNumbers'
  BY <1>2 DEF SessionNumbers
<1>3. CASE NoCalls
  BY <1>2, <1>3, NoCallsFrame
<1>4. ASSUME NEW t \in Tasks, TaskOwn(t)
      PROVE  SessionNumbers'
  <2>1. call'[App] = call[App] /\ UNCHANGED <<opens, held, hurt>>
    BY <1>4, TaskOwnFrame DEF Others
  <2> QED
    BY <1>2, <2>1
<1>5. ASSUME NEW a \in Actors, UNCHANGED <<opens, held>>, Others(a),
             hurt' \subseteq hurt \cup ({held[call[a].h]} \ {None}), call[a].h \in Handles,
             a = App => call'[App].pc \notin Opening
      PROVE  SessionNumbers'
  BY <1>1, <1>5 DEF SessionNumbers, Others
<1>6. ASSUME NEW a \in Actors, Calls(a)
      PROVE  SessionNumbers'
  <2>1. call[a].h \in Handles
    BY <1>6, CallsFrame, CallerHasHandle
  <2>2. CASE EngineOpen(a) /\ a = App
    <3>1. call'[App] = NoCall /\ call[App].pc = "engine" /\ opens' = opens /\ hurt' = hurt
      BY <2>2, EngineOpenCall DEF EngineOpen, At, module
    <3>2. held' = held \/ held' = [held EXCEPT ![call[App].h] = call[App].cb]
      BY <2>2 DEF EngineOpen
    <3>3. call[App].cb = opens /\ opens \in 1..MaxOpens /\ \A h \in Handles : held[h] # opens
      BY <3>1 DEF SessionNumbers, Opening
    <3>4. held \in [Handles -> Sessions \cup {None}]
      BY DEF TypedRest
    <3>5. call'[App].pc \notin Opening
      BY <3>1 DEF NoCall, Opening
    <3>6. \A h \in Handles : held'[h] = held[h] \/ (h = call[App].h /\ held'[h] = opens)
      BY <3>2, <3>3, <3>4
    <3>7. /\ \A h \in Handles : held'[h] # None => held'[h] \in 1..opens
          /\ \A h, k \in Handles : held'[h] = held'[k] /\ held'[h] # None => h = k
      BY <1>1, <3>3, <3>6 DEF SessionNumbers
    <3> QED
      BY <3>1, <3>5, <3>7 DEF SessionNumbers
  <2>3. CASE EngineOpen(a) /\ a # App
    BY <1>5, <2>1, <2>3, EngineOpenCall DEF EngineOpen, module
  <2>4. CASE EngineClose(a)
    BY <1>5, <2>1, <2>4, CloseCallMoves DEF EngineClose, module, Opening
  <2>5. CASE ~EngineOpen(a) /\ ~EngineClose(a)
    <3>1. Others(a) /\ UNCHANGED <<opens, held, hurt>>
      BY <1>6, <2>5, CallsFrame, CallsKeep
    <3>2. call'[App].pc \in Opening =>
             /\ call[App].pc \in Opening
             /\ call'[App].cb = call[App].cb /\ call'[App].ud = call[App].ud
      BY <1>6, <2>5, <3>1, CallsKeep DEF Others, Same, Opening, Closing
    <3> QED
      BY <1>2, <3>1, <3>2
  <2> QED
    BY <2>2, <2>3, <2>4, <2>5
<1>7. CASE AppOwn
  <2>1. ASSUME NEW kind \in {Recorders, Players}, NEW m \in Modes, OpenCall(kind, m)
        PROVE  SessionNumbers'
    <3>1. opens' = opens + 1 /\ opens < MaxOpens /\ UNCHANGED <<held, hurt>>
          /\ call[App].pc = "idle"
      BY <2>1 DEF OpenCall, At
    <3>2. call'[App].pc \in Opening => call'[App].cb = opens + 1 /\ call'[App].ud = opens + 1
      BY <2>1, <3>1, OpenCallMoves DEF Opening
    <3>3. opens' \in 1..MaxOpens /\ opens' \notin 1..opens /\ 1..opens \subseteq 1..opens'
          /\ None # opens'
      <4>1. MaxOpens \in Nat
        BY ConstantsAssumption
      <4>2. opens' \in 1..MaxOpens /\ opens' \notin 1..opens /\ 1..opens \subseteq 1..opens'
        BY <1>1, <3>1, <4>1
      <4> QED
        BY <4>2, Kinds DEF Sessions
    <3> QED
      BY <3>1, <3>2, <3>3 DEF SessionNumbers
  <2>2. ASSUME NEW h \in Handles, CloseReturns(h)
        PROVE  SessionNumbers'
    <3>1. held' = [held EXCEPT ![h] = None] /\ hurt' = hurt \ {held[h]} /\ opens' = opens
      BY <2>2 DEF CloseReturns, module
    <3>2. call'[App].pc = "idle"
      BY <2>2, ReturnCall DEF CloseReturns
    <3>3. \A k \in Handles : held'[k] = IF k = h THEN None ELSE held[k]
      BY <3>1 DEF TypedRest
    <3>4. \A k, l \in Handles : held'[k] = held'[l] /\ held'[k] # None => k = l
      BY <3>3 DEF SessionNumbers
    <3>5. \A k \in Handles : held'[k] # None => held'[k] \in 1..opens
      BY <3>3 DEF SessionNumbers
    <3> QED
      BY <3>1, <3>2, <3>4, <3>5 DEF SessionNumbers, Opening
  <2>3. ASSUME NEW h \in Handles, CloseCall(h) \/ SpeedCall(h) \/ CloseFails(h)
        PROVE  SessionNumbers'
    <3>1. UNCHANGED <<opens, held, hurt>>
      BY <2>3 DEF CloseCall, SpeedCall, CloseFails, module
    <3>2. call'[App].pc \notin Opening
      BY <2>3, CloseCallCall, SpeedCallCall, ReturnCall DEF CloseFails, Opening
    <3> QED
      BY <1>2, <3>1, <3>2
  <2>4. CASE SpeedLock \/ SpeedUnlock
    <3>1. UNCHANGED <<opens, held, hurt>>
      BY <2>4 DEF SpeedLock, SpeedUnlock, module
    <3>2. call'[App].pc \notin Opening
      BY <2>4, ReturnCall, GotoCall DEF SpeedLock, SpeedUnlock, Opening
    <3> QED
      BY <1>2, <3>1, <3>2
  <2> QED
    BY <1>7, <2>1, <2>2, <2>3, <2>4 DEF AppOwn
<1> QED
  BY <1>3, <1>4, <1>6, <1>7, StepOf

LEMMA InitedStep ==
    ASSUME RInv, InitedWhenUsed, [Next]_vars
    PROVE  InitedWhenUsed'
<1> USE Parts
<1>1. ASSUME inited' = inited, held' = held,
             call'[App].pc \in Opening => call[App].pc \in Opening \/ inited
      PROVE  InitedWhenUsed'
  BY <1>1 DEF InitedWhenUsed
<1>2. CASE ModuleInit
  <2>1. (inited => inited') /\ UNCHANGED <<call, held>>
    BY <1>2 DEF ModuleInit
  <2> QED
    BY <2>1 DEF InitedWhenUsed
<1>3. CASE ModuleDeinit
  <2>1. (\A h \in Handles : held[h] = None) /\ call[App].pc = "idle" /\ UNCHANGED <<call, held>>
    BY <1>3 DEF ModuleDeinit, At
  <2> QED
    BY <2>1 DEF InitedWhenUsed, Opening
<1>4. CASE NoCalls /\ ~ModuleInit /\ ~ModuleDeinit
  <2>1. UNCHANGED <<inited, call, held>>
    BY <1>4 DEF NoCalls, vars, EndOfRecording, CallBack, Announce, TaskEnds, module
  <2> QED
    BY <1>1, <2>1
<1>5. ASSUME NEW t \in Tasks, TaskOwn(t)
      PROVE  InitedWhenUsed'
  BY <1>1, <1>5, TaskOwnFrame DEF Others
<1>6. ASSUME NEW a \in Actors, Calls(a)
      PROVE  InitedWhenUsed'
  <2>1. CASE EngineOpen(a) /\ a = App
    <3>1. call[App].pc = "engine" /\ inited' = inited
      BY <2>1 DEF EngineOpen, At, module
    <3> QED
      BY <3>1 DEF InitedWhenUsed, Opening
  <2>2. CASE EngineOpen(a) /\ a # App
    BY <1>1, <2>2, EngineOpenCall DEF EngineOpen, module, Others
  <2>3. CASE ~EngineOpen(a)
    <3>1. Others(a) /\ UNCHANGED <<inited, held>>
      BY <1>6, <2>3, CallsFrame, CallsKeep
    <3>2. call'[App].pc \in Opening => call[App].pc \in Opening
      BY <1>6, <2>3, <3>1, CallsKeep DEF Others, Opening, Closing
    <3> QED
      BY <1>1, <3>1, <3>2
  <2> QED
    BY <2>1, <2>2, <2>3
<1>7. CASE AppOwn
  <2>1. inited' = inited
    BY <1>7 DEF AppOwn, OpenCall, CloseCall, SpeedCall, CloseReturns, CloseFails, SpeedLock,
                SpeedUnlock, module
  <2>2. call'[App].pc \in Opening => inited
    BY <1>7, AppOwnKeeps DEF OpenCall
  <2>3. \A h \in Handles : held'[h] # None => held[h] # None
    BY <1>7 DEF AppOwn, OpenCall, CloseCall, SpeedCall, CloseReturns, CloseFails, SpeedLock,
                SpeedUnlock, TypedRest
  <2> QED
    BY <2>1, <2>2, <2>3 DEF InitedWhenUsed
<1> QED
  BY <1>2, <1>3, <1>4, <1>5, <1>6, <1>7, StepOf

LEMMA LibraryStep ==
    ASSUME RInv, LibraryOpen, [Next]_vars
    PROVE  LibraryOpen'
<1> USE Parts DEF LibraryOpen
<1>1. CASE lib' = lib /\ engine' = engine
  BY <1>1
<1>2. ASSUME NEW h \in Handles, engine[h] # None, engine' = engine,
             lib' = [lib EXCEPT ![h] = lib'[h]]
      PROVE  LibraryOpen'
  BY <1>2 DEF TypedLib
<1>3. ASSUME NEW h \in Handles, CallBack(h) \/ \E start \in BOOLEAN : Announce(h, start)
      PROVE  LibraryOpen'
  <2>1. engine[h] # None /\ engine' = engine
    BY <1>3 DEF CallBack, Announce
  <2>2. lib' = [lib EXCEPT ![h] = lib'[h]]
    BY <1>3 DEF CallBack, Announce, Finds, TypedLib
  <2> QED
    BY <1>2, <2>1, <2>2
<1>4. ASSUME NEW a \in Actors, EngineOpen(a) \/ EngineClose(a)
      PROVE  LibraryOpen'
  <2>1. call[a].h \in Handles
    BY <1>4, CallerHasHandle DEF EngineOpen, EngineClose, At, InReplay, Opening, Closing
  <2>2. CASE EngineOpen(a)
    <3>1. engine[call[a].h] = None \/ engine' = engine
      BY <2>2 DEF EngineOpen
    <3>2. \A k \in Handles \ {call[a].h} : engine'[k] = engine[k]
      BY <2>2 DEF EngineOpen, TypedRest
    <3> QED
      BY <2>2, <3>1, <3>2 DEF EngineOpen
  <2>3. CASE EngineClose(a)
    <3>1. lib[call[a].h] = Quiet /\ lib' = lib
      BY <2>3 DEF EngineClose
    <3>2. \A k \in Handles \ {call[a].h} : engine'[k] = engine[k]
      BY <2>3 DEF EngineClose, TypedRest
    <3> QED
      BY <3>1, <3>2
  <2> QED
    BY <1>4, <2>2, <2>3
<1>5. ASSUME NEW h \in Handles, CloseReturns(h)
      PROVE  LibraryOpen'
  BY <1>5 DEF CloseReturns, TypedRest
<1>6. CASE ModuleDeinit
  BY <1>6 DEF ModuleDeinit
<1>7. lib' = lib \/ engine' = engine
  BY LibFrame DEF CallBack, Announce
<1> QED
  BY <1>1, <1>3, <1>4, <1>5, <1>6, LibFrame, EngineFrame

LEMMA ClosesStep ==
    ASSUME RInv, AppCloses, [Next]_vars
    PROVE  AppCloses'
<1> USE Parts
<1>1. ASSUME held' = held, hurt \subseteq hurt', call'[App] = call[App]
      PROVE  AppCloses'
  BY <1>1 DEF AppCloses
<1>2. CASE NoCalls
  BY <1>1, <1>2, NoCallsFrame
<1>3. ASSUME NEW t \in Tasks, TaskOwn(t)
      PROVE  AppCloses'
  BY <1>1, <1>3, TaskOwnFrame DEF Others
<1>4. ASSUME NEW a \in Actors, Calls(a)
      PROVE  AppCloses'
  <2>1. CASE a # App
    <3>1. held' = held /\ hurt \subseteq hurt'
      BY <1>4, <2>1, CallsKeep, CloseCallMoves DEF EngineOpen
    <3> QED
      BY <1>1, <1>4, <2>1, <3>1, CallsFrame DEF Others
  <2>2. CASE a = App /\ EngineOpen(a)
    BY <2>2, EngineOpenCall DEF AppCloses, NoCall, Closing
  <2>3. CASE a = App /\ EngineClose(a)
    <3>1. /\ call'[App].h = call[App].h /\ held' = held /\ call[App].pc \in Closing
          /\ ~call'[App].ok => hurt' = hurt \cup ({held[call[App].h]} \ {None})
      BY <2>3, CloseCallMoves DEF EngineClose, At, Same, Closing
    <3> QED
      BY <3>1 DEF AppCloses
  <2>4. CASE a = App /\ ~EngineOpen(a) /\ ~EngineClose(a)
    <3>1. /\ call'[App].h = call[App].h /\ call'[App].ok = call[App].ok
          /\ held' = held /\ hurt' = hurt
          /\ \/ call[App].pc \in Opening /\ call'[App].pc \in Opening
             \/ call[App].pc \in Closing /\ call'[App].pc \in Closing
      BY <1>4, <2>4, CallsKeep DEF Same
    <3>2. call[App].pc # "shut"
      BY <1>4, <2>4 DEF Calls, Find, Write, SetUserData, Unregister, UnregisterCallback, At
    <3> QED
      BY <3>1, <3>2 DEF AppCloses, Opening, Closing
  <2> QED
    BY <2>1, <2>2, <2>3, <2>4
<1>5. CASE AppOwn
  <2>1. CASE call'[App].pc \notin Closing
    BY <2>1 DEF AppCloses
  <2>2. ASSUME NEW h \in Handles, CloseCall(h)
        PROVE  AppCloses'
    BY <2>2, CloseCallCall DEF CloseCall, AppCloses
  <2> QED
    BY <1>5, <2>1, <2>2, AppOwnKeeps
<1> QED
  BY <1>2, <1>3, <1>4, <1>5, StepOf

LEMMA BooksHold == Spec => []Books
<1>1. Init => Books
  <2> SUFFICES ASSUME Init PROVE Books
    OBVIOUS
  <2>1. call[App].pc = "idle"
    BY Kinds DEF Init, NoCall
  <2>2. SessionNumbers
    BY <2>1 DEF Init, SessionNumbers, Opening
  <2> QED
    BY <2>1, <2>2 DEF Init, Books, InitedWhenUsed, LibraryOpen, AppCloses, Opening, Closing
<1>2. RInv /\ Books /\ [Next]_vars => Books'
  BY NumbersStep, InitedStep, LibraryStep, ClosesStep DEF Books
<1> QED
  BY <1>1, <1>2, RInvHolds, PTL DEF Spec

(***************************************************************************)
(* Only one actor works on the table and the player at a time, while no     *)
(* replay has met a call of the application.                                *)
(***************************************************************************)
Working(a) == call[a].pc \in InReplay

LEMMA ReplayingTasks ==
    ASSUME RInv
    PROVE  Replaying = {t \in Tasks : Working(t)}
BY Parts, Kinds DEF Replaying, Working, TaskCalls, TaskCall

LEMMA OneWorker ==
    ASSUME RInv, ReplayAlone, NEW a \in Actors, NEW b \in Actors, Working(a), Working(b)
    PROVE  a = b
<1> USE Parts
<1>1. CASE a \in Tasks /\ b \in Tasks
  BY <1>1 DEF MutexHeld, Holding, Working
<1>2. Working(App) => call[App].pc \in Opening \cup Closing
  BY DEF Working, AppCall, InReplay
<1>3. CASE (a = App /\ b \in Tasks) \/ (a \in Tasks /\ b = App)
  BY <1>2, <1>3, ReplayingTasks DEF ReplayAlone
<1> QED
  BY <1>1, <1>3

\* A session held without a failure was so before, or has just been opened.
LEMMA HeldBefore ==
    ASSUME RInv, SessionNumbers, [Next]_vars, NEW h \in Handles, Holds(h)'
    PROVE  \/ Holds(h) /\ held'[h] = held[h]
           \/ /\ EngineOpen(App) /\ h = call[App].h /\ engine[h] = None
              /\ held'[h] = call[App].cb /\ engine'[h] = call[App].cb
<1> USE Parts
<1>1. CASE held' = held /\ hurt \subseteq hurt'
  BY <1>1 DEF Holds
<1>2. CASE EngineOpen(App)
  <2>1. CASE held' = held
    BY <1>2, <2>1 DEF EngineOpen, Holds
  <2>2. CASE /\ engine[call[App].h] = None
             /\ engine' = [engine EXCEPT ![call[App].h] = call[App].cb]
             /\ held' = [held EXCEPT ![call[App].h] = call[App].cb] /\ hurt' = hurt
    BY <1>2, <2>2 DEF Holds, TypedRest
  <2> QED
    BY <1>2, <2>1, <2>2 DEF EngineOpen
<1>3. ASSUME NEW k \in Handles, CloseReturns(k)
      PROVE  Holds(h) /\ held'[h] = held[h]
  <2>1. held' = [held EXCEPT ![k] = None] /\ hurt' = hurt \ {held[k]}
    BY <1>3 DEF CloseReturns
  <2>2. h # k /\ held'[h] = held[h] /\ held[h] # None
    BY <2>1 DEF Holds, TypedRest
  <2>3. held[h] # held[k]
    BY <2>2 DEF SessionNumbers
  <2> QED
    BY <2>1, <2>2, <2>3 DEF Holds
<1> QED
  BY <1>1, <1>2, <1>3, HeldFrame

LEMMA ReplayAloneStep ==
    ASSUME RInv, RInv', Undisturbed, [Next]_vars, ~overlap'
    PROVE  ReplayAlone'
<1> USE Parts DEF Undisturbed
<1>1. ASSUME held' = held, call'[App].pc \notin Opening \cup Closing \/ call'[App] = call[App],
             \A t \in Tasks : call'[t].op = "replay" =>
                call[t].op = "replay" /\ call'[t].h = call[t].h
      PROVE  ReplayAlone'
  BY <1>1 DEF ReplayAlone, Replaying
<1>2. CASE NoCalls
  BY <1>1, <1>2, NoCallsFrame
<1>3. CASE AppOwn
  <2>1. \A t \in Tasks : call'[t] = call[t]
    BY <1>3, AppOwnFrame DEF Others
  <2>2. CASE Replaying = {}
    BY <2>1, <2>2 DEF ReplayAlone, Replaying
  <2>3. CASE Replaying # {}
    <3>1. /\ ~\E kind \in {Recorders, Players}, m \in Modes : OpenCall(kind, m)
          /\ ~\E h \in Handles : CloseCall(h)
      BY <2>3 DEF OpenCall, CloseCall
    <3>2. \A h \in Handles : ~CloseReturns(h)
      BY <2>3 DEF ReplayAlone, CloseReturns, At, Closing
    <3>3. held' = held
      BY <1>3, <3>2 DEF AppOwn, OpenCall, CloseCall, SpeedCall, CloseFails, SpeedLock, SpeedUnlock
    <3>4. call'[App].pc \notin Opening \cup Closing
      BY <1>3, <3>1, AppOwnKeeps
    <3> QED
      BY <1>1, <2>1, <3>3, <3>4
  <2> QED
    BY <2>2, <2>3
<1>4. ASSUME NEW a \in Actors, Calls(a)
      PROVE  ReplayAlone'
  <2>1. CASE a = App
    <3>1. Replaying = {}
      <4>1. Working(App)
        BY <1>4, <2>1, CallsFrame DEF Working
      <4> QED
        BY <4>1, OneWorker, ReplayingTasks
    <3>2. Replaying' = {}
      BY <1>4, <2>1, <3>1, CallsFrame DEF Others, Replaying
    <3> QED
      BY <3>2 DEF ReplayAlone
  <2>2. CASE a # App
    <3>1. Others(a)
      BY <1>4, CallsFrame
    <3>2. call'[a].h = call[a].h /\ call'[a].op = call[a].op /\ held' = held
      BY <1>4, <2>2, EngineOpenCall, CallsKeep DEF Same, EngineOpen
    <3> QED
      BY <1>1, <2>2, <3>1, <3>2 DEF Others
  <2> QED
    BY <2>1, <2>2
<1>5. ASSUME NEW t \in Tasks, TaskOwn(t)
      PROVE  ReplayAlone'
  <2>1. Others(t) /\ held' = held
    BY <1>5, TaskOwnFrame
  <2>2. CASE ReplayLock(t)
    <3>1. held[call[t].h] # None /\ call[App].op \notin {"open", "close"} /\ mutex = None
      BY <2>2 DEF ReplayLock
    <3>2. call'[App].pc \notin Opening \cup Closing
      BY <2>1, <3>1 DEF AppCall, Others, Opening, Closing
    <3>3. Replaying = {}
      BY <3>1, ReplayingTasks, Kinds DEF MutexHeld, Holding, Working
    <3>4. \A u \in Tasks : call'[u].op = "replay" => u = t /\ call'[u].h = call[t].h
      BY <2>1, <2>2, <3>3, ReplayLockCall DEF Replaying, Others
    <3> QED
      BY <2>1, <3>1, <3>2, <3>4 DEF ReplayAlone, Replaying
  <2>3. CASE ReplayOpen(t)
    <3>1. call[t].pc = "closed" /\ call[t].op = "replay" /\ call[t].h \in Players
      BY <2>3 DEF ReplayOpen, At, TaskCalls, TaskCall, InReplay, Closing
    <3>2. call'[t].h \in Players
      BY <2>3, <3>1, ReplayOpenCall DEF FreeIn
    <3> QED
      BY <1>1, <2>1, <3>1, <3>2, ConstantsAssumption DEF Others
  <2>4. CASE Receive(t) \/ ReplayPlay(t) \/ Notify(t)
    <3>1. call'[t].op # "replay"
      BY <2>4, ReceiveCall, ReplayPlayCall, ReturnCall, Kinds DEF Notify
    <3> QED
      BY <1>1, <2>1, <3>1 DEF Others
  <2> QED
    BY <1>5, <2>2, <2>3, <2>4 DEF TaskOwn
<1> QED
  BY <1>2, <1>3, <1>4, <1>5, StepOf

LEMMA OpensFreshStep ==
    ASSUME RInv, SessionNumbers, Undisturbed, [Next]_vars, ~overlap'
    PROVE  OpensFresh'
<1> USE Parts DEF Undisturbed
<1> SUFFICES ASSUME NEW h, h = call'[App].h, call'[App].pc \in Opening, Holds(h)'
             PROVE  FALSE
  BY DEF OpensFresh, Holds
<1>1. ASSUME NEW kind \in {Recorders, Players}, NEW m \in Modes, OpenCall(kind, m)
      PROVE  FALSE
  <2>1. h \in Handles /\ engine[h] = None
    BY <1>1, OpenCallMoves DEF OpenCall, At, Opening
  <2>2. Holds(h)
    BY <1>1, <2>1, HeldBefore DEF OpenCall, EngineOpen, At
  <2>3. Shut(h)
    <3>1. engine[h] # held[h]
      BY <2>1, <2>2 DEF Holds
    <3> QED
      BY <2>1, <2>2, <3>1 DEF AllSettled, Settled
  <2>4. PICK a \in Actors : call[a].op \in {"close", "replay"}
    BY <2>3 DEF Shut, ShutBy
  <2>5. a \in Tasks /\ call[a].op = "replay"
    BY <1>1, <2>4, Kinds DEF OpenCall, At, AppCall, Opening, Closing, TaskCalls, TaskCall
  <2> QED
    BY <1>1, <2>5 DEF OpenCall, Replaying
<1>2. CASE call[App].pc \in Opening /\ call'[App].h = call[App].h /\ ~EngineOpen(App)
  <2>1. h \in Handles
    BY <1>2, CallerHasHandle DEF InReplay
  <2> QED
    BY <1>2, <2>1, HeldBefore DEF OpensFresh
<1>3. ~EngineOpen(App)
  BY EngineOpenCall DEF NoCall, Opening
<1>4. call'[App] = call[App] \/ Calls(App) \/ AppOwn
  BY CallFrame
<1>5. Calls(App) => call[App].pc \in Opening /\ call'[App].h = call[App].h
  BY <1>3, CallsKeep DEF Same, Opening, Closing
<1> QED
  BY <1>1, <1>2, <1>3, <1>4, <1>5, AppOwnKeeps

LEMMA OneSlotStep ==
    ASSUME RInv, Undisturbed, [Next]_vars
    PROVE  OneSlot'
<1> USE Parts DEF Undisturbed, OneSlot
<1>1. CASE table' = table
  BY <1>1
<1>2. CASE ModuleInit
  BY <1>2 DEF ModuleInit, NoSlot
<1>3. ASSUME NEW a \in Actors, Write(a)
      PROVE  OneSlot'
  <2> DEFINE c == call[a]
  <2>1. c.slot \in Slots /\ table' = [table EXCEPT ![c.slot].cb = c.cb,
                                                   ![c.slot].h = IF c.new THEN c.h ELSE @]
    BY <1>3, SlotsCounted DEF Write, At, CallsInTable, InTable
  <2>2. \A i \in Slots : table'[i].h = IF i = c.slot /\ c.new THEN c.h ELSE table[i].h
    BY <2>1 DEF TypedTable
  <2>3. c.new => \A i \in Slots : table[i].h # c.h
    BY <1>3 DEF Write, At, CallsInTable, InTable, SlotsOf
  <2> QED
    BY <2>2, <2>3
<1>4. ASSUME NEW a \in Actors, SetUserData(a)
      PROVE  OneSlot'
  <2>1. \A i \in Slots : table'[i].h = table[i].h
    BY <1>4 DEF SetUserData, TypedTable
  <2> QED
    BY <2>1
<1>5. ASSUME NEW a \in Actors, Unregister(a)
      PROVE  OneSlot'
  <2>1. table' = table \/ \E n : table' = [table EXCEPT ![n].h = None, ![n].ud = None]
    BY <1>5, UnregisterCall
  <2>2. \A i \in Slots : table'[i].h \in {table[i].h, None}
    BY <2>1 DEF TypedTable
  <2> QED
    BY <2>2
<1>6. ASSUME NEW a \in Actors, UnregisterCallback(a)
      PROVE  OneSlot'
  <2>1. \A i \in Slots : table'[i].h = table[i].h
    BY <1>6 DEF UnregisterCallback, TypedTable
  <2> QED
    BY <2>1
<1> QED
  BY <1>1, <1>2, <1>3, <1>4, <1>5, <1>6, TableFrame

\* There are as many slots as handles, so one is free for a handle without one.
LEMMA FreeSlotThere ==
    ASSUME RInv, OneSlot, CleanFree, NEW h \in Handles, SlotsOf(h) = {},
           \A a \in Actors : call[a].pc # "unregCb"
    PROVE  FreeSlots # {}
<1> USE Parts
<1> SUFFICES ASSUME FreeSlots = {} PROVE FALSE
  OBVIOUS
<1> DEFINE f == [i \in Slots |-> table[i].h]
<1>1. \A i \in Slots : table[i].h \in Handles \ {h}
  <2> SUFFICES ASSUME NEW i \in Slots PROVE table[i].h \in Handles \ {h}
    OBVIOUS
  <2>1. table[i].h # h /\ (table[i].h # None \/ table[i].cb # None)
    BY DEF SlotsOf, FreeSlots
  <2>2. table[i].h # None
    BY <2>1 DEF CleanFree, Clearing
  <2> QED
    BY <2>1, <2>2 DEF TypedTable
<1>2. f \in [Slots -> Handles \ {h}]
  BY <1>1
<1>3. /\ IsFiniteSet(Handles \ {h})
      /\ Cardinality(Handles \ {h}) = Cardinality(Handles) - 1
  BY ConstantsAssumption, FS_RemoveElement
<1>4. IsFiniteSet(Slots) /\ Cardinality(Handles \ {h}) < Cardinality(Slots)
  BY <1>3, SlotsCounted
<1> HIDE DEF f
<1>5. PICK x, y \in Slots : x # y /\ f[x] = f[y]
  BY <1>2, <1>3, <1>4, FS_PigeonHole
<1>6. table[x].h = table[y].h /\ table[x].h # None
  BY <1>1, <1>5, Kinds DEF f
<1> QED
  BY <1>5, <1>6 DEF OneSlot

LEMMA AppOwnPhase ==
    ASSUME TypedCalls, App \in Actors, AppOwn
    PROVE  /\ call[App].pc \in {"idle", "closed", "lock", "speed"}
           /\ call'[App].pc \in {"idle", "find", "shut", "lock", "speed"}
<1>1. ASSUME NEW kind \in {Recorders, Players}, NEW m \in Modes, OpenCall(kind, m)
      PROVE  call[App].pc = "idle" /\ call'[App].pc \in {"idle", "find"}
  BY <1>1, OpenCallMoves DEF OpenCall, At
<1>2. ASSUME NEW h \in Handles, CloseReturns(h) \/ CloseFails(h)
      PROVE  call[App].pc = "closed" /\ call'[App].pc = "idle"
  BY <1>2, ReturnCall DEF CloseReturns, CloseFails, At
<1>3. CASE SpeedLock \/ SpeedUnlock
  BY <1>3, ReturnCall, GotoCall DEF SpeedLock, SpeedUnlock, At
<1> QED
  BY <1>1, <1>2, <1>3, CloseCallCall, SpeedCallCall DEF AppOwn

LEMMA TaskOwnPhase ==
    ASSUME TypedCalls, TypedQueue, NEW t \in Tasks, t \in Actors, TaskOwn(t)
    PROVE  /\ call[t].pc \in {"idle", "lock", "closed", "play", "notify"}
           /\ call'[t].pc \in {"idle", "lock", "notify", "shut", "find", "play"}
BY ReceiveCall, ReplayLockCall, ReplayOpenCall, ReplayPlayCall, ReturnCall
   DEF TaskOwn, Notify, At

LEMMA ClearingStays ==
    ASSUME RInv, [Next]_vars, NEW a \in Actors, NEW i, Clearing(a, i)
    PROVE  Clearing(a, i)' \/ UnregisterCallback(a)
<1> USE Parts
<1>1. CASE call'[a] = call[a]
  BY <1>1 DEF Clearing
<1>2. CASE Calls(a)
  BY <1>2 DEF Clearing, Calls, Find, Write, SetUserData, EngineOpen, EngineClose, Unregister, At
<1>3. ~(a = App /\ AppOwn) /\ ~(a \in Tasks /\ TaskOwn(a))
  BY AppOwnPhase, TaskOwnPhase DEF Clearing
<1> QED
  BY <1>1, <1>2, <1>3, CallFrame

LEMMA CleanFreeStep ==
    ASSUME RInv, Undisturbed, [Next]_vars
    PROVE  CleanFree'
<1> USE Parts DEF Undisturbed
<1> SUFFICES ASSUME NEW i \in Slots, table'[i].h = None, table'[i].cb # None
             PROVE  \E a \in Actors : Clearing(a, i)'
  BY DEF CleanFree
<1>1. CASE table[i].h = None /\ table[i].cb # None
  <2>1. PICK a \in Actors : Clearing(a, i)
    BY <1>1 DEF CleanFree
  <2>2. ~UnregisterCallback(a)
    BY <2>1 DEF UnregisterCallback, Clearing, TypedTable
  <2> QED
    BY <2>1, <2>2, ClearingStays
<1>2. CASE table[i].h # None \/ table[i].cb = None
  <2>1. table' # table
    BY <1>2
  <2>2. ~ModuleInit
    BY DEF ModuleInit, NoSlot
  <2>3. ASSUME NEW a \in Actors, Write(a)
        PROVE  FALSE
    <3>1. call[a].h \in Handles
      BY <2>3, CallerHasHandle DEF Write, At, InReplay, Opening
    <3>2. /\ call[a].slot \in Slots
          /\ ~call[a].new => table[call[a].slot].h = call[a].h
          /\ table' = [table EXCEPT ![call[a].slot].cb = call[a].cb,
                          ![call[a].slot].h = IF call[a].new THEN call[a].h ELSE @]
      BY <2>3, SlotsCounted DEF Write, At, CallsInTable, InTable, SlotsOf
    <3>3. i # call[a].slot => table'[i] = table[i]
      BY <3>2 DEF TypedTable
    <3>4. i = call[a].slot => table'[i].h = call[a].h
      BY <3>2 DEF TypedTable
    <3> QED
      BY <1>2, <3>1, <3>3, <3>4, Kinds
  <2>4. ASSUME NEW a \in Actors, SetUserData(a)
        PROVE  FALSE
    <3>1. table'[i].h = table[i].h /\ table'[i].cb = table[i].cb
      BY <2>4 DEF SetUserData, TypedTable
    <3> QED
      BY <1>2, <3>1
  <2>5. ASSUME NEW a \in Actors, Unregister(a)
        PROVE  Clearing(a, i)'
    <3>1. PICK n : /\ table' = [table EXCEPT ![n].h = None, ![n].ud = None]
                   /\ call'[a].pc = "unregCb" /\ call'[a].slot = n
      BY <2>1, <2>5, UnregisterCall
    <3>2. i # n => table'[i] = table[i]
      BY <3>1 DEF TypedTable
    <3> QED
      BY <1>2, <3>1, <3>2 DEF Clearing
  <2>6. ASSUME NEW a \in Actors, UnregisterCallback(a)
        PROVE  FALSE
    <3>1. table'[i].h = table[i].h /\ table'[i].cb \in {table[i].cb, None}
      BY <2>6 DEF UnregisterCallback, TypedTable
    <3> QED
      BY <1>2, <3>1
  <2> QED
    BY <2>1, <2>2, <2>3, <2>4, <2>5, <2>6, TableFrame
<1> QED
  BY <1>1, <1>2

LEMMA InTableStep ==
    ASSUME RInv, Books, Undisturbed, [Next]_vars
    PROVE  CallsInTable'
<1> USE Parts DEF Undisturbed
<1> SUFFICES ASSUME NEW a \in Actors PROVE InTable(a)'
  BY DEF CallsInTable
<1>1. CASE call'[a].pc \notin {"write", "data", "engine", "unregCb"}
  BY <1>1 DEF InTable
<1>2. CASE call'[a] = call[a] /\ call[a].pc \in {"write", "data", "engine", "unregCb"}
  <2>1. Working(a)
    BY <1>2 DEF Working, InReplay, Opening, Closing
  <2>2. ~ModuleInit
    <3>1. a = App => call[App].pc # "idle"
      BY <1>2
    <3>2. a # App => inited
      <4>1. a # App => held[call[a].h] # None /\ call[a].h \in Handles
        BY <2>1, ReplayingTasks, CallerHasHandle DEF ReplayAlone, Working
      <4> QED
        BY <4>1 DEF Books, InitedWhenUsed
    <3> QED
      BY <3>1, <3>2 DEF ModuleInit, At
  <2>3. ASSUME NEW b \in Actors,
               Write(b) \/ SetUserData(b) \/ Unregister(b) \/ UnregisterCallback(b)
        PROVE  FALSE
    <3>1. Working(b)
      BY <2>3 DEF Write, SetUserData, Unregister, UnregisterCallback, At, Working, InReplay,
                  Opening, Closing
    <3>2. b = a
      BY <2>1, <3>1, OneWorker
    <3>3. call'[b].pc # call[b].pc
      BY <2>3, WriteCall, GotoCall, UnregisterCall, UnregisterCallbackCall
         DEF Write, SetUserData, Unregister, UnregisterCallback, At
    <3> QED
      BY <1>2, <3>2, <3>3
  <2>4. table' = table
    BY <2>2, <2>3, TableFrame
  <2>5. InTable(a)
    BY DEF CallsInTable
  <2> QED
    BY <1>2, <2>4, <2>5 DEF InTable, SlotsOf, FreeSlots
<1>3. CASE Find(a)
  <2> DEFINE h == call[a].h
             slots == IF SlotsOf(h) # {} THEN SlotsOf(h) ELSE FreeSlots
  <2>1. h \in Handles /\ Working(a) /\ table' = table
    BY <1>3, CallerHasHandle DEF Find, At, Working, InReplay, Opening
  <2>2. \A b \in Actors : call[b].pc # "unregCb"
    <3>1. \A b \in Actors : Working(b) => b = a
      BY <2>1, OneWorker
    <3> QED
      BY <1>3, <3>1 DEF Find, At, Working, InReplay, Closing
  <2>3. slots # {} /\ slots \subseteq Slots
    BY <2>1, <2>2, FreeSlotThere, SlotsOfAreSlots
  <2>4. Min(slots) \in slots
    BY <2>3, MinIsMember
  <2>5. /\ call'[a].pc = "write" /\ call'[a].h = h /\ call'[a].new = (SlotsOf(h) = {})
        /\ call'[a].slot = Min(slots)
    BY <1>3, <2>3, FindCall DEF Same
  <2>6. call'[a].slot \in slots
    BY <2>4, <2>5
  <2> HIDE DEF slots
  <2>7. InTable(a)' <=> /\ call'[a].slot \in Slots
                        /\ SlotsOf(h) = {} => call'[a].slot \in FreeSlots
                        /\ SlotsOf(h) # {} => call'[a].slot \in SlotsOf(h)
    BY <2>1, <2>5 DEF InTable, SlotsOf, FreeSlots
  <2> QED
    BY <2>3, <2>6, <2>7 DEF slots
<1>4. CASE Write(a)
  <2> DEFINE n == call[a].slot
  <2>1. /\ call'[a].pc = "data" /\ call'[a].h = call[a].h /\ call'[a].cb = call[a].cb
    BY <1>4, WriteCall DEF Same
  <2>2. /\ n \in Slots /\ (~call[a].new => table[n].h = call[a].h)
        /\ table' = [table EXCEPT ![n].cb = call[a].cb,
                                  ![n].h = IF call[a].new THEN call[a].h ELSE @]
    <3>1. n \in Slots /\ (~call[a].new => table[n].h = call[a].h)
      BY <1>4 DEF Write, At, CallsInTable, InTable, SlotsOf
    <3>2. n # 0
      BY <3>1, SlotsCounted
    <3> QED
      BY <1>4, <3>1, <3>2 DEF Write
  <2>3. table'[n].h = call[a].h /\ table'[n].cb = call[a].cb
    BY <2>2 DEF TypedTable
  <2> QED
    BY <2>1, <2>2, <2>3 DEF InTable
<1>5. CASE SetUserData(a)
  <2>1. /\ call'[a].pc = "engine" /\ call'[a].h = call[a].h /\ call'[a].cb = call[a].cb
        /\ call'[a].ud = call[a].ud
    BY <1>5, GotoCall DEF SetUserData, Same
  <2>2. PICK i \in Slots : table[i].h = call[a].h /\ table[i].cb = call[a].cb
    BY <1>5 DEF SetUserData, At, CallsInTable, InTable
  <2>3. table'[i] = [h |-> call[a].h, cb |-> call[a].cb, ud |-> call[a].ud]
    BY <1>5, <2>2 DEF SetUserData, TypedTable
  <2> QED
    BY <2>1, <2>3 DEF InTable
<1>6. CASE Unregister(a)
  <2>1. CASE call'[a].pc = "closed"
    BY <2>1 DEF InTable
  <2>2. CASE call'[a].pc = "unregCb"
    <3>1. PICK n \in Slots : /\ table' = [table EXCEPT ![n].h = None, ![n].ud = None]
                             /\ call'[a].slot = n
      BY <1>6, <2>2, UnregisterCall, MinIsMember, SlotsOfAreSlots
    <3>2. table'[n].h = None
      BY <3>1 DEF TypedTable
    <3> QED
      BY <2>2, <3>1, <3>2 DEF InTable
  <2> QED
    BY <1>6, <2>1, <2>2, UnregisterCall
<1>7. CASE EngineOpen(a) \/ EngineClose(a) \/ UnregisterCallback(a)
  <2>1. call'[a].pc \notin {"write", "data", "engine", "unregCb"}
    BY <1>7, EngineOpenCall, CloseCallMoves, UnregisterCallbackCall DEF NoCall
  <2> QED
    BY <1>1, <2>1
<1> QED
  BY <1>1, <1>2, <1>3, <1>4, <1>5, <1>6, <1>7, CallFrame, AppOwnPhase, TaskOwnPhase DEF Calls

\* Who has closed the player and not opened it again: SettledStep follows it.
LEMMA ShutKept ==
    ASSUME RInv, [Next]_vars, NEW h,
           NEW a \in Actors, Others(a), ShutBy(a, h)' <=> ShutBy(a, h)
    PROVE  Shut(h)' <=> Shut(h)
BY DEF Shut, ShutBy, Others

LEMMA ShutWorks ==
    ASSUME RInv, NEW a \in Actors, NEW h, ShutBy(a, h)
    PROVE  Working(a) /\ h \in Handles
<1> USE Parts
<1>1. CASE a = App
  <2>1. call[App].op = "close"
    BY <1>1, Kinds DEF ShutBy, AppCall
  <2> QED
    BY <1>1, <2>1, Kinds DEF ShutBy, AppCall, Working, InReplay, Opening, Closing
<1>2. CASE a \in Tasks
  BY <1>2, Kinds DEF ShutBy, TaskCalls, TaskCall, Working, InReplay
<1> QED
  BY <1>1, <1>2

\* An owned slot stays what it is while another handle's is written or cleared.
LEMMA OwnedStays ==
    ASSUME RInv, Undisturbed, [Next]_vars, NEW h \in Handles, Owned(h),
           held'[h] = held[h], ~ModuleInit,
           \A a \in Actors : Write(a) \/ SetUserData(a) \/ Unregister(a) => call[a].h # h
    PROVE  Owned(h)'
<1> USE Parts DEF Undisturbed
<1>1. PICK i \in Slots : table[i] = [h |-> h, cb |-> held[h], ud |-> held[h]]
  BY DEF Owned
<1>2. table[i].h = h /\ h # None
  BY <1>1, Kinds
<1>3. ASSUME NEW a \in Actors, Write(a)
      PROVE  table'[i] = table[i]
  <2>1. call[a].h # h /\ call[a].slot \in Slots
        /\ (~call[a].new => table[call[a].slot].h = call[a].h)
        /\ (call[a].new => table[call[a].slot].h = None)
    BY <1>3 DEF Write, At, CallsInTable, InTable, SlotsOf, FreeSlots
  <2>2. call[a].slot # i
    BY <1>2, <2>1
  <2> QED
    BY <1>3, <2>2 DEF Write, TypedTable
<1>4. ASSUME NEW a \in Actors, SetUserData(a)
      PROVE  table'[i] = table[i]
  BY <1>2, <1>4 DEF SetUserData, TypedTable
<1>5. ASSUME NEW a \in Actors, Unregister(a)
      PROVE  table'[i] = table[i]
  <2>1. \/ table' = table
        \/ \E n \in SlotsOf(call[a].h) : table' = [table EXCEPT ![n].h = None, ![n].ud = None]
    BY <1>5, UnregisterCall, MinIsMember, SlotsOfAreSlots
  <2>2. i \notin SlotsOf(call[a].h)
    BY <1>2, <1>5 DEF SlotsOf
  <2> QED
    BY <2>1, <2>2 DEF TypedTable
<1>6. ASSUME NEW a \in Actors, UnregisterCallback(a)
      PROVE  table'[i] = table[i]
  <2>1. call[a].slot # i
    BY <1>2, <1>6 DEF UnregisterCallback, At, CallsInTable, InTable
  <2> QED
    BY <1>6, <2>1 DEF UnregisterCallback, TypedTable
<1>7. table'[i] = table[i]
  BY <1>3, <1>4, <1>5, <1>6, TableFrame
<1> QED
  BY <1>1, <1>7 DEF Owned

LEMMA NotShutUntouched ==
    ASSUME RInv, Undisturbed, NEW h \in Handles, Holds(h), ~Shut(h), NEW a \in Actors,
           Write(a) \/ SetUserData(a) \/ Unregister(a)
    PROVE  call[a].h # h
<1> USE Parts DEF Undisturbed
<1> SUFFICES ASSUME call[a].h = h PROVE FALSE
  OBVIOUS
<1>1. call[a].pc \in {"write", "data", "unreg"}
  BY DEF Write, SetUserData, Unregister, At
<1>2. CASE a = App
  BY <1>1, <1>2 DEF AppCall, OpensFresh, Opening, Closing, Shut, ShutBy
<1>3. CASE a \in Tasks
  BY <1>1, <1>3 DEF TaskCalls, TaskCall, InReplay, Opening, Closing, Shut, ShutBy
<1> QED
  BY <1>2, <1>3

LEMMA OnlyShutBy ==
    ASSUME RInv, Undisturbed, NEW h, NEW a \in Actors, Working(a), Others(a), ~ShutBy(a, h)'
    PROVE  ~Shut(h)'
<1> SUFFICES ASSUME NEW b \in Actors, ShutBy(b, h)' PROVE FALSE
  BY DEF Shut
<1>1. b # a
  OBVIOUS
<1>2. ShutBy(b, h)
  BY <1>1 DEF Others, ShutBy
<1> QED
  BY <1>1, <1>2, ShutWorks, OneWorker DEF Undisturbed

LEMMA SettledStep ==
    ASSUME RInv, Books, Undisturbed, [Next]_vars, ~overlap'
    PROVE  AllSettled'
<1> USE Parts DEF Undisturbed
<1> SUFFICES ASSUME NEW h \in Handles, Holds(h)'
             PROVE  Settled(h)'
  BY DEF AllSettled, Settled
<1>1. ASSUME EngineOpen(App), h = call[App].h, held'[h] = call[App].cb,
             engine'[h] = call[App].cb
      PROVE  Settled(h)'
  <2>1. call[App].pc = "engine" /\ Working(App) /\ table' = table
    BY <1>1 DEF EngineOpen, At, Working, InReplay, Opening
  <2>2. call[App].ud = call[App].cb
    BY <2>1 DEF Books, SessionNumbers, Opening
  <2>3. Owned(h)'
    BY <1>1, <2>1, <2>2 DEF CallsInTable, InTable, Owned
  <2>4. call'[App] = NoCall /\ Others(App)
    BY <1>1, EngineOpenCall
  <2>5. ~Shut(h)'
    BY <2>1, <2>4, OnlyShutBy, Kinds DEF ShutBy, NoCall
  <2> QED
    BY <1>1, <2>3, <2>5 DEF Settled
<1>2. CASE Holds(h) /\ held'[h] = held[h]
  <2>1. Settled(h) /\ held[h] # None
    BY <1>2 DEF AllSettled, Holds
  <2>2. ~ModuleInit /\ ~ModuleDeinit
    BY <2>1 DEF Books, InitedWhenUsed, ModuleInit, ModuleDeinit
  <2>3. ASSUME Shut(h)' <=> Shut(h), engine'[h] = engine[h]
        PROVE  Settled(h)'
    <3>1. ~Shut(h) => Owned(h)'
      BY <1>2, <2>1, <2>2, OwnedStays, NotShutUntouched DEF Settled
    <3> QED
      BY <1>2, <2>1, <2>3, <3>1 DEF Settled
  <2>4. CASE NoCalls
    <3>1. UNCHANGED <<call, engine>>
      BY <2>2, <2>4 DEF NoCalls, vars, EndOfRecording, CallBack, Announce, TaskEnds
    <3> QED
      BY <2>3, <3>1 DEF Shut, ShutBy
  <2>5. ASSUME NEW t \in Tasks, TaskOwn(t)
        PROVE  Settled(h)'
    <3>1. Others(t) /\ engine' = engine
      BY <2>5, TaskOwnFrame
    <3>2. ShutBy(t, h)' <=> ShutBy(t, h)
      <4>1. CASE Receive(t)
        BY <4>1, ReceiveCall, Kinds DEF ShutBy, TaskCalls, TaskCall, InReplay, Opening, Closing
      <4>2. CASE ReplayLock(t)
        BY <4>2, ReplayLockCall, Kinds
           DEF ShutBy, TaskCalls, TaskCall, InReplay, Opening, Closing
      <4>3. CASE ReplayPlay(t)
        BY <4>3, ReplayPlayCall, Kinds DEF ShutBy
      <4>4. CASE Notify(t)
        BY <4>4, ReturnCall, Kinds
           DEF Notify, At, ShutBy, TaskCalls, TaskCall, InReplay, Opening, Closing
      <4>5. CASE ReplayOpen(t)
        <5>1. call[t].pc = "closed" /\ call[t].op = "replay" /\ call[t].h \in Players
          BY <4>5 DEF ReplayOpen, At, TaskCalls, TaskCall, InReplay, Closing
        <5>2. CASE /\ call'[t].h \in FreeIn(Players) /\ call'[t].pc = "find"
                   /\ Same(t, {"op", "cb", "ud"})
          <6>1. call'[t].h = call[t].h
            BY <5>1, <5>2, ConstantsAssumption DEF FreeIn
          <6> QED
            BY <5>1, <5>2, <6>1 DEF ShutBy, Same
        <5>3. CASE FreeIn(Players) = {} /\ call'[t].h = call[t].h
          <6>1. h # call[t].h
            <7>1. ASSUME h = call[t].h PROVE FALSE
              <8>1. Shut(h)
                BY <5>1, <7>1 DEF Shut, ShutBy
              <8>2. engine[h] = None
                BY <1>2, <2>1, <8>1 DEF Settled
              <8> QED
                BY <5>1, <5>3, <7>1, <8>2 DEF FreeIn
            <7> QED
              BY <7>1
          <6> QED
            BY <5>3, <6>1 DEF ShutBy
        <5> QED
          BY <4>5, <5>2, <5>3, ReplayOpenCall
      <4> QED
        BY <2>5, <4>1, <4>2, <4>3, <4>4, <4>5 DEF TaskOwn
    <3> QED
      BY <2>3, <3>1, <3>2, ShutKept
  <2>6. ASSUME NEW a \in Actors, Calls(a)
        PROVE  Settled(h)'
    <3>1. Working(a) /\ Others(a) /\ call[a].h \in Handles
      BY <2>6, CallsFrame, CallerHasHandle DEF Working
    <3>2. call[a].op = IF a = App /\ call[a].pc \in Opening THEN "open"
                       ELSE IF a = App THEN "close" ELSE "replay"
      BY <3>1 DEF Working, AppCall, TaskCalls, TaskCall, InReplay, Opening, Closing
    <3>3. CASE EngineOpen(a)
      <4>1. call[a].pc = "engine" /\ table' = table
        BY <3>3 DEF EngineOpen, At
      <4>2. CASE a = App
        <5>1. h # call[App].h
          BY <1>2, <4>1, <4>2 DEF OpensFresh, Opening
        <5>2. engine'[h] = engine[h]
          BY <3>3, <4>2, <5>1 DEF EngineOpen, TypedRest
        <5>3. ShutBy(a, h)' <=> ShutBy(a, h)
          BY <3>3, <4>2, <5>1, EngineOpenCall, Kinds DEF ShutBy, NoCall
        <5> QED
          BY <2>3, <3>1, <5>2, <5>3, ShutKept
      <4>3. CASE a # App /\ h # call[a].h
        <5>1. engine'[h] = engine[h]
          BY <3>3, <4>3 DEF EngineOpen, TypedRest
        <5>2. ShutBy(a, h)' <=> ShutBy(a, h)
          BY <3>3, <4>3, EngineOpenCall DEF ShutBy, Same
        <5> QED
          BY <2>3, <3>1, <5>1, <5>2, ShutKept
      <4>4. CASE a # App /\ h = call[a].h
        <5>1. engine' = [engine EXCEPT ![h] = call[a].cb]
          BY <1>2, <2>1, <3>3, <4>4 DEF EngineOpen, Holds
        <5>2. call[a].cb = held[h] /\ call[a].ud = held[h]
          BY <1>2, <4>1, <4>4 DEF AllRestore, Restores, Opening
        <5>3. Owned(h)' /\ engine'[h] = held'[h]
          BY <1>2, <4>1, <4>4, <5>1, <5>2 DEF CallsInTable, InTable, Owned, TypedRest
        <5>4. ~ShutBy(a, h)'
          BY <3>3, <4>4, EngineOpenCall DEF ShutBy
        <5>5. ~Shut(h)'
          BY <3>1, <5>4, OnlyShutBy
        <5> QED
          BY <5>3, <5>5 DEF Settled
      <4> QED
        BY <4>2, <4>3, <4>4
    <3>4. CASE EngineClose(a)
      <4>1. call[a].pc = "shut" /\ call[a].op \in {"close", "replay"}
        BY <3>2, <3>4 DEF EngineClose, At, Opening
      <4>2. /\ call'[a].pc = "unreg" /\ call'[a].op = call[a].op /\ call'[a].h = call[a].h
            /\ \/ engine' = [engine EXCEPT ![call[a].h] = None]
               \/ engine' = engine /\ hurt' = hurt \cup ({held[call[a].h]} \ {None})
        BY <3>4, CloseCallMoves DEF Same
      <4>3. CASE h # call[a].h
        <5>1. engine'[h] = engine[h]
          BY <4>2, <4>3 DEF TypedRest
        <5>2. ShutBy(a, h)' <=> ShutBy(a, h)
          BY <4>2, <4>3 DEF ShutBy
        <5> QED
          BY <2>3, <3>1, <5>1, <5>2, ShutKept
      <4>4. CASE h = call[a].h
        <5>1. engine' = [engine EXCEPT ![h] = None]
          BY <1>2, <2>1, <4>2, <4>4 DEF Holds
        <5>2. ShutBy(a, h)'
          BY <4>1, <4>2, <4>4 DEF ShutBy
        <5>3. Shut(h)'
          BY <5>2 DEF Shut
        <5> QED
          BY <5>1, <5>3 DEF Settled, TypedRest
      <4> QED
        BY <4>3, <4>4
    <3>5. CASE ~EngineOpen(a) /\ ~EngineClose(a)
      <4>1. engine' = engine
        BY <2>6, <3>5 DEF Calls, Find, Write, SetUserData, Unregister, UnregisterCallback
      <4>2. /\ Same(a, {"op", "h"}) /\ call[a].pc \notin {"shut", "play"}
            /\ call'[a].pc \notin {"shut", "play"}
        <5>1. call[a].pc # "shut" /\ call[a].pc # "play"
          BY <2>6, <3>5 DEF Calls, Find, Write, SetUserData, Unregister, UnregisterCallback, At
        <5> QED
          BY <2>6, <3>5, <5>1, CallsKeep DEF Same, Opening, Closing
      <4>3. ShutBy(a, h)' <=> ShutBy(a, h)
        BY <4>2 DEF ShutBy, Same
      <4> QED
        BY <2>3, <3>1, <4>1, <4>3, ShutKept
    <3> QED
      BY <3>3, <3>4, <3>5
  <2>7. CASE AppOwn
    <3>1. Others(App)
      BY <2>7, AppOwnFrame
    <3>2. ASSUME NEW k \in Handles, CloseReturns(k)
          PROVE  Settled(h)'
      <4>1. k = call[App].h /\ h # k
        BY <1>2, <2>1, <3>2 DEF CloseReturns, TypedRest
      <4>2. engine'[h] = engine[h]
        BY <3>2, <4>1 DEF CloseReturns, TypedRest
      <4>3. call'[App] = NoCall
        BY <3>2, ReturnCall DEF CloseReturns
      <4>4. ShutBy(App, h)' <=> ShutBy(App, h)
        BY <4>1, <4>3, Kinds DEF ShutBy, NoCall
      <4> QED
        BY <2>3, <3>1, <4>2, <4>4, ShutKept
    <3>3. ASSUME NEW k \in Handles, CloseFails(k)
          PROVE  Settled(h)'
      <4>1. k = call[App].h /\ h # k
        BY <1>2, <3>3 DEF CloseFails, At, Books, AppCloses, Closing, Holds
      <4>2. call'[App] = NoCall /\ engine' = engine
        BY <3>3, ReturnCall DEF CloseFails
      <4>3. ShutBy(App, h)' <=> ShutBy(App, h)
        BY <4>1, <4>2, Kinds DEF ShutBy, NoCall
      <4> QED
        BY <2>3, <3>1, <4>2, <4>3, ShutKept
    <3>4. ASSUME NEW kind \in {Recorders, Players}, NEW m \in Modes, OpenCall(kind, m)
          PROVE  Settled(h)'
      <4>1. engine' = engine /\ call[App].pc = "idle"
        BY <3>4 DEF OpenCall, At
      <4>2. call[App].op \notin {"close", "replay"}
        BY <4>1, Kinds DEF AppCall, Opening, Closing
      <4>3. ShutBy(App, h)' <=> ShutBy(App, h)
        BY <3>4, <4>2, OpenCallMoves DEF ShutBy
      <4> QED
        BY <2>3, <3>1, <4>1, <4>3, ShutKept
    <3>5. ASSUME NEW k \in Handles, CloseCall(k) \/ SpeedCall(k)
          PROVE  Settled(h)'
      <4>1. engine' = engine /\ call[App].pc = "idle"
        BY <3>5 DEF CloseCall, SpeedCall, At
      <4>2. call[App].op \notin {"close", "replay"}
        BY <4>1, Kinds DEF AppCall, Opening, Closing
      <4>3. ShutBy(App, h)' <=> ShutBy(App, h)
        BY <3>5, <4>2, CloseCallCall, SpeedCallCall DEF ShutBy
      <4> QED
        BY <2>3, <3>1, <4>1, <4>3, ShutKept
    <3>6. CASE SpeedLock \/ SpeedUnlock
      <4>1. engine' = engine /\ call[App].pc \in {"lock", "speed"}
        BY <3>6 DEF SpeedLock, SpeedUnlock, At
      <4>2. call[App].op = "speed" /\ call'[App].op \in {"speed", None}
        BY <3>6, <4>1, ReturnCall, GotoCall
           DEF SpeedLock, SpeedUnlock, AppCall, Opening, Closing, Same
      <4>3. ShutBy(App, h)' <=> ShutBy(App, h)
        BY <4>2, Kinds DEF ShutBy
      <4> QED
        BY <2>3, <3>1, <4>1, <4>3, ShutKept
    <3> QED
      BY <2>7, <3>2, <3>3, <3>4, <3>5, <3>6 DEF AppOwn
  <2> QED
    BY <2>4, <2>5, <2>6, <2>7, StepOf
<1> QED
  BY <1>1, <1>2, HeldBefore DEF Books

\* The library's handle of a session, and its one slot
LEMMA OwnedIsOnly ==
    ASSUME OneSlot, NEW h \in Handles, Owned(h)
    PROVE  \E i \in Slots : /\ SlotsOf(h) = {i}
                            /\ table[i] = [h |-> h, cb |-> held[h], ud |-> held[h]]
<1>1. PICK i \in Slots : table[i] = [h |-> h, cb |-> held[h], ud |-> held[h]]
  BY DEF Owned
<1>2. table[i].h = h /\ h # None
  BY <1>1, Kinds
<1>3. SlotsOf(h) = {i}
  BY <1>2 DEF OneSlot, SlotsOf
<1> QED
  BY <1>1, <1>3

\* What a replay keeps of the session is the session's, until it is put back.
LEMMA RestoresStep ==
    ASSUME RInv, Books, Undisturbed, [Next]_vars, ~overlap'
    PROVE  AllRestore'
<1> USE Parts DEF Undisturbed
<1> SUFFICES ASSUME NEW t \in Tasks, call'[t].pc \in Opening \cup Closing,
                    NEW h, h = call'[t].h, Holds(h)'
             PROVE  call'[t].cb = held'[h] /\ call'[t].ud = held'[h]
  BY DEF AllRestore, Restores, Holds
<1>1. ASSUME call[t].pc \in Opening \cup Closing, call[t].h = h,
             call'[t].cb = call[t].cb, call'[t].ud = call[t].ud
      PROVE  call'[t].cb = held'[h] /\ call'[t].ud = held'[h]
  <2>1. Working(t) /\ h \in Handles
    BY <1>1, CallerHasHandle DEF Working, InReplay
  <2>2. ~EngineOpen(App)
    <3>1. EngineOpen(App) => Working(App)
      BY DEF EngineOpen, At, Working, InReplay, Opening
    <3> QED
      BY <2>1, <3>1, OneWorker
  <2>3. Holds(h) /\ held'[h] = held[h]
    BY <2>1, <2>2, HeldBefore DEF Books
  <2> QED
    BY <1>1, <2>3 DEF AllRestore, Restores
<1>2. CASE call'[t] = call[t]
  BY <1>1, <1>2
<1>3. CASE Calls(t)
  <2>1. ~EngineOpen(t)
    BY EngineOpenCall DEF Opening, Closing
  <2> QED
    BY <1>1, <1>3, <2>1, CallsKeep DEF Same
<1>4. CASE TaskOwn(t)
  <2>1. CASE ReplayOpen(t)
    <3>1. call[t].pc = "closed" /\ call[t].h \in Players
      BY <2>1 DEF ReplayOpen, At, TaskCalls, TaskCall, InReplay, Closing
    <3>2. call'[t].h \in Players /\ Same(t, {"cb", "ud"})
      BY <2>1, ReplayOpenCall DEF Opening, Closing, FreeIn, Same
    <3> QED
      BY <1>1, <3>1, <3>2, ConstantsAssumption DEF Same, Closing
  <2>2. CASE ReplayLock(t)
    <3>1. /\ call[t].pc = "lock" /\ call[t].h = h
          /\ SlotsOf(h) # {} => /\ call'[t].cb = table[Max(SlotsOf(h))].cb
                                /\ call'[t].ud = table[Max(SlotsOf(h))].ud
      BY <2>2, ReplayLockCall
    <3>2. /\ mutex = None /\ held' = held /\ hurt' = hurt
          /\ call[App].op \notin {"open", "close"}
      BY <2>2 DEF ReplayLock
    <3>3. h \in Handles
      BY <3>1, Kinds DEF TaskCalls, TaskCall
    <3>4. ~Shut(h)
      <4> SUFFICES ASSUME NEW a \in Actors, ShutBy(a, h) PROVE FALSE
        BY DEF Shut
      <4>1. a # App
        BY <3>2, Kinds DEF ShutBy, AppCall
      <4>2. Working(a)
        BY ShutWorks
      <4> QED
        BY <3>2, <4>1, <4>2, Kinds DEF MutexHeld, Holding, Working
    <3>5. Holds(h)
      BY <3>2 DEF Holds
    <3>6. PICK i \in Slots : /\ SlotsOf(h) = {i}
                             /\ table[i] = [h |-> h, cb |-> held[h], ud |-> held[h]]
      BY <3>3, <3>4, <3>5, OwnedIsOnly DEF AllSettled, Settled
    <3>7. Max(SlotsOf(h)) = i
      <4>1. Max({i}) \in {i}
        BY MaxIsMember
      <4> QED
        BY <3>6, <4>1
    <3> QED
      BY <3>1, <3>2, <3>6, <3>7
  <2>3. CASE Receive(t) \/ ReplayPlay(t) \/ Notify(t)
    <3>1. call'[t].pc \in {"idle", "lock", "notify"}
      BY <2>3, ReceiveCall, ReplayPlayCall, ReturnCall DEF Notify
    <3> QED
      BY <3>1 DEF Opening, Closing
  <2> QED
    BY <1>4, <2>1, <2>2, <2>3 DEF TaskOwn
<1> QED
  BY <1>2, <1>3, <1>4, CallFrame

\* The slot the library's thread has found stays the session's until it is called.
LEMMA ToldStep ==
    ASSUME RInv, Books, Undisturbed, [Next]_vars
    PROVE  AllTold'
<1> USE Parts DEF Undisturbed
<1> SUFFICES ASSUME NEW h \in Handles, Holds(h)', lib'[h] # Quiet
             PROVE  lib'[h].told = 0 /\ lib'[h].slot \in SlotsOf(h)'
  BY DEF AllTold, Tells
<1>1. CASE lib'[h] = lib[h]
  <2> DEFINE n == lib[h].slot
  <2>1. engine[h] # None
    BY <1>1 DEF Books, LibraryOpen
  <2>2. Holds(h) /\ held'[h] = held[h]
    BY <2>1, HeldBefore DEF Books
  <2>3. lib[h].told = 0 /\ n \in Slots /\ table[n].h = h /\ h # None
    BY <1>1, <2>2, Kinds DEF AllTold, Tells, SlotsOf
  <2>4. ~Shut(h)
    BY <2>1, <2>2 DEF AllSettled, Settled
  <2>5. ~ModuleInit
    BY <2>2 DEF Holds, Books, InitedWhenUsed, ModuleInit
  <2> HIDE DEF n
  <2>6. ASSUME NEW a \in Actors, Write(a)
        PROVE  table'[n].h = table[n].h
    <3>1. call[a].new => call[a].slot \in FreeSlots
      BY <2>6 DEF Write, At, CallsInTable, InTable
    <3>2. call[a].new => call[a].slot # n
      BY <2>3, <3>1 DEF FreeSlots
    <3> QED
      BY <2>3, <2>6, <3>2 DEF Write, TypedTable
  <2>7. ASSUME NEW a \in Actors, SetUserData(a) \/ UnregisterCallback(a)
        PROVE  table'[n].h = table[n].h
    BY <2>3, <2>7 DEF SetUserData, UnregisterCallback, TypedTable
  <2>8. ASSUME NEW a \in Actors, Unregister(a)
        PROVE  table'[n].h = table[n].h
    <3>1. \/ table' = table
          \/ \E m \in SlotsOf(call[a].h) : table' = [table EXCEPT ![m].h = None, ![m].ud = None]
      BY <2>8, UnregisterCall, MinIsMember, SlotsOfAreSlots
    <3>2. call[a].h # h
      BY <2>2, <2>4, <2>8, NotShutUntouched
    <3>3. n \notin SlotsOf(call[a].h)
      BY <2>3, <3>2 DEF SlotsOf
    <3> QED
      BY <2>3, <3>1, <3>3 DEF TypedTable
  <2>9. table'[n].h = h
    BY <2>3, <2>5, <2>6, <2>7, <2>8, TableFrame
  <2> QED
    BY <1>1, <2>3, <2>9 DEF SlotsOf, n
<1>2. ASSUME NEW k \in Handles, k # h, CallBack(k) \/ \E start \in BOOLEAN : Announce(k, start)
      PROVE  lib'[h] = lib[h]
  <2>1. \E l : lib' = [lib EXCEPT ![k] = l]
    BY <1>2 DEF CallBack, Announce, Finds
  <2> QED
    BY <1>2, <2>1 DEF TypedLib
<1>3. ASSUME NEW i, NEW n, Finds(h, i, n), table' = table
      PROVE  /\ Good(h, i) # {} /\ lib'[h].told = n
             /\ lib'[h].slot \in SlotsOf(h)'
  <2> DEFINE m == Min(Good(h, i))
  <2>1. Good(h, i) # {} /\ lib'[h] = [slot |-> m, told |-> n]
    BY <1>3 DEF Finds, TypedLib
  <2>2. m \in SlotsOf(h)
    <3>1. Good(h, i) \subseteq SlotsOf(h) /\ Good(h, i) \subseteq Slots
      BY DEF Good, SlotsOf
    <3> QED
      BY <2>1, <3>1, MinIsMember
  <2> HIDE DEF m
  <2> QED
    BY <1>3, <2>1, <2>2 DEF SlotsOf
<1>4. ASSUME NEW start \in BOOLEAN, Announce(h, start)
      PROVE  lib'[h].told = 0 /\ lib'[h].slot \in SlotsOf(h)'
  BY <1>3, <1>4 DEF Announce
<1>5. ~CallBack(h)
  <2> SUFFICES ASSUME CallBack(h) PROVE FALSE
    OBVIOUS
  <2>1. lib[h] # Quiet /\ table' = table /\ Finds(h, lib[h].slot, lib[h].told + 1) /\ Holds(h)
    BY DEF CallBack, Holds
  <2>2. PICK j \in SlotsOf(h) : j > lib[h].slot
    BY <1>3, <2>1 DEF Good
  <2>3. lib[h].slot \in SlotsOf(h)
    BY <2>1 DEF AllTold, Tells
  <2>4. j = lib[h].slot
    BY <2>2, <2>3, Kinds DEF OneSlot, SlotsOf
  <2> QED
    BY <2>2, <2>3, <2>4, SlotsCounted DEF SlotsOf, Slots
<1> QED
  BY <1>1, <1>2, <1>4, <1>5, LibFrame

-----------------------------------------------------------------------------
(***************************************************************************)
(* The invariant of the sessions, and the two properties it gives           *)
(***************************************************************************)
LEMMA SInvHolds == Spec => []SInv
<1>1. Init => SInv
  <2> SUFFICES ASSUME Init PROVE SInv
    OBVIOUS
  <2>1. \A a \in Actors : call[a].pc = "idle" /\ call[a].op = None
    BY DEF Init, NoCall
  <2>2. \A i \in Slots : table[i].h = None /\ table[i].cb = None
    BY DEF Init, NoSlot
  <2>3. \A h \in Handles : ~Holds(h)
    BY DEF Init, Holds
  <2>4. RInv
    BY RInvInit
  <2>5. Books
    BY <2>1, Kinds DEF Init, Books, SessionNumbers, InitedWhenUsed, LibraryOpen, AppCloses,
                       Opening, Closing
  <2>6. ReplayAlone /\ OpensFresh /\ CallsInTable /\ AllRestore
    BY <2>1, Kinds DEF ReplayAlone, Replaying, OpensFresh, CallsInTable, InTable, AllRestore,
                       Restores, Opening, Closing
  <2>7. OneSlot /\ CleanFree /\ AllSettled /\ AllTold
    BY <2>2, <2>3 DEF OneSlot, CleanFree, AllSettled, Settled, AllTold, Tells
  <2> QED
    BY <2>4, <2>5, <2>6, <2>7 DEF SInv, Undisturbed
<1>2. SInv /\ [Next]_vars => SInv'
  <2> SUFFICES ASSUME SInv, [Next]_vars PROVE SInv'
    OBVIOUS
  <2>1. RInv /\ Books /\ SessionNumbers /\ RInv'
    BY RInvStep DEF SInv, Books
  <2>2. Books'
    BY <2>1, NumbersStep, InitedStep, LibraryStep, ClosesStep DEF Books
  <2>3. ASSUME ~overlap' PROVE Undisturbed'
    <3>1. Undisturbed
      BY <2>3, OverlapStays DEF SInv
    <3>2. ReplayAlone' /\ OpensFresh' /\ OneSlot' /\ CleanFree'
      BY <2>1, <2>3, <3>1, ReplayAloneStep, OpensFreshStep, OneSlotStep, CleanFreeStep
    <3>3. CallsInTable' /\ AllSettled' /\ AllRestore' /\ AllTold'
      BY <2>1, <2>3, <3>1, InTableStep, SettledStep, RestoresStep, ToldStep
    <3> QED
      BY <3>2, <3>3 DEF Undisturbed
  <2> QED
    BY <2>1, <2>2, <2>3 DEF SInv
<1> QED
  BY <1>1, <1>2, PTL DEF Spec

\* A session the application holds has exactly one slot of the
\* table, with its own callback and user data, whatever was opened, refused,
\* closed and replayed before: nothing that aui_pvr_callback_register and
\* aui_pvr_callback_unregister do without a lock takes it away.
THEOREM SessionsStayRegistered == Spec => []Registered
<1>1. SInv => Registered
  <2> SUFFICES ASSUME SInv, NEW h \in Handles, Holds(h), ~overlap, Replaying = {},
                      ~(call[App].op = "close" /\ call[App].h = h)
               PROVE  \E i \in Slots : /\ SlotsOf(h) = {i}
                                       /\ table[i].cb = held[h] /\ table[i].ud = held[h]
    BY DEF Registered, Holds
  <2>1. AllSettled /\ OneSlot /\ App \in Actors /\ AppCall
    BY Parts DEF SInv, Undisturbed
  <2>2. ~Shut(h)
    <3> SUFFICES ASSUME NEW a \in Actors, ShutBy(a, h) PROVE FALSE
      BY DEF Shut
    <3>1. CASE a = App
      BY <2>1, <3>1, Kinds DEF ShutBy, AppCall
    <3>2. CASE a \in Tasks
      BY <3>2, ReplayingTasks, ShutWorks DEF SInv
    <3> QED
      BY <3>1, <3>2, Kinds
  <2>3. Owned(h)
    BY <2>1, <2>2 DEF AllSettled, Settled
  <2>4. PICK i \in Slots : /\ SlotsOf(h) = {i}
                           /\ table[i] = [h |-> h, cb |-> held[h], ud |-> held[h]]
    BY <2>1, <2>3, OwnedIsOnly
  <2>5. table[i].cb = held[h] /\ table[i].ud = held[h]
    BY <2>4
  <2> QED
    BY <2>4, <2>5
<1> QED
  BY <1>1, SInvHolds, PTL

\* The slot the library's thread is about to call is the one of the session the
\* event is of, with its callback and its user data, and no other slot was called
\* for the event: no close, open or replay can have changed the table between the
\* search of aui_pvr_evnt_callback and its call.
THEOREM EventsReachOwners == Spec => []EventReachesOwner
<1>1. SInv => EventReachesOwner
  <2> SUFFICES ASSUME SInv, NEW h \in Handles, lib[h] # Quiet, Holds(h), ~overlap
               PROVE  /\ table[lib[h].slot] = [h |-> h, cb |-> held[h], ud |-> held[h]]
                      /\ lib[h].told = 0
    BY DEF EventReachesOwner, Holds
  <2>1. AllSettled /\ OneSlot /\ AllTold /\ LibraryOpen
    BY DEF SInv, Undisturbed, Books
  <2>2. Owned(h)
    BY <2>1 DEF AllSettled, Settled, LibraryOpen
  <2>3. lib[h].told = 0 /\ lib[h].slot \in SlotsOf(h)
    BY <2>1 DEF AllTold, Tells
  <2> QED
    BY <2>1, <2>2, <2>3, OwnedIsOnly
<1> QED
  BY <1>1, SInvHolds, PTL
=============================================================================
