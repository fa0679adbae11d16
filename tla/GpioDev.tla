-------------------------------- MODULE GpioDev --------------------------------
(***************************************************************************)
(* The shared handles of src/linux/aui_gpio.c: a second open of a pin gets  *)
(* the handle of the first and counts, the last close takes the device      *)
(* down.  Open and close run whole under m_gpio_mutex, hence one action     *)
(* each.  What the kernel exports outlives the process.                     *)
(***************************************************************************)
EXTENDS Integers, FiniteSets

CONSTANTS
    Threads,        \* threads of the application, each with one handle at most
    Pins,           \* indices of pins
    Cells,          \* memory for struct aui_gpio_handle
    None

ASSUME ConstantsAssumption ==
    /\ None \notin Cells \cup Pins
    /\ Threads # {} /\ IsFiniteSet(Threads)

VARIABLES
    list,       \* the registry's list of the GPIO module
    cell,       \* the structures: [st, pin, cnt]
    exported,   \* pins under /sys/class/gpio
    hold,       \* the handle each thread has and has not closed
    hurt        \* history: structures a close of which has failed

vars == <<list, cell, exported, hold, hurt>>

Free == [st |-> "free", pin |-> None, cnt |-> 0]

Init ==
    /\ list = {}
    /\ cell = [c \in Cells |-> Free]
    /\ exported = {}
    /\ hold = [a \in Threads |-> None]
    /\ hurt = {}

Found(p) == {c \in list : cell[c].pin = p}
Holders(c) == {a \in Threads : hold[a] = c}

-----------------------------------------------------------------------------
(***************************************************************************)
(* aui_gpio_open                                                           *)
(***************************************************************************)
OpenFound(a, p) ==
    /\ hold[a] = None
    /\ \E c \in Found(p) :
         /\ cell' = [cell EXCEPT ![c].cnt = @ + 1]
         /\ hold' = [hold EXCEPT ![a] = c]
    /\ UNCHANGED <<list, exported, hurt>>

\* A pin that is exported but not listed was left by a crash: it is
\* unexported first, then exported again.
OpenNew_LeavesPin(a, p) ==      \* mutant
    /\ hold[a] = None /\ Found(p) = {}
    /\ \E c \in Cells :
         /\ cell[c].st = "free"
         /\ cell' = [cell EXCEPT ![c] = [st |-> "live", pin |-> p, cnt |-> 1]]
         /\ list' = list \cup {c}
         /\ hold' = [hold EXCEPT ![a] = c]
    /\ exported' = IF p \in exported THEN exported \ {p} ELSE exported \cup {p}
    /\ UNCHANGED hurt
OpenNew(a, p) ==
    /\ hold[a] = None /\ Found(p) = {}
    /\ \E c \in Cells :
         /\ cell[c].st = "free"
         /\ cell' = [cell EXCEPT ![c] = [st |-> "live", pin |-> p, cnt |-> 1]]
         /\ list' = list \cup {c}
         /\ hold' = [hold EXCEPT ![a] = c]
    /\ exported' = exported \cup {p}
    /\ UNCHANGED hurt

\* A step fails: the pin keeps the state it had reached.
OpenFails(a, p) ==
    /\ hold[a] = None /\ Found(p) = {}
    /\ exported' \in {exported, exported \ {p}, exported \cup {p}}
    /\ UNCHANGED <<list, cell, hold, hurt>>

\* alislevent_open fails: the new structure is never freed.
OpenLeaks(a, p) ==
    /\ hold[a] = None /\ Found(p) = {}
    /\ \E c \in Cells :
         /\ cell[c].st = "free"
         /\ cell' = [cell EXCEPT ![c].st = "leaked"]
    /\ exported' = exported \cup {p}
    /\ UNCHANGED <<list, hold, hurt>>

(***************************************************************************)
(* aui_gpio_close.  A handle whose structure has been freed under it has   *)
(* no defined behaviour and is not modelled further.                       *)
(***************************************************************************)
CloseShared(a) ==
    LET c == hold[a] IN
    /\ c # None /\ cell[c].cnt # 1
    /\ cell[c].st = "live"
    /\ cell' = [cell EXCEPT ![c].cnt = @ - 1]
    /\ hold' = [hold EXCEPT ![a] = None]
    /\ UNCHANGED <<list, exported, hurt>>

\* The interrupt, the event, the export, the registry and the structure.
CloseLast_FreesOnly(a) ==   \* mutant
    LET c == hold[a] IN
    /\ c # None /\ cell[c].cnt = 1
    /\ cell' = [cell EXCEPT ![c] = Free]
    /\ hold' = [hold EXCEPT ![a] = None]
    /\ exported' = exported \ {cell[c].pin}
    /\ UNCHANGED <<list, hurt>>
CloseLast_NotFreed(a) ==    \* mutant
    LET c == hold[a] IN
    /\ c # None /\ cell[c].cnt = 1
    /\ cell' = [cell EXCEPT ![c].pin = -1]
    /\ list' = list \ {c}
    /\ exported' = exported \ {cell[c].pin}
    /\ hold' = [hold EXCEPT ![a] = None]
    /\ UNCHANGED hurt
CloseLast(a) ==
    LET c == hold[a] IN
    /\ c # None /\ cell[c].cnt = 1
    /\ cell' = [cell EXCEPT ![c] = Free]
    /\ list' = list \ {c}
    /\ exported' = exported \ {cell[c].pin}
    /\ hold' = [hold EXCEPT ![a] = None]
    /\ UNCHANGED hurt

\* A step fails; the count stays at zero and the caller keeps its handle.
CloseFails(a) ==
    LET c == hold[a] IN
    /\ c # None /\ cell[c].cnt = 1
    /\ cell' = [cell EXCEPT ![c].cnt = 0]
    /\ exported' \in {exported, exported \ {cell[c].pin}}
    /\ hurt' = hurt \cup {c}
    /\ UNCHANGED <<list, hold>>

\* The process dies and starts again; the kernel keeps its pins.
Crash ==
    /\ list' = {}
    /\ cell' = [c \in Cells |-> Free]
    /\ hold' = [a \in Threads |-> None]
    /\ hurt' = {}
    /\ UNCHANGED exported

Next ==
    \/ \E a \in Threads, p \in Pins :
         OpenFound(a, p) \/ OpenNew(a, p) \/ OpenFails(a, p) \/ OpenLeaks(a, p)
    \/ \E a \in Threads : CloseShared(a) \/ CloseLast(a) \/ CloseFails(a)
    \/ Crash

Spec == Init /\ [][Next]_vars

-----------------------------------------------------------------------------
\* The structures, the list and the handles stay in their ranges.
TypeOK ==
    /\ list \subseteq Cells
    /\ cell \in [Cells -> [st : {"free", "live", "leaked"}, pin : Pins \cup {None}, cnt : Int]]
    /\ exported \subseteq Pins
    /\ hold \in [Threads -> Cells \cup {None}]
    /\ hurt \subseteq Cells

\* open_cnt is the number of handles given out and not closed, a device that
\* nobody holds is gone, and nobody's handle is freed by another's close,
\* through every order of opens, failed opens, closes and crashes, until a
\* close fails.
CountIsHolders ==
    /\ \A c \in list \ hurt : Holders(c) # {} /\ cell[c].cnt = Cardinality(Holders(c))
    /\ \A a \in Threads : hold[a] \notin hurt \cup {None} => cell[hold[a]].st = "live"

\* One structure for a pin, and none that has been freed: two would undo each
\* other's export, and the next search would run into freed memory.  Also
\* when closes fail and are tried again.  And an open device has its pin under
\* /sys/class/gpio, also after a crash that left it there ("something error
\* like app crash before close gpio ...").
ListMatchesPins ==
    /\ \A c \in list : cell[c].st = "live"
    /\ \A c, d \in list : cell[c].pin = cell[d].pin => c = d
    /\ \A c \in list \ hurt : cell[c].pin \in exported
=============================================================================
