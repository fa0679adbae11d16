------------------------------ MODULE GpioDev_proofs ------------------------------
(***************************************************************************)
(* The counts of shared GPIO handles, for any threads, pins and memory.     *)
(* As long as no close of a structure has failed, its count is the number   *)
(* of threads that hold it; a listed structure is a live one in any case.   *)
(***************************************************************************)
EXTENDS GpioDev, FiniteSetTheorems, TLAPS

\* What is not live counts nothing, so a count of one is that of a listed device
ListedIsLive ==
    \A c \in Cells :
        /\ c \in list <=> cell[c].st = "live"
        /\ cell[c].st # "live" => cell[c].cnt = 0

\* Memory nobody's close has failed on: also what is not listed is counted
Counted ==
    \A c \in Cells \ hurt :
        /\ cell[c].cnt = Cardinality(Holders(c))
        /\ c \in list => Holders(c) # {}

IInv == TypeOK /\ ListedIsLive /\ Counted /\ ListMatchesPins

LEMMA HoldersAreFinite == ASSUME NEW c PROVE IsFiniteSet(Holders(c))
<1>1. Holders(c) \in SUBSET Threads
  BY DEF Holders
<1> QED
  BY <1>1, FS_Subset, ConstantsAssumption

\* An open adds a holder ...
LEMMA OpenCounts ==
    ASSUME hold \in [Threads -> Cells \cup {None}],
           NEW a \in Threads, hold[a] = None, NEW c \in Cells,
           hold' = [hold EXCEPT ![a] = c]
    PROVE  /\ Cardinality(Holders(c)') = Cardinality(Holders(c)) + 1
           /\ Holders(c)' # {}
           /\ \A d \in Cells \ {c} : Holders(d)' = Holders(d)
<1>1. c # None
  BY ConstantsAssumption
<1>2. Holders(c)' = Holders(c) \cup {a} /\ a \notin Holders(c)
  BY <1>1 DEF Holders
<1>3. \A d \in Cells \ {c} : Holders(d)' = Holders(d)
  BY ConstantsAssumption DEF Holders
<1>4. Cardinality(Holders(c) \cup {a}) = Cardinality(Holders(c)) + 1
  BY <1>2, HoldersAreFinite, FS_AddElement
<1> QED
  BY <1>2, <1>3, <1>4

\* ... and a close takes one away; the one that goes last leaves none.
LEMMA CloseCounts ==
    ASSUME hold \in [Threads -> Cells \cup {None}],
           NEW a \in Threads, NEW c \in Cells, hold[a] = c,
           hold' = [hold EXCEPT ![a] = None]
    PROVE  /\ Cardinality(Holders(c)') = Cardinality(Holders(c)) - 1
           /\ Cardinality(Holders(c)) \in Nat
           /\ Cardinality(Holders(c)) = 1 <=> Holders(c)' = {}
           /\ \A d \in Cells \ {c} : Holders(d)' = Holders(d)
<1>1. c # None
  BY ConstantsAssumption
<1>2. Holders(c)' = Holders(c) \ {a} /\ a \in Holders(c)
  BY <1>1 DEF Holders
<1>3. \A d \in Cells \ {c} : Holders(d)' = Holders(d)
  BY ConstantsAssumption DEF Holders
<1>4. /\ IsFiniteSet(Holders(c) \ {a})
      /\ Cardinality(Holders(c) \ {a}) = Cardinality(Holders(c)) - 1
  BY <1>2, HoldersAreFinite, FS_RemoveElement
<1>5. Cardinality(Holders(c)) \in Nat
  BY HoldersAreFinite, FS_CardinalityType
<1>6. Cardinality(Holders(c) \ {a}) = 0 <=> Holders(c) \ {a} = {}
  BY <1>4, FS_EmptySet
<1> QED
  BY <1>2, <1>3, <1>4, <1>5, <1>6

\* Where nobody's handle changes, the holders stay
LEMMA SameHolders == ASSUME hold' = hold, NEW c PROVE Holders(c)' = Holders(c)
BY DEF Holders

LEMMA NobodyHolds ==
    ASSUME hold = [a \in Threads |-> None], NEW c \in Cells
    PROVE  Holders(c) = {} /\ Cardinality(Holders(c)) = 0
<1>1. Holders(c) = {}
  BY ConstantsAssumption DEF Holders
<1> QED
  BY <1>1, FS_EmptySet

LEMMA InitInv == Init => IInv
<1> SUFFICES ASSUME Init PROVE IInv
  OBVIOUS
<1>1. TypeOK
  BY DEF Init, TypeOK, Free
<1>2. Counted
  BY NobodyHolds DEF Init, Counted, Free
<1>3. ListedIsLive /\ ListMatchesPins
  BY DEF Init, ListedIsLive, ListMatchesPins, Free
<1> QED
  BY <1>1, <1>2, <1>3 DEF IInv

LEMMA OpenKeeps ==
    ASSUME IInv, NEW a \in Threads, NEW p \in Pins,
           OpenFound(a, p) \/ OpenNew(a, p) \/ OpenFails(a, p) \/ OpenLeaks(a, p)
    PROVE  IInv'
<1> USE DEF IInv
<1>1. CASE OpenFound(a, p)
  <2> PICK c \in Found(p) :
        /\ cell' = [cell EXCEPT ![c].cnt = @ + 1]
        /\ hold' = [hold EXCEPT ![a] = c]
    BY <1>1 DEF OpenFound
  <2>1. c \in list /\ c \in Cells /\ cell[c].st = "live"
    BY DEF Found, TypeOK, ListMatchesPins
  <2>2. UNCHANGED <<list, exported, hurt>> /\ hold[a] = None
    BY <1>1 DEF OpenFound
  <2>3. TypeOK'
    BY <2>1, <2>2 DEF TypeOK
  <2>4. ListedIsLive' /\ ListMatchesPins'
    BY <2>1, <2>2 DEF TypeOK, ListedIsLive, ListMatchesPins
  <2>5. Counted'
    BY <2>1, <2>2, OpenCounts DEF TypeOK, Counted
  <2> QED
    BY <2>3, <2>4, <2>5
<1>2. CASE OpenNew(a, p)
  <2> PICK c \in Cells :
        /\ cell[c].st = "free"
        /\ cell' = [cell EXCEPT ![c] = [st |-> "live", pin |-> p, cnt |-> 1]]
        /\ list' = list \cup {c}
        /\ hold' = [hold EXCEPT ![a] = c]
    BY <1>2 DEF OpenNew
  <2>1. /\ hold[a] = None /\ \A d \in list : cell[d].pin # p
        /\ exported' = exported \cup {p} /\ hurt' = hurt
    BY <1>2 DEF OpenNew, Found
  <2>2. cell[c].cnt = 0
    BY DEF ListedIsLive
  <2>3. TypeOK'
    BY <2>1 DEF TypeOK
  <2>4. ListedIsLive' /\ ListMatchesPins'
    BY <2>1 DEF TypeOK, ListedIsLive, ListMatchesPins
  <2>5. Counted'
    <3>1. /\ Cardinality(Holders(c)') = Cardinality(Holders(c)) + 1
          /\ Holders(c)' # {}
          /\ \A d \in Cells \ {c} : Holders(d)' = Holders(d)
      BY <2>1, OpenCounts DEF TypeOK
    <3>2. ASSUME NEW d \in Cells \ hurt'
          PROVE  /\ cell'[d].cnt = Cardinality(Holders(d)')
                 /\ d \in list' => Holders(d)' # {}
      <4>1. CASE d = c
        BY <2>1, <2>2, <3>1, <4>1 DEF TypeOK, Counted
      <4>2. CASE d # c
        BY <2>1, <2>2, <3>1, <4>2 DEF TypeOK, Counted
      <4> QED
        BY <4>1, <4>2
    <3> QED
      BY <3>2 DEF Counted
  <2> QED
    BY <2>3, <2>4, <2>5
<1>3. CASE OpenFails(a, p)
  <2>1. /\ UNCHANGED <<list, cell, hold, hurt>>
        /\ exported' \in {exported, exported \ {p}, exported \cup {p}}
        /\ \A d \in list : cell[d].pin # p
    BY <1>3 DEF OpenFails, Found
  <2>2. TypeOK' /\ ListedIsLive' /\ ListMatchesPins'
    BY <2>1 DEF TypeOK, ListedIsLive, ListMatchesPins
  <2> QED
    BY <2>1, <2>2, SameHolders DEF Counted
<1>4. CASE OpenLeaks(a, p)
  <2> PICK c \in Cells : cell[c].st = "free" /\ cell' = [cell EXCEPT ![c].st = "leaked"]
    BY <1>4 DEF OpenLeaks
  <2>1. UNCHANGED <<list, hold, hurt>> /\ exported' = exported \cup {p}
    BY <1>4 DEF OpenLeaks
  <2>2. TypeOK' /\ ListedIsLive' /\ ListMatchesPins'
    BY <2>1 DEF TypeOK, ListedIsLive, ListMatchesPins
  <2>3. \A d \in Cells : cell'[d].cnt = cell[d].cnt
    BY DEF TypeOK
  <2> QED
    BY <2>1, <2>2, <2>3, SameHolders DEF Counted
<1> QED
  BY <1>1, <1>2, <1>3, <1>4

LEMMA CloseKeeps ==
    ASSUME IInv, NEW a \in Threads, CloseShared(a) \/ CloseLast(a) \/ CloseFails(a)
    PROVE  IInv'
<1> USE DEF IInv
<1> PICK c \in Cells : c = hold[a]
  BY DEF CloseShared, CloseLast, CloseFails, TypeOK
<1>1. c \in Cells /\ hold[a] = c
  OBVIOUS
<1>2. CASE CloseShared(a)
  <2>1. /\ cell' = [cell EXCEPT ![c].cnt = @ - 1] /\ cell[c].cnt # 1
        /\ cell[c].st = "live"
        /\ hold' = [hold EXCEPT ![a] = None]
        /\ UNCHANGED <<list, exported, hurt>>
    BY <1>2 DEF CloseShared
  <2>2. TypeOK' /\ ListedIsLive' /\ ListMatchesPins'
    BY <1>1, <2>1 DEF TypeOK, ListedIsLive, ListMatchesPins
  <2>3. Counted'
    <3>1. /\ Cardinality(Holders(c)') = Cardinality(Holders(c)) - 1
          /\ Cardinality(Holders(c)) \in Nat
          /\ Cardinality(Holders(c)) = 1 <=> Holders(c)' = {}
          /\ \A d \in Cells \ {c} : Holders(d)' = Holders(d)
      BY <1>1, <2>1, CloseCounts DEF TypeOK
    <3>2. ASSUME NEW d \in Cells \ hurt'
          PROVE  /\ cell'[d].cnt = Cardinality(Holders(d)')
                 /\ d \in list' => Holders(d)' # {}
      <4>1. CASE d = c
        BY <1>1, <2>1, <3>1, <4>1 DEF TypeOK, Counted
      <4>2. CASE d # c
        BY <1>1, <2>1, <3>1, <4>2 DEF TypeOK, Counted
      <4> QED
        BY <4>1, <4>2
    <3> QED
      BY <3>2 DEF Counted
  <2> QED
    BY <2>2, <2>3
<1>3. CASE CloseLast(a)
  <2>1. /\ cell' = [cell EXCEPT ![c] = Free] /\ cell[c].cnt = 1
        /\ hold' = [hold EXCEPT ![a] = None]
        /\ list' = list \ {c} /\ exported' = exported \ {cell[c].pin} /\ hurt' = hurt
    BY <1>3 DEF CloseLast
  <2>2. c \in list
    BY <1>1, <2>1 DEF ListedIsLive
  <2>3. TypeOK'
    BY <1>1, <2>1 DEF TypeOK, Free
  <2>4. ListedIsLive'
    BY <1>1, <2>1 DEF TypeOK, ListedIsLive, Free
  <2>5. ListMatchesPins'
    BY <1>1, <2>1, <2>2 DEF TypeOK, ListMatchesPins
  <2>6. Counted'
    <3>1. /\ Cardinality(Holders(c)') = Cardinality(Holders(c)) - 1
          /\ Cardinality(Holders(c)) \in Nat
          /\ Cardinality(Holders(c)) = 1 <=> Holders(c)' = {}
          /\ \A d \in Cells \ {c} : Holders(d)' = Holders(d)
      BY <1>1, <2>1, CloseCounts DEF TypeOK
    <3>2. ASSUME NEW d \in Cells \ hurt'
          PROVE  /\ cell'[d].cnt = Cardinality(Holders(d)')
                 /\ d \in list' => Holders(d)' # {}
      <4>1. CASE d = c
        BY <1>1, <2>1, <3>1, <4>1 DEF TypeOK, Counted, Free
      <4>2. CASE d # c
        BY <1>1, <2>1, <3>1, <4>2 DEF TypeOK, Counted, Free
      <4> QED
        BY <4>1, <4>2
    <3> QED
      BY <3>2 DEF Counted
  <2> QED
    BY <2>3, <2>4, <2>5, <2>6
<1>4. CASE CloseFails(a)
  <2>1. /\ cell' = [cell EXCEPT ![c].cnt = 0]
        /\ cell[c].cnt = 1 /\ hurt' = hurt \cup {c}
        /\ exported' \in {exported, exported \ {cell[c].pin}}
        /\ UNCHANGED <<list, hold>>
    BY <1>4 DEF CloseFails
  <2>2. c \in list
    BY <1>1, <2>1 DEF ListedIsLive
  <2>3. TypeOK' /\ ListedIsLive'
    BY <1>1, <2>1 DEF TypeOK, ListedIsLive
  <2>4. ListMatchesPins'
    BY <1>1, <2>1, <2>2 DEF TypeOK, ListMatchesPins
  <2>5. Counted'
    BY <1>1, <2>1, SameHolders DEF TypeOK, Counted
  <2> QED
    BY <2>3, <2>4, <2>5
<1> QED
  BY <1>2, <1>3, <1>4

LEMMA CrashKeeps == IInv /\ Crash => IInv'
<1> SUFFICES ASSUME IInv, Crash PROVE IInv'
  OBVIOUS
<1> USE DEF IInv, Crash
<1>1. TypeOK'
  BY DEF TypeOK, Free
<1>2. ListedIsLive' /\ ListMatchesPins'
  BY DEF ListedIsLive, ListMatchesPins, Free
<1>3. \A c \in Cells : Holders(c)' = {}
  BY ConstantsAssumption DEF Holders
<1>4. Counted'
  BY <1>3, FS_EmptySet DEF Counted, Free
<1> QED
  BY <1>1, <1>2, <1>4

LEMMA NextKeeps == IInv /\ [Next]_vars => IInv'
<1> SUFFICES ASSUME IInv, [Next]_vars PROVE IInv'
  OBVIOUS
<1>1. CASE UNCHANGED vars
  BY <1>1, SameHolders DEF vars, IInv, TypeOK, ListedIsLive, Counted, ListMatchesPins
<1> QED
  BY <1>1, OpenKeeps, CloseKeeps, CrashKeeps DEF Next

LEMMA SpecInv == Spec => []IInv
BY InitInv, NextKeeps, PTL DEF Spec

\* open_cnt is the number of holders, and nobody's handle is freed under it
THEOREM CountsHold == Spec => []CountIsHolders
<1>1. ASSUME IInv, NEW c \in list \ hurt
      PROVE  Holders(c) # {} /\ cell[c].cnt = Cardinality(Holders(c))
  BY <1>1 DEF IInv, TypeOK, Counted
<1>2. ASSUME IInv, NEW a \in Threads, hold[a] \notin hurt \cup {None}
      PROVE  cell[hold[a]].st = "live"
  <2>1. hold[a] \in Cells \ hurt /\ a \in Holders(hold[a])
    BY <1>2 DEF IInv, TypeOK, Holders
  <2>2. Cardinality(Holders(hold[a])) # 0
    BY <2>1, HoldersAreFinite, FS_EmptySet
  <2> QED
    BY <1>2, <2>1, <2>2 DEF IInv, Counted, ListedIsLive
<1>3. IInv => CountIsHolders
  BY <1>1, <1>2 DEF CountIsHolders
<1> QED
  BY <1>3, SpecInv, PTL

\* The list, its cells, the exported pins and the handles stay in their types
THEOREM TypesHold == Spec => []TypeOK
<1>1. IInv => TypeOK
  BY DEF IInv
<1> QED
  BY <1>1, SpecInv, PTL

\* One live structure for each open pin, and the pin exported
THEOREM ListHolds == Spec => []ListMatchesPins
<1>1. IInv => ListMatchesPins
  BY DEF IInv
<1> QED
  BY <1>1, SpecInv, PTL
==============================================================================
