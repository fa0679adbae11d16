------------------------------ MODULE DscKeys_proofs ------------------------------
(***************************************************************************)
(* Proofs about DscKeys for every set of devices, PIDs, keys and numbers.   *)
(* First dsc_mutex: as long as no thread has gone on without it, no two are *)
(* in the critical section, and it is never left locked; nothing of the     *)
(* keys matters here.  Then the keys: lemmas on lists and what Find finds   *)
(* in them, lemmas on one device's list, driver and wishes together, and    *)
(* from those the invariant KeysInv, one lemma for each action.             *)
(***************************************************************************)
EXTENDS DscKeys, SequenceTheorems, WellFoundedInduction, TLAPS

\* A thread that goes on without the mutex is the first to have slipped
LockInv ==
    /\ pc \in [Devices -> {"idle", "wait", "in", "relock", "back", "bare"}]
    /\ \A d \in Devices : Inside(d) => slipped \/ mutex = d
    /\ mutex # None => mutex \in Devices /\ Inside(mutex)

LEMMA InitLock == Init => LockInv
BY DEF Init, LockInv, Inside

(* A thread that leaves the critical section unlocks the mutex.  Inside an  *)
(* exchange it may be somebody else's; then a thread has slipped before.    *)
LEMMA WayOut ==
    ASSUME LockInv, NEW d \in Devices, Inside(d),
           NEW to \in {"idle", "wait", "relock"},
           mutex' = None, pc' = [pc EXCEPT ![d] = to],
           slipped \in BOOLEAN, slipped => slipped'
    PROVE  LockInv'
BY DEF LockInv, Inside

\* GoOn is a way out, or the step in which a thread slips
LEMMA ReturnKeeps ==
    ASSUME LockInv, slipped \in BOOLEAN, NEW d \in Devices, Inside(d),
           NEW ok \in BOOLEAN, Return(d, ok)
    PROVE  LockInv' /\ slipped' \in BOOLEAN
<1> USE DEF LockInv, Inside
<1>1. CASE ok /\ call[d].old # None
  BY <1>1 DEF Return, GoOn
<1>2. CASE ~(ok /\ call[d].old # None)
  BY <1>2 DEF Return, Finish
<1> QED
  BY <1>1, <1>2

\* the mutex was free, so unless one has slipped nobody else is inside
LEMMA LockKeeps ==
    ASSUME LockInv, slipped \in BOOLEAN, NEW d \in Devices, mutex = None,
           NEW to \in {"in", "back"}, pc' = [pc EXCEPT ![d] = to],
           mutex' = d, slipped' = slipped
    PROVE  LockInv' /\ slipped' \in BOOLEAN
BY DevicesAssumption DEF LockInv, Inside

IInv == LockInv /\ slipped \in BOOLEAN

LEMMA NextKeeps == IInv /\ [Next]_vars => IInv'
<1> SUFFICES ASSUME IInv, [Next]_vars PROVE IInv'
  OBVIOUS
<1> USE DEF IInv
<1>1. CASE UNCHANGED vars
  BY <1>1 DEF vars, LockInv, Inside
<1>2. ASSUME NEW d \in Devices, Step(d) PROVE IInv'
  <2>1. CASE Lock(d)
    BY <2>1, LockKeeps DEF Lock
  <2>2. CASE Relock(d)
    BY <2>2, LockKeeps DEF Relock
  <2>3. CASE Create(d)
    BY <2>3, ReturnKeeps DEF Create, At, Inside
  <2>4. CASE CreateFails(d)
    BY <2>4, ReturnKeeps DEF CreateFails, Refused, At, Inside
  <2>5. CASE UpdateKl(d)
    BY <2>5, ReturnKeeps DEF UpdateKl, At, Inside
  <2>6. CASE ChangeKl(d)
    BY <2>6, ReturnKeeps DEF ChangeKl, At, Inside
  <2>7. CASE ChangeKlFails(d)
    BY <2>7, ReturnKeeps DEF ChangeKlFails, At, Inside
  <2>8. CASE UpdateClear(d)
    BY <2>8, ReturnKeeps DEF UpdateClear, At, Inside
  <2>9. CASE UpdateOtp(d)
    BY <2>9, ReturnKeeps DEF UpdateOtp, At, Inside
  <2>10. CASE OtpFails(d)
    BY <2>10, ReturnKeeps DEF OtpFails, At, Inside
  <2>11. CASE Exchange(d)
    BY <2>11, WayOut DEF Exchange, At, Inside
  <2>12. CASE DeleteOld(d)
    <3>1. Finish(d) /\ Inside(d)
      BY <2>12 DEF DeleteOld, At, Inside
    <3> QED
      BY <3>1, WayOut DEF Finish
  <2> QED
    BY <1>2, <2>1, <2>2, <2>3, <2>4, <2>5, <2>6, <2>7, <2>8, <2>9, <2>10, <2>11, <2>12 DEF Step
<1>3. ASSUME NEW d \in Devices,
             \/ Open(d) \/ Close(d) \/ Crypt(d)
             \/ \E p \in PidsOf(d) : Detach(d, p) \/ \E k \in KeysOf(d) : Attach(d, p, k)
      PROVE IInv'
  <2>1. CASE Open(d)
    BY <2>1 DEF Open, LockInv, Inside
  <2>2. CASE Close(d)
    BY <2>2 DEF Close, LockInv, Inside
  <2>3. CASE Crypt(d)
    BY <2>3 DEF Crypt, LockInv, Inside
  <2>4. CASE \E p \in PidsOf(d) : Detach(d, p)
    BY <2>4 DEF Detach, LockInv, Inside
  <2>5. CASE \E p \in PidsOf(d) : \E k \in KeysOf(d) : Attach(d, p, k)
    BY <2>5 DEF Attach, At, LockInv, Inside
  <2> QED
    BY <1>3, <2>1, <2>2, <2>3, <2>4, <2>5
<1> QED
  BY <1>1, <1>2, <1>3 DEF Next

LEMMA SpecLock == Spec => []IInv
<1>1. Init => IInv
  BY InitLock DEF IInv, Init
<1> QED
  BY <1>1, NextKeeps, PTL DEF Spec

\* Until a thread goes on without dsc_mutex, no two are in the critical section,
\* and each way out of aui_dsc_attach_key_info2dsc gives the mutex back.
THEOREM SerialAccessHolds == Spec => []SerialAccess
<1>1. IInv => SerialAccess
  BY DEF IInv, LockInv, SerialAccess
<1> QED
  BY <1>1, SpecLock, PTL

-----------------------------------------------------------------------------
(***************************************************************************)
(* Lists of keys: what Find finds, and what putting a key in front, taking  *)
(* one out and changing one do to it.  Every list has at most one key of a  *)
(* PID that is not of the OTP, in front of one of the OTP.                  *)
(***************************************************************************)
Mkey(d) == [pid : PidsOf(d), key : KeysOf(d), num : Numbers, routed : BOOLEAN]

Stacked(L) ==
    \A i, j \in DOMAIN L : i < j /\ L[i].pid = L[j].pid
                           => L[i].key \notin OtpKeys /\ L[j].key \in OtpKeys
ListGood(d, L) == L \in Seq(Mkey(d)) /\ Stacked(L)

LEMMA NoneIsNoKey ==
    ASSUME NEW d \in Devices
    PROVE  None \notin Mkey(d) /\ None \notin KeysOf(d) /\ None \notin Numbers
BY KeysAssumption DEF Mkey, PidsOf, KeysOf, Keys

LEMMA LeastNumber ==
    ASSUME NEW S, S \subseteq Nat, S # {}
    PROVE  \E x \in S : \A y \in S : x <= y
<1>1. PICK x \in S : \A y \in S : ~(<<y, x>> \in OpToRel(<, Nat))
  BY WFMin, NatLessThanWellFounded, Zenon
<1>2. ASSUME NEW y \in S PROVE x <= y
  <2>1. ~(y < x)
    BY <1>1, Zenon DEF OpToRel
  <2>2. x \in Nat /\ y \in Nat
    OBVIOUS
  <2> QED
    BY <2>1, <2>2
<1> QED
  BY <1>2

\* The first key of a PID
FirstAt(L, p, i) ==
    i \in DOMAIN L /\ L[i].pid = p /\ \A j \in DOMAIN L : L[j].pid = p => i <= j

LEMMA FindNone ==
    ASSUME NEW L, NEW p, \A i \in DOMAIN L : L[i].pid # p
    PROVE  Find(L, p) = None
BY DEF Find

LEMMA FindFirst ==
    ASSUME NEW S, NEW L \in Seq(S), NEW p, NEW i, FirstAt(L, p, i)
    PROVE  Find(L, p) = L[i]
<1> DEFINE found == {j \in DOMAIN L : L[j].pid = p}
<1>1. i \in found /\ found \subseteq Nat /\ \A j \in found : i <= j
  BY DEF FirstAt
<1>2. Find(L, p) = L[Min(found)]
  BY <1>1 DEF Find
<1> HIDE DEF found
<1>3. Min(found) \in found /\ \A j \in found : Min(found) <= j
  BY <1>1 DEF Min
<1> DEFINE least == Min(found)
<1>4. least \in found /\ i <= least /\ least <= i
  BY <1>1, <1>3
<1>5. least \in Nat /\ i \in Nat
  BY <1>1, <1>4
<1> HIDE DEF least
<1>6. least = i
  BY <1>4, <1>5
<1> QED
  BY <1>2, <1>6 DEF least

LEMMA FirstThere ==
    ASSUME NEW S, NEW L \in Seq(S), NEW p, NEW k \in DOMAIN L, L[k].pid = p
    PROVE  \E i : FirstAt(L, p, i)
<1> DEFINE found == {j \in DOMAIN L : L[j].pid = p}
<1>1. found \subseteq Nat /\ found # {}
  OBVIOUS
<1>2. PICK i \in found : \A j \in found : i <= j
  BY <1>1, LeastNumber
<1> QED
  BY <1>2 DEF FirstAt

LEMMA FindIs ==
    ASSUME NEW d \in Devices, NEW L \in Seq(Mkey(d)), NEW p
    PROVE  \/ Find(L, p) = None /\ \A i \in DOMAIN L : L[i].pid # p
           \/ \E i : /\ FirstAt(L, p, i) /\ Find(L, p) = L[i]
                     /\ L[i] \in Mkey(d) /\ L[i] # None
<1>1. CASE \A i \in DOMAIN L : L[i].pid # p
  BY <1>1, FindNone
<1>2. ASSUME NEW k \in DOMAIN L, L[k].pid = p
      PROVE  \E i : FirstAt(L, p, i) /\ Find(L, p) = L[i] /\ L[i] \in Mkey(d) /\ L[i] # None
  <2>1. PICK i : FirstAt(L, p, i)
    BY <1>2, FirstThere
  <2>2. Find(L, p) = L[i]
    BY <2>1, FindFirst
  <2>3. L[i] \in Mkey(d)
    BY <2>1 DEF FirstAt
  <2> QED
    BY <2>1, <2>2, <2>3, NoneIsNoKey
<1> QED
  BY <1>1, <1>2

LEMMA MkeyParts ==
    ASSUME NEW d, NEW m \in Mkey(d)
    PROVE  m.pid \in PidsOf(d) /\ m.key \in KeysOf(d) /\ m.num \in Numbers /\ m.routed \in BOOLEAN
BY DEF Mkey

LEMMA TypeIs ==
    ASSUME NEW d, NEW k \in KeysOf(d)
    PROVE  /\ k \in KlKeys <=> Type(k) = "kl"
           /\ k \in Words <=> Type(k) = "clear"
           /\ k \in OtpKeys <=> Type(k) = "otp"
BY KeysAssumption DEF KeysOf, Keys, Type

\* A key found is in the list once
LEMMA OnlyOnce ==
    ASSUME NEW d, NEW L, ListGood(d, L), NEW p, NEW i, FirstAt(L, p, i),
           NEW j \in DOMAIN L, L[j] = L[i]
    PROVE  j = i
<1>1. i \in DOMAIN L /\ i <= j /\ i \in Nat /\ j \in Nat /\ L[i].pid = L[j].pid
  BY DEF FirstAt, ListGood
<1>2. ~(i < j)
  BY <1>1 DEF ListGood, Stacked
<1> QED
  BY <1>1, <1>2

\* A key in front is the one found; the keys of other PIDs are found as before.
LEMMA ConsFound ==
    ASSUME NEW S, NEW L \in Seq(S), NEW m \in S
    PROVE  /\ <<m>> \o L \in Seq(S) /\ DOMAIN (<<m>> \o L) = 1..(Len(L) + 1)
           /\ (<<m>> \o L)[1] = m
           /\ \A i \in 1..Len(L) : (<<m>> \o L)[i + 1] = L[i]
           /\ \A i \in 2..(Len(L) + 1) : i - 1 \in DOMAIN L /\ (<<m>> \o L)[i] = L[i - 1]
           /\ Find(<<m>> \o L, m.pid) = m
           /\ \A q : q # m.pid => Find(<<m>> \o L, q) = Find(L, q)
<1> DEFINE N == <<m>> \o L
<1>1. <<m>> \in Seq(S) /\ Len(<<m>>) = 1 /\ <<m>>[1] = m /\ Len(L) \in Nat /\ DOMAIN L = 1..Len(L)
  OBVIOUS
<1>2. /\ N \in Seq(S) /\ Len(N) = 1 + Len(L)
      /\ \A i \in 1..(1 + Len(L)) : N[i] = IF i <= 1 THEN <<m>>[i] ELSE L[i - 1]
  BY <1>1, ConcatProperties
<1> HIDE DEF N
<1>3. DOMAIN N = 1..(Len(L) + 1)
  BY <1>1, <1>2
<1>4. N[1] = m
  BY <1>1, <1>2
<1>5. \A i \in 1..Len(L) : N[i + 1] = L[i]
  BY <1>1, <1>2
<1>6. \A i \in 2..(Len(L) + 1) : i - 1 \in DOMAIN L /\ N[i] = L[i - 1]
  BY <1>1, <1>2
<1>7. Find(N, m.pid) = m
  <2>1. FirstAt(N, m.pid, 1)
    BY <1>1, <1>3, <1>4 DEF FirstAt
  <2> QED
    BY <2>1, <1>2, <1>4, FindFirst
<1>8. ASSUME NEW q, q # m.pid PROVE Find(N, q) = Find(L, q)
  <2>1. CASE \A i \in DOMAIN L : L[i].pid # q
    <3>1. \A i \in DOMAIN N : N[i].pid # q
      <4> TAKE i \in DOMAIN N
      <4>1. i = 1 \/ i \in 2..(Len(L) + 1)
        BY <1>1, <1>3
      <4> QED
        BY <4>1, <1>4, <1>6, <1>8, <2>1
    <3> QED
      BY <2>1, <3>1, FindNone
  <2>2. ASSUME NEW k \in DOMAIN L, L[k].pid = q PROVE Find(N, q) = Find(L, q)
    <3>1. PICK i : FirstAt(L, q, i)
      BY <2>2, FirstThere
    <3>2. i \in 1..Len(L) /\ L[i].pid = q /\ \A j \in DOMAIN L : L[j].pid = q => i <= j
      BY <1>1, <3>1 DEF FirstAt
    <3>3. N[i + 1] = L[i] /\ i + 1 \in DOMAIN N
      BY <1>1, <1>3, <1>5, <3>2
    <3>4. ASSUME NEW j \in DOMAIN N, N[j].pid = q PROVE i + 1 <= j
      <4>1. j \in 2..(Len(L) + 1)
        BY <1>1, <1>3, <1>4, <1>8, <3>4
      <4>2. j - 1 \in DOMAIN L /\ L[j - 1].pid = q
        BY <4>1, <1>6, <3>4
      <4>3. i <= j - 1
        BY <4>2, <3>2
      <4> QED
        BY <4>1, <4>3, <3>2
    <3>5. FirstAt(N, q, i + 1)
      BY <3>2, <3>3, <3>4 DEF FirstAt
    <3>6. Find(N, q) = N[i + 1] /\ Find(L, q) = L[i]
      BY <3>1, <3>5, <1>2, FindFirst
    <3> QED
      BY <3>3, <3>6
  <2> QED
    BY <2>1, <2>2
<1> QED
  BY <1>2, <1>3, <1>4, <1>5, <1>6, <1>7, <1>8 DEF N

\* What changing a found key does to a list.
LEMMA ChangedFound ==
    ASSUME NEW d, NEW L, ListGood(d, L), NEW p, NEW i, FirstAt(L, p, i),
           NEW m \in Mkey(d), m.pid = p, m.key \in OtpKeys <=> L[i].key \in OtpKeys
    PROVE  LET N == Changed(L, L[i], m)
           IN  /\ ListGood(d, N) /\ DOMAIN N = DOMAIN L
               /\ N[i] = m /\ \A j \in DOMAIN L : j # i => N[j] = L[j]
               /\ Find(N, p) = m /\ \A q : q # p => Find(N, q) = Find(L, q)
<1> DEFINE N == Changed(L, L[i], m)
<1>1. L \in Seq(Mkey(d)) /\ DOMAIN L = 1..Len(L) /\ Len(L) \in Nat /\ i \in DOMAIN L /\ L[i].pid = p
  BY DEF ListGood, FirstAt
<1>2. DOMAIN N = DOMAIN L /\ N[i] = m
  BY <1>1 DEF Changed
<1>3. \A j \in DOMAIN L : j # i => N[j] = L[j]
  BY OnlyOnce DEF Changed
<1>4. N \in Seq(Mkey(d))
  <2>1. N \in [1..Len(L) -> Mkey(d)]
    BY <1>1 DEF Changed
  <2> HIDE DEF N
  <2> QED
    BY <1>1, <2>1
<1> HIDE DEF N
<1>5. \A j \in DOMAIN L : N[j].pid = L[j].pid /\ (N[j].key \in OtpKeys <=> L[j].key \in OtpKeys)
  BY <1>1, <1>2, <1>3
<1>6. ListGood(d, N)
  BY <1>2, <1>4, <1>5 DEF ListGood, Stacked
<1>7. \A q, j : FirstAt(N, q, j) <=> FirstAt(L, q, j)
  BY <1>2, <1>5 DEF FirstAt
<1>8. Find(N, p) = m
  BY <1>2, <1>4, <1>7, FindFirst
<1>9. ASSUME NEW q, q # p PROVE Find(N, q) = Find(L, q)
  <2>1. CASE \A j \in DOMAIN L : L[j].pid # q
    BY <2>1, <1>2, <1>5, FindNone
  <2>2. ASSUME NEW k \in DOMAIN L, L[k].pid = q PROVE Find(N, q) = Find(L, q)
    <3>1. PICK j : FirstAt(L, q, j)
      BY <1>1, <2>2, FirstThere
    <3>2. j \in DOMAIN L /\ j # i
      BY <1>1, <1>9, <3>1 DEF FirstAt
    <3>3. Find(N, q) = N[j] /\ Find(L, q) = L[j]
      BY <1>1, <1>4, <1>7, <3>1, FindFirst
    <3> QED
      BY <3>2, <3>3, <1>3
  <2> QED
    BY <2>1, <2>2
<1> QED
  BY <1>2, <1>3, <1>6, <1>8, <1>9 DEF N

\* Where the keys of a list go when the i-th is taken out
Skip(i, j) == IF j < i THEN j ELSE j + 1

LEMMA RemovedIs ==
    ASSUME NEW S, NEW L \in Seq(S), NEW i \in DOMAIN L
    PROVE  /\ RemoveAt(L, i) \in Seq(S) /\ DOMAIN RemoveAt(L, i) = 1..(Len(L) - 1)
           /\ \A j \in 1..(Len(L) - 1) : RemoveAt(L, i)[j] = L[Skip(i, j)]
<1>1. Len(L) \in Nat /\ DOMAIN L = 1..Len(L) /\ i \in 1..Len(L)
  OBVIOUS
<1> DEFINE front == SubSeq(L, 1, i - 1)
           rear == SubSeq(L, i + 1, Len(L))
<1>2. front \in Seq(S) /\ Len(front) = i - 1 /\ \A j \in 1..(i - 1) : front[j] = L[j]
  BY <1>1
<1>3. rear \in Seq(S) /\ Len(rear) = Len(L) - i /\ \A j \in 1..(Len(L) - i) : rear[j] = L[j + i]
  BY <1>1
<1>4. RemoveAt(L, i) = front \o rear
  BY DEF RemoveAt
<1> HIDE DEF front, rear
<1>5. /\ front \o rear \in Seq(S) /\ Len(front \o rear) = Len(front) + Len(rear)
      /\ \A j \in 1..(Len(front) + Len(rear)) :
            (front \o rear)[j] = IF j <= Len(front) THEN front[j] ELSE rear[j - Len(front)]
  BY <1>2, <1>3, ConcatProperties
<1> DEFINE N == front \o rear
<1>6. N \in Seq(S) /\ Len(N) = Len(L) - 1 /\ Len(front) + Len(rear) = Len(L) - 1
  BY <1>1, <1>2, <1>3, <1>5
<1>7. \A j \in 1..(Len(L) - 1) : N[j] = IF j <= i - 1 THEN front[j] ELSE rear[j - (i - 1)]
  BY <1>2, <1>5, <1>6
<1> HIDE DEF N
<1>8. ASSUME NEW j \in 1..(Len(L) - 1) PROVE N[j] = L[Skip(i, j)]
  <2>1. CASE j < i
    BY <2>1, <1>1, <1>2, <1>7 DEF Skip
  <2>2. CASE ~(j < i)
    <3>1. j - (i - 1) \in 1..(Len(L) - i) /\ ~(j <= i - 1) /\ (j - (i - 1)) + i = j + 1
      BY <2>2, <1>1
    <3>2. N[j] = rear[j - (i - 1)]
      BY <3>1, <1>7
    <3>3. rear[j - (i - 1)] = L[(j - (i - 1)) + i]
      BY <3>1, <1>3
    <3> QED
      BY <2>2, <3>1, <3>2, <3>3 DEF Skip
  <2> QED
    BY <2>1, <2>2
<1>9. DOMAIN N = 1..(Len(L) - 1)
  BY <1>1, <1>6
<1> QED
  BY <1>4, <1>6, <1>8, <1>9 DEF N

LEMMA WithoutIs ==
    ASSUME NEW d, NEW L, ListGood(d, L), NEW p, NEW i, FirstAt(L, p, i)
    PROVE  Without(L, L[i]) = RemoveAt(L, i)
<1> DEFINE at == CHOOSE j \in DOMAIN L : L[j] = L[i]
<1>1. i \in DOMAIN L
  BY DEF FirstAt
<1>2. at \in DOMAIN L /\ L[at] = L[i]
  BY <1>1
<1>3. Without(L, L[i]) = RemoveAt(L, at)
  BY DEF Without
<1> HIDE DEF at
<1>4. at = i
  BY <1>2, OnlyOnce
<1> QED
  BY <1>3, <1>4

\* What taking a found key out does to a list: what it leaves is the rest, and
\* for the PID at most a key of the OTP.
LEMMA WithoutFound ==
    ASSUME NEW d, NEW L, ListGood(d, L), NEW p, NEW i, FirstAt(L, p, i)
    PROVE  LET N == Without(L, L[i])
           IN  /\ ListGood(d, N)
               /\ \A j \in DOMAIN N : /\ Skip(i, j) \in DOMAIN L /\ Skip(i, j) # i
                                      /\ N[j] = L[Skip(i, j)]
               /\ \A j, k \in DOMAIN N : Skip(i, j) = Skip(i, k) => j = k
               /\ \A k \in DOMAIN L : k # i => \E j \in DOMAIN N : Skip(i, j) = k
               /\ \A j \in DOMAIN N : N[j].pid = p => N[j].key \in OtpKeys
               /\ \A q : q # p => Find(N, q) = Find(L, q)
<1> DEFINE N == Without(L, L[i])
<1>1. /\ L \in Seq(Mkey(d)) /\ DOMAIN L = 1..Len(L) /\ Len(L) \in Nat /\ i \in DOMAIN L
      /\ L[i].pid = p /\ \A j \in DOMAIN L : L[j].pid = p => i <= j
  BY DEF ListGood, FirstAt
<1>2. N \in Seq(Mkey(d)) /\ DOMAIN N = 1..(Len(L) - 1) /\ \A j \in DOMAIN N : N[j] = L[Skip(i, j)]
  <2>1. N = RemoveAt(L, i)
    BY WithoutIs
  <2>2. /\ RemoveAt(L, i) \in Seq(Mkey(d)) /\ DOMAIN RemoveAt(L, i) = 1..(Len(L) - 1)
        /\ \A j \in 1..(Len(L) - 1) : RemoveAt(L, i)[j] = L[Skip(i, j)]
    BY <1>1, RemovedIs
  <2> HIDE DEF N
  <2> QED
    BY <2>1, <2>2
<1> HIDE DEF N
<1>3. \A j \in DOMAIN N : Skip(i, j) \in DOMAIN L /\ Skip(i, j) # i
  BY <1>1, <1>2 DEF Skip
<1>4. \A j, k \in DOMAIN N : (j < k <=> Skip(i, j) < Skip(i, k)) /\ (Skip(i, j) = Skip(i, k) => j = k)
  BY <1>1, <1>2 DEF Skip
<1>5. \A k \in DOMAIN L : k # i => \E j \in DOMAIN N : Skip(i, j) = k
  <2> TAKE k \in DOMAIN L
  <2> HAVE k # i
  <2>1. CASE k < i
    <3>1. k \in DOMAIN N /\ Skip(i, k) = k
      BY <2>1, <1>1, <1>2 DEF Skip
    <3> QED
      BY <3>1
  <2>2. CASE k > i
    <3>1. k - 1 \in DOMAIN N /\ Skip(i, k - 1) = k
      BY <2>2, <1>1, <1>2 DEF Skip
    <3> QED
      BY <3>1
  <2> QED
    BY <2>1, <2>2, <1>1
<1>6. ListGood(d, N)
  <2>1. ASSUME NEW j \in DOMAIN N, NEW k \in DOMAIN N, j < k, N[j].pid = N[k].pid
        PROVE  N[j].key \notin OtpKeys /\ N[k].key \in OtpKeys
    <3>1. /\ Skip(i, j) < Skip(i, k) /\ Skip(i, j) \in DOMAIN L /\ Skip(i, k) \in DOMAIN L
          /\ N[j] = L[Skip(i, j)] /\ N[k] = L[Skip(i, k)]
      BY <2>1, <1>2, <1>3, <1>4
    <3> QED
      BY <2>1, <3>1 DEF ListGood, Stacked
  <2> QED
    BY <2>1, <1>2 DEF ListGood, Stacked
<1>7. ASSUME NEW j \in DOMAIN N, N[j].pid = p PROVE N[j].key \in OtpKeys
  <2>1. N[j] = L[Skip(i, j)] /\ Skip(i, j) \in DOMAIN L /\ Skip(i, j) # i
    BY <1>2, <1>3
  <2>2. i < Skip(i, j)
    BY <1>1, <1>7, <2>1
  <2> QED
    BY <1>1, <1>7, <2>1, <2>2 DEF ListGood, Stacked
<1>8. ASSUME NEW q, q # p PROVE Find(N, q) = Find(L, q)
  <2>1. CASE \A k \in DOMAIN L : L[k].pid # q
    <3>1. \A j \in DOMAIN N : N[j].pid # q
      BY <2>1, <1>2, <1>3
    <3> QED
      BY <2>1, <3>1, FindNone
  <2>2. ASSUME NEW k \in DOMAIN L, L[k].pid = q PROVE Find(N, q) = Find(L, q)
    <3>1. PICK f : FirstAt(L, q, f)
      BY <1>1, <2>2, FirstThere
    <3>2. f \in DOMAIN L /\ L[f].pid = q /\ f # i
      BY <1>1, <1>8, <3>1 DEF FirstAt
    <3>3. PICK j \in DOMAIN N : Skip(i, j) = f
      BY <3>2, <1>5
    <3>4. N[j] = L[f]
      BY <3>3, <1>2
    <3>5. ASSUME NEW e \in DOMAIN N, N[e].pid = q PROVE j <= e
      <4>1. Skip(i, e) \in DOMAIN L /\ L[Skip(i, e)].pid = q
        BY <3>5, <1>2, <1>3
      <4>2. f <= Skip(i, e)
        BY <4>1, <3>1 DEF FirstAt
      <4>3. ~(Skip(i, e) < Skip(i, j))
        BY <4>1, <4>2, <3>2, <3>3, <1>1
      <4>4. ~(e < j) /\ e \in Nat /\ j \in Nat
        BY <4>3, <1>2, <1>4
      <4> QED
        BY <4>4
    <3>6. FirstAt(N, q, j)
      BY <3>2, <3>4, <3>5 DEF FirstAt
    <3>7. Find(N, q) = N[j] /\ Find(L, q) = L[f]
      BY <3>1, <3>6, <1>1, <1>2, FindFirst
    <3> QED
      BY <3>4, <3>7
  <2> QED
    BY <2>1, <2>2
<1> QED
  BY <1>2, <1>3, <1>4, <1>5, <1>6, <1>7, <1>8 DEF N

-----------------------------------------------------------------------------
(***************************************************************************)
(* One device, from its list L, what the driver holds D, what was attached  *)
(* W, the numbers P of a key that is being exchanged, and the PIDs X whose   *)
(* key has been taken off the list and not put back yet.                    *)
(***************************************************************************)
Nums(L) == {L[i].num : i \in DOMAIN L}

\* The driver holds the keys of the list, each under its own number, and P
Books(L, D, P) ==
    /\ \A i, j \in DOMAIN L : L[i].num = L[j].num => i = j
    /\ Nums(L) \cap P = {}
    /\ \A n \in Numbers : D[n] # None <=> n \in Nums(L) \cup P

AllRouted(d, L) == \A i \in DOMAIN L : L[i].routed <=> d \notin Raw

InForce(L, D, W, p) ==
    LET m == Find(L, p) IN m # None /\ m.key = W[p] /\ D[m.num] = W[p]
Wanted(d, L, D, W, X) ==
    \A p \in PidsOf(d) : W[p] # None /\ p \notin X => InForce(L, D, W, p)

OtpOnly(L, X) == \A i \in DOMAIN L : L[i].pid \in X => L[i].key \in OtpKeys

KeysGood(d, L, D, W, P, X) ==
    Books(L, D, P) /\ AllRouted(d, L) /\ OtpOnly(L, X) /\ Wanted(d, L, D, W, X)

Held(d) == [Numbers -> KeysOf(d) \cup {None}]
Wishes(d) == [PidsOf(d) -> KeysOf(d) \cup {None}]

LEMMA InNums ==
    ASSUME NEW d \in Devices, NEW L \in Seq(Mkey(d)), NEW q, Find(L, q) # None
    PROVE  /\ Find(L, q).num \in Nums(L) /\ Find(L, q).num \in Numbers
           /\ Find(L, q).pid = q /\ Find(L, q) \in Mkey(d)
<1>1. PICK i : FirstAt(L, q, i) /\ Find(L, q) = L[i] /\ L[i] \in Mkey(d)
  BY FindIs
<1>2. i \in DOMAIN L /\ L[i].pid = q
  BY <1>1 DEF FirstAt
<1> QED
  BY <1>1, <1>2, MkeyParts DEF Nums

\* A created key is the one in force for its PID and disturbs no other.
LEMMA CreateGood ==
    ASSUME NEW d \in Devices, NEW L, ListGood(d, L), NEW D \in Held(d), NEW W \in Wishes(d),
           NEW P, NEW X, KeysGood(d, L, D, W, P, X),
           NEW m \in Mkey(d), D[m.num] = None, m.routed <=> d \notin Raw, X \subseteq {m.pid}
    PROVE  KeysGood(d, <<m>> \o L, [D EXCEPT ![m.num] = m.key], [W EXCEPT ![m.pid] = m.key], P, {})
<1> DEFINE N == <<m>> \o L
           E == [D EXCEPT ![m.num] = m.key]
           V == [W EXCEPT ![m.pid] = m.key]
<1>1. L \in Seq(Mkey(d)) /\ DOMAIN L = 1..Len(L) /\ Len(L) \in Nat
  BY DEF ListGood
<1>2. /\ N \in Seq(Mkey(d)) /\ DOMAIN N = 1..(Len(L) + 1) /\ N[1] = m
      /\ \A i \in 1..Len(L) : N[i + 1] = L[i]
      /\ \A i \in 2..(Len(L) + 1) : i - 1 \in DOMAIN L /\ N[i] = L[i - 1]
      /\ Find(N, m.pid) = m /\ \A q : q # m.pid => Find(N, q) = Find(L, q)
  BY <1>1, ConsFound
<1>3. m.pid \in PidsOf(d) /\ m.key \in KeysOf(d) /\ m.num \in Numbers /\ m # None /\ m.key # None
  BY MkeyParts, NoneIsNoKey
<1>4. /\ E[m.num] = m.key /\ \A n \in Numbers : n # m.num => E[n] = D[n]
      /\ V[m.pid] = m.key /\ \A q \in PidsOf(d) : q # m.pid => V[q] = W[q]
  BY <1>3 DEF Held, Wishes
<1> HIDE DEF N, E, V
<1>5. m.num \notin Nums(L) /\ m.num \notin P
  BY <1>3 DEF KeysGood, Books
<1>6. \A i \in DOMAIN N : i = 1 \/ (i \in 2..(Len(L) + 1) /\ i - 1 \in DOMAIN L /\ N[i] = L[i - 1])
  BY <1>1, <1>2
<1>7. Nums(N) = Nums(L) \cup {m.num}
  <2>1. ASSUME NEW i \in DOMAIN N PROVE N[i].num \in Nums(L) \cup {m.num}
    BY <1>2, <1>6 DEF Nums
  <2>2. ASSUME NEW i \in DOMAIN L PROVE L[i].num \in Nums(N)
    <3>1. i + 1 \in DOMAIN N /\ N[i + 1] = L[i]
      BY <1>1, <1>2
    <3> QED
      BY <3>1 DEF Nums
  <2>3. m.num \in Nums(N)
    <3>1. 1 \in DOMAIN N
      BY <1>1, <1>2
    <3> QED
      BY <3>1, <1>2 DEF Nums
  <2> QED
    BY <2>1, <2>2, <2>3 DEF Nums
<1>8. \A i, j \in DOMAIN N : N[i].num = N[j].num => i = j
  <2> SUFFICES ASSUME NEW i \in DOMAIN N, NEW j \in DOMAIN N, N[i].num = N[j].num
               PROVE  i = j
    OBVIOUS
  <2>1. CASE i = 1 /\ j # 1
    BY <2>1, <1>2, <1>5, <1>6 DEF Nums
  <2>2. CASE i # 1 /\ j = 1
    BY <2>2, <1>2, <1>5, <1>6 DEF Nums
  <2>3. CASE i # 1 /\ j # 1
    <3>1. i - 1 \in DOMAIN L /\ j - 1 \in DOMAIN L /\ L[i - 1].num = L[j - 1].num
      BY <2>3, <1>6
    <3>2. i - 1 = j - 1
      BY <3>1 DEF KeysGood, Books
    <3> QED
      BY <3>2, <1>1, <1>2
  <2> QED
    BY <2>1, <2>2, <2>3
<1>9. Books(N, E, P)
  <2>1. Nums(N) \cap P = {}
    BY <1>5, <1>7 DEF KeysGood, Books
  <2>2. ASSUME NEW n \in Numbers PROVE E[n] # None <=> n \in Nums(N) \cup P
    BY <1>3, <1>4, <1>5, <1>7 DEF KeysGood, Books
  <2> QED
    BY <2>1, <2>2, <1>8 DEF Books
<1>10. AllRouted(d, N)
  BY <1>2, <1>6 DEF KeysGood, AllRouted
<1>11. Wanted(d, N, E, V, {})
  <2> SUFFICES ASSUME NEW q \in PidsOf(d), V[q] # None PROVE InForce(N, E, V, q)
    BY DEF Wanted
  <2>1. CASE q = m.pid
    BY <2>1, <1>2, <1>3, <1>4 DEF InForce
  <2>2. CASE q # m.pid
    <3>1. InForce(L, D, W, q)
      BY <2>2, <1>4 DEF KeysGood, Wanted
    <3>2. Find(L, q).num \in Nums(L) /\ Find(L, q).num \in Numbers
      BY <3>1, <1>1, InNums DEF InForce
    <3> QED
      BY <2>2, <3>1, <3>2, <1>2, <1>4, <1>5 DEF InForce
  <2> QED
    BY <2>1, <2>2
<1> QED
  BY <1>9, <1>10, <1>11 DEF KeysGood, OtpOnly, N, E, V

\* A created key is stacked on the list if it is the only one of its PID, or
\* stands before a key of the OTP (Creates).
LEMMA CreateListGood ==
    ASSUME NEW d \in Devices, NEW L, ListGood(d, L), NEW m \in Mkey(d),
           Find(L, m.pid) # None => Find(L, m.pid).key \in OtpKeys /\ m.key \notin OtpKeys
    PROVE  ListGood(d, <<m>> \o L)
<1> DEFINE N == <<m>> \o L
<1>1. L \in Seq(Mkey(d)) /\ DOMAIN L = 1..Len(L) /\ Len(L) \in Nat
  BY DEF ListGood
<1>2. /\ N \in Seq(Mkey(d)) /\ DOMAIN N = 1..(Len(L) + 1) /\ N[1] = m
      /\ \A i \in 2..(Len(L) + 1) : i - 1 \in DOMAIN L /\ N[i] = L[i - 1]
  BY <1>1, ConsFound
<1> HIDE DEF N
<1>3. ASSUME NEW j \in DOMAIN L, L[j].pid = m.pid
      PROVE  m.key \notin OtpKeys /\ L[j].key \in OtpKeys
  <2>1. PICK i : FirstAt(L, m.pid, i) /\ Find(L, m.pid) = L[i] /\ L[i] # None
    BY <1>1, <1>3, FindIs
  <2>2. i <= j /\ i \in DOMAIN L /\ L[i].pid = m.pid /\ L[i].key \in OtpKeys /\ m.key \notin OtpKeys
    BY <2>1, <1>3 DEF FirstAt
  <2>3. ~(i < j)
    BY <1>3, <2>2 DEF ListGood, Stacked
  <2>4. i = j
    BY <2>2, <2>3, <1>1
  <2> QED
    BY <2>2, <2>4
<1>4. ASSUME NEW i \in DOMAIN N, NEW j \in DOMAIN N, i < j, N[i].pid = N[j].pid
      PROVE  N[i].key \notin OtpKeys /\ N[j].key \in OtpKeys
  <2>1. j \in 2..(Len(L) + 1) /\ j - 1 \in DOMAIN L /\ N[j] = L[j - 1]
    BY <1>1, <1>2, <1>4
  <2>2. CASE i = 1
    BY <2>1, <2>2, <1>2, <1>3, <1>4
  <2>3. CASE i # 1
    <3>1. i - 1 \in DOMAIN L /\ N[i] = L[i - 1] /\ i - 1 < j - 1
      BY <2>1, <2>3, <1>1, <1>2, <1>4
    <3> QED
      BY <2>1, <3>1, <1>4 DEF ListGood, Stacked
  <2> QED
    BY <2>2, <2>3
<1> QED
  BY <1>2, <1>4 DEF ListGood, Stacked, N

\* A changed key may take a free number; it is in force if the driver has it.
LEMMA ChangeGood ==
    ASSUME NEW d \in Devices, NEW L, ListGood(d, L), NEW D \in Held(d), NEW W \in Wishes(d),
           KeysGood(d, L, D, W, {}, {}), NEW p \in PidsOf(d), Find(L, p) # None,
           NEW m \in Mkey(d), m.pid = p, m.routed <=> d \notin Raw,
           m.key \in OtpKeys <=> Find(L, p).key \in OtpKeys,
           m.num = Find(L, p).num \/ D[m.num] = None,
           NEW E, E[m.num] # None,
           m.num # Find(L, p).num => E[Find(L, p).num] = None,
           \A n \in Numbers : n # m.num /\ n # Find(L, p).num => E[n] = D[n],
           NEW V, V[p] # None => V[p] = m.key /\ E[m.num] = V[p],
           \A q \in PidsOf(d) : q # p => V[q] = W[q]
    PROVE  /\ ListGood(d, Changed(L, Find(L, p), m))
           /\ KeysGood(d, Changed(L, Find(L, p), m), E, V, {}, {})
<1> DEFINE N == Changed(L, Find(L, p), m)
<1>1. L \in Seq(Mkey(d))
  BY DEF ListGood
<1>2. PICK i : FirstAt(L, p, i) /\ Find(L, p) = L[i] /\ L[i] \in Mkey(d)
  BY <1>1, FindIs
<1>3. i \in DOMAIN L
  BY <1>2 DEF FirstAt
<1>4. /\ ListGood(d, N) /\ DOMAIN N = DOMAIN L
      /\ N[i] = m /\ \A j \in DOMAIN L : j # i => N[j] = L[j]
      /\ Find(N, p) = m /\ \A q : q # p => Find(N, q) = Find(L, q)
  BY <1>2, ChangedFound
<1>5. m.num \in Numbers /\ m # None /\ L[i].num \in Numbers
  BY <1>2, MkeyParts, NoneIsNoKey
<1> HIDE DEF N
<1>6. \A j, k \in DOMAIN L : L[j].num = L[k].num => j = k
  BY DEF KeysGood, Books
<1>7. \A n \in Numbers : D[n] # None <=> n \in Nums(L)
  BY DEF KeysGood, Books
<1>8. L[i].num \in Nums(L) /\ (m.num = L[i].num \/ m.num \notin Nums(L))
  BY <1>2, <1>3, <1>5, <1>7 DEF Nums
<1>9. Nums(N) = (Nums(L) \ {L[i].num}) \cup {m.num}
  <2>1. ASSUME NEW j \in DOMAIN N PROVE N[j].num \in (Nums(L) \ {L[i].num}) \cup {m.num}
    <3>1. CASE j = i
      BY <3>1, <1>4
    <3>2. CASE j # i
      <4>1. N[j] = L[j] /\ j \in DOMAIN L /\ L[j].num # L[i].num
        BY <3>2, <1>3, <1>4, <1>6
      <4> QED
        BY <4>1 DEF Nums
    <3> QED
      BY <3>1, <3>2
  <2>2. ASSUME NEW j \in DOMAIN L, j # i PROVE L[j].num \in Nums(N)
    BY <2>2, <1>4 DEF Nums
  <2>3. m.num \in Nums(N)
    BY <1>3, <1>4 DEF Nums
  <2> QED
    BY <2>1, <2>2, <2>3 DEF Nums
<1>10. \A j, k \in DOMAIN N : N[j].num = N[k].num => j = k
  <2> SUFFICES ASSUME NEW j \in DOMAIN L, NEW k \in DOMAIN L, N[j].num = N[k].num
               PROVE  j = k
    BY <1>4
  <2>1. ASSUME NEW e \in DOMAIN L, e # i PROVE N[e].num # m.num
    BY <2>1, <1>3, <1>4, <1>6, <1>8 DEF Nums
  <2>2. CASE j = i \/ k = i
    BY <2>1, <2>2, <1>4
  <2>3. CASE j # i /\ k # i
    BY <2>3, <1>4, <1>6
  <2> QED
    BY <2>2, <2>3
<1>11. ASSUME NEW n \in Numbers PROVE E[n] # None <=> n \in Nums(N)
  <2>1. CASE n = m.num
    BY <2>1, <1>9
  <2>2. CASE n # m.num /\ n = L[i].num
    BY <2>2, <1>2, <1>9
  <2>3. CASE n # m.num /\ n # L[i].num
    BY <2>3, <1>2, <1>7, <1>9
  <2> QED
    BY <2>1, <2>2, <2>3
<1>12. Books(N, E, {})
  BY <1>10, <1>11 DEF Books
<1>13. AllRouted(d, N)
  <2> SUFFICES ASSUME NEW j \in DOMAIN L PROVE N[j].routed <=> d \notin Raw
    BY <1>4 DEF AllRouted
  <2> QED
    BY <1>4 DEF KeysGood, AllRouted
<1>14. ASSUME NEW q \in PidsOf(d), V[q] # None PROVE InForce(N, E, V, q)
  <2>1. CASE q = p
    BY <2>1, <1>4, <1>5, <1>14 DEF InForce
  <2>2. CASE q # p
    <3>1. InForce(L, D, W, q) /\ V[q] = W[q]
      BY <2>2, <1>14 DEF KeysGood, Wanted
    <3>2. PICK k : FirstAt(L, q, k) /\ Find(L, q) = L[k] /\ L[k] \in Mkey(d)
      BY <1>1, <3>1, FindIs DEF InForce
    <3>3. k \in DOMAIN L /\ k # i /\ L[k].num \in Numbers /\ L[k].num \in Nums(L)
      BY <1>2, <2>2, <3>2, MkeyParts DEF FirstAt, Nums
    <3>4. L[k].num # L[i].num /\ L[k].num # m.num
      BY <3>3, <1>3, <1>6, <1>8
    <3>5. E[L[k].num] = D[L[k].num]
      BY <3>3, <3>4, <1>2
    <3> QED
      BY <2>2, <3>1, <3>2, <3>5, <1>4 DEF InForce
  <2> QED
    BY <2>1, <2>2
<1> QED
  BY <1>4, <1>12, <1>13, <1>14 DEF KeysGood, OtpOnly, Wanted, N

\* A key taken off the list is held apart (P) as long as the driver keeps it.
LEMMA RemoveGood ==
    ASSUME NEW d \in Devices, NEW L, ListGood(d, L), NEW D \in Held(d), NEW W,
           KeysGood(d, L, D, W, {}, {}), NEW p \in PidsOf(d), Find(L, p) # None,
           NEW E, NEW P, NEW V, NEW X,
           P \subseteq {Find(L, p).num}, \A n \in Numbers : n # Find(L, p).num => E[n] = D[n],
           E[Find(L, p).num] # None <=> P # {},
           \A q \in PidsOf(d) : q # p => V[q] = W[q],
           X \subseteq {p}, p \notin X => V[p] = None
    PROVE  /\ ListGood(d, Without(L, Find(L, p)))
           /\ KeysGood(d, Without(L, Find(L, p)), E, V, P, X)
<1> DEFINE N == Without(L, Find(L, p))
<1>1. L \in Seq(Mkey(d))
  BY DEF ListGood
<1>2. PICK i : FirstAt(L, p, i) /\ Find(L, p) = L[i] /\ L[i] \in Mkey(d)
  BY <1>1, FindIs
<1>3. i \in DOMAIN L /\ L[i].num \in Numbers
  BY <1>2, MkeyParts DEF FirstAt
<1>4. /\ ListGood(d, N)
      /\ \A j \in DOMAIN N : /\ Skip(i, j) \in DOMAIN L /\ Skip(i, j) # i
                             /\ N[j] = L[Skip(i, j)]
      /\ \A j, k \in DOMAIN N : Skip(i, j) = Skip(i, k) => j = k
      /\ \A k \in DOMAIN L : k # i => \E j \in DOMAIN N : Skip(i, j) = k
      /\ \A j \in DOMAIN N : N[j].pid = p => N[j].key \in OtpKeys
      /\ \A q : q # p => Find(N, q) = Find(L, q)
  BY <1>2, WithoutFound
<1> HIDE DEF N
<1>5. \A j, k \in DOMAIN L : L[j].num = L[k].num => j = k
  BY DEF KeysGood, Books
<1>6. \A n \in Numbers : D[n] # None <=> n \in Nums(L)
  BY DEF KeysGood, Books
<1>7. Nums(N) = Nums(L) \ {L[i].num}
  <2>1. ASSUME NEW j \in DOMAIN N PROVE N[j].num \in Nums(L) /\ N[j].num # L[i].num
    BY <1>3, <1>4, <1>5 DEF Nums
  <2>2. ASSUME NEW k \in DOMAIN L, L[k].num # L[i].num PROVE L[k].num \in Nums(N)
    <3>1. PICK j \in DOMAIN N : Skip(i, j) = k
      BY <2>2, <1>4
    <3> QED
      BY <3>1, <1>4 DEF Nums
  <2> QED
    BY <2>1, <2>2 DEF Nums
<1>8. \A j, k \in DOMAIN N : N[j].num = N[k].num => j = k
  BY <1>4, <1>5
<1>9. ASSUME NEW n \in Numbers PROVE E[n] # None <=> n \in Nums(N) \cup P
  <2>1. CASE n = L[i].num
    BY <2>1, <1>2, <1>7
  <2>2. CASE n # L[i].num
    BY <2>2, <1>2, <1>6, <1>7
  <2> QED
    BY <2>1, <2>2
<1>10. Books(N, E, P)
  BY <1>2, <1>7, <1>8, <1>9 DEF Books
<1>11. AllRouted(d, N) /\ OtpOnly(N, X)
  BY <1>4 DEF KeysGood, AllRouted, OtpOnly
<1>12. ASSUME NEW q \in PidsOf(d), V[q] # None, q \notin X PROVE InForce(N, E, V, q)
  <2>1. q # p
    BY <1>12
  <2>2. InForce(L, D, W, q) /\ V[q] = W[q]
    BY <2>1, <1>12 DEF KeysGood, Wanted
  <2>3. PICK k : FirstAt(L, q, k) /\ Find(L, q) = L[k] /\ L[k] \in Mkey(d)
    BY <1>1, <2>2, FindIs DEF InForce
  <2>4. k \in DOMAIN L /\ k # i /\ L[k].num \in Numbers
    BY <1>2, <2>1, <2>3, MkeyParts DEF FirstAt
  <2>5. E[L[k].num] = D[L[k].num]
    BY <2>4, <1>2, <1>3, <1>5
  <2> QED
    BY <2>1, <2>2, <2>3, <2>5, <1>4 DEF InForce
<1> QED
  BY <1>4, <1>10, <1>11, <1>12 DEF KeysGood, Wanted, N

\* Deleting the key held apart gives its number back.
LEMMA DeleteGood ==
    ASSUME NEW d \in Devices, NEW L, ListGood(d, L), NEW D \in Held(d), NEW W,
           NEW n \in Numbers, KeysGood(d, L, D, W, {n}, {})
    PROVE  KeysGood(d, L, [D EXCEPT ![n] = None], W, {}, {})
<1> DEFINE E == [D EXCEPT ![n] = None]
<1>1. E[n] = None /\ \A e \in Numbers : e # n => E[e] = D[e]
  BY DEF Held
<1> HIDE DEF E
<1>2. n \notin Nums(L)
  BY DEF KeysGood, Books
<1>3. Books(L, E, {})
  <2>1. \A e \in Numbers : E[e] # None <=> e \in Nums(L)
    BY <1>1, <1>2 DEF KeysGood, Books
  <2> QED
    BY <2>1 DEF KeysGood, Books
<1>4. ASSUME NEW q \in PidsOf(d), W[q] # None PROVE InForce(L, E, W, q)
  <2>1. InForce(L, D, W, q)
    BY <1>4 DEF KeysGood, Wanted
  <2>2. Find(L, q).num \in Nums(L) /\ Find(L, q).num \in Numbers
    BY <2>1, InNums DEF InForce, ListGood
  <2> QED
    BY <2>1, <2>2, <1>1, <1>2 DEF InForce
<1> QED
  BY <1>3, <1>4 DEF KeysGood, Wanted, E

\* Writing the only key again changes nothing that was in force.
LEMMA CryptGood ==
    ASSUME NEW d \in Devices, NEW L, ListGood(d, L), Len(L) = 1, NEW D \in Held(d), NEW W,
           KeysGood(d, L, D, W, {}, {})
    PROVE  KeysGood(d, L, [D EXCEPT ![L[1].num] = L[1].key], W, {}, {})
<1> DEFINE E == [D EXCEPT ![L[1].num] = L[1].key]
<1>1. L \in Seq(Mkey(d)) /\ DOMAIN L = {1}
  BY DEF ListGood
<1>2. L[1] \in Mkey(d) /\ L[1].num \in Numbers /\ L[1].key # None
  BY <1>1, MkeyParts, NoneIsNoKey
<1>3. E[L[1].num] = L[1].key /\ \A n \in Numbers : n # L[1].num => E[n] = D[n]
  BY <1>2 DEF Held
<1> HIDE DEF E
<1>4. Nums(L) = {L[1].num}
  BY <1>1 DEF Nums
<1>5. Books(L, E, {})
  <2>1. \A n \in Numbers : E[n] # None <=> n \in Nums(L)
    BY <1>2, <1>3, <1>4 DEF KeysGood, Books
  <2> QED
    BY <2>1 DEF KeysGood, Books
<1>6. ASSUME NEW q \in PidsOf(d), W[q] # None PROVE InForce(L, E, W, q)
  <2>1. InForce(L, D, W, q)
    BY <1>6 DEF KeysGood, Wanted
  <2>2. PICK k : FirstAt(L, q, k) /\ Find(L, q) = L[k]
    BY <2>1, <1>1, FindIs DEF InForce
  <2>3. Find(L, q) = L[1]
    BY <2>2, <1>1 DEF FirstAt
  <2> QED
    BY <2>1, <2>3, <1>3 DEF InForce
<1> QED
  BY <1>5, <1>6 DEF KeysGood, Wanted, E

-----------------------------------------------------------------------------
(***************************************************************************)
(* The invariant.  Between the calls of a device that no step has failed     *)
(* half-way the driver holds its keys and what was attached is in force.     *)
(* Inside an exchange the old key is held apart, and of its PID the list has *)
(* no key, or one of the OTP, until the inner call has created the new one.  *)
(***************************************************************************)
Points == {"idle", "wait", "in", "relock", "back", "bare"}

CallGood(d, at, c, O, S) ==
    /\ at \in Points
    /\ at = "idle" => c = NoCall
    /\ at # "idle" =>
        /\ d \in O /\ d \notin S
        /\ c \in [pid : PidsOf(d), key : KeysOf(d), old : Mkey(d) \cup {None}]
        /\ at \in {"relock", "back", "bare"} => c.old # None
        /\ c.old # None => /\ c.old.pid = c.pid
                           /\ {Type(c.key), Type(c.old.key)} = {"kl", "clear"}

Pending(c) == IF c.old = None THEN {} ELSE {c.old.num}
Exempt(at, c) == IF c.old # None /\ at \in {"wait", "in"} THEN {c.pid} ELSE {}

DeviceGood(d, L, T, D, W, at, c, O, S) ==
    /\ ListGood(d, L) /\ T \in {"kl", "clear", "otp", None}
    /\ D \in Held(d) /\ W \in Wishes(d)
    /\ CallGood(d, at, c, O, S)
    /\ d \notin S => KeysGood(d, L, D, W, Pending(c), Exempt(at, c))
    /\ d \notin O => L = <<>>
    /\ d \in S => W = NoWant(d)
Good(d) ==
    DeviceGood(d, key_list[d], key_type[d], drv[d], want[d], pc[d], call[d], opened, spoiled)

KeysInv ==
    /\ DOMAIN key_list = Devices /\ DOMAIN key_type = Devices /\ DOMAIN drv = Devices
    /\ DOMAIN want = Devices /\ DOMAIN pc = Devices /\ DOMAIN call = Devices
    /\ opened \subseteq Devices /\ spoiled \subseteq opened
    /\ \A d \in Devices : Good(d)

\* A step of the thread of d changes nothing of another device.
Only(d, f, g) == DOMAIN g = Devices /\ \A e \in Devices : e # d => g[e] = f[e]
OnlyAt(d) ==
    /\ Only(d, key_list, key_list') /\ Only(d, key_type, key_type') /\ Only(d, drv, drv')
    /\ Only(d, want, want') /\ Only(d, pc, pc') /\ Only(d, call, call')
    /\ opened' \subseteq Devices /\ spoiled' \subseteq opened'
    /\ \A e \in Devices : e # d => (e \in opened' <=> e \in opened) /\ (e \in spoiled' <=> e \in spoiled)

LEMMA OtherGood ==
    ASSUME NEW d \in Devices, OnlyAt(d), NEW e \in Devices, e # d, Good(e)
    PROVE  Good(e)'
<1>1. /\ key_list'[e] = key_list[e] /\ key_type'[e] = key_type[e] /\ drv'[e] = drv[e]
      /\ want'[e] = want[e] /\ pc'[e] = pc[e] /\ call'[e] = call[e]
      /\ (e \in opened' <=> e \in opened) /\ (e \in spoiled' <=> e \in spoiled)
  BY DEF OnlyAt, Only
<1> QED
  BY <1>1 DEF Good, DeviceGood, CallGood

LEMMA Carries ==
    ASSUME KeysInv, NEW d \in Devices, OnlyAt(d), Good(d)'
    PROVE  KeysInv'
<1>1. \A e \in Devices : Good(e)'
  BY OtherGood DEF KeysInv
<1> QED
  BY <1>1 DEF KeysInv, OnlyAt, Only

LEMMA EmptyGood ==
    ASSUME NEW d
    PROVE  /\ ListGood(d, <<>>) /\ NoKeys(d) \in Held(d) /\ NoWant(d) \in Wishes(d)
           /\ KeysGood(d, <<>>, NoKeys(d), NoWant(d), {}, {})
<1>1. ListGood(d, <<>>)
  BY DEF ListGood, Stacked
<1>2. NoKeys(d) \in Held(d) /\ NoWant(d) \in Wishes(d)
  BY DEF NoKeys, NoWant, Held, Wishes
<1>3. KeysGood(d, <<>>, NoKeys(d), NoWant(d), {}, {})
  BY DEF KeysGood, Books, Nums, AllRouted, OtpOnly, Wanted, NoKeys, NoWant
<1> QED
  BY <1>1, <1>2, <1>3

LEMMA IdleNoCall == Pending(NoCall) = {} /\ Exempt("idle", NoCall) = {}
BY DEF Pending, Exempt, NoCall

LEMMA InitKeys == Init => KeysInv
<1> SUFFICES ASSUME Init PROVE KeysInv
  OBVIOUS
<1>1. ASSUME NEW d \in Devices PROVE Good(d)
  <2>1. /\ key_list[d] = <<>> /\ key_type[d] = None /\ drv[d] = NoKeys(d)
        /\ want[d] = NoWant(d) /\ pc[d] = "idle" /\ call[d] = NoCall /\ opened = {} /\ spoiled = {}
    BY DEF Init
  <2>2. CallGood(d, "idle", NoCall, {}, {})
    BY DEF CallGood, Points
  <2> QED
    BY <2>1, <2>2, EmptyGood, IdleNoCall DEF Good, DeviceGood
<1> QED
  BY <1>1 DEF Init, KeysInv

\* What a call inside dsc_mutex starts from
LEMMA InCall ==
    ASSUME KeysInv, NEW d \in Devices, At(d, "in")
    PROVE  /\ call[d] \in [pid : PidsOf(d), key : KeysOf(d), old : Mkey(d) \cup {None}]
           /\ d \in opened /\ d \notin spoiled
           /\ ListGood(d, key_list[d]) /\ key_type[d] \in {"kl", "clear", "otp", None}
           /\ drv[d] \in Held(d) /\ want[d] \in Wishes(d)
           /\ call[d].old = None =>
                KeysGood(d, key_list[d], drv[d], want[d], {}, {})
           /\ call[d].old # None =>
                /\ KeysGood(d, key_list[d], drv[d], want[d], {call[d].old.num}, {call[d].pid})
                /\ call[d].old.pid = call[d].pid
                /\ {Type(call[d].key), Type(call[d].old.key)} = {"kl", "clear"}
<1>1. pc[d] = "in" /\ Good(d)
  BY DEF At, KeysInv
<1> QED
  BY <1>1 DEF Good, DeviceGood, CallGood, Pending, Exempt

LEMMA FoundIs ==
    ASSUME KeysInv, NEW d \in Devices, NEW p, Find(key_list[d], p) # None
    PROVE  /\ \E i : FirstAt(key_list[d], p, i) /\ Find(key_list[d], p) = key_list[d][i]
           /\ Find(key_list[d], p) \in Mkey(d) /\ Find(key_list[d], p).pid = p
<1>1. ListGood(d, key_list[d])
  BY DEF KeysInv, Good, DeviceGood
<1>2. PICK i : FirstAt(key_list[d], p, i) /\ Find(key_list[d], p) = key_list[d][i] /\ key_list[d][i] \in Mkey(d)
  BY <1>1, FindIs DEF ListGood
<1> QED
  BY <1>2 DEF FirstAt

\* The inner call of an exchange finds no key of its PID but one of the OTP.
LEMMA NotExchanging ==
    ASSUME KeysInv, NEW d \in Devices, At(d, "in"), Found(d) # None,
           Found(d).key \notin OtpKeys \/ call[d].key \in OtpKeys
    PROVE  call[d].old = None
<1> SUFFICES ASSUME call[d].old # None PROVE FALSE
  OBVIOUS
<1>1. /\ OtpOnly(key_list[d], {call[d].pid}) /\ call[d].key \in KeysOf(d)
      /\ {Type(call[d].key), Type(call[d].old.key)} = {"kl", "clear"}
  BY InCall DEF KeysGood
<1>2. PICK i : FirstAt(key_list[d], call[d].pid, i) /\ Found(d) = key_list[d][i]
  BY FoundIs DEF Found
<1>3. Found(d).key \in OtpKeys
  BY <1>1, <1>2 DEF OtpOnly, FirstAt
<1>4. Type(call[d].key) # "otp"
  BY <1>1
<1> QED
  BY <1>1, <1>3, <1>4, TypeIs

\* The two ways an attach returns
LEMMA ReturnIs ==
    ASSUME KeysInv, NEW d \in Devices, NEW ok \in BOOLEAN, Return(d, ok)
    PROVE  /\ Only(d, pc, pc') /\ Only(d, call, call')
           /\ ok /\ call[d].old # None => pc'[d] \in {"relock", "bare"} /\ call'[d] = call[d]
           /\ ~(ok /\ call[d].old # None) => pc'[d] = "idle" /\ call'[d] = NoCall
<1>1. DOMAIN pc = Devices /\ DOMAIN call = Devices
  BY DEF KeysInv
<1>2. CASE ok /\ call[d].old # None
  BY <1>1, <1>2 DEF Return, GoOn, Only
<1>3. CASE ~(ok /\ call[d].old # None)
  BY <1>1, <1>3 DEF Return, Finish, Only
<1> QED
  BY <1>2, <1>3

\* A device is left as it should be between the calls, or spoiled.
LEMMA IdleGood ==
    ASSUME NEW d \in Devices, NEW L, ListGood(d, L), NEW T \in {"kl", "clear", "otp", None},
           NEW D \in Held(d), NEW W \in Wishes(d), NEW O, NEW S, d \in O,
           \/ d \notin S /\ KeysGood(d, L, D, W, {}, {})
           \/ d \in S /\ W = NoWant(d)
    PROVE  DeviceGood(d, L, T, D, W, "idle", NoCall, O, S)
BY IdleNoCall DEF DeviceGood, CallGood, Points

-----------------------------------------------------------------------------
(* aui_dsc_open, _close, an attach before it has the mutex, and the steps    *)
(* that change no key.                                                      *)

LEMMA OpenKeeps ==
    ASSUME KeysInv, NEW d \in Devices, Open(d)
    PROVE  KeysInv'
<1>1. OnlyAt(d)
  BY DEF Open, OnlyAt, Only, KeysInv, history
<1>2. Good(d)
  BY DEF KeysInv
<1>3. d \notin spoiled /\ pc[d] = "idle"
  BY <1>2 DEF Open, KeysInv, Good, DeviceGood, CallGood
<1>4. Good(d)'
  BY <1>2, <1>3 DEF Open, history, Good, DeviceGood, CallGood
<1> QED
  BY <1>1, <1>4, Carries

LEMMA CloseKeeps ==
    ASSUME KeysInv, NEW d \in Devices, Close(d)
    PROVE  KeysInv'
<1>1. OnlyAt(d)
  BY DEF Close, OnlyAt, Only, KeysInv
<1>2. /\ key_list'[d] = <<>> /\ key_type'[d] = None /\ drv'[d] = NoKeys(d) /\ want'[d] = NoWant(d)
      /\ pc'[d] = "idle" /\ call'[d] = call[d] /\ d \notin opened' /\ d \notin spoiled'
  BY DEF Close, At, KeysInv
<1>3. call[d] = NoCall
  BY DEF KeysInv, Good, DeviceGood, CallGood, Close, At
<1>4. DeviceGood(d, <<>>, None, NoKeys(d), NoWant(d), "idle", NoCall, opened', spoiled')
  BY <1>2, EmptyGood, IdleNoCall DEF DeviceGood, CallGood, Points
<1>5. Good(d)'
  BY <1>2, <1>3, <1>4 DEF Good
<1> QED
  BY <1>1, <1>5, Carries

LEMMA AttachKeeps ==
    ASSUME KeysInv, NEW d \in Devices, NEW p \in PidsOf(d), NEW k \in KeysOf(d), Attach(d, p, k)
    PROVE  KeysInv'
<1> DEFINE c == [pid |-> p, key |-> k, old |-> None]
<1>1. OnlyAt(d)
  BY DEF Attach, OnlyAt, Only, KeysInv, dsc, history
<1>2. Good(d) /\ pc[d] = "idle" /\ d \in opened /\ d \notin spoiled /\ call[d] = NoCall
  BY DEF KeysInv, Attach, At, Sound, Good, DeviceGood, CallGood
<1>3. /\ key_list'[d] = key_list[d] /\ key_type'[d] = key_type[d] /\ drv'[d] = drv[d]
      /\ want'[d] = want[d] /\ opened' = opened /\ spoiled' = spoiled
      /\ pc'[d] = "wait" /\ call'[d] = c
  BY DEF Attach, dsc, history, KeysInv
<1>4. KeysGood(d, key_list[d], drv[d], want[d], {}, {})
  BY <1>2, IdleNoCall DEF Good, DeviceGood
<1>5. Pending(c) = {} /\ Exempt("wait", c) = {}
  BY DEF Pending, Exempt
<1>6. CallGood(d, "wait", c, opened, spoiled)
  BY <1>2 DEF CallGood, Points
<1>7. DeviceGood(d, key_list[d], key_type[d], drv[d], want[d], "wait", c, opened, spoiled)
  <2> HIDE DEF c
  <2> QED
    BY <1>2, <1>4, <1>5, <1>6 DEF DeviceGood, Good
<1>8. Good(d)'
  BY <1>3, <1>7 DEF Good
<1> QED
  BY <1>1, <1>8, Carries

LEMMA MutexKeeps ==
    ASSUME KeysInv, NEW d \in Devices, Lock(d) \/ Relock(d)
    PROVE  KeysInv'
<1>1. OnlyAt(d)
  BY DEF Lock, Relock, OnlyAt, Only, KeysInv, dsc, history
<1>2. /\ key_list'[d] = key_list[d] /\ key_type'[d] = key_type[d] /\ drv'[d] = drv[d]
      /\ want'[d] = want[d] /\ opened' = opened /\ spoiled' = spoiled /\ call'[d] = call[d]
      /\ \/ pc[d] = "wait" /\ pc'[d] = "in"
         \/ pc[d] = "relock" /\ pc'[d] = "back"
  BY DEF Lock, Relock, dsc, history, At, KeysInv
<1>3. Good(d)
  BY DEF KeysInv
<1>4. Exempt(pc'[d], call[d]) = Exempt(pc[d], call[d])
  BY <1>2 DEF Exempt
<1>5. CallGood(d, pc'[d], call[d], opened, spoiled)
  BY <1>2, <1>3 DEF Good, DeviceGood, CallGood, Points
<1>6. Good(d)'
  BY <1>2, <1>3, <1>4, <1>5 DEF Good, DeviceGood
<1> QED
  BY <1>1, <1>6, Carries

\* A call that ends and leaves the keys as they were
LEMMA IdleReturn ==
    ASSUME KeysInv, NEW d \in Devices, At(d, "in"), call[d].old = None,
           NEW ok \in BOOLEAN, Return(d, ok), UNCHANGED <<dsc, history>>
    PROVE  KeysInv'
<1>1. OnlyAt(d) /\ pc'[d] = "idle" /\ call'[d] = NoCall
  BY ReturnIs DEF OnlyAt, Only, KeysInv, dsc, history
<1>2. /\ ListGood(d, key_list[d]) /\ key_type[d] \in {"kl", "clear", "otp", None}
      /\ drv[d] \in Held(d) /\ want[d] \in Wishes(d) /\ d \in opened /\ d \notin spoiled
      /\ KeysGood(d, key_list[d], drv[d], want[d], {}, {})
  BY InCall
<1>3. DeviceGood(d, key_list[d], key_type[d], drv[d], want[d], "idle", NoCall, opened, spoiled)
  BY <1>2, IdleGood
<1>4. Good(d)'
  BY <1>1, <1>3 DEF Good, dsc, history
<1> QED
  BY <1>1, <1>4, Carries

LEMMA UpdateKlKeeps ==
    ASSUME KeysInv, NEW d \in Devices, UpdateKl(d) \/ ChangeKlFails(d) \/ OtpFails(d)
    PROVE  KeysInv'
<1>1. At(d, "in") /\ Found(d) # None /\ UNCHANGED <<dsc, history>>
  BY DEF UpdateKl, ChangeKlFails, OtpFails
<1>2. Found(d).key \in KlKeys \/ call[d].key \in OtpKeys
  BY DEF UpdateKl, ChangeKlFails, OtpFails
<1>3. call[d].old = None
  BY <1>1, <1>2, NotExchanging, KeysAssumption
<1>4. PICK ok \in BOOLEAN : Return(d, ok)
  BY DEF UpdateKl, ChangeKlFails, OtpFails
<1> QED
  BY <1>1, <1>3, <1>4, IdleReturn

-----------------------------------------------------------------------------
(* The steps that create a key, change one or exchange it *)

\* A call that ends, with a list and numbers it leaves in order or spoiled
LEMMA EndsGood ==
    ASSUME KeysInv, NEW d \in Devices, At(d, "in"), call[d].old = None,
           NEW ok \in BOOLEAN, Return(d, ok), opened' = opened, key_type' = key_type,
           Only(d, key_list, key_list'), Only(d, drv, drv'), Only(d, want, want'),
           ListGood(d, key_list'[d]), drv'[d] \in Held(d), want'[d] \in Wishes(d),
           \/ spoiled' = spoiled /\ KeysGood(d, key_list'[d], drv'[d], want'[d], {}, {})
           \/ spoiled' = spoiled \cup {d} /\ want'[d] = NoWant(d)
    PROVE  KeysInv'
<1>1. pc'[d] = "idle" /\ call'[d] = NoCall /\ Only(d, pc, pc') /\ Only(d, call, call')
  BY ReturnIs
<1>2. d \in opened /\ d \notin spoiled /\ key_type[d] \in {"kl", "clear", "otp", None}
  BY InCall
<1>3. OnlyAt(d)
  BY <1>1, <1>2 DEF OnlyAt, Only, KeysInv
<1>4. DeviceGood(d, key_list'[d], key_type'[d], drv'[d], want'[d], "idle", NoCall, opened', spoiled')
  BY <1>2, IdleGood
<1>5. Good(d)'
  BY <1>1, <1>4 DEF Good
<1> QED
  BY <1>3, <1>5, Carries

\* What a call leaves wanted
LEMMA LeavesIs ==
    ASSUME KeysInv, NEW d \in Devices, At(d, "in"), NEW key \in KeysOf(d) \cup {None}, Leaves(d, key)
    PROVE  /\ Only(d, want, want') /\ want'[d] = [want[d] EXCEPT ![call[d].pid] = key]
           /\ want'[d] \in Wishes(d) /\ spoiled' = spoiled
<1>1. d \notin spoiled /\ want[d] \in Wishes(d)
  BY InCall
<1>2. want' = [want EXCEPT ![d][call[d].pid] = key] /\ spoiled' = spoiled
  BY <1>1 DEF Leaves
<1>3. Only(d, want, want') /\ want'[d] = [want[d] EXCEPT ![call[d].pid] = key]
  BY <1>2 DEF KeysInv, Only
<1> QED
  BY <1>1, <1>2, <1>3 DEF Wishes

LEMMA SpoilsIs ==
    ASSUME KeysInv, NEW d \in Devices, Spoils(d)
    PROVE  /\ Only(d, want, want') /\ want'[d] = NoWant(d) /\ want'[d] \in Wishes(d)
           /\ spoiled' = spoiled \cup {d}
<1>1. Only(d, want, want') /\ want'[d] = NoWant(d) /\ spoiled' = spoiled \cup {d}
  BY DEF Spoils, KeysInv, Only
<1> QED
  BY <1>1, EmptyGood

LEMMA DetachKeeps ==
    ASSUME KeysInv, NEW d \in Devices, NEW p \in PidsOf(d), Detach(d, p)
    PROVE  KeysInv'
<1> DEFINE m == Find(key_list[d], p)
           D == [drv[d] EXCEPT ![m.num] = None]
           W == [want[d] EXCEPT ![p] = None]
<1>1. Good(d) /\ pc[d] = "idle" /\ d \in opened /\ d \notin spoiled /\ call[d] = NoCall /\ m # None
  BY DEF KeysInv, Detach, At, Sound, Good, DeviceGood, CallGood
<1>2. /\ ListGood(d, key_list[d]) /\ key_type[d] \in {"kl", "clear", "otp", None}
      /\ drv[d] \in Held(d) /\ want[d] \in Wishes(d)
      /\ KeysGood(d, key_list[d], drv[d], want[d], {}, {})
  BY <1>1, IdleNoCall DEF Good, DeviceGood
<1>3. m \in Mkey(d) /\ m.num \in Numbers
  BY <1>1, FoundIs, MkeyParts
<1>4. /\ key_list'[d] = Without(key_list[d], m) /\ drv'[d] = D /\ want'[d] = W
      /\ key_type' = key_type /\ pc' = pc /\ call' = call /\ opened' = opened /\ spoiled' = spoiled
      /\ Only(d, key_list, key_list') /\ Only(d, drv, drv') /\ Only(d, want, want')
  BY DEF Detach, KeysInv, Only
<1>5. D \in Held(d) /\ W \in Wishes(d)
  BY <1>2 DEF Held, Wishes
<1>6. /\ D[m.num] = None /\ \A n \in Numbers : n # m.num => D[n] = drv[d][n]
      /\ W[p] = None /\ \A q \in PidsOf(d) : q # p => W[q] = want[d][q]
  BY <1>2, <1>3 DEF Held, Wishes
<1> HIDE DEF D, W
<1>7. ListGood(d, Without(key_list[d], m)) /\ KeysGood(d, Without(key_list[d], m), D, W, {}, {})
  BY <1>1, <1>2, <1>6, RemoveGood
<1>8. DeviceGood(d, Without(key_list[d], m), key_type[d], D, W, "idle", NoCall, opened, spoiled)
  BY <1>1, <1>2, <1>5, <1>7, IdleGood
<1>9. Good(d)'
  BY <1>1, <1>4, <1>8 DEF Good
<1>10. OnlyAt(d)
  BY <1>4 DEF OnlyAt, Only, KeysInv
<1> QED
  BY <1>9, <1>10, Carries

LEMMA CryptKeeps ==
    ASSUME KeysInv, NEW d \in Devices, Crypt(d)
    PROVE  KeysInv'
<1> DEFINE m == key_list[d][1]
           D == [drv[d] EXCEPT ![m.num] = m.key]
<1>1. Good(d) /\ pc[d] = "idle" /\ d \in opened /\ d \notin spoiled /\ call[d] = NoCall /\ Len(key_list[d]) = 1
  BY DEF KeysInv, Crypt, At, Sound, Good, DeviceGood, CallGood
<1>2. /\ ListGood(d, key_list[d]) /\ key_type[d] \in {"kl", "clear", "otp", None}
      /\ drv[d] \in Held(d) /\ want[d] \in Wishes(d)
      /\ KeysGood(d, key_list[d], drv[d], want[d], {}, {})
  BY <1>1, IdleNoCall DEF Good, DeviceGood
<1>3. m \in Mkey(d)
  BY <1>1, <1>2 DEF ListGood
<1>4. /\ drv'[d] = D /\ Only(d, drv, drv') /\ key_list' = key_list /\ key_type' = key_type
      /\ pc' = pc /\ call' = call /\ opened' = opened /\ spoiled' = spoiled /\ want' = want
  BY DEF Crypt, KeysInv, Only, history
<1>5. D \in Held(d)
  BY <1>2, <1>3, MkeyParts DEF Held
<1>6. KeysGood(d, key_list[d], D, want[d], {}, {})
  BY <1>1, <1>2, CryptGood
<1> HIDE DEF D
<1>7. DeviceGood(d, key_list[d], key_type[d], D, want[d], "idle", NoCall, opened, spoiled)
  BY <1>1, <1>2, <1>5, <1>6, IdleGood
<1>8. Good(d)'
  BY <1>1, <1>4, <1>7 DEF Good
<1>9. OnlyAt(d)
  BY <1>4 DEF OnlyAt, Only, KeysInv
<1> QED
  BY <1>8, <1>9, Carries

\* The key found is changed to m and what the driver holds to D, in order
\* if the new number was free and the old one is given back.
ChangesTo(d, m, D) ==
    /\ m \in Mkey(d) /\ m.pid = call[d].pid /\ (m.key \in OtpKeys <=> Found(d).key \in OtpKeys)
    /\ D \in Held(d)
    /\ key_list' = [key_list EXCEPT ![d] = Changed(@, Found(d), m)]
    /\ Only(d, drv, drv') /\ drv'[d] = D
    /\ opened' = opened /\ key_type' = key_type
InOrder(d, m, D) ==
    /\ m.routed <=> d \notin Raw
    /\ m.num = Found(d).num \/ drv[d][m.num] = None
    /\ D[m.num] # None
    /\ m.num # Found(d).num => D[Found(d).num] = None
    /\ \A n \in Numbers : n # m.num /\ n # Found(d).num => D[n] = drv[d][n]

LEMMA ChangedTo ==
    ASSUME KeysInv, NEW d \in Devices, At(d, "in"), Found(d) # None, NEW m, NEW D, ChangesTo(d, m, D)
    PROVE  /\ Only(d, key_list, key_list') /\ key_list'[d] = Changed(key_list[d], Found(d), m)
           /\ Only(d, drv, drv') /\ drv'[d] = D
           /\ ListGood(d, key_list'[d])
<1>1. /\ Only(d, key_list, key_list') /\ key_list'[d] = Changed(key_list[d], Found(d), m)
      /\ Only(d, drv, drv') /\ drv'[d] = D
  BY DEF ChangesTo, KeysInv, Only
<1>2. ListGood(d, key_list[d])
  BY InCall
<1>3. PICK i : FirstAt(key_list[d], call[d].pid, i) /\ Found(d) = key_list[d][i]
  BY FoundIs DEF Found
<1>4. m \in Mkey(d) /\ m.pid = call[d].pid /\ (m.key \in OtpKeys <=> key_list[d][i].key \in OtpKeys)
  BY <1>3 DEF ChangesTo
<1>5. ListGood(d, Changed(key_list[d], key_list[d][i], m))
  BY <1>2, <1>3, <1>4, ChangedFound
<1> QED
  BY <1>1, <1>3, <1>5

LEMMA ChangeSpoils ==
    ASSUME KeysInv, NEW d \in Devices, At(d, "in"), call[d].old = None, Found(d) # None,
           NEW ok \in BOOLEAN, Return(d, ok), NEW m, NEW D, ChangesTo(d, m, D), Spoils(d)
    PROVE  KeysInv'
<1>1. drv'[d] \in Held(d) /\ opened' = opened /\ key_type' = key_type
  BY ChangedTo DEF ChangesTo
<1> QED
  BY <1>1, ChangedTo, SpoilsIs, EndsGood

LEMMA ChangeKeeps ==
    ASSUME KeysInv, NEW d \in Devices, At(d, "in"), call[d].old = None, Found(d) # None,
           NEW ok \in BOOLEAN, Return(d, ok), NEW m, NEW D, ChangesTo(d, m, D), InOrder(d, m, D),
           NEW v \in KeysOf(d) \cup {None}, Leaves(d, v), v # None => v = m.key /\ D[m.num] = v
    PROVE  KeysInv'
<1> DEFINE L == key_list[d]
           p == call[d].pid
           V == want'[d]
<1>1. /\ ListGood(d, L) /\ drv[d] \in Held(d) /\ want[d] \in Wishes(d) /\ p \in PidsOf(d)
      /\ KeysGood(d, L, drv[d], want[d], {}, {}) /\ Found(d) = Find(L, p)
  BY InCall DEF Found
<1>2. /\ m \in Mkey(d) /\ m.pid = p /\ (m.key \in OtpKeys <=> Find(L, p).key \in OtpKeys)
      /\ D \in Held(d) /\ opened' = opened /\ key_type' = key_type
  BY <1>1 DEF ChangesTo
<1>3. /\ (m.routed <=> d \notin Raw) /\ (m.num = Find(L, p).num \/ drv[d][m.num] = None)
      /\ D[m.num] # None /\ (m.num # Find(L, p).num => D[Find(L, p).num] = None)
      /\ \A n \in Numbers : n # m.num /\ n # Find(L, p).num => D[n] = drv[d][n]
  BY <1>1 DEF InOrder
<1>4. /\ Only(d, want, want') /\ V = [want[d] EXCEPT ![p] = v] /\ V \in Wishes(d) /\ spoiled' = spoiled
  BY LeavesIs
<1>5. (V[p] # None => V[p] = m.key /\ D[m.num] = V[p]) /\ \A q \in PidsOf(d) : q # p => V[q] = want[d][q]
  BY <1>1, <1>4 DEF Wishes
<1> HIDE DEF L, p, V
<1>6. KeysGood(d, Changed(L, Find(L, p), m), D, V, {}, {})
  BY <1>1, <1>2, <1>3, <1>5, ChangeGood
<1>7. KeysGood(d, key_list'[d], drv'[d], want'[d], {}, {})
  BY <1>1, <1>6, ChangedTo DEF L, p, V
<1>8. drv'[d] \in Held(d) /\ want'[d] \in Wishes(d)
  BY <1>2, <1>4, ChangedTo DEF V
<1> QED
  BY <1>2, <1>4, <1>7, <1>8, ChangedTo, EndsGood

LEMMA NumberHeld ==
    ASSUME KeysInv, NEW d \in Devices, At(d, "in"), Found(d) # None
    PROVE  /\ Found(d) \in Mkey(d) /\ Found(d).pid = call[d].pid /\ Found(d).num \in Numbers
           /\ drv[d][Found(d).num] # None /\ (Found(d).routed <=> d \notin Raw)
<1> DEFINE L == key_list[d]
<1>1. \E P, X : Books(L, drv[d], P) /\ AllRouted(d, L)
  BY InCall DEF KeysGood
<1>2. PICK i : FirstAt(L, call[d].pid, i) /\ Found(d) = L[i]
  BY FoundIs DEF Found
<1>3. Found(d) \in Mkey(d) /\ Found(d).pid = call[d].pid /\ Found(d).num \in Numbers
  BY FoundIs, MkeyParts DEF Found
<1>4. i \in DOMAIN L /\ Found(d).num \in Nums(L)
  BY <1>2 DEF FirstAt, Nums
<1> QED
  BY <1>1, <1>2, <1>3, <1>4 DEF Books, AllRouted

LEMMA ChangeKlKeeps ==
    ASSUME KeysInv, NEW d \in Devices, ChangeKl(d)
    PROVE  KeysInv'
<1>1. /\ At(d, "in") /\ Found(d) # None /\ call[d].key \in KlKeys /\ Found(d).key \in KlKeys
      /\ opened' = opened /\ key_type' = key_type
  BY DEF ChangeKl
<1>2. call[d].old = None
  BY <1>1, NotExchanging, KeysAssumption
<1>3. drv[d] \in Held(d) /\ call[d].key \in KeysOf(d) /\ call[d].key # None
  BY InCall, <1>1, NoneIsNoKey
<1>4. PICK n \in FreeNumbers(d), added \in BOOLEAN, deleted \in BOOLEAN :
        LET m == [Found(d) EXCEPT !.key = call[d].key, !.num = n,
                                  !.routed = added /\ d \notin Raw]
            kept == [drv EXCEPT ![d][n] = call[d].key]
        IN  /\ key_list' = [key_list EXCEPT ![d] = Changed(@, Found(d), m)]
            /\ drv' = IF added /\ deleted THEN [kept EXCEPT ![d][Found(d).num] = None] ELSE kept
            /\ Return(d, added => deleted)
            /\ IF added /\ deleted THEN Succeeds(d) ELSE Spoils(d)
  BY Zenon DEF ChangeKl
<1> DEFINE m == [Found(d) EXCEPT !.key = call[d].key, !.num = n, !.routed = added /\ d \notin Raw]
           kept == [drv[d] EXCEPT ![n] = call[d].key]
           D == IF added /\ deleted THEN [kept EXCEPT ![Found(d).num] = None] ELSE kept
<1>5. /\ Found(d) \in Mkey(d) /\ Found(d).pid = call[d].pid /\ Found(d).num \in Numbers
      /\ drv[d][Found(d).num] # None /\ n \in Numbers /\ drv[d][n] = None /\ n # Found(d).num
  BY <1>1, NumberHeld DEF FreeNumbers
<1>6. /\ m \in Mkey(d) /\ m.pid = call[d].pid /\ m.key = call[d].key /\ m.num = n
      /\ m.routed = (added /\ d \notin Raw)
  BY <1>3, <1>5 DEF Mkey
<1>7. /\ D \in Held(d) /\ D[n] = call[d].key
      /\ added /\ deleted => D[Found(d).num] = None
      /\ \A e \in Numbers : e # n /\ e # Found(d).num => D[e] = drv[d][e]
  BY <1>3, <1>5 DEF Held
<1>8. Only(d, drv, drv') /\ drv'[d] = D /\ key_list' = [key_list EXCEPT ![d] = Changed(@, Found(d), m)]
  BY <1>4 DEF KeysInv, Only
<1> HIDE DEF m, D
<1>9. ChangesTo(d, m, D)
  BY <1>1, <1>5, <1>6, <1>7, <1>8, KeysAssumption DEF ChangesTo
<1>10. CASE added /\ deleted
  <2>1. Leaves(d, call[d].key) /\ Return(d, TRUE)
    BY <1>4, <1>10 DEF Succeeds
  <2>2. InOrder(d, m, D)
    BY <1>3, <1>5, <1>6, <1>7, <1>10 DEF InOrder
  <2> QED
    BY <1>1, <1>2, <1>3, <1>6, <1>7, <1>9, <2>1, <2>2, ChangeKeeps
<1>11. CASE ~(added /\ deleted)
  <2>1. Spoils(d) /\ Return(d, added => deleted) /\ (added => deleted) \in BOOLEAN
    BY <1>4, <1>11
  <2> QED
    BY <1>1, <1>2, <1>9, <2>1, ChangeSpoils
<1> QED
  BY <1>10, <1>11

LEMMA UpdateClearKeeps ==
    ASSUME KeysInv, NEW d \in Devices, UpdateClear(d)
    PROVE  KeysInv'
<1> DEFINE m == [Found(d) EXCEPT !.key = call[d].key]
<1>1. /\ At(d, "in") /\ Found(d) # None /\ call[d].key \in Words /\ Found(d).key \in Words
      /\ opened' = opened /\ key_type' = key_type
      /\ key_list' = [key_list EXCEPT ![d] = Changed(@, Found(d), m)]
  BY DEF UpdateClear
<1>2. call[d].old = None
  BY <1>1, NotExchanging, KeysAssumption
<1>3. drv[d] \in Held(d) /\ call[d].key \in KeysOf(d) /\ call[d].key # None
  BY InCall, <1>1, NoneIsNoKey
<1>4. /\ Found(d) \in Mkey(d) /\ Found(d).pid = call[d].pid /\ Found(d).num \in Numbers
      /\ drv[d][Found(d).num] # None /\ (Found(d).routed <=> d \notin Raw)
  BY <1>1, NumberHeld
<1>5. PICK written \in BOOLEAN, ok \in BOOLEAN :
        LET writes == written /\ key_type[d] = "clear"
        IN  /\ drv' = IF writes THEN [drv EXCEPT ![d][Found(d).num] = call[d].key] ELSE drv
            /\ Return(d, ok)
            /\ IF ok /\ writes THEN Succeeds(d) ELSE Unknown(d)
  BY Zenon DEF UpdateClear
<1> DEFINE writes == written /\ key_type[d] = "clear"
           D == IF writes THEN [drv[d] EXCEPT ![Found(d).num] = call[d].key] ELSE drv[d]
           v == IF ok /\ writes THEN call[d].key ELSE None
<1>6. /\ m \in Mkey(d) /\ m.pid = call[d].pid /\ m.key = call[d].key /\ m.num = Found(d).num
      /\ m.routed = Found(d).routed
  BY <1>3, <1>4 DEF Mkey
<1>7. /\ D \in Held(d) /\ D[Found(d).num] # None
      /\ ok /\ writes => D[Found(d).num] = call[d].key
      /\ \A e \in Numbers : e # Found(d).num => D[e] = drv[d][e]
  BY <1>3, <1>4 DEF Held
<1>8. Only(d, drv, drv') /\ drv'[d] = D
  BY <1>5 DEF KeysInv, Only
<1>9. Leaves(d, v)
  BY <1>5 DEF Succeeds, Unknown
<1>10. v \in KeysOf(d) \cup {None} /\ (v # None => v = m.key /\ D[m.num] = v)
  BY <1>3, <1>6, <1>7
<1> HIDE DEF m, writes, D, v
<1>11. ChangesTo(d, m, D)
  BY <1>1, <1>4, <1>6, <1>7, <1>8, KeysAssumption DEF ChangesTo, m
<1>12. InOrder(d, m, D)
  BY <1>4, <1>6, <1>7 DEF InOrder
<1> QED
  BY <1>1, <1>2, <1>5, <1>9, <1>10, <1>11, <1>12, ChangeKeeps

LEMMA UpdateOtpKeeps ==
    ASSUME KeysInv, NEW d \in Devices, UpdateOtp(d)
    PROVE  KeysInv'
<1>1. /\ At(d, "in") /\ Found(d) # None /\ call[d].key \in OtpKeys /\ Found(d).key \in OtpKeys
      /\ opened' = opened /\ key_type' = key_type
  BY DEF UpdateOtp
<1>2. call[d].old = None
  BY <1>1, NotExchanging
<1>3. drv[d] \in Held(d) /\ call[d].key \in KeysOf(d) /\ call[d].key # None
  BY InCall, <1>1, NoneIsNoKey
<1>4. PICK n \in FreeNumbers(d) \cup {Found(d).num}, attached \in BOOLEAN :
        LET key == IF attached THEN call[d].key ELSE None
        IN  /\ drv' = [drv EXCEPT ![d][Found(d).num] = None, ![d][n] = key]
            /\ key_list' = [key_list EXCEPT ![d] = Changed(@, Found(d),
                    [Found(d) EXCEPT !.key = call[d].key,
                                     !.num = IF attached THEN n ELSE Found(d).num])]
            /\ Return(d, attached)
            /\ IF attached THEN Succeeds(d) ELSE Spoils(d)
  BY Zenon DEF UpdateOtp
<1> DEFINE m == [Found(d) EXCEPT !.key = call[d].key, !.num = IF attached THEN n ELSE Found(d).num]
           D == [drv[d] EXCEPT ![Found(d).num] = None, ![n] = IF attached THEN call[d].key ELSE None]
<1>5. /\ Found(d) \in Mkey(d) /\ Found(d).pid = call[d].pid /\ Found(d).num \in Numbers
      /\ n \in Numbers /\ (n = Found(d).num \/ drv[d][n] = None)
      /\ (Found(d).routed <=> d \notin Raw)
  BY <1>1, NumberHeld DEF FreeNumbers
<1>6. /\ m \in Mkey(d) /\ m.pid = call[d].pid /\ m.key = call[d].key
      /\ attached => m.num = n /\ m.routed = Found(d).routed
  BY <1>3, <1>5 DEF Mkey
<1>7. /\ D \in Held(d) /\ (attached => D[n] = call[d].key)
      /\ n # Found(d).num => D[Found(d).num] = None
      /\ \A e \in Numbers : e # n /\ e # Found(d).num => D[e] = drv[d][e]
  BY <1>3, <1>5 DEF Held
<1>8. Only(d, drv, drv') /\ drv'[d] = D /\ key_list' = [key_list EXCEPT ![d] = Changed(@, Found(d), m)]
  BY <1>4 DEF KeysInv, Only
<1> HIDE DEF m, D
<1>9. ChangesTo(d, m, D)
  BY <1>1, <1>5, <1>6, <1>7, <1>8 DEF ChangesTo
<1>10. CASE attached
  <2>1. Leaves(d, call[d].key) /\ Return(d, TRUE)
    BY <1>4, <1>10 DEF Succeeds
  <2>2. m.num = n /\ m.routed = Found(d).routed /\ D[n] # None
    BY <1>3, <1>6, <1>7, <1>10
  <2>3. InOrder(d, m, D)
    BY <1>5, <1>7, <2>2 DEF InOrder
  <2> QED
    BY <1>1, <1>2, <1>3, <1>6, <1>7, <1>9, <1>10, <2>1, <2>2, <2>3, ChangeKeeps
<1>11. CASE ~attached
  <2>1. Spoils(d) /\ Return(d, FALSE)
    BY <1>4, <1>11
  <2> QED
    BY <1>1, <1>2, <1>9, <2>1, ChangeSpoils
<1> QED
  BY <1>10, <1>11

\* The call of an exchange takes the key off the list and starts again.
LEMMA ExchangeKeeps ==
    ASSUME KeysInv, NEW d \in Devices, Exchange(d)
    PROVE  KeysInv'
<1> DEFINE L == key_list[d]
           m == Found(d)
           N == Without(L, m)
           c == [call[d] EXCEPT !.old = m]
<1>1. /\ At(d, "in") /\ m # None /\ {Type(call[d].key), Type(m.key)} = {"kl", "clear"}
      /\ key_list' = [key_list EXCEPT ![d] = N] /\ pc' = [pc EXCEPT ![d] = "wait"]
      /\ call' = [call EXCEPT ![d].old = m]
      /\ opened' = opened /\ key_type' = key_type /\ drv' = drv /\ want' = want /\ spoiled' = spoiled
  BY DEF Exchange, history
<1>2. /\ m \in Mkey(d) /\ m.pid = call[d].pid /\ m.num \in Numbers /\ drv[d][m.num] # None
      /\ m = Find(L, call[d].pid)
  BY <1>1, NumberHeld DEF Found
<1>3. Type(m.key) # "otp"
  BY <1>1
<1>4. m.key \notin OtpKeys
  BY <1>2, <1>3, MkeyParts, TypeIs
<1>5. call[d].old = None
  BY <1>1, <1>4, NotExchanging
<1>6. /\ call[d] \in [pid : PidsOf(d), key : KeysOf(d), old : Mkey(d) \cup {None}]
      /\ d \in opened /\ d \notin spoiled
      /\ ListGood(d, L) /\ key_type[d] \in {"kl", "clear", "otp", None}
      /\ drv[d] \in Held(d) /\ want[d] \in Wishes(d)
      /\ KeysGood(d, L, drv[d], want[d], {}, {})
  BY <1>1, <1>5, InCall
<1>7. /\ key_list'[d] = N /\ pc'[d] = "wait" /\ call'[d] = c
      /\ Only(d, key_list, key_list') /\ Only(d, pc, pc') /\ Only(d, call, call')
  BY <1>1 DEF KeysInv, Only
<1>8. c \in [pid : PidsOf(d), key : KeysOf(d), old : Mkey(d) \cup {None}]
      /\ c.pid = call[d].pid /\ c.key = call[d].key /\ c.old = m
  BY <1>2, <1>6
<1> HIDE DEF L, N, m, c
<1>9. call[d].pid \in PidsOf(d)
  BY <1>6
<1>10. ListGood(d, N) /\ KeysGood(d, N, drv[d], want[d], {m.num}, {call[d].pid})
  <2> DEFINE p == call[d].pid
             P == {m.num}
             X == {call[d].pid}
  <2>1. Find(L, p) # None /\ N = Without(L, Find(L, p)) /\ P \subseteq {Find(L, p).num}
    BY <1>1, <1>2 DEF N
  <2>2. drv[d][Find(L, p).num] # None <=> P # {}
    BY <1>2
  <2>3. X \subseteq {p} /\ p \in X
    OBVIOUS
  <2> HIDE DEF p, P, X
  <2>4. p \in PidsOf(d)
    BY <1>9 DEF p
  <2>5. ListGood(d, N) /\ KeysGood(d, N, drv[d], want[d], P, X)
    BY <1>6, <2>1, <2>2, <2>3, <2>4, RemoveGood
  <2> QED
    BY <2>5 DEF P, X
<1>11. Pending(c) = {m.num} /\ Exempt("wait", c) = {call[d].pid}
  BY <1>1, <1>8 DEF Pending, Exempt
<1>12. CallGood(d, "wait", c, opened, spoiled)
  BY <1>1, <1>2, <1>6, <1>8 DEF CallGood, Points
<1>13. DeviceGood(d, N, key_type[d], drv[d], want[d], "wait", c, opened, spoiled)
  BY <1>6, <1>10, <1>11, <1>12 DEF DeviceGood
<1>14. Good(d)'
  BY <1>1, <1>7, <1>13 DEF Good
<1>15. OnlyAt(d)
  BY <1>1, <1>7 DEF OnlyAt, Only, KeysInv
<1> QED
  BY <1>14, <1>15, Carries

LEMMA DeleteOldKeeps ==
    ASSUME KeysInv, NEW d \in Devices, DeleteOld(d)
    PROVE  KeysInv'
<1> DEFINE c == call[d]
<1>1. PICK ok \in BOOLEAN :
        /\ drv' = IF ok THEN [drv EXCEPT ![d][c.old.num] = None] ELSE drv
        /\ Finish(d)
        /\ IF ok THEN UNCHANGED history ELSE Spoils(d)
  BY DEF DeleteOld
<1>2. pc[d] \in {"back", "bare"} /\ opened' = opened /\ key_list' = key_list /\ key_type' = key_type
  BY DEF DeleteOld, At
<1>3. Good(d)
  BY DEF KeysInv
<1>4. c.old # None /\ c.old \in Mkey(d) /\ c.old.num \in Numbers /\ d \in opened /\ d \notin spoiled
  BY <1>2, <1>3, MkeyParts DEF Good, DeviceGood, CallGood
<1>5. Pending(c) = {c.old.num} /\ Exempt(pc[d], c) = {}
  BY <1>2, <1>4 DEF Pending, Exempt
<1>6. /\ ListGood(d, key_list[d]) /\ key_type[d] \in {"kl", "clear", "otp", None}
      /\ drv[d] \in Held(d) /\ want[d] \in Wishes(d)
      /\ KeysGood(d, key_list[d], drv[d], want[d], {c.old.num}, {})
  BY <1>3, <1>4, <1>5 DEF Good, DeviceGood
<1>7. pc'[d] = "idle" /\ call'[d] = NoCall /\ Only(d, pc, pc') /\ Only(d, call, call')
  BY <1>1 DEF Finish, Only, KeysInv
<1>8. CASE ok
  <2> DEFINE D == [drv[d] EXCEPT ![c.old.num] = None]
  <2>1. drv'[d] = D /\ Only(d, drv, drv') /\ want' = want /\ spoiled' = spoiled
    BY <1>1, <1>8 DEF KeysInv, Only, history
  <2>2. D \in Held(d)
    BY <1>6 DEF Held
  <2>3. KeysGood(d, key_list[d], D, want[d], {}, {})
    BY <1>4, <1>6, DeleteGood
  <2> HIDE DEF D
  <2>4. DeviceGood(d, key_list[d], key_type[d], D, want[d], "idle", NoCall, opened, spoiled)
    BY <1>4, <1>6, <2>2, <2>3, IdleGood
  <2>5. Good(d)'
    BY <1>2, <1>7, <2>1, <2>4 DEF Good
  <2>6. OnlyAt(d)
    BY <1>2, <1>7, <2>1 DEF OnlyAt, Only, KeysInv
  <2> QED
    BY <2>5, <2>6, Carries
<1>9. CASE ~ok
  <2>1. drv' = drv /\ want'[d] = NoWant(d) /\ want'[d] \in Wishes(d) /\ Only(d, want, want')
        /\ spoiled' = spoiled \cup {d}
    BY <1>1, <1>9, SpoilsIs
  <2>2. DeviceGood(d, key_list[d], key_type[d], drv[d], want'[d], "idle", NoCall, opened, spoiled')
    BY <1>4, <1>6, <2>1, IdleGood
  <2>3. Good(d)'
    BY <1>2, <1>7, <2>1, <2>2 DEF Good
  <2>4. OnlyAt(d)
    BY <1>2, <1>4, <1>7, <2>1 DEF OnlyAt, Only, KeysInv
  <2> QED
    BY <2>3, <2>4, Carries
<1> QED
  BY <1>8, <1>9

\* What the list and the driver are after a key has been created
LEMMA NewKeyIs ==
    ASSUME KeysInv, NEW d \in Devices, At(d, "in"), Creates(d),
           NEW n \in FreeNumbers(d), NEW routed \in BOOLEAN, NewKey(d, n, routed)
    PROVE  LET m == [pid |-> call[d].pid, key |-> call[d].key, num |-> n, routed |-> routed]
           IN  /\ m \in Mkey(d) /\ drv[d][m.num] = None
               /\ key_list'[d] = <<m>> \o key_list[d] /\ ListGood(d, key_list'[d])
               /\ drv'[d] = [drv[d] EXCEPT ![m.num] = m.key] /\ drv'[d] \in Held(d)
               /\ key_type'[d] \in {"kl", "clear", "otp"} /\ opened' = opened
               /\ Only(d, key_list, key_list') /\ Only(d, key_type, key_type') /\ Only(d, drv, drv')
<1> DEFINE m == [pid |-> call[d].pid, key |-> call[d].key, num |-> n, routed |-> routed]
<1>1. /\ call[d].pid \in PidsOf(d) /\ call[d].key \in KeysOf(d) /\ n \in Numbers /\ drv[d][n] = None
      /\ drv[d] \in Held(d) /\ ListGood(d, key_list[d])
  BY InCall DEF FreeNumbers
<1>2. m \in Mkey(d) /\ m.pid = call[d].pid /\ m.key = call[d].key /\ m.num = n
  BY <1>1 DEF Mkey
<1>3. /\ key_list' = [key_list EXCEPT ![d] = <<m>> \o @]
      /\ drv' = [drv EXCEPT ![d][n] = call[d].key]
      /\ key_type' = [key_type EXCEPT ![d] = Type(call[d].key)] /\ opened' = opened
  BY DEF NewKey
<1> HIDE DEF m
<1>4. /\ key_list'[d] = <<m>> \o key_list[d] /\ Only(d, key_list, key_list')
      /\ drv'[d] = [drv[d] EXCEPT ![m.num] = m.key] /\ Only(d, drv, drv')
      /\ key_type'[d] = Type(call[d].key) /\ Only(d, key_type, key_type')
  BY <1>2, <1>3 DEF KeysInv, Only
<1>5. [drv[d] EXCEPT ![m.num] = m.key] \in Held(d)
  BY <1>1, <1>2 DEF Held
<1>6. Found(d) # None => Found(d) \in Mkey(d) /\ Found(d) = Find(key_list[d], m.pid)
  BY <1>2, FoundIs DEF Found
<1>7. Found(d) # None => Found(d).key \in OtpKeys /\ m.key \notin OtpKeys
  BY <1>1, <1>2, <1>6, MkeyParts, TypeIs DEF Creates
<1>8. ListGood(d, <<m>> \o key_list[d])
  BY <1>1, <1>2, <1>6, <1>7, CreateListGood DEF Found
<1>9. Type(call[d].key) \in {"kl", "clear", "otp"}
  BY DEF Type
<1> QED
  BY <1>1, <1>2, <1>3, <1>4, <1>5, <1>8, <1>9 DEF m

\* A call that leaves its device spoiled ends
LEMMA SpoilsEnds ==
    ASSUME KeysInv, NEW d \in Devices, At(d, "in"), Return(d, FALSE), Spoils(d), opened' = opened,
           Only(d, key_list, key_list'), Only(d, key_type, key_type'), Only(d, drv, drv'),
           ListGood(d, key_list'[d]), key_type'[d] \in {"kl", "clear", "otp", None},
           drv'[d] \in Held(d)
    PROVE  KeysInv'
<1>1. pc'[d] = "idle" /\ call'[d] = NoCall /\ Only(d, pc, pc') /\ Only(d, call, call')
  BY ReturnIs
<1>2. d \in opened
  BY InCall
<1>3. /\ want'[d] = NoWant(d) /\ want'[d] \in Wishes(d) /\ Only(d, want, want')
      /\ spoiled' = spoiled \cup {d}
  BY SpoilsIs
<1>4. DeviceGood(d, key_list'[d], key_type'[d], drv'[d], want'[d], "idle", NoCall, opened', spoiled')
  BY <1>2, <1>3, IdleGood
<1>5. Good(d)'
  BY <1>1, <1>4 DEF Good
<1>6. OnlyAt(d)
  BY <1>1, <1>2, <1>3 DEF OnlyAt, Only, KeysInv
<1> QED
  BY <1>5, <1>6, Carries

LEMMA CreateKeeps ==
    ASSUME KeysInv, NEW d \in Devices, Create(d)
    PROVE  KeysInv'
<1>1. At(d, "in") /\ Creates(d)
  BY DEF Create
<1>2. PICK n \in FreeNumbers(d), added \in BOOLEAN :
        IF d \in Raw \/ added
        THEN NewKey(d, n, d \notin Raw) /\ Return(d, TRUE) /\ Succeeds(d)
        ELSE NewKey(d, n, FALSE) /\ Return(d, FALSE) /\ Spoils(d)
  BY DEF Create
<1> DEFINE c == call[d]
<1>3. CASE d \in Raw \/ added
  <2> DEFINE m == [pid |-> c.pid, key |-> c.key, num |-> n, routed |-> d \notin Raw]
             W == [want[d] EXCEPT ![m.pid] = m.key]
  <2>1. NewKey(d, n, d \notin Raw) /\ Return(d, TRUE) /\ Leaves(d, c.key) /\ (d \notin Raw) \in BOOLEAN
    BY <1>2, <1>3 DEF Succeeds
  <2>2. /\ m \in Mkey(d) /\ drv[d][m.num] = None
        /\ key_list'[d] = <<m>> \o key_list[d] /\ ListGood(d, key_list'[d])
        /\ drv'[d] = [drv[d] EXCEPT ![m.num] = m.key] /\ drv'[d] \in Held(d)
        /\ key_type'[d] \in {"kl", "clear", "otp"} /\ opened' = opened
        /\ Only(d, key_list, key_list') /\ Only(d, key_type, key_type') /\ Only(d, drv, drv')
    BY <1>1, <2>1, NewKeyIs
  <2>3. m.pid = c.pid /\ m.key = c.key /\ (m.routed <=> d \notin Raw)
    OBVIOUS
  <2>4. /\ c \in [pid : PidsOf(d), key : KeysOf(d), old : Mkey(d) \cup {None}]
        /\ d \in opened /\ d \notin spoiled /\ ListGood(d, key_list[d])
        /\ drv[d] \in Held(d) /\ want[d] \in Wishes(d)
        /\ c.old = None => KeysGood(d, key_list[d], drv[d], want[d], {}, {})
        /\ c.old # None => /\ KeysGood(d, key_list[d], drv[d], want[d], {c.old.num}, {c.pid})
                           /\ c.old.pid = c.pid
                           /\ {Type(c.key), Type(c.old.key)} = {"kl", "clear"}
    BY <1>1, InCall
  <2>5. Only(d, want, want') /\ want'[d] = W /\ want'[d] \in Wishes(d) /\ spoiled' = spoiled
    BY <1>1, <2>1, <2>4, LeavesIs
  <2>6. KeysGood(d, key_list[d], drv[d], want[d], Pending(c), Exempt("in", c))
    BY <2>4 DEF Pending, Exempt
  <2>7. Exempt("in", c) \subseteq {m.pid}
    BY DEF Exempt
  <2> HIDE DEF m
  <2>8. KeysGood(d, <<m>> \o key_list[d], [drv[d] EXCEPT ![m.num] = m.key], W, Pending(c), {})
    BY <2>2, <2>3, <2>4, <2>6, <2>7, CreateGood
  <2>9. KeysGood(d, key_list'[d], drv'[d], want'[d], Pending(c), {})
    BY <2>2, <2>5, <2>8
  <2>10. /\ Only(d, pc, pc') /\ Only(d, call, call')
         /\ c.old # None => pc'[d] \in {"relock", "bare"} /\ call'[d] = c
         /\ c.old = None => pc'[d] = "idle" /\ call'[d] = NoCall
    BY <2>1, ReturnIs
  <2>11. Pending(call'[d]) = Pending(c) /\ Exempt(pc'[d], call'[d]) = {}
    BY <2>10, IdleNoCall DEF Pending, Exempt
  <2>12. CallGood(d, pc'[d], call'[d], opened', spoiled')
    BY <2>2, <2>4, <2>5, <2>10 DEF CallGood, Points
  <2>13. DeviceGood(d, key_list'[d], key_type'[d], drv'[d], want'[d], pc'[d], call'[d], opened', spoiled')
    BY <2>2, <2>4, <2>5, <2>9, <2>11, <2>12 DEF DeviceGood
  <2>14. Good(d)'
    BY <2>13 DEF Good
  <2>15. OnlyAt(d)
    BY <2>2, <2>5, <2>10 DEF OnlyAt, Only, KeysInv
  <2> QED
    BY <2>14, <2>15, Carries
<1>4. CASE ~(d \in Raw \/ added)
  <2>1. NewKey(d, n, FALSE) /\ Return(d, FALSE) /\ Spoils(d)
    BY <1>2, <1>4
  <2>2. /\ ListGood(d, key_list'[d]) /\ drv'[d] \in Held(d)
        /\ key_type'[d] \in {"kl", "clear", "otp"} /\ opened' = opened
        /\ Only(d, key_list, key_list') /\ Only(d, key_type, key_type') /\ Only(d, drv, drv')
    BY <1>1, <2>1, NewKeyIs
  <2> QED
    BY <1>1, <2>1, <2>2, SpoilsEnds
<1> QED
  BY <1>3, <1>4

LEMMA CreateFailsKeeps ==
    ASSUME KeysInv, NEW d \in Devices, CreateFails(d)
    PROVE  KeysInv'
<1>1. At(d, "in") /\ Return(d, FALSE) /\ UNCHANGED dsc
  BY DEF CreateFails, Refused
<1>2. CASE call[d].old = None
  <2>1. UNCHANGED <<dsc, history>>
    BY <1>1, <1>2 DEF CreateFails
  <2> QED
    BY <1>1, <1>2, <2>1, IdleReturn
<1>3. CASE call[d].old # None
  <2>1. Spoils(d)
    BY <1>3 DEF CreateFails
  <2>2. /\ ListGood(d, key_list[d]) /\ key_type[d] \in {"kl", "clear", "otp", None}
        /\ drv[d] \in Held(d)
    BY <1>1, InCall
  <2>3. opened' = opened /\ key_list' = key_list /\ key_type' = key_type /\ drv' = drv
    BY <1>1 DEF dsc
  <2>4. Only(d, key_list, key_list') /\ Only(d, key_type, key_type') /\ Only(d, drv, drv')
    BY <2>3 DEF KeysInv, Only
  <2> QED
    BY <1>1, <2>1, <2>2, <2>3, <2>4, SpoilsEnds
<1> QED
  BY <1>2, <1>3

-----------------------------------------------------------------------------
LEMMA KeysStep == KeysInv /\ [Next]_vars => KeysInv'
<1> SUFFICES ASSUME KeysInv, [Next]_vars PROVE KeysInv'
  OBVIOUS
<1>1. CASE UNCHANGED vars
  BY <1>1 DEF vars, dsc, history, KeysInv, Good, DeviceGood, CallGood
<1>2. ASSUME NEW d \in Devices, Step(d) PROVE KeysInv'
  BY <1>2, MutexKeeps, CreateKeeps, CreateFailsKeeps, UpdateKlKeeps, ChangeKlKeeps,
     UpdateClearKeeps, UpdateOtpKeeps, ExchangeKeeps, DeleteOldKeeps DEF Step
<1>3. ASSUME NEW d \in Devices,
             \/ Open(d) \/ Close(d) \/ Crypt(d)
             \/ \E p \in PidsOf(d) : Detach(d, p) \/ \E k \in KeysOf(d) : Attach(d, p, k)
      PROVE  KeysInv'
  BY <1>3, OpenKeeps, CloseKeeps, CryptKeeps, DetachKeeps, AttachKeeps
<1> QED
  BY <1>1, <1>2, <1>3 DEF Next

LEMMA SpecKeys == Spec => []KeysInv
BY InitKeys, KeysStep, PTL DEF Spec

\* The lists of keys are empty for closed devices, no two keys of a PID are of
\* one kind, and the driver's numbers and keys are as they are declared.
THEOREM TypesHold == Spec => []TypeOK
<1>1. KeysInv /\ IInv => TypeOK
  <2> SUFFICES ASSUME KeysInv, IInv PROVE TypeOK
    OBVIOUS
  <2>1. /\ mutex \in Devices \cup {None} /\ opened \subseteq Devices /\ spoiled \subseteq opened
        /\ slipped \in BOOLEAN
        /\ pc \in [Devices -> {"idle", "wait", "in", "relock", "back", "bare"}]
    BY DEF KeysInv, IInv, LockInv
  <2>2. ASSUME NEW d \in Devices
        PROVE  /\ d \notin opened => key_list[d] = <<>>
               /\ \A i, j \in DOMAIN key_list[d] :
                    i < j /\ key_list[d][i].pid = key_list[d][j].pid
                    => key_list[d][i].key \notin OtpKeys /\ key_list[d][j].key \in OtpKeys
               /\ \A i \in DOMAIN key_list[d] : key_list[d][i] \in Mkey(d)
               /\ key_type[d] \in {"kl", "clear", "otp", None}
               /\ drv[d] \in Held(d) /\ want[d] \in Wishes(d)
    BY DEF KeysInv, Good, DeviceGood, ListGood, Stacked
  <2> QED
    BY <2>1, <2>2 DEF TypeOK, Mkey, Held, Wishes
<1> QED
  BY <1>1, SpecKeys, SpecLock, PTL

\* Between the calls the last key attached for a PID is in force: found by the
\* PID, known to the driver under its number and, on a TS device, with its PIDs.
THEOREM AttachedIsInForce == Spec => []LastAttachIsInForce
<1>1. KeysInv => LastAttachIsInForce
  <2> SUFFICES ASSUME KeysInv, NEW d \in Devices, At(d, "idle"),
                      NEW p \in PidsOf(d), want[d][p] # None
               PROVE  LET m == Find(key_list[d], p)
                      IN  /\ m # None /\ drv[d][m.num] = want[d][p]
                          /\ m.routed <=> d \notin Raw
    BY DEF LastAttachIsInForce
  <2>1. Good(d) /\ pc[d] = "idle" /\ call[d] = NoCall
    BY DEF KeysInv, At, Good, DeviceGood, CallGood
  <2>2. d \notin spoiled
    BY <2>1 DEF Good, DeviceGood, NoWant
  <2>3. KeysGood(d, key_list[d], drv[d], want[d], {}, {})
    BY <2>1, <2>2, IdleNoCall DEF Good, DeviceGood
  <2>4. InForce(key_list[d], drv[d], want[d], p)
    BY <2>3 DEF KeysGood, Wanted
  <2>5. PICK i : FirstAt(key_list[d], p, i) /\ Find(key_list[d], p) = key_list[d][i]
    BY <2>4, FoundIs DEF InForce
  <2> QED
    BY <2>3, <2>4, <2>5 DEF KeysGood, AllRouted, InForce, FirstAt
<1> QED
  BY <1>1, SpecKeys, PTL

\* Between the calls of a device that no step has failed half-way the driver
\* holds the keys of the list, each under its own number, and no others.
THEOREM DriverHoldsTheKeys == Spec => []KeysMatchDriver
<1>1. KeysInv => KeysMatchDriver
  <2> SUFFICES ASSUME KeysInv, NEW d \in Devices, At(d, "idle"), d \notin spoiled
               PROVE  /\ {n \in Numbers : drv[d][n] # None} =
                            {key_list[d][i].num : i \in DOMAIN key_list[d]}
                      /\ \A i, j \in DOMAIN key_list[d] :
                            key_list[d][i].num = key_list[d][j].num => i = j
    BY DEF KeysMatchDriver
  <2>1. Good(d) /\ pc[d] = "idle" /\ call[d] = NoCall
    BY DEF KeysInv, At, Good, DeviceGood, CallGood
  <2>2. Books(key_list[d], drv[d], {}) /\ ListGood(d, key_list[d])
    BY <2>1, IdleNoCall DEF Good, DeviceGood, KeysGood
  <2>3. Nums(key_list[d]) \subseteq Numbers
    BY <2>2, MkeyParts DEF Nums, ListGood
  <2>4. {n \in Numbers : drv[d][n] # None} = Nums(key_list[d])
    BY <2>2, <2>3 DEF Books
  <2> QED
    BY <2>2, <2>4 DEF Books, Nums
<1> QED
  BY <1>1, SpecKeys, PTL
=============================================================================
