--------------------------- MODULE PidTableProofs ---------------------------
(***************************************************************************)
(* Theorems about the slots of the pid table, for every number of slots    *)
(* and every array of the kernel: no pid has two of them, and they         *)
(* implement the list of pid statuses of module PidList.  The second rests *)
(* on the first, and on counting: the pids that are in the table are as    *)
(* many as the slots that are not free.                                    *)
(***************************************************************************)
EXTENDS PidTable, FiniteSetTheorems, WellFoundedInduction, TLAPS

Slot   == [pid : Pids \cup {NoPid}, status : SlotStatus]
Tables == [Slots -> Slot]

(* Two slots are not of one pid; a slot that never had a pid is invalid. *)
OwnSlots(table)   == \A i, j \in Slots : table[i].pid = table[j].pid /\ table[i].pid # NoPid => i = j
EmptyInvalid(table) == \A i \in Slots : table[i].pid = NoPid => table[i].status = "PID_INVALID"
Sound(table) == table \in Tables /\ OwnSlots(table) /\ EmptyInvalid(table)

LEMMA SlotFact ==
    ASSUME NEW table \in Tables, NEW i \in Slots
    PROVE  table[i] \in Slot /\ table[i].pid \in Pids \cup {NoPid} /\ table[i].status \in SlotStatus
  BY DEF Tables, Slot

(* What the search for a pid finds. *)
LEMMA StatusFact ==
    ASSUME NEW table, Sound(table), NEW p \in Pids
    PROVE  /\ StatusIn(table)[p] \in SlotStatus
           /\ \A i \in Slots : table[i].pid = p => StatusIn(table)[p] = table[i].status
           /\ SlotsOf(table, p) = {} => StatusIn(table)[p] = "PID_INVALID"
<1>1. p # NoPid
  BY TableAssumption
<1>2. CASE SlotsOf(table, p) = {}
  <2>1. StatusIn(table)[p] = "PID_INVALID"
    BY <1>2 DEF StatusIn
  <2> QED BY <1>2, <2>1 DEF SlotsOf, SlotStatus
<1>3. CASE SlotsOf(table, p) # {}
  <2> DEFINE c == CHOOSE i \in SlotsOf(table, p) : TRUE
  <2>1. c \in SlotsOf(table, p) /\ StatusIn(table)[p] = table[c].status
    BY <1>3 DEF StatusIn
  <2> HIDE DEF c
  <2>2. c \in Slots /\ table[c].pid = p /\ table[c].status \in SlotStatus
    BY <2>1, SlotFact DEF SlotsOf, Sound
  <2>3. \A i \in Slots : table[i].pid = p => i = c
    BY <1>1, <2>2 DEF Sound, OwnSlots
  <2> QED BY <1>3, <2>1, <2>2, <2>3
<1> QED BY <1>2, <1>3

(* The pids that are in the table, and how many slots they leave. *)
Used(table) == {p \in Pids : StatusIn(table)[p] # "PID_INVALID"}

LEMMA FreeCount ==
    ASSUME NEW table, Sound(table)
    PROVE  /\ IsFiniteSet(Used(table)) /\ Cardinality(Used(table)) \in Nat
           /\ Cardinality(Used(table)) <= MAX_PIDS
           /\ FreeIn(table) = {} => Cardinality(Used(table)) = MAX_PIDS
           /\ Cardinality(Used(table)) = MAX_PIDS => FreeIn(table) = {}
<1> DEFINE B == {i \in Slots : table[i].status # "PID_INVALID"}
           U == Used(table)
           f == [i \in B |-> table[i].pid]
<1>1. IsFiniteSet(Slots) /\ Cardinality(Slots) = MAX_PIDS /\ MAX_PIDS \in Nat
  <2>1. MAX_PIDS \in Nat /\ MAX_PIDS >= 1 /\ 1 \in Int /\ MAX_PIDS \in Int
    BY TableAssumption
  <2> QED BY <2>1, FS_Interval DEF Slots
<1>2. B \in SUBSET Slots
  OBVIOUS
<1>3. IsFiniteSet(B) /\ Cardinality(B) \in Nat /\ Cardinality(B) <= MAX_PIDS
      /\ (Cardinality(B) = MAX_PIDS <=> B = Slots)
  BY <1>1, <1>2, FS_Subset, FS_CardinalityType
<1>4. \A i \in B : table[i].pid \in U
  <2> SUFFICES ASSUME NEW i \in B PROVE table[i].pid \in U
    OBVIOUS
  <2>1. i \in Slots /\ table[i].pid # NoPid /\ table[i].pid \in Pids
    BY SlotFact DEF Sound, EmptyInvalid
  <2>2. StatusIn(table)[table[i].pid] = table[i].status
    BY <2>1, StatusFact
  <2> QED BY <2>1, <2>2 DEF Used
<1>5. \A p \in U : \E i \in B : table[i].pid = p
  <2> SUFFICES ASSUME NEW p \in U PROVE \E i \in B : table[i].pid = p
    OBVIOUS
  <2>1. p \in Pids /\ StatusIn(table)[p] # "PID_INVALID"
    BY DEF Used
  <2>2. PICK i \in Slots : table[i].pid = p
    BY <2>1, StatusFact DEF SlotsOf
  <2>3. table[i].status = StatusIn(table)[p]
    BY <2>1, <2>2, StatusFact
  <2> QED BY <2>1, <2>2, <2>3
<1>6. \A i, j \in B : table[i].pid = table[j].pid => i = j
  BY DEF Sound, OwnSlots, EmptyInvalid
<1> HIDE DEF B, U
<1>7. f \in Bijection(B, U)
  <2>1. f \in [B -> U] /\ \A i \in B : f[i] = table[i].pid
    BY <1>4
  <2> HIDE DEF f
  <2>2. f \in Injection(B, U)
    BY <1>6, <2>1 DEF Injection, IsInjective
  <2>3. f \in Surjection(B, U)
    BY <1>5, <2>1 DEF Surjection
  <2> QED BY <2>2, <2>3 DEF Bijection
<1>8. IsFiniteSet(U) /\ Cardinality(U) = Cardinality(B)
  BY <1>3, <1>7, FS_Bijection DEF ExistsBijection
<1>9. B = Slots <=> FreeIn(table) = {}
  BY DEF B, FreeIn
<1> QED BY <1>3, <1>8, <1>9 DEF U

-----------------------------------------------------------------------------
(***************************************************************************)
(* The adds of one message, in the kernel's order                          *)
(***************************************************************************)

(* The first free slot is a free slot. *)
LEMMA MinFree ==
    ASSUME NEW table, FreeIn(table) # {}
    PROVE  Min(FreeIn(table)) \in FreeIn(table)
<1> DEFINE S == FreeIn(table)
<1>1. S \in SUBSET Nat
  BY TableAssumption DEF FreeIn, Slots
<1> HIDE DEF S
<1>2. S # {}
  BY DEF S
<1>3. PICK x \in S : \A y \in S : ~(<<y, x>> \in OpToRel(<, Nat))
  BY <1>1, <1>2, NatLessThanWellFounded, WFMin
<1>4. ASSUME NEW y \in S, y < x PROVE FALSE
  <2>1. <<y, x>> \in Nat \X Nat
    BY <1>1
  <2>2. <<y, x>> \in OpToRel(<, Nat)
    BY <1>4, <2>1 DEF OpToRel
  <2> QED BY <1>3, <2>2
<1>5. \A y \in S : x =< y
  BY <1>1, <1>4
<1>6. Min(S) \in S
  BY <1>5, Zenon DEF Min
<1> QED BY <1>6 DEF S

LEMMA AddedFact ==
    \A s \in SlotStatus : Added(s) \in SlotStatus \ {"PID_INVALID"} /\ Added(Added(s)) = Added(s)
  BY DEF Added, SlotStatus

(* One pid of the kernel's list. *)
LEMMA AddPidFact ==
    ASSUME NEW table, Sound(table), NEW p \in Pids
    PROVE  LET u == AddPid(table, p)
               dropped == StatusIn(table)[p] = "PID_INVALID" /\ FreeIn(table) = {}
           IN  /\ Sound(u)
               /\ FreeIn(u) \subseteq FreeIn(table)
               /\ \A q \in Pids : q # p => StatusIn(u)[q] = StatusIn(table)[q]
               /\ dropped => StatusIn(u)[p] = "PID_INVALID"
               /\ ~dropped => StatusIn(u)[p] = Added(StatusIn(table)[p])
<1> DEFINE u == AddPid(table, p)
           dropped == StatusIn(table)[p] = "PID_INVALID" /\ FreeIn(table) = {}
<1>0. p # NoPid /\ table \in Tables
  BY TableAssumption DEF Sound
<1>1. CASE SlotsOf(table, p) # {}
  <2>1. u = [i \in Slots |-> IF table[i].pid = p
                             THEN [pid |-> p, status |-> Added(table[i].status)] ELSE table[i]]
    BY <1>1 DEF AddPid
  <2>2. \A i \in Slots : /\ table[i].pid = p => u[i].pid = p /\ u[i].status = Added(table[i].status)
                         /\ table[i].pid # p => u[i] = table[i]
    <3> SUFFICES ASSUME NEW i \in Slots
                 PROVE  /\ table[i].pid = p => u[i].pid = p /\ u[i].status = Added(table[i].status)
                        /\ table[i].pid # p => u[i] = table[i]
      OBVIOUS
    <3>1. u[i] = IF table[i].pid = p THEN [pid |-> p, status |-> Added(table[i].status)] ELSE table[i]
      BY <2>1
    <3> HIDE DEF u
    <3> QED BY <3>1
  <2>3. u \in Tables
    <3>1. ASSUME NEW i \in Slots
          PROVE  (IF table[i].pid = p THEN [pid |-> p, status |-> Added(table[i].status)]
                  ELSE table[i]) \in Slot
      <4>1. Added(table[i].status) \in SlotStatus
        BY <1>0, SlotFact, AddedFact
      <4> QED BY <1>0, <4>1, SlotFact DEF Slot
    <3> QED BY <2>1, <3>1 DEF Tables
  <2> HIDE DEF u
  <2>4. \A i \in Slots : u[i].pid = table[i].pid
    BY <2>2
  <2>5. Sound(u)
    BY <1>0, <2>2, <2>3, <2>4 DEF Sound, OwnSlots, EmptyInvalid
  <2>6. FreeIn(u) \subseteq FreeIn(table)
    <3>1. ASSUME NEW i \in Slots, u[i].status = "PID_INVALID" PROVE table[i].status = "PID_INVALID"
      <4>1. Added(table[i].status) # "PID_INVALID"
        BY <1>0, SlotFact, AddedFact
      <4> QED BY <2>2, <3>1, <4>1
    <3> QED BY <3>1 DEF FreeIn
  <2>7. ASSUME NEW q \in Pids, q # p PROVE StatusIn(u)[q] = StatusIn(table)[q]
    <3>1. SlotsOf(u, q) = SlotsOf(table, q)
      BY <2>4 DEF SlotsOf
    <3>2. CASE SlotsOf(table, q) = {}
      BY <2>5, <3>1, <3>2, StatusFact
    <3>3. CASE SlotsOf(table, q) # {}
      <4>1. PICK i \in Slots : table[i].pid = q
        BY <3>3 DEF SlotsOf
      <4> QED BY <2>2, <2>4, <2>5, <2>7, <4>1, StatusFact
    <3> QED BY <3>2, <3>3
  <2>8. PICK i \in Slots : table[i].pid = p
    BY <1>1 DEF SlotsOf
  <2>9. StatusIn(u)[p] = Added(StatusIn(table)[p])
    <3>1. StatusIn(table)[p] = table[i].status
      BY <2>8, StatusFact
    <3>2. StatusIn(u)[p] = u[i].status
      BY <2>4, <2>5, <2>8, StatusFact
    <3> QED BY <2>2, <2>8, <3>1, <3>2
  <2>10. ~dropped
    <3>1. ASSUME StatusIn(table)[p] = "PID_INVALID" PROVE i \in FreeIn(table)
      BY <2>8, <3>1, StatusFact DEF FreeIn
    <3> QED BY <3>1
  <2> QED BY <2>5, <2>6, <2>7, <2>9, <2>10 DEF u
<1>2. CASE SlotsOf(table, p) = {} /\ FreeIn(table) # {}
  <2> DEFINE k == Min(FreeIn(table))
  <2>1. k \in Slots /\ table[k].status = "PID_INVALID"
    BY <1>2, MinFree DEF FreeIn
  <2>2. u = [table EXCEPT ![k] = [pid |-> p, status |-> "PID_ADD"]]
    BY <1>2 DEF AddPid
  <2> HIDE DEF k
  <2>3. [pid |-> p, status |-> "PID_ADD"] \in Slot
    BY DEF Slot, SlotStatus
  <2>4. u \in Tables
    BY <1>0, <2>1, <2>2, <2>3 DEF Tables
  <2>5. /\ u[k] = [pid |-> p, status |-> "PID_ADD"]
        /\ \A i \in Slots : i # k => u[i] = table[i]
    BY <1>0, <2>1, <2>2 DEF Tables
  <2> HIDE DEF u
  <2>6. \A i \in Slots : table[i].pid # p
    BY <1>2 DEF SlotsOf
  <2>7. Sound(u)
    BY <1>0, <2>1, <2>4, <2>5, <2>6 DEF Sound, OwnSlots, EmptyInvalid
  <2>8. FreeIn(u) \subseteq FreeIn(table)
    BY <2>1, <2>5 DEF FreeIn
  <2>9. ASSUME NEW q \in Pids, q # p PROVE StatusIn(u)[q] = StatusIn(table)[q]
    <3>1. CASE \E i \in Slots : i # k /\ table[i].pid = q
      BY <2>5, <2>7, <3>1, StatusFact
    <3>2. CASE \A i \in Slots : i # k => table[i].pid # q
      <4>1. SlotsOf(u, q) = {}
        BY <2>5, <2>9, <3>2 DEF SlotsOf
      <4>2. StatusIn(u)[q] = "PID_INVALID"
        BY <2>7, <4>1, StatusFact
      <4>3. StatusIn(table)[q] = "PID_INVALID"
        <5>1. CASE table[k].pid = q
          BY <2>1, <5>1, StatusFact
        <5>2. CASE table[k].pid # q
          <6>1. SlotsOf(table, q) = {}
            BY <3>2, <5>2 DEF SlotsOf
          <6> QED BY <6>1, StatusFact
        <5> QED BY <5>1, <5>2
      <4> QED BY <4>2, <4>3
    <3> QED BY <3>1, <3>2
  <2>10. StatusIn(table)[p] = "PID_INVALID"
    BY <1>2, StatusFact
  <2>11. StatusIn(u)[p] = "PID_ADD"
    BY <2>1, <2>5, <2>7, StatusFact
  <2>12. Added("PID_INVALID") = "PID_ADD"
    BY DEF Added
  <2> QED BY <1>2, <2>7, <2>8, <2>9, <2>10, <2>11, <2>12 DEF u
<1>3. CASE SlotsOf(table, p) = {} /\ FreeIn(table) = {}
  <2>1. u = table
    BY <1>3 DEF AddPid
  <2>2. StatusIn(table)[p] = "PID_INVALID"
    BY <1>3, StatusFact
  <2> QED BY <1>3, <2>1, <2>2
<1> QED BY <1>1, <1>2, <1>3

LEMMA ArrayFact ==
    ASSUME NEW list \in KernelArrays
    PROVE  list \in Seq(Pids) /\ Len(list) \in Nat /\ Len(list) <= MAX_PIDS
<1>1. PICK m \in 0..MAX_PIDS : list \in [1..m -> Pids]
  BY DEF KernelArrays, SeqOf
<1>2. m \in Nat /\ m <= MAX_PIDS
  BY <1>1, TableAssumption
<1> QED BY <1>1, <1>2

(* Induction over the naturals, for a set of them. *)
LEMMA EveryNatural ==
    ASSUME NEW S \in SUBSET Nat, 0 \in S, \A n \in S : n + 1 \in S
    PROVE  S = Nat
<1> SUFFICES ASSUME NEW B, B = Nat \ S, B # {} PROVE FALSE
  OBVIOUS
<1>1. PICK x \in B : \A y \in B : ~(<<y, x>> \in OpToRel(<, Nat))
  <2>1. B \in SUBSET Nat
    OBVIOUS
  <2> QED BY <2>1, NatLessThanWellFounded, WFMin
<1>2. x \in Nat /\ x # 0 /\ x - 1 \in Nat /\ x - 1 < x /\ (x - 1) + 1 = x
  OBVIOUS
<1>3. x - 1 \in B
  BY <1>2
<1>4. <<x - 1, x>> \in Nat \X Nat
  BY <1>2
<1>5. <<x - 1, x>> \in OpToRel(<, Nat)
  BY <1>2, <1>4 DEF OpToRel
<1> QED BY <1>1, <1>3, <1>5

(* The table after each of the first n pids of the list. *)
AddsOf(f, n, table, list) ==
    f = [k \in 0..n |-> IF k = 0 THEN table ELSE AddPid(f[k - 1], list[k])]

LEMMA AddsExist ==
    ASSUME NEW table, NEW list, NEW n \in Nat
    PROVE  \E f : AddsOf(f, n, table, list)
<1> DEFINE S == {m \in Nat : \E f : AddsOf(f, m, table, list)}
<1>1. 0 \in S
  <2> DEFINE f == [k \in 0..0 |-> table]
  <2>1. AddsOf(f, 0, table, list)
    BY DEF AddsOf
  <2> QED BY <2>1
<1>2. ASSUME NEW m \in S PROVE m + 1 \in S
  <2>1. m \in Nat /\ m + 1 \in Nat
    OBVIOUS
  <2>2. PICK f : AddsOf(f, m, table, list)
    OBVIOUS
  <2> DEFINE g == [k \in 0..(m + 1) |-> IF k = m + 1 THEN AddPid(f[m], list[m + 1]) ELSE f[k]]
             h == [k \in 0..(m + 1) |-> IF k = 0 THEN table ELSE AddPid(g[k - 1], list[k])]
  <2>3. \A k \in 0..m : f[k] = IF k = 0 THEN table ELSE AddPid(f[k - 1], list[k])
    BY <2>2, Zenon DEF AddsOf
  <2>4. \A k \in 0..m : g[k] = f[k]
    BY <2>1
  <2>5. g[m + 1] = AddPid(f[m], list[m + 1])
    BY <2>1
  <2>6. ASSUME NEW k \in 0..(m + 1) PROVE g[k] = IF k = 0 THEN table ELSE AddPid(g[k - 1], list[k])
    <3>1. CASE k = m + 1
      <4>1. k # 0 /\ k - 1 = m /\ m \in 0..m
        BY <2>1, <3>1
      <4>2. g[k - 1] = f[m]
        BY <2>4, <4>1
      <4> HIDE DEF g
      <4> QED BY <2>5, <3>1, <4>1, <4>2
    <3>2. CASE k # m + 1
      <4>1. k \in 0..m /\ (k # 0 => k - 1 \in 0..m)
        BY <2>1, <3>2
      <4> HIDE DEF g
      <4> QED BY <2>3, <2>4, <4>1
    <3> QED BY <3>1, <3>2
  <2>7. g = h
    <3>1. \A k \in 0..(m + 1) : g[k] = h[k]
      BY <2>6, Zenon
    <3>2. DOMAIN g = 0..(m + 1) /\ g = [k \in 0..(m + 1) |-> g[k]]
      BY Zenon
    <3>3. h = [k \in 0..(m + 1) |-> h[k]]
      <4> HIDE DEF g
      <4> QED BY SMT
    <3> HIDE DEF g, h
    <3> QED BY <3>1, <3>2, <3>3, Zenon
  <2>8. AddsOf(g, m + 1, table, list)
    BY <2>7, Zenon DEF AddsOf
  <2> QED BY <2>1, <2>8
<1>3. S = Nat
  <2>1. S \in SUBSET Nat
    OBVIOUS
  <2> HIDE DEF S
  <2> QED BY <1>1, <1>2, <2>1, EveryNatural
<1> QED BY <1>3

OneByOne(f, table, list) ==
    /\ f[0] = table
    /\ \A k \in 1..Len(list) : f[k] = AddPid(f[k - 1], list[k])
    /\ AddAll(table, list) = f[Len(list)]

LEMMA AddAllFact ==
    ASSUME NEW table, NEW list \in KernelArrays
    PROVE  \E f : OneByOne(f, table, list)
<1> DEFINE n == Len(list)
           f == CHOOSE g : AddsOf(g, n, table, list)
<1>1. n \in Nat
  BY ArrayFact
<1>2. AddAll(table, list) = f[n]
  BY Zenon DEF AddAll, AddsOf
<1>3. AddsOf(f, n, table, list)
  BY <1>1, AddsExist
<1> HIDE DEF f
<1>4. \A k \in 0..n : f[k] = IF k = 0 THEN table ELSE AddPid(f[k - 1], list[k])
  BY <1>3, Zenon DEF AddsOf
<1>5. f[0] = table
  BY <1>1, <1>4
<1>6. \A k \in 1..n : f[k] = AddPid(f[k - 1], list[k])
  BY <1>1, <1>4
<1> QED BY <1>2, <1>5, <1>6 DEF OneByOne

(* What the adds of the pids in seen have made of a table: a pid that was  *)
(* not in it is there now, unless no slot is left.                         *)
AfterAdds(u, table, seen) ==
    /\ Sound(u)
    /\ \A q \in Pids :
          /\ q \notin seen => StatusIn(u)[q] = StatusIn(table)[q]
          /\ q \in seen /\ StatusIn(table)[q] # "PID_INVALID"
                => StatusIn(u)[q] = Added(StatusIn(table)[q])
          /\ q \in seen /\ StatusIn(table)[q] = "PID_INVALID"
                => StatusIn(u)[q] = "PID_ADD" \/ (StatusIn(u)[q] = "PID_INVALID" /\ FreeIn(u) = {})

LEMMA AddOne ==
    ASSUME NEW table, Sound(table), NEW u, NEW seen, AfterAdds(u, table, seen), NEW p \in Pids
    PROVE  AfterAdds(AddPid(u, p), table, seen \cup {p})
<1> DEFINE v == AddPid(u, p)
           dropped == (StatusIn(u)[p] = "PID_INVALID" /\ FreeIn(u) = {})
<1>1. Sound(u)
  BY DEF AfterAdds
<1>2. /\ Sound(v) /\ FreeIn(v) \subseteq FreeIn(u)
      /\ \A q \in Pids : q # p => StatusIn(v)[q] = StatusIn(u)[q]
      /\ dropped => StatusIn(v)[p] = "PID_INVALID"
      /\ ~dropped => StatusIn(v)[p] = Added(StatusIn(u)[p])
  BY <1>1, AddPidFact
<1> HIDE DEF v
<1>3. StatusIn(table)[p] \in SlotStatus
  BY StatusFact
<1>4. \A s \in SlotStatus : Added(Added(s)) = Added(s) /\ Added(s) # "PID_INVALID"
  BY AddedFact
<1>5. Added("PID_INVALID") = "PID_ADD" /\ Added("PID_ADD") = "PID_ADD"
  BY DEF Added
<1>6. ASSUME NEW q \in Pids, q # p
      PROVE  /\ q \notin seen => StatusIn(v)[q] = StatusIn(table)[q]
             /\ q \in seen /\ StatusIn(table)[q] # "PID_INVALID"
                   => StatusIn(v)[q] = Added(StatusIn(table)[q])
             /\ q \in seen /\ StatusIn(table)[q] = "PID_INVALID"
                   => StatusIn(v)[q] = "PID_ADD" \/ (StatusIn(v)[q] = "PID_INVALID" /\ FreeIn(v) = {})
  <2>1. StatusIn(v)[q] = StatusIn(u)[q]
    BY <1>2, <1>6
  <2>2. FreeIn(u) = {} => FreeIn(v) = {}
    BY <1>2
  <2> QED BY <2>1, <2>2 DEF AfterAdds
<1>7. StatusIn(table)[p] # "PID_INVALID" => StatusIn(v)[p] = Added(StatusIn(table)[p])
  <2> SUFFICES ASSUME StatusIn(table)[p] # "PID_INVALID"
               PROVE  StatusIn(v)[p] = Added(StatusIn(table)[p])
    OBVIOUS
  <2>1. StatusIn(u)[p] = StatusIn(table)[p] \/ StatusIn(u)[p] = Added(StatusIn(table)[p])
    BY DEF AfterAdds
  <2>2. StatusIn(u)[p] # "PID_INVALID"
    BY <1>3, <1>4, <2>1
  <2> QED BY <1>2, <1>3, <1>4, <2>1, <2>2
<1>8. StatusIn(table)[p] = "PID_INVALID"
        => StatusIn(v)[p] = "PID_ADD" \/ (StatusIn(v)[p] = "PID_INVALID" /\ FreeIn(v) = {})
  <2> SUFFICES ASSUME StatusIn(table)[p] = "PID_INVALID"
               PROVE  StatusIn(v)[p] = "PID_ADD" \/ (StatusIn(v)[p] = "PID_INVALID" /\ FreeIn(v) = {})
    OBVIOUS
  <2>1. StatusIn(u)[p] = "PID_INVALID" \/ StatusIn(u)[p] = "PID_ADD"
    BY DEF AfterAdds
  <2>2. CASE dropped
    BY <1>2, <2>2
  <2>3. CASE ~dropped
    <3>1. StatusIn(v)[p] = Added(StatusIn(u)[p])
      BY <1>2, <2>3
    <3>2. StatusIn(v)[p] = "PID_ADD"
      BY <1>5, <2>1, <3>1, Zenon
    <3> QED BY <3>2
  <2> QED BY <2>2, <2>3
<1> QED BY <1>2, <1>6, <1>7, <1>8 DEF AfterAdds, v

LEMMA AddAllResult ==
    ASSUME NEW table, Sound(table), NEW list \in KernelArrays
    PROVE  AfterAdds(AddAll(table, list), table, ToSet(list))
<1> DEFINE n == Len(list)
           seen(m) == {list[k] : k \in 1..m}
<1>1. PICK f : OneByOne(f, table, list)
  BY AddAllFact
<1>2. list \in Seq(Pids) /\ n \in Nat
  BY ArrayFact
<1> DEFINE S == {m \in Nat : m <= n => AfterAdds(f[m], table, seen(m))}
<1>3. 0 \in S
  <2>1. seen(0) = {}
    OBVIOUS
  <2>2. AfterAdds(table, table, {})
    BY DEF AfterAdds
  <2> QED BY <1>1, <2>1, <2>2 DEF OneByOne
<1>4. ASSUME NEW m \in S PROVE m + 1 \in S
  <2> SUFFICES ASSUME m + 1 <= n PROVE AfterAdds(f[m + 1], table, seen(m + 1))
    OBVIOUS
  <2>1. m \in Nat /\ m + 1 \in 1..n /\ (m + 1) - 1 = m /\ m <= n
    BY <1>2
  <2>2. AfterAdds(f[m], table, seen(m))
    BY <2>1
  <2>3. f[m + 1] = AddPid(f[m], list[m + 1]) /\ list[m + 1] \in Pids
    BY <1>1, <1>2, <2>1 DEF OneByOne
  <2>4. seen(m + 1) = seen(m) \cup {list[m + 1]}
    <3>1. 1..(m + 1) = (1..m) \cup {m + 1}
      BY <2>1
    <3> QED BY <3>1
  <2> HIDE DEF seen
  <2> QED BY <2>2, <2>3, <2>4, AddOne
<1>5. S = Nat
  <2>1. S \in SUBSET Nat
    OBVIOUS
  <2> HIDE DEF S
  <2> QED BY <1>3, <1>4, <2>1, EveryNatural
<1>6. AfterAdds(f[n], table, seen(n))
  <2>1. n \in S
    BY <1>2, <1>5
  <2> HIDE DEF seen
  <2> QED BY <1>2, <2>1
<1>7. seen(n) = ToSet(list)
  BY <1>2 DEF ToSet
<1> QED BY <1>1, <1>6, <1>7 DEF OneByOne

-----------------------------------------------------------------------------
(***************************************************************************)
(* Deletes, commit and clear change statuses only                          *)
(***************************************************************************)

(* A change of the statuses alone, slot by slot. *)
WithStatuses(table, g) == [i \in Slots |-> [table[i] EXCEPT !.status = g[i]]]

StatusMoves(table, u, g) ==
    \A p \in Pids :
        \/ StatusIn(table)[p] = "PID_INVALID" /\ StatusIn(u)[p] = "PID_INVALID"
        \/ \E i \in Slots : /\ table[i].pid = p
                            /\ StatusIn(table)[p] = table[i].status
                            /\ StatusIn(u)[p] = g[i]

LEMMA StatusChange ==
    ASSUME NEW table, Sound(table), NEW g \in [Slots -> SlotStatus],
           \A i \in Slots : table[i].status = "PID_INVALID" => g[i] = "PID_INVALID"
    PROVE  Sound(WithStatuses(table, g)) /\ StatusMoves(table, WithStatuses(table, g), g)
<1> DEFINE u == WithStatuses(table, g)
<1>1. table \in Tables
  BY DEF Sound
<1>2. ASSUME NEW i \in Slots
      PROVE  u[i].pid = table[i].pid /\ u[i].status = g[i] /\ u[i] \in Slot
  <2>1. table[i] \in Slot /\ g[i] \in SlotStatus
    BY <1>1, SlotFact
  <2>2. u[i] = [table[i] EXCEPT !.status = g[i]]
    BY DEF WithStatuses
  <2> HIDE DEF u
  <2> QED BY ONLY <2>1, <2>2 DEF Slot
<1>3. u \in Tables
  <2>1. u = [i \in Slots |-> u[i]]
    BY DEF WithStatuses
  <2> HIDE DEF u
  <2> QED BY ONLY <1>2, <2>1 DEF Tables
<1> HIDE DEF u
<1>4. Sound(u)
  BY <1>2, <1>3 DEF Sound, OwnSlots, EmptyInvalid
<1>5. ASSUME NEW p \in Pids
      PROVE  \/ StatusIn(table)[p] = "PID_INVALID" /\ StatusIn(u)[p] = "PID_INVALID"
             \/ \E i \in Slots : /\ table[i].pid = p
                                 /\ StatusIn(table)[p] = table[i].status
                                 /\ StatusIn(u)[p] = g[i]
  <2>1. CASE SlotsOf(table, p) = {}
    <3>1. SlotsOf(u, p) = {}
      BY <1>2, <2>1 DEF SlotsOf
    <3> QED BY <1>4, <2>1, <3>1, StatusFact
  <2>2. CASE SlotsOf(table, p) # {}
    <3>1. PICK i \in Slots : table[i].pid = p
      BY <2>2 DEF SlotsOf
    <3>2. StatusIn(table)[p] = table[i].status
      BY <3>1, StatusFact
    <3>3. StatusIn(u)[p] = u[i].status
      BY <1>2, <1>4, <3>1, StatusFact
    <3> QED BY <1>2, <3>1, <3>2, <3>3
  <2> QED BY <2>1, <2>2
<1>6. StatusMoves(table, u, g)
  BY <1>5, Zenon DEF StatusMoves
<1> QED BY <1>4, <1>6 DEF u

LEMMA DeletedFact ==
    /\ \A s \in SlotStatus : Deleted(s) \in SlotStatus
    /\ Deleted("PID_INVALID") = "PID_INVALID"
  BY DEF Deleted, SlotStatus

(* The deletes of one message. *)
LEMMA DeleteResult ==
    ASSUME NEW table, Sound(table), NEW list \in KernelArrays
    PROVE  LET u == DeleteRest(table, list)
           IN  /\ Sound(u)
               /\ \A p \in Pids :
                    StatusIn(u)[p] = IF p \in ToSet(list) THEN StatusIn(table)[p]
                                     ELSE Deleted(StatusIn(table)[p])
<1> DEFINE g == [i \in Slots |-> IF table[i].pid \in ToSet(list) THEN table[i].status
                                ELSE Deleted(table[i].status)]
           u == WithStatuses(table, g)
           d == DeleteRest(table, list)
<1>1. table \in Tables
  BY DEF Sound
<1>2. \A i \in Slots : g[i] = IF table[i].pid \in ToSet(list) THEN table[i].status
                              ELSE Deleted(table[i].status)
  BY Zenon
<1>3. g \in [Slots -> SlotStatus]
  <2>1. \A i \in Slots : table[i].status \in SlotStatus /\ Deleted(table[i].status) \in SlotStatus
    BY <1>1, SlotFact, DeletedFact
  <2> QED BY <2>1
<1>4. \A i \in Slots : table[i].status = "PID_INVALID" => g[i] = "PID_INVALID"
  BY <1>2, DeletedFact
<1>5. u = d
  <2>1. ASSUME NEW i \in Slots
        PROVE  d[i] = [table[i] EXCEPT !.status = g[i]]
    <3>1. d[i] = IF table[i].pid \in ToSet(list) THEN table[i]
                 ELSE [table[i] EXCEPT !.status = Deleted(table[i].status)]
      BY DEF DeleteRest
    <3>2. table[i] = [table[i] EXCEPT !.status = table[i].status]
      BY <1>1, SlotFact DEF Slot
    <3> HIDE DEF d, g
    <3> QED BY <1>2, <3>1, <3>2, Zenon
  <2>2. d = [i \in Slots |-> d[i]]
    BY DEF DeleteRest
  <2> HIDE DEF d
  <2> QED BY <2>1, <2>2, Zenon DEF WithStatuses
<1> HIDE DEF g
<1>6. Sound(u) /\ StatusMoves(table, u, g)
  BY <1>3, <1>4, StatusChange
<1> HIDE DEF u, d
<1>7. ASSUME NEW p \in Pids
      PROVE  StatusIn(u)[p] = IF p \in ToSet(list) THEN StatusIn(table)[p]
                              ELSE Deleted(StatusIn(table)[p])
  <2>1. CASE StatusIn(table)[p] = "PID_INVALID" /\ StatusIn(u)[p] = "PID_INVALID"
    BY <2>1, DeletedFact
  <2>2. CASE \E i \in Slots : /\ table[i].pid = p
                              /\ StatusIn(table)[p] = table[i].status
                              /\ StatusIn(u)[p] = g[i]
    BY <1>2, <2>2, Zenon DEF g
  <2> QED BY <1>6, <2>1, <2>2, Zenon DEF StatusMoves
<1> QED BY <1>5, <1>6, <1>7 DEF d

LEMMA CommittedFact ==
    /\ \A s \in SlotStatus : Abstract!Committed(s) \in SlotStatus
    /\ Abstract!Committed("PID_INVALID") = "PID_INVALID"
  BY DEF Abstract!Committed, SlotStatus

LEMMA CommitResult ==
    ASSUME Sound(slots), TableCommit
    PROVE  /\ Sound(slots')
           /\ \A p \in Pids : StatusIn(slots')[p] = Abstract!Committed(StatusIn(slots)[p])
<1> DEFINE g == [i \in Slots |-> Abstract!Committed(slots[i].status)]
<1>1. slots' = WithStatuses(slots, g)
  BY DEF TableCommit, WithStatuses, Abstract!Committed
<1>2. \A i \in Slots : slots[i].status \in SlotStatus
  BY SlotFact DEF Sound
<1>3. \A i \in Slots : g[i] = Abstract!Committed(slots[i].status)
  BY Zenon
<1>4. g \in [Slots -> SlotStatus]
  BY <1>2, CommittedFact
<1> HIDE DEF g
<1>5. \A i \in Slots : slots[i].status = "PID_INVALID" => g[i] = "PID_INVALID"
  BY <1>3, CommittedFact
<1>6. Sound(slots') /\ StatusMoves(slots, slots', g)
  BY <1>1, <1>4, <1>5, StatusChange
<1>7. ASSUME NEW p \in Pids PROVE StatusIn(slots')[p] = Abstract!Committed(StatusIn(slots)[p])
  <2>1. CASE StatusIn(slots)[p] = "PID_INVALID" /\ StatusIn(slots')[p] = "PID_INVALID"
    BY <2>1, CommittedFact
  <2>2. CASE \E i \in Slots : /\ slots[i].pid = p
                              /\ StatusIn(slots)[p] = slots[i].status
                              /\ StatusIn(slots')[p] = g[i]
    BY <1>3, <2>2
  <2> QED BY <1>6, <2>1, <2>2, Zenon DEF StatusMoves
<1> QED BY <1>6, <1>7

LEMMA ClearResult ==
    ASSUME Sound(slots), TableClear
    PROVE  Sound(slots') /\ \A p \in Pids : StatusIn(slots')[p] = "PID_INVALID"
<1> DEFINE g == [i \in Slots |-> "PID_INVALID"]
<1>1. slots' = WithStatuses(slots, g)
  BY DEF TableClear, WithStatuses
<1>2. g \in [Slots -> SlotStatus] /\ \A i \in Slots : g[i] = "PID_INVALID"
  BY DEF SlotStatus
<1> HIDE DEF g
<1>3. Sound(slots') /\ StatusMoves(slots, slots', g)
  BY <1>1, <1>2, StatusChange
<1>4. ASSUME NEW p \in Pids PROVE StatusIn(slots')[p] = "PID_INVALID"
  BY <1>2, <1>3, Zenon DEF StatusMoves
<1> QED BY <1>3, <1>4

(* A whole message of the kernel. *)
LEMMA UpdateResult ==
    ASSUME Sound(slots), NEW list \in KernelArrays, TableUpdate(list)
    PROVE  LET u == AddAll(slots, list)
           IN  /\ Sound(slots') /\ AfterAdds(u, slots, ToSet(list))
               /\ \A p \in Pids :
                    StatusIn(slots')[p] = IF p \in ToSet(list) THEN StatusIn(u)[p]
                                          ELSE Deleted(StatusIn(slots)[p])
<1> DEFINE u == AddAll(slots, list)
<1>1. AfterAdds(u, slots, ToSet(list))
  BY AddAllResult
<1>2. Sound(u) /\ \A p \in Pids : p \notin ToSet(list) => StatusIn(u)[p] = StatusIn(slots)[p]
  BY <1>1 DEF AfterAdds
<1>3. slots' = DeleteRest(u, list)
  BY DEF TableUpdate
<1> HIDE DEF u
<1>4. /\ Sound(slots')
      /\ \A p \in Pids :
           StatusIn(slots')[p] = IF p \in ToSet(list) THEN StatusIn(u)[p]
                                 ELSE Deleted(StatusIn(u)[p])
  BY <1>2, <1>3, DeleteResult
<1> QED BY <1>1, <1>2, <1>4 DEF u

-----------------------------------------------------------------------------
TableInv == Sound(slots) /\ m_pid_status \in {"STATIONARY", "CHANGED"}

LEMMA TableInvInit == TableInit => TableInv
<1> SUFFICES ASSUME TableInit PROVE TableInv
  OBVIOUS
<1>1. [pid |-> NoPid, status |-> "PID_INVALID"] \in Slot
  BY DEF Slot, SlotStatus
<1>2. /\ slots = [i \in Slots |-> [pid |-> NoPid, status |-> "PID_INVALID"]]
      /\ m_pid_status = "STATIONARY"
  BY DEF TableInit
<1>3. slots \in Tables
  BY <1>1, <1>2 DEF Tables
<1>4. OwnSlots(slots) /\ EmptyInvalid(slots)
  BY <1>2 DEF OwnSlots, EmptyInvalid
<1> QED BY <1>2, <1>3, <1>4 DEF TableInv, Sound

LEMMA TableInvStep == TableInv /\ [TableNext]_tableVars => TableInv'
<1> SUFFICES ASSUME TableInv, [TableNext]_tableVars PROVE TableInv'
  OBVIOUS
<1>1. Sound(slots) /\ m_pid_status \in {"STATIONARY", "CHANGED"}
  BY DEF TableInv
<1>2. TableStatus(slots') \in {"STATIONARY", "CHANGED"}
  BY DEF TableStatus
<1>3. ASSUME NEW list \in KernelArrays, TableUpdate(list) PROVE TableInv'
  <2>1. Sound(slots')
    BY <1>1, <1>3, UpdateResult
  <2>2. m_pid_status' = TableStatus(slots')
    BY <1>3 DEF TableUpdate
  <2> QED BY <1>2, <2>1, <2>2 DEF TableInv
<1>4. CASE TableClear
  <2>1. Sound(slots')
    BY <1>1, <1>4, ClearResult
  <2> QED BY <1>1, <1>4, <2>1 DEF TableInv, TableClear
<1>5. CASE TableCommit
  <2>1. Sound(slots')
    BY <1>1, <1>5, CommitResult
  <2>2. m_pid_status' = TableStatus(slots')
    BY <1>5 DEF TableCommit
  <2> QED BY <1>2, <2>1, <2>2 DEF TableInv
<1>6. CASE UNCHANGED tableVars
  BY <1>1, <1>6 DEF tableVars, TableInv
<1> QED BY <1>3, <1>4, <1>5, <1>6 DEF TableNext

LEMMA TableInvariant == TableSpec => []TableInv
  BY TableInvInit, TableInvStep, PTL DEF TableSpec

(* The slots and the summary status keep their types. *)
THEOREM TableTypeCorrect == TableSpec => []TableTypeOK
<1>1. TableInv => TableTypeOK
  BY DEF TableInv, TableTypeOK, Sound, Tables, Slot
<1> QED BY <1>1, TableInvariant, PTL

(* updatePidList never gives a pid a second slot, for every size of the    *)
(* table, every order and every repetition in the kernel's array.          *)
THEOREM TableOneSlotPerPid == TableSpec => []OneSlotPerPid
<1>1. ASSUME TableInv, NEW p \in Pids PROVE Cardinality(SlotsOf(slots, p)) <= 1
  <2>1. p # NoPid
    BY TableAssumption
  <2>2. CASE SlotsOf(slots, p) = {}
    BY <2>2, FS_EmptySet
  <2>3. CASE SlotsOf(slots, p) # {}
    <3>1. PICK i \in Slots : slots[i].pid = p
      BY <2>3 DEF SlotsOf
    <3>2. SlotsOf(slots, p) = {i}
      BY <1>1, <2>1, <3>1 DEF SlotsOf, TableInv, Sound, OwnSlots
    <3> QED BY <3>2, FS_Singleton
  <2> QED BY <2>2, <2>3
<1>2. TableInv => OneSlotPerPid
  BY <1>1 DEF OneSlotPerPid
<1> QED BY <1>2, TableInvariant, PTL

-----------------------------------------------------------------------------
(* updatePidStatus: the slots and the pids agree on whether there is       *)
(* something to add or to delete.                                          *)
LEMMA SummaryFact ==
    ASSUME NEW table, Sound(table)
    PROVE  TableStatus(table) = Abstract!PidStatusOf(StatusIn(table))
<1>1. DOMAIN StatusIn(table) = Pids
  BY DEF StatusIn
<1> DEFINE Due == {"PID_ADD", "PID_DELETE"}
<1>2. ASSUME NEW i \in Slots, table[i].status \in Due PROVE \E p \in Pids : StatusIn(table)[p] \in Due
  <2>1. table[i].pid \in Pids
    BY <1>2, SlotFact DEF Sound, EmptyInvalid
  <2>2. StatusIn(table)[table[i].pid] = table[i].status
    BY <2>1, StatusFact
  <2> QED BY <1>2, <2>1, <2>2
<1>3. ASSUME NEW p \in Pids, StatusIn(table)[p] \in Due PROVE \E i \in Slots : table[i].status \in Due
  <2>1. SlotsOf(table, p) # {}
    BY <1>3, StatusFact
  <2>2. PICK i \in Slots : table[i].pid = p
    BY <2>1 DEF SlotsOf
  <2>3. StatusIn(table)[p] = table[i].status
    BY <2>2, StatusFact
  <2> QED BY <1>3, <2>3
<1>4. (\E i \in Slots : table[i].status \in Due) <=> (\E p \in Pids : StatusIn(table)[p] \in Due)
  BY <1>2, <1>3, Zenon
<1> QED BY <1>1, <1>4, Zenon DEF TableStatus, Abstract!PidStatusOf

(* The two modules count alike. *)
LEMMA SameCount == \A S : Abstract!Cardinality(S) = Cardinality(S)
  BY Zenon DEF Cardinality, Abstract!Cardinality

(* The pids of a message that got a slot are as many as the free slots     *)
(* allow.                                                                  *)
LEMMA TakenAccepted ==
    ASSUME Sound(slots), NEW want \in SUBSET Pids, NEW u, AfterAdds(u, slots, want)
    PROVE  {p \in want : StatusIn(slots)[p] = "PID_INVALID" /\ StatusIn(u)[p] # "PID_INVALID"}
               \in Abstract!Accepted(want)
<1> DEFINE A == {p \in want : StatusIn(slots)[p] = "PID_INVALID" /\ StatusIn(u)[p] # "PID_INVALID"}
           New == {p \in want : StatusIn(slots)[p] = "PID_INVALID"}
<1>1. Abstract!NewPids(want) = New
  BY DEF Abstract!NewPids, StatusOfPid
<1>2. Abstract!FreeSlots = MAX_PIDS - Cardinality(Used(slots))
  BY SameCount DEF Abstract!FreeSlots, Used, StatusOfPid
<1>3. Sound(u)
  BY DEF AfterAdds
<1>4. /\ IsFiniteSet(Used(slots)) /\ Cardinality(Used(slots)) \in Nat
      /\ Cardinality(Used(slots)) <= MAX_PIDS
  BY FreeCount
<1>5. /\ IsFiniteSet(Used(u)) /\ Cardinality(Used(u)) \in Nat
      /\ Cardinality(Used(u)) <= MAX_PIDS
      /\ FreeIn(u) = {} => Cardinality(Used(u)) = MAX_PIDS
  BY <1>3, FreeCount
<1>6. Used(u) = Used(slots) \cup A
  <2>1. ASSUME NEW p \in Pids, StatusIn(slots)[p] # "PID_INVALID" PROVE StatusIn(u)[p] # "PID_INVALID"
    <3>1. StatusIn(slots)[p] \in SlotStatus
      BY StatusFact
    <3>2. StatusIn(u)[p] = StatusIn(slots)[p] \/ StatusIn(u)[p] = Added(StatusIn(slots)[p])
      BY <2>1 DEF AfterAdds
    <3> QED BY <2>1, <3>1, <3>2, AddedFact
  <2>2. ASSUME NEW p \in Pids, StatusIn(slots)[p] = "PID_INVALID", p \notin want
        PROVE  StatusIn(u)[p] = "PID_INVALID"
    BY <2>2 DEF AfterAdds
  <2> QED BY <2>1, <2>2 DEF Used
<1>7. Used(slots) \cap A = {}
  BY DEF Used
<1>8. A \in SUBSET New /\ A \in SUBSET Used(u)
  BY DEF Used
<1>9. A # New => FreeIn(u) = {}
  <2> SUFFICES ASSUME A # New PROVE FreeIn(u) = {}
    OBVIOUS
  <2>1. PICK p \in New : p \notin A
    BY <1>8
  <2>2. p \in Pids /\ p \in want /\ StatusIn(slots)[p] = "PID_INVALID" /\ StatusIn(u)[p] = "PID_INVALID"
    BY <2>1
  <2> QED BY <2>2 DEF AfterAdds
<1> HIDE DEF A, New
<1>10. IsFiniteSet(A) /\ Cardinality(A) \in Nat
  BY <1>5, <1>8, FS_Subset, FS_CardinalityType
<1>11. Cardinality(Used(u)) = Cardinality(Used(slots)) + Cardinality(A)
  <2>1. Cardinality(Used(slots) \cup A)
            = Cardinality(Used(slots)) + Cardinality(A) - Cardinality(Used(slots) \cap A)
    BY <1>4, <1>10, FS_Union
  <2>2. Cardinality(Used(slots) \cap A) = 0
    BY <1>7, FS_EmptySet
  <2> QED BY <1>4, <1>6, <1>10, <2>1, <2>2
<1>12. MAX_PIDS \in Nat
  BY TableAssumption
<1>13. Cardinality(A) <= Abstract!FreeSlots
  BY <1>2, <1>4, <1>5, <1>10, <1>11, <1>12
<1>14. A # New => Cardinality(A) = Abstract!FreeSlots
  BY <1>2, <1>4, <1>5, <1>9, <1>10, <1>11, <1>12
<1>15. A \in Abstract!Accepted(want)
  BY <1>1, <1>8, <1>13, <1>14, SameCount DEF Abstract!Accepted
<1> QED BY <1>15 DEF A

LEMMA ArraySet ==
    ASSUME NEW list \in KernelArrays
    PROVE  ToSet(list) \in Abstract!KernelLists
<1> DEFINE n == Len(list)
           T == ToSet(list)
<1>1. list \in Seq(Pids) /\ n \in Nat /\ n <= MAX_PIDS
  BY ArrayFact
<1>2. T = {list[i] : i \in 1..n} /\ T \in SUBSET Pids
  BY <1>1 DEF ToSet
<1>3. list \in [1..n -> T] /\ \A t \in T : \E i \in 1..n : list[i] = t
  BY <1>1, <1>2
<1> HIDE DEF n, T
<1>4. ExistsSurjection(1..n, T)
  BY <1>3, Zenon DEF ExistsSurjection, Surjection
<1>5. Cardinality(T) <= n
  BY <1>1, <1>4, FS_SurjCardinalityBound
<1>6. IsFiniteSet(T) /\ Cardinality(T) \in Nat
  BY <1>2, TableAssumption, FS_Subset, FS_CardinalityType
<1>7. Cardinality(T) <= MAX_PIDS
  BY <1>1, <1>5, <1>6, TableAssumption
<1>8. T \in Abstract!KernelLists
  BY <1>2, <1>7, SameCount DEF Abstract!KernelLists
<1> QED BY <1>8 DEF T

LEMMA UpdateImplements ==
    ASSUME TableInv, NEW list \in KernelArrays, TableUpdate(list)
    PROVE  Abstract!UpdatePidList(ToSet(list))
<1> DEFINE want == ToSet(list)
           u == AddAll(slots, list)
           A == {p \in want : StatusIn(slots)[p] = "PID_INVALID" /\ StatusIn(u)[p] # "PID_INVALID"}
<1>0. Sound(slots)
  BY DEF TableInv
<1>1. /\ Sound(slots') /\ AfterAdds(u, slots, want)
      /\ \A p \in Pids :
           StatusIn(slots')[p] = IF p \in want THEN StatusIn(u)[p] ELSE Deleted(StatusIn(slots)[p])
  BY <1>0, UpdateResult
<1>2. want \in SUBSET Pids
  BY ArrayFact DEF ToSet
<1> HIDE DEF want, u
<1>3. A \in Abstract!Accepted(want)
  BY <1>0, <1>1, <1>2, TakenAccepted
<1>4. ASSUME NEW p \in Pids PROVE StatusIn(slots')[p] = Abstract!UpdatedPid(p, want, A)
  <2> DEFINE s == StatusIn(slots)[p]
             t == StatusIn(u)[p]
  <2>1. s \in SlotStatus
    BY <1>0, StatusFact
  <2>2. Abstract!UpdatedPid(p, want, A) =
            CASE p \in A                            -> "PID_ADD"
              [] p \in want /\ s = "PID_DELETE"     -> "PID_VAILD"
              [] p \notin want /\ s = "PID_ADD"     -> "PID_INVALID"
              [] p \notin want /\ s = "PID_VAILD"   -> "PID_DELETE"
              [] OTHER                              -> s
    BY DEF Abstract!UpdatedPid, StatusOfPid
  <2>3. p \in A <=> p \in want /\ s = "PID_INVALID" /\ t # "PID_INVALID"
    OBVIOUS
  <2>4. /\ p \in want /\ s # "PID_INVALID" => t = Added(s)
        /\ p \in want /\ s = "PID_INVALID" => t \in {"PID_ADD", "PID_INVALID"}
    BY <1>1 DEF AfterAdds
  <2>5. StatusIn(slots')[p] = IF p \in want THEN t ELSE Deleted(s)
    BY <1>1
  <2> HIDE DEF A, s, t
  <2>6. CASE p \in want /\ s = "PID_INVALID"
    BY <2>2, <2>3, <2>4, <2>5, <2>6
  <2>7. CASE p \in want /\ s # "PID_INVALID"
    <3>1. Added(s) = IF s = "PID_DELETE" THEN "PID_VAILD" ELSE s
      BY <2>1, <2>7 DEF Added, SlotStatus
    <3> QED BY <2>2, <2>3, <2>4, <2>5, <2>7, <3>1
  <2>8. CASE p \notin want
    BY <2>1, <2>2, <2>3, <2>5, <2>8 DEF Deleted, SlotStatus
  <2> QED BY <2>6, <2>7, <2>8
<1> HIDE DEF A
<1>5. StatusOfPid' = [p \in Pids |-> Abstract!UpdatedPid(p, want, A)]
  <2>1. StatusOfPid' = [p \in Pids |-> StatusIn(slots')[p]]
    BY DEF StatusOfPid, StatusIn
  <2> QED BY <1>4, <2>1, Zenon
<1>6. m_pid_status' = Abstract!PidStatusOf(StatusOfPid')
  <2>1. m_pid_status' = TableStatus(slots') /\ StatusOfPid' = StatusIn(slots')
    BY DEF TableUpdate, StatusOfPid
  <2> QED BY <1>1, <2>1, SummaryFact
<1>7. Abstract!UpdatePidList(want)
  BY <1>3, <1>5, <1>6, Zenon DEF Abstract!UpdatePidList
<1> QED BY <1>7 DEF want

LEMMA TableImplementsStep == TableInv /\ [TableNext]_tableVars => [Abstract!PidListNext]_(Abstract!listVars)
<1> SUFFICES ASSUME TableInv, [TableNext]_tableVars PROVE [Abstract!PidListNext]_(Abstract!listVars)
  OBVIOUS
<1>0. Sound(slots) /\ StatusOfPid' = StatusIn(slots') /\ StatusOfPid = StatusIn(slots)
  BY DEF TableInv, StatusOfPid
<1>1. \A t : StatusIn(t) = [p \in Pids |-> StatusIn(t)[p]]
  BY DEF StatusIn
<1>2. ASSUME NEW list \in KernelArrays, TableUpdate(list) PROVE Abstract!PidListNext
  BY <1>2, UpdateImplements, ArraySet, Zenon DEF Abstract!PidListNext
<1>3. ASSUME TableClear PROVE Abstract!ClearPidList
  <2>1. Sound(slots') /\ \A p \in Pids : StatusIn(slots')[p] = "PID_INVALID"
    BY <1>0, <1>3, ClearResult
  <2>2. StatusOfPid' = [p \in Pids |-> "PID_INVALID"]
    BY <1>0, <1>1, <2>1, Zenon
  <2>3. m_pid_status' = m_pid_status
    BY <1>3 DEF TableClear
  <2> QED BY <2>2, <2>3, Zenon DEF Abstract!ClearPidList
<1>4. ASSUME TableCommit PROVE Abstract!CommitPidStates
  <2>1. /\ Sound(slots')
        /\ \A p \in Pids : StatusIn(slots')[p] = Abstract!Committed(StatusIn(slots)[p])
    BY <1>0, <1>4, CommitResult
  <2>2. StatusOfPid' = [p \in Pids |-> Abstract!Committed(StatusOfPid[p])]
    BY <1>0, <1>1, <2>1, Zenon
  <2>3. m_pid_status' = Abstract!PidStatusOf(StatusOfPid')
    BY <1>0, <1>4, <2>1, SummaryFact DEF TableCommit
  <2> QED BY <2>2, <2>3, Zenon DEF Abstract!CommitPidStates
<1>5. CASE UNCHANGED tableVars
  <2>1. slots' = slots /\ m_pid_status' = m_pid_status
    BY <1>5 DEF tableVars
  <2>2. StatusOfPid' = StatusOfPid
    BY <1>0, <2>1
  <2> QED BY <2>1, <2>2 DEF Abstract!listVars
<1> QED BY <1>2, <1>3, <1>4, <1>5, Zenon DEF TableNext, Abstract!PidListNext

(* The slot searches of updatePidList, clearPidList and commitPidStates    *)
(* implement the list of pid statuses the other modules work with, for     *)
(* every size of the table and every message of the kernel.                *)
THEOREM TableImplementsPidList == TableSpec => ImplementsPidList
<1>1. TableInit => Abstract!PidListInit
  <2> SUFFICES ASSUME TableInit PROVE Abstract!PidListInit
    OBVIOUS
  <2>1. Sound(slots)
    BY TableInvInit DEF TableInv
  <2>2. ASSUME NEW p \in Pids PROVE StatusIn(slots)[p] = "PID_INVALID"
    <3>1. SlotsOf(slots, p) = {}
      BY TableAssumption DEF SlotsOf, TableInit
    <3> QED BY <2>1, <3>1, StatusFact
  <2>3. StatusOfPid = [p \in Pids |-> StatusIn(slots)[p]]
    BY DEF StatusOfPid, StatusIn
  <2>4. StatusOfPid = [p \in Pids |-> "PID_INVALID"]
    BY <2>2, <2>3, Zenon
  <2>5. m_pid_status = "STATIONARY"
    BY DEF TableInit
  <2> QED BY <2>4, <2>5, Zenon DEF Abstract!PidListInit
<1> QED
  BY <1>1, TableInvariant, TableImplementsStep, PTL
  DEF TableSpec, ImplementsPidList, Abstract!PidListSpec
=============================================================================
