------------------------ MODULE LogicalDevice_proofs ------------------------
(***************************************************************************)
(* Open devices.  A device is in the table of open devices with as many    *)
(* users as it has (OpenDevicesHaveUsers), as long as fewer can have       *)
(* devices open than UsageCount has values.  That the count does not wrap  *)
(* follows from the opens in force, of all devices together: as a set,     *)
(* Uses, it loses and gains one element at a time.                         *)
(*                                                                         *)
(* Tables.  A partition table reported set stays (SetTableSurvives), the   *)
(* driver comes up with every sequence of accepted layouts                 *)
(* (AcceptedTablesBoot), and the device tables name the partitions in      *)
(* memory (DevTablesAgree).  The argument is TablesInv: a layout is judged *)
(* with the tables in memory, and each chip holds what memory has of it,   *)
(* nothing, or, while it is being set, the table of its program.  FD_Init  *)
(* reads the chips twice (InitReads), and with fewer tables there is no    *)
(* device that merges too many partitions (FewerMakes).                    *)
(*                                                                         *)
(* Types.  The device tables have room for what is merged (MergedFits), so *)
(* TypeOK follows from TablesInv for all but the table of open devices.    *)
(*                                                                         *)
(* Blocks.  Two blocks of an open device are never one flash block         *)
(* (BlocksApart).  LaidInv: in every table a class has its partitions one  *)
(* after the other, however they are rounded (FixedApart), and what is     *)
(* merged does not overlap on a chip and has whole groups of planes        *)
(* (TableSound).  A device keeps both as it was opened (DeviceSound), and  *)
(* the arithmetic of its blocks has an inverse: the offset in a partition, *)
(* or, interleaved, Behind.  For MAX_INTERLEAVED_CHIPS of 1, 2, 4 or 8.    *)
(***************************************************************************)
EXTENDS LogicalDevice, TLAPS, FiniteSetTheorems, WellFoundedInduction

\* The opens not yet closed, those of a device numbered from 1.
Uses(o) == {u \in Ids \X Nat : u[2] \in 1 .. o[u[1]]}

Budget == [sets : Int, opens : Nat, erases : Int, failures : Int, cuts : Int]

\* Counted: callers and budget; the fields that the table of devices must have.
Counted ==
  /\ opened \in [Ids -> Nat]
  /\ budget \in Budget
  /\ IsFiniteSet(Uses(opened)) /\ Cardinality(Uses(opened)) + budget.opens <= MaxOpens
Listed ==
  /\ DOMAIN LDev \subseteq Ids
  /\ \A id \in DOMAIN LDev : "UsageCount" \in DOMAIN LDev[id]

IInv == Counted /\ Listed /\ OpenDevicesHaveUsers

----------------------------------------------------------------------------
(* Opens as a set                                                          *)

LEMMA Opening ==
  ASSUME NEW o \in [Ids -> Nat], NEW id \in Ids, IsFiniteSet(Uses(o))
  PROVE  LET n == [o EXCEPT ![id] = @ + 1]
         IN  /\ n \in [Ids -> Nat] /\ IsFiniteSet(Uses(n))
             /\ Cardinality(Uses(n)) = Cardinality(Uses(o)) + 1
<1> DEFINE n == [o EXCEPT ![id] = @ + 1]
           u == <<id, o[id] + 1>>
<1>1. n \in [Ids -> Nat]
  OBVIOUS
<1>2. u \notin Uses(o)
  BY DEF Uses
<1>3. Uses(n) = Uses(o) \cup {u}
  <2>1. \A x \in Ids \X Nat : x[2] \in 1 .. n[x[1]] <=> x[2] \in 1 .. o[x[1]] \/ x = u
    <3> SUFFICES ASSUME NEW a \in Ids, NEW k \in Nat
                 PROVE  k \in 1 .. n[a] <=> k \in 1 .. o[a] \/ (a = id /\ k = o[id] + 1)
      OBVIOUS
    <3>1. o[a] \in Nat /\ n[a] = IF a = id THEN o[a] + 1 ELSE o[a]
      OBVIOUS
    <3> QED
      BY <3>1
  <2>2. u \in Ids \X Nat
    OBVIOUS
  <2> QED
    BY <2>1, <2>2 DEF Uses
<1> HIDE DEF n, u
<1>4. /\ IsFiniteSet(Uses(o) \cup {u})
      /\ Cardinality(Uses(o) \cup {u}) = Cardinality(Uses(o)) + 1
  BY <1>2, FS_AddElement
<1>5. IsFiniteSet(Uses(n)) /\ Cardinality(Uses(n)) = Cardinality(Uses(o)) + 1
  BY <1>3, <1>4
<1> QED
  BY <1>1, <1>5 DEF n

LEMMA Closing ==
  ASSUME NEW o \in [Ids -> Nat], NEW id \in Ids, o[id] > 0, IsFiniteSet(Uses(o))
  PROVE  LET n == [o EXCEPT ![id] = @ - 1]
         IN  /\ n \in [Ids -> Nat] /\ IsFiniteSet(Uses(n))
             /\ Cardinality(Uses(n)) = Cardinality(Uses(o)) - 1
<1> DEFINE n == [o EXCEPT ![id] = @ - 1]
           u == <<id, o[id]>>
<1>1. n \in [Ids -> Nat]
  OBVIOUS
<1>2. u \in Uses(o)
  BY DEF Uses
<1>3. Uses(n) = Uses(o) \ {u}
  <2>1. \A x \in Ids \X Nat : x[2] \in 1 .. n[x[1]] <=> x[2] \in 1 .. o[x[1]] /\ x # u
    <3> SUFFICES ASSUME NEW a \in Ids, NEW k \in Nat
                 PROVE  k \in 1 .. n[a] <=> k \in 1 .. o[a] /\ ~ (a = id /\ k = o[id])
      OBVIOUS
    <3>1. o[a] \in Nat /\ n[a] = IF a = id THEN o[a] - 1 ELSE o[a]
      OBVIOUS
    <3> QED
      BY <3>1
  <2> QED
    BY <2>1 DEF Uses
<1> HIDE DEF n, u
<1>4. /\ IsFiniteSet(Uses(o) \ {u})
      /\ Cardinality(Uses(o) \ {u}) = Cardinality(Uses(o)) - 1
  BY <1>2, FS_RemoveElement
<1>5. IsFiniteSet(Uses(n)) /\ Cardinality(Uses(n)) = Cardinality(Uses(o)) - 1
  BY <1>3, <1>4
<1> QED
  BY <1>1, <1>5 DEF n

\* No device is opened more often than all of them together.
LEMMA FewerThanAll ==
  ASSUME NEW o \in [Ids -> Nat], NEW id \in Ids, IsFiniteSet(Uses(o))
  PROVE  o[id] <= Cardinality(Uses(o))
<1> DEFINE f == [k \in 1 .. o[id] |-> <<id, k>>]
<1>1. f \in Injection(1 .. o[id], Uses(o))
  BY DEF Injection, IsInjective, Uses
<1>2. Cardinality(1 .. o[id]) = o[id]
  BY FS_Interval
<1> QED
  BY <1>1, <1>2, FS_Injection

LEMMA NoneOpen == LET o == [id \in Ids |-> 0]
                  IN  IsFiniteSet(Uses(o)) /\ Cardinality(Uses(o)) = 0
<1>1. Uses([id \in Ids |-> 0]) = {}
  BY DEF Uses
<1> QED
  BY <1>1, FS_EmptySet

----------------------------------------------------------------------------
(* Steps                                                                   *)

LEMMA Spending ==
  ASSUME budget \in Budget,
         NEW kind \in {"sets", "opens", "erases", "failures", "cuts"}, Spend(kind)
  PROVE  /\ budget' \in Budget
         /\ budget'.opens = IF kind = "opens" THEN budget.opens - 1 ELSE budget.opens
BY DEF Spend, Budget

\* The count of a device that callers have opened cannot wrap.
LEMMA NoWrap ==
  ASSUME MaxOpens < UsageRange, NEW o \in [Ids -> Nat], NEW id \in Ids,
         IsFiniteSet(Uses(o)), NEW left \in Nat, Cardinality(Uses(o)) + left <= MaxOpens
  PROVE  o[id] \in 0 .. UsageRange - 1
<1>1. o[id] <= Cardinality(Uses(o))
  BY FewerThanAll
<1>2. /\ Cardinality(Uses(o)) \in Nat /\ MaxOpens \in Nat /\ UsageRange \in Nat
      /\ o[id] \in Nat
  BY LogicalAssumption, FS_CardinalityType
<1> QED
  BY <1>1, <1>2

LEMMA UsedWithin ==
  ASSUME NEW n \in 0 .. UsageRange - 1
  PROVE  Used(n) = n
<1>1. UsageRange \in Nat /\ UsageRange > 0
  BY LogicalAssumption
<1> QED
  BY <1>1 DEF Used

LEMMA Opens ==
  ASSUME Counted, NEW id \in Ids, Answered(id), Spend("opens")
  PROVE  Counted'
<1>1. opened' = [opened EXCEPT ![id] = @ + 1]
  BY DEF Answered
<1>2. /\ budget' \in Budget /\ budget'.opens = budget.opens - 1
  BY Spending DEF Counted
<1>3. /\ opened' \in [Ids -> Nat] /\ IsFiniteSet(Uses(opened'))
      /\ Cardinality(Uses(opened')) = Cardinality(Uses(opened)) + 1
  BY <1>1, Opening DEF Counted
<1>4. /\ Cardinality(Uses(opened)) + budget.opens <= MaxOpens
      /\ Cardinality(Uses(opened)) \in Nat /\ budget.opens \in Nat
  BY FS_CardinalityType DEF Counted, Budget
<1>5. Cardinality(Uses(opened')) + budget'.opens <= MaxOpens
  BY <1>2, <1>3, <1>4
<1> QED
  BY <1>2, <1>3, <1>5 DEF Counted, Uses

\* FD_Open, whether the device is open already, new, or one that there is not.
LEMMA OpenKeeps ==
  ASSUME MaxOpens < UsageRange, IInv, NEW id \in Ids, FD_Open(id)
  PROVE  IInv'
<1>1. CASE /\ id \in DOMAIN LDev /\ Answered(id)
           /\ LDev' = [LDev EXCEPT ![id].UsageCount = Used(@ + 1)]
  <2>1. Counted'
    BY <1>1, Opens DEF FD_Open, IInv
  <2>2. Listed'
    BY <1>1 DEF IInv, Listed
  <2>3. opened' = [opened EXCEPT ![id] = @ + 1] /\ opened \in [Ids -> Nat]
    BY <1>1 DEF Answered, IInv, Counted
  <2>4. Used(opened[id] + 1) = opened[id] + 1
    <3>1. opened'[id] \in 0 .. UsageRange - 1
      <4>1. /\ opened' \in [Ids -> Nat] /\ IsFiniteSet(Uses(opened'))
            /\ Cardinality(Uses(opened')) + budget'.opens <= MaxOpens
            /\ budget'.opens \in Nat
        BY <2>1 DEF Counted, Budget, Uses
      <4> QED
        BY <4>1, NoWrap
    <3> QED
      BY <2>3, <3>1, UsedWithin
  <2>5. LDev[id].UsageCount = opened[id]
    BY <1>1 DEF IInv, OpenDevicesHaveUsers
  <2>6. LDev'[id].UsageCount = opened'[id] /\ opened'[id] # 0
    BY <1>1, <2>3, <2>4, <2>5 DEF IInv, Listed
  <2>7. OpenDevicesHaveUsers'
    BY <1>1, <2>3, <2>6 DEF IInv, OpenDevicesHaveUsers
  <2> QED
    BY <2>1, <2>2, <2>7 DEF IInv
<1>2. CASE /\ id \notin DOMAIN LDev /\ PartInfo(id) = << >>
           /\ LDev' = NotOpened(id) /\ UNCHANGED opened
  <2>1. LDev' = LDev /\ opened' = opened
    BY <1>2 DEF NotOpened
  <2> QED
    <3>1. /\ budget' \in Budget /\ budget'.opens = budget.opens - 1
          /\ budget.opens \in Nat
      BY Spending DEF FD_Open, IInv, Counted, Budget
    <3>2. /\ Cardinality(Uses(opened)) + budget.opens <= MaxOpens
          /\ Cardinality(Uses(opened)) \in Nat /\ MaxOpens \in Nat
      BY FS_CardinalityType, LogicalAssumption DEF IInv, Counted
    <3>3. Cardinality(Uses(opened)) + budget'.opens <= MaxOpens
      BY <3>1, <3>2
    <3>4. Counted'
      BY <2>1, <3>1, <3>3 DEF IInv, Counted, Uses
    <3> QED
      BY <2>1, <3>4 DEF IInv, Listed, OpenDevicesHaveUsers
<1>3. CASE /\ id \notin DOMAIN LDev /\ Answered(id)
           /\ LDev' = With(LDev, id, NewDevice(PartInfo(id)))
  <2>1. Counted'
    BY <1>3, Opens DEF FD_Open, IInv
  <2>2. opened' = [opened EXCEPT ![id] = @ + 1] /\ opened \in [Ids -> Nat]
    BY <1>3 DEF Answered, IInv, Counted
  <2>3. opened[id] = 0 /\ opened'[id] = 1
    BY <1>3, <2>2 DEF IInv, OpenDevicesHaveUsers
  <2>4. /\ "UsageCount" \in DOMAIN NewDevice(PartInfo(id))
        /\ NewDevice(PartInfo(id)).UsageCount = 1
    BY DEF NewDevice
  <2> DEFINE new == NewDevice(PartInfo(id))
  <2> HIDE DEF new
  <2>5. /\ DOMAIN LDev' = DOMAIN LDev \cup {id} /\ LDev'[id] = new
        /\ \A x \in DOMAIN LDev : LDev'[x] = LDev[x]
    BY <1>3 DEF With, new
  <2>6. Listed'
    BY <2>4, <2>5 DEF IInv, Listed, new
  <2>7. OpenDevicesHaveUsers'
    BY <1>3, <2>2, <2>3, <2>4, <2>5 DEF IInv, OpenDevicesHaveUsers, new
  <2> QED
    BY <2>1, <2>6, <2>7 DEF IInv
<1> QED
  BY <1>1, <1>2, <1>3 DEF FD_Open

LEMMA CloseKeeps ==
  ASSUME MaxOpens < UsageRange, IInv, NEW id \in Ids, FD_Close(id)
  PROVE  IInv'
<1>1. /\ opened[id] > 0 /\ opened' = [opened EXCEPT ![id] = @ - 1]
      /\ opened \in [Ids -> Nat]
      /\ budget' = [budget EXCEPT !.opens = @ + 1] /\ budget \in Budget
  BY DEF FD_Close, IInv, Counted
<1>2. Counted'
  <2>1. /\ opened' \in [Ids -> Nat] /\ IsFiniteSet(Uses(opened'))
        /\ Cardinality(Uses(opened')) = Cardinality(Uses(opened)) - 1
    BY <1>1, Closing DEF IInv, Counted
  <2>2. budget' \in Budget /\ budget'.opens = budget.opens + 1
    BY <1>1 DEF Budget
  <2>3. /\ Cardinality(Uses(opened)) + budget.opens <= MaxOpens
        /\ Cardinality(Uses(opened)) \in Nat /\ budget.opens \in Nat
    BY FS_CardinalityType DEF IInv, Counted, Budget
  <2>4. Cardinality(Uses(opened')) + budget'.opens <= MaxOpens
    BY <2>1, <2>2, <2>3
  <2> QED
    BY <2>1, <2>2, <2>4 DEF Counted, Uses
<1>3. id \in DOMAIN LDev /\ LDev[id].UsageCount = opened[id]
  BY <1>1 DEF IInv, OpenDevicesHaveUsers
<1>4. opened[id] \in Nat /\ opened'[id] = opened[id] - 1
  BY <1>1
<1>5. Used(LDev[id].UsageCount - 1) = opened'[id]
  <2>1. opened[id] \in 0 .. UsageRange - 1
    <3>1. /\ IsFiniteSet(Uses(opened)) /\ budget.opens \in Nat
          /\ Cardinality(Uses(opened)) + budget.opens <= MaxOpens
      BY DEF IInv, Counted, Budget
    <3> QED
      BY <1>1, <3>1, NoWrap
  <2>2. UsageRange \in Nat
    BY LogicalAssumption
  <2>3. opened[id] - 1 \in 0 .. UsageRange - 1
    BY <1>1, <1>4, <2>1, <2>2
  <2> QED
    BY <1>3, <1>4, <2>3, UsedWithin
<1>6. CASE opened'[id] = 0
  <2>1. LDev' = Without(LDev, id)
    BY <1>3, <1>5, <1>6 DEF FD_Close
  <2>2. /\ DOMAIN LDev' = DOMAIN LDev \ {id}
        /\ \A x \in DOMAIN LDev' : LDev'[x] = LDev[x]
    BY <2>1 DEF Without
  <2>3. Listed' /\ OpenDevicesHaveUsers'
    BY <1>1, <1>6, <2>2 DEF IInv, Listed, OpenDevicesHaveUsers
  <2> QED
    BY <1>2, <2>3 DEF IInv
<1>7. CASE opened'[id] # 0
  <2>1. LDev' = [LDev EXCEPT ![id].UsageCount = Used(@ - 1)]
    BY <1>3, <1>5, <1>7 DEF FD_Close
  <2>2. Listed'
    BY <1>3, <2>1 DEF IInv, Listed
  <2>3. LDev'[id].UsageCount = opened'[id]
    BY <1>3, <1>5, <2>1 DEF IInv, Listed
  <2>4. OpenDevicesHaveUsers'
    BY <1>1, <1>3, <1>7, <2>1, <2>3 DEF IInv, OpenDevicesHaveUsers
  <2> QED
    BY <1>2, <2>2, <2>4 DEF IInv
<1> QED
  BY <1>6, <1>7

\* Power loss forgets the devices and those who had them open together.
LEMMA PowerLossKeeps ==
  ASSUME IInv, PowerLoss
  PROVE  IInv'
<1>1. /\ LDev' = [x \in {} |-> NoPart] /\ opened' = [id \in Ids |-> 0]
      /\ budget' = [budget EXCEPT !.cuts = @ - 1, !.opens = MaxOpens]
  BY DEF PowerLoss, NoDevice
<1>2. Counted'
  <2>1. MaxOpens \in Nat
    BY LogicalAssumption
  <2>2. budget' \in Budget /\ budget'.opens = MaxOpens
    <3>1. budget \in Budget
      BY DEF IInv, Counted
    <3> DEFINE b == [budget EXCEPT !.cuts = @ - 1]
    <3>2. b \in Budget
      BY <3>1 DEF Budget
    <3>3. budget' = [b EXCEPT !.opens = MaxOpens]
      BY <1>1
    <3> HIDE DEF b
    <3> QED
      BY <2>1, <3>2, <3>3 DEF Budget
  <2>3. IsFiniteSet(Uses(opened')) /\ Cardinality(Uses(opened')) = 0
    BY <1>1, NoneOpen
  <2> QED
    BY <1>1, <2>1, <2>2, <2>3 DEF Counted, Uses
<1>3. Listed' /\ OpenDevicesHaveUsers'
  BY <1>1 DEF Listed, OpenDevicesHaveUsers
<1> QED
  BY <1>2, <1>3 DEF IInv

\* Steps that spend the budget for anything but an open.
LEMMA OthersKeep ==
  ASSUME IInv, UNCHANGED <<LDev, opened>>,
         budget' \in Budget /\ budget'.opens = budget.opens
  PROVE  IInv'
BY DEF IInv, Counted, Listed, OpenDevicesHaveUsers, Uses

LEMMA StepKeeps ==
  ASSUME MaxOpens < UsageRange, IInv, [Next]_vars
  PROVE  IInv'
<1> DEFINE Spared == budget' \in Budget /\ budget'.opens = budget.opens
<1>a. budget \in Budget
  BY DEF IInv, Counted
<1>b. budget' = budget => Spared
  BY <1>a
<1>c. \A kind \in {"sets", "erases", "failures"} : Spend(kind) => Spared
  BY <1>a, Spending
<1> HIDE DEF Spared
<1>1. ASSUME NEW c \in Chip, Settle(c) PROVE Spared /\ UNCHANGED <<LDev, opened>>
  BY <1>1, <1>b, <1>c DEF Settle, hist
<1>2. CASE SetPartition
  BY <1>2, <1>c, OthersKeep DEF SetPartition, hist, Spared
<1>3. CASE EraseTable \/ ProgramTable \/ ReadBack
  <2>1. UNCHANGED <<LDev, opened, budget>>
    BY <1>3 DEF EraseTable, ProgramTable, ReadBack
  <2> QED
    BY <2>1, <1>b, OthersKeep DEF Spared
<1>4. ASSUME NEW id \in Ids, FD_Erase(id) PROVE Spared /\ UNCHANGED <<LDev, opened>>
  BY <1>4, <1>b, <1>c DEF FD_Erase
<1>5. ASSUME NEW id \in Ids, LFD_ErasePart(id) PROVE Spared /\ UNCHANGED <<LDev, opened>>
  BY <1>5, <1>c DEF LFD_ErasePart
<1>6. CASE FD_Init \/ UNCHANGED vars
  <2>1. UNCHANGED <<LDev, opened, budget>>
    BY <1>6 DEF FD_Init, vars, hist
  <2> QED
    BY <2>1, <1>b, OthersKeep DEF Spared
<1> QED
  BY <1>1, <1>2, <1>3, <1>4, <1>5, <1>6, OthersKeep, OpenKeeps, CloseKeeps,
     PowerLossKeeps DEF Next, Spared

LEMMA Starts == Init => IInv
<1> SUFFICES ASSUME Init PROVE IInv
  OBVIOUS
<1>1. /\ LDev = [x \in {} |-> NoPart] /\ opened = [id \in Ids |-> 0]
      /\ budget = [sets |-> MaxSets, opens |-> MaxOpens, erases |-> MaxErases,
                   failures |-> MaxFailures, cuts |-> MaxCuts]
  BY DEF Init, NoDevice
<1>2. budget \in Budget /\ budget.opens = MaxOpens /\ MaxOpens \in Nat
  BY <1>1, LogicalAssumption DEF Budget
<1>3. IsFiniteSet(Uses(opened)) /\ Cardinality(Uses(opened)) = 0
  BY <1>1, NoneOpen
<1> QED
  BY <1>1, <1>2, <1>3 DEF IInv, Counted, Listed, OpenDevicesHaveUsers

\* The table of open devices agrees with its callers for any devices, tables,
\* failures and power losses, while fewer opens are in force at a time than
\* UsageCount has values.
THEOREM OpenDevicesAreUsed ==
  ASSUME MaxOpens < UsageRange
  PROVE  Spec => []OpenDevicesHaveUsers
<1>1. IInv /\ [Next]_vars => IInv'
  BY StepKeeps
<1>2. IInv => OpenDevicesHaveUsers
  BY DEF IInv
<1> QED
  BY Starts, <1>1, <1>2, PTL DEF Spec

----------------------------------------------------------------------------
(* Least numbers                                                           *)

LEMMA Upwards ==
  ASSUME NEW S, 0 \in S, \A n \in Nat : n \in S => n + 1 \in S
  PROVE  \A n \in Nat : n \in S
<1> DEFINE T == {n \in Nat : n \notin S}
<1> SUFFICES ASSUME T # {} PROVE FALSE
  OBVIOUS
<1>1. PICK x \in T : \A y \in T : <<y, x>> \notin OpToRel(<, Nat)
  BY NatLessThanWellFounded, WFMin
<1>2. x \in Nat /\ x # 0 /\ x - 1 \in Nat
  OBVIOUS
<1>3. x - 1 \in T
  BY <1>2
<1>4. <<x - 1, x>> \in OpToRel(<, Nat)
  BY <1>2 DEF OpToRel
<1> QED
  BY <1>1, <1>3, <1>4

----------------------------------------------------------------------------
(* Tables                                                                  *)

Tab == [NumPartitions : 0 .. MAX_FLASH_PARTITIONS, Part : [PartNo -> PartType]]
\* A table that is_valid_partition_table has corrected and leaves as it is.
CorrectTab == {t \in Tab : \A i \in PartNo : i < t.NumPartitions => Fixed(t.Part[i]) = t.Part[i]}

LEMMA Sizes ==
  /\ NumChips \in Nat /\ NumChips > 0 /\ NumChips <= MAX_FLASH_CHIPS
  /\ MAX_FLASH_PARTITIONS \in Nat /\ MAX_FLASH_PARTITIONS > 0
  /\ MAX_FLASH_VPARTITIONS \in Nat /\ MAX_FLASH_CHIPS \in Nat /\ MAX_FLASH_CHIPS > 0
  /\ MAX_FLASH_DEVICES \in Nat /\ MAX_INTERLEAVED_CHIPS \in Nat /\ MAX_INTERLEAVED_CHIPS > 0
  /\ Chip \subseteq Nat /\ 0 \in Chip /\ PartNo \subseteq Nat
BY LogicalAssumption DEF Chip, PartNo

LEMMA Rounding ==
  ASSUME NEW n \in Nat
  PROVE  /\ n % NumPlanes \in 0 .. NumPlanes - 1 /\ n % NumPlanes <= n
         /\ (n \div NumPlanes) * NumPlanes \in Nat
         /\ n = (n \div NumPlanes) * NumPlanes + (n % NumPlanes)
         /\ ((n \div NumPlanes + 1) * NumPlanes) % NumPlanes = 0
         /\ (n \div NumPlanes + 1) * NumPlanes \in Nat
         /\ (n - (n % NumPlanes)) % NumPlanes = 0
<1>1. CASE NumPlanes = 1
  BY <1>1
<1>2. CASE NumPlanes = 2
  BY <1>2
<1>3. CASE NumPlanes = 4
  BY <1>3
<1> QED
  BY <1>1, <1>2, <1>3, LogicalAssumption

LEMMA FixedType ==
  ASSUME NEW p \in PartType
  PROVE  Fixed(p) \in PartType /\ Fixed(Fixed(p)) = Fixed(p)
<1>1. p.StartBlock \in Nat /\ p.NumBlocks \in Nat
  BY DEF PartType
<1>2. /\ FixStart(p) \in Nat
      /\ p.DevClass = "FTL" => FixStart(p) % NumPlanes = 0
  <2>1. /\ (p.StartBlock \div NumPlanes + 1) * NumPlanes \in Nat
        /\ ((p.StartBlock \div NumPlanes + 1) * NumPlanes) % NumPlanes = 0
    BY <1>1, Rounding
  <2> QED
    BY <1>1, <2>1 DEF FixStart
<1>3. FixNum(p) \in Nat /\ FixNum(p) % NumPlanes = 0
  <2>1. /\ p.NumBlocks % NumPlanes \in 0 .. NumPlanes - 1 /\ p.NumBlocks % NumPlanes <= p.NumBlocks
        /\ (p.NumBlocks - (p.NumBlocks % NumPlanes)) % NumPlanes = 0
    BY <1>1, Rounding
  <2>2. NumPlanes \in Nat
    BY LogicalAssumption
  <2> QED
    BY <1>1, <2>1, <2>2 DEF FixNum
<1> DEFINE q == Fixed(p)
<1>4. /\ q \in PartType /\ q.StartBlock = FixStart(p) /\ q.NumBlocks = FixNum(p)
      /\ q.DevClass = p.DevClass
  BY <1>2, <1>3 DEF Fixed, PartType
<1> HIDE DEF q
<1>5. FixStart(q) = q.StartBlock
  BY <1>2, <1>4 DEF FixStart
<1>6. FixNum(q) = q.NumBlocks
  BY <1>3, <1>4 DEF FixNum
<1>7. Fixed(q) = q
  BY <1>4, <1>5, <1>6 DEF Fixed, PartType
<1> QED
  BY <1>4, <1>7 DEF q

LEMMA NoTableType == NoTable \in CorrectTab /\ Corrected(NoTable) = NoTable
<1>1. NoTable \in Tab /\ NoTable.NumPartitions = 0
  BY Sizes DEF NoTable, NoPart, Tab, PartType
<1>2. Corrected(NoTable) = NoTable
  <2>1. \A i \in PartNo : ~ (i < NoTable.NumPartitions)
    BY <1>1, Sizes
  <2>2. [i \in PartNo |-> IF i < NoTable.NumPartitions /\ \A s \in Stop(NoTable) : i < s
                          THEN Fixed(NoTable.Part[i]) ELSE NoTable.Part[i]] = NoTable.Part
    BY <1>1, <2>1 DEF NoTable
  <2>3. [NoTable EXCEPT !.Part = NoTable.Part] = NoTable
    BY DEF NoTable
  <2> QED
    BY <2>2, <2>3 DEF Corrected
<1> QED
  BY <1>1, <1>2, Sizes DEF CorrectTab

LEMMA CorrectedType ==
  ASSUME NEW t \in Tab
  PROVE  Corrected(t) \in Tab /\ Corrected(t).NumPartitions = t.NumPartitions
<1> DEFINE part == [i \in PartNo |->
       IF i < t.NumPartitions /\ \A s \in Stop(t) : i < s THEN Fixed(t.Part[i]) ELSE t.Part[i]]
<1>1. part \in [PartNo -> PartType]
  BY FixedType DEF Tab
<1>2. Corrected(t) = [t EXCEPT !.Part = part]
  BY DEF Corrected
<1> HIDE DEF part
<1> QED
  BY <1>1, <1>2 DEF Tab

\* Correcting a table again changes nothing.
LEMMA CorrectedStays ==
  ASSUME NEW t \in CorrectTab
  PROVE  Corrected(t) = t
<1>1. \A i \in PartNo : (IF i < t.NumPartitions /\ \A s \in Stop(t) : i < s
                         THEN Fixed(t.Part[i]) ELSE t.Part[i]) = t.Part[i]
  BY DEF CorrectTab
<1>2. t \in Tab
  BY DEF CorrectTab
<1>3. [i \in PartNo |-> IF i < t.NumPartitions /\ \A s \in Stop(t) : i < s
                        THEN Fixed(t.Part[i]) ELSE t.Part[i]] = t.Part
  BY <1>1, <1>2 DEF Tab
<1>4. [t EXCEPT !.Part = t.Part] = t
  BY <1>2 DEF Tab
<1> QED
  BY <1>3, <1>4 DEF Corrected

LEMMA CorrectedIsCorrect ==
  ASSUME NEW t \in Tab, Stop(t) = {}
  PROVE  Corrected(t) \in CorrectTab
<1> DEFINE part == [i \in PartNo |->
       IF i < t.NumPartitions /\ \A s \in Stop(t) : i < s THEN Fixed(t.Part[i]) ELSE t.Part[i]]
<1>1. Corrected(t) \in Tab /\ Corrected(t).NumPartitions = t.NumPartitions
  BY CorrectedType
<1>2. Corrected(t).Part = part
  BY DEF Corrected, Tab
<1>3. ASSUME NEW i \in PartNo, i < t.NumPartitions PROVE Fixed(part[i]) = part[i]
  <2>1. part[i] = Fixed(t.Part[i])
    BY <1>3
  <2>2. t.Part[i] \in PartType
    BY DEF Tab
  <2> QED
    BY <2>1, <2>2, FixedType
<1> HIDE DEF part
<1> QED
  BY <1>1, <1>2, <1>3 DEF CorrectTab


----------------------------------------------------------------------------
(* Sums                                                                    *)

IsSum(f, r, n) == f = [k \in 0 .. n |-> IF k = 0 THEN 0 ELSE f[k - 1] + r[k].NumBlocks]

LEMMA SumExists ==
  ASSUME NEW r, NEW n \in Nat, \A k \in 1 .. n : r[k].NumBlocks \in Nat
  PROVE  \E f \in [0 .. n -> Nat] : IsSum(f, r, n)
<1> DEFINE Has == {m \in Nat : m <= n => \E f \in [0 .. m -> Nat] : IsSum(f, r, m)}
<1>1. 0 \in Has
  <2> DEFINE f == [k \in 0 .. 0 |-> 0]
  <2>1. f \in [0 .. 0 -> Nat] /\ IsSum(f, r, 0)
    BY DEF IsSum
  <2> QED
    BY <2>1
<1>2. ASSUME NEW m \in Nat, m \in Has PROVE m + 1 \in Has
  <2> SUFFICES ASSUME m + 1 <= n
               PROVE  \E f \in [0 .. m + 1 -> Nat] : IsSum(f, r, m + 1)
    OBVIOUS
  <2>1. PICK g \in [0 .. m -> Nat] : IsSum(g, r, m)
    BY <1>2
  <2> DEFINE f == [k \in 0 .. m + 1 |-> IF k = m + 1 THEN g[m] + r[k].NumBlocks ELSE g[k]]
  <2>2. g[m] \in Nat /\ r[m + 1].NumBlocks \in Nat
    OBVIOUS
  <2>3. f \in [0 .. m + 1 -> Nat]
    BY <2>2
  <2>4. ASSUME NEW k \in 0 .. m + 1
        PROVE  f[k] = IF k = 0 THEN 0 ELSE f[k - 1] + r[k].NumBlocks
    <3>1. CASE k = m + 1
      BY <3>1
    <3>2. CASE k \in 0 .. m
      <4>1. g[k] = IF k = 0 THEN 0 ELSE g[k - 1] + r[k].NumBlocks
        BY <2>1, <3>2 DEF IsSum
      <4>2. f[k] = g[k] /\ (k # 0 => f[k - 1] = g[k - 1])
        BY <3>2
      <4> QED
        BY <4>1, <4>2
    <3> QED
      BY <3>1, <3>2
  <2> HIDE DEF f
  <2>5. IsSum(f, r, m + 1)
    <3>1. f = [k \in 0 .. m + 1 |-> f[k]]
      BY <2>3
    <3> QED
      BY <2>4, <3>1 DEF IsSum
  <2> QED
    BY <2>3, <2>5
<1> HIDE DEF Has
<1>3. n \in Has
  BY <1>1, <1>2, Upwards
<1> QED
  BY <1>3 DEF Has

\* The recursive function of SumOfFirst.
Running(r, n) ==
  CHOOSE f : f = [k \in 0 .. n |-> IF k = 0 THEN 0 ELSE f[k - 1] + r[k].NumBlocks]

LEMMA SumIs ==
  ASSUME NEW r, NEW n \in Nat
  PROVE SumOfFirst(r, n) = Running(r, n)[n]
BY DEF SumOfFirst, Running

LEMMA RunningIsSum ==
  ASSUME NEW r, NEW n \in Nat, \A k \in 1 .. n : r[k].NumBlocks \in Nat
  PROVE  IsSum(Running(r, n), r, n)
<1>1. \E f : IsSum(f, r, n)
  BY SumExists
<1>2. Running(r, n) = CHOOSE f : IsSum(f, r, n)
  BY Zenon DEF Running, IsSum
<1> QED
  BY <1>1, <1>2

LEMMA SumsAgree ==
  ASSUME NEW r, NEW n \in Nat, NEW m \in 0 .. n, NEW f, NEW g,
         IsSum(f, r, m), IsSum(g, r, n)
  PROVE  f[m] = g[m]
<1> DEFINE S == {k \in Nat : k <= m => f[k] = g[k]}
<1>1. 0 \in S
  BY DEF IsSum
<1>2. ASSUME NEW k \in Nat, k \in S PROVE k + 1 \in S
  <2> SUFFICES ASSUME k + 1 <= m PROVE f[k + 1] = g[k + 1]
    OBVIOUS
  <2> DEFINE j == k + 1
  <2>a. j \in 0 .. m /\ j \in 0 .. n /\ j # 0 /\ j - 1 = k
    OBVIOUS
  <2> HIDE DEF j
  <2>b. f[j] = f[j - 1] + r[j].NumBlocks /\ g[j] = g[j - 1] + r[j].NumBlocks
    BY <2>a DEF IsSum
  <2>1. f[k + 1] = f[k] + r[k + 1].NumBlocks /\ g[k + 1] = g[k] + r[k + 1].NumBlocks
    BY <2>a, <2>b DEF j
  <2>2. f[k] = g[k]
    BY <1>2
  <2> QED
    BY <2>1, <2>2
<1> HIDE DEF S
<1>3. \A k \in Nat : k \in S
  BY <1>1, <1>2, Upwards
<1> QED
  BY <1>3, m \in Nat DEF S

LEMMA SumType ==
  ASSUME NEW r, NEW n \in Nat, \A k \in 1 .. n : r[k].NumBlocks \in Nat
  PROVE  SumOfFirst(r, n) \in Nat
<1>1. PICK f \in [0 .. n -> Nat] : IsSum(f, r, n)
  BY SumExists
<1>2. SumOfFirst(r, n) = f[n]
  BY <1>1, SumIs, RunningIsSum, SumsAgree
<1> QED
  BY <1>1, <1>2

LEMMA SumGrows ==
  ASSUME NEW r, NEW n \in Nat, \A k \in 1 .. n : r[k].NumBlocks \in Nat
  PROVE  /\ SumOfFirst(r, 0) = 0
         /\ n > 0 => SumOfFirst(r, n) = SumOfFirst(r, n - 1) + r[n].NumBlocks
<1>1. PICK f \in [0 .. n -> Nat] : IsSum(f, r, n)
  BY SumExists
<1>2. ASSUME NEW m \in 0 .. n PROVE SumOfFirst(r, m) = f[m]
  <2>1. IsSum(Running(r, m), r, m)
    BY <1>2, RunningIsSum
  <2> PICK h : h = Running(r, m)
    OBVIOUS
  <2>2. h[m] = f[m]
    <3>1. IsSum(h, r, m) /\ IsSum(f, r, n)
      BY <1>1, <2>1
    <3> QED
      BY <1>2, <3>1, SumsAgree
  <2>3. Running(r, m)[m] = f[m]
    BY <2>1, <2>2
  <2> QED
    BY <2>1, <2>3, SumIs
<1>3. f[0] = 0 /\ (n > 0 => f[n] = f[n - 1] + r[n].NumBlocks)
  BY <1>1 DEF IsSum
<1> QED
  BY <1>2, <1>3

LEMMA LayoutType ==
  ASSUME NEW r \in Requests, NEW leftover \in Leftovers
  PROVE  Layout(r, leftover) \in Tab
<1> DEFINE Part == [NumBlocks : Nat, DevClass : {"RAW", "FTL", "none"},
                    InDevTable : BOOLEAN, DevIndex : Nat]
<1>1. r \in Seq(Part) /\ Len(r) \in 1 .. MAX_FLASH_PARTITIONS /\ leftover \in PartType
  BY LogicalAssumption
<1> HIDE DEF Part
<1>2. \A k \in 1 .. Len(r) : r[k] \in Part
  BY <1>1
<1> USE DEF Part
<1>3. ASSUME NEW i \in PartNo, i < Len(r)
      PROVE  [StartBlock |-> SumOfFirst(r, i),       NumBlocks  |-> r[i + 1].NumBlocks,
              DevClass   |-> r[i + 1].DevClass,      InDevTable |-> r[i + 1].InDevTable,
              DevIndex   |-> r[i + 1].DevIndex] \in PartType
  <2>1. i \in Nat /\ i + 1 \in 1 .. Len(r)
    BY <1>1, <1>3, Sizes
  <2>2. \A k \in 1 .. i : r[k].NumBlocks \in Nat
    BY <1>1, <1>2, <1>3, <2>1
  <2>3. SumOfFirst(r, i) \in Nat
    BY <2>1, <2>2, SumType
  <2>4. r[i + 1] \in Part
    BY <1>2, <2>1
  <2> QED
    BY <2>3, <2>4 DEF PartType
<1>4. Len(r) \in 0 .. MAX_FLASH_PARTITIONS
  BY <1>1, Sizes
<1> DEFINE part == [i \in PartNo |->
     IF i >= Len(r) THEN leftover
     ELSE [StartBlock |-> SumOfFirst(r, i),       NumBlocks  |-> r[i + 1].NumBlocks,
           DevClass   |-> r[i + 1].DevClass,      InDevTable |-> r[i + 1].InDevTable,
           DevIndex   |-> r[i + 1].DevIndex]]
<1>5. part \in [PartNo -> PartType]
  <2>1. \A i \in PartNo : i >= Len(r) \/ i < Len(r)
    BY <1>1, Sizes
  <2> QED
    BY <1>1, <1>3, <2>1
<1>6. Layout(r, leftover) = [NumPartitions |-> Len(r), Part |-> part]
  BY DEF Layout
<1> HIDE DEF part, Part
<1> QED
  BY <1>4, <1>5, <1>6 DEF Tab


----------------------------------------------------------------------------
(* The order in which partitions are visited                               *)

Parts == Chip \X PartNo
Ahead(S, m) == {j \in S : Before(j, m)}

LEMMA PartsFinite ==
  ASSUME NEW S \in SUBSET Parts
  PROVE  IsFiniteSet(S) /\ Cardinality(S) \in Nat
<1>1. IsFiniteSet(Chip) /\ IsFiniteSet(PartNo)
  BY Sizes, FS_Interval DEF Chip, PartNo
<1>2. IsFiniteSet(Parts)
  BY <1>1, FS_Product DEF Parts
<1> QED
  BY <1>2, FS_Subset, FS_CardinalityType

LEMMA BeforeOrders ==
  ASSUME NEW m \in Parts, NEW n \in Parts
  PROVE  /\ ~ Before(m, m)
         /\ m # n => Before(m, n) \/ Before(n, m)
         /\ \A o \in Parts : Before(m, n) /\ Before(n, o) => Before(m, o)
<1>1. \A o \in Parts : o[1] \in Nat /\ o[2] \in Nat /\ o = <<o[1], o[2]>>
  <2>1. \A a \in Chip, b \in PartNo : a \in Nat /\ b \in Nat
    BY Sizes
  <2> QED
    BY <2>1 DEF Parts
<1> QED
  BY <1>1 DEF Before

\* A part visited later has more parts ahead of it.
LEMMA LaterHasMore ==
  ASSUME NEW S \in SUBSET Parts, NEW m \in S, NEW n \in S, Before(m, n)
  PROVE  /\ Cardinality(Ahead(S, m)) < Cardinality(Ahead(S, n))
         /\ Cardinality(Ahead(S, m)) \in Nat /\ Cardinality(Ahead(S, n)) \in Nat
<1>1. m \notin Ahead(S, m)
  BY BeforeOrders DEF Ahead
<1>2. Ahead(S, m) \cup {m} \in SUBSET Ahead(S, n)
  <2>1. \A j \in S : Before(j, m) => Before(j, n)
    BY BeforeOrders
  <2> QED
    BY <2>1 DEF Ahead
<1>3. /\ IsFiniteSet(Ahead(S, m)) /\ IsFiniteSet(Ahead(S, n))
      /\ Cardinality(Ahead(S, m)) \in Nat /\ Cardinality(Ahead(S, n)) \in Nat
  <2>1. Ahead(S, m) \in SUBSET Parts /\ Ahead(S, n) \in SUBSET Parts
    BY DEF Ahead
  <2> QED
    BY <2>1, PartsFinite
<1>4. Cardinality(Ahead(S, m) \cup {m}) = Cardinality(Ahead(S, m)) + 1
  BY <1>1, <1>3, FS_AddElement
<1>5. Cardinality(Ahead(S, m) \cup {m}) <= Cardinality(Ahead(S, n))
  BY <1>2, <1>3, FS_Subset
<1> QED
  BY <1>3, <1>4, <1>5

LEMMA AheadBound ==
  ASSUME NEW S \in SUBSET Parts, NEW m \in S
  PROVE  Cardinality(Ahead(S, m)) \in 0 .. Cardinality(S) - 1
<1>1. IsFiniteSet(S) /\ Cardinality(S) \in Nat
  BY PartsFinite
<1>2. Ahead(S, m) \in SUBSET (S \ {m})
  BY BeforeOrders DEF Ahead
<1>3. IsFiniteSet(S \ {m}) /\ Cardinality(S \ {m}) = Cardinality(S) - 1
  BY <1>1, FS_RemoveElement
<1>4. /\ Cardinality(Ahead(S, m)) <= Cardinality(S \ {m})
      /\ IsFiniteSet(Ahead(S, m))
  BY <1>2, <1>3, FS_Subset
<1>5. Cardinality(Ahead(S, m)) \in Nat
  BY <1>4, FS_CardinalityType
<1> QED
  BY <1>1, <1>3, <1>4, <1>5

\* Every number of parts ahead occurs: there is a k-th part.
LEMMA Ranked ==
  ASSUME NEW S \in SUBSET Parts, NEW k \in 1 .. Cardinality(S)
  PROVE  \E m \in S : Cardinality(Ahead(S, m)) = k - 1
<1> DEFINE n    == Cardinality(S)
           rank == [m \in S |-> Cardinality(Ahead(S, m))]
<1>1. IsFiniteSet(S) /\ n \in Nat
  BY PartsFinite
<1>2. rank \in [S -> 0 .. n - 1]
  BY AheadBound
<1>3. ASSUME NEW a \in S, NEW b \in S, a # b PROVE rank[a] # rank[b]
  <2>1. Before(a, b) \/ Before(b, a)
    BY <1>3, BeforeOrders
  <2>2. CASE Before(a, b)
    BY <2>2, LaterHasMore
  <2>3. CASE Before(b, a)
    BY <2>3, LaterHasMore
  <2> QED
    BY <2>1, <2>2, <2>3
<1>4. rank \in Injection(S, 0 .. n - 1)
  BY <1>2, <1>3 DEF Injection, IsInjective
<1> HIDE DEF rank, n
<1>5. IsFiniteSet(0 .. n - 1) /\ Cardinality(0 .. n - 1) = n
  <2>1. 0 \in Int /\ n - 1 \in Int /\ n - 1 - 0 + 1 = n
    BY <1>1
  <2>2. /\ IsFiniteSet(0 .. n - 1)
        /\ Cardinality(0 .. n - 1) = IF 0 > n - 1 THEN 0 ELSE n - 1 - 0 + 1
    BY <2>1, FS_Interval
  <2>3. n \in Nat
    BY <1>1
  <2> QED
    BY <2>2, <2>3
<1>6. rank \in Surjection(S, 0 .. n - 1)
  <2>1. Cardinality(S) = Cardinality(0 .. n - 1)
    BY <1>5 DEF n
  <2> QED
    BY <1>4, <1>5, <2>1, FS_Injection
<1>7. k - 1 \in 0 .. n - 1
  BY <1>1 DEF n
<1>8. PICK m \in S : rank[m] = k - 1
  BY <1>6, <1>7 DEF Surjection
<1> QED
  BY <1>8 DEF rank

LEMMA InOrderType ==
  ASSUME NEW S \in SUBSET Parts
  PROVE  /\ InOrder(S) \in [1 .. Cardinality(S) -> S]
         /\ Cardinality(S) \in Nat
         /\ \A k \in 1 .. Cardinality(S) : Cardinality(Ahead(S, InOrder(S)[k])) = k - 1
<1>1. Cardinality(S) \in Nat
  BY PartsFinite
<1>2. ASSUME NEW k \in 1 .. Cardinality(S)
      PROVE  InOrder(S)[k] \in S /\ Cardinality(Ahead(S, InOrder(S)[k])) = k - 1
  BY Ranked DEF InOrder, Ahead
<1> QED
  BY <1>1, <1>2 DEF InOrder

\* The last part has all the others ahead of it.
LEMMA LastPart ==
  ASSUME NEW S \in SUBSET Parts, S # {}
  PROVE  /\ \E m \in S : Cardinality(Ahead(S, m)) = Cardinality(S) - 1
         /\ Cardinality(S) \in Nat /\ Cardinality(S) > 0
<1>1. IsFiniteSet(S) /\ Cardinality(S) \in Nat
  BY PartsFinite
<1>2. Cardinality(S) # 0
  BY <1>1, FS_EmptySet
<1>3. Cardinality(S) \in 1 .. Cardinality(S)
  BY <1>1, <1>2
<1> QED
  BY <1>1, <1>3, Ranked


LEMMA InOrderSeq ==
  ASSUME NEW S \in SUBSET Parts
  PROVE  InOrder(S) \in Seq(Parts) /\ Len(InOrder(S)) = Cardinality(S)
<1> PICK s : s = InOrder(S)
  OBVIOUS
<1> PICK n : n = Cardinality(S)
  OBVIOUS
<1>1. s \in [1 .. n -> Parts] /\ n \in Nat
  BY InOrderType
<1>2. s \in Seq(Parts) /\ Len(s) = n
  BY <1>1
<1> QED
  BY <1>2

----------------------------------------------------------------------------
(* Device tables                                                           *)

DevSeq == {s \in Seq(Parts) : Len(s) <= MAX_FLASH_CHIPS}
Mem == [PartTable : [Chip -> Tab], RAWDevTable : [VPart -> DevSeq], FTLDevTable : [VPart -> DevSeq]]

Merged(tables, class, x) ==
  {m \in Members(tables, class) : /\ IndexOf(tables, m) = x
                                  /\ \A o \in Overfull(tables, class) : Before(m, o)}
Sharing(tables, class, m) ==
  {j \in Members(tables, class) : Before(j, m) /\ IndexOf(tables, j) = IndexOf(tables, m)}

LEMMA MembersType ==
  ASSUME NEW tables, NEW class
  PROVE  Members(tables, class) \in SUBSET Parts
BY DEF Members, Parts

LEMMA OverfullIs ==
  ASSUME NEW tables, NEW class
  PROVE  /\ Overfull(tables, class) \in SUBSET Members(tables, class)
         /\ \A m \in Members(tables, class) :
              m \in Overfull(tables, class) <=>
                \/ IndexOf(tables, m) >= MAX_FLASH_VPARTITIONS
                \/ Cardinality(Sharing(tables, class, m)) >= MAX_FLASH_CHIPS
BY DEF Overfull, Sharing

LEMMA TableIs ==
  ASSUME NEW tables, NEW class
  PROVE  make_blk_dev_table(tables, class) = [x \in VPart |-> InOrder(Merged(tables, class, x))]
BY DEF make_blk_dev_table, Merged

\* No device merges more parts than its array holds: the last one would be overfull.
LEMMA MergedFits ==
  ASSUME NEW tables, NEW class, NEW x
  PROVE  /\ Merged(tables, class, x) \in SUBSET Parts
         /\ Cardinality(Merged(tables, class, x)) <= MAX_FLASH_CHIPS
<1> DEFINE S == Merged(tables, class, x)
<1>1. S \in SUBSET Parts /\ S \in SUBSET Members(tables, class)
  BY MembersType DEF Merged
<1>2. Cardinality(S) \in Nat /\ MAX_FLASH_CHIPS \in Nat
  BY <1>1, PartsFinite, Sizes
<1>3. CASE S = {}
  BY <1>3, Sizes, FS_EmptySet
<1>4. CASE S # {}
  <2>1. PICK m \in S : Cardinality(Ahead(S, m)) = Cardinality(S) - 1
    BY <1>1, <1>4, LastPart
  <2>2. m \in Members(tables, class) /\ m \notin Overfull(tables, class)
    BY <1>1, BeforeOrders DEF Merged
  <2>3. Ahead(S, m) \in SUBSET Sharing(tables, class, m)
    BY DEF Ahead, Sharing, Merged
  <2>4. Sharing(tables, class, m) \in SUBSET Parts
    BY MembersType DEF Sharing
  <2>5. /\ IsFiniteSet(Sharing(tables, class, m))
        /\ Cardinality(Sharing(tables, class, m)) \in Nat
    BY <2>4, PartsFinite
  <2>6. Cardinality(Ahead(S, m)) <= Cardinality(Sharing(tables, class, m))
    BY <2>3, <2>5, FS_Subset
  <2>7. ~ (Cardinality(Sharing(tables, class, m)) >= MAX_FLASH_CHIPS)
    BY <2>2, OverfullIs
  <2> QED
    BY <1>1, <1>2, <2>1, <2>5, <2>6, <2>7
<1> QED
  BY <1>1, <1>3, <1>4

LEMMA DevTableType ==
  ASSUME NEW tables, NEW class
  PROVE  make_blk_dev_table(tables, class) \in [VPart -> DevSeq]
<1>1. ASSUME NEW x \in VPart PROVE InOrder(Merged(tables, class, x)) \in DevSeq
  BY MergedFits, InOrderSeq DEF DevSeq
<1> QED
  BY <1>1, TableIs

\* Tables of which some lost their partitions make device tables if they did before.
Fewer(new, old) == \A c \in Chip : new[c] = old[c] \/ new[c].NumPartitions = 0

LEMMA FewerOverfull ==
  ASSUME NEW old \in [Chip -> Tab], NEW new \in [Chip -> Tab], Fewer(new, old), NEW class
  PROVE  Overfull(new, class) \subseteq Overfull(old, class)
<1>1. ASSUME NEW m \in Members(new, class)
      PROVE  m \in Members(old, class) /\ IndexOf(old, m) = IndexOf(new, m)
  <2>1. m[1] \in Chip /\ m[2] \in Nat /\ m[2] < new[m[1]].NumPartitions
    BY Sizes DEF Members
  <2>2. new[m[1]] = old[m[1]]
    BY <2>1 DEF Fewer
  <2> QED
    BY <2>2 DEF Members, IndexOf
<1>2. ASSUME NEW m \in Overfull(new, class) PROVE m \in Overfull(old, class)
  <2>1. m \in Members(new, class) /\ m \in Members(old, class)
    BY <1>1, <1>2, OverfullIs
  <2>2. CASE IndexOf(new, m) >= MAX_FLASH_VPARTITIONS
    BY <1>1, <2>1, <2>2, OverfullIs
  <2>3. CASE Cardinality(Sharing(new, class, m)) >= MAX_FLASH_CHIPS
    <3>1. Sharing(new, class, m) \in SUBSET Sharing(old, class, m)
      BY <1>1, <2>1 DEF Sharing
    <3>2. Sharing(new, class, m) \in SUBSET Parts /\ Sharing(old, class, m) \in SUBSET Parts
      BY MembersType DEF Sharing
    <3>3. /\ IsFiniteSet(Sharing(old, class, m)) /\ Cardinality(Sharing(old, class, m)) \in Nat
          /\ Cardinality(Sharing(new, class, m)) \in Nat
      BY <3>2, PartsFinite
    <3>4. Cardinality(Sharing(new, class, m)) <= Cardinality(Sharing(old, class, m))
      BY <3>1, <3>3, FS_Subset
    <3>5. Cardinality(Sharing(old, class, m)) >= MAX_FLASH_CHIPS
      BY <2>3, <3>3, <3>4, Sizes
    <3> QED
      BY <2>1, <3>5, OverfullIs
  <2> QED
    BY <2>1, <2>2, <2>3, OverfullIs
<1> QED
  BY <1>2

LEMMA FewerMakes ==
  ASSUME NEW old \in [Chip -> Tab], NEW new \in [Chip -> Tab], Fewer(new, old), Makes(old)
  PROVE  Makes(new)
BY FewerOverfull DEF Makes

\* Without partitions there is nothing to merge.
LEMMA NothingMerged ==
  ASSUME NEW tables, \A c \in Chip : tables[c].NumPartitions = 0, NEW class
  PROVE  /\ make_blk_dev_table(tables, class) = [x \in VPart |-> << >>]
         /\ Overfull(tables, class) = {}
<1>1. Members(tables, class) = {}
  <2>1. ASSUME NEW m \in Members(tables, class) PROVE FALSE
    <3>1. m[1] \in Chip /\ m[2] \in PartNo /\ m[2] < tables[m[1]].NumPartitions
      BY DEF Members
    <3>2. m[2] \in Nat /\ m[2] < 0
      BY <3>1, Sizes
    <3> QED
      BY <3>2
  <2> QED
    BY <2>1
<1>2. Overfull(tables, class) = {}
  BY <1>1, OverfullIs
<1>3. \A x \in VPart : Merged(tables, class, x) = {}
  BY <1>1 DEF Merged
<1>4. InOrder({}) = << >>
  BY FS_EmptySet, {} \in SUBSET Parts, InOrderSeq
<1> QED
  BY <1>2, <1>3, <1>4, TableIs


----------------------------------------------------------------------------
(* Reading tables                                                          *)

LEMMA TablesType ==
  ASSUME NEW T \in [Chip -> Tab]
  PROVE  /\ Tables(T) \in Mem /\ Tables(T).PartTable = T
         /\ Tables(T).RAWDevTable = make_blk_dev_table(T, "RAW")
         /\ Tables(T).FTLDevTable = make_blk_dev_table(T, "FTL")
BY DevTableType DEF Tables, Mem

\* Memory n is what reading the table of chip c makes of memory m.
ReadGives(m, c, n) ==
  /\ n \in Mem
  /\ flash[c] = NoTable =>
       /\ n.PartTable = [m.PartTable EXCEPT ![c].NumPartitions = 0]
       /\ n.RAWDevTable = m.RAWDevTable /\ n.FTLDevTable = m.FTLDevTable
  /\ flash[c] # NoTable => n.PartTable = PartTableRead(m, c)
  /\ flash[c] # NoTable /\ ~ ReadFails(m, c) => n = Tables(PartTableRead(m, c))

LEMMA ReadIs ==
  ASSUME flash \in [Chip -> Tab], NEW m \in Mem, NEW c \in Chip,
         NEW n, n = LFD_ReadPartitionTable(m, c)
  PROVE  ReadGives(m, c, n)
<1> DEFINE new == Tables(PartTableRead(m, c))
<1>1. m.PartTable \in [Chip -> Tab] /\ m.FTLDevTable \in [VPart -> DevSeq]
  BY DEF Mem
<1>2. CASE flash[c] = NoTable
  <2>1. [m EXCEPT !.PartTable[c].NumPartitions = 0].PartTable
          = [m.PartTable EXCEPT ![c].NumPartitions = 0]
    BY DEF Mem
  <2>2. [m.PartTable EXCEPT ![c].NumPartitions = 0] \in [Chip -> Tab]
    <3>1. [m.PartTable[c] EXCEPT !.NumPartitions = 0] \in Tab
      BY <1>1, Sizes DEF Tab
    <3> QED
      BY <1>1, <3>1
  <2>3. /\ n.PartTable = [m.PartTable EXCEPT ![c].NumPartitions = 0]
        /\ n.RAWDevTable = m.RAWDevTable /\ n.FTLDevTable = m.FTLDevTable
        /\ n = [PartTable |-> n.PartTable, RAWDevTable |-> n.RAWDevTable,
                FTLDevTable |-> n.FTLDevTable]
    BY <1>2, <2>1 DEF LFD_ReadPartitionTable, Mem
  <2>4. n \in Mem
    BY <2>2, <2>3 DEF Mem
  <2> QED
    BY <1>2, <2>3, <2>4 DEF ReadGives
<1>3. CASE flash[c] # NoTable
  <2>1. PartTableRead(m, c) \in [Chip -> Tab]
    BY <1>1, CorrectedType DEF PartTableRead
  <2>2. new \in Mem /\ new.PartTable = PartTableRead(m, c)
    BY <2>1, TablesType
  <2>3. n = IF Overfull(new.PartTable, "RAW") = {} THEN new
            ELSE [new EXCEPT !.FTLDevTable = m.FTLDevTable]
    BY <1>3 DEF LFD_ReadPartitionTable
  <2> HIDE DEF new
  <2>4. n \in Mem /\ n.PartTable = PartTableRead(m, c)
    BY <1>1, <2>2, <2>3 DEF Mem
  <2>5. ~ ReadFails(m, c) => n = new
    BY <1>3, <2>2, <2>3 DEF ReadFails, Makes
  <2> QED
    BY <1>3, <2>4, <2>5 DEF new, ReadGives
<1> QED
  BY <1>2, <1>3

IsReading(f, m, n) ==
  /\ f[0] = m
  /\ \A k \in 1 .. n : f[k] = LFD_ReadPartitionTable(f[k - 1], k - 1)

LEMMA ReadingExists ==
  ASSUME flash \in [Chip -> Tab], NEW m \in Mem
  PROVE  \E f \in [0 .. NumChips -> Mem] : IsReading(f, m, NumChips)
<1> DEFINE Has == {n \in Nat : n <= NumChips => \E f \in [0 .. n -> Mem] : IsReading(f, m, n)}
<1>1. 0 \in Has
  <2> DEFINE f == [k \in 0 .. 0 |-> m]
  <2>1. f \in [0 .. 0 -> Mem] /\ IsReading(f, m, 0)
    BY DEF IsReading
  <2> QED
    BY <2>1
<1>2. ASSUME NEW n \in Nat, n \in Has PROVE n + 1 \in Has
  <2> SUFFICES ASSUME n + 1 <= NumChips
               PROVE  \E f \in [0 .. n + 1 -> Mem] : IsReading(f, m, n + 1)
    OBVIOUS
  <2>a. n <= NumChips /\ NumChips \in Nat
    BY Sizes
  <2>1. PICK g \in [0 .. n -> Mem] : IsReading(g, m, n)
    BY <1>2, <2>a
  <2>2. n \in Chip /\ g[n] \in Mem
    BY <2>a DEF Chip
  <2> PICK last : last = LFD_ReadPartitionTable(g[n], n)
    OBVIOUS
  <2>3. last \in Mem
    <3> PICK h : h = g[n]
      OBVIOUS
    <3> QED
      BY <2>2, ReadIs DEF ReadGives
  <2> DEFINE f == [k \in 0 .. n + 1 |-> IF k = n + 1 THEN last ELSE g[k]]
  <2>4. f \in [0 .. n + 1 -> Mem]
    BY <2>3
  <2>5. ASSUME NEW k \in 1 .. n + 1
        PROVE  f[k] = LFD_ReadPartitionTable(f[k - 1], k - 1)
    <3>1. CASE k = n + 1
      <4>1. f[k - 1] = g[n] /\ k - 1 = n /\ f[k] = last
        BY <3>1
      <4> QED
        BY <4>1
    <3>2. CASE k \in 1 .. n
      <4>1. g[k] = LFD_ReadPartitionTable(g[k - 1], k - 1)
        BY <2>1, <3>2 DEF IsReading
      <4>2. f[k] = g[k] /\ f[k - 1] = g[k - 1]
        BY <3>2
      <4> QED
        BY <4>1, <4>2
    <3> QED
      BY <3>1, <3>2
  <2>6. f[0] = m
    BY <2>1 DEF IsReading
  <2> HIDE DEF f
  <2> QED
    BY <2>4, <2>5, <2>6 DEF IsReading
<1> HIDE DEF Has
<1>3. NumChips \in Has
  BY <1>1, <1>2, Upwards, Sizes
<1> QED
  BY <1>3, Sizes DEF Has

LEMMA ReadFromIs ==
  ASSUME flash \in [Chip -> Tab], NEW m \in Mem
  PROVE  IsReading(ReadFrom(m), m, NumChips)
<1> DEFINE Is(f) == f = [k \in 0 .. NumChips |->
                         IF k = 0 THEN m ELSE LFD_ReadPartitionTable(f[k - 1], k - 1)]
<1>1. PICK f \in [0 .. NumChips -> Mem] : IsReading(f, m, NumChips)
  BY ReadingExists
<1>2. Is(f)
  <2>1. \A k \in 0 .. NumChips : f[k] = IF k = 0 THEN m ELSE LFD_ReadPartitionTable(f[k - 1], k - 1)
    <3> SUFFICES ASSUME NEW k \in 0 .. NumChips
                 PROVE  f[k] = IF k = 0 THEN m ELSE LFD_ReadPartitionTable(f[k - 1], k - 1)
      OBVIOUS
    <3>1. k = 0 \/ k \in 1 .. NumChips
      BY Sizes
    <3> QED
      BY <1>1, <3>1 DEF IsReading
  <2> QED
    BY <2>1
<1>3. Is(ReadFrom(m))
  BY <1>2 DEF ReadFrom
<1> PICK g : g = ReadFrom(m)
  OBVIOUS
<1>4. Is(g)
  BY <1>3
<1>5. g[0] = m
  BY <1>4, Sizes
<1>6. ASSUME NEW k \in 1 .. NumChips PROVE g[k] = LFD_ReadPartitionTable(g[k - 1], k - 1)
  <2>1. k \in 0 .. NumChips /\ k # 0
    OBVIOUS
  <2>2. g[k] = IF k = 0 THEN m ELSE LFD_ReadPartitionTable(g[k - 1], k - 1)
    BY <1>4, <2>1
  <2> QED
    BY <2>1, <2>2
<1> QED
  BY <1>5, <1>6 DEF IsReading


\* The tables on flash as they are read.
OnFlash == [c \in Chip |-> Corrected(flash[c])]

LEMMA BlankType ==
  /\ Blank \in Mem
  /\ Blank.PartTable = [c \in Chip |-> NoTable]
  /\ Blank.RAWDevTable = [x \in VPart |-> << >>]
  /\ Blank.FTLDevTable = [x \in VPart |-> << >>]
<1>1. << >> \in DevSeq
  BY Sizes DEF DevSeq
<1>2. NoTable \in Tab
  BY NoTableType DEF CorrectTab
<1> QED
  BY <1>1, <1>2 DEF Blank, Mem

\* FD_Init's first reading brings every table to memory.
LEMMA FirstReading ==
  ASSUME flash \in [Chip -> Tab], NEW f, IsReading(f, Blank, NumChips)
  PROVE  /\ f[NumChips] \in Mem /\ f[NumChips].PartTable = OnFlash
         /\ (\A c \in Chip : flash[c] = NoTable) => f[NumChips] = Blank
<1> DEFINE Done(k) == /\ f[k] \in Mem
                      /\ \A d \in Chip : f[k].PartTable[d] = IF d < k THEN OnFlash[d] ELSE NoTable
                      /\ (\A c \in Chip : flash[c] = NoTable) => f[k] = Blank
           S == {k \in Nat : k <= NumChips => Done(k)}
<1>1. 0 \in S
  <2>1. f[0] = Blank
    BY DEF IsReading
  <2>2. \A d \in Chip : Blank.PartTable[d] = NoTable /\ ~ (d < 0)
    BY BlankType, Sizes
  <2> QED
    BY <2>1, <2>2, BlankType
<1>2. ASSUME NEW k \in Nat, k \in S PROVE k + 1 \in S
  <2> SUFFICES ASSUME k + 1 <= NumChips PROVE Done(k + 1)
    OBVIOUS
  <2>1. k <= NumChips /\ k \in Chip /\ k + 1 \in 1 .. NumChips /\ (k + 1) - 1 = k
    BY Sizes DEF Chip
  <2>2. Done(k)
    BY <1>2, <2>1
  <2>3. f[k + 1] = LFD_ReadPartitionTable(f[k], k)
    BY <2>1 DEF IsReading
  <2> PICK m : m = f[k]
    OBVIOUS
  <2> PICK n : n = f[k + 1]
    OBVIOUS
  <2>4. m \in Mem /\ n = LFD_ReadPartitionTable(m, k)
    BY <2>2, <2>3
  <2>4a. ReadGives(m, k, n)
    BY <2>1, <2>4, ReadIs
  <2>5. m.PartTable \in [Chip -> Tab] /\ n \in Mem
    BY <2>4, <2>4a DEF Mem, ReadGives
  <2>6. m.PartTable[k] = NoTable
    BY <2>1, <2>2
  <2>7. CASE flash[k] = NoTable
    <3>1. /\ n.PartTable = [m.PartTable EXCEPT ![k].NumPartitions = 0]
          /\ n.RAWDevTable = m.RAWDevTable /\ n.FTLDevTable = m.FTLDevTable
      BY <2>7, <2>4a DEF ReadGives
    <3>2. [NoTable EXCEPT !.NumPartitions = 0] = NoTable
      BY DEF NoTable
    <3>3. n.PartTable = m.PartTable
      BY <2>1, <2>5, <2>6, <3>1, <3>2
    <3>4. n = m
      BY <2>4, <2>5, <3>1, <3>3 DEF Mem
    <3>5. OnFlash[k] = NoTable
      BY <2>1, <2>7, NoTableType DEF OnFlash
    <3>6. \A d \in Chip : d < k + 1 <=> d < k \/ d = k
      BY <2>1, Sizes
    <3> QED
      BY <2>1, <2>2, <3>4, <3>5, <3>6
  <2>8. CASE flash[k] # NoTable
    <3>1. n.PartTable = [m.PartTable EXCEPT ![k] = Corrected(flash[k])]
      BY <2>8, <2>4a DEF PartTableRead, ReadGives
    <3>2. \A d \in Chip : n.PartTable[d] = IF d = k THEN OnFlash[d] ELSE m.PartTable[d]
      BY <2>1, <2>5, <3>1 DEF OnFlash
    <3>3. \A d \in Chip : d < k + 1 <=> d < k \/ d = k
      BY <2>1, Sizes
    <3> QED
      BY <2>1, <2>2, <2>5, <2>8, <3>2, <3>3
  <2> QED
    BY <2>7, <2>8
<1> HIDE DEF S
<1>3. NumChips \in S
  BY <1>1, <1>2, Upwards, Sizes
<1>4. Done(NumChips)
  BY <1>3, Sizes DEF S
<1>5. \A d \in Chip : d < NumChips
  BY Sizes DEF Chip
<1>6. f[NumChips].PartTable = OnFlash
  <2>1. f[NumChips].PartTable \in [Chip -> Tab]
    BY <1>4 DEF Mem
  <2>2. \A d \in Chip : f[NumChips].PartTable[d] = OnFlash[d]
    BY <1>4, <1>5
  <2> QED
    BY <2>1, <2>2 DEF OnFlash
<1> QED
  BY <1>4, <1>6

\* The second one finds nothing new, and makes the device tables of them all.
LEMMA SecondReading ==
  ASSUME flash \in [Chip -> Tab], NEW m \in Mem, m.PartTable = OnFlash,
         NEW f, IsReading(f, m, NumChips)
  PROVE  /\ \A k \in 0 .. NumChips : f[k] \in Mem /\ f[k].PartTable = OnFlash
         /\ Makes(OnFlash) /\ (\E c \in Chip : flash[c] # NoTable) => f[NumChips] = Tables(OnFlash)
         /\ (\A c \in Chip : flash[c] = NoTable) => f[NumChips] = m
<1> DEFINE Read(k) == \E c \in Chip : c < k /\ flash[c] # NoTable
           Done(k) == /\ f[k] \in Mem /\ f[k].PartTable = OnFlash
                      /\ Makes(OnFlash) /\ Read(k) => f[k] = Tables(OnFlash)
                      /\ ~ Read(k) => f[k] = m
           S == {k \in Nat : k <= NumChips => Done(k)}
<1>1. 0 \in S
  <2>1. f[0] = m
    BY DEF IsReading
  <2>2. ~ Read(0)
    BY Sizes
  <2> QED
    BY <2>1, <2>2
<1>2. ASSUME NEW k \in Nat, k \in S PROVE k + 1 \in S
  <2> SUFFICES ASSUME k + 1 <= NumChips PROVE Done(k + 1)
    OBVIOUS
  <2>1. k <= NumChips /\ k \in Chip /\ k + 1 \in 1 .. NumChips /\ (k + 1) - 1 = k
    BY Sizes DEF Chip
  <2>2. Done(k)
    BY <1>2, <2>1
  <2>3. f[k + 1] = LFD_ReadPartitionTable(f[k], k)
    BY <2>1 DEF IsReading
  <2> PICK a : a = f[k]
    OBVIOUS
  <2> PICK b : b = f[k + 1]
    OBVIOUS
  <2>4. a \in Mem /\ b = LFD_ReadPartitionTable(a, k) /\ a.PartTable = OnFlash
    BY <2>2, <2>3
  <2>4a. ReadGives(a, k, b)
    BY <2>1, <2>4, ReadIs
  <2>5. a.PartTable \in [Chip -> Tab] /\ b \in Mem
    BY <2>4, <2>4a DEF Mem, ReadGives
  <2>6. \A d \in Chip : d < k + 1 <=> d < k \/ d = k
    BY <2>1, Sizes
  <2>7. CASE flash[k] = NoTable
    <3>1. /\ b.PartTable = [a.PartTable EXCEPT ![k].NumPartitions = 0]
          /\ b.RAWDevTable = a.RAWDevTable /\ b.FTLDevTable = a.FTLDevTable
      BY <2>7, <2>4a DEF ReadGives
    <3>2. OnFlash[k] = NoTable
      BY <2>1, <2>7, NoTableType DEF OnFlash
    <3>3. [NoTable EXCEPT !.NumPartitions = 0] = NoTable
      BY DEF NoTable
    <3>4. b.PartTable = a.PartTable
      BY <2>1, <2>4, <2>5, <3>1, <3>2, <3>3
    <3>5. b = a
      BY <2>4, <2>5, <3>1, <3>4 DEF Mem
    <3>6. Read(k + 1) <=> Read(k)
      BY <2>6, <2>7
    <3> QED
      BY <2>2, <3>5, <3>6
  <2>8. CASE flash[k] # NoTable
    <3>1. PartTableRead(a, k) = OnFlash
      BY <2>1, <2>4, <2>5 DEF PartTableRead, OnFlash
    <3>2. b.PartTable = OnFlash
      BY <2>8, <2>4a, <3>1 DEF ReadGives
    <3>3. Makes(OnFlash) => ~ ReadFails(a, k)
      BY <3>1 DEF ReadFails
    <3>4. Makes(OnFlash) => b = Tables(OnFlash)
      BY <2>8, <2>4a, <3>1, <3>3 DEF ReadGives
    <3>5. Read(k + 1)
      BY <2>1, <2>6, <2>8
    <3> QED
      BY <2>5, <3>2, <3>4, <3>5
  <2> QED
    BY <2>7, <2>8
<1> HIDE DEF S
<1>3. \A k \in Nat : k \in S
  BY <1>1, <1>2, Upwards
<1>4. \A k \in 0 .. NumChips : Done(k)
  BY <1>3 DEF S
<1>5. Read(NumChips) <=> \E c \in Chip : flash[c] # NoTable
  BY Sizes DEF Chip
<1>6. Done(NumChips)
  BY <1>4, Sizes
<1> QED
  BY <1>4, <1>5, <1>6

\* What FD_Init leaves in memory, and when it fails.
LEMMA InitReads ==
  ASSUME flash \in [Chip -> Tab], FD_Init
  PROVE  /\ mem' \in Mem /\ mem'.PartTable = OnFlash
         /\ \/ power' = "on" /\ Makes(OnFlash) /\ mem' = Tables(OnFlash)
            \/ power' = "failed" /\ ~ Makes(OnFlash)
<1> DEFINE first  == ReadFrom(Blank)[NumChips]
           second == ReadFrom(first)
<1>1. IsReading(ReadFrom(Blank), Blank, NumChips)
  BY BlankType, ReadFromIs
<1>2. /\ first \in Mem /\ first.PartTable = OnFlash
      /\ (\A c \in Chip : flash[c] = NoTable) => first = Blank
  BY <1>1, FirstReading
<1> PICK m : m = first
  OBVIOUS
<1> PICK s : s = second
  OBVIOUS
<1>3. IsReading(s, m, NumChips)
  BY <1>2, ReadFromIs
<1>4. /\ mem' = s[NumChips]
      /\ power' = IF \E c \in Chip : ReadFails(s[c], c) THEN "failed" ELSE "on"
  BY DEF FD_Init
<1>5. /\ \A k \in 0 .. NumChips : s[k] \in Mem /\ s[k].PartTable = OnFlash
      /\ Makes(OnFlash) /\ (\E c \in Chip : flash[c] # NoTable) => s[NumChips] = Tables(OnFlash)
      /\ (\A c \in Chip : flash[c] = NoTable) => s[NumChips] = m
  BY <1>2, <1>3, SecondReading
<1> HIDE DEF first, second
<1>6. s[NumChips] \in Mem /\ s[NumChips].PartTable = OnFlash
  BY <1>5, Sizes
<1>7. ASSUME NEW c \in Chip PROVE ReadFails(s[c], c) <=> flash[c] # NoTable /\ ~ Makes(OnFlash)
  <2>1. c \in 0 .. NumChips
    BY Sizes DEF Chip
  <2>2. s[c].PartTable = OnFlash
    BY <1>5, <2>1
  <2>3. PartTableRead(s[c], c) = OnFlash
    BY <2>2 DEF PartTableRead, OnFlash
  <2> QED
    BY <2>3 DEF ReadFails
<1>8. CASE \A c \in Chip : flash[c] = NoTable
  <2>1. OnFlash = [c \in Chip |-> NoTable]
    BY <1>8, NoTableType DEF OnFlash
  <2>2. \A c \in Chip : OnFlash[c].NumPartitions = 0
    BY <2>1 DEF NoTable
  <2>3. Makes(OnFlash) /\ Tables(OnFlash) = Blank
    BY <2>1, <2>2, NothingMerged DEF Makes, Tables, Blank
  <2>4. s[NumChips] = Blank
    BY <1>2, <1>5, <1>8
  <2>5. power' = "on"
    BY <1>4, <1>7, <1>8
  <2> QED
    BY <1>4, <1>6, <2>3, <2>4, <2>5
<1>9. CASE \E c \in Chip : flash[c] # NoTable
  <2>1. (\E c \in Chip : ReadFails(s[c], c)) <=> ~ Makes(OnFlash)
    BY <1>7, <1>9
  <2> QED
    BY <1>4, <1>5, <1>6, <1>9, <2>1
<1> QED
  BY <1>8, <1>9


----------------------------------------------------------------------------
(* The invariant                                                           *)

Command == [cmd : {"none", "erase", "program", "failed"}, tab : CorrectTab]

\* The driver's memory and the chips.
Typed ==
  /\ flash \in [Chip -> CorrectTab]
  /\ op \in [Chip -> Command]
  /\ mem \in Mem
  /\ power \in {"on", "off", "oops", "failed"} /\ pc \in {"idle", "erase", "program", "read"}
  /\ call \in [chip : Chip, tab : CorrectTab, next : Chip]
  /\ kept \in [Chip -> CorrectTab] /\ swallowed \in SUBSET Chip
\* The open devices.
DevicesTyped ==
  /\ DOMAIN LDev \subseteq Ids /\ IsFiniteSet(DOMAIN LDev)
  /\ Cardinality(DOMAIN LDev) <= MAX_FLASH_DEVICES
  /\ \A id \in DOMAIN LDev :
       /\ {"PartInfo", "InterleavingLevel", "UsageCount"} \subseteq DOMAIN LDev[id]
       /\ Len(LDev[id].PartInfo) <= MAX_FLASH_CHIPS
       /\ LDev[id].InterleavingLevel \in 1 .. MAX_INTERLEAVED_CHIPS
\* Only a program brings a table, and nothing is under way without power.
Commands ==
  /\ \A c \in Chip : op[c].cmd # "program" => op[c].tab = NoTable
  /\ power \in {"off", "failed"} => pc = "idle" /\ \A c \in Chip : op[c] = Idle
  /\ pc # "idle" => power = "on" /\ call.tab.NumPartitions > 0
\* The table being set: erased, then programmed, then met by the read-back.
Writing == LET c == call.chip IN
  /\ pc \in {"erase", "program"} => call.next = 0
  /\ pc \in {"program", "read"} => kept[c] = NoTable
  /\ pc = "program" => op[c].cmd # "program" /\ (op[c] = Idle => flash[c] = NoTable)
  /\ pc = "read" /\ c \notin swallowed =>
       /\ mem.PartTable[c] = call.tab
       /\ op[c] \in {Idle, Failed, [cmd |-> "program", tab |-> call.tab]}
       /\ op[c] = Idle => flash[c] = call.tab
       /\ call.next > c => op[c] = Idle
\* The tables in memory, which the layouts were judged with, against the chips.
Judged ==
  /\ power \in {"on", "oops"} =>
       /\ Makes(mem.PartTable)
       /\ \A c \in Chip : /\ op[c].tab \in {NoTable, mem.PartTable[c]}
                          /\ \/ flash[c] \in {NoTable, mem.PartTable[c]}
                             \/ c \in swallowed /\ op[c].cmd = "program"
  /\ pc \in {"erase", "program"} => Makes([mem.PartTable EXCEPT ![call.chip] = call.tab])
  /\ power = "off" /\ swallowed = {} => Makes(flash)

TablesInv == /\ Typed /\ Commands /\ Writing /\ Judged
             /\ SetTableSurvives /\ DevTablesAgree /\ AcceptedTablesBoot

LEMMA CommandType ==
  /\ Idle \in Command /\ Idle.cmd = "none" /\ Idle.tab = NoTable
  /\ Failed \in Command /\ Failed.cmd = "failed" /\ Failed.tab = NoTable /\ Idle # Failed
  /\ NoTable \in CorrectTab /\ NoTable \in Tab /\ NoTable.NumPartitions = 0
  /\ \A t \in CorrectTab, k \in {"erase", "program"} : [cmd |-> k, tab |-> t] \in Command
BY NoTableType DEF Idle, Failed, Command, CorrectTab, NoTable

LEMMA TypedIs ==
  ASSUME Typed
  PROVE  /\ flash \in [Chip -> Tab] /\ mem.PartTable \in [Chip -> Tab]
         /\ \A c \in Chip : flash[c] \in CorrectTab /\ op[c] \in Command
         /\ call.chip \in Chip /\ call.tab \in CorrectTab /\ call.next \in Chip
         /\ call = [chip |-> call.chip, tab |-> call.tab, next |-> call.next]
         /\ \A c \in Chip : Corrected(flash[c]) = flash[c]
         /\ OnFlash = flash
<1>1. \A t \in CorrectTab : t \in Tab
  BY DEF CorrectTab
<1>2. \A c \in Chip : flash[c] \in CorrectTab /\ Corrected(flash[c]) = flash[c]
  BY CorrectedStays DEF Typed
<1>3. flash \in [Chip -> Tab]
  BY <1>1 DEF Typed
<1>4. OnFlash = flash
  BY <1>2, <1>3 DEF OnFlash
<1> QED
  BY <1>2, <1>3, <1>4 DEF Typed, Mem

\* One chip's operation ends.
LEMMA SettleKeeps ==
  ASSUME TablesInv, NEW c \in Chip, Settle(c)
  PROVE  TablesInv'
<1>1. /\ Typed /\ Commands /\ Writing /\ Judged
      /\ SetTableSurvives /\ DevTablesAgree /\ AcceptedTablesBoot
  BY DEF TablesInv
<1>2. /\ power' = power /\ mem' = mem /\ pc' = pc /\ call' = call
      /\ kept' = kept /\ swallowed' = swallowed /\ missed' = missed
  BY DEF Settle, call_vars, hist
<1>3. /\ op[c].cmd \in {"erase", "program"} /\ op[c].tab \in CorrectTab
      /\ op \in [Chip -> Command] /\ flash \in [Chip -> CorrectTab]
  BY <1>1 DEF Settle, Typed, Command
<1>4. /\ flash' \in [Chip -> CorrectTab] /\ op' \in [Chip -> Command]
      /\ \A d \in Chip \ {c} : flash'[d] = flash[d] /\ op'[d] = op[d]
      /\ \/ op'[c] = Idle /\ flash'[c] = op[c].tab
         \/ /\ op'[c] = Failed
            /\ flash'[c] = NoTable \/ (op[c].cmd = "erase" /\ flash'[c] = flash[c])
  BY <1>3, CommandType DEF Settle, Given, Holds
<1>5. op'[c].cmd \in {"none", "failed"} /\ op'[c].tab = NoTable
  BY <1>4, CommandType
<1>6. Typed'
  BY <1>1, <1>2, <1>4 DEF Typed
<1>7. op[c] # Idle
  BY <1>3, CommandType
<1>8. Commands'
  BY <1>1, <1>2, <1>4, <1>5, <1>7 DEF Commands
<1>9. Writing'
  <2>1. call.chip \in Chip
    BY <1>1, TypedIs
  <2>2. CASE call.chip # c
    BY <1>1, <1>2, <1>4, <2>1, <2>2 DEF Writing
  <2>3. CASE call.chip = c
    <3>1. pc = "program" => op'[c].cmd # "program" /\ (op'[c] = Idle => flash'[c] = NoTable)
      <4>1. pc = "program" => op[c].cmd = "erase"
        BY <1>1, <1>3, <2>3 DEF Writing
      <4>2. pc = "program" => op[c].tab = NoTable
        BY <1>1, <4>1 DEF Commands
      <4> QED
        BY <1>4, <1>5, <4>2, CommandType
    <3>2. ASSUME pc = "read", c \notin swallowed
          PROVE  /\ mem.PartTable[c] = call.tab
                 /\ op'[c] \in {Idle, Failed, [cmd |-> "program", tab |-> call.tab]}
                 /\ op'[c] = Idle => flash'[c] = call.tab
                 /\ call.next > c => op'[c] = Idle
      <4>1. /\ mem.PartTable[c] = call.tab
            /\ op[c] \in {Idle, Failed, [cmd |-> "program", tab |-> call.tab]}
            /\ call.next > c => op[c] = Idle
        BY <1>1, <2>3, <3>2 DEF Writing
      <4>2. op[c].tab = call.tab
        BY <1>3, <4>1, CommandType
      <4> QED
        BY <1>4, <1>7, <4>1, <4>2, CommandType
    <3> QED
      BY <1>1, <1>2, <2>3, <3>1, <3>2 DEF Writing
  <2> QED
    BY <2>2, <2>3
<1>10. Judged'
  <2>1. ASSUME power \in {"on", "oops"}, NEW d \in Chip
        PROVE  /\ op'[d].tab \in {NoTable, mem.PartTable[d]}
               /\ \/ flash'[d] \in {NoTable, mem.PartTable[d]}
                  \/ d \in swallowed /\ op'[d].cmd = "program"
    BY <1>1, <1>3, <1>4, <1>5, <2>1 DEF Judged
  <2>2. power # "off"
    BY <1>1, <1>7 DEF Commands
  <2> QED
    BY <1>1, <1>2, <2>1, <2>2 DEF Judged
<1>11. SetTableSurvives'
  <2>1. kept[c] = NoTable \/ c \in swallowed
    BY <1>1, <1>3 DEF SetTableSurvives
  <2> QED
    BY <1>1, <1>2, <1>4, <2>1 DEF SetTableSurvives
<1>12. DevTablesAgree' /\ AcceptedTablesBoot'
  BY <1>1, <1>2 DEF DevTablesAgree, AcceptedTablesBoot
<1> QED
  BY <1>6, <1>8, <1>9, <1>10, <1>11, <1>12 DEF TablesInv

\* A layout is judged with the other tables in memory.
LEMMA SetPartitionKeeps ==
  ASSUME TablesInv, SetPartition
  PROVE  TablesInv'
<1>1. /\ Typed /\ Commands /\ Writing /\ Judged
      /\ SetTableSurvives /\ DevTablesAgree /\ AcceptedTablesBoot
  BY DEF TablesInv
<1>2. PICK c \in Chip, r \in Requests, leftover \in Leftovers :
        /\ is_valid_partition_table(c, Layout(r, leftover))
        /\ call' = [chip |-> c, tab |-> Corrected(Layout(r, leftover)), next |-> 0]
  BY DEF SetPartition
<1>3. /\ power = "on" /\ pc' = "erase" /\ flash' = flash /\ op' = op /\ power' = power
      /\ mem' = mem /\ kept' = kept /\ swallowed' = swallowed /\ missed' = missed
  BY DEF SetPartition, Up, hist
<1> PICK t : t = Layout(r, leftover)
  OBVIOUS
<1>4. /\ t \in Tab /\ Stop(t) = {} /\ t.NumPartitions \in 1 .. MAX_FLASH_PARTITIONS
      /\ Makes([mem.PartTable EXCEPT ![c] = Corrected(t)])
      /\ call'.chip = c /\ call'.tab = Corrected(t) /\ call' = [chip |-> c, tab |-> Corrected(t), next |-> 0]
  BY <1>2, LayoutType DEF is_valid_partition_table
<1>5. Corrected(t) \in CorrectTab /\ Corrected(t).NumPartitions > 0
  BY <1>4, CorrectedType, CorrectedIsCorrect, Sizes
<1>6. Typed'
  BY <1>1, <1>3, <1>4, <1>5, Sizes DEF Typed
<1>7. Commands'
  BY <1>1, <1>3, <1>4, <1>5 DEF Commands
<1>8. Writing' /\ Judged'
  BY <1>1, <1>3, <1>4 DEF Writing, Judged
<1>9. SetTableSurvives' /\ DevTablesAgree' /\ AcceptedTablesBoot'
  BY <1>1, <1>3 DEF SetTableSurvives, DevTablesAgree, AcceptedTablesBoot
<1> QED
  BY <1>6, <1>7, <1>8, <1>9 DEF TablesInv

\* A call that meets a failed operation of chip c ends with an error.
LEMMA RefusedKeeps ==
  ASSUME TablesInv, power = "on", NEW c \in Chip, Refused(c), EndCall,
         UNCHANGED <<flash, power, mem, kept, swallowed, missed>>
  PROVE  TablesInv'
<1>1. /\ Typed /\ Commands /\ Writing /\ Judged
      /\ SetTableSurvives /\ DevTablesAgree /\ AcceptedTablesBoot
  BY DEF TablesInv
<1>2. /\ flash' = flash /\ power' = power /\ mem' = mem /\ kept' = kept
      /\ swallowed' = swallowed /\ missed' = missed /\ pc' = "idle" /\ call' = NoCall
  BY DEF EndCall
<1>3. op[c] = Failed /\ op' = [op EXCEPT ![c] = Idle] /\ op \in [Chip -> Command]
  BY <1>1 DEF Refused, Given, Typed
<1>4. /\ op' \in [Chip -> Command] /\ op'[c] = Idle
      /\ \A d \in Chip \ {c} : op'[d] = op[d]
  BY <1>3, CommandType
<1>5. NoCall \in [chip : Chip, tab : CorrectTab, next : Chip]
  BY CommandType, Sizes DEF NoCall
<1>6. Typed'
  BY <1>1, <1>2, <1>4, <1>5 DEF Typed
<1>7. Commands'
  BY <1>1, <1>2, <1>4, CommandType DEF Commands
<1>8. Writing'
  BY <1>2 DEF Writing
<1>9. Judged'
  <2>1. ASSUME NEW d \in Chip
        PROVE  /\ op'[d].tab \in {NoTable, mem.PartTable[d]}
               /\ \/ flash[d] \in {NoTable, mem.PartTable[d]}
                  \/ d \in swallowed /\ op'[d].cmd = "program"
    BY <1>1, <1>3, <1>4, CommandType DEF Judged
  <2> QED
    BY <1>1, <1>2, <2>1 DEF Judged
<1>10. SetTableSurvives'
  BY <1>1, <1>2, <1>4, CommandType DEF SetTableSurvives
<1>11. DevTablesAgree' /\ AcceptedTablesBoot'
  BY <1>1, <1>2 DEF DevTablesAgree, AcceptedTablesBoot
<1> QED
  BY <1>6, <1>7, <1>8, <1>9, <1>10, <1>11 DEF TablesInv

\* The table last reported set is given up with the erase.
LEMMA EraseTableKeeps ==
  ASSUME TablesInv, EraseTable
  PROVE  TablesInv'
<1>1. /\ Typed /\ Commands /\ Writing /\ Judged
      /\ SetTableSurvives /\ DevTablesAgree /\ AcceptedTablesBoot
  BY DEF TablesInv
<1> PICK c : c = call.chip
  OBVIOUS
<1>2. /\ power = "on" /\ pc = "erase" /\ c \in Chip
      /\ flash' = flash /\ power' = power /\ mem' = mem
      /\ swallowed' = swallowed /\ missed' = missed
  BY <1>1, TypedIs DEF EraseTable
<1>3. op \in [Chip -> Command] /\ kept \in [Chip -> CorrectTab]
  BY <1>1 DEF Typed
<1>4. CASE Refused(c) /\ EndCall /\ UNCHANGED kept
  BY <1>2, <1>4, RefusedKeeps
<1>5. CASE /\ Ready(c) /\ Given(c, [cmd |-> "erase", tab |-> NoTable])
           /\ pc' = "program" /\ UNCHANGED call
           /\ kept' = [kept EXCEPT ![c] = NoTable]
  <2>1. /\ op' \in [Chip -> Command] /\ op'[c].cmd = "erase" /\ op'[c].tab = NoTable
        /\ \A d \in Chip \ {c} : op'[d] = op[d]
        /\ op[c] = Idle /\ pc' = "program" /\ call' = call
    BY <1>2, <1>3, <1>5, CommandType DEF Ready, Given
  <2>2. /\ kept' \in [Chip -> CorrectTab] /\ kept'[c] = NoTable
        /\ \A d \in Chip \ {c} : kept'[d] = kept[d]
    BY <1>2, <1>3, <1>5, CommandType
  <2>3. Typed'
    BY <1>1, <1>2, <2>1, <2>2 DEF Typed
  <2>4. Commands'
    BY <1>1, <1>2, <2>1 DEF Commands
  <2>5. Writing'
    BY <1>1, <1>2, <2>1, <2>2, CommandType DEF Writing
  <2>6. Judged'
    <3>1. ASSUME NEW d \in Chip
          PROVE  /\ op'[d].tab \in {NoTable, mem.PartTable[d]}
                 /\ \/ flash[d] \in {NoTable, mem.PartTable[d]}
                    \/ d \in swallowed /\ op'[d].cmd = "program"
      BY <1>1, <1>2, <2>1, CommandType DEF Judged
    <3> QED
      BY <1>1, <1>2, <2>1, <3>1 DEF Judged
  <2>7. SetTableSurvives'
    BY <1>1, <1>2, <2>1, <2>2 DEF SetTableSurvives
  <2>8. DevTablesAgree' /\ AcceptedTablesBoot'
    BY <1>1, <1>2 DEF DevTablesAgree, AcceptedTablesBoot
  <2> QED
    BY <2>3, <2>4, <2>5, <2>6, <2>7, <2>8 DEF TablesInv
<1> QED
  BY <1>4, <1>5 DEF EraseTable

\* The program starts with the table in memory, and with no table on flash
\* unless an erase failed unnoticed.
LEMMA ProgramTableKeeps ==
  ASSUME TablesInv, ProgramTable
  PROVE  TablesInv'
<1>1. /\ Typed /\ Commands /\ Writing /\ Judged
      /\ SetTableSurvives /\ DevTablesAgree /\ AcceptedTablesBoot
  BY DEF TablesInv
<1> PICK c : c = call.chip
  OBVIOUS
<1>2. /\ power = "on" /\ pc = "program" /\ c \in Chip
      /\ flash' = flash /\ power' = power /\ kept' = kept
  BY <1>1, TypedIs DEF ProgramTable
<1>3. op \in [Chip -> Command] /\ call.tab \in CorrectTab /\ call.tab \in Tab
  BY <1>1, TypedIs DEF Typed, CorrectTab
<1> PICK T : T = [mem.PartTable EXCEPT ![c] = call.tab]
  OBVIOUS
<1>4. /\ T \in [Chip -> Tab] /\ T[c] = call.tab /\ \A d \in Chip \ {c} : T[d] = mem.PartTable[d]
      /\ Makes(T)
  BY <1>1, <1>2, <1>3, TypedIs DEF Judged
<1> DEFINE Program(t) == /\ Given(c, [cmd |-> "program", tab |-> t])
                         /\ mem' = Tables(T)
                         /\ pc' = "read" /\ UNCHANGED call
                         /\ missed' = FALSE
<1>5. CASE Refused(c) /\ EndCall /\ UNCHANGED <<mem, swallowed, missed>>
  BY <1>2, <1>5, RefusedKeeps
<1>6. ASSUME NEW t \in {call.tab, NoTable}, Program(t),
             \/ t = call.tab /\ op[c] = Idle /\ swallowed' = swallowed \ {c}
             \/ t = NoTable /\ op[c] = Failed /\ swallowed' = swallowed \cup {c}
      PROVE  TablesInv'
  <2>1. t \in CorrectTab
    BY <1>3, CommandType
  <2>2. /\ op' \in [Chip -> Command] /\ op'[c] = [cmd |-> "program", tab |-> t]
        /\ op'[c].cmd = "program" /\ op'[c].tab = t
        /\ \A d \in Chip \ {c} : op'[d] = op[d]
    BY <1>2, <1>3, <1>6, <2>1, CommandType DEF Given
  <2>3. /\ mem' \in Mem /\ mem'.PartTable = T
        /\ mem'.RAWDevTable = make_blk_dev_table(T, "RAW")
        /\ mem'.FTLDevTable = make_blk_dev_table(T, "FTL")
        /\ pc' = "read" /\ call' = call
    BY <1>4, <1>6, TablesType
  <2>4. /\ swallowed' \in SUBSET Chip
        /\ \A d \in Chip \ {c} : d \in swallowed' <=> d \in swallowed
        /\ c \in swallowed' <=> t = NoTable /\ op[c] = Failed
    BY <1>1, <1>2, <1>6, CommandType DEF Typed
  <2>5. Typed'
    BY <1>1, <1>2, <2>2, <2>3, <2>4 DEF Typed
  <2>6. Commands'
    BY <1>1, <1>2, <2>2, <2>3 DEF Commands
  <2>7. kept[c] = NoTable /\ (op[c] = Idle => flash[c] = NoTable) /\ call.next = 0 /\ ~ (0 > c)
    BY <1>1, <1>2, Sizes DEF Writing
  <2>8. Writing'
    <3>1. op'[c] # Idle
      BY <2>2, CommandType
    <3> QED
      BY <1>2, <1>4, <1>6, <2>2, <2>3, <2>4, <2>7, <3>1 DEF Writing
  <2>9. Judged'
    <3>1. ASSUME NEW d \in Chip
          PROVE  /\ op'[d].tab \in {NoTable, T[d]}
                 /\ \/ flash[d] \in {NoTable, T[d]}
                    \/ d \in swallowed' /\ op'[d].cmd = "program"
      <4>1. CASE d = c
        BY <1>4, <1>6, <2>2, <2>4, <2>7, <4>1
      <4>2. CASE d # c
        BY <1>1, <1>2, <1>4, <2>2, <2>4, <4>2 DEF Judged
      <4> QED
        BY <4>1, <4>2
    <3> QED
      BY <1>2, <1>4, <2>3, <3>1 DEF Judged
  <2>10. SetTableSurvives'
    <3>1. ASSUME NEW d \in Chip, kept[d] # NoTable, d \notin swallowed'
          PROVE  flash[d] = kept[d] /\ op'[d].cmd \in {"none", "failed"} /\ T[d] = kept[d]
      <4>1. d # c /\ d \notin swallowed
        BY <2>4, <2>7, <3>1
      <4> QED
        BY <1>1, <1>2, <1>4, <2>2, <3>1, <4>1 DEF SetTableSurvives
    <3> QED
      BY <1>2, <2>3, <3>1 DEF SetTableSurvives
  <2>11. DevTablesAgree' /\ AcceptedTablesBoot'
    BY <1>2, <2>3 DEF DevTablesAgree, AcceptedTablesBoot
  <2> QED
    BY <2>5, <2>6, <2>8, <2>9, <2>10, <2>11 DEF TablesInv
<1>7. \/ Refused(c) /\ EndCall /\ UNCHANGED <<mem, swallowed, missed>>
      \/ Ready(c) /\ Program(call.tab) /\ swallowed' = swallowed \ {c}
      \/ op[c] = Failed /\ Program(NoTable) /\ swallowed' = swallowed \cup {c}
  BY DEF ProgramTable
<1> HIDE DEF Program
<1> QED
  BY <1>5, <1>6, <1>7 DEF Ready

\* The read-back finds on each chip what memory has, or no table.
LEMMA ReadBackKeeps ==
  ASSUME TablesInv, ReadBack
  PROVE  TablesInv'
<1>1. /\ Typed /\ Commands /\ Writing /\ Judged
      /\ SetTableSurvives /\ DevTablesAgree /\ AcceptedTablesBoot
  BY DEF TablesInv
<1> PICK c : c = call.next
  OBVIOUS
<1> PICK k : k = call.chip
  OBVIOUS
<1>2. /\ power = "on" /\ pc = "read" /\ c \in Chip /\ k \in Chip
      /\ flash' = flash /\ power' = power /\ swallowed' = swallowed
  BY <1>1, TypedIs DEF ReadBack
<1>3. CASE Refused(c) /\ EndCall /\ UNCHANGED <<mem, kept, missed>>
  BY <1>2, <1>3, RefusedKeeps
<1>4. CASE
    /\ Ready(c) /\ UNCHANGED op
    /\ mem' = LFD_ReadPartitionTable(mem, c)
    /\ missed' = IF flash[c] = NoTable THEN missed \/ mem.PartTable[c].NumPartitions > 0
                 ELSE ReadFails(mem, c)
    /\ IF ReadFails(mem, c) \/ ~ CanOpen(mem'.PartTable[c])
       THEN EndCall /\ UNCHANGED kept
       ELSE IF NextChip \in Chip
       THEN call' = [call EXCEPT !.next = NextChip] /\ UNCHANGED <<pc, kept>>
       ELSE EndCall /\ kept' = [kept EXCEPT ![k] = call.tab]
  <2> PICK T : T = mem.PartTable
    OBVIOUS
  <2> PICK n : n = mem'
    OBVIOUS
  <2>1. /\ T \in [Chip -> Tab] /\ mem \in Mem /\ flash \in [Chip -> Tab]
        /\ flash[c] \in CorrectTab /\ Corrected(flash[c]) = flash[c]
    BY <1>1, <1>2, TypedIs DEF Typed
  <2>2. ReadGives(mem, c, n)
    BY <1>2, <1>4, <2>1, ReadIs
  <2>3. op[c] = Idle /\ op' = op /\ (flash[c] = NoTable \/ flash[c] = T[c]) /\ Makes(T)
    BY <1>1, <1>2, <1>4, CommandType DEF Ready, Judged
  <2>4. flash[c] # NoTable => PartTableRead(mem, c) = T
    BY <1>2, <2>1, <2>3 DEF PartTableRead
  <2>5. ~ ReadFails(mem, c)
    BY <2>3, <2>4 DEF ReadFails
  <2>6. /\ n \in Mem
        /\ flash[c] # NoTable => n = Tables(T) /\ n.PartTable = T
        /\ flash[c] = NoTable => /\ n.PartTable = [T EXCEPT ![c].NumPartitions = 0]
                                 /\ n.RAWDevTable = mem.RAWDevTable
                                 /\ n.FTLDevTable = mem.FTLDevTable
    BY <2>2, <2>4, <2>5 DEF ReadGives
  <2>7. /\ n.PartTable \in [Chip -> Tab]
        /\ \A d \in Chip \ {c} : n.PartTable[d] = T[d]
        /\ flash[c] # NoTable => n.PartTable[c] = flash[c]
        /\ flash[c] = NoTable => n.PartTable[c].NumPartitions = 0
    <3>1. n.PartTable \in [Chip -> Tab]
      BY <2>6 DEF Mem
    <3>2. CASE flash[c] # NoTable
      BY <1>2, <2>3, <2>6, <3>1, <3>2
    <3>3. CASE flash[c] = NoTable
      <4>1. T[c] \in Tab
        BY <1>2, <2>1
      <4>2. [T[c] EXCEPT !.NumPartitions = 0].NumPartitions = 0
        BY <4>1 DEF Tab
      <4>3. n.PartTable = [T EXCEPT ![c] = [T[c] EXCEPT !.NumPartitions = 0]]
        BY <2>6, <3>3
      <4> QED
        BY <1>2, <2>1, <3>1, <3>3, <4>2, <4>3
    <3> QED
      BY <3>2, <3>3
  <2>8. Makes(n.PartTable)
    <3>1. Fewer(n.PartTable, T)
      BY <2>3, <2>7 DEF Fewer
    <3> PICK N : N = n.PartTable
      OBVIOUS
    <3> QED
      BY <2>1, <2>3, <2>7, <3>1, FewerMakes
  <2>9. \/ pc' = "idle" /\ call' = NoCall /\ kept' = kept
        \/ pc' = "read" /\ c + 1 \in Chip /\ call' = [call EXCEPT !.next = c + 1] /\ kept' = kept
        \/ pc' = "idle" /\ call' = NoCall /\ c + 1 \notin Chip /\ kept' = [kept EXCEPT ![k] = call.tab]
    BY <1>2, <1>4, <2>5 DEF EndCall, NextChip
  <2>10. ASSUME k \notin swallowed, k <= c
         PROVE  op[k] = Idle /\ flash[k] = call.tab /\ n.PartTable[k] = call.tab
    <3>1. /\ mem.PartTable[k] = call.tab
          /\ op[k] = Idle => flash[k] = call.tab
          /\ call.next > k => op[k] = Idle
      BY <1>1, <1>2, <2>10 DEF Writing
    <3>2. k \in Nat /\ c \in Nat
      BY <1>2, Sizes
    <3>3. call.tab # NoTable
      BY <1>1, <1>2, CommandType DEF Commands
    <3>4. CASE k = c
      BY <2>3, <2>7, <3>1, <3>3, <3>4
    <3>5. CASE k < c
      BY <1>2, <2>7, <3>1, <3>2, <3>5
    <3> QED
      BY <2>10, <3>2, <3>4, <3>5
  <2>11. /\ call.tab \in CorrectTab /\ kept \in [Chip -> CorrectTab] /\ kept[k] = NoTable
         /\ call \in [chip : Chip, tab : CorrectTab, next : Chip]
    BY <1>1, <1>2 DEF Typed, Writing
  <2>12. Typed'
    <3>1. NoCall \in [chip : Chip, tab : CorrectTab, next : Chip]
      BY CommandType, Sizes DEF NoCall
    <3>2. /\ call' \in [chip : Chip, tab : CorrectTab, next : Chip]
          /\ kept' \in [Chip -> CorrectTab]
      BY <2>9, <2>11, <3>1
    <3> QED
      BY <1>1, <1>2, <2>3, <2>6, <2>9, <3>2 DEF Typed
  <2>13. Commands'
    <3>1. pc' = "read" => call'.tab = call.tab
      BY <2>9, <2>11
    <3> QED
      BY <1>1, <1>2, <2>3, <2>9, <3>1 DEF Commands
  <2>14. Writing'
    <3>1. CASE pc' = "idle"
      BY <3>1 DEF Writing
    <3>2. CASE pc' = "read" /\ c + 1 \in Chip /\ call' = [call EXCEPT !.next = c + 1] /\ kept' = kept
      <4>1. call'.chip = k /\ call'.tab = call.tab /\ call'.next = c + 1
        BY <2>11, <3>2
      <4>2. k \in Nat /\ c \in Nat /\ (c + 1 > k => k <= c)
        BY <1>2, Sizes
      <4>3. ASSUME k \notin swallowed
            PROVE  /\ n.PartTable[k] = call.tab
                   /\ op[k] \in {Idle, Failed, [cmd |-> "program", tab |-> call.tab]}
                   /\ op[k] = Idle => flash[k] = call.tab
        <5>1. /\ mem.PartTable[k] = call.tab
              /\ op[k] \in {Idle, Failed, [cmd |-> "program", tab |-> call.tab]}
              /\ op[k] = Idle => flash[k] = call.tab
          BY <1>1, <1>2, <4>3 DEF Writing
        <5>2. CASE k = c
          BY <2>10, <4>2, <4>3, <5>1, <5>2
        <5>3. CASE k # c
          BY <1>2, <2>7, <5>1, <5>3
        <5> QED
          BY <5>2, <5>3
      <4>4. k \notin swallowed /\ c + 1 > k => op[k] = Idle
        BY <2>10, <4>2
      <4> QED
        BY <1>2, <2>3, <2>11, <3>2, <4>1, <4>3, <4>4 DEF Writing
    <3> QED
      BY <2>9, <3>1, <3>2
  <2>15. Judged'
    <3>1. ASSUME NEW d \in Chip
          PROVE  /\ op[d].tab \in {NoTable, n.PartTable[d]}
                 /\ \/ flash[d] \in {NoTable, n.PartTable[d]}
                    \/ d \in swallowed /\ op[d].cmd = "program"
      <4>1. CASE d = c
        BY <2>3, <2>7, <4>1, CommandType
      <4>2. CASE d # c
        BY <1>1, <1>2, <2>7, <4>2 DEF Judged
      <4> QED
        BY <4>1, <4>2
    <3> QED
      BY <1>2, <2>3, <2>8, <2>9, <3>1 DEF Judged
  <2>16. SetTableSurvives'
    <3>1. ASSUME NEW d \in Chip, kept'[d] # NoTable, d \notin swallowed
          PROVE  flash[d] = kept'[d] /\ op[d].cmd \in {"none", "failed"} /\ n.PartTable[d] = kept'[d]
      <4>1. CASE kept'[d] = kept[d]
        <5>1. flash[d] = kept[d] /\ op[d].cmd \in {"none", "failed"} /\ T[d] = kept[d]
          BY <1>1, <1>2, <3>1, <4>1 DEF SetTableSurvives
        <5> QED
          BY <2>7, <3>1, <4>1, <5>1
      <4>2. CASE kept'[d] # kept[d]
        <5>1. d = k /\ kept'[d] = call.tab /\ c + 1 \notin Chip
          BY <1>2, <2>9, <2>11, <4>2
        <5>2. k <= c
          BY <1>2, <5>1, Sizes DEF Chip
        <5> QED
          BY <2>10, <3>1, <5>1, <5>2, CommandType
      <4> QED
        BY <4>1, <4>2
    <3> QED
      BY <1>2, <2>3, <3>1 DEF SetTableSurvives
  <2>17. DevTablesAgree'
    <3> SUFFICES ASSUME ~ missed'
                 PROVE  /\ n.RAWDevTable = make_blk_dev_table(n.PartTable, "RAW")
                        /\ n.FTLDevTable = make_blk_dev_table(n.PartTable, "FTL")
      BY DEF DevTablesAgree
    <3>1. CASE flash[c] # NoTable
      BY <2>1, <2>6, <3>1, TablesType
    <3>2. CASE flash[c] = NoTable
      <4>1. ~ missed /\ ~ (T[c].NumPartitions > 0) /\ T[c] \in Tab
        BY <1>2, <1>4, <2>1, <3>2
      <4>2. [T[c] EXCEPT !.NumPartitions = 0] = T[c]
        BY <4>1 DEF Tab
      <4>3. n.PartTable = T
        BY <1>2, <2>1, <2>6, <3>2, <4>2
      <4> QED
        BY <1>1, <1>2, <2>6, <3>2, <4>1, <4>3 DEF DevTablesAgree
    <3> QED
      BY <3>1, <3>2
  <2>18. AcceptedTablesBoot'
    BY <1>1, <1>2 DEF AcceptedTablesBoot
  <2> QED
    BY <2>12, <2>13, <2>14, <2>15, <2>16, <2>17, <2>18 DEF TablesInv
<1> QED
  BY <1>3, <1>4 DEF ReadBack

\* Calls of device users: they may erase a table, and meet or leave a failed
\* operation, on chips that have none under way.
LEMMA CallsKeep ==
  ASSUME TablesInv, pc = "idle", power = "on", power' \in {"on", "oops"},
         UNCHANGED <<mem, call_vars, swallowed, missed>>,
         op' \in [Chip -> Command], flash' \in [Chip -> CorrectTab], kept' \in [Chip -> CorrectTab],
         \A c \in Chip : \/ op'[c] = op[c]
                         \/ op[c] \in {Idle, Failed} /\ op'[c] \in {Idle, Failed},
         \A c \in Chip : \/ flash'[c] = flash[c] /\ kept'[c] = kept[c]
                         \/ flash'[c] = NoTable /\ kept'[c] = NoTable
  PROVE  TablesInv'
<1>1. /\ Typed /\ Commands /\ Writing /\ Judged
      /\ SetTableSurvives /\ DevTablesAgree /\ AcceptedTablesBoot
  BY DEF TablesInv
<1>2. /\ mem' = mem /\ pc' = "idle" /\ call' = call
      /\ swallowed' = swallowed /\ missed' = missed
  BY DEF call_vars
<1>3. Typed'
  BY <1>1, <1>2 DEF Typed
<1>4. Commands'
  BY <1>1, <1>2, CommandType DEF Commands
<1>5. Writing'
  BY <1>2 DEF Writing
<1>6. Judged'
  <2>1. ASSUME NEW d \in Chip
        PROVE  /\ op'[d].tab \in {NoTable, mem.PartTable[d]}
               /\ \/ flash'[d] \in {NoTable, mem.PartTable[d]}
                  \/ d \in swallowed /\ op'[d].cmd = "program"
    <3>1. /\ op[d].tab \in {NoTable, mem.PartTable[d]}
          /\ \/ flash[d] \in {NoTable, mem.PartTable[d]}
             \/ d \in swallowed /\ op[d].cmd = "program"
      BY <1>1 DEF Judged
    <3>2. op'[d] = op[d] \/ (op'[d].tab = NoTable /\ op[d].cmd # "program")
      BY CommandType
    <3> QED
      BY <3>1, <3>2
  <2> QED
    BY <1>1, <1>2, <2>1 DEF Judged
<1>7. SetTableSurvives'
  <2>1. ASSUME NEW d \in Chip, kept'[d] # NoTable, d \notin swallowed
        PROVE  flash'[d] = kept'[d] /\ op'[d].cmd \in {"none", "failed"} /\ mem.PartTable[d] = kept'[d]
    <3>1. flash'[d] = flash[d] /\ kept'[d] = kept[d]
      BY <2>1
    <3>2. op'[d] = op[d] \/ op'[d].cmd \in {"none", "failed"}
      BY CommandType
    <3> QED
      BY <1>1, <2>1, <3>1, <3>2 DEF SetTableSurvives
  <2> QED
    BY <1>2, <2>1 DEF SetTableSurvives
<1>8. DevTablesAgree' /\ AcceptedTablesBoot'
  BY <1>1, <1>2 DEF DevTablesAgree, AcceptedTablesBoot
<1> QED
  BY <1>3, <1>4, <1>5, <1>6, <1>7, <1>8 DEF TablesInv

LEMMA OpenCloseKeep ==
  ASSUME TablesInv, NEW id \in Ids, FD_Open(id) \/ FD_Close(id)
  PROVE  TablesInv'
<1>1. /\ power = "on" /\ pc = "idle" /\ power' = power /\ mem' = mem /\ pc' = pc /\ call' = call
      /\ swallowed' = swallowed /\ missed' = missed /\ op' = op /\ flash' = flash /\ kept' = kept
  BY DEF FD_Open, FD_Close, Up, call_vars
<1>2. /\ op \in [Chip -> Command] /\ flash \in [Chip -> CorrectTab]
      /\ kept \in [Chip -> CorrectTab]
  BY DEF TablesInv, Typed
<1> QED
  BY <1>1, <1>2, CallsKeep DEF call_vars

LEMMA OverwrittenIs ==
  ASSUME Typed, NEW C, Overwritten(C)
  PROVE  /\ flash' \in [Chip -> CorrectTab] /\ kept' \in [Chip -> CorrectTab]
         /\ \A c \in Chip : \/ flash'[c] = flash[c] /\ kept'[c] = kept[c]
                            \/ flash'[c] = NoTable /\ kept'[c] = NoTable
BY CommandType DEF Typed, Overwritten

LEMMA EraseKeeps ==
  ASSUME TablesInv, NEW id \in Ids, FD_Erase(id)
  PROVE  TablesInv'
<1>1. /\ power = "on" /\ pc = "idle" /\ mem' = mem /\ pc' = pc /\ call' = call
      /\ swallowed' = swallowed /\ missed' = missed
  BY DEF FD_Erase, Up, call_vars
<1>2. /\ op \in [Chip -> Command] /\ flash \in [Chip -> CorrectTab]
      /\ kept \in [Chip -> CorrectTab] /\ Typed
  BY DEF TablesInv, Typed
<1>3. PICK b \in 0 .. LDev[id].NumBlocks - 1 :
       LET at == LFD_GetPartitionInfo(LDev[id], b)
       IN  \/ at = Nowhere /\ power' = "oops" /\ Spend("erases") /\ UNCHANGED <<flash, op, kept>>
           \/ /\ at # Nowhere /\ Refused(at[1]) /\ UNCHANGED <<flash, power, kept, budget>>
           \/ /\ at # Nowhere /\ Ready(at[1]) /\ UNCHANGED power
              /\ \/ UNCHANGED op /\ Spend("erases")
                 \/ Given(at[1], Failed) /\ Spend("failures")
              /\ Overwritten(IF at[2] = PartTableBlock THEN {at[1]} ELSE {})
  BY DEF FD_Erase
<1> PICK at : at = LFD_GetPartitionInfo(LDev[id], b)
  OBVIOUS
<1>4. CASE power' = "oops" /\ UNCHANGED <<flash, op, kept>>
  BY <1>1, <1>2, <1>4, CallsKeep DEF call_vars
<1>5. CASE Refused(at[1]) /\ UNCHANGED <<flash, power, kept>>
  <2>1. /\ op' \in [Chip -> Command]
        /\ \A c \in Chip : op'[c] = op[c] \/ (op[c] \in {Idle, Failed} /\ op'[c] \in {Idle, Failed})
    BY <1>2, <1>5, CommandType DEF Refused, Given
  <2> QED
    BY <1>1, <1>2, <1>5, <2>1, CallsKeep DEF call_vars
<1>6. ASSUME Ready(at[1]), UNCHANGED power, UNCHANGED op \/ Given(at[1], Failed),
             NEW C, Overwritten(C)
      PROVE  TablesInv'
  <2>1. /\ op' \in [Chip -> Command]
        /\ \A c \in Chip : op'[c] = op[c] \/ (op[c] \in {Idle, Failed} /\ op'[c] \in {Idle, Failed})
    BY <1>2, <1>6, CommandType DEF Ready, Given
  <2>2. /\ flash' \in [Chip -> CorrectTab] /\ kept' \in [Chip -> CorrectTab]
        /\ \A c \in Chip : \/ flash'[c] = flash[c] /\ kept'[c] = kept[c]
                           \/ flash'[c] = NoTable /\ kept'[c] = NoTable
    BY <1>2, <1>6, OverwrittenIs
  <2> QED
    BY <1>1, <1>6, <2>1, <2>2, CallsKeep DEF call_vars
<1> QED
  BY <1>3, <1>4, <1>5, <1>6

LEMMA ErasePartKeeps ==
  ASSUME TablesInv, NEW id \in Ids, LFD_ErasePart(id)
  PROVE  TablesInv'
<1>1. /\ power = "on" /\ pc = "idle" /\ power' = power /\ mem' = mem /\ pc' = pc /\ call' = call
      /\ swallowed' = swallowed /\ missed' = missed
  BY DEF LFD_ErasePart, Up, call_vars
<1>2. op \in [Chip -> Command] /\ Typed
  BY DEF TablesInv, Typed
<1>3. \E C, D : /\ \A c \in C : Ready(c) \/ op[c] = Failed
                /\ op' = [c \in Chip |-> IF c \in C THEN Idle ELSE op[c]]
                /\ Overwritten(D)
  BY DEF LFD_ErasePart
<1> PICK C, D : /\ \A c \in C : Ready(c) \/ op[c] = Failed
                /\ op' = [c \in Chip |-> IF c \in C THEN Idle ELSE op[c]]
                /\ Overwritten(D)
  BY <1>3
<1>4. /\ op' \in [Chip -> Command]
      /\ \A c \in Chip : op'[c] = op[c] \/ (op[c] \in {Idle, Failed} /\ op'[c] \in {Idle, Failed})
  BY <1>2, CommandType DEF Ready
<1>5. /\ flash' \in [Chip -> CorrectTab] /\ kept' \in [Chip -> CorrectTab]
      /\ \A c \in Chip : \/ flash'[c] = flash[c] /\ kept'[c] = kept[c]
                         \/ flash'[c] = NoTable /\ kept'[c] = NoTable
  BY <1>2, OverwrittenIs
<1> QED
  BY <1>1, <1>4, <1>5, CallsKeep DEF call_vars

\* Without power a chip holds what it held, nothing, or what it was being given.
LEMMA CutKeeps ==
  ASSUME TablesInv, PowerLoss
  PROVE  TablesInv'
<1>1. /\ Typed /\ Commands /\ Writing /\ Judged
      /\ SetTableSurvives /\ DevTablesAgree /\ AcceptedTablesBoot
  BY DEF TablesInv
<1>2. /\ power \in {"on", "oops"} /\ power' = "off" /\ pc' = "idle" /\ call' = NoCall
      /\ op' = [c \in Chip |-> Idle] /\ mem' = Blank
      /\ kept' = kept /\ swallowed' = swallowed /\ missed' = FALSE
  BY DEF PowerLoss, EndCall
<1>3. PICK C \in SUBSET Chip :
        flash' = [c \in Chip |->
          IF op[c].cmd = "erase"   THEN (IF c \in C THEN NoTable ELSE flash[c])
          ELSE IF op[c].cmd = "program" /\ c \in C THEN op[c].tab ELSE flash[c]]
  BY DEF PowerLoss
<1>4. \A c \in Chip : /\ flash[c] \in CorrectTab /\ op[c] \in Command /\ op[c].tab \in CorrectTab
                      /\ op[c].cmd \in {"none", "erase", "program", "failed"}
  BY <1>1 DEF Typed, Command
<1>5. /\ flash' \in [Chip -> CorrectTab]
      /\ \A c \in Chip : /\ flash'[c] \in {flash[c], NoTable, op[c].tab}
                         /\ op[c].cmd \in {"none", "failed"} => flash'[c] = flash[c]
  BY <1>3, <1>4, CommandType
<1>6. NoCall \in [chip : Chip, tab : CorrectTab, next : Chip]
  BY CommandType, Sizes DEF NoCall
<1>7. Typed'
  BY <1>1, <1>2, <1>5, <1>6, BlankType, CommandType DEF Typed
<1>8. Commands' /\ Writing'
  BY <1>2, CommandType DEF Commands, Writing
<1>9. Judged'
  <2>1. ASSUME swallowed = {} PROVE Makes(flash')
    <3> PICK f : f = flash'
      OBVIOUS
    <3>1. mem.PartTable \in [Chip -> Tab] /\ Makes(mem.PartTable)
      BY <1>1, <1>2, TypedIs DEF Judged
    <3>2. f \in [Chip -> Tab]
      BY <1>5 DEF CorrectTab
    <3>3. \A c \in Chip : f[c] = mem.PartTable[c] \/ f[c] = NoTable
      BY <1>1, <1>2, <1>5, <2>1 DEF Judged
    <3>4. Fewer(f, mem.PartTable)
      BY <3>3, CommandType DEF Fewer
    <3> PICK T : T = mem.PartTable
      OBVIOUS
    <3>5. Makes(f)
      BY <3>1, <3>2, <3>4, FewerMakes
    <3> QED
      BY <3>5
  <2> QED
    BY <1>2, <2>1 DEF Judged, Makes, Overfull, Members, IndexOf
<1>10. SetTableSurvives'
  BY <1>1, <1>2, <1>5, CommandType DEF SetTableSurvives
<1>11. DevTablesAgree' /\ AcceptedTablesBoot'
  BY <1>2 DEF DevTablesAgree, AcceptedTablesBoot
<1> QED
  BY <1>7, <1>8, <1>9, <1>10, <1>11 DEF TablesInv

\* The driver comes up with the tables that are on flash.
LEMMA BootKeeps ==
  ASSUME TablesInv, FD_Init
  PROVE  TablesInv'
<1>1. /\ Typed /\ Commands /\ Writing /\ Judged
      /\ SetTableSurvives /\ DevTablesAgree /\ AcceptedTablesBoot
  BY DEF TablesInv
<1>2. /\ power = "off" /\ flash' = flash /\ op' = op /\ pc' = pc /\ call' = call
      /\ kept' = kept /\ swallowed' = swallowed /\ missed' = missed
  BY DEF FD_Init, call_vars, hist
<1>3. flash \in [Chip -> Tab] /\ OnFlash = flash
  BY <1>1, TypedIs
<1>4. /\ mem' \in Mem /\ mem'.PartTable = flash
      /\ \/ power' = "on" /\ Makes(flash) /\ mem' = Tables(flash)
         \/ power' = "failed" /\ ~ Makes(flash)
  BY <1>3, InitReads
<1>5. pc = "idle" /\ \A c \in Chip : op[c] = Idle
  BY <1>1, <1>2 DEF Commands
<1>6. Typed'
  BY <1>1, <1>2, <1>4 DEF Typed
<1>7. Commands' /\ Writing'
  BY <1>1, <1>2, <1>5 DEF Commands, Writing
<1>8. Judged'
  BY <1>2, <1>4, <1>5, CommandType DEF Judged
<1>9. SetTableSurvives'
  BY <1>1, <1>2, <1>4 DEF SetTableSurvives
<1>10. DevTablesAgree'
  BY <1>3, <1>4, TablesType DEF DevTablesAgree
<1>11. AcceptedTablesBoot'
  BY <1>1, <1>2, <1>4 DEF AcceptedTablesBoot, Judged
<1> QED
  BY <1>6, <1>7, <1>8, <1>9, <1>10, <1>11 DEF TablesInv

LEMMA TablesStep ==
  ASSUME TablesInv, [Next]_vars
  PROVE  TablesInv'
<1>1. CASE UNCHANGED vars
  <2>1. /\ flash' = flash /\ op' = op /\ power' = power /\ mem' = mem /\ pc' = pc /\ call' = call
        /\ kept' = kept /\ swallowed' = swallowed /\ missed' = missed
    BY <1>1 DEF vars, call_vars, hist
  <2> QED
    BY <2>1 DEF TablesInv, Typed, Commands, Writing, Judged, SetTableSurvives,
                DevTablesAgree, AcceptedTablesBoot
<1> QED
  BY <1>1, SettleKeeps, SetPartitionKeeps, EraseTableKeeps, ProgramTableKeeps, ReadBackKeeps,
     OpenCloseKeep, EraseKeeps, ErasePartKeeps, CutKeeps, BootKeeps DEF Next

LEMMA TablesStart == Init => TablesInv
<1> SUFFICES ASSUME Init PROVE TablesInv
  OBVIOUS
<1>1. /\ flash = [c \in Chip |-> NoTable] /\ op = [c \in Chip |-> Idle]
      /\ power = "off" /\ mem = Blank /\ pc = "idle" /\ call = NoCall
      /\ kept = [c \in Chip |-> NoTable] /\ swallowed = {}
  BY DEF Init
<1>2. NoCall \in [chip : Chip, tab : CorrectTab, next : Chip]
  BY CommandType, Sizes DEF NoCall
<1>3. Typed
  BY <1>1, <1>2, BlankType, CommandType DEF Typed
<1>4. Commands /\ Writing
  BY <1>1, CommandType DEF Commands, Writing
<1>5. Makes(flash)
  <2>1. \A c \in Chip : flash[c].NumPartitions = 0
    BY <1>1, CommandType
  <2> QED
    BY <2>1, NothingMerged DEF Makes
<1>6. Judged
  BY <1>1, <1>5 DEF Judged
<1>7. SetTableSurvives /\ DevTablesAgree /\ AcceptedTablesBoot
  BY <1>1 DEF SetTableSurvives, DevTablesAgree, AcceptedTablesBoot
<1> QED
  BY <1>3, <1>4, <1>6, <1>7 DEF TablesInv

LEMMA TablesHold == Spec => []TablesInv
<1>1. TablesInv /\ [Next]_vars => TablesInv'
  BY TablesStep
<1> QED
  BY TablesStart, <1>1, PTL DEF Spec

\* A table reported set is on the chip and in memory, after any failures, reads
\* and power losses, until it is set or erased again, unless its erase failed
\* without anyone being told.
THEOREM SetTablesSurvive == Spec => []SetTableSurvives
<1>1. TablesInv => SetTableSurvives
  BY DEF TablesInv
<1> QED
  BY TablesHold, <1>1, PTL

\* No sequence of accepted layouts keeps the driver from coming up, whatever
\* fails and whenever power is lost, unless an erase of a table failed without
\* anyone being told.
THEOREM AcceptedBoot == Spec => []AcceptedTablesBoot
<1>1. TablesInv => AcceptedTablesBoot
  BY DEF TablesInv
<1> QED
  BY TablesHold, <1>1, PTL

\* The device tables name the partitions in memory, however tables are written
\* and read, until a read finds a table gone.
THEOREM DeviceTablesAgree == Spec => []DevTablesAgree
<1>1. TablesInv => DevTablesAgree
  BY DEF TablesInv
<1> QED
  BY TablesHold, <1>1, PTL

----------------------------------------------------------------------------
(* Types                                                                   *)

LEMMA PartInfoType ==
  ASSUME Typed, NEW id \in Ids
  PROVE  Len(PartInfo(id)) \in 0 .. MAX_FLASH_CHIPS
<1>1. id[1] \in {"RAW", "RAWTABLE", "FTL"}
  BY LogicalAssumption
<1>2. \A x \in VPart : mem.RAWDevTable[x] \in DevSeq /\ mem.FTLDevTable[x] \in DevSeq
  BY DEF Typed, Mem
<1>3. \A s \in DevSeq : Len(s) \in 0 .. MAX_FLASH_CHIPS
  BY DEF DevSeq
<1>4. Len(<< <<id[2], id[3]>> >>) = 1 /\ Len(<< >>) = 0
  OBVIOUS
<1>5. 1 \in 0 .. MAX_FLASH_CHIPS /\ 0 \in 0 .. MAX_FLASH_CHIPS
  BY Sizes
<1>6. CASE id[1] = "RAW"
  BY <1>4, <1>5, <1>6 DEF PartInfo
<1>7. CASE id[1] = "RAWTABLE"
  BY <1>2, <1>3, <1>4, <1>5, <1>7 DEF PartInfo
<1>8. CASE id[1] = "FTL"
  BY <1>2, <1>3, <1>4, <1>5, <1>8 DEF PartInfo
<1> QED
  BY <1>1, <1>6, <1>7, <1>8

LEMMA NewDeviceType ==
  ASSUME Typed, NEW id \in Ids
  PROVE  LET d == NewDevice(PartInfo(id))
         IN  /\ {"PartInfo", "InterleavingLevel", "UsageCount"} \subseteq DOMAIN d
             /\ Len(d.PartInfo) <= MAX_FLASH_CHIPS
             /\ d.InterleavingLevel \in 1 .. MAX_INTERLEAVED_CHIPS
<1> PICK parts : parts = PartInfo(id)
  OBVIOUS
<1>1. Len(parts) \in 0 .. MAX_FLASH_CHIPS
  BY PartInfoType
<1>2. Level(parts) \in 1 .. MAX_INTERLEAVED_CHIPS
  <2> PICK n \in 0 .. MAX_FLASH_CHIPS : n = Len(parts)
    BY <1>1
  <2>2. \/ Level(parts) \in {1, MAX_INTERLEAVED_CHIPS}
        \/ Level(parts) = n /\ n \in {2, 4, 8} /\ n < MAX_INTERLEAVED_CHIPS
    BY DEF Level
  <2>3. MAX_INTERLEAVED_CHIPS \in Nat \ {0}
    BY Sizes
  <2> QED
    BY <2>2, <2>3
<1>3. /\ {"PartInfo", "InterleavingLevel", "UsageCount"} \subseteq DOMAIN NewDevice(parts)
      /\ NewDevice(parts).PartInfo = parts /\ NewDevice(parts).InterleavingLevel = Level(parts)
  BY DEF NewDevice
<1> QED
  BY <1>1, <1>2, <1>3, Sizes

LEMMA DevicesStep ==
  ASSUME Typed, DevicesTyped, [Next]_vars
  PROVE  DevicesTyped'
<1>1. CASE UNCHANGED LDev
  BY <1>1 DEF DevicesTyped
<1>2. ASSUME NEW id \in Ids, FD_Open(id) PROVE DevicesTyped'
  <2>1. CASE /\ id \in DOMAIN LDev
             /\ LDev' = [LDev EXCEPT ![id].UsageCount = Used(@ + 1)]
    BY <2>1 DEF DevicesTyped
  <2>2. CASE LDev' = NotOpened(id)
    BY <1>1, <2>2 DEF NotOpened
  <2>3. CASE /\ id \notin DOMAIN LDev /\ Cardinality(DOMAIN LDev) < MAX_FLASH_DEVICES
             /\ LDev' = With(LDev, id, NewDevice(PartInfo(id)))
    <3> DEFINE new == NewDevice(PartInfo(id))
    <3>1. /\ {"PartInfo", "InterleavingLevel", "UsageCount"} \subseteq DOMAIN new
          /\ Len(new.PartInfo) <= MAX_FLASH_CHIPS
          /\ new.InterleavingLevel \in 1 .. MAX_INTERLEAVED_CHIPS
      BY NewDeviceType
    <3> HIDE DEF new
    <3>2. /\ DOMAIN LDev' = DOMAIN LDev \cup {id} /\ LDev'[id] = new
          /\ \A x \in DOMAIN LDev : LDev'[x] = LDev[x]
      BY <2>3 DEF With, new
    <3>3. /\ IsFiniteSet(DOMAIN LDev \cup {id})
          /\ Cardinality(DOMAIN LDev \cup {id}) = Cardinality(DOMAIN LDev) + 1
          /\ Cardinality(DOMAIN LDev) \in Nat
      BY <2>3, FS_AddElement, FS_CardinalityType DEF DevicesTyped
    <3>4. Cardinality(DOMAIN LDev') <= MAX_FLASH_DEVICES
      BY <2>3, <3>2, <3>3, Sizes
    <3> QED
      BY <3>1, <3>2, <3>3, <3>4 DEF DevicesTyped
  <2> QED
    BY <1>2, <2>1, <2>2, <2>3 DEF FD_Open
<1>3. ASSUME NEW id \in Ids, FD_Close(id) PROVE DevicesTyped'
  <2>1. CASE LDev' = LDev
    BY <1>1, <2>1
  <2>2. CASE LDev' = Without(LDev, id)
    <3>1. /\ DOMAIN LDev' = DOMAIN LDev \ {id}
          /\ \A x \in DOMAIN LDev' : LDev'[x] = LDev[x]
      BY <2>2 DEF Without
    <3>2. /\ IsFiniteSet(DOMAIN LDev \ {id})
          /\ Cardinality(DOMAIN LDev \ {id}) <= Cardinality(DOMAIN LDev)
      BY FS_Subset DEF DevicesTyped
    <3>3. Cardinality(DOMAIN LDev \ {id}) \in Nat /\ Cardinality(DOMAIN LDev) \in Nat
      BY <3>2, FS_CardinalityType DEF DevicesTyped
    <3> QED
      BY <3>1, <3>2, <3>3, Sizes DEF DevicesTyped
  <2>3. CASE id \in DOMAIN LDev /\ LDev' = [LDev EXCEPT ![id].UsageCount = Used(@ - 1)]
    BY <2>3 DEF DevicesTyped
  <2> QED
    BY <1>3, <2>1, <2>2, <2>3 DEF FD_Close
<1>4. CASE PowerLoss
  <2>1. LDev' = NoDevice /\ DOMAIN NoDevice = {}
    BY <1>4 DEF PowerLoss, NoDevice
  <2> QED
    BY <2>1, FS_EmptySet, Sizes DEF DevicesTyped
<1>5. (\E c \in Chip : Settle(c)) \/ SetPartition \/ EraseTable \/ ProgramTable \/ ReadBack
      \/ (\E id \in Ids : FD_Erase(id) \/ LFD_ErasePart(id)) \/ FD_Init \/ UNCHANGED vars
      => UNCHANGED LDev
  BY DEF Settle, SetPartition, EraseTable, ProgramTable, ReadBack, FD_Erase, LFD_ErasePart,
         FD_Init, vars
<1> QED
  BY <1>1, <1>2, <1>3, <1>4, <1>5 DEF Next

LEMMA TypesAgree ==
  ASSUME Typed, DevicesTyped
  PROVE  TypeOK
<1>1. \A t \in Tab : TableOK(t)
  BY DEF Tab, TableOK
<1>2. \A t \in CorrectTab : TableOK(t)
  BY <1>1 DEF CorrectTab
<1>3. DOMAIN flash = Chip /\ DOMAIN op = Chip
  BY DEF Typed
<1>4. ASSUME NEW c \in Chip
      PROVE  /\ TableOK(flash[c]) /\ TableOK(op[c].tab) /\ TableOK(mem.PartTable[c])
             /\ op[c].cmd \in {"none", "erase", "program", "failed"}
  BY <1>1, <1>2 DEF Typed, Command, Mem
<1>5. call.chip \in Chip /\ call.next \in Chip /\ TableOK(call.tab)
  BY <1>2 DEF Typed
<1>6. ASSUME NEW f \in [VPart -> DevSeq] PROVE DevTableOK(f)
  <2>1. ASSUME NEW x \in VPart, NEW k \in DOMAIN f[x]
        PROVE  f[x][k] \in Chip \X PartNo
    <3>1. f[x] \in Seq(Chip \X PartNo)
      BY DEF DevSeq, Parts
    <3> QED
      BY <3>1
  <2> QED
    BY <2>1 DEF DevTableOK, DevSeq
<1>7. DevTableOK(mem.RAWDevTable) /\ DevTableOK(mem.FTLDevTable)
  BY <1>6 DEF Typed, Mem
<1> QED
  BY <1>3, <1>4, <1>5, <1>7 DEF TypeOK, DevicesTyped, Typed

\* Tables stay within their arrays and no device merges more partitions than
\* there is room for, for any layouts, chips and devices.
THEOREM TypesHold == Spec => []TypeOK
<1>1. Init => DevicesTyped
  <2>1. Init => LDev = NoDevice /\ DOMAIN NoDevice = {}
    BY DEF Init, NoDevice
  <2> QED
    BY <2>1, FS_EmptySet, Sizes DEF DevicesTyped
<1>2. TablesInv /\ DevicesTyped /\ [Next]_vars => DevicesTyped'
  BY DevicesStep DEF TablesInv
<1>3. TablesInv /\ DevicesTyped => TypeOK
  BY TypesAgree DEF TablesInv
<1> QED
  BY TablesHold, <1>1, <1>2, <1>3, PTL DEF Spec

----------------------------------------------------------------------------
(* Layouts                                                                 *)

Apart(p, q) == \/ p.StartBlock + p.NumBlocks <= q.StartBlock
               \/ q.StartBlock + q.NumBlocks <= p.StartBlock

\* The partitions of a class do not overlap: those of different classes may,
\* after the correction.
LaidOut(t) == \A i, j \in PartNo :
  i < j /\ j < t.NumPartitions /\ t.Part[i].DevClass = t.Part[j].DevClass
  => t.Part[i].StartBlock + t.Part[i].NumBlocks <= t.Part[j].StartBlock
LaidTab == {t \in CorrectTab : LaidOut(t)}

LEMMA NoTableLaid == NoTable \in LaidTab
<1>1. NoTable \in CorrectTab /\ NoTable.NumPartitions = 0
  BY CommandType
<1> QED
  BY <1>1, Sizes DEF LaidTab, LaidOut

RoundedUp(s) == IF s % NumPlanes # 0 THEN (s \div NumPlanes + 1) * NumPlanes ELSE s

LEMMA RoundedApart ==
  ASSUME NEW s \in Nat, NEW n \in Nat, NEW t \in Nat, s + n <= t
  PROVE  /\ s + (n - (n % NumPlanes)) <= t
         /\ RoundedUp(s) + (n - (n % NumPlanes)) <= RoundedUp(t)
<1>1. NumPlanes \in {1, 2, 4}
  BY LogicalAssumption
<1>2. CASE NumPlanes = 1
  BY <1>2 DEF RoundedUp
<1>3. CASE NumPlanes = 2
  BY <1>3 DEF RoundedUp
<1>4. CASE NumPlanes = 4
  BY <1>4 DEF RoundedUp
<1> QED
  BY <1>1, <1>2, <1>3, <1>4

LEMMA FixedApart ==
  ASSUME NEW p \in PartType, NEW q \in PartType, p.DevClass = q.DevClass,
         p.StartBlock + p.NumBlocks <= q.StartBlock
  PROVE  Fixed(p).StartBlock + Fixed(p).NumBlocks <= Fixed(q).StartBlock
<1>1. /\ p.StartBlock \in Nat /\ p.NumBlocks \in Nat /\ q.StartBlock \in Nat
      /\ \A x \in PartType : /\ Fixed(x).StartBlock = FixStart(x) /\ Fixed(x).NumBlocks = FixNum(x)
  BY DEF PartType, Fixed
<1>2. /\ FixStart(p) = IF p.DevClass = "FTL" THEN RoundedUp(p.StartBlock) ELSE p.StartBlock
      /\ FixStart(q) = IF p.DevClass = "FTL" THEN RoundedUp(q.StartBlock) ELSE q.StartBlock
  BY DEF FixStart, RoundedUp
<1>3. FixNum(p) = p.NumBlocks - (p.NumBlocks % NumPlanes)
  BY DEF FixNum
<1>4. /\ p.StartBlock + FixNum(p) <= q.StartBlock
      /\ RoundedUp(p.StartBlock) + FixNum(p) <= RoundedUp(q.StartBlock)
  BY <1>1, <1>3, RoundedApart
<1> QED
  BY <1>1, <1>2, <1>4

\* Later sums have what is added before them.
LEMMA SumOrder ==
  ASSUME NEW r, NEW n \in Nat, \A k \in 1 .. n : r[k].NumBlocks \in Nat,
         NEW i \in 0 .. n
  PROVE  \A j \in 0 .. n : i < j => SumOfFirst(r, i) + r[i + 1].NumBlocks <= SumOfFirst(r, j)
<1> DEFINE S(j) == SumOfFirst(r, j)
           Reached == {j \in Nat : i < j /\ j <= n => S(i) + r[i + 1].NumBlocks <= S(j)}
<1>1. \A j \in 0 .. n : S(j) \in Nat
  <2> TAKE j \in 0 .. n
  <2>1. j \in Nat /\ \A k \in 1 .. j : r[k].NumBlocks \in Nat
    OBVIOUS
  <2> QED
    BY <2>1, SumType
<1>2. \A j \in 1 .. n : S(j) = S(j - 1) + r[j].NumBlocks
  <2> TAKE j \in 1 .. n
  <2>1. j \in Nat /\ j > 0 /\ \A k \in 1 .. j : r[k].NumBlocks \in Nat
    OBVIOUS
  <2> QED
    BY <2>1, SumGrows
<1> HIDE DEF S
<1>3. 0 \in Reached
  OBVIOUS
<1>4. ASSUME NEW j \in Nat, j \in Reached PROVE j + 1 \in Reached
  <2> SUFFICES ASSUME i < j + 1, j + 1 <= n PROVE S(i) + r[i + 1].NumBlocks <= S(j + 1)
    OBVIOUS
  <2>1. S(j + 1) = S(j) + r[j + 1].NumBlocks /\ S(j) \in Nat /\ r[j + 1].NumBlocks \in Nat
        /\ S(i) \in Nat /\ r[i + 1].NumBlocks \in Nat
    <3>1. j + 1 \in 1 .. n /\ j \in 0 .. n /\ i + 1 \in 1 .. n /\ (j + 1) - 1 = j
      OBVIOUS
    <3> QED
      BY <1>1, <1>2, <3>1
  <2>2. CASE i = j
    BY <2>1, <2>2
  <2>3. CASE i < j
    <3>1. S(i) + r[i + 1].NumBlocks <= S(j)
      BY <1>4, <2>3
    <3> QED
      BY <2>1, <3>1
  <2> QED
    BY <2>2, <2>3
<1> HIDE DEF Reached
<1>5. \A j \in Nat : j \in Reached
  BY <1>3, <1>4, Upwards
<1> QED
  BY <1>5 DEF Reached, S

\* A layout that is accepted is corrected to one without overlap in a class.
LEMMA LayoutLaid ==
  ASSUME NEW r \in Requests, NEW leftover \in Leftovers, Stop(Layout(r, leftover)) = {}
  PROVE  Corrected(Layout(r, leftover)) \in LaidTab
<1> PICK t : t = Layout(r, leftover)
  OBVIOUS
<1>1. t \in Tab
  BY LayoutType
<1>2. Stop(t) = {} /\ Corrected(t) \in CorrectTab
  BY <1>1, CorrectedIsCorrect
<1>3. Len(r) \in Nat /\ t.NumPartitions = Len(r) /\ Len(r) <= MAX_FLASH_PARTITIONS
      /\ \A k \in 1 .. Len(r) : r[k].NumBlocks \in Nat
  <2> DEFINE Part == [NumBlocks : Nat, DevClass : {"RAW", "FTL", "none"},
                      InDevTable : BOOLEAN, DevIndex : Nat]
  <2>1. r \in Seq(Part) /\ Len(r) \in 1 .. MAX_FLASH_PARTITIONS
    BY LogicalAssumption
  <2> HIDE DEF Part
  <2>2. \A k \in 1 .. Len(r) : r[k] \in Part
    BY <2>1
  <2>3. \A p \in Part : p.NumBlocks \in Nat
    BY DEF Part
  <2> QED
    BY <2>1, <2>2, <2>3, Sizes DEF Layout
<1>4. \A i \in PartNo : i < Len(r) =>
        /\ t.Part[i].StartBlock = SumOfFirst(r, i) /\ t.Part[i].NumBlocks = r[i + 1].NumBlocks
  <2> TAKE i \in PartNo
  <2> HAVE i < Len(r)
  <2>1. i \in Nat /\ ~ i >= Len(r)
    BY <1>3, Sizes
  <2>2. t.Part[i] = [StartBlock |-> SumOfFirst(r, i),       NumBlocks  |-> r[i + 1].NumBlocks,
                     DevClass   |-> r[i + 1].DevClass,      InDevTable |-> r[i + 1].InDevTable,
                     DevIndex   |-> r[i + 1].DevIndex]
    BY <2>1 DEF Layout
  <2> QED
    BY <2>2
<1>5. /\ Corrected(t).NumPartitions = Len(r)
      /\ \A i \in PartNo : i < Len(r) => Corrected(t).Part[i] = Fixed(t.Part[i])
  BY <1>1, <1>2, <1>3 DEF Corrected, Tab
<1>6. ASSUME NEW i \in PartNo, NEW j \in PartNo, i < j, j < Len(r),
             Corrected(t).Part[i].DevClass = Corrected(t).Part[j].DevClass
      PROVE  Corrected(t).Part[i].StartBlock + Corrected(t).Part[i].NumBlocks
               <= Corrected(t).Part[j].StartBlock
  <2>1. i \in 0 .. Len(r) /\ j \in 0 .. Len(r) /\ i < Len(r)
    BY <1>3, <1>6 DEF PartNo
  <2>2. SumOfFirst(r, i) + r[i + 1].NumBlocks <= SumOfFirst(r, j)
    BY <1>3, <1>6, <2>1, SumOrder
  <2>3. t.Part[i] \in PartType /\ t.Part[j] \in PartType
    BY <1>1 DEF Tab
  <2>4. \A p \in PartType : Fixed(p).DevClass = p.DevClass
    BY DEF Fixed, PartType
  <2>5. t.Part[i].DevClass = t.Part[j].DevClass
    BY <1>5, <1>6, <2>1, <2>3, <2>4
  <2> QED
    BY <1>4, <1>5, <1>6, <2>1, <2>2, <2>3, <2>5, FixedApart
<1>7. LaidOut(Corrected(t))
  BY <1>5, <1>6 DEF LaidOut
<1> QED
  BY <1>2, <1>7 DEF LaidTab

----------------------------------------------------------------------------
(* Merged devices                                                          *)

PartOf(T, p) == T[p[1]].Part[p[2]]

\* Whole groups of planes, that do not overlap on a chip.
Sound(T, s) ==
  /\ \A k \in DOMAIN s : PartOf(T, s[k]).NumBlocks % NumPlanes = 0
  /\ \A k, m \in DOMAIN s :
       k # m /\ s[k][1] = s[m][1] => Apart(PartOf(T, s[k]), PartOf(T, s[m]))
AllSound(T, f) == \A x \in VPart : Sound(T, f[x])

LEMMA LaidParts ==
  ASSUME NEW t \in LaidTab
  PROVE  /\ t \in Tab /\ \A i \in PartNo : t.Part[i] \in PartType
         /\ \A i \in PartNo : i < t.NumPartitions => t.Part[i].NumBlocks % NumPlanes = 0
<1>1. t \in Tab /\ \A i \in PartNo : t.Part[i] \in PartType
  BY DEF LaidTab, CorrectTab, Tab
<1>2. ASSUME NEW i \in PartNo, i < t.NumPartitions
      PROVE  t.Part[i].NumBlocks % NumPlanes = 0
  <2> PICK p : p = t.Part[i]
    OBVIOUS
  <2>1. p \in PartType /\ Fixed(p) = p
    BY <1>1, <1>2 DEF LaidTab, CorrectTab
  <2>2. p.NumBlocks \in Nat /\ Fixed(p).NumBlocks = FixNum(p)
    BY <2>1 DEF PartType, Fixed
  <2>3. p.NumBlocks = p.NumBlocks - (p.NumBlocks % NumPlanes)
    BY <2>1, <2>2 DEF FixNum
  <2>4. (p.NumBlocks - (p.NumBlocks % NumPlanes)) % NumPlanes = 0
    BY <2>2, Rounding
  <2> QED
    BY <2>3, <2>4
<1> QED
  BY <1>1, <1>2

\* What is merged comes from different partitions, in the order of the chips.
LEMMA InOrderDiffers ==
  ASSUME NEW S \in SUBSET Parts, NEW k \in 1 .. Cardinality(S), NEW m \in 1 .. Cardinality(S), k # m
  PROVE  InOrder(S)[k] \in S /\ InOrder(S)[m] \in S /\ InOrder(S)[k] # InOrder(S)[m]
<1>1. /\ InOrder(S) \in [1 .. Cardinality(S) -> S] /\ Cardinality(S) \in Nat
      /\ Cardinality(Ahead(S, InOrder(S)[k])) = k - 1 /\ Cardinality(Ahead(S, InOrder(S)[m])) = m - 1
  BY InOrderType
<1>2. k - 1 # m - 1
  BY <1>1
<1> QED
  BY <1>1, <1>2

LEMMA MembersApart ==
  ASSUME NEW T \in [Chip -> LaidTab], NEW class,
         NEW p \in Members(T, class), NEW q \in Members(T, class), p # q, p[1] = q[1]
  PROVE  Apart(PartOf(T, p), PartOf(T, q))
<1> PICK t : t = T[p[1]]
  OBVIOUS
<1>1. /\ p[1] \in Chip /\ p[2] \in PartNo /\ q[2] \in PartNo /\ p = <<p[1], p[2]>> /\ q = <<q[1], q[2]>>
      /\ p[2] < t.NumPartitions /\ q[2] < t.NumPartitions
      /\ t.Part[p[2]].DevClass = class /\ t.Part[q[2]].DevClass = class
  BY DEF Members
<1>2. p[2] # q[2] /\ p[2] \in Nat /\ q[2] \in Nat
  BY <1>1, Sizes
<1>3. LaidOut(t)
  BY <1>1 DEF LaidTab
<1>4. CASE p[2] < q[2]
  BY <1>1, <1>3, <1>4 DEF LaidOut, Apart, PartOf
<1>5. CASE q[2] < p[2]
  BY <1>1, <1>3, <1>5 DEF LaidOut, Apart, PartOf
<1> QED
  BY <1>2, <1>4, <1>5

LEMMA TableSound ==
  ASSUME NEW T \in [Chip -> LaidTab], NEW class
  PROVE  AllSound(T, make_blk_dev_table(T, class))
<1> SUFFICES ASSUME NEW x \in VPart PROVE Sound(T, make_blk_dev_table(T, class)[x])
  BY DEF AllSound
<1> PICK S : S = Merged(T, class, x)
  OBVIOUS
<1> PICK s : s = InOrder(S)
  OBVIOUS
<1>1. s = make_blk_dev_table(T, class)[x]
  BY TableIs
<1>2. S \in SUBSET Members(T, class) /\ S \in SUBSET Parts
  BY MembersType DEF Merged
<1>3. s \in [1 .. Cardinality(S) -> S] /\ DOMAIN s = 1 .. Cardinality(S)
  BY <1>2, InOrderType
<1>4. ASSUME NEW k \in DOMAIN s PROVE PartOf(T, s[k]).NumBlocks % NumPlanes = 0
  <2>1. s[k] \in Members(T, class)
    BY <1>2, <1>3
  <2>2. s[k][1] \in Chip /\ s[k][2] \in PartNo /\ s[k][2] < T[s[k][1]].NumPartitions
    BY <2>1 DEF Members
  <2>3. T[s[k][1]] \in LaidTab
    BY <2>2
  <2> QED
    BY <2>2, <2>3, LaidParts DEF PartOf
<1>5. ASSUME NEW k \in DOMAIN s, NEW m \in DOMAIN s, k # m, s[k][1] = s[m][1]
      PROVE  Apart(PartOf(T, s[k]), PartOf(T, s[m]))
  <2>1. s[k] \in S /\ s[m] \in S /\ s[k] # s[m]
    BY <1>2, <1>3, <1>5, InOrderDiffers
  <2> QED
    BY <1>2, <1>5, <2>1, MembersApart
<1> QED
  BY <1>1, <1>4, <1>5 DEF Sound

\* A table whose partitions are only gone leaves the devices as they are.
LEMMA SoundStays ==
  ASSUME NEW T, NEW U, NEW f \in [VPart -> DevSeq], AllSound(T, f),
         \A c \in Chip : U[c].Part = T[c].Part
  PROVE  AllSound(U, f)
<1> SUFFICES ASSUME NEW x \in VPart PROVE Sound(U, f[x])
  BY DEF AllSound
<1>1. f[x] \in Seq(Parts)
  BY DEF DevSeq
<1>2. \A k \in DOMAIN f[x] : PartOf(U, f[x][k]) = PartOf(T, f[x][k])
  <2> TAKE k \in DOMAIN f[x]
  <2>1. f[x][k] \in Parts
    BY <1>1
  <2>2. f[x][k][1] \in Chip
    BY <2>1 DEF Parts
  <2> QED
    BY <2>2 DEF PartOf
<1>3. Sound(T, f[x])
  BY DEF AllSound
<1> QED
  BY <1>2, <1>3 DEF Sound

----------------------------------------------------------------------------
(* Tables and merged devices of every state                                *)

Laid ==
  /\ \A c \in Chip : flash[c] \in LaidTab /\ op[c].tab \in LaidTab /\ mem.PartTable[c] \in LaidTab
  /\ call.tab \in LaidTab
MergedSound == power \in {"on", "oops"} => /\ AllSound(mem.PartTable, mem.RAWDevTable)
                                           /\ AllSound(mem.PartTable, mem.FTLDevTable)
LaidInv == TablesInv /\ Laid /\ MergedSound

LEMMA NewTablesSound ==
  ASSUME NEW T \in [Chip -> LaidTab], mem' = Tables(T)
  PROVE  MergedSound' /\ \A c \in Chip : mem'.PartTable[c] \in LaidTab
<1>1. T \in [Chip -> Tab]
  BY DEF LaidTab, CorrectTab
<1>2. /\ mem'.PartTable = T /\ mem'.RAWDevTable = make_blk_dev_table(T, "RAW")
      /\ mem'.FTLDevTable = make_blk_dev_table(T, "FTL")
  BY <1>1, TablesType
<1> QED
  BY <1>2, TableSound DEF MergedSound

LEMMA LaidIs ==
  ASSUME LaidInv
  PROVE  /\ mem.PartTable \in [Chip -> LaidTab] /\ flash \in [Chip -> LaidTab]
         /\ mem \in Mem /\ mem.RAWDevTable \in [VPart -> DevSeq] /\ mem.FTLDevTable \in [VPart -> DevSeq]
<1>1. mem \in Mem /\ flash \in [Chip -> CorrectTab]
  BY DEF LaidInv, TablesInv, Typed
<1>2. mem.PartTable \in [Chip -> Tab] /\ mem.RAWDevTable \in [VPart -> DevSeq]
      /\ mem.FTLDevTable \in [VPart -> DevSeq]
  BY <1>1 DEF Mem
<1> QED
  BY <1>1, <1>2 DEF LaidInv, Laid

\* The commands that a step gives to chips.
LEMMA GivenLaid ==
  ASSUME LaidInv, NEW c \in Chip, NEW o, op' = [op EXCEPT ![c] = o], o.tab \in LaidTab
  PROVE  \A d \in Chip : op'[d].tab \in LaidTab
BY DEF LaidInv, TablesInv, Typed, Laid

LEMMA SettleLaid ==
  ASSUME LaidInv, NEW c \in Chip, Settle(c)
  PROVE  Laid' /\ MergedSound'
<1>1. power' = power /\ mem' = mem /\ call' = call
  BY DEF Settle, call_vars
<1>2. Idle.tab \in LaidTab /\ Failed.tab \in LaidTab /\ NoTable \in LaidTab
  BY NoTableLaid, CommandType
<1>3. op' = [op EXCEPT ![c] = Idle] \/ op' = [op EXCEPT ![c] = Failed]
  BY DEF Settle, Given
<1>4. \A d \in Chip : op'[d].tab \in LaidTab
  BY <1>2, <1>3, GivenLaid
<1>5. flash' = flash \/ flash' = [flash EXCEPT ![c] = NoTable] \/ flash' = [flash EXCEPT ![c] = op[c].tab]
  BY DEF Settle, Holds
<1>6. \A d \in Chip : flash'[d] \in LaidTab
  BY <1>2, <1>5, LaidIs DEF LaidInv, Laid
<1> QED
  BY <1>1, <1>4, <1>6 DEF LaidInv, Laid, MergedSound

LEMMA CallLaid == LaidInv => call.tab \in LaidTab /\ NoCall.tab \in LaidTab
BY NoTableLaid DEF LaidInv, Laid, NoCall

LEMMA SetPartitionLaid ==
  ASSUME LaidInv, SetPartition
  PROVE  Laid' /\ MergedSound'
<1>1. PICK r \in Requests, leftover \in Leftovers, c \in Chip :
        /\ is_valid_partition_table(c, Layout(r, leftover))
        /\ call' = [chip |-> c, tab |-> Corrected(Layout(r, leftover)), next |-> 0]
  BY DEF SetPartition
<1>2. Stop(Layout(r, leftover)) = {}
  BY <1>1 DEF is_valid_partition_table
<1>3. call'.tab \in LaidTab
  BY <1>1, <1>2, LayoutLaid
<1>4. power' = power /\ mem' = mem /\ flash' = flash /\ op' = op
  BY DEF SetPartition, hist
<1> QED
  BY <1>3, <1>4 DEF LaidInv, Laid, MergedSound

LEMMA EraseTableLaid ==
  ASSUME LaidInv, EraseTable
  PROVE  Laid' /\ MergedSound'
<1>1. call.chip \in Chip /\ call.tab \in LaidTab /\ NoCall.tab \in LaidTab
  BY TypedIs, CallLaid DEF LaidInv, TablesInv
<1>2. power' = power /\ mem' = mem /\ flash' = flash
  BY DEF EraseTable
<1>3. Idle.tab \in LaidTab /\ NoTable \in LaidTab
  BY NoTableLaid, CommandType
<1>4. /\ op' = [op EXCEPT ![call.chip] = Idle]
         \/ op' = [op EXCEPT ![call.chip] = [cmd |-> "erase", tab |-> NoTable]]
      /\ call' = call \/ call' = NoCall
  BY DEF EraseTable, Refused, Given, EndCall
<1>5. \A d \in Chip : op'[d].tab \in LaidTab
  BY <1>1, <1>3, <1>4, GivenLaid
<1> QED
  BY <1>1, <1>2, <1>4, <1>5 DEF LaidInv, Laid, MergedSound

LEMMA ProgramTableLaid ==
  ASSUME LaidInv, ProgramTable
  PROVE  Laid' /\ MergedSound'
<1> PICK c : c = call.chip
  OBVIOUS
<1>1. c \in Chip /\ call.tab \in LaidTab /\ NoCall.tab \in LaidTab
  BY TypedIs, CallLaid DEF LaidInv, TablesInv
<1>2. power' = power /\ flash' = flash
  BY DEF ProgramTable
<1>3. Idle.tab \in LaidTab /\ NoTable \in LaidTab
  BY NoTableLaid, CommandType
<1> DEFINE T == [mem.PartTable EXCEPT ![c] = call.tab]
<1>4. /\ \/ op' = [op EXCEPT ![c] = Idle] /\ mem' = mem
         \/ /\ mem' = Tables(T)
            /\ \E tab \in {call.tab, NoTable} : op' = [op EXCEPT ![c] = [cmd |-> "program", tab |-> tab]]
      /\ call' = call \/ call' = NoCall
  BY DEF ProgramTable, Refused, Given, EndCall
<1>5. \A d \in Chip : op'[d].tab \in LaidTab
  <2>1. CASE op' = [op EXCEPT ![c] = Idle]
    BY <1>1, <1>3, <2>1, GivenLaid
  <2>2. ASSUME NEW tab \in LaidTab, op' = [op EXCEPT ![c] = [cmd |-> "program", tab |-> tab]]
        PROVE  \A d \in Chip : op'[d].tab \in LaidTab
    <3> PICK o : o = [cmd |-> "program", tab |-> tab]
      OBVIOUS
    <3>1. o.tab \in LaidTab /\ op' = [op EXCEPT ![c] = o]
      BY <2>2
    <3> QED
      BY <1>1, <3>1, GivenLaid
  <2> QED
    BY <1>1, <1>3, <1>4, <2>1, <2>2
<1>6. MergedSound' /\ \A d \in Chip : mem'.PartTable[d] \in LaidTab
  <2>1. CASE mem' = mem
    BY <1>2, <2>1 DEF LaidInv, Laid, MergedSound
  <2>2. CASE mem' = Tables(T)
    <3>1. T \in [Chip -> LaidTab]
      BY <1>1, LaidIs
    <3> HIDE DEF T
    <3> QED
      BY <2>2, <3>1, NewTablesSound
  <2> QED
    BY <1>4, <2>1, <2>2
<1> QED
  BY <1>1, <1>2, <1>4, <1>5, <1>6 DEF LaidInv, Laid

\* A read finds the table that memory has, or none.
LEMMA ReadBackLaid ==
  ASSUME LaidInv, ReadBack
  PROVE  Laid' /\ MergedSound'
<1> PICK c : c = call.next
  OBVIOUS
<1> PICK T : T = mem.PartTable
  OBVIOUS
<1> PICK n : n = mem'
  OBVIOUS
<1>1. /\ c \in Chip /\ flash[c] \in CorrectTab /\ Corrected(flash[c]) = flash[c]
      /\ flash \in [Chip -> Tab] /\ call \in [chip : Chip, tab : CorrectTab, next : Chip]
  BY TypedIs DEF LaidInv, TablesInv, Typed
<1>2. /\ power = "on" /\ power' = power /\ flash' = flash
      /\ T \in [Chip -> LaidTab] /\ mem \in Mem
  BY LaidIs DEF ReadBack
<1>3. /\ \/ op' = [op EXCEPT ![c] = Idle] /\ mem' = mem
         \/ op' = op /\ op[c] = Idle /\ n = LFD_ReadPartitionTable(mem, c)
      /\ call' = call \/ call' = NoCall \/ \E x : call' = [call EXCEPT !.next = x]
  BY DEF ReadBack, Refused, Given, EndCall, Ready
<1>4. call'.tab \in LaidTab
  BY <1>1, <1>3, CallLaid
<1>5. \A d \in Chip : op'[d].tab \in LaidTab
  <2>1. Idle.tab \in LaidTab
    BY NoTableLaid, CommandType
  <2> QED
    BY <1>1, <1>3, <2>1, GivenLaid DEF LaidInv, Laid
<1>6. ASSUME op[c] = Idle, n = LFD_ReadPartitionTable(mem, c)
      PROVE  MergedSound' /\ \A d \in Chip : n.PartTable[d] \in LaidTab
  <2>1. ReadGives(mem, c, n)
    BY <1>1, <1>2, <1>6, ReadIs
  <2>2. (flash[c] = NoTable \/ flash[c] = T[c]) /\ Makes(T)
    BY <1>1, <1>2, <1>6, CommandType DEF LaidInv, TablesInv, Judged
  <2>3. CASE flash[c] # NoTable
    <3>1. PartTableRead(mem, c) = T
      BY <1>1, <1>2, <2>2, <2>3 DEF PartTableRead
    <3>2. ~ ReadFails(mem, c)
      BY <2>2, <3>1 DEF ReadFails
    <3>3. mem' = Tables(T)
      BY <2>1, <2>3, <3>1, <3>2 DEF ReadGives
    <3> QED
      BY <1>2, <3>3, NewTablesSound
  <2>4. CASE flash[c] = NoTable
    <3>1. /\ n.PartTable = [T EXCEPT ![c].NumPartitions = 0]
          /\ n.RAWDevTable = mem.RAWDevTable /\ n.FTLDevTable = mem.FTLDevTable
      BY <2>1, <2>4 DEF ReadGives
    <3> PICK t : t = [T[c] EXCEPT !.NumPartitions = 0]
      OBVIOUS
    <3>2. t \in LaidTab /\ t.Part = T[c].Part
      <4>1. T[c] \in Tab
        BY <1>1, <1>2, LaidParts
      <4>2. t \in Tab /\ t.NumPartitions = 0 /\ t.Part = T[c].Part
        BY <4>1, Sizes DEF Tab
      <4>3. t \in CorrectTab
        <5>1. \A i \in PartNo : ~ i < t.NumPartitions
          BY <4>2, Sizes
        <5> QED
          BY <4>2, <5>1, Zenon DEF CorrectTab
      <4>4. LaidOut(t)
        BY <4>2, Sizes DEF LaidOut
      <4> QED
        BY <4>2, <4>3, <4>4 DEF LaidTab
    <3>3. n.PartTable = [T EXCEPT ![c] = t]
      BY <3>1
    <3>4. \A d \in Chip : n.PartTable[d] \in LaidTab /\ n.PartTable[d].Part = T[d].Part
      BY <1>1, <1>2, <3>2, <3>3
    <3>5. AllSound(T, mem.RAWDevTable) /\ AllSound(T, mem.FTLDevTable)
      BY <1>2 DEF LaidInv, MergedSound
    <3>6. AllSound(n.PartTable, n.RAWDevTable) /\ AllSound(n.PartTable, n.FTLDevTable)
      <4> PICK U : U = n.PartTable
        OBVIOUS
      <4>1. \A d \in Chip : U[d].Part = T[d].Part
        BY <3>4
      <4>2. mem.RAWDevTable \in [VPart -> DevSeq] /\ mem.FTLDevTable \in [VPart -> DevSeq]
        BY LaidIs
      <4>3. AllSound(U, mem.RAWDevTable)
        BY <3>5, <4>1, <4>2, SoundStays
      <4>4. AllSound(U, mem.FTLDevTable)
        BY <3>5, <4>1, <4>2, SoundStays
      <4> QED
        BY <3>1, <4>3, <4>4
    <3> QED
      BY <3>4, <3>6 DEF MergedSound
  <2> QED
    BY <2>3, <2>4
<1>7. MergedSound' /\ \A d \in Chip : n.PartTable[d] \in LaidTab
  <2>1. CASE mem' = mem
    BY <1>2, <2>1 DEF LaidInv, Laid, MergedSound
  <2> QED
    BY <1>3, <1>6, <2>1
<1> QED
  BY <1>2, <1>4, <1>5, <1>7 DEF LaidInv, Laid

\* Calls of device users leave the tables alone, or erase one.
LEMMA UseLaid ==
  ASSUME LaidInv, NEW id \in Ids,
         FD_Open(id) \/ FD_Close(id) \/ FD_Erase(id) \/ LFD_ErasePart(id)
  PROVE  Laid' /\ MergedSound'
<1>1. mem' = mem /\ call' = call
  BY DEF FD_Open, FD_Close, FD_Erase, LFD_ErasePart, call_vars
<1>2. power' \in {"on", "oops"} => power \in {"on", "oops"}
  BY DEF FD_Open, FD_Close, FD_Erase, LFD_ErasePart, Up
<1>3. Typed /\ NoTable \in LaidTab /\ Idle.tab \in LaidTab /\ Failed.tab \in LaidTab
  BY NoTableLaid, CommandType DEF LaidInv, TablesInv
<1>4. \A d \in Chip : flash'[d] \in LaidTab
  <2>1. CASE flash' = flash
    BY <2>1 DEF LaidInv, Laid
  <2>2. ASSUME NEW C, Overwritten(C) PROVE \A d \in Chip : flash'[d] \in LaidTab
    BY <1>3, <2>2, OverwrittenIs DEF LaidInv, Laid
  <2> QED
    BY <2>1, <2>2 DEF FD_Open, FD_Close, FD_Erase, LFD_ErasePart
<1>5. \A d \in Chip : op'[d].tab \in LaidTab
  <2>1. CASE op' = op
    BY <2>1 DEF LaidInv, Laid
  <2>2. ASSUME FD_Erase(id), op' # op PROVE \A d \in Chip : op'[d].tab \in LaidTab
    <3>1. \E c : \E o \in {Idle, Failed} : op' = [op EXCEPT ![c] = o]
      <4>1. PICK b : LET at == LFD_GetPartitionInfo(LDev[id], b)
                     IN  op' = [op EXCEPT ![at[1]] = Idle] \/ op' = [op EXCEPT ![at[1]] = Failed]
        BY <2>2 DEF FD_Erase, Refused, Given
      <4> QED
        BY <4>1
    <3>2. PICK c, o : o \in {Idle, Failed} /\ op' = [op EXCEPT ![c] = o]
      BY <3>1
    <3> QED
      BY <1>3, <3>2 DEF LaidInv, TablesInv, Typed, Laid
  <2>3. ASSUME LFD_ErasePart(id) PROVE \A d \in Chip : op'[d].tab \in LaidTab
    <3>1. PICK C : op' = [c \in Chip |-> IF c \in C THEN Idle ELSE op[c]]
      BY <2>3 DEF LFD_ErasePart
    <3> QED
      BY <1>3, <3>1 DEF LaidInv, Laid
  <2> QED
    BY <2>1, <2>2, <2>3 DEF FD_Open, FD_Close
<1> QED
  BY <1>1, <1>2, <1>4, <1>5 DEF LaidInv, Laid, MergedSound

LEMMA CutLaid ==
  ASSUME LaidInv, PowerLoss
  PROVE  Laid' /\ MergedSound'
<1>1. NoTable \in LaidTab /\ Idle.tab \in LaidTab /\ NoCall.tab \in LaidTab
  BY NoTableLaid, CommandType DEF NoCall
<1>2. power' = "off" /\ mem' = Blank /\ call' = NoCall /\ op' = [c \in Chip |-> Idle]
  BY DEF PowerLoss, EndCall
<1>3. \A c \in Chip : mem'.PartTable[c] \in LaidTab /\ op'[c].tab \in LaidTab
  BY <1>1, <1>2, BlankType
<1>4. \A c \in Chip : flash'[c] \in {flash[c], NoTable, op[c].tab}
  BY DEF PowerLoss
<1> QED
  BY <1>1, <1>2, <1>3, <1>4 DEF LaidInv, Laid, MergedSound

LEMMA BootLaid ==
  ASSUME LaidInv, FD_Init
  PROVE  Laid' /\ MergedSound'
<1>1. flash' = flash /\ op' = op /\ call' = call
  BY DEF FD_Init, call_vars
<1>2. flash \in [Chip -> LaidTab] /\ flash \in [Chip -> Tab] /\ OnFlash = flash
  BY LaidIs, TypedIs DEF LaidInv, TablesInv
<1>3. /\ mem'.PartTable = flash
      /\ \/ power' = "on" /\ mem' = Tables(flash)
         \/ power' = "failed"
  BY <1>2, InitReads
<1>4. MergedSound'
  BY <1>2, <1>3, NewTablesSound DEF MergedSound
<1> QED
  BY <1>1, <1>2, <1>3, <1>4 DEF LaidInv, Laid

LEMMA LaidStart == Init => LaidInv
<1> SUFFICES ASSUME Init PROVE LaidInv
  OBVIOUS
<1>1. NoTable \in LaidTab /\ Idle.tab \in LaidTab /\ NoCall.tab \in LaidTab
  BY NoTableLaid, CommandType DEF NoCall
<1>2. \A c \in Chip : flash[c] = NoTable /\ op[c] = Idle /\ mem.PartTable[c] = NoTable
  BY BlankType DEF Init
<1>3. Laid /\ MergedSound
  BY <1>1, <1>2 DEF Init, Laid, MergedSound
<1> QED
  BY <1>3, TablesStart DEF LaidInv

LEMMA LaidStep ==
  ASSUME LaidInv, [Next]_vars
  PROVE  LaidInv'
<1>1. TablesInv'
  BY TablesStep DEF LaidInv
<1>2. CASE UNCHANGED vars
  <2>1. flash' = flash /\ op' = op /\ power' = power /\ mem' = mem /\ call' = call
    BY <1>2 DEF vars, call_vars
  <2> QED
    BY <1>1, <2>1 DEF LaidInv, Laid, MergedSound
<1>3. Next => Laid' /\ MergedSound'
  BY SettleLaid, SetPartitionLaid, EraseTableLaid, ProgramTableLaid, ReadBackLaid, UseLaid,
     CutLaid, BootLaid DEF Next
<1> QED
  BY <1>1, <1>2, <1>3 DEF LaidInv

----------------------------------------------------------------------------
(* Open devices                                                            *)

\* Of a device, as it was opened: where it interleaves, its partitions are of
\* one size, of whole groups of planes.
Grouped(d) ==
  /\ Len(d.PartInfo) \in {2, 4, 8}
  /\ d.InterleavingLevel = IF Len(d.PartInfo) < MAX_INTERLEAVED_CHIPS
                           THEN Len(d.PartInfo) ELSE MAX_INTERLEAVED_CHIPS
  /\ d.was[1].NumBlocks % NumPlanes = 0
  /\ \A k \in DOMAIN d.PartInfo : d.was[k].NumBlocks = d.was[1].NumBlocks
DeviceSound(d) ==
  /\ DOMAIN d = {"PartInfo", "NumBlocks", "was", "InterleavingLevel", "UsageCount"}
  /\ Len(d.PartInfo) \in Nat /\ DOMAIN d.PartInfo = 1 .. Len(d.PartInfo)
  /\ \A k \in DOMAIN d.PartInfo : d.was[k].StartBlock \in Nat /\ d.was[k].NumBlocks \in Nat
  /\ d.NumBlocks = SumOfFirst(d.was, Len(d.PartInfo))
  /\ d.InterleavingLevel = 1 \/ Grouped(d)
  /\ \A k, m \in DOMAIN d.PartInfo :
       k # m /\ d.PartInfo[k][1] = d.PartInfo[m][1] => Apart(d.was[k], d.was[m])
DevicesSound == \A id \in DOMAIN LDev : DeviceSound(LDev[id])

\* What is opened: one partition of a chip, the whole chip, or what is merged.
LEMMA OpenedParts ==
  ASSUME LaidInv, power = "on", NEW id \in Ids, NEW parts, parts = PartInfo(id), parts # << >>
  PROVE  \/ Len(parts) = 1 /\ parts \in Seq(Chip \X (PartNo \cup {ENTIRE_PARTITION}))
         \/ parts \in Seq(Parts) /\ Sound(mem.PartTable, parts)
<1>1. id[1] \in {"RAW", "RAWTABLE", "FTL"} /\ (id[1] = "RAW" => id[3] \in Nat \cup {ENTIRE_PARTITION})
  BY LogicalAssumption
<1>2. CASE id[1] = "RAW"
  <2>1. /\ parts = << <<id[2], id[3]>> >> /\ id[2] \in Chip
        /\ id[3] = ENTIRE_PARTITION \/ id[3] < mem.PartTable[id[2]].NumPartitions
    BY <1>2 DEF PartInfo
  <2>2. mem.PartTable[id[2]].NumPartitions \in 0 .. MAX_FLASH_PARTITIONS
    BY <2>1, TypedIs DEF LaidInv, TablesInv, Tab
  <2>3. id[3] \in PartNo \cup {ENTIRE_PARTITION}
    BY <1>1, <1>2, <2>1, <2>2, Sizes DEF PartNo
  <2> QED
    BY <2>1, <2>3
<1>3. /\ \A x \in VPart : mem.RAWDevTable[x] \in Seq(Parts) /\ mem.FTLDevTable[x] \in Seq(Parts)
      /\ \A x \in VPart : /\ Sound(mem.PartTable, mem.RAWDevTable[x])
                          /\ Sound(mem.PartTable, mem.FTLDevTable[x])
  BY LaidIs DEF LaidInv, MergedSound, AllSound, DevSeq
<1>4. CASE id[1] = "RAWTABLE"
  <2>1. id[2] \in VPart /\ parts = mem.RAWDevTable[id[2]]
    BY <1>4 DEF PartInfo
  <2> QED
    BY <1>3, <2>1
<1>5. CASE id[1] = "FTL"
  <2>1. id[2] \in VPart /\ parts = mem.FTLDevTable[id[2]]
    BY <1>5 DEF PartInfo
  <2> QED
    BY <1>3, <2>1
<1> QED
  BY <1>1, <1>2, <1>4, <1>5

LEMMA PartAtType ==
  ASSUME LaidInv, NEW p \in Chip \X (PartNo \cup {ENTIRE_PARTITION})
  PROVE  /\ PartAt(p).StartBlock \in Nat /\ PartAt(p).NumBlocks \in Nat
         /\ p \in Parts => PartAt(p) = PartOf(mem.PartTable, p)
<1>1. CASE p[2] = ENTIRE_PARTITION
  <2>1. PartAt(p).StartBlock = 0 /\ PartAt(p).NumBlocks = ActualNumBlocks /\ ActualNumBlocks \in Nat
    BY <1>1, LogicalAssumption DEF PartAt, NoPart
  <2>2. p \notin Parts
    BY <1>1, Sizes DEF Parts, ENTIRE_PARTITION
  <2> QED
    BY <2>1, <2>2
<1>2. CASE p[2] # ENTIRE_PARTITION
  <2>1. p[1] \in Chip /\ p[2] \in PartNo /\ PartAt(p) = mem.PartTable[p[1]].Part[p[2]]
    BY <1>2 DEF PartAt
  <2>2. mem.PartTable[p[1]].Part[p[2]] \in PartType
    BY <2>1, LaidIs, LaidParts
  <2> QED
    BY <2>1, <2>2 DEF PartType, PartOf
<1> QED
  BY <1>1, <1>2

LEMMA NewDeviceSound ==
  ASSUME LaidInv, power = "on", NEW id \in Ids, PartInfo(id) # << >>
  PROVE  DeviceSound(NewDevice(PartInfo(id)))
<1> PICK parts : parts = PartInfo(id)
  OBVIOUS
<1> PICK n : n = Len(parts)
  OBVIOUS
<1> PICK d : d = NewDevice(parts)
  OBVIOUS
<1> DEFINE AnyPart == Chip \X (PartNo \cup {ENTIRE_PARTITION})
<1>1. \/ n = 1 /\ parts \in Seq(AnyPart)
      \/ parts \in Seq(Parts) /\ Sound(mem.PartTable, parts)
  BY OpenedParts
<1>2. \A p \in Parts : p \in AnyPart
  BY DEF Parts
<1>3. \A p \in AnyPart : /\ PartAt(p).StartBlock \in Nat /\ PartAt(p).NumBlocks \in Nat
                         /\ p \in Parts => PartAt(p) = PartOf(mem.PartTable, p)
  BY PartAtType
<1> HIDE DEF AnyPart
<1>4. n \in Nat /\ DOMAIN parts = 1 .. n /\ \A k \in DOMAIN parts : parts[k] \in AnyPart
  BY <1>1, <1>2
<1>5. /\ DOMAIN d = {"PartInfo", "NumBlocks", "was", "InterleavingLevel", "UsageCount"}
      /\ d.PartInfo = parts /\ d.was = Now(parts) /\ d.NumBlocks = SumOf(parts)
      /\ d.InterleavingLevel = Level(parts)
  BY DEF NewDevice
<1>6. DOMAIN Now(parts) = 1 .. n /\ Len(Now(parts)) = n
      /\ \A k \in DOMAIN parts : Now(parts)[k] = PartAt(parts[k])
  <2>1. Now(parts) = [k \in 1 .. n |-> PartAt(parts[k])]
    BY <1>4 DEF Now
  <2> QED
    BY <1>4, <2>1
<1>7. d.NumBlocks = SumOfFirst(d.was, n)
  BY <1>5, <1>6 DEF SumOf
<1>8. ASSUME d.InterleavingLevel # 1 PROVE Grouped(d)
  <2>1. /\ n \in {2, 4, 8} /\ \A k \in DOMAIN parts : PartAt(parts[k]).NumBlocks = PartAt(parts[1]).NumBlocks
        /\ d.InterleavingLevel = IF n < MAX_INTERLEAVED_CHIPS THEN n ELSE MAX_INTERLEAVED_CHIPS
    BY <1>5, <1>8 DEF Level
  <2>2. 1 \in DOMAIN parts /\ n # 1
    BY <1>4, <2>1
  <2>3. PartOf(mem.PartTable, parts[1]).NumBlocks % NumPlanes = 0 /\ parts[1] \in Parts
    BY <1>1, <2>2 DEF Sound
  <2>4. PartAt(parts[1]) = PartOf(mem.PartTable, parts[1])
    BY <1>3, <1>4, <2>2, <2>3
  <2> QED
    BY <1>5, <1>6, <2>1, <2>2, <2>3, <2>4 DEF Grouped
<1>9. ASSUME NEW k \in DOMAIN parts, NEW m \in DOMAIN parts, k # m, parts[k][1] = parts[m][1]
      PROVE  Apart(d.was[k], d.was[m])
  <2>1. n # 1
    BY <1>4, <1>9
  <2>2. Sound(mem.PartTable, parts) /\ parts[k] \in Parts /\ parts[m] \in Parts
    BY <1>1, <2>1
  <2>3. PartAt(parts[k]) = PartOf(mem.PartTable, parts[k])
        /\ PartAt(parts[m]) = PartOf(mem.PartTable, parts[m])
    BY <1>3, <1>4, <2>2
  <2> QED
    BY <1>5, <1>6, <1>9, <2>2, <2>3 DEF Sound
<1> QED
  BY <1>3, <1>4, <1>5, <1>6, <1>7, <1>8, <1>9 DEF DeviceSound

LEMMA UsersAside ==
  ASSUME NEW d, DeviceSound(d), NEW v
  PROVE  DeviceSound([d EXCEPT !.UsageCount = v])
<1> PICK e : e = [d EXCEPT !.UsageCount = v]
  OBVIOUS
<1>1. DOMAIN e = DOMAIN d /\ \A x \in DOMAIN d : x # "UsageCount" => e[x] = d[x]
  OBVIOUS
<1>2. e.PartInfo = d.PartInfo /\ e.NumBlocks = d.NumBlocks /\ e.was = d.was
      /\ e.InterleavingLevel = d.InterleavingLevel
  BY <1>1 DEF DeviceSound
<1>3. Grouped(d) => Grouped(e)
  BY <1>2 DEF Grouped
<1> QED
  BY <1>1, <1>2, <1>3 DEF DeviceSound

LEMMA DevicesSoundStep ==
  ASSUME LaidInv, DevicesSound, [Next]_vars
  PROVE  DevicesSound'
<1>1. CASE UNCHANGED LDev
  BY <1>1 DEF DevicesSound
<1>2. ASSUME NEW id \in Ids, FD_Open(id) PROVE DevicesSound'
  <2>1. CASE /\ id \in DOMAIN LDev
             /\ LDev' = [LDev EXCEPT ![id].UsageCount = Used(@ + 1)]
    BY <2>1, UsersAside DEF DevicesSound
  <2>2. CASE LDev' = NotOpened(id)
    BY <1>1, <2>2 DEF NotOpened
  <2>3. CASE PartInfo(id) # << >> /\ LDev' = With(LDev, id, NewDevice(PartInfo(id)))
    <3>1. power = "on"
      BY <1>2 DEF FD_Open, Up
    <3> PICK new : new = NewDevice(PartInfo(id))
      OBVIOUS
    <3>2. DeviceSound(new)
      BY <2>3, <3>1, NewDeviceSound
    <3>3. /\ DOMAIN LDev' = DOMAIN LDev \cup {id}
          /\ \A x \in DOMAIN LDev' : LDev'[x] = new \/ (x \in DOMAIN LDev /\ LDev'[x] = LDev[x])
      BY <2>3 DEF With
    <3> QED
      BY <3>2, <3>3 DEF DevicesSound
  <2> QED
    BY <1>2, <2>1, <2>2, <2>3 DEF FD_Open
<1>3. ASSUME NEW id \in Ids, FD_Close(id) PROVE DevicesSound'
  <2>1. CASE LDev' = LDev
    BY <1>1, <2>1
  <2>2. CASE LDev' = Without(LDev, id)
    BY <2>2 DEF Without, DevicesSound
  <2>3. CASE id \in DOMAIN LDev /\ LDev' = [LDev EXCEPT ![id].UsageCount = Used(@ - 1)]
    BY <2>3, UsersAside DEF DevicesSound
  <2> QED
    BY <1>3, <2>1, <2>2, <2>3 DEF FD_Close
<1>4. CASE PowerLoss
  BY <1>4 DEF PowerLoss, NoDevice, DevicesSound
<1>5. (\E c \in Chip : Settle(c)) \/ SetPartition \/ EraseTable \/ ProgramTable \/ ReadBack
      \/ (\E id \in Ids : FD_Erase(id) \/ LFD_ErasePart(id)) \/ FD_Init \/ UNCHANGED vars
      => UNCHANGED LDev
  BY DEF Settle, SetPartition, EraseTable, ProgramTable, ReadBack, FD_Erase, LFD_ErasePart,
         FD_Init, vars
<1> QED
  BY <1>1, <1>2, <1>3, <1>4, <1>5 DEF Next

----------------------------------------------------------------------------
(* Where a block of a device lies                                          *)

\* The block of partition k of device d that is x blocks after its start.
Place(d, k, x) == <<d.PartInfo[k][1], d.was[k].StartBlock + x>>
Inside(d, k, x) == k \in DOMAIN d.PartInfo /\ x \in 0 .. d.was[k].NumBlocks - 1

\* Different places in the partitions of a device are different blocks.
LEMMA PlacesApart ==
  ASSUME NEW d, DeviceSound(d), NEW k, NEW x, NEW m, NEW y,
         Inside(d, k, x), Inside(d, m, y), Place(d, k, x) = Place(d, m, y)
  PROVE  k = m /\ x = y
<1>1. /\ d.PartInfo[k][1] = d.PartInfo[m][1]
      /\ d.was[k].StartBlock + x = d.was[m].StartBlock + y
  BY DEF Place
<1>2. /\ d.was[k].StartBlock \in Nat /\ d.was[k].NumBlocks \in Nat
      /\ d.was[m].StartBlock \in Nat /\ d.was[m].NumBlocks \in Nat
      /\ k \in DOMAIN d.PartInfo /\ m \in DOMAIN d.PartInfo
      /\ x \in 0 .. d.was[k].NumBlocks - 1 /\ y \in 0 .. d.was[m].NumBlocks - 1
  BY DEF DeviceSound, Inside
<1>3. k # m => Apart(d.was[k], d.was[m])
  BY <1>1, <1>2 DEF DeviceSound
<1> QED
  BY <1>1, <1>2, <1>3 DEF Apart

\* The first partition whose end lies beyond block b.
LEMMA FirstBeyond ==
  ASSUME NEW r, NEW n \in Nat, \A k \in 1 .. n : r[k].NumBlocks \in Nat,
         NEW b \in 0 .. SumOfFirst(r, n) - 1
  PROVE  \E k \in 1 .. n : /\ SumOfFirst(r, k - 1) <= b /\ r[k].NumBlocks > b - SumOfFirst(r, k - 1)
                           /\ \A j \in 1 .. n : r[j].NumBlocks > b - SumOfFirst(r, j - 1) => k <= j
<1> DEFINE S(j) == SumOfFirst(r, j)
           Missed(j) == \A i \in 1 .. j : ~ r[i].NumBlocks > b - S(i - 1)
           Passed == {j \in Nat : j <= n => Missed(j) /\ S(j) <= b}
<1>1. \A j \in 0 .. n : S(j) \in Nat
  <2> TAKE j \in 0 .. n
  <2>1. j \in Nat /\ \A k \in 1 .. j : r[k].NumBlocks \in Nat
    OBVIOUS
  <2> QED
    BY <2>1, SumType
<1>2. \A j \in 1 .. n : S(j) = S(j - 1) + r[j].NumBlocks
  <2> TAKE j \in 1 .. n
  <2>1. j \in Nat /\ j > 0 /\ \A k \in 1 .. j : r[k].NumBlocks \in Nat
    OBVIOUS
  <2> QED
    BY <2>1, SumGrows
<1>3. S(0) = 0
  BY SumGrows
<1>4. b \in Nat /\ b < S(n)
  BY <1>1
<1> HIDE DEF S
<1> SUFFICES ASSUME \A k \in 1 .. n : S(k - 1) <= b /\ r[k].NumBlocks > b - S(k - 1)
                      => \E j \in 1 .. n : r[j].NumBlocks > b - S(j - 1) /\ ~ k <= j
             PROVE  FALSE
  BY DEF S
<1>5. 0 \in Passed
  BY <1>3, <1>4
<1>6. ASSUME NEW j \in Nat, j \in Passed PROVE j + 1 \in Passed
  <2> SUFFICES ASSUME j + 1 <= n PROVE Missed(j + 1) /\ S(j + 1) <= b
    OBVIOUS
  <2>1. Missed(j) /\ S(j) <= b /\ (j + 1) - 1 = j /\ j + 1 \in 1 .. n /\ j \in 0 .. n
    BY <1>6
  <2>2. ~ r[j + 1].NumBlocks > b - S(j)
    <3> SUFFICES ASSUME r[j + 1].NumBlocks > b - S(j) PROVE FALSE
      OBVIOUS
    <3>1. PICK i \in 1 .. n : r[i].NumBlocks > b - S(i - 1) /\ ~ j + 1 <= i
      BY <2>1
    <3>2. i \in 1 .. j
      BY <2>1, <3>1
    <3> QED
      BY <2>1, <3>1, <3>2
  <2>3. S(j + 1) = S(j) + r[j + 1].NumBlocks /\ S(j) \in Nat /\ r[j + 1].NumBlocks \in Nat
    BY <1>1, <1>2, <2>1
  <2>4. S(j + 1) <= b
    BY <1>4, <2>2, <2>3
  <2>5. Missed(j + 1)
    <3> SUFFICES ASSUME NEW i \in 1 .. j + 1 PROVE ~ r[i].NumBlocks > b - S(i - 1)
      OBVIOUS
    <3>1. i \in 1 .. j \/ i = j + 1
      OBVIOUS
    <3> QED
      BY <2>1, <2>2, <3>1
  <2> QED
    BY <2>4, <2>5
<1> HIDE DEF Passed
<1>7. \A j \in Nat : j \in Passed
  BY <1>5, <1>6, Upwards
<1>8. S(n) <= b
  BY <1>7 DEF Passed
<1> QED
  BY <1>1, <1>4, <1>8

LEMMA InTurnFalls ==
  ASSUME NEW d, DeviceSound(d), d.was = Now(d.PartInfo), NEW b \in 0 .. d.NumBlocks - 1
  PROVE  \E k \in DOMAIN d.PartInfo :
           /\ SumOfFirst(d.was, k - 1) <= b /\ SumOfFirst(d.was, k - 1) \in Nat
           /\ Inside(d, k, b - SumOfFirst(d.was, k - 1))
           /\ InTurn(d, b) = Place(d, k, b - SumOfFirst(d.was, k - 1))
<1> PICK r : r = d.was
  OBVIOUS
<1> PICK n : n = Len(d.PartInfo)
  OBVIOUS
<1> DEFINE Beyond(k) == r[k].NumBlocks > b - SumOfFirst(r, k - 1)
           K == {k \in 1 .. n : Beyond(k)}
<1>1. /\ n \in Nat /\ DOMAIN d.PartInfo = 1 .. n /\ d.NumBlocks = SumOfFirst(r, n)
      /\ \A k \in 1 .. n : r[k].StartBlock \in Nat /\ r[k].NumBlocks \in Nat
  BY DEF DeviceSound
<1>2. DOMAIN r = 1 .. n
  BY <1>1 DEF Now
<1>3. PICK k \in 1 .. n : /\ SumOfFirst(r, k - 1) <= b /\ Beyond(k)
                          /\ \A j \in 1 .. n : Beyond(j) => k <= j
  BY <1>1, FirstBeyond
<1>4. SumOfFirst(r, k - 1) \in Nat
  <2>1. k - 1 \in Nat /\ \A j \in 1 .. k - 1 : r[j].NumBlocks \in Nat
    BY <1>1
  <2> QED
    BY <2>1, SumType
<1>5. k \in K /\ K # {} /\ \A j \in K : k <= j
  BY <1>3
<1>6. k = CHOOSE i \in K : \A j \in K : i <= j
  <2>1. \A i \in K : (\A j \in K : i <= j) => i = k
    BY <1>5
  <2> HIDE DEF K
  <2> QED
    BY <1>5, <2>1
<1>7. K = {j \in DOMAIN d.was : d.was[j].NumBlocks > b - SumOfFirst(d.was, j - 1)}
  BY <1>2
<1> HIDE DEF K
<1>8. InTurn(d, b) = <<d.PartInfo[k][1], d.was[k].StartBlock + b - SumOfFirst(d.was, k - 1)>>
  BY <1>5, <1>6, <1>7 DEF InTurn
<1>9. r[k].StartBlock \in Nat /\ r[k].NumBlocks \in Nat /\ b \in Nat /\ d.NumBlocks \in Nat
  <2>1. d.NumBlocks \in Nat
    BY <1>1, SumType
  <2> QED
    BY <1>1, <2>1
<1>10. Place(d, k, b - SumOfFirst(r, k - 1)) = InTurn(d, b)
  BY <1>4, <1>8, <1>9 DEF Place
<1>11. Inside(d, k, b - SumOfFirst(r, k - 1))
  BY <1>1, <1>3, <1>4, <1>9 DEF Inside
<1> QED
  BY <1>1, <1>3, <1>4, <1>10, <1>11

\* In turn, the blocks of a device are those of its partitions one after the
\* other.
LEMMA InTurnApart ==
  ASSUME NEW d, DeviceSound(d), d.was = Now(d.PartInfo),
         NEW b \in 0 .. d.NumBlocks - 1, NEW a \in 0 .. d.NumBlocks - 1, a # b
  PROVE  InTurn(d, a) # InTurn(d, b)
<1> SUFFICES ASSUME InTurn(d, a) = InTurn(d, b) PROVE FALSE
  OBVIOUS
<1> DEFINE Off(j) == SumOfFirst(d.was, j - 1)
<1>1. PICK k \in DOMAIN d.PartInfo : /\ Off(k) \in Nat /\ Inside(d, k, a - Off(k))
                                     /\ InTurn(d, a) = Place(d, k, a - Off(k))
  BY InTurnFalls
<1>2. PICK m \in DOMAIN d.PartInfo : /\ Off(m) \in Nat /\ Inside(d, m, b - Off(m))
                                     /\ InTurn(d, b) = Place(d, m, b - Off(m))
  BY InTurnFalls
<1>3. k = m /\ a - Off(k) = b - Off(m)
  BY <1>1, <1>2, PlacesApart
<1>4. a \in Int /\ b \in Int
  OBVIOUS
<1> QED
  BY <1>1, <1>3, <1>4

LEMMA DivMod ==
  ASSUME NEW a \in Nat, NEW g \in Nat, g > 0
  PROVE  /\ a \div g \in Nat /\ a % g \in Nat /\ a % g < g
         /\ a = g * (a \div g) + (a % g)
OBVIOUS

LEMMA FewGroups ==
  ASSUME NEW q \in Nat, NEW g \in Nat, NEW m \in {1, 2, 4}, g > 0, g * q < g * m
  PROVE  q < m
OBVIOUS

LEMMA SumOfEqual ==
  ASSUME NEW r, NEW n \in Nat, NEW size \in Nat, \A k \in 1 .. n : r[k].NumBlocks = size
  PROVE  SumOfFirst(r, n) = size * n
<1> DEFINE Times == {j \in Nat : j <= n => SumOfFirst(r, j) = size * j}
<1>1. 0 \in Times
  <2>1. SumOfFirst(r, 0) = 0
    BY SumGrows
  <2> QED
    BY <2>1
<1>2. ASSUME NEW j \in Nat, j \in Times PROVE j + 1 \in Times
  <2> SUFFICES ASSUME j + 1 <= n PROVE SumOfFirst(r, j + 1) = size * (j + 1)
    OBVIOUS
  <2>1. j + 1 \in Nat /\ j + 1 > 0 /\ \A k \in 1 .. j + 1 : r[k].NumBlocks \in Nat
    OBVIOUS
  <2>2. (j + 1) - 1 = j /\ r[j + 1].NumBlocks = size /\ SumOfFirst(r, j) = size * j
    BY <1>2
  <2>3. SumOfFirst(r, j + 1) = SumOfFirst(r, (j + 1) - 1) + r[j + 1].NumBlocks
    BY <2>1, SumGrows
  <2>4. SumOfFirst(r, j + 1) = size * j + size
    BY <2>2, <2>3
  <2> QED
    BY <2>4
<1> HIDE DEF Times
<1>3. \A j \in Nat : j \in Times
  BY <1>1, <1>2, Upwards
<1> QED
  BY <1>3 DEF Times

\* Of a block in a group: the partition of the group, and the offset in it.
Within(P, L, b) == (b % (P * L)) \div P
Offset(P, L, r) == (((r \div P) * P) \div L) + (r % P)

\* Block b = q * g + s of a device with groups of g blocks; i and r are steps
\* on the way to x.
Computed(P, L, size, g, q, s, b, i, r, x) ==
  /\ P \in {1, 2, 4} /\ L \in {2, 4, 8} /\ size \in Nat /\ size % P = 0
  /\ g = size * L /\ q \in {0, 1, 2, 3} /\ s \in Nat /\ s < g /\ b = g * q + s
  /\ i = Within(P, L, b) /\ r = s - i * P /\ x = Offset(P, L, r)

LEMMA Spread ==
  ASSUME NEW P, NEW L, NEW size, NEW g, NEW q, NEW s, NEW b, NEW i, NEW r, NEW x,
         Computed(P, L, size, g, q, s, b, i, r, x)
  PROVE  /\ i \in 0 .. L - 1 /\ x \in 0 .. size - 1
         /\ s = (x \div P) * (P * L) + i * P + (x % P)
<1> USE DEF Computed
<1>1. PICK M \in Nat : size = P * M
  <2>1. size = P * (size \div P) /\ size \div P \in Nat
    BY DivMod
  <2> QED
    BY <2>1
<1>2. CASE P = 1 /\ L = 2
  BY <1>1, <1>2 DEF Within, Offset
<1>3. CASE P = 1 /\ L = 4
  BY <1>1, <1>3 DEF Within, Offset
<1>4. CASE P = 1 /\ L = 8
  BY <1>1, <1>4 DEF Within, Offset
<1>5. CASE P = 2 /\ L = 2
  BY <1>1, <1>5 DEF Within, Offset
<1>6. CASE P = 2 /\ L = 4
  BY <1>1, <1>6 DEF Within, Offset
<1>7. CASE P = 2 /\ L = 8
  BY <1>1, <1>7 DEF Within, Offset
<1>8. CASE P = 4 /\ L = 2
  BY <1>1, <1>8 DEF Within, Offset
<1>9. CASE P = 4 /\ L = 4
  BY <1>1, <1>9 DEF Within, Offset
<1>10. CASE P = 4 /\ L = 8
  BY <1>1, <1>10 DEF Within, Offset
<1> QED
  BY <1>2, <1>3, <1>4, <1>5, <1>6, <1>7, <1>8, <1>9, <1>10

\* Of block b: the partition, the offset in it; and of these the block.
InPart(P, L, size, b)  == (b \div (size * L)) * L + Within(P, L, b) + 1
AtBlock(P, L, size, b) == Offset(P, L, (b % (size * L)) - (Within(P, L, b) * P))
Behind(P, L, size, k, x) ==
  (size * L) * ((k - 1) \div L) + ((x \div P) * (P * L) + ((k - 1) % L) * P + (x % P))

LEMMA PartAndBlock ==
  ASSUME NEW L \in {2, 4, 8}, NEW m \in {1, 2, 4}, NEW q \in Nat, q < m, NEW i \in 0 .. L - 1
  PROVE  LET k == q * L + i + 1
         IN  k \in 1 .. L * m /\ (k - 1) \div L = q /\ (k - 1) % L = i
<1>1. q \in {0, 1, 2, 3} /\ (m = 1 => q = 0) /\ (m = 2 => q < 2)
  OBVIOUS
<1>2. CASE L = 2
  BY <1>1, <1>2
<1>3. CASE L = 4
  BY <1>1, <1>3
<1>4. CASE L = 8
  BY <1>1, <1>4
<1> QED
  BY <1>2, <1>3, <1>4

\* Block b of a device of m groups of L partitions.
Spreads(P, L, m, size, b) ==
  /\ P \in {1, 2, 4} /\ L \in {2, 4, 8} /\ m \in {1, 2, 4} /\ size \in Nat /\ size % P = 0
  /\ b \in Nat /\ b < size * (L * m)

LEMMA GroupSize ==
  ASSUME NEW P, NEW L, NEW m, NEW size, NEW b, Spreads(P, L, m, size, b)
  PROVE  /\ size * L \in Nat /\ size * L > 0 /\ b < (size * L) * m
         /\ b \div (size * L) \in Nat /\ b \div (size * L) < m
         /\ b % (size * L) \in Nat /\ b % (size * L) < size * L
         /\ b = (size * L) * (b \div (size * L)) + (b % (size * L))
<1> USE DEF Spreads
<1> PICK g : g = size * L
  OBVIOUS
<1>1. g \in Nat
  OBVIOUS
<1>2. size * (L * m) = g * m
  OBVIOUS
<1>3. b < g * m
  BY <1>2
<1>4. g > 0
  BY <1>1, <1>3
<1>5. \A q, r \in Nat : b = g * q + r => g * q < g * m
  <2> TAKE q, r \in Nat
  <2> HAVE b = g * q + r
  <2>1. g * q \in Nat /\ g * m \in Nat
    BY <1>1
  <2> QED
    BY <1>3, <2>1
<1>6. /\ b \div g \in Nat /\ b % g \in Nat /\ b % g < g
      /\ b = g * (b \div g) + (b % g)
  BY <1>1, <1>4, DivMod
<1>7. b \div g < m
  BY <1>1, <1>4, <1>5, <1>6, FewGroups
<1> QED
  BY <1>1, <1>3, <1>4, <1>6, <1>7

LEMMA SpreadOut ==
  ASSUME NEW P, NEW L, NEW m, NEW size, NEW b, Spreads(P, L, m, size, b)
  PROVE  /\ InPart(P, L, size, b) \in 1 .. L * m
         /\ AtBlock(P, L, size, b) \in 0 .. size - 1
         /\ b = Behind(P, L, size, InPart(P, L, size, b), AtBlock(P, L, size, b))
<1>1. /\ size * L \in Nat /\ size * L > 0
      /\ b \div (size * L) \in Nat /\ b \div (size * L) < m
      /\ b % (size * L) \in Nat /\ b % (size * L) < size * L
      /\ b = (size * L) * (b \div (size * L)) + (b % (size * L))
  BY GroupSize
<1>2. PICK q \in Nat : q = b \div (size * L)
  BY <1>1
<1>3. PICK s \in Nat : s = b % (size * L)
  BY <1>1
<1>4. PICK i : i = Within(P, L, b)
  OBVIOUS
<1>5. PICK r : r = s - i * P
  OBVIOUS
<1>6. PICK x : x = Offset(P, L, r)
  OBVIOUS
<1>7. PICK g : g = size * L
  OBVIOUS
<1>8. q \in {0, 1, 2, 3} /\ q < m /\ s < g /\ b = g * q + s
  BY <1>1, <1>2, <1>3, <1>7 DEF Spreads
<1>9. /\ i \in 0 .. L - 1 /\ x \in 0 .. size - 1
      /\ s = (x \div P) * (P * L) + i * P + (x % P)
  <2>1. Computed(P, L, size, g, q, s, b, i, r, x)
    BY <1>4, <1>5, <1>6, <1>7, <1>8 DEF Computed, Spreads
  <2> QED
    BY <2>1, Spread
<1>10. PICK k : k = q * L + i + 1
  OBVIOUS
<1>11. k \in 1 .. L * m /\ (k - 1) \div L = q /\ (k - 1) % L = i
  BY <1>8, <1>9, <1>10, PartAndBlock DEF Spreads
<1>12. InPart(P, L, size, b) = k
  BY <1>2, <1>4, <1>10 DEF InPart
<1>13. AtBlock(P, L, size, b) = x
  BY <1>3, <1>4, <1>5, <1>6 DEF AtBlock
<1>14. b = Behind(P, L, size, k, x)
  BY <1>7, <1>8, <1>9, <1>11 DEF Behind
<1> QED
  BY <1>9, <1>11, <1>12, <1>13, <1>14

LEMMA LevelDivides ==
  ASSUME NEW n \in {2, 4, 8}, NEW most \in {1, 2, 4, 8},
         NEW L, L = IF n < most THEN n ELSE most, L # 1
  PROVE  L \in {2, 4, 8} /\ \E m \in {1, 2, 4} : n = L * m
<1>1. L \in {2, 4, 8} /\ L <= n
  OBVIOUS
<1>2. n = L * 1 \/ n = L * 2 \/ n = L * 4
  BY <1>1
<1> QED
  BY <1>1, <1>2

LEMMA InterleavedFalls ==
  ASSUME MAX_INTERLEAVED_CHIPS \in {1, 2, 4, 8},
         NEW d, DeviceSound(d), d.was = Now(d.PartInfo), d.InterleavingLevel # 1,
         NEW b \in 0 .. d.NumBlocks - 1
  PROVE  \E k, x : /\ Inside(d, k, x)
                   /\ b = Behind(NumPlanes, d.InterleavingLevel, d.was[1].NumBlocks, k, x)
                   /\ Interleaved(d, b) = Place(d, k, x)
<1>1. Grouped(d) /\ DOMAIN d.PartInfo = 1 .. Len(d.PartInfo)
  BY DEF DeviceSound
<1>2. PICK n \in {2, 4, 8} : n = Len(d.PartInfo)
  BY <1>1 DEF Grouped
<1>3. 1 \in 1 .. n /\ n \in Nat /\ DOMAIN d.PartInfo = 1 .. n
  <2>1. n = 2 \/ n = 4 \/ n = 8
    OBVIOUS
  <2>2. 1 \in 1 .. n /\ n \in Nat
    BY <2>1
  <2> QED
    BY <1>1, <1>2, <2>2, Zenon
<1>4. PICK size \in Nat : size = d.was[1].NumBlocks
  BY <1>3 DEF DeviceSound
<1>5. PICK P \in {1, 2, 4} : P = NumPlanes
  BY LogicalAssumption
<1>6. PICK L \in {2, 4, 8} : L = d.InterleavingLevel /\ \E m \in {1, 2, 4} : n = L * m
  <2>1. d.InterleavingLevel = IF n < MAX_INTERLEAVED_CHIPS THEN n ELSE MAX_INTERLEAVED_CHIPS
    BY <1>1, <1>2 DEF Grouped
  <2>2. d.InterleavingLevel \in {2, 4, 8} /\ \E m \in {1, 2, 4} : n = d.InterleavingLevel * m
    BY <2>1, LevelDivides
  <2> QED
    BY <2>2
<1>7. PICK m \in {1, 2, 4} : n = L * m
  BY <1>6
<1> DEFINE k == InPart(P, L, size, b)
           x == AtBlock(P, L, size, b)
<1>8. /\ size % P = 0 /\ d.NumBlocks = SumOfFirst(d.was, n)
       /\ \A j \in 1 .. n : d.was[j].NumBlocks = size /\ d.was[j].StartBlock \in Nat
  BY <1>1, <1>2, <1>3, <1>4, <1>5 DEF Grouped, DeviceSound
<1>9. d.NumBlocks = size * n
  BY <1>3, <1>8, SumOfEqual
<1>10. b \in Nat /\ b < size * (L * m)
  <2>1. size * n \in Nat
    BY <1>3
  <2> QED
    BY <1>7, <1>9, <2>1
<1>11. k \in 1 .. n /\ x \in 0 .. size - 1 /\ b = Behind(P, L, size, k, x)
  <2>1. Spreads(P, L, m, size, b)
    BY <1>8, <1>10 DEF Spreads
  <2>2. k \in 1 .. L * m /\ x \in 0 .. size - 1 /\ b = Behind(P, L, size, k, x)
    BY <2>1, SpreadOut
  <2> QED
    BY <1>7, <2>2
<1>12. PartAt(d.PartInfo[1]) = d.was[1] /\ PartAt(d.PartInfo[k]) = d.was[k]
  BY <1>3, <1>11 DEF Now
<1>13. size * L > 0 /\ b % (size * L) \in Nat
  <2>1. Spreads(P, L, m, size, b)
    BY <1>8, <1>10 DEF Spreads
  <2> QED
    BY <2>1, GroupSize
<1>14. Within(P, L, b) \in Int
  BY <1>10 DEF Within
<1> PICK r : r = (b % (size * L)) - (Within(P, L, b) * P)
  OBVIOUS
<1>15. Interleaved(d, b) = <<d.PartInfo[k][1],
                             d.was[k].StartBlock + (((r \div P) * P) \div L) + (r % P)>>
  <2>1. k \in DOMAIN d.PartInfo /\ size * L # 0
    BY <1>3, <1>11, <1>13
  <2> QED
    BY <1>4, <1>5, <1>6, <1>12, <2>1 DEF Interleaved, InPart, Within
<1>16. Interleaved(d, b) = Place(d, k, x)
  <2>1. r \in Int /\ P \in {1, 2, 4} /\ L \in {2, 4, 8} /\ d.was[k].StartBlock \in Nat
    BY <1>8, <1>11, <1>13, <1>14
  <2>2. ((r \div P) * P) \div L \in Int /\ r % P \in Int
    BY <2>1
  <2>3. x = (((r \div P) * P) \div L) + (r % P)
    BY DEF AtBlock, Offset
  <2> QED
    BY <1>15, <2>1, <2>2, <2>3 DEF Place
<1>17. Inside(d, k, x)
  BY <1>3, <1>8, <1>11 DEF Inside
<1> QED
  BY <1>4, <1>5, <1>6, <1>11, <1>16, <1>17

LEMMA DeviceBlocksApart ==
  ASSUME MAX_INTERLEAVED_CHIPS \in {1, 2, 4, 8},
         NEW d, DeviceSound(d), d.was = Now(d.PartInfo), NEW b \in 0 .. d.NumBlocks - 1
  PROVE  /\ \E k \in DOMAIN d.PartInfo :
              \E x : Inside(d, k, x) /\ LFD_GetPartitionInfo(d, b) = Place(d, k, x)
         /\ \A a \in 0 .. b - 1 : LFD_GetPartitionInfo(d, a) # LFD_GetPartitionInfo(d, b)
<1>1. \A a \in 0 .. b - 1 : a \in 0 .. d.NumBlocks - 1 /\ a # b
  <2>1. d.NumBlocks \in Nat
    BY SumType DEF DeviceSound
  <2> QED
    BY <2>1
<1>2. CASE d.InterleavingLevel = 1
  <2>1. \A a : LFD_GetPartitionInfo(d, a) = InTurn(d, a)
    BY <1>2 DEF LFD_GetPartitionInfo
  <2>2. \E k \in DOMAIN d.PartInfo : \E x : Inside(d, k, x) /\ InTurn(d, b) = Place(d, k, x)
    BY InTurnFalls
  <2> QED
    BY <1>1, <2>1, <2>2, InTurnApart
<1>3. CASE d.InterleavingLevel # 1
  <2>1. \A a : LFD_GetPartitionInfo(d, a) = Interleaved(d, a)
    BY <1>3 DEF LFD_GetPartitionInfo
  <2> DEFINE At(k, x) == Behind(NumPlanes, d.InterleavingLevel, d.was[1].NumBlocks, k, x)
  <2>2. PICK k, x : Inside(d, k, x) /\ b = At(k, x) /\ Interleaved(d, b) = Place(d, k, x)
    BY <1>3, InterleavedFalls
  <2>3. ASSUME NEW a \in 0 .. b - 1, Interleaved(d, a) = Interleaved(d, b) PROVE FALSE
    <3>1. PICK m, y : /\ Inside(d, m, y) /\ a = At(m, y)
                      /\ Interleaved(d, a) = Place(d, m, y)
      BY <1>1, <1>3, InterleavedFalls
    <3>2. k = m /\ x = y
      BY <2>2, <2>3, <3>1, PlacesApart
    <3> QED
      BY <1>1, <2>2, <3>1, <3>2
  <2> QED
    BY <2>1, <2>2, <2>3 DEF Inside
<1> QED
  BY <1>2, <1>3

\* Two blocks of a device are never one flash block, and each lies in one of
\* its partitions, for any layouts accepted, chips and sizes: if the largest
\* interleaving level is a number of 2^n, as fd_if.h asks.  Of 3 chips, say, a
\* device of four partitions would have a second group of one.
THEOREM BlocksStayApart ==
  ASSUME MAX_INTERLEAVED_CHIPS \in {1, 2, 4, 8}
  PROVE  Spec => []BlocksApart
<1>1. Init => LaidInv /\ DevicesSound
  <2>1. Init => DevicesSound
    BY DEF Init, NoDevice, DevicesSound
  <2> QED
    BY <2>1, LaidStart
<1>2. LaidInv /\ DevicesSound /\ [Next]_vars => (LaidInv /\ DevicesSound)'
  BY LaidStep, DevicesSoundStep
<1>3. LaidInv /\ DevicesSound => BlocksApart
  <2> SUFFICES ASSUME LaidInv, DevicesSound PROVE BlocksApart
    OBVIOUS
  <2>1. ASSUME NEW d, DeviceSound(d), d.was = Now(d.PartInfo), NEW b \in 0 .. d.NumBlocks - 1
        PROVE  LET at == LFD_GetPartitionInfo(d, b)
               IN  /\ \E k \in DOMAIN d.PartInfo :
                        /\ at # Nowhere /\ at[1] = d.PartInfo[k][1]
                        /\ at[2] - d.was[k].StartBlock \in 0 .. d.was[k].NumBlocks - 1
                   /\ \A a \in 0 .. b - 1 : LFD_GetPartitionInfo(d, a) # at
    <3>1. PICK k \in DOMAIN d.PartInfo :
            \E x : Inside(d, k, x) /\ LFD_GetPartitionInfo(d, b) = Place(d, k, x)
      BY <2>1, DeviceBlocksApart
    <3>2. PICK x : Inside(d, k, x) /\ LFD_GetPartitionInfo(d, b) = Place(d, k, x)
      BY <3>1
    <3>3. d.was[k].StartBlock \in Nat /\ d.was[k].NumBlocks \in Nat
      BY <2>1 DEF DeviceSound
    <3>4. /\ Place(d, k, x) # Nowhere /\ Place(d, k, x)[1] = d.PartInfo[k][1]
          /\ Place(d, k, x)[2] - d.was[k].StartBlock = x
      BY <3>2, <3>3 DEF Place, Nowhere, Inside
    <3>5. \A a \in 0 .. b - 1 : LFD_GetPartitionInfo(d, a) # LFD_GetPartitionInfo(d, b)
      BY <2>1, DeviceBlocksApart
    <3> QED
      BY <3>2, <3>4, <3>5 DEF Inside
  <2> QED
    BY <2>1 DEF BlocksApart, DevicesSound
<1> QED
  BY <1>1, <1>2, <1>3, PTL DEF Spec

=============================================================================
