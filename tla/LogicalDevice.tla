----------------------------- MODULE LogicalDevice -----------------------------
(***************************************************************************)
(* The logical devices of the UFD flash driver, drivers/ufd/fd_logical.c   *)
(* with FD_Init, FD_Open, FD_Close and FD_Erase of fd_if.c: the partition  *)
(* table each chip keeps in one block, its copy in memory, the tables of   *)
(* merged partitions made from it, and the devices opened over them.  The  *)
(* caller is the raw block device, fm_raw_blkdev.c, whose UFD_SET_PARTITION*)
(* lays a table out, writes it, and reads every chip's table back.         *)
(*                                                                         *)
(* A table is erased and programmed in place, each operation is carried    *)
(* out after its call has returned (module PhysicalDevice), and power may  *)
(* be lost at any time.  Calls hold UFD_LOCK, and nothing in them sleeps.  *)
(***************************************************************************)
EXTENDS Integers, FiniteSets, Sequences

CONSTANTS
  NumChips,              \* PDevCount, chips of one type
  NumPlanes,
  ActualNumBlocks,       \* blocks below the one of the partition table
  MAX_FLASH_PARTITIONS,
  MAX_FLASH_VPARTITIONS,
  MAX_FLASH_CHIPS,       \* partitions that one device can merge
  MAX_FLASH_DEVICES,     \* devices that can be open
  MAX_INTERLEAVED_CHIPS,
  UsageRange,            \* values of UsageCount, 256
  Requests,              \* layouts asked for: sequences of partitions without start
  Leftovers,             \* what a partition beyond the last may hold
  Ids,                   \* the devices that callers open
  MaxSets,               \* bounds: layouts set,
  MaxOpens,              \* devices opened, all at a time,
  MaxErases,             \* blocks and partitions erased,
  MaxFailures,           \* operations that fail for good,
  MaxCuts                \* power losses

Chip   == 0 .. NumChips - 1
PartNo == 0 .. MAX_FLASH_PARTITIONS - 1
VPart  == 0 .. MAX_FLASH_VPARTITIONS - 1
ENTIRE_PARTITION == -1
PartTableBlock   == ActualNumBlocks
NoPart  == [StartBlock |-> 0, NumBlocks |-> 0, DevClass |-> "none",
            InDevTable |-> FALSE, DevIndex |-> 0]
PartType == [StartBlock : Nat, NumBlocks : Nat, DevClass : {"RAW", "FTL", "none"},
             InDevTable : BOOLEAN, DevIndex : Nat]
\* What the block holds when its signature or checksum does not verify.
NoTable == [NumPartitions |-> 0, Part |-> [i \in PartNo |-> NoPart]]

ASSUME LogicalAssumption ==
  /\ {NumChips, NumPlanes, ActualNumBlocks, MAX_FLASH_PARTITIONS, MAX_FLASH_VPARTITIONS,
      MAX_FLASH_CHIPS, MAX_FLASH_DEVICES, MAX_INTERLEAVED_CHIPS, UsageRange} \subseteq Nat \ {0}
  /\ NumChips <= MAX_FLASH_CHIPS
  /\ NumPlanes \in {1, 2, 4}
  /\ Requests \subseteq Seq([NumBlocks : Nat, DevClass : {"RAW", "FTL", "none"},
                             InDevTable : BOOLEAN, DevIndex : Nat])
  /\ \A r \in Requests : Len(r) \in 1 .. MAX_FLASH_PARTITIONS
  /\ Leftovers \subseteq PartType
  /\ Ids \subseteq ({"RAW"} \X Nat \X (Nat \cup {ENTIRE_PARTITION}))
                   \cup ({"RAWTABLE", "FTL"} \X Nat)
  /\ {MaxSets, MaxOpens, MaxErases, MaxFailures, MaxCuts} \subseteq Nat

VARIABLES
  flash,      \* flash[c]: the table that the block of chip c holds
  op,         \* op[c]: the operation chip c was given last
  power,      \* "on", "off", "oops" (a caller hit a null pointer or loops), "failed" (no init)
  mem,        \* PartTable, RAWDevTable, FTLDevTable
  LDev,       \* the open devices by device ID
  pc, call,   \* UFD_SET_PARTITION in progress
  opened,     \* history: opens of each device that callers have not closed
  kept,       \* history: the table last reported set on a chip and not overwritten
  swallowed,  \* history: chips with a failed erase of the table that nobody was told of
  missed,     \* history: a read found no table where there had been one
  budget

call_vars == <<pc, call>>
hist == <<opened, kept, swallowed, missed>>
vars == <<flash, op, power, mem, LDev, call_vars, hist, budget>>

Spend(kind) == /\ budget[kind] > 0
               /\ budget' = [budget EXCEPT ![kind] = @ - 1]

----------------------------------------------------------------------------
(* Partition tables *)

SumOfFirst(r, n) ==
  LET sum[k \in 0 .. n] == IF k = 0 THEN 0 ELSE sum[k - 1] + r[k].NumBlocks
  IN  sum[n]

\* tmp_tab of UFD_SET_PARTITION: one partition after the other from block 0.
\* What follows the last partition is left over from the stack.
Layout(r, leftover) ==
  [NumPartitions |-> Len(r),
   Part |-> [i \in PartNo |->
     IF i >= Len(r) THEN leftover
     ELSE [StartBlock |-> SumOfFirst(r, i),       NumBlocks  |-> r[i + 1].NumBlocks,
           DevClass   |-> r[i + 1].DevClass,      InDevTable |-> r[i + 1].InDevTable,
           DevIndex   |-> r[i + 1].DevIndex]]]

FixStart(p) == IF p.DevClass = "FTL" /\ p.StartBlock % NumPlanes # 0
               THEN (p.StartBlock \div NumPlanes + 1) * NumPlanes
               ELSE p.StartBlock
FixNumNever(p) == p.NumBlocks                                             \* mutant
FixNum(p) == p.NumBlocks - (p.NumBlocks % NumPlanes)
Fixed(p) == [p EXCEPT !.StartBlock = FixStart(p), !.NumBlocks = FixNum(p)]

\* The loop of is_valid_partition_table stops at a partition without blocks.
Stop(t) == {i \in 0 .. t.NumPartitions - 1 : t.Part[i].NumBlocks = 0}
Corrected(t) ==
  [t EXCEPT !.Part = [i \in PartNo |->
     IF i < t.NumPartitions /\ \A s \in Stop(t) : i < s THEN Fixed(t.Part[i]) ELSE t.Part[i]]]

\* The partitions of all chips that are of a class.  They are visited in order.
Members(tables, class) ==
  {m \in Chip \X PartNo : /\ m[2] < tables[m[1]].NumPartitions
                          /\ tables[m[1]].Part[m[2]].DevClass = class
                          /\ tables[m[1]].Part[m[2]].InDevTable}
IndexOf(tables, m) == tables[m[1]].Part[m[2]].DevIndex

Before(m, n) == m[1] < n[1] \/ (m[1] = n[1] /\ m[2] < n[2])
InOrder(S) == [k \in 1 .. Cardinality(S) |->
                 CHOOSE m \in S : Cardinality({j \in S : Before(j, m)}) = k - 1]

IndexTooLarge(tables, class) ==                                            \* mutant
  {m \in Members(tables, class) : IndexOf(tables, m) >= MAX_FLASH_VPARTITIONS}
\* Where make_blk_dev_table returns FM_ERROR: an index or a device at its limit.
Overfull(tables, class) ==
  LET At(m)  == IndexOf(tables, m)
      Has(m) == {j \in Members(tables, class) : Before(j, m) /\ At(j) = At(m)}
  IN  {m \in Members(tables, class) : \/ At(m) >= MAX_FLASH_VPARTITIONS
                                      \/ Cardinality(Has(m)) >= MAX_FLASH_CHIPS}

make_blk_dev_table(tables, class) ==
  LET Merged(x) == {m \in Members(tables, class) :
                      /\ IndexOf(tables, m) = x
                      /\ \A o \in Overfull(tables, class) : Before(m, o)}
  IN  [x \in VPart |-> InOrder(Merged(x))]

Makes(tables) == Overfull(tables, "RAW") = {} /\ Overfull(tables, "FTL") = {}

IsValidAlone(c, t) ==                                                      \* mutant
  /\ t.NumPartitions \in 1 .. MAX_FLASH_PARTITIONS
  /\ Stop(t) = {}
  /\ Makes([x \in Chip |-> IF x = c THEN Corrected(t) ELSE NoTable])
is_valid_partition_table(c, t) ==
  /\ t.NumPartitions \in 1 .. MAX_FLASH_PARTITIONS
  /\ Stop(t) = {}
  /\ Makes([mem.PartTable EXCEPT ![c] = Corrected(t)])

TablesButFTL(parttable) == [PartTable   |-> parttable,                     \* mutant
                            RAWDevTable |-> make_blk_dev_table(parttable, "RAW"),
                            FTLDevTable |-> mem.FTLDevTable]
Tables(parttable) == [PartTable   |-> parttable,
                      RAWDevTable |-> make_blk_dev_table(parttable, "RAW"),
                      FTLDevTable |-> make_blk_dev_table(parttable, "FTL")]

\* LFD_ReadPartitionTable on memory m, and whether it returns an error.
PartTableRead(m, c) == [m.PartTable EXCEPT ![c] = Corrected(flash[c])]
ReadFails(m, c) == flash[c] # NoTable /\ ~ Makes(PartTableRead(m, c))
LFD_ReadPartitionTable(m, c) ==
  IF flash[c] = NoTable THEN [m EXCEPT !.PartTable[c].NumPartitions = 0]
  ELSE LET new == Tables(PartTableRead(m, c))
       IN  IF Overfull(new.PartTable, "RAW") = {} THEN new
           ELSE [new EXCEPT !.FTLDevTable = m.FTLDevTable]

----------------------------------------------------------------------------
(* The chips.  An operation that fails with no block left to replace the   *)
(* one it is on is met, once, by the next access to the chip.              *)

Idle    == [cmd |-> "none", tab |-> NoTable]
Failed  == [cmd |-> "failed", tab |-> NoTable]
Ready(c)     == op[c] = Idle
Given(c, o)  == op' = [op EXCEPT ![c] = o]
Holds(c, t)  == flash' = [flash EXCEPT ![c] = t]

Settle(c) ==
  /\ op[c].cmd \in {"erase", "program"}
  /\ \/ Given(c, Idle) /\ Holds(c, op[c].tab) /\ UNCHANGED budget
     \/ /\ Given(c, Failed) /\ Spend("failures")
        /\ \/ Holds(c, NoTable)
           \/ op[c].cmd = "erase" /\ UNCHANGED flash
  /\ UNCHANGED <<power, mem, LDev, call_vars, hist>>

\* The next access to chip c learns that the operation before it failed.
Refused(c) == op[c] = Failed /\ Given(c, Idle)

----------------------------------------------------------------------------
(* UFD_SET_PARTITION *)

NoCall == [chip |-> 0, tab |-> NoTable, next |-> 0]
EndCall == pc' = "idle" /\ call' = NoCall
Up == power = "on" /\ pc = "idle"

\* A layout that is not valid is refused before anything changes.
SetPartition ==
  /\ Up
  /\ Spend("sets")
  /\ \E c \in Chip, r \in Requests, leftover \in Leftovers :
       LET t == Layout(r, leftover)
       IN  /\ <<"RAW", c, ENTIRE_PARTITION>> \in DOMAIN LDev
           /\ is_valid_partition_table(c, t)
           /\ call' = [chip |-> c, tab |-> Corrected(t), next |-> 0]
  /\ pc' = "erase"
  /\ UNCHANGED <<flash, op, power, mem, LDev, hist>>

EraseTable ==
  /\ power = "on" /\ pc = "erase"
  /\ LET c == call.chip
     IN  \/ Refused(c) /\ EndCall /\ UNCHANGED kept
         \/ /\ Ready(c) /\ Given(c, [cmd |-> "erase", tab |-> NoTable])
            /\ pc' = "program" /\ UNCHANGED call
            /\ kept' = [kept EXCEPT ![c] = NoTable]
  /\ UNCHANGED <<flash, power, mem, LDev, opened, swallowed, missed, budget>>

\* PFD_GetBuffer syncs the chip if its buffers are all busy, which a copy may
\* have left so, and drops the error: the program meets a block not erased.
ProgramTable ==
  /\ power = "on" /\ pc = "program"
  /\ LET c == call.chip
         Program(t) == /\ Given(c, [cmd |-> "program", tab |-> t])
                       /\ mem' = Tables([mem.PartTable EXCEPT ![c] = call.tab])
                       /\ pc' = "read" /\ UNCHANGED call
                       /\ missed' = FALSE
     IN  \/ Refused(c) /\ EndCall /\ UNCHANGED <<mem, swallowed, missed>>
         \/ Ready(c) /\ Program(call.tab) /\ swallowed' = swallowed \ {c}
         \/ /\ op[c] = Failed /\ Program(NoTable)
            /\ swallowed' = swallowed \cup {c}
  /\ UNCHANGED <<flash, power, LDev, opened, kept, budget>>

\* identify_raw_blkdev reads the table of every chip in turn and opens the
\* merged raw devices it names for a moment.
CanOpen(t) ==
  Cardinality(DOMAIN LDev) = MAX_FLASH_DEVICES =>
    \A i \in 0 .. t.NumPartitions - 1 :
      t.Part[i].DevClass = "RAW" /\ t.Part[i].InDevTable => <<"RAWTABLE", t.Part[i].DevIndex>> \in DOMAIN LDev

NextChipStop == NumChips                                                 \* mutant
NextChip == call.next + 1

ReadBack ==
  /\ power = "on" /\ pc = "read"
  /\ LET c == call.next
     IN  \/ Refused(c) /\ EndCall /\ UNCHANGED <<mem, kept, missed>>
         \/ /\ Ready(c) /\ UNCHANGED op
            /\ mem' = LFD_ReadPartitionTable(mem, c)
            /\ missed' = IF flash[c] = NoTable THEN missed \/ mem.PartTable[c].NumPartitions > 0
                         ELSE ReadFails(mem, c)
            /\ IF ReadFails(mem, c) \/ ~ CanOpen(mem'.PartTable[c])
               THEN EndCall /\ UNCHANGED kept
               ELSE IF NextChip \in Chip
               THEN call' = [call EXCEPT !.next = NextChip] /\ UNCHANGED <<pc, kept>>
               ELSE EndCall /\ kept' = [kept EXCEPT ![call.chip] = call.tab]
  /\ UNCHANGED <<flash, power, LDev, opened, swallowed, budget>>

----------------------------------------------------------------------------
(* Logical devices: <<"RAW", chip, partition>>, or <<"RAWTABLE", index>> and *)
(* <<"FTL", index>> for the merged partitions of a device table.           *)

\* A device keeps pointers into the tables in memory: <<chip, partition>>.
PartAt(p) == IF p[2] = ENTIRE_PARTITION
             THEN [NoPart EXCEPT !.NumBlocks = ActualNumBlocks]
             ELSE mem.PartTable[p[1]].Part[p[2]]
Now(parts) == [k \in DOMAIN parts |-> PartAt(parts[k])]

PartInfo(id) ==
  CASE id[1] = "RAW" ->
         IF id[2] \in Chip /\ (id[3] = ENTIRE_PARTITION \/ id[3] < mem.PartTable[id[2]].NumPartitions)
         THEN << <<id[2], id[3]>> >> ELSE << >>
    [] id[1] = "RAWTABLE" -> IF id[2] \in VPart THEN mem.RAWDevTable[id[2]] ELSE << >>
    [] id[1] = "FTL"      -> IF id[2] \in VPart THEN mem.FTLDevTable[id[2]] ELSE << >>

Level(parts) ==
  IF /\ \A k \in DOMAIN parts : PartAt(parts[k]).NumBlocks = PartAt(parts[1]).NumBlocks
     /\ Len(parts) \in {2, 4, 8}
  THEN IF Len(parts) < MAX_INTERLEAVED_CHIPS THEN Len(parts) ELSE MAX_INTERLEAVED_CHIPS
  ELSE 1

SumOf(parts) == LET now == Now(parts) IN SumOfFirst(now, Len(now))
NewDevice(parts) == [PartInfo |-> parts, NumBlocks |-> SumOf(parts), was |-> Now(parts),
                     InterleavingLevel |-> Level(parts), UsageCount |-> 1]
Without(f, x) == [y \in DOMAIN f \ {x} |-> f[y]]
With(f, x, v) == [y \in DOMAIN f \cup {x} |-> IF y = x THEN v ELSE f[y]]

\* LFD_FreeLogicalDevice on the error path of FD_Open.
NotFreed(id) == With(LDev, id, [NewDevice(<< >>) EXCEPT !.UsageCount = 0])      \* mutant
NotOpened(id) == LDev

Used(n) == n % UsageRange
Answered(id) == opened' = [opened EXCEPT ![id] = @ + 1]

FD_Open(id) ==
  /\ Up /\ Spend("opens")
  /\ \/ /\ id \in DOMAIN LDev
        /\ LDev' = [LDev EXCEPT ![id].UsageCount = Used(@ + 1)] /\ Answered(id)
     \/ /\ id \notin DOMAIN LDev /\ Cardinality(DOMAIN LDev) < MAX_FLASH_DEVICES
        /\ IF PartInfo(id) = << >>
           THEN LDev' = NotOpened(id) /\ UNCHANGED opened
           ELSE LDev' = With(LDev, id, NewDevice(PartInfo(id))) /\ Answered(id)
  /\ UNCHANGED <<flash, op, power, mem, call_vars, kept, swallowed, missed>>

FD_Close(id) ==
  /\ Up /\ opened[id] > 0
  /\ opened' = [opened EXCEPT ![id] = @ - 1]
  /\ budget' = [budget EXCEPT !.opens = @ + 1]
  /\ LDev' = IF id \notin DOMAIN LDev THEN LDev
             ELSE IF Used(LDev[id].UsageCount - 1) = 0 THEN Without(LDev, id)
             ELSE [LDev EXCEPT ![id].UsageCount = Used(@ - 1)]
  /\ UNCHANGED <<flash, op, power, mem, call_vars, kept, swallowed, missed>>

\* The flash block behind block b of device d, or none.
Nowhere == << >>
InTurn(d, b) ==
  LET now == Now(d.PartInfo)
      K == {k \in DOMAIN now : now[k].NumBlocks > b - SumOfFirst(now, k - 1)}
      k == CHOOSE i \in K : \A j \in K : i <= j
  IN  IF K = {} THEN Nowhere
      ELSE <<d.PartInfo[k][1], now[k].StartBlock + b - SumOfFirst(now, k - 1)>>
Interleaved(d, b) ==
  LET L     == d.InterleavingLevel
      group == PartAt(d.PartInfo[1]).NumBlocks * L     \* blocks_per_partgrp
      i     == (b % (NumPlanes * L)) \div NumPlanes
      k     == (b \div group) * L + i + 1
      r     == (b % group) - i * NumPlanes
      at    == (r \div NumPlanes) * NumPlanes
  IN  IF group = 0 \/ k \notin DOMAIN d.PartInfo THEN Nowhere
      ELSE <<d.PartInfo[k][1], PartAt(d.PartInfo[k]).StartBlock + (at \div L) + (r % NumPlanes)>>
LFD_GetPartitionInfo(d, b) ==
  IF d.InterleavingLevel = 1 THEN InTurn(d, b) ELSE Interleaved(d, b)

\* The table of each chip in C is erased by a caller.
Overwritten(C) ==
  /\ flash' = [c \in Chip |-> IF c \in C THEN NoTable ELSE flash[c]]
  /\ kept'  = [c \in Chip |-> IF c \in C THEN NoTable ELSE kept[c]]

\* A block within the size the device had when it was opened.
FD_Erase(id) ==
  /\ Up /\ opened[id] > 0 /\ id \in DOMAIN LDev
  /\ \E b \in 0 .. LDev[id].NumBlocks - 1 :
       LET at == LFD_GetPartitionInfo(LDev[id], b)
       IN  \/ at = Nowhere /\ power' = "oops" /\ Spend("erases") /\ UNCHANGED <<flash, op, kept>>
           \/ /\ at # Nowhere /\ Refused(at[1]) /\ UNCHANGED <<flash, power, kept, budget>>
           \/ /\ at # Nowhere /\ Ready(at[1]) /\ UNCHANGED power
              /\ \/ UNCHANGED op /\ Spend("erases")
                 \/ Given(at[1], Failed) /\ Spend("failures")
              /\ Overwritten(IF at[2] = PartTableBlock THEN {at[1]} ELSE {})
  /\ UNCHANGED <<mem, LDev, call_vars, opened, swallowed, missed>>

\* UFD_ERASE_PARTITION.  A merged raw device has chip number 0xf, which stands
\* for all chips, and its index is taken as the number of a partition of chip 0.
LFD_ErasePart(id) ==
  /\ Up /\ opened[id] > 0 /\ Spend("erases")
  /\ id[1] \in {"RAW", "RAWTABLE"}
  /\ LET C  == IF id[1] = "RAW" THEN {id[2]} ELSE Chip
         c0 == IF id[1] = "RAW" THEN id[2] ELSE 0
         n  == id[Len(id)]
         p  == PartAt(<<c0, n>>)
         hit == PartTableBlock \in p.StartBlock .. p.StartBlock + p.NumBlocks - 1
     IN  /\ n < mem.PartTable[c0].NumPartitions
         /\ \A c \in C : Ready(c) \/ op[c] = Failed
         /\ op' = [c \in Chip |-> IF c \in C THEN Idle ELSE op[c]]
         /\ Overwritten({c \in C : hit /\ Ready(c)})
  /\ UNCHANGED <<power, mem, LDev, call_vars, opened, swallowed, missed>>

----------------------------------------------------------------------------
(* Power.  FD_Init reads the table of each chip and goes on after an error; *)
(* identify_raw_blkdev reads them again and does not.                      *)

NoDevice == [x \in {} |-> NoPart]
Blank == [PartTable   |-> [c \in Chip |-> NoTable],
          RAWDevTable |-> [x \in VPart |-> << >>],
          FTLDevTable |-> [x \in VPart |-> << >>]]
ReadFrom(m) ==
  LET read[k \in 0 .. NumChips] ==
        IF k = 0 THEN m ELSE LFD_ReadPartitionTable(read[k - 1], k - 1)
  IN  read

PowerLoss ==
  /\ power \in {"on", "oops"} /\ budget.cuts > 0
  /\ \E C \in SUBSET {c \in Chip : op[c].cmd \in {"erase", "program"}} :
       flash' = [c \in Chip |->
         IF op[c].cmd = "erase"   THEN (IF c \in C THEN NoTable ELSE flash[c])
         ELSE IF op[c].cmd = "program" /\ c \in C THEN op[c].tab ELSE flash[c]]
  /\ op' = [c \in Chip |-> Idle]
  /\ power' = "off" /\ EndCall
  /\ mem' = Blank /\ LDev' = NoDevice
  /\ opened' = [id \in Ids |-> 0]
  /\ budget' = [budget EXCEPT !.cuts = @ - 1, !.opens = MaxOpens]
  /\ missed' = FALSE
  /\ UNCHANGED <<kept, swallowed>>

FD_Init ==
  /\ power = "off"
  /\ LET first  == ReadFrom(Blank)[NumChips]
         second == ReadFrom(first)
     IN  /\ mem' = second[NumChips]
         /\ power' = IF \E c \in Chip : ReadFails(second[c], c) THEN "failed" ELSE "on"
  /\ UNCHANGED <<flash, op, LDev, call_vars, hist, budget>>

Init ==
  /\ flash = [c \in Chip |-> NoTable]
  /\ op = [c \in Chip |-> Idle]
  /\ power = "off" /\ mem = Blank /\ LDev = NoDevice
  /\ pc = "idle" /\ call = NoCall
  /\ opened = [id \in Ids |-> 0]
  /\ kept = [c \in Chip |-> NoTable]
  /\ swallowed = {} /\ missed = FALSE
  /\ budget = [sets |-> MaxSets, opens |-> MaxOpens, erases |-> MaxErases,
               failures |-> MaxFailures, cuts |-> MaxCuts]

Next ==
  \/ \E c \in Chip : Settle(c)
  \/ SetPartition \/ EraseTable \/ ProgramTable \/ ReadBack
  \/ \E id \in Ids : FD_Open(id) \/ FD_Close(id) \/ FD_Erase(id) \/ LFD_ErasePart(id)
  \/ PowerLoss \/ FD_Init

Spec == Init /\ [][Next]_vars

----------------------------------------------------------------------------
(* Properties *)

TableOK(t) == /\ t.NumPartitions \in 0 .. MAX_FLASH_PARTITIONS
              /\ t.Part \in [PartNo -> PartType]
DevTableOK(f) == /\ DOMAIN f = VPart
                 /\ \A x \in VPart : /\ Len(f[x]) <= MAX_FLASH_CHIPS
                                     /\ \A k \in DOMAIN f[x] : f[x][k] \in Chip \X PartNo

\* Type invariant: tables within their arrays, devices over partitions that
\* exist, and no more devices than LDev has entries for.
TypeOK ==
  /\ DOMAIN flash = Chip /\ DOMAIN op = Chip
  /\ \A c \in Chip : /\ TableOK(flash[c]) /\ TableOK(op[c].tab) /\ TableOK(mem.PartTable[c])
                     /\ op[c].cmd \in {"none", "erase", "program", "failed"}
  /\ power \in {"on", "off", "oops", "failed"}
  /\ pc \in {"idle", "erase", "program", "read"}
  /\ call.chip \in Chip /\ call.next \in Chip /\ TableOK(call.tab)
  /\ DevTableOK(mem.RAWDevTable) /\ DevTableOK(mem.FTLDevTable)
  /\ DOMAIN LDev \subseteq Ids /\ Cardinality(DOMAIN LDev) <= MAX_FLASH_DEVICES
  /\ \A id \in DOMAIN LDev : /\ Len(LDev[id].PartInfo) <= MAX_FLASH_CHIPS
                             /\ LDev[id].InterleavingLevel \in 1 .. MAX_INTERLEAVED_CHIPS

\* Whatever layouts were accepted for the chips one after the other, with
\* failures and power losses in between, the driver comes up with them.  A
\* layout is judged together with the tables of the other chips as memory has
\* them, and boot meets any subset of these (ufdraw_init gives up on an error).
\* The exception is a failed erase that nobody was told of and that left the
\* old table: later layouts of other chips are not judged with that one.
AcceptedTablesBoot == power = "failed" => swallowed # {}

\* A layout that UFD_SET_PARTITION reported set is on the chip and in memory,
\* as it was corrected, after any failure, read or reboot, until a caller sets
\* another or erases the block.  The read-back, by waiting for the chip, is
\* what makes it so.  The exception is a failed erase whose error
\* PFD_GetBuffer dropped: the call then reports success though the table is lost.
SetTableSurvives ==
  \A c \in Chip : kept[c] # NoTable /\ c \notin swallowed =>
    /\ flash[c] = kept[c] /\ op[c].cmd \in {"none", "failed"}
    /\ power = "on" => mem.PartTable[c] = kept[c]

\* A device is in the table of open devices while, and only while, a caller
\* has it open, with as many users; an open that failed leaves nothing behind
\* that a later open would find and take for a device.
OpenDevicesHaveUsers ==
  \A id \in Ids : IF opened[id] = 0 THEN id \notin DOMAIN LDev
                  ELSE id \in DOMAIN LDev /\ LDev[id].UsageCount = opened[id]

\* The device tables name the partitions of the tables in memory, in any order
\* of writes and reads, until a read at run time finds a table gone (it sets
\* NumPartitions to 0 and leaves the device tables as they were).
DevTablesAgree ==
  power = "on" /\ ~ missed =>
    /\ mem.RAWDevTable = make_blk_dev_table(mem.PartTable, "RAW")
    /\ mem.FTLDevTable = make_blk_dev_table(mem.PartTable, "FTL")

\* Two blocks of one open device are never one flash block, and each lies in a
\* partition of the device, interleaved or not, as long as its partitions are
\* those it was opened on: the arithmetic of LFD_GetPartitionInfo relies on
\* what is_valid_partition_table corrected.
BlocksApart ==
  \A id \in DOMAIN LDev : LET d == LDev[id] IN
    d.was = Now(d.PartInfo) =>
      \A b \in 0 .. d.NumBlocks - 1 :
        LET at == LFD_GetPartitionInfo(d, b)
        IN  /\ \E k \in DOMAIN d.PartInfo :
                 /\ at # Nowhere /\ at[1] = d.PartInfo[k][1]
                 /\ at[2] - d.was[k].StartBlock \in 0 .. d.was[k].NumBlocks - 1
            /\ \A a \in 0 .. b - 1 : LFD_GetPartitionInfo(d, a) # at

\* fd_logical.c:1497 says of an accepted table that "partitions should not
\* overlap with each other".  cur_block, which the test there compares with,
\* stays 0, and the start of an FTL partition is moved up after the test, so
\* that it may run into the next one.
PartitionsDisjoint ==
  power = "on" => \A c \in Chip : LET t == mem.PartTable[c] IN
    \A i, j \in 0 .. t.NumPartitions - 1 : i < j =>
      t.Part[i].StartBlock + t.Part[i].NumBlocks <= t.Part[j].StartBlock
============================================================================
