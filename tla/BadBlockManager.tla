-------------------------- MODULE BadBlockManager --------------------------
(***************************************************************************)
(* The driver-level bad block management (DLBM) of the UFD flash driver,   *)
(* drivers/ufd/fd_bm.c, for one NAND chip.                                 *)
(*                                                                         *)
(* The last blocks of the chip form the DLBM area.  Two of them are map    *)
(* blocks: they hold a log of map pages, each the image of one segment of  *)
(* the swap table.  The others replace blocks that failed an erase or a    *)
(* program.  Every flash operation of the manager is a step of its own, so *)
(* that it can succeed, fail, or be cut by a power loss; what the code     *)
(* does between two flash operations belongs to the step of the first.     *)
(*                                                                         *)
(* Blocks are identified by their number; the code's GET_BLK_OFFSET and    *)
(* GET_BLK_NUMBER translate to offsets in the area and disappear here.     *)
(***************************************************************************)
EXTENDS Integers, Sequences, FiniteSets

CONSTANTS
  BmAreaStartBlock,   \* first block of the DLBM area
  NumBlocks,          \* blocks of the chip
  PagesPerBlock,      \* pages of a block
  EntriesPerPage,     \* swap table entries in a map page
  FactoryBad,         \* blocks that leave the factory with a bad mark
  Budget              \* how many of each kind of accident a behaviour has

Area  == BmAreaStartBlock .. NumBlocks - 1
User  == 0 .. BmAreaStartBlock - 1
Block == User \cup Area

\* Special swap table entries; any other entry is the block it replaces.
FREE == -1
MAP  == -2
BAD  == -3
Entry == User \cup {FREE, MAP, BAD}

MAP_OFFSET(b) == (b - BmAreaStartBlock) \div EntriesPerPage
NumMapPages   == MAP_OFFSET(NumBlocks - 1) + 1
MapOffsets    == 0 .. NumMapPages - 1
Segment(o)    == {b \in Area : MAP_OFFSET(b) = o}

NoBlock == -1
\* What a block holds other than map pages: ERASED, JUNK, or the data of a
\* user block.
ERASED == -1
JUNK   == -2

\* A map page, and a page that does not read back as one (bad signature,
\* checksum or ECC).
Image   == UNION {[Segment(o) -> Entry] : o \in MapOffsets}
MapPage == {p \in [seq : Nat \ {0}, off : MapOffsets, tab : Image] :
              DOMAIN p.tab = Segment(p.off)}
TORN    == [seq |-> 0, off |-> 0, tab |-> << >>]

Accident == {"block", "map", "mark", "power", "format"}

ASSUME GeometryAssumption ==
  /\ BmAreaStartBlock \in Nat \ {0}
  /\ NumBlocks \in Nat
  /\ NumBlocks > BmAreaStartBlock + 1
  /\ EntriesPerPage \in Nat \ {0}
  /\ PagesPerBlock \in Nat
  /\ PagesPerBlock > NumMapPages

ASSUME BlockZeroAssumption == FactoryBad \subseteq Block \ {0}

ASSUME BudgetAssumption == Budget \in [Accident -> Nat]

VARIABLES
  \* the chip
  pages,          \* pages[b]: map pages programmed in b since its last erase
  data,           \* data[b]: what else b holds
  marked,         \* blocks with a bad mark in their spare area
  \* BM_MOD, in memory
  SwapTable,
  FreeBlockList,
  MapBlock,
  CurMapBlockIdx,
  CurMapPageNum,
  Sequence,
  State,
  \* the call in progress
  pc,             \* the flash operation or the step that comes next
  op,             \* the bad block being replaced, and by which free block
  save,           \* save_swap_table: segment, page, delayed mark, and return
  \* history and bounds
  live,           \* user blocks written, where the last answer has them, not erased
  answered,       \* the mapping when the last call returned; << >> before
  pending,        \* the one the call in progress leads to, once it is known
  window,         \* user blocks whose new mapping takes two saves
  adrift,         \* BM_Open once took a table that denies some map block found
  budget          \* accidents left

flash == <<pages, data, marked>>
ram   == <<SwapTable, FreeBlockList, MapBlock, CurMapBlockIdx, CurMapPageNum,
           Sequence, State>>
call  == <<pc, op, save>>
hist  == <<live, answered, pending, window, adrift>>
vars  == <<flash, ram, call, hist, budget>>

NoOp   == [cmd |-> "none", bad |-> NoBlock, new |-> NoBlock, org |-> NoBlock]
NoSave == [off |-> 0, page |-> 0, delayed |-> NoBlock, next |-> "done"]

Lowest(S)  == CHOOSE x \in S : \A y \in S : x <= y
Highest(S) == CHOOSE x \in S : \A y \in S : y <= x

\* The block that stands for b: the hash lists are searched from the entry
\* inserted last, which is the highest one.
BM_GetSwappingBlock(T, b) ==
  LET E == {e \in Area : T[e] = b} IN IF E = {} THEN b ELSE Highest(E)

Mapping(T) == [u \in User |-> BM_GetSwappingBlock(T, u)]

\* construct_fast_lookup_table rebuilds the list of free entries.
FreeEntriesWithBad(T) == {e \in Area : T[e] \in {FREE, BAD}}  \* mutant
FreeEntries(T) == {e \in Area : T[e] = FREE}

Spend(kind) == /\ budget[kind] > 0
               /\ budget' = [budget EXCEPT ![kind] = @ - 1]

----------------------------------------------------------------------------
(* What BM_Open makes of the chip.                                         *)

Readable(b) == {k \in 1 .. Len(pages[b]) : \A m \in 1 .. k : pages[b][m] # TORN}

\* A map page is looked for in the first page only, up to the second hit.
IsMapBlock(b) == /\ b \notin marked
                 /\ pages[b] # << >>
                 /\ pages[b][1] # TORN

Found == LET M == {b \in Area : IsMapBlock(b)}
         IN  {b \in M : ~ \E c, d \in M : c < d /\ d < b}

Complete(b) == \A o \in MapOffsets : \E k \in Readable(b) : pages[b][k].off = o

\* The map block whose first page has the largest sequence number, among
\* those that hold every segment.
Candidates == {b \in Found : Complete(b)}
Current == LET C == Candidates
           IN  Lowest({b \in C : \A c \in C : pages[c][1].seq <= pages[b][1].seq})

\* The page of block b with the latest image of segment o.
Earliest(b, o) ==                                               \* mutant
  LET K == {k \in Readable(b) : pages[b][k].off = o}
  IN  CHOOSE k \in K : \A m \in K : pages[b][k].seq <= pages[b][m].seq
Latest(b, o) ==
  LET K == {k \in Readable(b) : pages[b][k].off = o}
  IN  CHOOSE k \in K : \A m \in K : pages[b][m].seq <= pages[b][k].seq

OpenTable == LET c == Current
             IN  [e \in Area |-> pages[c][Latest(c, MAP_OFFSET(e))].tab[e]]

OpenFirstSequence == pages[Current][1].seq                        \* mutant
OpenSequence == LET c == Current IN Highest({pages[c][k].seq : k \in Readable(c)})

\* With a single map block on flash the other one comes from the table.
MapBlocks == LET F == Found
             IN  IF \E b, c \in F : b # c THEN F
                 ELSE LET T == OpenTable IN {e \in Area : T[e] = MAP}

Openable == Candidates # {} /\ Cardinality(MapBlocks) >= 2

\* The table found knows every map block there is.
Consistent == Candidates # {} =>
  LET T == OpenTable IN \A b \in Area : IsMapBlock(b) => T[b] = MAP

OpenMapBlock == LET M == MapBlocks
                IN  <<Lowest(M), Lowest(M \ {Lowest(M)})>>
----------------------------------------------------------------------------
(* Flash operations: what a success, a failure and a power cut leave.      *)

EraseTo(b, img, d) == /\ pages' = [pages EXCEPT ![b] = img]
                      /\ data'  = [data EXCEPT ![b] = d]

\* The spare area goes with the block, and a bad mark with it.
EraseOk(b)   == /\ EraseTo(b, << >>, ERASED)
                /\ marked' = marked \ {b}
\* A mark spoils the first page, whose spare area it is in: an erase that
\* takes the mark does not leave that page.
EraseFail(b) == \/ EraseTo(b, pages[b], JUNK) /\ UNCHANGED marked
                \/ /\ \E img \in {<< >>, <<TORN>>} : EraseTo(b, img, JUNK)
                   /\ marked' \in {marked, marked \ {b}}

Programmed(b, pg) == /\ pages' = [pages EXCEPT ![b] = Append(@, pg)]
                     /\ data'  = [data EXCEPT ![b] = JUNK]
                     /\ UNCHANGED marked

ImageButLast(o) ==                                              \* mutant
  [e \in Segment(o) |-> IF e = NumBlocks - 1 THEN FREE ELSE SwapTable[e]]
ImageOf(o)   == [e \in Segment(o) |-> SwapTable[e]]
MapPageOf(o) == [seq |-> Sequence + 1, off |-> o, tab |-> ImageOf(o)]

\* A failed program may leave the page blank, unreadable or readable.
ProgramFail(b, pg) == \/ UNCHANGED flash
                      \/ Programmed(b, TORN)
                      \/ Programmed(b, pg)

----------------------------------------------------------------------------
(* save_swap_table                                                         *)

MapTarget == MapBlock[CurMapBlockIdx]

PageAfterUnwrapped == CurMapPageNum + 1                         \* mutant
PageAfter     == (CurMapPageNum + 1) % PagesPerBlock
OtherMapBlock == 3 - CurMapBlockIdx

\* Its entry: the next page of the current map block, or the other map block.
StartSave(o, next) ==
  /\ CurMapPageNum' = PageAfter
  /\ CurMapBlockIdx' = IF PageAfter = 0 THEN OtherMapBlock ELSE CurMapBlockIdx
  /\ pc' = IF PageAfter = 0 THEN "erase_map" ELSE "write_one"
  /\ save' = [off |-> o, page |-> 0, delayed |-> NoBlock, next |-> next]
  /\ UNCHANGED <<MapBlock, Sequence, State>>

\* FM_ERROR goes back to the caller; nothing in memory is undone.
Abort == /\ pc' = IF op.cmd = "format" THEN "dead" ELSE "idle"
         /\ op' = NoOp
         /\ save' = NoSave
         /\ UNCHANGED hist

\* The table once b is retired and block new is its successor.
Added(b, new)   == [SwapTable EXCEPT ![new] = MAP]              \* mutant
Retired(b, new) == [SwapTable EXCEPT ![b] = BAD, ![new] = MAP]

\* Map block b is bad: retire it and take the last free block for the map.
ReplaceMapBlock(b, sav) ==
  \/ /\ FreeBlockList = {}
     /\ SwapTable' = [SwapTable EXCEPT ![b] = BAD]
     /\ UNCHANGED <<FreeBlockList, MapBlock>>
     /\ Abort
  \/ /\ FreeBlockList # {}
     /\ LET new == Lowest(FreeBlockList)
        IN  /\ SwapTable' = Retired(b, new)
            /\ FreeBlockList' = FreeBlockList \ {new}
            /\ MapBlock' = [MapBlock EXCEPT ![CurMapBlockIdx] = new]
     /\ pc' = "erase_map"
     /\ save' = sav
     /\ UNCHANGED <<op, hist>>

EraseMap ==
  /\ pc = "erase_map"
  /\ \/ /\ EraseOk(MapTarget)
        /\ pc' = "write_all"
        /\ save' = [save EXCEPT !.page = 0]
        /\ UNCHANGED budget
     \/ /\ Spend("map")
        /\ EraseFail(MapTarget)
        /\ pc' = "mark_map"
        /\ UNCHANGED save
  /\ UNCHANGED <<ram, op, hist>>

\* mark_bad_block ignores the result of its writes.
MarkBadBlock(b) ==
  /\ UNCHANGED <<pages, data>>
  /\ \/ marked' = marked \cup {b} /\ UNCHANGED budget
     \/ Spend("mark") /\ UNCHANGED marked

MarkMap ==
  /\ pc = "mark_map"
  /\ MarkBadBlock(MapTarget)
  /\ ReplaceMapBlock(MapTarget, save)
  /\ UNCHANGED <<CurMapBlockIdx, CurMapPageNum, Sequence, State>>

\* write_map_page insists on a blank page, and counts before it programs.
Blank(b, p) == Len(pages[b]) = p

WriteMapPage(b, p, o) == /\ Blank(b, p)
                         /\ Programmed(b, MapPageOf(o))
                         /\ Sequence' = Sequence + 1
                         /\ UNCHANGED budget

WriteMapPageFails(b, p, o) ==
  IF Blank(b, p)
  THEN /\ Spend("map")
       /\ ProgramFail(b, MapPageOf(o))
       /\ Sequence' = Sequence + 1
  ELSE UNCHANGED <<flash, Sequence, budget>>

SaveEnds == pc' = IF save.delayed = NoBlock THEN save.next ELSE "mark_delayed"

WriteAll ==
  /\ pc = "write_all"
  /\ \/ /\ WriteMapPage(MapTarget, save.page, save.page)
        /\ IF save.page + 1 < NumMapPages
           THEN /\ save' = [save EXCEPT !.page = @ + 1]
                /\ UNCHANGED <<pc, CurMapPageNum>>
           ELSE /\ CurMapPageNum' = save.page
                /\ SaveEnds
                /\ UNCHANGED save
     \/ /\ WriteMapPageFails(MapTarget, save.page, save.page)
        /\ pc' = "mark_map"
        /\ UNCHANGED <<save, CurMapPageNum>>
  /\ UNCHANGED <<SwapTable, FreeBlockList, MapBlock, CurMapBlockIdx, State, op, hist>>

\* The block that took no page is not marked before another one holds all.
RetireAtOnce ==                                                 \* mutant
  /\ pc' = "mark_map"
  /\ UNCHANGED <<SwapTable, FreeBlockList, MapBlock, save, op, hist>>
RetireCurrent == ReplaceMapBlock(MapTarget, [save EXCEPT !.delayed = MapTarget])

WriteOne ==
  /\ pc = "write_one"
  /\ \/ /\ WriteMapPage(MapTarget, CurMapPageNum, save.off)
        /\ SaveEnds
        /\ UNCHANGED <<SwapTable, FreeBlockList, MapBlock, save, op, hist>>
     \/ /\ WriteMapPageFails(MapTarget, CurMapPageNum, save.off)
        /\ RetireCurrent
  /\ UNCHANGED <<CurMapBlockIdx, CurMapPageNum, State>>

MarkDelayed ==
  /\ pc = "mark_delayed"
  /\ MarkBadBlock(save.delayed)
  /\ pc' = save.next
  /\ UNCHANGED <<ram, op, save, hist>>

----------------------------------------------------------------------------
(* BM_SwapWriteBadBlock and BM_SwapEraseBadBlock                           *)

NoFreeBlockRetry == UNCHANGED <<pc, op, save, hist>>              \* mutant
NoFreeBlock == Abort

RegisterFirst == "register"                                     \* mutant
AfterGetFree  == IF op.cmd = "write" THEN "erase_new" ELSE "register"

\* The free entry found leaves the list; it stays FREE in the table.
GetFreeBlock ==
  /\ pc = "get_free"
  /\ \/ /\ FreeBlockList = {}
        /\ NoFreeBlock
        /\ UNCHANGED FreeBlockList
     \/ /\ FreeBlockList # {}
        /\ op' = [op EXCEPT !.new = Highest(FreeBlockList)]
        /\ FreeBlockList' = FreeBlockList \ {Highest(FreeBlockList)}
        /\ pc' = AfterGetFree
        /\ UNCHANGED <<save, hist>>
  /\ UNCHANGED <<flash, SwapTable, MapBlock, CurMapBlockIdx, CurMapPageNum,
                 Sequence, State, budget>>

\* The free block failed too: record that and look for another one.
RejectNewBlock ==
  /\ SwapTable' = [SwapTable EXCEPT ![op.new] = BAD]
  /\ StartSave(MAP_OFFSET(op.new), "get_free")
  /\ UNCHANGED <<FreeBlockList, op, hist>>

EraseNew ==
  /\ pc = "erase_new"
  /\ \/ /\ EraseOk(op.new)
        /\ pc' = "copy"
        /\ UNCHANGED <<ram, op, save, hist, budget>>
     \/ /\ Spend("block")
        /\ EraseFail(op.new)
        /\ RejectNewBlock

\* The loop over the pages, all but the one whose program failed.
CopyPages ==
  /\ pc = "copy"
  /\ UNCHANGED <<pages, marked>>
  /\ \/ /\ data' = [data EXCEPT ![op.new] = data[op.bad]]
        /\ pc' = "register"
        /\ UNCHANGED <<ram, op, save, hist, budget>>
     \/ /\ Spend("block")
        /\ data' = [data EXCEPT ![op.new] = JUNK]
        /\ RejectNewBlock

SegmentOfBad  == MAP_OFFSET(op.bad)                               \* mutant
SegmentToSave == MAP_OFFSET(op.new)

\* Table T holds the replacement: rebuild the lists and save entry new.
Install(T) ==
  /\ SwapTable' = T
  /\ FreeBlockList' = FreeEntries(T)
  /\ pending' = Mapping(T)
  /\ StartSave(SegmentToSave, "done")
  /\ UNCHANGED <<flash, live, answered, adrift, budget>>

\* A replacement block failed in its turn: its entry moves to block new.
Copied == [SwapTable EXCEPT ![op.new] = SwapTable[op.bad]]      \* mutant
Moved  == [SwapTable EXCEPT ![op.bad] = BAD, ![op.new] = SwapTable[op.bad]]

Register ==
  /\ pc = "register"
  /\ \/ /\ op.bad \in User
        /\ Install([SwapTable EXCEPT ![op.new] = op.bad])
        /\ UNCHANGED <<op, window>>
     \/ /\ op.bad \in Area
        /\ MAP_OFFSET(op.bad) = MAP_OFFSET(op.new)
        /\ Install(Moved)
        /\ UNCHANGED <<op, window>>
     \/ /\ op.bad \in Area
        /\ MAP_OFFSET(op.bad) # MAP_OFFSET(op.new)
        /\ op' = [op EXCEPT !.org = SwapTable[op.bad]]
        /\ SwapTable' = [SwapTable EXCEPT ![op.bad] = BAD]
        /\ window' = window \cup {SwapTable[op.bad]}
        /\ StartSave(MAP_OFFSET(op.bad), "install")
        /\ UNCHANGED <<flash, FreeBlockList, live, answered, pending, adrift, budget>>

InstallOriginal ==
  /\ pc = "install"
  /\ Install([SwapTable EXCEPT ![op.new] = op.org])
  /\ UNCHANGED <<op, window>>

\* The call returns FM_SUCCESS: from here on the mapping must be found.
Done ==
  /\ pc = "done"
  /\ pc' = "idle"
  /\ op' = NoOp
  /\ save' = NoSave
  /\ answered' = Mapping(SwapTable)
  /\ pending' = Mapping(SwapTable)
  /\ window' = {}
  /\ State' = "formatted"
  /\ UNCHANGED <<flash, SwapTable, FreeBlockList, MapBlock, CurMapBlockIdx,
                 CurMapPageNum, Sequence, live, adrift, budget>>

----------------------------------------------------------------------------
(* BM_Open and BM_Format                                                   *)

NewMapBlocks == LET good == Area \ marked
                    one  == Lowest(good)
                IN  <<one, Lowest(good \ {one})>>

InitialBadButOne == marked \cap (User \ {1})                     \* mutant
InitialBad == marked \cap User

Formattable ==
  /\ Cardinality(Area \ marked) >= 2
  /\ Cardinality(InitialBad) <= Cardinality(Area \ marked) - 2

\* The n-th bad user block gets the n-th free entry from the top.
FormatTable ==
  LET spare == (Area \ marked) \ {NewMapBlocks[1], NewMapBlocks[2]}
      Takes(e, u) == Cardinality({v \in InitialBad : v < u})
                       = Cardinality({f \in spare : f > e})
  IN  [e \in Area |-> IF e \in marked THEN BAD
                      ELSE IF e \notin spare THEN MAP
                      ELSE IF \E u \in InitialBad : Takes(e, u)
                           THEN CHOOSE u \in InitialBad : Takes(e, u)
                           ELSE FREE]

BlankMemory ==
  /\ SwapTable' = [e \in Area |-> FREE]
  /\ FreeBlockList' = {}
  /\ MapBlock' = <<BmAreaStartBlock, BmAreaStartBlock>>
  /\ CurMapBlockIdx' = 1
  /\ CurMapPageNum' = 0
  /\ Sequence' = 0
  /\ State' = "closed"

\* init_bm_module, the scans, and the first of the two saves.
BM_Format ==
  /\ IF Formattable
     THEN /\ SwapTable' = FormatTable
          /\ FreeBlockList' = FreeEntries(FormatTable)
          /\ MapBlock' = NewMapBlocks
          /\ CurMapBlockIdx' = 2
          /\ CurMapPageNum' = 0
          /\ Sequence' = 0
          /\ State' = "closed"
          /\ op' = [NoOp EXCEPT !.cmd = "format"]
          /\ save' = [NoSave EXCEPT !.next = "format"]
          /\ pending' = Mapping(FormatTable)
          /\ pc' = "erase_map"
     ELSE /\ BlankMemory
          /\ pc' = "dead"
          /\ UNCHANGED <<op, save, pending>>
  /\ live' = {}
  /\ UNCHANGED <<flash, answered, window, adrift>>

FormatSecondBlock ==
  /\ pc = "format"
  /\ CurMapBlockIdx' = 1
  /\ CurMapPageNum' = 0
  /\ save' = NoSave
  /\ pc' = "erase_map"
  /\ UNCHANGED <<flash, SwapTable, FreeBlockList, MapBlock, Sequence, State, op,
                 hist, budget>>

\* As if its last page were full, so that the next save goes to the other
\* map block: this one may have a page that does not read.
OpenLastRead    == Cardinality(Readable(Current)) - 1             \* mutant
OpenLastMapPage == PagesPerBlock - 1

BM_Open ==
  /\ SwapTable' = OpenTable
  /\ FreeBlockList' = FreeEntries(OpenTable)
  /\ MapBlock' = OpenMapBlock
  /\ CurMapBlockIdx' = IF Current = OpenMapBlock[2] THEN 2 ELSE 1
  /\ CurMapPageNum' = OpenLastMapPage
  /\ Sequence' = OpenSequence
  /\ State' = "formatted"
  /\ pc' = "idle"
  /\ answered' = Mapping(OpenTable)
  /\ pending' = Mapping(OpenTable)
  /\ window' = {}
  /\ live' = live \ window
  /\ adrift' = (adrift \/ ~ Consistent)
  /\ UNCHANGED <<flash, op, save>>

\* FD_Init opens the manager and formats it if that did not succeed.
Boot == /\ pc = "off"
        /\ \/ Openable /\ BM_Open
           \/ ~ Openable /\ BM_Format
        /\ UNCHANGED budget

\* FD_Format, on request.
Reformat == /\ pc = "idle"
            /\ Spend("format")
            /\ BM_Format

----------------------------------------------------------------------------
(* The layer above, and power.                                             *)

BlockOf(u) == BM_GetSwappingBlock(SwapTable, u)

Idle == pc = "idle" /\ State = "formatted"

\* After a call that failed for want of a map spare, memory goes on with the
\* replacement that was not saved: what is written there, a reboot may miss.
ProgramUser(u) ==
  /\ Idle
  /\ data[BlockOf(u)] \in {ERASED, u}
  /\ data' = [data EXCEPT ![BlockOf(u)] = u]
  /\ live' = IF BlockOf(u) = answered[u] THEN live \cup {u} ELSE live \ {u}
  /\ UNCHANGED <<pages, marked, ram, call, answered, pending, window, adrift, budget>>

EraseUser(u) ==
  /\ Idle
  /\ EraseOk(BlockOf(u))
  /\ live' = live \ {u}
  /\ UNCHANGED <<ram, call, answered, pending, window, adrift, budget>>

Replace(cmd, b) == /\ op' = [NoOp EXCEPT !.cmd = cmd, !.bad = b]
                   /\ pc' = "get_free"
                   /\ UNCHANGED save

\* err_recover calls BM_SwapWriteBadBlock; only the failed page is lost.
ProgramUserFails(u) ==
  /\ Idle
  /\ data[BlockOf(u)] \in {ERASED, u}
  /\ Spend("block")
  /\ Replace("write", BlockOf(u))
  /\ UNCHANGED <<flash, ram, hist>>

EraseUserFails(u) ==
  /\ Idle
  /\ Spend("block")
  /\ EraseFail(BlockOf(u))
  /\ live' = live \ {u}
  /\ Replace("erase", BlockOf(u))
  /\ UNCHANGED <<ram, answered, pending, window, adrift>>

\* What a cut leaves of the flash operation in progress, if it started and
\* did not complete.
CutErase(b) == /\ EraseTo(b, <<TORN>>, JUNK)
               /\ marked' \in {marked, marked \ {b}}
Interrupted ==
  \/ pc = "erase_new" /\ CutErase(op.new)
  \/ pc = "copy" /\ EraseTo(op.new, pages[op.new], JUNK) /\ UNCHANGED marked
  \/ pc = "erase_map" /\ CutErase(MapTarget)
  \/ pc \in {"write_all", "write_one"} /\ Programmed(MapTarget, TORN)

PowerLoss ==
  /\ pc # "off"
  /\ Spend("power")
  /\ UNCHANGED flash \/ Interrupted
  /\ BlankMemory
  /\ pc' = "off"
  /\ op' = NoOp
  /\ save' = NoSave
  /\ UNCHANGED hist

----------------------------------------------------------------------------
Init ==
  /\ pages = [b \in Block |-> << >>]
  /\ data = [b \in Block |-> IF b \in FactoryBad THEN JUNK ELSE ERASED]
  /\ marked = FactoryBad
  /\ SwapTable = [e \in Area |-> FREE]
  /\ FreeBlockList = {}
  /\ MapBlock = <<BmAreaStartBlock, BmAreaStartBlock>>
  /\ CurMapBlockIdx = 1
  /\ CurMapPageNum = 0
  /\ Sequence = 0
  /\ State = "closed"
  /\ pc = "off"
  /\ op = NoOp
  /\ save = NoSave
  /\ live = {}
  /\ answered = << >>
  /\ pending = << >>
  /\ window = {}
  /\ adrift = FALSE
  /\ budget = Budget

\* What the thread that made a call does until the call ends.
Step == \/ FormatSecondBlock
        \/ GetFreeBlock \/ EraseNew \/ CopyPages \/ Register \/ InstallOriginal
        \/ EraseMap \/ MarkMap \/ WriteAll \/ WriteOne \/ MarkDelayed \/ Done

Next == \/ Step
        \/ Boot
        \/ Reformat
        \/ PowerLoss
        \/ \E u \in User : \/ ProgramUser(u) \/ ProgramUserFails(u)
                           \/ EraseUser(u) \/ EraseUserFails(u)

Spec == Init /\ [][Next]_vars

\* That thread is not stopped: nothing is assumed of the others, nor that
\* the power ever comes back.
FairSpec == Spec /\ WF_vars(Step)

----------------------------------------------------------------------------
FlashTypes ==
  /\ pages \in [Block -> Seq(MapPage \cup {TORN})]
  /\ data \in [Block -> User \cup {ERASED, JUNK}]
  /\ marked \subseteq Block

RamTypes ==
  /\ SwapTable \in [Area -> Entry]
  /\ FreeBlockList \subseteq Area
  /\ MapBlock \in [1 .. 2 -> Area]
  /\ CurMapBlockIdx \in 1 .. 2
  /\ CurMapPageNum \in 0 .. PagesPerBlock - 1
  /\ Sequence \in Nat
  /\ State \in {"closed", "formatted"}

CallTypes ==
  /\ pc \in {"off", "dead", "idle", "get_free", "erase_new", "copy", "register",
             "install", "done", "format", "erase_map", "write_all", "write_one",
             "mark_map", "mark_delayed"}
  /\ op \in [cmd : {"none", "write", "erase", "format"},
             bad : Block \cup {NoBlock}, new : Area \cup {NoBlock},
             org : Entry \cup {NoBlock}]
  /\ save \in [off : MapOffsets, page : MapOffsets, delayed : Area \cup {NoBlock},
               next : {"get_free", "install", "done", "format"}]

HistoryTypes ==
  /\ live \subseteq User
  /\ answered \in [User -> Block] \cup {<< >>}
  /\ pending \in [User -> Block] \cup {<< >>}
  /\ window \subseteq Entry
  /\ adrift \in BOOLEAN
  /\ budget \in [Accident -> Nat]

TypeOK == FlashTypes /\ RamTypes /\ CallTypes /\ HistoryTypes

\* The step of the call that runs, or that a save in progress returns to.
Saving == pc \in {"erase_map", "write_all", "write_one", "mark_map", "mark_delayed"}
Phase  == IF Saving THEN save.next ELSE pc

(* A call that has got past get_free_block has a block of the area to      *)
(* replace the bad one with, also while save_swap_table runs in between.   *)
CallShape ==
  /\ Phase \in {"get_free", "erase_new", "copy", "register", "install"}
       => op.bad \in Block
  /\ Phase \in {"erase_new", "copy", "register", "install"} => op.new \in Area
  /\ Phase = "install" => op.org \in Entry
  /\ pc = "mark_delayed" => save.delayed \in Area

FreeListIsFree == \A f \in FreeBlockList : SwapTable[f] = FREE
MapIsKnown     == \A i \in 1 .. 2 : SwapTable[MapBlock[i]] \in {MAP, BAD}
NewIsReserved  == Phase \in {"erase_new", "copy", "register", "install"} =>
                    SwapTable[op.new] = FREE /\ op.new \notin FreeBlockList
BadKeepsEntry  == Phase \in {"get_free", "erase_new", "copy", "register"}
                    /\ op.bad \in Area => SwapTable[op.bad] \in User

(* While the map blocks are known to the table: a block on the free list   *)
(* is free, save_swap_table never writes to a block that is free or holds  *)
(* data, and the block got for a call stays FREE, and off the list, until  *)
(* the call registers it; the one to be replaced keeps its entry till then.*)
Reserved ==
  ~ adrift /\ pc \notin {"off", "dead"} =>
    FreeListIsFree /\ MapIsKnown /\ NewIsReserved /\ BadKeepsEntry

Formatted == answered # << >>

(* At every moment, a reboot finds the mapping of the last call that       *)
(* returned, or the one of the call in progress: no replacement that       *)
(* BM_Swap...BadBlock reported done is ever lost, none appears by itself.  *)
ReplacementsSurvive ==
  Formatted =>
    Openable /\ LET T == OpenTable IN Mapping(T) \in {answered, pending}

(* The same, but for a replacement block that failed in its turn and whose *)
(* two entries lie on different map pages: between the two saves its       *)
(* original block is mapped to itself.                                     *)
ReplacementsSurviveButWindow ==
  Formatted =>
    Openable /\ LET T == OpenTable
                IN  Mapping(T) \in {answered, pending}
                        \cup {[answered EXCEPT ![u] = u] : u \in window}

(* With map blocks failing, a table that was superseded comes back only    *)
(* where the chip holds a map block that the latest table does not know:   *)
(* power was lost before the mark of one that was given up, or the mark    *)
(* failed.                                                                 *)
OnlyStrayMapsRevive == ~ adrift /\ Consistent => ReplacementsSurvive

(* Data a caller wrote, other than in a page whose program failed, is in   *)
(* the block a reboot would read it from.                                  *)
DataSurvives ==
  Formatted => LET T == OpenTable
               IN  \A u \in live \ window : data[BM_GetSwappingBlock(T, u)] = u

(* The same though map blocks fail: unless the chip holds a map block that *)
(* the latest table does not know, a reboot finds the data in the place of *)
(* every map block given up, and through marks and saves that power cuts.  *)
DataUnlessStray == ~ adrift /\ Consistent => DataSurvives

(* No two blocks of the area replace the same block: BM_GetSwappingBlock   *)
(* stops at the first one it meets, and the other would keep old data.     *)
UniqueReplacement ==
  \A e, f \in Area : SwapTable[e] = SwapTable[f] /\ SwapTable[e] \in User => e = f

(* Between calls, a block that the table reserves for the map is one of    *)
(* the two that save_swap_table writes: none is lost to the map.           *)
MapBlocksAgree ==
  Idle /\ ~ adrift => {e \in Area : SwapTable[e] = MAP} \subseteq {MapBlock[1], MapBlock[2]}

(* Between calls, BM_Open would rebuild the very table that is in memory,  *)
(* unless the last call gave up a map block and found no spare for it, or  *)
(* a map block that was given up is still on the chip, unmarked.           *)
RebootIsIdentity ==
  Idle /\ ~ adrift /\ Consistent /\ (\A i \in 1 .. 2 : SwapTable[MapBlock[i]] = MAP) =>
    Openable /\ OpenTable = SwapTable

(* The sequence number in memory is ahead of every map block that BM_Open  *)
(* could pick, whatever it finds in the chip: a page written from now on   *)
(* is later than any of theirs.                                            *)
SequenceAhead ==
  State = "formatted" =>
    \A b \in Area : IsMapBlock(b) /\ Complete(b) =>
      \A k \in Readable(b) : pages[b][k].seq <= Sequence

(* BM_Open settles for the map block with the largest sequence number.     *)
OpenFindsLatest ==
  Openable => \A b \in Area : IsMapBlock(b) /\ Complete(b) =>
                pages[b][1].seq <= pages[Current][1].seq

(* Through a first format that fails or is cut, and every replacement      *)
(* after it, callers are never sent to a block that left the factory bad:  *)
(* the format finds those blocks from their marks. (Not so of a block that *)
(* a format itself marked before it failed, if an older table can still be *)
(* opened.)                                                                *)
UsersAvoidFactoryBad ==
  Idle /\ ~ adrift => \A u \in User : BlockOf(u) \notin FactoryBad

(* The page about to be programmed is blank.                               *)
AppendsOnBlank ==
  ~ adrift => /\ pc = "write_all" => Blank(MapTarget, save.page)
              /\ pc = "write_one" => Blank(MapTarget, CurMapPageNum)

(* A block the table knows to be bad is neither erased nor programmed, but *)
(* for a map block that failed when no spare was left.                     *)
LeavesBadBlocks ==
  \A b \in Area \ {MapBlock[1], MapBlock[2]} : ~ adrift /\ SwapTable[b] = BAD =>
    pages'[b] = pages[b] /\ data'[b] = data[b]
BadBlocksUntouched == [][LeavesBadBlocks]_vars

\* The mapping that the chip holds.
Held == IF Openable THEN CHOOSE m \in {Mapping(T) : T \in {OpenTable}} : TRUE ELSE << >>

(* The manager keeps a durable mapping: what BM_Open would find is what    *)
(* the last call answered, or one replacement away from it, until FD_Format*)
(* makes it anew.                                                          *)
Durable ==
  INSTANCE DurableMap WITH
    Spare <- Area, stored <- Held, busy <- ~ Idle, formatting <- op.cmd = "format"

ImplementsDurableMap == Durable!Spec

(* A call ends, by itself or by a power loss.                              *)
CallsEnd == pc \notin {"idle", "off", "dead"} ~> pc \in {"idle", "off", "dead"}
=============================================================================
