------------------------- MODULE MapFailures_proofs -------------------------
(***************************************************************************)
(* What a reboot finds when map pages fail as well, bad marks too, and     *)
(* whenever power is lost, for a swap table of one map page.  Map blocks   *)
(* are given up and replaced, and one that was given up may stay on the    *)
(* chip and be read again.  The invariant follows the map block that       *)
(* leads: the one that began last among those that can be read.            *)
(***************************************************************************)
EXTENDS Survival_proofs

\* The swap table fits one map page, and nobody formats a chip in use.
OneMapPage == NumMapPages = 1 /\ Budget["format"] = 0

Up == pc \notin {"off", "dead"}

\* Map block h began after all that can be read in b.
Precedes(b, h) == \A k \in Legible(pages[b]) : pages[b][k].seq < pages[h][1].seq
Leads(h, S) == /\ h \in S /\ IsMapBlock(h)
               /\ \A b \in S \ {h} : IsMapBlock(b) => Precedes(b, h)

Owed(T)  == Mapping(T) \in {answered, pending}
Led(S)   == \E h \in S : Leads(h, S) /\ Owed(TableIn(pages[h]))
Blind(S) == \A b \in S : ~ IsMapBlock(b)
Rest     == Area \ {MapTarget}

\* A reboot that reads the map block that leads finds a mapping it may find.
Headed ==
  /\ Blind(Area) \/ Led(Area)
  /\ Formatted => ~ Blind(Area)

\* A map block is erased, or marked, only when another one can be read instead.
Backed ==
  /\ pc = "erase_map" => ~ Leads(MapTarget, Area)
  /\ pc = "mark_map" /\ Leads(MapTarget, Area) =>
       Led(Rest) \/ (~ Formatted /\ Blind(Rest))
  /\ pc = "write_all" => MapTarget \notin marked /\ pages[MapTarget] = << >>

\* Both map blocks are in use: none was given up for want of a spare.
Sound == \A i \in 1 .. 2 : SwapTable[MapBlock[i]] = MAP

\* Outside a rewrite, the current map block leads, and holds the table.
Continued ==
  Up /\ Sound /\ pc \notin {"erase_map", "write_all", "mark_map"} =>
    /\ Leads(MapTarget, Area)
    /\ pc # "write_one" => TableIn(pages[MapTarget]) = SwapTable

\* What the table in memory answers.
Replied ==
  Up /\ Sound =>
    /\ Phase = "idle" \/ Replacing => pending = answered /\ Mapping(SwapTable) = answered
    /\ Phase \in {"done", "format"} => Mapping(SwapTable) = pending

\* After a call that gave up a map block for want of a spare, no call saves.
Paired ==
  /\ Up => /\ MapBlock[1] # MapBlock[2]
           /\ Sound \/ (pc \in {"idle", "get_free"} /\ FreeBlockList = {})
           /\ Saving /\ save.delayed # NoBlock => SwapTable[save.delayed] = BAD
           /\ Phase # "install"
           /\ Phase = "format" => CurMapBlockIdx = 2
  /\ op.cmd = "format" => ~ Formatted /\ pc # "off"
  /\ \A b \in Area : Whole(pages[b]) =>
       \E x, y \in Area : x # y /\ TableIn(pages[b])[x] = MAP /\ TableIn(pages[b])[y] = MAP

\* The table knows what can be read, and the next page is later than all.
Known ==
  Up => \A b \in Area : IsMapBlock(b) =>
          SwapTable[b] \in {MAP, BAD} /\ Below(pages[b], Sequence)

Failing == Headed /\ Backed /\ Continued /\ Replied /\ Paired /\ Known

MapFailuresInv == TidyInv /\ budget["format"] = 0 /\ (~ adrift => Failing)

----------------------------------------------------------------------------
(* Map blocks of one page, and the one that leads.                         *)

LEMMA OnePage ==
  ASSUME OneMapPage
  PROVE  /\ MapOffsets = {0}
         /\ \A e \in Area : MAP_OFFSET(e) = 0
         /\ \A s \in PageLog : /\ Whole(s) <=> 1 \in Legible(s)
                               /\ Whole(s) <=> s # << >> /\ s[1] # TORN
<1>1. MapOffsets = {0}
  BY DEF OneMapPage, MapOffsets
<1>2. \A e \in Area : MAP_OFFSET(e) = 0
  BY <1>1, MapOffsetType
<1>3. ASSUME NEW s \in PageLog
      PROVE  /\ Whole(s) <=> 1 \in Legible(s)
             /\ Whole(s) <=> s # << >> /\ s[1] # TORN
  <2>1. 1 \in Legible(s) => Whole(s)
    BY <1>1, LegibleType DEF Whole
  <2>2. Whole(s) => 1 \in Legible(s)
    BY WholeBegins
  <2>3. 1 \in Legible(s) <=> s # << >> /\ s[1] # TORN
    <3>1. Len(s) \in Nat /\ (Len(s) = 0 <=> s = << >>)
      BY EmptySeq, LegibleType DEF PageLog
    <3>2. 1 \in Legible(s) <=> 1 \in 1 .. Len(s) /\ \A m \in 1 .. 1 : s[m] # TORN
      BY DEF Legible
    <3> QED
      BY <3>1, <3>2
  <2> QED
    BY <2>1, <2>2, <2>3
<1> QED
  BY <1>1, <1>2, <1>3

\* A map block can be read if it is not marked and begins with a map page.
LEMMA MapBlockIs ==
  ASSUME OneMapPage, TypeInv
  PROVE  \A b \in Area : /\ IsMapBlock(b) <=> b \notin marked /\ Whole(pages[b])
                         /\ IsMapBlock(b) => 1 \in Legible(pages[b])
BY OnePage, AreaLogs DEF IsMapBlock

LEMMA MapBlockIsNext ==
  ASSUME OneMapPage, TidyInv, [Next]_vars
  PROVE  \A b \in Area : /\ IsMapBlock(b)' <=> b \notin marked' /\ Whole(pages'[b])
                         /\ IsMapBlock(b)' => 1 \in Legible(pages'[b])
BY OnePage, NextPages DEF IsMapBlock

\* Only one block leads.
LEMMA OneLeads ==
  ASSUME OneMapPage, TidyInv, NEW S \in SUBSET Area, NEW g, NEW h,
         Leads(g, S), Leads(h, S)
  PROVE  g = h
<1> SUFFICES ASSUME g # h PROVE FALSE
  OBVIOUS
<1>1. /\ g \in Area /\ pages[g] \in PageLog /\ 1 \in Legible(pages[g])
      /\ h \in Area /\ pages[h] \in PageLog /\ 1 \in Legible(pages[h])
  BY AreaLogs, MapBlockIs DEF Leads, TidyInv, ReservedInv
<1>2. pages[g][1].seq < pages[h][1].seq /\ pages[h][1].seq < pages[g][1].seq
  BY <1>1 DEF Leads, Precedes
<1> QED
  BY <1>1, <1>2, LegibleType

LEMMA OneLeadsNext ==
  ASSUME OneMapPage, TidyInv, [Next]_vars, NEW S \in SUBSET Area, NEW g, NEW h,
         Leads(g, S)', Leads(h, S)'
  PROVE  g = h
<1> SUFFICES ASSUME g # h PROVE FALSE
  OBVIOUS
<1>1. /\ g \in Area /\ pages'[g] \in PageLog /\ 1 \in Legible(pages'[g])
      /\ h \in Area /\ pages'[h] \in PageLog /\ 1 \in Legible(pages'[h])
  BY NextPages, MapBlockIsNext DEF Leads
<1>2. pages'[g][1].seq < pages'[h][1].seq /\ pages'[h][1].seq < pages'[g][1].seq
  BY <1>1 DEF Leads, Precedes
<1> QED
  BY <1>1, <1>2, LegibleType

\* A block that leads still does if it can still be read, and all the others
\* that can be read are as they were.
LEMMA LeadStays ==
  ASSUME OneMapPage, TidyInv, [Next]_vars, NEW S \in SUBSET Area, NEW h,
         Leads(h, S), IsMapBlock(h)',
         \A b \in S : IsMapBlock(b)' => IsMapBlock(b) /\ LogKept(b)
  PROVE  Leads(h, S)' /\ TableIn(pages'[h]) = TableIn(pages[h])
<1>1. h \in Area /\ h \in S /\ LogKept(h) /\ IsMapBlock(h)
  BY DEF Leads
<1>2. 1 \in Legible(pages[h]) /\ Whole(pages[h]) /\ pages'[h][1] = pages[h][1]
  BY <1>1, MapBlockIs DEF TidyInv, ReservedInv, LogKept
<1>3. ASSUME NEW b \in S \ {h}, IsMapBlock(b)' PROVE Precedes(b, h)'
  BY <1>2, <1>3 DEF Leads, Precedes, LogKept
<1>4. TableIn(pages'[h]) = TableIn(pages[h])
  BY <1>1, <1>2, KeptWhole
<1> QED
  BY <1>1, <1>3, <1>4 DEF Leads

----------------------------------------------------------------------------
(* What a step does to the map blocks.                                     *)

Erases(b) == EraseOk(b) \/ EraseFail(b) \/ CutErase(b)

LEMMA FlashSteps ==
  ASSUME TypeInv, [Next]_vars
  PROVE  \/ UNCHANGED <<pages, marked>>
         \/ pc = "erase_map" /\ Erases(MapTarget)
         \/ pc = "erase_new" /\ Erases(op.new)
         \/ Idle /\ \E u \in User : Erases(BlockOf(u))
         \/ pc = "mark_map" /\ MarkBadBlock(MapTarget)
         \/ pc = "mark_delayed" /\ MarkBadBlock(save.delayed)
         \/ /\ pc \in {"write_all", "write_one"}
            /\ \E pg \in MapPage \cup {TORN} : Programmed(MapTarget, pg)
<1> USE DEF TypeInv, TypeOK
<1>1. save.page \in MapOffsets /\ save.off \in MapOffsets /\ MapTarget \in Area
  BY MapTargetType DEF CallTypes
<1>2. CASE EraseMap \/ EraseNew
  BY <1>2 DEF EraseMap, EraseNew, Erases
<1>3. ASSUME NEW p, NEW o \in MapOffsets,
             WriteMapPage(MapTarget, p, o) \/ WriteMapPageFails(MapTarget, p, o)
      PROVE  \/ UNCHANGED <<pages, marked>>
             \/ \E pg \in MapPage \cup {TORN} : Programmed(MapTarget, pg)
  <2>1. MapPageOf(o) \in MapPage
    BY <1>3, MapPageOfType
  <2> QED
    BY <1>3, <2>1 DEF WriteMapPage, WriteMapPageFails, ProgramFail, flash
<1>4. CASE WriteAll
  BY <1>1, <1>3, <1>4 DEF WriteAll
<1>5. CASE WriteOne
  BY <1>1, <1>3, <1>5 DEF WriteOne
<1>6. CASE MarkMap \/ MarkDelayed
  BY <1>6 DEF MarkMap, MarkDelayed
<1>7. CASE PowerLoss
  <2>1. CASE pc \in {"write_all", "write_one"} /\ Programmed(MapTarget, TORN)
    BY <2>1
  <2>2. CASE pc = "copy" /\ EraseTo(op.new, pages[op.new], JUNK) /\ UNCHANGED marked
    BY <2>2 DEF EraseTo, FlashTypes
  <2> QED
    BY <1>7, <2>1, <2>2 DEF PowerLoss, Interrupted, Erases, flash
<1>8. CASE \E u \in User : \/ ProgramUser(u) \/ ProgramUserFails(u)
                           \/ EraseUser(u) \/ EraseUserFails(u)
  BY <1>8 DEF ProgramUser, ProgramUserFails, EraseUser, EraseUserFails, Erases, flash
<1>9. CASE \/ Boot \/ Reformat \/ FormatSecondBlock \/ GetFreeBlock \/ CopyPages
           \/ Register \/ InstallOriginal \/ Done \/ UNCHANGED vars
  BY <1>9
  DEF Boot, BM_Open, BM_Format, Reformat, FormatSecondBlock, GetFreeBlock, CopyPages,
      Register, InstallOriginal, Install, Done, vars, flash
<1> QED
  BY <1>2, <1>4, <1>5, <1>6, <1>7, <1>8, <1>9 DEF Next, Step

LEMMA EraseLeaves ==
  ASSUME TypeInv, NEW c \in Block, Erases(c), NEW b \in Area
  PROVE  /\ b # c => pages'[b] = pages[b] /\ (b \in marked' <=> b \in marked)
         /\ b \in marked' => b \in marked
         /\ b \in marked /\ b \notin marked' => LogGone(b)
<1> USE DEF TypeInv, TypeOK, FlashTypes
<1>1. b \in Block /\ pages \in [Block -> Seq(MapPage \cup {TORN})]
  BY DEF Block
<1>2. CASE b # c
  BY <1>1, <1>2 DEF Erases, EraseOk, EraseFail, CutErase, EraseTo
<1>3. CASE b = c
  <2>1. b \in marked' => b \in marked
    BY <1>1, <1>3 DEF Erases, EraseOk, EraseFail, CutErase
  <2>2. b \in marked /\ b \notin marked' => pages'[b] \in {<< >>, <<TORN>>}
    BY <1>1, <1>3 DEF Erases, EraseOk, EraseFail, CutErase, EraseTo
  <2> QED
    BY <1>3, <2>1, <2>2, EmptyLog DEF LogGone
<1> QED
  BY <1>2, <1>3

LEMMA MapBlocksStep ==
  ASSUME OneMapPage, TidyInv, ~ adrift, Backed, Known, [Next]_vars, NEW b \in Area
  PROVE  /\ IsMapBlock(b)' =>
              \/ IsMapBlock(b)
              \/ /\ pc = "write_all" /\ b = MapTarget
                 /\ pages'[b] = Append(pages[b], MapPageOf(save.page))
         /\ IsMapBlock(b) /\ ~ IsMapBlock(b)' =>
              \/ pc \in {"erase_map", "mark_map"} /\ b = MapTarget
              \/ pc = "mark_delayed" /\ b = save.delayed
         /\ IsMapBlock(b) /\ IsMapBlock(b)' =>
              \/ LogKept(b)
              \/ /\ pc = "write_one" /\ b = MapTarget
                 /\ pages'[b] = Append(pages[b], MapPageOf(save.off))
<1> USE DEF TidyInv, ReservedInv, TypeInv, TypeOK
<1>0. /\ IsMapBlock(b) <=> b \notin marked /\ Whole(pages[b])
      /\ IsMapBlock(b)' <=> b \notin marked' /\ Whole(pages'[b])
      /\ b \in Block /\ MapTarget \in Area /\ MapTarget \in Block
  BY MapBlockIs, MapBlockIsNext, MapTargetType DEF Block
<1>1. \/ LogKept(b) \/ LogGone(b)
      \/ /\ pc = "write_all" /\ b = MapTarget
         /\ pages'[b] = Append(pages[b], MapPageOf(save.page))
      \/ /\ pc = "write_one" /\ b = MapTarget /\ Blank(MapTarget, CurMapPageNum)
         /\ pages'[b] = Append(pages[b], MapPageOf(save.off))
  BY NextLogs DEF MapLogInv, LogInv
<1>2. pc = "erase_new" => op.new \in Area /\ SwapTable[op.new] = FREE /\ Phase = pc
  BY DEF Reserved, NewIsReserved, CallShape, Phase, Saving
<1>3. ASSUME b \in marked, b \notin marked' PROVE LogGone(b)
  <2>1. \A c \in Block : Erases(c) => LogGone(b)
    BY <1>3, EraseLeaves
  <2>2. \A u \in User : BlockOf(u) \in Block
    BY BlockOfType
  <2>3. ~ MarkBadBlock(MapTarget) /\ ~ MarkBadBlock(save.delayed)
        /\ ~ UNCHANGED <<pages, marked>>
        /\ \A pg : ~ Programmed(MapTarget, pg)
    BY <1>3 DEF MarkBadBlock, Programmed
  <2> QED
    BY <1>0, <1>2, <2>1, <2>2, <2>3, FlashSteps DEF Block
<1>4. LogGone(b) => ~ Whole(pages'[b])
  BY GoneIsNotWhole
<1>5. LogKept(b) => (Whole(pages'[b]) <=> Whole(pages[b]))
  BY KeptWhole
<1>6. pc = "write_all" /\ b = MapTarget => ~ IsMapBlock(b)
  BY DEF Backed, IsMapBlock
<1>7. pc = "write_one" /\ b = MapTarget => Whole(pages[b])
  BY DEF Kept, MapLogInv, LogInv, Overtaken
<1>8. IsMapBlock(b)' => \/ IsMapBlock(b)
                        \/ /\ pc = "write_all" /\ b = MapTarget
                           /\ pages'[b] = Append(pages[b], MapPageOf(save.page))
  BY <1>0, <1>1, <1>3, <1>4, <1>5, <1>7
<1>9. IsMapBlock(b) /\ IsMapBlock(b)' =>
              \/ LogKept(b)
              \/ /\ pc = "write_one" /\ b = MapTarget
                 /\ pages'[b] = Append(pages[b], MapPageOf(save.off))
  BY <1>0, <1>1, <1>4, <1>6
<1>10. ASSUME IsMapBlock(b), ~ IsMapBlock(b)'
       PROVE  \/ pc \in {"erase_map", "mark_map"} /\ b = MapTarget
              \/ pc = "mark_delayed" /\ b = save.delayed
  <2>1. \A c \in Block : Erases(c) => b = c
    <3> SUFFICES ASSUME NEW c \in Block, Erases(c), b # c PROVE FALSE
      OBVIOUS
    <3>1. pages'[b] = pages[b] /\ (b \in marked' <=> b \in marked)
      BY EraseLeaves
    <3> QED
      BY <1>0, <1>10, <3>1
  <2>2. CASE UNCHANGED <<pages, marked>>
    BY <1>0, <1>10, <2>2
  <2>3. CASE pc = "erase_map" /\ Erases(MapTarget)
    BY <1>0, <2>1, <2>3
  <2>4. CASE pc = "erase_new" /\ Erases(op.new)
    <3>1. b = op.new /\ SwapTable[b] \notin {MAP, BAD}
      BY <1>2, <2>1, <2>4, SpecialEntries DEF Block
    <3> QED
      BY <1>10, <2>4, <3>1 DEF Known, Up
  <2>5. CASE Idle /\ \E u \in User : Erases(BlockOf(u))
    <3>1. PICK u \in User : Erases(BlockOf(u))
      BY <2>5
    <3>2. b = BlockOf(u) /\ b # u
      BY <2>1, <3>1, BlockOfType, AreaNumbers
    <3>3. SwapTable[b] = u
      BY <3>2, SwappingBlockIs DEF BlockOf
    <3> QED
      BY <1>10, <2>5, <3>3, SpecialEntries DEF Known, Up, Idle
  <2>6. CASE pc = "mark_map" /\ MarkBadBlock(MapTarget)
    BY <1>0, <1>10, <2>6 DEF MarkBadBlock
  <2>7. CASE pc = "mark_delayed" /\ MarkBadBlock(save.delayed)
    BY <1>0, <1>10, <2>7 DEF MarkBadBlock
  <2>8. CASE /\ pc \in {"write_all", "write_one"}
             /\ \E pg \in MapPage \cup {TORN} : Programmed(MapTarget, pg)
    <3>1. PICK pg \in MapPage \cup {TORN} : Programmed(MapTarget, pg)
      BY <2>8
    <3>2. /\ marked' = marked
          /\ pages'[b] = pages[b] \/ pages'[b] = Append(pages[b], pg)
      BY <1>0, <3>1 DEF Programmed, FlashTypes
    <3>3. pages[b] \in PageLog /\ 1 \in Legible(pages[b])
      BY <1>0, <1>10, AreaLogs, OnePage
    <3>4. Append(pages[b], pg) \in PageLog /\ 1 \in Legible(Append(pages[b], pg))
      BY <3>3, AppendLegible
    <3> QED
      BY <1>0, <1>10, <3>2, <3>4, OnePage
  <2> QED
    BY <2>2, <2>3, <2>4, <2>5, <2>6, <2>7, <2>8, FlashSteps
<1> QED
  BY <1>8, <1>9, <1>10

----------------------------------------------------------------------------
(* What a step does to the table in memory.                                *)

LEMMA NeverReformats ==
  ASSUME TypeInv, budget["format"] = 0, [Next]_vars
  PROVE  budget'["format"] = 0 /\ ~ Reformat
<1> USE DEF TypeInv, TypeOK, HistoryTypes
<1>1. "format" \in Accident /\ \A k \in Accident : budget[k] \in Nat
  BY DEF Accident
<1>2. ~ Spend("format")
  BY <1>1 DEF Spend
<1>3. ASSUME NEW k \in {"block", "map", "mark", "power"}, Spend(k)
      PROVE  budget'["format"] = 0
  BY <1>1, <1>3 DEF Spend, Accident
<1>4. UNCHANGED budget => budget'["format"] = 0
  OBVIOUS
<1>5. Step => budget'["format"] = 0
  BY <1>3, <1>4
  DEF Step, FormatSecondBlock, GetFreeBlock, EraseNew, CopyPages, Register,
      InstallOriginal, Install, EraseMap, MarkMap, MarkBadBlock, WriteAll, WriteOne,
      WriteMapPage, WriteMapPageFails, MarkDelayed, Done
<1>6. (\E u \in User : \/ ProgramUser(u) \/ ProgramUserFails(u)
                       \/ EraseUser(u) \/ EraseUserFails(u)) => budget'["format"] = 0
  BY <1>3, <1>4 DEF ProgramUser, ProgramUserFails, EraseUser, EraseUserFails
<1> QED
  BY <1>2, <1>3, <1>4, <1>5, <1>6 DEF Next, Boot, Reformat, PowerLoss, vars

\* The current map block is given up: for a spare one, or for want of one.
TakesSpare(sav) ==
  \E new \in Area :
    /\ SwapTable[new] = FREE /\ MapTarget' = new
    /\ MapBlock'[OtherMapBlock] = MapBlock[OtherMapBlock]
    /\ SwapTable' = [SwapTable EXCEPT ![MapTarget] = BAD, ![new] = MAP]
    /\ pc' = "erase_map" /\ save' = sav /\ UNCHANGED <<op, hist>>

GivesUp ==
  /\ FreeBlockList = {} /\ FreeBlockList' = {} /\ UNCHANGED <<MapBlock, hist>>
  /\ SwapTable' = [SwapTable EXCEPT ![MapTarget] = BAD]
  /\ pc' = (IF op.cmd = "format" THEN "dead" ELSE "idle")
  /\ op' = NoOp /\ save' = NoSave

LEMMA Retirement ==
  ASSUME TidyInv, ~ adrift, Up, NEW sav, ReplaceMapBlock(MapTarget, sav),
         UNCHANGED CurMapBlockIdx
  PROVE  TakesSpare(sav) \/ GivesUp
<1> USE DEF TidyInv, ReservedInv, TypeInv, TypeOK, RamTypes
<1>1. CASE FreeBlockList = {}
  BY <1>1 DEF ReplaceMapBlock, GivesUp, Abort
<1>2. CASE FreeBlockList # {}
  <2>1. PICK new : new = Lowest(FreeBlockList)
    OBVIOUS
  <2>2. new \in FreeBlockList /\ new \in Area
    BY <1>2, <2>1, AreaNumbers, LowestType
  <2>3. SwapTable[new] = FREE
    BY <2>2 DEF Reserved, FreeListIsFree, Up
  <2>4. /\ SwapTable' = Retired(MapTarget, new)
        /\ MapBlock' = [MapBlock EXCEPT ![CurMapBlockIdx] = new]
        /\ pc' = "erase_map" /\ save' = sav /\ UNCHANGED <<op, hist>>
    BY <1>2, <2>1 DEF ReplaceMapBlock
  <2>5. MapTarget' = new /\ MapBlock'[OtherMapBlock] = MapBlock[OtherMapBlock]
    BY <2>4 DEF MapTarget, OtherMapBlock
  <2> QED
    BY <2>2, <2>3, <2>4, <2>5 DEF TakesSpare, Retired
<1> QED
  BY <1>1, <1>2

\* The steps that may give up the current map block.
LEMMA Retirements ==
  ASSUME TidyInv, ~ adrift, MarkMap \/ WriteOne
  PROVE  \/ /\ WriteOne /\ WriteMapPage(MapTarget, CurMapPageNum, save.off)
            /\ SaveEnds
            /\ UNCHANGED <<SwapTable, FreeBlockList, MapBlock, save, op, hist>>
         \/ \E sav : /\ sav.next = save.next
                     /\ \/ MarkMap /\ sav = save
                        \/ /\ WriteOne /\ sav = [save EXCEPT !.delayed = MapTarget]
                           /\ WriteMapPageFails(MapTarget, CurMapPageNum, save.off)
                     /\ TakesSpare(sav) \/ GivesUp
<1> USE DEF TidyInv, ReservedInv, TypeInv, TypeOK
<1>1. CASE MarkMap
  <2>1. Up /\ ReplaceMapBlock(MapTarget, save) /\ UNCHANGED CurMapBlockIdx
    BY <1>1 DEF MarkMap, Up
  <2>2. TakesSpare(save) \/ GivesUp
    BY <2>1, Retirement
  <2> QED
    BY <1>1, <2>2
<1>2. CASE WriteOne /\ WriteMapPageFails(MapTarget, CurMapPageNum, save.off) /\ RetireCurrent
  <2>1. PICK sav : sav = [save EXCEPT !.delayed = MapTarget]
    OBVIOUS
  <2>2. sav.next = save.next
    BY <2>1 DEF CallTypes
  <2>3. Up /\ ReplaceMapBlock(MapTarget, sav) /\ UNCHANGED CurMapBlockIdx
    BY <1>2, <2>1 DEF WriteOne, RetireCurrent, Up
  <2>4. TakesSpare(sav) \/ GivesUp
    BY <2>3, Retirement
  <2> QED
    BY <1>2, <2>1, <2>2, <2>4
<1> QED
  BY <1>1, <1>2 DEF WriteOne

LEMMA SpareKeepsSound ==
  ASSUME TidyInv, Up, Sound, MapBlock[1] # MapBlock[2], NEW sav, TakesSpare(sav),
         UNCHANGED CurMapBlockIdx, TypeInv'
  PROVE  /\ Sound' /\ MapBlock'[1] # MapBlock'[2]
         /\ Mapping(SwapTable') = Mapping(SwapTable)
         /\ \A e \in Area : SwapTable[e] \in {MAP, BAD} => SwapTable'[e] \in {MAP, BAD}
         /\ \A e \in Area : SwapTable[e] = BAD => SwapTable'[e] = BAD
         /\ SwapTable'[MapTarget] = BAD
<1> USE DEF TidyInv, ReservedInv, TypeInv, TypeOK, RamTypes
<1>1. PICK new \in Area :
        /\ SwapTable[new] = FREE /\ MapTarget' = new
        /\ MapBlock'[OtherMapBlock] = MapBlock[OtherMapBlock]
        /\ SwapTable' = [SwapTable EXCEPT ![MapTarget] = BAD, ![new] = MAP]
  BY DEF TakesSpare
<1>2. /\ CurMapBlockIdx \in 1 .. 2 /\ OtherMapBlock \in 1 .. 2 /\ OtherMapBlock # CurMapBlockIdx
      /\ \A i \in 1 .. 2 : i = CurMapBlockIdx \/ i = OtherMapBlock
  BY DEF OtherMapBlock
<1>3. SwapTable[MapTarget] = MAP /\ MapTarget \in Area /\ MapTarget # new
      /\ MapTarget = MapBlock[CurMapBlockIdx]
  BY <1>1, SpecialEntries, MapTargetType DEF Sound, MapTarget
<1>4. /\ MapBlock[OtherMapBlock] # MapTarget /\ MapBlock[OtherMapBlock] # new
      /\ SwapTable[MapBlock[OtherMapBlock]] = MAP /\ MapBlock[OtherMapBlock] \in Area
  BY <1>1, <1>2, <1>3, SpecialEntries DEF Sound
<1>5. MapBlock'[CurMapBlockIdx] = new
  BY <1>1 DEF MapTarget
<1>6. /\ SwapTable'[new] = MAP /\ SwapTable'[MapTarget] = BAD
      /\ \A e \in Area : e # new /\ e # MapTarget => SwapTable'[e] = SwapTable[e]
  BY <1>1, <1>3
<1>7. Sound' /\ MapBlock'[1] # MapBlock'[2]
  <2>1. SwapTable'[MapBlock'[OtherMapBlock]] = MAP
    BY <1>1, <1>4, <1>6
  <2>2. SwapTable'[MapBlock'[CurMapBlockIdx]] = MAP
    BY <1>5, <1>6
  <2>3. MapBlock'[CurMapBlockIdx] # MapBlock'[OtherMapBlock]
    BY <1>1, <1>4, <1>5
  <2> QED
    BY <1>2, <2>1, <2>2, <2>3 DEF Sound
<1>8. Mapping(SwapTable') = Mapping(SwapTable)
  <2>1. \A e \in Area : SwapTable'[e] = SwapTable[e]
                        \/ (SwapTable'[e] \notin User /\ SwapTable[e] \notin User)
    BY <1>1, <1>3, <1>6, SpecialEntries
  <2> QED
    BY <2>1, SameMapping
<1>9. \A e \in Area : SwapTable[e] \in {MAP, BAD} => SwapTable'[e] \in {MAP, BAD}
  BY <1>6
<1>10. \A e \in Area : SwapTable[e] = BAD => SwapTable'[e] = BAD
  BY <1>1, <1>3, <1>6, SpecialEntries
<1> QED
  BY <1>6, <1>7, <1>8, <1>9, <1>10

\* The steps that change the table, between an opening and a loss of power.
LEMMA TableSteps ==
  ASSUME OneMapPage, MapFailuresInv, ~ adrift, [Next]_vars, ~ Boot, ~ PowerLoss
  PROVE  /\ Up \/ UNCHANGED vars
         /\ \/ UNCHANGED <<SwapTable, MapBlock>>
            \/ (Rejects \/ Enters \/ Moves) /\ UNCHANGED MapBlock
            \/ \E sav : /\ sav.next = save.next
                        /\ \/ MarkMap /\ sav = save
                           \/ /\ WriteOne /\ sav = [save EXCEPT !.delayed = MapTarget]
                              /\ WriteMapPageFails(MapTarget, CurMapPageNum, save.off)
                        /\ TakesSpare(sav) \/ GivesUp
<1> USE DEF MapFailuresInv, TidyInv, ReservedInv, TypeInv, TypeOK
<1>1. ~ Reformat
  BY NeverReformats
<1>2. Up \/ UNCHANGED vars
  BY <1>1
  DEF Next, Step, FormatSecondBlock, GetFreeBlock, EraseNew, CopyPages, Register, Up,
      InstallOriginal, EraseMap, MarkMap, WriteAll, WriteOne, MarkDelayed, Done,
      ProgramUser, ProgramUserFails, EraseUser, EraseUserFails, Idle
<1>3. CASE MarkMap \/ WriteOne
  BY <1>2, <1>3, Retirements
<1>5. CASE EraseNew \/ CopyPages
  BY <1>2, <1>5 DEF EraseNew, CopyPages, RejectNewBlock, Rejects, StartSave, ram
<1>6. CASE Register
  <2>1. Phase = "register" /\ Phase \in {"erase_new", "copy", "register", "install"}
    BY <1>6 DEF Register, Phase, Saving
  <2>2. op.new \in Area
    BY <2>1 DEF CallShape
  <2>3. op.bad \in Area => MAP_OFFSET(op.bad) = MAP_OFFSET(op.new)
    BY <2>2, OnePage
  <2> QED
    BY <1>2, <1>6, <2>3 DEF Register, Enters, Moves, Install, StartSave
<1>7. CASE InstallOriginal
  BY <1>7 DEF InstallOriginal, Phase, Saving, Failing, Paired, Up
<1>8. CASE \/ FormatSecondBlock \/ GetFreeBlock \/ Done \/ UNCHANGED vars
           \/ EraseMap \/ WriteAll \/ MarkDelayed
           \/ \E u \in User : \/ ProgramUser(u) \/ ProgramUserFails(u)
                              \/ EraseUser(u) \/ EraseUserFails(u)
  BY <1>2, <1>8
  DEF FormatSecondBlock, GetFreeBlock, Done, EraseMap, WriteAll, MarkDelayed, ProgramUser,
      ProgramUserFails, EraseUser, EraseUserFails, vars, ram
<1> QED
  BY <1>1, <1>3, <1>5, <1>6, <1>7, <1>8 DEF Next, Step

\* A block that enters the table, or fails to, leaves the map as it is.
LEMMA NewBlockKeepsSound ==
  ASSUME MapFailuresInv, ~ adrift, Rejects \/ Enters \/ Moves
  PROVE  /\ Up /\ Sound /\ Replacing
         /\ pc \in {"erase_new", "copy", "register"} /\ Phase = pc
         /\ \A e \in Area : SwapTable[e] \in {MAP, BAD} => SwapTable'[e] = SwapTable[e]
         /\ Rejects => Mapping(SwapTable') = Mapping(SwapTable)
<1> USE DEF MapFailuresInv, TidyInv, ReservedInv, TypeInv, TypeOK
<1>1. pc \in {"erase_new", "copy", "register"} /\ Phase = pc /\ Up /\ Replacing
  BY DEF Rejects, Enters, Moves, Phase, Saving, Up, Replacing
<1>2. /\ SwapTable \in [Area -> Entry] /\ op.new \in Area /\ SwapTable[op.new] = FREE
      /\ (op.bad \in Area => SwapTable[op.bad] \in User)
  BY <1>1 DEF Reserved, NewIsReserved, BadKeepsEntry, CallShape, RamTypes, Up
<1>3. \A e \in Area : SwapTable[e] \in {MAP, BAD} => SwapTable'[e] = SwapTable[e]
  <2>1. CASE Rejects
    BY <1>2, <2>1, SpecialEntries DEF Rejects, RejectNewBlock
  <2>2. CASE Enters
    BY <1>2, <2>2, SpecialEntries DEF Enters, Install
  <2>3. CASE Moves
    BY <1>2, <2>3, SpecialEntries DEF Moves, Moved, Install
  <2> QED
    BY <2>1, <2>2, <2>3
<1>4. ASSUME Rejects PROVE Mapping(SwapTable') = Mapping(SwapTable)
  <2>1. \A e \in Area : SwapTable'[e] = SwapTable[e]
                        \/ (SwapTable'[e] \notin User /\ SwapTable[e] \notin User)
    BY <1>2, <1>4, SpecialEntries DEF Rejects, RejectNewBlock
  <2> QED
    BY <2>1, SameMapping
<1>5. Sound
  BY <1>1 DEF Failing, Paired
<1> QED
  BY <1>1, <1>3, <1>4, <1>5

----------------------------------------------------------------------------
(* Both map blocks are in use, or no call saves.                           *)

\* Once a map block was given up, calls end without a save.
LEMMA StuckStays ==
  ASSUME MapFailuresInv, [Next]_vars, ~ Boot, ~ PowerLoss,
         pc \in {"idle", "get_free"}, FreeBlockList = {}
  PROVE  pc' \in {"idle", "get_free", "dead"} /\ FreeBlockList' = {}
<1>1. ~ Reformat
  BY NeverReformats DEF MapFailuresInv, TidyInv, ReservedInv
<1>2. CASE GetFreeBlock
  BY <1>2 DEF GetFreeBlock, NoFreeBlock, Abort
<1>3. CASE \E u \in User : \/ ProgramUser(u) \/ ProgramUserFails(u)
                           \/ EraseUser(u) \/ EraseUserFails(u)
  BY <1>3
  DEF ProgramUser, ProgramUserFails, EraseUser, EraseUserFails, Replace, ram, call
<1>4. ~ (Step /\ ~ GetFreeBlock)
  BY DEF Step, FormatSecondBlock, EraseNew, CopyPages, Register, InstallOriginal, EraseMap,
         MarkMap, WriteAll, WriteOne, MarkDelayed, Done
<1> QED
  BY <1>1, <1>2, <1>3, <1>4 DEF Next, vars, ram, call

LEMMA PairKept ==
  ASSUME OneMapPage, MapFailuresInv, ~ adrift, [Next]_vars, ~ Boot, ~ PowerLoss, Up'
  PROVE  /\ MapBlock'[1] # MapBlock'[2]
         /\ Sound' \/ (pc' \in {"idle", "get_free"} /\ FreeBlockList' = {})
         /\ \A e \in Area : SwapTable[e] = BAD => SwapTable'[e] = BAD
         /\ \A e \in Area : SwapTable[e] \in {MAP, BAD} => SwapTable'[e] \in {MAP, BAD}
<1> USE DEF MapFailuresInv, TidyInv, ReservedInv
<1>0. Paired /\ TypeInv'
  BY TypeInvStep DEF Failing
<1>1. Up \/ UNCHANGED vars
  BY TableSteps
<1>2. CASE UNCHANGED vars
  BY <1>0, <1>2 DEF vars, ram, call, Up, Sound, Paired
<1>3. CASE Up /\ UNCHANGED <<SwapTable, MapBlock>>
  <2>1. CASE Sound
    BY <1>0, <1>3, <2>1 DEF Sound, Paired
  <2>2. CASE ~ Sound
    <3>1. pc \in {"idle", "get_free"} /\ FreeBlockList = {}
      BY <1>0, <1>3, <2>2 DEF Paired
    <3>2. pc' \in {"idle", "get_free", "dead"} /\ FreeBlockList' = {}
      BY <3>1, StuckStays
    <3> QED
      BY <1>0, <1>3, <3>2 DEF Paired, Up
  <2> QED
    BY <2>1, <2>2
<1>4. CASE Up /\ (Rejects \/ Enters \/ Moves) /\ UNCHANGED MapBlock
  <2>1. Sound /\ \A e \in Area : SwapTable[e] \in {MAP, BAD} => SwapTable'[e] = SwapTable[e]
    BY <1>4, NewBlockKeepsSound
  <2>2. \A i \in 1 .. 2 : MapBlock[i] \in Area
    BY DEF TypeInv, TypeOK, RamTypes
  <2> QED
    BY <1>0, <1>4, <2>1, <2>2 DEF Sound, Paired
<1>5. ASSUME Up, MarkMap \/ WriteOne, NEW sav, TakesSpare(sav) \/ GivesUp
      PROVE  /\ MapBlock'[1] # MapBlock'[2]
             /\ Sound' \/ (pc' \in {"idle", "get_free"} /\ FreeBlockList' = {})
             /\ \A e \in Area : SwapTable[e] = BAD => SwapTable'[e] = BAD
             /\ \A e \in Area : SwapTable[e] \in {MAP, BAD} => SwapTable'[e] \in {MAP, BAD}
  <2>1. Sound /\ MapBlock[1] # MapBlock[2] /\ UNCHANGED CurMapBlockIdx
    BY <1>0, <1>5 DEF Paired, MarkMap, WriteOne
  <2>2. CASE TakesSpare(sav)
    BY <1>0, <1>5, <2>1, <2>2, SpareKeepsSound
  <2>3. CASE GivesUp
    BY <2>1, <2>3, MapTargetType DEF GivesUp, Up, TypeInv, TypeOK, RamTypes
  <2> QED
    BY <1>5, <2>2, <2>3
<1> QED
  BY <1>1, <1>2, <1>3, <1>4, <1>5, TableSteps

\* The tables on the chip have two entries for the map.
LEMMA PairedTables ==
  ASSUME OneMapPage, MapFailuresInv, ~ adrift, [Next]_vars, NEW b \in Area, Whole(pages'[b])
  PROVE  \E x, y \in Area : x # y /\ TableIn(pages'[b])[x] = MAP /\ TableIn(pages'[b])[y] = MAP
<1> USE DEF MapFailuresInv, TidyInv
<1>1. CASE Whole(pages[b]) /\ TableIn(pages'[b]) = TableIn(pages[b])
  BY <1>1 DEF Failing, Paired
<1>2. CASE pc \in {"write_all", "write_one"} /\ TableIn(pages'[b]) = SwapTable
  <2>1. Sound /\ MapBlock[1] # MapBlock[2]
    BY <1>2 DEF Failing, Paired, Up
  <2>2. MapBlock[1] \in Area /\ MapBlock[2] \in Area
    BY DEF ReservedInv, TypeInv, TypeOK, RamTypes
  <2> QED
    BY <1>2, <2>1, <2>2 DEF Sound
<1> QED
  BY <1>1, <1>2, NextTables

\* The call, while the power is on.
LEMMA PairedCall ==
  ASSUME OneMapPage, MapFailuresInv, ~ adrift, [Next]_vars, ~ Boot, ~ PowerLoss
  PROVE  /\ Up' /\ Saving' /\ save'.delayed # NoBlock =>
              \/ Saving /\ save'.delayed = save.delayed
              \/ WriteOne /\ save'.delayed = MapTarget /\ SwapTable'[MapTarget] = BAD
         /\ Phase' # "install"
         /\ Phase' = "format" => Phase = "format" /\ UNCHANGED CurMapBlockIdx
         /\ op'.cmd = "format" => op.cmd = "format" /\ UNCHANGED answered /\ pc' # "off"
<1> USE DEF MapFailuresInv, TidyInv, ReservedInv, TypeInv, TypeOK
<1>0. Paired /\ ~ Reformat /\ (Up \/ UNCHANGED vars)
  BY NeverReformats, TableSteps DEF Failing
<1>1. CASE UNCHANGED vars
  BY <1>0, <1>1 DEF vars, call, ram, hist, Phase, Saving, Paired, Up, CallShape
<1>2. CASE EraseMap \/ WriteAll \/ MarkDelayed
  <2>1. /\ save'.next = save.next /\ save'.delayed = save.delayed /\ Saving
        /\ UNCHANGED <<op, answered, CurMapBlockIdx>>
        /\ pc' \in {"write_all", "mark_map", "mark_delayed", save.next}
    BY <1>2 DEF EraseMap, WriteAll, MarkDelayed, SaveEnds, Saving, CallTypes, hist, ram
  <2>2. Phase' = Phase /\ pc' # "off"
    BY <2>1 DEF Phase, Saving, CallTypes
  <2> QED
    BY <1>0, <2>1, <2>2 DEF Paired, Up, Saving
<1>3. ASSUME MarkMap \/ WriteOne, NEW sav, sav.next = save.next, TakesSpare(sav) \/ GivesUp,
             \/ sav = save
             \/ WriteOne /\ sav = [save EXCEPT !.delayed = MapTarget]
      PROVE  /\ Up' /\ Saving' /\ save'.delayed # NoBlock =>
                  \/ Saving /\ save'.delayed = save.delayed
                  \/ WriteOne /\ save'.delayed = MapTarget /\ SwapTable'[MapTarget] = BAD
             /\ Phase' # "install"
             /\ Phase' = "format" => Phase = "format" /\ UNCHANGED CurMapBlockIdx
             /\ op'.cmd = "format" => op.cmd = "format" /\ UNCHANGED answered /\ pc' # "off"
  <2>1. Saving /\ Up /\ UNCHANGED CurMapBlockIdx
    BY <1>3 DEF MarkMap, WriteOne, Saving, Up
  <2>2. CASE GivesUp
    BY <2>2 DEF GivesUp, Phase, Saving, NoOp, hist
  <2>3. CASE TakesSpare(sav)
    <3>1. /\ pc' = "erase_map" /\ save' = sav /\ UNCHANGED <<op, answered>> /\ Phase' = Phase
      BY <1>3, <2>1, <2>3 DEF TakesSpare, hist, Phase, Saving
    <3>2. MarkMap \/ WriteOne => TypeInv'
      BY TypeInvStep
    <3>3. sav = [save EXCEPT !.delayed = MapTarget] => sav.delayed = MapTarget
      BY DEF CallTypes
    <3>4. PICK new \in Area : SwapTable[new] = FREE
            /\ SwapTable' = [SwapTable EXCEPT ![MapTarget] = BAD, ![new] = MAP]
      BY <2>3 DEF TakesSpare
    <3>5. Sound
      BY <1>0, <1>3, <2>1 DEF Paired, MarkMap, WriteOne
    <3>6. SwapTable'[MapTarget] = BAD
      BY <3>4, <3>5, MapTargetType, SpecialEntries DEF Sound, MapTarget, RamTypes
    <3> QED
      BY <1>0, <1>3, <2>1, <3>1, <3>3, <3>6 DEF Paired
  <2> QED
    BY <1>3, <2>2, <2>3
<1>4. CASE MarkMap \/ WriteOne
  <2>1. ASSUME WriteOne, SaveEnds, UNCHANGED <<save, op, hist>>
        PROVE  Phase' = Phase /\ Up /\ UNCHANGED CurMapBlockIdx /\ Saving /\ pc' # "off"
    BY <2>1 DEF WriteOne, SaveEnds, Phase, Saving, Up, CallTypes
  <2> QED
    BY <1>0, <1>3, <1>4, <2>1, Retirements DEF Paired, hist
<1>5. CASE \/ FormatSecondBlock \/ GetFreeBlock \/ Done
           \/ \E u \in User : \/ ProgramUser(u) \/ ProgramUserFails(u)
                              \/ EraseUser(u) \/ EraseUserFails(u)
  <2>1. CASE FormatSecondBlock
    BY <1>0, <2>1 DEF FormatSecondBlock, Phase, Saving, NoSave, hist
  <2>2. CASE GetFreeBlock
    BY <1>0, <2>2
    DEF GetFreeBlock, AfterGetFree, NoFreeBlock, Abort, NoOp, Phase, Saving, hist, CallTypes
  <2>3. CASE Done
    BY <2>3 DEF Done, Phase, Saving, NoOp
  <2>4. ASSUME NEW u \in User, ProgramUser(u) \/ EraseUser(u)
        PROVE  UNCHANGED <<call, answered>> /\ pc = "idle"
    BY <2>4 DEF ProgramUser, EraseUser, Idle
  <2>5. ASSUME NEW u \in User, ProgramUserFails(u) \/ EraseUserFails(u)
        PROVE  pc' = "get_free" /\ op'.cmd # "format"
    BY <2>5 DEF ProgramUserFails, EraseUserFails, Replace, NoOp
  <2>6. CASE UNCHANGED <<call, answered>> /\ pc = "idle"
    BY <2>6 DEF call, Phase, Saving
  <2>7. CASE pc' = "get_free" /\ op'.cmd # "format"
    BY <2>7 DEF Phase, Saving
  <2> QED
    BY <1>5, <2>1, <2>2, <2>3, <2>4, <2>5, <2>6, <2>7
<1>6. CASE EraseNew \/ CopyPages \/ Register
  <2>1. CASE UNCHANGED <<op, hist, save>> /\ pc' \in {"copy", "register"}
    BY <1>0, <2>1 DEF Phase, Saving, Paired, hist
  <2>2. CASE \E o, next : /\ next \in {"get_free", "done"} /\ StartSave(o, next)
                          /\ UNCHANGED <<op, answered>>
    BY <1>0, <2>2, StartSavePhase DEF StartSave, Paired
  <2>3. Register => Enters \/ Moves
    <3>1. Register => Phase = "register" /\ Phase \in {"erase_new", "copy", "register", "install"}
      BY DEF Register, Phase, Saving
    <3>2. Register /\ op.bad \in Area => MAP_OFFSET(op.bad) = MAP_OFFSET(op.new)
      BY <3>1, OnePage DEF CallShape
    <3> QED
      BY <3>2 DEF Register, Enters, Moves
  <2> QED
    BY <1>6, <2>1, <2>2, <2>3
    DEF EraseNew, CopyPages, RejectNewBlock, Enters, Moves, Install, hist
<1>7. ~ InstallOriginal
  BY <1>0 DEF InstallOriginal, Paired, Up, Phase, Saving
<1> QED
  BY <1>0, <1>1, <1>2, <1>4, <1>5, <1>6, <1>7 DEF Next, Step

----------------------------------------------------------------------------
(* What an opening makes of the map blocks.                                *)

LEMMA FoundWhole ==
  ASSUME OneMapPage, TypeInv
  PROVE  /\ Candidates = Found
         /\ \A b \in Found : b \in Area /\ IsMapBlock(b)
         /\ ~ Blind(Area) => Found # {}
<1>1. \A b \in Found : b \in Area /\ IsMapBlock(b)
  BY DEF Found
<1>2. \A b \in Area : Readable(b) = Legible(pages[b])
  BY DEF Readable, Legible
<1>3. \A b \in Area : IsMapBlock(b) => Complete(b)
  BY <1>2, MapBlockIs DEF Complete, Whole
<1>4. ASSUME ~ Blind(Area) PROVE Found # {}
  <2> DEFINE M == {b \in Area : IsMapBlock(b)}
  <2>1. M # {} /\ M \subseteq Nat
    BY <1>4, AreaNumbers DEF Blind
  <2>2. Lowest(M) \in M /\ \A y \in M : Lowest(M) <= y
    <3> HIDE DEF M
    <3> QED
      BY <2>1, LowestType
  <2>3. ~ \E c, d \in M : c < d /\ d < Lowest(M)
    <3> SUFFICES ASSUME NEW c \in M, NEW d \in M, c < d, d < Lowest(M) PROVE FALSE
      OBVIOUS
    <3>1. c \in Nat /\ d \in Nat /\ Lowest(M) \in Nat /\ Lowest(M) <= d
      BY <2>1, <2>2
    <3> QED
      BY <3>1
  <2> QED
    BY <2>2, <2>3 DEF Found
<1> QED
  BY <1>1, <1>3, <1>4 DEF Candidates

\* A chip that holds a map block is opened, never formatted.
LEMMA SightOpens ==
  ASSUME OneMapPage, MapFailuresInv, ~ adrift, ~ Blind(Area)
  PROVE  Openable
<1> USE DEF MapFailuresInv, TidyInv, ReservedInv, TypeInv, TypeOK
<1>1. Candidates # {} /\ Candidates = Found /\ Found \in SUBSET Area
  BY FoundWhole
<1>2. PICK x \in Area, y \in Area : x # y /\ x \in MapBlocks /\ y \in MapBlocks
  <2>1. CASE \E b, c \in Found : b # c
    BY <1>1, <2>1 DEF MapBlocks
  <2>2. CASE ~ \E b, c \in Found : b # c
    <3>1. MapBlocks = {e \in Area : OpenTable[e] = MAP}
      BY <2>2 DEF MapBlocks
    <3>2. Current \in Area /\ Whole(pages[Current]) /\ OpenTable = TableIn(pages[Current])
      BY <1>1, OpenReadsLog
    <3> QED
      BY <3>1, <3>2 DEF Failing, Paired
  <2> QED
    BY <2>1, <2>2
<1>3. MapBlocks \in SUBSET Area /\ IsFiniteSet(MapBlocks)
  BY <1>1, MapBlocksType, AreaNumbers, FS_Subset
<1>4. Cardinality(MapBlocks) >= 2
  <2>1. IsFiniteSet({x}) /\ Cardinality({x}) = 1 /\ y \notin {x}
    BY <1>2, FS_Singleton
  <2>2. Cardinality({x} \cup {y}) = Cardinality({x}) + 1
    BY <2>1, FS_AddElement
  <2>3. {x} \cup {y} \subseteq MapBlocks
    BY <1>2
  <2>4. Cardinality({x} \cup {y}) <= Cardinality(MapBlocks)
    BY <1>3, <2>3, FS_Subset
  <2>5. Cardinality(MapBlocks) \in Nat
    BY <1>3, FS_CardinalityType
  <2> QED
    BY <2>1, <2>2, <2>4, <2>5
<1> QED
  BY <1>1, <1>4 DEF Openable

\* Of the map blocks, all known to the table, the one that leads is read.
LEMMA LeadIsRead ==
  ASSUME OneMapPage, MapFailuresInv, ~ adrift, Openable, Consistent, NEW h, Leads(h, Area)
  PROVE  /\ Current = h /\ OpenTable = TableIn(pages[h])
         /\ OpenMapBlock[1] \in Area /\ OpenMapBlock[2] \in Area
         /\ OpenMapBlock[1] # OpenMapBlock[2]
         /\ OpenTable[OpenMapBlock[1]] = MAP /\ OpenTable[OpenMapBlock[2]] = MAP
         /\ h \in {OpenMapBlock[1], OpenMapBlock[2]}
<1> USE DEF MapFailuresInv, TidyInv, ReservedInv, TypeInv, TypeOK
<1>1. Candidates # {} /\ Candidates = Found /\ h \in Area /\ IsMapBlock(h)
  BY FoundWhole DEF Openable, Leads
<1>2. Current \in Area /\ Whole(pages[Current]) /\ OpenTable = TableIn(pages[Current])
  BY <1>1, OpenReadsLog
<1>3. TwoMaps(OpenTable)
  BY <1>2 DEF MapsAreTwo
<1>4. \A b \in Area : IsMapBlock(b) => OpenTable[b] = MAP
  BY <1>1 DEF Consistent
<1>5. \A b \in Area : IsMapBlock(b) => b \in Found
  <2> SUFFICES ASSUME NEW b \in Area, IsMapBlock(b),
                      NEW c \in Area, IsMapBlock(c), NEW d \in Area, IsMapBlock(d), c < d, d < b
               PROVE  FALSE
    BY DEF Found
  <2>1. b \in Nat /\ c \in Nat /\ d \in Nat
    BY AreaNumbers
  <2>2. b # c /\ c # d /\ b # d
    BY <2>1
  <2> QED
    BY <1>3, <1>4, <2>2 DEF TwoMaps
<1>6. ASSUME NEW c \in Candidates, c # h
      PROVE  ~ (pages[h][1].seq <= pages[c][1].seq)
  <2>1. c \in Area /\ IsMapBlock(c)
    BY <1>1, FoundWhole
  <2>2. pages[c] \in PageLog /\ pages[h] \in PageLog
    BY <1>1, <2>1, AreaLogs
  <2>3. 1 \in Legible(pages[c]) /\ 1 \in Legible(pages[h])
    BY <1>1, <2>1, MapBlockIs
  <2>4. pages[c][1].seq < pages[h][1].seq
    BY <1>6, <2>1, <2>3 DEF Leads, Precedes
  <2> QED
    BY <2>2, <2>3, <2>4, LegibleType
<1>7. Current = h
  <2> DEFINE D == {b \in Candidates :
                     \A c \in Candidates : pages[c][1].seq <= pages[b][1].seq}
  <2>1. D # {} /\ D \subseteq Nat
    <3>1. h \in Candidates
      BY <1>1, <1>5
    <3>2. ASSUME NEW c \in Candidates PROVE pages[c][1].seq <= pages[h][1].seq
      <4>1. c \in Area /\ IsMapBlock(c)
        BY <1>1, FoundWhole
      <4>2. pages[c] \in PageLog /\ pages[h] \in PageLog
        BY <1>1, <4>1, AreaLogs
      <4>3. 1 \in Legible(pages[c]) /\ 1 \in Legible(pages[h])
        BY <1>1, <4>1, MapBlockIs
      <4>4. pages[c][1].seq \in Nat /\ pages[h][1].seq \in Nat
        BY <4>2, <4>3, LegibleType
      <4> QED
        BY <1>6, <4>4
    <3>3. Candidates \subseteq Nat
      BY <1>1, FoundWhole, AreaNumbers
    <3> QED
      BY <3>1, <3>2, <3>3
  <2>2. Current \in D
    <3>1. Current = Lowest(D)
      BY DEF Current
    <3> HIDE DEF D
    <3> QED
      BY <2>1, <3>1, LowestType
  <2> QED
    BY <1>1, <1>5, <1>6, <2>2
<1>8. MapBlocks \in SUBSET Area /\ Cardinality(MapBlocks) >= 2
  BY <1>1, MapBlocksType DEF Openable
<1>9. OpenMapBlock[1] \in MapBlocks /\ OpenMapBlock[2] \in MapBlocks
      /\ OpenMapBlock[1] # OpenMapBlock[2]
  BY <1>8, LowestTwoDiffer DEF OpenMapBlock
<1>10. \A b \in MapBlocks : OpenTable[b] = MAP
  BY <1>4, FoundWhole DEF MapBlocks
<1>11. h \in {OpenMapBlock[1], OpenMapBlock[2]}
  BY <1>1, <1>3, <1>4, OpenMaps
<1> QED
  BY <1>2, <1>7, <1>8, <1>9, <1>10, <1>11

\* Opening, the manager counts on from the last page of the block it reads.
LEMMA CountsOn ==
  ASSUME FlashTypes, Candidates # {}
  PROVE  Below(pages[Current], OpenSequence)
<1> DEFINE s == pages[Current]
           S == {s[k].seq : k \in Legible(s)}
           f == [k \in Legible(s) |-> s[k].seq]
<1>1. s \in PageLog /\ Whole(s)
  BY OpenReadsLog
<1>2. /\ IsFiniteSet(Legible(s)) /\ Readable(Current) = Legible(s) /\ 1 \in Legible(s)
      /\ \A k \in Legible(s) : s[k].seq \in Nat
  BY <1>1, LegibleType, WholeBegins DEF Readable, Legible
<1>3. OpenSequence = Highest(S)
  BY <1>2 DEF OpenSequence
<1>4. \E k \in Legible(s) : \A m \in Legible(s) : f[m] <= f[k]
  <2>1. f \in [Legible(s) -> Int] /\ Legible(s) # {}
    BY <1>2
  <2> HIDE DEF f, s
  <2> QED
    BY <1>2, <2>1, MaximalExists
<1>5. \A y \in S : y <= Highest(S)
  <2>1. \E x \in S : \A y \in S : y <= x
    BY <1>4
  <2> HIDE DEF S
  <2> QED
    BY <2>1 DEF Highest
<1> QED
  BY <1>3, <1>5 DEF Below

LEMMA SameChip ==
  ASSUME UNCHANGED <<pages, marked>>
  PROVE  /\ \A b \in Area : IsMapBlock(b)' <=> IsMapBlock(b)
         /\ Blind(Area)' <=> Blind(Area)
         /\ \A h \in Area : Leads(h, Area)' <=> Leads(h, Area)
         /\ \A b \in Area : TableIn(pages'[b]) = TableIn(pages[b])
BY DEF IsMapBlock, Blind, Leads, Precedes

\* A format comes upon a chip without map blocks, and finds two for the map.
LEMMA FormatFailing ==
  ASSUME OneMapPage, MapFailuresInv, ~ adrift, pc = "off", ~ Openable, BM_Format
  PROVE  Failing'
<1> USE DEF MapFailuresInv, TidyInv, ReservedInv, TypeInv, TypeOK
<1>1. /\ Blind(Area)' /\ Blind(Area) /\ ~ Formatted' /\ op.cmd # "format"
      /\ UNCHANGED <<pages, marked>>
  BY SightOpens, SameChip DEF Failing, Headed, Paired, BM_Format, flash, Formatted
<1>2. Headed'
  BY <1>1 DEF Headed
<1>3. Known'
  BY <1>1 DEF Known, Blind
<1>4. \A b \in Area : Whole(pages'[b]) =>
        \E x, y \in Area : x # y /\ TableIn(pages'[b])[x] = MAP /\ TableIn(pages'[b])[y] = MAP
  BY <1>1 DEF Failing, Paired
<1>5. CASE ~ Formattable
  <2>1. pc' = "dead" /\ UNCHANGED op
    BY <1>5 DEF BM_Format
  <2> QED
    BY <1>1, <1>2, <1>3, <1>4, <2>1
    DEF Failing, Backed, Continued, Replied, Paired, Up
<1>6. CASE Formattable
  <2>1. /\ pc' = "erase_map" /\ op'.cmd = "format" /\ CurMapBlockIdx' = 2
        /\ save'.next = "format" /\ save'.delayed = NoBlock
        /\ MapBlock' = NewMapBlocks /\ SwapTable' = FormatTable
        /\ pending' = Mapping(FormatTable)
    BY <1>6 DEF BM_Format, NoOp, NoSave
  <2>2. Phase' = "format" /\ ~ Replacing'
    BY <2>1 DEF Phase, Saving, Replacing
  <2>3. NewMapBlocks[1] # NewMapBlocks[2] /\ \A i \in 1 .. 2 : NewMapBlocks[i] \in Area \ marked
    <3>1. Area \ marked \in SUBSET Area /\ Cardinality(Area \ marked) >= 2
      BY <1>6 DEF Formattable
    <3> QED
      BY <3>1, LowestTwoDiffer DEF NewMapBlocks
  <2>4. \A i \in 1 .. 2 : FormatTable[NewMapBlocks[i]] = MAP
    <3> SUFFICES ASSUME NEW i \in 1 .. 2 PROVE FormatTable[NewMapBlocks[i]] = MAP
      OBVIOUS
    <3>1. NewMapBlocks[i] \in {NewMapBlocks[1], NewMapBlocks[2]}
      OBVIOUS
    <3> QED
      BY <2>3, <3>1 DEF FormatTable
  <2>5. Backed'
    BY <1>1, <2>1 DEF Backed, Blind, Leads
  <2>6. Continued' /\ Replied'
    BY <2>1, <2>2 DEF Continued, Replied
  <2>7. Paired'
    BY <1>1, <1>4, <2>1, <2>2, <2>3, <2>4 DEF Paired, Sound
  <2> QED
    BY <1>2, <1>3, <2>5, <2>6, <2>7 DEF Failing
<1> QED
  BY <1>5, <1>6

\* An opening takes the map block that leads, and continues there.
LEMMA OpenFailing ==
  ASSUME OneMapPage, MapFailuresInv, ~ adrift, pc = "off", Openable, Consistent, BM_Open
  PROVE  Failing'
<1> USE DEF MapFailuresInv, TidyInv, ReservedInv, TypeInv, TypeOK
<1>1. /\ ~ Blind(Area) /\ op.cmd # "format" /\ UNCHANGED <<pages, marked>>
      /\ Candidates # {}
  BY FoundWhole DEF Failing, Paired, BM_Open, flash, Openable, Blind
<1>2. PICK h \in Area : Leads(h, Area)
  BY <1>1 DEF Failing, Headed, Led
<1>3. /\ Current = h /\ OpenTable = TableIn(pages[h])
      /\ OpenMapBlock[1] # OpenMapBlock[2]
      /\ OpenTable[OpenMapBlock[1]] = MAP /\ OpenTable[OpenMapBlock[2]] = MAP
      /\ h \in {OpenMapBlock[1], OpenMapBlock[2]}
  BY <1>2, LeadIsRead
<1>4. /\ SwapTable' = TableIn(pages[h]) /\ MapTarget' = h /\ MapBlock' = OpenMapBlock
      /\ Sequence' = OpenSequence /\ pc' = "idle" /\ UNCHANGED op
      /\ answered' = Mapping(SwapTable') /\ pending' = answered'
  BY <1>3 DEF BM_Open, MapTarget
<1>5. Leads(h, Area)' /\ TableIn(pages'[h]) = SwapTable' /\ ~ Blind(Area)'
  BY <1>1, <1>2, <1>4, SameChip
<1>6. Phase' = "idle" /\ ~ Saving'
  BY <1>4 DEF Phase, Saving
<1>7. Headed'
  BY <1>4, <1>5 DEF Headed, Led, Owed
<1>8. Backed' /\ Continued' /\ Replied'
  BY <1>4, <1>5, <1>6 DEF Backed, Continued, Replied
<1>9. Paired'
  <2>1. Sound' /\ MapBlock'[1] # MapBlock'[2]
    BY <1>3, <1>4 DEF Sound
  <2>2. \A b \in Area : Whole(pages'[b]) =>
          \E x, y \in Area : x # y /\ TableIn(pages'[b])[x] = MAP /\ TableIn(pages'[b])[y] = MAP
    BY <1>1 DEF Failing, Paired
  <2> QED
    BY <1>1, <1>4, <1>6, <2>1, <2>2 DEF Paired
<1>10. Known'
  <2> SUFFICES ASSUME NEW b \in Area, IsMapBlock(b)
               PROVE  SwapTable'[b] = MAP /\ Below(pages[b], OpenSequence)
    BY <1>1, <1>4, SameChip DEF Known
  <2>1. OpenTable[b] = MAP
    BY <1>1 DEF Consistent
  <2>2. Below(pages[h], OpenSequence)
    BY <1>1, <1>3, CountsOn
  <2>3. CASE b # h
    <3>1. /\ pages[h] \in PageLog /\ pages[b] \in PageLog /\ 1 \in Legible(pages[h])
          /\ OpenSequence \in Nat
      BY <1>1, <1>2, AreaLogs, MapBlockIs, OpenSequenceType DEF Leads
    <3>2. pages[h][1].seq <= OpenSequence /\ pages[h][1].seq \in Nat
      BY <2>2, <3>1, LegibleType DEF Below
    <3>3. \A k \in Legible(pages[b]) : pages[b][k].seq < pages[h][1].seq
      BY <1>2, <2>3 DEF Leads, Precedes
    <3>4. \A k \in Legible(pages[b]) : pages[b][k].seq \in Nat
      BY <3>1, LegibleType
    <3>5. \A k \in Legible(pages[b]) : pages[b][k].seq <= OpenSequence
      BY <3>1, <3>2, <3>3, <3>4
    <3> QED
      BY <1>3, <1>4, <2>1, <3>5 DEF Below
  <2> QED
    BY <1>3, <1>4, <2>1, <2>2, <2>3
<1> QED
  BY <1>7, <1>8, <1>9, <1>10 DEF Failing

LEMMA BootFailing ==
  ASSUME OneMapPage, MapFailuresInv, ~ adrift', Boot
  PROVE  Failing'
<1>1. pc = "off" /\ adrift \in BOOLEAN
  BY DEF Boot, MapFailuresInv, TidyInv, ReservedInv, TypeInv, TypeOK, HistoryTypes
<1>2. CASE Openable /\ BM_Open
  <2>1. ~ adrift /\ Consistent
    BY <1>1, <1>2 DEF BM_Open
  <2> QED
    BY <1>1, <1>2, <2>1, OpenFailing
<1>3. CASE ~ Openable /\ BM_Format
  <2>1. ~ adrift
    BY <1>1, <1>3 DEF BM_Format
  <2> QED
    BY <1>1, <1>3, <2>1, FormatFailing
<1> QED
  BY <1>2, <1>3 DEF Boot

----------------------------------------------------------------------------
(* The map block that leads.                                               *)

\* A new answer is promised when a block enters the table, or moves in it,
\* and given when the call is done.
LEMMA AnswerSteps ==
  ASSUME OneMapPage, MapFailuresInv, ~ adrift, [Next]_vars, ~ Boot
  PROVE  \/ UNCHANGED <<answered, pending>>
         \/ (Enters \/ Moves) /\ UNCHANGED <<pages, marked, answered>>
         \/ /\ pc = "done" /\ UNCHANGED <<pages, marked>>
            /\ answered' = Mapping(SwapTable) /\ pending' = answered'
<1> USE DEF MapFailuresInv, TidyInv, ReservedInv
<1>1. ~ Reformat
  BY NeverReformats
<1>2. CASE Register \/ InstallOriginal
  <2>1. Enters \/ Moves
    <3>1. Register => Phase = "register" /\ Phase \in {"erase_new", "copy", "register", "install"}
      BY DEF Register, Phase, Saving
    <3>2. Register /\ op.bad \in Area => MAP_OFFSET(op.bad) = MAP_OFFSET(op.new)
      BY <3>1, OnePage DEF CallShape, TypeInv
    <3>3. ~ InstallOriginal
      BY DEF InstallOriginal, Failing, Paired, Up, Phase, Saving
    <3> QED
      BY <1>2, <3>2, <3>3 DEF Register, Enters, Moves
  <2> QED
    BY <2>1 DEF Enters, Moves, Install, flash
<1>3. CASE Done
  BY <1>3 DEF Done, flash
<1>4. CASE MarkMap \/ WriteOne
  BY <1>4, Retirements DEF TakesSpare, GivesUp, hist
<1>5. CASE \/ FormatSecondBlock \/ GetFreeBlock \/ EraseNew \/ CopyPages
           \/ EraseMap \/ WriteAll \/ MarkDelayed \/ PowerLoss \/ UNCHANGED vars
  BY <1>5
  DEF FormatSecondBlock, GetFreeBlock, NoFreeBlock, Abort, EraseNew, CopyPages,
      RejectNewBlock, EraseMap, WriteAll, MarkDelayed, PowerLoss, vars, hist
<1>6. CASE \E u \in User : \/ ProgramUser(u) \/ ProgramUserFails(u)
                           \/ EraseUser(u) \/ EraseUserFails(u)
  BY <1>6 DEF ProgramUser, ProgramUserFails, EraseUser, EraseUserFails, hist
<1> QED
  BY <1>1, <1>2, <1>3, <1>4, <1>5, <1>6 DEF Next, Step

\* The table that is being saved answers what a reboot may find.
LEMMA SavedIsOwed ==
  ASSUME Failing, Up, Sound, Saving, CallTypes
  PROVE  Owed(SwapTable)
<1>1. Phase \in {"get_free", "done", "format"}
  BY DEF Phase, CallTypes, Failing, Paired
<1> QED
  BY <1>1 DEF Failing, Replied, Replacing, Owed

\* What a rewritten map block begins with is later than all that can be read.
LEMMA NewLead ==
  ASSUME OneMapPage, MapFailuresInv, ~ adrift, [Next]_vars, NEW h \in Area,
         pc = "write_all", h = MapTarget, IsMapBlock(h)'
  PROVE  /\ Leads(h, Area)' /\ TableIn(pages'[h]) = SwapTable
         /\ pages'[h] = <<MapPageOf(save.page)>>
<1> USE DEF MapFailuresInv, TidyInv
<1>1. h = MapTarget
  OBVIOUS
<1>2. pages[h] = << >> /\ ~ IsMapBlock(h) /\ IsMapBlock(h)'
  BY <1>1 DEF Failing, Backed, IsMapBlock
<1>3. pages'[h] = Append(pages[h], MapPageOf(save.page))
  BY <1>1, <1>2, MapBlocksStep DEF Failing
<1>4. pages'[h] = <<MapPageOf(save.page)>> /\ pages'[h][1].seq = Sequence + 1
  BY <1>2, <1>3 DEF MapPageOf
<1>5. ASSUME NEW b \in Area \ {h}, IsMapBlock(b)' PROVE Precedes(b, h)'
  <2>1. IsMapBlock(b) /\ LogKept(b)
    BY <1>1, <1>5, MapBlocksStep DEF Failing
  <2>2. Below(pages[b], Sequence)
    BY <2>1 DEF Failing, Known, Up
  <2>3. pages[b] \in PageLog /\ Sequence \in Nat
    BY AreaLogs DEF ReservedInv, TypeInv, TypeOK, RamTypes
  <2>4. \A k \in Legible(pages[b]) : pages[b][k].seq \in Nat
    BY <2>3, LegibleType
  <2>5. \A k \in Legible(pages[b]) : pages[b][k].seq < Sequence + 1
    BY <2>2, <2>3, <2>4 DEF Below
  <2> QED
    BY <1>4, <2>1, <2>5 DEF Precedes, LogKept
<1>6. Leads(h, Area)'
  BY <1>2, <1>5 DEF Leads
<1>7. TableIn(pages'[h]) = SwapTable
  <2>1. ~ Whole(pages[h]) /\ Whole(pages'[h])
    BY <1>2, MapBlockIsNext, EmptyLog
  <2> QED
    BY <2>1, NextTables
<1> QED
  BY <1>1, <1>4, <1>6, <1>7

\* The next page of the map block that leads.
LEMMA LeadGrows ==
  ASSUME OneMapPage, MapFailuresInv, ~ adrift, [Next]_vars, NEW h \in Area,
         pc = "write_one", h = MapTarget
  PROVE  /\ Leads(h, Area) /\ Leads(h, Area)'
         /\ TableIn(pages'[h]) \in {TableIn(pages[h]), SwapTable}
<1> USE DEF MapFailuresInv, TidyInv
<1>1. Leads(h, Area)
  BY DEF Failing, Paired, Continued, Up
<1>2. /\ IsMapBlock(h) /\ 1 \in Legible(pages[h]) /\ Whole(pages[h]) /\ h \notin marked
      /\ pages[h] \in PageLog
  BY <1>1, MapBlockIs, AreaLogs DEF Leads, ReservedInv
<1>3. IsMapBlock(h)'
  BY <1>2, MapBlocksStep DEF Failing, Sound, Paired, Up
<1>4. pages'[h][1] = pages[h][1]
  <2>1. CASE LogKept(h)
    BY <1>2, <2>1 DEF LogKept
  <2>2. CASE pages'[h] = Append(pages[h], MapPageOf(save.off))
    <3>1. MapPageOf(save.off) \in MapPage
      BY MapPageOfType DEF ReservedInv, TypeInv, TypeOK, CallTypes
    <3>2. 1 \in 1 .. Len(pages[h])
      BY <1>2, LegibleType
    <3> QED
      BY <1>2, <2>2, <3>1, <3>2, AppendLegible
  <2> QED
    BY <1>2, <1>3, <2>1, <2>2, MapBlocksStep DEF Failing
<1>5. ASSUME NEW b \in Area \ {h}, IsMapBlock(b)' PROVE Precedes(b, h)'
  <2>1. IsMapBlock(b) /\ LogKept(b)
    BY <1>5, MapBlocksStep DEF Failing
  <2> QED
    BY <1>1, <1>4, <2>1 DEF Leads, Precedes, LogKept
<1>6. Leads(h, Area)'
  BY <1>3, <1>5 DEF Leads
<1>7. TableIn(pages'[h]) \in {TableIn(pages[h]), SwapTable}
  <2>1. Whole(pages'[h])
    BY <1>3, MapBlockIsNext
  <2> QED
    BY <2>1, NextTables
<1> QED
  BY <1>1, <1>6, <1>7

\* Where no map block begins, the lead is kept, or passes to the next one.
LEMMA LeadPasses ==
  ASSUME OneMapPage, MapFailuresInv, ~ adrift, [Next]_vars, pc # "write_one",
         \A b \in Area : IsMapBlock(b)' => IsMapBlock(b)
  PROVE  \/ Blind(Area)' /\ (Blind(Area) \/ ~ Formatted)
         \/ \E g \in Area :
              /\ Leads(g, Area)' /\ TableIn(pages'[g]) = TableIn(pages[g])
              /\ Owed(TableIn(pages[g]))
              /\ Leads(g, Area) \/ (pc = "mark_map" /\ Leads(MapTarget, Area) /\ Leads(g, Rest))
<1> USE DEF MapFailuresInv, TidyInv
<1>1. CASE Blind(Area)
  BY <1>1 DEF Blind
<1>2. CASE ~ Blind(Area)
  <2>1. PICK h \in Area : Leads(h, Area) /\ Owed(TableIn(pages[h]))
    BY <1>2 DEF Failing, Headed, Led
  <2>2. \A b \in Area : IsMapBlock(b)' => IsMapBlock(b) /\ LogKept(b)
    BY MapBlocksStep DEF Failing
  <2>3. CASE IsMapBlock(h)'
    BY <2>1, <2>2, <2>3, LeadStays
  <2>4. CASE ~ IsMapBlock(h)'
    <3>1. pc # "erase_map" \/ h # MapTarget
      BY <2>1 DEF Failing, Backed
    <3>2. ~ (pc = "mark_delayed" /\ h = save.delayed)
      <4> SUFFICES ASSUME pc = "mark_delayed", h = save.delayed PROVE FALSE
        OBVIOUS
      <4>1. SwapTable[h] = BAD /\ Sound /\ Leads(MapTarget, Area)
        BY AreaNumbers DEF Failing, Paired, Continued, Up, Saving, NoBlock
      <4>2. h = MapTarget
        BY <2>1, <4>1, OneLeads
      <4>3. SwapTable[h] = MAP
        BY <4>1, <4>2 DEF Sound, MapTarget, ReservedInv, TypeInv, TypeOK, RamTypes
      <4> QED
        BY <4>1, <4>3, SpecialEntries
    <3>3. pc = "mark_map" /\ h = MapTarget
      BY <2>1, <2>4, <3>1, <3>2, MapBlocksStep DEF Failing, Leads
    <3>4. PICK S : S = Rest
      OBVIOUS
    <3>5. S = Area \ {h} /\ S \in SUBSET Area
      BY <3>3, <3>4 DEF Rest
    <3>6. CASE Led(S)
      <4>1. PICK g \in S : Leads(g, S) /\ Owed(TableIn(pages[g]))
        BY <3>6 DEF Led
      <4>2. IsMapBlock(g)'
        BY <3>3, <3>5, <4>1, MapBlocksStep DEF Failing, Leads
      <4>3. Leads(g, S)' /\ TableIn(pages'[g]) = TableIn(pages[g])
        BY <2>2, <3>5, <4>1, <4>2, LeadStays
      <4>4. Leads(g, Area)'
        BY <2>4, <3>5, <4>3 DEF Leads
      <4> QED
        BY <2>1, <3>3, <3>4, <3>5, <4>1, <4>3, <4>4
    <3>7. CASE ~ Formatted /\ Blind(S)
      BY <2>2, <2>4, <3>5, <3>7 DEF Blind
    <3> QED
      BY <2>1, <3>3, <3>4, <3>6, <3>7 DEF Failing, Backed
  <2> QED
    BY <2>3, <2>4
<1> QED
  BY <1>1, <1>2

LEMMA HeadedStep ==
  ASSUME OneMapPage, MapFailuresInv, ~ adrift, [Next]_vars, ~ Boot PROVE Headed'
<1> USE DEF MapFailuresInv, TidyInv
<1>1. PICK m \in Area : m = MapTarget
  BY MapTargetType DEF ReservedInv, TypeInv, TypeOK
<1>2. CASE UNCHANGED <<answered, pending>>
  <2>1. \A T : Owed(T) => Mapping(T) \in {answered', pending'}
    BY <1>2 DEF Owed
  <2>2. Formatted' <=> Formatted
    BY <1>2 DEF Formatted
  <2>3. CASE pc = "write_all" /\ IsMapBlock(m)'
    <3>1. Leads(m, Area)' /\ TableIn(pages'[m]) = SwapTable
      BY <1>1, <2>3, NewLead
    <3>2. Owed(SwapTable)
      BY <2>3, SavedIsOwed DEF Failing, Paired, Up, Saving, ReservedInv, TypeInv, TypeOK
    <3> QED
      BY <2>1, <3>1, <3>2 DEF Headed, Led, Blind, Owed, Leads
  <2>4. CASE pc = "write_one"
    <3>1. Leads(m, Area) /\ Leads(m, Area)' /\ TableIn(pages'[m]) \in {TableIn(pages[m]), SwapTable}
      BY <1>1, <2>4, LeadGrows
    <3>2. Owed(SwapTable)
      BY <2>4, SavedIsOwed DEF Failing, Paired, Up, Saving, ReservedInv, TypeInv, TypeOK
    <3>3. Owed(TableIn(pages[m]))
      <4>1. PICK h \in Area : Leads(h, Area) /\ Owed(TableIn(pages[h]))
        BY <3>1 DEF Failing, Headed, Led, Blind, Leads
      <4> QED
        BY <3>1, <4>1, OneLeads
    <3> QED
      BY <2>1, <3>1, <3>2, <3>3 DEF Headed, Led, Blind, Owed, Leads
  <2>5. CASE pc # "write_one" /\ ~ (pc = "write_all" /\ IsMapBlock(m)')
    <3>1. \A b \in Area : IsMapBlock(b)' => IsMapBlock(b)
      BY <1>1, <2>5, MapBlocksStep DEF Failing
    <3>2. CASE Blind(Area)' /\ (Blind(Area) \/ ~ Formatted)
      BY <2>2, <3>2 DEF Failing, Headed
    <3>3. CASE \E g \in Area : Leads(g, Area)' /\ TableIn(pages'[g]) = TableIn(pages[g])
                               /\ Owed(TableIn(pages[g]))
      BY <2>1, <3>3 DEF Headed, Led, Blind, Owed, Leads
    <3> QED
      BY <2>5, <3>1, <3>2, <3>3, LeadPasses
  <2> QED
    BY <2>3, <2>4, <2>5
<1>3. ASSUME UNCHANGED <<pages, marked>>, Leads(m, Area),
             Mapping(TableIn(pages[m])) \in {answered', pending'}
      PROVE  Headed'
  BY <1>3, SameChip DEF Headed, Led, Blind, Owed, Leads
<1>4. CASE (Enters \/ Moves) /\ UNCHANGED <<pages, marked, answered>>
  <2>1. Up /\ Sound /\ Replacing /\ pc = "register"
    BY <1>4, NewBlockKeepsSound DEF Enters, Moves
  <2> QED
    BY <1>1, <1>3, <1>4, <2>1 DEF Failing, Continued, Replied
<1>5. CASE pc = "done" /\ UNCHANGED <<pages, marked>> /\ answered' = Mapping(SwapTable)
  <2>1. Up /\ Sound
    BY <1>5 DEF Up, Failing, Paired
  <2> QED
    BY <1>1, <1>3, <1>5, <2>1 DEF Failing, Continued
<1> QED
  BY <1>2, <1>4, <1>5, AnswerSteps

----------------------------------------------------------------------------
(* The sequence number, and what the table knows.                          *)

LEMMA SequenceSteps ==
  ASSUME MapFailuresInv, [Next]_vars, ~ Boot, ~ PowerLoss
  PROVE  /\ Sequence \in Nat /\ Sequence' \in {Sequence, Sequence + 1}
         /\ pages'[MapTarget] # pages[MapTarget] /\ pc \in {"write_all", "write_one"} =>
              Sequence' = Sequence + 1
<1> USE DEF MapFailuresInv, TidyInv, ReservedInv, TypeInv, TypeOK
<1>0. ~ Reformat /\ Sequence \in Nat
  BY NeverReformats DEF RamTypes
<1>1. CASE WriteAll \/ WriteOne
  BY <1>0, <1>1 DEF WriteAll, WriteOne, WriteMapPage, WriteMapPageFails, flash
<1>2. CASE EraseMap \/ MarkMap \/ MarkDelayed
  BY <1>0, <1>2 DEF EraseMap, MarkMap, MarkDelayed, ram
<1>3. CASE \/ FormatSecondBlock \/ GetFreeBlock \/ EraseNew \/ CopyPages
           \/ Register \/ InstallOriginal \/ Done
  BY <1>0, <1>3
  DEF FormatSecondBlock, GetFreeBlock, EraseNew, CopyPages, Register, InstallOriginal, Done,
      RejectNewBlock, Install, StartSave, ram
<1>4. CASE \E u \in User : \/ ProgramUser(u) \/ ProgramUserFails(u)
                           \/ EraseUser(u) \/ EraseUserFails(u)
  BY <1>0, <1>4 DEF ProgramUser, ProgramUserFails, EraseUser, EraseUserFails, ram, Idle
<1>5. CASE UNCHANGED vars
  BY <1>0, <1>5 DEF vars, ram, flash
<1> QED
  BY <1>0, <1>1, <1>2, <1>3, <1>4, <1>5 DEF Next, Step

LEMMA AppendBelow ==
  ASSUME NEW s \in PageLog, NEW n \in Nat, Below(s, n), NEW pg \in MapPage, pg.seq = n + 1
  PROVE  Below(Append(s, pg), n + 1) /\ Append(s, pg) # s
<1>1. /\ Append(s, pg) \in PageLog /\ Len(Append(s, pg)) = Len(s) + 1 /\ Len(s) \in Nat
      /\ Append(s, pg)[Len(s) + 1] = pg
      /\ \A k \in 1 .. Len(s) : Append(s, pg)[k] = s[k]
  BY AppendLegible, LegibleType
<1>2. \A k \in Legible(Append(s, pg)) : k \in Legible(s) \/ k = Len(s) + 1
  BY AppendLegible
<1>3. \A k \in Legible(s) : k \in 1 .. Len(s) /\ s[k].seq \in Nat
  BY LegibleType
<1>4. ASSUME NEW k \in Legible(Append(s, pg)) PROVE Append(s, pg)[k].seq <= n + 1
  <2>1. CASE k \in Legible(s)
    <3>1. Append(s, pg)[k] = s[k] /\ s[k].seq \in Nat /\ s[k].seq <= n
      BY <1>1, <1>3, <2>1 DEF Below
    <3> QED
      BY <3>1
  <2>2. CASE k = Len(s) + 1
    BY <1>1, <2>2
  <2> QED
    BY <1>2, <2>1, <2>2
<1>5. Append(s, pg) # s
  BY <1>1
<1> QED
  BY <1>4, <1>5 DEF Below

LEMMA KnownStep ==
  ASSUME OneMapPage, MapFailuresInv, ~ adrift, [Next]_vars, ~ Boot, ~ PowerLoss
  PROVE  Known'
<1> USE DEF MapFailuresInv, TidyInv
<1> SUFFICES ASSUME Up', NEW b \in Area, IsMapBlock(b)'
             PROVE  SwapTable'[b] \in {MAP, BAD} /\ Below(pages'[b], Sequence')
  BY DEF Known
<1>1. Up
  <2>1. Up \/ UNCHANGED vars
    BY TableSteps
  <2> QED
    BY <2>1 DEF vars, call, Up
<1>2. \A e \in Area : SwapTable[e] \in {MAP, BAD} => SwapTable'[e] \in {MAP, BAD}
  BY PairKept
<1>3. /\ pages[b] \in PageLog /\ pages'[b] \in PageLog /\ Sequence \in Nat
      /\ Sequence' \in {Sequence, Sequence + 1}
      /\ \A k \in Legible(pages[b]) : pages[b][k].seq \in Nat
  BY NextPages, SequenceSteps, LegibleType
<1>4. CASE IsMapBlock(b) /\ LogKept(b)
  <2>1. SwapTable[b] \in {MAP, BAD} /\ Below(pages[b], Sequence)
    BY <1>1, <1>4 DEF Failing, Known
  <2>2. Below(pages[b], Sequence')
    BY <1>3, <2>1 DEF Below
  <2> QED
    BY <1>2, <1>4, <2>1, <2>2, KeptWhole
<1>5. ASSUME NEW o \in MapOffsets, pc \in {"write_all", "write_one"}, b = MapTarget,
             pages'[b] = Append(pages[b], MapPageOf(o)),
             SwapTable[b] \in {MAP, BAD}, Below(pages[b], Sequence)
      PROVE  SwapTable'[b] \in {MAP, BAD} /\ Below(pages'[b], Sequence')
  <2>1. MapPageOf(o) \in MapPage /\ MapPageOf(o).seq = Sequence + 1
    BY MapPageOfType DEF MapPageOf, ReservedInv, TypeInv, TypeOK
  <2>2. Below(pages'[b], Sequence + 1) /\ pages'[b] # pages[b]
    BY <1>3, <1>5, <2>1, AppendBelow
  <2> QED
    BY <1>2, <1>5, <2>2, SequenceSteps
<1>6. save.page \in MapOffsets /\ save.off \in MapOffsets
  BY DEF ReservedInv, TypeInv, TypeOK, CallTypes
<1>7. CASE pc = "write_one" /\ b = MapTarget /\ IsMapBlock(b)
           /\ pages'[b] = Append(pages[b], MapPageOf(save.off))
  BY <1>1, <1>5, <1>6, <1>7 DEF Failing, Known
<1>8. CASE pc = "write_all" /\ b = MapTarget /\ pages'[b] = Append(pages[b], MapPageOf(save.page))
  <2>1. SwapTable[b] = MAP
    BY <1>8 DEF Failing, Paired, Up, Sound, MapTarget, ReservedInv, TypeInv, TypeOK, RamTypes
  <2>2. pages[b] = << >> /\ Below(pages[b], Sequence)
    BY <1>8, EmptyLog DEF Failing, Backed, Below
  <2> QED
    BY <1>5, <1>6, <1>8, <2>1, <2>2
<1> QED
  BY <1>4, <1>7, <1>8, MapBlocksStep DEF Failing

LEMMA PairedStep ==
  ASSUME OneMapPage, MapFailuresInv, ~ adrift, [Next]_vars, ~ Boot PROVE Paired'
<1> USE DEF MapFailuresInv, TidyInv
<1>1. \A b \in Area : Whole(pages'[b]) =>
        \E x, y \in Area : x # y /\ TableIn(pages'[b])[x] = MAP /\ TableIn(pages'[b])[y] = MAP
  BY PairedTables
<1>2. CASE PowerLoss
  <2>1. ~ Up' /\ op'.cmd # "format"
    BY <1>2 DEF PowerLoss, Up, NoOp
  <2> QED
    BY <1>1, <2>1 DEF Paired
<1>3. CASE ~ PowerLoss
  <2>1. Up \/ UNCHANGED vars
    BY <1>3, TableSteps
  <2>2. ASSUME Up'
        PROVE /\ MapBlock'[1] # MapBlock'[2]
              /\ Sound' \/ (pc' \in {"idle", "get_free"} /\ FreeBlockList' = {})
    BY <1>3, <2>2, PairKept
  <2>3. ASSUME Up', Saving', save'.delayed # NoBlock PROVE SwapTable'[save'.delayed] = BAD
    <3>1. Up
      BY <2>1, <2>3 DEF vars, call, Up
    <3>2. save'.delayed = save.delayed => save.delayed \in Area
      BY <2>3 DEF ReservedInv, TypeInv, TypeOK, CallTypes
    <3>3. Saving /\ save'.delayed = save.delayed => SwapTable[save.delayed] = BAD
      BY <2>3, <3>1 DEF Failing, Paired
    <3> QED
      BY <1>3, <2>3, <3>2, <3>3, PairKept, PairedCall
  <2>4. /\ Phase' # "install"
        /\ Phase' = "format" => Phase = "format" /\ UNCHANGED CurMapBlockIdx
        /\ op'.cmd = "format" => op.cmd = "format" /\ UNCHANGED answered /\ pc' # "off"
    BY <1>3, PairedCall
  <2>5. Up' /\ Phase' = "format" => CurMapBlockIdx' = 2
    BY <2>1, <2>4 DEF Failing, Paired, vars, call, Up
  <2>6. op'.cmd = "format" => ~ Formatted' /\ pc' # "off"
    BY <2>4 DEF Failing, Paired, Formatted
  <2> QED
    BY <1>1, <2>2, <2>3, <2>4, <2>5, <2>6 DEF Paired
<1> QED
  BY <1>2, <1>3

----------------------------------------------------------------------------
(* What the table answers.                                                 *)

\* A call that gives up a map block leaves one that the table knows to be bad.
LEMMA GivenUp ==
  ASSUME TypeInv, GivesUp, MarkMap \/ WriteOne PROVE ~ Sound'
<1>1. /\ MapTarget = MapBlock[CurMapBlockIdx] /\ MapTarget \in Area
      /\ CurMapBlockIdx \in 1 .. 2 /\ SwapTable \in [Area -> Entry]
  BY MapTargetType DEF MapTarget, TypeInv, TypeOK, RamTypes
<1>2. SwapTable'[MapBlock'[CurMapBlockIdx]] = BAD
  BY <1>1 DEF GivesUp
<1> QED
  BY <1>1, <1>2, SpecialEntries DEF Sound

\* The actions of save_swap_table follow its program counter.
LEMMA SaveActs ==
  ASSUME MapFailuresInv, [Next]_vars, ~ Boot, ~ PowerLoss
  PROVE  /\ pc = "erase_map" => EraseMap \/ UNCHANGED vars
         /\ pc = "mark_map" => MarkMap \/ UNCHANGED vars
         /\ pc = "write_all" => WriteAll \/ UNCHANGED vars
         /\ pc = "write_one" => WriteOne \/ UNCHANGED vars
<1>1. ~ Reformat
  BY NeverReformats DEF MapFailuresInv, TidyInv, ReservedInv
<1> QED
  BY <1>1
  DEF Next, Step, FormatSecondBlock, GetFreeBlock, EraseNew, CopyPages, Register,
      InstallOriginal, EraseMap, MarkMap, WriteAll, WriteOne, MarkDelayed, Done,
      ProgramUser, ProgramUserFails, EraseUser, EraseUserFails, Idle

LEMMA SoundBefore ==
  ASSUME OneMapPage, MapFailuresInv, ~ adrift, [Next]_vars, ~ Boot, ~ PowerLoss, Up', Sound'
  PROVE  /\ Up /\ Sound
         /\ \/ UNCHANGED <<SwapTable, MapBlock>>
            \/ Rejects \/ Enters \/ Moves
            \/ /\ MarkMap \/ WriteOne
               /\ \E sav : TakesSpare(sav) /\ sav.next = save.next
<1> USE DEF MapFailuresInv, TidyInv
<1>1. Up
  <2>1. Up \/ UNCHANGED vars
    BY TableSteps
  <2> QED
    BY <2>1 DEF vars, call, Up
<1>2. CASE UNCHANGED <<SwapTable, MapBlock>>
  BY <1>1, <1>2 DEF Sound
<1>3. CASE Rejects \/ Enters \/ Moves
  BY <1>1, <1>3, NewBlockKeepsSound
<1>4. ASSUME MarkMap \/ WriteOne, NEW sav, sav.next = save.next, TakesSpare(sav) \/ GivesUp
      PROVE  Sound /\ TakesSpare(sav)
  <2>1. Sound
    BY <1>1, <1>4 DEF Failing, Paired, MarkMap, WriteOne
  <2>2. ~ GivesUp
    BY <1>4, GivenUp DEF ReservedInv
  <2> QED
    BY <1>4, <2>1, <2>2
<1> QED
  BY <1>1, <1>2, <1>3, <1>4, TableSteps

LEMMA SamePhaseReplied ==
  ASSUME Replied, Up, Sound, UNCHANGED <<answered, pending>>,
         Mapping(SwapTable') = Mapping(SwapTable),
         \/ Phase' = Phase
         \/ (Phase = "idle" \/ Replacing) /\ (Phase' = "idle" \/ Replacing')
         \/ Phase = "format" /\ Phase' = "done"
  PROVE  Replied'
<1>1. /\ Phase = "idle" \/ Replacing => pending = answered /\ Mapping(SwapTable) = answered
      /\ Phase \in {"done", "format"} => Mapping(SwapTable) = pending
  BY DEF Replied
<1>2. (Phase' = "idle" \/ Replacing') => Phase' \notin {"done", "format"}
  BY DEF Replacing
<1>3. Phase' = Phase => (Replacing' <=> Replacing)
  BY DEF Replacing
<1> QED
  BY <1>1, <1>2, <1>3 DEF Replied, Replacing

LEMMA RepliedStep ==
  ASSUME OneMapPage, MapFailuresInv, ~ adrift, [Next]_vars, ~ Boot, ~ PowerLoss
  PROVE  Replied'
<1> USE DEF MapFailuresInv, TidyInv, ReservedInv
<1> SUFFICES ASSUME Up', Sound' PROVE Replied'
  BY DEF Replied
<1>0. /\ Up /\ Sound /\ Replied /\ ~ Reformat /\ Phase # "install"
  BY SoundBefore, NeverReformats DEF Failing, Paired
<1>1. CASE UNCHANGED vars
  BY <1>0, <1>1, SamePhaseReplied DEF vars, ram, call, hist, Phase, Saving, Mapping
<1>2. CASE FormatSecondBlock
  <2>1. Phase = "format" /\ Phase' = "done" /\ UNCHANGED <<SwapTable, answered, pending>>
    BY <1>2 DEF FormatSecondBlock, Phase, Saving, NoSave, hist
  <2> QED
    BY <1>0, <2>1, SamePhaseReplied
<1>3. CASE GetFreeBlock
  <2>1. /\ Replacing /\ UNCHANGED <<SwapTable, answered, pending>>
        /\ pc' \in {"idle", "dead", "erase_new", "register"}
    BY <1>3 DEF GetFreeBlock, AfterGetFree, NoFreeBlock, Abort, Replacing, Phase, Saving, hist
  <2>2. Phase' = "idle" \/ Replacing'
    BY <2>1 DEF Replacing, Phase, Saving, Up
  <2> QED
    BY <1>0, <2>1, <2>2, SamePhaseReplied
<1>4. CASE EraseNew \/ CopyPages
  <2>1. Replacing /\ UNCHANGED <<answered, pending>>
    BY <1>4 DEF EraseNew, CopyPages, RejectNewBlock, Replacing, Phase, Saving, hist
  <2>2. CASE UNCHANGED ram /\ pc' \in {"copy", "register"}
    <3>1. Replacing' /\ UNCHANGED SwapTable
      BY <2>2 DEF Replacing, Phase, Saving, ram
    <3> QED
      BY <1>0, <2>1, <3>1, SamePhaseReplied
  <2>3. CASE RejectNewBlock
    <3>1. Rejects
      BY <1>4, <2>3 DEF Rejects, EraseNew, CopyPages
    <3>2. Replacing'
      BY <2>3, StartSavePhase DEF RejectNewBlock, Replacing
    <3> QED
      BY <1>0, <2>1, <3>1, <3>2, NewBlockKeepsSound, SamePhaseReplied
  <2> QED
    BY <1>4, <2>2, <2>3 DEF EraseNew, CopyPages
<1>5. CASE Enters \/ Moves
  <2>1. Phase' = "done" /\ pending' = Mapping(SwapTable')
    BY <1>5, StartSavePhase DEF Enters, Moves, Install
  <2> QED
    BY <2>1 DEF Replied, Replacing
<1>6. CASE Register \/ InstallOriginal
  <2>1. ~ InstallOriginal
    BY <1>0 DEF InstallOriginal, Phase, Saving
  <2>2. Register => Phase = "register" /\ Phase \in {"erase_new", "copy", "register", "install"}
    BY DEF Register, Phase, Saving
  <2>3. Register /\ op.bad \in Area => MAP_OFFSET(op.bad) = MAP_OFFSET(op.new)
    BY <2>2, OnePage DEF CallShape, TypeInv
  <2>4. Enters \/ Moves
    BY <1>6, <2>1, <2>3 DEF Register, Enters, Moves
  <2> QED
    BY <1>5, <2>4
<1>7. CASE EraseMap \/ WriteAll \/ MarkDelayed
  <2>1. /\ save'.next = save.next /\ Saving /\ UNCHANGED <<SwapTable, answered, pending>>
        /\ pc' \in {"write_all", "mark_map", "mark_delayed", save.next}
        /\ save.next \in {"get_free", "install", "done", "format"}
    BY <1>7
    DEF EraseMap, WriteAll, MarkDelayed, SaveEnds, Saving, hist, ram, TypeInv, TypeOK, CallTypes
  <2>2. Phase' = Phase
    BY <2>1 DEF Phase, Saving
  <2> QED
    BY <1>0, <2>1, <2>2, SamePhaseReplied
<1>8. CASE MarkMap \/ WriteOne
  <2>1. ASSUME NEW sav, sav.next = save.next, TakesSpare(sav) PROVE Replied'
    <3>1. /\ pc' = "erase_map" /\ save' = sav /\ UNCHANGED <<answered, pending>>
          /\ Saving /\ UNCHANGED CurMapBlockIdx
      BY <1>8, <2>1 DEF TakesSpare, hist, MarkMap, WriteOne, Saving
    <3>2. Phase' = Phase
      BY <2>1, <3>1 DEF Phase, Saving
    <3>3. MapBlock[1] # MapBlock[2] /\ TypeInv'
      BY <1>0, TypeInvStep DEF Failing, Paired
    <3>4. Mapping(SwapTable') = Mapping(SwapTable)
      BY <1>0, <2>1, <3>1, <3>3, SpareKeepsSound
    <3> QED
      BY <1>0, <3>1, <3>2, <3>4, SamePhaseReplied
  <2>2. ~ (Rejects \/ Enters \/ Moves)
    BY <1>8, NewBlockKeepsSound DEF MarkMap, WriteOne
  <2>3. CASE UNCHANGED <<SwapTable, MapBlock>>
    <3>1. ~ \E sav : TakesSpare(sav) \/ GivesUp
      <4> SUFFICES ASSUME NEW sav, TakesSpare(sav) \/ GivesUp PROVE FALSE
        OBVIOUS
      <4>1. SwapTable[MapTarget] = MAP /\ MapTarget \in Area
        BY <1>0, MapTargetType DEF Sound, MapTarget, TypeInv, TypeOK, RamTypes
      <4>2. \/ \E new \in Area : SwapTable[new] = FREE /\
                    SwapTable' = [SwapTable EXCEPT ![MapTarget] = BAD, ![new] = MAP]
            \/ SwapTable' = [SwapTable EXCEPT ![MapTarget] = BAD]
        BY DEF TakesSpare, GivesUp
      <4>3. SwapTable'[MapTarget] = BAD
        BY <4>1, <4>2, SpecialEntries DEF TypeInv, TypeOK, RamTypes
      <4> QED
        BY <2>3, <4>1, <4>3, SpecialEntries
    <3>2. /\ WriteOne /\ SaveEnds /\ UNCHANGED <<save, hist>>
      BY <1>8, <3>1, Retirements
    <3>3. Phase' = Phase /\ UNCHANGED <<answered, pending>>
      BY <3>2 DEF WriteOne, SaveEnds, Phase, Saving, hist, TypeInv, TypeOK, CallTypes
    <3> QED
      BY <1>0, <2>3, <3>3, SamePhaseReplied
  <2> QED
    BY <2>1, <2>2, <2>3, SoundBefore
<1>9. CASE Done
  BY <1>9 DEF Done, Replied, Phase, Saving, Replacing
<1>10. CASE \E u \in User : \/ ProgramUser(u) \/ ProgramUserFails(u)
                            \/ EraseUser(u) \/ EraseUserFails(u)
  <2>1. /\ pc = "idle" /\ pc' \in {"idle", "get_free"} /\ UNCHANGED <<SwapTable, answered, pending>>
    BY <1>10
    DEF ProgramUser, ProgramUserFails, EraseUser, EraseUserFails, Replace, Idle, ram, call, hist
  <2>2. Phase = "idle" /\ (Phase' = "idle" \/ Replacing')
    BY <2>1 DEF Phase, Saving, Replacing
  <2> QED
    BY <1>0, <2>1, <2>2, SamePhaseReplied
<1> QED
  BY <1>0, <1>1, <1>2, <1>3, <1>4, <1>6, <1>7, <1>8, <1>9, <1>10 DEF Next, Step

----------------------------------------------------------------------------
(* The current map block, and the one to be erased or marked.              *)

\* Outside a rewrite no step takes the lead from the current map block.
LEMMA LeadHolds ==
  ASSUME OneMapPage, MapFailuresInv, ~ adrift, [Next]_vars, NEW m \in Area, m = MapTarget,
         Up, Sound, pc \notin {"erase_map", "write_all", "mark_map", "write_one"}
  PROVE  Leads(m, Area)' /\ TableIn(pages'[m]) = SwapTable
<1> USE DEF MapFailuresInv, TidyInv
<1>1. Leads(m, Area) /\ TableIn(pages[m]) = SwapTable
  BY DEF Failing, Continued
<1>2. \A b \in Area : IsMapBlock(b)' => IsMapBlock(b) /\ LogKept(b)
  BY MapBlocksStep DEF Failing
<1>3. ~ (pc = "mark_delayed" /\ m = save.delayed)
  <2> SUFFICES ASSUME pc = "mark_delayed", m = save.delayed PROVE FALSE
    OBVIOUS
  <2>1. SwapTable[m] = BAD
    BY AreaNumbers DEF Failing, Paired, Up, Saving, NoBlock
  <2>2. SwapTable[m] = MAP
    BY DEF Sound, MapTarget, ReservedInv, TypeInv, TypeOK, RamTypes
  <2> QED
    BY <2>1, <2>2, SpecialEntries
<1>4. IsMapBlock(m)'
  BY <1>1, <1>3, MapBlocksStep DEF Failing, Leads
<1> QED
  BY <1>1, <1>2, <1>4, LeadStays

\* Where a step that is not part of a save leads.
LEMMA PlainSteps ==
  ASSUME OneMapPage, MapFailuresInv, ~ adrift, [Next]_vars, ~ Boot, ~ PowerLoss, Up,
         pc \notin {"erase_map", "write_all", "mark_map", "write_one"}
  PROVE  /\ pc' \notin {"write_all", "mark_map"}
         /\ pc' = "erase_map" => MapTarget' = MapBlock[OtherMapBlock]
         /\ pc' # "erase_map" => MapTarget' = MapTarget
         /\ pc' \notin {"erase_map", "write_one"} => UNCHANGED SwapTable
<1> USE DEF MapFailuresInv, TidyInv, ReservedInv, TypeInv, TypeOK
<1>0. ~ Reformat /\ CurMapBlockIdx \in 1 .. 2
  BY NeverReformats DEF RamTypes
<1>1. ASSUME NEW o, NEW next, StartSave(o, next)
      PROVE  /\ pc' \in {"erase_map", "write_one"}
             /\ pc' = "erase_map" => MapTarget' = MapBlock[OtherMapBlock]
             /\ pc' # "erase_map" => MapTarget' = MapTarget
  BY <1>1 DEF StartSave, MapTarget
<1>2. CASE UNCHANGED vars
  BY <1>2 DEF vars, ram, call, MapTarget
<1>3. CASE FormatSecondBlock
  <2>1. CurMapBlockIdx = 2 /\ CurMapBlockIdx' = 1 /\ pc' = "erase_map" /\ UNCHANGED MapBlock
    BY <1>3 DEF FormatSecondBlock, Failing, Paired, Phase, Saving, Up
  <2> QED
    BY <2>1 DEF MapTarget, OtherMapBlock
<1>4. CASE GetFreeBlock \/ Done \/ MarkDelayed
  BY <1>4
  DEF GetFreeBlock, AfterGetFree, NoFreeBlock, Abort, Done, MarkDelayed, MapTarget, ram, CallTypes
<1>5. CASE EraseNew \/ CopyPages
  BY <1>1, <1>5 DEF EraseNew, CopyPages, RejectNewBlock, MapTarget, ram
<1>6. CASE Register \/ InstallOriginal
  BY <1>1, <1>6 DEF Register, InstallOriginal, Install
<1>7. CASE \E u \in User : \/ ProgramUser(u) \/ ProgramUserFails(u)
                           \/ EraseUser(u) \/ EraseUserFails(u)
  BY <1>7
  DEF ProgramUser, ProgramUserFails, EraseUser, EraseUserFails, Replace, Idle, ram, call, MapTarget
<1>8. ~ (EraseMap \/ MarkMap \/ WriteAll \/ WriteOne)
  BY DEF EraseMap, MarkMap, WriteAll, WriteOne
<1> QED
  BY <1>0, <1>2, <1>3, <1>4, <1>5, <1>6, <1>7, <1>8 DEF Next, Step

LEMMA ContinuedStep ==
  ASSUME OneMapPage, MapFailuresInv, ~ adrift, [Next]_vars, ~ Boot, ~ PowerLoss
  PROVE  Continued'
<1> USE DEF MapFailuresInv, TidyInv
<1> SUFFICES ASSUME Up', Sound', pc' \notin {"erase_map", "write_all", "mark_map"}
             PROVE  \E m \in Area : /\ m = MapTarget' /\ Leads(m, Area)'
                                    /\ pc' # "write_one" => TableIn(pages'[m]) = SwapTable'
  BY DEF Continued
<1>0. Up /\ Sound
  BY SoundBefore
<1>1. PICK m \in Area : m = MapTarget
  BY MapTargetType DEF ReservedInv, TypeInv, TypeOK
<1>2. UNCHANGED vars => UNCHANGED <<pc, pages, marked, SwapTable, MapTarget>>
  BY DEF vars, ram, call, flash, MapTarget
<1>3. CASE pc \notin {"erase_map", "write_all", "mark_map", "write_one"}
  BY <1>0, <1>1, <1>3, LeadHolds, PlainSteps
<1>4. CASE pc = "write_all"
  <2>1. WriteAll
    BY <1>2, <1>4, SaveActs
  <2>2. /\ WriteMapPage(MapTarget, save.page, save.page) /\ m = MapTarget' /\ UNCHANGED SwapTable
    BY <1>1, <2>1 DEF WriteAll, MapTarget
  <2>3. IsMapBlock(m)'
    <3>1. MapPageOf(save.page) \in MapPage /\ m \notin marked /\ pages[m] = << >> /\ m \in Block
      BY <1>1, <1>4, MapPageOfType, AreaLogs
      DEF Failing, Backed, ReservedInv, TypeInv, TypeOK, CallTypes
    <3>2. pages'[m] = <<MapPageOf(save.page)>> /\ m \notin marked'
      BY <1>1, <2>2, <3>1 DEF WriteMapPage, Programmed, ReservedInv, TypeInv, TypeOK, FlashTypes
    <3>3. pages'[m] # << >> /\ pages'[m][1] # TORN
      BY <3>1, <3>2 DEF MapPage, TORN
    <3> QED
      BY <3>2, <3>3 DEF IsMapBlock
  <2> QED
    BY <1>1, <1>4, <2>2, <2>3, NewLead
<1>5. CASE pc = "write_one"
  <2>1. WriteOne \/ UNCHANGED vars
    BY <1>5, SaveActs
  <2>2. Leads(m, Area)'
    BY <1>1, <1>5, LeadGrows
  <2>3. CASE WriteOne
    <3>1. ~ \E sav : TakesSpare(sav)
      BY DEF TakesSpare
    <3>2. ~ GivesUp
      BY <2>3, GivenUp DEF ReservedInv
    <3>3. /\ WriteMapPage(MapTarget, CurMapPageNum, save.off) /\ m = MapTarget'
          /\ UNCHANGED SwapTable
      BY <1>1, <2>3, <3>1, <3>2, Retirements DEF WriteOne, MapTarget
    <3>4. /\ Blank(MapTarget, CurMapPageNum) /\ Clean(pages[m], CurMapPageNum)
          /\ pages'[m] = Append(pages[m], MapPageOf(save.off))
      BY <1>1, <1>5, <3>3, AreaLogs
      DEF WriteMapPage, Programmed, Kept, ReservedInv, TypeInv, TypeOK, FlashTypes
    <3>5. TableIn(pages'[m]) = SwapTable
      BY <1>1, <1>5, <3>4, OvertakeAppend DEF MapLogInv
    <3> QED
      BY <2>2, <3>3, <3>5
  <2> QED
    BY <1>1, <1>2, <1>5, <2>1, <2>2, <2>3
<1>6. CASE pc = "erase_map"
  <2>1. EraseMap
    BY <1>2, <1>6, SaveActs
  <2> QED
    BY <2>1 DEF EraseMap
<1>7. CASE pc = "mark_map"
  <2>1. MarkMap
    BY <1>2, <1>7, SaveActs
  <2>2. ~ \E sav : TakesSpare(sav)
    BY DEF TakesSpare
  <2>3. ~ GivesUp
    BY <2>1, GivenUp DEF ReservedInv
  <2> QED
    BY <2>1, <2>2, <2>3, Retirements DEF MarkMap, WriteOne
<1> QED
  BY <1>3, <1>4, <1>5, <1>6, <1>7

\* A block taken for the map was free, so that nothing can be read in it.
LEMMA SpareIsBlank ==
  ASSUME OneMapPage, MapFailuresInv, ~ adrift, [Next]_vars, Up, pc # "write_all",
         NEW sav, TakesSpare(sav)
  PROVE  \E new \in Area : new = MapTarget' /\ ~ IsMapBlock(new)'
<1> USE DEF MapFailuresInv, TidyInv
<1>1. PICK new \in Area : SwapTable[new] = FREE /\ MapTarget' = new
  BY DEF TakesSpare
<1>2. ~ IsMapBlock(new)
  BY <1>1, SpecialEntries DEF Failing, Known
<1> QED
  BY <1>1, <1>2, MapBlocksStep DEF Failing

LEMMA EraseBacked ==
  ASSUME OneMapPage, MapFailuresInv, ~ adrift, [Next]_vars, ~ Boot, ~ PowerLoss,
         pc' = "erase_map"
  PROVE  ~ Leads(MapTarget, Area)'
<1> USE DEF MapFailuresInv, TidyInv
<1> SUFFICES ASSUME NEW n \in Area, n = MapTarget', Leads(n, Area)' PROVE FALSE
  BY DEF Leads
<1>1. Up
  <2>1. Up \/ UNCHANGED vars
    BY TableSteps
  <2> QED
    BY <2>1 DEF vars, call, Up
<1>2. ~ UNCHANGED vars
  <2> SUFFICES ASSUME UNCHANGED vars PROVE FALSE
    OBVIOUS
  <2>1. pc = "erase_map" /\ n = MapTarget /\ UNCHANGED <<pages, marked>>
    BY DEF vars, ram, call, flash, MapTarget
  <2> QED
    BY <2>1, SameChip DEF Failing, Backed
<1>3. CASE pc \notin {"erase_map", "write_all", "mark_map", "write_one"}
  <2>1. n = MapBlock[OtherMapBlock]
    BY <1>1, <1>3, PlainSteps
  <2>2. Sound
    <3>1. CASE ~ Sound
      <4>1. pc \in {"idle", "get_free"} /\ FreeBlockList = {}
        BY <1>1, <3>1 DEF Failing, Paired
      <4> QED
        BY <4>1, StuckStays
    <3> QED
      BY <3>1
  <2>3. PICK m \in Area : m = MapTarget
    BY MapTargetType DEF ReservedInv, TypeInv, TypeOK
  <2>4. Leads(m, Area)'
    BY <1>1, <1>3, <2>2, <2>3, LeadHolds
  <2>5. n # m
    BY <1>1, <2>1, <2>3
    DEF MapTarget, OtherMapBlock, Failing, Paired, ReservedInv, TypeInv, TypeOK, RamTypes
  <2> QED
    BY <2>4, <2>5, OneLeadsNext
<1>4. CASE pc \in {"mark_map", "write_one"}
  <2>1. MarkMap \/ WriteOne
    BY <1>2, <1>4, SaveActs
  <2>2. ~ (WriteOne /\ SaveEnds /\ UNCHANGED save)
    BY DEF WriteOne, SaveEnds, ReservedInv, TypeInv, TypeOK, CallTypes
  <2>3. ~ GivesUp
    BY DEF GivesUp
  <2>4. PICK sav : TakesSpare(sav)
    BY <2>1, <2>2, <2>3, Retirements
  <2> QED
    BY <1>1, <1>4, <2>4, SpareIsBlank DEF Leads
<1>5. CASE pc \in {"erase_map", "write_all"}
  BY <1>2, <1>5, SaveActs
  DEF EraseMap, WriteAll, SaveEnds, ReservedInv, TypeInv, TypeOK, CallTypes
<1> QED
  BY <1>3, <1>4, <1>5

\* The lead is marked only where a map page failed in the block that was to
\* take it: the block that leads among the others has led before.
LEMMA MarkComes ==
  ASSUME OneMapPage, MapFailuresInv, ~ adrift, [Next]_vars, ~ Boot, ~ PowerLoss,
         ~ UNCHANGED vars, pc' = "mark_map", NEW m \in Area, m = MapTarget', Leads(m, Area)'
  PROVE  /\ pc = "write_all" /\ m = MapTarget /\ ~ IsMapBlock(m)
         /\ UNCHANGED <<answered, pending>>
         /\ \A b \in Area \ {m} : /\ IsMapBlock(b)' <=> IsMapBlock(b)
                                  /\ IsMapBlock(b)' => LogKept(b)
<1> USE DEF MapFailuresInv, TidyInv
<1>1. pc # "erase_map"
  <2> SUFFICES ASSUME pc = "erase_map" PROVE FALSE
    OBVIOUS
  <2>1. m = MapTarget
    BY SaveActs DEF EraseMap, MapTarget, ram
  <2>2. IsMapBlock(m) /\ LogKept(m)
    BY MapBlocksStep DEF Failing, Leads
  <2>3. ASSUME NEW b \in Area \ {m}, IsMapBlock(b) PROVE Precedes(b, m)
    <3>1. IsMapBlock(b)' /\ LogKept(b)
      BY <2>1, <2>3, MapBlocksStep DEF Failing
    <3>2. 1 \in Legible(pages[m])
      BY <2>2, MapBlockIs DEF ReservedInv
    <3> QED
      BY <2>2, <3>1, <3>2 DEF Leads, Precedes, LogKept
  <2>4. Leads(m, Area)
    BY <2>2, <2>3 DEF Leads
  <2> QED
    BY <2>1, <2>4 DEF Failing, Backed
<1>2. pc = "write_all"
  <2> SUFFICES ASSUME pc # "write_all" PROVE FALSE
    OBVIOUS
  <2>1. Up
    BY TableSteps
  <2>2. pc \in {"mark_map", "write_one"}
    BY <1>1, <2>1, PlainSteps
  <2>3. MarkMap \/ WriteOne
    BY <2>2, SaveActs
  <2>4. ~ (WriteOne /\ SaveEnds /\ UNCHANGED save)
    BY DEF WriteOne, SaveEnds, ReservedInv, TypeInv, TypeOK, CallTypes
  <2> QED
    BY <2>3, <2>4, Retirements DEF TakesSpare, GivesUp
<1>3. m = MapTarget /\ UNCHANGED <<answered, pending>>
  BY <1>2, SaveActs DEF WriteAll, MapTarget, hist
<1>4. ~ IsMapBlock(m)
  BY <1>2, <1>3 DEF Failing, Backed, IsMapBlock
<1>5. \A b \in Area \ {m} : IsMapBlock(b)' <=> IsMapBlock(b)
  BY <1>2, <1>3, MapBlocksStep DEF Failing
<1>6. \A b \in Area \ {m} : IsMapBlock(b)' => LogKept(b)
  BY <1>2, <1>3, <1>5, MapBlocksStep DEF Failing
<1> QED
  BY <1>2, <1>3, <1>4, <1>5, <1>6

LEMMA MarkBacked ==
  ASSUME OneMapPage, MapFailuresInv, ~ adrift, [Next]_vars, ~ Boot, ~ PowerLoss,
         pc' = "mark_map", NEW m \in Area, m = MapTarget', Leads(m, Area)',
         NEW S \in SUBSET Area, S = Area \ {m}
  PROVE  Led(S)' \/ (~ Formatted' /\ Blind(S)')
<1> USE DEF MapFailuresInv, TidyInv
<1>1. CASE UNCHANGED vars
  <2>1. /\ pc = "mark_map" /\ m = MapTarget /\ UNCHANGED <<pages, marked, answered, pending>>
        /\ Leads(m, Area)
    BY <1>1, SameChip DEF vars, ram, call, flash, hist, MapTarget
  <2>2. Led(S) \/ (~ Formatted /\ Blind(S))
    <3>1. S = Rest
      BY <2>1 DEF Rest
    <3> QED
      BY <2>1, <3>1 DEF Failing, Backed
  <2> QED
    BY <2>1, <2>2 DEF Led, Blind, Formatted, Owed, Leads, Precedes, IsMapBlock
<1>2. CASE ~ UNCHANGED vars
  <2>1. /\ ~ IsMapBlock(m) /\ UNCHANGED <<answered, pending>>
        /\ \A b \in S : (IsMapBlock(b)' <=> IsMapBlock(b)) /\ (IsMapBlock(b)' => LogKept(b))
    BY <1>2, MarkComes
  <2>2. CASE Blind(Area)
    BY <2>1, <2>2 DEF Failing, Headed, Blind, Formatted
  <2>3. CASE Led(Area)
    <3>1. PICK h \in Area : Leads(h, Area) /\ Owed(TableIn(pages[h]))
      BY <2>3 DEF Led
    <3>2. h \in S /\ Leads(h, S)
      BY <2>1, <3>1 DEF Leads
    <3>3. Leads(h, S)' /\ TableIn(pages'[h]) = TableIn(pages[h])
      BY <2>1, <3>2, LeadStays DEF Leads
    <3> QED
      BY <2>1, <3>1, <3>2, <3>3 DEF Led, Owed
  <2> QED
    BY <2>2, <2>3 DEF Failing, Headed
<1> QED
  BY <1>1, <1>2

LEMMA WriteBacked ==
  ASSUME OneMapPage, MapFailuresInv, ~ adrift, [Next]_vars, ~ Boot, ~ PowerLoss,
         pc' = "write_all"
  PROVE  MapTarget' \notin marked' /\ pages'[MapTarget'] = << >>
<1> USE DEF MapFailuresInv, TidyInv, ReservedInv, TypeInv, TypeOK
<1>1. CASE UNCHANGED vars
  BY <1>1 DEF vars, ram, call, flash, MapTarget, Failing, Backed
<1>2. CASE ~ UNCHANGED vars
  <2>1. CASE pc = "erase_map"
    <3>1. EraseOk(MapTarget) /\ MapTarget' = MapTarget
      BY <1>2, <2>1, SaveActs DEF EraseMap, MapTarget, ram
    <3> QED
      BY <3>1, MapTargetType DEF EraseOk, EraseTo, FlashTypes
  <2>2. CASE pc = "write_all"
    <3>1. WriteAll /\ ~ (save.page + 1 < NumMapPages) /\ save.next # "write_all"
      BY <1>2, <2>2, SaveActs, OnePage DEF OneMapPage, CallTypes
    <3> QED
      BY <3>1 DEF WriteAll, SaveEnds
  <2>3. CASE pc \notin {"erase_map", "write_all"}
    <3>1. Up
      BY <1>2, TableSteps
    <3>2. pc \in {"mark_map", "write_one"}
      BY <2>3, <3>1, PlainSteps
    <3>3. MarkMap \/ WriteOne
      BY <1>2, <3>2, SaveActs
    <3>4. ~ (WriteOne /\ SaveEnds /\ UNCHANGED save)
      BY DEF WriteOne, SaveEnds, CallTypes
    <3> QED
      BY <3>3, <3>4, Retirements DEF TakesSpare, GivesUp
  <2> QED
    BY <2>1, <2>2, <2>3
<1> QED
  BY <1>1, <1>2

LEMMA BackedStep ==
  ASSUME OneMapPage, MapFailuresInv, ~ adrift, [Next]_vars, ~ Boot, ~ PowerLoss
  PROVE  Backed'
<1>1. pc' = "mark_map" /\ Leads(MapTarget, Area)' =>
        Led(Rest)' \/ (~ Formatted' /\ Blind(Rest)')
  <2> SUFFICES ASSUME pc' = "mark_map", Leads(MapTarget, Area)'
               PROVE  Led(Rest)' \/ (~ Formatted' /\ Blind(Rest)')
    OBVIOUS
  <2>1. PICK m \in Area : m = MapTarget' /\ Leads(m, Area)'
    BY DEF Leads
  <2>2. PICK S \in SUBSET Area : S = Area \ {m}
    OBVIOUS
  <2>3. Led(S)' \/ (~ Formatted' /\ Blind(S)')
    BY <2>1, <2>2, MarkBacked
  <2>4. Rest' = S
    BY <2>1, <2>2 DEF Rest
  <2> QED
    BY <2>3, <2>4 DEF Led, Blind, Leads, Owed
<1> QED
  BY <1>1, EraseBacked, WriteBacked DEF Backed

----------------------------------------------------------------------------
(* The invariant.                                                          *)

LEMMA AdriftStays ==
  ASSUME MapFailuresInv, [Next]_vars, ~ adrift' PROVE ~ adrift
<1>1. CASE MarkMap \/ WriteOne
  BY <1>1 DEF MarkMap, WriteOne, RetireCurrent, ReplaceMapBlock, Abort, hist
<1>2. CASE Step /\ ~ (MarkMap \/ WriteOne)
  BY <1>2
  DEF Step, FormatSecondBlock, GetFreeBlock, NoFreeBlock, Abort, EraseNew, CopyPages,
      RejectNewBlock, Register, InstallOriginal, Install, EraseMap, WriteAll,
      MarkDelayed, Done, hist
<1>3. CASE PowerLoss \/ UNCHANGED vars
  BY <1>3 DEF PowerLoss, vars, hist
<1>4. CASE \E u \in User : \/ ProgramUser(u) \/ ProgramUserFails(u)
                           \/ EraseUser(u) \/ EraseUserFails(u)
  BY <1>4 DEF ProgramUser, ProgramUserFails, EraseUser, EraseUserFails, hist
<1>5. CASE Boot
  BY <1>5 DEF Boot, BM_Open, BM_Format, MapFailuresInv, TidyInv, ReservedInv, TypeInv, TypeOK,
              HistoryTypes
<1>6. ~ Reformat
  BY NeverReformats DEF MapFailuresInv, TidyInv, ReservedInv
<1> QED
  BY <1>1, <1>2, <1>3, <1>4, <1>5, <1>6 DEF Next

LEMMA MapFailuresStep ==
  ASSUME OneMapPage, MapFailuresInv, [Next]_vars PROVE MapFailuresInv'
<1> USE DEF MapFailuresInv
<1>1. TidyInv'
  BY TidyStep
<1>2. budget'["format"] = 0
  BY NeverReformats DEF TidyInv, ReservedInv
<1>3. ASSUME ~ adrift' PROVE Failing'
  <2>1. CASE Boot
    BY <1>3, <2>1, BootFailing
  <2>2. CASE ~ Boot
    <3>1. ~ adrift
      BY <1>3, AdriftStays
    <3>2. Headed' /\ Paired'
      BY <2>2, <3>1, HeadedStep, PairedStep
    <3>3. CASE PowerLoss
      <4>1. pc' = "off"
        BY <3>3 DEF PowerLoss
      <4> QED
        BY <3>2, <4>1 DEF Failing, Backed, Continued, Replied, Known, Up
    <3>4. CASE ~ PowerLoss
      BY <2>2, <3>1, <3>2, <3>4, BackedStep, ContinuedStep, RepliedStep, KnownStep DEF Failing
    <3> QED
      BY <3>3, <3>4
  <2> QED
    BY <2>1, <2>2
<1> QED
  BY <1>1, <1>2, <1>3

LEMMA MapFailuresInit ==
  ASSUME OneMapPage, Init PROVE MapFailuresInv
<1>1. TidyInv /\ budget["format"] = 0
  BY TidyInit DEF Init, OneMapPage
<1>2. \A b \in Area : pages[b] = << >> /\ b \in Block
  BY DEF Init, Block
<1>3. Blind(Area) /\ \A b \in Area : ~ Whole(pages[b])
  BY <1>2, EmptyLog DEF Blind, IsMapBlock
<1>4. ~ Up /\ pc = "off" /\ ~ Formatted /\ op.cmd # "format"
  BY DEF Init, Up, Formatted, NoOp
<1> QED
  BY <1>1, <1>3, <1>4
  DEF MapFailuresInv, Failing, Headed, Backed, Continued, Replied, Paired, Known

LEMMA MapFailuresInvariant ==
  ASSUME OneMapPage PROVE Spec => []MapFailuresInv
<1>1. Init => MapFailuresInv
  BY MapFailuresInit
<1>2. MapFailuresInv /\ [Next]_vars => MapFailuresInv'
  BY MapFailuresStep
<1> QED
  BY <1>1, <1>2, PTL DEF Spec

----------------------------------------------------------------------------
(* With a map of one page a reboot finds the last answer, or that of the   *)
(* call in progress, though map pages fail, bad marks fail, and power is   *)
(* lost at any moment: unless a map block that was given up is still on    *)
(* the chip, unmarked, and the latest table does not know it for one.      *)
THEOREM StrayMapsOnly ==
  ASSUME OneMapPage PROVE Spec => []OnlyStrayMapsRevive
<1>1. MapFailuresInv => OnlyStrayMapsRevive
  <2> SUFFICES ASSUME MapFailuresInv, ~ adrift, Consistent, Formatted
               PROVE  Openable /\ Mapping(OpenTable) \in {answered, pending}
    BY DEF OnlyStrayMapsRevive, ReplacementsSurvive
  <2>1. PICK h \in Area : Leads(h, Area) /\ Owed(TableIn(pages[h]))
    BY DEF MapFailuresInv, Failing, Headed, Led
  <2>2. Openable
    BY <2>1, SightOpens DEF Blind, Leads
  <2>3. OpenTable = TableIn(pages[h])
    BY <2>1, <2>2, LeadIsRead
  <2> QED
    BY <2>1, <2>2, <2>3 DEF Owed
<1> QED
  BY <1>1, MapFailuresInvariant, PTL

(* Between calls a reboot rebuilds the very table that is in memory, after *)
(* whatever the manager did to replace map blocks that failed: as long as  *)
(* it found a spare for each, and marked each before power was lost.       *)
THEOREM RebootSameAfterFailures ==
  ASSUME OneMapPage PROVE Spec => []RebootIsIdentity
<1>1. MapFailuresInv => RebootIsIdentity
  <2> SUFFICES ASSUME MapFailuresInv, Idle, ~ adrift, Consistent, Sound
               PROVE  Openable /\ OpenTable = SwapTable
    BY DEF RebootIsIdentity, Sound
  <2>1. PICK h \in Area : h = MapTarget
    BY MapTargetType DEF MapFailuresInv, TidyInv, ReservedInv, TypeInv, TypeOK
  <2>2. Leads(h, Area) /\ TableIn(pages[h]) = SwapTable
    BY <2>1 DEF MapFailuresInv, Failing, Continued, Idle, Up
  <2>3. Openable
    BY <2>2, SightOpens DEF Blind, Leads
  <2> QED
    BY <2>2, <2>3, LeadIsRead
<1> QED
  BY <1>1, MapFailuresInvariant, PTL

\* A manager that counts as open runs.
OpenRuns == /\ State = "formatted" => Up
            /\ op.cmd = "format" => State = "closed" /\ pc # "off"

LEMMA OpenRunsStep ==
  ASSUME TypeInv, OpenRuns, [Next]_vars PROVE OpenRuns'
<1> USE DEF TypeInv, TypeOK, CallTypes
<1>1. CASE Boot \/ Reformat
  BY <1>1 DEF Boot, Reformat, BM_Open, BM_Format, BlankMemory, OpenRuns, Up
<1>2. CASE PowerLoss \/ UNCHANGED vars
  BY <1>2 DEF PowerLoss, BlankMemory, NoOp, vars, ram, call, OpenRuns, Up
<1>3. CASE MarkMap \/ WriteOne
  <2>1. UNCHANGED State /\ (Abort \/ (UNCHANGED op /\ pc' \notin {"off", "dead"}))
    BY <1>3
    DEF MarkMap, WriteOne, RetireCurrent, ReplaceMapBlock, SaveEnds
  <2> QED
    BY <1>3, <2>1 DEF Abort, NoOp, OpenRuns, Up
<1>4. CASE EraseMap \/ WriteAll \/ MarkDelayed
  BY <1>4 DEF EraseMap, WriteAll, MarkDelayed, SaveEnds, OpenRuns, Up, ram
<1>5. CASE FormatSecondBlock \/ GetFreeBlock \/ Done
  BY <1>5
  DEF FormatSecondBlock, GetFreeBlock, AfterGetFree, NoFreeBlock, Abort, Done, NoOp, OpenRuns, Up
<1>6. CASE EraseNew \/ CopyPages \/ Register \/ InstallOriginal
  BY <1>6
  DEF EraseNew, CopyPages, RejectNewBlock, Register, InstallOriginal, Install, StartSave,
      OpenRuns, Up, ram
<1>7. CASE \E u \in User : \/ ProgramUser(u) \/ ProgramUserFails(u)
                           \/ EraseUser(u) \/ EraseUserFails(u)
  BY <1>7
  DEF ProgramUser, ProgramUserFails, EraseUser, EraseUserFails, Replace, Idle, ram, call,
      NoOp, OpenRuns, Up
<1> QED
  BY <1>1, <1>2, <1>3, <1>4, <1>5, <1>6, <1>7 DEF Next, Step

(* Whatever map pages fail, the next page is later than every one a reboot *)
(* could read, in any block: no superseded map block can come first again, *)
(* as long as every table opened knew the map blocks there were.           *)
THEOREM SequenceLeadsAfterFailures ==
  ASSUME OneMapPage PROVE Spec => [](~ adrift => SequenceAhead)
<1>1. Init => OpenRuns
  BY DEF Init, OpenRuns, NoOp
<1>2. MapFailuresInv /\ OpenRuns /\ [Next]_vars => OpenRuns'
  BY OpenRunsStep DEF MapFailuresInv, TidyInv, ReservedInv
<1>3. MapFailuresInv /\ OpenRuns => (~ adrift => SequenceAhead)
  <2> SUFFICES ASSUME MapFailuresInv, OpenRuns, ~ adrift, State = "formatted",
                      NEW b \in Area, IsMapBlock(b), NEW k \in Readable(b)
               PROVE  pages[b][k].seq <= Sequence
    BY DEF SequenceAhead
  <2>1. Below(pages[b], Sequence)
    BY DEF OpenRuns, MapFailuresInv, Failing, Known
  <2>2. k \in Legible(pages[b])
    BY DEF Readable, Legible
  <2> QED
    BY <2>1, <2>2 DEF Below
<1> QED
  BY <1>1, <1>2, <1>3, MapFailuresInvariant, PTL DEF Spec

----------------------------------------------------------------------------
(* The data behind the mapping.                                            *)

\* Behind table T, each block that a caller wrote holds its data.
Holds(T) == \A u \in live : data[BM_GetSwappingBlock(T, u)] = u

\* No block is one user block's and, by the last answer or the one in
\* progress, another's.
Apart == \A f, g \in {answered, pending} : \A u, v \in User : u # v => f[u] # g[v]

\* A block that was given to a user block stays in such hands, or goes bad.
Taken == Up => \A f \in {answered, pending} : \A u \in User :
                 f[u] \in Area => SwapTable[f[u]] \in User \cup {BAD}

\* After a call that gave up a map block for want of a spare, memory goes on
\* with what that call was to answer.
Left == Up /\ ~ Sound => Mapping(SwapTable) = pending

\* A reboot finds the data; also if the map block that leads is marked.
Refound == \A h \in Area : Leads(h, Area) => Holds(TableIn(pages[h]))
Backup  == pc = "mark_map" /\ Leads(MapTarget, Area) =>
             \A h \in Area : Leads(h, Rest) => Holds(TableIn(pages[h]))

Unspoilt ==
  /\ ~ Formatted => live = {} /\ State # "formatted"
  /\ Formatted => Apart /\ Taken /\ Left
  /\ Refound /\ Backup
  /\ Up /\ Sound => Keeps

DataInv == MapFailuresInv /\ (~ adrift => Unspoilt)

----------------------------------------------------------------------------
(* What was answered, and the blocks it gave away.                         *)

\* The map block that leads answers what a reboot may find.
LEMMA LeadOwes ==
  ASSUME OneMapPage, MapFailuresInv, ~ adrift, NEW h, Leads(h, Area)
  PROVE  Owed(TableIn(pages[h])) /\ TableIn(pages[h]) \in [Area -> Entry]
<1> USE DEF MapFailuresInv, TidyInv, ReservedInv, TypeInv
<1>1. PICK g \in Area : Leads(g, Area) /\ Owed(TableIn(pages[g]))
  BY DEF Failing, Headed, Led, Blind, Leads
<1>2. g = h
  BY <1>1, OneLeads
<1>3. h \in Area /\ Whole(pages[h]) /\ pages[h] \in PageLog
  BY MapBlockIs, AreaLogs DEF Leads
<1> QED
  BY <1>1, <1>2, <1>3, TableInType

\* The mapping of a table is made of its entries.
LEMMA MappingIs ==
  ASSUME NEW T
  PROVE  /\ \A u \in User : /\ Mapping(T)[u] = BM_GetSwappingBlock(T, u)
                            /\ Mapping(T)[u] \in Area => T[Mapping(T)[u]] = u
         /\ \A u, v \in User : u # v => Mapping(T)[u] # Mapping(T)[v]
<1>1. \A u \in User : Mapping(T)[u] = BM_GetSwappingBlock(T, u)
  BY DEF Mapping
<1>2. \A u \in User : BM_GetSwappingBlock(T, u) \in Area => T[BM_GetSwappingBlock(T, u)] = u
  BY SwappingBlockIs, AreaNumbers
<1> QED
  BY <1>1, <1>2, BlocksDiffer

\* A block in use stays so, or goes bad.
LEMMA InUseStays ==
  ASSUME OneMapPage, MapFailuresInv, ~ adrift, [Next]_vars, ~ Boot, ~ PowerLoss,
         NEW e \in Area, SwapTable[e] \in User \cup {BAD}
  PROVE  SwapTable'[e] \in User \cup {BAD}
<1> USE DEF MapFailuresInv, TidyInv, ReservedInv, TypeInv, TypeOK
<1>1. SwapTable \in [Area -> Entry] /\ e \in Area /\ MapTarget \in Area
  BY MapTargetType DEF RamTypes
<1>2. CASE Rejects \/ Enters \/ Moves
  <2>1. Up /\ Phase \in {"erase_new", "copy", "register", "install"} /\ Replacing
    BY <1>2, NewBlockKeepsSound
  <2>2. op.new \in Area /\ (op.bad \in Area => SwapTable[op.bad] \in User)
    BY <2>1, CallRuns DEF Up
  <2>3. CASE Rejects
    BY <1>1, <2>2, <2>3 DEF Rejects, RejectNewBlock
  <2>4. CASE Enters
    BY <1>1, <2>2, <2>4 DEF Enters, Install
  <2>5. CASE Moves
    BY <1>1, <2>2, <2>5 DEF Moves, Moved, Install
  <2> QED
    BY <1>2, <2>3, <2>4, <2>5
<1>3. ASSUME NEW sav, TakesSpare(sav) PROVE SwapTable'[e] \in User \cup {BAD}
  BY <1>1, <1>3, SpecialEntries DEF TakesSpare
<1>4. CASE GivesUp
  BY <1>1, <1>4 DEF GivesUp
<1> QED
  BY <1>1, <1>2, <1>3, <1>4, TableSteps

LEMMA TakenStep ==
  ASSUME OneMapPage, MapFailuresInv, ~ adrift, Taken, [Next]_vars, ~ Boot, ~ PowerLoss
  PROVE  Taken'
<1> USE DEF MapFailuresInv
<1> SUFFICES ASSUME Up', NEW f \in {answered', pending'}, NEW u \in User, f[u] \in Area
             PROVE  SwapTable'[f[u]] \in User \cup {BAD}
  BY DEF Taken
<1>1. Up
  <2>1. Up \/ UNCHANGED vars
    BY TableSteps
  <2> QED
    BY <2>1 DEF vars, call, Up
<1>2. CASE f \in {answered, pending}
  BY <1>1, <1>2, InUseStays DEF Taken
<1>3. CASE f = Mapping(SwapTable)
  <2>1. SwapTable[f[u]] = u
    BY <1>3, MappingIs
  <2> QED
    BY <2>1, InUseStays
<1>4. CASE f = Mapping(SwapTable')
  BY <1>4, MappingIs
<1>5. Enters \/ Moves => pending' = Mapping(SwapTable')
  BY DEF Enters, Moves, Install
<1> QED
  BY <1>2, <1>3, <1>4, <1>5, AnswerSteps

LEMMA ApartStep ==
  ASSUME OneMapPage, MapFailuresInv, ~ adrift, Apart, Taken, [Next]_vars, ~ Boot
  PROVE  Apart'
<1> USE DEF MapFailuresInv, TidyInv
<1>1. CASE UNCHANGED <<answered, pending>>
  BY <1>1 DEF Apart
<1>2. CASE answered' = Mapping(SwapTable) /\ pending' = answered'
  BY <1>2, MappingIs DEF Apart
<1>3. CASE (Enters \/ Moves) /\ UNCHANGED answered
  <2>1. pending' = Mapping(SwapTable') /\ Up /\ Sound /\ Replacing
        /\ Phase \in {"erase_new", "copy", "register", "install"}
    BY <1>3, NewBlockKeepsSound DEF Enters, Moves, Install
  <2>2. Mapping(SwapTable) = answered
    BY <2>1 DEF Failing, Replied
  <2>3. op.new \in Area /\ SwapTable[op.new] = FREE
    BY <2>1, CallRuns DEF Up
  <2>4. \A u \in User : answered[u] # op.new
    BY <2>1, <2>3, SpecialEntries DEF Taken
  <2>5. \A u \in User : pending'[u] = op.new \/ pending'[u] = answered[u]
    BY <1>3, <2>1, <2>2, RegisterMaps, MappingIs
  <2>6. \A u, v \in User : u # v => pending'[u] # answered[v]
    BY <2>4, <2>5 DEF Apart
  <2>7. \A u, v \in User : u # v => pending'[u] # pending'[v]
    BY <2>1, MappingIs
  <2> QED
    BY <1>3, <2>6, <2>7 DEF Apart
<1> QED
  BY <1>1, <1>2, <1>3, AnswerSteps

LEMMA LeftStep ==
  ASSUME OneMapPage, MapFailuresInv, ~ adrift, Left, [Next]_vars, ~ Boot, ~ PowerLoss
  PROVE  Left'
<1> USE DEF MapFailuresInv, TidyInv, ReservedInv, TypeInv, TypeOK
<1> SUFFICES ASSUME Up', ~ Sound' PROVE Mapping(SwapTable') = pending'
  BY DEF Left
<1>1. Up
  <2>1. Up \/ UNCHANGED vars
    BY TableSteps
  <2> QED
    BY <2>1 DEF vars, call, Up
<1>2. CASE Sound
  <2>1. ~ UNCHANGED <<SwapTable, MapBlock>>
    BY <1>2 DEF Sound
  <2>2. ~ (Rejects \/ Enters \/ Moves)
    <3>1. ASSUME Rejects \/ Enters \/ Moves, UNCHANGED MapBlock PROVE Sound'
      BY <1>2, <3>1, NewBlockKeepsSound DEF Sound, RamTypes
    <3> QED
      BY <3>1, TableSteps DEF Rejects, Enters, Moves, RejectNewBlock, Install, StartSave
  <2>3. PICK sav : /\ MarkMap \/ WriteOne
                   /\ TakesSpare(sav) \/ GivesUp
    BY <2>1, <2>2, TableSteps
  <2>4. UNCHANGED CurMapBlockIdx
    BY <2>3 DEF MarkMap, WriteOne
  <2>5. ~ TakesSpare(sav)
    BY <1>1, <1>2, <2>4, SpareKeepsSound, TypeInvStep DEF Failing, Paired
  <2>6. GivesUp
    BY <2>3, <2>5
  <2>7. Saving /\ MapTarget \in Area /\ SwapTable[MapTarget] = MAP /\ UNCHANGED pending
    BY <1>2, <2>3, <2>6, MapTargetType
    DEF MarkMap, WriteOne, Saving, GivesUp, hist, Sound, MapTarget, RamTypes
  <2>8. Mapping(SwapTable') = Mapping(SwapTable)
    <3>1. \A e \in Area : SwapTable[e] = SwapTable'[e]
                          \/ (SwapTable[e] \notin User /\ SwapTable'[e] \notin User)
      BY <2>6, <2>7, SpecialEntries DEF GivesUp, RamTypes
    <3> QED
      BY <3>1, SameMapping
  <2>9. Mapping(SwapTable) = pending
    BY <1>1, <1>2, <2>7 DEF Failing, Replied, Paired, Replacing, CallTypes, Phase
  <2> QED
    BY <2>7, <2>8, <2>9
<1>3. CASE ~ Sound
  <2>1. pc \in {"idle", "get_free"} /\ ~ (Rejects \/ Enters \/ Moves)
    BY <1>1, <1>3, NewBlockKeepsSound DEF Failing, Paired
  <2>2. UNCHANGED SwapTable
    BY <2>1, TableSteps DEF MarkMap, WriteOne
  <2>3. UNCHANGED pending
    BY <2>1, AnswerSteps
  <2> QED
    BY <1>1, <1>3, <2>2, <2>3 DEF Left
<1> QED
  BY <1>2, <1>3


----------------------------------------------------------------------------
(* The data behind the table in memory.                                    *)

\* A save writes to no block that holds data.
LEMMA SaveData ==
  ASSUME TidyInv, EraseMap \/ MarkMap \/ WriteAll \/ WriteOne \/ MarkDelayed,
         NEW c \in Block \ {MapTarget}
  PROVE  data'[c] = data[c]
<1>1. MapTarget \in Block
  BY MapTargetType DEF TidyInv, ReservedInv, TypeInv, TypeOK, Block
<1>2. CASE EraseMap
  BY <1>1, <1>2, DataFrame DEF EraseMap
<1>3. CASE MarkMap \/ MarkDelayed
  BY <1>3 DEF MarkMap, MarkDelayed, MarkBadBlock
<1>4. CASE WriteAll \/ WriteOne
  <2>1. UNCHANGED data \/ \E pg : Programmed(MapTarget, pg)
    BY <1>4 DEF WriteAll, WriteOne, WriteMapPage, WriteMapPageFails, ProgramFail, flash
  <2> QED
    BY <1>1, <2>1, DataFrame
<1> QED
  BY <1>2, <1>3, <1>4

LEMMA MapSaveKeeps ==
  ASSUME OneMapPage, MapFailuresInv, ~ adrift, Keeps, [Next]_vars, Up', Sound',
         EraseMap \/ MarkMap \/ WriteAll \/ WriteOne \/ MarkDelayed
  PROVE  Keeps'
<1> USE DEF MapFailuresInv, TidyInv, ReservedInv, TypeInv, TypeOK
<1>1. Saving /\ Up /\ Sound /\ ~ Boot /\ ~ PowerLoss
  <2>1. Saving /\ ~ Boot /\ ~ PowerLoss
    BY DEF EraseMap, MarkMap, WriteAll, WriteOne, MarkDelayed, Saving, Boot, PowerLoss, Up
  <2> QED
    BY <2>1, SoundBefore
<1>2. /\ SwapTable \in [Area -> Entry] /\ live \subseteq User
      /\ save.next \in {"get_free", "install", "done", "format"}
      /\ MapTarget \in Area /\ SwapTable[MapTarget] = MAP
  BY <1>1, MapTargetType DEF RamTypes, HistoryTypes, CallTypes, Sound, MapTarget
<1>3. \/ UNCHANGED <<SwapTable, save, op, hist>> /\ (pc' = "mark_delayed" \/ pc' = save.next)
      \/ UNCHANGED <<SwapTable, op, hist>> /\ pc' \in {"write_all", "mark_map"}
         /\ save'.next = save.next
      \/ \E sav : TakesSpare(sav) /\ sav.next = save.next /\ MapBlock[1] # MapBlock[2]
                  /\ UNCHANGED CurMapBlockIdx
  <2>1. CASE EraseMap \/ WriteAll
    BY <2>1 DEF EraseMap, WriteAll, SaveEnds, ram, hist, CallTypes
  <2>2. CASE MarkDelayed
    BY <2>2 DEF MarkDelayed, ram
  <2>3. CASE MarkMap \/ WriteOne
    <3>1. ~ GivesUp /\ MapBlock[1] # MapBlock[2] /\ UNCHANGED CurMapBlockIdx
      BY <1>1, <2>3, GivenUp DEF MarkMap, WriteOne, Failing, Paired
    <3> QED
      BY <2>3, <3>1, Retirements DEF SaveEnds
  <2> QED
    BY <2>1, <2>2, <2>3
<1>4. Phase' = Phase /\ UNCHANGED <<op, live>>
  BY <1>1, <1>2, <1>3 DEF Phase, Saving, TakesSpare, hist
<1>5. Mapping(SwapTable') = Mapping(SwapTable)
      /\ \A e \in Area : SwapTable[e] \in User => SwapTable'[e] = SwapTable[e]
  <2>1. CASE UNCHANGED SwapTable
    BY <2>1
  <2>2. ASSUME NEW sav, TakesSpare(sav), MapBlock[1] # MapBlock[2], UNCHANGED CurMapBlockIdx
        PROVE  Mapping(SwapTable') = Mapping(SwapTable)
               /\ \A e \in Area : SwapTable[e] \in User => SwapTable'[e] = SwapTable[e]
    <3>1. Mapping(SwapTable') = Mapping(SwapTable)
      BY <1>1, <2>2, SpareKeepsSound, TypeInvStep
    <3> QED
      BY <1>2, <2>2, <3>1, SpecialEntries DEF TakesSpare
  <2> QED
    BY <1>3, <2>1, <2>2
<1>6. \A u \in live : data'[BM_GetSwappingBlock(SwapTable', u)]
                        = data[BM_GetSwappingBlock(SwapTable, u)]
  <2> SUFFICES ASSUME NEW u \in live
               PROVE  data'[BM_GetSwappingBlock(SwapTable', u)]
                        = data[BM_GetSwappingBlock(SwapTable, u)]
    OBVIOUS
  <2>1. BM_GetSwappingBlock(SwapTable', u) = BM_GetSwappingBlock(SwapTable, u)
    BY <1>2, <1>5, MappingIs
  <2>2. BM_GetSwappingBlock(SwapTable, u) \in Block \ {MapTarget}
    BY <1>2, UserBlock, BlockIsNot, SpecialEntries
  <2> QED
    BY <2>1, <2>2, SaveData
<1>7. Phase \in {"register", "install"} => data'[op.new] = data[op.new]
  BY <1>1, NewBlock, SaveData DEF Up
<1>8. Replacing => Victim' = Victim
  BY <1>1, <1>4, <1>5, CallRuns DEF Victim, Up
<1> QED
  BY <1>1, <1>4, <1>6, <1>7, <1>8 DEF Keeps, Replacing, Up


LEMMA SoundKeeps ==
  ASSUME OneMapPage, MapFailuresInv, ~ adrift, Up /\ Sound => Keeps, [Next]_vars,
         ~ Boot, ~ PowerLoss, Up', Sound'
  PROVE  Keeps'
<1> USE DEF MapFailuresInv
<1>1. Up /\ Sound /\ Keeps /\ ~ Reformat
  BY SoundBefore, NeverReformats DEF TidyInv, ReservedInv
<1>2. CASE EraseMap \/ MarkMap \/ WriteAll \/ WriteOne \/ MarkDelayed
  BY <1>1, <1>2, MapSaveKeeps
<1>3. CASE EraseNew \/ CopyPages
  BY <1>1, <1>3, NewBlockKeeps
<1>4. CASE Register \/ InstallOriginal
  <2>1. Enters \/ Moves
    <3>1. pc \in {"register", "install"} /\ Phase = pc
      BY <1>4 DEF Register, InstallOriginal, Phase, Saving
    <3>2. ~ InstallOriginal
      BY <1>1, <3>1 DEF InstallOriginal, Failing, Paired
    <3>3. op.bad \in Area => MAP_OFFSET(op.bad) = MAP_OFFSET(op.new)
      <4>1. op.new \in Area
        BY <1>1, <1>4, <3>1, <3>2, CallRuns DEF Up, Register
      <4> QED
        BY <4>1, OnePage
    <3> QED
      BY <1>4, <3>2, <3>3 DEF Register, Enters, Moves
  <2> QED
    BY <1>1, <2>1, EntersKeeps
<1>5. CASE \E u \in User : \/ ProgramUser(u) \/ ProgramUserFails(u)
                           \/ EraseUser(u) \/ EraseUserFails(u)
  BY <1>1, <1>5, UserKeeps
<1>6. CASE GetFreeBlock \/ FormatSecondBlock \/ Done
  BY <1>1, <1>6, PlainKeeps
<1>7. CASE UNCHANGED vars
  BY <1>1, <1>7 DEF vars, flash, ram, call, hist, Keeps, Phase, Saving, Replacing, Victim
<1> QED
  BY <1>1, <1>2, <1>3, <1>4, <1>5, <1>6, <1>7 DEF Next, Step


----------------------------------------------------------------------------
(* The data behind the tables a reboot may find.                           *)

\* Idle, the manager sends callers where the call in progress, if it failed
\* to save, was to send them.
LEMMA IdleSends ==
  ASSUME MapFailuresInv, ~ adrift, Left, Idle
  PROVE  Mapping(SwapTable) = pending
<1>1. Up /\ Phase = "idle"
  BY DEF Idle, Up, Phase, Saving
<1> QED
  BY <1>1 DEF MapFailuresInv, Failing, Replied, Left

\* The blocks whose data a step may change, and what it makes of live.
LEMMA DataSteps ==
  ASSUME TidyInv, budget["format"] = 0, [Next]_vars, ~ Boot
  PROVE  \/ UNCHANGED <<data, live>>
         \/ /\ Saving /\ UNCHANGED live
            /\ \A c \in Block \ {MapTarget} : data'[c] = data[c]
         \/ /\ pc \in {"erase_new", "copy"} /\ UNCHANGED live
            /\ \A c \in Block \ {op.new} : data'[c] = data[c]
         \/ /\ Idle
            /\ \E v \in User :
                 /\ \A c \in Block \ {BlockOf(v)} : data'[c] = data[c]
                 /\ \/ live' = live \ {v}
                    \/ /\ data'[BlockOf(v)] = v
                       /\ live' = IF BlockOf(v) = answered[v] THEN live \cup {v} ELSE live \ {v}
<1> USE DEF TidyInv, ReservedInv
<1>0. /\ MapTarget \in Block /\ TypeInv /\ SwapTable \in [Area -> Entry]
      /\ data \in [Block -> User \cup {ERASED, JUNK}]
  BY MapTargetType DEF TypeInv, TypeOK, Block, RamTypes, FlashTypes
<1>1. CASE EraseMap \/ MarkMap \/ WriteAll \/ WriteOne \/ MarkDelayed
  <2>1. Saving
    BY <1>1 DEF EraseMap, MarkMap, WriteAll, WriteOne, MarkDelayed, Saving
  <2>2. UNCHANGED live
    BY <1>1 DEF EraseMap, MarkMap, WriteAll, WriteOne, MarkDelayed, ReplaceMapBlock,
                RetireCurrent, Abort, hist
  <2> QED
    BY <1>1, <2>1, <2>2, SaveData
<1>2. CASE EraseNew \/ CopyPages
  <2>1. pc \in {"erase_new", "copy"} /\ UNCHANGED live
    BY <1>2 DEF EraseNew, CopyPages, RejectNewBlock, hist
  <2>2. op.new \in Block
    BY <2>1 DEF TypeInv, TypeOK, CallShape, Phase, Saving, Block
  <2> QED
    BY <1>2, <2>1, <2>2, DataFrame DEF EraseNew, CopyPages
<1>3. ASSUME NEW v \in User, ProgramUser(v) \/ EraseUser(v) \/ EraseUserFails(v)
      PROVE  /\ Idle
             /\ \A c \in Block \ {BlockOf(v)} : data'[c] = data[c]
             /\ \/ live' = live \ {v}
                \/ /\ data'[BlockOf(v)] = v
                   /\ live' = IF BlockOf(v) = answered[v] THEN live \cup {v} ELSE live \ {v}
  <2>1. BlockOf(v) \in Block
    BY <1>0, UserBlock DEF BlockOf
  <2>2. \A c \in Block \ {BlockOf(v)} : data'[c] = data[c]
    BY <1>3, <2>1, DataFrame DEF ProgramUser, EraseUser, EraseUserFails
  <2> QED
    BY <1>0, <1>3, <2>1, <2>2 DEF ProgramUser, EraseUser, EraseUserFails
<1>4. CASE PowerLoss
  <2>1. UNCHANGED live
    BY <1>4 DEF PowerLoss, hist
  <2>2. CASE UNCHANGED flash
    BY <2>1, <2>2 DEF flash
  <2>3. CASE pc \in {"erase_new", "copy"} /\ Interrupted
    <3>1. op.new \in Block
      BY <2>3 DEF TypeInv, TypeOK, CallShape, Phase, Saving, Block
    <3>2. CutErase(op.new) \/ EraseTo(op.new, pages[op.new], JUNK)
      BY <2>3 DEF Interrupted
    <3>3. \A c \in Block \ {op.new} : data'[c] = data[c]
      BY <3>1, <3>2, DataFrame DEF EraseTo
    <3> QED
      BY <2>1, <2>3, <3>3
  <2>4. CASE pc \in {"erase_map", "write_all", "write_one"} /\ Interrupted
    <3>1. CutErase(MapTarget) \/ Programmed(MapTarget, TORN)
      BY <2>4 DEF Interrupted
    <3>2. \A c \in Block \ {MapTarget} : data'[c] = data[c]
      BY <1>0, <3>1, DataFrame
    <3> QED
      BY <2>1, <2>4, <3>2 DEF Saving
  <2> QED
    BY <1>4, <2>2, <2>3, <2>4 DEF PowerLoss, Interrupted
<1>5. CASE \/ FormatSecondBlock \/ GetFreeBlock \/ Register \/ InstallOriginal \/ Done
           \/ UNCHANGED vars \/ \E u \in User : ProgramUserFails(u)
  BY <1>5
  DEF FormatSecondBlock, GetFreeBlock, NoFreeBlock, Abort, Register, InstallOriginal, Install,
      Done, ProgramUserFails, vars, flash, hist
<1>6. ~ Reformat
  BY NeverReformats
<1> QED
  BY <1>1, <1>2, <1>3, <1>4, <1>5, <1>6 DEF Next, Step

\* No step spoils the data behind a table that a reboot may find.
LEMMA HoldsStays ==
  ASSUME MapFailuresInv, ~ adrift, Apart, Taken, Left, [Next]_vars, ~ Boot,
         NEW T \in [Area -> Entry], Owed(T), Holds(T)
  PROVE  Holds(T)'
<1> USE DEF MapFailuresInv, TidyInv, ReservedInv, TypeInv, TypeOK
<1>1. live \subseteq User /\ MapTarget \in Area
  BY MapTargetType DEF HistoryTypes
<1>2. PICK f \in {answered, pending} : \A u \in User : BM_GetSwappingBlock(T, u) = f[u]
  BY MappingIs DEF Owed
<1>3. \A u \in User : BM_GetSwappingBlock(T, u) \in Block
  BY UserBlock
<1>4. ASSUME Up, NEW b \in Area, SwapTable[b] \in {FREE, MAP}, NEW u \in User
      PROVE  BM_GetSwappingBlock(T, u) # b
  BY <1>2, <1>4, SpecialEntries DEF Taken
<1>5. CASE UNCHANGED <<data, live>>
  BY <1>5 DEF Holds
<1>6. CASE Saving /\ UNCHANGED live /\ \A c \in Block \ {MapTarget} : data'[c] = data[c]
  <2>1. Up /\ SwapTable[MapTarget] = MAP
    <3>1. Up /\ Sound
      BY <1>6 DEF Saving, Up, Failing, Paired
    <3> QED
      BY <3>1 DEF Sound, MapTarget, RamTypes
  <2>2. \A u \in User : BM_GetSwappingBlock(T, u) # MapTarget
    BY <1>1, <1>4, <2>1
  <2> QED
    BY <1>1, <1>3, <1>6, <2>2 DEF Holds
<1>7. CASE pc \in {"erase_new", "copy"} /\ UNCHANGED live
           /\ \A c \in Block \ {op.new} : data'[c] = data[c]
  <2>1. Up /\ Phase \in {"erase_new", "copy", "register", "install"}
    BY <1>7 DEF Up, Phase, Saving
  <2>2. op.new \in Area /\ SwapTable[op.new] = FREE
    BY <2>1, CallRuns DEF Up
  <2>3. \A u \in User : BM_GetSwappingBlock(T, u) # op.new
    BY <1>4, <2>1, <2>2
  <2> QED
    BY <1>1, <1>3, <1>7, <2>3 DEF Holds
<1>8. ASSUME Idle, NEW v \in User, \A c \in Block \ {BlockOf(v)} : data'[c] = data[c],
             \/ live' = live \ {v}
             \/ /\ data'[BlockOf(v)] = v
                /\ live' = IF BlockOf(v) = answered[v] THEN live \cup {v} ELSE live \ {v}
      PROVE  Holds(T)'
  <2>1. BlockOf(v) = pending[v]
    BY <1>8, IdleSends, MappingIs DEF BlockOf
  <2>2. \A u \in User \ {v} : BM_GetSwappingBlock(T, u) # BlockOf(v)
    BY <1>2, <2>1 DEF Apart
  <2>3. \A u \in live' \ {v} : data'[BM_GetSwappingBlock(T, u)] = u
    BY <1>1, <1>3, <1>8, <2>2 DEF Holds
  <2>4. v \in live' => data'[BM_GetSwappingBlock(T, v)] = v
    BY <1>2, <1>8, <2>1
  <2> QED
    BY <2>3, <2>4 DEF Holds
<1> QED
  BY <1>5, <1>6, <1>7, <1>8, DataSteps


\* What the map block that leads after a step holds, was saved by the step, or
\* is what the one that led before held, or the next one when that was marked.
LEMMA LeadComes ==
  ASSUME OneMapPage, MapFailuresInv, ~ adrift, [Next]_vars, ~ Boot,
         NEW g \in Area, Leads(g, Area)'
  PROVE  \/ Saving /\ TableIn(pages'[g]) = SwapTable
         \/ \E h \in Area : Leads(h, Area) /\ TableIn(pages'[g]) = TableIn(pages[h])
         \/ /\ pc = "mark_map" /\ Leads(MapTarget, Area) /\ Leads(g, Rest)
            /\ Owed(TableIn(pages[g])) /\ TableIn(pages'[g]) = TableIn(pages[g])
<1> USE DEF MapFailuresInv, TidyInv
<1>1. PICK m \in Area : m = MapTarget
  BY MapTargetType DEF ReservedInv, TypeInv, TypeOK
<1>2. CASE pc = "write_all" /\ IsMapBlock(m)'
  <2>1. Leads(m, Area)' /\ TableIn(pages'[m]) = SwapTable
    BY <1>1, <1>2, NewLead
  <2>2. g = m
    BY <2>1, OneLeadsNext
  <2> QED
    BY <1>2, <2>1, <2>2 DEF Saving
<1>3. CASE pc = "write_one"
  <2>1. Leads(m, Area) /\ Leads(m, Area)' /\ TableIn(pages'[m]) \in {TableIn(pages[m]), SwapTable}
    BY <1>1, <1>3, LeadGrows
  <2>2. g = m
    BY <2>1, OneLeadsNext
  <2> QED
    BY <1>3, <2>1, <2>2 DEF Saving
<1>4. CASE pc # "write_one" /\ ~ (pc = "write_all" /\ IsMapBlock(m)')
  <2>1. \A b \in Area : IsMapBlock(b)' => IsMapBlock(b)
    BY <1>1, <1>4, MapBlocksStep DEF Failing
  <2>2. ~ Blind(Area)'
    BY DEF Blind, Leads
  <2>3. PICK h \in Area :
          /\ Leads(h, Area)' /\ TableIn(pages'[h]) = TableIn(pages[h])
          /\ Owed(TableIn(pages[h]))
          /\ Leads(h, Area) \/ (pc = "mark_map" /\ Leads(MapTarget, Area) /\ Leads(h, Rest))
    BY <1>4, <2>1, <2>2, LeadPasses
  <2>4. g = h
    BY <2>3, OneLeadsNext
  <2> QED
    BY <2>3, <2>4
<1> QED
  BY <1>2, <1>3, <1>4


\* A table on the chip that began to be read, whole.
LEMMA MapBlockTable ==
  ASSUME OneMapPage, TypeInv, NEW b \in Area, IsMapBlock(b)
  PROVE  TableIn(pages[b]) \in [Area -> Entry]
BY MapBlockIs, AreaLogs, TableInType

LEMMA RefoundStep ==
  ASSUME OneMapPage, MapFailuresInv, ~ adrift, Apart, Taken, Left, Refound, Backup,
         Up /\ Sound => Keeps, [Next]_vars, ~ Boot
  PROVE  Refound'
<1> USE DEF MapFailuresInv, TidyInv, ReservedInv
<1> SUFFICES ASSUME NEW g \in Area, Leads(g, Area)'
             PROVE  \A u \in live' : data'[BM_GetSwappingBlock(TableIn(pages'[g]), u)] = u
  BY DEF Refound, Holds
<1>1. ASSUME NEW T \in [Area -> Entry], TableIn(pages'[g]) = T, Owed(T), Holds(T)
      PROVE  \A u \in live' : data'[BM_GetSwappingBlock(TableIn(pages'[g]), u)] = u
  BY <1>1, HoldsStays DEF Holds
<1>2. CASE Saving /\ TableIn(pages'[g]) = SwapTable
  <2>1. PICK T \in [Area -> Entry] : T = SwapTable
    BY DEF TypeInv, TypeOK, RamTypes
  <2>2. Up /\ Sound /\ Phase # "install"
    BY <1>2 DEF Saving, Up, Failing, Paired
  <2>3. Owed(SwapTable)
    BY <1>2, <2>2, SavedIsOwed DEF TypeInv, TypeOK
  <2>4. Holds(SwapTable)
    BY <2>2 DEF Keeps, Holds, Up
  <2> QED
    BY <1>1, <1>2, <2>1, <2>3, <2>4
<1>3. ASSUME NEW h \in Area, Leads(h, Area), TableIn(pages'[g]) = TableIn(pages[h])
      PROVE  \A u \in live' : data'[BM_GetSwappingBlock(TableIn(pages'[g]), u)] = u
  <2>1. PICK T : T = TableIn(pages[h])
    OBVIOUS
  <2>2. Owed(T) /\ T \in [Area -> Entry] /\ Holds(T)
    BY <1>3, <2>1, LeadOwes DEF Refound
  <2> QED
    BY <1>1, <1>3, <2>1, <2>2
<1>4. CASE /\ pc = "mark_map" /\ Leads(MapTarget, Area) /\ Leads(g, Rest)
           /\ Owed(TableIn(pages[g])) /\ TableIn(pages'[g]) = TableIn(pages[g])
  <2>1. PICK T : T = TableIn(pages[g])
    OBVIOUS
  <2>2. T \in [Area -> Entry] /\ Holds(T)
    BY <1>4, <2>1, MapBlockTable DEF Backup, Leads
  <2> QED
    BY <1>1, <1>4, <2>1, <2>2
<1> QED
  BY <1>2, <1>3, <1>4, LeadComes DEF Leads

LEMMA BackupStep ==
  ASSUME OneMapPage, MapFailuresInv, ~ adrift, Apart, Taken, Left, Refound, Backup,
         [Next]_vars, ~ Boot
  PROVE  Backup'
<1> USE DEF MapFailuresInv, TidyInv, ReservedInv
<1> SUFFICES ASSUME pc' = "mark_map", NEW m \in Area, m = MapTarget', Leads(m, Area)',
                    NEW S \in SUBSET Area, S = Area \ {m}, NEW g \in Area, Leads(g, S)'
             PROVE  \A u \in live' : data'[BM_GetSwappingBlock(TableIn(pages'[g]), u)] = u
  <2>1. PICK m : m = MapTarget'
    OBVIOUS
  <2>2. PICK S : S = Area \ {m}
    OBVIOUS
  <2>3. Leads(MapTarget, Area)' => m \in Area
    BY <2>1 DEF Leads
  <2>4. ASSUME NEW h \in Area, pc' = "mark_map", m \in Area, Leads(m, Area)', Leads(h, S)'
        PROVE  \A u \in live' : data'[BM_GetSwappingBlock(TableIn(pages'[h]), u)] = u
    BY <2>1, <2>2, <2>4
  <2> QED
    BY <2>1, <2>2, <2>3, <2>4 DEF Backup, Holds, Rest
<1>0. ~ PowerLoss
  BY DEF PowerLoss
<1>1. CASE UNCHANGED vars
  <2>1. /\ pc = "mark_map" /\ m = MapTarget /\ UNCHANGED <<pages, marked, data, live>>
        /\ Leads(m, Area) /\ S = Rest
    BY <1>1, SameChip DEF vars, ram, call, flash, hist, MapTarget, Rest
  <2>2. Leads(g, S)
    BY <2>1 DEF Leads, Precedes, IsMapBlock
  <2> QED
    BY <2>1, <2>2 DEF Backup, Holds
<1>2. CASE ~ UNCHANGED vars
  <2>1. /\ ~ IsMapBlock(m)
        /\ \A b \in S : (IsMapBlock(b)' <=> IsMapBlock(b)) /\ (IsMapBlock(b)' => LogKept(b))
    BY <1>0, <1>2, MarkComes
  <2>2. PICK h \in Area : Leads(h, Area)
    BY <2>1 DEF Leads, Failing, Headed, Blind, Led
  <2>3. h \in S /\ Leads(h, S)
    BY <2>1, <2>2 DEF Leads
  <2>4. Leads(h, S)' /\ TableIn(pages'[h]) = TableIn(pages[h])
    BY <2>1, <2>3, LeadStays DEF Leads
  <2>5. g = h
    BY <2>4, OneLeadsNext
  <2>6. PICK T : T = TableIn(pages[h])
    OBVIOUS
  <2>7. Owed(T) /\ T \in [Area -> Entry] /\ Holds(T)
    BY <2>2, <2>6, LeadOwes DEF Refound
  <2>8. Holds(T)'
    BY <2>7, HoldsStays
  <2> QED
    BY <2>4, <2>5, <2>6, <2>8 DEF Holds
<1> QED
  BY <1>1, <1>2


----------------------------------------------------------------------------
(* The invariant of the data.                                              *)

LEMMA MappingNotEmpty ==
  ASSUME NEW T PROVE Mapping(T) # << >>
<1>1. 0 \in DOMAIN Mapping(T)
  BY GeometryAssumption DEF Mapping, User
<1>2. DOMAIN << >> = {}
  OBVIOUS
<1> QED
  BY <1>1, <1>2

\* Before the first format is done, nobody writes.
LEMMA BeforeFormat ==
  ASSUME OneMapPage, MapFailuresInv, ~ adrift, [Next]_vars, ~ Boot, ~ Formatted,
         live = {}, State # "formatted"
  PROVE  /\ live' = {}
         /\ ~ Formatted' => State' # "formatted"
         /\ Formatted' => /\ answered' = Mapping(SwapTable') /\ pending' = answered'
                          /\ UNCHANGED SwapTable
<1> USE DEF MapFailuresInv, TidyInv, ReservedInv
<1>1. live' = {}
  BY DataSteps DEF Idle
<1>2. ~ Reformat
  BY NeverReformats
<1>3. CASE Done
  BY <1>1, <1>3, MappingNotEmpty DEF Done, Formatted
<1>4. CASE ~ Done
  <2>1. UNCHANGED answered
    BY <1>2, <1>4, AnswerSteps
    DEF Next, Step, FormatSecondBlock, GetFreeBlock, EraseNew, CopyPages, Register,
        InstallOriginal, EraseMap, MarkMap, WriteAll, WriteOne, MarkDelayed, Idle,
        ProgramUser, ProgramUserFails, EraseUser, EraseUserFails, vars, PowerLoss, hist
  <2>2. State' # "formatted"
    BY <1>2, <1>4
    DEF Next, Step, FormatSecondBlock, GetFreeBlock, NoFreeBlock, EraseNew, CopyPages,
        RejectNewBlock, Register, InstallOriginal, Install, StartSave, EraseMap, MarkMap,
        WriteAll, WriteOne, MarkDelayed, ProgramUser, ProgramUserFails, EraseUser,
        EraseUserFails, vars, ram, PowerLoss, BlankMemory
  <2> QED
    BY <1>1, <2>1, <2>2 DEF Formatted
<1> QED
  BY <1>3, <1>4

LEMMA UnspoiltStep ==
  ASSUME OneMapPage, MapFailuresInv, ~ adrift, Unspoilt, [Next]_vars, ~ Boot
  PROVE  Unspoilt'
<1> USE DEF MapFailuresInv, TidyInv, ReservedInv
<1>1. CASE ~ Formatted
  <2>1. /\ live' = {}
        /\ ~ Formatted' => State' # "formatted"
        /\ Formatted' => /\ answered' = Mapping(SwapTable') /\ pending' = answered'
                         /\ UNCHANGED SwapTable
    BY <1>1, BeforeFormat DEF Unspoilt
  <2>2. Formatted' => Apart' /\ Taken' /\ Left'
    <3> SUFFICES ASSUME answered' = Mapping(SwapTable'), pending' = answered'
                 PROVE  Apart' /\ Taken' /\ Left'
      BY <2>1
    <3>1. PICK T : T = SwapTable'
      OBVIOUS
    <3>2. /\ \A u, v \in User : u # v => Mapping(T)[u] # Mapping(T)[v]
          /\ \A u \in User : Mapping(T)[u] \in Area => T[Mapping(T)[u]] = u
      BY MappingIs
    <3>3. Apart'
      BY <3>1, <3>2 DEF Apart
    <3>4. Taken'
      BY <3>1, <3>2 DEF Taken
    <3> QED
      BY <3>3, <3>4 DEF Left
  <2>3. Refound' /\ Backup'
    BY <2>1 DEF Refound, Backup, Holds
  <2>4. Up' /\ Sound' => Keeps'
    BY <2>1 DEF Keeps
  <2> QED
    BY <2>1, <2>2, <2>3, <2>4 DEF Unspoilt
<1>2. CASE Formatted
  <2>1. Apart /\ Taken /\ Left /\ Refound /\ Backup /\ (Up /\ Sound => Keeps)
    BY <1>2 DEF Unspoilt
  <2>2. Formatted'
    BY <1>2, AnswerSteps, MappingNotEmpty DEF Formatted
  <2>3. Apart' /\ Refound' /\ Backup'
    BY <2>1, ApartStep, RefoundStep, BackupStep
  <2>4. CASE PowerLoss
    <3>1. ~ Up'
      BY <2>4 DEF PowerLoss, Up
    <3> QED
      BY <2>2, <2>3, <3>1 DEF Unspoilt, Taken, Left
  <2>5. CASE ~ PowerLoss
    <3>1. Taken' /\ Left'
      BY <2>1, <2>5, TakenStep, LeftStep
    <3>2. Up' /\ Sound' => Keeps'
      BY <2>1, <2>5, SoundKeeps
    <3> QED
      BY <2>2, <2>3, <3>1, <3>2 DEF Unspoilt
  <2> QED
    BY <2>4, <2>5
<1> QED
  BY <1>1, <1>2

LEMMA BootUnspoilt ==
  ASSUME OneMapPage, MapFailuresInv, ~ adrift, Unspoilt, Boot, ~ adrift'
  PROVE  Unspoilt'
<1> USE DEF MapFailuresInv, TidyInv, ReservedInv
<1>1. CASE ~ Openable /\ BM_Format
  <2>1. ~ Formatted
    BY <1>1, SightOpens DEF Failing, Headed
  <2>2. live' = {} /\ UNCHANGED answered /\ State' = "closed"
    BY <1>1 DEF BM_Format, BlankMemory
  <2>3. ~ Formatted' /\ Refound' /\ Backup' /\ Keeps'
    BY <2>1, <2>2 DEF Formatted, Refound, Backup, Holds, Keeps
  <2> QED
    BY <2>2, <2>3 DEF Unspoilt
<1>2. CASE Openable /\ BM_Open
  <2>1. Consistent
    BY <1>2 DEF BM_Open
  <2>2. ~ Blind(Area)
    BY <1>2, FoundWhole DEF Openable, Blind
  <2>3. PICK h \in Area : Leads(h, Area)
    BY <2>2 DEF Failing, Headed, Led
  <2>4. PICK T : T = TableIn(pages[h])
    OBVIOUS
  <2>5. OpenTable = T /\ Holds(T)
    BY <1>2, <2>1, <2>3, <2>4, LeadIsRead DEF Unspoilt, Refound
  <2>6. /\ SwapTable' = T /\ answered' = Mapping(T) /\ pending' = Mapping(T)
        /\ live' \subseteq live /\ UNCHANGED <<pages, data, marked>> /\ pc' = "idle"
    BY <1>2, <2>5 DEF BM_Open, flash
  <2>7. Formatted'
    BY <2>6, MappingNotEmpty DEF Formatted
  <2>8. /\ \A u, v \in User : u # v => Mapping(T)[u] # Mapping(T)[v]
        /\ \A u \in User : Mapping(T)[u] \in Area => T[Mapping(T)[u]] = u
    BY MappingIs
  <2>9. Apart' /\ Taken' /\ Left'
    BY <2>6, <2>8 DEF Apart, Taken, Left
  <2>10. Refound' /\ Backup'
    BY <2>6, SameChip DEF Unspoilt, Refound, Backup, Holds
  <2>11. Keeps'
    BY <2>5, <2>6 DEF Holds, Keeps, Phase, Saving, Replacing
  <2> QED
    BY <2>7, <2>9, <2>10, <2>11 DEF Unspoilt
<1> QED
  BY <1>1, <1>2 DEF Boot

LEMMA DataInvariant ==
  ASSUME OneMapPage PROVE Spec => []DataInv
<1>1. Init => DataInv
  <2> SUFFICES ASSUME Init PROVE DataInv
    OBVIOUS
  <2>1. live = {} /\ State # "formatted" /\ ~ Formatted /\ ~ Up /\ pc # "mark_map"
    BY DEF Init, Formatted, Up
  <2> QED
    BY <2>1, MapFailuresInit DEF DataInv, Unspoilt, Refound, Backup, Holds
<1>2. DataInv /\ [Next]_vars => DataInv'
  <2> SUFFICES ASSUME DataInv, [Next]_vars PROVE DataInv'
    OBVIOUS
  <2>1. MapFailuresInv'
    BY MapFailuresStep DEF DataInv
  <2>2. ASSUME ~ adrift' PROVE Unspoilt'
    <3>1. ~ adrift
      BY <2>2, AdriftStays DEF DataInv
    <3> QED
      BY <2>2, <3>1, UnspoiltStep, BootUnspoilt DEF DataInv
  <2> QED
    BY <2>1, <2>2 DEF DataInv
<1> QED
  BY <1>1, <1>2, PTL DEF Spec

(* With a map of one page, the data that callers wrote is found by a       *)
(* reboot though map blocks fail, and bad marks, and power is lost at any  *)
(* moment: unless a map block that was given up is still on the chip,      *)
(* unmarked, and the latest table does not know it for one.                *)
THEOREM DataSafeAfterFailures ==
  ASSUME OneMapPage PROVE Spec => []DataUnlessStray
<1>1. DataInv => DataUnlessStray
  <2> SUFFICES ASSUME DataInv, ~ adrift, Consistent, Formatted
               PROVE  \A u \in live \ window :
                        data[BM_GetSwappingBlock(OpenTable, u)] = u
    BY DEF DataUnlessStray, DataSurvives
  <2> USE DEF DataInv, MapFailuresInv
  <2>1. ~ Blind(Area)
    BY DEF Failing, Headed
  <2>2. PICK h \in Area : Leads(h, Area)
    BY <2>1 DEF Failing, Headed, Led
  <2>3. Openable /\ OpenTable = TableIn(pages[h])
    BY <2>1, <2>2, SightOpens, LeadIsRead
  <2> QED
    BY <2>2, <2>3 DEF Unspoilt, Refound, Holds
<1> QED
  BY <1>1, DataInvariant, PTL


=============================================================================
