--------------------------- MODULE Survival_proofs ---------------------------
(***************************************************************************)
(* What a reboot finds, as long as no map page fails and nobody formats a  *)
(* chip in use: whatever blocks fail and whenever power is lost, BM_Open   *)
(* reads a mapping that was answered or is being made, and behind it the   *)
(* data that callers wrote.  The invariant follows the map block that a    *)
(* reboot reads (Homed), how far its table is behind the one in memory     *)
(* (Trails), and what both lead to (Answers, Keeps and Rereads).           *)
(***************************************************************************)
EXTENDS MapLog_proofs

\* Each of the two map blocks has been map block since the first format, and
\* stays it: no map page fails.
NoMapFails == Budget["map"] = 0 /\ Budget["format"] = 0

Good == Area \ FactoryBad
Map1 == Lowest(Good)
Map2 == Lowest(Good \ {Map1})
MapPair == Good \cap {Map1, Map2}

\* A table of this chip: the map blocks and the factory-bad ones in place.
Settled(T) == /\ \A m \in MapPair : T[m] = MAP
              /\ \A e \in Area \cap FactoryBad : T[e] = BAD

Fixed ==
  /\ budget["map"] = 0 /\ budget["format"] = 0
  /\ ~ adrift
  /\ pc \notin {"mark_map", "mark_delayed"} /\ save.delayed = NoBlock
  /\ marked \subseteq FactoryBad /\ Area \cap FactoryBad \subseteq marked
  /\ \A b \in Area \ MapPair : Legible(pages[b]) = {}
  /\ \A b \in Area : Whole(pages[b]) =>
       Cardinality(Good) >= 2 /\ Settled(TableIn(pages[b]))
  /\ pc \notin {"off", "dead"} =>
       Cardinality(Good) >= 2 /\ Settled(SwapTable) /\ MapBlock = <<Map1, Map2>>

\* The map block that a reboot reads: it is whole, and every page of the
\* other one, if that is whole too, is earlier than the first of its pages.
HomedAt(h) ==
  /\ h \in MapPair /\ Whole(pages[h])
  /\ \A b \in MapPair \ {h} : Whole(pages[b]) =>
       \A k \in Legible(pages[b]) : pages[b][k].seq < pages[h][1].seq

Home == IF pc \in {"erase_map", "write_all"} THEN MapBlock[OtherMapBlock] ELSE MapTarget
Stored == TableIn(pages[Home])

FirstSave == Saving /\ save.next = "format"
Serving   == pc \notin {"off", "dead"} /\ ~ FirstSave

\* The table on the chip is behind in the segment being saved, if at all.
Trails == \A e \in Area : Stored[e] = SwapTable[e] \/ (Saving /\ MAP_OFFSET(e) = save.off)

Homed ==
  /\ Serving => /\ HomedAt(Home) /\ Below(pages[Home], Sequence) /\ Trails
                /\ (pc = "write_all" =>
                     \A k \in Legible(pages[MapTarget]) : \A m \in Legible(pages[Home]) :
                       pages[Home][m].seq < pages[MapTarget][k].seq)
  /\ ~ Serving /\ (Formatted \/ \E b \in Area : Whole(pages[b])) => \E h \in MapPair : HomedAt(h)
  /\ FirstSave => ~ Formatted /\ \A b \in Area : ~ Whole(pages[b])
  /\ Phase = "format" => CurMapBlockIdx = 2

\* The user block whose block is being replaced.
Victim == IF op.bad \in Area THEN SwapTable[op.bad] ELSE op.bad

Replacing == Phase \in {"get_free", "erase_new", "copy", "register"}

Answers ==
  pc \notin {"off", "dead"} =>
    /\ Phase = "idle" \/ Replacing =>
         window = {} /\ pending = answered /\ Mapping(SwapTable) = answered
    /\ Phase = "install" =>
         /\ window = {op.org} /\ pending = answered
         /\ Mapping(SwapTable) = [answered EXCEPT ![op.org] = op.org]
    /\ Phase \in {"done", "format"} => Mapping(SwapTable) = pending

Keeps ==
  pc \notin {"off", "dead"} =>
    /\ \A u \in live : \/ Phase = "install" /\ u = op.org
                       \/ data[BM_GetSwappingBlock(SwapTable, u)] = u
    /\ Replacing /\ op.cmd # "write" => Victim \notin live
    /\ Phase = "register" /\ Victim \in live => data[op.new] = Victim
    /\ Phase = "install" /\ op.org \in live => data[op.new] = op.org

\* What a reboot would answer, and the data it would find there.
RereadsAt(h) ==
  LET T == TableIn(pages[h])
  IN  /\ Mapping(T) \in {answered, pending}
            \cup {[answered EXCEPT ![u] = u] : u \in window}
      /\ \A u \in live \ window : data[BM_GetSwappingBlock(T, u)] = u

\* Where the table on the chip may not be the one in memory.
Rereads == Saving \/ ~ Serving => \A h \in MapPair : HomedAt(h) => RereadsAt(h)

SurvivalInv == TidyInv /\ Fixed /\ Homed /\ Answers /\ Keeps /\ Rereads

----------------------------------------------------------------------------
(* The two map blocks.                                                     *)

LEMMA GoodMaps ==
  ASSUME Cardinality(Good) >= 2
  PROVE  Map1 \in Good /\ Map2 \in Good /\ Map1 # Map2 /\ MapPair = {Map1, Map2}
<1>1. Good \in SUBSET Area
  BY DEF Good
<1> QED
  BY <1>1, LowestTwoDiffer DEF Map1, Map2, MapPair, Good

\* While the area is marked as it left the factory, a format takes them.
LEMMA FormatTakesMaps ==
  ASSUME Fixed, Formattable
  PROVE  /\ Cardinality(Good) >= 2
         /\ NewMapBlocks = <<Map1, Map2>>
         /\ Settled(FormatTable)
<1>1. Area \ marked = Good
  BY DEF Fixed, Good
<1>2. Cardinality(Good) >= 2 /\ NewMapBlocks = <<Map1, Map2>>
  BY <1>1 DEF Formattable, NewMapBlocks, Map1, Map2
<1>3. Map1 \in Good /\ Map2 \in Good
  BY <1>2, GoodMaps
<1> DEFINE spare == (Area \ marked) \ {NewMapBlocks[1], NewMapBlocks[2]}
<1> DEFINE Takes(e, u) == Cardinality({v \in InitialBad : v < u})
                            = Cardinality({f \in spare : f > e})
<1>4. FormatTable =
        [e \in Area |-> IF e \in marked THEN BAD
                        ELSE IF e \notin spare THEN MAP
                        ELSE IF \E u \in InitialBad : Takes(e, u)
                             THEN CHOOSE u \in InitialBad : Takes(e, u)
                             ELSE FREE]
  BY DEF FormatTable
<1>5. \A m \in MapPair : m \in Area /\ m \notin marked /\ m \notin spare
  BY <1>1, <1>2, <1>3 DEF MapPair, Good
<1>6. \A e \in Area \cap FactoryBad : e \in marked
  BY DEF Fixed
<1>7. Settled(FormatTable)
  <2> HIDE DEF spare, Takes
  <2> QED
    BY <1>4, <1>5, <1>6 DEF Settled
<1> QED
  BY <1>2, <1>7

\* What BM_Open finds of a chip whose map blocks never changed.
LEMMA FoundMaps ==
  ASSUME TypeInv, Fixed
  PROVE  /\ \A b \in Area : IsMapBlock(b) => b \in MapPair
         /\ \A b \in Area : b \in Candidates <=> Whole(pages[b])
         /\ Candidates \in SUBSET MapPair
<1> USE DEF TypeInv, TypeOK
<1>1. \A b \in Area : pages[b] \in PageLog /\ Len(pages[b]) \in Nat
  BY AreaLogs, LegibleType
<1>2. ASSUME NEW b \in Area, IsMapBlock(b) PROVE b \in MapPair
  <2>1. pages[b] # << >> /\ pages[b][1] # TORN
    BY <1>2 DEF IsMapBlock
  <2>2. Len(pages[b]) # 0
    BY <1>1, <2>1, EmptySeq DEF PageLog
  <2>3. 1 \in 1 .. Len(pages[b])
    BY <1>1, <2>2
  <2>4. 1 \in Legible(pages[b])
    BY <2>1, <2>3 DEF Legible
  <2> QED
    BY <2>4 DEF Fixed
<1>3. ASSUME NEW b \in Area, Whole(pages[b]) PROVE IsMapBlock(b) /\ b \in MapPair
  <2>1. PICK k \in Legible(pages[b]) : TRUE
    BY <1>3, NumMapPagesType DEF Whole
  <2>2. b \in MapPair /\ Cardinality(Good) >= 2
    BY <1>3, <2>1 DEF Fixed
  <2>3. b \notin marked
    BY <2>2, GoodMaps DEF Fixed, MapPair, Good
  <2>4. k \in 1 .. Len(pages[b]) /\ \A m \in 1 .. k : pages[b][m] # TORN
    BY <2>1 DEF Legible
  <2>5. pages[b] # << >> /\ 1 \in 1 .. k
    BY <1>1, <2>4, LegibleType
  <2> QED
    BY <2>2, <2>3, <2>4, <2>5 DEF IsMapBlock
<1>4. \A b \in Area : Complete(b) <=> Whole(pages[b])
  BY DEF Complete, Whole, Readable, Legible
<1>5. Found = {b \in Area : IsMapBlock(b)}
  <2> SUFFICES ASSUME NEW b \in Area, NEW c \in Area, NEW d \in Area,
                      IsMapBlock(b), IsMapBlock(c), IsMapBlock(d), c < d, d < b
               PROVE  FALSE
    BY DEF Found
  <2>1. b \in MapPair /\ c \in MapPair /\ d \in MapPair
    BY <1>2
  <2>2. b \in Nat /\ c \in Nat /\ d \in Nat
    BY AreaNumbers
  <2> QED
    BY <2>1, <2>2 DEF MapPair
<1> QED
  BY <1>2, <1>3, <1>4, <1>5 DEF Candidates

LEMMA WholeBegins ==
  ASSUME NEW s \in PageLog, Whole(s)
  PROVE  1 \in Legible(s)
<1>1. PICK k \in Legible(s) : TRUE
  BY NumMapPagesType DEF Whole
<1>2. k \in 1 .. Len(s) /\ \A m \in 1 .. k : s[m] # TORN
  BY <1>1 DEF Legible
<1>3. Len(s) \in Nat
  BY LegibleType
<1>4. 1 \in 1 .. Len(s) /\ \A m \in 1 .. 1 : m \in 1 .. k
  BY <1>2, <1>3
<1> QED
  BY <1>2, <1>4 DEF Legible

\* Such a chip can be opened as soon as one log is whole, and its table knows
\* every map block.
LEMMA OpensAt ==
  ASSUME TidyInv, Fixed, NEW h, HomedAt(h)
  PROVE  /\ Openable /\ Consistent /\ Current = h
         /\ OpenTable = TableIn(pages[h])
         /\ OpenMapBlock = <<Map1, Map2>>
<1> USE DEF TidyInv, ReservedInv, TypeInv, TypeOK
<1>1. h \in MapPair /\ h \in Area /\ Whole(pages[h]) /\ h \in Candidates
  BY FoundMaps DEF HomedAt, MapPair, Good
<1>2. Cardinality(Good) >= 2 /\ Settled(TableIn(pages[h]))
  BY <1>1 DEF Fixed
<1>3. MapPair = {Map1, Map2} /\ Map1 # Map2 /\ Map1 \in Nat /\ Map2 \in Nat
  BY <1>2, GoodMaps, AreaNumbers DEF Good
<1>4. ASSUME NEW c \in Candidates, c # h
      PROVE  ~ (pages[h][1].seq <= pages[c][1].seq)
  <2>1. c \in MapPair /\ c \in Area /\ Whole(pages[c])
    BY <1>4, FoundMaps DEF MapPair, Good
  <2>2. pages[c] \in PageLog /\ pages[h] \in PageLog
    BY <1>1, <2>1, AreaLogs
  <2>3. 1 \in Legible(pages[c]) /\ 1 \in Legible(pages[h])
    BY <1>1, <2>1, <2>2, WholeBegins
  <2>4. pages[c][1].seq < pages[h][1].seq
    BY <1>4, <2>1, <2>3 DEF HomedAt
  <2> QED
    BY <2>2, <2>3, <2>4, LegibleType
<1>5. Current = h
  <2> DEFINE D == {b \in Candidates :
                     \A c \in Candidates : pages[c][1].seq <= pages[b][1].seq}
  <2>1. Current \in D
    <3>1. Current = Lowest(D)
      BY DEF Current
    <3>2. D # {} /\ D \subseteq Nat
      <4>1. \A c \in Candidates : pages[c][1].seq <= pages[h][1].seq
        <5> SUFFICES ASSUME NEW c \in Candidates PROVE pages[c][1].seq <= pages[h][1].seq
          OBVIOUS
        <5>1. c \in Area /\ Whole(pages[c])
          BY FoundMaps DEF MapPair, Good
        <5>2. pages[c] \in PageLog /\ pages[h] \in PageLog
          BY <1>1, <5>1, AreaLogs
        <5>3. 1 \in Legible(pages[c]) /\ 1 \in Legible(pages[h])
          BY <1>1, <5>1, <5>2, WholeBegins
        <5>4. pages[c][1].seq \in Nat /\ pages[h][1].seq \in Nat
          BY <5>2, <5>3, LegibleType
        <5> QED
          BY <1>4, <5>4
      <4>2. Candidates \subseteq Nat
        BY FoundMaps, AreaNumbers DEF MapPair, Good
      <4> QED
        BY <1>1, <4>1, <4>2
    <3> HIDE DEF D
    <3> QED
      BY <3>1, <3>2, LowestType
  <2> QED
    BY <1>1, <1>4, <2>1
<1>6. OpenTable = TableIn(pages[h])
  BY <1>1, <1>5, OpenReadsLog
<1>7. Consistent
  BY <1>2, <1>6, FoundMaps DEF Consistent, Settled
<1>8. MapBlocks = {Map1, Map2}
  <2>1. CASE \E b, c \in Found : b # c
    <3>1. Found \subseteq {Map1, Map2}
      BY <1>3, FoundMaps DEF Found
    <3> QED
      BY <2>1, <3>1 DEF MapBlocks
  <2>2. CASE ~ \E b, c \in Found : b # c
    <3>1. TwoMaps(OpenTable) /\ OpenTable[Map1] = MAP /\ OpenTable[Map2] = MAP
      BY <1>1, <1>2, <1>3, <1>6 DEF MapsAreTwo, Fixed, Settled
    <3>2. Map1 \in Area /\ Map2 \in Area
      BY <1>2, GoodMaps DEF Good
    <3>3. {e \in Area : OpenTable[e] = MAP} = {Map1, Map2}
      BY <1>3, <3>1, <3>2 DEF TwoMaps
    <3> QED
      BY <2>2, <3>3 DEF MapBlocks
  <2> QED
    BY <2>1, <2>2
<1>9. Cardinality({Map1, Map2}) = 2
  <2>1. IsFiniteSet({Map1}) /\ Cardinality({Map1}) = 1 /\ Map2 \notin {Map1}
    BY <1>3, FS_Singleton
  <2>2. Cardinality({Map1} \cup {Map2}) = Cardinality({Map1}) + 1
    BY <2>1, FS_AddElement
  <2>3. {Map1} \cup {Map2} = {Map1, Map2}
    OBVIOUS
  <2> QED
    BY <2>1, <2>2, <2>3
<1>10. OpenMapBlock = <<Map1, Map2>>
  <2>1. Lowest({Map1, Map2}) = Map1 /\ {Map1, Map2} \ {Map1} = {Map2}
    <3>1. Map1 <= Map2
      <4>1. Good \subseteq Nat /\ Good # {} /\ Map2 \in Good
        BY <1>2, GoodMaps, AreaNumbers DEF Good
      <4> QED
        BY <4>1, LowestType DEF Map1
    <3>2. Lowest({Map1, Map2}) \in {Map1, Map2} /\ Lowest({Map1, Map2}) <= Map1
      <4>1. {Map1, Map2} \subseteq Nat /\ {Map1, Map2} # {}
        BY <1>3
      <4>2. Lowest({Map1, Map2}) \in {Map1, Map2}
            /\ \A y \in {Map1, Map2} : Lowest({Map1, Map2}) <= y
        BY <4>1, LowestType
      <4> QED
        BY <4>2
    <3> QED
      BY <1>3, <3>1, <3>2
  <2>2. Lowest({Map2}) = Map2
    <3>1. {Map2} \subseteq Nat /\ {Map2} # {}
      BY <1>3
    <3>2. Lowest({Map2}) \in {Map2}
      BY <3>1, LowestType
    <3> QED
      BY <3>2
  <2> QED
    BY <1>8, <2>1, <2>2 DEF OpenMapBlock
<1>11. Openable
  <2>1. Candidates # {}
    BY <1>1
  <2> QED
    BY <1>8, <1>9, <2>1 DEF Openable
<1> QED
  BY <1>5, <1>6, <1>7, <1>10, <1>11

----------------------------------------------------------------------------
(* Without failures of the map, a save runs through.                       *)

LEMMA SteadyBudget ==
  ASSUME TypeInv, Fixed, [Next]_vars
  PROVE  budget'["map"] = 0 /\ budget'["format"] = 0 /\ ~ Reformat
<1> USE DEF TypeInv, TypeOK, HistoryTypes
<1>1. /\ "map" \in Accident /\ "format" \in Accident
      /\ \A k \in Accident : budget[k] \in Nat
  BY DEF Accident
<1>2. ~ Spend("map") /\ ~ Spend("format")
  BY <1>1 DEF Fixed, Spend
<1>3. ASSUME NEW k \in {"block", "mark", "power"}, Spend(k)
      PROVE  budget'["map"] = 0 /\ budget'["format"] = 0
  BY <1>1, <1>3 DEF Fixed, Spend, Accident
<1>4. UNCHANGED budget => budget'["map"] = 0 /\ budget'["format"] = 0
  BY DEF Fixed
<1>5. CASE Step
  BY <1>2, <1>3, <1>4, <1>5
  DEF Step, FormatSecondBlock, GetFreeBlock, EraseNew, CopyPages, Register,
      InstallOriginal, Install, EraseMap, MarkMap, MarkBadBlock, WriteAll, WriteOne,
      WriteMapPage, WriteMapPageFails, MarkDelayed, Done, Reformat
<1>6. CASE \E u \in User : \/ ProgramUser(u) \/ ProgramUserFails(u)
                           \/ EraseUser(u) \/ EraseUserFails(u)
  BY <1>2, <1>3, <1>4, <1>6
  DEF ProgramUser, ProgramUserFails, EraseUser, EraseUserFails, Reformat
<1> QED
  BY <1>2, <1>3, <1>4, <1>5, <1>6 DEF Next, Boot, Reformat, PowerLoss, vars

LEMMA SteadySave ==
  ASSUME TidyInv, Fixed
  PROVE  /\ ~ MarkMap /\ ~ MarkDelayed
         /\ EraseMap => EraseOk(MapTarget) /\ pc' = "write_all"
                        /\ save' = [save EXCEPT !.page = 0]
         /\ WriteAll =>
              /\ WriteMapPage(MapTarget, save.page, save.page)
              /\ IF save.page + 1 < NumMapPages
                 THEN save' = [save EXCEPT !.page = @ + 1] /\ UNCHANGED <<pc, CurMapPageNum>>
                 ELSE pc' = save.next /\ UNCHANGED save
         /\ WriteOne =>
              /\ WriteMapPage(MapTarget, CurMapPageNum, save.off)
              /\ pc' = save.next
              /\ UNCHANGED <<SwapTable, FreeBlockList, MapBlock, save, op, hist>>
<1>1. ~ Spend("map")
  BY DEF TidyInv, ReservedInv, TypeInv, TypeOK, HistoryTypes, Accident, Fixed, Spend
<1>2. pc = "write_all" => Blank(MapTarget, save.page)
  BY DEF TidyInv, MapLogInv, LogInv, Rewritten, Blank
<1>3. pc = "write_one" => Blank(MapTarget, CurMapPageNum)
  BY DEF TidyInv, Kept, Clean, Blank, Fixed
<1>4. ~ MarkMap /\ ~ MarkDelayed
  BY DEF Fixed, MarkMap, MarkDelayed
<1>5. EraseMap => EraseOk(MapTarget) /\ pc' = "write_all"
                  /\ save' = [save EXCEPT !.page = 0]
  BY <1>1 DEF EraseMap
<1>6. WriteAll =>
        /\ WriteMapPage(MapTarget, save.page, save.page)
        /\ IF save.page + 1 < NumMapPages
           THEN save' = [save EXCEPT !.page = @ + 1] /\ UNCHANGED <<pc, CurMapPageNum>>
           ELSE pc' = save.next /\ UNCHANGED save
  BY <1>1, <1>2 DEF WriteAll, WriteMapPageFails, SaveEnds, Fixed
<1>7. WriteOne =>
        /\ WriteMapPage(MapTarget, CurMapPageNum, save.off)
        /\ pc' = save.next
        /\ UNCHANGED <<SwapTable, FreeBlockList, MapBlock, save, op, hist>>
  BY <1>1, <1>3 DEF WriteOne, WriteMapPageFails, SaveEnds, Fixed
<1> QED
  BY <1>4, <1>5, <1>6, <1>7

\* What a call that runs has fixed, whatever the map blocks are.
LEMMA CallRuns ==
  ASSUME TidyInv, ~ adrift, pc \notin {"off", "dead"}
  PROVE  /\ Phase \in {"erase_new", "copy", "register", "install"} =>
              op.new \in Area /\ SwapTable[op.new] = FREE
         /\ Replacing => op.bad \in Block /\ (op.bad \in Area => SwapTable[op.bad] \in User)
         /\ SwapTable[MapTarget] \in {MAP, BAD}
         /\ SwapTable \in [Area -> Entry]
<1> USE DEF TidyInv, ReservedInv, TypeInv, TypeOK
<1>1. Phase \in {"erase_new", "copy", "register", "install"} =>
        op.new \in Area /\ SwapTable[op.new] = FREE
  BY DEF CallShape, Reserved, NewIsReserved
<1>2. Replacing => op.bad \in Block /\ (op.bad \in Area => SwapTable[op.bad] \in User)
  BY DEF CallShape, Reserved, BadKeepsEntry, Replacing
<1>3. SwapTable[MapTarget] \in {MAP, BAD}
  BY DEF Reserved, MapIsKnown, MapTarget, RamTypes
<1> QED
  BY <1>1, <1>2, <1>3 DEF RamTypes

\* Where it is as long as the map blocks are the first two.
LEMMA Alive ==
  ASSUME TidyInv, Fixed, pc \notin {"off", "dead"}
  PROVE  /\ MapBlock[1] = Map1 /\ MapBlock[2] = Map2 /\ Map1 # Map2
         /\ Map1 \in Good /\ Map2 \in Good /\ MapPair = {Map1, Map2}
         /\ MapTarget \in MapPair /\ MapTarget \in Area
         /\ \A m \in MapPair : SwapTable[m] = MAP /\ m \notin FactoryBad
         /\ Phase \in {"erase_new", "copy", "register", "install"} =>
              op.new \in Area /\ SwapTable[op.new] = FREE
         /\ Replacing => op.bad \in Block /\ (op.bad \in Area => SwapTable[op.bad] \in User)
         /\ SwapTable \in [Area -> Entry]
<1> USE DEF TidyInv, ReservedInv, TypeInv, TypeOK
<1>1. /\ MapBlock[1] = Map1 /\ MapBlock[2] = Map2 /\ Map1 # Map2
      /\ Map1 \in Good /\ Map2 \in Good /\ MapPair = {Map1, Map2}
  BY GoodMaps DEF Fixed
<1>2. MapTarget \in MapPair /\ MapTarget \in Area
  BY <1>1 DEF MapTarget, RamTypes, Good
<1>3. \A m \in MapPair : SwapTable[m] = MAP /\ m \notin FactoryBad
  BY <1>1 DEF Fixed, Settled, Good
<1>4. ~ adrift
  BY DEF Fixed
<1> QED
  BY <1>1, <1>2, <1>3, <1>4, CallRuns

\* Every table of an open chip leaves the map and the bad blocks as they are.
Reserves(T, U) == \A e \in Area : T[e] \in {MAP, BAD} => U[e] = T[e]

LEMMA ReservesSettled ==
  ASSUME NEW T, NEW U, Settled(T), Reserves(T, U) PROVE Settled(U)
BY DEF Settled, Reserves, MapPair, Good

\* What an ordinary step makes of the table: nothing, or one of four changes.
Rejects == /\ pc \in {"erase_new", "copy"} /\ RejectNewBlock
Enters  == /\ pc = "register" /\ op.bad \in User
           /\ Install([SwapTable EXCEPT ![op.new] = op.bad]) /\ UNCHANGED <<op, window>>
Moves   == /\ pc = "register" /\ op.bad \in Area /\ MAP_OFFSET(op.bad) = MAP_OFFSET(op.new)
           /\ Install(Moved) /\ UNCHANGED <<op, window>>
Leaves  == /\ pc = "register" /\ op.bad \in Area /\ MAP_OFFSET(op.bad) # MAP_OFFSET(op.new)
           /\ op' = [op EXCEPT !.org = SwapTable[op.bad]]
           /\ SwapTable' = [SwapTable EXCEPT ![op.bad] = BAD]
           /\ window' = window \cup {SwapTable[op.bad]}
           /\ StartSave(MAP_OFFSET(op.bad), "install")
           /\ UNCHANGED <<flash, FreeBlockList, live, answered, pending, adrift, budget>>
Arrives == InstallOriginal

Ordinary == [Next]_vars /\ ~ Boot /\ ~ PowerLoss

LEMMA TableChanges ==
  ASSUME TidyInv, Fixed, Ordinary
  PROVE  /\ UNCHANGED SwapTable \/ Rejects \/ Enters \/ Moves \/ Leaves \/ Arrives
         /\ UNCHANGED <<MapBlock, adrift>>
         /\ pc \notin {"off", "dead"} \/ UNCHANGED vars
<1>1. ~ Reformat
  BY SteadyBudget DEF Ordinary, TidyInv, ReservedInv
<1>2. pc \notin {"off", "dead"} \/ UNCHANGED vars
  BY <1>1
  DEF Ordinary, Next, Step, FormatSecondBlock, GetFreeBlock, EraseNew, CopyPages, Register,
      InstallOriginal, EraseMap, MarkMap, WriteAll, WriteOne, MarkDelayed, Done,
      ProgramUser, ProgramUserFails, EraseUser, EraseUserFails, Idle
<1>3. CASE WriteAll \/ WriteOne \/ EraseMap \/ MarkMap \/ MarkDelayed
  BY <1>2, <1>3, SteadySave DEF WriteAll, EraseMap, ram, hist
<1>4. CASE EraseNew \/ CopyPages
  BY <1>2, <1>4 DEF EraseNew, CopyPages, RejectNewBlock, Rejects, StartSave, ram, hist
<1>5. CASE Register
  BY <1>2, <1>5 DEF Register, Enters, Moves, Leaves, Install, StartSave
<1>6. CASE InstallOriginal
  BY <1>2, <1>6 DEF InstallOriginal, Arrives, Install, StartSave
<1>7. CASE \/ FormatSecondBlock \/ GetFreeBlock \/ Done \/ UNCHANGED vars
           \/ \E u \in User : \/ ProgramUser(u) \/ ProgramUserFails(u)
                              \/ EraseUser(u) \/ EraseUserFails(u)
  BY <1>2, <1>7
  DEF FormatSecondBlock, GetFreeBlock, NoFreeBlock, Abort, Done, ProgramUser,
      ProgramUserFails, EraseUser, EraseUserFails, vars, ram, hist
<1> QED
  BY <1>1, <1>3, <1>4, <1>5, <1>6, <1>7 DEF Ordinary, Next, Step

LEMMA ChangesReserve ==
  ASSUME TidyInv, Fixed, pc \notin {"off", "dead"},
         Rejects \/ Enters \/ Moves \/ Leaves \/ Arrives
  PROVE  Reserves(SwapTable, SwapTable')
<1>1. pc \in {"erase_new", "copy", "register", "install"} => Phase = pc
  BY DEF Phase, Saving
<1>2. SwapTable \in [Area -> Entry] /\ op.new \in Area /\ SwapTable[op.new] = FREE
      /\ (pc = "register" /\ op.bad \in Area => SwapTable[op.bad] \in User)
  BY <1>1, Alive DEF Rejects, Enters, Moves, Leaves, Arrives, InstallOriginal, Replacing
<1>3. CASE Rejects
  BY <1>2, <1>3, SpecialEntries DEF Rejects, RejectNewBlock, Reserves
<1>4. CASE Enters
  BY <1>2, <1>4, SpecialEntries DEF Enters, Install, Reserves
<1>5. CASE Moves
  BY <1>2, <1>5, SpecialEntries DEF Moves, Moved, Install, Reserves
<1>6. CASE Leaves
  BY <1>2, <1>6, SpecialEntries DEF Leaves, Reserves
<1>7. CASE Arrives
  BY <1>2, <1>7, SpecialEntries DEF Arrives, InstallOriginal, Install, Reserves
<1> QED
  BY <1>3, <1>4, <1>5, <1>6, <1>7

\* The marks of the area stay as they left the factory.
LEMMA SteadyMarks ==
  ASSUME TidyInv, Fixed, [Next]_vars
  PROVE  marked' \subseteq FactoryBad /\ Area \cap FactoryBad \subseteq marked'
<1>1. ASSUME NEW b, b \notin Area \cap FactoryBad, EraseOk(b) \/ EraseFail(b) \/ CutErase(b)
      PROVE  marked' \subseteq FactoryBad /\ Area \cap FactoryBad \subseteq marked'
  BY <1>1 DEF EraseOk, EraseFail, CutErase, Fixed
<1>2. CASE UNCHANGED marked
  BY <1>2 DEF Fixed
<1>3. pc = "erase_map" => MapTarget \notin FactoryBad
  BY Alive
<1>4. pc = "erase_new" => op.new \in Area /\ SwapTable[op.new] = FREE
  BY Alive DEF Phase, Saving
<1>5. pc = "erase_new" => op.new \notin FactoryBad
  BY <1>4, SpecialEntries DEF Fixed, Settled
<1>6. CASE EraseMap
  BY <1>1, <1>3, <1>6 DEF EraseMap
<1>7. CASE EraseNew
  BY <1>1, <1>5, <1>7 DEF EraseNew
<1>8. CASE PowerLoss
  BY <1>1, <1>2, <1>3, <1>5, <1>8 DEF PowerLoss, Interrupted, flash, Programmed
<1>9. CASE \E u \in User : \/ ProgramUser(u) \/ ProgramUserFails(u)
                           \/ EraseUser(u) \/ EraseUserFails(u)
  <2>1. PICK u \in User : \/ ProgramUser(u) \/ ProgramUserFails(u)
                          \/ EraseUser(u) \/ EraseUserFails(u)
    BY <1>9
  <2>2. Settled(SwapTable)
    BY <2>1 DEF ProgramUser, ProgramUserFails, EraseUser, EraseUserFails, Idle, Fixed
  <2>3. BlockOf(u) \notin Area \cap FactoryBad
    <3>1. CASE \E e \in Area : SwapTable[e] = u
      BY <2>2, <3>1, SwappingBlockIs, SpecialEntries DEF BlockOf, Settled
    <3>2. CASE \A e \in Area : SwapTable[e] # u
      BY <3>2, SwappingBlockIs, AreaNumbers DEF BlockOf
    <3> QED
      BY <3>1, <3>2
  <2> QED
    BY <1>1, <1>2, <2>1, <2>3
    DEF ProgramUser, ProgramUserFails, EraseUser, EraseUserFails, flash
<1>10. CASE MarkMap \/ MarkDelayed
  BY <1>10, SteadySave
<1>11. CASE WriteAll \/ WriteOne
  BY <1>2, <1>11, SteadySave DEF WriteMapPage, Programmed
<1>12. CASE \/ Boot \/ Reformat \/ FormatSecondBlock \/ GetFreeBlock \/ CopyPages
            \/ Register \/ InstallOriginal \/ Done \/ UNCHANGED vars
  BY <1>2, <1>12
  DEF Boot, BM_Open, BM_Format, Reformat, FormatSecondBlock, GetFreeBlock, CopyPages,
      Register, InstallOriginal, Install, Done, vars, flash
<1> QED
  BY <1>6, <1>7, <1>8, <1>9, <1>10, <1>11, <1>12 DEF Next, Step

LEMMA SteadyCall ==
  ASSUME TidyInv, Fixed, [Next]_vars
  PROVE  pc' \notin {"mark_map", "mark_delayed"} /\ save'.delayed = NoBlock
<1> USE DEF TidyInv, ReservedInv, TypeInv, TypeOK
<1>1. save \in [off : MapOffsets, page : MapOffsets, delayed : Area \cup {NoBlock},
                next : {"get_free", "install", "done", "format"}]
  BY DEF CallTypes
<1>2. CASE EraseMap \/ WriteAll \/ WriteOne \/ MarkMap \/ MarkDelayed
  BY <1>1, <1>2, SteadySave DEF Fixed
<1>3. CASE EraseNew \/ CopyPages \/ Register \/ InstallOriginal
  BY <1>3
  DEF EraseNew, CopyPages, Register, InstallOriginal, RejectNewBlock, Install, StartSave,
      Fixed
<1>4. CASE Boot \/ Reformat \/ PowerLoss \/ FormatSecondBlock \/ GetFreeBlock \/ Done
  BY <1>4
  DEF Boot, BM_Open, BM_Format, Reformat, PowerLoss, FormatSecondBlock, GetFreeBlock,
      NoFreeBlock, Abort, AfterGetFree, Done, NoSave, Fixed
<1>5. CASE \/ UNCHANGED vars
           \/ \E u \in User : \/ ProgramUser(u) \/ ProgramUserFails(u)
                              \/ EraseUser(u) \/ EraseUserFails(u)
  BY <1>5
  DEF ProgramUser, ProgramUserFails, EraseUser, EraseUserFails, Replace, vars, call, Fixed
<1> QED
  BY <1>2, <1>3, <1>4, <1>5 DEF Next, Step

\* A whole log makes the chip one that BM_Open opens.
LEMMA BootSteady ==
  ASSUME TidyInv, Fixed, Homed, Boot
  PROVE  /\ \/ /\ BM_Open /\ Consistent /\ \E h \in MapPair : HomedAt(h)
            \/ /\ BM_Format /\ ~ Formatted /\ \A b \in Area : ~ Whole(pages[b])
         /\ ~ Serving
<1> USE DEF TidyInv, ReservedInv
<1>1. ~ Serving
  BY DEF Boot, Serving
<1>2. CASE \E h \in MapPair : HomedAt(h)
  BY <1>1, <1>2, OpensAt DEF Boot
<1>3. CASE ~ \E h \in MapPair : HomedAt(h)
  <2>1. ~ Formatted /\ \A b \in Area : ~ Whole(pages[b])
    BY <1>1, <1>3 DEF Homed
  <2>2. ~ Openable
    BY <2>1, FoundMaps DEF Openable, Candidates, Found
  <2> QED
    BY <1>1, <2>1, <2>2 DEF Boot
<1> QED
  BY <1>2, <1>3

LEMMA FixedStep ==
  ASSUME TidyInv, Fixed, Homed, [Next]_vars PROVE Fixed'
<1> USE DEF TidyInv, ReservedInv, TypeInv, TypeOK
<1>1. budget'["map"] = 0 /\ budget'["format"] = 0 /\ ~ Reformat
  BY SteadyBudget
<1>2. pc' \notin {"mark_map", "mark_delayed"} /\ save'.delayed = NoBlock
  BY SteadyCall
<1>3. marked' \subseteq FactoryBad /\ Area \cap FactoryBad \subseteq marked'
  BY SteadyMarks
<1>4. LogsClimb /\ MapLogInv
  BY DEF MapLogInv, LogInv
<1>5. pc \in {"write_all", "write_one"} => MapTarget \in MapPair /\ MapTarget \in Area
  BY Alive
<1>6. ASSUME NEW b \in Area \ MapPair PROVE Legible(pages'[b]) = {}
  <2>1. Legible(pages[b]) = {}
    BY DEF Fixed
  <2>2. LogKept(b) \/ LogGone(b)
    BY <1>4, <1>5, NextLogs
  <2> QED
    BY <2>1, <2>2 DEF LogKept, LogGone
<1>7. ASSUME NEW b \in Area, Whole(pages'[b])
      PROVE  Cardinality(Good) >= 2 /\ Settled(TableIn(pages'[b]))
  <2>1. \/ Whole(pages[b]) /\ TableIn(pages'[b]) = TableIn(pages[b])
        \/ pc \in {"write_all", "write_one"} /\ TableIn(pages'[b]) = SwapTable
    BY <1>4, <1>7, NextTables
  <2> QED
    BY <2>1 DEF Fixed
<1>8. /\ ~ adrift'
      /\ pc' \notin {"off", "dead"} =>
           Cardinality(Good) >= 2 /\ Settled(SwapTable') /\ MapBlock' = <<Map1, Map2>>
  <2>1. CASE Boot
    <3>1. CASE BM_Open /\ Consistent /\ \E h \in MapPair : HomedAt(h)
      <4>1. PICK h \in MapPair : HomedAt(h)
        BY <3>1
      <4>2. h \in Area /\ Whole(pages[h])
        BY <4>1 DEF HomedAt, MapPair, Good
      <4> QED
        BY <3>1, <4>1, <4>2, OpensAt DEF BM_Open, Fixed
    <3>2. CASE BM_Format
      BY <3>2, FormatTakesMaps DEF BM_Format, Fixed
    <3> QED
      BY <2>1, <3>1, <3>2, BootSteady
  <2>2. CASE PowerLoss
    BY <2>2 DEF PowerLoss, Fixed, hist
  <2>3. CASE Ordinary
    <3>1. UNCHANGED <<MapBlock, adrift>> /\ (pc \notin {"off", "dead"} \/ UNCHANGED vars)
      BY <2>3, TableChanges
    <3>2. CASE UNCHANGED vars
      BY <3>1, <3>2 DEF Fixed, vars, ram, call
    <3>3. CASE pc \notin {"off", "dead"}
      <4>1. Settled(SwapTable)
        BY <3>3 DEF Fixed
      <4>2. Settled(SwapTable')
        <5>1. CASE UNCHANGED SwapTable
          BY <4>1, <5>1
        <5>2. CASE Rejects \/ Enters \/ Moves \/ Leaves \/ Arrives
          BY <3>3, <4>1, <5>2, ChangesReserve, ReservesSettled
        <5> QED
          BY <2>3, <5>1, <5>2, TableChanges
      <4> QED
        BY <3>1, <3>3, <4>2 DEF Fixed
    <3> QED
      BY <3>1, <3>2, <3>3
  <2> QED
    BY <2>1, <2>2, <2>3 DEF Ordinary
<1> QED
  BY <1>1, <1>2, <1>3, <1>6, <1>7, <1>8 DEF Fixed

----------------------------------------------------------------------------
(* The map block that a reboot reads.                                      *)

LEMMA NextPages ==
  ASSUME TidyInv, [Next]_vars, NEW b \in Area
  PROVE  /\ pages[b] \in PageLog /\ GoodLog(pages[b]) /\ LogsClimb
         /\ pages'[b] \in PageLog /\ GoodLog(pages'[b])
<1>1. MapLogInv /\ MapLogInv'
  BY MapLogStep DEF TidyInv
<1> QED
  BY <1>1
  DEF MapLogInv, TypeInv, TypeOK, FlashTypes, PageLog, Block, LogInv, LogsClimb

LEMMA GoneIsNotWhole ==
  ASSUME NEW b \in Area, LogGone(b) PROVE ~ Whole(pages'[b])
BY NumMapPagesType DEF LogGone, Whole

LEMMA KeptWhole ==
  ASSUME TidyInv, [Next]_vars, NEW b \in Area, LogKept(b)
  PROVE  /\ Whole(pages'[b]) <=> Whole(pages[b])
         /\ Whole(pages[b]) => TableIn(pages'[b]) = TableIn(pages[b])
         /\ \A n : Below(pages[b], n) => Below(pages'[b], n)
<1>1. pages[b] \in PageLog /\ Climbs(pages[b]) /\ pages'[b] \in PageLog
  BY NextPages DEF GoodLog
<1> QED
  BY <1>1, SameLegible DEF LogKept, Below

\* A home that is kept stays one, whatever becomes of the others.
LEMMA HomeStays ==
  ASSUME TidyInv, [Next]_vars, NEW h, HomedAt(h), LogKept(h),
         \A b \in MapPair \ {h} : LogKept(b) \/ ~ Whole(pages'[b])
  PROVE  /\ HomedAt(h)'
         /\ TableIn(pages'[h]) = TableIn(pages[h])
         /\ \A n : Below(pages[h], n) => Below(pages'[h], n)
<1>1. h \in MapPair /\ h \in Area /\ Whole(pages[h])
  BY DEF HomedAt, MapPair, Good
<1>2. pages[h] \in PageLog /\ 1 \in Legible(pages[h])
  BY <1>1, NextPages, WholeBegins
<1>3. pages'[h][1] = pages[h][1]
  BY <1>2 DEF LogKept
<1>4. ASSUME NEW b \in MapPair \ {h}, Whole(pages'[b]), NEW k \in Legible(pages'[b])
      PROVE  pages'[b][k].seq < pages'[h][1].seq
  <2>1. b \in Area /\ LogKept(b)
    BY <1>4 DEF MapPair, Good
  <2>2. Whole(pages[b]) /\ k \in Legible(pages[b]) /\ pages'[b][k] = pages[b][k]
    BY <1>4, <2>1, KeptWhole DEF LogKept
  <2> QED
    BY <1>3, <1>4, <2>2 DEF HomedAt
<1>5. Whole(pages'[h]) /\ TableIn(pages'[h]) = TableIn(pages[h])
      /\ \A n : Below(pages[h], n) => Below(pages'[h], n)
  BY <1>1, KeptWhole
<1> QED
  BY <1>1, <1>4, <1>5 DEF HomedAt

LEMMA SamePagesKept ==
  ASSUME NEW b, pages'[b] = pages[b] PROVE LogKept(b)
BY DEF LogKept

\* Only a save touches a map block.
LEMMA PairFrame ==
  ASSUME TidyInv, Fixed, Ordinary, ~ EraseMap, ~ WriteAll, ~ WriteOne,
         NEW b \in MapPair
  PROVE  pages'[b] = pages[b]
<1> USE DEF TidyInv, ReservedInv, TypeInv, TypeOK
<1>1. CASE UNCHANGED pages
  BY <1>1
<1>2. CASE EraseNew
  <2>1. op.new \in Area /\ SwapTable[op.new] = FREE /\ SwapTable[b] = MAP
    BY <1>2, Alive DEF EraseNew, Phase, Saving
  <2>2. op.new \in Block /\ b \in Block \ {op.new}
    BY <2>1, SpecialEntries DEF Block, MapPair, Good
  <2> QED
    BY <1>2, <2>2, FlashFrame DEF EraseNew
<1>3. ASSUME NEW u \in User, EraseUser(u) \/ EraseUserFails(u)
      PROVE  pages'[b] = pages[b]
  <2>1. pc \notin {"off", "dead"}
    BY <1>3 DEF EraseUser, EraseUserFails, Idle
  <2>2. SwapTable[b] = MAP /\ b \in Area
    BY <2>1, Alive DEF MapPair, Good
  <2>3. BlockOf(u) # b
    <3>1. CASE \E e \in Area : SwapTable[e] = u
      BY <2>2, <3>1, SwappingBlockIs, SpecialEntries DEF BlockOf
    <3>2. CASE \A e \in Area : SwapTable[e] # u
      BY <2>2, <3>2, SwappingBlockIs, AreaNumbers DEF BlockOf
    <3> QED
      BY <3>1, <3>2
  <2>4. BlockOf(u) \in Block /\ b \in Block \ {BlockOf(u)}
    BY <2>2, <2>3, BlockOfType DEF Block
  <2> QED
    BY <1>3, <2>4, FlashFrame DEF EraseUser, EraseUserFails
<1>4. CASE MarkMap \/ MarkDelayed \/ Reformat
  BY <1>4, SteadySave, SteadyBudget DEF Ordinary
<1>5. CASE \/ FormatSecondBlock \/ GetFreeBlock \/ CopyPages \/ Register
           \/ InstallOriginal \/ Done \/ UNCHANGED vars
           \/ \E u \in User : ProgramUser(u) \/ ProgramUserFails(u)
  BY <1>1, <1>5
  DEF FormatSecondBlock, GetFreeBlock, CopyPages, Register, InstallOriginal, Install, Done,
      ProgramUser, ProgramUserFails, vars, flash
<1> QED
  BY <1>1, <1>2, <1>3, <1>4, <1>5 DEF Ordinary, Next, Step

\* The home and the target of a save are the two map blocks.
LEMMA TwoEnds ==
  ASSUME TidyInv, Fixed, pc \notin {"off", "dead"}
  PROVE  /\ Home \in MapPair /\ Home \in Area
         /\ CurMapBlockIdx \in {1, 2}
         /\ MapBlock[OtherMapBlock] # MapTarget
         /\ MapPair = {MapTarget, MapBlock[OtherMapBlock]}
         /\ pc \in {"erase_map", "write_all"} => Home # MapTarget
         /\ pc \notin {"erase_map", "write_all"} => Home = MapTarget
<1>1. CurMapBlockIdx \in {1, 2}
  BY DEF TidyInv, ReservedInv, TypeInv, TypeOK, RamTypes
<1>2. OtherMapBlock = IF CurMapBlockIdx = 1 THEN 2 ELSE 1
  BY <1>1 DEF OtherMapBlock
<1>3. /\ MapBlock[1] = Map1 /\ MapBlock[2] = Map2 /\ Map1 # Map2
      /\ MapPair = {Map1, Map2} /\ Map1 \in Area /\ Map2 \in Area
  BY Alive DEF Good
<1> QED
  BY <1>1, <1>2, <1>3 DEF Home, MapTarget

Beyond == \A k \in Legible(pages[MapTarget]) : \A m \in Legible(pages[Home]) :
            pages[Home][m].seq < pages[MapTarget][k].seq

\* The home keeps its pages, the other map block its own or becomes no home.
LEMMA HomeKept ==
  ASSUME TidyInv, Fixed, Homed, Serving, [Next]_vars, pages'[Home] = pages[Home],
         \A b \in MapPair \ {Home} : LogKept(b) \/ ~ Whole(pages'[b]),
         Serving', Home' = Home, Sequence' \in Nat, Sequence <= Sequence',
         \A e \in Area :
           \/ SwapTable'[e] = SwapTable[e] /\ (Saving => Saving' /\ save'.off = save.off)
           \/ ~ Saving /\ Saving' /\ MAP_OFFSET(e) = save'.off,
         pc' = "write_all" => Beyond',
         Phase' = "format" => Phase = "format" /\ UNCHANGED CurMapBlockIdx
  PROVE  Homed'
<1>1. PICK h : h = Home
  OBVIOUS
<1>2. HomedAt(h) /\ Below(pages[h], Sequence) /\ Trails
  BY <1>1 DEF Homed
<1>3. /\ HomedAt(h)' /\ TableIn(pages'[h]) = TableIn(pages[h])
      /\ Below(pages'[h], Sequence)
  BY <1>1, <1>2, SamePagesKept, HomeStays
<1>4. Below(pages'[h], Sequence')
  <2>1. pages'[h] \in PageLog
    BY <1>2, NextPages DEF HomedAt, MapPair, Good
  <2>2. \A k \in Legible(pages'[h]) : pages'[h][k].seq \in Nat
    BY <2>1, LegibleType
  <2>3. Sequence \in Nat
    BY DEF TidyInv, ReservedInv, TypeInv, TypeOK, RamTypes
  <2> QED
    BY <1>3, <2>2, <2>3 DEF Below
<1>5. HomedAt(Home)' /\ Below(pages[Home], Sequence)'
  <2>1. Home' = h
    BY <1>1
  <2> QED
    BY <1>3, <1>4, <2>1 DEF HomedAt
<1>6. Trails'
  <2>1. Stored' = Stored
    BY <1>1, <1>3 DEF Stored
  <2> QED
    BY <1>2, <2>1 DEF Trails
<1>7. ~ FirstSave' /\ ((pc = "write_all") => Beyond)'
  BY DEF Serving
<1>8. (Phase = "format" => CurMapBlockIdx = 2)'
  BY DEF Homed
<1> QED
  BY <1>5, <1>6, <1>7, <1>8 DEF Homed, Beyond

\* A step that saves nothing, and neither moves nor starts a save.
LEMMA IdleHomed ==
  ASSUME TidyInv, Fixed, Homed, Ordinary, ~ EraseMap, ~ WriteAll, ~ WriteOne,
         ~ Saving, ~ Saving', pc \notin {"off", "dead"}, pc' # "off",
         UNCHANGED <<SwapTable, MapBlock, CurMapBlockIdx, Sequence>>,
         Phase' # "format"
  PROVE  Homed'
<1>1. Serving /\ Home \in MapPair /\ MapPair = {MapTarget, MapBlock[OtherMapBlock]}
  BY TwoEnds DEF Serving, FirstSave
<1>2. \A b \in MapPair : pages'[b] = pages[b]
  BY PairFrame
<1>3. ~ FirstSave' /\ pc' # "write_all" /\ Home' = Home /\ Sequence \in Nat
  BY DEF FirstSave, Saving, Home, MapTarget, TidyInv, ReservedInv, TypeInv, TypeOK, RamTypes
<1>4. CASE pc' # "dead"
  <2>1. Serving'
    BY <1>3, <1>4 DEF Serving
  <2>2. [Next]_vars
    BY DEF Ordinary
  <2> QED
    BY <1>1, <1>2, <1>3, <2>1, <2>2, SamePagesKept, HomeKept
<1>5. CASE pc' = "dead"
  <2>1. PICK h : h = Home
    OBVIOUS
  <2>2. HomedAt(h)' /\ h \in MapPair
    BY <1>1, <1>2, <2>1, SamePagesKept, HomeStays DEF Homed, Ordinary
  <2> QED
    BY <1>3, <1>5, <2>2 DEF Homed, Serving
<1> QED
  BY <1>4, <1>5

\* A save is started for the segment in which the table changes.
LEMMA StartHomed ==
  ASSUME TidyInv, Fixed, Homed, Ordinary, ~ EraseMap, ~ WriteAll, ~ WriteOne,
         ~ Saving, pc \notin {"off", "dead"},
         NEW o \in MapOffsets, NEW next \in {"get_free", "install", "done"}, StartSave(o, next),
         \A e \in Area : SwapTable'[e] = SwapTable[e] \/ MAP_OFFSET(e) = o
  PROVE  Homed'
<1>1. Serving /\ Home = MapTarget /\ CurMapBlockIdx \in {1, 2}
  BY TwoEnds DEF Serving, FirstSave, Saving
<1>2. \A b \in MapPair : pages'[b] = pages[b]
  BY PairFrame
<1>3. Home \in MapPair
  BY TwoEnds
<1>4. Home' = Home
  <2>1. CASE PageAfter = 0
    <3>1. CurMapBlockIdx' = 3 - CurMapBlockIdx /\ pc' = "erase_map" /\ UNCHANGED MapBlock
      BY <2>1 DEF StartSave, OtherMapBlock
    <3>2. OtherMapBlock' = CurMapBlockIdx
      BY <1>1, <3>1 DEF OtherMapBlock
    <3> QED
      BY <1>1, <3>1, <3>2 DEF Home, MapTarget
  <2>2. CASE PageAfter # 0
    BY <1>1, <2>2 DEF StartSave, Home, MapTarget
  <2> QED
    BY <2>1, <2>2
<1>5. Saving' /\ save'.off = o /\ save'.next = next /\ UNCHANGED Sequence
      /\ pc' \in {"erase_map", "write_one"}
  BY DEF StartSave, Saving
<1>6. Serving' /\ Phase' # "format" /\ Sequence \in Nat
  BY <1>5 DEF Serving, FirstSave, Phase, TidyInv, ReservedInv, TypeInv, TypeOK, RamTypes
<1> QED
  BY <1>1, <1>2, <1>3, <1>4, <1>5, <1>6, SamePagesKept, HomeKept DEF Ordinary

LEMMA OtherPages ==
  ASSUME TidyInv, Fixed, EraseMap \/ WriteAll \/ WriteOne, NEW b \in Area, b # MapTarget
  PROVE  pages'[b] = pages[b]
<1> USE DEF TidyInv, ReservedInv, TypeInv, TypeOK
<1>1. MapTarget \in Block /\ b \in Block \ {MapTarget}
  BY MapTargetType DEF Block
<1> QED
  BY <1>1, SteadySave, FlashFrame DEF WriteMapPage

LEMMA EraseMapHomed ==
  ASSUME TidyInv, Fixed, Homed, EraseMap PROVE Homed'
<1> USE DEF TidyInv, ReservedInv, TypeInv, TypeOK
<1>1. /\ pc = "erase_map" /\ pc' = "write_all" /\ save' = [save EXCEPT !.page = 0]
      /\ EraseOk(MapTarget) /\ UNCHANGED <<ram, op, hist>> /\ [Next]_vars
  BY SteadySave DEF EraseMap, Next, Step
<1>2. /\ Saving /\ Saving' /\ save'.next = save.next /\ save'.off = save.off
      /\ Phase' = Phase /\ Home' = Home /\ MapTarget' = MapTarget
  BY <1>1 DEF Saving, CallTypes, Phase, Home, MapTarget, OtherMapBlock, ram
<1>3. pages'[MapTarget] = << >>
  BY <1>1, MapTargetType DEF EraseOk, EraseTo, FlashTypes
<1>4. Legible(pages'[MapTarget]) = {} /\ ~ Whole(pages'[MapTarget])
  BY <1>3, EmptyLog
<1>5. CASE Serving
  <2>1. Home \in MapPair /\ Home \in Area /\ Home # MapTarget
        /\ MapPair = {MapTarget, Home}
    BY <1>1, TwoEnds DEF Home
  <2>2. pages'[Home] = pages[Home]
    BY <1>1, <2>1, OtherPages
  <2>3. Serving' /\ Sequence \in Nat /\ Sequence' = Sequence
    BY <1>1, <1>2, <1>5 DEF Serving, FirstSave, ram, RamTypes
  <2>4. Beyond'
    BY <1>2, <1>4 DEF Beyond
  <2>5. \A b \in MapPair \ {Home} : LogKept(b) \/ ~ Whole(pages'[b])
    BY <1>4, <2>1
  <2> QED
    BY <1>1, <1>2, <1>5, <2>2, <2>3, <2>4, <2>5, HomeKept DEF ram
<1>6. CASE ~ Serving
  <2>1. FirstSave
    BY <1>1, <1>6 DEF Serving
  <2>2. \A b \in Area : ~ Whole(pages'[b])
    BY <1>1, <1>4, <2>1, OtherPages DEF Homed
  <2> QED
    BY <1>1, <1>2, <2>1, <2>2 DEF Homed, Serving, FirstSave, Formatted, hist, ram
<1> QED
  BY <1>5, <1>6

LEMMA WriteAllHomed ==
  ASSUME TidyInv, Fixed, Homed, WriteAll PROVE Homed'
<1> USE DEF TidyInv, ReservedInv, TypeInv, TypeOK
<1> DEFINE s == pages[MapTarget]
<1> DEFINE t == Append(s, MapPageOf(save.page))
<1>1. /\ pc = "write_all" /\ [Next]_vars /\ MapLogInv /\ Saving
      /\ WriteMapPage(MapTarget, save.page, save.page)
      /\ UNCHANGED <<SwapTable, MapBlock, CurMapBlockIdx, op, hist>>
  BY SteadySave DEF WriteAll, Next, Step, Saving
<1>2. save.page \in Nat /\ save.page \in MapOffsets /\ NumMapPages \in Nat /\ Sequence \in Nat
      /\ save.next \in {"get_free", "install", "done", "format"}
  BY NumMapPagesType DEF CallTypes, MapOffsets, RamTypes
<1>3. MapTarget \in Area /\ MapTarget' = MapTarget /\ pages'[MapTarget] = t
      /\ Sequence' = Sequence + 1
  BY <1>1, MapTargetType DEF WriteMapPage, Programmed, FlashTypes, MapTarget, ram
<1>4. /\ s \in PageLog /\ t \in PageLog /\ Len(t) = save.page + 1
      /\ InTurn(s, SwapTable) /\ InTurn(t, SwapTable) /\ GoodLog(s) /\ GoodLog(t)
      /\ Below(t, Sequence + 1) /\ Len(s) = save.page
  BY <1>1, <1>3, RewriteAppend, NextPages DEF MapLogInv, LogInv, Rewritten
<1>5. /\ Legible(s) = 1 .. Len(s) /\ Legible(t) = 1 .. Len(t)
      /\ Whole(t) <=> Len(t) = NumMapPages
      /\ Whole(t) => TableIn(t) = SwapTable
  <2>1. SwapTable \in [Area -> Entry]
    BY DEF RamTypes
  <2> HIDE DEF s, t
  <2> QED
    BY <1>4, <2>1, InTurnTable DEF GoodLog
<1>6. /\ \A k \in 1 .. Len(s) : t[k] = s[k]
      /\ t[Len(s) + 1].seq = Sequence + 1
  <2>1. MapPageOf(save.page) \in MapPage
    BY <1>2, MapPageOfType
  <2>2. /\ t[Len(s) + 1] = MapPageOf(save.page)
        /\ \A k \in 1 .. Len(s) : t[k] = s[k]
    BY <1>4, <2>1, AppendLegible
  <2> QED
    BY <2>2 DEF MapPageOf
<1>7. \A b \in Area \ {MapTarget} : pages'[b] = pages[b]
  BY OtherPages
<1>8. /\ Home \in MapPair /\ Home \in Area /\ Home # MapTarget /\ MapTarget \in MapPair
      /\ MapPair = {MapTarget, Home}
  BY <1>1, TwoEnds DEF Home
<1>9. Serving => \A k \in Legible(t) : \A m \in Legible(pages[Home]) :
                   pages[Home][m].seq < t[k].seq
  <2> SUFFICES ASSUME Serving, NEW k \in Legible(t), NEW m \in Legible(pages[Home])
               PROVE  pages[Home][m].seq < t[k].seq
    OBVIOUS
  <2>0. Serving /\ m \in Legible(pages[Home])
    OBVIOUS
  <2>1. pages[Home][m].seq <= Sequence /\ pages[Home][m].seq \in Nat
    <3>1. Below(pages[Home], Sequence)
      BY <2>0 DEF Homed
    <3>2. pages[Home] \in PageLog
      BY <1>1, <1>8, NextPages
    <3> QED
      BY <2>0, <3>1, <3>2, LegibleType DEF Below
  <2>2. CASE k = Len(s) + 1
    <3>1. t[k].seq = Sequence + 1
      BY <1>6, <2>2
    <3> HIDE DEF s, t
    <3> QED
      BY <1>2, <2>1, <3>1
  <2>3. CASE k # Len(s) + 1
    <3>1. k \in 1 .. Len(s)
      <4> HIDE DEF s, t
      <4> QED
        BY <1>2, <1>4, <1>5, <2>3
    <3>2. k \in Legible(s) /\ t[k] = s[k]
      BY <1>5, <1>6, <3>1
    <3> QED
      BY <1>1, <3>2 DEF Homed
  <2> QED
    BY <2>2, <2>3
<1>10. CASE save.page + 1 < NumMapPages
  <2>1. pc' = pc /\ save'.next = save.next /\ save'.off = save.off /\ Phase' = Phase
    BY <1>1, <1>10, SteadySave DEF CallTypes, Phase, Saving
  <2>2. ~ Whole(t)
    <3> HIDE DEF s, t
    <3> QED
      BY <1>2, <1>4, <1>5, <1>10
  <2>3. Home' = Home /\ Saving'
    BY <1>1, <1>3, <2>1 DEF Home, OtherMapBlock, Saving
  <2>4. CASE Serving
    <3>1. Serving' /\ Sequence' \in Nat /\ Sequence <= Sequence'
      BY <1>1, <1>2, <1>3, <2>1, <2>4 DEF Serving, FirstSave, Saving
    <3>2. Beyond'
      BY <1>3, <1>7, <1>8, <1>9, <2>3, <2>4 DEF Beyond
    <3>3. \A b \in MapPair \ {Home} : LogKept(b) \/ ~ Whole(pages'[b])
      BY <1>3, <1>8, <2>2
    <3>4. pages'[Home] = pages[Home]
      BY <1>7, <1>8
    <3> QED
      BY <1>1, <2>1, <2>3, <2>4, <3>1, <3>2, <3>3, <3>4, HomeKept
  <2>5. CASE ~ Serving
    <3>1. FirstSave /\ FirstSave'
      BY <1>1, <2>1, <2>3, <2>5 DEF Serving, FirstSave
    <3>2. \A b \in Area : ~ Whole(pages'[b])
      BY <1>3, <1>7, <2>2, <3>1 DEF Homed
    <3> QED
      BY <1>1, <2>1, <3>1, <3>2 DEF Homed, Serving, Formatted, hist
  <2> QED
    BY <2>4, <2>5
<1>11. CASE ~ (save.page + 1 < NumMapPages)
  <2>1. pc' = save.next /\ UNCHANGED save
    BY <1>1, <1>11, SteadySave
  <2>2. ~ Saving' /\ Serving' /\ ~ FirstSave' /\ Home' = MapTarget /\ Phase' = Phase
        /\ pc' \notin {"off", "dead"}
    BY <1>1, <1>2, <1>3, <2>1 DEF Saving, Serving, FirstSave, Home, Phase
  <2>3. Whole(t) /\ TableIn(t) = SwapTable
    <3>1. Len(t) = NumMapPages
      <4> HIDE DEF s, t
      <4> QED
        BY <1>2, <1>4, <1>11 DEF MapOffsets
    <3> QED
      BY <1>5, <3>1
  <2>4. ASSUME NEW b \in MapPair \ {MapTarget}, Whole(pages'[b]), NEW m \in Legible(pages'[b])
        PROVE  pages'[b][m].seq < t[1].seq
    <3>1. b = Home /\ pages'[b] = pages[b] /\ Whole(pages[b])
      BY <1>7, <1>8, <2>4
    <3>2. Serving
      BY <1>1, <1>8, <3>1 DEF Serving, Homed
    <3>3. 1 \in Legible(t)
      BY <1>4, <2>3, WholeBegins
    <3> QED
      BY <1>9, <2>4, <3>1, <3>2, <3>3
  <2>5. HomedAt(Home)'
    BY <1>3, <1>8, <2>2, <2>3, <2>4 DEF HomedAt
  <2>6. Below(pages[Home], Sequence)' /\ Trails'
    BY <1>1, <1>3, <1>4, <2>2, <2>3 DEF Trails, Stored
  <2> QED
    BY <1>1, <2>2, <2>5, <2>6 DEF Homed, Saving
<1> QED
  BY <1>10, <1>11

LEMMA WriteOneHomed ==
  ASSUME TidyInv, Fixed, Homed, WriteOne PROVE Homed'
<1> USE DEF TidyInv, ReservedInv, TypeInv, TypeOK
<1> DEFINE s == pages[MapTarget]
<1> DEFINE t == Append(s, MapPageOf(save.off))
<1>1. /\ pc = "write_one" /\ pc' = save.next /\ [Next]_vars /\ MapLogInv /\ Saving
      /\ WriteMapPage(MapTarget, CurMapPageNum, save.off)
      /\ UNCHANGED <<SwapTable, MapBlock, CurMapBlockIdx, CurMapPageNum, op, save, hist>>
  BY SteadySave DEF WriteOne, Next, Step, Saving
<1>2. /\ save.off \in MapOffsets /\ Sequence \in Nat
      /\ save.next \in {"get_free", "install", "done", "format"}
  BY DEF CallTypes, RamTypes
<1>3. MapTarget \in Area /\ MapTarget' = MapTarget /\ pages'[MapTarget] = t
      /\ Sequence' = Sequence + 1
  BY <1>1, MapTargetType DEF WriteMapPage, Programmed, FlashTypes, MapTarget, ram
<1>4. Clean(s, CurMapPageNum) /\ Blank(MapTarget, CurMapPageNum)
  BY <1>1 DEF Kept, Fixed, Clean, Blank
<1>5. Clean(t, CurMapPageNum + 1) /\ MapPageOf(save.off) \in MapPage
  <2>1. MapPageOf(save.off) \in MapPage
    BY <1>2, MapPageOfType
  <2>2. s \in PageLog
    BY <1>1, <1>3, NextPages
  <2> HIDE DEF s
  <2> QED
    BY <1>4, <2>1, <2>2, CleanAppend
<1>6. Whole(t) /\ Below(t, Sequence + 1) /\ TableIn(t) = SwapTable
  BY <1>1, <1>4, <1>5, OvertakeAppend DEF MapLogInv
<1>7. Whole(s)
  BY <1>1, <1>4 DEF MapLogInv, LogInv, Overtaken
<1>8. Serving /\ Home = MapTarget /\ MapTarget \in MapPair
  BY <1>1, <1>3, <1>7, TwoEnds DEF Serving, Homed
<1>9. s \in PageLog /\ 1 \in Legible(s) /\ s[1] = t[1]
  <2>1. s \in PageLog /\ 1 \in Legible(s)
    BY <1>1, <1>3, <1>7, NextPages, WholeBegins
  <2>2. 1 \in 1 .. Len(s)
    BY <2>1, LegibleType
  <2> QED
    BY <1>5, <2>1, <2>2, AppendLegible
<1>10. ASSUME NEW b \in MapPair \ {MapTarget}, Whole(pages'[b]), NEW m \in Legible(pages'[b])
       PROVE  pages'[b][m].seq < t[1].seq
  <2>1. pages'[b] = pages[b]
    BY <1>10, OtherPages DEF MapPair, Good
  <2> QED
    BY <1>8, <1>9, <1>10, <2>1 DEF Homed, HomedAt
<1>11. ~ Saving' /\ Serving' /\ ~ FirstSave' /\ Home' = MapTarget /\ Phase' = Phase
       /\ pc' \notin {"off", "dead"}
  BY <1>1, <1>2, <1>3 DEF Saving, Serving, FirstSave, Home, Phase
<1>12. HomedAt(Home)'
  BY <1>3, <1>6, <1>8, <1>10, <1>11 DEF HomedAt
<1>13. Below(pages[Home], Sequence)' /\ Trails'
  BY <1>1, <1>3, <1>6, <1>11 DEF Trails, Stored
<1> QED
  BY <1>1, <1>11, <1>12, <1>13 DEF Homed, Saving

LEMMA FormatSecondHomed ==
  ASSUME TidyInv, Fixed, Homed, FormatSecondBlock PROVE Homed'
<1>1. /\ pc = "format" /\ pc' = "erase_map" /\ save' = NoSave /\ CurMapBlockIdx' = 1
      /\ UNCHANGED <<pages, SwapTable, MapBlock, Sequence>> /\ Ordinary
  BY DEF FormatSecondBlock, flash, Ordinary, Next, Step, Boot, PowerLoss
<1>2. Serving /\ ~ Saving /\ Saving' /\ Phase = "format" /\ Phase' = "done"
      /\ Serving' /\ ~ FirstSave'
  BY <1>1 DEF Serving, FirstSave, Saving, Phase, NoSave
<1>3. CurMapBlockIdx = 2
  BY <1>2 DEF Homed
<1>4. Home' = Home
  BY <1>1, <1>3 DEF Home, MapTarget, OtherMapBlock
<1>5. Sequence \in Nat
  BY DEF TidyInv, ReservedInv, TypeInv, TypeOK, RamTypes
<1> QED
  BY <1>1, <1>2, <1>4, <1>5, SamePagesKept, HomeKept DEF Ordinary

LEMMA BootHomed ==
  ASSUME TidyInv, Fixed, Homed, Boot PROVE Homed'
<1> USE DEF TidyInv, ReservedInv, TypeInv, TypeOK
<1>1. CASE BM_Open /\ Consistent /\ \E h \in MapPair : HomedAt(h)
  <2>1. PICK h \in MapPair : HomedAt(h)
    BY <1>1
  <2>2. /\ Current = h /\ OpenTable = TableIn(pages[h]) /\ OpenMapBlock = <<Map1, Map2>>
        /\ h \in Area /\ Whole(pages[h])
    BY <2>1, OpensAt DEF HomedAt, MapPair, Good
  <2>3. MapPair = {Map1, Map2} /\ Map1 # Map2
    BY <2>2, GoodMaps DEF Fixed
  <2>4. /\ pc' = "idle" /\ MapTarget' = h /\ SwapTable' = TableIn(pages[h])
        /\ Sequence' = OpenSequence /\ UNCHANGED pages
    BY <1>1, <2>1, <2>2, <2>3 DEF BM_Open, MapTarget, flash
  <2>5. ~ Saving' /\ Serving' /\ ~ FirstSave' /\ Home' = h /\ Phase' = "idle"
    BY <2>4 DEF Saving, Serving, FirstSave, Home, Phase
  <2>6. Below(pages[h], OpenSequence)
    <3>1. pages[h] \in PageLog
      BY <2>2, AreaLogs
    <3>2. IsFiniteSet(Legible(pages[h])) /\ Readable(h) = Legible(pages[h])
          /\ \A k \in Legible(pages[h]) : pages[h][k].seq \in Nat
      BY <3>1, LegibleType DEF Readable, Legible
    <3> DEFINE S == {pages[h][k].seq : k \in Legible(pages[h])}
    <3>3. OpenSequence = Highest(S)
      BY <2>2, <3>2 DEF OpenSequence
    <3>4. 1 \in Legible(pages[h])
      BY <2>2, <3>1, WholeBegins
    <3> DEFINE f == [k \in Legible(pages[h]) |-> pages[h][k].seq]
    <3>5. \E k \in Legible(pages[h]) : \A m \in Legible(pages[h]) : f[m] <= f[k]
      <4>1. f \in [Legible(pages[h]) -> Int] /\ Legible(pages[h]) # {}
        BY <3>2, <3>4
      <4> HIDE DEF f
      <4> QED
        BY <3>2, <4>1, MaximalExists
    <3>6. \A y \in S : y <= Highest(S)
      <4>1. \E x \in S : \A y \in S : y <= x
        BY <3>5
      <4> HIDE DEF S
      <4> QED
        BY <4>1 DEF Highest
    <3> QED
      BY <3>3, <3>6 DEF Below
  <2>7. HomedAt(Home)' /\ Below(pages[Home], Sequence)' /\ Trails'
    BY <2>1, <2>4, <2>5, <2>6 DEF HomedAt, Trails, Stored
  <2> QED
    BY <2>4, <2>5, <2>7 DEF Homed
<1>2. CASE BM_Format /\ ~ Formatted /\ \A b \in Area : ~ Whole(pages[b])
  <2>1. UNCHANGED <<pages, answered>>
    BY <1>2 DEF BM_Format, flash
  <2>2. CASE Formattable
    <3>1. pc' = "erase_map" /\ save'.next = "format" /\ CurMapBlockIdx' = 2
      BY <1>2, <2>2 DEF BM_Format, NoSave
    <3>2. FirstSave' /\ ~ Serving'
      BY <3>1 DEF FirstSave, Serving, Saving
    <3> QED
      BY <1>2, <2>1, <3>1, <3>2 DEF Homed, Formatted
  <2>3. CASE ~ Formattable
    <3>1. pc' = "dead" /\ ~ Serving' /\ ~ FirstSave' /\ Phase' # "format"
      BY <1>2, <2>3 DEF BM_Format, Serving, FirstSave, Saving, Phase
    <3> QED
      BY <1>2, <2>1, <3>1 DEF Homed, Formatted
  <2> QED
    BY <2>2, <2>3
<1> QED
  BY <1>1, <1>2, BootSteady

\* A cut leaves every log or ends it, and leaves the one a reboot reads.
LEMMA CutLogs ==
  ASSUME TidyInv, PowerLoss, NEW c \in Area PROVE LogKept(c) \/ LogGone(c)
<1> USE DEF TidyInv, ReservedInv, TypeInv, TypeOK
<1>1. LogsClimb
  BY DEF MapLogInv, LogInv
<1>2. CASE UNCHANGED pages
  BY <1>2, SamePagesKept
<1>3. ASSUME NEW b \in Block, Spoils(b) PROVE LogKept(c) \/ LogGone(c)
  BY <1>1, <1>3, SpoilsLogs
<1>4. CASE pc = "erase_new" /\ CutErase(op.new)
  <2>1. op.new \in Block
    BY <1>4 DEF CallShape, Phase, Saving, Block
  <2> QED
    BY <1>3, <1>4, <2>1, SpoilingOperations
<1>5. CASE pc = "copy" /\ EraseTo(op.new, pages[op.new], JUNK)
  <2>1. op.new \in Block
    BY <1>5 DEF CallShape, Phase, Saving, Block
  <2>2. Spoils(op.new)
    BY <1>5 DEF EraseTo, Spoils
  <2> QED
    BY <1>3, <2>1, <2>2
<1>6. CASE CutErase(MapTarget) \/ Programmed(MapTarget, TORN)
  BY <1>3, <1>6, MapTargetType, SpoilingOperations
<1> QED
  BY <1>2, <1>4, <1>5, <1>6 DEF PowerLoss, Interrupted, flash

LEMMA CutHome ==
  ASSUME TidyInv, Fixed, Homed, Serving, PowerLoss PROVE LogKept(Home)
<1> USE DEF TidyInv, ReservedInv, TypeInv, TypeOK
<1>1. PICK h : h = Home
  OBVIOUS
<1>2. /\ h \in MapPair /\ h \in Area /\ SwapTable[h] = MAP
      /\ pc \in {"erase_map", "write_all"} => h # MapTarget
      /\ pc \notin {"erase_map", "write_all"} => h = MapTarget
  BY <1>1, TwoEnds, Alive DEF Serving
<1>3. CASE UNCHANGED pages
  BY <1>1, <1>3, SamePagesKept
<1>4. CASE Interrupted /\ pc \in {"erase_new", "copy"}
  <2>1. op.new \in Area /\ SwapTable[op.new] = FREE
    BY <1>4, Alive DEF Phase, Saving
  <2>2. op.new \in Block /\ h \in Block \ {op.new}
    BY <1>2, <2>1, SpecialEntries DEF Block
  <2>3. pages'[h] = pages[h]
    BY <1>4, <2>2, FlashFrame DEF Interrupted, EraseTo, FlashTypes
  <2> QED
    BY <1>1, <2>3, SamePagesKept
<1>5. CASE Interrupted /\ pc \in {"erase_map", "write_all"}
  <2>1. MapTarget \in Block /\ h \in Block \ {MapTarget}
    BY <1>2, <1>5, MapTargetType DEF Block
  <2>2. pages'[h] = pages[h]
    BY <1>5, <2>1, FlashFrame DEF Interrupted
  <2> QED
    BY <1>1, <2>2, SamePagesKept
<1>6. CASE Interrupted /\ pc = "write_one"
  <2>1. h = MapTarget /\ pages'[h] = Append(pages[h], TORN)
    BY <1>2, <1>6, MapTargetType DEF Interrupted, Programmed, FlashTypes
  <2>2. pages[h] \in PageLog /\ TORN \in MapPage \cup {TORN}
    BY <1>2, AreaLogs
  <2>3. /\ Legible(Append(pages[h], TORN)) = Legible(pages[h])
        /\ \A k \in Legible(pages[h]) : Append(pages[h], TORN)[k] = pages[h][k]
    BY <2>2, AppendUnread, Zenon
  <2> QED
    BY <1>1, <2>1, <2>3 DEF LogKept
<1> QED
  BY <1>3, <1>4, <1>5, <1>6 DEF PowerLoss, Interrupted, flash

LEMMA PowerLossHomed ==
  ASSUME TidyInv, Fixed, Homed, PowerLoss PROVE Homed'
<1>1. [Next]_vars /\ pc' = "off" /\ ~ Serving' /\ ~ FirstSave' /\ Phase' = "off"
      /\ UNCHANGED answered
  BY DEF Next, PowerLoss, Serving, FirstSave, Saving, Phase, hist
<1>2. \A b \in Area : LogKept(b) \/ ~ Whole(pages'[b])
  BY CutLogs, GoneIsNotWhole
<1>3. \A b \in Area : Whole(pages'[b]) => Whole(pages[b])
  BY <1>1, <1>2, KeptWhole
<1>4. ASSUME NEW h \in MapPair, HomedAt(h), LogKept(h) PROVE Homed'
  <2>1. HomedAt(h)'
    BY <1>1, <1>2, <1>4, HomeStays DEF MapPair, Good
  <2> QED
    BY <1>1, <1>4, <2>1 DEF Homed
<1>5. CASE Serving
  <2>1. PICK h : h = Home
    OBVIOUS
  <2>2. h \in MapPair /\ HomedAt(h) /\ LogKept(h)
    BY <1>5, <2>1, TwoEnds, CutHome DEF Serving, Homed
  <2> QED
    BY <1>4, <2>2
<1>6. CASE FirstSave
  <2>1. ~ Formatted' /\ \A b \in Area : ~ Whole(pages'[b])
    BY <1>1, <1>3, <1>6 DEF Homed, Formatted
  <2> QED
    BY <1>1, <2>1 DEF Homed
<1>7. CASE pc = "dead"
  <2>1. UNCHANGED <<pages, answered>> /\ ~ Serving
    BY <1>7 DEF PowerLoss, Interrupted, flash, hist, Serving
  <2>2. CASE \E h \in MapPair : HomedAt(h)
    BY <1>4, <2>1, <2>2, SamePagesKept
  <2>3. CASE ~ \E h \in MapPair : HomedAt(h)
    BY <1>1, <2>1, <2>3 DEF Homed, Formatted
  <2> QED
    BY <2>2, <2>3
<1> QED
  BY <1>5, <1>6, <1>7 DEF Serving, PowerLoss

LEMMA HomedStep ==
  ASSUME TidyInv, Fixed, Homed, [Next]_vars PROVE Homed'
<1> USE DEF TidyInv, ReservedInv, TypeInv, TypeOK
<1>1. CASE EraseMap \/ WriteAll \/ WriteOne \/ FormatSecondBlock \/ Boot \/ PowerLoss
  BY <1>1, EraseMapHomed, WriteAllHomed, WriteOneHomed, FormatSecondHomed, BootHomed,
     PowerLossHomed
<1>2. CASE MarkMap \/ MarkDelayed \/ Reformat
  BY <1>2, SteadySave, SteadyBudget
<1>3. CASE UNCHANGED vars
  BY <1>3
  DEF vars, flash, ram, call, hist, Homed, HomedAt, Home, Stored, FirstSave, Serving, Trails,
      Saving, Phase, Formatted, MapTarget, OtherMapBlock
<1>4. CASE RejectNewBlock /\ (EraseNew \/ CopyPages)
  <2>1. ~ Boot /\ ~ PowerLoss /\ pc \in {"erase_new", "copy"} /\ op.new \in Area
        /\ ~ EraseMap /\ ~ WriteAll /\ ~ WriteOne
    <3>1. pc \in {"erase_new", "copy"}
      BY <1>4 DEF EraseNew, CopyPages
    <3>2. pc' # "off"
      BY <1>4 DEF RejectNewBlock, StartSave
    <3> QED
      BY <3>1, <3>2, Alive
      DEF Boot, PowerLoss, EraseMap, WriteAll, WriteOne, Phase, Saving
  <2>2. StartSave(MAP_OFFSET(op.new), "get_free") /\ MAP_OFFSET(op.new) \in MapOffsets
    BY <1>4, <2>1, MapOffsetType DEF RejectNewBlock
  <2>3. \A e \in Area : SwapTable'[e] = SwapTable[e] \/ MAP_OFFSET(e) = MAP_OFFSET(op.new)
    BY <1>4, <2>1 DEF RejectNewBlock, RamTypes
  <2>4. Ordinary /\ ~ Saving
    BY <2>1 DEF Ordinary, Saving
  <2> QED
    BY <2>1, <2>2, <2>3, <2>4, StartHomed
<1>5. CASE Enters \/ Moves \/ Arrives \/ Leaves
  <2>1. ~ Boot /\ ~ PowerLoss /\ pc \in {"register", "install"} /\ op.new \in Area
        /\ ~ EraseMap /\ ~ WriteAll /\ ~ WriteOne
    <3>1. pc \in {"register", "install"}
      BY <1>5 DEF Enters, Moves, Arrives, Leaves, InstallOriginal
    <3>2. pc' # "off"
      BY <1>5 DEF Enters, Moves, Arrives, Leaves, InstallOriginal, Install, StartSave
    <3> QED
      BY <3>1, <3>2, Alive
      DEF Boot, PowerLoss, EraseMap, WriteAll, WriteOne, Phase, Saving
  <2>2. Ordinary /\ ~ Saving
    BY <2>1 DEF Ordinary, Saving
  <2>3. CASE Leaves
    <3>1. op.bad \in Area /\ StartSave(MAP_OFFSET(op.bad), "install")
          /\ MAP_OFFSET(op.bad) \in MapOffsets
      BY <2>3, MapOffsetType DEF Leaves
    <3>2. \A e \in Area : SwapTable'[e] = SwapTable[e] \/ MAP_OFFSET(e) = MAP_OFFSET(op.bad)
      BY <2>3, <3>1 DEF Leaves, RamTypes
    <3> QED
      BY <2>1, <2>2, <3>1, <3>2, StartHomed
  <2>4. CASE Enters \/ Arrives
    <3>1. StartSave(MAP_OFFSET(op.new), "done") /\ MAP_OFFSET(op.new) \in MapOffsets
      BY <2>1, <2>4, MapOffsetType
      DEF Enters, Arrives, InstallOriginal, Install, SegmentToSave
    <3>2. \A e \in Area : SwapTable'[e] = SwapTable[e] \/ MAP_OFFSET(e) = MAP_OFFSET(op.new)
      BY <2>1, <2>4 DEF Enters, Arrives, InstallOriginal, Install, RamTypes
    <3> QED
      BY <2>1, <2>2, <3>1, <3>2, StartHomed
  <2>5. CASE Moves
    <3>1. StartSave(MAP_OFFSET(op.new), "done") /\ MAP_OFFSET(op.new) \in MapOffsets
      BY <2>1, <2>5, MapOffsetType DEF Moves, Install, SegmentToSave
    <3>2. \A e \in Area : SwapTable'[e] = SwapTable[e] \/ MAP_OFFSET(e) = MAP_OFFSET(op.new)
      BY <2>1, <2>5 DEF Moves, Moved, Install, RamTypes
    <3> QED
      BY <2>1, <2>2, <3>1, <3>2, StartHomed
  <2> QED
    BY <1>5, <2>3, <2>4, <2>5
<1>6. CASE \/ GetFreeBlock \/ Done
           \/ (EraseNew \/ CopyPages) /\ ~ RejectNewBlock
           \/ \E u \in User : \/ ProgramUser(u) \/ ProgramUserFails(u)
                              \/ EraseUser(u) \/ EraseUserFails(u)
  <2>1. /\ pc \in {"get_free", "done", "erase_new", "copy", "idle"}
        /\ pc' \in {"get_free", "done", "erase_new", "copy", "register", "idle", "dead"}
        /\ UNCHANGED <<SwapTable, MapBlock, CurMapBlockIdx, Sequence>>
    BY <1>6
    DEF GetFreeBlock, NoFreeBlock, Abort, AfterGetFree, Done, EraseNew, CopyPages, Idle,
        ProgramUser, ProgramUserFails, EraseUser, EraseUserFails, Replace, ram, call
  <2>2. /\ ~ Saving /\ ~ Saving' /\ Phase' # "format" /\ pc \notin {"off", "dead"}
        /\ pc' # "off" /\ ~ Boot /\ ~ PowerLoss /\ ~ EraseMap /\ ~ WriteAll /\ ~ WriteOne
    BY <2>1 DEF Saving, Phase, Boot, PowerLoss, EraseMap, WriteAll, WriteOne
  <2> QED
    BY <2>1, <2>2, IdleHomed DEF Ordinary
<1> QED
  BY <1>1, <1>2, <1>3, <1>4, <1>5, <1>6
  DEF Next, Step, Register, Enters, Moves, Arrives, Leaves

----------------------------------------------------------------------------
(* What a change of the table makes of the mapping.                        *)

LEMMA SameEntries ==
  ASSUME NEW T, NEW U, NEW u, \A e \in Area : T[e] = u <=> U[e] = u
  PROVE  BM_GetSwappingBlock(T, u) = BM_GetSwappingBlock(U, u)
<1>1. {e \in Area : T[e] = u} = {e \in Area : U[e] = u}
  OBVIOUS
<1> QED
  BY <1>1 DEF BM_GetSwappingBlock

LEMMA SoleEntry ==
  ASSUME NEW T, NEW u, NEW n \in Area, \A e \in Area : T[e] = u <=> e = n
  PROVE  BM_GetSwappingBlock(T, u) = n
BY SwappingBlockIs

\* Two tables with the same entries for every user block but v.
SameBut(T, U, v) == \A u \in User \ {v} : \A e \in Area : T[e] = u <=> U[e] = u

LEMMA SameButMapping ==
  ASSUME NEW T, NEW U, NEW v, SameBut(T, U, v), NEW u \in User \ {v}
  PROVE  BM_GetSwappingBlock(T, u) = BM_GetSwappingBlock(U, u)
BY SameEntries DEF SameBut

\* Different user blocks are never in one block.
LEMMA BlocksDiffer ==
  ASSUME NEW T, NEW u \in User, NEW v \in User,
         BM_GetSwappingBlock(T, u) = BM_GetSwappingBlock(T, v)
  PROVE  u = v
<1>1. CASE (\E e \in Area : T[e] = u) /\ (\E e \in Area : T[e] = v)
  BY <1>1, SwappingBlockIs
<1>2. CASE (\E e \in Area : T[e] = u) /\ ~ (\E e \in Area : T[e] = v)
  BY <1>2, SwappingBlockIs, AreaNumbers
<1>3. CASE ~ (\E e \in Area : T[e] = u) /\ (\E e \in Area : T[e] = v)
  BY <1>3, SwappingBlockIs, AreaNumbers
<1>4. CASE ~ (\E e \in Area : T[e] = u) /\ ~ (\E e \in Area : T[e] = v)
  BY <1>4, SwappingBlockIs
<1> QED
  BY <1>1, <1>2, <1>3, <1>4

\* Nor in one that the table does not give to a user block.
LEMMA BlockIsNot ==
  ASSUME NEW T, NEW u \in User, NEW b \in Area, T[b] \notin User
  PROVE  BM_GetSwappingBlock(T, u) # b
<1>1. CASE \E e \in Area : T[e] = u
  BY <1>1, SwappingBlockIs
<1>2. CASE ~ \E e \in Area : T[e] = u
  BY <1>2, SwappingBlockIs, AreaNumbers
<1> QED
  BY <1>1, <1>2

LEMMA SameMapping ==
  ASSUME NEW T, NEW U,
         \A e \in Area : T[e] = U[e] \/ (T[e] \notin User /\ U[e] \notin User)
  PROVE  /\ \A u \in User : BM_GetSwappingBlock(T, u) = BM_GetSwappingBlock(U, u)
         /\ Mapping(T) = Mapping(U)
<1>1. ASSUME NEW u \in User
      PROVE  BM_GetSwappingBlock(T, u) = BM_GetSwappingBlock(U, u)
  <2>1. \A e \in Area : T[e] = u <=> U[e] = u
    OBVIOUS
  <2> QED
    BY <2>1, SameEntries
<1> QED
  BY <1>1 DEF Mapping

\* Without its only entry, a user block stands for itself.
LEMMA DropMapping ==
  ASSUME NEW T \in [Area -> Entry], NEW b \in Area, T[b] \in User, Unique(T)
  PROVE  LET U == [T EXCEPT ![b] = BAD]
         IN  /\ \A u \in User \ {T[b]} :
                  BM_GetSwappingBlock(U, u) = BM_GetSwappingBlock(T, u)
             /\ Mapping(U) = [Mapping(T) EXCEPT ![T[b]] = T[b]]
<1> DEFINE U == [T EXCEPT ![b] = BAD]
<1>1. SameBut(T, U, T[b])
  BY SpecialEntries DEF SameBut
<1>2. \A e \in Area : U[e] # T[b]
  BY SpecialEntries DEF Unique
<1>3. BM_GetSwappingBlock(U, T[b]) = T[b]
  <2> HIDE DEF U
  <2> QED
    BY <1>2, SwappingBlockIs
<1>4. \A u \in User \ {T[b]} : BM_GetSwappingBlock(U, u) = BM_GetSwappingBlock(T, u)
  <2> HIDE DEF U
  <2> QED
    BY <1>1, SameButMapping
<1>5. Mapping(U) = [Mapping(T) EXCEPT ![T[b]] = T[b]]
  <2> HIDE DEF U
  <2> QED
    BY <1>3, <1>4 DEF Mapping
<1> QED
  BY <1>4, <1>5

\* Where v alone has a new entry, and no other one.
LEMMA NewEntry ==
  ASSUME NEW T, NEW U, NEW v, NEW n \in Area, SameBut(T, U, v),
         \A e \in Area : U[e] = v <=> e = n
  PROVE  /\ BM_GetSwappingBlock(U, v) = n
         /\ \A u \in User \ {v} : BM_GetSwappingBlock(U, u) = BM_GetSwappingBlock(T, u)
<1>1. BM_GetSwappingBlock(U, v) = n
  BY SoleEntry
<1>2. \A u \in User \ {v} : BM_GetSwappingBlock(U, u) = BM_GetSwappingBlock(T, u)
  BY SameButMapping
<1> QED
  BY <1>1, <1>2

----------------------------------------------------------------------------
(* What a call has answered, or leads to.                                  *)

LEMMA VictimBlock ==
  ASSUME TidyInv, ~ adrift, Replacing, pc \notin {"off", "dead"}
  PROVE  Victim \in User /\ BM_GetSwappingBlock(SwapTable, Victim) = op.bad
<1>1. TableInv /\ op.bad \in Block /\ (op.bad \in Area => SwapTable[op.bad] \in User)
  BY CallRuns DEF TidyInv, MapLogInv
<1>2. CASE op.bad \in Area
  <2>1. Victim = SwapTable[op.bad] /\ Victim \in User
    BY <1>1, <1>2 DEF Victim
  <2>2. \A e \in Area : SwapTable[e] = Victim <=> e = op.bad
    BY <1>1, <1>2, <2>1 DEF TableInv, Unique
  <2> QED
    BY <1>2, <2>1, <2>2, SoleEntry
<1>3. CASE op.bad \notin Area
  <2>1. Victim = op.bad /\ op.bad \in User
    BY <1>1, <1>3 DEF Victim, Block
  <2>2. \A e \in Area : SwapTable[e] # op.bad
    BY <1>1, <2>1 DEF TableInv, BadHasNoEntry, Replacing
  <2> QED
    BY <2>1, <2>2, SwappingBlockIs
<1> QED
  BY <1>2, <1>3

\* The block that a call is getting ready, or has got ready.
LEMMA NewBlock ==
  ASSUME TidyInv, ~ adrift, Phase \in {"erase_new", "copy", "register", "install"},
         pc \notin {"off", "dead"}
  PROVE  /\ op.new \in Area /\ op.new \in Block /\ SwapTable[op.new] = FREE
         /\ op.new # MapTarget
         /\ \A u \in User : BM_GetSwappingBlock(SwapTable, u) # op.new
<1>1. op.new \in Area /\ SwapTable[op.new] = FREE /\ SwapTable[MapTarget] \in {MAP, BAD}
  BY CallRuns
<1> QED
  BY <1>1, SpecialEntries, BlockIsNot DEF Block

LEMMA InstallFacts ==
  ASSUME TidyInv, Fixed, Phase = "install", pc \notin {"off", "dead"}
  PROVE  op.org \in User /\ \A e \in Area : SwapTable[e] # op.org
BY DEF TidyInv, MapsAreTwo, Fixed, MapLogInv, TableInv, BadHasNoEntry

LEMMA SaveFrame ==
  ASSUME TidyInv, Fixed, EraseMap \/ WriteAll \/ WriteOne
  PROVE  /\ Phase' = Phase /\ UNCHANGED <<SwapTable, op, hist>> /\ Saving
         /\ pc \notin {"off", "dead"} /\ pc' \notin {"off", "dead"}
<1>1. save \in [off : MapOffsets, page : MapOffsets, delayed : Area \cup {NoBlock},
                next : {"get_free", "install", "done", "format"}]
  BY DEF TidyInv, ReservedInv, TypeInv, TypeOK, CallTypes
<1>2. CASE EraseMap
  BY <1>1, <1>2, SteadySave DEF EraseMap, ram, Phase, Saving
<1>3. CASE WriteAll
  BY <1>1, <1>3, SteadySave DEF WriteAll, Phase, Saving
<1>4. CASE WriteOne
  BY <1>1, <1>4, SteadySave DEF WriteOne, Phase, Saving
<1> QED
  BY <1>2, <1>3, <1>4

LEMMA AnswersStep ==
  ASSUME TidyInv, Fixed, Homed, Answers, [Next]_vars PROVE Answers'
<1> USE DEF TidyInv, ReservedInv, TypeInv, TypeOK
<1>1. CASE EraseMap \/ WriteAll \/ WriteOne
  BY <1>1, SaveFrame DEF Answers, Replacing, hist
<1>2. CASE Boot
  <2>1. CASE BM_Open
    BY <2>1 DEF BM_Open, Answers, Phase, Saving, Replacing
  <2>2. CASE BM_Format
    BY <2>2 DEF BM_Format, Answers, Phase, Saving, Replacing, NoSave
  <2> QED
    BY <1>2, <2>1, <2>2 DEF Boot
<1>3. CASE PowerLoss
  BY <1>3 DEF PowerLoss, Answers
<1>4. CASE MarkMap \/ MarkDelayed \/ Reformat
  BY <1>4, SteadySave, SteadyBudget
<1>5. CASE UNCHANGED vars
  BY <1>5 DEF vars, ram, call, hist, Answers, Phase, Saving, Replacing
<1>6. CASE RejectNewBlock /\ (EraseNew \/ CopyPages)
  <2>1. pc \in {"erase_new", "copy"} /\ Phase = pc /\ Replacing
    BY <1>6 DEF EraseNew, CopyPages, Phase, Saving, Replacing
  <2>2. op.new \in Area /\ SwapTable[op.new] = FREE /\ SwapTable \in [Area -> Entry]
    BY <2>1, NewBlock DEF RamTypes, Fixed
  <2>3. SwapTable' = [SwapTable EXCEPT ![op.new] = BAD] /\ UNCHANGED <<window, pending, answered>>
        /\ Phase' = "get_free"
    BY <1>6, StartSavePhase DEF RejectNewBlock, hist
  <2>4. Mapping(SwapTable') = Mapping(SwapTable)
    <3>1. \A e \in Area : SwapTable'[e] = SwapTable[e]
                          \/ (SwapTable'[e] \notin User /\ SwapTable[e] \notin User)
      BY <2>2, <2>3, SpecialEntries
    <3> QED
      BY <3>1, SameMapping
  <2> QED
    BY <2>1, <2>3, <2>4 DEF Answers
<1>7. CASE Enters \/ Moves \/ Arrives
  <2>1. Phase' = "done" /\ pending' = Mapping(SwapTable')
    BY <1>7, StartSavePhase DEF Enters, Moves, Arrives, InstallOriginal, Install
  <2> QED
    BY <2>1 DEF Answers, Replacing
<1>8. CASE Leaves
  <2>1. pc = "register" /\ Phase = pc /\ Replacing /\ Phase' = "install"
        /\ pc \notin {"off", "dead"}
    BY <1>8, StartSavePhase DEF Leaves, Phase, Saving, Replacing
  <2>2. /\ op.bad \in Area /\ SwapTable[op.bad] \in User /\ SwapTable \in [Area -> Entry]
        /\ op'.org = SwapTable[op.bad] /\ window' = window \cup {SwapTable[op.bad]}
        /\ SwapTable' = [SwapTable EXCEPT ![op.bad] = BAD] /\ UNCHANGED <<answered, pending>>
    BY <1>8, <2>1, Alive DEF Leaves, CallTypes
  <2>3. window = {} /\ pending = answered /\ Mapping(SwapTable) = answered
    BY <2>1 DEF Answers
  <2>4. Mapping(SwapTable') = [answered EXCEPT ![op'.org] = op'.org]
    <3>1. Unique(SwapTable)
      BY DEF MapLogInv, TableInv
    <3>2. Mapping([SwapTable EXCEPT ![op.bad] = BAD]) =
            [Mapping(SwapTable) EXCEPT ![SwapTable[op.bad]] = SwapTable[op.bad]]
      BY <2>2, <3>1, DropMapping
    <3> QED
      BY <2>2, <2>3, <3>2
  <2> QED
    BY <2>1, <2>2, <2>3, <2>4 DEF Answers, Replacing
<1>9. CASE FormatSecondBlock
  BY <1>9 DEF FormatSecondBlock, NoSave, hist, Answers, Phase, Saving, Replacing
<1>10. CASE Done
  BY <1>10 DEF Done, Answers, Phase, Saving, Replacing
<1>11. CASE GetFreeBlock
  <2>1. /\ pc = "get_free" /\ Phase = pc /\ Replacing
        /\ UNCHANGED <<SwapTable, window, pending, answered>>
        /\ pc' \in {"idle", "dead", "erase_new", "register"}
    BY <1>11 DEF GetFreeBlock, NoFreeBlock, Abort, AfterGetFree, Phase, Saving, Replacing, hist
  <2>2. Phase' = pc'
    BY <2>1 DEF Phase, Saving
  <2> QED
    BY <2>1, <2>2 DEF Answers, Replacing
<1>12. CASE (EraseNew \/ CopyPages) /\ ~ RejectNewBlock
  <2>1. /\ pc \in {"erase_new", "copy"} /\ Phase = pc /\ Replacing
        /\ UNCHANGED <<SwapTable, window, pending, answered>>
        /\ pc' \in {"copy", "register"}
    BY <1>12 DEF EraseNew, CopyPages, Phase, Saving, Replacing, hist, ram
  <2>2. Phase' = pc'
    BY <2>1 DEF Phase, Saving
  <2> QED
    BY <2>1, <2>2 DEF Answers, Replacing
<1>13. CASE \E u \in User : \/ ProgramUser(u) \/ ProgramUserFails(u)
                            \/ EraseUser(u) \/ EraseUserFails(u)
  <2>1. /\ pc = "idle" /\ Phase = "idle" /\ pc' \in {"idle", "get_free"}
        /\ UNCHANGED <<SwapTable, window, pending, answered>>
    BY <1>13 DEF ProgramUser, ProgramUserFails, EraseUser, EraseUserFails, Idle, Replace,
                 call, ram, hist, Phase, Saving
  <2>2. Phase' = pc'
    BY <2>1 DEF Phase, Saving
  <2> QED
    BY <2>1, <2>2 DEF Answers, Replacing
<1> QED
  BY <1>1, <1>2, <1>3, <1>4, <1>5, <1>6, <1>7, <1>8, <1>9, <1>10, <1>11, <1>12, <1>13
  DEF Next, Step, Register, Enters, Moves, Arrives, Leaves

----------------------------------------------------------------------------
(* The data that callers wrote.                                            *)

LEMMA DataFrame ==
  ASSUME TidyInv, NEW b \in Block, NEW c \in Block \ {b},
         \/ EraseOk(b) \/ EraseFail(b) \/ CutErase(b)
         \/ \E pg : Programmed(b, pg)
         \/ \E d : data' = [data EXCEPT ![b] = d]
  PROVE  data'[c] = data[c]
BY FlashFrame DEF TidyInv, ReservedInv, TypeInv, TypeOK, FlashTypes

\* A user block's own block, as the type of the data has it.
LEMMA UserBlock ==
  ASSUME NEW T \in [Area -> Entry], NEW u \in User
  PROVE  BM_GetSwappingBlock(T, u) \in Block
BY SwappingBlockType DEF Block

\* The step leaves the data that the table leads to, and the table.
LEMMA KeepsFrame ==
  ASSUME TidyInv, Fixed, Keeps, pc \notin {"off", "dead"}, UNCHANGED SwapTable,
         live' \subseteq live,
         \A u \in live' : data'[BM_GetSwappingBlock(SwapTable, u)]
                            = data[BM_GetSwappingBlock(SwapTable, u)],
         Phase # "install" \/ (Phase' = "install" /\ UNCHANGED op)
  PROVE  \A u \in live' : \/ Phase' = "install" /\ u = op'.org
                          \/ data'[BM_GetSwappingBlock(SwapTable', u)] = u
BY DEF Keeps

LEMMA SaveKeeps ==
  ASSUME TidyInv, Fixed, Keeps, EraseMap \/ WriteAll \/ WriteOne PROVE Keeps'
<1> USE DEF TidyInv, ReservedInv, TypeInv, TypeOK
<1>1. /\ Phase' = Phase /\ UNCHANGED <<SwapTable, op, live>> /\ pc \notin {"off", "dead"}
  BY SaveFrame DEF hist
<1>2. /\ MapTarget \in Area /\ MapTarget \in Block /\ SwapTable[MapTarget] = MAP
      /\ SwapTable \in [Area -> Entry] /\ live \subseteq User
  BY <1>1, Alive DEF Block, HistoryTypes
<1>3. ASSUME NEW c \in Block \ {MapTarget} PROVE data'[c] = data[c]
  BY <1>2, SteadySave, DataFrame DEF WriteMapPage
<1>4. ASSUME NEW u \in live
      PROVE  data'[BM_GetSwappingBlock(SwapTable, u)] = data[BM_GetSwappingBlock(SwapTable, u)]
  <2>1. BM_GetSwappingBlock(SwapTable, u) # MapTarget
    BY <1>2, BlockIsNot, SpecialEntries
  <2> QED
    BY <1>2, <1>3, <2>1, UserBlock
<1>5. Phase \in {"register", "install"} => data'[op.new] = data[op.new]
  BY <1>1, <1>3, NewBlock DEF Fixed
<1>6. \A u \in live' : \/ Phase' = "install" /\ u = op'.org
                       \/ data'[BM_GetSwappingBlock(SwapTable', u)] = u
  BY <1>1, <1>4, KeepsFrame
<1> QED
  BY <1>1, <1>5, <1>6 DEF Keeps, Replacing, Victim

LEMMA NewBlockKeeps ==
  ASSUME TidyInv, ~ adrift, Keeps, EraseNew \/ CopyPages PROVE Keeps'
<1> USE DEF TidyInv, ReservedInv, TypeInv, TypeOK
<1>1. /\ pc \in {"erase_new", "copy"} /\ Phase = pc /\ Replacing
      /\ UNCHANGED <<op, live>> /\ pc \notin {"off", "dead"}
  BY DEF EraseNew, CopyPages, RejectNewBlock, Phase, Saving, Replacing, hist
<1>2. /\ op.new \in Area /\ op.new \in Block /\ SwapTable[op.new] = FREE
      /\ SwapTable \in [Area -> Entry] /\ live \subseteq User
      /\ \A u \in User : BM_GetSwappingBlock(SwapTable, u) # op.new
  BY <1>1, NewBlock DEF RamTypes, HistoryTypes
<1>3. Victim \in User /\ BM_GetSwappingBlock(SwapTable, Victim) = op.bad
      /\ op.bad \in Block /\ op.bad # op.new
      /\ (op.bad \in Area => SwapTable[op.bad] \in User)
  BY <1>1, <1>2, VictimBlock, CallRuns
<1>4. ASSUME NEW c \in Block \ {op.new} PROVE data'[c] = data[c]
  BY <1>2, <1>4, DataFrame DEF EraseNew, CopyPages
<1>5. ASSUME NEW u \in live
      PROVE  data'[BM_GetSwappingBlock(SwapTable, u)] = u
  <2>1. BM_GetSwappingBlock(SwapTable, u) \in Block \ {op.new}
    BY <1>2, UserBlock
  <2> QED
    BY <1>1, <1>4, <2>1 DEF Keeps
<1>6. CASE RejectNewBlock
  <2>1. SwapTable' = [SwapTable EXCEPT ![op.new] = BAD] /\ Phase' = "get_free"
    BY <1>6, StartSavePhase DEF RejectNewBlock
  <2>2. \A u \in User : BM_GetSwappingBlock(SwapTable', u) = BM_GetSwappingBlock(SwapTable, u)
    <3>1. \A e \in Area : SwapTable'[e] = SwapTable[e]
                          \/ (SwapTable'[e] \notin User /\ SwapTable[e] \notin User)
      BY <1>2, <2>1, SpecialEntries
    <3> QED
      BY <3>1, SameMapping
  <2>3. Victim' = Victim
    BY <1>1, <1>2, <1>3, <2>1 DEF Victim
  <2> QED
    BY <1>1, <1>2, <1>5, <2>1, <2>2, <2>3 DEF Keeps
<1>7. CASE ~ RejectNewBlock
  <2>1. /\ UNCHANGED SwapTable /\ pc' \in {"copy", "register"} /\ Victim' = Victim
        /\ pc' = "register" => data' = [data EXCEPT ![op.new] = data[op.bad]]
    BY <1>1, <1>7 DEF EraseNew, CopyPages, ram, Victim
  <2>2. Phase' = pc'
    BY <2>1 DEF Phase, Saving
  <2>3. Victim \in live => data[op.bad] = Victim
    BY <1>1, <1>3 DEF Keeps
  <2>4. pc' = "register" /\ Victim \in live => data'[op.new] = Victim
    BY <1>2, <2>1, <2>3 DEF FlashTypes
  <2> QED
    BY <1>1, <1>5, <2>1, <2>2, <2>4 DEF Keeps, Replacing
<1> QED
  BY <1>6, <1>7

\* A registration sends the user block to its new block, and no other one.
LEMMA RegisterMaps ==
  ASSUME TidyInv, ~ adrift, Enters \/ Moves
  PROVE  /\ Victim \in User
         /\ BM_GetSwappingBlock(SwapTable', Victim) = op.new
         /\ \A u \in User \ {Victim} :
              BM_GetSwappingBlock(SwapTable', u) = BM_GetSwappingBlock(SwapTable, u)
<1> USE DEF TidyInv, ReservedInv, TypeInv, TypeOK
<1>1. /\ pc = "register" /\ Phase = pc /\ Replacing /\ pc \notin {"off", "dead"}
  BY DEF Enters, Moves, Phase, Saving, Replacing
<1>2. /\ op.new \in Area /\ SwapTable[op.new] \notin User
      /\ SwapTable \in [Area -> Entry] /\ Unique(SwapTable)
  BY <1>1, NewBlock, SpecialEntries DEF RamTypes, MapLogInv, TableInv
<1>3. Victim \in User /\ (op.bad \in Area => SwapTable[op.bad] \in User)
  BY <1>1, VictimBlock, CallRuns
<1>4. CASE Enters
  <2>1. /\ op.bad \in User /\ Victim = op.bad /\ \A e \in Area : SwapTable[e] # op.bad
        /\ SwapTable' = [SwapTable EXCEPT ![op.new] = op.bad]
    BY <1>1, <1>4, AreaNumbers
    DEF Enters, Install, Victim, MapLogInv, TableInv, BadHasNoEntry
  <2>2. SameBut(SwapTable, SwapTable', Victim)
    BY <1>2, <2>1 DEF SameBut
  <2>3. \A e \in Area : SwapTable'[e] = Victim <=> e = op.new
    BY <1>2, <2>1
  <2> QED
    BY <1>2, <1>3, <2>2, <2>3, NewEntry
<1>5. CASE Moves
  <2>1. /\ op.bad \in Area /\ Victim = SwapTable[op.bad] /\ SwapTable[op.bad] \in User
        /\ SwapTable' = [SwapTable EXCEPT ![op.bad] = BAD, ![op.new] = SwapTable[op.bad]]
    BY <1>3, <1>5 DEF Moves, Moved, Install, Victim
  <2>2. op.bad # op.new /\ Victim \notin {FREE, MAP, BAD}
    BY <1>2, <2>1, SpecialEntries
  <2>3. SameBut(SwapTable, SwapTable', Victim)
    BY <1>2, <2>1, <2>2, SpecialEntries DEF SameBut
  <2>4. \A e \in Area : SwapTable'[e] = Victim <=> e = op.new
    BY <1>2, <2>1, <2>2, SpecialEntries DEF Unique
  <2> QED
    BY <1>2, <1>3, <2>3, <2>4, NewEntry
<1> QED
  BY <1>4, <1>5

LEMMA EntersKeeps ==
  ASSUME TidyInv, ~ adrift, Keeps, Enters \/ Moves PROVE Keeps'
<1> USE DEF TidyInv, ReservedInv, TypeInv, TypeOK
<1>1. /\ pc = "register" /\ Phase = pc /\ Replacing /\ Phase' = "done"
      /\ UNCHANGED <<data, live>> /\ pc \notin {"off", "dead"} /\ live \subseteq User
  BY StartSavePhase
  DEF Enters, Moves, Install, Phase, Saving, Replacing, flash, HistoryTypes
<1>2. Victim \in User /\ (Victim \in live => data[op.new] = Victim)
      /\ \A u \in live : data[BM_GetSwappingBlock(SwapTable, u)] = u
  BY <1>1, VictimBlock DEF Keeps
<1>3. /\ BM_GetSwappingBlock(SwapTable', Victim) = op.new
      /\ \A u \in User \ {Victim} :
           BM_GetSwappingBlock(SwapTable', u) = BM_GetSwappingBlock(SwapTable, u)
  BY RegisterMaps
<1>4. \A u \in live' : data'[BM_GetSwappingBlock(SwapTable', u)] = u
  BY <1>1, <1>2, <1>3
<1> QED
  BY <1>1, <1>4 DEF Keeps, Replacing

LEMMA RegisterKeeps ==
  ASSUME TidyInv, Fixed, Keeps, Enters \/ Moves \/ Leaves \/ Arrives PROVE Keeps'
<1> USE DEF TidyInv, ReservedInv, TypeInv, TypeOK
<1>1. /\ pc \in {"register", "install"} /\ Phase = pc /\ ~ adrift
      /\ UNCHANGED <<data, live>> /\ op'.new = op.new /\ pc \notin {"off", "dead"}
  BY DEF Enters, Moves, Leaves, Arrives, InstallOriginal, Install, Phase, Saving, flash,
         CallTypes, Fixed
<1>2. /\ op.new \in Area /\ SwapTable[op.new] \notin User
      /\ SwapTable \in [Area -> Entry] /\ live \subseteq User /\ Unique(SwapTable)
  BY <1>1, NewBlock, SpecialEntries DEF RamTypes, HistoryTypes, MapLogInv, TableInv
<1>3. CASE Enters \/ Moves
  BY <1>1, <1>3, EntersKeeps
<1>4. CASE Leaves
  <2>1. pc = "register" /\ Replacing /\ Phase' = "install"
    BY <1>1, <1>4, StartSavePhase DEF Leaves, Replacing
  <2>2. /\ op.bad \in Area /\ SwapTable[op.bad] \in User /\ Victim = SwapTable[op.bad]
        /\ op'.org = Victim
        /\ SwapTable' = [SwapTable EXCEPT ![op.bad] = BAD]
    BY <1>1, <1>4, <2>1, Alive DEF Leaves, CallTypes, Victim
  <2>3. \A u \in User \ {SwapTable[op.bad]} :
          BM_GetSwappingBlock([SwapTable EXCEPT ![op.bad] = BAD], u)
            = BM_GetSwappingBlock(SwapTable, u)
    BY <1>2, <2>2, DropMapping
  <2>4. \A u \in live' : u = op'.org \/ data'[BM_GetSwappingBlock(SwapTable', u)] = u
    BY <1>1, <1>2, <2>1, <2>2, <2>3 DEF Keeps
  <2>5. op'.org \in live' => data'[op'.new] = op'.org
    BY <1>1, <2>1, <2>2 DEF Keeps
  <2> QED
    BY <2>1, <2>4, <2>5 DEF Keeps, Replacing
<1>5. CASE Arrives
  <2>1. /\ pc = "install" /\ Phase = "install" /\ Phase' = "done"
        /\ SwapTable' = [SwapTable EXCEPT ![op.new] = op.org]
    BY <1>1, <1>5, StartSavePhase DEF Arrives, InstallOriginal, Install
  <2>2. op.org \in User /\ \A e \in Area : SwapTable[e] # op.org
    BY <1>1, <2>1, InstallFacts
  <2>3. /\ BM_GetSwappingBlock(SwapTable', op.org) = op.new
        /\ \A u \in User \ {op.org} :
             BM_GetSwappingBlock(SwapTable', u) = BM_GetSwappingBlock(SwapTable, u)
    <3>1. SameBut(SwapTable, SwapTable', op.org)
      BY <1>2, <2>1, <2>2 DEF SameBut
    <3>2. \A e \in Area : SwapTable'[e] = op.org <=> e = op.new
      BY <1>2, <2>1, <2>2
    <3> QED
      BY <1>2, <3>1, <3>2, NewEntry
  <2>4. \A u \in live' : data'[BM_GetSwappingBlock(SwapTable', u)] = u
    BY <1>1, <1>2, <2>1, <2>2, <2>3 DEF Keeps
  <2> QED
    BY <2>1, <2>4 DEF Keeps, Replacing
<1> QED
  BY <1>3, <1>4, <1>5

LEMMA UserKeeps ==
  ASSUME TidyInv, Keeps, NEW u \in User,
         ProgramUser(u) \/ ProgramUserFails(u) \/ EraseUser(u) \/ EraseUserFails(u)
  PROVE  Keeps'
<1> USE DEF TidyInv, ReservedInv, TypeInv, TypeOK
<1>1. /\ pc = "idle" /\ Phase = "idle" /\ UNCHANGED SwapTable /\ live \subseteq User
      /\ SwapTable \in [Area -> Entry]
  BY DEF ProgramUser, ProgramUserFails, EraseUser, EraseUserFails, Idle, Phase, Saving, ram,
         HistoryTypes, RamTypes
<1>2. /\ BlockOf(u) \in Block /\ BlockOf(u) = BM_GetSwappingBlock(SwapTable, u)
      /\ \A v \in User : BM_GetSwappingBlock(SwapTable, v) \in Block
      /\ \A v \in User \ {u} : BM_GetSwappingBlock(SwapTable, v) # BlockOf(u)
  BY <1>1, UserBlock, BlocksDiffer DEF BlockOf
<1>3. \A v \in live : data[BM_GetSwappingBlock(SwapTable, v)] = v
  BY <1>1 DEF Keeps
<1>4. ASSUME EraseOk(BlockOf(u)) \/ EraseFail(BlockOf(u)) \/ UNCHANGED data
             \/ data' = [data EXCEPT ![BlockOf(u)] = u],
             NEW v \in live, v # u
      PROVE  data'[BM_GetSwappingBlock(SwapTable, v)] = v
  <2>1. BM_GetSwappingBlock(SwapTable, v) \in Block \ {BlockOf(u)}
    BY <1>1, <1>2, <1>4
  <2>2. data'[BM_GetSwappingBlock(SwapTable, v)] = data[BM_GetSwappingBlock(SwapTable, v)]
    BY <1>2, <1>4, <2>1, DataFrame
  <2> QED
    BY <1>3, <2>2
<1>5. CASE ProgramUser(u)
  <2>1. /\ data' = [data EXCEPT ![BlockOf(u)] = u] /\ live' \subseteq live \cup {u}
        /\ Phase' = "idle"
    BY <1>1, <1>5 DEF ProgramUser, call, Phase, Saving
  <2>2. data'[BlockOf(u)] = u
    BY <1>2, <2>1 DEF FlashTypes
  <2>3. \A v \in live' : data'[BM_GetSwappingBlock(SwapTable', v)] = v
    BY <1>1, <1>2, <1>4, <2>1, <2>2
  <2> QED
    BY <2>1, <2>3 DEF Keeps, Replacing
<1>6. CASE EraseUser(u)
  <2>1. EraseOk(BlockOf(u)) /\ live' = live \ {u} /\ Phase' = "idle"
    BY <1>1, <1>6 DEF EraseUser, call, Phase, Saving
  <2>2. \A v \in live' : data'[BM_GetSwappingBlock(SwapTable', v)] = v
    BY <1>1, <1>4, <2>1
  <2> QED
    BY <2>1, <2>2 DEF Keeps, Replacing
<1>7. CASE ProgramUserFails(u) \/ EraseUserFails(u)
  <2>1. Phase' = "get_free" /\ op'.bad = BlockOf(u)
    BY <1>7 DEF ProgramUserFails, EraseUserFails, Replace, Phase, Saving, NoOp
  <2>2. Victim' = u
    <3>1. CASE BlockOf(u) \in Area
      <4>1. BlockOf(u) # u
        BY <3>1, AreaNumbers
      <4>2. SwapTable[BlockOf(u)] = u
        BY <1>1, <1>2, <4>1, SwappingBlockType DEF Block
      <4> QED
        BY <1>1, <2>1, <3>1, <4>2 DEF Victim
    <3>2. CASE BlockOf(u) \notin Area
      <4>1. BlockOf(u) = u
        BY <1>1, <1>2, <3>2, SwappingBlockType DEF Block
      <4> QED
        BY <2>1, <3>2, <4>1 DEF Victim
    <3> QED
      BY <3>1, <3>2
  <2>3. CASE ProgramUserFails(u)
    <3>1. UNCHANGED <<data, live>> /\ op'.cmd = "write"
      BY <2>3 DEF ProgramUserFails, Replace, NoOp, flash, hist
    <3> QED
      BY <1>1, <1>3, <2>1, <3>1 DEF Keeps
  <2>4. CASE EraseUserFails(u)
    <3>1. EraseFail(BlockOf(u)) /\ live' = live \ {u}
      BY <2>4 DEF EraseUserFails
    <3>2. \A v \in live' : data'[BM_GetSwappingBlock(SwapTable', v)] = v
      BY <1>1, <1>4, <3>1
    <3> QED
      BY <2>1, <2>2, <3>1, <3>2 DEF Keeps
  <2> QED
    BY <1>7, <2>3, <2>4
<1> QED
  BY <1>5, <1>6, <1>7

\* The steps that change neither the table nor the data.
LEMMA PlainKeeps ==
  ASSUME TidyInv, Keeps, GetFreeBlock \/ FormatSecondBlock \/ Done PROVE Keeps'
<1>1. CASE GetFreeBlock
  <2>1. /\ pc = "get_free" /\ Phase = pc /\ Replacing /\ UNCHANGED <<SwapTable, data, live>>
        /\ pc' \in {"idle", "dead", "erase_new", "register"}
    BY <1>1 DEF GetFreeBlock, NoFreeBlock, Abort, AfterGetFree, Phase, Saving, Replacing, hist,
                flash
  <2>2. Phase' = pc'
    BY <2>1 DEF Phase, Saving
  <2>3. \A u \in live' : data'[BM_GetSwappingBlock(SwapTable', u)] = u
    BY <2>1 DEF Keeps
  <2>4. CASE pc' \in {"erase_new", "register"}
    <3>1. op'.bad = op.bad /\ op'.cmd = op.cmd /\ (pc' = "register" => op.cmd # "write")
      BY <1>1, <2>4
      DEF GetFreeBlock, NoFreeBlock, Abort, AfterGetFree, TidyInv, ReservedInv, TypeInv, TypeOK,
          CallTypes
    <3>2. Victim' = Victim
      BY <2>1, <3>1 DEF Victim
    <3> QED
      BY <2>1, <2>2, <2>3, <2>4, <3>1, <3>2 DEF Keeps
  <2>5. CASE pc' \in {"idle", "dead"}
    BY <2>2, <2>3, <2>5 DEF Keeps, Replacing
  <2> QED
    BY <2>1, <2>4, <2>5
<1>2. CASE FormatSecondBlock \/ Done
  <2>1. /\ pc \in {"format", "done"} /\ Phase = pc /\ Phase' \in {"done", "idle"}
        /\ UNCHANGED <<SwapTable, data, live>>
    BY <1>2 DEF FormatSecondBlock, Done, flash, hist, Phase, Saving, NoSave
  <2> QED
    BY <2>1 DEF Keeps, Replacing
<1> QED
  BY <1>1, <1>2

LEMMA KeepsStep ==
  ASSUME SurvivalInv, [Next]_vars PROVE Keeps'
<1> USE DEF SurvivalInv, TidyInv, ReservedInv, TypeInv, TypeOK
<1>1. CASE EraseMap \/ WriteAll \/ WriteOne
  BY <1>1, SaveKeeps
<1>2. CASE EraseNew \/ CopyPages
  BY <1>2, NewBlockKeeps DEF Fixed
<1>3. CASE Enters \/ Moves \/ Leaves \/ Arrives
  BY <1>3, RegisterKeeps
<1>4. CASE \E u \in User : \/ ProgramUser(u) \/ ProgramUserFails(u)
                           \/ EraseUser(u) \/ EraseUserFails(u)
  BY <1>4, UserKeeps
<1>5. CASE MarkMap \/ MarkDelayed \/ Reformat
  BY <1>5, SteadySave, SteadyBudget
<1>6. CASE Boot
  <2>1. CASE BM_Open /\ Consistent /\ \E h \in MapPair : HomedAt(h)
    <3>1. PICK h \in MapPair : HomedAt(h)
      BY <2>1
    <3>2. ~ Serving
      BY <1>6 DEF Boot, Serving
    <3>3. RereadsAt(h) /\ OpenTable = TableIn(pages[h])
      BY <3>1, <3>2, OpensAt DEF Rereads
    <3>4. /\ SwapTable' = OpenTable /\ live' = live \ window /\ UNCHANGED data
          /\ Phase' = "idle"
      BY <2>1 DEF BM_Open, flash, Phase, Saving
    <3> QED
      BY <3>3, <3>4 DEF RereadsAt, Keeps, Replacing
  <2>2. CASE BM_Format
    <3>1. live' = {} /\ (pc' = "dead" \/ Phase' = "format")
      BY <2>2 DEF BM_Format, Phase, Saving, NoSave
    <3> QED
      BY <3>1 DEF Keeps, Replacing
  <2> QED
    BY <1>6, <2>1, <2>2, BootSteady
<1>7. CASE PowerLoss
  BY <1>7 DEF PowerLoss, Keeps
<1>8. CASE GetFreeBlock \/ FormatSecondBlock \/ Done
  BY <1>8, PlainKeeps
<1>9. CASE UNCHANGED vars
  BY <1>9 DEF vars, flash, ram, call, hist, Keeps, Phase, Saving, Replacing, Victim
<1> QED
  BY <1>1, <1>2, <1>3, <1>4, <1>5, <1>6, <1>7, <1>8, <1>9
  DEF Next, Step, Register, Enters, Moves, Arrives, Leaves

----------------------------------------------------------------------------
(* What a reboot reads.                                                    *)

LEMMA HomeIsOne ==
  ASSUME TidyInv, NEW h, HomedAt(h), NEW g, HomedAt(g) PROVE h = g
<1> SUFFICES ASSUME h # g PROVE FALSE
  OBVIOUS
<1>1. h \in MapPair /\ g \in MapPair /\ h \in Area /\ g \in Area
      /\ Whole(pages[h]) /\ Whole(pages[g])
  BY DEF HomedAt, MapPair, Good
<1>2. pages[h] \in PageLog /\ pages[g] \in PageLog
  BY <1>1, AreaLogs DEF TidyInv, ReservedInv
<1>3. 1 \in Legible(pages[h]) /\ 1 \in Legible(pages[g])
  BY <1>1, <1>2, WholeBegins
<1>4. pages[h][1].seq \in Nat /\ pages[g][1].seq \in Nat
  BY <1>2, <1>3, LegibleType
<1>5. pages[h][1].seq < pages[g][1].seq /\ pages[g][1].seq < pages[h][1].seq
  BY <1>1, <1>3 DEF HomedAt
<1> QED
  BY <1>4, <1>5

\* Between saves the table on the chip is the one in memory.
LEMMA HomeTable ==
  ASSUME TidyInv, Fixed, Homed, Serving, ~ Saving, NEW h, HomedAt(h)
  PROVE  \A e \in Area : TableIn(pages[h])[e] = SwapTable[e]
<1>1. h = Home
  BY HomeIsOne DEF Homed
<1> QED
  BY <1>1 DEF Homed, Trails, Stored

LEMMA HomeRereads ==
  ASSUME SurvivalInv, NEW h \in MapPair, HomedAt(h) PROVE RereadsAt(h)
<1> USE DEF SurvivalInv
<1>1. CASE Saving \/ ~ Serving
  BY <1>1 DEF Rereads
<1>2. CASE ~ Saving /\ Serving
  <2> DEFINE T == TableIn(pages[h])
  <2>1. \A e \in Area : T[e] = SwapTable[e]
    BY <1>2, HomeTable
  <2>2. /\ Mapping(T) = Mapping(SwapTable)
        /\ \A u \in User : BM_GetSwappingBlock(T, u) = BM_GetSwappingBlock(SwapTable, u)
    <3> HIDE DEF T
    <3> QED
      BY <2>1, SameMapping
  <2>3. pc \notin {"off", "dead"} /\ Phase = pc
    BY <1>2 DEF Serving, Phase
  <2>4. Phase = "idle" \/ Replacing \/ Phase = "install" \/ Phase \in {"done", "format"}
    BY <1>2, <2>3 DEF TidyInv, ReservedInv, TypeInv, TypeOK, CallTypes, Saving, Replacing
  <2>5. Mapping(T) \in {answered, pending} \cup {[answered EXCEPT ![u] = u] : u \in window}
    BY <2>2, <2>3, <2>4 DEF Answers
  <2>6. \A u \in live \ window : data[BM_GetSwappingBlock(T, u)] = u
    <3>1. live \subseteq User
      BY DEF TidyInv, ReservedInv, TypeInv, TypeOK, HistoryTypes
    <3>2. \A u \in live \ window : data[BM_GetSwappingBlock(SwapTable, u)] = u
      BY <2>3 DEF Keeps, Answers
    <3> QED
      BY <2>2, <3>1, <3>2
  <2> QED
    BY <2>5, <2>6 DEF RereadsAt
<1> QED
  BY <1>1, <1>2

\* What becomes of it, while neither the log nor the data it leads to change.
LEMMA RereadsStays ==
  ASSUME NEW h, RereadsAt(h), TableIn(pages'[h]) = TableIn(pages[h]),
         UNCHANGED answered, window \subseteq window', live' \subseteq live,
         pending \in {answered, pending'},
         \A u \in live \ window :
           data'[BM_GetSwappingBlock(TableIn(pages[h]), u)]
             = data[BM_GetSwappingBlock(TableIn(pages[h]), u)]
  PROVE  RereadsAt(h)'
<1> DEFINE T == TableIn(pages[h])
<1>1. Mapping(T) \in {answered, pending} \cup {[answered EXCEPT ![u] = u] : u \in window}
  BY DEF RereadsAt
<1>2. Mapping(T) \in {answered', pending'} \cup {[answered' EXCEPT ![u] = u] : u \in window'}
  <2> HIDE DEF T
  <2> QED
    BY <1>1
<1>3. \A u \in live' \ window' : data'[BM_GetSwappingBlock(T, u)] = u
  BY DEF RereadsAt
<1> QED
  BY <1>2, <1>3 DEF RereadsAt

\* A block whose entry is special holds no data the table leads to.
LEMMA StoredFrame ==
  ASSUME TidyInv, NEW h \in Area, Whole(pages[h]), NEW b \in Area,
         TableIn(pages[h])[b] \notin User,
         \A c \in Block \ {b} : data'[c] = data[c],
         NEW u \in live
  PROVE  data'[BM_GetSwappingBlock(TableIn(pages[h]), u)]
           = data[BM_GetSwappingBlock(TableIn(pages[h]), u)]
<1>1. u \in User
  BY DEF TidyInv, ReservedInv, TypeInv, TypeOK, HistoryTypes
<1>2. TableIn(pages[h]) \in [Area -> Entry]
  BY AreaLogs, TableInType DEF TidyInv, ReservedInv
<1>3. BM_GetSwappingBlock(TableIn(pages[h]), u) \in Block \ {b}
  BY <1>1, <1>2, UserBlock, BlockIsNot
<1> QED
  BY <1>3

LEMMA PartIsNotWhole ==
  ASSUME TidyInv, Fixed, EraseMap \/ WriteAll, Saving' PROVE ~ Whole(pages'[MapTarget])
<1> USE DEF TidyInv, ReservedInv, TypeInv, TypeOK
<1>1. CASE EraseMap
  <2>1. pages'[MapTarget] = << >>
    BY <1>1, SteadySave, MapTargetType DEF EraseOk, EraseTo, FlashTypes
  <2> QED
    BY <2>1, EmptyLog
<1>2. CASE WriteAll
  <2> DEFINE t == Append(pages[MapTarget], MapPageOf(save.page))
  <2>1. pc = "write_all" /\ MapLogInv /\ WriteMapPage(MapTarget, save.page, save.page)
        /\ save.next \in {"get_free", "install", "done", "format"}
    BY <1>2, SteadySave DEF WriteAll, CallTypes
  <2>2. save.page + 1 < NumMapPages /\ save.page \in Nat /\ NumMapPages \in Nat
    BY <1>2, <2>1, SteadySave, NumMapPagesType DEF Saving, CallTypes, MapOffsets
  <2>3. pages'[MapTarget] = t
    BY <2>1, MapTargetType DEF WriteMapPage, Programmed, FlashTypes
  <2>4. t \in PageLog /\ Len(t) = save.page + 1 /\ InTurn(t, SwapTable) /\ Climbs(t)
    BY <2>1, RewriteAppend DEF MapLogInv, GoodLog
  <2>5. Whole(t) <=> Len(t) = NumMapPages
    <3>1. SwapTable \in [Area -> Entry]
      BY DEF RamTypes
    <3> HIDE DEF t
    <3> QED
      BY <2>4, <3>1, InTurnTable
  <2> HIDE DEF t
  <2> QED
    BY <2>2, <2>3, <2>4, <2>5
<1> QED
  BY <1>1, <1>2

LEMMA SaveRereads ==
  ASSUME SurvivalInv, EraseMap \/ WriteAll \/ WriteOne PROVE Rereads'
<1> USE DEF SurvivalInv, TidyInv, ReservedInv, TypeInv, TypeOK
<1>1. CASE WriteOne \/ ~ Saving'
  <2>1. ~ Saving' /\ pc' \notin {"off", "dead"}
    BY <1>1, SteadySave, SaveFrame DEF Saving, CallTypes
  <2> QED
    BY <2>1 DEF Rereads, Serving, FirstSave
<1>2. CASE (EraseMap \/ WriteAll) /\ Saving'
  <2> SUFFICES ASSUME NEW h \in MapPair, HomedAt(h)' PROVE RereadsAt(h)'
    BY DEF Rereads
  <2>1. h \in Area /\ h # MapTarget /\ pages'[h] = pages[h] /\ Whole(pages[h])
    BY <1>2, PartIsNotWhole, OtherPages DEF HomedAt, MapPair, Good
  <2>2. h = Home
    BY <2>1, <1>2, SaveFrame, TwoEnds DEF EraseMap, WriteAll, Home
  <2>3. HomedAt(h)
    BY <1>2, <2>1, <2>2, SaveFrame DEF Homed, Serving
  <2>4. RereadsAt(h) /\ UNCHANGED hist
    BY <1>2, <2>3, HomeRereads, SaveFrame
  <2>5. MapTarget \in Area /\ MapTarget \in MapPair /\ MapTarget \in Block
        /\ TableIn(pages[h])[MapTarget] \notin User
    BY <1>2, <2>1, SaveFrame, Alive, SpecialEntries DEF Fixed, Settled, Block
  <2>6. \A c \in Block \ {MapTarget} : data'[c] = data[c]
    BY <1>2, <2>5, SteadySave, DataFrame DEF WriteMapPage
  <2>7. \A u \in live : data'[BM_GetSwappingBlock(TableIn(pages[h]), u)]
                          = data[BM_GetSwappingBlock(TableIn(pages[h]), u)]
    BY <2>1, <2>5, <2>6, StoredFrame
  <2> QED
    BY <2>1, <2>4, <2>7, RereadsStays DEF hist
<1> QED
  BY <1>1, <1>2

LEMMA StartRereads ==
  ASSUME SurvivalInv, Ordinary,
         \/ RejectNewBlock /\ (EraseNew \/ CopyPages)
         \/ Enters \/ Moves \/ Leaves \/ Arrives
  PROVE  Rereads'
<1> USE DEF SurvivalInv, TidyInv, ReservedInv, TypeInv, TypeOK
<1>1. /\ pc \in {"erase_new", "copy", "register", "install"} /\ Phase = pc
      /\ ~ Saving /\ Serving /\ pc \notin {"off", "dead"}
      /\ ~ EraseMap /\ ~ WriteAll /\ ~ WriteOne
  <2>1. pc \in {"erase_new", "copy", "register", "install"}
    BY DEF EraseNew, CopyPages, Enters, Moves, Leaves, Arrives, InstallOriginal
  <2> QED
    BY <2>1 DEF Phase, Saving, Serving, FirstSave, EraseMap, WriteAll, WriteOne
<1>2. op.new \in Area /\ op.new \in Block /\ SwapTable[op.new] = FREE
  BY <1>1, NewBlock DEF Fixed
<1> SUFFICES ASSUME NEW h \in MapPair, HomedAt(h)' PROVE RereadsAt(h)'
  BY DEF Rereads
<1>3. \A b \in MapPair : pages'[b] = pages[b]
  BY <1>1, PairFrame
<1>4. HomedAt(h)
  BY <1>3 DEF HomedAt
<1>5. h \in Area /\ Whole(pages[h]) /\ RereadsAt(h)
  BY <1>4, HomeRereads DEF HomedAt, MapPair, Good
<1>6. \A c \in Block \ {op.new} : data'[c] = data[c]
  <2> SUFFICES ASSUME NEW c \in Block \ {op.new} PROVE data'[c] = data[c]
    OBVIOUS
  <2>1. CASE EraseNew \/ CopyPages
    BY <1>2, <2>1, DataFrame DEF EraseNew, CopyPages
  <2>2. CASE Enters \/ Moves \/ Leaves \/ Arrives
    BY <2>2 DEF Enters, Moves, Leaves, Arrives, InstallOriginal, Install, flash
  <2> QED
    BY <2>1, <2>2
<1>7. TableIn(pages[h])[op.new] \notin User
  BY <1>1, <1>2, <1>4, HomeTable, SpecialEntries
<1>8. \A u \in live : data'[BM_GetSwappingBlock(TableIn(pages[h]), u)]
                        = data[BM_GetSwappingBlock(TableIn(pages[h]), u)]
  BY <1>2, <1>5, <1>6, <1>7, StoredFrame
<1>9. pending = answered
  BY <1>1 DEF Answers, Replacing
<1>10. UNCHANGED <<answered, live>> /\ window \subseteq window'
  BY DEF RejectNewBlock, Enters, Moves, Leaves, Arrives, InstallOriginal, Install, hist
<1> QED
  BY <1>3, <1>5, <1>8, <1>9, <1>10, RereadsStays

LEMMA PowerLossRereads ==
  ASSUME SurvivalInv, PowerLoss PROVE Rereads'
<1> USE DEF SurvivalInv, TidyInv, ReservedInv, TypeInv, TypeOK
<1>1. [Next]_vars /\ UNCHANGED hist
  BY DEF PowerLoss, Next
<1> SUFFICES ASSUME NEW h \in MapPair, HomedAt(h)' PROVE RereadsAt(h)'
  BY DEF Rereads
<1>2. h \in Area /\ LogKept(h) /\ Whole(pages[h]) /\ TableIn(pages'[h]) = TableIn(pages[h])
  BY <1>1, CutLogs, GoneIsNotWhole, KeptWhole DEF HomedAt, MapPair, Good
<1>3. CASE Serving
  <2>1. PICK g : g = Home
    OBVIOUS
  <2>2. g \in MapPair /\ g \in Area /\ HomedAt(g) /\ LogKept(g)
    BY <1>3, <2>1, TwoEnds, CutHome DEF Serving, Homed
  <2>3. HomedAt(g)'
    BY <1>1, <2>2, CutLogs, GoneIsNotWhole, HomeStays DEF MapPair, Good
  <2>4. h = g
    <3> SUFFICES ASSUME h # g PROVE FALSE
      OBVIOUS
    <3>1. /\ pages'[h] \in PageLog /\ pages'[g] \in PageLog
          /\ Whole(pages'[h]) /\ Whole(pages'[g])
      BY <1>1, <1>2, <2>2, <2>3, NextPages DEF HomedAt
    <3>2. 1 \in Legible(pages'[h]) /\ 1 \in Legible(pages'[g])
      BY <3>1, WholeBegins
    <3>3. pages'[h][1].seq \in Nat /\ pages'[g][1].seq \in Nat
      BY <3>1, <3>2, LegibleType
    <3>4. pages'[h][1].seq < pages'[g][1].seq /\ pages'[g][1].seq < pages'[h][1].seq
      BY <2>2, <2>3, <3>1, <3>2 DEF HomedAt
    <3> QED
      BY <3>3, <3>4
  <2>5. RereadsAt(h)
    BY <2>2, <2>4, HomeRereads
  <2>6. ASSUME NEW b \in Area, TableIn(pages[h])[b] \notin User,
               \A c \in Block \ {b} : data'[c] = data[c]
        PROVE  RereadsAt(h)'
    <3>1. \A u \in live : data'[BM_GetSwappingBlock(TableIn(pages[h]), u)]
                            = data[BM_GetSwappingBlock(TableIn(pages[h]), u)]
      BY <1>2, <2>6, StoredFrame
    <3> QED
      BY <1>1, <1>2, <2>5, <3>1, RereadsStays DEF hist
  <2>7. CASE UNCHANGED flash
    BY <1>1, <1>2, <2>5, <2>7, RereadsStays DEF hist, flash
  <2>8. CASE Interrupted /\ pc \in {"erase_new", "copy"}
    <3>1. op.new \in Area /\ op.new \in Block /\ SwapTable[op.new] = FREE
      BY <2>8, NewBlock DEF Fixed, Phase, Saving
    <3>2. TableIn(pages[h])[op.new] \notin User
      BY <1>3, <2>2, <2>4, <2>8, <3>1, HomeTable, SpecialEntries DEF Saving
    <3>3. \A c \in Block \ {op.new} : data'[c] = data[c]
      BY <2>8, <3>1, DataFrame DEF Interrupted, EraseTo
    <3> QED
      BY <2>6, <3>1, <3>2, <3>3
  <2>9. CASE Interrupted /\ pc \in {"erase_map", "write_all", "write_one"}
    <3>1. MapTarget \in Area /\ MapTarget \in MapPair /\ MapTarget \in Block
          /\ TableIn(pages[h])[MapTarget] \notin User
      BY <1>2, <1>3, Alive, SpecialEntries DEF Serving, Fixed, Settled, Block
    <3>2. \A c \in Block \ {MapTarget} : data'[c] = data[c]
      BY <2>9, <3>1, DataFrame DEF Interrupted
    <3> QED
      BY <2>6, <3>1, <3>2
  <2> QED
    BY <2>7, <2>8, <2>9 DEF PowerLoss, Interrupted
<1>4. CASE FirstSave
  BY <1>2, <1>4 DEF Homed
<1>5. CASE pc = "dead"
  <2>1. UNCHANGED <<pages, data>>
    BY <1>5 DEF PowerLoss, Interrupted, flash
  <2>2. HomedAt(h)
    BY <2>1 DEF HomedAt
  <2>3. RereadsAt(h)
    BY <2>2, HomeRereads
  <2> QED
    BY <1>1, <2>1, <2>3, RereadsStays DEF hist
<1> QED
  BY <1>3, <1>4, <1>5 DEF Serving, PowerLoss

LEMMA RereadsStep ==
  ASSUME SurvivalInv, [Next]_vars PROVE Rereads'
<1> USE DEF SurvivalInv, TidyInv, ReservedInv, TypeInv, TypeOK
<1>1. CASE EraseMap \/ WriteAll \/ WriteOne
  BY <1>1, SaveRereads
<1>2. CASE \/ RejectNewBlock /\ (EraseNew \/ CopyPages)
           \/ Enters \/ Moves \/ Leaves \/ Arrives
  <2>1. pc \in {"erase_new", "copy", "register", "install"} /\ pc' # "off"
    BY <1>2
    DEF EraseNew, CopyPages, Enters, Moves, Leaves, Arrives, InstallOriginal, RejectNewBlock,
        Install, StartSave
  <2>2. Ordinary
    BY <2>1 DEF Ordinary, Boot, PowerLoss
  <2> QED
    BY <1>2, <2>2, StartRereads
<1>3. CASE PowerLoss
  BY <1>3, PowerLossRereads
<1>4. CASE MarkMap \/ MarkDelayed \/ Reformat
  BY <1>4, SteadySave, SteadyBudget
<1>5. ASSUME ~ Saving', pc' \notin {"off", "dead"} PROVE Rereads'
  BY <1>5 DEF Rereads, Serving, FirstSave
<1>6. ASSUME UNCHANGED <<flash, hist>> PROVE Rereads'
  <2> SUFFICES ASSUME NEW h \in MapPair, HomedAt(h)' PROVE RereadsAt(h)'
    BY DEF Rereads
  <2>1. HomedAt(h)
    BY <1>6 DEF HomedAt, flash
  <2>2. RereadsAt(h)
    BY <2>1, HomeRereads
  <2> QED
    BY <1>6, <2>2, RereadsStays DEF flash, hist
<1>7. CASE Boot
  <2>1. CASE BM_Open
    BY <1>5, <2>1 DEF BM_Open, Saving
  <2>2. CASE BM_Format /\ \A b \in Area : ~ Whole(pages[b])
    BY <2>2 DEF BM_Format, flash, Rereads, HomedAt, MapPair, Good
  <2> QED
    BY <1>7, <2>1, <2>2, BootSteady
<1>8. CASE FormatSecondBlock \/ GetFreeBlock
  <2>1. CASE FormatSecondBlock
    BY <1>6, <2>1 DEF FormatSecondBlock
  <2>2. CASE GetFreeBlock
    BY <1>6, <2>2 DEF GetFreeBlock, NoFreeBlock, Abort
  <2> QED
    BY <1>8, <2>1, <2>2
<1>9. CASE Done \/ ((EraseNew \/ CopyPages) /\ ~ RejectNewBlock)
  <2>1. pc' \in {"idle", "copy", "register"}
    BY <1>9 DEF Done, EraseNew, CopyPages
  <2> QED
    BY <1>5, <2>1 DEF Saving
<1>10. CASE \E u \in User : \/ ProgramUser(u) \/ ProgramUserFails(u)
                            \/ EraseUser(u) \/ EraseUserFails(u)
  <2>1. pc' \in {"idle", "get_free"}
    BY <1>10
    DEF ProgramUser, ProgramUserFails, EraseUser, EraseUserFails, Idle, Replace, call
  <2> QED
    BY <1>5, <2>1 DEF Saving
<1>11. CASE UNCHANGED vars
  BY <1>6, <1>11 DEF vars
<1> QED
  BY <1>1, <1>2, <1>3, <1>4, <1>7, <1>8, <1>9, <1>10, <1>11
  DEF Next, Step, Register, Enters, Moves, Arrives, Leaves

LEMMA SurvivalInit ==
  ASSUME Init, NoMapFails PROVE SurvivalInv
<1>1. TidyInv
  BY TidyInit
<1>2. \A b \in Area : pages[b] = << >>
  BY DEF Init, Block
<1>3. \A b \in Area : Legible(pages[b]) = {} /\ ~ Whole(pages[b])
  BY <1>2, EmptyLog
<1>4. Fixed
  BY <1>3 DEF Init, NoMapFails, Fixed, NoSave
<1>5. pc = "off" /\ ~ Serving /\ ~ Formatted /\ ~ FirstSave /\ Phase # "format"
  BY DEF Init, Serving, Formatted, FirstSave, Saving, Phase
<1>6. Homed /\ Rereads
  BY <1>3, <1>5 DEF Homed, Rereads, HomedAt, MapPair, Good
<1> QED
  BY <1>1, <1>4, <1>5, <1>6 DEF SurvivalInv, Answers, Keeps

LEMMA SurvivalStep ==
  ASSUME SurvivalInv, [Next]_vars PROVE SurvivalInv'
BY TidyStep, FixedStep, HomedStep, AnswersStep, KeepsStep, RereadsStep DEF SurvivalInv

LEMMA SurvivalInvariant ==
  ASSUME NoMapFails PROVE Spec => []SurvivalInv
<1>1. Init => SurvivalInv
  BY SurvivalInit
<1>2. SurvivalInv /\ [Next]_vars => SurvivalInv'
  BY SurvivalStep
<1> QED
  BY <1>1, <1>2, PTL DEF Spec

\* Once a mapping was answered there is a map block to read it from.
LEMMA FormattedHome ==
  ASSUME SurvivalInv, Formatted
  PROVE  \E h \in MapPair : /\ HomedAt(h) /\ RereadsAt(h) /\ Openable
                            /\ OpenTable = TableIn(pages[h])
<1>1. \E h \in MapPair : HomedAt(h)
  BY DEF SurvivalInv, Homed, HomedAt
<1> QED
  BY <1>1, HomeRereads, OpensAt DEF SurvivalInv

----------------------------------------------------------------------------
(* As long as no map page fails and a chip in use is not formatted again,  *)
(* a reboot at any moment finds a mapping that BM_Swap...BadBlock answered *)
(* or is making: whatever user and spare blocks fail, before and after,    *)
(* and however often power is lost. A replacement block that failed in its *)
(* turn is the one exception, while its two entries lie on different pages *)
(* of the map: between the two saves the block it replaces stands for      *)
(* itself.                                                                 *)
THEOREM ReplacementsSafe ==
  ASSUME NoMapFails PROVE Spec => []ReplacementsSurviveButWindow
<1>1. SurvivalInv => ReplacementsSurviveButWindow
  BY FormattedHome DEF ReplacementsSurviveButWindow, RereadsAt
<1> QED
  BY <1>1, SurvivalInvariant, PTL

(* What a caller has written and not erased is in the block that BM_Open   *)
(* would send him to, through every replacement, its copy and its cut.     *)
THEOREM DataSafe ==
  ASSUME NoMapFails PROVE Spec => []DataSurvives
<1>1. SurvivalInv => DataSurvives
  BY FormattedHome DEF DataSurvives, RereadsAt
<1> QED
  BY <1>1, SurvivalInvariant, PTL

----------------------------------------------------------------------------
(* Sequence numbers.                                                       *)

\* An open manager is not in the first save of a format.
Opened == /\ State = "formatted" => Serving
          /\ Replacing \/ Phase = "install" => op.cmd # "format"

LEMMA OpenedStep ==
  ASSUME SurvivalInv, Opened, [Next]_vars PROVE Opened'
<1> USE DEF SurvivalInv, TidyInv, ReservedInv, TypeInv, TypeOK
<1>1. CASE EraseMap \/ WriteAll \/ WriteOne
  <2>1. Phase' = Phase /\ UNCHANGED op /\ Saving /\ pc \notin {"off", "dead"}
        /\ pc' \notin {"off", "dead"}
    BY <1>1, SaveFrame
  <2>2. UNCHANGED State
    BY <1>1 DEF EraseMap, WriteAll, WriteOne, ram
  <2>3. (FirstSave <=> Saving /\ Phase = "format") /\ (FirstSave' <=> Saving' /\ Phase' = "format")
    BY DEF FirstSave, Phase, Saving
  <2> QED
    BY <2>1, <2>2, <2>3 DEF Opened, Serving, Replacing
<1>2. CASE MarkMap \/ MarkDelayed \/ Reformat
  BY <1>2, SteadySave, SteadyBudget
<1>3. CASE Boot
  <2>1. CASE BM_Open
    BY <2>1 DEF BM_Open, Opened, Serving, FirstSave, Saving, Phase, Replacing
  <2>2. CASE BM_Format
    BY <2>2 DEF BM_Format, BlankMemory, Opened, Phase, Saving, Replacing, NoSave
  <2> QED
    BY <1>3, <2>1, <2>2 DEF Boot
<1>4. CASE PowerLoss
  BY <1>4 DEF PowerLoss, BlankMemory, Opened, Phase, Saving, Replacing
<1>5. CASE \/ RejectNewBlock /\ (EraseNew \/ CopyPages)
           \/ Enters \/ Moves \/ Leaves \/ Arrives
  <2>1. /\ pc \in {"erase_new", "copy", "register", "install"} /\ Phase = pc
        /\ Replacing \/ Phase = "install"
    BY <1>5
    DEF EraseNew, CopyPages, Enters, Moves, Leaves, Arrives, InstallOriginal, Phase, Saving,
        Replacing
  <2>2. /\ pc' \in {"erase_map", "write_one"} /\ save'.next \in {"get_free", "install", "done"}
        /\ op'.cmd = op.cmd
    BY <1>5
    DEF RejectNewBlock, Enters, Moves, Leaves, Arrives, InstallOriginal, Install, StartSave,
        CallTypes
  <2> QED
    BY <2>1, <2>2 DEF Opened, Serving, FirstSave
<1>6. CASE FormatSecondBlock
  BY <1>6 DEF FormatSecondBlock, NoSave, Opened, Serving, FirstSave, Phase, Saving, Replacing
<1>7. CASE GetFreeBlock
  <2>1. pc = "get_free" /\ Phase = pc /\ Replacing /\ op.cmd # "format"
    BY <1>7 DEF GetFreeBlock, Opened, Phase, Saving, Replacing
  <2>2. /\ pc' = "idle" \/ (pc' \in {"erase_new", "register"} /\ op'.cmd = op.cmd)
    BY <1>7, <2>1 DEF GetFreeBlock, NoFreeBlock, Abort, AfterGetFree, CallTypes
  <2> QED
    BY <2>1, <2>2 DEF Opened, Serving, FirstSave, Saving, Phase, Replacing
<1>8. CASE Done
  BY <1>8 DEF Done, Opened, Serving, FirstSave, Saving, Phase, Replacing
<1>9. CASE (EraseNew \/ CopyPages) /\ ~ RejectNewBlock
  <2>1. pc \in {"erase_new", "copy"} /\ pc' \in {"copy", "register"} /\ UNCHANGED op
    BY <1>9 DEF EraseNew, CopyPages
  <2> QED
    BY <2>1 DEF Opened, Serving, FirstSave, Saving, Phase, Replacing
<1>10. CASE \E u \in User : \/ ProgramUser(u) \/ ProgramUserFails(u)
                            \/ EraseUser(u) \/ EraseUserFails(u)
  <2>1. pc' = "idle" \/ (pc' = "get_free" /\ op'.cmd \in {"write", "erase"})
    BY <1>10
    DEF ProgramUser, ProgramUserFails, EraseUser, EraseUserFails, Idle, Replace, call, NoOp
  <2> QED
    BY <2>1 DEF Opened, Serving, FirstSave, Saving, Phase, Replacing
<1>11. CASE UNCHANGED vars
  BY <1>11 DEF vars, ram, call, Opened, Serving, FirstSave, Saving, Phase, Replacing
<1> QED
  BY <1>1, <1>2, <1>3, <1>4, <1>5, <1>6, <1>7, <1>8, <1>9, <1>10, <1>11
  DEF Next, Step, Register, Enters, Moves, Arrives, Leaves

(* What the manager writes is later than anything a reboot could pick: the *)
(* sequence number in memory is ahead of every whole map block on the chip,*)
(* of the one not in use too, whenever power was lost before.              *)
THEOREM SequenceLeads ==
  ASSUME NoMapFails PROVE Spec => []SequenceAhead
<1>1. Init => SurvivalInv /\ Opened
  BY SurvivalInit DEF Init, Opened, Replacing, Phase, Saving
<1>2. SurvivalInv /\ Opened /\ [Next]_vars => (SurvivalInv /\ Opened)'
  BY SurvivalStep, OpenedStep
<1>3. SurvivalInv /\ Opened => SequenceAhead
  <2> SUFFICES ASSUME SurvivalInv, Opened, State = "formatted", NEW b \in Area,
                      IsMapBlock(b), Complete(b), NEW k \in Readable(b)
               PROVE  pages[b][k].seq <= Sequence
    BY DEF SequenceAhead
  <2> USE DEF SurvivalInv, TidyInv, ReservedInv
  <2>1. PICK h : h = Home
    OBVIOUS
  <2>2. HomedAt(h) /\ h \in MapPair /\ h \in Area /\ Below(pages[h], Sequence)
        /\ Whole(pages[h])
    BY <2>1 DEF Opened, Homed, HomedAt, MapPair, Good
  <2>3. b \in MapPair /\ Whole(pages[b]) /\ k \in Legible(pages[b])
    BY FoundMaps DEF Complete, Whole, Readable, Legible
  <2>4. CASE b = h
    BY <2>2, <2>3, <2>4 DEF Below
  <2>5. CASE b # h
    <3>1. pages[b][k].seq < pages[h][1].seq
      BY <2>2, <2>3, <2>5 DEF HomedAt
    <3>2. pages[b] \in PageLog /\ pages[h] \in PageLog
      BY <2>2, AreaLogs
    <3>3. 1 \in Legible(pages[h]) /\ pages[h][1].seq <= Sequence
      BY <2>2, <3>2, WholeBegins DEF Below
    <3>4. pages[b][k].seq \in Nat /\ pages[h][1].seq \in Nat /\ Sequence \in Nat
      BY <2>3, <3>2, <3>3, LegibleType DEF TypeInv, TypeOK, RamTypes
    <3> QED
      BY <3>1, <3>3, <3>4
  <2> QED
    BY <2>4, <2>5
<1> QED
  BY <1>1, <1>2, <1>3, PTL DEF Spec

----------------------------------------------------------------------------
(* Reboots between calls, and the promise that the driver builds on.       *)

(* Between calls a reboot rebuilds the very table that is in memory: no    *)
(* save is left half done, and none was of an older table.                 *)
THEOREM RebootSame ==
  ASSUME NoMapFails PROVE Spec => []RebootIsIdentity
<1>1. SurvivalInv => RebootIsIdentity
  <2> SUFFICES ASSUME SurvivalInv, Idle PROVE Openable /\ OpenTable = SwapTable
    BY DEF RebootIsIdentity
  <2> USE DEF SurvivalInv, TidyInv, ReservedInv, TypeInv, TypeOK
  <2>1. Serving /\ ~ Saving
    BY DEF Idle, Serving, FirstSave, Saving
  <2>2. PICK h : h = Home
    OBVIOUS
  <2>3. HomedAt(h) /\ h \in Area /\ Whole(pages[h])
    BY <2>1, <2>2 DEF Homed, HomedAt, MapPair, Good
  <2>4. Openable /\ OpenTable = TableIn(pages[h])
    BY <2>3, OpensAt
  <2>5. \A e \in Area : TableIn(pages[h])[e] = SwapTable[e]
    BY <2>1, <2>3, HomeTable
  <2>6. TableIn(pages[h]) \in [Area -> Entry] /\ SwapTable \in [Area -> Entry]
    BY <2>3, AreaLogs, TableInType DEF RamTypes
  <2> QED
    BY <2>4, <2>5, <2>6
<1> QED
  BY <1>1, SurvivalInvariant, PTL

LEMMA ChosenMapping ==
  ASSUME NEW T PROVE (CHOOSE m \in {Mapping(U) : U \in {T}} : TRUE) = Mapping(T)
OBVIOUS

LEMMA TableMapping ==
  ASSUME NEW T PROVE Mapping(T) \in Durable!Mappings /\ Mapping(T) # << >>
<1>1. ASSUME NEW u \in User PROVE BM_GetSwappingBlock(T, u) \in User \cup Area
  BY SwappingBlockIs
<1>2. Mapping(T) \in [User -> User \cup Area]
  BY <1>1 DEF Mapping
<1>3. \A u, v \in User : Mapping(T)[u] = Mapping(T)[v] => u = v
  BY BlocksDiffer DEF Mapping
<1>4. 0 \in User /\ DOMAIN Mapping(T) = User
  BY <1>2, GeometryAssumption DEF User
<1>5. Mapping(T) # << >>
  BY <1>4
<1> QED
  BY <1>2, <1>3, <1>5 DEF Durable!Mappings

\* What the driver was answered, or one replacement away from it.
Near(m) == m \in Durable!Replacements(answered) \cup {answered}

\* What the chip holds.
Promised ==
  /\ Openable => Held \in Durable!Mappings \ {<< >>}
  /\ ~ Openable => Held = << >>
  /\ Formatted => Openable /\ Held \in {answered, pending}
  /\ Serving /\ ~ Saving => Openable /\ Held = Mapping(SwapTable)
  /\ FirstSave => ~ Openable

\* What the call in progress is about. With one map page none takes two saves.
Underway ==
  /\ pc \in {"off", "dead", "idle"} => op.cmd # "format"
  /\ op.cmd = "format" => Phase \in {"format", "done"} /\ State = "closed"
  /\ pc \notin {"off", "dead"} /\ op.cmd # "format" => Formatted /\ State = "formatted"
  /\ window = {}
  /\ Formatted => Near(pending)

LEMMA PromisedHolds ==
  ASSUME SurvivalInv, window = {} PROVE Promised
<1> USE DEF SurvivalInv, TidyInv, ReservedInv, TypeInv, TypeOK
<1>1. Held = IF Openable THEN Mapping(OpenTable) ELSE << >>
  BY ChosenMapping DEF Held
<1>2. Openable => Held \in Durable!Mappings \ {<< >>}
  BY <1>1, TableMapping
<1>3. Formatted => Openable /\ Held \in {answered, pending}
  BY <1>1, FormattedHome DEF RereadsAt
<1>4. Serving /\ ~ Saving => Openable /\ Held = Mapping(SwapTable)
  <2> SUFFICES ASSUME Serving, ~ Saving PROVE Openable /\ Held = Mapping(SwapTable)
    OBVIOUS
  <2>1. PICK h : h = Home
    OBVIOUS
  <2>2. HomedAt(h)
    BY <2>1 DEF Homed
  <2>3. Openable /\ OpenTable = TableIn(pages[h])
    BY <2>2, OpensAt
  <2>4. \A e \in Area : OpenTable[e] = SwapTable[e]
    BY <2>2, <2>3, HomeTable
  <2>5. Mapping(OpenTable) = Mapping(SwapTable)
    BY <2>4, SameMapping
  <2> QED
    BY <1>1, <2>3, <2>5
<1>5. FirstSave => ~ Openable
  <2> SUFFICES ASSUME FirstSave PROVE Candidates = {}
    BY DEF Openable
  <2>1. \A b \in Area : ~ Whole(pages[b])
    BY DEF Homed
  <2>2. ASSUME NEW b \in Candidates PROVE FALSE
    BY <2>1, <2>2 DEF Candidates, Found, Complete, Whole, Readable, Legible
  <2> QED
    BY <2>2
<1> QED
  BY <1>1, <1>2, <1>3, <1>4, <1>5 DEF Promised

\* A replacement installed is one replacement away from the last answer.
LEMMA InstallNear ==
  ASSUME TidyInv, Fixed, Answers, Enters \/ Moves PROVE Near(pending)'
<1> USE DEF TidyInv, ReservedInv, TypeInv, TypeOK
<1>1. /\ pc = "register" /\ Phase = pc /\ Replacing /\ pc \notin {"off", "dead"}
      /\ pending' = Mapping(SwapTable') /\ UNCHANGED answered
  BY DEF Enters, Moves, Install, Phase, Saving, Replacing
<1>2. op.new \in Area /\ \A u \in User : BM_GetSwappingBlock(SwapTable, u) # op.new
  BY <1>1, NewBlock DEF Fixed
<1>3. answered = Mapping(SwapTable)
  BY <1>1 DEF Answers
<1>4. PICK v \in User :
        /\ BM_GetSwappingBlock(SwapTable', v) = op.new
        /\ \A u \in User \ {v} :
             BM_GetSwappingBlock(SwapTable', u) = BM_GetSwappingBlock(SwapTable, u)
  BY RegisterMaps DEF Fixed
<1>5. pending' = [answered EXCEPT ![v] = op.new]
  BY <1>1, <1>3, <1>4 DEF Mapping
<1>6. op.new \in Area \ {answered[u] : u \in User}
  BY <1>2, <1>3 DEF Mapping
<1>7. [answered EXCEPT ![v] = op.new] \in Durable!Replacements(answered)
  BY <1>6 DEF Durable!Replacements
<1> QED
  BY <1>1, <1>5, <1>7 DEF Near

LEMMA UnderwayStep ==
  ASSUME NumMapPages = 1, SurvivalInv, Opened, Underway, [Next]_vars PROVE Underway'
<1> USE DEF SurvivalInv, TidyInv, ReservedInv, TypeInv, TypeOK
<1>1. CASE EraseMap \/ WriteAll \/ WriteOne
  <2>1. Phase' = Phase /\ UNCHANGED <<op, hist>> /\ Saving /\ pc \notin {"off", "dead"}
        /\ pc' \notin {"off", "dead"}
    BY <1>1, SaveFrame
  <2>2. UNCHANGED State
    BY <1>1 DEF EraseMap, WriteAll, WriteOne, ram
  <2>3. pc' = "idle" => Phase' = "idle"
    BY DEF Phase, Saving
  <2> QED
    BY <2>1, <2>2, <2>3 DEF Underway, hist, Formatted, Near
<1>2. CASE MarkMap \/ MarkDelayed \/ Reformat
  BY <1>2, SteadySave, SteadyBudget
<1>3. CASE Boot
  <2>1. CASE BM_Open
    <3>1. answered' = Mapping(OpenTable) /\ pending' = answered' /\ window' = {}
          /\ pc' = "idle" /\ op' = op /\ State' = "formatted" /\ pc = "off"
      BY <1>3, <2>1 DEF BM_Open, Boot
    <3>2. answered' # << >>
      BY <3>1, TableMapping
    <3> QED
      BY <3>1, <3>2 DEF Underway, Formatted, Near
  <2>2. CASE BM_Format /\ ~ Openable
    <3>1. ~ Formatted /\ UNCHANGED <<answered, window>>
      BY <2>2, FormattedHome DEF BM_Format
    <3>2. \/ pc' = "dead" /\ UNCHANGED op /\ pc = "off"
          \/ /\ pc' = "erase_map" /\ op'.cmd = "format" /\ State' = "closed"
             /\ Phase' = "format"
      BY <1>3, <2>2 DEF BM_Format, Boot, NoOp, NoSave, Phase, Saving
    <3> QED
      BY <3>1, <3>2 DEF Underway, Formatted
  <2> QED
    BY <1>3, <2>1, <2>2 DEF Boot
<1>4. CASE PowerLoss
  BY <1>4 DEF PowerLoss, hist, NoOp, Underway, Formatted, Near
<1>5. CASE RejectNewBlock /\ (EraseNew \/ CopyPages)
  <2>1. pc \in {"erase_new", "copy"} /\ Replacing
    BY <1>5 DEF EraseNew, CopyPages, Phase, Saving, Replacing
  <2>2. pc' \in {"erase_map", "write_one"} /\ UNCHANGED <<op, State, hist>>
    BY <1>5 DEF RejectNewBlock, StartSave
  <2> QED
    BY <2>1, <2>2 DEF Opened, Underway, hist, Formatted, Near
<1>6. CASE Enters \/ Moves
  <2>1. pc = "register" /\ Replacing /\ Near(pending)'
    BY <1>6, InstallNear DEF Enters, Moves, Phase, Saving, Replacing
  <2>2. pc' \in {"erase_map", "write_one"} /\ UNCHANGED <<op, State, answered, window>>
    BY <1>6 DEF Enters, Moves, Install, StartSave
  <2> QED
    BY <2>1, <2>2 DEF Opened, Underway, Formatted
<1>7. CASE Leaves
  <2>1. pc = "register" /\ Phase = pc
    BY <1>7 DEF Leaves, Phase, Saving
  <2>2. op.bad \in Area /\ op.new \in Area /\ MAP_OFFSET(op.bad) # MAP_OFFSET(op.new)
    BY <1>7, <2>1, NewBlock DEF Fixed, Leaves
  <2> QED
    BY <2>2, MapOffsetType DEF MapOffsets
<1>8. CASE Arrives
  <2>1. pc = "install" /\ Phase = "install" /\ pc \notin {"off", "dead"}
    BY <1>8 DEF Arrives, InstallOriginal, Phase, Saving
  <2> QED
    BY <2>1 DEF Answers, Underway
<1>9. CASE FormatSecondBlock
  <2>1. pc = "format" /\ pc' = "erase_map" /\ Phase' = "done" /\ UNCHANGED <<op, State, hist>>
    BY <1>9 DEF FormatSecondBlock, NoSave, Phase, Saving
  <2> QED
    BY <2>1 DEF Underway, hist, Formatted, Near
<1>10. CASE GetFreeBlock
  <2>1. pc = "get_free" /\ Replacing /\ UNCHANGED <<State, hist>>
    BY <1>10 DEF GetFreeBlock, NoFreeBlock, Abort, Phase, Saving, Replacing
  <2>2. /\ \/ pc' = "idle" /\ op' = NoOp
           \/ pc' \in {"erase_new", "register"} /\ op'.cmd = op.cmd
    BY <1>10, <2>1
    DEF GetFreeBlock, NoFreeBlock, Abort, AfterGetFree, CallTypes, Opened
  <2> QED
    BY <2>1, <2>2 DEF Opened, Underway, hist, Formatted, Near, NoOp
<1>11. CASE Done
  <2>1. /\ answered' = Mapping(SwapTable) /\ pending' = answered' /\ window' = {}
        /\ pc' = "idle" /\ op' = NoOp /\ State' = "formatted"
    BY <1>11 DEF Done
  <2>2. answered' # << >>
    BY <2>1, TableMapping
  <2> QED
    BY <2>1, <2>2 DEF Underway, Formatted, Near, NoOp
<1>12. CASE (EraseNew \/ CopyPages) /\ ~ RejectNewBlock
  <2>1. pc \in {"erase_new", "copy"} /\ Replacing
    BY <1>12 DEF EraseNew, CopyPages, Phase, Saving, Replacing
  <2>2. pc' \in {"copy", "register"} /\ UNCHANGED <<op, State, hist>>
    BY <1>12 DEF EraseNew, CopyPages, ram
  <2> QED
    BY <2>1, <2>2 DEF Opened, Underway, hist, Formatted, Near
<1>13. CASE \E u \in User : \/ ProgramUser(u) \/ ProgramUserFails(u)
                            \/ EraseUser(u) \/ EraseUserFails(u)
  <2>1. /\ pc = "idle" /\ UNCHANGED <<State, answered, pending, window>>
        /\ \/ pc' = "idle" /\ UNCHANGED op
           \/ pc' = "get_free" /\ op'.cmd \in {"write", "erase"}
    BY <1>13
    DEF ProgramUser, ProgramUserFails, EraseUser, EraseUserFails, Idle, Replace, call, NoOp,
        ram, hist
  <2> QED
    BY <2>1 DEF Underway, Formatted, Near
<1>14. CASE UNCHANGED vars
  BY <1>14 DEF vars, ram, call, hist, Underway, Formatted, Near, Phase, Saving
<1> QED
  BY <1>1, <1>2, <1>3, <1>4, <1>5, <1>6, <1>7, <1>8, <1>9, <1>10, <1>11, <1>12, <1>13, <1>14
  DEF Next, Step, Register, Enters, Moves, Arrives, Leaves

\* Whatever is not on the chip changes without what it holds.
LEMMA HeldFrame ==
  ASSUME UNCHANGED <<pages, marked>> PROVE Held' = Held
BY DEF Held, Openable, OpenTable, MapBlocks, Current, Candidates, Found, IsMapBlock,
       Complete, Readable, Latest

\* Any other step answers nobody, and starts no format.
Quiet ==
  /\ UNCHANGED answered
  /\ op'.cmd = "format" => op.cmd = "format"
  /\ Idle => UNCHANGED pending
  /\ Idle' => pc \in {"idle", "get_free"}
  /\ pc \in {"off", "dead"} => UNCHANGED <<pages, marked>>

LEMMA QuietSteps ==
  ASSUME TidyInv, Fixed, [Next]_vars, ~ Done, ~ Boot PROVE Quiet
<1> USE DEF TidyInv, ReservedInv, TypeInv, TypeOK
<1>1. CASE EraseMap \/ WriteAll \/ WriteOne
  BY <1>1, SaveFrame DEF Quiet, hist, Idle, Phase, Saving, CallTypes
<1>2. CASE MarkMap \/ MarkDelayed \/ Reformat
  BY <1>2, SteadySave, SteadyBudget
<1>3. CASE PowerLoss
  BY <1>3 DEF PowerLoss, Interrupted, hist, NoOp, Quiet, Idle, flash
<1>4. CASE RejectNewBlock /\ (EraseNew \/ CopyPages)
  BY <1>4 DEF RejectNewBlock, StartSave, EraseNew, CopyPages, hist, Quiet, Idle
<1>5. CASE Enters \/ Moves \/ Leaves \/ Arrives
  BY <1>5
  DEF Enters, Moves, Leaves, Arrives, InstallOriginal, Install, StartSave, CallTypes, Quiet, Idle
<1>6. CASE FormatSecondBlock \/ ((EraseNew \/ CopyPages) /\ ~ RejectNewBlock)
  BY <1>6 DEF FormatSecondBlock, EraseNew, CopyPages, hist, Quiet, Idle
<1>7. CASE GetFreeBlock
  BY <1>7 DEF GetFreeBlock, NoFreeBlock, Abort, AfterGetFree, NoOp, CallTypes, hist, Quiet, Idle
<1>8. CASE \E u \in User : \/ ProgramUser(u) \/ ProgramUserFails(u)
                           \/ EraseUser(u) \/ EraseUserFails(u)
  BY <1>8
  DEF ProgramUser, ProgramUserFails, EraseUser, EraseUserFails, Idle, Replace, call, NoOp, hist,
      Quiet
<1>9. CASE UNCHANGED vars
  BY <1>9 DEF vars, flash, call, hist, Quiet, Idle, ram
<1> QED
  BY <1>1, <1>2, <1>3, <1>4, <1>5, <1>6, <1>7, <1>8, <1>9
  DEF Next, Step, Register, Enters, Moves, Arrives, Leaves

\* While no call runs, and where one gives up, the chip holds the last answer.
LEMMA AnsweredIsHeld ==
  ASSUME Answers, Promised, pc \in {"idle", "get_free"}
  PROVE  Held = answered /\ (pc = "idle" => pending = answered)
<1>1. Serving /\ ~ Saving /\ Phase = pc
  BY DEF Serving, FirstSave, Saving, Phase
<1> QED
  BY <1>1 DEF Promised, Answers, Replacing

LEMMA QuietImplements ==
  ASSUME SurvivalInv, Answers', Promised, Promised', Underway, Underway', Quiet
  PROVE  [Durable!Next]_(Durable!vars)
<1>1. CASE op.cmd = "format"
  <2>1. ~ Idle' /\ UNCHANGED answered
    BY <1>1 DEF Quiet, Underway, Phase, Saving, Idle
  <2>2. Held' \in Durable!Mappings \cup {<< >>}
    BY DEF Promised
  <2>3. Durable!Formatting
    BY <1>1, <2>1, <2>2 DEF Durable!Formatting, Durable!None
  <2> QED
    BY <2>3 DEF Durable!Next
<1>2. CASE op.cmd # "format" /\ pc \in {"off", "dead"}
  <2>1. Held' = Held
    BY <1>2, HeldFrame DEF Quiet
  <2>2. ~ Idle /\ ~ Idle' /\ op'.cmd # "format" /\ UNCHANGED answered
    BY <1>2 DEF Quiet, Idle
  <2>3. Durable!Call
    BY <1>2, <2>1, <2>2 DEF Durable!Call
  <2> QED
    BY <2>3 DEF Durable!Next
<1>3. CASE op.cmd # "format" /\ pc \notin {"off", "dead"} /\ ~ Idle /\ ~ Idle'
  <2>1. Formatted /\ Formatted' /\ UNCHANGED answered /\ op'.cmd # "format"
    BY <1>3 DEF Underway, Quiet, Formatted
  <2>2. Held' \in {answered', pending'} /\ Near(pending)'
    BY <2>1 DEF Promised, Underway
  <2>3. Held' \in Durable!Replacements(answered) \cup {answered}
    BY <2>1, <2>2 DEF Near
  <2>4. Held # << >>
    BY <2>1 DEF Promised
  <2>5. Durable!Change
    BY <1>3, <2>1, <2>3, <2>4 DEF Durable!Change, Durable!None
  <2> QED
    BY <2>5 DEF Durable!Next
<1>4. CASE Idle
  <2>1. Held = answered /\ pending = answered /\ UNCHANGED <<answered, pending>>
    BY <1>4, AnsweredIsHeld DEF Idle, Quiet, SurvivalInv
  <2>2. Formatted' /\ op.cmd # "format" /\ op'.cmd # "format"
    BY <1>4, <2>1 DEF Underway, Idle, Quiet, Formatted
  <2>3. Held' = Held
    BY <2>1, <2>2 DEF Promised
  <2>4. CASE Idle'
    BY <1>4, <2>1, <2>2, <2>3, <2>4 DEF Durable!vars
  <2>5. CASE ~ Idle'
    <3>1. Durable!Call
      BY <2>1, <2>2, <2>3, <2>5 DEF Durable!Call
    <3> QED
      BY <3>1 DEF Durable!Next
  <2> QED
    BY <2>4, <2>5
<1>5. CASE ~ Idle /\ Idle' /\ op.cmd # "format"
  <2>1. pc \in {"idle", "get_free"} /\ Held = answered /\ op'.cmd # "format"
        /\ UNCHANGED answered
    BY <1>5, AnsweredIsHeld DEF Quiet, SurvivalInv
  <2>2. Held' = answered'
    <3>1. Serving' /\ ~ Saving' /\ Phase' = "idle"
      BY <1>5 DEF Idle, Serving, FirstSave, Saving, Phase
    <3> QED
      BY <1>5, <3>1 DEF Promised, Answers, Idle
  <2>3. Durable!Answer
    BY <1>5, <2>1, <2>2 DEF Durable!Answer
  <2> QED
    BY <2>3 DEF Durable!Next
<1> QED
  BY <1>1, <1>2, <1>3, <1>4, <1>5

LEMMA DoneImplements ==
  ASSUME SurvivalInv, Promised, Promised', Underway, Done
  PROVE  [Durable!Next]_(Durable!vars)
<1>1. /\ pc = "done" /\ pc' = "idle" /\ State' = "formatted" /\ op'.cmd = "none"
      /\ UNCHANGED SwapTable /\ answered' = Mapping(SwapTable)
  BY DEF Done, NoOp
<1>2. Serving /\ ~ Saving /\ Serving' /\ ~ Saving'
  BY <1>1 DEF Serving, FirstSave, Saving
<1>3. Held = answered' /\ Held' = answered' /\ Openable'
  BY <1>1, <1>2 DEF Promised
<1>4. ~ Idle /\ Idle' /\ Held' \in Durable!Mappings
  BY <1>1, <1>3 DEF Idle, Promised
<1>5. CASE op.cmd = "format"
  BY <1>1, <1>3, <1>4, <1>5 DEF Durable!FormatDone, Durable!Next
<1>6. CASE op.cmd # "format"
  BY <1>1, <1>3, <1>4, <1>6 DEF Durable!Answer, Durable!Next
<1> QED
  BY <1>5, <1>6

LEMMA BootImplements ==
  ASSUME Promised, Promised', Underway, Underway', Boot
  PROVE  [Durable!Next]_(Durable!vars)
<1>1. pc = "off" /\ ~ Idle /\ op.cmd # "format" /\ UNCHANGED <<pages, marked>>
  BY DEF Boot, BM_Open, BM_Format, Idle, Underway, flash
<1>2. Held' = Held
  BY <1>1, HeldFrame
<1>3. CASE Openable /\ BM_Open
  <2>1. /\ pc' = "idle" /\ State' = "formatted" /\ UNCHANGED op
        /\ answered' = Mapping(OpenTable)
    BY <1>3 DEF BM_Open
  <2>2. answered' = Held
    BY <1>3, <2>1, ChosenMapping DEF Held
  <2> QED
    BY <1>1, <1>2, <2>1, <2>2 DEF Idle, Durable!Answer, Durable!Next
<1>4. CASE ~ Openable /\ BM_Format
  <2>1. UNCHANGED answered /\ Held = << >>
    BY <1>4 DEF BM_Format, Promised
  <2>2. CASE op'.cmd = "format"
    <3>1. ~ Idle'
      BY <2>2 DEF Underway, Phase, Saving, Idle
    <3> QED
      BY <1>1, <1>2, <2>1, <2>2, <3>1 DEF Durable!StartFormat, Durable!None, Durable!Next
  <2>3. CASE op'.cmd # "format"
    <3>1. ~ Idle'
      BY <1>4, <2>3 DEF BM_Format, NoOp, Idle
    <3> QED
      BY <1>1, <1>2, <2>1, <2>3, <3>1 DEF Durable!Call, Durable!Next
  <2> QED
    BY <2>2, <2>3
<1> QED
  BY <1>3, <1>4 DEF Boot

LEMMA InitImplements ==
  ASSUME Init PROVE Durable!Init /\ Underway
<1>1. \A b \in Area : pages[b] = << >>
  BY DEF Init, Block
<1>2. Candidates = {}
  BY <1>1 DEF Candidates, Found, IsMapBlock
<1>3. Held = << >>
  BY <1>2 DEF Held, Openable
<1>4. ~ Idle /\ op.cmd # "format" /\ answered = << >>
  BY DEF Init, Idle, NoOp
<1> QED
  BY <1>3, <1>4 DEF Init, Durable!Init, Durable!None, Underway, Formatted

(* The manager implements DurableMap, as long as no map page fails and     *)
(* nobody formats a chip in use, for a table of one page: callers see one  *)
(* block at a time move, to a block that stood for none, when a call that  *)
(* the chip already holds the change of returns, or after a reboot. With   *)
(* more map pages a replacement block that fails in its turn breaks this.  *)
THEOREM KeepsItsPromise ==
  ASSUME NoMapFails, NumMapPages = 1 PROVE Spec => ImplementsDurableMap
<1> DEFINE IInv == SurvivalInv /\ Opened /\ Underway
<1>1. Init => IInv /\ Durable!Init
  BY SurvivalInit, InitImplements DEF Init, Opened, Replacing, Phase, Saving
<1>2. IInv /\ [Next]_vars => IInv'
  BY SurvivalStep, OpenedStep, UnderwayStep
<1>3. IInv => Promised
  BY PromisedHolds DEF Underway
<1>4. IInv /\ IInv' /\ Promised /\ Promised' /\ [Next]_vars => [Durable!Next]_(Durable!vars)
  <2> SUFFICES ASSUME IInv, IInv', Promised, Promised', [Next]_vars
               PROVE  [Durable!Next]_(Durable!vars)
    OBVIOUS
  <2>1. CASE Done
    BY <2>1, DoneImplements
  <2>2. CASE Boot
    BY <2>2, BootImplements
  <2>3. CASE ~ Done /\ ~ Boot
    <3>1. Quiet
      BY <2>3, QuietSteps DEF SurvivalInv
    <3>2. Answers'
      BY DEF SurvivalInv
    <3> QED
      BY <3>1, <3>2, QuietImplements
  <2> QED
    BY <2>1, <2>2, <2>3
<1> QED
  BY <1>1, <1>2, <1>3, <1>4, PTL DEF Spec, ImplementsDurableMap, Durable!Spec
=============================================================================
