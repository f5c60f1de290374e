----------------------- MODULE BadBlockManager_proofs -----------------------
(***************************************************************************)
(* The manager's types, with what a call in progress has fixed, and which  *)
(* blocks it writes: what it has reserved for itself or for the call, and  *)
(* never a block it knows to be bad.                                       *)
(***************************************************************************)
EXTENDS BadBlockManager, FiniteSetTheorems, SequenceTheorems, TLAPS

----------------------------------------------------------------------------
(* The numbers of a finite set have a highest and a lowest one.            *)

LEMMA HighestExists ==
  ASSUME NEW S, S \subseteq Int, S # {}, IsFiniteSet(S)
  PROVE  \E x \in S : \A y \in S : y <= x
<1> DEFINE Unbounded == {T \in SUBSET S :
                           T # {} /\ ~ \E x \in T : \A y \in T : y <= x}
<1>1. SUFFICES ASSUME Unbounded # {} PROVE FALSE
  <2>1. S \in SUBSET S
    OBVIOUS
  <2>2. S \notin Unbounded
    BY <1>1
  <2> QED
    BY <2>1, <2>2
<1>2. IsWellFoundedOn(StrictSubsetOrdering(S), SUBSET S)
  BY FS_StrictSubsetOrderingWellFounded, FS_FiniteSubsetsOfFinite
<1>3. Unbounded \subseteq SUBSET S
  OBVIOUS
<1>4. PICK T \in Unbounded :
        \A U \in Unbounded : <<U, T>> \notin StrictSubsetOrdering(S)
  <2> HIDE DEF Unbounded
  <2> QED
    BY <1>1, <1>2, <1>3, WFMin
<1>5. PICK x \in T : TRUE
  OBVIOUS
<1>6. T \ {x} # {}
  <2> SUFFICES ASSUME T = {x} PROVE FALSE
    OBVIOUS
  <2>1. x \in Int /\ x <= x
    OBVIOUS
  <2> QED
    BY <2>1, \A y \in T : y = x
<1>7. T \ {x} \notin Unbounded
  <2>1. <<T \ {x}, T>> \in StrictSubsetOrdering(S)
    BY DEF StrictSubsetOrdering
  <2> QED
    BY <2>1, <1>4
<1>8. PICK m \in T \ {x} : \A y \in T \ {x} : y <= m
  BY <1>6, <1>7
<1>9. \E z \in T : \A y \in T : y <= z
  <2>1. x \in Int /\ m \in Int /\ T \subseteq Int
    OBVIOUS
  <2>2. CASE x <= m
    BY <2>1, <2>2, <1>8
  <2>3. CASE m <= x
    BY <2>1, <2>3, <1>8
  <2> QED
    BY <2>1, <2>2, <2>3
<1> QED
  BY <1>9

LEMMA HighestType ==
  ASSUME NEW S, S \subseteq Int, S # {}, IsFiniteSet(S)
  PROVE  Highest(S) \in S /\ \A y \in S : y <= Highest(S)
BY HighestExists DEF Highest

LEMMA LowestType ==
  ASSUME NEW S, S \subseteq Nat, S # {}
  PROVE  Lowest(S) \in S /\ \A y \in S : Lowest(S) <= y
<1>1. PICK n \in S : TRUE
  OBVIOUS
<1> DEFINE Below == {x \in 0 .. n : \A y \in S : x <= y}
<1>2. PICK m \in Below : \A x \in Below : x <= m
  <2>1. IsFiniteSet(Below)
    <3>1. IsFiniteSet(0 .. n)
      BY FS_Interval
    <3>2. Below \in SUBSET (0 .. n)
      OBVIOUS
    <3> QED
      BY <3>1, <3>2, FS_Subset
  <2>2. 0 \in Below
    OBVIOUS
  <2>3. Below \subseteq Int
    OBVIOUS
  <2> QED
    BY <2>1, <2>2, <2>3, HighestExists
<1>3. m \in S
  <2> SUFFICES ASSUME m \notin S PROVE FALSE
    OBVIOUS
  <2>1. \A y \in S : m + 1 <= y
    OBVIOUS
  <2>2. m + 1 \in Below
    BY <2>1
  <2> QED
    BY <1>2, <2>2
<1> QED
  BY <1>2, <1>3 DEF Lowest

----------------------------------------------------------------------------
(* The geometry: blocks are numbers, and every one of the area has a map   *)
(* page.                                                                   *)

LEMMA AreaNumbers ==
  /\ Area \subseteq Nat /\ User \subseteq Nat /\ Block \subseteq Nat
  /\ IsFiniteSet(Area) /\ IsFiniteSet(User)
  /\ Area \cap User = {}
  /\ NumBlocks - 1 \in Area
<1>1. BmAreaStartBlock \in Nat /\ NumBlocks \in Nat /\ NumBlocks > BmAreaStartBlock + 1
  BY GeometryAssumption
<1>2. IsFiniteSet(Area) /\ IsFiniteSet(User)
  BY <1>1, FS_Interval DEF Area, User
<1> QED
  BY <1>1, <1>2 DEF Area, User, Block

LEMMA DivMonotone ==
  ASSUME NEW a \in Nat, NEW b \in Nat, NEW d \in Nat \ {0}, a <= b
  PROVE  a \div d \in Nat /\ a \div d <= b \div d
OBVIOUS

LEMMA MapOffsetType ==
  ASSUME NEW b \in Area
  PROVE  MAP_OFFSET(b) \in MapOffsets /\ MAP_OFFSET(b) \in Nat
<1>1. b - BmAreaStartBlock \in Nat /\ NumBlocks - 1 - BmAreaStartBlock \in Nat
      /\ b - BmAreaStartBlock <= NumBlocks - 1 - BmAreaStartBlock
  BY GeometryAssumption DEF Area
<1>2. MAP_OFFSET(b) \in Nat /\ MAP_OFFSET(b) <= MAP_OFFSET(NumBlocks - 1)
  BY <1>1, DivMonotone, GeometryAssumption DEF MAP_OFFSET
<1>3. MAP_OFFSET(NumBlocks - 1) \in Nat
  BY <1>1, DivMonotone, GeometryAssumption DEF MAP_OFFSET
<1> QED
  BY <1>2, <1>3 DEF MapOffsets, NumMapPages

LEMMA NumMapPagesType ==
  NumMapPages \in Nat \ {0} /\ 0 \in MapOffsets
<1>1. MAP_OFFSET(NumBlocks - 1) \in Nat
  BY AreaNumbers, MapOffsetType
<1>2. NumMapPages \in Nat \ {0}
  BY <1>1 DEF NumMapPages
<1> QED
  BY <1>2 DEF MapOffsets

LEMMA PageAfterType ==
  ASSUME CurMapPageNum \in 0 .. PagesPerBlock - 1
  PROVE  PageAfter \in 0 .. PagesPerBlock - 1
<1>1. PagesPerBlock \in Nat \ {0} /\ CurMapPageNum + 1 \in Nat
  BY GeometryAssumption
<1> QED
  BY <1>1 DEF PageAfter

----------------------------------------------------------------------------
(* Choices the code makes on what it reads.                                *)

LEMMA MaximalExists ==
  ASSUME NEW K, K # {}, IsFiniteSet(K), NEW f \in [K -> Int]
  PROVE  \E k \in K : \A m \in K : f[m] <= f[k]
<1> DEFINE R == {f[k] : k \in K}
<1>1. f \in Surjection(K, R)
  BY DEF Surjection
<1>2. IsFiniteSet(R)
  BY <1>1, FS_Surjection
<1>3. PICK x \in R : \A y \in R : y <= x
  <2>1. R \subseteq Int /\ R # {}
    OBVIOUS
  <2> HIDE DEF R
  <2> QED
    BY <1>2, <2>1, HighestExists
<1> QED
  BY <1>3

LEMMA ReadableType ==
  ASSUME FlashTypes, NEW b \in Block
  PROVE  /\ Readable(b) \subseteq 1 .. Len(pages[b])
         /\ IsFiniteSet(Readable(b))
         /\ \A k \in Readable(b) : pages[b][k] \in MapPage
<1>1. pages[b] \in Seq(MapPage \cup {TORN})
  BY DEF FlashTypes
<1>2. Len(pages[b]) \in Nat /\ IsFiniteSet(1 .. Len(pages[b]))
  BY <1>1, LenProperties, FS_Interval
<1>3. Readable(b) \in SUBSET (1 .. Len(pages[b]))
  BY DEF Readable
<1>4. IsFiniteSet(Readable(b))
  BY <1>2, <1>3, FS_Subset
<1>5. ASSUME NEW k \in Readable(b) PROVE pages[b][k] \in MapPage
  <2>1. k \in 1 .. Len(pages[b]) /\ k \in 1 .. k
    BY <1>2, <1>3
  <2>2. pages[b][k] # TORN
    BY <2>1 DEF Readable
  <2> QED
    BY <1>1, <2>1, <2>2, ElementOfSeq
<1> QED
  BY <1>3, <1>4, <1>5

LEMMA MapPageFields ==
  ASSUME NEW p \in MapPage
  PROVE  /\ p.seq \in Nat \ {0}
         /\ p.off \in MapOffsets
         /\ p.tab \in [Segment(p.off) -> Entry]
BY DEF MapPage, Image

\* BM_Open reads the latest image of segment o in block b.
LEMMA LatestType ==
  ASSUME FlashTypes, NEW b \in Block, NEW o \in MapOffsets,
         \E k \in Readable(b) : pages[b][k].off = o
  PROVE  Latest(b, o) \in Readable(b) /\ pages[b][Latest(b, o)].off = o
<1> DEFINE K == {k \in Readable(b) : pages[b][k].off = o}
<1> DEFINE f == [k \in K |-> pages[b][k].seq]
<1>1. K # {} /\ K \in SUBSET Readable(b)
  OBVIOUS
<1>2. IsFiniteSet(K)
  BY <1>1, ReadableType, FS_Subset
<1>3. f \in [K -> Int]
  BY ReadableType, MapPageFields
<1>4. \E k \in K : \A m \in K : pages[b][m].seq <= pages[b][k].seq
  <2>1. \E k \in K : \A m \in K : f[m] <= f[k]
    <3> HIDE DEF K, f
    <3> QED
      BY <1>1, <1>2, <1>3, MaximalExists
  <2> QED
    BY <2>1
<1> QED
  BY <1>4 DEF Latest

LEMMA FoundPage ==
  ASSUME FlashTypes, NEW b \in Found
  PROVE  b \in Area /\ IsMapBlock(b) /\ pages[b][1] \in MapPage
<1>1. b \in Area /\ IsMapBlock(b) /\ b \in Block
  BY DEF Found, Block
<1>2. pages[b] \in Seq(MapPage \cup {TORN})
  BY <1>1 DEF FlashTypes
<1>3. 1 \in 1 .. Len(pages[b])
  BY <1>1, <1>2, EmptySeq DEF IsMapBlock
<1> QED
  BY <1>1, <1>2, <1>3, ElementOfSeq DEF IsMapBlock

LEMMA CurrentType ==
  ASSUME FlashTypes, Candidates # {}
  PROVE  Current \in Candidates
<1> DEFINE f == [b \in Candidates |-> pages[b][1].seq]
<1> DEFINE D == {b \in Candidates :
                   \A c \in Candidates : pages[c][1].seq <= pages[b][1].seq}
<1>1. Candidates \in SUBSET Area
  BY FoundPage DEF Candidates
<1>2. IsFiniteSet(Candidates)
  BY <1>1, AreaNumbers, FS_Subset
<1>3. f \in [Candidates -> Int]
  BY FoundPage, MapPageFields DEF Candidates
<1>4. D # {}
  <2>1. \E b \in Candidates : \A c \in Candidates : f[c] <= f[b]
    <3> HIDE DEF f
    <3> QED
      BY <1>2, <1>3, MaximalExists
  <2> QED
    BY <2>1
<1>5. D \subseteq Nat
  BY <1>1, AreaNumbers
<1>6. Lowest(D) \in D
  <2> HIDE DEF D
  <2> QED
    BY <1>4, <1>5, LowestType
<1>7. Current = Lowest(D)
  BY DEF Current
<1> QED
  BY <1>6, <1>7

LEMMA OpenTableType ==
  ASSUME FlashTypes, Candidates # {}
  PROVE  OpenTable \in [Area -> Entry]
<1>1. Current \in Area /\ Current \in Block /\ Complete(Current)
  BY CurrentType, FoundPage DEF Candidates, Block
<1>2. ASSUME NEW e \in Area
      PROVE  pages[Current][Latest(Current, MAP_OFFSET(e))].tab[e] \in Entry
  <2> DEFINE p == pages[Current][Latest(Current, MAP_OFFSET(e))]
  <2>1. MAP_OFFSET(e) \in MapOffsets
    BY MapOffsetType
  <2>2. Latest(Current, MAP_OFFSET(e)) \in Readable(Current) /\ p.off = MAP_OFFSET(e)
    BY <1>1, <2>1, LatestType DEF Complete
  <2>3. p \in MapPage
    BY <1>1, <2>2, ReadableType
  <2>4. e \in Segment(p.off) /\ p.tab \in [Segment(p.off) -> Entry]
    BY <2>2, <2>3, MapPageFields DEF Segment
  <2> QED
    BY <2>4
<1> QED
  BY <1>2 DEF OpenTable

LEMMA OpenSequenceType ==
  ASSUME FlashTypes, Candidates # {}
  PROVE  OpenSequence \in Nat
<1> DEFINE K == Readable(Current)
<1> DEFINE f == [k \in K |-> pages[Current][k].seq]
<1> DEFINE R == {pages[Current][k].seq : k \in K}
<1>1. Current \in Area /\ Current \in Block /\ Complete(Current)
  BY CurrentType, FoundPage DEF Candidates, Block
<1>2. K # {}
  <2>1. 0 \in MapOffsets
    BY NumMapPagesType
  <2> QED
    BY <1>1, <2>1 DEF Complete
<1>3. IsFiniteSet(K) /\ f \in [K -> Int] /\ R \subseteq Nat
  BY <1>1, ReadableType, MapPageFields
<1>4. \E k \in K : \A m \in K : f[m] <= f[k]
  <2> HIDE DEF K, f
  <2> QED
    BY <1>2, <1>3, MaximalExists
<1>5. \E x \in R : \A y \in R : y <= x
  BY <1>4
<1>6. Highest(R) \in R
  BY <1>5 DEF Highest
<1> QED
  BY <1>3, <1>6 DEF OpenSequence

LEMMA LowestTwo ==
  ASSUME NEW S \in SUBSET Area, Cardinality(S) >= 2
  PROVE  <<Lowest(S), Lowest(S \ {Lowest(S)})>> \in [1 .. 2 -> S]
<1>1. IsFiniteSet(S) /\ S \subseteq Nat
  BY AreaNumbers, FS_Subset
<1>2. S # {}
  BY <1>1, FS_EmptySet
<1>3. Lowest(S) \in S
  BY <1>1, <1>2, LowestType
<1>4. S \ {Lowest(S)} # {}
  <2>1. IsFiniteSet(S \ {Lowest(S)}) /\ Cardinality(S \ {Lowest(S)}) = Cardinality(S) - 1
    BY <1>1, <1>3, FS_RemoveElement
  <2> QED
    BY <2>1, <1>1, FS_EmptySet, FS_CardinalityType
<1>5. Lowest(S \ {Lowest(S)}) \in S
  BY <1>1, <1>4, LowestType
<1> QED
  BY <1>3, <1>5

LEMMA MapBlocksType ==
  ASSUME Candidates # {}
  PROVE  MapBlocks \in SUBSET Area
BY DEF MapBlocks, Found

LEMMA SwappingBlockType ==
  ASSUME NEW T \in [Area -> Entry], NEW b \in Block
  PROVE  /\ BM_GetSwappingBlock(T, b) \in Block
         /\ BM_GetSwappingBlock(T, b) # b =>
              BM_GetSwappingBlock(T, b) \in Area /\ T[BM_GetSwappingBlock(T, b)] = b
<1> DEFINE E == {e \in Area : T[e] = b}
<1>1. CASE E = {}
  BY <1>1 DEF BM_GetSwappingBlock
<1>2. CASE E # {}
  <2>0. E \in SUBSET Area
    OBVIOUS
  <2>1. E \subseteq Int
    <3> HIDE DEF E
    <3> QED
      BY <2>0, AreaNumbers
  <2>2. IsFiniteSet(E)
    BY <2>0, AreaNumbers, FS_Subset
  <2>3. Highest(E) \in E
    <3> HIDE DEF E
    <3> QED
      BY <1>2, <2>1, <2>2, HighestType
  <2>4. BM_GetSwappingBlock(T, b) = Highest(E)
    BY <1>2 DEF BM_GetSwappingBlock
  <2> QED
    BY <2>3, <2>4 DEF Block
<1> QED
  BY <1>1, <1>2

LEMMA MappingType ==
  ASSUME NEW T \in [Area -> Entry]
  PROVE  Mapping(T) \in [User -> Block]
BY SwappingBlockType DEF Mapping, Block

----------------------------------------------------------------------------
(* The types, through the operators that several actions share.            *)

LEMMA FlashOperationTypes ==
  ASSUME FlashTypes, NEW b \in Block, NEW pg \in MapPage \cup {TORN}
  PROVE  /\ EraseOk(b) => FlashTypes'
         /\ EraseFail(b) => FlashTypes'
         /\ CutErase(b) => FlashTypes'
         /\ Programmed(b, pg) => FlashTypes'
         /\ ProgramFail(b, pg) => FlashTypes'
<1>1. pages[b] \in Seq(MapPage \cup {TORN})
  BY DEF FlashTypes
<1>2. << >> \in Seq(MapPage \cup {TORN}) /\ <<TORN>> \in Seq(MapPage \cup {TORN})
  BY EmptySeq
<1>3. Append(pages[b], pg) \in Seq(MapPage \cup {TORN})
      /\ Append(pages[b], TORN) \in Seq(MapPage \cup {TORN})
  BY <1>1, AppendProperties
<1>4. ASSUME NEW img \in Seq(MapPage \cup {TORN}), NEW d \in {ERASED, JUNK}
      PROVE  /\ [pages EXCEPT ![b] = img] \in [Block -> Seq(MapPage \cup {TORN})]
             /\ [data EXCEPT ![b] = d] \in [Block -> User \cup {ERASED, JUNK}]
  BY DEF FlashTypes
<1>5. EraseOk(b) => FlashTypes'
  BY <1>2, <1>4 DEF FlashTypes, EraseOk, EraseTo
<1>6. EraseFail(b) => FlashTypes'
  <2> SUFFICES ASSUME EraseFail(b) PROVE FlashTypes'
    OBVIOUS
  <2>1. PICK img \in Seq(MapPage \cup {TORN}) : EraseTo(b, img, JUNK)
    BY <1>1, <1>2 DEF EraseFail
  <2>2. marked' \subseteq Block
    BY DEF FlashTypes, EraseFail
  <2> QED
    BY <1>4, <2>1, <2>2 DEF FlashTypes, EraseTo
<1>7. CutErase(b) => FlashTypes'
  BY <1>2, <1>4 DEF FlashTypes, CutErase, EraseTo
<1>8. Programmed(b, pg) => FlashTypes'
  BY <1>3, <1>4 DEF FlashTypes, Programmed
<1>9. Programmed(b, TORN) => FlashTypes'
  BY <1>3, <1>4 DEF FlashTypes, Programmed
<1>10. ProgramFail(b, pg) => FlashTypes'
  BY <1>8, <1>9 DEF FlashTypes, ProgramFail, flash
<1> QED
  BY <1>5, <1>6, <1>7, <1>8, <1>10

LEMMA SpendType ==
  ASSUME budget \in [Accident -> Nat], NEW k \in Accident, Spend(k)
  PROVE  budget' \in [Accident -> Nat]
BY DEF Spend

LEMMA MapPageOfType ==
  ASSUME RamTypes, NEW o \in MapOffsets
  PROVE  MapPageOf(o) \in MapPage
<1>1. ImageOf(o) \in [Segment(o) -> Entry]
  BY DEF RamTypes, ImageOf, Segment
<1>2. ImageOf(o) \in Image /\ DOMAIN ImageOf(o) = Segment(o)
  BY <1>1 DEF Image
<1>3. Sequence + 1 \in Nat \ {0}
  BY DEF RamTypes
<1> QED
  BY <1>2, <1>3 DEF MapPageOf, MapPage

LEMMA MapTargetType ==
  ASSUME RamTypes
  PROVE  MapTarget \in Area /\ MapTarget \in Block
BY DEF RamTypes, MapTarget, Block

LEMMA StartSaveTypes ==
  ASSUME RamTypes, CallTypes, NEW o \in MapOffsets,
         NEW next \in {"get_free", "install", "done"}, StartSave(o, next)
  PROVE  /\ CurMapPageNum' \in 0 .. PagesPerBlock - 1
         /\ CurMapBlockIdx' \in 1 .. 2
         /\ pc' \in {"erase_map", "write_one"}
         /\ save' \in [off : MapOffsets, page : MapOffsets,
                       delayed : Area \cup {NoBlock},
                       next : {"get_free", "install", "done", "format"}]
         /\ Phase' = next
         /\ UNCHANGED <<MapBlock, Sequence, State>>
<1>1. CurMapPageNum' \in 0 .. PagesPerBlock - 1
  BY PageAfterType DEF StartSave, RamTypes
<1>2. CurMapBlockIdx' \in 1 .. 2
  BY DEF StartSave, RamTypes, OtherMapBlock
<1> QED
  BY <1>1, <1>2, NumMapPagesType DEF StartSave, Phase, Saving

\* A step of save_swap_table leaves the shape of its caller alone.
LEMMA SavingKeepsShape ==
  ASSUME CallShape, Saving, Phase' = Phase, UNCHANGED op,
         pc' = "mark_delayed" => save'.delayed \in Area
  PROVE  CallShape'
BY DEF CallShape

LEMMA ReplaceMapBlockTypes ==
  ASSUME RamTypes, CallTypes, CallShape, Saving,
         NEW b \in Area,
         NEW sav \in [off : MapOffsets, page : MapOffsets,
                      delayed : Area \cup {NoBlock},
                      next : {"get_free", "install", "done", "format"}],
         sav.next = save.next,
         ReplaceMapBlock(b, sav)
  PROVE  /\ SwapTable' \in [Area -> Entry]
         /\ FreeBlockList' \subseteq Area
         /\ MapBlock' \in [1 .. 2 -> Area]
         /\ CallTypes'
         /\ CallShape'
         /\ UNCHANGED hist
<1>1. CASE FreeBlockList = {} /\ Abort
           /\ SwapTable' = [SwapTable EXCEPT ![b] = BAD]
           /\ UNCHANGED <<FreeBlockList, MapBlock>>
  <2>1. SwapTable' \in [Area -> Entry] /\ FreeBlockList' \subseteq Area
        /\ MapBlock' \in [1 .. 2 -> Area]
    BY <1>1 DEF RamTypes, Entry
  <2>2. pc' \in {"dead", "idle"} /\ op' = NoOp /\ save' = NoSave /\ UNCHANGED hist
    BY <1>1 DEF Abort
  <2>3. CallTypes'
    BY <2>2, NumMapPagesType DEF CallTypes, NoOp, NoSave
  <2>4. CallShape'
    BY <2>2 DEF CallShape, Phase, Saving
  <2> QED
    BY <2>1, <2>2, <2>3, <2>4
<1>2. CASE /\ FreeBlockList # {}
           /\ LET new == Lowest(FreeBlockList)
              IN  /\ SwapTable' = Retired(b, new)
                  /\ FreeBlockList' = FreeBlockList \ {new}
                  /\ MapBlock' = [MapBlock EXCEPT ![CurMapBlockIdx] = new]
           /\ pc' = "erase_map"
           /\ save' = sav
           /\ UNCHANGED <<op, hist>>
  <2>1. Lowest(FreeBlockList) \in Area
    <3>1. FreeBlockList \subseteq Nat
      BY AreaNumbers DEF RamTypes
    <3> QED
      BY <1>2, <3>1, LowestType DEF RamTypes
  <2>2. SwapTable' \in [Area -> Entry] /\ FreeBlockList' \subseteq Area
        /\ MapBlock' \in [1 .. 2 -> Area]
    BY <1>2, <2>1 DEF RamTypes, Entry, Retired
  <2>3. CallTypes'
    BY <1>2 DEF CallTypes
  <2>4. Phase' = Phase
    BY <1>2 DEF Phase, Saving
  <2>5. CallShape'
    BY <1>2, <2>4, SavingKeepsShape
  <2> QED
    BY <1>2, <2>2, <2>3, <2>5
<1> QED
  BY <1>1, <1>2 DEF ReplaceMapBlock

----------------------------------------------------------------------------
(* Every action keeps the types, and the shape of the call.                *)

TypeInv == TypeOK /\ CallShape

LEMMA EraseMapTypes ==
  ASSUME TypeInv, EraseMap PROVE TypeInv'
<1> USE DEF TypeInv, TypeOK
<1>1. FlashTypes'
  BY MapTargetType, FlashOperationTypes DEF EraseMap
<1>2. RamTypes'
  BY DEF EraseMap, RamTypes, ram
<1>3. CallTypes'
  BY NumMapPagesType DEF EraseMap, CallTypes
<1>4. HistoryTypes'
  <2>1. budget' \in [Accident -> Nat]
    BY SpendType DEF EraseMap, HistoryTypes, Accident
  <2> QED
    BY <2>1 DEF EraseMap, HistoryTypes, hist
<1>5. CallShape'
  <2>1. Saving /\ Phase' = Phase
    BY DEF EraseMap, Phase, Saving, CallTypes
  <2> QED
    BY <2>1, SavingKeepsShape DEF EraseMap
<1> QED
  BY <1>1, <1>2, <1>3, <1>4, <1>5

LEMMA MarkBadBlockTypes ==
  ASSUME FlashTypes, budget \in [Accident -> Nat], NEW b \in Block, MarkBadBlock(b)
  PROVE  FlashTypes' /\ budget' \in [Accident -> Nat]
<1>1. budget' \in [Accident -> Nat]
  BY SpendType DEF MarkBadBlock, Accident
<1>2. FlashTypes'
  BY DEF MarkBadBlock, FlashTypes
<1> QED
  BY <1>1, <1>2

LEMMA MarkMapTypes ==
  ASSUME TypeInv, MarkMap PROVE TypeInv'
<1> USE DEF TypeInv, TypeOK
<1>1. FlashTypes' /\ budget' \in [Accident -> Nat]
  BY MapTargetType, MarkBadBlockTypes DEF MarkMap, HistoryTypes
<1>2. Saving /\ save \in [off : MapOffsets, page : MapOffsets,
                          delayed : Area \cup {NoBlock},
                          next : {"get_free", "install", "done", "format"}]
  BY DEF MarkMap, Saving, CallTypes
<1>3. /\ SwapTable' \in [Area -> Entry]
      /\ FreeBlockList' \subseteq Area
      /\ MapBlock' \in [1 .. 2 -> Area]
      /\ CallTypes'
      /\ CallShape'
      /\ UNCHANGED hist
  BY <1>2, MapTargetType, ReplaceMapBlockTypes DEF MarkMap
<1>4. RamTypes'
  BY <1>3 DEF MarkMap, RamTypes
<1>5. HistoryTypes'
  BY <1>1, <1>3 DEF HistoryTypes, hist
<1> QED
  BY <1>1, <1>3, <1>4, <1>5

LEMMA WriteMapPageTypes ==
  ASSUME FlashTypes, RamTypes, budget \in [Accident -> Nat],
         NEW b \in Block, NEW p, NEW o \in MapOffsets
  PROVE  /\ WriteMapPage(b, p, o) =>
              FlashTypes' /\ Sequence' \in Nat /\ budget' \in [Accident -> Nat]
         /\ WriteMapPageFails(b, p, o) =>
              FlashTypes' /\ Sequence' \in Nat /\ budget' \in [Accident -> Nat]
<1>1. Sequence \in Nat /\ MapPageOf(o) \in MapPage
  BY MapPageOfType DEF RamTypes
<1>2. UNCHANGED flash => FlashTypes'
  BY DEF FlashTypes, flash
<1>3. WriteMapPage(b, p, o) =>
        FlashTypes' /\ Sequence' \in Nat /\ budget' \in [Accident -> Nat]
  BY <1>1, FlashOperationTypes DEF WriteMapPage
<1>4. WriteMapPageFails(b, p, o) =>
        FlashTypes' /\ Sequence' \in Nat /\ budget' \in [Accident -> Nat]
  <2>1. CASE Blank(b, p)
    <3> SUFFICES ASSUME WriteMapPageFails(b, p, o)
                 PROVE  FlashTypes' /\ Sequence' \in Nat /\ budget' \in [Accident -> Nat]
      OBVIOUS
    <3>1. FlashTypes'
      BY <1>1, <2>1, FlashOperationTypes DEF WriteMapPageFails
    <3>2. Sequence' \in Nat /\ budget' \in [Accident -> Nat]
      BY <1>1, <2>1, SpendType DEF WriteMapPageFails, Accident
    <3> QED
      BY <3>1, <3>2
  <2>2. CASE ~ Blank(b, p)
    BY <1>1, <1>2, <2>2 DEF WriteMapPageFails
  <2> QED
    BY <2>1, <2>2
<1> QED
  BY <1>3, <1>4

LEMMA SaveEndsShape ==
  ASSUME CallTypes, CallShape, Saving, UNCHANGED op,
         save'.delayed = save.delayed, save'.next = save.next, SaveEnds
  PROVE  CallShape' /\ pc' \in {"get_free", "install", "done", "format", "mark_delayed"}
<1>1. pc' \in {"get_free", "install", "done", "format", "mark_delayed"}
  BY DEF SaveEnds, CallTypes
<1>2. Phase' = Phase
  BY DEF SaveEnds, CallTypes, Phase, Saving
<1>3. pc' = "mark_delayed" => save'.delayed \in Area
  BY DEF SaveEnds, CallTypes
<1> QED
  BY <1>1, <1>2, <1>3, SavingKeepsShape

LEMMA WriteAllTypes ==
  ASSUME TypeInv, WriteAll PROVE TypeInv'
<1> USE DEF TypeInv, TypeOK
<1>1. Saving /\ save.page \in MapOffsets /\ save.page \in Nat /\ NumMapPages \in Nat
      /\ save.page < NumMapPages
  BY NumMapPagesType DEF WriteAll, Saving, CallTypes, MapOffsets
<1>2. FlashTypes' /\ Sequence' \in Nat /\ budget' \in [Accident -> Nat]
  BY <1>1, MapTargetType, WriteMapPageTypes DEF WriteAll, HistoryTypes
<1>3. HistoryTypes'
  BY <1>2 DEF WriteAll, HistoryTypes, hist
<1>4. CASE /\ UNCHANGED <<pc, CurMapPageNum>>
           /\ save.page + 1 < NumMapPages
           /\ save' = [save EXCEPT !.page = @ + 1]
  <2>1. CallTypes'
    BY <1>1, <1>4 DEF WriteAll, CallTypes, MapOffsets
  <2>2. Phase' = Phase
    BY <1>1, <1>4 DEF Phase, Saving, CallTypes
  <2>3. CallShape'
    BY <1>1, <1>4, <2>2, SavingKeepsShape DEF WriteAll
  <2>4. RamTypes'
    BY <1>2, <1>4 DEF WriteAll, RamTypes
  <2> QED
    BY <1>2, <1>3, <2>1, <2>3, <2>4
<1>5. CASE CurMapPageNum' = save.page /\ SaveEnds /\ UNCHANGED save
  <2>1. CallShape' /\ pc' \in {"get_free", "install", "done", "format", "mark_delayed"}
    BY <1>1, <1>5, SaveEndsShape DEF WriteAll
  <2>2. CallTypes'
    BY <1>5, <2>1 DEF WriteAll, CallTypes
  <2>3. RamTypes'
    BY <1>1, <1>2, <1>5, GeometryAssumption DEF WriteAll, RamTypes
  <2> QED
    BY <1>2, <1>3, <2>1, <2>2, <2>3
<1>6. CASE pc' = "mark_map" /\ UNCHANGED <<save, CurMapPageNum>>
  <2>1. CallTypes'
    BY <1>6 DEF WriteAll, CallTypes
  <2>2. Phase' = Phase
    BY <1>1, <1>6 DEF Phase, Saving
  <2>3. CallShape'
    BY <1>1, <1>6, <2>2, SavingKeepsShape DEF WriteAll
  <2>4. RamTypes'
    BY <1>2, <1>6 DEF WriteAll, RamTypes
  <2> QED
    BY <1>2, <1>3, <2>1, <2>3, <2>4
<1> QED
  BY <1>4, <1>5, <1>6 DEF WriteAll

LEMMA WriteOneTypes ==
  ASSUME TypeInv, WriteOne PROVE TypeInv'
<1> USE DEF TypeInv, TypeOK
<1>1. Saving /\ save.off \in MapOffsets
  BY DEF WriteOne, Saving, CallTypes
<1>2. FlashTypes' /\ Sequence' \in Nat /\ budget' \in [Accident -> Nat]
  BY <1>1, MapTargetType, WriteMapPageTypes DEF WriteOne, HistoryTypes
<1>3. CASE SaveEnds /\ UNCHANGED <<SwapTable, FreeBlockList, MapBlock, save, op, hist>>
  <2>1. CallShape' /\ pc' \in {"get_free", "install", "done", "format", "mark_delayed"}
    BY <1>1, <1>3, SaveEndsShape
  <2>2. CallTypes'
    BY <1>3, <2>1 DEF CallTypes
  <2>3. RamTypes'
    BY <1>2, <1>3 DEF WriteOne, RamTypes
  <2>4. HistoryTypes'
    BY <1>2, <1>3 DEF HistoryTypes, hist
  <2> QED
    BY <1>2, <2>1, <2>2, <2>3, <2>4
<1>4. CASE RetireCurrent
  <2> DEFINE sav == [save EXCEPT !.delayed = MapTarget]
  <2>1. sav \in [off : MapOffsets, page : MapOffsets, delayed : Area \cup {NoBlock},
                 next : {"get_free", "install", "done", "format"}]
        /\ sav.next = save.next
    BY MapTargetType DEF CallTypes
  <2>2. ReplaceMapBlock(MapTarget, sav)
    BY <1>4 DEF RetireCurrent
  <2>3. /\ SwapTable' \in [Area -> Entry]
        /\ FreeBlockList' \subseteq Area
        /\ MapBlock' \in [1 .. 2 -> Area]
        /\ CallTypes'
        /\ CallShape'
        /\ UNCHANGED hist
    <3> HIDE DEF sav
    <3> QED
      BY <1>1, <2>1, <2>2, MapTargetType, ReplaceMapBlockTypes
  <2>4. RamTypes'
    BY <1>2, <2>3 DEF WriteOne, RamTypes
  <2>5. HistoryTypes'
    BY <1>2, <2>3 DEF HistoryTypes, hist
  <2> QED
    BY <1>2, <2>3, <2>4, <2>5
<1> QED
  BY <1>3, <1>4 DEF WriteOne

LEMMA MarkDelayedTypes ==
  ASSUME TypeInv, MarkDelayed PROVE TypeInv'
<1> USE DEF TypeInv, TypeOK
<1>1. save.delayed \in Block
  BY DEF MarkDelayed, CallShape, Block
<1>2. FlashTypes' /\ budget' \in [Accident -> Nat]
  BY <1>1, MarkBadBlockTypes DEF MarkDelayed, HistoryTypes
<1>3. RamTypes' /\ HistoryTypes'
  BY <1>2 DEF MarkDelayed, RamTypes, HistoryTypes, ram, hist
<1>4. CallTypes'
  BY DEF MarkDelayed, CallTypes
<1>5. Saving /\ Phase' = Phase /\ pc' # "mark_delayed"
  BY DEF MarkDelayed, CallTypes, Phase, Saving
<1>6. CallShape'
  BY <1>5, SavingKeepsShape DEF MarkDelayed
<1> QED
  BY <1>2, <1>3, <1>4, <1>6

LEMMA AbortTypes ==
  ASSUME Abort
  PROVE  CallTypes' /\ CallShape' /\ pc' \in {"idle", "dead"} /\ UNCHANGED hist
<1>1. pc' \in {"idle", "dead"} /\ op' = NoOp /\ save' = NoSave /\ UNCHANGED hist
  BY DEF Abort
<1>2. CallTypes'
  BY <1>1, NumMapPagesType DEF CallTypes, NoOp, NoSave
<1>3. CallShape'
  BY <1>1 DEF CallShape, Phase, Saving
<1> QED
  BY <1>1, <1>2, <1>3

LEMMA GetFreeBlockTypes ==
  ASSUME TypeInv, GetFreeBlock PROVE TypeInv'
<1> USE DEF TypeInv, TypeOK
<1>1. FlashTypes'
  BY DEF GetFreeBlock, FlashTypes, flash
<1>2. RamTypes'
  BY DEF GetFreeBlock, RamTypes
<1>3. HistoryTypes'
  BY DEF GetFreeBlock, HistoryTypes, hist, NoFreeBlock, Abort
<1>4. CASE FreeBlockList = {} /\ NoFreeBlock
  BY <1>1, <1>2, <1>3, <1>4, AbortTypes DEF NoFreeBlock
<1>5. CASE /\ FreeBlockList # {}
           /\ op' = [op EXCEPT !.new = Highest(FreeBlockList)]
           /\ pc' = AfterGetFree
           /\ UNCHANGED save
  <2>1. Highest(FreeBlockList) \in Area
    <3>1. FreeBlockList \in SUBSET Area /\ FreeBlockList \subseteq Int
      BY AreaNumbers DEF RamTypes
    <3>2. IsFiniteSet(FreeBlockList)
      BY <3>1, AreaNumbers, FS_Subset
    <3> QED
      BY <1>5, <3>1, <3>2, HighestType
  <2>2. pc' \in {"erase_new", "register"}
    BY <1>5 DEF AfterGetFree
  <2>3. CallTypes'
    BY <1>5, <2>1, <2>2 DEF CallTypes
  <2>4. op.bad \in Block /\ op'.bad = op.bad /\ op'.new \in Area
    BY <1>5, <2>1 DEF GetFreeBlock, CallShape, CallTypes, Phase, Saving
  <2>5. CallShape'
    BY <2>2, <2>4 DEF CallShape, Phase, Saving
  <2> QED
    BY <1>1, <1>2, <1>3, <2>3, <2>5
<1> QED
  BY <1>4, <1>5 DEF GetFreeBlock

LEMMA RejectNewBlockTypes ==
  ASSUME RamTypes, CallTypes, CallShape, HistoryTypes,
         Phase \in {"erase_new", "copy"}, RejectNewBlock
  PROVE  RamTypes' /\ CallTypes' /\ CallShape'
<1>1. op.new \in Area /\ op.bad \in Block /\ MAP_OFFSET(op.new) \in MapOffsets
  BY MapOffsetType DEF CallShape
<1>2. /\ CurMapPageNum' \in 0 .. PagesPerBlock - 1
      /\ CurMapBlockIdx' \in 1 .. 2
      /\ pc' \in {"erase_map", "write_one"}
      /\ save' \in [off : MapOffsets, page : MapOffsets,
                    delayed : Area \cup {NoBlock},
                    next : {"get_free", "install", "done", "format"}]
      /\ Phase' = "get_free"
      /\ UNCHANGED <<MapBlock, Sequence, State>>
  BY <1>1, StartSaveTypes DEF RejectNewBlock
<1>3. RamTypes'
  BY <1>1, <1>2 DEF RejectNewBlock, RamTypes, Entry
<1>4. CallTypes'
  BY <1>2 DEF RejectNewBlock, CallTypes
<1>5. CallShape'
  BY <1>1, <1>2 DEF RejectNewBlock, CallShape
<1> QED
  BY <1>3, <1>4, <1>5

LEMMA EraseNewTypes ==
  ASSUME TypeInv, EraseNew PROVE TypeInv'
<1> USE DEF TypeInv, TypeOK
<1>1. Phase = "erase_new" /\ op.new \in Area /\ op.new \in Block /\ op.bad \in Block
  BY DEF EraseNew, Phase, Saving, CallShape, Block
<1>2. FlashTypes'
  BY <1>1, FlashOperationTypes DEF EraseNew
<1>3. HistoryTypes'
  <2>1. budget' \in [Accident -> Nat]
    BY SpendType DEF EraseNew, HistoryTypes, Accident
  <2> QED
    BY <2>1 DEF EraseNew, RejectNewBlock, HistoryTypes, hist
<1>4. CASE pc' = "copy" /\ UNCHANGED <<ram, op, save>>
  <2>1. RamTypes' /\ CallTypes'
    BY <1>4 DEF RamTypes, CallTypes, ram
  <2>2. CallShape'
    BY <1>1, <1>4 DEF CallShape, Phase, Saving
  <2> QED
    BY <1>2, <1>3, <2>1, <2>2
<1>5. CASE RejectNewBlock
  BY <1>1, <1>2, <1>3, <1>5, RejectNewBlockTypes
<1> QED
  BY <1>4, <1>5 DEF EraseNew

LEMMA CopyPagesTypes ==
  ASSUME TypeInv, CopyPages PROVE TypeInv'
<1> USE DEF TypeInv, TypeOK
<1>1. Phase = "copy" /\ op.new \in Area /\ op.new \in Block /\ op.bad \in Block
  BY DEF CopyPages, Phase, Saving, CallShape, Block
<1>2. FlashTypes'
  BY <1>1 DEF CopyPages, FlashTypes
<1>3. HistoryTypes'
  <2>1. budget' \in [Accident -> Nat]
    BY SpendType DEF CopyPages, HistoryTypes, Accident
  <2> QED
    BY <2>1 DEF CopyPages, RejectNewBlock, HistoryTypes, hist
<1>4. CASE pc' = "register" /\ UNCHANGED <<ram, op, save>>
  <2>1. RamTypes' /\ CallTypes'
    BY <1>4 DEF RamTypes, CallTypes, ram
  <2>2. CallShape'
    BY <1>1, <1>4 DEF CallShape, Phase, Saving
  <2> QED
    BY <1>2, <1>3, <2>1, <2>2
<1>5. CASE RejectNewBlock
  BY <1>1, <1>2, <1>3, <1>5, RejectNewBlockTypes
<1> QED
  BY <1>4, <1>5 DEF CopyPages

LEMMA InstallTypes ==
  ASSUME FlashTypes, RamTypes, CallTypes, HistoryTypes, op.new \in Area,
         NEW T \in [Area -> Entry], Install(T), UNCHANGED <<op, window>>
  PROVE  TypeInv'
<1>1. SegmentToSave \in MapOffsets
  BY MapOffsetType DEF SegmentToSave
<1>2. /\ CurMapPageNum' \in 0 .. PagesPerBlock - 1
      /\ CurMapBlockIdx' \in 1 .. 2
      /\ pc' \in {"erase_map", "write_one"}
      /\ save' \in [off : MapOffsets, page : MapOffsets,
                    delayed : Area \cup {NoBlock},
                    next : {"get_free", "install", "done", "format"}]
      /\ Phase' = "done"
      /\ UNCHANGED <<MapBlock, Sequence, State>>
  BY <1>1, StartSaveTypes DEF Install
<1>3. FlashTypes'
  BY DEF Install, FlashTypes, flash
<1>4. RamTypes'
  BY <1>2 DEF Install, RamTypes, FreeEntries
<1>5. CallTypes' /\ CallShape'
  BY <1>2 DEF CallTypes, CallShape
<1>6. HistoryTypes'
  BY MappingType DEF Install, HistoryTypes
<1> QED
  BY <1>3, <1>4, <1>5, <1>6 DEF TypeInv, TypeOK

LEMMA RegisterTypes ==
  ASSUME TypeInv, Register PROVE TypeInv'
<1> USE DEF TypeInv, TypeOK
<1>1. op.new \in Area /\ op.bad \in Block
  BY DEF Register, Phase, Saving, CallShape
<1>2. CASE op.bad \in User /\ Install([SwapTable EXCEPT ![op.new] = op.bad])
           /\ UNCHANGED <<op, window>>
  <2>1. [SwapTable EXCEPT ![op.new] = op.bad] \in [Area -> Entry]
    BY <1>2 DEF RamTypes, Entry
  <2> QED
    BY <1>1, <1>2, <2>1, InstallTypes
<1>3. CASE op.bad \in Area /\ Install(Moved) /\ UNCHANGED <<op, window>>
  <2>1. Moved \in [Area -> Entry]
    BY <1>3 DEF Moved, RamTypes, Entry
  <2> QED
    BY <1>1, <1>3, <2>1, InstallTypes
<1>4. CASE /\ op.bad \in Area
           /\ op' = [op EXCEPT !.org = SwapTable[op.bad]]
           /\ SwapTable' = [SwapTable EXCEPT ![op.bad] = BAD]
           /\ window' = window \cup {SwapTable[op.bad]}
           /\ StartSave(MAP_OFFSET(op.bad), "install")
           /\ UNCHANGED <<flash, FreeBlockList, live, answered, pending, adrift, budget>>
  <2>1. SwapTable[op.bad] \in Entry
    BY <1>4 DEF RamTypes
  <2>2. /\ CurMapPageNum' \in 0 .. PagesPerBlock - 1
        /\ CurMapBlockIdx' \in 1 .. 2
        /\ pc' \in {"erase_map", "write_one"}
        /\ save' \in [off : MapOffsets, page : MapOffsets,
                      delayed : Area \cup {NoBlock},
                      next : {"get_free", "install", "done", "format"}]
        /\ Phase' = "install"
        /\ UNCHANGED <<MapBlock, Sequence, State>>
    BY <1>4, MapOffsetType, StartSaveTypes
  <2>3. FlashTypes' /\ HistoryTypes'
    BY <1>4, <2>1 DEF FlashTypes, HistoryTypes, flash
  <2>4. RamTypes'
    BY <1>4, <2>2 DEF RamTypes, Entry
  <2>5. CallTypes'
    BY <1>4, <2>1, <2>2 DEF CallTypes
  <2>6. op'.bad = op.bad /\ op'.new = op.new /\ op'.org \in Entry
    BY <1>4, <2>1 DEF CallTypes
  <2>7. CallShape'
    BY <1>1, <2>2, <2>6 DEF CallShape
  <2> QED
    BY <2>3, <2>4, <2>5, <2>7
<1> QED
  BY <1>2, <1>3, <1>4 DEF Register

LEMMA InstallOriginalTypes ==
  ASSUME TypeInv, InstallOriginal PROVE TypeInv'
<1> USE DEF TypeInv, TypeOK
<1>1. op.new \in Area /\ op.org \in Entry
  BY DEF InstallOriginal, Phase, Saving, CallShape
<1>2. [SwapTable EXCEPT ![op.new] = op.org] \in [Area -> Entry]
  BY <1>1 DEF RamTypes
<1> QED
  BY <1>1, <1>2, InstallTypes DEF InstallOriginal

LEMMA DoneTypes ==
  ASSUME TypeInv, Done PROVE TypeInv'
<1> USE DEF TypeInv, TypeOK
<1>1. FlashTypes' /\ RamTypes'
  BY DEF Done, FlashTypes, RamTypes, flash
<1>2. CallTypes' /\ CallShape'
  BY NumMapPagesType DEF Done, CallTypes, CallShape, Phase, Saving, NoOp, NoSave
<1>3. HistoryTypes'
  BY MappingType DEF Done, HistoryTypes, RamTypes
<1> QED
  BY <1>1, <1>2, <1>3

LEMMA FormatTableType == FormatTable \in [Area -> Entry]
<1> DEFINE Takes(e, u) ==
             Cardinality({v \in InitialBad : v < u})
               = Cardinality({f \in (Area \ marked) \ {NewMapBlocks[1], NewMapBlocks[2]} : f > e})
<1>1. InitialBad \subseteq User
  BY DEF InitialBad
<1>2. ASSUME NEW e \in Area, \E u \in InitialBad : Takes(e, u)
      PROVE  (CHOOSE u \in InitialBad : Takes(e, u)) \in Entry
  <2> HIDE DEF Takes
  <2>1. (CHOOSE u \in InitialBad : Takes(e, u)) \in InitialBad
    BY <1>2
  <2> QED
    BY <1>1, <2>1 DEF Entry
<1>3. {FREE, MAP, BAD} \subseteq Entry
  BY DEF Entry
<1>4. FormatTable = [e \in Area |->
        IF e \in marked THEN BAD
        ELSE IF e \notin (Area \ marked) \ {NewMapBlocks[1], NewMapBlocks[2]} THEN MAP
        ELSE IF \E u \in InitialBad : Takes(e, u)
             THEN CHOOSE u \in InitialBad : Takes(e, u)
             ELSE FREE]
  BY DEF FormatTable
<1> HIDE DEF Takes
<1> QED
  BY <1>2, <1>3, <1>4

LEMMA BlankMemoryTypes ==
  ASSUME BlankMemory PROVE RamTypes'
<1>1. BmAreaStartBlock \in Area /\ 0 \in 0 .. PagesPerBlock - 1
  BY GeometryAssumption, NumMapPagesType DEF Area
<1> QED
  BY <1>1 DEF BlankMemory, RamTypes, Entry

LEMMA FormatTypes ==
  ASSUME TypeInv, pc \in {"off", "idle"}, BM_Format, budget' \in [Accident -> Nat]
  PROVE  TypeInv'
<1> USE DEF TypeInv, TypeOK
<1>1. FlashTypes'
  BY DEF BM_Format, FlashTypes, flash
<1>2. CASE Formattable
  <2>1. NewMapBlocks \in [1 .. 2 -> Area]
    <3>1. Area \ marked \in SUBSET Area /\ Cardinality(Area \ marked) >= 2
      BY <1>2 DEF Formattable
    <3>2. NewMapBlocks \in [1 .. 2 -> Area \ marked]
      BY <3>1, LowestTwo DEF NewMapBlocks
    <3> QED
      BY <3>2
  <2>2. RamTypes'
    <3>1. 0 \in 0 .. PagesPerBlock - 1
      BY GeometryAssumption, NumMapPagesType
    <3>2. FreeEntries(FormatTable) \subseteq Area
      BY DEF FreeEntries
    <3> QED
      BY <1>2, <2>1, <3>1, <3>2, FormatTableType DEF BM_Format, RamTypes
  <2>3. CallTypes' /\ CallShape'
    BY <1>2, NumMapPagesType
    DEF BM_Format, CallTypes, CallShape, Phase, Saving, NoOp, NoSave
  <2>4. HistoryTypes'
    BY <1>2, FormatTableType, MappingType DEF BM_Format, HistoryTypes
  <2> QED
    BY <1>1, <2>2, <2>3, <2>4
<1>3. CASE ~ Formattable
  <2>1. RamTypes' /\ HistoryTypes'
    BY <1>3, BlankMemoryTypes DEF BM_Format, HistoryTypes
  <2>2. CallTypes' /\ CallShape'
    BY <1>3 DEF BM_Format, CallTypes, CallShape, Phase, Saving
  <2> QED
    BY <1>1, <2>1, <2>2
<1> QED
  BY <1>2, <1>3

LEMMA BootTypes ==
  ASSUME TypeInv, Boot PROVE TypeInv'
<1> USE DEF TypeInv, TypeOK
<1>1. CASE ~ Openable /\ BM_Format
  BY <1>1, FormatTypes DEF Boot, HistoryTypes
<1>2. CASE Openable /\ BM_Open
  <2>1. Candidates # {} /\ Cardinality(MapBlocks) >= 2
    BY <1>2 DEF Openable
  <2>2. OpenTable \in [Area -> Entry] /\ OpenSequence \in Nat
    BY <2>1, OpenTableType, OpenSequenceType
  <2>3. OpenMapBlock \in [1 .. 2 -> Area]
    <3>1. MapBlocks \in SUBSET Area
      BY <2>1, MapBlocksType
    <3>2. OpenMapBlock \in [1 .. 2 -> MapBlocks]
      BY <2>1, <3>1, LowestTwo DEF OpenMapBlock
    <3> QED
      BY <3>1, <3>2
  <2>4. FlashTypes'
    BY <1>2 DEF BM_Open, FlashTypes, flash
  <2>5. RamTypes'
    <3>1. OpenLastMapPage \in 0 .. PagesPerBlock - 1
      BY GeometryAssumption, NumMapPagesType DEF OpenLastMapPage
    <3>2. FreeEntries(OpenTable) \subseteq Area
      BY DEF FreeEntries
    <3> QED
      BY <1>2, <2>2, <2>3, <3>1, <3>2 DEF BM_Open, RamTypes
  <2>6. CallTypes' /\ CallShape'
    BY <1>2 DEF BM_Open, CallTypes, CallShape, Phase, Saving
  <2>7. HistoryTypes'
    <3>1. Mapping(OpenTable) \in [User -> Block]
      BY <2>2, MappingType
    <3> QED
      BY <1>2, <3>1 DEF BM_Open, Boot, HistoryTypes
  <2> QED
    BY <2>4, <2>5, <2>6, <2>7
<1> QED
  BY <1>1, <1>2 DEF Boot

LEMMA FormatSecondBlockTypes ==
  ASSUME TypeInv, FormatSecondBlock PROVE TypeInv'
<1> USE DEF TypeInv, TypeOK
<1>1. FlashTypes' /\ HistoryTypes'
  BY DEF FormatSecondBlock, FlashTypes, HistoryTypes, flash, hist
<1>2. RamTypes'
  BY GeometryAssumption, NumMapPagesType DEF FormatSecondBlock, RamTypes
<1>3. CallTypes' /\ CallShape'
  BY NumMapPagesType
  DEF FormatSecondBlock, CallTypes, CallShape, Phase, Saving, NoSave
<1> QED
  BY <1>1, <1>2, <1>3

LEMMA BlockOfType ==
  ASSUME RamTypes, NEW u \in User
  PROVE  BlockOf(u) \in Block
BY SwappingBlockType DEF BlockOf, RamTypes, Block

LEMMA UserTypes ==
  ASSUME TypeInv, NEW u \in User,
         ProgramUser(u) \/ ProgramUserFails(u) \/ EraseUser(u) \/ EraseUserFails(u)
  PROVE  TypeInv'
<1> USE DEF TypeInv, TypeOK
<1>1. BlockOf(u) \in Block
  BY BlockOfType
<1>2. RamTypes'
  BY DEF ProgramUser, ProgramUserFails, EraseUser, EraseUserFails, RamTypes, ram
<1>3. HistoryTypes'
  <2>1. budget' \in [Accident -> Nat]
    BY SpendType
    DEF ProgramUser, ProgramUserFails, EraseUser, EraseUserFails, HistoryTypes, Accident
  <2> QED
    BY <2>1
    DEF ProgramUser, ProgramUserFails, EraseUser, EraseUserFails, HistoryTypes, hist
<1>4. CASE ProgramUser(u)
  <2>1. FlashTypes'
    BY <1>1, <1>4 DEF ProgramUser, FlashTypes
  <2>2. CallTypes' /\ CallShape'
    BY <1>4 DEF ProgramUser, CallTypes, CallShape, Phase, Saving, call
  <2> QED
    BY <1>2, <1>3, <2>1, <2>2
<1>5. CASE EraseUser(u)
  <2>1. FlashTypes'
    BY <1>1, <1>5, FlashOperationTypes DEF EraseUser
  <2>2. CallTypes' /\ CallShape'
    BY <1>5 DEF EraseUser, CallTypes, CallShape, Phase, Saving, call
  <2> QED
    BY <1>2, <1>3, <2>1, <2>2
<1>6. CASE ProgramUserFails(u)
  <2>1. FlashTypes'
    BY <1>6 DEF ProgramUserFails, FlashTypes, flash
  <2>2. CallTypes' /\ CallShape'
    BY <1>1, <1>6
    DEF ProgramUserFails, Replace, CallTypes, CallShape, Phase, Saving, NoOp
  <2> QED
    BY <1>2, <1>3, <2>1, <2>2
<1>7. CASE EraseUserFails(u)
  <2>1. FlashTypes'
    BY <1>1, <1>7, FlashOperationTypes DEF EraseUserFails
  <2>2. CallTypes' /\ CallShape'
    BY <1>1, <1>7
    DEF EraseUserFails, Replace, CallTypes, CallShape, Phase, Saving, NoOp
  <2> QED
    BY <1>2, <1>3, <2>1, <2>2
<1> QED
  BY <1>4, <1>5, <1>6, <1>7

LEMMA PowerLossTypes ==
  ASSUME TypeInv, PowerLoss PROVE TypeInv'
<1> USE DEF TypeInv, TypeOK
<1>1. FlashTypes'
  <2>1. CASE UNCHANGED flash
    BY <2>1 DEF FlashTypes, flash
  <2>2. CASE pc = "erase_new" /\ CutErase(op.new)
    <3>1. op.new \in Block
      BY <2>2 DEF CallShape, Phase, Saving, Block
    <3> QED
      BY <2>2, <3>1, FlashOperationTypes
  <2>3. CASE pc = "copy" /\ EraseTo(op.new, pages[op.new], JUNK) /\ UNCHANGED marked
    <3>1. op.new \in Block
      BY <2>3 DEF CallShape, Phase, Saving, Block
    <3> QED
      BY <2>3, <3>1 DEF EraseTo, FlashTypes
  <2>4. CASE CutErase(MapTarget)
    BY <2>4, MapTargetType, FlashOperationTypes
  <2>5. CASE Programmed(MapTarget, TORN)
    BY <2>5, MapTargetType, FlashOperationTypes
  <2> QED
    BY <2>1, <2>2, <2>3, <2>4, <2>5 DEF PowerLoss, Interrupted
<1>2. RamTypes'
  BY BlankMemoryTypes DEF PowerLoss
<1>3. CallTypes' /\ CallShape'
  BY NumMapPagesType
  DEF PowerLoss, CallTypes, CallShape, Phase, Saving, NoOp, NoSave
<1>4. HistoryTypes'
  <2>1. budget' \in [Accident -> Nat]
    BY SpendType DEF PowerLoss, HistoryTypes, Accident
  <2> QED
    BY <2>1 DEF PowerLoss, HistoryTypes, hist
<1> QED
  BY <1>1, <1>2, <1>3, <1>4

LEMMA TypeInvStep ==
  ASSUME TypeInv, [Next]_vars PROVE TypeInv'
<1>1. CASE Boot
  BY <1>1, BootTypes
<1>2. CASE FormatSecondBlock
  BY <1>2, FormatSecondBlockTypes
<1>3. CASE GetFreeBlock
  BY <1>3, GetFreeBlockTypes
<1>4. CASE EraseNew
  BY <1>4, EraseNewTypes
<1>5. CASE CopyPages
  BY <1>5, CopyPagesTypes
<1>6. CASE Register
  BY <1>6, RegisterTypes
<1>7. CASE InstallOriginal
  BY <1>7, InstallOriginalTypes
<1>8. CASE EraseMap
  BY <1>8, EraseMapTypes
<1>9. CASE MarkMap
  BY <1>9, MarkMapTypes
<1>10. CASE WriteAll
  BY <1>10, WriteAllTypes
<1>11. CASE WriteOne
  BY <1>11, WriteOneTypes
<1>12. CASE MarkDelayed
  BY <1>12, MarkDelayedTypes
<1>13. CASE Done
  BY <1>13, DoneTypes
<1>14. CASE Reformat
  <2>1. budget' \in [Accident -> Nat]
    BY <1>14, SpendType DEF Reformat, TypeInv, TypeOK, HistoryTypes, Accident
  <2> QED
    BY <1>14, <2>1, FormatTypes DEF Reformat
<1>15. CASE PowerLoss
  BY <1>15, PowerLossTypes
<1>16. CASE \E u \in User : \/ ProgramUser(u) \/ ProgramUserFails(u)
                            \/ EraseUser(u) \/ EraseUserFails(u)
  BY <1>16, UserTypes
<1>17. CASE UNCHANGED vars
  BY <1>17
  DEF TypeInv, TypeOK, FlashTypes, RamTypes, CallTypes, HistoryTypes, CallShape,
      Phase, Saving, vars, flash, ram, call, hist
<1> QED
  BY <1>1, <1>2, <1>3, <1>4, <1>5, <1>6, <1>7, <1>8, <1>9, <1>10, <1>11, <1>12,
     <1>13, <1>14, <1>15, <1>16, <1>17 DEF Next, Step

LEMMA TypeInvInit ==
  ASSUME Init PROVE TypeInv
<1> USE DEF TypeInv, TypeOK
<1>1. FlashTypes
  BY EmptySeq, BlockZeroAssumption DEF Init, FlashTypes
<1>2. RamTypes
  <2>1. BmAreaStartBlock \in Area /\ 0 \in 0 .. PagesPerBlock - 1
    BY GeometryAssumption, NumMapPagesType DEF Area
  <2> QED
    BY <2>1 DEF Init, RamTypes, Entry
<1>3. CallTypes /\ CallShape
  BY NumMapPagesType
  DEF Init, CallTypes, CallShape, Phase, Saving, NoOp, NoSave
<1>4. HistoryTypes
  BY BudgetAssumption DEF Init, HistoryTypes
<1> QED
  BY <1>1, <1>2, <1>3, <1>4

(* The state of the chip, of the manager and of the call in progress stays *)
(* within its types, whatever the size of the chip and of the area.        *)
THEOREM TypeCorrect == Spec => []TypeOK
<1>1. Init => TypeInv
  BY TypeInvInit
<1>2. TypeInv /\ [Next]_vars => TypeInv'
  BY TypeInvStep
<1>3. TypeInv => TypeOK
  BY DEF TypeInv
<1> QED
  BY <1>1, <1>2, <1>3, PTL DEF Spec

----------------------------------------------------------------------------
(* Which blocks the manager writes: what it has reserved for itself or for *)
(* the call in progress, and never a block it knows to be bad.             *)

LEMMA SpecialEntries ==
  FREE \notin User /\ MAP \notin User /\ BAD \notin User
  /\ FREE # MAP /\ FREE # BAD /\ MAP # BAD
<1>1. User \subseteq Nat
  BY AreaNumbers
<1> QED
  BY <1>1 DEF FREE, MAP, BAD

\* The four parts of Reserved, for a table that knows its map blocks.
InOrder == FreeListIsFree /\ MapIsKnown /\ NewIsReserved /\ BadKeepsEntry

LEMMA ReplaceMapBlockReserved ==
  ASSUME TypeInv, Saving, InOrder, NEW sav, sav.next = save.next,
         ReplaceMapBlock(MapTarget, sav)
  PROVE  InOrder'
<1> USE DEF TypeInv, TypeOK, RamTypes, InOrder
<1>1. MapTarget \in Area /\ SwapTable[MapTarget] \in {MAP, BAD}
  BY MapTargetType DEF MapIsKnown, MapTarget
<1>2. CASE /\ FreeBlockList = {}
           /\ SwapTable' = [SwapTable EXCEPT ![MapTarget] = BAD]
           /\ UNCHANGED <<FreeBlockList, MapBlock>>
           /\ Abort
  <2>1. FreeListIsFree'
    BY <1>2 DEF FreeListIsFree
  <2>2. MapIsKnown'
    BY <1>1, <1>2 DEF MapIsKnown
  <2>3. Phase' \in {"dead", "idle"}
    BY <1>2 DEF Abort, Phase, Saving
  <2>4. NewIsReserved' /\ BadKeepsEntry'
    BY <2>3 DEF NewIsReserved, BadKeepsEntry
  <2> QED
    BY <2>1, <2>2, <2>4
<1>3. CASE /\ FreeBlockList # {}
           /\ LET new == Lowest(FreeBlockList)
              IN  /\ SwapTable' = Retired(MapTarget, new)
                  /\ FreeBlockList' = FreeBlockList \ {new}
                  /\ MapBlock' = [MapBlock EXCEPT ![CurMapBlockIdx] = new]
           /\ pc' = "erase_map"
           /\ save' = sav
           /\ UNCHANGED <<op, hist>>
  <2> DEFINE new == Lowest(FreeBlockList)
  <2>1. new \in FreeBlockList /\ new \in Area /\ SwapTable[new] = FREE
    <3>1. FreeBlockList \subseteq Nat
      BY AreaNumbers
    <3> QED
      BY <1>3, <3>1, LowestType DEF FreeListIsFree
  <2> HIDE DEF new
  <2>2. new # MapTarget
    BY <1>1, <2>1, SpecialEntries
  <2>3. /\ SwapTable'[MapTarget] = BAD
        /\ SwapTable'[new] = MAP
        /\ \A e \in Area \ {MapTarget, new} : SwapTable'[e] = SwapTable[e]
    BY <1>1, <1>3, <2>1, <2>2 DEF new, Retired
  <2>4. FreeListIsFree'
    BY <1>1, <1>3, <2>3, SpecialEntries DEF FreeListIsFree, new
  <2>5. MapIsKnown'
    <3> SUFFICES ASSUME NEW i \in 1 .. 2
                 PROVE  SwapTable'[MapBlock'[i]] \in {MAP, BAD}
      BY DEF MapIsKnown
    <3>1. MapBlock'[i] \in {new, MapBlock[i]}
      BY <1>3 DEF new
    <3>2. MapBlock[i] \in Area /\ SwapTable[MapBlock[i]] \in {MAP, BAD}
      BY DEF MapIsKnown
    <3> QED
      BY <2>3, <3>1, <3>2
  <2>6. Phase' = Phase
    BY <1>3 DEF Phase, Saving
  <2>7. NewIsReserved'
    <3> SUFFICES ASSUME Phase \in {"erase_new", "copy", "register", "install"}
                 PROVE  SwapTable'[op.new] = FREE /\ op.new \notin FreeBlockList'
      BY <1>3, <2>6 DEF NewIsReserved
    <3>1. op.new \in Area /\ SwapTable[op.new] = FREE /\ op.new \notin FreeBlockList
      BY DEF NewIsReserved, CallShape
    <3> QED
      BY <1>1, <1>3, <2>1, <2>3, <3>1, SpecialEntries
  <2>8. BadKeepsEntry'
    <3> SUFFICES ASSUME Phase \in {"get_free", "erase_new", "copy", "register"},
                        op.bad \in Area
                 PROVE  SwapTable'[op.bad] \in User
      BY <1>3, <2>6 DEF BadKeepsEntry
    <3>1. SwapTable[op.bad] \in User
      BY DEF BadKeepsEntry
    <3> QED
      BY <1>1, <2>1, <2>3, <3>1, SpecialEntries
  <2> QED
    BY <2>4, <2>5, <2>7, <2>8
<1> QED
  BY <1>2, <1>3 DEF ReplaceMapBlock

\* A step that changes neither table nor lists, nor the phase.
LEMMA SamePhaseReserved ==
  ASSUME InOrder, UNCHANGED <<SwapTable, FreeBlockList, MapBlock, op>>, Phase' = Phase
  PROVE  InOrder'
BY DEF InOrder, FreeListIsFree, MapIsKnown, NewIsReserved, BadKeepsEntry

LEMMA MapStepReserved ==
  ASSUME TypeInv, InOrder, EraseMap \/ MarkMap \/ WriteAll \/ WriteOne \/ MarkDelayed
  PROVE  InOrder'
<1> USE DEF TypeInv, TypeOK
<1>1. Saving
  BY DEF EraseMap, MarkMap, WriteAll, WriteOne, MarkDelayed, Saving
<1>2. CASE EraseMap
  <2>1. Phase' = Phase
    BY <1>2 DEF EraseMap, Phase, Saving, CallTypes
  <2> QED
    BY <1>2, <2>1, SamePhaseReserved DEF EraseMap, ram
<1>3. CASE MarkMap
  BY <1>1, <1>3, ReplaceMapBlockReserved DEF MarkMap
<1>4. CASE WriteAll
  <2>1. Phase' = Phase
    BY <1>4 DEF WriteAll, SaveEnds, Phase, Saving, CallTypes
  <2> QED
    BY <1>4, <2>1, SamePhaseReserved DEF WriteAll
<1>5. CASE WriteOne
  <2>1. CASE SaveEnds /\ UNCHANGED <<SwapTable, FreeBlockList, MapBlock, save, op, hist>>
    <3>1. Phase' = Phase
      BY <1>1, <2>1 DEF SaveEnds, Phase, Saving, CallTypes
    <3> QED
      BY <2>1, <3>1, SamePhaseReserved
  <2>2. CASE RetireCurrent
    <3>1. [save EXCEPT !.delayed = MapTarget].next = save.next
      BY DEF CallTypes
    <3> QED
      BY <1>1, <2>2, <3>1, ReplaceMapBlockReserved DEF RetireCurrent
  <2> QED
    BY <1>5, <2>1, <2>2 DEF WriteOne
<1>6. CASE MarkDelayed
  <2>1. Phase' = Phase
    BY <1>6 DEF MarkDelayed, Phase, Saving, CallTypes
  <2> QED
    BY <1>6, <2>1, SamePhaseReserved DEF MarkDelayed, ram
<1> QED
  BY <1>2, <1>3, <1>4, <1>5, <1>6

LEMMA StartSavePhase ==
  ASSUME NEW o, NEW next, StartSave(o, next)
  PROVE  Phase' = next /\ UNCHANGED MapBlock
BY DEF StartSave, Phase, Saving

LEMMA GetFreeBlockReserved ==
  ASSUME TypeInv, InOrder, GetFreeBlock PROVE InOrder'
<1> USE DEF TypeInv, TypeOK, RamTypes, InOrder
<1>1. Phase = "get_free" /\ op.bad \in Block
  BY DEF GetFreeBlock, Phase, Saving, CallShape
<1>2. MapIsKnown'
  BY DEF GetFreeBlock, MapIsKnown
<1>3. FreeListIsFree'
  BY DEF GetFreeBlock, FreeListIsFree
<1>4. CASE NoFreeBlock
  <2>1. Phase' \in {"dead", "idle"}
    BY <1>4 DEF NoFreeBlock, Abort, Phase, Saving
  <2> QED
    BY <1>2, <1>3, <2>1 DEF NewIsReserved, BadKeepsEntry
<1>5. CASE /\ FreeBlockList # {}
           /\ op' = [op EXCEPT !.new = Highest(FreeBlockList)]
           /\ FreeBlockList' = FreeBlockList \ {Highest(FreeBlockList)}
           /\ pc' = AfterGetFree
  <2>1. Highest(FreeBlockList) \in FreeBlockList
    <3>1. FreeBlockList \in SUBSET Area /\ FreeBlockList \subseteq Int
      BY AreaNumbers
    <3>2. IsFiniteSet(FreeBlockList)
      BY <3>1, AreaNumbers, FS_Subset
    <3> QED
      BY <1>5, <3>1, <3>2, HighestType
  <2>2. op'.new = Highest(FreeBlockList) /\ op'.bad = op.bad
    BY <1>5 DEF CallTypes
  <2>3. NewIsReserved'
    BY <1>5, <2>1, <2>2 DEF GetFreeBlock, NewIsReserved, FreeListIsFree
  <2>4. BadKeepsEntry'
    BY <1>1, <1>5, <2>2 DEF GetFreeBlock, BadKeepsEntry
  <2> QED
    BY <1>2, <1>3, <2>3, <2>4
<1> QED
  BY <1>4, <1>5 DEF GetFreeBlock

LEMMA RejectNewBlockReserved ==
  ASSUME TypeInv, InOrder, Phase \in {"erase_new", "copy"}, RejectNewBlock
  PROVE  InOrder'
<1> USE DEF TypeInv, TypeOK, RamTypes, InOrder
<1>1. op.new \in Area /\ SwapTable[op.new] = FREE /\ op.new \notin FreeBlockList
  BY DEF NewIsReserved, CallShape
<1>2. Phase' = "get_free" /\ UNCHANGED <<MapBlock, FreeBlockList, op>>
      /\ SwapTable' = [SwapTable EXCEPT ![op.new] = BAD]
  BY StartSavePhase DEF RejectNewBlock
<1>3. FreeListIsFree'
  BY <1>1, <1>2 DEF FreeListIsFree
<1>4. MapIsKnown'
  BY <1>1, <1>2, SpecialEntries DEF MapIsKnown
<1>5. BadKeepsEntry'
  BY <1>1, <1>2, SpecialEntries DEF BadKeepsEntry
<1>6. NewIsReserved'
  BY <1>2 DEF NewIsReserved
<1> QED
  BY <1>3, <1>4, <1>5, <1>6

LEMMA NewBlockStepReserved ==
  ASSUME TypeInv, InOrder, EraseNew \/ CopyPages PROVE InOrder'
<1> USE DEF TypeInv, TypeOK
<1>1. Phase \in {"erase_new", "copy"}
  BY DEF EraseNew, CopyPages, Phase, Saving
<1>2. CASE RejectNewBlock
  BY <1>1, <1>2, RejectNewBlockReserved
<1>3. CASE UNCHANGED <<ram, op, save, hist, budget>> /\ pc' \in {"copy", "register"}
  <2>1. Phase' \in {"copy", "register"}
    BY <1>3 DEF Phase, Saving
  <2> QED
    BY <1>1, <1>3, <2>1
    DEF InOrder, FreeListIsFree, MapIsKnown, NewIsReserved, BadKeepsEntry, ram
<1> QED
  BY <1>2, <1>3 DEF EraseNew, CopyPages

\* The new table gives the block got for the call an entry, and may retire
\* the bad one: neither is a map block.
LEMMA InstallReserved ==
  ASSUME TypeInv, InOrder, NEW T \in [Area -> Entry], Install(T),
         \A i \in 1 .. 2 : T[MapBlock[i]] = SwapTable[MapBlock[i]]
  PROVE  InOrder'
<1> USE DEF InOrder
<1>1. Phase' = "done" /\ UNCHANGED MapBlock
  BY StartSavePhase DEF Install
<1>2. FreeListIsFree'
  BY DEF Install, FreeListIsFree, FreeEntries
<1>3. MapIsKnown'
  BY <1>1 DEF Install, MapIsKnown
<1>4. NewIsReserved' /\ BadKeepsEntry'
  BY <1>1 DEF NewIsReserved, BadKeepsEntry
<1> QED
  BY <1>2, <1>3, <1>4

LEMMA RegisterReserved ==
  ASSUME TypeInv, InOrder, Register PROVE InOrder'
<1> USE DEF TypeInv, TypeOK, RamTypes, InOrder
<1>1. op.bad \in Block /\ op.new \in Area /\ SwapTable[op.new] = FREE
      /\ op.new \notin FreeBlockList
  BY DEF Register, Phase, Saving, CallShape, NewIsReserved
<1>2. \A i \in 1 .. 2 : MapBlock[i] \in Area /\ SwapTable[MapBlock[i]] \in {MAP, BAD}
  BY DEF MapIsKnown
<1>3. op.bad \in Area => SwapTable[op.bad] \in User
  BY DEF Register, Phase, Saving, BadKeepsEntry
<1>4. CASE op.bad \in User /\ Install([SwapTable EXCEPT ![op.new] = op.bad])
  <2> DEFINE T == [SwapTable EXCEPT ![op.new] = op.bad]
  <2>1. T \in [Area -> Entry]
    BY <1>4 DEF Entry
  <2>2. \A i \in 1 .. 2 : T[MapBlock[i]] = SwapTable[MapBlock[i]]
    BY <1>1, <1>2, SpecialEntries
  <2> QED
    BY <1>4, <2>1, <2>2, InstallReserved
<1>5. CASE op.bad \in Area /\ Install(Moved)
  <2>1. Moved \in [Area -> Entry]
    BY <1>5 DEF Moved, Entry
  <2>2. \A i \in 1 .. 2 : Moved[MapBlock[i]] = SwapTable[MapBlock[i]]
    BY <1>1, <1>2, <1>3, <1>5, SpecialEntries DEF Moved
  <2> QED
    BY <1>5, <2>1, <2>2, InstallReserved
<1>6. CASE /\ op.bad \in Area
           /\ op' = [op EXCEPT !.org = SwapTable[op.bad]]
           /\ SwapTable' = [SwapTable EXCEPT ![op.bad] = BAD]
           /\ StartSave(MAP_OFFSET(op.bad), "install")
           /\ UNCHANGED FreeBlockList
  <2>1. Phase' = "install" /\ UNCHANGED MapBlock /\ op'.new = op.new
    BY <1>6, StartSavePhase DEF CallTypes
  <2>2. op.new # op.bad
    BY <1>1, <1>3, <1>6, SpecialEntries
  <2>3. FreeListIsFree'
    BY <1>3, <1>6, SpecialEntries DEF FreeListIsFree
  <2>4. MapIsKnown'
    BY <1>2, <1>3, <1>6, <2>1, SpecialEntries DEF MapIsKnown
  <2>5. NewIsReserved'
    BY <1>1, <1>6, <2>1, <2>2 DEF NewIsReserved
  <2>6. BadKeepsEntry'
    BY <2>1 DEF BadKeepsEntry
  <2> QED
    BY <2>3, <2>4, <2>5, <2>6
<1> QED
  BY <1>4, <1>5, <1>6 DEF Register

LEMMA InstallOriginalReserved ==
  ASSUME TypeInv, InOrder, InstallOriginal PROVE InOrder'
<1> USE DEF TypeInv, TypeOK, RamTypes
<1> DEFINE T == [SwapTable EXCEPT ![op.new] = op.org]
<1>1. op.new \in Area /\ op.org \in Entry /\ SwapTable[op.new] = FREE
  BY DEF InstallOriginal, Phase, Saving, CallShape, InOrder, NewIsReserved
<1>2. T \in [Area -> Entry]
  BY <1>1
<1>3. \A i \in 1 .. 2 : T[MapBlock[i]] = SwapTable[MapBlock[i]]
  BY <1>1, SpecialEntries DEF InOrder, MapIsKnown
<1> QED
  BY <1>2, <1>3, InstallReserved DEF InstallOriginal

LEMMA FormatReserved ==
  ASSUME TypeInv, BM_Format, pc' # "dead" PROVE InOrder'
<1> USE DEF InOrder
<1>1. Formattable
  BY DEF BM_Format
<1>2. Phase' = "format"
  BY <1>1 DEF BM_Format, Phase, Saving, NoSave
<1>3. FreeListIsFree'
  BY <1>1 DEF BM_Format, FreeListIsFree, FreeEntries
<1>4. NewMapBlocks \in [1 .. 2 -> Area \ marked]
  <2>1. Area \ marked \in SUBSET Area /\ Cardinality(Area \ marked) >= 2
    BY <1>1 DEF Formattable
  <2> QED
    BY <2>1, LowestTwo DEF NewMapBlocks
<1>5. \A i \in 1 .. 2 : FormatTable[NewMapBlocks[i]] = MAP
  <2> SUFFICES ASSUME NEW i \in 1 .. 2 PROVE FormatTable[NewMapBlocks[i]] = MAP
    OBVIOUS
  <2>1. NewMapBlocks[i] \in Area /\ NewMapBlocks[i] \notin marked
    BY <1>4
  <2>2. NewMapBlocks[i] \notin (Area \ marked) \ {NewMapBlocks[1], NewMapBlocks[2]}
    OBVIOUS
  <2> QED
    BY <2>1, <2>2 DEF FormatTable
<1>6. MapIsKnown'
  BY <1>1, <1>5 DEF BM_Format, MapIsKnown
<1>7. NewIsReserved' /\ BadKeepsEntry'
  BY <1>2 DEF NewIsReserved, BadKeepsEntry
<1> QED
  BY <1>3, <1>6, <1>7

LEMMA OpenReserved ==
  ASSUME TypeInv, Openable, BM_Open, ~ adrift' PROVE InOrder'
<1> USE DEF InOrder
<1>1. Candidates # {} /\ Cardinality(MapBlocks) >= 2 /\ Consistent
  BY DEF Openable, BM_Open
<1>2. \A b \in MapBlocks : OpenTable[b] = MAP
  <2>1. \A b \in Found : b \in Area /\ IsMapBlock(b)
    BY DEF Found
  <2>2. \A b \in Found : OpenTable[b] = MAP
    BY <1>1, <2>1 DEF Consistent
  <2> QED
    BY <2>2 DEF MapBlocks
<1>3. OpenMapBlock \in [1 .. 2 -> MapBlocks]
  BY <1>1, MapBlocksType, LowestTwo DEF OpenMapBlock
<1>4. MapIsKnown'
  BY <1>2, <1>3 DEF BM_Open, MapIsKnown
<1>5. FreeListIsFree'
  BY DEF BM_Open, FreeListIsFree, FreeEntries
<1>6. Phase' = "idle"
  BY DEF BM_Open, Phase, Saving
<1>7. NewIsReserved' /\ BadKeepsEntry'
  BY <1>6 DEF NewIsReserved, BadKeepsEntry
<1> QED
  BY <1>4, <1>5, <1>7

LEMMA UserReserved ==
  ASSUME TypeInv, InOrder, NEW u \in User,
         ProgramUser(u) \/ ProgramUserFails(u) \/ EraseUser(u) \/ EraseUserFails(u)
  PROVE  InOrder'
<1> USE DEF InOrder, TypeInv, TypeOK
<1>1. pc = "idle" /\ UNCHANGED ram
  BY DEF ProgramUser, ProgramUserFails, EraseUser, EraseUserFails, Idle
<1>2. FreeListIsFree' /\ MapIsKnown'
  BY <1>1 DEF FreeListIsFree, MapIsKnown, ram
<1>3. Phase' \in {"idle", "get_free"}
  BY <1>1
  DEF ProgramUser, ProgramUserFails, EraseUser, EraseUserFails, Replace, call, Phase, Saving
<1>4. NewIsReserved'
  BY <1>3 DEF NewIsReserved
<1>5. CASE UNCHANGED call
  BY <1>1, <1>2, <1>4, <1>5 DEF call, Phase, Saving, BadKeepsEntry
<1>6. CASE \E cmd : Replace(cmd, BlockOf(u))
  <2>1. op'.bad = BlockOf(u)
    BY <1>6 DEF Replace, NoOp
  <2>2. BlockOf(u) \in Area => SwapTable[BlockOf(u)] = u
    BY SwappingBlockType, AreaNumbers DEF BlockOf, RamTypes, Block
  <2>3. BadKeepsEntry'
    BY <1>1, <2>1, <2>2 DEF BadKeepsEntry, ram
  <2> QED
    BY <1>2, <1>4, <2>3
<1> QED
  BY <1>5, <1>6 DEF ProgramUser, ProgramUserFails, EraseUser, EraseUserFails

ReservedInv == TypeInv /\ Reserved

LEMMA ReservedStep ==
  ASSUME ReservedInv, [Next]_vars PROVE ReservedInv'
<1> USE DEF ReservedInv
<1>1. TypeInv'
  BY TypeInvStep
<1>2. SUFFICES ASSUME ~ adrift', pc' \notin {"off", "dead"} PROVE InOrder'
  BY <1>1 DEF Reserved, InOrder
<1>3. CASE Boot
  BY <1>2, <1>3, FormatReserved, OpenReserved DEF Boot
<1>4. CASE Reformat
  BY <1>2, <1>4, FormatReserved DEF Reformat
<1>5. CASE PowerLoss
  BY <1>2, <1>5 DEF PowerLoss
<1>6. ASSUME ~ Boot, ~ Reformat, ~ PowerLoss PROVE InOrder'
  <2>1. ~ adrift /\ pc \notin {"off", "dead"}
    BY <1>2, <1>6
    DEF Next, Step, FormatSecondBlock, GetFreeBlock, EraseNew, CopyPages, Register,
        InstallOriginal, EraseMap, MarkMap, WriteAll, WriteOne, MarkDelayed, Done,
        ProgramUser, ProgramUserFails, EraseUser, EraseUserFails, Idle, vars, hist,
        NoFreeBlock, Abort, RejectNewBlock, Install, ReplaceMapBlock, RetireCurrent,
        call
  <2>2. InOrder
    BY <2>1 DEF Reserved, InOrder
  <2>3. CASE EraseMap \/ MarkMap \/ WriteAll \/ WriteOne \/ MarkDelayed
    BY <2>2, <2>3, MapStepReserved
  <2>4. CASE EraseNew \/ CopyPages
    BY <2>2, <2>4, NewBlockStepReserved
  <2>5. CASE GetFreeBlock
    BY <2>2, <2>5, GetFreeBlockReserved
  <2>6. CASE Register
    BY <2>2, <2>6, RegisterReserved
  <2>7. CASE InstallOriginal
    BY <2>2, <2>7, InstallOriginalReserved
  <2>8. CASE FormatSecondBlock \/ Done
    <3>1. Phase' \in {"done", "idle"}
      BY <2>8 DEF FormatSecondBlock, Done, Phase, Saving, NoSave
    <3>2. UNCHANGED <<SwapTable, FreeBlockList, MapBlock>>
      BY <2>8 DEF FormatSecondBlock, Done
    <3> QED
      BY <2>2, <3>1, <3>2
      DEF InOrder, FreeListIsFree, MapIsKnown, NewIsReserved, BadKeepsEntry
  <2>9. CASE \E u \in User : \/ ProgramUser(u) \/ ProgramUserFails(u)
                             \/ EraseUser(u) \/ EraseUserFails(u)
    BY <2>2, <2>9, UserReserved
  <2>10. CASE UNCHANGED vars
    <3>1. UNCHANGED <<SwapTable, FreeBlockList, MapBlock, op>> /\ Phase' = Phase
      BY <2>10 DEF vars, ram, call, Phase, Saving
    <3> QED
      BY <2>2, <3>1, SamePhaseReserved
  <2> QED
    BY <1>6, <2>3, <2>4, <2>5, <2>6, <2>7, <2>8, <2>9, <2>10 DEF Next, Step
<1> QED
  BY <1>3, <1>4, <1>5, <1>6

----------------------------------------------------------------------------
(* The blocks that a flash operation leaves alone.                         *)

LEMMA FlashFrame ==
  ASSUME FlashTypes, NEW b \in Block, NEW c \in Block \ {b}, NEW pg
  PROVE  /\ EraseOk(b) => pages'[c] = pages[c] /\ data'[c] = data[c]
         /\ EraseFail(b) => pages'[c] = pages[c] /\ data'[c] = data[c]
         /\ CutErase(b) => pages'[c] = pages[c] /\ data'[c] = data[c]
         /\ Programmed(b, pg) => pages'[c] = pages[c] /\ data'[c] = data[c]
         /\ ProgramFail(b, pg) => pages'[c] = pages[c] /\ data'[c] = data[c]
<1>1. ASSUME NEW img, NEW d, EraseTo(b, img, d)
      PROVE  pages'[c] = pages[c] /\ data'[c] = data[c]
  BY <1>1 DEF EraseTo, FlashTypes
<1>2. EraseOk(b) => pages'[c] = pages[c] /\ data'[c] = data[c]
  BY <1>1 DEF EraseOk
<1>3. EraseFail(b) => pages'[c] = pages[c] /\ data'[c] = data[c]
  BY <1>1 DEF EraseFail
<1>4. CutErase(b) => pages'[c] = pages[c] /\ data'[c] = data[c]
  BY <1>1 DEF CutErase
<1>5. ASSUME NEW p PROVE Programmed(b, p) => pages'[c] = pages[c] /\ data'[c] = data[c]
  BY DEF Programmed, FlashTypes
<1>6. ProgramFail(b, pg) => pages'[c] = pages[c] /\ data'[c] = data[c]
  BY <1>5 DEF ProgramFail, flash
<1> QED
  BY <1>2, <1>3, <1>4, <1>5, <1>6

LEMMA BadBlocksStep ==
  ASSUME ReservedInv, [Next]_vars PROVE LeavesBadBlocks
<1> USE DEF ReservedInv, TypeInv, TypeOK
<1> SUFFICES ASSUME NEW b \in Area \ {MapBlock[1], MapBlock[2]}, ~ adrift,
                    SwapTable[b] = BAD
             PROVE  pages'[b] = pages[b] /\ data'[b] = data[b]
  BY DEF LeavesBadBlocks
<1>1. MapTarget \in Block /\ b \in Block \ {MapTarget} /\ b \in Area
  BY MapTargetType DEF MapTarget, RamTypes, Block
<1>2. CASE UNCHANGED <<pages, data>>
  BY <1>2
<1>3. CASE EraseMap
  BY <1>1, <1>3, FlashFrame DEF EraseMap
<1>4. CASE \E p, o : WriteMapPage(MapTarget, p, o) \/ WriteMapPageFails(MapTarget, p, o)
  BY <1>1, <1>4, FlashFrame DEF WriteMapPage, WriteMapPageFails, flash
<1>5. ASSUME pc \in {"erase_new", "copy"} PROVE op.new \in Block /\ b \in Block \ {op.new}
  <2>1. Phase \in {"erase_new", "copy"} /\ pc \notin {"off", "dead"}
    BY <1>5 DEF Phase, Saving
  <2>2. SwapTable[op.new] = FREE /\ op.new \in Area
    BY <2>1 DEF Reserved, NewIsReserved, CallShape
  <2> QED
    BY <2>2, SpecialEntries DEF Block
<1>6. CASE EraseNew
  BY <1>5, <1>6, FlashFrame DEF EraseNew
<1>7. CASE CopyPages
  <2>1. b \in Block \ {op.new}
    BY <1>5, <1>7 DEF CopyPages
  <2> QED
    BY <1>7, <2>1 DEF CopyPages, FlashTypes
<1>8. CASE PowerLoss
  <2>1. CASE UNCHANGED flash
    BY <2>1 DEF flash
  <2>2. CASE pc = "erase_new" /\ CutErase(op.new)
    BY <1>5, <2>2, FlashFrame
  <2>3. CASE pc = "copy" /\ EraseTo(op.new, pages[op.new], JUNK)
    <3>1. b \in Block \ {op.new}
      BY <1>5, <2>3
    <3> QED
      BY <2>3, <3>1 DEF EraseTo, FlashTypes
  <2>4. CASE CutErase(MapTarget) \/ Programmed(MapTarget, TORN)
    BY <1>1, <2>4, FlashFrame
  <2> QED
    BY <1>8, <2>1, <2>2, <2>3, <2>4 DEF PowerLoss, Interrupted
<1>9. ASSUME NEW u \in User,
             ProgramUser(u) \/ ProgramUserFails(u) \/ EraseUser(u) \/ EraseUserFails(u)
      PROVE  pages'[b] = pages[b] /\ data'[b] = data[b]
  <2>1. BlockOf(u) \in Block /\ (BlockOf(u) \in Area => SwapTable[BlockOf(u)] = u)
    BY SwappingBlockType, AreaNumbers DEF BlockOf, RamTypes, Block
  <2>2. b \in Block \ {BlockOf(u)}
    BY <1>1, <2>1, SpecialEntries
  <2>3. CASE ProgramUser(u)
    BY <2>2, <2>3 DEF ProgramUser, FlashTypes
  <2>4. CASE ProgramUserFails(u)
    BY <2>4 DEF ProgramUserFails, flash
  <2>5. CASE EraseUser(u)
    BY <2>1, <2>2, <2>5, FlashFrame DEF EraseUser
  <2>6. CASE EraseUserFails(u)
    BY <2>1, <2>2, <2>6, FlashFrame DEF EraseUserFails
  <2> QED
    BY <1>9, <2>3, <2>4, <2>5, <2>6
<1>10. CASE Boot \/ Reformat
  BY <1>2, <1>10 DEF Boot, Reformat, BM_Open, BM_Format, flash
<1>11. CASE \/ FormatSecondBlock \/ GetFreeBlock \/ Register \/ InstallOriginal
            \/ MarkMap \/ MarkDelayed \/ Done \/ UNCHANGED vars
  BY <1>2, <1>11
  DEF FormatSecondBlock, GetFreeBlock, Register, InstallOriginal, Install, MarkMap,
      MarkDelayed, MarkBadBlock, Done, vars, flash
<1> QED
  BY <1>3, <1>4, <1>6, <1>7, <1>8, <1>9, <1>10, <1>11
  DEF Next, Step, WriteAll, WriteOne

LEMMA ReservedInvariant == Spec => []ReservedInv
<1>1. Init => ReservedInv
  BY TypeInvInit DEF ReservedInv, Reserved, Init
<1>2. ReservedInv /\ [Next]_vars => ReservedInv'
  BY ReservedStep
<1> QED
  BY <1>1, <1>2, PTL DEF Spec

(* A free block on the list is free in the table, and the blocks at work   *)
(* in a call are neither free, nor the map's, nor another user block's.    *)
THEOREM ReservedCorrect == Spec => []Reserved
<1>1. ReservedInv => Reserved
  BY DEF ReservedInv
<1> QED
  BY <1>1, ReservedInvariant, PTL

(* No step erases or programs a block that the table knows to be bad.      *)
THEOREM BadBlocksCorrect == Spec => BadBlocksUntouched
<1>1. ReservedInv /\ [Next]_vars => [LeavesBadBlocks]_vars
  BY BadBlocksStep
<1> QED
  BY <1>1, ReservedInvariant, PTL DEF Spec, BadBlocksUntouched
==============================================================================
