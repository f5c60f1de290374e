---------------------------- MODULE MapLog_proofs ----------------------------
(***************************************************************************)
(* What the map blocks hold: a log of map pages in the order of their      *)
(* sequence numbers, of which BM_Open takes the last image of every        *)
(* segment.  From it: no user block has two replacements, a page is only   *)
(* written to where the log ends, the table reserves no block for the map  *)
(* but the two that are written, and no caller is sent to a block that     *)
(* left the factory bad.                                                   *)
(***************************************************************************)
EXTENDS BadBlockManager_proofs

PageLog == Seq(MapPage \cup {TORN})

\* What BM_Open reads in a block that holds the log s: Readable, Complete,
\* Latest and OpenTable, for any log.
Legible(s) == {k \in 1 .. Len(s) : \A m \in 1 .. k : s[m] # TORN}
Whole(s)   == \A o \in MapOffsets : \E k \in Legible(s) : s[k].off = o
LastOf(s, o) == LET K == {k \in Legible(s) : s[k].off = o}
                IN  CHOOSE k \in K : \A m \in K : s[m].seq <= s[k].seq
TableIn(s) == [e \in Area |-> s[LastOf(s, MAP_OFFSET(e))].tab[e]]

Climbs(s)   == \A k, m \in Legible(s) : k < m => s[k].seq < s[m].seq
Below(s, n) == \A k \in Legible(s) : s[k].seq <= n

\* The log has p pages, every one of them legible.
Clean(s, p) == Len(s) = p /\ Legible(s) = 1 .. p

----------------------------------------------------------------------------
(* Logs, and what appending a page does to them.                           *)

LEMMA LegibleType ==
  ASSUME NEW s \in PageLog
  PROVE  /\ Len(s) \in Nat
         /\ Legible(s) \in SUBSET (1 .. Len(s))
         /\ IsFiniteSet(Legible(s))
         /\ \A k \in Legible(s) : k \in Nat /\ s[k] \in MapPage
         /\ \A k \in Legible(s) : s[k].seq \in Nat \ {0} /\ s[k].off \in MapOffsets
<1>1. Len(s) \in Nat /\ IsFiniteSet(1 .. Len(s))
  BY LenProperties, FS_Interval DEF PageLog
<1>2. Legible(s) \in SUBSET (1 .. Len(s))
  BY DEF Legible
<1>3. IsFiniteSet(Legible(s))
  BY <1>1, <1>2, FS_Subset
<1>4. ASSUME NEW k \in Legible(s) PROVE k \in Nat /\ s[k] \in MapPage
  <2>1. k \in 1 .. Len(s) /\ k \in 1 .. k
    BY <1>1, <1>2
  <2>2. s[k] # TORN
    BY <2>1 DEF Legible
  <2> QED
    BY <1>1, <2>1, <2>2, ElementOfSeq DEF PageLog
<1> QED
  BY <1>1, <1>2, <1>3, <1>4, MapPageFields

LEMMA LastOfType ==
  ASSUME NEW s \in PageLog, NEW o \in MapOffsets, Whole(s)
  PROVE  /\ LastOf(s, o) \in Legible(s)
         /\ s[LastOf(s, o)].off = o
         /\ \A m \in Legible(s) : s[m].off = o => s[m].seq <= s[LastOf(s, o)].seq
<1> DEFINE K == {k \in Legible(s) : s[k].off = o}
<1> DEFINE f == [k \in K |-> s[k].seq]
<1>1. K # {} /\ K \in SUBSET Legible(s)
  BY DEF Whole
<1>2. IsFiniteSet(K)
  BY <1>1, LegibleType, FS_Subset
<1>3. f \in [K -> Int]
  BY LegibleType
<1>4. \E k \in K : \A m \in K : s[m].seq <= s[k].seq
  <2>1. \E k \in K : \A m \in K : f[m] <= f[k]
    <3> HIDE DEF K, f
    <3> QED
      BY <1>1, <1>2, <1>3, MaximalExists
  <2> QED
    BY <2>1
<1> QED
  BY <1>4 DEF LastOf

\* In a log that climbs there is no doubt which image is the last.
LEMMA LastOfIs ==
  ASSUME NEW s \in PageLog, Climbs(s), NEW k \in Legible(s),
         \A m \in Legible(s) : s[m].off = s[k].off => s[m].seq <= s[k].seq
  PROVE  LastOf(s, s[k].off) = k
<1> DEFINE o == s[k].off
<1> DEFINE K == {m \in Legible(s) : s[m].off = o}
<1> DEFINE j == LastOf(s, o)
<1>1. k \in K /\ \A m \in K : s[m].seq <= s[k].seq
  OBVIOUS
<1>2. j \in K /\ \A m \in K : s[m].seq <= s[j].seq
  <2>1. j = CHOOSE i \in K : \A m \in K : s[m].seq <= s[i].seq
    BY DEF LastOf
  <2> HIDE DEF j, K
  <2> QED
    BY <1>1, <2>1
<1>3. s[k].seq <= s[j].seq /\ s[j].seq <= s[k].seq
  BY <1>1, <1>2
<1>4. j \in Legible(s) /\ s[j].seq \in Nat /\ s[k].seq \in Nat /\ j \in Nat /\ k \in Nat
  BY <1>2, LegibleType
<1>5. ~ (j < k) /\ ~ (k < j)
  BY <1>3, <1>4 DEF Climbs
<1> QED
  BY <1>4, <1>5

LEMMA TableInType ==
  ASSUME NEW s \in PageLog, Whole(s)
  PROVE  /\ TableIn(s) \in [Area -> Entry]
         /\ \A e \in Area : /\ LastOf(s, MAP_OFFSET(e)) \in Legible(s)
                            /\ s[LastOf(s, MAP_OFFSET(e))].off = MAP_OFFSET(e)
                            /\ TableIn(s)[e] = s[LastOf(s, MAP_OFFSET(e))].tab[e]
<1>1. ASSUME NEW e \in Area
      PROVE  /\ LastOf(s, MAP_OFFSET(e)) \in Legible(s)
             /\ s[LastOf(s, MAP_OFFSET(e))].off = MAP_OFFSET(e)
             /\ s[LastOf(s, MAP_OFFSET(e))].tab[e] \in Entry
  <2> DEFINE p == s[LastOf(s, MAP_OFFSET(e))]
  <2>1. LastOf(s, MAP_OFFSET(e)) \in Legible(s) /\ p.off = MAP_OFFSET(e)
    BY MapOffsetType, LastOfType
  <2>2. p \in MapPage
    BY <2>1, LegibleType
  <2>3. e \in Segment(p.off) /\ p.tab \in [Segment(p.off) -> Entry]
    BY <2>1, <2>2, MapPageFields DEF Segment
  <2> QED
    BY <2>1, <2>3
<1> QED
  BY <1>1 DEF TableIn

\* An empty log, or one whose only page is torn.
LEMMA EmptyLog ==
  ASSUME NEW s \in {<< >>, <<TORN>>}
  PROVE  s \in PageLog /\ Legible(s) = {} /\ Climbs(s) /\ ~ Whole(s)
<1>1. << >> \in PageLog /\ <<TORN>> \in PageLog
  BY EmptySeq DEF PageLog
<1>2. Legible(s) = {}
  <2>1. CASE s = << >>
    BY <2>1 DEF Legible
  <2>2. CASE s = <<TORN>>
    <3>1. Len(s) = 1 /\ s[1] = TORN
      BY <2>2
    <3>2. \A k \in 1 .. 1 : 1 \in 1 .. k
      OBVIOUS
    <3> QED
      BY <3>1, <3>2 DEF Legible
  <2> QED
    BY <2>1, <2>2
<1> QED
  BY <1>1, <1>2, NumMapPagesType DEF Climbs, Whole

LEMMA AppendLegible ==
  ASSUME NEW s \in PageLog, NEW pg \in MapPage \cup {TORN}
  PROVE  /\ Append(s, pg) \in PageLog
         /\ Len(Append(s, pg)) = Len(s) + 1
         /\ Append(s, pg)[Len(s) + 1] = pg
         /\ \A k \in 1 .. Len(s) : Append(s, pg)[k] = s[k]
         /\ pg = TORN \/ Legible(s) # 1 .. Len(s) => Legible(Append(s, pg)) = Legible(s)
         /\ pg # TORN /\ Legible(s) = 1 .. Len(s) =>
              Legible(Append(s, pg)) = Legible(s) \cup {Len(s) + 1}
<1> DEFINE t == Append(s, pg)
<1>1. /\ t \in PageLog
      /\ Len(s) \in Nat
      /\ Len(t) = Len(s) + 1
      /\ t[Len(s) + 1] = pg
      /\ \A k \in 1 .. Len(s) : t[k] = s[k]
  BY AppendProperties, LenProperties DEF PageLog
<1> HIDE DEF t
<1>2. ASSUME NEW k \in 1 .. Len(s) PROVE k \in Legible(t) <=> k \in Legible(s)
  <2>1. \A m \in 1 .. k : m \in 1 .. Len(s)
    BY <1>1
  <2>2. \A m \in 1 .. k : t[m] = s[m]
    BY <1>1, <2>1
  <2>3. k \in 1 .. Len(t)
    BY <1>1
  <2> QED
    BY <2>2, <2>3 DEF Legible
<1>3. Len(s) + 1 \in Legible(t) <=> Legible(s) = 1 .. Len(s) /\ pg # TORN
  <2>1. Len(s) + 1 \in Legible(t) <=> \A m \in 1 .. Len(s) + 1 : t[m] # TORN
    BY <1>1 DEF Legible
  <2>2. (\A m \in 1 .. Len(s) + 1 : t[m] # TORN)
          <=> (\A m \in 1 .. Len(s) : s[m] # TORN) /\ pg # TORN
    BY <1>1
  <2>3. (\A m \in 1 .. Len(s) : s[m] # TORN) => Legible(s) = 1 .. Len(s)
    BY <1>1 DEF Legible
  <2>4. Legible(s) = 1 .. Len(s) => \A m \in 1 .. Len(s) : s[m] # TORN
    <3> SUFFICES ASSUME Legible(s) = 1 .. Len(s), NEW m \in 1 .. Len(s)
                 PROVE  s[m] # TORN
      OBVIOUS
    <3>1. m \in Legible(s) /\ m \in 1 .. m
      BY <1>1
    <3> QED
      BY <3>1 DEF Legible
  <2> QED
    BY <2>1, <2>2, <2>3, <2>4
<1>4. Legible(s) \in SUBSET (1 .. Len(s)) /\ Legible(t) \in SUBSET (1 .. Len(s) + 1)
  BY <1>1 DEF Legible
<1>5. /\ Len(s) + 1 \notin Legible(t) => Legible(t) = Legible(s)
      /\ Len(s) + 1 \in Legible(t) => Legible(t) = Legible(s) \cup {Len(s) + 1}
  <2>1. \A k \in 1 .. Len(s) + 1 : k \in 1 .. Len(s) \/ k = Len(s) + 1
    BY <1>1
  <2>2. Len(s) + 1 \notin 1 .. Len(s)
    BY <1>1
  <2> QED
    BY <1>2, <1>3, <1>4, <2>1, <2>2
<1> QED
  BY <1>1, <1>3, <1>5 DEF t

\* What is written behind a torn page, or torn itself, is never read.
LEMMA AppendUnread ==
  ASSUME NEW s \in PageLog, NEW pg \in MapPage \cup {TORN},
         pg = TORN \/ Legible(s) # 1 .. Len(s)
  PROVE  /\ Legible(Append(s, pg)) = Legible(s)
         /\ \A k \in Legible(s) : Append(s, pg)[k] = s[k]
<1>1. Legible(s) \in SUBSET (1 .. Len(s))
  BY LegibleType
<1> QED
  BY <1>1, AppendLegible

\* Two logs with the same legible pages.
LEMMA SameLegible ==
  ASSUME NEW s \in PageLog, NEW t \in PageLog, Climbs(s),
         Legible(t) = Legible(s), \A k \in Legible(s) : t[k] = s[k]
  PROVE  /\ Climbs(t)
         /\ Whole(t) <=> Whole(s)
         /\ Whole(s) => TableIn(t) = TableIn(s)
<1>1. Climbs(t)
  BY DEF Climbs
<1>2. Whole(t) <=> Whole(s)
  BY DEF Whole
<1>3. ASSUME Whole(s) PROVE TableIn(t) = TableIn(s)
  <2>1. ASSUME NEW e \in Area PROVE TableIn(t)[e] = TableIn(s)[e]
    <3> DEFINE o == MAP_OFFSET(e)
    <3> DEFINE k == LastOf(s, o)
    <3>1. o \in MapOffsets
      BY MapOffsetType
    <3>2. /\ k \in Legible(s) /\ s[k].off = o
          /\ \A m \in Legible(s) : s[m].off = o => s[m].seq <= s[k].seq
      BY <1>3, <3>1, LastOfType
    <3>3. LastOf(t, t[k].off) = k
      <4> HIDE DEF k, o
      <4> QED
        BY <1>1, <3>2, LastOfIs
    <3>4. LastOf(t, o) = k /\ t[k] = s[k]
      BY <3>2, <3>3
    <3> QED
      BY <3>4 DEF TableIn
  <2> QED
    BY <2>1 DEF TableIn
<1> QED
  BY <1>1, <1>2, <1>3

\* A legible page that climbs over a legible log.
LEMMA AppendRead ==
  ASSUME NEW s \in PageLog, NEW pg \in MapPage, Legible(s) = 1 .. Len(s),
         Climbs(s), \A k \in Legible(s) : s[k].seq < pg.seq
  PROVE  /\ Clean(Append(s, pg), Len(s) + 1)
         /\ Climbs(Append(s, pg))
         /\ LastOf(Append(s, pg), pg.off) = Len(s) + 1
         /\ \A e \in Area : MAP_OFFSET(e) = pg.off => TableIn(Append(s, pg))[e] = pg.tab[e]
         /\ Whole(s) => /\ Whole(Append(s, pg))
                        /\ \A e \in Area : MAP_OFFSET(e) # pg.off =>
                              TableIn(Append(s, pg))[e] = TableIn(s)[e]
<1> DEFINE t == Append(s, pg)
<1> DEFINE n == Len(s) + 1
<1>0. n \in Nat /\ Len(s) \in Nat
  BY LegibleType
<1>1. pg # TORN
  BY MapPageFields DEF TORN
<1>2. /\ t \in PageLog /\ Len(t) = n /\ t[n] = pg
      /\ \A k \in Legible(s) : t[k] = s[k]
      /\ Legible(t) = Legible(s) \cup {n}
      /\ Legible(t) = 1 .. n
  <2>1. (1 .. Len(s)) \cup {n} = 1 .. n
    BY <1>0
  <2>2. pg \in MapPage \cup {TORN}
    OBVIOUS
  <2>3. /\ t \in PageLog /\ Len(t) = n /\ t[n] = pg
        /\ \A k \in 1 .. Len(s) : t[k] = s[k]
        /\ Legible(t) = Legible(s) \cup {n}
    BY <1>1, <2>2, AppendLegible
  <2> QED
    BY <2>1, <2>3
<1>3. \A k \in Legible(s) : k \in Nat /\ k < n
  BY <1>0
<1>4. pg.seq \in Nat /\ pg.off \in MapOffsets /\ \A k \in Legible(s) : s[k].seq \in Nat
  BY MapPageFields, LegibleType
<1> HIDE DEF t, n
<1>5. Climbs(t)
  <2> SUFFICES ASSUME NEW k \in Legible(t), NEW m \in Legible(t), k < m
               PROVE  t[k].seq < t[m].seq
    BY DEF Climbs
  <2>1. CASE m = n
    <3>1. k \in Legible(s)
      BY <1>0, <1>2, <2>1
    <3> QED
      BY <1>2, <2>1, <3>1
  <2>2. CASE m \in Legible(s)
    <3>1. k \in Legible(s)
      BY <1>0, <1>2, <1>3, <2>2
    <3> QED
      BY <1>2, <2>2, <3>1 DEF Climbs
  <2> QED
    BY <1>2, <2>1, <2>2
<1>6. LastOf(t, pg.off) = n
  <2>1. \A m \in Legible(t) : t[m].seq <= t[n].seq
    BY <1>2, <1>4
  <2>2. LastOf(t, t[n].off) = n
    BY <1>2, <1>5, <2>1, LastOfIs
  <2> QED
    BY <1>2, <2>2
<1>7. ASSUME NEW e \in Area, MAP_OFFSET(e) = pg.off PROVE TableIn(t)[e] = pg.tab[e]
  BY <1>2, <1>6, <1>7 DEF TableIn
<1>8. ASSUME Whole(s) PROVE Whole(t)
  BY <1>2, <1>8 DEF Whole
<1>9. ASSUME Whole(s), NEW e \in Area, MAP_OFFSET(e) # pg.off
      PROVE  TableIn(t)[e] = TableIn(s)[e]
  <2> DEFINE o == MAP_OFFSET(e)
  <2> DEFINE k == LastOf(s, o)
  <2>1. /\ k \in Legible(s) /\ s[k].off = o
        /\ \A m \in Legible(s) : s[m].off = o => s[m].seq <= s[k].seq
    BY <1>9, MapOffsetType, LastOfType
  <2>2. o # pg.off
    BY <1>9
  <2>3. LastOf(t, o) = k
    <3> HIDE DEF k, o
    <3>1. k \in Legible(t) /\ t[k] = s[k]
      BY <1>2, <2>1
    <3>2. \A m \in Legible(t) : t[m].off = t[k].off => t[m].seq <= t[k].seq
      BY <1>2, <2>1, <2>2, <3>1
    <3>3. LastOf(t, t[k].off) = k
      BY <1>2, <1>5, <3>1, <3>2, LastOfIs
    <3> QED
      BY <2>1, <3>1, <3>3
  <2>4. t[k] = s[k]
    BY <1>2, <2>1
  <2> QED
    BY <2>3, <2>4 DEF TableIn
<1> QED
  BY <1>2, <1>5, <1>6, <1>7, <1>8, <1>9 DEF Clean, t, n

\* The log that a save of the whole table leaves: its k-th page is the image
\* of segment k - 1.
InTurn(s, T) == \A k \in 1 .. Len(s) :
                  /\ s[k] # TORN
                  /\ s[k].off = k - 1
                  /\ s[k].tab = [e \in Segment(k - 1) |-> T[e]]

LEMMA InTurnTable ==
  ASSUME NEW s \in PageLog, NEW T \in [Area -> Entry], Climbs(s), InTurn(s, T)
  PROVE  /\ Legible(s) = 1 .. Len(s)
         /\ Len(s) <= NumMapPages
         /\ Whole(s) <=> Len(s) = NumMapPages
         /\ Whole(s) => TableIn(s) = T
<1>0. Len(s) \in Nat /\ NumMapPages \in Nat
  BY LegibleType, NumMapPagesType
<1>1. Legible(s) = 1 .. Len(s)
  <2>1. \A k \in 1 .. Len(s) : s[k] # TORN
    BY DEF InTurn
  <2>2. \A k \in 1 .. Len(s) : \A m \in 1 .. k : m \in 1 .. Len(s)
    BY <1>0
  <2> QED
    BY <2>1, <2>2 DEF Legible
<1>2. ASSUME NEW k \in 1 .. Len(s) PROVE s[k].off = k - 1 /\ k - 1 \in MapOffsets
  <2>1. s[k].off = k - 1
    BY DEF InTurn
  <2> QED
    BY <1>1, <2>1, LegibleType
<1>3. Len(s) <= NumMapPages
  <2>1. CASE Len(s) = 0
    BY <1>0, <2>1
  <2>2. CASE Len(s) \in 1 .. Len(s)
    <3>1. Len(s) - 1 \in 0 .. NumMapPages - 1
      BY <1>2, <2>2 DEF MapOffsets
    <3> QED
      BY <1>0, <3>1
  <2> QED
    BY <1>0, <2>1, <2>2
<1>4. ASSUME Len(s) = NumMapPages PROVE Whole(s)
  <2> SUFFICES ASSUME NEW o \in MapOffsets PROVE \E k \in Legible(s) : s[k].off = o
    BY DEF Whole
  <2>1. o + 1 \in 1 .. Len(s)
    BY <1>0, <1>4 DEF MapOffsets
  <2>2. s[o + 1].off = (o + 1) - 1 /\ (o + 1) - 1 = o
    BY <1>0, <1>2, <2>1 DEF MapOffsets
  <2> QED
    BY <1>1, <2>1, <2>2
<1>5. ASSUME Whole(s) PROVE Len(s) = NumMapPages
  <2>1. NumMapPages - 1 \in MapOffsets
    BY NumMapPagesType DEF MapOffsets
  <2>2. PICK k \in Legible(s) : s[k].off = NumMapPages - 1
    BY <1>5, <2>1 DEF Whole
  <2>3. k \in 1 .. Len(s) /\ k - 1 = NumMapPages - 1
    BY <1>1, <1>2, <2>2
  <2> QED
    BY <1>0, <1>3, <2>3
<1>6. ASSUME Whole(s) PROVE TableIn(s) = T
  <2>1. ASSUME NEW e \in Area PROVE TableIn(s)[e] = T[e]
    <3> DEFINE k == LastOf(s, MAP_OFFSET(e))
    <3>1. k \in Legible(s) /\ s[k].off = MAP_OFFSET(e) /\ TableIn(s)[e] = s[k].tab[e]
      BY <1>6, TableInType
    <3>2. k \in 1 .. Len(s) /\ k - 1 = MAP_OFFSET(e) /\ s[k].tab = [f \in Segment(k - 1) |-> T[f]]
      <4> HIDE DEF k
      <4> QED
        BY <1>1, <3>1 DEF InTurn
    <3>3. e \in Segment(k - 1)
      BY <3>2 DEF Segment
    <3> QED
      BY <3>1, <3>2, <3>3
  <2> QED
    BY <2>1, TableInType, <1>6
<1> QED
  BY <1>1, <1>3, <1>4, <1>5, <1>6

----------------------------------------------------------------------------
(* The table: no user block has two entries.                               *)

LEMMA SwappingBlockIs ==
  ASSUME NEW T, NEW u
  PROVE  /\ (\A e \in Area : T[e] # u) => BM_GetSwappingBlock(T, u) = u
         /\ (\E e \in Area : T[e] = u) =>
              BM_GetSwappingBlock(T, u) \in Area /\ T[BM_GetSwappingBlock(T, u)] = u
<1> DEFINE E == {e \in Area : T[e] = u}
<1>1. E \in SUBSET Area
  OBVIOUS
<1>2. BM_GetSwappingBlock(T, u) = IF E = {} THEN u ELSE Highest(E)
  BY DEF BM_GetSwappingBlock
<1>3. E # {} => Highest(E) \in E
  <2> HIDE DEF E
  <2>1. IsFiniteSet(E)
    BY <1>1, AreaNumbers, FS_Subset
  <2>2. E \subseteq Int
    BY <1>1, AreaNumbers
  <2> QED
    BY <2>1, <2>2, HighestType
<1> QED
  BY <1>2, <1>3

Unique(T) == \A e, f \in Area : T[e] = T[f] /\ T[e] \in User => e = f

\* The user block that a call is about to enter has no entry yet.
BadHasNoEntry ==
  /\ Phase \in {"get_free", "erase_new", "copy", "register"} /\ op.bad \in User =>
       \A e \in Area : SwapTable[e] # op.bad
  /\ Phase = "install" /\ op.org \in User => \A e \in Area : SwapTable[e] # op.org

TableInv == Unique(SwapTable) /\ BadHasNoEntry

\* A table made from another by changing some entries to special ones.
Thins(T, U) == \A e \in Area : U[e] = T[e] \/ U[e] \in {FREE, MAP, BAD}

LEMMA ThinsKeeps ==
  ASSUME NEW T, NEW U, Thins(T, U)
  PROVE  /\ Unique(T) => Unique(U)
         /\ \A u \in User : (\A e \in Area : T[e] # u) => \A e \in Area : U[e] # u
BY SpecialEntries DEF Thins, Unique

LEMMA ThinsTableInv ==
  ASSUME TypeInv, TableInv, Thins(SwapTable, SwapTable'),
         \/ Phase' = Phase /\ UNCHANGED op
         \/ /\ Phase \in {"get_free", "erase_new", "copy", "register"}
            /\ Phase' \in {"get_free", "erase_new", "copy", "register"}
            /\ op'.bad = op.bad
         \/ Phase' \notin {"get_free", "erase_new", "copy", "register", "install"}
  PROVE  TableInv'
<1>1. Unique(SwapTable')
  BY ThinsKeeps DEF TableInv
<1>2. BadHasNoEntry'
  BY ThinsKeeps DEF TableInv, BadHasNoEntry
<1> QED
  BY <1>1, <1>2 DEF TableInv

\* One entry gets a user block that has none.
LEMMA EntryKeepsUnique ==
  ASSUME NEW T \in [Area -> Entry], Unique(T), NEW e \in Area, NEW u,
         u \in User => \A f \in Area : T[f] # u
  PROVE  Unique([T EXCEPT ![e] = u])
BY DEF Unique

LEMMA ReplaceMapBlockThins ==
  ASSUME TypeInv, NEW b \in Area, NEW sav, sav.next = save.next, Saving,
         ReplaceMapBlock(b, sav)
  PROVE  /\ Thins(SwapTable, SwapTable')
         /\ \/ Phase' = Phase /\ UNCHANGED op /\ pc' = "erase_map"
            \/ Phase' \in {"idle", "dead"} /\ FreeBlockList' = {}
               /\ pc' \in {"idle", "dead"}
<1> USE DEF TypeInv, TypeOK, RamTypes
<1>1. CASE /\ FreeBlockList = {}
           /\ SwapTable' = [SwapTable EXCEPT ![b] = BAD]
           /\ UNCHANGED <<FreeBlockList, MapBlock>>
           /\ Abort
  BY <1>1 DEF Thins, Abort, Phase, Saving
<1>2. CASE /\ FreeBlockList # {}
           /\ LET new == Lowest(FreeBlockList)
              IN  /\ SwapTable' = Retired(b, new)
                  /\ FreeBlockList' = FreeBlockList \ {new}
                  /\ MapBlock' = [MapBlock EXCEPT ![CurMapBlockIdx] = new]
           /\ pc' = "erase_map"
           /\ save' = sav
           /\ UNCHANGED <<op, hist>>
  <2>1. Thins(SwapTable, SwapTable')
    BY <1>2 DEF Thins, Retired
  <2>2. Phase' = Phase
    BY <1>2 DEF Phase, Saving
  <2> QED
    BY <1>2, <2>1, <2>2
<1> QED
  BY <1>1, <1>2 DEF ReplaceMapBlock

LEMMA MapStepTable ==
  ASSUME TypeInv, TableInv, EraseMap \/ MarkMap \/ WriteAll \/ WriteOne \/ MarkDelayed
  PROVE  TableInv'
<1> USE DEF TypeInv, TypeOK
<1>1. Saving /\ MapTarget \in Area
  BY MapTargetType DEF EraseMap, MarkMap, WriteAll, WriteOne, MarkDelayed, Saving
<1>2. ASSUME UNCHANGED SwapTable PROVE Thins(SwapTable, SwapTable')
  BY <1>2 DEF Thins
<1>3. CASE EraseMap
  <2>1. Phase' = Phase
    BY <1>3 DEF EraseMap, Phase, Saving, CallTypes
  <2> QED
    BY <1>2, <1>3, <2>1, ThinsTableInv DEF EraseMap, ram
<1>4. CASE MarkMap
  BY <1>1, <1>4, ReplaceMapBlockThins, ThinsTableInv DEF MarkMap
<1>5. CASE WriteAll
  <2>1. Phase' = Phase
    BY <1>5 DEF WriteAll, SaveEnds, Phase, Saving, CallTypes
  <2> QED
    BY <1>2, <1>5, <2>1, ThinsTableInv DEF WriteAll
<1>6. CASE WriteOne
  <2>1. CASE SaveEnds /\ UNCHANGED <<SwapTable, FreeBlockList, MapBlock, save, op, hist>>
    <3>1. Phase' = Phase
      BY <1>1, <2>1 DEF SaveEnds, Phase, Saving, CallTypes
    <3> QED
      BY <1>2, <2>1, <3>1, ThinsTableInv
  <2>2. CASE RetireCurrent
    <3>1. [save EXCEPT !.delayed = MapTarget].next = save.next
      BY DEF CallTypes
    <3> QED
      BY <1>1, <2>2, <3>1, ReplaceMapBlockThins, ThinsTableInv DEF RetireCurrent
  <2> QED
    BY <1>6, <2>1, <2>2 DEF WriteOne
<1>7. CASE MarkDelayed
  <2>1. Phase' = Phase
    BY <1>7 DEF MarkDelayed, Phase, Saving, CallTypes
  <2> QED
    BY <1>2, <1>7, <2>1, ThinsTableInv DEF MarkDelayed, ram
<1> QED
  BY <1>3, <1>4, <1>5, <1>6, <1>7

LEMMA NewBlockTable ==
  ASSUME TypeInv, TableInv, GetFreeBlock \/ EraseNew \/ CopyPages PROVE TableInv'
<1> USE DEF TypeInv, TypeOK
<1>1. Phase \in {"get_free", "erase_new", "copy"}
  BY DEF GetFreeBlock, EraseNew, CopyPages, Phase, Saving
<1>2. CASE NoFreeBlock /\ UNCHANGED SwapTable
  <2>1. Phase' \in {"idle", "dead"}
    BY <1>2 DEF NoFreeBlock, Abort, Phase, Saving
  <2>2. Thins(SwapTable, SwapTable')
    BY <1>2 DEF Thins
  <2> QED
    BY <2>1, <2>2, ThinsTableInv
<1>3. CASE /\ UNCHANGED SwapTable
           /\ op'.bad = op.bad
           /\ pc' \in {"erase_new", "copy", "register"}
  <2>1. Phase' \in {"erase_new", "copy", "register"}
    BY <1>3 DEF Phase, Saving
  <2>2. Thins(SwapTable, SwapTable')
    BY <1>3 DEF Thins
  <2> QED
    BY <1>1, <1>3, <2>1, <2>2, ThinsTableInv
<1>4. CASE RejectNewBlock
  <2>1. Phase' = "get_free" /\ op' = op
        /\ SwapTable' = [SwapTable EXCEPT ![op.new] = BAD]
    BY <1>4, StartSavePhase DEF RejectNewBlock
  <2>2. Thins(SwapTable, SwapTable')
    BY <2>1 DEF Thins, RamTypes
  <2> QED
    BY <1>1, <2>1, <2>2, ThinsTableInv
<1>5. CASE GetFreeBlock
  <2>1. pc' = AfterGetFree /\ op' = [op EXCEPT !.new = Highest(FreeBlockList)] =>
          op'.bad = op.bad /\ pc' \in {"erase_new", "copy", "register"}
    BY DEF CallTypes, AfterGetFree
  <2> QED
    BY <1>2, <1>3, <1>5, <2>1 DEF GetFreeBlock
<1> QED
  BY <1>3, <1>4, <1>5 DEF EraseNew, CopyPages, ram

LEMMA RegisterTable ==
  ASSUME TypeInv, TableInv, Register \/ InstallOriginal PROVE TableInv'
<1> USE DEF TypeInv, TypeOK, RamTypes
<1>1. op.new \in Area /\ Phase \in {"register", "install"}
  BY DEF Register, InstallOriginal, Phase, Saving, CallShape
<1>2. ASSUME NEW T, Install(T), Unique(T) PROVE TableInv'
  <2>1. Phase' = "done" /\ SwapTable' = T
    BY <1>2, StartSavePhase DEF Install
  <2> QED
    BY <1>2, <2>1 DEF TableInv, BadHasNoEntry
<1>3. CASE op.bad \in User /\ Register
  <2>1. \A e \in Area : SwapTable[e] # op.bad
    BY <1>3 DEF TableInv, BadHasNoEntry, Register, Phase, Saving
  <2>2. Unique([SwapTable EXCEPT ![op.new] = op.bad])
    BY <1>1, <2>1, EntryKeepsUnique DEF TableInv
  <2>3. op.bad \notin Area
    BY <1>3, AreaNumbers
  <2> QED
    BY <1>2, <1>3, <2>2, <2>3 DEF Register
<1>4. CASE op.bad \in Area /\ Install(Moved)
  <2>1. Unique(Moved)
    BY <1>1, <1>4, SpecialEntries DEF TableInv, Unique, Moved
  <2> QED
    BY <1>2, <1>4, <2>1
<1>5. CASE /\ op.bad \in Area
           /\ op' = [op EXCEPT !.org = SwapTable[op.bad]]
           /\ SwapTable' = [SwapTable EXCEPT ![op.bad] = BAD]
           /\ StartSave(MAP_OFFSET(op.bad), "install")
  <2>1. Phase' = "install" /\ op'.org = SwapTable[op.bad]
    BY <1>5, StartSavePhase DEF CallTypes
  <2>2. Unique(SwapTable')
    BY <1>5, SpecialEntries DEF TableInv, Unique
  <2>3. op'.org \in User => \A e \in Area : SwapTable'[e] # op'.org
    BY <1>5, <2>1, SpecialEntries DEF TableInv, Unique
  <2> QED
    BY <2>1, <2>2, <2>3 DEF TableInv, BadHasNoEntry
<1>6. CASE InstallOriginal
  <2>1. op.org \in User => \A e \in Area : SwapTable[e] # op.org
    BY <1>6 DEF TableInv, BadHasNoEntry, InstallOriginal, Phase, Saving
  <2>2. Unique([SwapTable EXCEPT ![op.new] = op.org])
    BY <1>1, <2>1, EntryKeepsUnique DEF TableInv
  <2> QED
    BY <1>2, <1>6, <2>2 DEF InstallOriginal
<1> QED
  BY <1>3, <1>4, <1>5, <1>6 DEF Register

\* The n-th bad user block gets the n-th free entry: two entries have not as
\* many free ones above them.
LEMMA FormatUnique == Unique(FormatTable)
<1> DEFINE spare == (Area \ marked) \ {NewMapBlocks[1], NewMapBlocks[2]}
<1> DEFINE Over(e) == {f \in spare : f > e}
<1> DEFINE Takes(e, u) == Cardinality({v \in InitialBad : v < u}) = Cardinality(Over(e))
<1>1. FormatTable =
        [e \in Area |-> IF e \in marked THEN BAD
                        ELSE IF e \notin spare THEN MAP
                        ELSE IF \E u \in InitialBad : Takes(e, u)
                             THEN CHOOSE u \in InitialBad : Takes(e, u)
                             ELSE FREE]
  BY DEF FormatTable
<1>2. ASSUME NEW e \in Area, FormatTable[e] \in User
      PROVE  e \in spare /\ Takes(e, FormatTable[e])
  <2> HIDE DEF Takes, spare
  <2> QED
    BY <1>1, <1>2, SpecialEntries
<1>3. ASSUME NEW e \in spare, NEW f \in spare, e < f
      PROVE  Cardinality(Over(e)) # Cardinality(Over(f))
  <2>1. spare \in SUBSET Area /\ IsFiniteSet(spare) /\ spare \subseteq Nat
    BY AreaNumbers, FS_Subset
  <2> HIDE DEF spare
  <2>2. Over(e) \in SUBSET spare /\ IsFiniteSet(Over(e))
    BY <2>1, FS_Subset
  <2>3. Over(f) \in SUBSET Over(e) /\ f \in Over(e) /\ f \notin Over(f)
    <3>1. e \in Nat /\ f \in Nat
      BY <2>1
    <3>2. \A g \in spare : g > f => g > e
      BY <1>3, <2>1, <3>1
    <3>3. Over(f) \subseteq Over(e)
      BY <3>2
    <3>4. f \in Over(e) /\ f \notin Over(f)
      BY <1>3, <3>1
    <3> QED
      BY <3>3, <3>4
  <2>4. IsFiniteSet(Over(f)) /\ Cardinality(Over(f)) < Cardinality(Over(e))
    <3> HIDE DEF Over
    <3>1. Over(f) # Over(e)
      BY <2>3
    <3> QED
      BY <2>2, <2>3, <3>1, FS_Subset, FS_CardinalityType
  <2>5. Cardinality(Over(e)) \in Nat /\ Cardinality(Over(f)) \in Nat
    BY <2>2, <2>4, FS_CardinalityType
  <2> QED
    BY <2>4, <2>5
<1>4. ASSUME NEW e \in Area, NEW f \in Area, FormatTable[e] = FormatTable[f],
             FormatTable[e] \in User
      PROVE  e = f
  <2>1. e \in spare /\ f \in spare /\ Cardinality(Over(e)) = Cardinality(Over(f))
    BY <1>2, <1>4
  <2>2. ~ (e < f) /\ ~ (f < e)
    <3> HIDE DEF Over
    <3> QED
      BY <1>3, <2>1
  <2> QED
    BY <2>2, AreaNumbers
<1> QED
  BY <1>4 DEF Unique

----------------------------------------------------------------------------
(* The logs of the map blocks, and how far they follow the table.          *)

\* A call whose next save continues the log of the current map block.  After
\* one that gave up a map block for want of a spare, no call ever saves again.
Listening ==
  \/ pc \in {"idle", "get_free"} /\ FreeBlockList # {}
  \/ pc \in {"erase_new", "copy", "register", "install", "mark_delayed", "done"}

GoodLog(s) == Climbs(s) /\ (Whole(s) => Unique(TableIn(s)))
LogsClimb  == \A b \in Area : GoodLog(pages[b])

Rewritten ==
  pc = "write_all" => /\ Len(pages[MapTarget]) = save.page
                      /\ InTurn(pages[MapTarget], SwapTable)
                      /\ Below(pages[MapTarget], Sequence)

Overtaken ==
  pc = "write_one" /\ Clean(pages[MapTarget], CurMapPageNum) =>
    /\ Whole(pages[MapTarget])
    /\ Below(pages[MapTarget], Sequence)
    /\ \A e \in Area : MAP_OFFSET(e) # save.off =>
         TableIn(pages[MapTarget])[e] = SwapTable[e]

Followed ==
  Listening /\ CurMapPageNum < PagesPerBlock - 1
            /\ Clean(pages[MapTarget], CurMapPageNum + 1) =>
    /\ Whole(pages[MapTarget])
    /\ Below(pages[MapTarget], Sequence)
    /\ TableIn(pages[MapTarget]) = SwapTable

LogInv == LogsClimb /\ Rewritten /\ Overtaken /\ Followed

LEMMA AreaLogs ==
  ASSUME TypeInv, NEW b \in Area
  PROVE  pages[b] \in PageLog /\ pages[MapTarget] \in PageLog /\ b \in Block
BY MapTargetType DEF TypeInv, TypeOK, FlashTypes, PageLog, Block

\* A flash operation that leaves nothing more to read in the block.
Spoils(b) ==
  \/ UNCHANGED pages
  \/ \E img \in {pages[b], << >>, <<TORN>>, Append(pages[b], TORN)} :
       pages' = [pages EXCEPT ![b] = img]

LEMMA SpoilingOperations ==
  ASSUME NEW b \in Block
  PROVE  /\ EraseOk(b) => Spoils(b)
         /\ EraseFail(b) => Spoils(b)
         /\ CutErase(b) => Spoils(b)
         /\ Programmed(b, TORN) => Spoils(b)
BY DEF EraseOk, EraseFail, CutErase, Programmed, EraseTo, Spoils

\* The same pages can be read, or none.
LogKept(b) == /\ Legible(pages'[b]) = Legible(pages[b])
              /\ \A k \in Legible(pages[b]) : pages'[b][k] = pages[b][k]
LogGone(b) == Legible(pages'[b]) = {}

\* The logs that are still as they were.
LogsHold == \A c \in Area : \A p \in Nat \ {0} : Clean(pages'[c], p) => pages'[c] = pages[c]

LEMMA SpoilsLogs ==
  ASSUME TypeInv, LogsClimb, NEW b \in Block, Spoils(b)
  PROVE  LogsClimb' /\ LogsHold /\ \A c \in Area : LogKept(c) \/ LogGone(c)
<1>1. SUFFICES ASSUME NEW c \in Area
               PROVE  /\ GoodLog(pages'[c])
                      /\ LogKept(c) \/ LogGone(c)
                      /\ \A p \in Nat \ {0} : Clean(pages'[c], p) => pages'[c] = pages[c]
  BY DEF LogsClimb, LogsHold
<1>2. pages[c] \in PageLog /\ GoodLog(pages[c])
  BY AreaLogs DEF LogsClimb
<1>3. CASE pages'[c] = pages[c]
  BY <1>2, <1>3 DEF LogKept
<1>4. CASE pages'[c] \in {<< >>, <<TORN>>}
  <2>1. Legible(pages'[c]) = {} /\ GoodLog(pages'[c])
    BY <1>4, EmptyLog DEF GoodLog
  <2>2. \A p \in Nat \ {0} : p \in 1 .. p
    OBVIOUS
  <2> QED
    BY <2>1, <2>2 DEF Clean, LogGone
<1>5. CASE pages'[c] = Append(pages[c], TORN)
  <2> DEFINE s == pages[c]
  <2> DEFINE t == Append(s, TORN)
  <2> HIDE DEF s
  <2>0. s \in PageLog /\ GoodLog(s)
    BY <1>2 DEF s
  <2>1. /\ t \in PageLog /\ Len(t) = Len(s) + 1
        /\ Legible(t) = Legible(s) /\ \A k \in Legible(s) : t[k] = s[k]
    <3>1. t \in PageLog /\ Len(t) = Len(s) + 1
      BY <2>0, AppendLegible
    <3>2. Legible(t) = Legible(s) /\ \A k \in Legible(s) : t[k] = s[k]
      BY <2>0, AppendUnread
    <3> QED
      BY <3>1, <3>2
  <2> HIDE DEF t
  <2>2. GoodLog(t)
    BY <2>0, <2>1, SameLegible DEF GoodLog
  <2>3. ASSUME NEW p \in Nat \ {0}, Clean(t, p) PROVE FALSE
    <3>1. Len(s) \in Nat /\ Legible(s) \in SUBSET (1 .. Len(s))
      BY <2>0, LegibleType
    <3>2. p = Len(s) + 1 /\ p \in Legible(s)
      BY <2>1, <2>3 DEF Clean
    <3> QED
      BY <3>1, <3>2
  <2> QED
    BY <1>5, <2>1, <2>2, <2>3 DEF s, t, LogKept
<1> QED
  <2>1. \/ pages'[c] = pages[c]
        \/ pages'[c] \in {<< >>, <<TORN>>}
        \/ pages'[c] = Append(pages[c], TORN)
    BY DEF Spoils, TypeInv, TypeOK, FlashTypes, Block
  <2> QED
    BY <1>3, <1>4, <1>5, <2>1

\* A step that neither saves nor starts to.
LEMMA QuietLog ==
  ASSUME TypeInv, LogInv, LogsClimb', LogsHold,
         UNCHANGED <<SwapTable, MapBlock, CurMapBlockIdx, CurMapPageNum, Sequence>>,
         pc' \notin {"write_all", "write_one"}, Listening' => Listening
  PROVE  LogInv'
<1> USE DEF TypeInv, TypeOK
<1>1. MapTarget' = MapTarget /\ MapTarget \in Area
  BY MapTargetType DEF MapTarget
<1>2. Rewritten' /\ Overtaken'
  BY DEF Rewritten, Overtaken
<1>3. Followed'
  <2> SUFFICES ASSUME Listening', CurMapPageNum < PagesPerBlock - 1,
                      Clean(pages'[MapTarget], CurMapPageNum + 1)
               PROVE  /\ Whole(pages'[MapTarget])
                      /\ Below(pages'[MapTarget], Sequence)
                      /\ TableIn(pages'[MapTarget]) = SwapTable
    BY <1>1 DEF Followed
  <2>1. CurMapPageNum + 1 \in Nat \ {0}
    BY GeometryAssumption DEF RamTypes
  <2>2. pages'[MapTarget] = pages[MapTarget]
    BY <1>1, <2>1 DEF LogsHold
  <2> QED
    BY <2>2 DEF LogInv, Followed
<1> QED
  BY <1>2, <1>3 DEF LogInv

LEMMA PageAfterIs ==
  ASSUME TypeInv, PageAfter # 0
  PROVE  /\ CurMapPageNum < PagesPerBlock - 1 /\ PageAfter = CurMapPageNum + 1
         /\ CurMapPageNum + 1 \in Nat \ {0}
<1>1. CurMapPageNum \in 0 .. PagesPerBlock - 1 /\ PagesPerBlock \in Nat \ {0}
  BY GeometryAssumption, NumMapPagesType DEF TypeInv, TypeOK, RamTypes
<1>2. CASE CurMapPageNum = PagesPerBlock - 1
  <2>1. PageAfter = 0
    BY <1>1, <1>2 DEF PageAfter
  <2> QED
    BY <2>1
<1>3. CASE CurMapPageNum # PagesPerBlock - 1
  <2>1. CurMapPageNum + 1 \in 1 .. PagesPerBlock - 1
    BY <1>1, <1>3
  <2>2. \A x \in 1 .. PagesPerBlock - 1 : x % PagesPerBlock = x
    BY <1>1
  <2> QED
    BY <1>1, <1>3, <2>1, <2>2 DEF PageAfter
<1> QED
  BY <1>2, <1>3

\* The next page of the log will have what the table changes.
LEMMA StartSaveLog ==
  ASSUME TypeInv, LogInv, LogsClimb', LogsHold, Listening,
         NEW o \in MapOffsets, NEW next \in {"get_free", "install", "done"},
         StartSave(o, next),
         \A e \in Area : MAP_OFFSET(e) # o => SwapTable'[e] = SwapTable[e]
  PROVE  LogInv'
<1> USE DEF TypeInv, TypeOK
<1>1. pc' \in {"erase_map", "write_one"} /\ save'.off = o
  BY DEF StartSave
<1>2. Rewritten' /\ Followed'
  BY <1>1 DEF Rewritten, Followed, Listening
<1>3. Overtaken'
  <2> SUFFICES ASSUME pc' = "write_one", Clean(pages'[MapTarget'], CurMapPageNum')
               PROVE  /\ Whole(pages'[MapTarget'])
                      /\ Below(pages'[MapTarget'], Sequence')
                      /\ \A e \in Area : MAP_OFFSET(e) # o =>
                           TableIn(pages'[MapTarget'])[e] = SwapTable'[e]
    BY <1>1 DEF Overtaken
  <2>1. PageAfter # 0 /\ MapTarget' = MapTarget /\ MapTarget \in Area
        /\ CurMapPageNum' = PageAfter /\ Sequence' = Sequence
    BY MapTargetType DEF StartSave, MapTarget
  <2>2. CurMapPageNum < PagesPerBlock - 1 /\ PageAfter = CurMapPageNum + 1
        /\ CurMapPageNum + 1 \in Nat \ {0}
    BY <2>1, PageAfterIs
  <2>3. pages'[MapTarget] = pages[MapTarget]
    BY <2>1, <2>2 DEF LogsHold
  <2> QED
    BY <2>1, <2>2, <2>3 DEF LogInv, Followed
<1> QED
  BY <1>2, <1>3 DEF LogInv

LEMMA SilentLog ==
  ASSUME LogsClimb', ~ Listening', pc' \notin {"write_all", "write_one"}
  PROVE  LogInv'
BY DEF LogInv, Rewritten, Overtaken, Followed

LEMMA ProgramLog ==
  ASSUME TypeInv, LogsClimb, NEW b \in Area, NEW pg, Programmed(b, pg),
         GoodLog(Append(pages[b], pg))
  PROVE  LogsClimb' /\ pages'[b] = Append(pages[b], pg)
BY DEF LogsClimb, Programmed, TypeInv, TypeOK, FlashTypes, Block

\* The next page of a map block that is being rewritten.
LEMMA RewriteAppend ==
  ASSUME TypeInv, TableInv, LogInv, pc = "write_all"
  PROVE  LET t == Append(pages[MapTarget], MapPageOf(save.page))
         IN  /\ t \in PageLog
             /\ Len(t) = save.page + 1
             /\ InTurn(t, SwapTable)
             /\ Below(t, Sequence + 1)
             /\ GoodLog(t)
<1> USE DEF TypeInv, TypeOK
<1> DEFINE s == pages[MapTarget]
<1> DEFINE pg == MapPageOf(save.page)
<1> DEFINE t == Append(s, pg)
<1>1. MapTarget \in Area /\ s \in PageLog /\ save.page \in MapOffsets
  BY MapTargetType, AreaLogs DEF CallTypes
<1>2. /\ pg \in MapPage /\ pg.seq = Sequence + 1 /\ pg.off = save.page
      /\ pg.tab = [e \in Segment(save.page) |-> SwapTable[e]]
  BY <1>1, MapPageOfType DEF MapPageOf, ImageOf
<1>3. /\ Len(s) = save.page /\ InTurn(s, SwapTable) /\ Below(s, Sequence)
      /\ GoodLog(s) /\ Climbs(s)
  BY <1>1 DEF LogInv, Rewritten, LogsClimb, GoodLog
<1>4. SwapTable \in [Area -> Entry] /\ Sequence \in Nat
  BY DEF RamTypes
<1>5. Unique(SwapTable)
  BY DEF TableInv
<1> HIDE DEF s, pg
<1>6. Legible(s) = 1 .. Len(s) /\ Len(s) \in Nat
  BY <1>1, <1>3, <1>4, InTurnTable, LegibleType
<1>7. \A k \in Legible(s) : s[k].seq < pg.seq
  BY <1>1, <1>2, <1>3, <1>4, LegibleType DEF Below
<1>8. /\ t \in PageLog /\ Len(t) = Len(s) + 1 /\ t[Len(s) + 1] = pg
      /\ \A k \in 1 .. Len(s) : t[k] = s[k]
  BY <1>1, <1>2, AppendLegible
<1>9. Climbs(t) /\ Legible(t) = 1 .. Len(s) + 1
  BY <1>1, <1>2, <1>3, <1>6, <1>7, AppendRead DEF Clean
<1> HIDE DEF t
<1>10. InTurn(t, SwapTable)
  <2> SUFFICES ASSUME NEW k \in 1 .. Len(t)
               PROVE  /\ t[k] # TORN
                      /\ t[k].off = k - 1
                      /\ t[k].tab = [e \in Segment(k - 1) |-> SwapTable[e]]
    BY DEF InTurn
  <2>1. CASE k \in 1 .. Len(s)
    BY <1>3, <1>8, <2>1 DEF InTurn
  <2>2. CASE k = Len(s) + 1
    <3>1. t[k] = pg /\ k - 1 = save.page
      BY <1>3, <1>6, <1>8, <2>2
    <3>2. pg # TORN
      BY <1>2, <1>4 DEF TORN
    <3> QED
      BY <1>2, <3>1, <3>2
  <2> QED
    BY <1>6, <1>8, <2>1, <2>2
<1>11. Below(t, Sequence + 1)
  <2> SUFFICES ASSUME NEW k \in 1 .. Len(s) + 1 PROVE t[k].seq <= Sequence + 1
    BY <1>9 DEF Below
  <2>1. CASE k = Len(s) + 1
    BY <1>2, <1>4, <1>8, <2>1
  <2>2. CASE k \in 1 .. Len(s)
    <3>1. s[k].seq <= Sequence /\ s[k].seq \in Nat /\ t[k] = s[k]
      BY <1>1, <1>3, <1>6, <1>8, <2>2, LegibleType DEF Below
    <3> QED
      BY <1>4, <3>1
  <2> QED
    BY <1>6, <2>1, <2>2
<1>12. GoodLog(t)
  BY <1>4, <1>5, <1>8, <1>9, <1>10, InTurnTable DEF GoodLog
<1> QED
  BY <1>3, <1>8, <1>10, <1>11, <1>12 DEF s, pg, t

\* The next page of the log of a map block.
LEMMA OvertakeAppend ==
  ASSUME TypeInv, TableInv, LogInv, pc = "write_one", Blank(MapTarget, CurMapPageNum)
  PROVE  LET s == pages[MapTarget]
             t == Append(s, MapPageOf(save.off))
         IN  /\ t \in PageLog
             /\ GoodLog(t)
             /\ Whole(t) => \/ Whole(s) /\ TableIn(t) = TableIn(s)
                            \/ TableIn(t) = SwapTable
             /\ Clean(s, CurMapPageNum) => Clean(t, CurMapPageNum + 1)
             /\ Clean(t, CurMapPageNum + 1) =>
                  /\ Clean(s, CurMapPageNum)
                  /\ Whole(t) /\ Below(t, Sequence + 1) /\ TableIn(t) = SwapTable
<1> USE DEF TypeInv, TypeOK
<1> DEFINE s == pages[MapTarget]
<1> DEFINE pg == MapPageOf(save.off)
<1> DEFINE t == Append(s, pg)
<1>1. MapTarget \in Area /\ s \in PageLog /\ save.off \in MapOffsets /\ Len(s) = CurMapPageNum
  BY MapTargetType, AreaLogs DEF CallTypes, Blank
<1>2. /\ pg \in MapPage /\ pg.seq = Sequence + 1 /\ pg.off = save.off
      /\ pg.tab = [e \in Segment(save.off) |-> SwapTable[e]]
  BY <1>1, MapPageOfType DEF MapPageOf, ImageOf
<1>3. GoodLog(s) /\ Climbs(s)
  BY <1>1 DEF LogInv, LogsClimb, GoodLog
<1>4. SwapTable \in [Area -> Entry] /\ Sequence \in Nat /\ Unique(SwapTable)
  BY DEF RamTypes, TableInv
<1>5. Clean(s, CurMapPageNum) =>
        /\ Whole(s) /\ Below(s, Sequence)
        /\ \A e \in Area : MAP_OFFSET(e) # save.off => TableIn(s)[e] = SwapTable[e]
  BY DEF LogInv, Overtaken
<1> HIDE DEF s, pg
<1>6. /\ t \in PageLog /\ Len(t) = Len(s) + 1 /\ Len(s) \in Nat
      /\ Legible(s) \in SUBSET (1 .. Len(s))
  BY <1>1, <1>2, AppendLegible, LegibleType
<1>7. CASE Legible(s) # 1 .. Len(s)
  <2>1. Legible(t) = Legible(s) /\ \A k \in Legible(s) : t[k] = s[k]
    BY <1>1, <1>2, <1>7, AppendUnread
  <2> HIDE DEF t
  <2>2. /\ GoodLog(t)
        /\ Whole(t) => Whole(s) /\ TableIn(t) = TableIn(s)
        /\ ~ Clean(s, CurMapPageNum)
    BY <1>1, <1>3, <1>6, <1>7, <2>1, SameLegible DEF GoodLog, Clean
  <2>3. ~ Clean(t, CurMapPageNum + 1)
    <3> SUFFICES ASSUME Legible(s) = 1 .. CurMapPageNum + 1 PROVE FALSE
      BY <2>1 DEF Clean
    <3>1. Len(s) + 1 \in Legible(s)
      BY <1>1, <1>6
    <3> QED
      BY <1>6, <3>1
  <2> QED
    BY <1>6, <2>2, <2>3 DEF s, pg, t
<1>8. CASE Legible(s) = 1 .. Len(s)
  <2>1. Clean(s, CurMapPageNum)
    BY <1>1, <1>8 DEF Clean
  <2>2. \A k \in Legible(s) : s[k].seq < pg.seq
    BY <1>1, <1>2, <1>4, <1>5, <2>1, LegibleType DEF Below
  <2>3. /\ Clean(t, Len(s) + 1) /\ Climbs(t) /\ Whole(t)
        /\ \A e \in Area : MAP_OFFSET(e) = save.off => TableIn(t)[e] = pg.tab[e]
        /\ \A e \in Area : MAP_OFFSET(e) # save.off => TableIn(t)[e] = TableIn(s)[e]
    BY <1>1, <1>2, <1>3, <1>5, <1>8, <2>1, <2>2, AppendRead
  <2>4. TableIn(t) = SwapTable
    <3>1. ASSUME NEW e \in Area PROVE TableIn(t)[e] = SwapTable[e]
      <4>1. CASE MAP_OFFSET(e) = save.off
        <5>1. e \in Segment(save.off)
          BY <4>1 DEF Segment
        <5> QED
          BY <1>2, <2>3, <4>1, <5>1
      <4>2. CASE MAP_OFFSET(e) # save.off
        BY <1>5, <2>1, <2>3, <4>2
      <4> QED
        BY <4>1, <4>2
    <3> HIDE DEF t
    <3> QED
      BY <1>4, <1>6, <2>3, <3>1, TableInType
  <2>5. Below(t, Sequence + 1)
    <3> SUFFICES ASSUME NEW k \in Legible(t) PROVE t[k].seq <= Sequence + 1
      BY DEF Below
    <3>1. /\ t[Len(s) + 1] = pg
          /\ \A m \in 1 .. Len(s) : t[m] = s[m]
      BY <1>1, <1>2, AppendLegible
    <3>2. k \in 1 .. Len(s) + 1
      BY <2>3 DEF Clean
    <3> HIDE DEF t
    <3>3. CASE k = Len(s) + 1
      BY <1>2, <1>4, <3>1, <3>3
    <3>4. CASE k \in 1 .. Len(s)
      <4>1. s[k].seq <= Sequence /\ s[k].seq \in Nat /\ t[k] = s[k]
        BY <1>1, <1>5, <1>8, <2>1, <3>1, <3>4, LegibleType DEF Below
      <4> QED
        BY <1>4, <4>1
    <3> QED
      BY <1>6, <3>2, <3>3, <3>4
  <2> HIDE DEF t
  <2>6. GoodLog(t)
    BY <1>4, <2>3, <2>4 DEF GoodLog
  <2> QED
    BY <1>1, <1>6, <2>1, <2>3, <2>4, <2>5, <2>6 DEF s, pg, t
<1> QED
  BY <1>7, <1>8

\* What a failed program leaves is a log too.
LEMMA FailedWriteLog ==
  ASSUME TypeInv, LogsClimb, NEW o,
         Blank(MapTarget, CurMapPageNum) \/ pc = "write_all" =>
           GoodLog(Append(pages[MapTarget], MapPageOf(o))),
         \/ pc = "write_one" /\ WriteMapPageFails(MapTarget, CurMapPageNum, o)
         \/ pc = "write_all" /\ WriteMapPageFails(MapTarget, save.page, o)
  PROVE  LogsClimb'
<1>1. MapTarget \in Area /\ MapTarget \in Block
  BY MapTargetType DEF TypeInv, TypeOK
<1>2. CASE UNCHANGED flash
  BY <1>2 DEF LogsClimb, flash
<1>3. CASE Programmed(MapTarget, TORN)
  BY <1>1, <1>3, SpoilingOperations, SpoilsLogs
<1>4. CASE /\ Programmed(MapTarget, MapPageOf(o))
           /\ Blank(MapTarget, CurMapPageNum) \/ pc = "write_all"
  BY <1>1, <1>4, ProgramLog
<1> QED
  BY <1>2, <1>3, <1>4 DEF WriteMapPageFails, ProgramFail

LEMMA WriteAllLog ==
  ASSUME TypeInv, TableInv, LogInv, WriteAll PROVE LogInv'
<1> USE DEF TypeInv, TypeOK
<1> DEFINE s == pages[MapTarget]
<1> DEFINE t == Append(s, MapPageOf(save.page))
<1>1. pc = "write_all" /\ MapTarget \in Area /\ LogsClimb
  BY MapTargetType DEF WriteAll, LogInv
<1>2. /\ t \in PageLog /\ Len(t) = save.page + 1 /\ InTurn(t, SwapTable)
      /\ Below(t, Sequence + 1) /\ GoodLog(t)
  BY <1>1, RewriteAppend
<1>3. MapTarget' = MapTarget /\ UNCHANGED <<SwapTable, FreeBlockList>>
  BY DEF WriteAll, MapTarget
<1>4. SwapTable \in [Area -> Entry] /\ save.page \in Nat
  BY NumMapPagesType DEF RamTypes, CallTypes, MapOffsets
<1> HIDE DEF t
<1>5. CASE WriteMapPage(MapTarget, save.page, save.page)
  <2>1. LogsClimb' /\ pages'[MapTarget'] = t /\ Sequence' = Sequence + 1
    BY <1>1, <1>2, <1>3, <1>5, ProgramLog DEF WriteMapPage, t
  <2>2. CASE UNCHANGED <<pc, CurMapPageNum>> /\ save' = [save EXCEPT !.page = @ + 1]
    <3>1. save'.page = save.page + 1
      BY <2>2 DEF CallTypes
    <3>2. Rewritten'
      BY <1>2, <1>3, <2>1, <3>1 DEF Rewritten
    <3>3. Overtaken' /\ Followed'
      BY <1>1, <2>2 DEF Overtaken, Followed, Listening
    <3> QED
      BY <2>1, <3>2, <3>3 DEF LogInv
  <2>3. CASE /\ ~ save.page + 1 < NumMapPages
             /\ CurMapPageNum' = save.page /\ SaveEnds /\ UNCHANGED save
    <3>1. pc' \in {"get_free", "install", "done", "format", "mark_delayed"}
      BY <2>3 DEF SaveEnds, CallTypes
    <3>2. Whole(t) /\ TableIn(t) = SwapTable
      <4>1. Len(t) = NumMapPages
        BY <1>2, <1>4, <2>3, NumMapPagesType, InTurnTable DEF GoodLog
      <4> QED
        BY <1>2, <1>4, <4>1, InTurnTable DEF GoodLog
    <3>3. Followed'
      BY <1>2, <1>3, <2>1, <3>2 DEF Followed
    <3>4. Rewritten' /\ Overtaken'
      BY <3>1 DEF Rewritten, Overtaken
    <3> QED
      BY <2>1, <3>3, <3>4 DEF LogInv
  <2>4. CASE pc' = "mark_map"
    BY <2>1, <2>4, SilentLog DEF Listening
  <2> QED
    BY <1>5, <2>2, <2>3, <2>4 DEF WriteAll
<1>6. CASE WriteMapPageFails(MapTarget, save.page, save.page) /\ pc' = "mark_map"
  <2>1. LogsClimb'
    BY <1>1, <1>2, <1>6, FailedWriteLog DEF t
  <2> QED
    BY <1>6, <2>1, SilentLog DEF Listening
<1> QED
  BY <1>5, <1>6 DEF WriteAll

LEMMA WriteOneLog ==
  ASSUME TypeInv, TableInv, LogInv, WriteOne PROVE LogInv'
<1> USE DEF TypeInv, TypeOK
<1> DEFINE s == pages[MapTarget]
<1> DEFINE t == Append(s, MapPageOf(save.off))
<1>1. pc = "write_one" /\ MapTarget \in Area /\ LogsClimb /\ Saving
  BY MapTargetType DEF WriteOne, LogInv, Saving
<1>2. Blank(MapTarget, CurMapPageNum) =>
        /\ t \in PageLog /\ GoodLog(t)
        /\ Clean(t, CurMapPageNum + 1) =>
             Whole(t) /\ Below(t, Sequence + 1) /\ TableIn(t) = SwapTable
  BY <1>1, OvertakeAppend
<1> HIDE DEF t
<1>3. CASE /\ WriteMapPage(MapTarget, CurMapPageNum, save.off)
           /\ SaveEnds
           /\ UNCHANGED <<SwapTable, FreeBlockList, MapBlock, save, op, hist>>
  <2>1. LogsClimb' /\ pages'[MapTarget] = t /\ Sequence' = Sequence + 1
    BY <1>1, <1>2, <1>3, ProgramLog DEF WriteMapPage, t
  <2>2. MapTarget' = MapTarget /\ CurMapPageNum' = CurMapPageNum
    BY <1>3 DEF WriteOne, MapTarget
  <2>3. pc' \in {"get_free", "install", "done", "format", "mark_delayed"}
    BY <1>3 DEF SaveEnds, CallTypes
  <2>4. Followed'
    BY <1>2, <1>3, <2>1, <2>2 DEF Followed, WriteMapPage
  <2>5. Rewritten' /\ Overtaken'
    BY <2>3 DEF Rewritten, Overtaken
  <2> QED
    BY <2>1, <2>4, <2>5 DEF LogInv
<1>4. CASE WriteMapPageFails(MapTarget, CurMapPageNum, save.off) /\ RetireCurrent
  <2>1. LogsClimb'
    BY <1>1, <1>2, <1>4, FailedWriteLog DEF t
  <2>2. [save EXCEPT !.delayed = MapTarget].next = save.next
    BY DEF CallTypes
  <2>3. pc' \in {"erase_map", "idle", "dead"} /\ (pc' = "idle" => FreeBlockList' = {})
    BY <1>1, <1>4, <2>2, ReplaceMapBlockThins DEF RetireCurrent
  <2> QED
    BY <2>1, <2>3, SilentLog DEF Listening
<1> QED
  BY <1>3, <1>4 DEF WriteOne

LEMMA EraseMapLog ==
  ASSUME TypeInv, TableInv, LogInv, EraseMap PROVE LogInv'
<1> USE DEF TypeInv, TypeOK
<1>1. MapTarget \in Area /\ MapTarget \in Block /\ LogsClimb
  BY MapTargetType DEF LogInv
<1>2. LogsClimb'
  BY <1>1, SpoilingOperations, SpoilsLogs DEF EraseMap
<1>3. CASE EraseOk(MapTarget) /\ pc' = "write_all" /\ save' = [save EXCEPT !.page = 0]
  <2>1. pages'[MapTarget'] = << >> /\ save'.page = 0
    BY <1>1, <1>3
    DEF EraseMap, EraseOk, EraseTo, ram, MapTarget, FlashTypes, CallTypes
  <2>2. Len(<< >>) = 0 /\ Legible(<< >>) = {}
    BY EmptyLog
  <2>3. Rewritten'
    BY <2>1, <2>2 DEF Rewritten, InTurn, Below
  <2>4. Overtaken' /\ Followed'
    BY <1>3 DEF Overtaken, Followed, Listening
  <2> QED
    BY <1>2, <2>3, <2>4 DEF LogInv
<1>4. CASE pc' = "mark_map"
  BY <1>2, <1>4, SilentLog DEF Listening
<1> QED
  BY <1>3, <1>4 DEF EraseMap

LEMMA NoFlashLog ==
  ASSUME LogsClimb, UNCHANGED pages
  PROVE  LogsClimb' /\ LogsHold
BY DEF LogsClimb, LogsHold

LEMMA MarkLog ==
  ASSUME TypeInv, LogInv, MarkMap \/ MarkDelayed PROVE LogInv'
<1> USE DEF TypeInv, TypeOK
<1>1. LogsClimb' /\ LogsHold
  BY NoFlashLog DEF MarkMap, MarkDelayed, MarkBadBlock, LogInv
<1>2. CASE MarkMap
  <2>1. pc' \in {"erase_map", "idle", "dead"} /\ (pc' = "idle" => FreeBlockList' = {})
    BY <1>2, MapTargetType, ReplaceMapBlockThins DEF MarkMap, Saving
  <2> QED
    BY <1>1, <2>1, SilentLog DEF Listening
<1>3. CASE MarkDelayed
  <2>1. pc' \notin {"write_all", "write_one"} /\ Listening
    BY <1>3 DEF MarkDelayed, CallTypes, Listening
  <2> QED
    BY <1>1, <1>3, <2>1, QuietLog DEF MarkDelayed, ram
<1> QED
  BY <1>2, <1>3

LEMMA GetFreeBlockLog ==
  ASSUME TypeInv, LogInv, GetFreeBlock PROVE LogInv'
<1> USE DEF TypeInv, TypeOK
<1>1. LogsClimb' /\ LogsHold
  BY NoFlashLog DEF GetFreeBlock, LogInv, flash
<1>2. pc' \in {"erase_new", "register", "idle", "dead"}
  BY DEF GetFreeBlock, NoFreeBlock, Abort, AfterGetFree
<1>3. Listening' => Listening
  BY DEF GetFreeBlock, NoFreeBlock, Abort, Listening
<1> QED
  BY <1>1, <1>2, <1>3, QuietLog DEF GetFreeBlock

LEMMA NewBlockLog ==
  ASSUME TypeInv, LogInv, EraseNew \/ CopyPages PROVE LogInv'
<1> USE DEF TypeInv, TypeOK
<1>1. Phase \in {"erase_new", "copy"} /\ Listening
  BY DEF EraseNew, CopyPages, Phase, Saving, Listening
<1>2. op.new \in Area /\ op.new \in Block
  BY <1>1 DEF CallShape, Block
<1>3. LogsClimb' /\ LogsHold
  <2>1. CASE EraseNew
    BY <1>2, <2>1, SpoilingOperations, SpoilsLogs DEF EraseNew, LogInv
  <2>2. CASE CopyPages
    BY <2>2, NoFlashLog DEF CopyPages, LogInv
  <2> QED
    BY <2>1, <2>2
<1>4. CASE pc' \in {"copy", "register"} /\ UNCHANGED ram
  BY <1>1, <1>3, <1>4, QuietLog DEF ram
<1>5. CASE RejectNewBlock
  <2>1. MAP_OFFSET(op.new) \in MapOffsets
    BY <1>2, MapOffsetType
  <2>2. \A e \in Area : MAP_OFFSET(e) # MAP_OFFSET(op.new) => SwapTable'[e] = SwapTable[e]
    BY <1>5 DEF RejectNewBlock, RamTypes
  <2> QED
    BY <1>1, <1>3, <1>5, <2>1, <2>2, StartSaveLog DEF RejectNewBlock
<1> QED
  BY <1>4, <1>5 DEF EraseNew, CopyPages

LEMMA RegisterLog ==
  ASSUME TypeInv, LogInv, Register \/ InstallOriginal PROVE LogInv'
<1> USE DEF TypeInv, TypeOK, RamTypes
<1>1. Listening /\ op.new \in Area
  BY DEF Register, InstallOriginal, Listening, Phase, Saving, CallShape
<1>2. UNCHANGED pages
  BY DEF Register, InstallOriginal, Install, flash
<1>3. LogsClimb' /\ LogsHold
  BY <1>2, NoFlashLog DEF LogInv
<1>4. ASSUME NEW T, Install(T),
             \A e \in Area : MAP_OFFSET(e) # MAP_OFFSET(op.new) => T[e] = SwapTable[e]
      PROVE  LogInv'
  <2>1. SegmentToSave = MAP_OFFSET(op.new) /\ SegmentToSave \in MapOffsets
    BY <1>1, MapOffsetType DEF SegmentToSave
  <2>2. StartSave(SegmentToSave, "done") /\ SwapTable' = T
    BY <1>4 DEF Install
  <2> QED
    BY <1>1, <1>3, <1>4, <2>1, <2>2, StartSaveLog
<1>5. CASE op.bad \in User /\ Install([SwapTable EXCEPT ![op.new] = op.bad])
  BY <1>4, <1>5
<1>6. CASE MAP_OFFSET(op.bad) = MAP_OFFSET(op.new) /\ Install(Moved)
  BY <1>4, <1>6 DEF Moved
<1>7. CASE /\ op.bad \in Area
           /\ SwapTable' = [SwapTable EXCEPT ![op.bad] = BAD]
           /\ StartSave(MAP_OFFSET(op.bad), "install")
  <2>1. MAP_OFFSET(op.bad) \in MapOffsets
    BY <1>7, MapOffsetType
  <2>2. \A e \in Area : MAP_OFFSET(e) # MAP_OFFSET(op.bad) => SwapTable'[e] = SwapTable[e]
    BY <1>7
  <2> QED
    BY <1>1, <1>3, <1>7, <2>1, <2>2, StartSaveLog
<1>8. CASE InstallOriginal
  BY <1>4, <1>8 DEF InstallOriginal
<1> QED
  BY <1>5, <1>6, <1>7, <1>8 DEF Register

\* What BM_Open reads is the table of the log of the map block it settles for.
LEMMA OpenReadsLog ==
  ASSUME FlashTypes, Candidates # {}
  PROVE  /\ Current \in Area /\ pages[Current] \in PageLog
         /\ Whole(pages[Current])
         /\ OpenTable = TableIn(pages[Current])
<1>1. Current \in Area /\ Complete(Current)
  BY CurrentType, FoundPage DEF Candidates
<1>2. pages[Current] \in PageLog
  BY <1>1 DEF FlashTypes, PageLog, Block
<1>3. Whole(pages[Current])
  BY <1>1 DEF Complete, Whole, Readable, Legible
<1>4. OpenTable = TableIn(pages[Current])
  BY DEF OpenTable, TableIn, Latest, LastOf, Readable, Legible
<1> QED
  BY <1>1, <1>2, <1>3, <1>4

LEMMA FormatLog ==
  ASSUME TypeInv, LogsClimb, BM_Format PROVE TableInv' /\ LogInv'
<1>1. Unique(SwapTable')
  <2>1. CASE Formattable
    BY <2>1, FormatUnique DEF BM_Format
  <2>2. CASE ~ Formattable
    BY <2>2, SpecialEntries DEF BM_Format, BlankMemory, Unique
  <2> QED
    BY <2>1, <2>2
<1>2. pc' \in {"erase_map", "dead"} /\ Phase' \in {"format", "dead"}
  BY DEF BM_Format, Phase, Saving, NoSave
<1>3. LogsClimb'
  BY DEF BM_Format, LogsClimb, flash
<1>4. LogInv'
  BY <1>2, <1>3, SilentLog DEF Listening
<1> QED
  BY <1>1, <1>2, <1>4 DEF TableInv, BadHasNoEntry

LEMMA OpenLog ==
  ASSUME TypeInv, LogsClimb, Openable, BM_Open PROVE TableInv' /\ LogInv'
<1> USE DEF TypeInv, TypeOK
<1>1. Unique(SwapTable')
  BY OpenReadsLog DEF Openable, LogsClimb, GoodLog, BM_Open
<1>2. pc' = "idle" /\ Phase' = "idle" /\ CurMapPageNum' = PagesPerBlock - 1
  BY DEF BM_Open, OpenLastMapPage, Phase, Saving
<1>3. LogsClimb'
  BY DEF BM_Open, LogsClimb, flash
<1>4. ~ CurMapPageNum' < PagesPerBlock - 1
  BY <1>2, GeometryAssumption
<1>5. LogInv'
  BY <1>2, <1>3, <1>4 DEF LogInv, Rewritten, Overtaken, Followed
<1> QED
  BY <1>1, <1>2, <1>5 DEF TableInv, BadHasNoEntry

LEMMA UserLog ==
  ASSUME TypeInv, TableInv, LogInv, NEW u \in User,
         ProgramUser(u) \/ ProgramUserFails(u) \/ EraseUser(u) \/ EraseUserFails(u)
  PROVE  TableInv' /\ LogInv'
<1> USE DEF TypeInv, TypeOK
<1>1. pc = "idle" /\ UNCHANGED ram /\ pc' \in {"idle", "get_free"}
  BY DEF ProgramUser, ProgramUserFails, EraseUser, EraseUserFails, Idle, Replace, call
<1>2. BlockOf(u) \in Block
  BY BlockOfType
<1>3. LogsClimb' /\ LogsHold
  <2>1. CASE EraseUser(u) \/ EraseUserFails(u)
    BY <1>2, <2>1, SpoilingOperations, SpoilsLogs DEF EraseUser, EraseUserFails, LogInv
  <2>2. CASE ProgramUser(u) \/ ProgramUserFails(u)
    BY <2>2, NoFlashLog DEF ProgramUser, ProgramUserFails, LogInv, flash
  <2> QED
    BY <2>1, <2>2
<1>4. LogInv'
  BY <1>1, <1>3, QuietLog DEF ram, Listening
<1>5. TableInv'
  <2>1. CASE UNCHANGED call
    BY <1>1, <2>1 DEF TableInv, BadHasNoEntry, ram, call, Phase, Saving
  <2>2. CASE \E cmd : Replace(cmd, BlockOf(u))
    <3>1. op'.bad = BlockOf(u) /\ Phase' = "get_free"
      BY <2>2 DEF Replace, NoOp, Phase, Saving
    <3>2. BlockOf(u) \in User => \A e \in Area : SwapTable[e] # BlockOf(u)
      BY SwappingBlockIs, AreaNumbers DEF BlockOf, RamTypes
    <3> QED
      BY <1>1, <3>1, <3>2 DEF TableInv, BadHasNoEntry, ram
  <2> QED
    BY <2>1, <2>2 DEF ProgramUser, ProgramUserFails, EraseUser, EraseUserFails
<1> QED
  BY <1>4, <1>5

LEMMA PowerLossLog ==
  ASSUME TypeInv, LogInv, PowerLoss PROVE TableInv' /\ LogInv'
<1> USE DEF TypeInv, TypeOK
<1>1. LogsClimb'
  <2>1. CASE UNCHANGED flash
    BY <2>1, NoFlashLog DEF flash, LogInv
  <2>2. CASE pc = "erase_new" /\ CutErase(op.new)
    <3>1. op.new \in Block
      BY <2>2 DEF CallShape, Phase, Saving, Block
    <3> QED
      BY <2>2, <3>1, SpoilingOperations, SpoilsLogs DEF LogInv
  <2>3. CASE pc = "copy" /\ EraseTo(op.new, pages[op.new], JUNK)
    <3>1. op.new \in Block
      BY <2>3 DEF CallShape, Phase, Saving, Block
    <3>2. Spoils(op.new)
      BY <2>3 DEF EraseTo, Spoils
    <3> QED
      BY <3>1, <3>2, SpoilsLogs DEF LogInv
  <2>4. CASE CutErase(MapTarget) \/ Programmed(MapTarget, TORN)
    BY <2>4, MapTargetType, SpoilingOperations, SpoilsLogs DEF LogInv
  <2> QED
    BY <2>1, <2>2, <2>3, <2>4 DEF PowerLoss, Interrupted
<1>2. pc' = "off" /\ Phase' = "off" /\ SwapTable' = [e \in Area |-> FREE]
  BY DEF PowerLoss, BlankMemory, Phase, Saving
<1>3. LogInv'
  BY <1>1, <1>2, SilentLog DEF Listening
<1>4. TableInv'
  BY <1>2, SpecialEntries DEF TableInv, Unique, BadHasNoEntry
<1> QED
  BY <1>3, <1>4

LEMMA EndLog ==
  ASSUME TypeInv, TableInv, LogInv, Done \/ FormatSecondBlock PROVE TableInv' /\ LogInv'
<1>1. LogsClimb' /\ LogsHold
  BY NoFlashLog DEF Done, FormatSecondBlock, LogInv, flash
<1>2. Phase' \in {"idle", "done"} /\ Thins(SwapTable, SwapTable')
  BY DEF Done, FormatSecondBlock, Phase, Saving, NoSave, Thins
<1>3. TableInv'
  BY <1>2, ThinsTableInv
<1>4. CASE Done
  <2>1. Listening /\ pc' = "idle"
    BY <1>4 DEF Done, Listening
  <2> QED
    BY <1>1, <1>3, <1>4, <2>1, QuietLog DEF Done
<1>5. CASE FormatSecondBlock
  BY <1>1, <1>3, <1>5, SilentLog DEF FormatSecondBlock, Listening
<1> QED
  BY <1>4, <1>5

MapLogInv == TypeInv /\ TableInv /\ LogInv

LEMMA MapLogStep ==
  ASSUME MapLogInv, [Next]_vars PROVE MapLogInv'
<1> USE DEF MapLogInv
<1>1. TypeInv'
  BY TypeInvStep
<1>2. LogsClimb
  BY DEF LogInv
<1>3. CASE Boot
  BY <1>1, <1>2, <1>3, OpenLog, FormatLog DEF Boot
<1>4. CASE Reformat
  BY <1>1, <1>2, <1>4, FormatLog DEF Reformat
<1>5. CASE PowerLoss
  BY <1>1, <1>5, PowerLossLog
<1>6. CASE EraseMap
  BY <1>1, <1>6, EraseMapLog, MapStepTable
<1>7. CASE MarkMap \/ MarkDelayed
  BY <1>1, <1>7, MarkLog, MapStepTable
<1>8. CASE WriteAll
  BY <1>1, <1>8, WriteAllLog, MapStepTable
<1>9. CASE WriteOne
  BY <1>1, <1>9, WriteOneLog, MapStepTable
<1>10. CASE GetFreeBlock
  BY <1>1, <1>10, GetFreeBlockLog, NewBlockTable
<1>11. CASE EraseNew \/ CopyPages
  BY <1>1, <1>11, NewBlockLog, NewBlockTable
<1>12. CASE Register \/ InstallOriginal
  BY <1>1, <1>12, RegisterLog, RegisterTable
<1>13. CASE Done \/ FormatSecondBlock
  BY <1>1, <1>13, EndLog
<1>14. CASE \E u \in User : \/ ProgramUser(u) \/ ProgramUserFails(u)
                            \/ EraseUser(u) \/ EraseUserFails(u)
  BY <1>1, <1>14, UserLog
<1>15. CASE UNCHANGED vars
  <2>1. TableInv'
    BY <1>15 DEF TableInv, BadHasNoEntry, Phase, Saving, vars, ram, call
  <2>2. LogInv'
    BY <1>15
    DEF LogInv, LogsClimb, Rewritten, Overtaken, Followed, Listening, MapTarget, vars,
        flash, ram, call
  <2> QED
    BY <1>1, <2>1, <2>2
<1> QED
  BY <1>3, <1>4, <1>5, <1>6, <1>7, <1>8, <1>9, <1>10, <1>11, <1>12, <1>13, <1>14, <1>15
  DEF Next, Step

LEMMA MapLogInit ==
  ASSUME Init PROVE MapLogInv
<1>1. TableInv
  BY SpecialEntries DEF Init, TableInv, Unique, BadHasNoEntry, Phase, Saving
<1>2. LogInv
  <2>1. \A b \in Area : pages[b] = << >>
    BY DEF Init, Block
  <2>2. LogsClimb
    BY <2>1, EmptyLog DEF LogsClimb, GoodLog
  <2> QED
    BY <2>2 DEF Init, LogInv, Rewritten, Overtaken, Followed, Listening
<1> QED
  BY <1>1, <1>2, TypeInvInit DEF MapLogInv

LEMMA MapLogInvariant == Spec => []MapLogInv
<1>1. Init => MapLogInv
  BY MapLogInit
<1>2. MapLogInv /\ [Next]_vars => MapLogInv'
  BY MapLogStep
<1> QED
  BY <1>1, <1>2, PTL DEF Spec

\* How a step changes what can be read of a map block.
LEMMA FailedWriteKeeps ==
  ASSUME TypeInv, LogsClimb, NEW p, NEW o, NEW b \in Area,
         WriteMapPage(MapTarget, p, o) \/ WriteMapPageFails(MapTarget, p, o)
  PROVE  \/ LogKept(b) \/ LogGone(b)
         \/ /\ Blank(MapTarget, p) /\ b = MapTarget
            /\ pages'[b] = Append(pages[b], MapPageOf(o))
<1>1. MapTarget \in Area /\ MapTarget \in Block /\ b \in Block
  BY MapTargetType DEF TypeInv, TypeOK, Block
<1>2. CASE UNCHANGED flash
  BY <1>2 DEF flash, LogKept
<1>3. CASE Programmed(MapTarget, TORN)
  BY <1>1, <1>3, SpoilingOperations, SpoilsLogs
<1>4. CASE Programmed(MapTarget, MapPageOf(o)) /\ Blank(MapTarget, p)
  BY <1>1, <1>4 DEF Programmed, TypeInv, TypeOK, FlashTypes, LogKept
<1> QED
  BY <1>2, <1>3, <1>4 DEF WriteMapPage, WriteMapPageFails, ProgramFail

LEMMA NextLogs ==
  ASSUME TypeInv, LogsClimb, [Next]_vars, NEW b \in Area
  PROVE  \/ LogKept(b) \/ LogGone(b)
         \/ /\ pc = "write_all" /\ b = MapTarget
            /\ pages'[b] = Append(pages[b], MapPageOf(save.page))
         \/ /\ pc = "write_one" /\ b = MapTarget /\ Blank(MapTarget, CurMapPageNum)
            /\ pages'[b] = Append(pages[b], MapPageOf(save.off))
<1> USE DEF TypeInv, TypeOK
<1>1. CASE UNCHANGED pages
  BY <1>1 DEF LogKept
<1>2. CASE \E c \in Block : Spoils(c)
  BY <1>2, SpoilsLogs
<1>3. CASE WriteAll \/ WriteOne
  <2>1. CASE WriteAll
    <3>1. /\ pc = "write_all"
          /\ \/ WriteMapPage(MapTarget, save.page, save.page)
             \/ WriteMapPageFails(MapTarget, save.page, save.page)
      BY <2>1 DEF WriteAll
    <3>2. \/ LogKept(b) \/ LogGone(b)
          \/ /\ Blank(MapTarget, save.page) /\ b = MapTarget
             /\ pages'[b] = Append(pages[b], MapPageOf(save.page))
      BY <3>1, FailedWriteKeeps
    <3> QED
      BY <3>1, <3>2
  <2>2. CASE WriteOne
    <3>1. /\ pc = "write_one"
          /\ \/ WriteMapPage(MapTarget, CurMapPageNum, save.off)
             \/ WriteMapPageFails(MapTarget, CurMapPageNum, save.off)
      BY <2>2 DEF WriteOne
    <3>2. \/ LogKept(b) \/ LogGone(b)
          \/ /\ Blank(MapTarget, CurMapPageNum) /\ b = MapTarget
             /\ pages'[b] = Append(pages[b], MapPageOf(save.off))
      BY <3>1, FailedWriteKeeps
    <3> QED
      BY <3>1, <3>2
  <2> QED
    BY <1>3, <2>1, <2>2
<1>4. CASE EraseMap
  BY <1>2, <1>4, MapTargetType, SpoilingOperations DEF EraseMap
<1>5. CASE EraseNew
  <2>1. op.new \in Block
    BY <1>5 DEF EraseNew, CallShape, Phase, Saving, Block
  <2> QED
    BY <1>2, <1>5, <2>1, SpoilingOperations DEF EraseNew
<1>6. CASE \E u \in User : \/ ProgramUser(u) \/ ProgramUserFails(u)
                           \/ EraseUser(u) \/ EraseUserFails(u)
  <2>1. PICK u \in User : \/ ProgramUser(u) \/ ProgramUserFails(u)
                          \/ EraseUser(u) \/ EraseUserFails(u)
    BY <1>6
  <2>2. BlockOf(u) \in Block
    BY BlockOfType
  <2>3. CASE EraseUser(u) \/ EraseUserFails(u)
    BY <1>2, <2>2, <2>3, SpoilingOperations DEF EraseUser, EraseUserFails
  <2>4. CASE ProgramUser(u) \/ ProgramUserFails(u)
    BY <1>1, <2>4 DEF ProgramUser, ProgramUserFails, flash
  <2> QED
    BY <2>1, <2>3, <2>4
<1>7. CASE PowerLoss
  <2>1. CASE UNCHANGED flash
    BY <1>1, <2>1 DEF flash
  <2>2. CASE pc = "erase_new" /\ CutErase(op.new)
    <3>1. op.new \in Block
      BY <2>2 DEF CallShape, Phase, Saving, Block
    <3> QED
      BY <1>2, <2>2, <3>1, SpoilingOperations
  <2>3. CASE pc = "copy" /\ EraseTo(op.new, pages[op.new], JUNK)
    <3>1. op.new \in Block
      BY <2>3 DEF CallShape, Phase, Saving, Block
    <3>2. Spoils(op.new)
      BY <2>3 DEF EraseTo, Spoils
    <3> QED
      BY <1>2, <3>1, <3>2
  <2>4. CASE CutErase(MapTarget) \/ Programmed(MapTarget, TORN)
    BY <1>2, <2>4, MapTargetType, SpoilingOperations
  <2> QED
    BY <1>7, <2>1, <2>2, <2>3, <2>4 DEF PowerLoss, Interrupted
<1>8. CASE \/ Boot \/ Reformat \/ FormatSecondBlock \/ GetFreeBlock \/ CopyPages
           \/ Register \/ InstallOriginal \/ MarkMap \/ MarkDelayed \/ Done
           \/ UNCHANGED vars
  BY <1>1, <1>8
  DEF Boot, BM_Open, BM_Format, Reformat, FormatSecondBlock, GetFreeBlock, CopyPages,
      Register, InstallOriginal, Install, MarkMap, MarkDelayed, MarkBadBlock, Done, vars,
      flash
<1> QED
  BY <1>3, <1>4, <1>5, <1>6, <1>7, <1>8 DEF Next, Step

\* A table on the chip was there before, or it is the one in memory.
LEMMA NextTables ==
  ASSUME MapLogInv, [Next]_vars, NEW b \in Area, Whole(pages'[b])
  PROVE  \/ Whole(pages[b]) /\ TableIn(pages'[b]) = TableIn(pages[b])
         \/ /\ pc \in {"write_all", "write_one"} /\ b = MapTarget
            /\ TableIn(pages'[b]) = SwapTable
<1> USE DEF MapLogInv
<1>1. /\ pages[b] \in PageLog /\ pages'[b] \in PageLog
      /\ Climbs(pages[b]) /\ GoodLog(pages[b]) /\ LogsClimb
  <2>1. TypeInv'
    BY TypeInvStep
  <2> QED
    BY <2>1 DEF TypeInv, TypeOK, FlashTypes, PageLog, Block, LogInv, LogsClimb, GoodLog
<1>2. CASE LogKept(b)
  BY <1>1, <1>2, SameLegible DEF LogKept
<1>3. CASE LogGone(b)
  BY <1>3, NumMapPagesType DEF LogGone, Whole
<1>4. CASE /\ pc = "write_all" /\ b = MapTarget
           /\ pages'[b] = Append(pages[b], MapPageOf(save.page))
  <2>1. InTurn(pages'[b], SwapTable) /\ GoodLog(pages'[b])
    BY <1>4, RewriteAppend
  <2>2. SwapTable \in [Area -> Entry]
    BY DEF TypeInv, TypeOK, RamTypes
  <2> QED
    BY <1>1, <1>4, <2>1, <2>2, InTurnTable DEF GoodLog
<1>5. CASE /\ pc = "write_one" /\ b = MapTarget /\ Blank(MapTarget, CurMapPageNum)
           /\ pages'[b] = Append(pages[b], MapPageOf(save.off))
  BY <1>1, <1>5, OvertakeAppend
<1> QED
  BY <1>1, <1>2, <1>3, <1>4, <1>5, NextLogs

(* No user block has two replacements: the table never leads to one of     *)
(* them while the data is in the other, whatever fails and whenever power  *)
(* is lost, also when the manager has opened a table that is not the last. *)
THEOREM OneReplacement == Spec => []UniqueReplacement
<1>1. MapLogInv => UniqueReplacement
  BY DEF MapLogInv, TableInv, Unique, UniqueReplacement
<1> QED
  BY <1>1, MapLogInvariant, PTL

----------------------------------------------------------------------------
(* Where a page is written: the log of the current map block is as long as *)
(* the manager thinks, and no other operation spoils it.                   *)

Kept ==
  ~ adrift =>
    /\ pc = "write_one" => Clean(pages[MapTarget], CurMapPageNum)
    /\ Listening /\ CurMapPageNum < PagesPerBlock - 1 =>
         Clean(pages[MapTarget], CurMapPageNum + 1)

\* The entries that a table reserves for the map are two at most.
TwoMaps(T) == \E x, y \in Area : \A e \in Area : T[e] = MAP => e \in {x, y}

MapsAreTwo ==
  ~ adrift =>
    /\ pc \notin {"off", "dead"} =>
         \A e \in Area : SwapTable[e] = MAP => e \in {MapBlock[1], MapBlock[2]}
    /\ \A b \in Area : Whole(pages[b]) => TwoMaps(TableIn(pages[b]))
    /\ Phase = "install" => op.org \in User

TidyInv == ReservedInv /\ MapLogInv /\ Kept /\ MapsAreTwo

\* The block at work in a call, or a user's, is not the current map block.
LEMMA TargetApart ==
  ASSUME ReservedInv, ~ adrift, pc \notin {"off", "dead"}
  PROVE  /\ MapTarget \in Area /\ SwapTable[MapTarget] \in {MAP, BAD}
         /\ Phase \in {"erase_new", "copy", "register", "install"} =>
              op.new \in Area /\ op.new # MapTarget /\ SwapTable[op.new] = FREE
         /\ \A u \in User : BlockOf(u) \in Block /\ BlockOf(u) # MapTarget
<1> USE DEF ReservedInv, TypeInv, TypeOK
<1>1. MapTarget \in Area /\ SwapTable[MapTarget] \in {MAP, BAD}
  BY MapTargetType DEF Reserved, MapIsKnown, MapTarget, RamTypes
<1>2. Phase \in {"erase_new", "copy", "register", "install"} =>
        op.new \in Area /\ op.new # MapTarget /\ SwapTable[op.new] = FREE
  BY <1>1, SpecialEntries DEF Reserved, NewIsReserved, CallShape
<1>3. ASSUME NEW u \in User PROVE BlockOf(u) \in Block /\ BlockOf(u) # MapTarget
  <2>1. BlockOf(u) \in Block
    BY BlockOfType
  <2>2. BlockOf(u) # u => SwapTable[BlockOf(u)] = u
    BY SwappingBlockIs DEF BlockOf
  <2>3. u \notin Area
    BY AreaNumbers
  <2> QED
    BY <1>1, <2>1, <2>2, <2>3, SpecialEntries
<1> QED
  BY <1>1, <1>2, <1>3

LEMMA CleanAppend ==
  ASSUME NEW s \in PageLog, NEW p, Clean(s, p), NEW pg \in MapPage
  PROVE  Clean(Append(s, pg), p + 1)
<1>1. pg # TORN /\ Len(s) = p /\ Legible(s) = 1 .. Len(s) /\ Len(s) \in Nat
  BY MapPageFields, LegibleType DEF TORN, Clean
<1>2. Legible(Append(s, pg)) = (1 .. p) \cup {p + 1} /\ Len(Append(s, pg)) = p + 1
  BY <1>1, AppendLegible
<1>3. (1 .. p) \cup {p + 1} = 1 .. p + 1
  BY <1>1
<1> QED
  BY <1>2, <1>3 DEF Clean

LEMMA QuietKept ==
  ASSUME Kept, ~ adrift, pages'[MapTarget] = pages[MapTarget],
         UNCHANGED <<MapBlock, CurMapBlockIdx, CurMapPageNum>>,
         pc' # "write_one", Listening' => Listening
  PROVE  Kept'
BY DEF Kept, MapTarget

LEMMA SilentKept ==
  ASSUME ~ Listening', pc' # "write_one" PROVE Kept'
BY DEF Kept

LEMMA StartSaveKept ==
  ASSUME TypeInv, Kept, ~ adrift, Listening, pages'[MapTarget] = pages[MapTarget],
         NEW o, NEW next, StartSave(o, next)
  PROVE  Kept'
<1> USE DEF TypeInv, TypeOK
<1>1. pc' \in {"erase_map", "write_one"}
  BY DEF StartSave
<1>2. CASE pc' = "write_one"
  <2>1. PageAfter # 0 /\ MapTarget' = MapTarget /\ CurMapPageNum' = PageAfter
    BY <1>2 DEF StartSave, MapTarget
  <2>2. CurMapPageNum < PagesPerBlock - 1 /\ PageAfter = CurMapPageNum + 1
    BY <2>1, PageAfterIs
  <2> QED
    BY <1>2, <2>1, <2>2 DEF Kept, Listening
<1>3. CASE pc' = "erase_map"
  BY <1>3, SilentKept DEF Listening
<1> QED
  BY <1>1, <1>2, <1>3

LEMMA KeptStep ==
  ASSUME ReservedInv, MapLogInv, Kept, [Next]_vars PROVE Kept'
<1> USE DEF ReservedInv, MapLogInv, TypeInv, TypeOK
<1> SUFFICES ASSUME ~ adrift' PROVE Kept'
  BY DEF Kept
<1>1. CASE Boot
  <2>1. CASE BM_Open
    <3>1. CurMapPageNum' = PagesPerBlock - 1 /\ pc' = "idle"
      BY <2>1 DEF BM_Open, OpenLastMapPage
    <3>2. ~ CurMapPageNum' < PagesPerBlock - 1
      BY <3>1, GeometryAssumption
    <3> QED
      BY <3>1, <3>2 DEF Kept
  <2>2. CASE BM_Format
    BY <2>2, SilentKept DEF BM_Format, Listening
  <2> QED
    BY <1>1, <2>1, <2>2 DEF Boot
<1>2. CASE Reformat
  BY <1>2, SilentKept DEF Reformat, BM_Format, Listening
<1>3. CASE PowerLoss
  BY <1>3, SilentKept DEF PowerLoss, Listening
<1>4. CASE UNCHANGED vars
  BY <1>4 DEF Kept, Listening, MapTarget, vars, flash, ram, call, hist
<1>5. ASSUME Step \/ \E u \in User : \/ ProgramUser(u) \/ ProgramUserFails(u)
                                     \/ EraseUser(u) \/ EraseUserFails(u)
      PROVE  ~ adrift /\ pc \notin {"off", "dead"}
  BY <1>5
  DEF Step, FormatSecondBlock, GetFreeBlock, EraseNew, CopyPages, Register,
      InstallOriginal, EraseMap, MarkMap, WriteAll, WriteOne, MarkDelayed, Done,
      ProgramUser, ProgramUserFails, EraseUser, EraseUserFails, Idle, hist,
      NoFreeBlock, Abort, RejectNewBlock, Install, ReplaceMapBlock, RetireCurrent
<1>6. CASE FormatSecondBlock \/ EraseMap
  BY <1>6, SilentKept DEF FormatSecondBlock, EraseMap, Listening
<1>7. CASE GetFreeBlock
  <2>1. pc' # "write_one" /\ (Listening' => Listening)
    BY <1>7 DEF GetFreeBlock, NoFreeBlock, Abort, AfterGetFree, Listening
  <2> QED
    BY <1>5, <1>7, <2>1, QuietKept DEF Step, GetFreeBlock, flash
<1>8. CASE EraseNew \/ CopyPages
  <2>1. Phase \in {"erase_new", "copy"} /\ Listening /\ ~ adrift
    BY <1>5, <1>8 DEF Step, EraseNew, CopyPages, Phase, Saving, Listening
  <2>2. MapTarget \in Block \ {op.new} /\ op.new \in Block
    BY <1>5, <1>8, <2>1, TargetApart DEF Step, Block
  <2>3. pages'[MapTarget] = pages[MapTarget]
    BY <1>8, <2>2, FlashFrame DEF EraseNew, CopyPages
  <2>4. CASE RejectNewBlock
    BY <2>1, <2>3, <2>4, StartSaveKept DEF RejectNewBlock
  <2>5. CASE UNCHANGED ram /\ pc' \in {"copy", "register"}
    BY <2>1, <2>3, <2>5, QuietKept DEF ram
  <2> QED
    BY <1>8, <2>4, <2>5 DEF EraseNew, CopyPages
<1>9. CASE Register \/ InstallOriginal
  <2>1. UNCHANGED pages /\ Listening /\ ~ adrift
    BY <1>5, <1>9 DEF Step, Register, InstallOriginal, Install, flash, Listening
  <2>2. \E o, next : StartSave(o, next)
    BY <1>9 DEF Register, InstallOriginal, Install
  <2> QED
    BY <2>1, <2>2, StartSaveKept
<1>10. CASE MarkMap
  <2>1. pc' \in {"erase_map", "idle", "dead"} /\ (pc' = "idle" => FreeBlockList' = {})
    BY <1>10, MapTargetType, ReplaceMapBlockThins DEF MarkMap, Saving
  <2> QED
    BY <2>1, SilentKept DEF Listening
<1>11. CASE WriteAll
  <2> DEFINE t == Append(pages[MapTarget], MapPageOf(save.page))
  <2>1. CASE WriteMapPage(MapTarget, save.page, save.page) /\ CurMapPageNum' = save.page
             /\ SaveEnds
    <3>1. pages'[MapTarget'] = t /\ pc = "write_all"
      BY <1>11, <2>1, MapTargetType
      DEF WriteAll, WriteMapPage, Programmed, MapTarget, FlashTypes
    <3>2. /\ t \in PageLog /\ Len(t) = save.page + 1 /\ InTurn(t, SwapTable)
          /\ GoodLog(t)
      BY <3>1, RewriteAppend
    <3>3. Clean(t, save.page + 1)
      <4> HIDE DEF t
      <4>1. SwapTable \in [Area -> Entry] /\ Climbs(t)
        BY <3>2 DEF RamTypes, GoodLog
      <4> QED
        BY <3>2, <4>1, InTurnTable DEF Clean
    <3>4. pc' # "write_one"
      BY <2>1 DEF SaveEnds, CallTypes
    <3> QED
      BY <2>1, <3>1, <3>3, <3>4 DEF Kept
  <2>2. CASE pc' \in {"write_all", "mark_map"}
    BY <2>2, SilentKept DEF Listening
  <2> QED
    BY <1>11, <2>1, <2>2 DEF WriteAll
<1>12. CASE WriteOne
  <2> DEFINE t == Append(pages[MapTarget], MapPageOf(save.off))
  <2>1. pc = "write_one" /\ ~ adrift /\ Clean(pages[MapTarget], CurMapPageNum)
    BY <1>5, <1>12 DEF Step, WriteOne, Kept
  <2>2. CASE WriteMapPage(MapTarget, CurMapPageNum, save.off) /\ SaveEnds
             /\ UNCHANGED <<SwapTable, FreeBlockList, MapBlock, save, op, hist>>
    <3>1. pages'[MapTarget'] = t /\ CurMapPageNum' = CurMapPageNum
      BY <1>12, <2>2, MapTargetType
      DEF WriteOne, WriteMapPage, Programmed, MapTarget, FlashTypes
    <3>2. Clean(t, CurMapPageNum + 1)
      <4>1. save.off \in MapOffsets /\ pages[MapTarget] \in PageLog
        BY MapTargetType DEF CallTypes, FlashTypes, PageLog
      <4> QED
        BY <2>1, <4>1, MapPageOfType, CleanAppend
    <3>3. pc' # "write_one"
      BY <2>2 DEF SaveEnds, CallTypes
    <3> QED
      BY <3>1, <3>2, <3>3 DEF Kept
  <2>3. CASE RetireCurrent
    <3>1. [save EXCEPT !.delayed = MapTarget].next = save.next
      BY DEF CallTypes
    <3>2. pc' \in {"erase_map", "idle", "dead"} /\ (pc' = "idle" => FreeBlockList' = {})
      BY <2>1, <2>3, <3>1, MapTargetType, ReplaceMapBlockThins DEF RetireCurrent, Saving
    <3> QED
      BY <3>2, SilentKept DEF Listening
  <2> QED
    BY <1>12, <2>2, <2>3 DEF WriteOne
<1>13. CASE MarkDelayed
  <2>1. pc' # "write_one" /\ Listening /\ ~ adrift
    BY <1>5, <1>13 DEF Step, MarkDelayed, CallTypes, Listening
  <2> QED
    BY <1>13, <2>1, QuietKept DEF MarkDelayed, MarkBadBlock, ram
<1>14. CASE Done
  <2>1. pc' = "idle" /\ Listening /\ ~ adrift
    BY <1>5, <1>14 DEF Step, Done, Listening
  <2> QED
    BY <1>14, <2>1, QuietKept DEF Done, flash
<1>15. ASSUME NEW u \in User,
              ProgramUser(u) \/ ProgramUserFails(u) \/ EraseUser(u) \/ EraseUserFails(u)
       PROVE  Kept'
  <2>1. /\ pc = "idle" /\ UNCHANGED ram /\ pc' \in {"idle", "get_free"}
        /\ ~ adrift
    BY <1>5, <1>15
    DEF ProgramUser, ProgramUserFails, EraseUser, EraseUserFails, Idle, Replace, call
  <2>2. BlockOf(u) \in Block /\ MapTarget \in Block \ {BlockOf(u)}
    BY <2>1, TargetApart DEF Block
  <2>3. pages'[MapTarget] = pages[MapTarget]
    BY <1>15, <2>2, FlashFrame DEF ProgramUser, ProgramUserFails, EraseUser, EraseUserFails, flash
  <2> QED
    BY <2>1, <2>3, QuietKept DEF ram, Listening
<1> QED
  BY <1>1, <1>2, <1>3, <1>4, <1>6, <1>7, <1>8, <1>9, <1>10, <1>11, <1>12, <1>13, <1>14,
     <1>15 DEF Next, Step

----------------------------------------------------------------------------
(* The blocks a table reserves for the map are the two that are written.   *)

LEMMA SameMapsKept ==
  ASSUME MapsAreTwo, ~ adrift, pc \notin {"off", "dead"}, UNCHANGED MapBlock,
         \A e \in Area : SwapTable'[e] = MAP => SwapTable[e] = MAP
  PROVE  \A e \in Area : SwapTable'[e] = MAP => e \in {MapBlock'[1], MapBlock'[2]}
BY DEF MapsAreTwo

LEMMA ReplaceMapBlockMaps ==
  ASSUME TypeInv, MapsAreTwo, ~ adrift, pc \notin {"off", "dead"}, NEW sav,
         ReplaceMapBlock(MapTarget, sav)
  PROVE  \A e \in Area : SwapTable'[e] = MAP => e \in {MapBlock'[1], MapBlock'[2]}
<1> USE DEF TypeInv, TypeOK, RamTypes
<1>1. CASE /\ FreeBlockList = {}
           /\ SwapTable' = [SwapTable EXCEPT ![MapTarget] = BAD]
           /\ UNCHANGED <<FreeBlockList, MapBlock>>
  BY <1>1, SpecialEntries DEF MapsAreTwo
<1>2. CASE /\ FreeBlockList # {}
           /\ LET new == Lowest(FreeBlockList)
              IN  /\ SwapTable' = Retired(MapTarget, new)
                  /\ FreeBlockList' = FreeBlockList \ {new}
                  /\ MapBlock' = [MapBlock EXCEPT ![CurMapBlockIdx] = new]
  <2> DEFINE new == Lowest(FreeBlockList)
  <2>1. SwapTable' = Retired(MapTarget, new)
        /\ MapBlock' = [MapBlock EXCEPT ![CurMapBlockIdx] = new]
    BY <1>2
  <2> HIDE DEF new
  <2>2. SUFFICES ASSUME NEW e \in Area, SwapTable'[e] = MAP
                 PROVE  e \in {MapBlock'[1], MapBlock'[2]}
    OBVIOUS
  <2>3. new \in {MapBlock'[1], MapBlock'[2]}
        /\ \A i \in 1 .. 2 : i # CurMapBlockIdx => MapBlock'[i] = MapBlock[i]
    BY <2>1
  <2>4. e = new \/ (e # MapTarget /\ SwapTable[e] = MAP)
    BY <2>1, <2>2, SpecialEntries DEF Retired
  <2>5. ASSUME e # MapTarget, SwapTable[e] = MAP
        PROVE  \E i \in 1 .. 2 : i # CurMapBlockIdx /\ e = MapBlock[i]
    BY <2>5 DEF MapsAreTwo, MapTarget
  <2> QED
    BY <2>3, <2>4, <2>5
<1> QED
  BY <1>1, <1>2 DEF ReplaceMapBlock

LEMMA LowestTwoDiffer ==
  ASSUME NEW S \in SUBSET Area, Cardinality(S) >= 2
  PROVE  LET p == <<Lowest(S), Lowest(S \ {Lowest(S)})>>
         IN  p[1] \in S /\ p[2] \in S /\ p[1] # p[2]
<1>1. IsFiniteSet(S) /\ S \subseteq Nat
  BY AreaNumbers, FS_Subset
<1>2. S # {}
  BY <1>1, FS_EmptySet
<1>3. Lowest(S) \in S
  BY <1>1, <1>2, LowestType
<1>4. S \ {Lowest(S)} # {}
  <2>1. IsFiniteSet(S \ {Lowest(S)}) /\ Cardinality(S \ {Lowest(S)}) = Cardinality(S) - 1
    BY <1>1, <1>3, FS_RemoveElement
  <2> QED
    BY <2>1, <1>1, FS_EmptySet, FS_CardinalityType
<1>5. Lowest(S \ {Lowest(S)}) \in S \ {Lowest(S)}
  BY <1>1, <1>4, LowestType
<1> QED
  BY <1>3, <1>5

\* Two entries of a pair that are not the same are the pair.
LEMMA OpenMaps ==
  ASSUME TypeInv, Openable, Consistent, TwoMaps(OpenTable)
  PROVE  \A e \in Area : OpenTable[e] = MAP => e \in {OpenMapBlock[1], OpenMapBlock[2]}
<1>1. Candidates # {} /\ Cardinality(MapBlocks) >= 2
  BY DEF Openable
<1>2. \A b \in MapBlocks : OpenTable[b] = MAP
  <2>1. \A b \in Found : b \in Area /\ IsMapBlock(b)
    BY DEF Found
  <2>2. \A b \in Found : OpenTable[b] = MAP
    BY <1>1, <2>1 DEF Consistent
  <2> QED
    BY <2>2 DEF MapBlocks
<1>3. MapBlocks \in SUBSET Area
  BY <1>1, MapBlocksType
<1>4. OpenMapBlock[1] \in MapBlocks /\ OpenMapBlock[2] \in MapBlocks
      /\ OpenMapBlock[1] # OpenMapBlock[2]
  BY <1>1, <1>3, LowestTwoDiffer DEF OpenMapBlock
<1>5. PICK x, y \in Area : \A e \in Area : OpenTable[e] = MAP => e \in {x, y}
  BY DEF TwoMaps
<1> QED
  BY <1>2, <1>3, <1>4, <1>5

LEMMA FormatMaps ==
  ASSUME Formattable
  PROVE  \A e \in Area : FormatTable[e] = MAP => e \in {NewMapBlocks[1], NewMapBlocks[2]}
<1> DEFINE spare == (Area \ marked) \ {NewMapBlocks[1], NewMapBlocks[2]}
<1> DEFINE Takes(e, u) == Cardinality({v \in InitialBad : v < u})
                            = Cardinality({f \in spare : f > e})
<1>1. FormatTable =
        [e \in Area |-> IF e \in marked THEN BAD
                        ELSE IF e \notin spare THEN MAP
                        ELSE IF \E u \in InitialBad : Takes(e, u)
                             THEN CHOOSE u \in InitialBad : Takes(e, u)
                             ELSE FREE]
  BY DEF FormatTable
<1>2. InitialBad \subseteq User
  BY DEF InitialBad
<1>3. ASSUME NEW e \in Area, FormatTable[e] = MAP PROVE e \notin marked /\ e \notin spare
  <2> HIDE DEF Takes, spare
  <2>1. (\E u \in InitialBad : Takes(e, u)) =>
          (CHOOSE u \in InitialBad : Takes(e, u)) \in User
    BY <1>2
  <2> QED
    BY <1>1, <1>3, <2>1, SpecialEntries
<1> QED
  BY <1>3

\* What a step other than an opening or a format makes of the table.
LEMMA MapsKeptStep ==
  ASSUME ReservedInv, MapLogInv, MapsAreTwo, [Next]_vars, ~ adrift,
         ~ Boot, ~ Reformat, ~ PowerLoss, pc' \notin {"off", "dead"}
  PROVE  /\ \A e \in Area : SwapTable'[e] = MAP => e \in {MapBlock'[1], MapBlock'[2]}
         /\ Phase' = "install" => op'.org \in User
<1> USE DEF ReservedInv, MapLogInv, TypeInv, TypeOK
<1>1. pc \notin {"off", "dead"}
  BY DEF Next, Step, FormatSecondBlock, GetFreeBlock, EraseNew, CopyPages, Register,
         InstallOriginal, EraseMap, MarkMap, WriteAll, WriteOne, MarkDelayed, Done,
         ProgramUser, ProgramUserFails, EraseUser, EraseUserFails, Idle, vars, call
<1>2. ASSUME UNCHANGED <<SwapTable, MapBlock>>
      PROVE  \A e \in Area : SwapTable'[e] = MAP => e \in {MapBlock'[1], MapBlock'[2]}
  BY <1>1, <1>2, SameMapsKept
<1>3. ASSUME Phase' = Phase, UNCHANGED op PROVE Phase' = "install" => op'.org \in User
  BY <1>3 DEF MapsAreTwo
<1>4. CASE EraseMap
  <2>1. Phase' = Phase
    BY <1>4 DEF EraseMap, Phase, Saving, CallTypes
  <2> QED
    BY <1>2, <1>3, <1>4, <2>1 DEF EraseMap, ram
<1>5. CASE MarkMap
  <2>1. ReplaceMapBlock(MapTarget, save) /\ Saving
    BY <1>5 DEF MarkMap, Saving
  <2>2. (Phase' = Phase /\ UNCHANGED op) \/ Phase' \in {"idle", "dead"}
    BY <2>1, MapTargetType, ReplaceMapBlockThins
  <2> QED
    BY <1>1, <1>3, <2>1, <2>2, ReplaceMapBlockMaps
<1>6. CASE WriteAll
  <2>1. Phase' = Phase
    BY <1>6 DEF WriteAll, SaveEnds, Phase, Saving, CallTypes
  <2> QED
    BY <1>2, <1>3, <1>6, <2>1 DEF WriteAll
<1>7. CASE WriteOne
  <2>1. CASE SaveEnds /\ UNCHANGED <<SwapTable, FreeBlockList, MapBlock, save, op, hist>>
    <3>1. Phase' = Phase
      BY <1>7, <2>1 DEF WriteOne, SaveEnds, Phase, Saving, CallTypes
    <3> QED
      BY <1>2, <1>3, <2>1, <3>1
  <2>2. CASE RetireCurrent
    <3>1. [save EXCEPT !.delayed = MapTarget].next = save.next /\ Saving
      BY <1>7 DEF CallTypes, WriteOne, Saving
    <3>2. (Phase' = Phase /\ UNCHANGED op) \/ Phase' \in {"idle", "dead"}
      BY <2>2, <3>1, MapTargetType, ReplaceMapBlockThins DEF RetireCurrent
    <3> QED
      BY <1>1, <1>3, <2>2, <3>2, ReplaceMapBlockMaps DEF RetireCurrent
  <2> QED
    BY <1>7, <2>1, <2>2 DEF WriteOne
<1>8. CASE MarkDelayed
  <2>1. Phase' = Phase
    BY <1>8 DEF MarkDelayed, Phase, Saving, CallTypes
  <2> QED
    BY <1>2, <1>3, <1>8, <2>1 DEF MarkDelayed, ram
<1>9. CASE GetFreeBlock
  <2>1. Phase' \in {"erase_new", "register", "idle", "dead"}
    BY <1>9 DEF GetFreeBlock, NoFreeBlock, Abort, AfterGetFree, Phase, Saving
  <2> QED
    BY <1>2, <1>9, <2>1 DEF GetFreeBlock
<1>10. CASE EraseNew \/ CopyPages
  <2>1. CASE RejectNewBlock
    <3>1. Phase' = "get_free" /\ UNCHANGED MapBlock
      BY <2>1, StartSavePhase DEF RejectNewBlock
    <3>2. \A e \in Area : SwapTable'[e] = MAP => SwapTable[e] = MAP
      BY <2>1, SpecialEntries DEF RejectNewBlock, RamTypes
    <3> QED
      BY <1>1, <3>1, <3>2, SameMapsKept
  <2>2. CASE UNCHANGED ram /\ pc' \in {"copy", "register"}
    <3>1. Phase' \in {"copy", "register"}
      BY <2>2 DEF Phase, Saving
    <3> QED
      BY <1>2, <2>2, <3>1 DEF ram
  <2> QED
    BY <1>10, <2>1, <2>2 DEF EraseNew, CopyPages
<1>11. CASE Register \/ InstallOriginal
  <2>1. Phase \in {"register", "install"} /\ op.new \in Area
    BY <1>11 DEF Register, InstallOriginal, Phase, Saving, CallShape
  <2>2. op.bad \in Area /\ Phase = "register" => SwapTable[op.bad] \in User
    BY <1>1 DEF Reserved, BadKeepsEntry
  <2>3. Phase = "install" => op.org \in User
    BY DEF MapsAreTwo
  <2>4. ASSUME NEW T, Install(T), \A e \in Area : T[e] = MAP => SwapTable[e] = MAP
        PROVE  /\ \A e \in Area : SwapTable'[e] = MAP => e \in {MapBlock'[1], MapBlock'[2]}
               /\ Phase' = "done"
    BY <1>1, <2>4, StartSavePhase, SameMapsKept DEF Install
  <2>5. CASE op.bad \in User /\ Install([SwapTable EXCEPT ![op.new] = op.bad])
    <3>1. \A e \in Area : [SwapTable EXCEPT ![op.new] = op.bad][e] = MAP => SwapTable[e] = MAP
      BY <2>5, SpecialEntries DEF RamTypes
    <3> QED
      BY <2>4, <2>5, <3>1
  <2>6. CASE op.bad \in Area /\ Install(Moved) /\ Register
    <3>1. Phase = "register"
      BY <2>6 DEF Register, Phase, Saving
    <3>2. \A e \in Area : Moved[e] = MAP => SwapTable[e] = MAP
      BY <2>1, <2>2, <2>6, <3>1, SpecialEntries DEF RamTypes, Moved
    <3> QED
      BY <2>4, <2>6, <3>2
  <2>7. CASE /\ Register /\ op.bad \in Area
             /\ op' = [op EXCEPT !.org = SwapTable[op.bad]]
             /\ SwapTable' = [SwapTable EXCEPT ![op.bad] = BAD]
             /\ StartSave(MAP_OFFSET(op.bad), "install")
    <3>1. op'.org \in User /\ UNCHANGED MapBlock
      BY <2>2, <2>7, StartSavePhase DEF Register, Phase, Saving, CallTypes
    <3>2. \A e \in Area : SwapTable'[e] = MAP => SwapTable[e] = MAP
      BY <2>7, SpecialEntries DEF RamTypes
    <3> QED
      BY <1>1, <3>1, <3>2, SameMapsKept
  <2>8. CASE InstallOriginal
    <3>1. Phase = "install"
      BY <2>8 DEF InstallOriginal, Phase, Saving
    <3>2. \A e \in Area : [SwapTable EXCEPT ![op.new] = op.org][e] = MAP => SwapTable[e] = MAP
      BY <2>3, <3>1, SpecialEntries DEF RamTypes
    <3> QED
      BY <2>4, <2>8, <3>2 DEF InstallOriginal
  <2> QED
    BY <1>11, <2>5, <2>6, <2>7, <2>8 DEF Register
<1>12. CASE Done \/ FormatSecondBlock
  <2>1. Phase' \in {"idle", "done"}
    BY <1>12 DEF Done, FormatSecondBlock, Phase, Saving, NoSave
  <2> QED
    BY <1>2, <1>12, <2>1 DEF Done, FormatSecondBlock
<1>13. CASE \E u \in User : \/ ProgramUser(u) \/ ProgramUserFails(u)
                            \/ EraseUser(u) \/ EraseUserFails(u)
  <2>1. UNCHANGED ram /\ Phase' \in {"idle", "get_free"}
    BY <1>13 DEF ProgramUser, ProgramUserFails, EraseUser, EraseUserFails, Idle, Replace,
       call, Phase, Saving
  <2> QED
    BY <1>2, <2>1 DEF ram
<1>14. CASE UNCHANGED vars
  BY <1>2, <1>3, <1>14 DEF vars, ram, call, Phase, Saving
<1> QED
  BY <1>4, <1>5, <1>6, <1>7, <1>8, <1>9, <1>10, <1>11, <1>12, <1>13, <1>14 DEF Next, Step

LEMMA MapsAreTwoStep ==
  ASSUME ReservedInv, MapLogInv, MapsAreTwo, [Next]_vars PROVE MapsAreTwo'
<1> USE DEF ReservedInv, MapLogInv, TypeInv, TypeOK
<1> SUFFICES ASSUME ~ adrift' PROVE MapsAreTwo'
  BY DEF MapsAreTwo
<1>1. ~ adrift
  BY DEF Next, Step, Boot, BM_Open, BM_Format, Reformat, PowerLoss, FormatSecondBlock,
         GetFreeBlock, EraseNew, CopyPages, Register, InstallOriginal, EraseMap, MarkMap,
         WriteAll, WriteOne, MarkDelayed, Done, ProgramUser, ProgramUserFails, EraseUser,
         EraseUserFails, vars, hist, NoFreeBlock, Abort, RejectNewBlock, Install,
         ReplaceMapBlock, RetireCurrent
<1>2. ASSUME NEW b \in Area, Whole(pages'[b]) PROVE TwoMaps(TableIn(pages'[b]))
  <2>1. CASE Whole(pages[b]) /\ TableIn(pages'[b]) = TableIn(pages[b])
    BY <1>1, <2>1 DEF MapsAreTwo
  <2>2. CASE pc \in {"write_all", "write_one"} /\ TableIn(pages'[b]) = SwapTable
    <3>1. MapBlock[1] \in Area /\ MapBlock[2] \in Area
      BY DEF RamTypes
    <3> QED
      BY <1>1, <2>2, <3>1 DEF MapsAreTwo, TwoMaps
  <2> QED
    BY <1>2, <2>1, <2>2, NextTables
<1>3. /\ pc' \notin {"off", "dead"} =>
           \A e \in Area : SwapTable'[e] = MAP => e \in {MapBlock'[1], MapBlock'[2]}
      /\ Phase' = "install" => op'.org \in User
  <2>1. CASE Boot /\ BM_Open
    <3>1. Openable /\ Consistent /\ Phase' = "idle"
      BY <2>1 DEF Boot, BM_Open, BM_Format, Phase, Saving
    <3>2. TwoMaps(OpenTable)
      BY <1>1, <3>1, OpenReadsLog DEF Openable, MapsAreTwo
    <3> QED
      BY <2>1, <3>1, <3>2, OpenMaps DEF BM_Open
  <2>2. CASE BM_Format
    BY <2>2, FormatMaps DEF BM_Format, Phase, Saving, NoSave
  <2>3. CASE PowerLoss
    BY <2>3 DEF PowerLoss, Phase, Saving
  <2>4. CASE pc' \in {"off", "dead"}
    BY <2>4 DEF Phase, Saving
  <2>5. CASE ~ Boot /\ ~ Reformat /\ ~ PowerLoss /\ pc' \notin {"off", "dead"}
    BY <1>1, <2>5, MapsKeptStep
  <2> QED
    BY <2>1, <2>2, <2>3, <2>4, <2>5 DEF Boot, Reformat
<1> QED
  BY <1>2, <1>3 DEF MapsAreTwo

LEMMA TidyStep ==
  ASSUME TidyInv, [Next]_vars PROVE TidyInv'
BY ReservedStep, MapLogStep, KeptStep, MapsAreTwoStep DEF TidyInv

LEMMA TidyInit ==
  ASSUME Init PROVE TidyInv
<1>1. ReservedInv
  BY TypeInvInit DEF ReservedInv, Reserved, Init
<1>2. MapLogInv
  BY MapLogInit
<1>3. Kept
  BY DEF Init, Kept, Listening
<1>4. MapsAreTwo
  <2>1. \A b \in Area : pages[b] = << >>
    BY DEF Init, Block
  <2> QED
    BY <2>1, EmptyLog DEF Init, MapsAreTwo, Phase, Saving
<1> QED
  BY <1>1, <1>2, <1>3, <1>4 DEF TidyInv

LEMMA TidyInvariant == Spec => []TidyInv
<1>1. Init => TidyInv
  BY TidyInit
<1>2. TidyInv /\ [Next]_vars => TidyInv'
  BY TidyStep
<1> QED
  BY <1>1, <1>2, PTL DEF Spec

(* Every page is programmed where the log of the map block ends: the next  *)
(* page is blank, and the pages before it can all be read.                 *)
THEOREM BlankPages == Spec => []AppendsOnBlank
<1>1. TidyInv => AppendsOnBlank
  <2> SUFFICES ASSUME TidyInv, ~ adrift PROVE AppendsOnBlank
    BY DEF AppendsOnBlank
  <2>1. pc = "write_all" => Blank(MapTarget, save.page)
    BY DEF TidyInv, MapLogInv, LogInv, Rewritten, Blank
  <2>2. pc = "write_one" => Blank(MapTarget, CurMapPageNum)
    BY DEF TidyInv, Kept, Clean, Blank
  <2> QED
    BY <2>1, <2>2 DEF AppendsOnBlank
<1> QED
  BY <1>1, TidyInvariant, PTL

(* Between calls no block stays reserved for the map but the two that the  *)
(* manager writes, however many map blocks have failed.                    *)
THEOREM MapBlocksKnown == Spec => []MapBlocksAgree
<1>1. TidyInv => MapBlocksAgree
  BY DEF TidyInv, MapsAreTwo, MapBlocksAgree, Idle
<1> QED
  BY <1>1, TidyInvariant, PTL

----------------------------------------------------------------------------
(* Factory-bad blocks: a format finds them by their marks, and from then   *)
(* on every table, in memory and on the chip, leads away from them.        *)

\* The blocks of S that lie above or below a block.
Over(S, e)  == {f \in S : f > e}
Under(S, u) == {v \in S : v < u}

LEMMA SplitAt ==
  ASSUME NEW S \in SUBSET Nat, IsFiniteSet(S), NEW x \in S, NEW y \in S, x < y
  PROVE  /\ Cardinality(Over(S, x)) \in Nat /\ Cardinality(Under(S, y)) \in Nat
         /\ Cardinality(Under(S, x)) < Cardinality(Under(S, y))
<1>1. Under(S, x) \in SUBSET Under(S, y) /\ x \in Under(S, y) /\ x \notin Under(S, x)
  <2>1. \A v \in S : v \in Nat
    OBVIOUS
  <2>2. \A v \in S : v < x => v < y
    BY <2>1
  <2>3. ~ (x < x)
    BY <2>1
  <2> QED
    BY <2>2, <2>3 DEF Under
<1>2. IsFiniteSet(Under(S, y)) /\ IsFiniteSet(Over(S, x))
  BY FS_Subset DEF Under, Over
<1>3. Under(S, x) # Under(S, y)
  BY <1>1
<1>4. IsFiniteSet(Under(S, x)) /\ Cardinality(Under(S, x)) < Cardinality(Under(S, y))
  BY <1>1, <1>2, <1>3, FS_Subset, FS_CardinalityType
<1> QED
  BY <1>2, <1>4, FS_CardinalityType

\* The least element above another has one less above it.
LEMMA NextAbove ==
  ASSUME NEW S \in SUBSET Nat, IsFiniteSet(S), NEW P \in SUBSET S, P # {},
         \A x \in P : \A y \in S : y > x => y \in P
  PROVE  /\ Lowest(P) \in P
         /\ Cardinality(Over(S, Lowest(P))) = Cardinality(P) - 1
         /\ Cardinality(P) \in Nat
<1>1. IsFiniteSet(P) /\ P \subseteq Nat
  BY FS_Subset
<1>2. Lowest(P) \in P /\ \A y \in P : Lowest(P) <= y
  BY <1>1, LowestType
<1>3. Over(S, Lowest(P)) = P \ {Lowest(P)}
  <2>0. \A y \in P : y \in Nat /\ Lowest(P) \in Nat
    BY <1>1, <1>2
  <2>1. \A y \in S : y > Lowest(P) => y \in P
    BY <1>2
  <2>3. ~ (Lowest(P) > Lowest(P))
    <3>1. Lowest(P) \in Nat
      BY <1>2, <2>0
    <3> QED
      BY <3>1
  <2>2. \A y \in P : y # Lowest(P) => y > Lowest(P)
    BY <1>2, <2>0
  <2> QED
    BY <1>2, <2>1, <2>2, <2>3 DEF Over
<1> QED
  BY <1>1, <1>2, <1>3, FS_RemoveElement, FS_CardinalityType

LEMMA NthFromTop ==
  ASSUME NEW S \in SUBSET Nat, IsFiniteSet(S), NEW k \in Nat, k < Cardinality(S)
  PROVE  \E e \in S : Cardinality(Over(S, e)) = k
<1> DEFINE A == {e \in S : Cardinality(Over(S, e)) >= k}
<1>1. A \in SUBSET S /\ IsFiniteSet(A) /\ A \subseteq Nat
  <2>1. A \in SUBSET S
    OBVIOUS
  <2>2. IsFiniteSet(A)
    <3> HIDE DEF A
    <3> QED
      BY <2>1, FS_Subset
  <2> QED
    BY <2>1, <2>2
<1>2. A # {}
  <2>1. S # {}
    BY FS_EmptySet
  <2>2. /\ Lowest(S) \in S
        /\ Cardinality(Over(S, Lowest(S))) = Cardinality(S) - 1
        /\ Cardinality(S) \in Nat
    BY <2>1, NextAbove
  <2> QED
    BY <2>2
<1>3. Highest(A) \in A /\ \A y \in A : y <= Highest(A)
  <2> HIDE DEF A
  <2>1. A \subseteq Int
    BY <1>1
  <2> QED
    BY <1>1, <1>2, <2>1, HighestType
<1> DEFINE e == Highest(A)
<1> DEFINE P == Over(S, e)
<1>4. e \in S /\ Cardinality(P) >= k /\ \A y \in A : y <= e
  BY <1>3
<1> HIDE DEF e
<1>5. P \in SUBSET S /\ (\A x \in P : \A y \in S : y > x => y \in P)
  BY <1>4 DEF Over
<1>6. Cardinality(P) \in Nat
  BY <1>5, FS_Subset, FS_CardinalityType
<1>7. ASSUME Cardinality(P) > k PROVE FALSE
  <2>1. P # {}
    <3> HIDE DEF P
    <3> QED
      BY <1>6, <1>7, FS_EmptySet
  <2>2. Lowest(P) \in P /\ Cardinality(Over(S, Lowest(P))) = Cardinality(P) - 1
    <3> HIDE DEF P
    <3> QED
      BY <2>1, <1>5, NextAbove
  <2>3. Lowest(P) \in S /\ Lowest(P) > e
    <3>1. \A x \in P : x \in S /\ x > e
      BY DEF Over
    <3> HIDE DEF P
    <3> QED
      BY <2>2, <3>1
  <2>4. Lowest(P) \in A
    <3> HIDE DEF P
    <3> QED
      BY <1>6, <1>7, <2>2, <2>3
  <2>5. Lowest(P) <= e
    <3> HIDE DEF P, A
    <3> QED
      BY <1>4, <2>4
  <2>6. Lowest(P) \in Nat /\ e \in Nat
    <3> HIDE DEF P
    <3> QED
      BY <1>4, <2>3
  <2> HIDE DEF P, A
  <2> QED
    BY <2>3, <2>5, <2>6
<1> HIDE DEF P
<1>8. Cardinality(P) = k
  BY <1>4, <1>6, <1>7
<1> QED
  BY <1>4, <1>8 DEF P

Shuns(T) ==
  /\ \A e \in Area \cap FactoryBad : T[e] = BAD
  /\ \A u \in User \cap FactoryBad : \E e \in Area : T[e] = u

LEMMA FormatShuns ==
  ASSUME TypeInv, Formattable, FactoryBad \subseteq marked
  PROVE  Shuns(FormatTable)
<1> DEFINE spare == (Area \ marked) \ {NewMapBlocks[1], NewMapBlocks[2]}
<1> DEFINE Takes(e, u) == Cardinality(Under(InitialBad, u)) = Cardinality(Over(spare, e))
<1>1. FormatTable =
        [e \in Area |-> IF e \in marked THEN BAD
                        ELSE IF e \notin spare THEN MAP
                        ELSE IF \E u \in InitialBad : Takes(e, u)
                             THEN CHOOSE u \in InitialBad : Takes(e, u)
                             ELSE FREE]
  BY DEF FormatTable, Over, Under
<1>2. /\ InitialBad \in SUBSET Nat /\ IsFiniteSet(InitialBad)
      /\ Cardinality(InitialBad) \in Nat
  <2>1. User \subseteq Nat /\ IsFiniteSet(User)
    BY AreaNumbers
  <2>2. InitialBad \in SUBSET User
    BY DEF InitialBad
  <2> QED
    BY <2>1, <2>2, FS_Subset, FS_CardinalityType
<1>3. /\ spare \in SUBSET Area /\ IsFiniteSet(spare) /\ spare \in SUBSET Nat
      /\ Cardinality(InitialBad) <= Cardinality(spare)
  <2>1. IsFiniteSet(Area \ marked) /\ Area \ marked \in SUBSET Area
    BY AreaNumbers, FS_Subset
  <2>2. Cardinality(Area \ marked) >= 2
        /\ Cardinality(InitialBad) <= Cardinality(Area \ marked) - 2
    BY DEF Formattable
  <2>3. NewMapBlocks[1] \in Area \ marked /\ NewMapBlocks[2] \in Area \ marked
        /\ NewMapBlocks[1] # NewMapBlocks[2]
    BY <2>1, <2>2, LowestTwoDiffer DEF NewMapBlocks
  <2>4. /\ IsFiniteSet((Area \ marked) \ {NewMapBlocks[1]})
        /\ Cardinality((Area \ marked) \ {NewMapBlocks[1]}) = Cardinality(Area \ marked) - 1
    BY <2>1, <2>3, FS_RemoveElement
  <2>5. spare = ((Area \ marked) \ {NewMapBlocks[1]}) \ {NewMapBlocks[2]}
    OBVIOUS
  <2>6. IsFiniteSet(spare) /\ Cardinality(spare) = Cardinality(Area \ marked) - 1 - 1
    <3> DEFINE one == (Area \ marked) \ {NewMapBlocks[1]}
    <3>1. IsFiniteSet(one) /\ Cardinality(one) = Cardinality(Area \ marked) - 1
      BY <2>4
    <3>2. NewMapBlocks[2] \in one /\ spare = one \ {NewMapBlocks[2]}
      BY <2>3
    <3> HIDE DEF one, spare
    <3> QED
      BY <3>1, <3>2, FS_RemoveElement
  <2>7. spare \in SUBSET Area
    BY <2>1, <2>5
  <2> HIDE DEF spare
  <2> QED
    BY <1>2, <2>1, <2>2, <2>6, <2>7, AreaNumbers, FS_CardinalityType
<1>4. ASSUME NEW u \in InitialBad, NEW w \in InitialBad,
             Cardinality(Under(InitialBad, u)) = Cardinality(Under(InitialBad, w))
      PROVE  u = w
  <2>1. ~ (u < w) /\ ~ (w < u)
    BY <1>2, <1>4, SplitAt
  <2> QED
    BY <1>2, <2>1
<1>5. ASSUME NEW u \in InitialBad PROVE \E e \in Area : FormatTable[e] = u
  <2>1. /\ Cardinality(Under(InitialBad, u)) \in Nat
        /\ Cardinality(Under(InitialBad, u)) < Cardinality(InitialBad)
    <3>1. Under(InitialBad, u) \in SUBSET InitialBad /\ Under(InitialBad, u) # InitialBad
      BY <1>2 DEF Under
    <3> QED
      BY <1>2, <3>1, FS_Subset, FS_CardinalityType
  <2>2. Cardinality(spare) \in Nat
    <3> HIDE DEF spare
    <3> QED
      BY <1>3, FS_CardinalityType
  <2>3. PICK e \in spare : Cardinality(Over(spare, e)) = Cardinality(Under(InitialBad, u))
    <3> HIDE DEF spare
    <3> QED
      BY <1>2, <1>3, <2>1, <2>2, NthFromTop
  <2>4. e \in Area /\ e \notin marked /\ Takes(e, u)
    BY <2>3
  <2>5. FormatTable[e] = CHOOSE w \in InitialBad : Takes(e, w)
    <3> HIDE DEF spare, Takes
    <3> QED
      BY <1>1, <2>3, <2>4
  <2>6. FormatTable[e] \in InitialBad /\ Takes(e, FormatTable[e])
    <3> HIDE DEF spare, Takes
    <3> QED
      BY <2>4, <2>5
  <2>7. FormatTable[e] = u
    BY <1>4, <2>4, <2>6
  <2> QED
    BY <2>4, <2>7
<1>6. \A u \in User \cap FactoryBad : u \in InitialBad
  BY DEF InitialBad
<1>7. \A e \in Area \cap FactoryBad : FormatTable[e] = BAD
  <2> HIDE DEF spare, Takes
  <2> QED
    BY <1>1
<1> QED
  BY <1>5, <1>6, <1>7 DEF Shuns

\* With one map page no replacement takes two saves, and no table on the chip
\* lacks the entry that one of them moves.
Shunned ==
  ~ adrift =>
    /\ FactoryBad \subseteq marked
    /\ \A b \in Area : Whole(pages[b]) => Shuns(TableIn(pages[b]))
    /\ pc \notin {"off", "dead"} =>
         Shuns(SwapTable) /\ MapBlock[1] \notin FactoryBad /\ MapBlock[2] \notin FactoryBad
    /\ Phase # "install"

ShunnedInv == TidyInv /\ Shunned

LEMMA ShunsLeadsAway ==
  ASSUME NEW T \in [Area -> Entry], Shuns(T), NEW u \in User
  PROVE  BM_GetSwappingBlock(T, u) \notin FactoryBad
<1>1. CASE \E e \in Area : T[e] = u
  <2>1. BM_GetSwappingBlock(T, u) \in Area /\ T[BM_GetSwappingBlock(T, u)] = u
    BY <1>1, SwappingBlockIs
  <2> QED
    BY <2>1, SpecialEntries DEF Shuns
<1>2. CASE \A e \in Area : T[e] # u
  <2>1. BM_GetSwappingBlock(T, u) = u
    BY <1>2, SwappingBlockIs
  <2> QED
    BY <1>2, <2>1 DEF Shuns
<1> QED
  BY <1>1, <1>2

\* No operation takes the mark of a factory-bad block.
LEMMA MarksKept ==
  ASSUME ShunnedInv, ~ adrift, [Next]_vars
  PROVE  FactoryBad \subseteq marked'
<1> USE DEF ShunnedInv, TidyInv, ReservedInv, TypeInv, TypeOK
<1>1. ASSUME NEW b, b \notin FactoryBad, EraseOk(b) \/ EraseFail(b) \/ CutErase(b)
      PROVE  FactoryBad \subseteq marked'
  BY <1>1 DEF EraseOk, EraseFail, CutErase, Shunned
<1>2. CASE UNCHANGED marked
  BY <1>2 DEF Shunned
<1>3. pc = "erase_map" => MapTarget \notin FactoryBad
  BY DEF Shunned, MapTarget, RamTypes
<1>4. pc = "erase_new" => op.new \notin FactoryBad
  BY SpecialEntries DEF Shunned, Shuns, Reserved, NewIsReserved, CallShape, Phase, Saving
<1>5. CASE EraseMap
  BY <1>1, <1>3, <1>5 DEF EraseMap
<1>6. CASE EraseNew
  BY <1>1, <1>4, <1>6 DEF EraseNew
<1>7. CASE PowerLoss
  BY <1>1, <1>2, <1>3, <1>4, <1>7 DEF PowerLoss, Interrupted, flash, Programmed
<1>8. CASE \E u \in User : \/ ProgramUser(u) \/ ProgramUserFails(u)
                           \/ EraseUser(u) \/ EraseUserFails(u)
  <2>1. PICK u \in User : \/ ProgramUser(u) \/ ProgramUserFails(u)
                          \/ EraseUser(u) \/ EraseUserFails(u)
    BY <1>8
  <2>2. BlockOf(u) \notin FactoryBad
    BY <2>1, ShunsLeadsAway
    DEF Shunned, BlockOf, RamTypes, ProgramUser, ProgramUserFails, EraseUser,
        EraseUserFails, Idle
  <2> QED
    BY <1>1, <1>2, <2>1, <2>2
    DEF ProgramUser, ProgramUserFails, EraseUser, EraseUserFails, flash
<1>9. CASE MarkMap \/ MarkDelayed
  BY <1>9 DEF MarkMap, MarkDelayed, MarkBadBlock, Shunned
<1>10. CASE WriteAll \/ WriteOne
  BY <1>2, <1>10
  DEF WriteAll, WriteOne, WriteMapPage, WriteMapPageFails, ProgramFail, Programmed, flash
<1>11. CASE \/ Boot \/ Reformat \/ FormatSecondBlock \/ GetFreeBlock \/ CopyPages
            \/ Register \/ InstallOriginal \/ Done \/ UNCHANGED vars
  BY <1>2, <1>11
  DEF Boot, BM_Open, BM_Format, Reformat, FormatSecondBlock, GetFreeBlock, CopyPages,
      Register, InstallOriginal, Install, Done, vars, flash
<1> QED
  BY <1>5, <1>6, <1>7, <1>8, <1>9, <1>10, <1>11 DEF Next, Step

\* A table with the bad entries and the entries of user blocks of another one.
Retains(T, U) == \A e \in Area : T[e] \in User \cup {BAD} => U[e] = T[e]

LEMMA RetainsShuns ==
  ASSUME NEW T, NEW U, Shuns(T), Retains(T, U) PROVE Shuns(U)
BY SpecialEntries DEF Shuns, Retains

LEMMA ReplaceMapBlockShuns ==
  ASSUME ReservedInv, Shunned, ~ adrift, pc \notin {"off", "dead"},
         NEW sav, ReplaceMapBlock(MapTarget, sav)
  PROVE  Shuns(SwapTable') /\ MapBlock'[1] \notin FactoryBad /\ MapBlock'[2] \notin FactoryBad
<1> USE DEF ReservedInv, TypeInv, TypeOK
<1>1. MapTarget \in Area /\ SwapTable[MapTarget] \in {MAP, BAD} /\ MapTarget \notin FactoryBad
      /\ CurMapBlockIdx \in 1 .. 2
  BY MapTargetType DEF Reserved, MapIsKnown, MapTarget, Shunned, RamTypes
<1>2. Shuns(SwapTable) /\ MapBlock[1] \notin FactoryBad /\ MapBlock[2] \notin FactoryBad
  BY DEF Shunned
<1>3. CASE SwapTable' = [SwapTable EXCEPT ![MapTarget] = BAD] /\ UNCHANGED MapBlock
  <2>1. Retains(SwapTable, SwapTable')
    BY <1>1, <1>3, SpecialEntries DEF Retains, RamTypes
  <2> QED
    BY <1>2, <1>3, <2>1, RetainsShuns
<1>4. CASE /\ FreeBlockList # {}
           /\ LET new == Lowest(FreeBlockList)
              IN  /\ SwapTable' = Retired(MapTarget, new)
                  /\ FreeBlockList' = FreeBlockList \ {new}
                  /\ MapBlock' = [MapBlock EXCEPT ![CurMapBlockIdx] = new]
  <2> DEFINE new == Lowest(FreeBlockList)
  <2>1. new \in FreeBlockList
    BY <1>4, AreaNumbers, LowestType DEF RamTypes
  <2>2. SwapTable' = Retired(MapTarget, new) /\ MapBlock' = [MapBlock EXCEPT ![CurMapBlockIdx] = new]
    BY <1>4
  <2> HIDE DEF new
  <2>3. new \in Area /\ SwapTable[new] = FREE
    BY <2>1 DEF Reserved, FreeListIsFree, RamTypes
  <2>4. new \notin FactoryBad
    BY <1>2, <2>3, SpecialEntries DEF Shuns
  <2>5. \A e \in Area \ {MapTarget, new} : SwapTable'[e] = SwapTable[e]
    BY <1>1, <2>2, <2>3 DEF Retired, RamTypes
  <2>6. SwapTable'[MapTarget] \in {MAP, BAD} /\ SwapTable'[new] = MAP
    BY <1>1, <2>2, <2>3 DEF Retired, RamTypes
  <2>7. Shuns(SwapTable')
    <3>1. \A e \in Area \cap FactoryBad : SwapTable'[e] = BAD
      BY <1>1, <1>2, <2>4, <2>5 DEF Shuns
    <3>2. \A u \in User \cap FactoryBad : \E e \in Area : SwapTable'[e] = u
      <4> SUFFICES ASSUME NEW u \in User \cap FactoryBad
                   PROVE  \E e \in Area : SwapTable'[e] = u
        OBVIOUS
      <4>1. PICK e \in Area : SwapTable[e] = u
        BY <1>2 DEF Shuns
      <4>2. e # MapTarget /\ e # new
        BY <1>1, <2>3, <4>1, SpecialEntries
      <4> QED
        BY <2>5, <4>1, <4>2
    <3> QED
      BY <3>1, <3>2 DEF Shuns
  <2> QED
    BY <1>1, <1>2, <2>2, <2>4, <2>7 DEF RamTypes
<1> QED
  BY <1>3, <1>4 DEF ReplaceMapBlock

LEMMA ShunsKeptStep ==
  ASSUME NumMapPages = 1, ShunnedInv, [Next]_vars, ~ adrift,
         ~ Boot, ~ Reformat, ~ PowerLoss, pc' \notin {"off", "dead"}
  PROVE  /\ Shuns(SwapTable') /\ MapBlock'[1] \notin FactoryBad /\ MapBlock'[2] \notin FactoryBad
         /\ Phase' # "install"
<1> USE DEF ShunnedInv, TidyInv, ReservedInv, TypeInv, TypeOK
<1>1. pc \notin {"off", "dead"}
  BY DEF Next, Step, FormatSecondBlock, GetFreeBlock, EraseNew, CopyPages, Register,
         InstallOriginal, EraseMap, MarkMap, WriteAll, WriteOne, MarkDelayed, Done,
         ProgramUser, ProgramUserFails, EraseUser, EraseUserFails, Idle, vars, call
<1>2. /\ Phase # "install" /\ Shuns(SwapTable)
      /\ MapBlock[1] \notin FactoryBad /\ MapBlock[2] \notin FactoryBad
  BY <1>1 DEF Shunned
<1> DEFINE Goal == /\ Shuns(SwapTable')
                   /\ MapBlock'[1] \notin FactoryBad /\ MapBlock'[2] \notin FactoryBad
                   /\ Phase' # "install"
<1>3. ASSUME UNCHANGED <<SwapTable, MapBlock>>, Phase' # "install" PROVE Goal
  BY <1>2, <1>3
<1>4. CASE EraseMap
  <2>1. Phase' = Phase
    BY <1>4 DEF EraseMap, Phase, Saving, CallTypes
  <2> QED
    BY <1>2, <1>3, <1>4, <2>1 DEF EraseMap, ram
<1>5. CASE MarkMap
  <2>1. ReplaceMapBlock(MapTarget, save) /\ Saving
    BY <1>5 DEF MarkMap, Saving
  <2>2. (Phase' = Phase /\ UNCHANGED op) \/ Phase' \in {"idle", "dead"}
    BY <2>1, MapTargetType, ReplaceMapBlockThins
  <2> QED
    BY <1>1, <1>2, <2>1, <2>2, ReplaceMapBlockShuns
<1>6. CASE WriteAll
  <2>1. Phase' = Phase
    BY <1>6 DEF WriteAll, SaveEnds, Phase, Saving, CallTypes
  <2> QED
    BY <1>2, <1>3, <1>6, <2>1 DEF WriteAll
<1>7. CASE WriteOne
  <2>1. CASE SaveEnds /\ UNCHANGED <<SwapTable, FreeBlockList, MapBlock, save, op, hist>>
    <3>1. Phase' = Phase
      BY <1>7, <2>1 DEF WriteOne, SaveEnds, Phase, Saving, CallTypes
    <3> QED
      BY <1>2, <1>3, <2>1, <3>1
  <2>2. CASE RetireCurrent
    <3>1. [save EXCEPT !.delayed = MapTarget].next = save.next /\ Saving
      BY <1>7 DEF CallTypes, WriteOne, Saving
    <3>2. (Phase' = Phase /\ UNCHANGED op) \/ Phase' \in {"idle", "dead"}
      BY <2>2, <3>1, MapTargetType, ReplaceMapBlockThins DEF RetireCurrent
    <3> QED
      BY <1>1, <1>2, <2>2, <3>2, ReplaceMapBlockShuns DEF RetireCurrent
  <2> QED
    BY <1>7, <2>1, <2>2 DEF WriteOne
<1>8. CASE MarkDelayed
  <2>1. Phase' = Phase
    BY <1>8 DEF MarkDelayed, Phase, Saving, CallTypes
  <2> QED
    BY <1>2, <1>3, <1>8, <2>1 DEF MarkDelayed, ram
<1>9. CASE GetFreeBlock
  <2>1. Phase' \in {"erase_new", "register", "idle", "dead"}
    BY <1>9 DEF GetFreeBlock, NoFreeBlock, Abort, AfterGetFree, Phase, Saving
  <2> QED
    BY <1>3, <1>9, <2>1 DEF GetFreeBlock
<1>10. CASE EraseNew \/ CopyPages
  <2>1. Phase \in {"erase_new", "copy"} /\ op.new \in Area /\ SwapTable[op.new] = FREE
    BY <1>1, <1>10 DEF EraseNew, CopyPages, Phase, Saving, CallShape, Reserved, NewIsReserved
  <2>2. CASE RejectNewBlock
    <3>1. Phase' = "get_free" /\ UNCHANGED MapBlock
      BY <2>2, StartSavePhase DEF RejectNewBlock
    <3>2. Retains(SwapTable, SwapTable')
      BY <2>1, <2>2, SpecialEntries DEF RejectNewBlock, RamTypes, Retains
    <3>3. Shuns(SwapTable')
      BY <1>2, <3>2, RetainsShuns
    <3> QED
      BY <1>2, <3>1, <3>3
  <2>3. CASE UNCHANGED ram /\ pc' \in {"copy", "register"}
    <3>1. Phase' \in {"copy", "register"}
      BY <2>3 DEF Phase, Saving
    <3> QED
      BY <1>3, <2>3, <3>1 DEF ram
  <2> QED
    BY <1>10, <2>2, <2>3 DEF EraseNew, CopyPages
<1>11. CASE Register
  <2>1. Phase = "register" /\ op.new \in Area /\ SwapTable[op.new] = FREE
    BY <1>1, <1>11 DEF Register, Phase, Saving, CallShape, Reserved, NewIsReserved
  <2>2. op.bad \in Area => SwapTable[op.bad] \in User
    BY <1>1, <2>1 DEF Reserved, BadKeepsEntry
  <2>3. op.bad \in Area => MAP_OFFSET(op.bad) = MAP_OFFSET(op.new)
    BY <2>1, MapOffsetType DEF MapOffsets
  <2>4. ASSUME NEW T, Install(T), Shuns(T) PROVE Goal
    BY <1>2, <2>4, StartSavePhase DEF Install
  <2>5. CASE op.bad \in User /\ Install([SwapTable EXCEPT ![op.new] = op.bad])
    <3>1. Retains(SwapTable, [SwapTable EXCEPT ![op.new] = op.bad])
      BY <2>1, SpecialEntries DEF RamTypes, Retains
    <3> QED
      BY <1>2, <2>4, <2>5, <3>1, RetainsShuns
  <2>6. CASE op.bad \in Area /\ Install(Moved)
    <3>1. SwapTable[op.bad] \in User /\ op.new # op.bad
      BY <2>1, <2>2, <2>6, SpecialEntries
    <3>2. /\ \A e \in Area \ {op.bad, op.new} : Moved[e] = SwapTable[e]
          /\ Moved[op.bad] = BAD /\ Moved[op.new] = SwapTable[op.bad]
      BY <2>1, <2>6, <3>1 DEF Moved, RamTypes
    <3>3. \A e \in Area \cap FactoryBad : Moved[e] = BAD
      <4>1. SwapTable[op.new] # BAD
        BY <2>1, SpecialEntries
      <4> QED
        BY <1>2, <3>2, <4>1 DEF Shuns
    <3>4. \A u \in User \cap FactoryBad : \E e \in Area : Moved[e] = u
      <4> SUFFICES ASSUME NEW u \in User \cap FactoryBad PROVE \E e \in Area : Moved[e] = u
        OBVIOUS
      <4>1. PICK e \in Area : SwapTable[e] = u
        BY <1>2 DEF Shuns
      <4>2. e # op.new
        BY <2>1, <4>1, SpecialEntries
      <4> QED
        BY <2>1, <3>2, <4>1, <4>2
    <3>5. Shuns(Moved)
      BY <3>3, <3>4 DEF Shuns
    <3> QED
      BY <2>4, <2>6, <3>5
  <2> QED
    BY <1>11, <2>3, <2>5, <2>6 DEF Register
<1>12. CASE Done \/ FormatSecondBlock
  <2>1. Phase' \in {"idle", "done"}
    BY <1>12 DEF Done, FormatSecondBlock, Phase, Saving, NoSave
  <2> QED
    BY <1>3, <1>12, <2>1 DEF Done, FormatSecondBlock
<1>13. CASE \E u \in User : \/ ProgramUser(u) \/ ProgramUserFails(u)
                            \/ EraseUser(u) \/ EraseUserFails(u)
  <2>1. UNCHANGED ram /\ Phase' \in {"idle", "get_free"}
    BY <1>13 DEF ProgramUser, ProgramUserFails, EraseUser, EraseUserFails, Idle, Replace,
       call, Phase, Saving
  <2> QED
    BY <1>3, <2>1 DEF ram
<1>14. CASE UNCHANGED vars
  BY <1>2, <1>14 DEF vars, ram, call, Phase, Saving
<1>15. ~ InstallOriginal
  BY <1>2 DEF InstallOriginal, Phase, Saving
<1> QED
  BY <1>4, <1>5, <1>6, <1>7, <1>8, <1>9, <1>10, <1>11, <1>12, <1>13, <1>14, <1>15
  DEF Next, Step

LEMMA ShunnedStep ==
  ASSUME NumMapPages = 1, ShunnedInv, [Next]_vars PROVE Shunned'
<1> USE DEF ShunnedInv, TidyInv, ReservedInv, MapLogInv, TypeInv, TypeOK
<1> SUFFICES ASSUME ~ adrift' PROVE Shunned'
  BY DEF Shunned
<1>1. ~ adrift
  BY DEF Next, Step, Boot, BM_Open, BM_Format, Reformat, PowerLoss, FormatSecondBlock,
         GetFreeBlock, EraseNew, CopyPages, Register, InstallOriginal, EraseMap, MarkMap,
         WriteAll, WriteOne, MarkDelayed, Done, ProgramUser, ProgramUserFails, EraseUser,
         EraseUserFails, vars, hist, NoFreeBlock, Abort, RejectNewBlock, Install,
         ReplaceMapBlock, RetireCurrent
<1>2. FactoryBad \subseteq marked'
  BY <1>1, MarksKept
<1>3. ASSUME NEW b \in Area, Whole(pages'[b]) PROVE Shuns(TableIn(pages'[b]))
  <2>1. CASE Whole(pages[b]) /\ TableIn(pages'[b]) = TableIn(pages[b])
    BY <1>1, <2>1 DEF Shunned
  <2>2. CASE pc \in {"write_all", "write_one"} /\ TableIn(pages'[b]) = SwapTable
    BY <1>1, <2>2 DEF Shunned
  <2> QED
    BY <1>3, <2>1, <2>2, NextTables
<1>4. /\ pc' \notin {"off", "dead"} =>
           Shuns(SwapTable') /\ MapBlock'[1] \notin FactoryBad /\ MapBlock'[2] \notin FactoryBad
      /\ Phase' # "install"
  <2>1. CASE Boot /\ BM_Open
    <3>1. Openable /\ Consistent /\ Phase' = "idle"
      BY <2>1 DEF Boot, BM_Open, BM_Format, Phase, Saving
    <3>2. Shuns(OpenTable)
      BY <1>1, <3>1, OpenReadsLog DEF Openable, Shunned
    <3>3. OpenMapBlock[1] \notin FactoryBad /\ OpenMapBlock[2] \notin FactoryBad
      <4>1. Candidates # {} /\ Cardinality(MapBlocks) >= 2
        BY <3>1 DEF Openable
      <4>2. MapBlocks \in SUBSET Area
        BY <4>1, MapBlocksType
      <4>3. OpenMapBlock[1] \in MapBlocks /\ OpenMapBlock[2] \in MapBlocks
        BY <4>1, <4>2, LowestTwoDiffer DEF OpenMapBlock
      <4>4. \A b \in Found : b \in Area /\ OpenTable[b] = MAP
        BY <3>1, <4>1 DEF Found, Consistent
      <4>5. \A b \in MapBlocks : b \in Area /\ OpenTable[b] = MAP
        BY <4>4 DEF MapBlocks
      <4> QED
        BY <3>2, <4>3, <4>5, SpecialEntries DEF Shuns
    <3> QED
      BY <2>1, <3>1, <3>2, <3>3 DEF BM_Open
  <2>2. CASE BM_Format
    <3>1. Phase' # "install"
      BY <2>2 DEF BM_Format, Phase, Saving, NoSave
    <3>2. CASE Formattable
      <4>1. Shuns(FormatTable)
        BY <1>1, <3>2, FormatShuns DEF Shunned
      <4>2. NewMapBlocks[1] \in Area \ marked /\ NewMapBlocks[2] \in Area \ marked
        BY <3>2, LowestTwoDiffer DEF Formattable, NewMapBlocks
      <4> QED
        BY <1>1, <2>2, <3>1, <3>2, <4>1, <4>2 DEF BM_Format, Shunned
    <3>3. CASE ~ Formattable
      BY <2>2, <3>1, <3>3 DEF BM_Format
    <3> QED
      BY <3>2, <3>3
  <2>3. CASE PowerLoss
    BY <2>3 DEF PowerLoss, Phase, Saving
  <2>4. CASE pc' \in {"off", "dead"}
    BY <2>4 DEF Phase, Saving
  <2>5. CASE ~ Boot /\ ~ Reformat /\ ~ PowerLoss /\ pc' \notin {"off", "dead"}
    BY <1>1, <2>5, ShunsKeptStep
  <2> QED
    BY <2>1, <2>2, <2>3, <2>4, <2>5 DEF Boot, Reformat
<1> QED
  BY <1>2, <1>3, <1>4 DEF Shunned

(* With one map page, a caller is never sent to a block that left the      *)
(* factory bad, whatever fails during the formats and the replacements:    *)
(* the format finds every one by its mark and gives it an entry, and no    *)
(* erase takes such a mark.  (With more map pages an entry that moves from *)
(* one to another is on neither while power may be lost.)                  *)
THEOREM FactoryBadAvoided ==
  ASSUME NumMapPages = 1 PROVE Spec => []UsersAvoidFactoryBad
<1>1. Init => ShunnedInv
  <2> SUFFICES ASSUME Init PROVE ShunnedInv
    OBVIOUS
  <2>1. TidyInv
    BY TidyInit
  <2>2. \A b \in Area : ~ Whole(pages[b])
    BY EmptyLog DEF Init, Block
  <2> QED
    BY <2>1, <2>2 DEF Init, ShunnedInv, Shunned, Phase, Saving
<1>2. ShunnedInv /\ [Next]_vars => ShunnedInv'
  BY TidyStep, ShunnedStep DEF ShunnedInv
<1>3. ShunnedInv => UsersAvoidFactoryBad
  BY ShunsLeadsAway
  DEF ShunnedInv, TidyInv, ReservedInv, TypeInv, TypeOK, RamTypes, Shunned,
      UsersAvoidFactoryBad, BlockOf, Idle
<1> QED
  BY <1>1, <1>2, <1>3, PTL DEF Spec
=============================================================================
