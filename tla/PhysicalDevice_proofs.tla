------------------------ MODULE PhysicalDevice_proofs ------------------------
(***************************************************************************)
(* Types, buffers and data of PhysicalDevice, for any number of chips,     *)
(* planes, blocks and failures, when no call copies from one chip to       *)
(* another: a deferred write is redone from what its caller gave           *)
(* (PendingIntact), and what callers have written or erased is what they   *)
(* find (AcceptedSurvives).  The invariant follows a call through its      *)
(* steps (CallOK), the recovery it may be in (RecOK), and what each chip   *)
(* has been given (PendingOK).                                             *)
(***************************************************************************)
EXTENDS PhysicalDevice, TLAPS, FiniteSetTheorems

NoCrossCopy == "cross_copy" \notin Calls

\* The step that a call is at, also while an earlier operation is redone.
Phase == IF pc = "recover" THEN rec.back ELSE pc
Work == {"start", "read", "issue"}

Writes == {"write", "write_group", "fill"}
Erases == {"erase", "erase_group"}

Fields(r, s) == DOMAIN r = DOMAIN s
OneToOne(f) == \A i, j \in DOMAIN f : f[i] = f[j] => i = j

----------------------------------------------------------------------------
(* Variables and blocks                                                    *)

Types ==
  /\ cell \in [Chips -> [Block -> [Page -> Values \cup {BLANK, JUNK}]]]
  /\ DOMAIN PrevOp = Chips
  /\ swap \in [Chips -> [User -> Block]]
  /\ spare \in [Chips -> SUBSET (Block \ User)]
  /\ Buf \in [Chips -> [Plane -> Values \cup {BLANK, JUNK}]]
  /\ BufIndex \in [Chips -> {0, 1}]
  /\ BufAllBusy \in [Chips -> BOOLEAN]
  /\ pc \in {"idle", "start", "read", "issue", "sync", "recover"}
  /\ wrote \in [Chips -> [User -> [Page -> Values \cup {BLANK}]]]
  /\ lost \subseteq Where
  /\ budget \in [call : 0 .. MaxCalls, fail : 0 .. MaxFailures]

\* No block stands for two, none that does is spare, and those of the callers
\* stand for themselves or for none.
SwapOK ==
  \A c \in Chips :
    /\ OneToOne(swap[c])
    /\ \A u \in User : swap[c][u] \notin spare[c] /\ (swap[c][u] \in User => swap[c][u] = u)

----------------------------------------------------------------------------
(* Operations                                                              *)

\* An operation on some planes, each with its block, buffer and value.
OpShape(o) ==
  /\ Fields(o, NoOp)
  /\ o.cmd \in {"none", "write", "erase"} /\ o.page \in Page
  /\ DOMAIN o.blk \subseteq Plane
  /\ DOMAIN o.of = DOMAIN o.blk /\ DOMAIN o.ref = DOMAIN o.blk /\ DOMAIN o.val = DOMAIN o.blk
  /\ OneToOne(o.of)
  /\ \A i \in DOMAIN o.blk :
       /\ o.blk[i] \in Block /\ o.of[i] \in User
       /\ o.ref[i] \in {CALLER} \cup Plane /\ o.val[i] \in Values \cup {BLANK}

\* What is owed on planes S: the blocks are still those named, and the data
\* that the operation would be redone with is there.
Owed(c, o, S) ==
  \A i \in S : /\ o.blk[i] = swap[c][o.of[i]]
               /\ o.cmd = "write" => Content(c, o, i) = o.val[i]

PendingOK ==
  \A c \in Chips :
    /\ Free(c) => PrevOp[c] = NoOp
    /\ OpShape(PrevOp[c]) /\ PrevOp[c].st \in {"ok", "busy", "failed"}
    /\ ~ Free(c) => /\ DOMAIN PrevOp[c].blk # {} /\ PrevOp[c].cmd # "none"
                    /\ Owed(c, PrevOp[c], DOMAIN PrevOp[c].blk)

\* A pending write has the buffer that was taken last, unless the call in
\* progress on its chip has taken another and now waits for it to end.
TurnsOK ==
  \A c \in Chips :
    ~ Free(c) /\ ~ BufAllBusy[c] /\ ~ (Phase \in {"read", "issue"} /\ call.chip = c) =>
      \A i \in DOMAIN PrevOp[c].blk : PrevOp[c].ref[i] \in {CALLER, BufIndex[c]}

RecOK ==
  /\ pc # "recover" => rec = NoRec
  /\ pc = "recover" =>
       /\ Fields(rec, NoRec)
       /\ rec.chip \in Chips /\ rec.chip = call.chip /\ Free(rec.chip)
       /\ rec.back \in {"start", "issue", "sync"}
       /\ rec.todo # {} /\ rec.todo \subseteq DOMAIN rec.op.blk
       /\ OpShape(rec.op) /\ rec.op.cmd # "none" /\ rec.op.st = "failed"
       /\ Owed(rec.chip, rec.op, rec.todo)

----------------------------------------------------------------------------
(* The call in progress                                                    *)

\* What a call on pages asks for, on planes that it numbers from 0.
WorkShape(k) ==
  /\ k.cmd \in Writes \cup Erases \cup {"copy", "copy_group"}
  /\ k.src = k.chip
  /\ k.todo # {} /\ k.todo \subseteq DOMAIN k.blk
  /\ DOMAIN k.blk \subseteq Plane /\ OneToOne(k.blk)
  /\ k.page \in Page
  /\ \A i \in DOMAIN k.blk : k.blk[i] \in User
  /\ k.cmd \in Writes => /\ DOMAIN k.val = DOMAIN k.blk
                         /\ \A i \in DOMAIN k.blk : k.val[i] \in Values
  /\ k.cmd \in Erases => DOMAIN k.val = {}
  /\ k.cmd \in Erases \cup {"write", "write_group"} => DOMAIN k.ref = {}
  /\ k.cmd = "fill" => DOMAIN k.blk = {0}
  /\ k.cmd \in {"copy", "copy_group"} =>
       /\ DOMAIN k.from = DOMAIN k.blk
       /\ \A i \in DOMAIN k.blk : k.from[i].blk \in User /\ k.from[i].page \in Page

SyncShape(k) ==
  k.cmd \in {"read", "sync"} /\ k.todo \subseteq Chips /\ k.chip \in k.todo

CallOK ==
  /\ Fields(call, NoCall)
  /\ Phase = "idle" => call = NoCall
  /\ Phase # "idle" => call.chip \in Chips
  /\ Phase = "sync" => SyncShape(call)
  /\ Phase \in Work => WorkShape(call)
  /\ Phase = "start" => call.cmd \in Copies \cup {"fill"}
  /\ Phase = "read" => call.cmd \in Copies
  /\ Phase = "issue" /\ call.cmd \in Copies => pc = "issue"
  /\ Phase = "issue" /\ call.cmd = "fill" =>
       /\ DOMAIN call.ref = {0} /\ call.ref[0] = BufIndex[call.chip]
       /\ Buf[call.chip][call.ref[0]] = call.val[0]

\* The buffers of a copy: all of them for whole groups, else one.
CopyOK ==
  pc \in {"read", "issue"} /\ call.cmd \in Copies =>
    /\ call.ref = IF Together THEN [i \in Plane |-> i]
                  ELSE [i \in Next1 |-> BufIndex[call.chip]]
    /\ pc = "issue" =>
         /\ Free(call.chip)
         /\ DOMAIN call.val = DOMAIN call.ref
         /\ \A i \in DOMAIN call.ref : /\ Buf[call.chip][call.ref[i]] = call.val[i]
                                       /\ call.val[i] \in Values \cup {BLANK}

IInv == Types /\ SwapOK /\ PendingOK /\ TurnsOK /\ RecOK /\ CallOK /\ CopyOK

----------------------------------------------------------------------------
(* Constants                                                               *)

LEMMA Numbers ==
  /\ NumPlanes \in Nat /\ NumPlanes >= 2 /\ Groups \in Nat /\ Groups > 0
  /\ Spares \in Nat /\ PagesPerBlock \in Nat /\ PagesPerBlock > 0
  /\ Plane \subseteq Nat /\ 0 \in Plane /\ 1 \in Plane /\ 0 \in Page
  /\ Chips \subseteq Nat /\ NoChip \notin Chips /\ CALLER \notin Plane
BY DeviceAssumption DEF Plane, Page, NoChip, CALLER

LEMMA Blocks == User \subseteq Block
<1>1. NumPlanes * Groups \in Nat
  BY Numbers
<1> DEFINE n == NumPlanes * Groups
<1> HIDE DEF n
<1>2. 0 .. n - 1 \subseteq 0 .. n + Spares - 1
  BY <1>1, Numbers DEF n
<1> QED
  BY <1>2 DEF User, Block, n

LEMMA NothingIn == DOMAIN None = {}
BY DEF None

LEMMA FirstIn ==
  ASSUME NEW S \in SUBSET Nat, S # {}
  PROVE  First(S) \in S
<1> DEFINE Less == {s \in Nat \X Nat : s[1] < s[2]}
<1>1. IsWellFoundedOn(Less, Nat)
  BY NatLessThanWellFounded DEF OpToRel
<1> HIDE DEF Less
<1>2. PICK i \in S : \A j \in S : ~ (<<j, i>> \in Less)
  BY <1>1, WFMin
<1>3. \A j \in S : i <= j
  <2> SUFFICES ASSUME NEW j \in S PROVE i <= j
    OBVIOUS
  <2>1. i \in Nat /\ j \in Nat /\ <<j, i>> \in Nat \X Nat
    OBVIOUS
  <2>2. ~ j < i
    BY <1>2, <2>1 DEF Less
  <2> QED
    BY <2>1, <2>2
<1> QED
  BY <1>3 DEF First

\* The blocks of a group are blocks of callers, one for each plane.
LEMMA GroupBlocksIn ==
  ASSUME NEW g \in Group
  PROVE  /\ DOMAIN GroupBlocks(g) = Plane /\ OneToOne(GroupBlocks(g))
         /\ \A i \in Plane : GroupBlocks(g)[i] \in User
<1>1. ASSUME NEW i \in Plane PROVE GroupBlocks(g)[i] \in User
  <2>1. g \in Nat /\ i \in Nat /\ i <= NumPlanes - 1 /\ g + 1 <= Groups
    BY Numbers DEF Group, Plane
  <2>2. PICK d \in Nat : Groups = g + 1 + d
    <3>1. Groups - g - 1 \in Nat
      BY <2>1, Numbers
    <3> QED
      BY <2>1, <3>1, Numbers
  <2>3. NumPlanes * Groups = NumPlanes * g + NumPlanes + NumPlanes * d
    BY <2>1, <2>2, Numbers
  <2>4. NumPlanes * g \in Nat /\ NumPlanes * d \in Nat /\ NumPlanes * Groups \in Nat
    BY <2>1, Numbers
  <2> DEFINE a == NumPlanes * g
             b == NumPlanes * d
             n == NumPlanes * Groups
  <2> HIDE DEF a, b, n
  <2>5. a + i \in 0 .. n - 1
    BY <2>1, <2>3, <2>4, Numbers DEF a, b, n
  <2> QED
    BY <2>5 DEF GroupBlocks, User, a, n
<1>2. ASSUME NEW i \in Plane, NEW j \in Plane, GroupBlocks(g)[i] = GroupBlocks(g)[j]
      PROVE  i = j
  <2>1. i \in Nat /\ j \in Nat /\ NumPlanes * g \in Nat
    BY Numbers DEF Group
  <2> DEFINE a == NumPlanes * g
  <2>2. a + i = a + j
    BY <1>2 DEF GroupBlocks
  <2> HIDE DEF a
  <2> QED
    BY <2>1, <2>2 DEF a
<1> QED
  BY <1>1, <1>2 DEF GroupBlocks, OneToOne

----------------------------------------------------------------------------
(* The start, and a failure met                                            *)

LEMMA NoOpShape == OpShape(NoOp) /\ NoOp.st = "ok" /\ DOMAIN NoOp.blk = {}
BY Numbers, NothingIn DEF OpShape, NoOp, Fields, OneToOne

LEMMA Starts == Init => IInv
<1> SUFFICES ASSUME Init PROVE IInv
  OBVIOUS
<1>1. pc = "idle" /\ call = NoCall /\ rec = NoRec /\ PrevOp = [c \in Chips |-> NoOp]
  BY DEF Init
<1>2. wrote \in [Chips -> [User -> [Page -> Values \cup {BLANK}]]]
  <2>1. PICK f \in [Chips -> [Held -> [Page -> Values]]] :
          wrote = [c \in Chips |-> [u \in User |-> IF u \in Held THEN f[c][u]
                                                   ELSE [p \in Page |-> BLANK]]]
    BY DEF Init
  <2>2. ASSUME NEW c \in Chips, NEW u \in User
        PROVE  wrote[c][u] \in [Page -> Values \cup {BLANK}]
    BY <2>1, <2>2
  <2> QED
    BY <2>1, <2>2
<1>3. cell \in [Chips -> [Block -> [Page -> Values \cup {BLANK, JUNK}]]]
  <2>1. cell = [c \in Chips |-> [b \in Block |-> IF b \in User THEN wrote[c][b]
                                                ELSE [p \in Page |-> BLANK]]]
    BY DEF Init
  <2>2. ASSUME NEW c \in Chips, NEW b \in Block
        PROVE  cell[c][b] \in [Page -> Values \cup {BLANK, JUNK}]
    <3>1. CASE b \in User
      <4>1. wrote[c][b] \in [Page -> Values \cup {BLANK}]
        BY <1>2, <3>1
      <4> QED
        BY <2>1, <3>1, <4>1
    <3> QED
      BY <2>1, <3>1
  <2> QED
    BY <2>1, <2>2
<1>4. Types
  <2>1. /\ swap \in [Chips -> [User -> Block]]
        /\ spare \in [Chips -> SUBSET (Block \ User)]
    BY Blocks DEF Init
  <2>2. /\ Buf \in [Chips -> [Plane -> Values \cup {BLANK, JUNK}]]
        /\ BufIndex \in [Chips -> {0, 1}] /\ BufAllBusy \in [Chips -> BOOLEAN]
        /\ lost \subseteq Where
    BY DEF Init
  <2>3. budget \in [call : 0 .. MaxCalls, fail : 0 .. MaxFailures]
    BY DeviceAssumption DEF Init
  <2> QED
    BY <1>1, <1>2, <1>3, <2>1, <2>2, <2>3 DEF Types
<1>5. SwapOK
  BY DEF Init, SwapOK, OneToOne
<1>6. PendingOK /\ TurnsOK
  BY <1>1, NoOpShape DEF PendingOK, TurnsOK, Free
<1>7. RecOK
  BY <1>1 DEF RecOK
<1>8. CallOK /\ CopyOK
  BY <1>1 DEF CallOK, CopyOK, Phase, Work, Fields
<1> QED
  BY <1>4, <1>5, <1>6, <1>7, <1>8 DEF IInv

\* Steps of a call that learn of an earlier failure.
LEMMA RefusedKeeps ==
  ASSUME IInv, NEW c, c = call.chip,
         NEW back \in {"start", "issue", "sync"}, Refused(c, back),
         pc = back \/ (pc = "read" /\ back = "start"),
         UNCHANGED <<cell, bm, Buf, BufIndex, call, hist, budget>>,
         UNCHANGED BufAllBusy \/ BufAllBusy' = [BufAllBusy EXCEPT ![c] = FALSE]
  PROVE  IInv'
<1>1. /\ c \in Chips /\ Failed(c) /\ pc' = "recover" /\ Phase = pc /\ Phase' = back
      /\ rec' = [op |-> PrevOp[c], chip |-> c, todo |-> DOMAIN PrevOp[c].blk, back |-> back]
      /\ PrevOp' = [PrevOp EXCEPT ![c] = NoOp]
  BY DEF Refused, Phase, IInv, CallOK, Forgotten
<1>2. ~ Free(c) /\ OpShape(PrevOp[c]) /\ PrevOp[c].cmd # "none" /\ PrevOp[c].st = "failed"
      /\ DOMAIN PrevOp[c].blk # {} /\ Owed(c, PrevOp[c], DOMAIN PrevOp[c].blk)
  BY <1>1 DEF Failed, Free, IInv, PendingOK
<1>3. /\ DOMAIN PrevOp' = Chips /\ PrevOp'[c] = NoOp
      /\ \A d \in Chips : d # c => PrevOp'[d] = PrevOp[d]
  BY <1>1 DEF IInv, Types
<1>4. Types'
  BY <1>1, <1>3 DEF IInv, Types, bm, hist
<1>5. SwapOK'
  BY DEF IInv, SwapOK, bm
<1>6. \A d, o, S : Owed(d, o, S)' <=> Owed(d, o, S)
  BY DEF Owed, Content, bm
<1>7. PendingOK'
  <2> SUFFICES ASSUME NEW d \in Chips
               PROVE  /\ Free(d)' => PrevOp'[d] = NoOp
                      /\ OpShape(PrevOp'[d]) /\ PrevOp'[d].st \in {"ok", "busy", "failed"}
                      /\ ~ Free(d)' => /\ DOMAIN PrevOp'[d].blk # {}
                                       /\ PrevOp'[d].cmd # "none"
                                       /\ Owed(d, PrevOp[d], DOMAIN PrevOp[d].blk)'
    BY DEF PendingOK
  <2>1. CASE d = c
    BY <1>3, <2>1, NoOpShape DEF Free
  <2>2. CASE d # c
    <3>1. PrevOp'[d] = PrevOp[d]
      BY <1>3, <2>2
    <3>2. Owed(d, PrevOp[d], DOMAIN PrevOp[d].blk)' <=> Owed(d, PrevOp[d], DOMAIN PrevOp[d].blk)
      BY <3>1 DEF Owed, Content, bm
    <3> QED
      BY <3>1, <3>2 DEF IInv, PendingOK, Free
  <2> QED
    BY <2>1, <2>2
<1>8. TurnsOK'
  <2> SUFFICES ASSUME NEW d \in Chips, ~ Free(d)', ~ BufAllBusy'[d],
                      NEW i \in DOMAIN PrevOp'[d].blk
               PROVE  PrevOp'[d].ref[i] \in {CALLER, BufIndex'[d]}
    BY DEF TurnsOK
  <2>1. d # c
    BY <1>3, NoOpShape DEF Free
  <2>2. ~ Free(d) /\ ~ BufAllBusy[d] /\ PrevOp'[d] = PrevOp[d] /\ BufIndex' = BufIndex
    BY <1>3, <2>1 DEF Free, IInv, Types
  <2> QED
    BY <2>1, <2>2 DEF IInv, TurnsOK
<1>9. RecOK'
  <2>1. /\ rec'.op = PrevOp[c] /\ rec'.chip = c /\ rec'.todo = DOMAIN PrevOp[c].blk
        /\ rec'.back = back /\ Fields(rec, NoRec)'
    BY <1>1 DEF Fields, NoRec
  <2>2. Owed(c, rec.op, rec.todo)'
    BY <1>2, <2>1 DEF Owed, Content, bm
  <2>3. Free(c)' /\ call'.chip = c
    BY <1>3, NoOpShape DEF Free
  <2> QED
    BY <1>1, <1>2, <2>1, <2>2, <2>3 DEF RecOK
<1>10. CallOK'
  <2>1. call' = call /\ Buf' = Buf /\ BufIndex' = BufIndex
    OBVIOUS
  <2>2. ~ (pc = "issue" /\ call.cmd \in Copies)
    BY <1>1, <1>2 DEF IInv, CopyOK
  <2> QED
    BY <1>1, <2>1, <2>2 DEF IInv, CallOK, Work
<1>11. CopyOK'
  BY <1>1 DEF CopyOK
<1> QED
  BY <1>4, <1>5, <1>7, <1>8, <1>9, <1>10, <1>11 DEF IInv

----------------------------------------------------------------------------
(* Calls                                                                   *)

LEMMA Spending ==
  ASSUME NEW kind \in {"call", "fail"}, NEW n \in Nat, Spend(kind, n),
         budget \in [call : 0 .. MaxCalls, fail : 0 .. MaxFailures]
  PROVE  budget' \in [call : 0 .. MaxCalls, fail : 0 .. MaxFailures]
BY DeviceAssumption DEF Spend

\* A call that begins finds no recovery under way and touches no chip.
LEMMA BeginKeeps ==
  ASSUME IInv, NEW new, NEW at \in {"start", "issue", "sync"}, Begin(new, at),
         Fields(new, NoCall), new.chip \in Chips,
         at = "sync" => SyncShape(new),
         at # "sync" => WorkShape(new),
         at = "start" => new.cmd \in Copies \cup {"fill"},
         at = "issue" => new.cmd \notin Copies \cup {"fill"}
  PROVE  IInv'
<1>1. /\ pc = "idle" /\ Phase = "idle" /\ pc' = at /\ call' = new /\ Phase' = at
      /\ UNCHANGED <<cell, PrevOp, swap, spare, Buf, BufIndex, BufAllBusy, rec, wrote, lost>>
  BY DEF Begin, Phase, chip, bm, bufs, hist
<1>2. Types'
  <2>1. budget' \in [call : 0 .. MaxCalls, fail : 0 .. MaxFailures]
    BY Spending DEF Begin, IInv, Types
  <2> QED
    BY <1>1, <2>1 DEF IInv, Types
<1>3. SwapOK' /\ PendingOK'
  BY <1>1 DEF IInv, SwapOK, PendingOK, Owed, Content, Free
<1>4. TurnsOK'
  BY <1>1 DEF IInv, TurnsOK, Free
<1>5. RecOK'
  BY <1>1 DEF IInv, RecOK
<1>6. CallOK'
  BY <1>1 DEF CallOK, Work
<1>7. CopyOK'
  BY <1>1 DEF CopyOK
<1> QED
  BY <1>2, <1>3, <1>4, <1>5, <1>6, <1>7 DEF IInv

LEMMA WriteKeeps ==
  ASSUME IInv, NEW kind \in {"write", "fill"}, NEW at, Write(kind, at),
         at = IF kind = "write" THEN "issue" ELSE "start"
  PROVE  IInv'
<1>1. PICK w \in Where, v \in Values :
        Begin([NoCall EXCEPT !.cmd = kind, !.chip = w[1], !.src = w[1],
                !.blk = [i \in {0} |-> w[2]], !.page = w[3],
                !.val = [i \in {0} |-> v], !.todo = {0}], at)
  BY DEF Write
<1> DEFINE new == [NoCall EXCEPT !.cmd = kind, !.chip = w[1], !.src = w[1],
                    !.blk = [i \in {0} |-> w[2]], !.page = w[3],
                    !.val = [i \in {0} |-> v], !.todo = {0}]
<1>2. /\ Fields(new, NoCall) /\ new.cmd = kind /\ new.chip = w[1] /\ new.src = w[1]
      /\ new.blk = [i \in {0} |-> w[2]] /\ new.page = w[3] /\ new.val = [i \in {0} |-> v]
      /\ new.todo = {0} /\ new.ref = None
  BY DEF NoCall, Fields
<1>3. w[1] \in Chips /\ w[2] \in User /\ w[3] \in Page
  BY DEF Where
<1> HIDE DEF new
<1>4. WorkShape(new)
  BY <1>2, <1>3, Numbers, NothingIn DEF WorkShape, Writes, Erases, OneToOne
<1> QED
  BY <1>1, <1>2, <1>3, <1>4, BeginKeeps DEF new, Copies

LEMMA WriteGroupKeeps ==
  ASSUME IInv, FD_WritePageGroup
  PROVE  IInv'
<1>1. PICK c \in Chips, g \in Group, p \in Page, v \in [Plane -> Values] :
        Begin([NoCall EXCEPT !.cmd = "write_group", !.chip = c, !.src = c,
                !.blk = GroupBlocks(g), !.page = p, !.val = v, !.todo = Plane],
              "issue")
  BY DEF FD_WritePageGroup
<1> DEFINE new == [NoCall EXCEPT !.cmd = "write_group", !.chip = c, !.src = c,
                !.blk = GroupBlocks(g), !.page = p, !.val = v, !.todo = Plane]
<1>2. /\ Fields(new, NoCall) /\ new.cmd = "write_group" /\ new.chip = c /\ new.src = c
      /\ new.blk = GroupBlocks(g) /\ new.page = p /\ new.val = v
      /\ new.todo = Plane /\ new.ref = None
  BY DEF NoCall, Fields
<1> HIDE DEF new
<1>3. WorkShape(new)
  BY <1>2, Numbers, NothingIn, GroupBlocksIn DEF WorkShape, Writes, Erases
<1> QED
  BY <1>1, <1>2, <1>3, BeginKeeps DEF new, Copies

LEMMA CopyKeeps ==
  ASSUME NoCrossCopy, IInv, FD_CopyBack
  PROVE  IInv'
<1>1. PICK w \in Where, r \in Where :
        Begin([NoCall EXCEPT !.cmd = IF w[1] = r[1] THEN "copy" ELSE "cross_copy",
                !.chip = w[1], !.src = r[1], !.blk = [i \in {0} |-> w[2]],
                !.page = w[3], !.from = [i \in {0} |-> [blk |-> r[2], page |-> r[3]]],
                !.todo = {0}], "start")
  BY DEF FD_CopyBack
<1> DEFINE new == [NoCall EXCEPT !.cmd = IF w[1] = r[1] THEN "copy" ELSE "cross_copy",
                !.chip = w[1], !.src = r[1], !.blk = [i \in {0} |-> w[2]],
                !.page = w[3], !.from = [i \in {0} |-> [blk |-> r[2], page |-> r[3]]],
                !.todo = {0}]
<1>2. /\ Fields(new, NoCall) /\ new.cmd = (IF w[1] = r[1] THEN "copy" ELSE "cross_copy")
      /\ new.chip = w[1] /\ new.src = r[1]
      /\ new.blk = [i \in {0} |-> w[2]] /\ new.page = w[3]
      /\ new.from = [i \in {0} |-> [blk |-> r[2], page |-> r[3]]]
      /\ new.todo = {0} /\ new.ref = None
  BY DEF NoCall, Fields
<1>3. w[1] \in Chips /\ w[2] \in User /\ w[3] \in Page /\ r[2] \in User /\ r[3] \in Page
  BY DEF Where
<1> HIDE DEF new
<1>4. new.cmd = "copy" /\ w[1] = r[1]
  BY <1>1, <1>2 DEF Begin, NoCrossCopy, new
<1>5. WorkShape(new)
  BY <1>2, <1>3, <1>4, Numbers DEF WorkShape, Writes, Erases, OneToOne
<1> QED
  BY <1>1, <1>2, <1>3, <1>4, <1>5, BeginKeeps DEF new, Copies

LEMMA CopyGroupKeeps ==
  ASSUME IInv, FD_CopyBackGroup
  PROVE  IInv'
<1> DEFINE New(c, g, h, p, q) ==
             [NoCall EXCEPT !.cmd = "copy_group", !.chip = c, !.src = c,
                !.blk = GroupBlocks(g), !.page = p,
                !.from = [i \in Plane |-> [blk |-> GroupBlocks(h)[i], page |-> q]],
                !.todo = Plane]
<1>1. PICK c \in Chips, g \in Group, h \in Group, p \in Page, q \in Page :
        Begin(New(c, g, h, p, q), "start")
  <2>1. PICK c \in Chips :
          \E g, h \in Group, p, q \in Page : Begin(New(c, g, h, p, q), "start")
    <3>1. PICK c \in Chips : \E g, h \in Group, p, q \in Page :
            /\ g # h
            /\ \A i \in Plane : /\ Unwritten(c, GroupBlocks(g)[i], p)
                                /\ Written(c, GroupBlocks(h)[i], q)
            /\ Begin(New(c, g, h, p, q), "start")
      BY Zenon DEF FD_CopyBackGroup
    <3> HIDE DEF New
    <3> QED
      BY <3>1
  <2> HIDE DEF New
  <2> QED
    BY <2>1
<1> DEFINE new == New(c, g, h, p, q)
<1>2. /\ Fields(new, NoCall) /\ new.cmd = "copy_group" /\ new.chip = c /\ new.src = c
      /\ new.blk = GroupBlocks(g) /\ new.page = p
      /\ new.from = [i \in Plane |-> [blk |-> GroupBlocks(h)[i], page |-> q]]
      /\ new.todo = Plane /\ new.ref = None
  BY DEF NoCall, Fields
<1>3. /\ DOMAIN GroupBlocks(g) = Plane /\ OneToOne(GroupBlocks(g))
      /\ \A i \in Plane : GroupBlocks(g)[i] \in User /\ GroupBlocks(h)[i] \in User
  BY GroupBlocksIn
<1> HIDE DEF new
<1>4. /\ DOMAIN new.from = DOMAIN new.blk
      /\ \A i \in DOMAIN new.blk : new.from[i].blk \in User /\ new.from[i].page \in Page
  BY <1>2, <1>3
<1>5. WorkShape(new)
  BY <1>2, <1>3, <1>4, Numbers DEF WorkShape, Writes, Erases
<1> QED
  BY <1>1, <1>2, <1>5, BeginKeeps DEF new, Copies

LEMMA EraseKeeps ==
  ASSUME IInv, FD_Erase
  PROVE  IInv'
<1>1. PICK c \in Chips, u \in User :
        Begin([NoCall EXCEPT !.cmd = "erase", !.chip = c, !.src = c,
                !.blk = [i \in {0} |-> u], !.todo = {0}], "issue")
  BY DEF FD_Erase
<1> DEFINE new == [NoCall EXCEPT !.cmd = "erase", !.chip = c, !.src = c,
                !.blk = [i \in {0} |-> u], !.todo = {0}]
<1>2. /\ Fields(new, NoCall) /\ new.cmd = "erase" /\ new.chip = c /\ new.src = c
      /\ new.blk = [i \in {0} |-> u] /\ new.page = 0
      /\ new.todo = {0} /\ new.ref = None /\ new.val = None
  BY DEF NoCall, Fields
<1> HIDE DEF new
<1>3. WorkShape(new)
  BY <1>2, Numbers, NothingIn DEF WorkShape, Writes, Erases, OneToOne
<1> QED
  BY <1>1, <1>2, <1>3, BeginKeeps DEF new, Copies

LEMMA EraseGroupKeeps ==
  ASSUME IInv, FD_EraseGroup
  PROVE  IInv'
<1>1. PICK c \in Chips, g \in Group :
        Begin([NoCall EXCEPT !.cmd = "erase_group", !.chip = c, !.src = c,
                !.blk = GroupBlocks(g), !.todo = Plane], "issue")
  BY DEF FD_EraseGroup
<1> DEFINE new == [NoCall EXCEPT !.cmd = "erase_group", !.chip = c, !.src = c,
                !.blk = GroupBlocks(g), !.todo = Plane]
<1>2. /\ Fields(new, NoCall) /\ new.cmd = "erase_group" /\ new.chip = c /\ new.src = c
      /\ new.blk = GroupBlocks(g) /\ new.page = 0
      /\ new.todo = Plane /\ new.ref = None /\ new.val = None
  BY DEF NoCall, Fields
<1> HIDE DEF new
<1>3. WorkShape(new)
  BY <1>2, Numbers, NothingIn, GroupBlocksIn DEF WorkShape, Writes, Erases
<1> QED
  BY <1>1, <1>2, <1>3, BeginKeeps DEF new, Copies

LEMMA ReadKeeps ==
  ASSUME IInv, FD_ReadPage \/ FD_Sync
  PROVE  IInv'
<1>1. PICK c \in Chips, k \in {"read", "sync"}, T \in SUBSET Chips :
        c \in T /\ Begin([NoCall EXCEPT !.cmd = k, !.chip = c, !.src = c, !.todo = T], "sync")
  <2>1. CASE FD_ReadPage
    BY <2>1 DEF FD_ReadPage
  <2>2. CASE FD_Sync
    <3>1. First(Chips) \in Chips
      BY FirstIn, DeviceAssumption
    <3> QED
      BY <2>2, <3>1 DEF FD_Sync
  <2> QED
    BY <2>1, <2>2
<1> DEFINE new == [NoCall EXCEPT !.cmd = k, !.chip = c, !.src = c, !.todo = T]
<1>2. Fields(new, NoCall) /\ new.cmd = k /\ new.chip = c /\ new.todo = T
  BY DEF NoCall, Fields
<1> HIDE DEF new
<1> QED
  BY <1>1, <1>2, BeginKeeps DEF new, SyncShape

----------------------------------------------------------------------------
(* Buffers and reads                                                       *)

\* A call goes on and the chips are left alone.
LEMMA CallGoesOn ==
  ASSUME IInv, UNCHANGED <<chip, bm, bufs, rec, hist, budget>>,
         pc # "recover", pc' \in {"idle", "start", "read", "issue", "sync"}
  PROVE  Types' /\ SwapOK' /\ PendingOK' /\ RecOK'
<1>1. UNCHANGED <<cell, PrevOp, swap, spare, Buf, BufIndex, BufAllBusy, rec, wrote, lost, budget>>
  BY DEF chip, bm, bufs, hist
<1>2. Types'
  BY <1>1 DEF IInv, Types
<1>3. SwapOK' /\ PendingOK'
  BY <1>1 DEF IInv, SwapOK, PendingOK, Owed, Content, Free
<1>4. RecOK'
  BY <1>1 DEF IInv, RecOK
<1> QED
  BY <1>2, <1>3, <1>4

LEMMA SyncKeeps == IInv /\ Sync => IInv'
<1> SUFFICES ASSUME IInv, Sync PROVE IInv'
  OBVIOUS
<1> DEFINE c == call.chip
           rest == call.todo \ {c}
<1>1. pc = "sync" /\ Phase = "sync"
  BY DEF Sync, Phase
<1>2. c \in Chips /\ SyncShape(call) /\ rest \subseteq Chips
  BY <1>1 DEF IInv, CallOK, SyncShape
<1>3. CASE Refused(c, "sync") /\ UNCHANGED BufAllBusy
  BY <1>1, <1>3, RefusedKeeps DEF Refused
<1>4. CASE /\ Free(c) /\ UNCHANGED <<chip, bm, bufs, rec, hist, budget>>
           /\ IF rest = {} THEN pc' = "idle" /\ call' = NoCall
              ELSE /\ call' = [call EXCEPT !.chip = First(rest), !.todo = rest]
                   /\ UNCHANGED pc
  <2>1. Types' /\ SwapOK' /\ PendingOK' /\ RecOK'
    BY <1>1, <1>4, CallGoesOn
  <2>2. Phase' \in {"idle", "sync"} /\ pc' \in {"idle", "sync"}
    BY <1>1, <1>4 DEF Phase
  <2>3. TurnsOK'
    BY <1>1, <1>4, <2>2 DEF IInv, TurnsOK, Free, chip, bufs
  <2>4. CallOK'
    <3>1. CASE rest = {}
      BY <1>4, <3>1 DEF CallOK, Phase, Fields, Work
    <3>2. CASE rest # {}
      <4>1. First(rest) \in rest
        BY <1>2, <3>2, FirstIn, Numbers
      <4>2. /\ call' = [call EXCEPT !.chip = First(rest), !.todo = rest]
            /\ pc' = "sync" /\ Phase' = "sync"
        BY <1>1, <1>4, <3>2 DEF Phase
      <4>3. Fields(call, NoCall)
        BY DEF IInv, CallOK
      <4>4. /\ call'.chip = First(rest) /\ call'.todo = rest /\ call'.cmd = call.cmd
            /\ Fields(call, NoCall)'
        BY <4>2, <4>3 DEF Fields, NoCall
      <4> HIDE DEF rest, c
      <4> QED
        BY <1>2, <4>1, <4>2, <4>4 DEF CallOK, SyncShape, Work
    <3> QED
      BY <3>1, <3>2
  <2>5. CopyOK'
    BY <2>2 DEF CopyOK
  <2> QED
    BY <2>1, <2>3, <2>4, <2>5 DEF IInv
<1> QED
  BY <1>3, <1>4 DEF Sync

\* The buffer that is filled is not the one that a pending write needs.
LEMMA GetBufferToFillKeeps == IInv /\ GetBufferToFill => IInv'
<1> SUFFICES ASSUME IInv, GetBufferToFill PROVE IInv'
  OBVIOUS
<1> DEFINE c == call.chip
           n == NextBuffer(c)
<1>1. pc = "start" /\ Phase = "start" /\ call.cmd = "fill"
  BY DEF GetBufferToFill, Phase
<1>2. /\ c \in Chips /\ WorkShape(call) /\ Fields(call, NoCall)
      /\ DOMAIN call.blk = {0} /\ call.val[0] \in Values
  BY <1>1 DEF IInv, CallOK, Work, WorkShape, Writes
<1>3. n \in {0, 1} /\ n # BufIndex[c] /\ n \in Plane /\ n # CALLER
  <2>1. BufIndex[c] \in {0, 1}
    BY <1>2 DEF IInv, Types
  <2>2. n \in {0, 1} /\ n # BufIndex[c]
    BY <2>1 DEF NextBuffer
  <2> QED
    BY <2>2, Numbers
<1>4. CASE /\ Refused(c, "start")
           /\ BufAllBusy' = [BufAllBusy EXCEPT ![c] = FALSE]
  BY <1>1, <1>4, RefusedKeeps DEF Refused
<1>5. CASE /\ ~ (BufAllBusy[c] /\ ~ Free(c))
           /\ BufAllBusy' = [BufAllBusy EXCEPT ![c] = FALSE]
           /\ BufIndex' = [BufIndex EXCEPT ![c] = n]
           /\ Buf' = [Buf EXCEPT ![c][n] = call.val[0]]
           /\ call' = [call EXCEPT !.ref = [i \in {0} |-> n]]
           /\ pc' = "issue"
           /\ UNCHANGED <<chip, bm, rec, hist, budget>>
  <2>1. UNCHANGED <<cell, PrevOp, swap, spare, rec, wrote, lost, budget>> /\ Phase' = "issue"
    BY <1>5 DEF chip, bm, hist, Phase
  <2>2. /\ \A d \in Chips : d # c => BufIndex'[d] = BufIndex[d] /\ BufAllBusy'[d] = BufAllBusy[d]
                                    /\ Buf'[d] = Buf[d]
        /\ BufIndex'[c] = n /\ Buf'[c][n] = call.val[0]
        /\ \A b \in Plane : b # n => Buf'[c][b] = Buf[c][b]
    BY <1>2, <1>3, <1>5 DEF IInv, Types
  <2>3. Types'
    <3>1. Buf' \in [Chips -> [Plane -> Values \cup {BLANK, JUNK}]]
      BY <1>2, <1>3, <1>5 DEF IInv, Types
    <3> QED
      BY <1>2, <1>3, <1>5, <2>1, <3>1 DEF IInv, Types
  <2>4. SwapOK' /\ RecOK' /\ CopyOK'
    <3>1. call'.cmd = "fill"
      BY <1>1, <1>2, <1>5 DEF Fields, NoCall
    <3> QED
      BY <1>1, <1>5, <2>1, <3>1 DEF IInv, SwapOK, RecOK, CopyOK, Copies
  <2>5. PendingOK'
    <3> SUFFICES ASSUME NEW d \in Chips, ~ Free(d)
                 PROVE  Owed(d, PrevOp[d], DOMAIN PrevOp[d].blk)'
      BY <2>1 DEF IInv, PendingOK, Free
    <3>1. Owed(d, PrevOp[d], DOMAIN PrevOp[d].blk) /\ OpShape(PrevOp[d])
      BY DEF IInv, PendingOK
    <3>2. CASE d # c
      BY <2>1, <2>2, <3>1, <3>2 DEF Owed, Content
    <3>3. CASE d = c
      <4>1. \A i \in DOMAIN PrevOp[c].blk : PrevOp[c].ref[i] \in {CALLER, BufIndex[c]}
        BY <1>1, <1>2, <1>5, <3>3 DEF IInv, TurnsOK
      <4>2. BufIndex[c] \in Plane
        BY <1>2, Numbers DEF IInv, Types
      <4>3. Buf'[c][BufIndex[c]] = Buf[c][BufIndex[c]]
        BY <1>3, <2>2, <4>2
      <4> HIDE DEF c, n
      <4> QED
        BY <2>1, <3>1, <3>3, <4>1, <4>3 DEF Owed, Content
    <3> QED
      BY <3>2, <3>3
  <2>6. TurnsOK'
    <3>1. call'.chip = c
      BY <1>2, <1>5 DEF Fields, NoCall
    <3> SUFFICES ASSUME NEW d \in Chips, d # c, ~ Free(d), ~ BufAllBusy[d]
                 PROVE  \A i \in DOMAIN PrevOp[d].blk : PrevOp[d].ref[i] \in {CALLER, BufIndex[d]}
      BY <2>1, <2>2, <3>1 DEF TurnsOK, Free
    <3> QED
      BY DEF IInv, TurnsOK
  <2>7. CallOK'
    <3>1. /\ Fields(call, NoCall)' /\ call'.ref = [i \in {0} |-> n] /\ call'.cmd = call.cmd
          /\ call'.chip = c /\ call'.src = call.src /\ call'.blk = call.blk
          /\ call'.page = call.page /\ call'.from = call.from /\ call'.val = call.val
          /\ call'.todo = call.todo
      BY <1>2, <1>5 DEF Fields, NoCall
    <3> HIDE DEF c, n
    <3>2. WorkShape(call)'
      BY <1>1, <1>2, <3>1 DEF WorkShape, Writes, Erases, c
    <3> QED
      BY <1>1, <1>2, <1>5, <2>1, <2>2, <3>1, <3>2 DEF CallOK, Work, Copies
  <2> QED
    BY <2>3, <2>4, <2>5, <2>6, <2>7 DEF IInv
<1> QED
  BY <1>4, <1>5 DEF GetBufferToFill

\* The planes of the next low-level operation are planes of the call.
LEMMA TurnIn ==
  ASSUME WorkShape(call)
  PROVE  /\ Turn = IF Together THEN Plane ELSE Next1
         /\ Turn \subseteq call.todo /\ Turn # {} /\ Turn \subseteq DOMAIN call.blk
         /\ Turn \subseteq Plane
         /\ Together => call.cmd \in {"write_group", "copy_group", "erase_group"}
<1>1. call.todo # {} /\ call.todo \subseteq DOMAIN call.blk /\ DOMAIN call.blk \subseteq Plane
  BY DEF WorkShape
<1>2. Next1 \subseteq call.todo /\ Next1 # {}
  BY <1>1, FirstIn, Numbers DEF Next1
<1> QED
  BY <1>1, <1>2, Numbers DEF Turn, Together

LEMMA GetBufferToReadKeeps == IInv /\ GetBufferToRead => IInv'
<1> SUFFICES ASSUME IInv, GetBufferToRead PROVE IInv'
  OBVIOUS
<1> DEFINE c == call.chip
           n == NextBuffer(c)
<1>1. /\ pc = "start" /\ Phase = "start" /\ pc' = "read" /\ Phase' = "read"
      /\ call.cmd \in Copies
      /\ UNCHANGED <<cell, PrevOp, swap, spare, Buf, BufAllBusy, rec, wrote, lost, budget>>
  BY DEF GetBufferToRead, Phase, chip, bm, hist
<1>2. c \in Chips /\ WorkShape(call) /\ Fields(call, NoCall)
  BY <1>1 DEF IInv, CallOK, Work
<1>3. n \in {0, 1}
  <2>1. BufIndex[c] \in {0, 1}
    BY <1>2 DEF IInv, Types
  <2> QED
    BY <2>1 DEF NextBuffer
<1>4. PICK R :
        /\ call' = [call EXCEPT !.ref = R]
        /\ BufIndex' = IF Together THEN BufIndex ELSE [BufIndex EXCEPT ![c] = n]
        /\ R = IF Together THEN [i \in Plane |-> i] ELSE [i \in Next1 |-> n]
  BY DEF GetBufferToRead
<1>5. /\ Fields(call, NoCall)' /\ call'.ref = R /\ call'.cmd = call.cmd
      /\ call'.chip = c /\ call'.src = call.src /\ call'.blk = call.blk
      /\ call'.page = call.page /\ call'.from = call.from /\ call'.val = call.val
      /\ call'.todo = call.todo
  BY <1>2, <1>4 DEF Fields, NoCall
<1>6. \A d \in Chips : d # c => BufIndex'[d] = BufIndex[d]
  BY <1>4 DEF IInv, Types
<1>7. Types'
  <2>1. BufIndex' \in [Chips -> {0, 1}]
    BY <1>2, <1>3, <1>4 DEF IInv, Types
  <2> QED
    BY <1>1, <2>1 DEF IInv, Types
<1>8. SwapOK' /\ PendingOK' /\ RecOK'
  BY <1>1 DEF IInv, SwapOK, PendingOK, Owed, Content, Free, RecOK
<1>9. TurnsOK'
  <2> SUFFICES ASSUME NEW d \in Chips, d # c, ~ Free(d), ~ BufAllBusy[d]
               PROVE  \A i \in DOMAIN PrevOp[d].blk : PrevOp[d].ref[i] \in {CALLER, BufIndex[d]}
    BY <1>1, <1>5, <1>6 DEF TurnsOK, Free
  <2> QED
    BY DEF IInv, TurnsOK
<1>10. CallOK'
  <2>1. WorkShape(call)'
    BY <1>1, <1>2, <1>5 DEF WorkShape, Copies, Writes, Erases
  <2> QED
    BY <1>1, <1>2, <1>5, <2>1 DEF CallOK, Work
<1>11. CopyOK'
  <2>1. Together' = Together /\ Next1' = Next1
    BY <1>1, <1>5 DEF Together, Next1, Target, Source
  <2>2. ~ Together => BufIndex'[c] = n
    BY <1>2, <1>4 DEF IInv, Types
  <2>3. call'.ref = IF Together THEN [i \in Plane |-> i] ELSE [i \in Next1 |-> BufIndex'[c]]
    BY <1>4, <1>5, <2>2
  <2> QED
    BY <1>1, <1>5, <2>1, <2>3 DEF CopyOK
<1> QED
  BY <1>7, <1>8, <1>9, <1>10, <1>11 DEF IInv

\* The planes that a copy reads, and where.
LEMMA Reading ==
  ASSUME IInv, pc \in {"read", "issue"}, call.cmd \in Copies
  PROVE  /\ call.chip \in Chips /\ WorkShape(call) /\ Fields(call, NoCall)
         /\ call.src = call.chip /\ DOMAIN call.ref = Turn
         /\ \A i \in Turn : /\ call.ref[i] \in Plane
                            /\ call.from[i].blk \in User /\ call.from[i].page \in Page
                            /\ Source(i) \in Block
         /\ OneToOne(call.ref)
<1>1. Phase = pc /\ call.chip \in Chips /\ WorkShape(call) /\ Fields(call, NoCall)
  BY DEF IInv, CallOK, Phase, Work
<1>2. call.src = call.chip
  BY <1>1 DEF WorkShape
<1>3. call.ref = IF Together THEN [i \in Plane |-> i] ELSE [i \in Next1 |-> BufIndex[call.chip]]
  BY DEF IInv, CopyOK
<1>4. DOMAIN call.ref = Turn
  BY <1>3 DEF Turn
<1>5. BufIndex[call.chip] \in Plane
  BY <1>1, Numbers DEF IInv, Types
<1>6. \A i \in Turn : call.ref[i] \in Plane
  BY <1>3, <1>5 DEF Turn
<1>7. call.cmd \in {"copy", "copy_group"}
  BY <1>1 DEF WorkShape, Copies, Writes, Erases
<1>8. \A i \in Turn : call.from[i].blk \in User /\ call.from[i].page \in Page
  BY <1>1, <1>7, TurnIn DEF WorkShape
<1>9. \A i \in Turn : Source(i) \in Block
  BY <1>1, <1>2, <1>8 DEF IInv, Types, Source
<1>10. OneToOne(call.ref)
  BY <1>3 DEF OneToOne, Next1
<1> QED
  BY <1>1, <1>2, <1>4, <1>6, <1>8, <1>9, <1>10

LEMMA ReadSourceKeeps == IInv /\ ReadSource => IInv'
<1> SUFFICES ASSUME IInv, ReadSource PROVE IInv'
  OBVIOUS
<1> DEFINE c == call.chip
           T == DOMAIN call.ref
           got == [i \in T |-> cell[c][Source(i)][call.from[i].page]]
           B == [b \in DOMAIN Buf[c] |-> IF \E i \in T : call.ref[i] = b
                                         THEN got[CHOOSE i \in T : call.ref[i] = b]
                                         ELSE Buf[c][b]]
<1>1. pc = "read" /\ Phase = "read" /\ call.cmd \in Copies
  BY DEF ReadSource, Phase, IInv, CallOK
<1>2. /\ c \in Chips /\ WorkShape(call) /\ Fields(call, NoCall) /\ call.src = c
      /\ OneToOne(call.ref) /\ Reread = "start"
      /\ \A i \in T : /\ call.ref[i] \in Plane /\ Source(i) \in Block
                      /\ call.from[i].page \in Page
  BY <1>1, Reading DEF Reread
<1>3. DOMAIN Buf[c] = Plane
  BY <1>2 DEF IInv, Types
<1>4. \A i \in T : got[i] \in Values \cup {BLANK, JUNK}
  <2> SUFFICES ASSUME NEW i \in T
               PROVE  cell[c][Source(i)][call.from[i].page] \in Values \cup {BLANK, JUNK}
    OBVIOUS
  <2>1. cell[c] \in [Block -> [Page -> Values \cup {BLANK, JUNK}]]
    BY <1>2 DEF IInv, Types
  <2>2. Source(i) \in Block /\ call.from[i].page \in Page
    BY <1>2
  <2> QED
    BY <2>1, <2>2
<1>5. CASE Refused(c, "start") /\ UNCHANGED BufAllBusy
  BY <1>1, <1>5, RefusedKeeps DEF Refused
<1>6. CASE /\ Free(c) /\ Buf' = [Buf EXCEPT ![c] = B]
           /\ IF \E i \in T : got[i] = JUNK
              THEN pc' = "idle" /\ call' = NoCall
              ELSE pc' = "issue" /\ call' = [call EXCEPT !.val = got]
           /\ UNCHANGED <<chip, bm, BufIndex, BufAllBusy, rec, hist, budget>>
  <2>1. UNCHANGED <<cell, PrevOp, swap, spare, BufIndex, BufAllBusy, rec, wrote, lost, budget>>
    BY <1>6 DEF chip, bm, hist
  <2>2. ASSUME NEW i \in T
        PROVE  B[call.ref[i]] = got[i]
    <3>1. call.ref[i] \in DOMAIN Buf[c] /\ \E j \in T : call.ref[j] = call.ref[i]
      BY <1>2, <1>3
    <3>2. (CHOOSE j \in T : call.ref[j] = call.ref[i]) = i
      BY <1>2, <3>1 DEF OneToOne
    <3> QED
      BY <3>1, <3>2
  <2>3. B \in [Plane -> Values \cup {BLANK, JUNK}]
    <3> SUFFICES ASSUME NEW b \in Plane PROVE B[b] \in Values \cup {BLANK, JUNK}
      BY <1>3
    <3>1. Buf[c][b] \in Values \cup {BLANK, JUNK}
      BY <1>2 DEF IInv, Types
    <3> HIDE DEF got
    <3> QED
      BY <1>3, <1>4, <3>1
  <2> HIDE DEF B, got
  <2>4. Types'
    <3>1. Buf' \in [Chips -> [Plane -> Values \cup {BLANK, JUNK}]]
      BY <1>2, <1>6, <2>3 DEF IInv, Types
    <3> QED
      BY <1>6, <2>1, <3>1 DEF IInv, Types
  <2>5. \A d \in Chips : d # c => Buf'[d] = Buf[d]
    BY <1>6 DEF IInv, Types
  <2>6. SwapOK' /\ RecOK'
    BY <1>1, <1>6, <2>1 DEF IInv, SwapOK, RecOK
  <2>7. PendingOK'
    <3> SUFFICES ASSUME NEW d \in Chips, ~ Free(d)
                 PROVE  Owed(d, PrevOp[d], DOMAIN PrevOp[d].blk)'
      BY <2>1 DEF IInv, PendingOK, Free
    <3>1. d # c
      BY <1>6
    <3> QED
      BY <2>1, <2>5, <3>1 DEF IInv, PendingOK, Owed, Content
  <2>8. TurnsOK'
    <3> SUFFICES ASSUME NEW d \in Chips, ~ Free(d), ~ BufAllBusy[d]
                 PROVE  \A i \in DOMAIN PrevOp[d].blk : PrevOp[d].ref[i] \in {CALLER, BufIndex[d]}
      BY <2>1 DEF TurnsOK, Free
    <3> QED
      BY <1>6 DEF IInv, TurnsOK
  <2>9. CASE \E i \in T : got[i] = JUNK
    <3>1. pc' = "idle" /\ call' = NoCall /\ Phase' = "idle"
      BY <1>6, <2>9 DEF Phase
    <3>2. CallOK' /\ CopyOK'
      BY <3>1 DEF CallOK, CopyOK, Fields, Work
    <3> QED
      BY <2>4, <2>6, <2>7, <2>8, <3>2 DEF IInv
  <2>10. CASE ~ \E i \in T : got[i] = JUNK
    <3>1. pc' = "issue" /\ call' = [call EXCEPT !.val = got] /\ Phase' = "issue"
      BY <1>6, <2>10 DEF Phase
    <3>2. /\ Fields(call, NoCall)' /\ call'.ref = call.ref /\ call'.cmd = call.cmd
          /\ call'.chip = c /\ call'.src = call.src /\ call'.blk = call.blk
          /\ call'.page = call.page /\ call'.from = call.from /\ call'.val = got
          /\ call'.todo = call.todo
      BY <1>2, <3>1 DEF Fields, NoCall
    <3>3. CallOK'
      <4>1. WorkShape(call)'
        BY <1>1, <1>2, <3>2 DEF WorkShape, Copies, Writes, Erases
      <4> QED
        BY <1>1, <1>2, <3>1, <3>2, <4>1 DEF CallOK, Work, Copies
    <3>4. CopyOK'
      <4>1. Together' = Together /\ Next1' = Next1
        BY <2>1, <3>2 DEF Together, Next1, Target, Source
      <4>2. call.ref = IF Together THEN [i \in Plane |-> i] ELSE [i \in Next1 |-> BufIndex[c]]
        BY <1>1 DEF IInv, CopyOK
      <4>3. DOMAIN got = T
        BY DEF got
      <4>4. Buf'[c] = B
        BY <1>2, <1>6 DEF IInv, Types
      <4>5. \A i \in T : Buf'[c][call.ref[i]] = got[i] /\ got[i] \in Values \cup {BLANK}
        BY <1>4, <2>2, <2>10, <4>4
      <4>6. PrevOp'[c].st = "ok"
        BY <1>6, <2>1 DEF Free
      <4> HIDE DEF c
      <4> QED
        BY <2>1, <3>1, <3>2, <4>1, <4>2, <4>3, <4>5, <4>6 DEF CopyOK, Free
    <3> QED
      BY <2>4, <2>6, <2>7, <2>8, <3>3, <3>4 DEF IInv
  <2> QED
    BY <2>9, <2>10
<1> QED
  BY <1>2, <1>3, <1>5, <1>6 DEF ReadSource

----------------------------------------------------------------------------
(* Operations given to a chip                                              *)

\* What the call gives to its chip now.
LEMMA Giving ==
  ASSUME IInv, pc = "issue",
         NEW T, T = (IF call.cmd \in Copies THEN DOMAIN call.ref ELSE Turn),
         NEW o, o = Given(T)
  PROVE  /\ call.chip \in Chips /\ WorkShape(call) /\ Fields(call, NoCall)
         /\ T = Turn /\ T # {} /\ T \subseteq call.todo /\ T \subseteq DOMAIN call.blk
         /\ OpShape(o) /\ o.st = "busy" /\ o.cmd # "none" /\ DOMAIN o.blk = T
         /\ o.cmd = IF call.cmd \in Erases THEN "erase" ELSE "write"
         /\ Owed(call.chip, o, T)
         /\ (call.cmd = "copy_group" /\ Together)
              \/ \A i \in T : o.ref[i] \in {CALLER, BufIndex[call.chip]}
<1> DEFINE c == call.chip
<1>1. Phase = "issue" /\ c \in Chips /\ WorkShape(call) /\ Fields(call, NoCall)
  BY DEF IInv, CallOK, Phase, Work
<1>2. T = Turn
  BY Reading
<1>3. T # {} /\ T \subseteq call.todo /\ T \subseteq DOMAIN call.blk /\ T \subseteq Plane
  BY <1>1, <1>2, TurnIn
<1>4. /\ o.cmd = IF call.cmd \in Erases THEN "erase" ELSE "write"
      /\ o.st = "busy" /\ o.page = call.page
      /\ o.blk = [i \in T |-> Target(i)] /\ o.of = [i \in T |-> call.blk[i]]
      /\ o.ref = (IF T \subseteq DOMAIN call.ref THEN [i \in T |-> call.ref[i]]
                  ELSE [i \in T |-> CALLER])
      /\ o.val = (IF T \subseteq DOMAIN call.val THEN [i \in T |-> call.val[i]]
                  ELSE [i \in T |-> BLANK])
      /\ Fields(o, NoOp)
  BY DEF Given, Erases, Fields, NoOp
<1>5. \A i \in T : call.blk[i] \in User /\ Target(i) \in Block
  BY <1>1, <1>3 DEF WorkShape, IInv, Types, Target
<1>6. OneToOne(o.of)
  BY <1>1, <1>3, <1>4 DEF WorkShape, OneToOne
<1>7. call.page \in Page
  BY <1>1 DEF WorkShape
<1>8. /\ \A i \in T : o.ref[i] \in {CALLER} \cup Plane /\ o.val[i] \in Values \cup {BLANK}
      /\ o.cmd = "write" => \A i \in T : Content(c, o, i) = o.val[i]
      /\ (call.cmd = "copy_group" /\ Together)
           \/ \A i \in T : o.ref[i] \in {CALLER, BufIndex[c]}
  <2>1. CASE call.cmd \in Copies
    <3>1. T = DOMAIN call.ref
      BY <2>1
    <3>2. /\ DOMAIN call.val = T
          /\ \A i \in T : Buf[c][call.ref[i]] = call.val[i] /\ call.val[i] \in Values \cup {BLANK}
      BY <2>1, <3>1 DEF IInv, CopyOK
    <3>3. \A i \in T : o.ref[i] = call.ref[i] /\ o.val[i] = call.val[i]
      BY <1>4, <3>1, <3>2
    <3>4. \A i \in T : call.ref[i] \in Plane /\ CALLER \notin Plane
      BY <2>1, <3>1, Reading, Numbers
    <3>5. (call.cmd = "copy_group" /\ Together) \/ \A i \in T : call.ref[i] = BufIndex[c]
      <4>1. CASE Together
        BY <1>1, <2>1, <4>1, TurnIn DEF Copies
      <4>2. CASE ~ Together
        BY <2>1, <3>1, <4>2 DEF IInv, CopyOK
      <4> QED
        BY <4>1, <4>2
    <3> QED
      BY <3>2, <3>3, <3>4, <3>5 DEF Content
  <2>2. CASE call.cmd = "fill"
    <3>1. /\ DOMAIN call.ref = {0} /\ call.ref[0] = BufIndex[c]
          /\ Buf[c][call.ref[0]] = call.val[0]
      BY <1>1, <2>2 DEF IInv, CallOK
    <3>2. DOMAIN call.blk = {0} /\ DOMAIN call.val = {0} /\ call.val[0] \in Values
      BY <1>1, <2>2 DEF WorkShape, Writes
    <3>3. T = {0}
      BY <1>3, <3>2
    <3>4. o.ref[0] = BufIndex[c] /\ o.val[0] = call.val[0] /\ BufIndex[c] \in {0, 1}
      BY <1>1, <1>4, <3>1, <3>2, <3>3 DEF IInv, Types
    <3>5. BufIndex[c] \in Plane /\ BufIndex[c] # CALLER
      BY <3>4, Numbers
    <3> QED
      BY <3>1, <3>2, <3>3, <3>4, <3>5 DEF Content
  <2>3. CASE call.cmd \notin Copies \cup {"fill"}
    <3>1. call.cmd \in Erases \cup {"write", "write_group"}
      BY <1>1, <2>3 DEF WorkShape, Writes, Erases, Copies
    <3>2. DOMAIN call.ref = {}
      BY <1>1, <3>1 DEF WorkShape
    <3>3. \A i \in T : o.ref[i] = CALLER
      BY <1>3, <1>4, <3>2
    <3>4. \A i \in T : o.val[i] \in Values \cup {BLANK}
      <4>1. CASE T \subseteq DOMAIN call.val
        <5>1. call.cmd \in Writes
          BY <1>1, <1>3, <3>1, <4>1 DEF WorkShape, Writes
        <5> QED
          BY <1>1, <1>3, <1>4, <4>1, <5>1 DEF WorkShape
      <4>2. CASE ~ T \subseteq DOMAIN call.val
        BY <1>4, <4>2
      <4> QED
        BY <4>1, <4>2
    <3> QED
      BY <3>3, <3>4 DEF Content
  <2> QED
    BY <2>1, <2>2, <2>3
<1>9. OpShape(o)
  <2>1. /\ DOMAIN o.blk = T /\ DOMAIN o.of = T /\ DOMAIN o.ref = T /\ DOMAIN o.val = T
        /\ \A i \in T : o.blk[i] \in Block /\ o.of[i] \in User
    BY <1>4, <1>5
  <2>2. \A i \in T : o.ref[i] \in {CALLER} \cup Plane /\ o.val[i] \in Values \cup {BLANK}
    BY <1>8
  <2>3. /\ Fields(o, NoOp) /\ o.cmd \in {"none", "write", "erase"} /\ o.page \in Page
        /\ T \subseteq Plane /\ OneToOne(o.of)
    BY <1>3, <1>4, <1>6, <1>7
  <2> QED
    BY <2>1, <2>2, <2>3 DEF OpShape
<1>10. Owed(c, o, T)
  BY <1>4, <1>8 DEF Owed, Target
<1> QED
  BY <1>1, <1>2, <1>3, <1>4, <1>8, <1>9, <1>10

\* Callers' pages keep their types when an operation is accepted.
LEMMA ExpectedType ==
  ASSUME IInv, pc = "issue",
         NEW T, T = (IF call.cmd \in Copies THEN DOMAIN call.ref ELSE Turn),
         NEW o, o = Given(T)
  PROVE  /\ Expected(o, T) \in [Chips -> [User -> [Page -> Values \cup {BLANK}]]]
         /\ (lost \ LostPages(call.chip, o, T)) \cup CopiesOfLost(T) \subseteq Where
<1> DEFINE c == call.chip
<1>1. /\ c \in Chips /\ WorkShape(call) /\ OpShape(o) /\ T = Turn
      /\ T \subseteq DOMAIN call.blk /\ DOMAIN o.blk = T
  BY Giving
<1>2. call.cmd \in Copies => call.src = c /\ \A i \in T : /\ call.from[i].blk \in User
                                                         /\ call.from[i].page \in Page
  BY <1>1, Reading
<1>3. wrote \in [Chips -> [User -> [Page -> Values \cup {BLANK}]]] /\ lost \subseteq Where
  BY DEF IInv, Types
<1>4. \A i \in T : o.of[i] \in User /\ o.val[i] \in Values \cup {BLANK}
  BY <1>1 DEF OpShape
<1> DEFINE D(u, p) == \E i \in T : Touches(o, o.of, i, u, p)
           J(u) == CHOOSE i \in T : o.of[i] = u
           E(u, p) == IF D(u, p)
                      THEN IF call.cmd \in Copies
                           THEN wrote[call.src][call.from[J(u)].blk][call.from[J(u)].page]
                           ELSE o.val[J(u)]
                      ELSE wrote[c][u][p]
<1>5. ASSUME NEW u \in User, NEW p \in Page PROVE E(u, p) \in Values \cup {BLANK}
  <2>1. CASE D(u, p)
    <3>1. J(u) \in T
      BY <2>1 DEF Touches
    <3> HIDE DEF J
    <3>2. CASE call.cmd \in Copies
      BY <1>1, <1>2, <1>3, <2>1, <3>1, <3>2
    <3>3. CASE call.cmd \notin Copies
      BY <1>4, <2>1, <3>1, <3>3
    <3> QED
      BY <3>2, <3>3
  <2>2. CASE ~ D(u, p)
    <3> HIDE DEF D, J
    <3> QED
      BY <1>1, <1>3, <2>2
  <2> QED
    BY <2>1, <2>2
<1>6. Expected(o, T) = [wrote EXCEPT ![c] = [u \in User |-> [p \in Page |-> E(u, p)]]]
  BY DEF Expected
<1> HIDE DEF E, c
<1>7. [u \in User |-> [p \in Page |-> E(u, p)]] \in [User -> [Page -> Values \cup {BLANK}]]
  BY <1>5
<1>8. Expected(o, T) \in [Chips -> [User -> [Page -> Values \cup {BLANK}]]]
  BY <1>3, <1>6, <1>7
<1>9. CopiesOfLost(T) \subseteq Where
  <2>1. \A i \in T : <<call.chip, call.blk[i], call.page>> \in Where
    BY <1>1 DEF Where, WorkShape, c
  <2> QED
    BY <2>1 DEF CopiesOfLost
<1> QED
  BY <1>3, <1>8, <1>9

LEMMA IssueKeeps == IInv /\ Issue => IInv'
<1> SUFFICES ASSUME IInv, Issue PROVE IInv'
  OBVIOUS
<1> DEFINE c == call.chip
           T == IF call.cmd \in Copies THEN DOMAIN call.ref ELSE Turn
           o == Given(T)
<1>1. pc = "issue" /\ Phase = "issue"
  BY DEF Issue, Phase
<1>2. /\ c \in Chips /\ WorkShape(call) /\ Fields(call, NoCall)
      /\ T = Turn /\ T # {} /\ T \subseteq call.todo /\ T \subseteq DOMAIN call.blk
      /\ OpShape(o) /\ o.st = "busy" /\ o.cmd # "none" /\ DOMAIN o.blk = T
      /\ Owed(c, o, T)
      /\ (call.cmd = "copy_group" /\ Together)
           \/ \A i \in T : o.ref[i] \in {CALLER, BufIndex[c]}
  BY <1>1, Giving
<1>3. /\ Expected(o, T) \in [Chips -> [User -> [Page -> Values \cup {BLANK}]]]
      /\ (lost \ LostPages(c, o, T)) \cup CopiesOfLost(T) \subseteq Where
  BY <1>1, ExpectedType
<1>4. CASE Refused(c, "issue") /\ UNCHANGED BufAllBusy
  BY <1>1, <1>4, RefusedKeeps DEF Refused
<1>5. CASE /\ Free(c)
           /\ PrevOp' = [PrevOp EXCEPT ![c] = o]
           /\ BufAllBusy' = [BufAllBusy EXCEPT ![c] = @ \/ AllBusy]
           /\ wrote' = Expected(o, T)
           /\ lost' = (lost \ LostPages(c, o, T)) \cup CopiesOfLost(T)
           /\ IF call.todo = T
              THEN pc' = "idle" /\ call' = NoCall
              ELSE /\ pc' = IF call.cmd \in Copies THEN "start" ELSE "issue"
                   /\ call' = [call EXCEPT !.todo = @ \ T]
           /\ UNCHANGED <<cell, bm, Buf, BufIndex, rec, budget>>
  <2> HIDE DEF T, o
  <2>1. UNCHANGED <<cell, swap, spare, Buf, BufIndex, rec, budget>>
    BY <1>5 DEF bm
  <2>2. /\ PrevOp'[c] = o /\ DOMAIN PrevOp' = Chips
        /\ BufAllBusy'[c] = (BufAllBusy[c] \/ AllBusy)
        /\ \A d \in Chips : d # c => PrevOp'[d] = PrevOp[d] /\ BufAllBusy'[d] = BufAllBusy[d]
    BY <1>2, <1>5 DEF IInv, Types
  <2>3. pc' \in {"idle", "start", "issue"} /\ Phase' = pc'
    BY <1>5 DEF Phase
  <2>4. Types'
    <3>1. BufAllBusy' \in [Chips -> BOOLEAN]
      BY <1>5 DEF IInv, Types, AllBusy
    <3> QED
      BY <1>3, <1>5, <2>1, <2>2, <2>3, <3>1 DEF IInv, Types
  <2>5. SwapOK' /\ RecOK'
    BY <1>1, <2>1, <2>3 DEF IInv, SwapOK, RecOK
  <2>6. PendingOK'
    <3>1. ASSUME NEW d \in Chips, d # c
          PROVE  /\ Free(d)' => PrevOp'[d] = NoOp
                 /\ OpShape(PrevOp'[d]) /\ PrevOp'[d].st \in {"ok", "busy", "failed"}
                 /\ ~ Free(d)' => /\ DOMAIN PrevOp'[d].blk # {} /\ PrevOp'[d].cmd # "none"
                                  /\ Owed(d, PrevOp[d], DOMAIN PrevOp[d].blk)'
      BY <2>1, <2>2, <3>1 DEF IInv, PendingOK, Free, Owed, Content
    <3> SUFFICES ASSUME NEW d \in Chips, d = c
                 PROVE  /\ PrevOp'[d].st = "busy" /\ OpShape(PrevOp'[d])
                        /\ DOMAIN PrevOp'[d].blk # {} /\ PrevOp'[d].cmd # "none"
                        /\ Owed(d, PrevOp[d], DOMAIN PrevOp[d].blk)'
      BY <3>1 DEF PendingOK, Free
    <3>2. PrevOp'[d] = o
      BY <2>2
    <3> HIDE DEF c
    <3> QED
      BY <1>2, <2>1, <3>2 DEF Owed, Content
  <2>7. TurnsOK'
    <3> SUFFICES ASSUME NEW d \in Chips, ~ Free(d)', ~ BufAllBusy'[d]
                 PROVE  \A i \in DOMAIN PrevOp'[d].blk : PrevOp'[d].ref[i] \in {CALLER, BufIndex'[d]}
      BY DEF TurnsOK
    <3>1. CASE d # c
      BY <2>1, <2>2, <3>1 DEF IInv, TurnsOK, Free
    <3>2. CASE d = c
      BY <1>2, <2>1, <2>2, <3>2 DEF AllBusy
    <3> QED
      BY <3>1, <3>2
  <2>8. CASE call.todo = T
    <3>1. pc' = "idle" /\ call' = NoCall
      BY <1>5, <2>8
    <3>2. CallOK' /\ CopyOK'
      BY <2>3, <3>1 DEF CallOK, CopyOK, Fields, Work
    <3> QED
      BY <2>4, <2>5, <2>6, <2>7, <3>2 DEF IInv
  <2>9. CASE call.todo # T
    <3>1. pc' = (IF call.cmd \in Copies THEN "start" ELSE "issue")
      BY <1>5, <2>9
    <3>2. /\ Fields(call, NoCall)' /\ call'.ref = call.ref /\ call'.cmd = call.cmd
          /\ call'.chip = c /\ call'.src = call.src /\ call'.blk = call.blk
          /\ call'.page = call.page /\ call'.from = call.from /\ call'.val = call.val
          /\ call'.todo = call.todo \ T
      BY <1>2, <1>5, <2>9 DEF Fields, NoCall
    <3>3. call.todo \ T # {} /\ call.cmd # "fill"
      <4>1. call.cmd = "fill" => DOMAIN call.blk = {0}
        BY <1>2 DEF WorkShape
      <4>2. call.todo \subseteq DOMAIN call.blk
        BY <1>2 DEF WorkShape
      <4> QED
        BY <1>2, <2>9, <4>1, <4>2
    <3>4. WorkShape(call)'
      BY <1>2, <3>2, <3>3 DEF WorkShape, Writes, Erases
    <3>5. CallOK'
      BY <1>2, <2>3, <3>1, <3>2, <3>3, <3>4 DEF CallOK, Work
    <3>6. CopyOK'
      BY <3>1, <3>2 DEF CopyOK
    <3> QED
      BY <2>4, <2>5, <2>6, <2>7, <3>5, <3>6 DEF IInv
  <2> QED
    BY <2>8, <2>9
<1> QED
  BY <1>4, <1>5 DEF Issue

----------------------------------------------------------------------------
(* What chips do                                                           *)

\* The pages of a chip after an operation, wherever its data comes from.
LEMMA AfterType ==
  ASSUME IInv, NEW c \in Chips, NEW o, OpShape(o), NEW S \in SUBSET DOMAIN o.blk, NEW bad
  PROVE  After(c, o, S, bad) \in [Block -> [Page -> Values \cup {BLANK, JUNK}]]
<1>1. /\ cell[c] \in [Block -> [Page -> Values \cup {BLANK, JUNK}]]
      /\ Buf[c] \in [Plane -> Values \cup {BLANK, JUNK}]
  BY DEF IInv, Types
<1>2. \A i \in S : Content(c, o, i) \in Values \cup {BLANK, JUNK}
  BY <1>1 DEF OpShape, Content
<1> DEFINE D(b, p) == \E i \in S : Touches(o, o.blk, i, b, p)
           J(b) == CHOOSE i \in S : o.blk[i] = b
           A(b, p) == IF D(b, p)
                      THEN IF J(b) \in bad THEN JUNK
                           ELSE IF o.cmd = "erase" THEN BLANK ELSE Content(c, o, J(b))
                      ELSE cell[c][b][p]
<1>3. ASSUME NEW b \in Block, NEW p \in Page PROVE A(b, p) \in Values \cup {BLANK, JUNK}
  <2>1. D(b, p) => J(b) \in S
    BY DEF Touches
  <2> HIDE DEF D, J
  <2> QED
    BY <1>1, <1>2, <2>1
<1>4. After(c, o, S, bad) = [b \in Block |-> [p \in Page |-> A(b, p)]]
  BY DEF After
<1> HIDE DEF A
<1> QED
  BY <1>3, <1>4

LEMMA FinishKeeps ==
  ASSUME IInv, NEW c \in Chips, Finish(c)
  PROVE  IInv'
<1> DEFINE o == PrevOp[c]
<1>1. Busy(c) /\ ~ Free(c) /\ o.st = "busy"
  BY DEF Finish, Busy, Free
<1>2. OpShape(o) /\ DOMAIN o.blk # {} /\ o.cmd # "none" /\ Owed(c, o, DOMAIN o.blk)
  BY <1>1 DEF IInv, PendingOK
<1>3. /\ UNCHANGED <<swap, spare, Buf, BufIndex, BufAllBusy, pc, call, rec, wrote, lost>>
      /\ Phase' = Phase
  BY DEF Finish, bm, bufs, hist, Phase
<1> DEFINE Ends(bad, st) ==
             /\ cell' = [cell EXCEPT ![c] = After(c, o, DOMAIN o.blk, bad)]
             /\ PrevOp' = [PrevOp EXCEPT ![c] = IF st = "ok" THEN NoOp
                                                ELSE [o EXCEPT !.st = "failed"]]
             /\ UNCHANGED budget \/ Spend("fail", 1)
<1>4. PICK bad \in SUBSET DOMAIN o.blk, st \in {"ok", "failed"} : Ends(bad, st)
  <2>1. CASE /\ cell' = [cell EXCEPT ![c] = After(c, o, DOMAIN o.blk, {})]
             /\ PrevOp' = [PrevOp EXCEPT ![c] = NoOp]
             /\ UNCHANGED budget
    <3>1. Ends({}, "ok")
      BY <2>1
    <3> HIDE DEF Ends
    <3> QED
      BY <3>1
  <2>2. CASE /\ Spend("fail", 1)
             /\ \E bad \in SUBSET DOMAIN o.blk \ {{}} :
                  cell' = [cell EXCEPT ![c] = After(c, o, DOMAIN o.blk, bad)]
             /\ PrevOp' = [PrevOp EXCEPT ![c].st = "failed"]
    <3>1. PICK bad \in SUBSET DOMAIN o.blk : cell' = [cell EXCEPT ![c] = After(c, o, DOMAIN o.blk, bad)]
      BY <2>2
    <3>2. Ends(bad, "failed")
      BY <2>2, <3>1
    <3> HIDE DEF Ends
    <3> QED
      BY <3>2
  <2> QED
    BY <2>1, <2>2, Zenon DEF Finish
<1>5. /\ DOMAIN PrevOp' = Chips
      /\ PrevOp'[c] = (IF st = "ok" THEN NoOp ELSE [o EXCEPT !.st = "failed"])
      /\ \A d \in Chips : d # c => PrevOp'[d] = PrevOp[d]
  BY <1>4 DEF IInv, Types
<1> HIDE DEF o
<1>6. \/ PrevOp'[c] = NoOp
      \/ /\ PrevOp'[c].st = "failed" /\ Fields(PrevOp'[c], o)
         /\ PrevOp'[c].cmd = o.cmd /\ PrevOp'[c].blk = o.blk /\ PrevOp'[c].of = o.of
         /\ PrevOp'[c].page = o.page /\ PrevOp'[c].ref = o.ref /\ PrevOp'[c].val = o.val
  BY <1>2, <1>5 DEF OpShape, Fields, NoOp
<1>7. Types'
  <2>1. cell' \in [Chips -> [Block -> [Page -> Values \cup {BLANK, JUNK}]]]
    <3>1. After(c, o, DOMAIN o.blk, bad) \in [Block -> [Page -> Values \cup {BLANK, JUNK}]]
      BY <1>2, AfterType
    <3> QED
      BY <1>4, <3>1 DEF IInv, Types
  <2>2. budget' \in [call : 0 .. MaxCalls, fail : 0 .. MaxFailures]
    BY <1>4, Spending DEF IInv, Types
  <2> QED
    BY <1>3, <1>5, <2>1, <2>2 DEF IInv, Types
<1>8. SwapOK' /\ CallOK'
  BY <1>3 DEF IInv, SwapOK, CallOK
<1>9. PendingOK'
  <2>1. ASSUME NEW d \in Chips, d # c
        PROVE  /\ Free(d)' => PrevOp'[d] = NoOp
               /\ OpShape(PrevOp'[d]) /\ PrevOp'[d].st \in {"ok", "busy", "failed"}
               /\ ~ Free(d)' => /\ DOMAIN PrevOp'[d].blk # {} /\ PrevOp'[d].cmd # "none"
                                /\ Owed(d, PrevOp[d], DOMAIN PrevOp[d].blk)'
    BY <1>3, <1>5, <2>1 DEF IInv, PendingOK, Free, Owed, Content
  <2>2. CASE PrevOp'[c] = NoOp
    BY <2>1, <2>2, NoOpShape DEF PendingOK, Free
  <2>3. CASE PrevOp'[c] # NoOp
    <3>1. OpShape(PrevOp'[c])
      BY <1>2, <1>6, <2>3 DEF OpShape, Fields
    <3>2. Owed(c, PrevOp[c], DOMAIN PrevOp[c].blk)'
      BY <1>2, <1>3, <1>6, <2>3 DEF Owed, Content
    <3> QED
      BY <1>2, <1>6, <2>1, <2>3, <3>1, <3>2 DEF PendingOK, Free
  <2> QED
    BY <2>2, <2>3
<1>10. TurnsOK'
  <2> SUFFICES ASSUME NEW d \in Chips, ~ Free(d)', ~ BufAllBusy[d],
                      ~ (Phase \in {"read", "issue"} /\ call.chip = d)
               PROVE  \A i \in DOMAIN PrevOp'[d].blk : PrevOp'[d].ref[i] \in {CALLER, BufIndex[d]}
    BY <1>3 DEF TurnsOK
  <2>1. CASE d # c
    BY <1>5, <2>1 DEF IInv, TurnsOK, Free
  <2>2. CASE d = c
    <3>1. PrevOp'[c] # NoOp
      BY <2>2, NoOpShape DEF Free
    <3>2. \A i \in DOMAIN o.blk : o.ref[i] \in {CALLER, BufIndex[c]}
      BY <1>1, <2>2 DEF IInv, TurnsOK, o
    <3> QED
      BY <1>6, <2>2, <3>1, <3>2
  <2> QED
    BY <2>1, <2>2
<1>11. RecOK'
  <2>1. CASE pc = "recover"
    <3>1. rec.chip # c /\ rec.chip \in Chips
      BY <1>1, <2>1 DEF IInv, RecOK
    <3>2. Free(rec.chip)'
      BY <1>3, <1>5, <2>1, <3>1 DEF IInv, RecOK, Free
    <3>3. Owed(rec.chip, rec.op, rec.todo)'
      BY <1>3, <2>1 DEF IInv, RecOK, Owed, Content
    <3> QED
      BY <1>3, <2>1, <3>2, <3>3 DEF IInv, RecOK
  <2>2. CASE pc # "recover"
    BY <1>3, <2>2 DEF IInv, RecOK
  <2> QED
    BY <2>1, <2>2
<1>12. CopyOK'
  <2>1. Together' = Together /\ Next1' = Next1
    BY <1>3 DEF Together, Next1, Target, Source
  <2>2. ASSUME pc = "issue", call.cmd \in Copies
        PROVE  Free(call.chip)'
    <3>1. Free(call.chip) /\ call.chip \in Chips
      BY <2>2 DEF IInv, CopyOK, CallOK, Phase
    <3> QED
      BY <1>1, <1>3, <1>5, <3>1 DEF Free
  <2> QED
    BY <1>3, <2>1, <2>2 DEF IInv, CopyOK
<1> QED
  BY <1>7, <1>8, <1>9, <1>10, <1>11, <1>12 DEF IInv

----------------------------------------------------------------------------
(* Recovery                                                                *)

\* BM_GetOriginalBlock finds the block that an owed operation was for.
LEMMA OriginalBlock ==
  ASSUME IInv, NEW c \in Chips, NEW u \in User
  PROVE  BM_GetOriginalBlock(c, swap[c][u]) = u
<1>1. /\ swap[c][u] \in User => swap[c][u] = u
      /\ \A t \in User : swap[c][t] = swap[c][u] => t = u
  BY DEF IInv, SwapOK, Types, OneToOne
<1> QED
  BY <1>1 DEF BM_GetOriginalBlock

\* The operation in recovery, and its plane i that is redone next.
LEMMA Recovering ==
  ASSUME IInv, pc = "recover", NEW i, i = First(rec.todo)
  PROVE  /\ rec.chip \in Chips /\ rec.chip = call.chip /\ Free(rec.chip)
         /\ Fields(rec, NoRec) /\ OpShape(rec.op) /\ Phase = rec.back
         /\ rec.back \in {"start", "issue", "sync"}
         /\ i \in rec.todo /\ rec.todo \subseteq DOMAIN rec.op.blk
         /\ rec.op.of[i] \in User /\ rec.op.blk[i] \in Block
         /\ rec.op.blk[i] = swap[rec.chip][rec.op.of[i]]
         /\ BM_GetOriginalBlock(rec.chip, rec.op.blk[i]) = rec.op.of[i]
<1>1. /\ rec.chip \in Chips /\ rec.chip = call.chip /\ Free(rec.chip)
      /\ Fields(rec, NoRec) /\ OpShape(rec.op) /\ rec.back \in {"start", "issue", "sync"}
      /\ rec.todo # {} /\ rec.todo \subseteq DOMAIN rec.op.blk
      /\ Owed(rec.chip, rec.op, rec.todo) /\ Phase = rec.back
  BY DEF IInv, RecOK, Phase
<1>2. i \in rec.todo
  BY <1>1, FirstIn, Numbers DEF OpShape
<1>3. /\ rec.op.of[i] \in User /\ rec.op.blk[i] \in Block
      /\ rec.op.blk[i] = swap[rec.chip][rec.op.of[i]]
  BY <1>1, <1>2 DEF OpShape, Owed
<1> QED
  BY <1>1, <1>2, <1>3, OriginalBlock

\* Plane i of o is done again, where it was or in a spare block.
Redone(c, o, i) ==
  \/ /\ \E bad : cell' = [cell EXCEPT ![c] = After(c, o, {i}, bad)]
     /\ UNCHANGED bm
  \/ \E s \in spare[c], x \in Values \cup {BLANK, JUNK} : Repeat(c, o, i, s, x)

\* The chip and the bad block map after that.
LEMMA RedoneType ==
  ASSUME IInv, pc = "recover", NEW i, i = First(rec.todo), NEW c, c = rec.chip,
         NEW o, o = rec.op,
         Redone(c, o, i)
  PROVE  /\ cell' \in [Chips -> [Block -> [Page -> Values \cup {BLANK, JUNK}]]]
         /\ swap' \in [Chips -> [User -> Block]]
         /\ spare' \in [Chips -> SUBSET (Block \ User)]
         /\ SwapOK'
         /\ \A d \in Chips \ {c} : swap'[d] = swap[d]
         /\ \A u \in User \ {o.of[i]} : swap'[c][u] = swap[c][u]
<1>1. /\ c \in Chips /\ OpShape(o) /\ i \in DOMAIN o.blk
      /\ o.of[i] \in User /\ o.blk[i] \in Block
      /\ BM_GetOriginalBlock(c, o.blk[i]) = o.of[i]
  BY Recovering
<1>2. /\ cell \in [Chips -> [Block -> [Page -> Values \cup {BLANK, JUNK}]]]
      /\ swap \in [Chips -> [User -> Block]]
      /\ spare \in [Chips -> SUBSET (Block \ User)]
      /\ SwapOK
  BY DEF IInv, Types
<1>3. CASE /\ \E bad : cell' = [cell EXCEPT ![c] = After(c, o, {i}, bad)]
           /\ UNCHANGED bm
  <2>1. PICK bad : cell' = [cell EXCEPT ![c] = After(c, o, {i}, bad)]
    BY <1>3
  <2>2. After(c, o, {i}, bad) \in [Block -> [Page -> Values \cup {BLANK, JUNK}]]
    BY <1>1, AfterType
  <2>3. UNCHANGED <<swap, spare>>
    BY <1>3 DEF bm
  <2> QED
    BY <1>1, <1>2, <2>1, <2>2, <2>3 DEF SwapOK
<1>4. CASE \E s \in spare[c], x \in Values \cup {BLANK, JUNK} : Repeat(c, o, i, s, x)
  <2>1. PICK s \in spare[c], x \in Values \cup {BLANK, JUNK} : Repeat(c, o, i, s, x)
    BY <1>4
  <2>2. s \in Block /\ s \notin User
    BY <1>1, <1>2
  <2> DEFINE A == [p \in Page |-> IF Touches(o, o.blk, i, o.blk[i], p) THEN x
                                  ELSE cell[c][o.blk[i]][p]]
  <2>3. /\ cell' = [cell EXCEPT ![c][s] = A]
        /\ swap' = [swap EXCEPT ![c][o.of[i]] = s]
        /\ spare' = [spare EXCEPT ![c] = @ \ {s}]
    BY <1>1, <2>1 DEF Repeat
  <2>4. A \in [Page -> Values \cup {BLANK, JUNK}]
    <3>1. cell[c][o.blk[i]] \in [Page -> Values \cup {BLANK, JUNK}]
      BY <1>1, <1>2
    <3> QED
      BY <3>1
  <2> HIDE DEF A
  <2>5. /\ cell' \in [Chips -> [Block -> [Page -> Values \cup {BLANK, JUNK}]]]
        /\ swap' \in [Chips -> [User -> Block]]
        /\ spare' \in [Chips -> SUBSET (Block \ User)]
    BY <1>1, <1>2, <2>2, <2>3, <2>4
  <2>6. /\ \A d \in Chips \ {c} : swap'[d] = swap[d] /\ spare'[d] = spare[d]
        /\ \A u \in User \ {o.of[i]} : swap'[c][u] = swap[c][u]
        /\ swap'[c][o.of[i]] = s /\ spare'[c] = spare[c] \ {s}
        /\ DOMAIN swap'[c] = User
    BY <1>1, <1>2, <2>3
  <2>7. SwapOK'
    <3> SUFFICES ASSUME NEW d \in Chips
                 PROVE  /\ OneToOne(swap'[d])
                        /\ \A u \in User : /\ swap'[d][u] \notin spare'[d]
                                           /\ swap'[d][u] \in User => swap'[d][u] = u
      BY DEF SwapOK
    <3>1. CASE d # c
      BY <1>2, <2>6, <3>1 DEF SwapOK
    <3>2. CASE d = c
      <4>1. \A u \in User : swap[c][u] \notin spare[c] /\ swap[c][u] # s
        BY <1>1, <1>2, <2>1 DEF SwapOK
      <4>2. OneToOne(swap[c]) /\ DOMAIN swap[c] = User
        BY <1>1, <1>2 DEF SwapOK
      <4>3. OneToOne(swap'[c])
        <5> SUFFICES ASSUME NEW t \in User, NEW u \in User, swap'[c][t] = swap'[c][u]
                     PROVE  t = u
          BY <2>6 DEF OneToOne
        <5> QED
          BY <2>6, <4>1, <4>2 DEF OneToOne
      <4>4. \A u \in User : /\ swap'[c][u] \notin spare'[c]
                            /\ swap'[c][u] \in User => swap'[c][u] = u
        <5> TAKE u \in User
        <5>1. CASE u = o.of[i]
          BY <1>1, <2>2, <2>6, <5>1
        <5>2. CASE u # o.of[i]
          <6>1. swap[c][u] \in User => swap[c][u] = u
            BY <1>1, <1>2 DEF SwapOK
          <6> QED
            BY <2>6, <4>1, <5>2, <6>1
        <5> QED
          BY <5>1, <5>2
      <4> QED
        BY <3>2, <4>3, <4>4
    <3> QED
      BY <3>1, <3>2
  <2> QED
    BY <2>5, <2>6, <2>7
<1> QED
  BY <1>3, <1>4 DEF Redone

\* A plane is redone, or recovery ends with it.
LEMMA RecoverShape ==
  ASSUME IInv, Recover, NEW i, i = First(rec.todo), NEW c, c = rec.chip,
         NEW o, o = rec.op
  PROVE  /\ pc = "recover" /\ (TryAgain(i) \/ GiveUp)
         /\ UNCHANGED <<PrevOp, Buf, BufIndex, BufAllBusy>>
         /\ budget' \in [call : 0 .. MaxCalls, fail : 0 .. MaxFailures]
         /\ cell' \in [Chips -> [Block -> [Page -> Values \cup {BLANK, JUNK}]]]
         /\ swap' \in [Chips -> [User -> Block]]
         /\ spare' \in [Chips -> SUBSET (Block \ User)]
         /\ SwapOK'
         /\ \A d \in Chips \ {c} : swap'[d] = swap[d]
         /\ \A u \in User \ {o.of[i]} : swap'[c][u] = swap[c][u]
<1> DEFINE group == Cardinality(DOMAIN o.blk) > 1
           failures == IF group THEN 1 ELSE 0
           done == IF o.cmd = "erase" THEN BLANK ELSE Content(c, o, i)
<1>1. /\ pc = "recover" /\ UNCHANGED <<PrevOp, Buf, BufIndex, BufAllBusy>>
  BY DEF Recover, bufs
<1>2. c \in Chips /\ i \in DOMAIN o.blk /\ OpShape(o)
  BY <1>1, Recovering
<1>3. done \in Values \cup {BLANK, JUNK}
  BY <1>2 DEF OpShape, Content, IInv, Types
<1>4. budget \in [call : 0 .. MaxCalls, fail : 0 .. MaxFailures]
  BY DEF IInv, Types
<1>5. failures \in Nat /\ failures + 1 \in Nat
  OBVIOUS
<1> HIDE DEF failures, done, group
<1> DEFINE Controlled ==
             /\ TryAgain(i) \/ GiveUp
             /\ budget' \in [call : 0 .. MaxCalls, fail : 0 .. MaxFailures]
<1>6. Redone(c, o, i) /\ Controlled
  <2>1. CASE /\ group
             /\ cell' = [cell EXCEPT ![c] = After(c, o, {i}, {})]
             /\ TryAgain(i)
             /\ UNCHANGED <<bm, budget>>
    BY <1>4, <2>1 DEF Redone
  <2>2. CASE /\ Spend("fail", failures)
             /\ \E s \in spare[c] : Repeat(c, o, i, s, done)
             /\ TryAgain(i)
    BY <1>3, <1>4, <1>5, <2>2, Spending DEF Redone
  <2>3. CASE /\ Spend("fail", failures)
             /\ spare[c] = {}
             /\ cell' = [cell EXCEPT ![c] = After(c, o, {i}, {i})]
             /\ GiveUp
             /\ UNCHANGED bm
    BY <1>4, <1>5, <2>3, Spending DEF Redone
  <2>4. CASE /\ Spend("fail", failures + 1)
             /\ \E s \in spare[c] : Repeat(c, o, i, s, JUNK)
             /\ GiveUp
    BY <1>4, <1>5, <2>4, Spending DEF Redone
  <2> QED
    BY <2>1, <2>2, <2>3, <2>4 DEF Recover, failures, done, group
<1>7. /\ cell' \in [Chips -> [Block -> [Page -> Values \cup {BLANK, JUNK}]]]
      /\ swap' \in [Chips -> [User -> Block]]
      /\ spare' \in [Chips -> SUBSET (Block \ User)]
      /\ SwapOK'
      /\ \A d \in Chips \ {c} : swap'[d] = swap[d]
      /\ \A u \in User \ {o.of[i]} : swap'[c][u] = swap[c][u]
  BY <1>1, <1>6, RedoneType
<1> QED
  BY <1>1, <1>6, <1>7

LEMMA RecoverKeeps == IInv /\ Recover => IInv'
<1> SUFFICES ASSUME IInv, Recover PROVE IInv'
  OBVIOUS
<1> DEFINE c == rec.chip
           o == rec.op
           i == First(rec.todo)
<1>1. /\ pc = "recover" /\ (TryAgain(i) \/ GiveUp)
      /\ UNCHANGED <<PrevOp, Buf, BufIndex, BufAllBusy>>
      /\ budget' \in [call : 0 .. MaxCalls, fail : 0 .. MaxFailures]
      /\ cell' \in [Chips -> [Block -> [Page -> Values \cup {BLANK, JUNK}]]]
      /\ swap' \in [Chips -> [User -> Block]]
      /\ spare' \in [Chips -> SUBSET (Block \ User)]
      /\ SwapOK'
      /\ \A d \in Chips \ {c} : swap'[d] = swap[d]
      /\ \A u \in User \ {o.of[i]} : swap'[c][u] = swap[c][u]
  BY RecoverShape
<1>2. /\ c \in Chips /\ c = call.chip /\ Free(c)
      /\ Fields(rec, NoRec) /\ OpShape(o) /\ Phase = rec.back
      /\ rec.back \in {"start", "issue", "sync"}
      /\ i \in rec.todo /\ rec.todo \subseteq DOMAIN o.blk
      /\ o.cmd # "none" /\ o.st = "failed" /\ Owed(c, o, rec.todo)
      /\ CallOK
  BY <1>1, Recovering DEF IInv, RecOK
<1>3. PrevOp'[c].st = "ok" /\ c # NoChip
  BY <1>1, <1>2, Numbers DEF Free
<1> HIDE DEF i
<1>4. PendingOK'
  <2> SUFFICES ASSUME NEW d \in Chips, ~ Free(d)
               PROVE  Owed(d, PrevOp[d], DOMAIN PrevOp[d].blk)'
    BY <1>1 DEF IInv, PendingOK, Free
  <2>1. d # c
    BY <1>2
  <2>2. Owed(d, PrevOp[d], DOMAIN PrevOp[d].blk)
    BY DEF IInv, PendingOK
  <2>3. swap'[d] = swap[d] /\ PrevOp' = PrevOp /\ Buf' = Buf
    BY <1>1, <2>1
  <2> QED
    BY <2>2, <2>3 DEF Owed, Content
<1>5. CASE TryAgain(i)
  <2>1. /\ UNCHANGED <<call, wrote, lost>> /\ Phase' = Phase
        /\ pc' \in {"recover", "start", "issue", "sync"}
    BY <1>1, <1>2, <1>5 DEF TryAgain, hist, Phase, NoRec, Fields
  <2>2. Types'
    BY <1>1, <2>1 DEF IInv, Types
  <2>3. TurnsOK'
    BY <1>1, <2>1 DEF IInv, TurnsOK, Free
  <2>4. RecOK'
    <3>1. CASE rec.todo = {i}
      BY <1>2, <1>5, <3>1 DEF TryAgain, RecOK
    <3>2. CASE rec.todo # {i}
      <4>1. /\ Fields(rec, NoRec)' /\ rec'.op = o /\ rec'.chip = c /\ rec'.back = rec.back
            /\ rec'.todo = rec.todo \ {i} /\ pc' = "recover"
        BY <1>2, <1>5, <3>2 DEF TryAgain, Fields, NoRec
      <4>2. \A j \in rec.todo \ {i} : o.of[j] \in User \ {o.of[i]}
        BY <1>2 DEF OpShape, OneToOne
      <4>3. Owed(c, o, rec.todo \ {i}) /\ rec.todo \ {i} # {}
        BY <1>2, <3>2 DEF Owed
      <4>4. \A j \in rec.todo \ {i} :
              /\ o.blk[j] = swap'[c][o.of[j]]
              /\ o.cmd = "write" => (IF o.ref[j] = CALLER THEN o.val[j]
                                     ELSE Buf'[c][o.ref[j]]) = o.val[j]
        BY <1>1, <4>2, <4>3 DEF Owed, Content
      <4> HIDE DEF c, o
      <4>5. Owed(rec.chip, rec.op, rec.todo)'
        BY <4>1, <4>4 DEF Owed, Content
      <4> QED
        BY <1>2, <1>3, <2>1, <4>1, <4>3, <4>5 DEF RecOK, Free
    <3> QED
      BY <3>1, <3>2
  <2>5. CallOK'
    <3>1. ~ (Phase = "issue" /\ call.cmd \in Copies)
      BY <1>1, <1>2 DEF CallOK
    <3> QED
      BY <1>1, <1>2, <2>1, <3>1 DEF CallOK, Work
  <2>6. CopyOK'
    <3>1. ~ (Phase = "issue" /\ call.cmd \in Copies)
      BY <1>1, <1>2 DEF CallOK
    <3> QED
      BY <2>1, <3>1 DEF CopyOK, Phase
  <2> QED
    BY <1>1, <1>4, <2>2, <2>3, <2>4, <2>5, <2>6 DEF IInv
<1>6. CASE GiveUp
  <2>1. /\ UNCHANGED wrote /\ rec' = NoRec /\ lost' = lost \cup LostPages(c, o, rec.todo)
        /\ \/ pc' = "start" /\ rec.back = "start" /\ UNCHANGED call
           \/ pc' = "idle" /\ call' = NoCall
    BY <1>6 DEF GiveUp
  <2>2. Phase' = pc' /\ pc' \in {"start", "idle"}
    BY <2>1 DEF Phase
  <2>3. Types'
    <3>1. LostPages(c, o, rec.todo) \subseteq Where
      BY DEF LostPages
    <3> QED
      BY <1>1, <2>1, <2>2, <3>1 DEF IInv, Types
  <2>4. TurnsOK'
    <3> SUFFICES ASSUME NEW d \in Chips, ~ Free(d), ~ BufAllBusy[d]
                 PROVE  \A j \in DOMAIN PrevOp[d].blk : PrevOp[d].ref[j] \in {CALLER, BufIndex[d]}
      BY <1>1 DEF TurnsOK, Free
    <3>1. call.chip # d
      BY <1>2
    <3> QED
      BY <3>1 DEF IInv, TurnsOK
  <2>5. RecOK'
    BY <2>1, <2>2 DEF RecOK
  <2>6. CallOK'
    <3>1. CASE pc' = "start" /\ rec.back = "start" /\ UNCHANGED call
      BY <1>1, <1>2, <2>2, <3>1 DEF CallOK, Work
    <3>2. CASE pc' = "idle" /\ call' = NoCall
      BY <2>2, <3>2 DEF CallOK, Work, Fields
    <3> QED
      BY <2>1, <3>1, <3>2
  <2>7. CopyOK'
    BY <2>2 DEF CopyOK
  <2> QED
    BY <1>1, <1>4, <2>3, <2>4, <2>5, <2>6, <2>7 DEF IInv
<1> QED
  BY <1>1, <1>5, <1>6

----------------------------------------------------------------------------
(* The specification                                                       *)

LEMMA StepKeeps == NoCrossCopy /\ IInv /\ [Next]_vars => IInv'
<1> SUFFICES ASSUME NoCrossCopy, IInv, [Next]_vars PROVE IInv'
  OBVIOUS
<1>1. CASE FD_WritePage \/ write_sector_group
  BY <1>1, WriteKeeps DEF FD_WritePage, write_sector_group
<1>2. CASE FD_WritePageGroup
  BY <1>2, WriteGroupKeeps
<1>3. CASE FD_CopyBack
  BY <1>3, CopyKeeps
<1>4. CASE FD_CopyBackGroup
  BY <1>4, CopyGroupKeeps
<1>5. CASE FD_Erase
  BY <1>5, EraseKeeps
<1>6. CASE FD_EraseGroup
  BY <1>6, EraseGroupKeeps
<1>7. CASE FD_ReadPage \/ FD_Sync
  BY <1>7, ReadKeeps
<1>8. CASE Step
  BY <1>8, GetBufferToFillKeeps, GetBufferToReadKeeps, ReadSourceKeeps, IssueKeeps,
     SyncKeeps, RecoverKeeps DEF Step
<1>9. CASE \E c \in Chips : Finish(c)
  BY <1>9, FinishKeeps
<1>10. CASE UNCHANGED vars
  <2>1. UNCHANGED <<cell, PrevOp, swap, spare, Buf, BufIndex, BufAllBusy, pc, call, rec,
                    wrote, lost, budget>>
    BY <1>10 DEF vars, chip, bm, bufs, hist
  <2>2. Types' /\ SwapOK' /\ RecOK'
    BY <2>1 DEF IInv, Types, SwapOK, RecOK, Owed, Content, Free
  <2>3. PendingOK' /\ TurnsOK'
    BY <2>1 DEF IInv, PendingOK, TurnsOK, Owed, Content, Free, Phase
  <2>4. Together' = Together /\ Next1' = Next1 /\ Phase' = Phase
    BY <2>1 DEF Together, Next1, Target, Source, Phase
  <2>5. CallOK' /\ CopyOK'
    BY <2>1, <2>4 DEF IInv, CallOK, CopyOK, Free
  <2> QED
    BY <2>2, <2>3, <2>5 DEF IInv
<1> QED
  BY <1>1, <1>2, <1>3, <1>4, <1>5, <1>6, <1>7, <1>8, <1>9, <1>10 DEF Next

LEMMA Invariance == NoCrossCopy => (Spec => []IInv)
<1> SUFFICES ASSUME NoCrossCopy PROVE Spec => []IInv
  OBVIOUS
<1>1. Init => IInv
  BY Starts
<1>2. IInv /\ [Next]_vars => IInv'
  BY StepKeeps
<1> QED
  BY <1>1, <1>2, PTL DEF Spec

LEMMA ShapeOK == ASSUME NEW o, OpShape(o), o.st \in {"ok", "busy", "failed"}
                 PROVE  OperationOK(o)
BY DEF OpShape, OperationOK, PlanesTo

\* Every variable has its type, and the operation of a chip or of err_recover
\* has one block on each of its planes (fd_physical.c, PFDEV and PrevOp).
THEOREM TypeCorrect ==
  ASSUME NoCrossCopy
  PROVE  Spec => []TypeOK
<1>1. IInv => TypeOK
  <2> SUFFICES ASSUME IInv PROVE TypeOK
    OBVIOUS
  <2>1. \A c \in Chips : OperationOK(PrevOp[c]) /\ (~ Free(c) => DOMAIN PrevOp[c].blk # {})
    BY ShapeOK DEF IInv, PendingOK
  <2>2. OperationOK(rec.op) /\ rec.todo \subseteq DOMAIN rec.op.blk
    <3>1. CASE pc = "recover"
      BY <3>1, ShapeOK DEF IInv, RecOK
    <3>2. CASE pc # "recover"
      BY <3>2, NoOpShape, ShapeOK DEF IInv, RecOK, NoRec
    <3> QED
      BY <3>1, <3>2
  <2> QED
    BY <2>1, <2>2 DEF IInv, Types, TypeOK
<1> QED
  BY <1>1, Invariance, PTL

\* The buffers that a pending or failed write would be redone from hold what
\* its caller gave, whichever calls have taken pdev->Buf in turn since
\* (PFD_GetBuffer, copy_back and err_recover in fd_physical.c).
THEOREM RedoneFromWhatWasGiven ==
  ASSUME NoCrossCopy
  PROVE  Spec => []PendingIntact
<1>1. IInv => PendingIntact
  <2> SUFFICES ASSUME IInv PROVE PendingIntact
    OBVIOUS
  <2>1. ASSUME NEW c \in Chips, Busy(c) \/ Failed(c) PROVE Intact(c, PrevOp[c])
    <3>1. ~ Free(c)
      BY <2>1 DEF Busy, Failed, Free
    <3> QED
      BY <3>1 DEF IInv, PendingOK, Owed, Intact
  <2>2. ASSUME pc = "recover"
        PROVE  Intact(rec.chip, [rec.op EXCEPT !.blk = [i \in rec.todo |-> @[i]]])
    <3> DEFINE o == rec.op
               r == [o EXCEPT !.blk = [i \in rec.todo |-> @[i]]]
    <3>1. Owed(rec.chip, o, rec.todo) /\ OpShape(o)
      BY <2>2 DEF IInv, RecOK
    <3>2. r.cmd = o.cmd /\ r.ref = o.ref /\ r.val = o.val /\ DOMAIN r.blk = rec.todo
      BY <3>1 DEF OpShape, Fields, NoOp
    <3> HIDE DEF r
    <3>3. Intact(rec.chip, r)
      BY <3>1, <3>2 DEF Intact, Owed, Content
    <3> QED
      BY <3>3 DEF r
  <2> QED
    BY <2>1, <2>2 DEF PendingIntact
<1> QED
  BY <1>1, Invariance, PTL

\* The comment "watch out not to corrupt the existing data in pdev->Buf[2]
\* because the copy-back function uses them in turn" (fd_physical.c) is right
\* as long as no copy goes from one chip to another: between calls, the buffer
\* that is taken next is not one that a pending write may be redone from.
THEOREM BuffersAreTakenInTurn ==
  ASSUME NoCrossCopy
  PROVE  Spec => []BuffersInTurn
<1>1. IInv => BuffersInTurn
  <2> SUFFICES ASSUME IInv, pc = "idle", NEW c \in Chips, ~ Free(c), ~ BufAllBusy[c],
                      NEW i \in DOMAIN PrevOp[c].ref
               PROVE  PrevOp[c].ref[i] # NextBuffer(c)
    BY DEF BuffersInTurn
  <2>1. PrevOp[c].ref[i] \in {CALLER, BufIndex[c]}
    BY DEF IInv, TurnsOK, PendingOK, OpShape, Phase
  <2>2. BufIndex[c] \in {0, 1}
    BY DEF IInv, Types
  <2>3. NextBuffer(c) # CALLER /\ NextBuffer(c) # BufIndex[c]
    BY <2>2 DEF NextBuffer, CALLER
  <2> QED
    BY <2>1, <2>3
<1> QED
  BY <1>1, Invariance, PTL

----------------------------------------------------------------------------
(* Data: what callers have written or erased is what they find.  A page is *)
(* right, or lost, or open: its operation pends, or is being redone.       *)
(* Promised says that an open operation is the one the caller was          *)
(* promised, and Sourced that a copy has read what its caller meant.       *)

\* Page p of block u of chip c is one that an operation will still change.
Open(c, u, p) ==
  \/ \E i \in DOMAIN PrevOp[c].blk : Touches(PrevOp[c], PrevOp[c].of, i, u, p)
  \/ rec.chip = c /\ \E i \in rec.todo : Touches(rec.op, rec.op.of, i, u, p)

Right(c, u, p) == cell[c][swap[c][u]][p] = wrote[c][u][p]

Survives ==
  \A c \in Chips, u \in User, p \in Page :
    <<c, u, p>> \in lost \/ Open(c, u, p) \/ Right(c, u, p)

\* What o leaves on plane i.
Result(o, i) == IF o.cmd = "erase" THEN BLANK ELSE o.val[i]

\* o, on planes S, does what callers expect of it.
Meant(c, o, S) ==
  \A i \in S, p \in Page :
    Touches(o, o.of, i, o.of[i], p) =>
      <<c, o.of[i], p>> \in lost \/ wrote[c][o.of[i]][p] = Result(o, i)

Promised ==
  /\ \A c \in Chips : Meant(c, PrevOp[c], DOMAIN PrevOp[c].blk)
  /\ pc = "recover" => Meant(rec.chip, rec.op, rec.todo)

Sourced ==
  pc = "issue" /\ call.cmd \in Copies =>
    \A i \in DOMAIN call.ref :
      \/ <<call.src, call.from[i].blk, call.from[i].page>> \in lost
      \/ wrote[call.src][call.from[i].blk][call.from[i].page] = call.val[i]

Data == Promised /\ Sourced /\ Survives

----------------------------------------------------------------------------
(* Steps that touch no data                                                *)

LEMMA NothingOpen ==
  ASSUME IInv, NEW c \in Chips, Free(c), pc # "recover", NEW u, NEW p
  PROVE  ~ Open(c, u, p)
<1>1. PrevOp[c] = NoOp /\ rec = NoRec
  BY DEF IInv, PendingOK, RecOK
<1>2. rec.chip # c
  BY <1>1, Numbers DEF NoRec
<1> QED
  BY <1>1, <1>2, NoOpShape DEF Open

LEMMA DataStarts == Init => Data
<1> SUFFICES ASSUME Init PROVE Data
  OBVIOUS
<1>1. /\ pc = "idle" /\ PrevOp = [c \in Chips |-> NoOp]
      /\ swap = [c \in Chips |-> [u \in User |-> u]]
      /\ cell = [c \in Chips |-> [b \in Block |-> IF b \in User THEN wrote[c][b]
                                                 ELSE [p \in Page |-> BLANK]]]
  BY DEF Init
<1>2. Promised /\ Sourced
  BY <1>1, NoOpShape DEF Promised, Sourced, Meant
<1>3. Survives
  BY <1>1, Blocks DEF Survives, Right
<1> QED
  BY <1>2, <1>3 DEF Data

LEMMA DataRests ==
  ASSUME Data, UNCHANGED <<cell, swap, PrevOp, rec, wrote, lost>>,
         pc' = "recover" => pc = "recover"
  PROVE  Promised' /\ Survives'
BY DEF Data, Promised, Meant, Survives, Open, Right

\* A failure is met: the operation is open as before.
LEMMA RefusedData ==
  ASSUME IInv, Data, NEW c \in Chips, NEW back, Refused(c, back), pc # "recover"
  PROVE  Data'
<1> DEFINE o == PrevOp[c]
<1>1. /\ UNCHANGED <<cell, swap, wrote, lost>> /\ pc' = "recover"
      /\ rec' = [op |-> o, chip |-> c, todo |-> DOMAIN o.blk, back |-> back]
      /\ PrevOp' = [PrevOp EXCEPT ![c] = NoOp]
  BY DEF Refused, bm, hist, Forgotten
<1>2. /\ PrevOp'[c] = NoOp
      /\ \A d \in Chips : d # c => PrevOp'[d] = PrevOp[d]
  BY <1>1 DEF IInv, Types
<1>3. rec'.op = o /\ rec'.chip = c /\ rec'.todo = DOMAIN o.blk
  BY <1>1
<1>4. rec.chip \notin Chips
  BY Numbers DEF IInv, RecOK, NoRec
<1> HIDE DEF o
<1>5. Promised'
  <2>1. \A d \in Chips : Meant(d, PrevOp[d], DOMAIN PrevOp[d].blk)
    BY DEF Data, Promised
  <2>2. Meant(c, o, DOMAIN o.blk)
    BY <2>1 DEF o
  <2>3. ASSUME NEW d \in Chips PROVE Meant(d, PrevOp[d], DOMAIN PrevOp[d].blk)'
    <3>1. CASE d = c
      BY <1>2, <3>1, NoOpShape DEF Meant
    <3>2. CASE d # c
      BY <1>1, <1>2, <2>1, <3>2 DEF Meant
    <3> QED
      BY <3>1, <3>2
  <2>4. Meant(rec.chip, rec.op, rec.todo)'
    BY <1>1, <1>3, <2>2 DEF Meant
  <2> QED
    BY <2>3, <2>4 DEF Promised
<1>6. Sourced'
  BY <1>1 DEF Sourced
<1>7. Survives'
  <2>1. ASSUME NEW d \in Chips, NEW u \in User, NEW p \in Page, Open(d, u, p)
        PROVE  Open(d, u, p)'
    <3>1. \E i \in DOMAIN PrevOp[d].blk : Touches(PrevOp[d], PrevOp[d].of, i, u, p)
      BY <1>4, <2>1 DEF Open
    <3>2. CASE d = c
      BY <1>3, <3>1, <3>2 DEF Open, Touches, o
    <3>3. CASE d # c
      BY <1>2, <3>1, <3>3 DEF Open, Touches
    <3> QED
      BY <3>2, <3>3
  <2> SUFFICES ASSUME NEW d \in Chips, NEW u \in User, NEW p \in Page,
                      <<d, u, p>> \notin lost, ~ Open(d, u, p)'
               PROVE  Right(d, u, p)'
    BY <1>1 DEF Survives
  <2>2. Right(d, u, p)
    BY <2>1 DEF Data, Survives
  <2> QED
    BY <1>1, <2>2 DEF Right
<1> QED
  BY <1>5, <1>6, <1>7 DEF Data

LEMMA BeginData ==
  ASSUME IInv, Data, NEW new, NEW at \in {"start", "issue", "sync"}, Begin(new, at),
         at = "issue" => new.cmd \notin Copies
  PROVE  Data'
<1>1. /\ UNCHANGED <<cell, swap, PrevOp, rec, wrote, lost>> /\ pc' # "recover"
      /\ pc' = "issue" => call'.cmd \notin Copies
  BY DEF Begin, chip, bm, hist
<1>2. Sourced'
  BY <1>1 DEF Sourced
<1> QED
  BY <1>1, <1>2, DataRests DEF Data

LEMMA CallsData ==
  ASSUME IInv, Data,
         \/ FD_WritePage \/ write_sector_group \/ FD_WritePageGroup \/ FD_CopyBack
         \/ FD_CopyBackGroup \/ FD_Erase \/ FD_EraseGroup \/ FD_ReadPage \/ FD_Sync
  PROVE  Data'
<1> DEFINE Begins(new, at) == /\ at \in {"start", "issue", "sync"} /\ Begin(new, at)
                              /\ at = "issue" => new.cmd \notin Copies
<1>1. ASSUME NEW kind, NEW at, Write(kind, at),
             <<kind, at>> \in {<<"write", "issue">>, <<"fill", "start">>}
      PROVE  \E new : Begins(new, at)
  <2>1. PICK w \in Where, v \in Values :
          Begin([NoCall EXCEPT !.cmd = kind, !.chip = w[1], !.src = w[1],
                  !.blk = [i \in {0} |-> w[2]], !.page = w[3],
                  !.val = [i \in {0} |-> v], !.todo = {0}], at)
    BY <1>1 DEF Write
  <2> DEFINE new == [NoCall EXCEPT !.cmd = kind, !.chip = w[1], !.src = w[1],
                      !.blk = [i \in {0} |-> w[2]], !.page = w[3],
                      !.val = [i \in {0} |-> v], !.todo = {0}]
  <2>2. new.cmd = kind
    BY DEF NoCall
  <2> HIDE DEF new
  <2> QED
    BY <1>1, <2>1, <2>2 DEF Copies, new
<1>2. CASE FD_WritePage
  BY <1>1, <1>2, BeginData DEF FD_WritePage
<1>3. CASE write_sector_group
  BY <1>1, <1>3, BeginData DEF write_sector_group
<1>4. CASE FD_WritePageGroup
  <2>1. PICK c \in Chips, g \in Group, p \in Page, v \in [Plane -> Values] :
          Begin([NoCall EXCEPT !.cmd = "write_group", !.chip = c, !.src = c,
                  !.blk = GroupBlocks(g), !.page = p, !.val = v, !.todo = Plane], "issue")
    BY <1>4 DEF FD_WritePageGroup
  <2>2. [NoCall EXCEPT !.cmd = "write_group", !.chip = c, !.src = c,
           !.blk = GroupBlocks(g), !.page = p, !.val = v, !.todo = Plane].cmd \notin Copies
    BY DEF NoCall, Copies
  <2> QED
    BY <2>1, <2>2, BeginData
<1>5. CASE FD_CopyBack \/ FD_CopyBackGroup
  <2>1. PICK new : Begin(new, "start")
    BY <1>5 DEF FD_CopyBack, FD_CopyBackGroup
  <2> QED
    BY <2>1, BeginData
<1>6. CASE FD_Erase
  <2>1. PICK c \in Chips, u \in User :
          Begin([NoCall EXCEPT !.cmd = "erase", !.chip = c, !.src = c,
                  !.blk = [i \in {0} |-> u], !.todo = {0}], "issue")
    BY <1>6 DEF FD_Erase
  <2>2. [NoCall EXCEPT !.cmd = "erase", !.chip = c, !.src = c,
           !.blk = [i \in {0} |-> u], !.todo = {0}].cmd \notin Copies
    BY DEF NoCall, Copies
  <2> QED
    BY <2>1, <2>2, BeginData
<1>7. CASE FD_EraseGroup
  <2>1. PICK c \in Chips, g \in Group :
          Begin([NoCall EXCEPT !.cmd = "erase_group", !.chip = c, !.src = c,
                  !.blk = GroupBlocks(g), !.todo = Plane], "issue")
    BY <1>7 DEF FD_EraseGroup
  <2>2. [NoCall EXCEPT !.cmd = "erase_group", !.chip = c, !.src = c,
           !.blk = GroupBlocks(g), !.todo = Plane].cmd \notin Copies
    BY DEF NoCall, Copies
  <2> QED
    BY <2>1, <2>2, BeginData
<1>8. CASE FD_ReadPage \/ FD_Sync
  <2>1. PICK new : Begin(new, "sync")
    BY <1>8 DEF FD_ReadPage, FD_Sync
  <2> QED
    BY <2>1, BeginData
<1> QED
  BY <1>2, <1>3, <1>4, <1>5, <1>6, <1>7, <1>8

LEMMA BuffersData ==
  ASSUME IInv, Data, GetBufferToFill \/ GetBufferToRead \/ Sync
  PROVE  Data'
<1>1. CASE \E back : Refused(call.chip, back)
  <2>1. Phase = pc /\ pc \in {"start", "sync"}
    BY DEF GetBufferToFill, GetBufferToRead, Sync, Phase
  <2>2. call.chip \in Chips
    BY <2>1 DEF IInv, CallOK
  <2> QED
    BY <1>1, <2>1, <2>2, RefusedData
<1>2. CASE ~ \E back : Refused(call.chip, back)
  <2>1. UNCHANGED <<cell, swap, PrevOp, rec, wrote, lost>> /\ pc' # "recover"
    BY <1>2 DEF GetBufferToFill, GetBufferToRead, Sync, chip, bm, hist
  <2>2. pc' = "issue" => call'.cmd \notin Copies
    <3>1. CASE GetBufferToFill
      <4>1. Fields(call, NoCall) /\ call.cmd = "fill"
        BY <3>1 DEF IInv, CallOK, GetBufferToFill
      <4>2. call'.cmd = "fill"
        BY <1>2, <3>1, <4>1 DEF GetBufferToFill, Fields, NoCall
      <4> QED
        BY <4>2 DEF Copies
    <3>2. CASE GetBufferToRead \/ Sync
      BY <1>2, <3>2 DEF GetBufferToRead, Sync
    <3> QED
      BY <3>1, <3>2
  <2>3. Sourced'
    BY <2>2 DEF Sourced
  <2> QED
    BY <2>1, <2>3, DataRests DEF Data
<1> QED
  BY <1>1, <1>2

\* What a copy reads is what its caller meant, or was lost before.
LEMMA ReadSourceData ==
  ASSUME IInv, Data, ReadSource
  PROVE  Data'
<1> DEFINE c == call.chip
           T == DOMAIN call.ref
           got == [i \in T |-> cell[c][Source(i)][call.from[i].page]]
<1>1. pc = "read" /\ Phase = "read" /\ call.cmd \in Copies
  BY DEF ReadSource, Phase, IInv, CallOK
<1>2. /\ c \in Chips /\ Fields(call, NoCall) /\ call.src = c
      /\ \A i \in T : call.from[i].blk \in User /\ call.from[i].page \in Page
  BY <1>1, Reading
<1>3. CASE Refused(c, Reread)
  BY <1>1, <1>2, <1>3, RefusedData
<1>4. CASE ~ Refused(c, Reread)
  <2>1. /\ UNCHANGED <<cell, swap, PrevOp, rec, wrote, lost>> /\ pc' # "recover" /\ Free(c)
        /\ \/ pc' = "idle"
           \/ pc' = "issue" /\ call' = [call EXCEPT !.val = got]
    BY <1>2, <1>4 DEF ReadSource, chip, bm, hist
  <2>2. Sourced'
    <3> SUFFICES ASSUME pc' = "issue", NEW i \in DOMAIN call'.ref
                 PROVE  \/ <<call'.src, call'.from[i].blk, call'.from[i].page>> \in lost
                        \/ wrote[call'.src][call'.from[i].blk][call'.from[i].page] = call'.val[i]
      BY <2>1 DEF Sourced
    <3>1. /\ call'.ref = call.ref /\ call'.src = c /\ call'.from = call.from
          /\ call'.val = got
      BY <1>2, <2>1 DEF Fields, NoCall
    <3>2. ~ Open(c, call.from[i].blk, call.from[i].page)
      BY <1>1, <1>2, <2>1, NothingOpen
    <3>3. \/ <<c, call.from[i].blk, call.from[i].page>> \in lost
          \/ Right(c, call.from[i].blk, call.from[i].page)
      BY <1>2, <3>1, <3>2 DEF Data, Survives
    <3>4. i \in T /\ got[i] = cell[c][swap[c][call.from[i].blk]][call.from[i].page]
      BY <1>2, <3>1 DEF Source
    <3> HIDE DEF got, c
    <3> QED
      BY <3>1, <3>3, <3>4 DEF Right
  <2> QED
    BY <2>1, <2>2, DataRests DEF Data
<1> QED
  BY <1>3, <1>4

----------------------------------------------------------------------------
(* Steps that write                                                        *)

\* An owed operation has its own block for each plane.
LEMMA OwnBlock ==
  ASSUME IInv, NEW c \in Chips, NEW o, OpShape(o), NEW S \in SUBSET DOMAIN o.blk,
         Owed(c, o, S), NEW i \in S, NEW u \in User, NEW p
  PROVE  /\ o.of[i] \in User /\ o.blk[i] = swap[c][o.of[i]]
         /\ swap[c][u] = o.blk[i] <=> u = o.of[i]
         /\ \A j \in S : o.blk[j] = o.blk[i] => j = i
         /\ Touches(o, o.blk, i, swap[c][u], p) <=> Touches(o, o.of, i, u, p)
<1>1. \A j \in S : o.of[j] \in User /\ o.blk[j] = swap[c][o.of[j]]
  BY DEF OpShape, Owed
<1>2. OneToOne(swap[c]) /\ DOMAIN swap[c] = User
  BY DEF IInv, SwapOK, Types
<1>3. swap[c][u] = o.blk[i] <=> u = o.of[i]
  BY <1>1, <1>2 DEF OneToOne
<1>4. \A j \in S : o.blk[j] = o.blk[i] => j = i
  BY <1>1, <1>2 DEF OneToOne, OpShape
<1> QED
  BY <1>1, <1>3, <1>4 DEF Touches

\* What a page holds after an operation: its result, junk, or what it held.
LEMMA AfterAt ==
  ASSUME IInv, NEW c \in Chips, NEW o, OpShape(o), NEW S \in SUBSET DOMAIN o.blk,
         o.cmd \in {"write", "erase"}, Owed(c, o, S), NEW bad,
         NEW u \in User, NEW p \in Page
  PROVE  LET x == After(c, o, S, bad)[swap[c][u]][p]
         IN  /\ \A i \in S \ bad : Touches(o, o.of, i, u, p) => x = Result(o, i)
             /\ ~ (\E i \in S : Touches(o, o.of, i, u, p)) => x = cell[c][swap[c][u]][p]
<1> DEFINE b == swap[c][u]
           x == After(c, o, S, bad)[b][p]
           J == CHOOSE i \in S : o.blk[i] = b
<1>1. b \in Block
  BY DEF IInv, Types
<1>2. x = IF \E i \in S : Touches(o, o.blk, i, b, p)
          THEN IF J \in bad THEN JUNK ELSE IF o.cmd = "erase" THEN BLANK ELSE Content(c, o, J)
          ELSE cell[c][b][p]
  BY <1>1 DEF After
<1>3. \A i \in S : Touches(o, o.blk, i, b, p) <=> Touches(o, o.of, i, u, p)
  BY OwnBlock
<1>4. ASSUME NEW i \in S, i \notin bad, Touches(o, o.of, i, u, p)
      PROVE  x = Result(o, i)
  <2>1. Touches(o, o.blk, i, b, p)
    BY <1>3, <1>4
  <2>2. o.blk[i] = b
    BY <2>1 DEF Touches
  <2>3. \A j \in S : o.blk[j] = b => j = i
    BY <2>2, OwnBlock
  <2>4. J = i
    BY <2>2, <2>3
  <2>5. o.cmd = "write" => Content(c, o, i) = o.val[i]
    BY DEF Owed
  <2> HIDE DEF J, x, b
  <2> QED
    BY <1>2, <1>4, <2>1, <2>4, <2>5 DEF Result
<1>5. ASSUME ~ \E i \in S : Touches(o, o.of, i, u, p)
      PROVE  x = cell[c][b][p]
  <2> HIDE DEF x, b
  <2> QED
    BY <1>2, <1>3, <1>5
<1> QED
  BY <1>4, <1>5

LEMMA FinishData ==
  ASSUME IInv, Data, NEW c \in Chips, Finish(c)
  PROVE  Data'
<1> DEFINE o == PrevOp[c]
           S == DOMAIN o.blk
<1>1. Busy(c) /\ ~ Free(c)
  BY DEF Finish, Busy, Free
<1>2. OpShape(o) /\ o.cmd \in {"write", "erase"} /\ Owed(c, o, S) /\ o.st = "busy"
  BY <1>1 DEF IInv, PendingOK, OpShape, Busy
<1>3. UNCHANGED <<swap, pc, call, rec, wrote, lost>>
  BY DEF Finish, bm, bufs, hist
<1>4. /\ \A d \in Chips : d # c => PrevOp'[d] = PrevOp[d] /\ cell'[d] = cell[d]
      /\ \/ /\ cell'[c] = After(c, o, S, {})
            /\ PrevOp'[c] = NoOp
         \/ /\ \E bad : cell'[c] = After(c, o, S, bad)
            /\ PrevOp'[c] = [o EXCEPT !.st = "failed"]
  <2>1. c \in DOMAIN cell /\ c \in DOMAIN PrevOp /\ DOMAIN cell = Chips /\ DOMAIN PrevOp = Chips
    BY DEF IInv, Types
  <2>2. CASE /\ cell' = [cell EXCEPT ![c] = After(c, o, S, {})]
             /\ PrevOp' = [PrevOp EXCEPT ![c] = NoOp]
    BY <2>1, <2>2
  <2>3. CASE /\ \E bad \in SUBSET S \ {{}} : cell' = [cell EXCEPT ![c] = After(c, o, S, bad)]
             /\ PrevOp' = [PrevOp EXCEPT ![c].st = "failed"]
    BY <2>1, <2>3
  <2> QED
    BY <2>2, <2>3 DEF Finish
<1> HIDE DEF o, S
<1>5. \/ PrevOp'[c] = NoOp
      \/ /\ PrevOp'[c].cmd = o.cmd /\ PrevOp'[c].blk = o.blk /\ PrevOp'[c].of = o.of
         /\ PrevOp'[c].page = o.page /\ PrevOp'[c].val = o.val
  BY <1>2, <1>4 DEF OpShape, Fields, NoOp
<1>6. Promised'
  <2> SUFFICES ASSUME NEW d \in Chips PROVE Meant(d, PrevOp[d], DOMAIN PrevOp[d].blk)'
    BY <1>3 DEF Data, Promised, Meant
  <2>1. CASE d # c
    BY <1>3, <1>4, <2>1 DEF Data, Promised, Meant
  <2>2. CASE d = c /\ PrevOp'[c] = NoOp
    BY <2>2, NoOpShape DEF Meant
  <2>3. CASE d = c /\ PrevOp'[c] # NoOp
    <3>1. Meant(c, o, S)
      BY DEF Data, Promised, o, S
    <3> QED
      BY <1>3, <1>5, <2>3, <3>1 DEF Meant, Touches, Result, S
  <2> QED
    BY <2>1, <2>2, <2>3
<1>7. Sourced'
  BY <1>3 DEF Data, Sourced
<1>8. Survives'
  <2> SUFFICES ASSUME NEW d \in Chips, NEW u \in User, NEW p \in Page,
                      <<d, u, p>> \notin lost, ~ Open(d, u, p)'
               PROVE  Right(d, u, p)'
    BY <1>3 DEF Survives
  <2>1. CASE d # c
    <3>1. ~ Open(d, u, p)
      BY <1>3, <1>4, <2>1 DEF Open, Touches
    <3> QED
      BY <1>3, <1>4, <2>1, <3>1 DEF Data, Survives, Right
  <2>2. CASE d = c
    <3>1. CASE \E i \in S : Touches(o, o.of, i, u, p)
      <4>1. PICK i \in S : Touches(o, o.of, i, u, p)
        BY <3>1
      <4>2. PrevOp'[c] = NoOp
        BY <1>5, <2>2, <4>1 DEF Open, Touches, S
      <4>3. cell'[c] = After(c, o, S, {})
        BY <1>2, <1>4, <4>2 DEF OpShape, Fields, NoOp
      <4>4. cell'[c][swap[c][u]][p] = Result(o, i)
        BY <1>2, <4>1, <4>3, AfterAt DEF S
      <4>5. Meant(c, o, S)
        BY DEF Data, Promised, o, S
      <4>6. u = o.of[i]
        BY <4>1 DEF Touches
      <4> QED
        BY <1>3, <2>2, <4>1, <4>4, <4>5, <4>6 DEF Meant, Right
    <3>2. CASE ~ \E i \in S : Touches(o, o.of, i, u, p)
      <4>1. cell'[c][swap[c][u]][p] = cell[c][swap[c][u]][p]
        BY <1>2, <1>4, <3>2, AfterAt DEF S
      <4>2. ~ Open(c, u, p)
        BY <1>3, <2>2, <3>2 DEF Open, o, S
      <4> QED
        BY <1>3, <2>2, <4>1, <4>2 DEF Data, Survives, Right
    <3> QED
      BY <3>1, <3>2
  <2> QED
    BY <2>1, <2>2
<1> QED
  BY <1>6, <1>7, <1>8 DEF Data

LEMMA IssueData ==
  ASSUME IInv, Data, Issue
  PROVE  Data'
<1> DEFINE c == call.chip
           T == IF call.cmd \in Copies THEN DOMAIN call.ref ELSE Turn
           o == Given(T)
<1>1. pc = "issue"
  BY DEF Issue
<1>2. /\ c \in Chips /\ WorkShape(call) /\ Fields(call, NoCall)
      /\ T # {} /\ T \subseteq DOMAIN call.blk
      /\ OpShape(o) /\ DOMAIN o.blk = T /\ OneToOne(o.of)
      /\ o.cmd = IF call.cmd \in Erases THEN "erase" ELSE "write"
  BY <1>1, Giving DEF OpShape
<1>3. /\ o.of = [i \in T |-> call.blk[i]] /\ o.page = call.page
      /\ o.val = (IF T \subseteq DOMAIN call.val THEN [i \in T |-> call.val[i]]
                  ELSE [i \in T |-> BLANK])
  BY DEF Given
<1>4. CASE Refused(c, "issue")
  BY <1>1, <1>2, <1>4, RefusedData
<1>5. CASE ~ Refused(c, "issue")
  <2>1. /\ Free(c) /\ UNCHANGED <<cell, swap, rec>>
        /\ PrevOp' = [PrevOp EXCEPT ![c] = o]
        /\ wrote' = Expected(o, T)
        /\ lost' = (lost \ LostPages(c, o, T)) \cup CopiesOfLost(T)
        /\ pc' # "recover" /\ (pc' = "issue" => call'.cmd \notin Copies)
    <3>1. CASE call.cmd \in Copies
      BY <1>5, <3>1 DEF Issue, bm
    <3>2. CASE call.cmd \notin Copies
      <4>1. ASSUME call' = NoCall \/ call' = [call EXCEPT !.todo = @ \ T]
            PROVE  call'.cmd \notin Copies
        BY <1>2, <3>2, <4>1 DEF Fields, NoCall, Copies
      <4> QED
        BY <1>5, <3>2, <4>1 DEF Issue, bm
    <3> QED
      BY <3>1, <3>2
  <2>2. /\ PrevOp'[c] = o
        /\ \A d \in Chips : d # c => PrevOp'[d] = PrevOp[d]
    BY <1>2, <2>1 DEF IInv, Types
  <2>3. rec.chip \notin Chips
    BY <1>1, Numbers DEF IInv, RecOK, NoRec
  <2> DEFINE Hit(u, p) == \E i \in T : Touches(o, o.of, i, u, p)
  \* Pages that o does not touch, and those of other chips, are as they were.
  <2>4. ASSUME NEW d \in Chips, NEW u \in User, NEW p \in Page, d # c \/ ~ Hit(u, p)
        PROVE  /\ wrote'[d][u][p] = wrote[d][u][p]
               /\ <<d, u, p>> \in lost => <<d, u, p>> \in lost'
    <3>1. wrote'[d][u][p] = wrote[d][u][p]
      <4>1. CASE d # c
        BY <1>2, <2>1, <4>1 DEF Expected, IInv, Types
      <4>2. CASE d = c /\ ~ Hit(u, p)
        BY <1>2, <2>1, <4>2 DEF Expected, IInv, Types
      <4> QED
        BY <2>4, <4>1, <4>2
    <3>2. <<d, u, p>> \notin LostPages(c, o, T)
      BY <2>4 DEF LostPages
    <3> QED
      BY <2>1, <3>1, <3>2
  \* Those that it touches are what callers expect of it.
  <2>5. ASSUME NEW i \in T, NEW p \in Page, Touches(o, o.of, i, o.of[i], p)
        PROVE  <<c, o.of[i], p>> \in lost' \/ wrote'[c][o.of[i]][p] = Result(o, i)
    <3> DEFINE u == o.of[i]
               J == CHOOSE j \in T : o.of[j] = u
    <3>1. u \in User /\ J = i
      BY <1>2 DEF OpShape, OneToOne
    <3>2. wrote'[c][u][p] = IF call.cmd \in Copies
                            THEN wrote[call.src][call.from[i].blk][call.from[i].page]
                            ELSE o.val[i]
      <4> DEFINE F(q) == IF Hit(u, q)
                         THEN IF call.cmd \in Copies
                              THEN wrote[call.src][call.from[J].blk][call.from[J].page]
                              ELSE o.val[J]
                         ELSE wrote[c][u][q]
      <4>1. wrote'[c][u] = [q \in Page |-> F(q)]
        BY <1>2, <2>1, <3>1 DEF Expected, IInv, Types
      <4>2. wrote'[c][u][p] = F(p)
        BY <4>1
      <4>3. Hit(u, p)
        BY <2>5
      <4> HIDE DEF Hit, J
      <4> QED
        BY <3>1, <4>2, <4>3
    <3>3. CASE call.cmd \in Copies
      <4>1. pc = "issue" /\ T = DOMAIN call.ref /\ DOMAIN call.val = T
        BY <1>1, <3>3 DEF IInv, CopyOK
      <4>2. o.cmd = "write" /\ o.val[i] = call.val[i]
        BY <1>2, <1>3, <3>3, <4>1 DEF Copies, Erases
      <4>3. CASE <<call.src, call.from[i].blk, call.from[i].page>> \in lost
        <5>1. <<c, call.blk[i], call.page>> \in CopiesOfLost(T)
          BY <3>3, <4>3 DEF CopiesOfLost
        <5>2. p = call.page /\ u = call.blk[i]
          BY <1>3, <2>5, <4>2 DEF Touches
        <5> QED
          BY <2>1, <5>1, <5>2
      <4>4. CASE wrote[call.src][call.from[i].blk][call.from[i].page] = call.val[i]
        BY <3>2, <3>3, <4>2, <4>4 DEF Result
      <4> QED
        BY <3>3, <4>1, <4>3, <4>4 DEF Data, Sourced
    <3>4. CASE call.cmd \notin Copies
      <4>1. o.cmd = "erase" => o.val[i] = BLANK
        <5>1. ASSUME o.cmd = "erase" PROVE DOMAIN call.val = {}
          BY <1>2, <5>1 DEF WorkShape
        <5> QED
          BY <1>2, <1>3, <5>1
      <4> QED
        BY <3>2, <3>4, <4>1 DEF Result
    <3> QED
      BY <3>3, <3>4
  <2>6. Promised'
    <3> SUFFICES ASSUME NEW d \in Chips PROVE Meant(d, PrevOp[d], DOMAIN PrevOp[d].blk)'
      BY <2>1 DEF Promised
    <3>1. CASE d = c
      <4>1. PrevOp'[d] = o
        BY <2>2, <3>1
      <4> HIDE DEF o, T, Hit, c
      <4> QED
        BY <1>2, <2>5, <3>1, <4>1 DEF Meant, Result, Touches
    <3>2. CASE d # c
      <4>1. Meant(d, PrevOp[d], DOMAIN PrevOp[d].blk) /\ OpShape(PrevOp[d])
        BY DEF Data, Promised, IInv, PendingOK
      <4> DEFINE r == PrevOp[d]
      <4>2. PrevOp'[d] = r
        BY <2>2, <3>2
      <4> HIDE DEF r, o, T, Hit
      <4>3. ASSUME NEW i \in DOMAIN r.blk, NEW p \in Page, Touches(r, r.of, i, r.of[i], p)
            PROVE  <<d, r.of[i], p>> \in lost' \/ wrote'[d][r.of[i]][p] = Result(r, i)
        <5>1. r.of[i] \in User
          BY <4>1 DEF OpShape, r
        <5>2. <<d, r.of[i], p>> \in lost \/ wrote[d][r.of[i]][p] = Result(r, i)
          BY <4>1, <4>3 DEF Meant, r
        <5> QED
          BY <2>4, <3>2, <5>1, <5>2
      <4> QED
        BY <4>2, <4>3 DEF Meant, Result, Touches
    <3> QED
      BY <3>1, <3>2
  <2>7. Sourced'
    BY <2>1 DEF Sourced
  <2>8. Survives'
    <3> SUFFICES ASSUME NEW d \in Chips, NEW u \in User, NEW p \in Page,
                        <<d, u, p>> \notin lost', ~ Open(d, u, p)'
                 PROVE  cell[d][swap[d][u]][p] = wrote'[d][u][p]
      BY <2>1 DEF Survives, Right
    <3>1. d # c \/ ~ Hit(u, p)
      BY <1>2, <2>2 DEF Open, Touches
    <3>2. <<d, u, p>> \notin lost /\ wrote'[d][u][p] = wrote[d][u][p]
      BY <2>4, <3>1
    <3>3. ~ Open(d, u, p)
      <4>1. CASE d = c
        BY <1>1, <2>1, <4>1, NothingOpen
      <4>2. CASE d # c
        BY <2>1, <2>2, <4>2 DEF Open, Touches
      <4> QED
        BY <4>1, <4>2
    <3> QED
      BY <3>2, <3>3 DEF Data, Survives, Right
  <2> QED
    BY <2>6, <2>7, <2>8 DEF Data
<1> QED
  BY <1>4, <1>5

----------------------------------------------------------------------------
(* Recovery                                                                *)

\* Plane i is done again: its pages hold the result, or recovery ends and
\* they are lost; no other page of the callers changes.
LEMMA RedoneData ==
  ASSUME IInv, Recover, NEW i, i = First(rec.todo), NEW c, c = rec.chip,
         NEW o, o = rec.op
  PROVE  /\ \A d \in Chips \ {c} : cell'[d] = cell[d] /\ swap'[d] = swap[d]
         /\ \A u \in User, p \in Page :
              ~ Touches(o, o.of, i, u, p) => cell'[c][swap'[c][u]][p] = cell[c][swap[c][u]][p]
         /\ \/ GiveUp
            \/ /\ TryAgain(i)
               /\ \A u \in User, p \in Page :
                    Touches(o, o.of, i, u, p) => cell'[c][swap'[c][u]][p] = Result(o, i)
<1>1. pc = "recover"
  BY DEF Recover
<1>2. /\ c \in Chips /\ OpShape(o) /\ i \in rec.todo /\ rec.todo \subseteq DOMAIN o.blk
      /\ o.of[i] \in User /\ o.blk[i] \in Block /\ o.blk[i] = swap[c][o.of[i]]
      /\ BM_GetOriginalBlock(c, o.blk[i]) = o.of[i]
  BY <1>1, Recovering
<1>3. o.cmd \in {"write", "erase"} /\ Owed(c, o, rec.todo)
  BY <1>1 DEF IInv, RecOK, OpShape
<1>4. Owed(c, o, {i}) /\ {i} \in SUBSET DOMAIN o.blk
  BY <1>2, <1>3 DEF Owed
<1>5. /\ DOMAIN cell = Chips /\ DOMAIN swap = Chips /\ DOMAIN cell[c] = Block
      /\ DOMAIN swap[c] = User /\ spare[c] \subseteq Block \ User
      /\ \A u \in User : swap[c][u] \in Block /\ swap[c][u] \notin spare[c]
  BY <1>2 DEF IInv, Types, SwapOK
<1> DEFINE done == IF o.cmd = "erase" THEN BLANK ELSE Content(c, o, i)
<1>6. done = Result(o, i)
  BY <1>2, <1>3 DEF Owed, Result
<1> HIDE DEF done
\* In its own block.
<1> DEFINE Own(bad) == /\ cell'[c] = After(c, o, {i}, bad) /\ swap' = swap
                       /\ \A d \in Chips \ {c} : cell'[d] = cell[d]
<1>7. ASSUME NEW bad, Own(bad), NEW u \in User, NEW p \in Page
      PROVE  /\ ~ Touches(o, o.of, i, u, p) =>
                  cell'[c][swap'[c][u]][p] = cell[c][swap[c][u]][p]
             /\ Touches(o, o.of, i, u, p) /\ i \notin bad =>
                  cell'[c][swap'[c][u]][p] = Result(o, i)
  <2> DEFINE x == After(c, o, {i}, bad)[swap[c][u]][p]
  <2>1. /\ \A j \in {i} \ bad : Touches(o, o.of, j, u, p) => x = Result(o, j)
        /\ ~ (\E j \in {i} : Touches(o, o.of, j, u, p)) => x = cell[c][swap[c][u]][p]
    <3>1. c \in Chips /\ OpShape(o) /\ {i} \in SUBSET DOMAIN o.blk
      BY <1>2, <1>4
    <3>2. o.cmd \in {"write", "erase"} /\ Owed(c, o, {i})
      BY <1>3, <1>4
    <3> QED
      BY <3>1, <3>2, AfterAt
  <2>2. cell'[c][swap'[c][u]][p] = x
    BY <1>7
  <2> HIDE DEF x
  <2> QED
    BY <2>1, <2>2
\* In a spare block.
<1>8. ASSUME NEW s \in spare[c], NEW x, Repeat(c, o, i, s, x)
      PROVE  /\ \A d \in Chips \ {c} : cell'[d] = cell[d] /\ swap'[d] = swap[d]
             /\ \A u \in User, p \in Page :
                  /\ ~ Touches(o, o.of, i, u, p) =>
                       cell'[c][swap'[c][u]][p] = cell[c][swap[c][u]][p]
                  /\ Touches(o, o.of, i, u, p) => cell'[c][swap'[c][u]][p] = x
  <2> DEFINE A == [p \in Page |-> IF Touches(o, o.blk, i, o.blk[i], p) THEN x
                                  ELSE cell[c][o.blk[i]][p]]
  <2>1. cell' = [cell EXCEPT ![c][s] = A] /\ swap' = [swap EXCEPT ![c][o.of[i]] = s]
    BY <1>2, <1>8 DEF Repeat
  <2>2. \A p \in Page : /\ ~ Touches(o, o.of, i, o.of[i], p) => A[p] = cell[c][o.blk[i]][p]
                        /\ Touches(o, o.of, i, o.of[i], p) => A[p] = x
    BY DEF Touches
  <2> HIDE DEF A
  <2>3. /\ \A d \in Chips \ {c} : cell'[d] = cell[d] /\ swap'[d] = swap[d]
        /\ cell'[c][s] = A /\ swap'[c][o.of[i]] = s
        /\ \A b \in Block : b # s => cell'[c][b] = cell[c][b]
        /\ \A u \in User : u # o.of[i] => swap'[c][u] = swap[c][u]
    BY <1>2, <1>5, <2>1
  <2>4. ASSUME NEW u \in User, NEW p \in Page
        PROVE  /\ ~ Touches(o, o.of, i, u, p) =>
                    cell'[c][swap'[c][u]][p] = cell[c][swap[c][u]][p]
               /\ Touches(o, o.of, i, u, p) => cell'[c][swap'[c][u]][p] = x
    <3>1. CASE u = o.of[i]
      <4>1. cell'[c][swap'[c][u]][p] = A[p] /\ swap[c][u] = o.blk[i]
        BY <1>2, <2>3, <3>1
      <4> QED
        BY <2>2, <3>1, <4>1
    <3>2. CASE u # o.of[i]
      <4>1. ~ Touches(o, o.of, i, u, p)
        BY <3>2 DEF Touches
      <4>2. swap[c][u] \in Block /\ swap[c][u] # s
        BY <1>5, <1>8
      <4> QED
        BY <2>3, <3>2, <4>1, <4>2
    <3> QED
      BY <3>1, <3>2
  <2> QED
    BY <2>3, <2>4
<1>9. CASE /\ cell' = [cell EXCEPT ![c] = After(c, o, {i}, {})]
           /\ TryAgain(i) /\ UNCHANGED bm
  <2>1. Own({})
    BY <1>2, <1>5, <1>9 DEF bm
  <2>2. ASSUME NEW u \in User, NEW p \in Page
        PROVE  /\ ~ Touches(o, o.of, i, u, p) =>
                    cell'[c][swap'[c][u]][p] = cell[c][swap[c][u]][p]
               /\ Touches(o, o.of, i, u, p) => cell'[c][swap'[c][u]][p] = Result(o, i)
    <3> HIDE DEF Own
    <3>1. i \notin {}
      OBVIOUS
    <3> QED
      BY <1>7, <2>1, <3>1
  <2> QED
    BY <1>9, <2>1, <2>2
<1>10. CASE TryAgain(i) /\ \E s \in spare[c] : Repeat(c, o, i, s, done)
  BY <1>6, <1>8, <1>10
<1>11. CASE /\ cell' = [cell EXCEPT ![c] = After(c, o, {i}, {i})]
            /\ GiveUp /\ UNCHANGED bm
  <2>1. Own({i})
    BY <1>2, <1>5, <1>11 DEF bm
  <2> QED
    BY <1>7, <1>11, <2>1
<1>12. CASE GiveUp /\ \E s \in spare[c] : Repeat(c, o, i, s, JUNK)
  BY <1>8, <1>12
<1> QED
  BY <1>9, <1>10, <1>11, <1>12 DEF Recover, done

LEMMA RecoverData ==
  ASSUME IInv, Data, Recover
  PROVE  Data'
<1> DEFINE c == rec.chip
           o == rec.op
           i == First(rec.todo)
<1>1. pc = "recover" /\ UNCHANGED <<PrevOp, wrote>>
  BY DEF Recover, TryAgain, GiveUp, hist
<1>2. /\ c \in Chips /\ c = call.chip /\ Free(c) /\ Fields(rec, NoRec)
      /\ OpShape(o) /\ i \in rec.todo /\ rec.todo \subseteq DOMAIN o.blk /\ Phase = rec.back
      /\ rec.back \in {"start", "issue", "sync"}
  BY <1>1, Recovering
<1>3. /\ \A d \in Chips \ {c} : cell'[d] = cell[d] /\ swap'[d] = swap[d]
      /\ \A u \in User, p \in Page :
           ~ Touches(o, o.of, i, u, p) => cell'[c][swap'[c][u]][p] = cell[c][swap[c][u]][p]
      /\ \/ GiveUp
         \/ /\ TryAgain(i)
            /\ \A u \in User, p \in Page :
                 Touches(o, o.of, i, u, p) => cell'[c][swap'[c][u]][p] = Result(o, i)
  BY RedoneData
<1>4. PrevOp[c] = NoOp /\ c # NoChip
  BY <1>2, Numbers DEF IInv, PendingOK
<1>5. Meant(c, o, rec.todo) /\ \A d \in Chips : Meant(d, PrevOp[d], DOMAIN PrevOp[d].blk)
  BY <1>1 DEF Data, Promised
<1>6. ASSUME NEW d \in Chips, NEW u \in User, NEW p \in Page, d # c, Open(d, u, p)
      PROVE  Open(d, u, p)'
  BY <1>1, <1>6 DEF Open
<1> HIDE DEF i
<1>7. CASE /\ TryAgain(i)
           /\ \A u \in User, p \in Page :
                Touches(o, o.of, i, u, p) => cell'[c][swap'[c][u]][p] = Result(o, i)
  <2>1. /\ UNCHANGED <<call, lost>> /\ pc' \in {rec.back, "recover"}
        /\ pc' = "recover" => /\ rec'.op = o /\ rec'.chip = c /\ rec'.todo = rec.todo \ {i}
        /\ pc' # "recover" => rec.todo = {i}
    BY <1>2, <1>7 DEF TryAgain, hist, Fields, NoRec
  <2>2. Promised'
    <3>1. Meant(c, o, rec.todo \ {i})
      BY <1>5 DEF Meant
    <3> HIDE DEF c, o
    <3> QED
      BY <1>1, <1>5, <2>1, <3>1 DEF Promised, Meant
  <2>3. Sourced'
    <3>1. Phase = "issue" => call.cmd \notin Copies
      BY <1>1 DEF IInv, CallOK
    <3> QED
      BY <1>2, <2>1, <3>1 DEF Sourced
  <2>4. Survives'
    <3> SUFFICES ASSUME NEW d \in Chips, NEW u \in User, NEW p \in Page,
                        <<d, u, p>> \notin lost, ~ Open(d, u, p)'
                 PROVE  Right(d, u, p)'
      BY <2>1 DEF Survives
    <3>1. CASE d # c
      <4>1. Right(d, u, p)
        BY <1>6, <3>1 DEF Data, Survives
      <4> QED
        BY <1>1, <1>3, <3>1, <4>1 DEF Right
    <3>2. CASE d = c /\ Touches(o, o.of, i, u, p)
      <4>1. cell'[c][swap'[c][u]][p] = Result(o, i)
        BY <1>7, <3>2
      <4>2. u = o.of[i] /\ wrote[c][u][p] = Result(o, i)
        BY <1>2, <1>5, <3>2 DEF Meant, Touches
      <4> QED
        BY <1>1, <3>2, <4>1, <4>2 DEF Right
    <3>3. CASE d = c /\ ~ Touches(o, o.of, i, u, p)
      <4>1. ~ \E j \in rec.todo : Touches(o, o.of, j, u, p)
        <5>1. CASE pc' = "recover"
          BY <1>2, <2>1, <3>3, <5>1 DEF Open, Touches
        <5>2. CASE pc' # "recover"
          BY <2>1, <3>3, <5>2
        <5> QED
          BY <5>1, <5>2
      <4>2. ~ Open(c, u, p)
        BY <1>4, <4>1, NoOpShape DEF Open
      <4>3. Right(c, u, p)
        BY <1>2, <3>3, <4>2 DEF Data, Survives
      <4> QED
        BY <1>1, <1>3, <3>3, <4>3 DEF Right
    <3> QED
      BY <3>1, <3>2, <3>3
  <2> QED
    BY <2>2, <2>3, <2>4 DEF Data
<1>8. CASE GiveUp
  <2>1. /\ lost' = lost \cup LostPages(c, o, rec.todo)
        /\ pc' \in {"start", "idle"}
    BY <1>8 DEF GiveUp
  <2>2. Promised' /\ Sourced'
    BY <1>1, <1>5, <2>1 DEF Promised, Sourced, Meant
  <2>3. Survives'
    <3> SUFFICES ASSUME NEW d \in Chips, NEW u \in User, NEW p \in Page,
                        <<d, u, p>> \notin lost', ~ Open(d, u, p)'
                 PROVE  Right(d, u, p)'
      BY DEF Survives
    <3>1. <<d, u, p>> \notin lost
      BY <2>1
    <3>2. CASE d # c
      <4>1. Right(d, u, p)
        BY <1>6, <3>1, <3>2 DEF Data, Survives
      <4> QED
        BY <1>1, <1>3, <3>2, <4>1 DEF Right
    <3>3. CASE d = c
      <4>1. ~ \E j \in rec.todo : Touches(o, o.of, j, u, p)
        BY <2>1, <3>3 DEF LostPages, Where
      <4>2. ~ Open(c, u, p)
        BY <1>4, <4>1, NoOpShape DEF Open
      <4>3. Right(c, u, p)
        BY <1>2, <3>1, <3>3, <4>2 DEF Data, Survives
      <4> QED
        BY <1>1, <1>2, <1>3, <3>3, <4>1, <4>3 DEF Right
    <3> QED
      BY <3>2, <3>3
  <2> QED
    BY <2>2, <2>3 DEF Data
<1> QED
  BY <1>3, <1>7, <1>8

----------------------------------------------------------------------------
(* The specification                                                       *)

LEMMA DataKeeps == NoCrossCopy /\ IInv /\ Data /\ [Next]_vars => Data'
<1> SUFFICES ASSUME NoCrossCopy, IInv, Data, [Next]_vars PROVE Data'
  OBVIOUS
<1>1. CASE \/ FD_WritePage \/ write_sector_group \/ FD_WritePageGroup \/ FD_CopyBack
           \/ FD_CopyBackGroup \/ FD_Erase \/ FD_EraseGroup \/ FD_ReadPage \/ FD_Sync
  BY <1>1, CallsData
<1>2. CASE Step
  BY <1>2, BuffersData, ReadSourceData, IssueData, RecoverData DEF Step
<1>3. CASE \E c \in Chips : Finish(c)
  BY <1>3, FinishData
<1>4. CASE UNCHANGED vars
  <2>1. UNCHANGED <<cell, swap, PrevOp, rec, wrote, lost, pc, call>>
    BY <1>4 DEF vars, chip, bm, hist
  <2>2. Sourced'
    BY <2>1 DEF Data, Sourced
  <2> QED
    BY <2>1, <2>2, DataRests DEF Data
<1> QED
  BY <1>1, <1>2, <1>3, <1>4 DEF Next

\* Whatever fails and whenever it is met, each page that callers wrote or
\* erased holds what they last gave it, in the block that now stands for
\* theirs, unless its operation still pends or an error has been returned for
\* it (err_recover and the recovery routines of fd_physical.c).
THEOREM DeferredFailuresKeepData ==
  ASSUME NoCrossCopy
  PROVE  Spec => []AcceptedSurvives
<1>1. Init => IInv /\ Data
  BY Starts, DataStarts
<1>2. IInv /\ Data /\ [Next]_vars => (IInv /\ Data)'
  BY StepKeeps, DataKeeps
<1>3. IInv /\ Data => AcceptedSurvives
  <2> SUFFICES ASSUME Data, NEW w \in Where \ lost, w \notin InFlight(w[1])
               PROVE  cell[w[1]][swap[w[1]][w[2]]][w[3]] = wrote[w[1]][w[2]][w[3]]
    BY DEF AcceptedSurvives
  <2>1. /\ w = <<w[1], w[2], w[3]>>
        /\ w[1] \in Chips /\ w[2] \in User /\ w[3] \in Page
    BY DEF Where
  <2>2. ~ Open(w[1], w[2], w[3])
    BY <2>1 DEF Open, InFlight, LostPages
  <2> QED
    BY <2>1, <2>2 DEF Data, Survives, Right
<1> QED
  BY <1>1, <1>2, <1>3, PTL DEF Spec
=============================================================================
