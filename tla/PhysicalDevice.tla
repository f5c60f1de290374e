--------------------------- MODULE PhysicalDevice ---------------------------
(***************************************************************************)
(* The physical device layer of the UFD flash driver,                      *)
(* drivers/ufd/fd_physical.c, as the interface layer fd_if.c drives it:    *)
(* page programs and erases that the chip carries out after the call has   *)
(* returned, whose failure is met by a later call on the same chip, and    *)
(* redone by err_recover from the buffers they came from.                  *)
(*                                                                         *)
(* A call of the interface layer holds UFD_LOCK to its end, so there is    *)
(* one call at a time; the chips run beside it.  Each access to the        *)
(* low-level driver is a step.  The bad block manager is what module       *)
(* DurableMap promises: a replacement happens whole or not at all.         *)
(***************************************************************************)
EXTENDS Integers, FiniteSets

CONSTANTS
  Chips,
  NumPlanes,      \* planes of a chip; block b lies on plane b % NumPlanes
  Groups,         \* groups of blocks, one per plane, that callers use
  HeldGroups,     \* those of them that hold data at the start
  Spares,         \* blocks of a chip that can replace a bad one
  PagesPerBlock,
  Values,         \* what callers write
  Calls,          \* the kinds of calls they make
  MaxCalls,       \* how many, in a behaviour
  MaxFailures     \* programs and erases that fail, in a behaviour

Plane  == 0 .. NumPlanes - 1
User   == 0 .. NumPlanes * Groups - 1
Block  == 0 .. NumPlanes * Groups + Spares - 1
Page   == 0 .. PagesPerBlock - 1
Where  == Chips \X User \X Page
PFD_PLANE(b) == b % NumPlanes
PFD_GROUP(b) == b \div NumPlanes

BLANK == 0
JUNK  == -1
\* Where the data of a write is: in the caller's buffer or in pdev->Buf.
CALLER == -1

ASSUME DeviceAssumption ==
  /\ NumPlanes \in Nat /\ NumPlanes >= 2
  /\ Groups \in Nat \ {0}
  /\ HeldGroups \subseteq 0 .. Groups - 1
  /\ Spares \in Nat
  /\ PagesPerBlock \in Nat \ {0}
  /\ BLANK \notin Values /\ JUNK \notin Values
  /\ Chips \subseteq Nat /\ Chips # {} /\ IsFiniteSet(Chips)
  /\ Calls \subseteq {"write", "write_group", "fill", "copy", "copy_group",
                      "cross_copy", "erase", "erase_group", "read", "sync"}
  /\ MaxCalls \in Nat
  /\ MaxFailures \in Nat

VARIABLES
  \* the chips
  cell,           \* cell[c][b][p]: what page p of block b of chip c holds
  PrevOp,         \* the operation chip c was given last, and how it went
  \* bad block management
  swap,           \* swap[c][u]: the block that stands for block u
  spare,          \* blocks that can still replace one
  \* PFDEV
  Buf, BufIndex, BufAllBusy,
  \* the call in progress
  pc,
  call,
  rec,            \* err_recover: its copy of PrevOp and the planes to redo
  \* history and bounds
  wrote,          \* what callers have written to each page since its erase
  lost,           \* pages whose write or erase was given up
  budget          \* calls and failures left

chip == <<cell, PrevOp>>
bm   == <<swap, spare>>
bufs == <<Buf, BufIndex, BufAllBusy>>
hist == <<wrote, lost>>
vars == <<chip, bm, bufs, pc, call, rec, hist, budget>>

\* An operation on one block, or on one block of each plane.
None == << >>
NoChip == -1
NoOp == [cmd |-> "none", st |-> "ok", blk |-> None, of |-> None, page |-> 0,
         ref |-> None, val |-> None]
NoCall == [cmd |-> "none", chip |-> NoChip, src |-> NoChip, blk |-> None, page |-> 0,
           from |-> None, val |-> None, ref |-> None, todo |-> {}]
NoRec == [op |-> NoOp, chip |-> NoChip, todo |-> {}, back |-> "idle"]

First(S) == CHOOSE i \in S : \A j \in S : i <= j
Spend(kind, n) == /\ budget[kind] >= n
                  /\ budget' = [budget EXCEPT ![kind] = @ - n]

----------------------------------------------------------------------------
(* The chip: an operation ends some time after it was given, with the data *)
(* that its buffer holds then.                                             *)

Busy(c)   == PrevOp[c].st = "busy"
Failed(c) == PrevOp[c].st = "failed"
Free(c)   == PrevOp[c].st = "ok"

Content(c, o, i) == IF o.ref[i] = CALLER THEN o.val[i] ELSE Buf[c][o.ref[i]]

\* Does o program or erase page p of block b, where `at' says which blocks?
Touches(o, at, i, b, p) == at[i] = b /\ (o.cmd = "erase" \/ o.page = p)

\* The pages of chip c after o on its planes S, which fails on planes bad.
After(c, o, S, bad) ==
  [b \in Block |-> [p \in Page |->
     IF \E i \in S : Touches(o, o.blk, i, b, p)
     THEN LET i == CHOOSE i \in S : o.blk[i] = b
          IN  IF i \in bad THEN JUNK
              ELSE IF o.cmd = "erase" THEN BLANK ELSE Content(c, o, i)
     ELSE cell[c][b][p]]]

Finish(c) ==
  /\ Busy(c)
  /\ LET o == PrevOp[c]
         S == DOMAIN o.blk
     IN  \/ /\ cell' = [cell EXCEPT ![c] = After(c, o, S, {})]
            /\ PrevOp' = [PrevOp EXCEPT ![c] = NoOp]
            /\ UNCHANGED budget
         \/ /\ Spend("fail", 1)
            /\ \E bad \in SUBSET S \ {{}} :
                 cell' = [cell EXCEPT ![c] = After(c, o, S, bad)]
            /\ PrevOp' = [PrevOp EXCEPT ![c].st = "failed"]
  /\ UNCHANGED <<bm, bufs, pc, call, rec, hist>>

----------------------------------------------------------------------------
(* Error recovery                                                          *)

\* err_recover copies PrevOp and sets its command to OP_NONE.
Kept(o)      == o                                                 \* mutant
Forgotten(o) == NoOp

\* The access was refused with the previous operation's error; the call is
\* tried again from `back' if that can be recovered.
Refused(c, back) ==
  /\ Failed(c)
  /\ rec' = [op |-> PrevOp[c], chip |-> c, todo |-> DOMAIN PrevOp[c].blk,
             back |-> back]
  /\ PrevOp' = [PrevOp EXCEPT ![c] = Forgotten(@)]
  /\ pc' = "recover"
  /\ UNCHANGED <<cell, bm, Buf, BufIndex, call, hist, budget>>

BM_GetOriginalBlock(c, b) ==
  IF b \in User THEN b ELSE CHOOSE u \in User : swap[c][u] = b

\* BM_SwapWriteBadBlock or BM_SwapEraseBadBlock puts block s in the place of
\* b, and the operation is repeated there; x is what that leaves.
Repeat(c, o, i, s, x) ==
  /\ cell' = [cell EXCEPT ![c][s] = [p \in Page |->
                IF Touches(o, o.blk, i, o.blk[i], p) THEN x
                ELSE cell[c][o.blk[i]][p]]]
  /\ swap' = [swap EXCEPT ![c][BM_GetOriginalBlock(c, o.blk[i])] = s]
  /\ spare' = [spare EXCEPT ![c] = @ \ {s}]

\* What is lost when recovery stops: its planes from here on.
LostPages(c, o, S) ==
  {w \in Where : w[1] = c /\ \E i \in S : Touches(o, o.of, i, w[2], w[3])}

\* FM_TRY_AGAIN, when all planes are done.
TryAgain(i) ==
  /\ rec' = IF rec.todo = {i} THEN NoRec ELSE [rec EXCEPT !.todo = @ \ {i}]
  /\ pc' = IF rec.todo = {i} THEN rec.back ELSE "recover"
  /\ UNCHANGED <<call, hist>>

\* Any other error ends the call, but for PFD_GetBuffer, which ignores it.
GiveUp ==
  /\ lost' = lost \cup LostPages(rec.chip, rec.op, rec.todo)
  /\ rec' = NoRec
  /\ IF call.cmd = "fill" /\ rec.back = "start"
     THEN pc' = rec.back /\ UNCHANGED call
     ELSE pc' = "idle" /\ call' = NoCall
  /\ UNCHANGED wrote

\* A group operation is tried again on each plane before its block is held
\* to be bad; the write or erase that follows a replacement is not.
Recover ==
  /\ pc = "recover"
  /\ LET c == rec.chip
         o == rec.op
         i == First(rec.todo)
         group == Cardinality(DOMAIN o.blk) > 1
         failures == IF group THEN 1 ELSE 0
         done == IF o.cmd = "erase" THEN BLANK ELSE Content(c, o, i)
     IN  \/ /\ group
            /\ cell' = [cell EXCEPT ![c] = After(c, o, {i}, {})]
            /\ TryAgain(i)
            /\ UNCHANGED <<bm, budget>>
         \/ /\ Spend("fail", failures)
            /\ \E s \in spare[c] : Repeat(c, o, i, s, done)
            /\ TryAgain(i)
         \/ /\ Spend("fail", failures)
            /\ spare[c] = {}
            /\ cell' = [cell EXCEPT ![c] = After(c, o, {i}, {i})]
            /\ GiveUp
            /\ UNCHANGED bm
         \/ /\ Spend("fail", failures + 1)
            /\ \E s \in spare[c] : Repeat(c, o, i, s, JUNK)
            /\ GiveUp
  /\ UNCHANGED <<PrevOp, bufs>>

----------------------------------------------------------------------------
(* The call in progress                                                    *)

\* The block that stands for the block of plane i.
Target(i) == swap[call.chip][call.blk[i]]
Source(i) == swap[call.src][call.from[i].blk]

\* is_multi_ok: all planes take part, with aligned blocks of one group.
is_multi_ok(block) ==
  /\ DOMAIN block = Plane
  /\ \A i \in Plane : PFD_PLANE(block[i]) = i /\ PFD_GROUP(block[i]) = PFD_GROUP(block[0])

\* The planes of the next low-level operation: all of them, or the next one.
Next1 == {First(call.todo)}
Together ==
  /\ call.cmd \in {"write_group", "copy_group", "erase_group"}
  /\ call.src = call.chip
  /\ call.todo = Plane
  /\ is_multi_ok([i \in Plane |-> Target(i)])
  /\ call.cmd = "copy_group" => is_multi_ok([i \in Plane |-> Source(i)])
Turn == IF Together THEN Plane ELSE Next1

SameBuffer(c)  == BufIndex[c]                                     \* mutant
AfterBuffer(c) == BufIndex[c] + 1                                 \* mutant
NextBuffer(c)  == 1 - BufIndex[c]

Copies == {"copy", "copy_group", "cross_copy"}

\* PFD_GetBuffer for OP_WRITE waits for a multi-plane copy-back that uses
\* both buffers; its result is not looked at.
GetBufferToFill ==
  /\ pc = "start" /\ call.cmd = "fill"
  /\ LET c == call.chip
     IN  IF BufAllBusy[c] /\ ~ Free(c)
         THEN /\ Refused(c, "start")
              /\ BufAllBusy' = [BufAllBusy EXCEPT ![c] = FALSE]
         ELSE /\ BufAllBusy' = [BufAllBusy EXCEPT ![c] = FALSE]
              /\ BufIndex' = [BufIndex EXCEPT ![c] = NextBuffer(c)]
              /\ Buf' = [Buf EXCEPT ![c][NextBuffer(c)] = call.val[0]]
              /\ call' = [call EXCEPT !.ref = [i \in {0} |-> NextBuffer(c)]]
              /\ pc' = "issue"
              /\ UNCHANGED <<chip, bm, rec, hist, budget>>

\* copy_back and sw_copy_back take the next buffer of the destination chip,
\* multi_sw_copy_back takes them all.
GetBufferToRead ==
  /\ pc = "start" /\ call.cmd \in Copies
  /\ LET c == call.chip
     IN  IF Together
         THEN /\ call' = [call EXCEPT !.ref = [i \in Plane |-> i]]
              /\ UNCHANGED BufIndex
         ELSE /\ BufIndex' = [BufIndex EXCEPT ![c] = NextBuffer(c)]
              /\ call' = [call EXCEPT !.ref = [i \in Next1 |-> NextBuffer(c)]]
  /\ pc' = "read"
  /\ UNCHANGED <<chip, bm, Buf, BufAllBusy, rec, hist, budget>>

\* Where a copy is taken up again: PFD_CopyBack is called anew, sw_copy_back
\* goes on reading.
Reread == IF call.src = call.chip THEN "start" ELSE "read"

\* The source pages arrive; one that does not read ends the call.
ReadSource ==
  /\ pc = "read"
  /\ LET c == call.chip
         s == call.src
         T == DOMAIN call.ref
         got == [i \in T |-> cell[s][Source(i)][call.from[i].page]]
     IN  \/ /\ Refused(s, Reread)
            /\ UNCHANGED BufAllBusy
         \/ /\ Free(s)
            /\ Buf' = [Buf EXCEPT ![c] = [b \in DOMAIN @ |->
                         IF \E i \in T : call.ref[i] = b
                         THEN got[CHOOSE i \in T : call.ref[i] = b] ELSE @[b]]]
            /\ IF \E i \in T : got[i] = JUNK
               THEN pc' = "idle" /\ call' = NoCall
               ELSE pc' = "issue" /\ call' = [call EXCEPT !.val = got]
            /\ UNCHANGED <<chip, bm, BufIndex, BufAllBusy, rec, hist, budget>>

\* The operation given to the chip.
Given(T) == [cmd  |-> IF call.cmd \in {"erase", "erase_group"} THEN "erase" ELSE "write",
             st   |-> "busy",
             blk  |-> [i \in T |-> Target(i)],
             of   |-> [i \in T |-> call.blk[i]],
             page |-> call.page,
             ref  |-> IF T \subseteq DOMAIN call.ref THEN [i \in T |-> call.ref[i]]
                      ELSE [i \in T |-> CALLER],
             val  |-> IF T \subseteq DOMAIN call.val THEN [i \in T |-> call.val[i]]
                      ELSE [i \in T |-> BLANK]]

\* What callers expect of the pages written or erased.
Expected(o, T) ==
  [wrote EXCEPT ![call.chip] = [u \in User |-> [p \in Page |->
     IF \E i \in T : Touches(o, o.of, i, u, p)
     THEN LET i == CHOOSE i \in T : o.of[i] = u
          IN  IF call.cmd \in Copies
              THEN wrote[call.src][call.from[i].blk][call.from[i].page]
              ELSE o.val[i]
     ELSE wrote[call.chip][u][p]]]]

CopiesOfLost(T) ==
  IF call.cmd \in Copies
  THEN {<<call.chip, call.blk[i], call.page>> :
          i \in {i \in T : <<call.src, call.from[i].blk, call.from[i].page>> \in lost}}
  ELSE {}

NotBusy == FALSE                                                  \* mutant
AllBusy == call.cmd = "copy_group" /\ Together

Issue ==
  /\ pc = "issue"
  /\ LET c == call.chip
         T == IF call.cmd \in Copies THEN DOMAIN call.ref ELSE Turn
         o == Given(T)
     IN  \/ /\ Refused(c, "issue")
            /\ UNCHANGED BufAllBusy
         \/ /\ Free(c)
            /\ PrevOp' = [PrevOp EXCEPT ![c] = o]
            /\ BufAllBusy' = [BufAllBusy EXCEPT ![c] = @ \/ AllBusy]
            /\ wrote' = Expected(o, T)
            /\ lost' = (lost \ LostPages(c, o, T)) \cup CopiesOfLost(T)
            /\ IF call.todo = T
               THEN pc' = "idle" /\ call' = NoCall
               ELSE /\ pc' = IF call.cmd \in Copies THEN "start" ELSE "issue"
                    /\ call' = [call EXCEPT !.todo = @ \ T]
            /\ UNCHANGED <<cell, bm, Buf, BufIndex, rec, budget>>

\* FD_Sync waits for each chip; FD_ReadPage for the chip it reads.
Sync ==
  /\ pc = "sync"
  /\ LET c == call.chip
         rest == call.todo \ {c}
     IN  \/ /\ Refused(c, "sync")
            /\ UNCHANGED BufAllBusy
         \/ /\ Free(c)
            /\ IF rest = {}
               THEN pc' = "idle" /\ call' = NoCall
               ELSE /\ call' = [call EXCEPT !.chip = First(rest), !.todo = rest]
                    /\ UNCHANGED pc
            /\ UNCHANGED <<chip, bm, bufs, rec, hist, budget>>

----------------------------------------------------------------------------
(* Calls.  Callers program a page once between two erases of its block.    *)

Unwritten(c, u, p) == wrote[c][u][p] = BLANK /\ <<c, u, p>> \notin lost
Written(c, u, p)   == wrote[c][u][p] # BLANK

Begin(new, at) ==
  /\ pc = "idle"
  /\ new.cmd \in Calls
  /\ Spend("call", 1)
  /\ call' = new
  /\ pc' = at
  /\ UNCHANGED <<chip, bm, bufs, rec, hist>>

\* The blocks of group g.
GroupBlocks(g) == [i \in Plane |-> NumPlanes * g + i]
Group == 0 .. Groups - 1

\* A write from the caller's buffer, or (fill) from sectors that
\* write_sector_group gathers in a buffer of the device.
Write(kind, at) ==
  \E w \in Where, v \in Values :
    /\ Unwritten(w[1], w[2], w[3])
    /\ Begin([NoCall EXCEPT !.cmd = kind, !.chip = w[1], !.src = w[1],
                !.blk = [i \in {0} |-> w[2]], !.page = w[3],
                !.val = [i \in {0} |-> v], !.todo = {0}], at)

FD_WritePage       == Write("write", "issue")
write_sector_group == Write("fill", "start")

FD_WritePageGroup ==
  \E c \in Chips, g \in Group, p \in Page, v \in [Plane -> Values] :
    /\ \A i \in Plane : Unwritten(c, GroupBlocks(g)[i], p)
    /\ Begin([NoCall EXCEPT !.cmd = "write_group", !.chip = c, !.src = c,
                !.blk = GroupBlocks(g), !.page = p, !.val = v, !.todo = Plane],
             "issue")

\* Between chips FD_CopyBack reads and writes (sw_copy_back).
FD_CopyBack ==
  \E w, r \in Where :
    /\ Unwritten(w[1], w[2], w[3])
    /\ Written(r[1], r[2], r[3])
    /\ w[2] # r[2] \/ w[1] # r[1]
    /\ Begin([NoCall EXCEPT !.cmd = IF w[1] = r[1] THEN "copy" ELSE "cross_copy",
                !.chip = w[1], !.src = r[1], !.blk = [i \in {0} |-> w[2]],
                !.page = w[3], !.from = [i \in {0} |-> [blk |-> r[2], page |-> r[3]]],
                !.todo = {0}], "start")

FD_CopyBackGroup ==
  \E c \in Chips, g, h \in Group, p, q \in Page :
    /\ g # h
    /\ \A i \in Plane : /\ Unwritten(c, GroupBlocks(g)[i], p)
                        /\ Written(c, GroupBlocks(h)[i], q)
    /\ Begin([NoCall EXCEPT !.cmd = "copy_group", !.chip = c, !.src = c,
                !.blk = GroupBlocks(g), !.page = p,
                !.from = [i \in Plane |-> [blk |-> GroupBlocks(h)[i], page |-> q]],
                !.todo = Plane], "start")

FD_Erase ==
  \E c \in Chips, u \in User :
    Begin([NoCall EXCEPT !.cmd = "erase", !.chip = c, !.src = c,
             !.blk = [i \in {0} |-> u], !.todo = {0}], "issue")

FD_EraseGroup ==
  \E c \in Chips, g \in Group :
    Begin([NoCall EXCEPT !.cmd = "erase_group", !.chip = c, !.src = c,
             !.blk = GroupBlocks(g), !.todo = Plane], "issue")

FD_ReadPage ==
  \E c \in Chips :
    Begin([NoCall EXCEPT !.cmd = "read", !.chip = c, !.src = c, !.todo = {c}], "sync")

FD_Sync ==
  Begin([NoCall EXCEPT !.cmd = "sync", !.chip = First(Chips), !.src = First(Chips),
           !.todo = Chips], "sync")

Held == {u \in User : PFD_GROUP(u) \in HeldGroups}

Init ==
  /\ wrote \in {[c \in Chips |-> [u \in User |-> IF u \in Held THEN f[c][u]
                                              ELSE [p \in Page |-> BLANK]]] :
                 f \in [Chips -> [Held -> [Page -> Values]]]}
  /\ cell = [c \in Chips |-> [b \in Block |-> IF b \in User THEN wrote[c][b]
                                             ELSE [p \in Page |-> BLANK]]]
  /\ PrevOp = [c \in Chips |-> NoOp]
  /\ swap = [c \in Chips |-> [u \in User |-> u]]
  /\ spare = [c \in Chips |-> Block \ User]
  /\ Buf = [c \in Chips |-> [i \in Plane |-> BLANK]]
  /\ BufIndex = [c \in Chips |-> 0]
  /\ BufAllBusy = [c \in Chips |-> FALSE]
  /\ pc = "idle" /\ call = NoCall /\ rec = NoRec
  /\ lost = {}
  /\ budget = [call |-> MaxCalls, fail |-> MaxFailures]

Step == GetBufferToFill \/ GetBufferToRead \/ ReadSource \/ Issue \/ Sync \/ Recover

Next ==
  \/ FD_WritePage \/ write_sector_group \/ FD_WritePageGroup
  \/ FD_CopyBack \/ FD_CopyBackGroup
  \/ FD_Erase \/ FD_EraseGroup \/ FD_ReadPage \/ FD_Sync
  \/ Step
  \/ \E c \in Chips : Finish(c)

Spec == Init /\ [][Next]_vars

\* A call runs on, and an operation of a chip ends.
FairSpec == /\ Spec
            /\ WF_vars(Step)
            /\ \A c \in Chips : WF_vars(Finish(c))

----------------------------------------------------------------------------
(* Properties                                                              *)

\* A value of S for some planes.
PlanesTo(f, S) == DOMAIN f \subseteq Plane /\ \A i \in DOMAIN f : f[i] \in S

OperationOK(o) ==
  /\ o.cmd \in {"none", "write", "erase"} /\ o.st \in {"ok", "busy", "failed"}
  /\ PlanesTo(o.blk, Block) /\ PlanesTo(o.of, User) /\ o.page \in Page
  /\ PlanesTo(o.ref, {CALLER} \cup Plane) /\ PlanesTo(o.val, Values \cup {BLANK})
  /\ DOMAIN o.of = DOMAIN o.blk /\ DOMAIN o.ref = DOMAIN o.blk

\* Every variable has its type; an operation of several blocks has one block
\* on each plane, and its buffers are buffers of the device.
TypeOK ==
  /\ cell \in [Chips -> [Block -> [Page -> Values \cup {BLANK, JUNK}]]]
  /\ DOMAIN PrevOp = Chips
  /\ \A c \in Chips : OperationOK(PrevOp[c]) /\ (~ Free(c) => DOMAIN PrevOp[c].blk # {})
  /\ swap \in [Chips -> [User -> Block]]
  /\ spare \in [Chips -> SUBSET (Block \ User)]
  /\ Buf \in [Chips -> [Plane -> Values \cup {BLANK, JUNK}]]
  /\ BufIndex \in [Chips -> {0, 1}]
  /\ BufAllBusy \in [Chips -> BOOLEAN]
  /\ pc \in {"idle", "start", "read", "issue", "sync", "recover"}
  /\ OperationOK(rec.op) /\ rec.todo \subseteq DOMAIN rec.op.blk
  /\ wrote \in [Chips -> [User -> [Page -> Values \cup {BLANK}]]]
  /\ lost \subseteq Where
  /\ budget \in [call : 0 .. MaxCalls, fail : 0 .. MaxFailures]

Intact(c, o) == \A i \in DOMAIN o.blk : o.cmd = "write" => Content(c, o, i) = o.val[i]

\* The buffers that a pending write takes its data from, and would be redone
\* from, hold what the caller gave, until the write is known to have gone
\* well or has been redone.
PendingIntact ==
  /\ \A c \in Chips : Busy(c) \/ Failed(c) => Intact(c, PrevOp[c])
  /\ pc = "recover" =>
       Intact(rec.chip, [rec.op EXCEPT !.blk = [i \in rec.todo |-> @[i]]])

\* What the chip still owes: pages of pending or failed operations, which a
\* later call redoes.
InFlight(c) ==
  LostPages(c, PrevOp[c], DOMAIN PrevOp[c].blk)
    \cup (IF rec.chip = c THEN LostPages(c, rec.op, rec.todo) ELSE {})

\* Each page that callers wrote or erased holds what they last gave it, in
\* the block that now stands for theirs, unless its operation still pends or
\* an error has been returned for it: whatever fails and whenever it is met.
AcceptedSurvives ==
  \A w \in Where \ lost :
    w \notin InFlight(w[1]) => cell[w[1]][swap[w[1]][w[2]]][w[3]] = wrote[w[1]][w[2]][w[3]]

\* fd_physical.h: while BufAllBusy is set all buffers are in use, by the
\* multi-plane copy that pends.
BuffersBusy ==
  \A c \in Chips : BufAllBusy[c] /\ (Busy(c) \/ Failed(c)) => Intact(c, PrevOp[c])

\* "watch out not to corrupt the existing data in pdev->Buf[2] because the
\* copy-back function uses them in turn" (fd_physical.c): between calls, the
\* buffer that the next call takes is not the one a pending write still needs.
BuffersInTurn ==
  \A c \in Chips :
    pc = "idle" /\ ~ Free(c) /\ ~ BufAllBusy[c]
      => \A i \in DOMAIN PrevOp[c].ref : PrevOp[c].ref[i] # NextBuffer(c)

\* The comment "error occurred again; perform recovery" of the three recovery
\* routines: an operation is given up only when no spare block is left.
GivesUpOnlyWithoutSpare == \A w \in lost : spare[w[1]] = {}

\* Every call returns: err_recover forgets the failure it was called for, so
\* that the loop around a physical device call ends.
CallsReturn == (pc # "idle") ~> (pc = "idle")
=============================================================================
