------------------------- MODULE AudioOutQueue_proofs -------------------------
(***************************************************************************)
(* What AudioOut promises about the sound queued, from three invariants on *)
(* top of IInv: Told, what a write has counted; Act, that a device with    *)
(* sound is active; and Paced, where the channel is against what the       *)
(* handler has counted.  At the end of the module, where the queue lies in *)
(* the ring (RingInStep).                                                  *)
(***************************************************************************)
EXTENDS AudioOut_proofs

----------------------------------------------------------------------------
Writing == {"fill", "filled", "fault", "down"} \cup Filling

\* Units that the fill in progress has copied and not counted, or has still
\* to copy.
Copied == IF pc = "add1" THEN call.n1 ELSE IF pc = "add2" THEN call.n2 ELSE 0
ToCopy == IF pc = "copy1" THEN call.n1 + call.n2
          ELSE IF pc \in {"add1", "copy2"} THEN call.n2 ELSE 0

\* A write that began, or waits, while sound is played.
Sounding == pc \in Writing /\ (call.stage # "first" \/ pc = "down")

\* A write during which the sound goes on has counted what it has taken.
Told ==
  /\ pc \in Writing /\ ~ call.cut =>
       /\ AvaliableUserBytes >= 0 /\ ToCopy <= AvaliableUserBytes
       /\ call.took + Copied = call.count - AvaliableUserBytes
  /\ Sounding /\ ~ call.cut /\ ~ shrunk => initDevice
  /\ pc \in {"filled"} \cup Filling /\ call.stage = "first" /\ ~ shrunk
       /\ AvaliableUserBytes > ToCopy => decoderValidBytes + Pending = buf_size
  /\ pc \in Writing /\ ~ Sounding => ~ call.cut
  /\ pc \in {"drain", "asleep", "drained", "closed"} => call.cmd # "write"
  /\ ReportedIsQueued

\* While what is queued is known, the sound is that of an active device.
Act ==
  /\ intact /\ initDevice => active
  /\ intact /\ ~ initDevice /\ ~ active /\ ~ InLoop =>
       decoderValidBytes = 0 /\ Pending = 0
  /\ intact /\ ~ initDevice /\ pc = "fill" => active

\* The end of the block played, the descriptor that follows it, and what was
\* played since it was last counted.
BlockEnd == IF sema = 0 THEN bar ELSE bar - (bar % Block) + Block
Follows  == IF BlockEnd = chain THEN 0 ELSE BlockEnd
Behind   == IF bar >= lastDMAPosition THEN bar - lastDMAPosition
            ELSE buf_size - lastDMAPosition + bar

\* The next descriptor follows the block played, and what is queued and what
\* was played without being counted are within the handler's count.
Paced ==
  /\ intact => chain = buf_size
  /\ intact /\ ~ initDevice => Len(queue) <= decoderValidBytes
  /\ intact /\ initDevice => next = Follows /\ Len(queue) + Behind <= decoderValidBytes

----------------------------------------------------------------------------
\* While the queue is known the ring is that of the descriptors.
LEMMA Known ==
  ASSUME IInv, intact
  PROVE  /\ ~ shrunk /\ pc # "overrun"
         /\ chain <= buf_size /\ lastDMAPosition <= chain
         /\ initDevice => bar <= chain
         /\ sema > 0 => bar < chain
         /\ decoderWritePointer < buf_size
         /\ decoderValidBytes + Pending <= buf_size
         /\ next < chain /\ next % Block = 0
<1>1. ~ shrunk
  BY DEF IInv, Sized
<1> QED
  BY <1>1 DEF IInv, Placed, Channel

\* A clearing that leaves the mapped pages is that of a ring made smaller.
LEMMA Overran ==
  ASSUME IInv, irq = TRUE, IsrOverrun
  PROVE  /\ initDevice /\ shrunk /\ ~ intact /\ pc' = "overrun"
         /\ UNCHANGED <<channel, buffer, sems, call, history, budget>>
<1>1. /\ initDevice /\ pc' = "overrun"
      /\ UNCHANGED <<channel, buffer, sems, call, history, budget>>
  BY DEF IInv, Stopped, IsrOverrun
<1>2. PICK cur \in {bar, IF sema = 0 THEN next ELSE bar} : ~ Mapped(cur)
  BY DEF IsrOverrun
<1>3. shrunk
  BY <1>1, <1>2, ClearsMapped
<1>4. ~ intact
  BY <1>3 DEF IInv, Sized
<1> QED
  BY <1>1, <1>3, <1>4

----------------------------------------------------------------------------
(* Act: an active device                                                   *)

\* Steps that do not touch what Act speaks of, and steps that empty the ring.
LEMMA ActKept ==
  ASSUME Act, intact' => intact, UNCHANGED <<initDevice, active>>,
         pc' = "fill" => pc = "fill",
         ~ initDevice /\ ~ InLoop' => ~ InLoop,
         ~ initDevice /\ decoderValidBytes = 0 /\ Pending = 0 =>
           decoderValidBytes' = 0 /\ Pending' = 0
  PROVE  Act'
BY DEF Act

LEMMA ActEmptied ==
  ASSUME ~ initDevice', ~ intact' \/ (pc' # "fill" /\ decoderValidBytes' = 0 /\ Pending' = 0)
  PROVE  Act'
BY DEF Act

LEMMA ActPlay ==
  ASSUME Act, Play
  PROVE  Act'
<1>1. UNCHANGED <<buffer, pc, call>> /\ (intact' => intact)
  BY DEF Play
<1>2. Pending' = Pending /\ InLoop' = InLoop
  BY <1>1 DEF Pending, InLoop, Filling
<1> QED
  BY <1>1, <1>2, ActKept DEF buffer

LEMMA ActIsr ==
  ASSUME IInv, Act, Isr
  PROVE  Act'
<1>1. CASE irq /\ isr = "none" /\ IsrMore
  <2>1. initDevice
    BY <1>1 DEF IInv, Stopped
  <2>2. UNCHANGED <<initDevice, active, intact, pc>>
    BY <1>1 DEF IsrMore, history
  <2> QED
    BY <2>1, <2>2, ActKept
<1>2. CASE irq /\ isr = "none" /\ IsrRemain
  <2>1. UNCHANGED <<buffer, pc, call, intact>>
    BY <1>2 DEF IsrRemain, history
  <2>2. Pending' = Pending /\ InLoop' = InLoop
    BY <2>1 DEF Pending, InLoop, Filling
  <2> QED
    BY <2>1, <2>2, ActKept DEF buffer
<1>3. CASE irq /\ isr = "none" /\ IsrStop
  <2>1. ~ initDevice' /\ decoderValidBytes' = 0 /\ UNCHANGED pc
    BY <1>3 DEF IsrStop, audio_reset_buf
  <2>2. intact' = (pc \notin Filling \cup {"fill"})
    BY <1>3 DEF IsrStop
  <2>3. pc \notin Filling => Pending' = 0
    BY <2>1 DEF Pending, Filling
  <2> QED
    BY <2>1, <2>2, <2>3, ActEmptied
<1>4. CASE IsrAcknowledge
  <2>1. UNCHANGED <<buffer, pc, call, intact>>
    BY <1>4 DEF IsrAcknowledge
  <2>2. Pending' = Pending /\ InLoop' = InLoop
    BY <2>1 DEF Pending, InLoop, Filling
  <2> QED
    BY <2>1, <2>2, ActKept DEF buffer
<1>5. CASE irq /\ isr = "none" /\ IsrOverrun
  <2>1. irq = TRUE
    BY <1>5 DEF IInv, TypeOK
  <2>2. ~ intact'
    BY <1>5, <2>1, Overran DEF history
  <2> QED
    BY <2>2 DEF Act
<1> QED
  BY <1>1, <1>2, <1>3, <1>4, <1>5 DEF Isr

\* The steps of a fill.
LEMMA ActFill ==
  ASSUME IInv, Act, FillFirst \/ FillNext
  PROVE  Act'
<1>1. CASE FillFirst
  <2>1. pc = "fill" /\ UNCHANGED <<initDevice, active, intact>>
    BY <1>1 DEF FillFirst, history
  <2>2. pc' # "fill"
    BY <1>1 DEF FillFirst, Fill
  <2> QED
    BY <2>1, <2>2 DEF Act
<1>2. CASE FillNext
  <2>1. pc = "down" /\ UNCHANGED <<initDevice, active, intact, decoderValidBytes>>
    BY <1>2 DEF FillNext, history
  <2>2. ~ InLoop /\ Pending = 0
    BY <2>1 DEF InLoop, Pending, Filling
  <2>3. CASE Fill("loop")
    <3>1. /\ call' \in Calls /\ call'.stage = "loop"
          /\ pc' \in {"filled", "copy1", "overrun"}
          /\ ~ shrunk => pc' # "overrun"
      BY <2>1, <2>3, FillKeepsType
    <3>2. pc' # "overrun" => InLoop'
      BY <3>1 DEF InLoop, Filling
    <3>3. intact => pc' # "overrun"
      BY <3>1, Known
    <3> QED
      BY <2>1, <3>1, <3>2, <3>3 DEF Act
  <2>4. CASE Return(WouldBlock)
    <3>1. pc' = "idle"
      BY <2>4 DEF Return
    <3>2. Pending' = 0
      BY <3>1 DEF Pending
    <3> QED
      BY <2>1, <2>2, <3>1, <3>2, ActKept
  <2> QED
    BY <1>2, <2>3, <2>4 DEF FillNext
<1> QED
  BY <1>1, <1>2

LEMMA ActCopy ==
  ASSUME IInv, Act, Copy1 \/ Copy2 \/ Add1 \/ Add2
  PROVE  Act'
<1>1. call \in Calls /\ call.n1 \in Nat /\ call.n2 \in Nat
  BY DEF IInv, CallOK, Calls
<1>2. CASE Copy1 \/ Copy2
  <2>1. UNCHANGED <<initDevice, active, intact, decoderValidBytes, call>>
        /\ pc' # "fill"
    BY <1>2 DEF Copy1, Copy2, CopyTo, history
  <2>2. Pending' = Pending /\ InLoop' = InLoop
    BY <1>2, <2>1 DEF Copy1, Copy2, Pending, InLoop, Filling
  <2> QED
    BY <2>1, <2>2, ActKept
<1>3. CASE Add1
  <2>1. /\ UNCHANGED <<initDevice, active, intact>> /\ pc = "add1"
        /\ pc' \in {"copy2", "filled"} /\ decoderValidBytes' = decoderValidBytes + call.n1
        /\ call' = [call EXCEPT !.took = @ + call.n1]
    BY <1>3 DEF Add1, Add
  <2>2. call'.stage = call.stage /\ call'.n1 = call.n1 /\ call'.n2 = call.n2
    BY <1>1, <2>1 DEF Calls
  <2>3. InLoop' = InLoop
    BY <2>1, <2>2 DEF InLoop, Filling
  <2>4. Pending = call.n1 + call.n2 /\ Pending' \in {call.n2, 0}
    BY <2>1, <2>2 DEF Pending
  <2>5. decoderValidBytes = 0 /\ Pending = 0 => decoderValidBytes' = 0 /\ Pending' = 0
    BY <1>1, <2>1, <2>4
  <2> QED
    BY <2>1, <2>3, <2>5, ActKept
<1>4. CASE Add2
  <2>1. /\ UNCHANGED <<initDevice, active, intact>> /\ pc = "add2"
        /\ pc' = "filled" /\ decoderValidBytes' = decoderValidBytes + call.n2
        /\ call' = [call EXCEPT !.took = @ + call.n2]
    BY <1>4 DEF Add2, Add
  <2>2. call'.stage = call.stage
    BY <1>1, <2>1 DEF Calls
  <2>3. InLoop' = InLoop
    BY <2>1, <2>2 DEF InLoop, Filling
  <2>4. Pending = call.n2 /\ Pending' = 0
    BY <2>1 DEF Pending
  <2>5. decoderValidBytes = 0 /\ Pending = 0 => decoderValidBytes' = 0 /\ Pending' = 0
    BY <1>1, <2>1, <2>4
  <2> QED
    BY <2>1, <2>3, <2>5, ActKept
<1> QED
  BY <1>2, <1>3, <1>4

\* Between two fills, and in a sync: pc is in none of the steps of a fill.
LEMMA ActWaits ==
  ASSUME IInv, Act,
         FilledDirect \/ FilledLoop \/ FaultLoop \/ Drain \/ Woken \/ Drained \/ Signal
  PROVE  Act'
<1>1. /\ UNCHANGED <<initDevice, active, intact, decoderValidBytes>>
      /\ pc \notin Filling
      /\ pc' \notin Filling \cup {"fill", "filled", "fault"}
  BY DEF FilledDirect, FilledLoop, FaultLoop, Drain, Woken, Drained, Signal, WaitForSpace,
         Return, buffer, history, Filling
<1>2. ~ initDevice => ~ InLoop
  BY DEF FilledDirect, FilledLoop, FaultLoop, Drain, Woken, Drained, Signal, InLoop, Filling
<1>3. Pending' = 0
  BY <1>1 DEF Pending, Filling
<1> QED
  BY <1>1, <1>2, <1>3, ActKept

LEMMA ActCaller ==
  ASSUME IInv, Act, Caller
  PROVE  Act'
<1>1. CASE FilledFirst
  <2>1. UNCHANGED <<active, intact, decoderValidBytes>> /\ pc' # "fill"
        /\ pc = "filled" /\ call.stage = "first"
    BY <1>1 DEF FilledFirst, WaitForSpace, Return, history
  <2>2. active
    BY <2>1 DEF IInv, CallOK
  <2> QED
    BY <2>1, <2>2 DEF Act
<1>2. CASE StoppedMeanwhile
  <2>1. ~ initDevice' /\ decoderValidBytes' = 0 /\ pc' = "idle"
    BY <1>2 DEF StoppedMeanwhile, audio_reset_buf, Return
  <2>2. Pending' = 0
    BY <2>1 DEF Pending
  <2> QED
    BY <2>1, <2>2, ActEmptied
<1> QED
  BY <1>1, <1>2, ActFill, ActCopy, ActWaits DEF Caller

LEMMA ActRequest ==
  ASSUME IInv, Act, Request
  PROVE  Act'
<1>1. CASE \E w \in Writes : Write(w)
  <2>1. UNCHANGED <<initDevice, intact, decoderValidBytes>>
        /\ active' = (active \/ ~ initDevice)
    BY <1>1 DEF Write, history
  <2> QED
    BY <2>1 DEF Act, IInv, TypeOK
<1>2. CASE Sync
  <2>1. /\ pc = "idle" /\ pc' = "drain"
        /\ UNCHANGED <<active, intact, decoderValidBytes>>
        /\ decoderValidBytes > 0 \/ UNCHANGED initDevice
    BY <1>2 DEF Sync, Begin, history
  <2>2. ~ InLoop /\ Pending' = 0
    BY <2>1 DEF InLoop, Pending, Filling
  <2>3. CASE initDevice' = initDevice
    BY <2>1, <2>2, <2>3 DEF Act
  <2>4. CASE decoderValidBytes > 0 /\ ~ initDevice
    <3>1. intact => active
      BY <2>2, <2>4 DEF Act
    <3> QED
      BY <2>1, <2>2, <3>1 DEF Act
  <2> QED
    BY <1>2, <2>3, <2>4 DEF Sync
<1>3. CASE Reset
  <2>1. pc = "idle" /\ UNCHANGED initDevice
    BY <1>3 DEF Reset, Begin
  <2>2. ~ InLoop
    BY <2>1 DEF InLoop, Filling
  <2>3. CASE initDevice
    BY <1>3, <2>1, <2>2, <2>3, ActKept DEF Reset
  <2>4. CASE ~ initDevice
    <3>1. decoderValidBytes' = 0 /\ pc' = "idle"
      BY <1>3, <2>1, <2>4 DEF Reset, audio_reset_buf
    <3>2. Pending' = 0
      BY <3>1 DEF Pending
    <3> QED
      BY <2>1, <2>4, <3>1, <3>2, ActEmptied
  <2> QED
    BY <2>3, <2>4
<1>4. CASE Close \/ Open
  <2>a. intact' => intact
    BY <1>4 DEF Close, Open
  <2>1. /\ pc \in {"idle", "closed"} /\ pc' \in {"idle", "closed"}
        /\ UNCHANGED <<initDevice, active, decoderValidBytes>> /\ (intact' => intact)
    <3>1. CASE Close
      BY <2>a, <3>1 DEF Close, Begin
    <3>2. CASE Open
      BY <2>a, <3>2 DEF Open
    <3> QED
      BY <1>4, <3>1, <3>2
  <2>2. ~ InLoop /\ Pending' = 0
    BY <2>1 DEF InLoop, Pending, Filling
  <2> QED
    BY <2>1, <2>2, ActKept
<1>5. CASE \E s \in Sizes : SetFragment(s)
  <2>1. /\ UNCHANGED <<initDevice, decoderValidBytes>>
        /\ intact' => decoderValidBytes = 0 /\ ~ initDevice
        /\ pc' = "idle"
    BY <1>5 DEF SetFragment, Begin
  <2>2. Pending' = 0
    BY <2>1 DEF Pending
  <2>3. CASE intact'
    BY <2>1, <2>2, <2>3, ActEmptied
  <2>4. CASE ~ intact'
    BY <2>4 DEF Act
  <2> QED
    BY <2>3, <2>4
<1> QED
  BY <1>1, <1>2, <1>3, <1>4, <1>5 DEF Request

LEMMA StepAct == IInv /\ Act /\ [Next]_vars => Act'
<1> SUFFICES ASSUME IInv, Act, [Next]_vars
             PROVE  Act'
  OBVIOUS
<1>1. CASE Signal
  BY <1>1, ActWaits
<1>2. CASE CopyFaults
  BY <1>2 DEF CopyFaults, Act
<1>3. CASE UNCHANGED vars
  <2>1. UNCHANGED <<buffer, pc, call, intact>>
    BY <1>3 DEF vars, history
  <2>2. Pending' = Pending /\ InLoop' = InLoop
    BY <2>1 DEF Pending, InLoop, Filling
  <2> QED
    BY <2>1, <2>2, ActKept DEF buffer
<1> QED
  BY <1>1, <1>2, <1>3, ActPlay, ActIsr, ActCaller, ActRequest DEF Next

\* A device that plays what is known is active: StartChannel never starts sound
\* that SETFRAGMENT would not see.
THEOREM ActAlways == Spec => []Act
<1>1. Init => Act
  BY DEF Init, Act, Pending, InLoop, Filling
<1> QED
  BY <1>1, StepAct, Inductive, PTL DEF Spec

LEMMA DescriptorsStep ==
  ASSUME IInv, Act, Next, intact, initDevice, initDevice',
         <<next, chain>>' # <<next, chain>>
  PROVE  bar' = next
<1>1. CASE Play
  BY <1>1 DEF Play
<1>2. CASE Isr
  <2>1. CASE IsrMore
    BY <2>1 DEF IsrMore, Increment
  <2>2. CASE ~ IsrMore
    BY <1>2, <2>2 DEF Isr, IsrOverrun, IsrRemain, IsrStop, IsrAcknowledge, channel
  <2> QED
    BY <2>1, <2>2
<1>3. CASE Caller
  <2>1. ~ FilledFirst
    BY DEF FilledFirst, IInv, CallOK
  <2>2. UNCHANGED channel
    BY <1>3, <2>1 DEF Caller, FillFirst, FillNext, Copy1, Add1, Copy2, Add2, CopyTo, Add,
       FilledDirect, FilledLoop, FaultLoop, StoppedMeanwhile, Drain, Woken, Drained
  <2> QED
    BY <2>2 DEF channel
<1>4. CASE Request
  <2>1. \A s \in Sizes : ~ SetFragment(s)
    BY DEF SetFragment, Act
  <2>2. UNCHANGED channel
    BY <1>4, <2>1 DEF Request, Write, Sync, Reset, Close, Open
  <2> QED
    BY <2>2 DEF channel
<1>5. CASE Signal \/ CopyFaults
  BY <1>5 DEF Signal, CopyFaults, channel
<1> QED
  BY <1>1, <1>2, <1>3, <1>4, <1>5 DEF Next

\* While sound plays, descriptors move on only as the channel loads them: the
\* test in audio_set_fragments is enough as long as what is queued is known.
THEOREM DescriptorsAreKept == Spec => DescriptorsKept
<1>1. IInv /\ Act /\ [Next]_vars =>
        [intact /\ initDevice /\ initDevice' /\ <<next, chain>>' # <<next, chain>> =>
           bar' = next]_vars
  BY DescriptorsStep
<1> QED
  BY <1>1, ActAlways, Inductive, PTL DEF Spec, DescriptorsKept

----------------------------------------------------------------------------
(* Told: what a write reports                                              *)

\* Steps that do not touch what Told speaks of, returns, and new calls.
LEMMA ToldKept ==
  ASSUME Told, UNCHANGED <<pc, call, AvaliableUserBytes, initDevice, shrunk>>,
         pc \in {"filled"} \cup Filling /\ call.stage = "first" =>
           UNCHANGED <<decoderValidBytes, buf_size>>
  PROVE  Told'
<1>1. /\ Copied' = Copied /\ ToCopy' = ToCopy /\ Pending' = Pending
      /\ Sounding' = Sounding /\ ReportedIsQueued' = ReportedIsQueued
  BY DEF Copied, ToCopy, Pending, Sounding, Writing, Filling, ReportedIsQueued
<1> QED
  BY <1>1 DEF Told, Writing, Filling

LEMMA ToldReturned ==
  ASSUME NEW r \in Int, call \in Calls, Return(r),
         call.cmd = "write" /\ ~ call.cut /\ ~ shrunk' /\ r # Failed => r = call.took
  PROVE  Told'
<1>1. /\ pc' = "idle" /\ call'.cmd = call.cmd /\ call'.told = r
      /\ call'.took = call.took /\ call'.cut = call.cut
  BY Returned
<1> QED
  BY <1>1 DEF Told, Writing, Filling, Sounding, ReportedIsQueued

LEMMA ToldBegun ==
  ASSUME NEW cmd \in {"sync", "reset", "close", "set_fragment"}, Begin(cmd),
         pc' \in {"idle", "closed", "drain", "overrun"}
  PROVE  Told'
<1>1. call'.cmd # "write"
  BY Begun
<1> QED
  BY <1>1 DEF Told, Writing, Filling, Sounding, ReportedIsQueued

\* Between two fills.
LEMMA ToldWaits ==
  ASSUME Told, pc = "filled", pc' = "down", UNCHANGED <<call, AvaliableUserBytes>>,
         ~ call.cut /\ ~ shrunk' => initDevice'
  PROVE  Told'
<1>1. Copied = 0 /\ Copied' = 0 /\ ToCopy' = ToCopy /\ Sounding'
  BY DEF Copied, ToCopy, Sounding, Writing
<1> QED
  BY <1>1 DEF Told, Writing, Filling, ReportedIsQueued

\* What a write that has filled the ring, or failed to, has counted.
LEMMA ToldFilled ==
  ASSUME Told, pc \in {"filled", "fault"}, ~ call.cut, call \in Calls,
         AvaliableUserBytes \in Int
  PROVE  call.took = call.count - AvaliableUserBytes /\ AvaliableUserBytes >= 0
<1>1. Copied = 0 /\ pc \in Writing
  BY DEF Copied, Writing
<1>2. call.took + 0 = call.count - AvaliableUserBytes /\ AvaliableUserBytes >= 0
  BY <1>1 DEF Told
<1> QED
  BY <1>2 DEF Calls

LEMMA ToldIsr ==
  ASSUME IInv, Told, Isr
  PROVE  Told'
<1>1. CASE irq /\ isr = "none" /\ IsrMore
  <2>1. initDevice /\ UNCHANGED <<pc, call, AvaliableUserBytes, initDevice, shrunk>>
    BY <1>1 DEF IInv, Stopped, IsrMore, history
  <2>2. ~ (pc \in {"filled"} \cup Filling /\ call.stage = "first")
    BY <2>1 DEF IInv, CallOK
  <2> QED
    BY <2>1, <2>2, ToldKept
<1>2. CASE irq /\ isr = "none" /\ IsrRemain
  BY <1>2, ToldKept DEF IsrRemain, buffer, history
<1>3. CASE irq /\ isr = "none" /\ IsrStop
  <2>1. initDevice /\ UNCHANGED pc
    BY <1>3 DEF IInv, Stopped, IsrStop
  <2>2. call' \in Calls /\ call'.stage = call.stage /\ call'.cmd = call.cmd /\ call'.cut
    BY <1>3 DEF IInv, CallOK, Calls, IsrStop
  <2>3. pc \in Writing => Sounding
    BY <2>1 DEF IInv, CallOK, Sounding, Writing
  <2>4. Sounding' = Sounding
    BY <2>1, <2>2 DEF Sounding, Writing, Filling
  <2>5. ~ (pc \in {"filled"} \cup Filling /\ call.stage = "first")
    BY <2>1 DEF IInv, CallOK
  <2> QED
    BY <2>1, <2>2, <2>3, <2>4, <2>5 DEF Told, Writing, Filling, ReportedIsQueued
<1>4. CASE IsrAcknowledge
  BY <1>4, ToldKept DEF IsrAcknowledge, buffer
<1>5. CASE irq /\ isr = "none" /\ IsrOverrun
  <2>1. irq = TRUE
    BY <1>5 DEF IInv, TypeOK
  <2>2. pc' = "overrun"
    BY <1>5, <2>1, Overran
  <2> QED
    BY <2>2 DEF Told, Writing, Filling, Sounding, ReportedIsQueued
<1> QED
  BY <1>1, <1>2, <1>3, <1>4, <1>5 DEF Isr

\* What the fill takes is asked for, and all of it unless the ring is full.
LEMMA ToldFill ==
  ASSUME IInv, Told, NEW stage \in {"first", "direct", "loop"}, Fill(stage),
         \/ pc = "fill" /\ stage = call.stage
         \/ pc = "down" /\ stage = "loop",
         UNCHANGED <<AvaliableUserBytes, initDevice, decoderValidBytes, buf_size, shrunk>>
  PROVE  Told'
<1>1. CASE pc' = "overrun"
  BY <1>1 DEF Told, Writing, Filling, Sounding, ReportedIsQueued
<1>2. CASE pc' # "overrun"
  <2>1. /\ call \in Calls /\ decoderWritePointer \in Nat /\ decoderValidBytes \in Nat
        /\ AvaliableUserBytes \in Int /\ buf_size \in Nat \ {0}
    BY SizeFacts DEF IInv, CallOK, TypeOK, Memory
  <2>2. ~ shrunk => decoderValidBytes <= buf_size
    BY <2>1 DEF IInv, Placed, Pending
  <2>3. /\ call' \in Calls /\ call'.stage = stage
        /\ call'.cmd = call.cmd /\ call'.count = call.count
        /\ call'.took = call.took /\ call'.cut = call.cut
        /\ \/ pc' = "filled" /\ decoderValidBytes = buf_size
           \/ /\ pc' = "copy1"
              /\ AvaliableUserBytes >= 0 => call'.n1 + call'.n2 <= AvaliableUserBytes
              /\ decoderValidBytes <= buf_size
                   /\ AvaliableUserBytes > call'.n1 + call'.n2 =>
                     decoderValidBytes + call'.n1 + call'.n2 = buf_size
    BY <1>2, <2>1, Filled
  <2>4. pc \in Writing /\ Copied = 0 /\ ToCopy = 0
    BY DEF Writing, Copied, ToCopy
  <2>5. call'.n1 \in Nat /\ call'.n2 \in Nat
    BY <2>3 DEF Calls
  <2>6. /\ pc' \in Writing /\ Copied' = 0
        /\ ToCopy' = IF pc' = "copy1" THEN call'.n1 + call'.n2 ELSE 0
        /\ Pending' = ToCopy'
    BY <2>3 DEF Writing, Filling, Copied, ToCopy, Pending
  <2>7. ~ call.cut => /\ AvaliableUserBytes >= 0
                      /\ call.took + 0 = call.count - AvaliableUserBytes
    BY <2>4 DEF Told
  <2>8. ~ call'.cut => /\ AvaliableUserBytes' >= 0 /\ ToCopy' <= AvaliableUserBytes'
                       /\ call'.took + Copied' = call'.count - AvaliableUserBytes'
    BY <2>1, <2>3, <2>6, <2>7
  <2>9. /\ Sounding' => Sounding
        /\ Sounding => Sounding'
    BY <2>3, <2>4, <2>6 DEF Sounding
  <2>10. ~ shrunk' /\ AvaliableUserBytes' > ToCopy' =>
           decoderValidBytes' + Pending' = buf_size'
    <3>1. CASE decoderValidBytes <= buf_size
      BY <2>1, <2>3, <2>5, <2>6, <3>1
    <3> QED
      BY <2>2, <3>1
  <2>11. pc' \in {"filled", "copy1"} /\ pc' # "idle"
    BY <2>3
  <2> QED
    BY <2>3, <2>4, <2>6, <2>8, <2>9, <2>10, <2>11 DEF Told, ReportedIsQueued
<1> QED
  BY <1>1, <1>2

LEMMA ToldCopy1 ==
  ASSUME IInv, Told, Copy1
  PROVE  Told'
<1>1. /\ call \in Calls /\ call.n1 \in Nat /\ call.n2 \in Nat /\ call.took \in Nat
      /\ call.count \in Nat /\ AvaliableUserBytes \in Int
  BY DEF IInv, CallOK, Calls, TypeOK
<1>2. /\ pc = "copy1" /\ pc' = "add1" /\ AvaliableUserBytes' = AvaliableUserBytes - call.n1
      /\ UNCHANGED <<decoderValidBytes, buf_size, initDevice, call, shrunk>>
  BY DEF Copy1, CopyTo, history
<1>3. /\ pc \in Writing /\ pc' \in Writing /\ Copied = 0 /\ Copied' = call.n1
      /\ ToCopy = call.n1 + call.n2 /\ ToCopy' = call.n2 /\ Pending' = Pending
      /\ Sounding' = Sounding
  BY <1>2 DEF Writing, Filling, Copied, ToCopy, Pending, Sounding
<1>4. ~ call.cut => /\ AvaliableUserBytes' >= 0 /\ ToCopy' <= AvaliableUserBytes'
                    /\ call.took + Copied' = call.count - AvaliableUserBytes'
  <2>1. ~ call.cut => /\ AvaliableUserBytes >= 0
                      /\ call.n1 + call.n2 <= AvaliableUserBytes
                      /\ call.took + 0 = call.count - AvaliableUserBytes
    BY <1>3 DEF Told
  <2> QED
    BY <1>1, <1>2, <1>3, <2>1
<1>5. AvaliableUserBytes' > ToCopy' => AvaliableUserBytes > ToCopy
  BY <1>1, <1>2, <1>3
<1> QED
  BY <1>2, <1>3, <1>4, <1>5 DEF Told, Filling, ReportedIsQueued

LEMMA ToldCopy2 ==
  ASSUME IInv, Told, Copy2
  PROVE  Told'
<1>1. /\ call \in Calls /\ call.n1 \in Nat /\ call.n2 \in Nat /\ call.took \in Nat
      /\ call.count \in Nat /\ AvaliableUserBytes \in Int
  BY DEF IInv, CallOK, Calls, TypeOK
<1>2. /\ pc = "copy2" /\ pc' = "add2" /\ AvaliableUserBytes' = AvaliableUserBytes - call.n2
      /\ UNCHANGED <<decoderValidBytes, buf_size, initDevice, call, shrunk>>
  BY DEF Copy2, CopyTo, history
<1>3. /\ pc \in Writing /\ pc' \in Writing /\ Copied = 0 /\ Copied' = call.n2
      /\ ToCopy = call.n2 /\ ToCopy' = 0 /\ Pending' = Pending
      /\ Sounding' = Sounding
  BY <1>2 DEF Writing, Filling, Copied, ToCopy, Pending, Sounding
<1>4. ~ call.cut => /\ AvaliableUserBytes' >= 0 /\ ToCopy' <= AvaliableUserBytes'
                    /\ call.took + Copied' = call.count - AvaliableUserBytes'
  <2>1. ~ call.cut => /\ AvaliableUserBytes >= 0
                      /\ call.n2 <= AvaliableUserBytes
                      /\ call.took + 0 = call.count - AvaliableUserBytes
    BY <1>3 DEF Told
  <2> QED
    BY <1>1, <1>2, <1>3, <2>1
<1>5. AvaliableUserBytes' > ToCopy' => AvaliableUserBytes > ToCopy
  BY <1>1, <1>2, <1>3
<1> QED
  BY <1>2, <1>3, <1>4, <1>5 DEF Told, Filling, ReportedIsQueued

LEMMA ToldAdd1 ==
  ASSUME IInv, Told, Add1
  PROVE  Told'
<1>1. /\ call \in Calls /\ call.n1 \in Nat /\ call.n2 \in Nat /\ call.took \in Nat
      /\ call.count \in Nat /\ AvaliableUserBytes \in Int /\ decoderValidBytes \in Nat
  BY DEF IInv, CallOK, Calls, TypeOK
<1>2. /\ pc = "add1" /\ decoderValidBytes' = decoderValidBytes + call.n1
      /\ pc' = IF call.n2 # 0 /\ AvaliableUserBytes # 0 THEN "copy2" ELSE "filled"
      /\ UNCHANGED <<buf_size, initDevice, AvaliableUserBytes, shrunk>>
      /\ call' = [call EXCEPT !.took = @ + call.n1]
  BY DEF Add1, Add
<1>3. /\ call'.took = call.took + call.n1 /\ call'.cut = call.cut /\ call'.cmd = call.cmd
      /\ call'.count = call.count /\ call'.stage = call.stage
      /\ call'.n1 = call.n1 /\ call'.n2 = call.n2
  BY <1>1, <1>2 DEF Calls
<1>4. /\ pc \in Writing /\ pc' \in Writing /\ Copied = call.n1 /\ Copied' = 0
      /\ ToCopy = call.n2 /\ ToCopy' = IF pc' = "copy2" THEN call.n2 ELSE 0
      /\ Pending = call.n1 + call.n2 /\ Pending' = ToCopy'
      /\ Sounding' = Sounding /\ pc' \in {"copy2", "filled"}
  BY <1>2, <1>3 DEF Writing, Filling, Copied, ToCopy, Pending, Sounding
<1>5. ~ call.cut => /\ AvaliableUserBytes' >= 0 /\ ToCopy' <= AvaliableUserBytes'
                    /\ call'.took + Copied' = call'.count - AvaliableUserBytes'
  <2>1. ~ call.cut => /\ AvaliableUserBytes >= 0
                      /\ call.n2 <= AvaliableUserBytes
                      /\ call.took + call.n1 = call.count - AvaliableUserBytes
    BY <1>4 DEF Told
  <2> QED
    BY <1>1, <1>2, <1>3, <1>4, <2>1
<1>6. AvaliableUserBytes' > ToCopy' =>
        AvaliableUserBytes > ToCopy /\ decoderValidBytes' + Pending' = decoderValidBytes + Pending
  BY <1>1, <1>2, <1>4
<1>7. pc \in {"filled"} \cup Filling /\ pc' \notin {"idle", "drain", "asleep", "drained", "closed"}
  BY <1>2, <1>4 DEF Filling
<1> QED
  BY <1>2, <1>3, <1>4, <1>5, <1>6, <1>7 DEF Told, ReportedIsQueued

LEMMA ToldAdd2 ==
  ASSUME IInv, Told, Add2
  PROVE  Told'
<1>1. /\ call \in Calls /\ call.n1 \in Nat /\ call.n2 \in Nat /\ call.took \in Nat
      /\ call.count \in Nat /\ AvaliableUserBytes \in Int /\ decoderValidBytes \in Nat
  BY DEF IInv, CallOK, Calls, TypeOK
<1>2. /\ pc = "add2" /\ decoderValidBytes' = decoderValidBytes + call.n2
      /\ pc' = "filled"
      /\ UNCHANGED <<buf_size, initDevice, AvaliableUserBytes, shrunk>>
      /\ call' = [call EXCEPT !.took = @ + call.n2]
  BY DEF Add2, Add
<1>3. /\ call'.took = call.took + call.n2 /\ call'.cut = call.cut /\ call'.cmd = call.cmd
      /\ call'.count = call.count /\ call'.stage = call.stage
  BY <1>1, <1>2 DEF Calls
<1>4. /\ pc \in Writing /\ pc' \in Writing /\ Copied = call.n2 /\ Copied' = 0
      /\ ToCopy = 0 /\ ToCopy' = 0
      /\ Pending = call.n2 /\ Pending' = 0
      /\ Sounding' = Sounding
  BY <1>2, <1>3 DEF Writing, Filling, Copied, ToCopy, Pending, Sounding
<1>5. ~ call.cut => /\ AvaliableUserBytes' >= 0 /\ ToCopy' <= AvaliableUserBytes'
                    /\ call'.took + Copied' = call'.count - AvaliableUserBytes'
  <2>1. ~ call.cut => /\ AvaliableUserBytes >= 0
                      /\ call.took + call.n2 = call.count - AvaliableUserBytes
    BY <1>4 DEF Told
  <2> QED
    BY <1>1, <1>2, <1>3, <1>4, <2>1
<1>6. decoderValidBytes' + Pending' = decoderValidBytes + Pending
  BY <1>1, <1>2, <1>4
<1>7. pc \in {"filled"} \cup Filling
  BY <1>2 DEF Filling
<1> QED
  BY <1>2, <1>3, <1>4, <1>5, <1>6, <1>7 DEF Told, ReportedIsQueued

LEMMA ToldFaults ==
  ASSUME IInv, Told, CopyFaults
  PROVE  Told'
<1>1. /\ call \in Calls /\ pc \in {"copy1", "copy2"}
      /\ UNCHANGED <<AvaliableUserBytes, initDevice, shrunk>>
  BY DEF CopyFaults, IInv, CallOK, buffer
<1>2. CASE call.stage = "loop"
  <2>1. pc' = "fault" /\ UNCHANGED call
    BY <1>2 DEF CopyFaults
  <2>2. /\ pc \in Writing /\ pc' \in Writing /\ Sounding /\ Sounding'
        /\ Copied = 0 /\ Copied' = 0 /\ ToCopy' = 0
    BY <1>1, <1>2, <2>1 DEF Writing, Filling, Sounding, Copied, ToCopy
  <2> QED
    BY <1>1, <1>2, <2>1, <2>2 DEF Told, Filling, ReportedIsQueued
<1>3. CASE call.stage # "loop"
  <2>1. Return(Failed) /\ Failed \in Int
    BY <1>3 DEF CopyFaults, Failed
  <2> QED
    BY <1>1, <2>1, ToldReturned
<1> QED
  BY <1>2, <1>3

\* What WaitForSpace reports is all that was asked for.
LEMMA ToldSpace ==
  ASSUME IInv, Told, pc = "filled", WaitForSpace(AvaliableUserBytes),
         UNCHANGED AvaliableUserBytes,
         ~ call.cut /\ ~ shrunk' /\ AvaliableUserBytes # 0 => initDevice'
  PROVE  Told'
<1>1. call \in Calls /\ call.count \in Int /\ call.took \in Int /\ AvaliableUserBytes \in Int
  BY DEF IInv, CallOK, Calls, TypeOK
<1>2. CASE AvaliableUserBytes # 0
  <2>1. pc' = "down" /\ UNCHANGED call
    BY <1>2 DEF WaitForSpace
  <2> QED
    BY <1>2, <2>1, ToldWaits
<1>3. CASE AvaliableUserBytes = 0
  <2>1. Return(call.count)
    BY <1>3 DEF WaitForSpace
  <2>2. ~ call.cut => call.took = call.count - 0
    BY <1>1, <1>3, ToldFilled
  <2>3. ~ call.cut => call.count = call.took
    BY <1>1, <2>2
  <2> QED
    BY <1>1, <2>1, <2>3, ToldReturned
<1> QED
  BY <1>2, <1>3

\* A first fill that leaves something to write has filled the ring, so that
\* initDacWrite starts the channel.
LEMMA FirstFillStarts ==
  ASSUME IInv, Told, FilledFirst, AvaliableUserBytes # 0, ~ shrunk
  PROVE  initDevice'
<1>1. /\ pc = "filled" /\ call.stage = "first" /\ AvaliableUserBytes \in Int
      /\ call \in Calls /\ decoderValidBytes \in Nat
  BY DEF FilledFirst, IInv, TypeOK, CallOK
<1>2. pc \in Writing /\ ~ Sounding /\ ToCopy = 0 /\ Pending = 0
  BY <1>1 DEF Writing, Sounding, ToCopy, Pending
<1>3. ~ call.cut
  BY <1>2 DEF Told
<1>4. AvaliableUserBytes >= 0
  BY <1>1, <1>3, ToldFilled
<1>5. AvaliableUserBytes > ToCopy
  BY <1>1, <1>2, <1>4
<1>6. decoderValidBytes + 0 = buf_size
  BY <1>1, <1>2, <1>5 DEF Told
<1>7. decoderValidBytes = buf_size
  BY <1>1, <1>6
<1> QED
  BY <1>7 DEF FilledFirst, StartChannel

LEMMA ToldCaller ==
  ASSUME IInv, Told, Caller
  PROVE  Told'
<1>0. call \in Calls /\ 0 \in Int /\ Failed \in Int /\ Failed = -1
  BY DEF IInv, CallOK, Failed
<1>1. CASE FillFirst
  <2>1. /\ pc = "fill" /\ Fill(call.stage) /\ call.stage \in {"first", "direct", "loop"}
        /\ UNCHANGED <<AvaliableUserBytes, initDevice, decoderValidBytes, buf_size, shrunk>>
    BY <1>0, <1>1 DEF FillFirst, Calls, history
  <2> QED
    BY <2>1, ToldFill
<1>2. CASE FillNext
  <2>1. /\ pc = "down" /\ (Fill("loop") \/ Return(WouldBlock))
        /\ UNCHANGED <<AvaliableUserBytes, initDevice, decoderValidBytes, buf_size, shrunk>>
    BY <1>2 DEF FillNext, history
  <2>2. CASE Fill("loop")
    BY <2>1, <2>2, ToldFill
  <2>3. CASE Return(WouldBlock)
    BY <1>0, <2>3, ToldReturned DEF WouldBlock
  <2> QED
    BY <2>1, <2>2, <2>3
<1>3. CASE FilledFirst
  <2>1. ~ shrunk' /\ AvaliableUserBytes # 0 => initDevice'
    BY <1>3, FirstFillStarts DEF FilledFirst, history
  <2> QED
    BY <1>3, <2>1, ToldSpace DEF FilledFirst
<1>4. CASE FilledDirect \/ FilledLoop
  <2>1. /\ pc = "filled" /\ call.stage # "first" /\ WaitForSpace(AvaliableUserBytes)
        /\ UNCHANGED <<AvaliableUserBytes, initDevice, shrunk>>
    BY <1>4 DEF FilledDirect, FilledLoop, buffer, history
  <2>2. Sounding
    BY <2>1 DEF Sounding, Writing
  <2>3. ~ call.cut /\ ~ shrunk' => initDevice'
    BY <2>1, <2>2 DEF Told
  <2> QED
    BY <2>1, <2>3, ToldSpace
<1>5. CASE FaultLoop
  <2>1. pc = "fault" /\ Return(call.count - AvaliableUserBytes)
    BY <1>5 DEF FaultLoop
  <2>2. /\ AvaliableUserBytes \in Int /\ call.count - AvaliableUserBytes \in Int
    BY <1>0 DEF IInv, TypeOK, Calls
  <2>3. ~ call.cut => call.took = call.count - AvaliableUserBytes
    BY <1>0, <2>1, <2>2, ToldFilled
  <2> QED
    BY <1>0, <2>1, <2>2, <2>3, ToldReturned
<1>6. CASE StoppedMeanwhile
  <2>1. /\ pc \in {"filled", "fault"} /\ call.stage = "loop" /\ ~ initDevice /\ Return(0)
        /\ shrunk' = shrunk
    BY <1>6 DEF StoppedMeanwhile
  <2>2. Sounding
    BY <2>1 DEF Sounding, Writing
  <2>3. ~ shrunk => call.cut
    BY <2>1, <2>2 DEF Told
  <2> QED
    BY <1>0, <2>1, <2>3, ToldReturned
<1>7. CASE Drain \/ Woken \/ Drained
  <2>1. call.cmd # "write"
    BY <1>7 DEF Drain, Woken, Drained, Told
  <2>2. CASE Return(0)
    BY <1>0, <2>1, <2>2, ToldReturned
  <2>3. CASE pc' \in {"drain", "asleep", "drained"} /\ UNCHANGED call
    BY <2>1, <2>3 DEF Told, Writing, Filling, Sounding, ReportedIsQueued
  <2> QED
    BY <1>7, <2>2, <2>3 DEF Drain, Woken, Drained
<1> QED
  BY <1>1, <1>2, <1>3, <1>4, <1>5, <1>6, <1>7, ToldCopy1, ToldCopy2, ToldAdd1, ToldAdd2
     DEF Caller

LEMMA ToldWrite ==
  ASSUME IInv, Told, NEW w \in Writes, Write(w)
  PROVE  Told'
<1>1. /\ w.count \in Nat /\ w.nonblock \in BOOLEAN
      /\ pc' \in {"down", "fill"} /\ (pc' = "down" => initDevice)
      /\ UNCHANGED initDevice /\ AvaliableUserBytes' = w.count
  BY BoundAssumption DEF Write
<1>2. /\ call'.stage = (IF initDevice THEN "direct" ELSE "first")
      /\ call'.took = 0 /\ call'.count = w.count /\ ~ call'.cut
  <2> DEFINE s == IF initDevice THEN "direct" ELSE "first"
  <2>1. call' = [NoCall EXCEPT !.cmd = "write", !.count = w.count,
                               !.nonblock = w.nonblock, !.stage = s]
    BY DEF Write
  <2> HIDE DEF s
  <2>2. call'.stage = s /\ call'.took = 0 /\ call'.count = w.count /\ ~ call'.cut
    BY <2>1 DEF NoCall
  <2> QED
    BY <2>2 DEF s
<1>3. Copied' = 0 /\ ToCopy' = 0
  BY <1>1 DEF Copied, ToCopy
<1>4. pc' \notin {"filled"} \cup Filling
  BY <1>1 DEF Filling
<1>5. 0 + 0 = w.count - w.count /\ w.count >= 0 /\ 0 <= w.count
  BY <1>1
<1>6. Sounding' => initDevice'
  BY <1>1, <1>2 DEF Sounding
<1> QED
  BY <1>1, <1>2, <1>3, <1>4, <1>5, <1>6 DEF Told, ReportedIsQueued

LEMMA ToldRequest ==
  ASSUME IInv, Told, Request
  PROVE  Told'
<1>1. CASE \E w \in Writes : Write(w)
  BY <1>1, ToldWrite
<1>2. CASE Sync
  BY <1>2, ToldBegun DEF Sync
<1>3. CASE Reset
  <2>1. Begin("reset") /\ pc' \in {"drain", "idle"}
    BY <1>3 DEF Reset, Begin
  <2> QED
    BY <2>1, ToldBegun
<1>4. CASE Close
  BY <1>4, ToldBegun DEF Close
<1>5. CASE Open
  BY <1>5 DEF Open, Told, Writing, Filling, Sounding, ReportedIsQueued
<1>6. CASE \E s \in Sizes : SetFragment(s)
  <2>1. Begin("set_fragment") /\ pc' = "idle"
    BY <1>6 DEF SetFragment, Begin
  <2> QED
    BY <2>1, ToldBegun
<1> QED
  BY <1>1, <1>2, <1>3, <1>4, <1>5, <1>6 DEF Request

LEMMA StepTold == IInv /\ Told /\ [Next]_vars => Told'
<1> SUFFICES ASSUME IInv, Told, [Next]_vars
             PROVE  Told'
  OBVIOUS
<1>1. CASE Play
  BY <1>1, ToldKept DEF Play, buffer
<1>2. CASE Signal
  <2>1. Return(Failed) /\ Failed \in Int /\ call \in Calls
    BY <1>2 DEF Signal, Failed, IInv, CallOK
  <2> QED
    BY <2>1, ToldReturned
<1>3. CASE UNCHANGED vars
  BY <1>3, ToldKept DEF vars, buffer, history
<1> QED
  BY <1>1, <1>2, <1>3, ToldIsr, ToldCaller, ToldRequest, ToldFaults DEF Next

\* What a write has counted is what it took from the caller's bytes, until the
\* handler stops the sound under it.
THEOREM ToldAlways == Spec => []Told
<1>1. Init => Told
  BY DEF Init, Told, Writing, Filling, Sounding, ReportedIsQueued, NoCall
<1> QED
  BY <1>1, StepTold, Inductive, PTL DEF Spec

\* What stmp_audio_write returns is what addDecoderValidBytes has counted.
THEOREM ReportedIsCounted == Spec => []ReportedIsQueued
<1>1. Told => ReportedIsQueued
  BY DEF Told
<1> QED
  BY <1>1, ToldAlways, PTL

----------------------------------------------------------------------------
(* Paced: the channel and the handler's count                              *)

LEMMA QueueType ==
  ASSUME TypeOK
  PROVE  /\ Len(queue) \in Nat
         /\ queue # << >> => /\ Len(queue) >= 1 /\ Len(Tail(queue)) = Len(queue) - 1
         /\ Len(queue) = 0 => queue = << >>
BY LenProperties, EmptySeq, HeadTailProperties DEF TypeOK

LEMMA BehindType ==
  ASSUME TypeOK
  PROVE  /\ Behind \in Int
         /\ lastDMAPosition <= buf_size => Behind \in Nat
<1>1. bar \in Nat /\ lastDMAPosition \in Nat /\ buf_size \in Nat
  BY SizeFacts DEF TypeOK
<1> QED
  BY <1>1 DEF Behind

\* Neither the channel nor the handler moves; n units are added.
LEMMA PacedKept ==
  ASSUME TypeOK, Paced, NEW n \in Nat,
         UNCHANGED <<sema, bar, next, chain, lastDMAPosition, buf_size, initDevice>>,
         intact' => intact /\ Len(queue') = Len(queue) + n,
         decoderValidBytes' = decoderValidBytes + n
  PROVE  Paced'
<1>1. Behind' = Behind /\ Follows' = Follows
  BY DEF Behind, Follows, BlockEnd
<1>2. Len(queue) \in Nat /\ Behind \in Int /\ decoderValidBytes \in Nat
  BY QueueType, BehindType DEF TypeOK
<1>3. intact' /\ ~ initDevice => Len(queue') <= decoderValidBytes'
  <2>1. intact' /\ ~ initDevice => Len(queue) <= decoderValidBytes
    BY DEF Paced
  <2> QED
    BY <1>2, <2>1
<1>4. intact' /\ initDevice => Len(queue') + Behind <= decoderValidBytes'
  <2>1. intact' /\ initDevice => Len(queue) + Behind <= decoderValidBytes
    BY DEF Paced
  <2> QED
    BY <1>2, <2>1
<1> QED
  BY <1>1, <1>3, <1>4 DEF Paced

\* The sound is stopped and nothing is queued.
LEMMA PacedEmptied ==
  ASSUME ~ initDevice', decoderValidBytes' \in Nat,
         intact' => chain' = buf_size' /\ Len(queue') = 0
  PROVE  Paced'
BY DEF Paced

\* The end of the block in which the channel plays.
LEMMA InBlock ==
  ASSUME NEW b \in Nat
  PROVE  IF (b + 1) % Block = 0 THEN b - (b % Block) + Block = b + 1
         ELSE (b + 1) - ((b + 1) % Block) + Block = b - (b % Block) + Block
<1>1. Block \in Nat \ {0}
  BY SizeFacts
<1>2. b % Block \in 0 .. Block - 1
  BY <1>1, Quotient
<1>3. (b + 1) % Block = IF b % Block = Block - 1 THEN 0 ELSE (b % Block) + 1
  BY <1>1, NextRemainder
<1> QED
  BY <1>1, <1>2, <1>3

\* One unit further, the channel is at most one unit further behind.
LEMMA OneFurther ==
  ASSUME NEW b \in Nat, NEW c \in Nat, NEW l \in Nat, NEW d \in Nat,
         b < c, l <= c, d = b + 1 \/ (d = 0 /\ b + 1 = c)
  PROVE  (IF d >= l THEN d - l ELSE c - l + d)
           <= (IF b >= l THEN b - l ELSE c - l + b) + 1
OBVIOUS

LEMMA PacedPlay ==
  ASSUME IInv, Paced, Play
  PROVE  Paced'
<1>1. /\ initDevice /\ pc # "overrun"
      /\ UNCHANGED <<chain, lastDMAPosition, buf_size, decoderValidBytes, initDevice>>
  BY PlayedOn DEF Play, buffer
<1>2. CASE ~ intact'
  BY <1>1, <1>2 DEF Paced
<1>3. CASE intact'
  <2>1. intact /\ queue # << >> /\ queue' = Tail(queue)
    BY <1>3 DEF Play
  <2>2. /\ chain = buf_size /\ next = Follows
        /\ Len(queue) + Behind <= decoderValidBytes
    BY <1>1, <2>1 DEF Paced
  <2>3. /\ sema \in Nat /\ sema > 0 /\ bar \in Nat /\ next \in Nat
        /\ chain \in Sizes /\ chain \in Nat /\ lastDMAPosition \in Nat
        /\ bar < chain /\ next < chain /\ next % Block = 0
        /\ lastDMAPosition <= chain /\ Block \in Nat \ {0}
    BY <1>1, <2>1, SizeFacts, Known DEF IInv, TypeOK, Play, Memory
  <2>4. Follows = IF bar - (bar % Block) + Block = chain THEN 0
                  ELSE bar - (bar % Block) + Block
    BY <2>3 DEF Follows, BlockEnd
  <2>5. next' = Follows' /\ bar' \in Nat /\ (bar' = bar + 1 \/ (bar' = 0 /\ bar + 1 = chain))
    <3>1. CASE (bar + 1) % Block = 0 /\ sema > 1
      <4>1. bar' = next /\ sema' = sema - 1 /\ next' = (next + Block) % chain
        BY <3>1 DEF Play
      <4>2. next' = IF next + Block = chain THEN 0 ELSE next + Block
        BY <2>3, <4>1, NextDescriptor
      <4>3. bar - (bar % Block) + Block = bar + 1
        BY <2>3, <3>1, InBlock
      <4>4. next = IF bar + 1 = chain THEN 0 ELSE bar + 1
        BY <2>2, <2>4, <4>3
      <4>5. BlockEnd' = next + Block
        BY <2>3, <3>1, <4>1 DEF BlockEnd
      <4> QED
        BY <1>1, <2>3, <4>1, <4>2, <4>4, <4>5 DEF Follows
    <3>2. CASE (bar + 1) % Block = 0 /\ ~ sema > 1
      <4>1. bar' = bar + 1 /\ sema' = 0 /\ next' = next
        BY <2>3, <3>2 DEF Play
      <4>2. bar - (bar % Block) + Block = bar + 1
        BY <2>3, <3>2, InBlock
      <4>3. BlockEnd' = bar + 1
        BY <4>1 DEF BlockEnd
      <4> QED
        BY <1>1, <2>2, <2>3, <2>4, <4>1, <4>2, <4>3 DEF Follows
    <3>3. CASE (bar + 1) % Block # 0
      <4>1. bar' = bar + 1 /\ sema' = sema /\ next' = next
        BY <2>3, <3>3 DEF Play
      <4>2. (bar + 1) - ((bar + 1) % Block) + Block = bar - (bar % Block) + Block
        BY <2>3, <3>3, InBlock
      <4>3. BlockEnd' = bar - (bar % Block) + Block
        BY <2>3, <4>1, <4>2 DEF BlockEnd
      <4> QED
        BY <1>1, <2>2, <2>3, <2>4, <4>1, <4>3 DEF Follows
    <3> QED
      BY <3>1, <3>2, <3>3
  <2>6. Behind' <= Behind + 1
    <3>1. (IF bar' >= lastDMAPosition THEN bar' - lastDMAPosition
           ELSE chain - lastDMAPosition + bar')
             <= (IF bar >= lastDMAPosition THEN bar - lastDMAPosition
                 ELSE chain - lastDMAPosition + bar) + 1
      BY <2>3, <2>5, OneFurther
    <3> QED
      BY <1>1, <2>2, <3>1 DEF Behind
  <2>7. /\ Len(queue) \in Nat /\ Len(queue') = Len(queue) - 1
        /\ Behind \in Int /\ Behind' \in Int /\ decoderValidBytes \in Nat
    <3>1. TypeOK /\ TypeOK'
      BY PlayKeeps DEF IInv
    <3>2. Len(queue) \in Nat /\ Len(queue') = Len(queue) - 1
      BY <2>1, <3>1, QueueType
    <3>3. Behind \in Int /\ Behind' \in Int
      BY <1>1, <2>2, <2>3, <2>5 DEF Behind
    <3> QED
      BY <3>1, <3>2, <3>3 DEF TypeOK
  <2>8. Len(queue') + Behind' <= decoderValidBytes'
    BY <1>1, <2>2, <2>6, <2>7
  <2> QED
    BY <1>1, <2>2, <2>5, <2>8 DEF Paced
<1> QED
  BY <1>2, <1>3

\* Where an increment takes the channel: the block that follows.
LEMMA FollowedOn ==
  ASSUME NEW n \in Nat \ {0}, Increment(n), sema \in Nat, bar \in Nat, chain \in Sizes,
         next \in Nat, next < chain, next % Block = 0, next = Follows, UNCHANGED chain
  PROVE  /\ next' = Follows' /\ bar' \in Nat
         /\ bar' = bar \/ (bar' = 0 /\ bar = chain)
<1>1. /\ sema' = sema + n
      /\ sema = 0 => bar' = next /\ next' = IF next + Block = chain THEN 0
                                            ELSE next + Block
      /\ sema # 0 => bar' = bar /\ next' = next
  BY Incremented
<1>2. chain \in Nat /\ Block \in Nat \ {0}
  BY SizeFacts
<1>3. CASE sema = 0
  <2>1. next = IF bar = chain THEN 0 ELSE bar
    BY <1>3 DEF Follows, BlockEnd
  <2>2. bar' = next /\ next' = (IF next + Block = chain THEN 0 ELSE next + Block)
        /\ sema' # 0
    BY <1>1, <1>3
  <2>3. BlockEnd' = next + Block
    BY <1>2, <2>2 DEF BlockEnd
  <2> QED
    BY <1>2, <2>1, <2>2, <2>3 DEF Follows
<1>4. CASE sema # 0
  <2>1. bar' = bar /\ next' = next /\ sema' # 0
    BY <1>1, <1>4
  <2>2. BlockEnd' = BlockEnd
    BY <1>4, <2>1 DEF BlockEnd
  <2> QED
    BY <2>1, <2>2 DEF Follows
<1> QED
  BY <1>3, <1>4

\* What was played since it was last counted is counted now: b and d are
\* where the channel was and is, cur is what the handler read.
LEMMA CaughtUp ==
  ASSUME NEW b \in Nat, NEW c \in Nat, NEW l \in Nat, NEW d \in Nat, NEW cur \in Nat,
         cur = b \/ cur = d, 0 < c, b <= c, l <= c, d = b \/ (d = 0 /\ b = c)
  PROVE  /\ cur = l /\ cur # 0 =>
              (IF d >= l THEN d - l ELSE c - l + d)
                <= (IF b >= l THEN b - l ELSE c - l + b)
         /\ (IF cur >= l THEN cur - l ELSE c - l + cur)
              <= (IF b >= l THEN b - l ELSE c - l + b)
         /\ (IF d >= cur THEN d - cur ELSE c - cur + d) = 0
OBVIOUS

LEMMA PacedMore ==
  ASSUME IInv, IInv', Paced, irq = TRUE, pc # "overrun", IsrMore
  PROVE  Paced'
<1>1. /\ initDevice
      /\ UNCHANGED <<chain, buf_size, initDevice, queue, intact, pc, call>>
  BY DEF IInv, Stopped, IsrMore, history
<1>2. CASE ~ intact
  BY <1>1, <1>2 DEF Paced
<1>3. CASE intact
  <2>1. /\ chain = buf_size /\ next = Follows
        /\ Len(queue) + Behind <= decoderValidBytes
    BY <1>1, <1>3 DEF Paced
  <2>2. /\ sema \in Nat /\ bar \in Nat /\ next \in Nat
        /\ chain \in Sizes /\ chain \in Nat /\ lastDMAPosition \in Nat
        /\ bar <= chain /\ next < chain /\ next % Block = 0 /\ 0 < chain
        /\ lastDMAPosition <= chain /\ Block \in Nat \ {0}
    <3>1. /\ bar <= chain /\ next < chain /\ next % Block = 0
          /\ lastDMAPosition <= chain
      BY <1>1, <1>3, Known
    <3> QED
      BY <3>1, SizeFacts DEF IInv, TypeOK, Memory
  <2>3. /\ next' = Follows' /\ bar' \in Nat
        /\ bar' = bar \/ (bar' = 0 /\ bar = chain)
    <3>1. Increment(1) /\ 1 \in Nat \ {0}
      BY DEF IsrMore
    <3> QED
      BY <1>1, <2>1, <2>2, <3>1, FollowedOn
  <2>4. PICK cur \in {bar, bar'} : updateDacBytes(cur)
    BY DEF IsrMore
  <2> DEFINE gap(p, l) == IF p >= l THEN p - l ELSE chain - l + p
  <2>5. /\ cur \in Nat
        /\ cur = lastDMAPosition /\ cur # 0 =>
             gap(bar', lastDMAPosition) <= gap(bar, lastDMAPosition)
        /\ gap(cur, lastDMAPosition) <= gap(bar, lastDMAPosition)
        /\ gap(bar', cur) = 0
    <3>1. cur \in Nat /\ (cur = bar \/ cur = bar')
      BY <2>2, <2>3, <2>4
    <3> DEFINE d == bar'
               l == lastDMAPosition
               b == bar
               c == chain
    <3>2. b \in Nat /\ c \in Nat /\ l \in Nat /\ d \in Nat /\ (cur = b \/ cur = d)
          /\ 0 < c /\ b <= c /\ l <= c /\ (d = b \/ (d = 0 /\ b = c))
      BY <2>2, <2>3, <3>1
    <3> HIDE DEF b, c, d, l
    <3>3. /\ cur = l /\ cur # 0 =>
               (IF d >= l THEN d - l ELSE c - l + d)
                 <= (IF b >= l THEN b - l ELSE c - l + b)
          /\ (IF cur >= l THEN cur - l ELSE c - l + cur)
               <= (IF b >= l THEN b - l ELSE c - l + b)
          /\ (IF d >= cur THEN d - cur ELSE c - cur + d) = 0
      BY <3>1, <3>2, CaughtUp
    <3> QED
      BY <3>1, <3>3 DEF b, c, d, l
  <2>6. /\ Len(queue) \in Nat /\ decoderValidBytes \in Nat /\ Len(queue') = Len(queue)
        /\ decoderValidBytes' \in Nat
    <3>1. TypeOK /\ TypeOK'
      BY DEF IInv
    <3> QED
      BY <1>1, <3>1, QueueType DEF TypeOK
  <2>7. /\ Behind = gap(bar, lastDMAPosition) /\ Behind' = gap(bar', lastDMAPosition')
        /\ Consumed(cur) = gap(cur, lastDMAPosition)
    BY <1>1, <2>1 DEF Behind, Consumed
  <2>8. /\ Behind \in Int /\ Consumed(cur) \in Int
        /\ gap(bar', lastDMAPosition) \in Int
    BY <2>2, <2>3, <2>5, <2>7
  <2> HIDE DEF gap
  <2>9. Len(queue') + Behind' <= decoderValidBytes'
    <3>1. CASE cur = lastDMAPosition /\ cur # 0
      <4>1. lastDMAPosition' = lastDMAPosition /\ decoderValidBytes' = decoderValidBytes
        BY <2>4, <3>1 DEF updateDacBytes, subDecoderValidBytes
      <4>2. Behind' = gap(bar', lastDMAPosition) /\ gap(bar', lastDMAPosition) <= Behind
        BY <2>5, <2>7, <3>1, <4>1
      <4> QED
        BY <2>1, <2>6, <2>8, <4>1, <4>2
    <3>2. CASE ~ (cur = lastDMAPosition /\ cur # 0)
      <4>1. /\ lastDMAPosition' = cur
            /\ decoderValidBytes' = IF Consumed(cur) > decoderValidBytes THEN 0
                                    ELSE decoderValidBytes - Consumed(cur)
        BY <2>4, <3>2 DEF updateDacBytes, subDecoderValidBytes
      <4>2. Behind' = 0 /\ Consumed(cur) <= Behind
        BY <2>5, <2>7, <4>1
      <4> QED
        BY <2>1, <2>6, <2>8, <4>1, <4>2
    <3> QED
      BY <3>1, <3>2
  <2> QED
    BY <1>1, <2>1, <2>3, <2>9 DEF Paced
<1> QED
  BY <1>2, <1>3

LEMMA PacedIsr ==
  ASSUME IInv, IInv', Paced, Isr
  PROVE  Paced'
<1>0. TypeOK /\ TypeOK' /\ pc # "overrun" /\ (irq => irq = TRUE) /\ 0 \in Nat
  BY DEF IInv, TypeOK, Isr
<1>1. CASE irq /\ isr = "none" /\ IsrMore
  BY <1>0, <1>1, PacedMore
<1>2. CASE (irq /\ isr = "none" /\ IsrRemain) \/ IsrAcknowledge
  <2>1. /\ UNCHANGED <<sema, bar, next, chain, buffer, pc, call, queue, intact>>
    BY <1>2 DEF IsrRemain, IsrAcknowledge, history
  <2>3. decoderValidBytes' = decoderValidBytes + 0 /\ Len(queue') = Len(queue) + 0
    BY <1>0, <2>1, QueueType DEF TypeOK, buffer
  <2> QED
    BY <1>0, <2>1, <2>3, PacedKept DEF buffer
<1>3. CASE irq /\ isr = "none" /\ IsrStop
  <2>1. /\ ~ initDevice' /\ chain' = buf_size' /\ decoderValidBytes' = 0 /\ queue' = << >>
    BY <1>3 DEF IsrStop, setDMADesc, audio_reset_buf
  <2> QED
    BY <2>1, PacedEmptied
<1>4. CASE irq /\ isr = "none" /\ IsrOverrun
  <2>1. ~ intact'
    BY <1>0, <1>4, Overran DEF history
  <2> QED
    BY <2>1 DEF Paced
<1> QED
  BY <1>1, <1>2, <1>3, <1>4 DEF Isr

\* The start of the channel.
LEMMA PacedStart ==
  ASSUME IInv, Paced, ~ initDevice, StartChannel,
         UNCHANGED <<decoderValidBytes, lastDMAPosition, buf_size, queue, intact>>
  PROVE  Paced'
<1>1. /\ initDevice' = TRUE /\ sema' = 2 /\ bar' = 0 /\ chain' = chain
      /\ sema = 0 /\ next = 0 /\ lastDMAPosition = 0
  BY Started DEF IInv, Stopped
<1>2. next' = IF 0 + Block = chain THEN 0 ELSE 0 + Block
  <2>1. /\ sema \in Nat /\ chain \in Sizes /\ next \in Nat
        /\ next < chain /\ next % Block = 0
    BY <1>1, SizeFacts DEF IInv, TypeOK, Channel
  <2>2. Increment(2) /\ 2 \in Nat \ {0}
    BY DEF StartChannel
  <2>3. next' = IF next + Block = chain THEN 0 ELSE next + Block
    BY <1>1, <2>1, <2>2, Incremented
  <2> QED
    BY <1>1, <2>3
<1>3. BlockEnd' = 0 + Block
  <2>1. Block \in Nat \ {0}
    BY SizeFacts
  <2> QED
    BY <1>1, <2>1 DEF BlockEnd
<1>4. next' = Follows'
  BY <1>1, <1>2, <1>3 DEF Follows
<1>5. Behind' = 0
  BY <1>1 DEF Behind
<1>6. intact' => Len(queue') + Behind' <= decoderValidBytes'
  <2>1. intact' => Len(queue) <= decoderValidBytes
    BY DEF Paced
  <2>2. Len(queue) \in Nat /\ decoderValidBytes \in Nat
    BY QueueType DEF IInv, TypeOK
  <2> QED
    BY <1>5, <2>1, <2>2
<1>7. intact' => chain' = buf_size'
  BY <1>1 DEF Paced
<1> QED
  BY <1>1, <1>4, <1>6, <1>7 DEF Paced

LEMMA PacedFill ==
  ASSUME IInv, Paced,
         FillFirst \/ FillNext \/ Copy1 \/ Copy2 \/ FilledDirect \/ FilledLoop
  PROVE  Paced'
<1>1. /\ UNCHANGED <<channel, lastDMAPosition, buf_size, initDevice, decoderValidBytes,
                     queue, intact>>
  BY DEF FillFirst, FillNext, Copy1, Copy2, CopyTo, FilledDirect, FilledLoop, buffer,
         history
<1>2. decoderValidBytes' = decoderValidBytes + 0 /\ Len(queue') = Len(queue) + 0
      /\ TypeOK /\ 0 \in Nat
  BY <1>1, QueueType DEF IInv, TypeOK
<1> QED
  BY <1>1, <1>2, PacedKept DEF channel

LEMMA PacedAdd ==
  ASSUME IInv, Paced, Add1 \/ Add2
  PROVE  Paced'
<1>1. PICK n \in Nat : Add(n)
  BY DEF Add1, Add2, IInv, CallOK, Calls
<1>2. TypeOK /\ call \in Calls
  BY DEF IInv, CallOK
<1>3. intact => Len(queue') = Len(queue) + n
  BY <1>1, <1>2, AddedType
<1>4. /\ UNCHANGED <<channel, lastDMAPosition, buf_size, initDevice, intact>>
      /\ decoderValidBytes' = decoderValidBytes + n
  BY <1>1 DEF Add
<1> QED
  BY <1>1, <1>2, <1>3, <1>4, PacedKept DEF channel

LEMMA PacedCaller ==
  ASSUME IInv, IInv', Paced, Caller
  PROVE  Paced'
<1>0. TypeOK /\ 0 \in Nat /\ Len(queue) + 0 = Len(queue)
      /\ decoderValidBytes + 0 = decoderValidBytes
  BY QueueType DEF IInv, TypeOK
<1>1. CASE FilledFirst
  <2>1. /\ ~ initDevice
        /\ UNCHANGED <<decoderValidBytes, lastDMAPosition, buf_size, queue, intact>>
    BY <1>1 DEF FilledFirst, IInv, CallOK, history
  <2>2. CASE StartChannel
    BY <2>1, <2>2, PacedStart
  <2>3. CASE UNCHANGED <<channel, initDevice>>
    BY <1>0, <2>1, <2>3, PacedKept DEF channel
  <2> QED
    BY <1>1, <2>2, <2>3 DEF FilledFirst
<1>2. CASE StoppedMeanwhile
  <2>1. /\ ~ initDevice /\ UNCHANGED <<chain, buf_size, initDevice>>
        /\ queue' = << >> /\ decoderValidBytes' = 0
    BY <1>2 DEF StoppedMeanwhile, audio_reset_buf, channel
  <2>2. intact' => buf_size = chain
    BY <1>2 DEF StoppedMeanwhile
  <2> QED
    BY <1>0, <2>1, <2>2, PacedEmptied
<1>3. CASE FaultLoop \/ Drain \/ Woken \/ Drained
  <2>1. UNCHANGED <<channel, buffer, queue, intact>>
    BY <1>3 DEF FaultLoop, Drain, Woken, Drained, history
  <2> QED
    BY <1>0, <2>1, PacedKept DEF channel, buffer
<1> QED
  BY <1>1, <1>2, <1>3, PacedFill, PacedAdd DEF Caller

LEMMA PacedRequest ==
  ASSUME IInv, IInv', Paced, Request
  PROVE  Paced'
<1>0. TypeOK /\ 0 \in Nat /\ Len(queue) + 0 = Len(queue)
      /\ decoderValidBytes + 0 = decoderValidBytes /\ Len(<< >>) = 0
  BY QueueType DEF IInv, TypeOK
<1>1. CASE \E w \in Writes : Write(w)
  <2>1. /\ UNCHANGED <<channel, decoderValidBytes, lastDMAPosition, initDevice, buf_size,
                       queue, intact>>
    BY <1>1 DEF Write, history
  <2> QED
    BY <1>0, <2>1, PacedKept DEF channel
<1>2. CASE Sync
  <2>1. UNCHANGED <<decoderValidBytes, lastDMAPosition, buf_size, queue, intact>>
    BY <1>2 DEF Sync, history
  <2>2. CASE StartChannel /\ ~ initDevice
    BY <2>1, <2>2, PacedStart
  <2>3. CASE UNCHANGED <<channel, initDevice>>
    BY <1>0, <2>1, <2>3, PacedKept DEF channel
  <2> QED
    BY <1>2, <2>2, <2>3 DEF Sync
<1>3. CASE Reset
  <2>1. UNCHANGED <<channel, initDevice, buf_size>>
    BY <1>3 DEF Reset
  <2>2. CASE initDevice
    <3>1. UNCHANGED <<lastDMAPosition, decoderValidBytes, queue, intact>>
      BY <1>3, <2>2 DEF Reset
    <3> QED
      BY <1>0, <2>1, <3>1, PacedKept DEF channel
  <2>3. CASE ~ initDevice
    <3>1. /\ queue' = << >> /\ decoderValidBytes' = 0
          /\ intact' => buf_size = chain
      BY <1>3, <2>3 DEF Reset, audio_reset_buf
    <3> QED
      BY <1>0, <2>1, <2>3, <3>1, PacedEmptied DEF channel
  <2> QED
    BY <2>2, <2>3
<1>4. CASE Close
  <2>1. /\ queue' = [i \in DOMAIN queue |-> 0]
        /\ UNCHANGED <<channel, decoderValidBytes, lastDMAPosition, initDevice, buf_size,
                       intact>>
    BY <1>4 DEF Close
  <2>2. Len(queue') = Len(queue)
    BY <1>0, <2>1, SilencedType DEF TypeOK
  <2> QED
    BY <1>0, <2>1, <2>2, PacedKept DEF channel
<1>5. CASE Open
  <2>1. /\ buf_size' = DefaultSize
        /\ UNCHANGED <<channel, decoderValidBytes, lastDMAPosition, initDevice>>
        /\ intact' => intact /\ chain = DefaultSize /\ queue' = queue
    BY <1>5 DEF Open
  <2>2. CASE intact'
    <3>1. buf_size' = buf_size
      BY <2>1, <2>2 DEF Paced
    <3> QED
      BY <1>0, <2>1, <2>2, <3>1, PacedKept DEF channel
  <2>3. CASE ~ intact'
    BY <2>3 DEF Paced
  <2> QED
    BY <2>2, <2>3
<1>6. CASE \E s \in Sizes : SetFragment(s)
  <2>1. /\ chain' = buf_size' /\ queue' = << >>
        /\ UNCHANGED <<initDevice, decoderValidBytes>>
        /\ intact' => ~ initDevice
    BY <1>6 DEF SetFragment
  <2>2. CASE intact'
    BY <1>0, <2>1, <2>2, PacedEmptied DEF TypeOK
  <2>3. CASE ~ intact'
    BY <2>3 DEF Paced
  <2> QED
    BY <2>2, <2>3
<1> QED
  BY <1>1, <1>2, <1>3, <1>4, <1>5, <1>6 DEF Request

LEMMA StepPaced == IInv /\ IInv' /\ Paced /\ [Next]_vars => Paced'
<1> SUFFICES ASSUME IInv, IInv', Paced, [Next]_vars
             PROVE  Paced'
  OBVIOUS
<1>0. TypeOK /\ 0 \in Nat /\ Len(queue) + 0 = Len(queue)
      /\ decoderValidBytes + 0 = decoderValidBytes
  BY QueueType DEF IInv, TypeOK
<1>1. CASE Signal
  <2>1. UNCHANGED <<channel, buffer, queue, intact>>
    BY <1>1 DEF Signal, history
  <2> QED
    BY <1>0, <2>1, PacedKept DEF channel, buffer
<1>2. CASE CopyFaults
  BY <1>2 DEF CopyFaults, Paced
<1>3. CASE UNCHANGED vars
  <2>1. UNCHANGED <<channel, buffer, queue, intact>>
    BY <1>3 DEF vars, history
  <2> QED
    BY <1>0, <2>1, PacedKept DEF channel, buffer
<1> QED
  BY <1>1, <1>2, <1>3, PacedPlay, PacedIsr, PacedCaller, PacedRequest DEF Next

\* The descriptors follow the channel, and the handler's count covers what is
\* queued and what was played since it last counted.
THEOREM PacedAlways == Spec => []Paced
<1>1. Init => Paced
  <2> SUFFICES ASSUME Init PROVE Paced
    OBVIOUS
  <2>1. Len(queue) = 0
    BY DEF Init
  <2> QED
    BY <2>1 DEF Init, Paced
<1> QED
  BY <1>1, StepPaced, Inductive, PTL DEF Spec

\* Where the model ends, what is queued is not known.
Ended == pc = "overrun" => ~ intact

\* Nothing is claimed of the queue once a ring made smaller has led a fill or a
\* clearing out of its memory.
THEOREM EndedAlways == Spec => []Ended
<1>1. IInv => Ended
  BY Known DEF Ended
<1> QED
  BY <1>1, Inductive, PTL

\* decoderValidBytes covers what is still to be played, so that the space
\* fillDecoderBuffer computes from it is free.
THEOREM NoOverwrite == Spec => []SpaceIsPlayed
<1>1. IInv /\ Paced => SpaceIsPlayed
  <2> SUFFICES ASSUME IInv, Paced, intact
               PROVE  Len(queue) <= decoderValidBytes
    BY DEF SpaceIsPlayed
  <2>1. CASE ~ initDevice
    BY <2>1 DEF Paced
  <2>2. CASE initDevice
    <3>1. TypeOK /\ lastDMAPosition \in Nat /\ chain \in Nat /\ decoderValidBytes \in Nat
      BY SizeFacts DEF IInv, TypeOK
    <3>2. chain = buf_size /\ Len(queue) + Behind <= decoderValidBytes
      BY <2>2 DEF Paced
    <3>3. lastDMAPosition <= buf_size
      BY <3>2, Known
    <3> QED
      BY QueueType, BehindType, <3>1, <3>2, <3>3
  <2> QED
    BY <2>1, <2>2
<1> QED
  BY <1>1, PacedAlways, Inductive, PTL

\* stmp_dac_dma_isr stops the sound only when all that was accepted is played.
THEOREM StopsOnlyWhenPlayed == Spec => StopsWhenPlayed
<1>1. IInv /\ SpaceIsPlayed /\ [Next]_vars =>
        [intact /\ initDevice /\ ~ initDevice' => queue = << >>]_vars
  <2> SUFFICES ASSUME IInv, SpaceIsPlayed, Next, intact, initDevice, ~ initDevice'
               PROVE  queue = << >>
    OBVIOUS
  <2>1. Isr
    <3>1. ~ Play
      BY DEF Play, buffer
    <3>2. ~ Caller
      BY DEF Caller, FillFirst, FillNext, Copy1, Add1, Copy2, Add2, CopyTo, Add,
         FilledFirst, StartChannel, FilledDirect, FilledLoop, FaultLoop, StoppedMeanwhile,
         Drain, Woken, Drained, buffer
    <3>3. ~ Request
      BY DEF Request, Write, Sync, StartChannel, Reset, Close, Open, SetFragment
    <3>4. ~ Signal /\ ~ CopyFaults
      BY DEF Signal, CopyFaults, buffer
    <3> QED
      BY <3>1, <3>2, <3>3, <3>4 DEF Next
  <2>2. IsrStop
    BY <2>1 DEF Isr, IsrMore, IsrOverrun, IsrRemain, IsrAcknowledge, buffer
  <2>3. ~ decoderValidBytes > 0
    BY <2>2 DEF IsrStop, SomethingLeft
  <2>4. Len(queue) \in Nat /\ decoderValidBytes \in Nat
        /\ Len(queue) <= decoderValidBytes /\ (Len(queue) = 0 => queue = << >>)
    BY QueueType DEF SpaceIsPlayed, IInv, TypeOK
  <2> QED
    BY <2>3, <2>4
<1> QED
  BY <1>1, NoOverwrite, Inductive, PTL DEF Spec, StopsWhenPlayed

----------------------------------------------------------------------------
(* The ring holds what was accepted where the channel plays it, from two   *)
(* more invariants: Points, that the write pointer is where the queue      *)
(* ends, and Contents, what lies in the ring.  Positions are measured      *)
(* round the ring with Wrap, which replaces the remainder for numbers      *)
(* below twice its size.                                                   *)

Wrap(x) == IF x >= buf_size THEN x - buf_size ELSE x

\* Where the next unit to be counted lies: a fill moves the write pointer first.
End == IF pc \in {"copy1", "add1"} THEN call.at
       ELSE IF pc \in {"copy2", "add2"} THEN 0
       ELSE decoderWritePointer

\* Where the write pointer is after the fill, and that there is something to copy.
Moved ==
  /\ pc \in {"copy1", "add1"} => call.at < buf_size
  /\ pc \in {"copy1", "add1"} =>
       IF call.n2 = 0 THEN decoderWritePointer = Wrap(call.at + call.n1)
       ELSE call.at + call.n1 = buf_size /\ decoderWritePointer = call.n2
  /\ pc \in {"copy2", "add2"} => decoderWritePointer = call.n2
  /\ pc \in Writing => AvaliableUserBytes >= ToCopy

Points ==
  intact => /\ Position + Len(queue) = End \/ Position + Len(queue) = End + buf_size
            /\ Moved

Contents ==
  intact => /\ \A i \in 1 .. Len(queue) : ring[Wrap(Position + i - 1)] = queue[i]
            /\ \A i \in 1 .. Copied : ring[End + i - 1] = Units(Copied)[i]

----------------------------------------------------------------------------
(* What the earlier invariants say while the queue is known.               *)

LEMMA Numbers ==
  ASSUME IInv
  PROVE  /\ TypeOK /\ call \in Calls
         /\ buf_size \in Nat /\ chain \in Nat /\ MemorySize \in Nat
         /\ buf_size > 0 /\ buf_size <= MemorySize
         /\ sema \in Nat /\ bar \in Nat /\ next \in Nat /\ Position \in Nat
         /\ Len(queue) \in Nat
         /\ decoderWritePointer \in Nat /\ decoderValidBytes \in Nat
         /\ lastDMAPosition \in Nat /\ AvaliableUserBytes \in Int
         /\ call.at \in Nat /\ call.n1 \in Nat /\ call.n2 \in Nat
         /\ Pending \in Nat /\ Copied \in Nat /\ ToCopy \in Nat
<1>1. TypeOK /\ call \in Calls
  BY DEF IInv, CallOK
<1>2. call.at \in Nat /\ call.n1 \in Nat /\ call.n2 \in Nat
  BY <1>1 DEF Calls
<1>3. Pending \in Nat /\ Copied \in Nat /\ ToCopy \in Nat
  BY <1>2 DEF Pending, Copied, ToCopy
<1>4. Len(queue) \in Nat
  BY <1>1, QueueType
<1>5. /\ buf_size \in Nat /\ chain \in Nat /\ MemorySize \in Nat
      /\ buf_size > 0 /\ buf_size <= MemorySize
  BY <1>1, SizeFacts DEF TypeOK
<1>6. /\ sema \in Nat /\ bar \in Nat /\ next \in Nat
      /\ decoderWritePointer \in Nat /\ decoderValidBytes \in Nat
      /\ lastDMAPosition \in Nat /\ AvaliableUserBytes \in Int
  BY <1>1, <1>5 DEF TypeOK, Memory
<1> QED
  BY <1>1, <1>2, <1>3, <1>4, <1>5, <1>6 DEF Position

\* The queue, what the fill in progress has still to count, and what the
\* handler has still to clear fit the ring together.
LEMMA Fits ==
  ASSUME IInv, Paced, intact
  PROVE  /\ pc # "overrun" /\ chain = buf_size
         /\ Position < buf_size
         /\ Len(queue) + Pending <= buf_size
         /\ ~ initDevice => Position = 0
         /\ initDevice => /\ bar <= buf_size /\ lastDMAPosition <= buf_size
                          /\ Position = Wrap(bar)
                          /\ Behind \in Nat
                          /\ Len(queue) + Pending + Behind <= buf_size
<1>1. pc # "overrun" /\ chain = buf_size
  BY Known DEF Paced
<1>2. /\ next < chain /\ lastDMAPosition <= chain
      /\ initDevice => bar <= chain
      /\ sema > 0 => bar < chain
      /\ decoderWritePointer < buf_size
      /\ decoderValidBytes + Pending <= buf_size
  BY Known
<1>3. Position < buf_size
  BY <1>1, <1>2 DEF Position
<1>5. ~ initDevice => Position = 0
  BY DEF IInv, Stopped, Position
<1>6. CASE ~ initDevice
  <2>1. Len(queue) <= decoderValidBytes
    BY <1>6 DEF Paced
  <2> QED
    BY <1>1, <1>2, <1>3, <1>5, <1>6, <2>1, Numbers
<1>7. CASE initDevice
  <2>1. next = Follows /\ Len(queue) + Behind <= decoderValidBytes
    BY <1>7 DEF Paced
  <2>2. Position = Wrap(bar)
    BY <1>1, <1>2, <1>7, <2>1, Numbers, SMTT(30) DEF Position, Wrap, Follows, BlockEnd
  <2>3. Behind \in Nat
    BY <1>1, <1>2, BehindType, Numbers
  <2>4. Len(queue) + Pending + Behind <= buf_size
    <3>1. /\ Len(queue) \in Nat /\ Pending \in Nat /\ decoderValidBytes \in Nat
          /\ buf_size \in Nat
      BY Numbers
    <3> QED
      BY <1>2, <2>1, <2>3, <3>1
  <2>5. Len(queue) + Pending <= buf_size
    <3>1. Len(queue) \in Nat /\ Pending \in Nat /\ buf_size \in Nat
      BY Numbers
    <3> QED
      BY <2>3, <2>4, <3>1
  <2> QED
    BY <1>1, <1>2, <1>3, <1>7, <2>2, <2>3, <2>4, <2>5
<1> QED
  BY <1>6, <1>7

LEMMA EndInRing ==
  ASSUME IInv, Paced, Points, intact
  PROVE  End \in 0 .. buf_size - 1
<1>1. decoderWritePointer < buf_size
  BY Known
<1>2. pc \in {"copy1", "add1"} => call.at < buf_size
  BY DEF Points, Moved
<1>3. /\ buf_size \in Nat /\ 0 < buf_size /\ decoderWritePointer \in Nat
      /\ call.at \in Nat
  BY Numbers
<1> QED
  BY <1>1, <1>2, <1>3 DEF End

\* The channel goes on where it halted.
LEMMA PositionHeld ==
  ASSUME NEW n \in Nat \ {0}, Increment(n), sema \in Nat
  PROVE  Position' = Position
BY DEF Increment, Position

\* It plays unit after unit, round the ring.
LEMMA PositionPlayed ==
  ASSUME IInv, Paced, Play, intact
  PROVE  Position' = IF Position + 1 = buf_size THEN 0 ELSE Position + 1
<1>1. /\ initDevice /\ chain = buf_size /\ sema > 0 /\ bar < chain
      /\ next = IF bar - (bar % Block) + Block = chain THEN 0
                ELSE bar - (bar % Block) + Block
  <2>1. initDevice /\ sema > 0
    BY PlayedOn DEF Play
  <2>2. chain = buf_size /\ next = Follows
    BY <2>1 DEF Paced
  <2>3. bar < chain
    BY <2>1, Known
  <2>4. BlockEnd = bar - (bar % Block) + Block
    BY <2>1, Numbers DEF BlockEnd
  <2> QED
    BY <2>1, <2>2, <2>3, <2>4 DEF Follows
<1>2. Position = bar
  BY <1>1 DEF Position
<1>3. CASE (bar + 1) % Block = 0
  <2>1. bar - (bar % Block) + Block = bar + 1
    BY <1>3, Numbers, InBlock
  <2>2. CASE sema > 1
    <3>1. sema' = sema - 1 /\ bar' = next
      BY <1>3, <2>2 DEF Play
    <3> QED
      BY <1>1, <1>2, <2>1, <2>2, <3>1, Numbers, SMTT(30) DEF Position
  <2>3. CASE ~ sema > 1
    <3>1. sema' = 0 /\ next' = next
      BY <1>1, <1>3, <2>3, Numbers, SMTT(30) DEF Play
    <3> QED
      BY <1>1, <1>2, <2>1, <3>1 DEF Position
  <2> QED
    BY <2>2, <2>3
<1>4. CASE (bar + 1) % Block # 0
  <2>1. bar + 1 < chain
    BY <1>1, <1>4, Numbers, InsideRing DEF TypeOK
  <2>2. sema' = sema /\ bar' = bar + 1
    BY <1>4 DEF Play
  <2> QED
    BY <1>1, <1>2, <2>1, <2>2 DEF Position
<1> QED
  BY <1>3, <1>4

----------------------------------------------------------------------------
(* Points: the write pointer                                               *)

\* Steps outside a fill that leave ring, channel and write pointer alone.
LEMMA PointsKept ==
  ASSUME Points, Position' = Position, UNCHANGED <<decoderWritePointer, buf_size>>,
         intact' => intact /\ Len(queue') = Len(queue),
         pc \notin Filling, pc' \notin Filling,
         intact' /\ pc' \in Writing => AvaliableUserBytes' >= 0
  PROVE  Points'
<1>1. End = decoderWritePointer /\ End' = decoderWritePointer'
  BY DEF End, Filling
<1>2. ToCopy' = 0
  BY DEF ToCopy, Filling
<1>3. intact' => Moved'
  BY <1>2 DEF Moved, Filling
<1> QED
  BY <1>1, <1>3 DEF Points

\* Steps that leave the caller alone too.
LEMMA PointsSame ==
  ASSUME Points, Position' = Position,
         UNCHANGED <<decoderWritePointer, AvaliableUserBytes, buf_size, pc, call>>,
         intact' => intact /\ Len(queue') = Len(queue)
  PROVE  Points'
<1>1. End' = End /\ Moved' = Moved
  BY DEF End, Moved, Wrap, ToCopy, Writing, Filling
<1> QED
  BY <1>1 DEF Points

\* Steps that leave nothing in the ring.
LEMMA PointsEmptied ==
  ASSUME Position' = 0, decoderWritePointer' = 0, buf_size' \in Nat,
         intact' => /\ queue' = << >> /\ pc' \notin Filling
                    /\ (pc' \in Writing => AvaliableUserBytes' >= 0)
  PROVE  Points'
<1>1. CASE intact'
  <2>1. End' = 0
    BY <1>1 DEF End, Filling
  <2>2. ToCopy' = 0
    BY <1>1 DEF ToCopy, Filling
  <2>3. Moved'
    BY <1>1, <2>2 DEF Moved, Filling
  <2>4. Len(queue') = 0
    BY <1>1
  <2> QED
    BY <2>1, <2>3, <2>4 DEF Points
<1> QED
  BY <1>1 DEF Points

LEMMA PointsPlay ==
  ASSUME IInv, Paced, Points, Play
  PROVE  Points'
<1>1. CASE intact'
  <2>1. /\ intact /\ queue # << >> /\ queue' = Tail(queue)
        /\ UNCHANGED <<decoderWritePointer, AvaliableUserBytes, buf_size, pc, call>>
    BY <1>1 DEF Play, buffer
  <2>2. Position' = IF Position + 1 = buf_size THEN 0 ELSE Position + 1
    BY <2>1, PositionPlayed
  <2>3. End' = End /\ Moved' = Moved
    BY <2>1 DEF End, Moved, Wrap, ToCopy, Writing, Filling
  <2>4. /\ Len(queue) \in Nat /\ Len(queue) >= 1 /\ Len(queue') = Len(queue) - 1
        /\ Position \in Nat /\ buf_size \in Nat
    BY <2>1, Numbers, QueueType
  <2>5. End \in 0 .. buf_size - 1
    BY <2>1, EndInRing
  <2>6. Position + Len(queue) = End \/ Position + Len(queue) = End + buf_size
    BY <2>1 DEF Points
  <2>7. Position' + Len(queue') = End \/ Position' + Len(queue') = End + buf_size
    BY <2>2, <2>4, <2>5, <2>6
  <2> QED
    BY <2>1, <2>3, <2>7 DEF Points
<1> QED
  BY <1>1 DEF Points

LEMMA PointsIsr ==
  ASSUME IInv, IInv', Paced, Points, Isr
  PROVE  Points'
<1>1. CASE IsrMore
  <2>1. /\ Increment(1) /\ 1 \in Nat \ {0}
        /\ UNCHANGED <<decoderWritePointer, AvaliableUserBytes, buf_size, pc, call,
                       queue, intact>>
    BY <1>1 DEF IsrMore, history
  <2>2. Position' = Position
    BY <2>1, Numbers, PositionHeld
  <2> QED
    BY <2>1, <2>2, PointsSame
<1>2. CASE IsrRemain \/ IsrAcknowledge
  <2>1. /\ UNCHANGED <<sema, bar, next, decoderWritePointer, AvaliableUserBytes, buf_size,
                       pc, call, queue, intact>>
    BY <1>2 DEF IsrRemain, IsrAcknowledge, history, buffer
  <2>2. Position' = Position
    BY <2>1 DEF Position
  <2> QED
    BY <2>1, <2>2, PointsSame
<1>3. CASE IsrStop
  <2>1. /\ sema' = 0 /\ next' = 0 /\ decoderWritePointer' = 0 /\ AvaliableUserBytes' = 0
        /\ UNCHANGED <<buf_size, pc>> /\ queue' = << >>
        /\ intact' => pc \notin Filling
    BY <1>3 DEF IsrStop, setDMADesc, audio_reset_buf
  <2>2. Position' = 0 /\ buf_size' \in Nat
    BY <2>1, Numbers DEF Position
  <2> QED
    BY <2>1, <2>2, PointsEmptied
<1>4. CASE irq /\ IsrOverrun
  <2>1. irq = TRUE
    BY <1>4, Numbers DEF TypeOK
  <2>2. ~ intact'
    BY <1>4, <2>1, Overran DEF history
  <2> QED
    BY <2>2 DEF Points
<1> QED
  BY <1>1, <1>2, <1>3, <1>4 DEF Isr

\* What a fill decides: where it begins and where the write pointer goes.
LEMMA FillPoints ==
  ASSUME NEW stage, Fill(stage), IInv, intact, pc \notin Filling
  PROVE  \/ pc' = "filled" /\ UNCHANGED decoderWritePointer
         \/ /\ pc' = "copy1" /\ call'.at = decoderWritePointer
            /\ call'.n1 \in Nat /\ call'.n2 \in Nat
            /\ AvaliableUserBytes >= 0 => call'.n1 + call'.n2 <= AvaliableUserBytes
            /\ IF call'.n2 = 0
               THEN decoderWritePointer' = Wrap(call'.at + call'.n1)
               ELSE call'.at + call'.n1 = buf_size /\ decoderWritePointer' = call'.n2
<1>1. CASE Space = 0
  BY <1>1 DEF Fill
<1>2. CASE Space # 0
  <2>1. /\ call \in Calls /\ decoderWritePointer \in Nat /\ buf_size \in Nat
        /\ decoderValidBytes \in Nat /\ AvaliableUserBytes \in Int
    BY Numbers
  <2>2. decoderWritePointer < buf_size /\ decoderValidBytes <= buf_size
    BY <2>1, Known DEF Pending, Filling
  <2>3. Space \in 0 .. buf_size
    BY <2>1, <2>2 DEF Space
  <2>4. Taken \in 0 .. buf_size /\ (AvaliableUserBytes >= 0 => Taken <= AvaliableUserBytes)
    BY <2>1, <2>3 DEF Taken, Lesser
  <2>5. ToEnd = buf_size - decoderWritePointer
    BY DEF ToEnd
  <2> HIDE DEF Taken
  <2> DEFINE a == decoderWritePointer
             m == Lesser(Taken, ToEnd)
             r == Taken - Lesser(Taken, ToEnd)
  <2>6. /\ m \in Nat /\ r \in Nat /\ m + r = Taken
        /\ IF r = 0 THEN NewPointer = Wrap(a + m)
           ELSE a + m = buf_size /\ NewPointer = r
    BY <2>1, <2>2, <2>4, <2>5 DEF Lesser, NewPointer, Wrap
  <2>7. /\ pc' = "copy1" /\ decoderWritePointer' = NewPointer
        /\ call' = [call EXCEPT !.stage = stage, !.at = a, !.n1 = m, !.n2 = r]
    <3>1. ~ (Space = 0 \/ ToEnd < 0)
      BY <1>2, <2>1, <2>2, <2>5
    <3> QED
      BY <3>1 DEF Fill
  <2> HIDE DEF m, r
  <2>8. call'.at = a /\ call'.n1 = m /\ call'.n2 = r
    BY <2>1, <2>7 DEF Calls
  <2> QED
    BY <2>4, <2>6, <2>7, <2>8
<1> QED
  BY <1>1, <1>2

LEMMA PointsFill ==
  ASSUME IInv, IInv', Paced, Points, FillFirst \/ FillNext
  PROVE  Points'
<1>1. /\ UNCHANGED <<channel, buf_size, AvaliableUserBytes, queue, intact>>
      /\ pc \in {"fill", "down"}
  BY DEF FillFirst, FillNext, history
<1>2. Position' = Position
  BY <1>1 DEF Position, channel
<1>3. CASE \E stage : Fill(stage)
  <2>1. PICK stage : Fill(stage)
    BY <1>3
  <2>2. CASE ~ intact
    BY <1>1, <2>2 DEF Points
  <2>3. CASE intact
    <3>1. AvaliableUserBytes \in Nat
      BY <1>1, <2>3, Numbers, SMTT(30) DEF Points, Moved, Writing
    <3>2. CASE pc' = "filled" /\ UNCHANGED decoderWritePointer
      BY <1>1, <1>2, <3>1, <3>2, PointsKept DEF Filling
    <3>3. CASE /\ pc' = "copy1" /\ call'.at = decoderWritePointer
               /\ call'.n1 \in Nat /\ call'.n2 \in Nat
               /\ call'.n1 + call'.n2 <= AvaliableUserBytes
               /\ IF call'.n2 = 0
                  THEN decoderWritePointer' = Wrap(call'.at + call'.n1)
                  ELSE call'.at + call'.n1 = buf_size /\ decoderWritePointer' = call'.n2
      <4>1. End = decoderWritePointer /\ End' = decoderWritePointer
        BY <1>1, <3>3 DEF End
      <4>2. ToCopy' = call'.n1 + call'.n2
        BY <3>3 DEF ToCopy
      <4>3. decoderWritePointer < buf_size
        BY <2>3, <4>1, EndInRing, Numbers, SMTT(30)
      <4>4. Moved'
        BY <1>1, <3>3, <4>2, <4>3 DEF Moved, Wrap
      <4> QED
        BY <1>1, <1>2, <4>1, <4>4 DEF Points
    <3> QED
      BY <1>1, <2>1, <2>3, <3>1, <3>2, <3>3, FillPoints DEF Filling
  <2> QED
    BY <2>2, <2>3
<1>4. CASE Return(WouldBlock) /\ UNCHANGED decoderWritePointer
  <2>1. pc' = "idle"
    BY <1>4 DEF Return
  <2> QED
    BY <1>1, <1>2, <1>4, <2>1, PointsKept DEF Filling, Writing
<1> QED
  BY <1>3, <1>4 DEF FillFirst, FillNext

LEMMA PointsCopy ==
  ASSUME IInv, Points, Copy1 \/ Copy2
  PROVE  Points'
<1>1. /\ UNCHANGED <<sema, bar, next, buf_size, decoderWritePointer, call, queue, intact>>
  BY DEF Copy1, Copy2, CopyTo, channel, history
<1>2. Position' = Position /\ End' = End
  BY <1>1 DEF Copy1, Copy2, Position, End
<1>3. CASE intact
  <2>1. Moved
    BY <1>3 DEF Points
  <2>2. /\ AvaliableUserBytes \in Int /\ call.n1 \in Nat /\ call.n2 \in Nat
    BY Numbers
  <2>3. ToCopy' <= AvaliableUserBytes'
    <3>1. CASE Copy1
      <4>1. /\ AvaliableUserBytes' = AvaliableUserBytes - call.n1
            /\ call.n1 + call.n2 <= AvaliableUserBytes
        BY <2>1, <3>1 DEF Copy1, CopyTo, Moved, ToCopy, Writing, Filling
      <4>2. ToCopy' = call.n2
        BY <1>1, <3>1 DEF Copy1, ToCopy
      <4> QED
        BY <2>2, <4>1, <4>2
    <3>2. CASE Copy2
      <4>1. /\ AvaliableUserBytes' = AvaliableUserBytes - call.n2
            /\ call.n2 <= AvaliableUserBytes
        BY <2>1, <3>2 DEF Copy2, CopyTo, Moved, ToCopy, Writing, Filling
      <4>2. ToCopy' = 0
        BY <3>2 DEF Copy2, ToCopy
      <4> QED
        BY <2>2, <4>1, <4>2
    <3> QED
      BY <3>1, <3>2
  <2>4. Moved'
    BY <1>1, <2>1, <2>3 DEF Copy1, Copy2, Moved, Wrap
  <2> QED
    BY <1>1, <1>2, <2>4 DEF Points
<1> QED
  BY <1>1, <1>3 DEF Points

\* Counting the first piece: the second begins at the start of the ring.
LEMMA PointsAdd1 ==
  ASSUME IInv, IInv', Paced, Points, Add1
  PROVE  Points'
<1>1. /\ pc = "add1" /\ Add(call.n1)
      /\ pc' = IF call.n2 # 0 /\ AvaliableUserBytes # 0 THEN "copy2" ELSE "filled"
      /\ UNCHANGED <<sema, bar, next, buf_size, decoderWritePointer, AvaliableUserBytes,
                     intact>>
  BY DEF Add1, Add, channel
<1>2. CASE intact
  <2>1. /\ call.n1 \in Nat /\ call.n2 \in Nat /\ call.at \in Nat /\ buf_size \in Nat
        /\ Position \in Nat /\ Len(queue) \in Nat /\ call \in Calls /\ TypeOK
        /\ AvaliableUserBytes \in Int
    BY Numbers
  <2>2. /\ Len(queue') = Len(queue) + call.n1
        /\ call' = [call EXCEPT !.took = @ + call.n1]
    BY <1>1, <1>2, <2>1, AddedType
  <2>3. /\ call'.at = call.at /\ call'.n1 = call.n1 /\ call'.n2 = call.n2
    BY <2>1, <2>2 DEF Calls
  <2>4. Position' = Position
    BY <1>1 DEF Position
  <2>5. /\ Position < buf_size /\ Len(queue) + call.n1 + call.n2 <= buf_size
    BY <1>1, <1>2, <2>1, Fits DEF Pending
  <2>6. /\ Position + Len(queue) = call.at \/ Position + Len(queue) = call.at + buf_size
        /\ IF call.n2 = 0 THEN decoderWritePointer = Wrap(call.at + call.n1)
           ELSE call.at + call.n1 = buf_size /\ decoderWritePointer = call.n2
        /\ call.n2 <= AvaliableUserBytes
    BY <1>1, <1>2 DEF Points, Moved, End, ToCopy, Writing, Filling
  <2>7. call.at + call.n1 <= buf_size
    BY <1>1 DEF IInv, CallOK, Filling
  <2>8. CASE call.n2 # 0
    <3>1. pc' = "copy2"
      BY <1>1, <2>1, <2>6, <2>8
    <3>2. End' = 0 /\ ToCopy' = call.n2
      BY <2>3, <3>1 DEF End, ToCopy
    <3>3. Position + Len(queue) + call.n1 = buf_size
      BY <2>1, <2>5, <2>6, <2>8, SMTT(30)
    <3>4. Moved'
      BY <1>1, <2>3, <2>6, <2>8, <3>1, <3>2 DEF Moved
    <3> QED
      BY <1>1, <2>1, <2>2, <2>4, <3>2, <3>3, <3>4 DEF Points
  <2>9. CASE call.n2 = 0
    <3>1. pc' = "filled"
      BY <1>1, <2>9
    <3>2. End' = decoderWritePointer /\ ToCopy' = 0
      BY <1>1, <3>1 DEF End, ToCopy
    <3>3. \/ Position + Len(queue) + call.n1 = decoderWritePointer
          \/ Position + Len(queue) + call.n1 = decoderWritePointer + buf_size
      BY <2>1, <2>5, <2>6, <2>7, <2>9 DEF Wrap
    <3>4. Moved'
      BY <1>1, <2>1, <2>6, <2>9, <3>1, <3>2 DEF Moved
    <3> QED
      BY <1>1, <2>1, <2>2, <2>4, <3>2, <3>3, <3>4 DEF Points
  <2> QED
    BY <2>8, <2>9
<1> QED
  BY <1>1, <1>2 DEF Points

LEMMA PointsAdd2 ==
  ASSUME IInv, IInv', Paced, Points, Add2
  PROVE  Points'
<1>1. /\ pc = "add2" /\ Add(call.n2) /\ pc' = "filled"
      /\ UNCHANGED <<sema, bar, next, buf_size, decoderWritePointer, AvaliableUserBytes,
                     intact>>
  BY DEF Add2, Add, channel
<1>2. CASE intact
  <2>1. /\ call.n2 \in Nat /\ buf_size \in Nat
        /\ Position \in Nat /\ Len(queue) \in Nat /\ call \in Calls /\ TypeOK
    BY Numbers
  <2>2. Len(queue') = Len(queue) + call.n2
    BY <1>1, <1>2, <2>1, AddedType
  <2>3. Position' = Position
    BY <1>1 DEF Position
  <2>4. /\ Position + Len(queue) = 0 \/ Position + Len(queue) = 0 + buf_size
        /\ decoderWritePointer = call.n2 /\ 0 <= AvaliableUserBytes
    BY <1>1, <1>2 DEF Points, Moved, End, ToCopy, Writing, Filling
  <2>5. End' = decoderWritePointer /\ ToCopy' = 0
    BY <1>1 DEF End, ToCopy
  <2>6. Moved'
    BY <1>1, <2>4, <2>5 DEF Moved
  <2>7. \/ Position' + Len(queue') = decoderWritePointer
        \/ Position' + Len(queue') = decoderWritePointer + buf_size
    BY <2>1, <2>2, <2>3, <2>4
  <2> QED
    BY <1>1, <2>5, <2>6, <2>7 DEF Points
<1> QED
  BY <1>1, <1>2 DEF Points

LEMMA PointsCaller ==
  ASSUME IInv, IInv', Paced, Points, Caller
  PROVE  Points'
<1>1. CASE FilledFirst
  <2>1. /\ UNCHANGED <<decoderWritePointer, AvaliableUserBytes, buf_size, queue, intact>>
        /\ pc = "filled" /\ pc' \in {"down", "idle"}
    BY <1>1 DEF FilledFirst, WaitForSpace, Return, history
  <2>2. Position' = Position
    <3>1. CASE StartChannel
      <4>1. Increment(2) /\ 2 \in Nat \ {0}
        BY <3>1 DEF StartChannel
      <4> QED
        BY <4>1, Numbers, PositionHeld
    <3>2. CASE UNCHANGED channel
      BY <3>2 DEF channel, Position
    <3> QED
      BY <1>1, <3>1, <3>2 DEF FilledFirst
  <2>3. intact' => AvaliableUserBytes' >= 0
    BY <2>1, Numbers DEF Points, Moved, Writing, ToCopy
  <2> QED
    BY <2>1, <2>2, <2>3, PointsKept DEF Filling
<1>2. CASE FilledDirect \/ FilledLoop \/ FaultLoop \/ Drain \/ Woken \/ Drained
  <2>1. /\ UNCHANGED <<sema, bar, next, decoderWritePointer, AvaliableUserBytes, buf_size,
                       queue, intact>>
        /\ pc \notin Filling
        /\ \/ pc = "filled" /\ pc' = "down"
           \/ pc' \in {"idle", "drain", "asleep", "drained"}
    BY <1>2 DEF FilledDirect, FilledLoop, FaultLoop, Drain, Woken, Drained, WaitForSpace,
       Return, history, buffer, channel, Filling
  <2>2. Position' = Position
    BY <2>1 DEF Position
  <2>3. intact' /\ pc' \in Writing => AvaliableUserBytes' >= 0
    BY <2>1, Numbers DEF Points, Moved, Writing, ToCopy, Filling
  <2> QED
    BY <2>1, <2>2, <2>3, PointsKept DEF Filling
<1>3. CASE StoppedMeanwhile
  <2>1. /\ ~ initDevice /\ UNCHANGED <<sema, next, buf_size>>
        /\ decoderWritePointer' = 0 /\ queue' = << >> /\ pc' = "idle"
    BY <1>3 DEF StoppedMeanwhile, audio_reset_buf, Return, channel
  <2>2. Position' = 0 /\ buf_size' \in Nat
    <3>1. sema = 0 /\ next = 0
      BY <2>1 DEF IInv, Stopped
    <3> QED
      BY <2>1, <3>1, Numbers DEF Position
  <2> QED
    BY <2>1, <2>2, PointsEmptied DEF Filling, Writing
<1> QED
  BY <1>1, <1>2, <1>3, PointsFill, PointsCopy, PointsAdd1, PointsAdd2 DEF Caller

LEMMA PointsRequest ==
  ASSUME IInv, IInv', Paced, Points, Request
  PROVE  Points'
<1>1. CASE \E w \in Writes : Write(w)
  <2>1. PICK w \in Writes : Write(w)
    BY <1>1
  <2>2. /\ UNCHANGED <<sema, bar, next, decoderWritePointer, buf_size, queue, intact>>
        /\ pc = "idle" /\ pc' \in {"fill", "down"} /\ AvaliableUserBytes' = w.count
    BY <2>1 DEF Write, channel, history
  <2>3. w.count \in Nat
    BY BoundAssumption
  <2>4. Position' = Position
    BY <2>2 DEF Position
  <2> QED
    BY <2>2, <2>3, <2>4, PointsKept DEF Filling
<1>2. CASE Sync
  <2>1. /\ UNCHANGED <<decoderWritePointer, buf_size, queue, intact>>
        /\ pc = "idle" /\ pc' = "drain"
    BY <1>2 DEF Sync, Begin, history
  <2>2. Position' = Position
    <3>1. CASE StartChannel
      <4>1. Increment(2) /\ 2 \in Nat \ {0}
        BY <3>1 DEF StartChannel
      <4> QED
        BY <4>1, Numbers, PositionHeld
    <3>2. CASE UNCHANGED channel
      BY <3>2 DEF channel, Position
    <3> QED
      BY <1>2, <3>1, <3>2 DEF Sync
  <2> QED
    BY <2>1, <2>2, PointsKept DEF Filling, Writing
<1>3. CASE Reset
  <2>1. /\ UNCHANGED <<sema, bar, next, buf_size>> /\ pc = "idle"
        /\ pc' \in {"idle", "drain"}
    BY <1>3 DEF Reset, Begin, channel
  <2>2. CASE UNCHANGED <<decoderWritePointer, queue, intact>>
    <3>1. Position' = Position
      BY <2>1 DEF Position
    <3> QED
      BY <2>1, <2>2, <3>1, PointsKept DEF Filling, Writing
  <2>3. CASE ~ initDevice /\ audio_reset_buf /\ queue' = << >>
    <3>1. Position' = 0 /\ buf_size' \in Nat
      <4>1. sema = 0 /\ next = 0
        BY <2>3 DEF IInv, Stopped
      <4> QED
        BY <2>1, <4>1, Numbers DEF Position
    <3> QED
      BY <2>1, <2>3, <3>1, PointsEmptied DEF Filling, Writing, audio_reset_buf
  <2> QED
    BY <1>3, <2>2, <2>3 DEF Reset
<1>4. CASE Close
  <2>1. /\ UNCHANGED <<sema, bar, next, decoderWritePointer, buf_size, intact>>
        /\ pc = "idle" /\ pc' = "closed" /\ queue' = [i \in DOMAIN queue |-> 0]
    BY <1>4 DEF Close, Begin, channel
  <2>2. Len(queue') = Len(queue)
    BY <2>1, Numbers, SilencedType DEF TypeOK
  <2>3. Position' = Position
    BY <2>1 DEF Position
  <2> QED
    BY <2>1, <2>2, <2>3, PointsKept DEF Filling, Writing
<1>5. CASE Open
  <2>1. /\ UNCHANGED <<sema, bar, next, decoderWritePointer>>
        /\ pc = "closed" /\ pc' = "idle" /\ buf_size' = DefaultSize
        /\ intact' => intact /\ chain = DefaultSize /\ queue' = queue
    BY <1>5 DEF Open, channel
  <2>2. CASE intact'
    <3>1. buf_size' = buf_size
      BY <2>1, <2>2 DEF Paced
    <3>2. Position' = Position
      BY <2>1 DEF Position
    <3> QED
      BY <2>1, <3>1, <3>2, PointsKept DEF Filling, Writing
  <2> QED
    BY <2>2 DEF Points
<1>6. CASE \E s \in Sizes : SetFragment(s)
  <2>1. /\ UNCHANGED <<sema, decoderWritePointer>> /\ next' = 0 /\ queue' = << >>
        /\ pc' = "idle"
        /\ intact' => decoderWritePointer = 0 /\ ~ initDevice
    BY <1>6 DEF SetFragment, Begin
  <2>2. CASE intact'
    <3>1. Position' = 0 /\ buf_size' \in Nat
      <4>1. sema = 0
        BY <2>1, <2>2 DEF IInv, Stopped
      <4>2. buf_size' \in Nat
        BY Numbers, SizeFacts DEF IInv, TypeOK
      <4> QED
        BY <2>1, <4>1, <4>2 DEF Position
    <3> QED
      BY <2>1, <2>2, <3>1, PointsEmptied DEF Filling, Writing
  <2> QED
    BY <2>2 DEF Points
<1> QED
  BY <1>1, <1>2, <1>3, <1>4, <1>5, <1>6 DEF Request

LEMMA StepPoints == IInv /\ IInv' /\ Paced /\ Points /\ [Next]_vars => Points'
<1> SUFFICES ASSUME IInv, IInv', Paced, Points, [Next]_vars
             PROVE  Points'
  OBVIOUS
<1>1. CASE Signal
  <2>1. /\ UNCHANGED <<sema, bar, next, decoderWritePointer, buf_size, queue, intact>>
        /\ pc \in {"down", "asleep"} /\ pc' = "idle"
    BY <1>1 DEF Signal, Return, channel, buffer, history
  <2>2. Position' = Position
    BY <2>1 DEF Position
  <2> QED
    BY <2>1, <2>2, PointsKept DEF Filling, Writing
<1>2. CASE CopyFaults
  BY <1>2 DEF CopyFaults, Points
<1>3. CASE UNCHANGED vars
  <2>1. UNCHANGED <<sema, bar, next, decoderWritePointer, AvaliableUserBytes, buf_size, pc,
                    call, queue, intact>>
    BY <1>3 DEF vars, channel, buffer, history
  <2>2. Position' = Position
    BY <2>1 DEF Position
  <2> QED
    BY <2>1, <2>2, PointsSame
<1> QED
  BY <1>1, <1>2, <1>3, PointsPlay, PointsIsr, PointsCaller, PointsRequest DEF Next

\* fillDecoderBuffer's write pointer is always where the queue ends.
THEOREM PointsAlways == Spec => []Points
<1>1. Init => Points
  <2> SUFFICES ASSUME Init PROVE Points
    OBVIOUS
  <2>1. /\ Position = 0 /\ Len(queue) = 0 /\ decoderWritePointer = 0 /\ pc = "idle"
    BY DEF Init, Position
  <2>2. End = 0
    BY <2>1 DEF End
  <2> QED
    BY <2>1, <2>2 DEF Points, Moved, Writing, Filling
<1> QED
  BY <1>1, StepPoints, Inductive, PacedAlways, PTL DEF Spec

----------------------------------------------------------------------------
(* Contents: what lies in the ring                                         *)

\* Steps that leave ring, channel and queue alone.
LEMMA ContentsKept ==
  ASSUME Contents, Position' = Position, UNCHANGED <<ring, buf_size, stamp>>,
         intact' => intact /\ queue' = queue,
         Copied' = 0 \/ (Copied' = Copied /\ End' = End)
  PROVE  Contents'
<1> SUFFICES ASSUME intact' PROVE Contents'
  BY DEF Contents
<1>1. /\ \A i \in 1 .. Len(queue) : ring[Wrap(Position + i - 1)] = queue[i]
      /\ \A i \in 1 .. Copied : ring[End + i - 1] = Units(Copied)[i]
  BY DEF Contents
<1>2. \A i \in 1 .. Len(queue') : ring'[(Wrap(Position + i - 1))'] = queue'[i]
  BY <1>1 DEF Wrap
<1>3. \A i \in 1 .. Copied' : ring'[End' + i - 1] = (Units(Copied))'[i]
  BY <1>1 DEF Units
<1> QED
  BY <1>2, <1>3 DEF Contents

LEMMA ContentsEmptied ==
  ASSUME intact' => queue' = << >> /\ Copied' = 0
  PROVE  Contents'
BY DEF Contents

\* What the fill has copied ends before the ring does.
LEMMA CopiedFits ==
  ASSUME IInv, pc \in Filling
  PROVE  /\ pc \in {"copy1", "add1"} => call.at + call.n1 <= buf_size
         /\ call.n2 <= buf_size
         /\ End + Copied <= buf_size /\ Copied <= Pending
<1>1. call.at + call.n1 <= buf_size /\ call.n2 <= call.at
  BY DEF IInv, CallOK
<1>2. /\ call.at \in Nat /\ call.n1 \in Nat /\ call.n2 \in Nat /\ buf_size \in Nat
      /\ decoderWritePointer \in Nat
  BY Numbers
<1>3. pc \in {"copy1", "add1", "copy2", "add2"}
  BY DEF Filling
<1>4. pc = "copy2" => End = 0 /\ Copied = 0 /\ Pending = call.n2
  BY DEF End, Copied, Pending
<1>5. pc = "add2" => End = 0 /\ Copied = call.n2 /\ Pending = call.n2
  BY DEF End, Copied, Pending
<1>6. pc = "copy1" => End = call.at /\ Copied = 0 /\ Pending = call.n1 + call.n2
  BY DEF End, Copied, Pending
<1>7. pc = "add1" => End = call.at /\ Copied = call.n1 /\ Pending = call.n1 + call.n2
  BY DEF End, Copied, Pending
<1> QED
  BY <1>1, <1>2, <1>3, <1>4, <1>5, <1>6, <1>7

LEMMA ContentsPlay ==
  ASSUME IInv, Paced, Contents, Play
  PROVE  Contents'
<1> SUFFICES ASSUME intact' PROVE Contents'
  BY DEF Contents
<1>1. /\ intact /\ queue # << >> /\ queue' = Tail(queue)
      /\ UNCHANGED <<ring, decoderWritePointer, buf_size, pc, call, stamp>>
  BY DEF Play, buffer
<1>2. Position' = IF Position + 1 = buf_size THEN 0 ELSE Position + 1
  BY <1>1, PositionPlayed
<1>3. /\ Len(queue) \in Nat /\ Position \in Nat /\ buf_size \in Nat
      /\ Len(queue') = Len(queue) - 1
  BY <1>1, Numbers, QueueType
<1>4. Position < buf_size /\ Len(queue) <= buf_size
  BY <1>1, <1>3, Fits, Numbers, SMTT(30)
<1>5. ASSUME NEW i \in 1 .. Len(queue')
      PROVE  ring'[(Wrap(Position + i - 1))'] = queue'[i]
  <2>1. i + 1 \in 1 .. Len(queue)
    BY <1>3
  <2>2. queue'[i] = queue[i + 1]
    BY <1>1, <1>3, Numbers, HeadTailProperties DEF TypeOK
  <2>3. (Wrap(Position + i - 1))' = Wrap(Position + (i + 1) - 1)
    BY <1>1, <1>2, <1>3, <1>4 DEF Wrap
  <2>4. ring[Wrap(Position + (i + 1) - 1)] = queue[i + 1]
    BY <1>1, <2>1 DEF Contents
  <2> QED
    BY <1>1, <2>2, <2>3, <2>4
<1>6. End' = End /\ Copied' = Copied
  BY <1>1 DEF End, Copied
<1>7. \A i \in 1 .. Copied' : ring'[End' + i - 1] = (Units(Copied))'[i]
  BY <1>1, <1>6 DEF Contents, Units
<1> QED
  BY <1>5, <1>7 DEF Contents

\* What was played and not yet cleared is apart from what is queued and from
\* what the fill in progress has copied: b, l and n are where the channel is,
\* where the handler last saw it, and the size of the ring.
LEMMA Apart ==
  ASSUME NEW b \in Nat, NEW l \in Nat, NEW n \in Nat, NEW k \in Nat, NEW c \in Nat,
         b <= n, l <= n,
         c <= IF b >= l THEN b - l ELSE n - l + b,
         k + (IF b >= l THEN b - l ELSE n - l + b) < n,
         NEW p \in Nat, p = IF b >= n THEN b - n ELSE b
  PROVE  (IF p + k >= n THEN p + k - n ELSE p + k) \notin l .. l + c - 1
<1>1. CASE b >= l
  <2>1. CASE b = n
    BY <1>1, <2>1
  <2>2. CASE b < n
    BY <1>1, <2>2
  <2> QED
    BY <2>1, <2>2
<1>2. CASE b < l
  BY <1>2
<1> QED
  BY <1>1, <1>2

LEMMA NotCleared ==
  ASSUME IInv, Paced, intact, initDevice,
         NEW c \in Nat, c <= Behind,
         NEW k \in Nat, k < Len(queue) + Pending
  PROVE  /\ Wrap(Position + k) \in Memory
         /\ Cleared(c)[Wrap(Position + k)] = ring[Wrap(Position + k)]
<1>1. /\ buf_size \in Nat /\ MemorySize \in Nat /\ buf_size <= MemorySize
      /\ bar \in Nat /\ lastDMAPosition \in Nat /\ Position \in Nat
      /\ Len(queue) \in Nat /\ Pending \in Nat
  BY Numbers
<1>2. /\ bar <= buf_size /\ lastDMAPosition <= buf_size /\ Position < buf_size
      /\ Position = Wrap(bar) /\ Behind \in Nat
      /\ Len(queue) + Pending + Behind <= buf_size
  BY Fits
<1>3. k + Behind < buf_size
  BY <1>1, <1>2
<1>4. Wrap(Position + k) \notin lastDMAPosition .. lastDMAPosition + c - 1
  <2> DEFINE b == bar
             l == lastDMAPosition
             n == buf_size
             p == Position
  <2>1. /\ b \in Nat /\ l \in Nat /\ n \in Nat /\ p \in Nat /\ b <= n /\ l <= n
        /\ c <= IF b >= l THEN b - l ELSE n - l + b
        /\ k + (IF b >= l THEN b - l ELSE n - l + b) < n
        /\ p = IF b >= n THEN b - n ELSE b
    BY <1>1, <1>2, <1>3 DEF Behind, Wrap
  <2> HIDE DEF b, l, n, p
  <2>2. (IF p + k >= n THEN p + k - n ELSE p + k) \notin l .. l + c - 1
    BY <2>1, Apart
  <2>3. Wrap(Position + k) = IF p + k >= n THEN p + k - n ELSE p + k
    BY <1>1 DEF n, p, Wrap
  <2> QED
    BY <2>2, <2>3 DEF l
<1>5. Wrap(Position + k) \in Memory
  BY <1>1, <1>2, <1>3 DEF Wrap, Memory
<1> QED
  BY <1>4, <1>5 DEF Cleared

\* The handler clears what was played and nothing else.
LEMMA ContentsMore ==
  ASSUME IInv, Paced, Points, Contents, irq = TRUE, IsrMore
  PROVE  Contents'
<1> SUFFICES ASSUME intact' PROVE Contents'
  BY DEF Contents
<1>1. /\ intact /\ UNCHANGED <<decoderWritePointer, buf_size, pc, call, queue, stamp>>
      /\ Increment(1) /\ 1 \in Nat \ {0}
  BY DEF IsrMore, history
<1>2. initDevice
  BY DEF IInv, Stopped
<1>3. Position' = Position
  BY <1>1, Numbers, PositionHeld
<1>4. PICK cur \in {bar, bar'} : updateDacBytes(cur)
  BY DEF IsrMore
<1>5. ring' = ring \/ (Consumed(cur) \in Nat /\ Consumed(cur) <= Behind
                        /\ ring' = Cleared(Consumed(cur)))
  <2>1. /\ bar \in Nat /\ buf_size \in Nat /\ lastDMAPosition \in Nat
        /\ bar <= buf_size /\ lastDMAPosition <= buf_size /\ chain = buf_size
    BY <1>1, <1>2, Fits, Numbers
  <2>2. cur = bar \/ (cur = 0 /\ bar = buf_size)
    <3>1. /\ sema \in Nat /\ chain \in Sizes /\ next \in Nat
          /\ next < chain /\ next % Block = 0 /\ next = Follows
      BY <1>1, <1>2, Numbers, Known DEF TypeOK, Paced
    <3>2. UNCHANGED chain
      BY DEF IsrMore
    <3>3. bar' = bar \/ (bar' = 0 /\ bar = chain)
      BY <1>1, <2>1, <3>1, <3>2, FollowedOn
    <3> QED
      BY <1>4, <2>1, <3>3
  <2>3. Consumed(cur) \in Nat /\ Consumed(cur) <= Behind
    BY <2>1, <2>2 DEF Consumed, Behind
  <2> QED
    BY <1>4, <2>3 DEF updateDacBytes, subDecoderValidBytes
<1>6. /\ Len(queue) \in Nat /\ Pending \in Nat /\ Copied \in Nat /\ Position \in Nat
      /\ buf_size \in Nat
  BY Numbers
<1>7. ASSUME NEW k \in Nat, k < Len(queue) + Pending
      PROVE  ring'[Wrap(Position + k)] = ring[Wrap(Position + k)]
  BY <1>1, <1>2, <1>5, <1>7, NotCleared
<1>8. ASSUME NEW i \in 1 .. Len(queue')
      PROVE  ring'[(Wrap(Position + i - 1))'] = queue'[i]
  <2>1. (i - 1) \in Nat /\ i - 1 < Len(queue) + Pending /\ i \in 1 .. Len(queue)
        /\ Position + (i - 1) = Position + i - 1
    BY <1>1, <1>6
  <2>2. ring'[Wrap(Position + i - 1)] = ring[Wrap(Position + i - 1)]
    BY <1>7, <2>1
  <2>3. (Wrap(Position + i - 1))' = Wrap(Position + i - 1)
    BY <1>1, <1>3 DEF Wrap
  <2>4. ring[Wrap(Position + i - 1)] = queue[i]
    BY <1>1, <2>1 DEF Contents
  <2> QED
    BY <1>1, <2>2, <2>3, <2>4
<1>9. End' = End /\ Copied' = Copied
  BY <1>1 DEF End, Copied
<1>10. ASSUME NEW i \in 1 .. Copied'
       PROVE  ring'[End' + i - 1] = (Units(Copied))'[i]
  <2>1. pc \in Filling
    BY <1>9 DEF Copied, Filling
  <2>2. /\ End + Copied <= buf_size /\ Copied <= Pending
        /\ End \in 0 .. buf_size - 1
    BY <1>1, <2>1, CopiedFits, EndInRing
  <2>3. i \in 1 .. Copied
    BY <1>9
  <2>4. /\ Len(queue) + i - 1 \in Nat /\ Len(queue) + i - 1 < Len(queue) + Pending
        /\ End + i - 1 = Wrap(Position + (Len(queue) + i - 1))
    <3>1. Position + Len(queue) = End \/ Position + Len(queue) = End + buf_size
      BY <1>1 DEF Points
    <3> QED
      BY <1>6, <2>2, <2>3, <3>1 DEF Wrap
  <2>5. ring'[End + i - 1] = ring[End + i - 1]
    BY <1>7, <2>4
  <2>6. ring[End + i - 1] = Units(Copied)[i]
    BY <1>1, <2>3 DEF Contents
  <2>7. (Units(Copied))' = Units(Copied)
    BY <1>1, <1>9 DEF Units
  <2> QED
    BY <1>9, <2>5, <2>6, <2>7
<1> QED
  BY <1>8, <1>10 DEF Contents

\* Copies go where nothing is queued: e is where the queue ends.
LEMMA Beyond ==
  ASSUME NEW p \in Nat, NEW n \in Nat, NEW e \in Nat, NEW m \in Nat, NEW q \in Nat,
         p < n, p + q = e \/ p + q = e + n, q + m <= n, e + m <= n,
         NEW i \in 1 .. q
  PROVE  (IF p + i - 1 >= n THEN p + i - 1 - n ELSE p + i - 1) \notin e .. e + m - 1
<1>1. CASE p + q = e
  BY <1>1
<1>2. CASE p + q = e + n
  BY <1>2
<1> QED
  BY <1>1, <1>2

LEMMA ContentsCopy ==
  ASSUME IInv, Paced, Points, Contents, Copy1 \/ Copy2
  PROVE  Contents'
<1> SUFFICES ASSUME intact' PROVE Contents'
  BY DEF Contents
<1>1. PICK n \in {call.n1, call.n2} :
        /\ CopyTo(End, n) /\ Copied' = n /\ End' = End /\ n <= Pending
        /\ End + n <= buf_size
  <2>1. /\ call.n1 \in Nat /\ call.n2 \in Nat /\ buf_size \in Nat
    BY Numbers
  <2>2. pc \in {"copy1", "copy2"} /\ pc \in Filling /\ call' = call
    BY DEF Copy1, Copy2, CopyTo, Filling
  <2>3. /\ pc = "copy1" => call.at + call.n1 <= buf_size
        /\ call.n2 <= buf_size
    BY <2>2, CopiedFits
  <2>4. CASE Copy1
    <3>1. /\ End = call.at /\ End' = call.at /\ Copied' = call.n1
          /\ Pending = call.n1 + call.n2 /\ CopyTo(call.at, call.n1) /\ pc = "copy1"
      BY <2>2, <2>4 DEF Copy1, End, Copied, Pending
    <3>2. CopyTo(End, call.n1)
      BY <3>1
    <3> QED
      BY <2>1, <2>3, <3>1, <3>2
  <2>5. CASE Copy2
    <3>1. /\ End = 0 /\ End' = 0 /\ Copied' = call.n2
          /\ Pending = call.n2 /\ CopyTo(0, call.n2)
      BY <2>2, <2>5 DEF Copy2, End, Copied, Pending
    <3>2. CopyTo(End, call.n2)
      BY <3>1
    <3> QED
      BY <2>1, <2>3, <3>1, <3>2
  <2> QED
    BY <2>4, <2>5
<1>2. /\ intact /\ UNCHANGED <<sema, bar, next, buf_size, queue, stamp>>
      /\ ring' = [p \in Memory |-> IF p \in End .. End + n - 1 THEN Units(n)[p - End + 1]
                                 ELSE ring[p]]
  BY <1>1 DEF CopyTo, channel, history
<1>3. Position' = Position
  BY <1>2 DEF Position
<1>4. /\ n \in Nat /\ buf_size \in Nat /\ MemorySize \in Nat /\ buf_size <= MemorySize
      /\ Position \in Nat /\ Len(queue) \in Nat /\ Pending \in Nat
  BY Numbers
<1>5. /\ Position < buf_size /\ Len(queue) + Pending <= buf_size
      /\ End \in 0 .. buf_size - 1
      /\ Position + Len(queue) = End \/ Position + Len(queue) = End + buf_size
  BY <1>2, Fits, EndInRing DEF Points
<1>6. ASSUME NEW i \in 1 .. Len(queue')
      PROVE  ring'[(Wrap(Position + i - 1))'] = queue'[i]
  <2>1. i \in 1 .. Len(queue)
    BY <1>2
  <2> DEFINE w == Wrap(Position + i - 1)
  <2>2. w \in Memory
    BY <1>4, <1>5, <2>1 DEF Wrap, Memory
  <2>3. w \notin End .. End + n - 1
    <3> DEFINE p == Position
               s == buf_size
               e == End
               q == Len(queue)
    <3>1. /\ p \in Nat /\ s \in Nat /\ e \in Nat /\ q \in Nat /\ p < s
          /\ p + q = e \/ p + q = e + s
          /\ q + n <= s /\ e + n <= s /\ i \in 1 .. q
      BY <1>1, <1>4, <1>5, <2>1
    <3>2. w = IF p + i - 1 >= s THEN p + i - 1 - s ELSE p + i - 1
      BY <1>4, <2>1 DEF Wrap
    <3> HIDE DEF p, s, e, q, w
    <3>3. (IF p + i - 1 >= s THEN p + i - 1 - s ELSE p + i - 1) \notin e .. e + n - 1
      BY <1>4, <3>1, Beyond
    <3> QED
      BY <3>2, <3>3 DEF e
  <2>4. w' = w
    BY <1>2, <1>3 DEF Wrap
  <2>5. ring[w] = queue[i]
    BY <1>2, <2>1 DEF Contents
  <2> HIDE DEF w
  <2>6. ring'[w] = ring[w]
    BY <1>2, <2>2, <2>3
  <2> QED
    BY <1>2, <2>4, <2>5, <2>6 DEF w
<1>7. ASSUME NEW i \in 1 .. Copied'
      PROVE  ring'[End' + i - 1] = (Units(Copied))'[i]
  <2>1. i \in 1 .. n /\ End' = End
    BY <1>1
  <2>2. /\ End + i - 1 \in Memory /\ End + i - 1 \in End .. End + n - 1
        /\ (End + i - 1) - End + 1 = i
    BY <1>1, <1>4, <1>5, <2>1 DEF Memory
  <2>3. ring'[End + i - 1] = Units(n)[(End + i - 1) - End + 1]
    BY <1>2, <2>2
  <2>4. (Units(Copied))' = Units(n)
    BY <1>1, <1>2 DEF Units
  <2> QED
    BY <2>1, <2>2, <2>3, <2>4
<1> QED
  BY <1>6, <1>7 DEF Contents

\* What is counted is what was copied, and joins the queue at its end.
LEMMA ContentsAdd ==
  ASSUME IInv, Paced, Points, Contents, Add1 \/ Add2
  PROVE  Contents'
<1> SUFFICES ASSUME intact' PROVE Contents'
  BY DEF Contents
<1>1. Add(Copied) /\ Copied' = 0 /\ pc \in Filling
  BY DEF Add1, Add2, Copied, Filling
<1>2. /\ intact /\ UNCHANGED <<sema, bar, next, ring, buf_size>>
      /\ queue' = queue \o Units(Copied)
  BY <1>1 DEF Add, channel
<1>3. Position' = Position
  BY <1>2 DEF Position
<1>4. /\ Copied \in Nat /\ buf_size \in Nat /\ Position \in Nat /\ Len(queue) \in Nat
      /\ TypeOK
  BY Numbers
<1> DEFINE u == Units(Copied)
<1>5. /\ u \in Seq(0 .. Samples) /\ Len(u) = Copied /\ queue \in Seq(0 .. Samples)
  BY <1>4, UnitsType DEF TypeOK
<1>6. /\ Position < buf_size /\ End \in 0 .. buf_size - 1 /\ End + Copied <= buf_size
      /\ Position + Len(queue) = End \/ Position + Len(queue) = End + buf_size
  BY <1>1, <1>2, Fits, EndInRing, CopiedFits DEF Points
<1> HIDE DEF u
<1>7. /\ Len(queue \o u) = Len(queue) + Copied
      /\ \A i \in 1 .. Len(queue) + Copied :
           (queue \o u)[i] = IF i <= Len(queue) THEN queue[i] ELSE u[i - Len(queue)]
  BY <1>5, ConcatProperties
<1>8. ASSUME NEW i \in 1 .. Len(queue')
      PROVE  ring'[(Wrap(Position + i - 1))'] = queue'[i]
  <2>1. queue' = queue \o u /\ i \in 1 .. Len(queue) + Copied
    BY <1>2, <1>7 DEF u
  <2>2. (Wrap(Position + i - 1))' = Wrap(Position + i - 1)
    BY <1>2, <1>3 DEF Wrap
  <2>3. CASE i <= Len(queue)
    <3>1. i \in 1 .. Len(queue)
      BY <1>4, <2>1, <2>3
    <3>2. ring[Wrap(Position + i - 1)] = queue[i]
      BY <1>2, <3>1 DEF Contents
    <3> QED
      BY <1>2, <1>7, <2>1, <2>2, <2>3, <3>2
  <2>4. CASE ~ i <= Len(queue)
    <3>1. i - Len(queue) \in 1 .. Copied
      BY <1>4, <2>1, <2>4
    <3>2. Wrap(Position + i - 1) = End + (i - Len(queue)) - 1
      <4>1. i \in Nat /\ End \in Nat /\ Copied \in Nat
        BY <1>4, <1>6, <2>1
      <4>2. CASE Position + Len(queue) = End
        BY <1>4, <1>6, <3>1, <4>1, <4>2 DEF Wrap
      <4>3. CASE Position + Len(queue) = End + buf_size
        BY <1>4, <1>6, <3>1, <4>1, <4>3 DEF Wrap
      <4> QED
        BY <1>6, <4>2, <4>3
    <3>3. ring[End + (i - Len(queue)) - 1] = u[i - Len(queue)]
      BY <1>2, <3>1 DEF Contents, u
    <3> QED
      BY <1>2, <1>7, <2>1, <2>2, <2>4, <3>2, <3>3
  <2> QED
    BY <2>3, <2>4
<1> QED
  BY <1>1, <1>8 DEF Contents

LEMMA ContentsClose ==
  ASSUME IInv, Paced, Contents, Close
  PROVE  Contents'
<1> SUFFICES ASSUME intact' PROVE Contents'
  BY DEF Contents
<1>1. /\ intact /\ UNCHANGED <<sema, bar, next, buf_size>> /\ ring' = Silence
      /\ queue' = [i \in DOMAIN queue |-> 0] /\ pc' = "closed"
  BY DEF Close, channel
<1>2. Copied' = 0
  BY <1>1 DEF Copied
<1>3. Position' = Position
  BY <1>1 DEF Position
<1>4. /\ Position \in Nat /\ buf_size \in Nat /\ Len(queue) \in Nat /\ MemorySize \in Nat
      /\ buf_size <= MemorySize /\ Position < buf_size /\ Len(queue) <= buf_size
  BY <1>1, Fits, Numbers, SMTT(30)
<1>5. Len(queue') = Len(queue) /\ DOMAIN queue = 1 .. Len(queue)
  BY <1>1, Numbers, SilencedType, LenProperties DEF TypeOK
<1>6. ASSUME NEW i \in 1 .. Len(queue')
      PROVE  ring'[(Wrap(Position + i - 1))'] = queue'[i]
  <2>1. i \in DOMAIN queue /\ i \in 1 .. Len(queue)
    BY <1>5
  <2>2. queue'[i] = 0
    BY <1>1, <2>1
  <2>3. (Wrap(Position + i - 1))' \in Memory
    BY <1>1, <1>3, <1>4, <2>1 DEF Wrap, Memory
  <2> QED
    BY <1>1, <2>2, <2>3 DEF Silence
<1> QED
  BY <1>2, <1>6 DEF Contents

LEMMA ContentsIsr ==
  ASSUME IInv, Paced, Points, Contents, Isr
  PROVE  Contents'
<1>0. irq => irq = TRUE
  BY Numbers DEF TypeOK
<1>1. CASE irq /\ IsrMore
  BY <1>0, <1>1, ContentsMore
<1>2. CASE IsrRemain \/ IsrAcknowledge
  <2>1. /\ UNCHANGED <<sema, bar, next, decoderWritePointer, ring, buf_size, pc, call,
                       queue, intact, stamp>>
    BY <1>2 DEF IsrRemain, IsrAcknowledge, history, buffer
  <2>2. Position' = Position /\ End' = End /\ Copied' = Copied
    BY <2>1 DEF Position, End, Copied
  <2> QED
    BY <2>1, <2>2, ContentsKept
<1>3. CASE IsrStop
  <2>1. /\ queue' = << >> /\ pc' = pc /\ (intact' => pc \notin Filling)
    BY <1>3 DEF IsrStop
  <2>2. intact' => Copied' = 0
    BY <2>1 DEF Copied, Filling
  <2> QED
    BY <2>1, <2>2, ContentsEmptied
<1>4. CASE irq /\ IsrOverrun
  <2>1. ~ intact'
    BY <1>0, <1>4, Overran DEF history
  <2> QED
    BY <2>1 DEF Contents
<1> QED
  BY <1>1, <1>2, <1>3, <1>4 DEF Isr

LEMMA ContentsCaller ==
  ASSUME IInv, Paced, Points, Contents, Caller
  PROVE  Contents'
<1>1. CASE FilledFirst
  <2>1. /\ UNCHANGED <<ring, buf_size, queue, intact, stamp>> /\ pc' \in {"down", "idle"}
    BY <1>1 DEF FilledFirst, WaitForSpace, Return, history
  <2>2. Position' = Position
    <3>1. CASE StartChannel
      <4>1. Increment(2) /\ 2 \in Nat \ {0}
        BY <3>1 DEF StartChannel
      <4> QED
        BY <4>1, Numbers, PositionHeld
    <3>2. CASE UNCHANGED channel
      BY <3>2 DEF channel, Position
    <3> QED
      BY <1>1, <3>1, <3>2 DEF FilledFirst
  <2>3. Copied' = 0
    BY <2>1 DEF Copied
  <2> QED
    BY <2>1, <2>2, <2>3, ContentsKept
<1>2. CASE \/ FillFirst \/ FillNext \/ FilledDirect \/ FilledLoop \/ FaultLoop
           \/ Drain \/ Woken \/ Drained
  <2>1. /\ UNCHANGED <<sema, bar, next, ring, buf_size, queue, intact, stamp>>
    BY <1>2 DEF FillFirst, FillNext, FilledDirect, FilledLoop, FaultLoop, Drain, Woken,
       Drained, history, buffer, channel
  <2>2. pc' \notin {"add1", "add2"}
    BY <1>2 DEF FillFirst, FillNext, Fill, FilledDirect, FilledLoop, FaultLoop, Drain,
       Woken, Drained, WaitForSpace, Return
  <2>3. Position' = Position /\ Copied' = 0
    BY <2>1, <2>2 DEF Position, Copied
  <2> QED
    BY <2>1, <2>3, ContentsKept
<1>3. CASE StoppedMeanwhile
  <2>1. queue' = << >> /\ pc' = "idle"
    BY <1>3 DEF StoppedMeanwhile, Return
  <2>2. Copied' = 0
    BY <2>1 DEF Copied
  <2> QED
    BY <2>1, <2>2, ContentsEmptied
<1> QED
  BY <1>1, <1>2, <1>3, ContentsCopy, ContentsAdd DEF Caller

LEMMA ContentsRequest ==
  ASSUME IInv, Paced, Contents, Request
  PROVE  Contents'
<1>1. pc' \notin {"add1", "add2"}
  BY DEF Request, Write, Sync, Reset, Close, Open, SetFragment, Begin
<1>2. Copied' = 0
  BY <1>1 DEF Copied
<1>3. CASE Sync
  <2>1. UNCHANGED <<ring, buf_size, queue, intact, stamp>>
    BY <1>3 DEF Sync, history
  <2>2. Position' = Position
    <3>1. CASE StartChannel
      <4>1. Increment(2) /\ 2 \in Nat \ {0}
        BY <3>1 DEF StartChannel
      <4> QED
        BY <4>1, Numbers, PositionHeld
    <3>2. CASE UNCHANGED channel
      BY <3>2 DEF channel, Position
    <3> QED
      BY <1>3, <3>1, <3>2 DEF Sync
  <2> QED
    BY <1>2, <2>1, <2>2, ContentsKept
<1>4. CASE \E w \in Writes : Write(w)
  <2>1. UNCHANGED <<sema, bar, next, ring, buf_size, queue, intact, stamp>>
    BY <1>4 DEF Write, history, channel
  <2>2. Position' = Position
    BY <2>1 DEF Position
  <2> QED
    BY <1>2, <2>1, <2>2, ContentsKept
<1>5. CASE Reset
  <2>1. CASE queue' = << >>
    BY <1>2, <2>1, ContentsEmptied
  <2>2. CASE UNCHANGED <<ring, queue, intact>>
    <3>1. UNCHANGED <<sema, bar, next, buf_size, stamp>>
      BY <1>5 DEF Reset, channel
    <3>2. Position' = Position
      BY <3>1 DEF Position
    <3> QED
      BY <1>2, <2>2, <3>1, <3>2, ContentsKept
  <2> QED
    BY <1>5, <2>1, <2>2 DEF Reset
<1>6. CASE Open
  <2>1. /\ UNCHANGED <<sema, bar, next, ring, stamp>> /\ buf_size' = DefaultSize
        /\ intact' => intact /\ chain = DefaultSize /\ queue' = queue
    BY <1>6 DEF Open, channel
  <2>2. CASE intact'
    <3>1. buf_size' = buf_size
      BY <2>1, <2>2 DEF Paced
    <3>2. Position' = Position
      BY <2>1 DEF Position
    <3> QED
      BY <1>2, <2>1, <3>1, <3>2, ContentsKept
  <2> QED
    BY <2>2 DEF Contents
<1>7. CASE \E s \in Sizes : SetFragment(s)
  <2>1. queue' = << >>
    BY <1>7 DEF SetFragment
  <2> QED
    BY <1>2, <2>1, ContentsEmptied
<1> QED
  BY <1>3, <1>4, <1>5, <1>6, <1>7, ContentsClose DEF Request

LEMMA StepContents ==
  IInv /\ Paced /\ Points /\ Contents /\ [Next]_vars => Contents'
<1> SUFFICES ASSUME IInv, Paced, Points, Contents, [Next]_vars
             PROVE  Contents'
  OBVIOUS
<1>1. CASE Signal
  <2>1. /\ UNCHANGED <<sema, bar, next, ring, buf_size, queue, intact, stamp>>
        /\ pc' = "idle"
    BY <1>1 DEF Signal, Return, channel, buffer, history
  <2>2. Position' = Position /\ Copied' = 0
    BY <2>1 DEF Position, Copied
  <2> QED
    BY <2>1, <2>2, ContentsKept
<1>2. CASE CopyFaults
  BY <1>2 DEF CopyFaults, Contents
<1>3. CASE UNCHANGED vars
  <2>1. UNCHANGED <<sema, bar, next, ring, decoderWritePointer, buf_size, pc, call, queue,
                    intact, stamp>>
    BY <1>3 DEF vars, channel, buffer, history
  <2>2. Position' = Position /\ End' = End /\ Copied' = Copied
    BY <2>1 DEF Position, End, Copied
  <2> QED
    BY <2>1, <2>2, ContentsKept
<1> QED
  BY <1>1, <1>2, <1>3, ContentsPlay, ContentsIsr, ContentsCaller, ContentsRequest DEF Next

\* What is queued, and what the fill in progress has copied, lies in the ring.
THEOREM ContentsAlways == Spec => []Contents
<1>1. Init => Contents
  <2> SUFFICES ASSUME Init PROVE Contents
    OBVIOUS
  <2>1. Copied = 0 /\ Len(queue) = 0
    BY DEF Init, Copied
  <2> QED
    BY <2>1 DEF Contents
<1> QED
  BY <1>1, StepContents, Inductive, PacedAlways, PointsAlways, PTL DEF Spec

\* Sound that stmp_audio_write accepted lies where the DMA channel will play it,
\* in order, whatever the handler clears and the caller copies meanwhile.
THEOREM AcceptedIsPlayedInOrder == Spec => []RingInStep
<1>1. IInv /\ Paced /\ Contents => RingInStep
  <2> SUFFICES ASSUME IInv, Paced, Contents, intact, NEW i \in 1 .. Len(queue)
               PROVE  ring[(Position + i - 1) % buf_size] = queue[i]
    BY DEF RingInStep
  <2>1. /\ Position \in Nat /\ buf_size \in Nat /\ 0 < buf_size /\ Len(queue) \in Nat
        /\ Position < buf_size /\ Len(queue) <= buf_size
    BY Fits, Numbers, SMTT(30)
  <2>2. ring[Wrap(Position + i - 1)] = queue[i]
    BY DEF Contents
  <2>3. (Position + i - 1) % buf_size = Wrap(Position + i - 1)
    <3> DEFINE x == Position + i - 1
               n == buf_size
    <3>1. x \in Nat /\ n \in Nat \ {0} /\ x < 2 * n
      BY <2>1
    <3>2. Wrap(x) = IF x >= n THEN x - n ELSE x
      BY <2>1 DEF Wrap
    <3> HIDE DEF x, n
    <3>3. x % n = IF x >= n THEN x - n ELSE x
      <4>1. CASE x < n
        <5>1. x \in 0 .. n - 1 /\ x = n * 0 + x /\ 0 \in Nat
          BY <3>1, <4>1
        <5>2. (n * 0 + x) % n = x
          BY <3>1, <5>1, Remainder
        <5> QED
          BY <3>1, <4>1, <5>1, <5>2
      <4>2. CASE x >= n
        <5>1. x - n \in 0 .. n - 1 /\ x = n * 1 + (x - n) /\ 1 \in Nat
          BY <3>1, <4>2
        <5>2. (n * 1 + (x - n)) % n = x - n
          BY <3>1, <5>1, Remainder
        <5> QED
          BY <4>2, <5>1, <5>2
      <4> QED
        BY <3>1, <4>1, <4>2
    <3>4. x % n = Wrap(x)
      BY <3>2, <3>3
    <3> QED
      BY <3>4 DEF x, n
  <2> QED
    BY <2>2, <2>3
<1> QED
  BY <1>1, ContentsAlways, PacedAlways, Inductive, PTL
=============================================================================
