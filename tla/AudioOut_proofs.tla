--------------------------- MODULE AudioOut_proofs ---------------------------
(***************************************************************************)
(* The types of AudioOut, and that nothing leaves the ring: by an          *)
(* inductive invariant that says where the channel, the write pointer and  *)
(* the counts are, what holds without sound, and what a write during which *)
(* the sound was stopped may leave behind.                                 *)
(***************************************************************************)
EXTENDS AudioOut, SequenceTheorems, TLAPS

----------------------------------------------------------------------------
(* Division: how far a multiple of the block is from the end of the ring.  *)

LEMMA Quotient ==
  ASSUME NEW a \in Nat, NEW b \in Nat \ {0}
  PROVE  /\ a \div b \in Nat
         /\ a % b \in 0 .. b - 1
         /\ a = b * (a \div b) + (a % b)
OBVIOUS

LEMMA Remainder ==
  ASSUME NEW b \in Nat \ {0}, NEW q \in Nat, NEW r \in 0 .. b - 1
  PROVE  (b * q + r) % b = r
OBVIOUS

LEMMA NextRemainder ==
  ASSUME NEW b \in Nat \ {0}, NEW a \in Nat
  PROVE  (a + 1) % b = IF a % b = b - 1 THEN 0 ELSE (a % b) + 1
<1>1. PICK q \in Nat, r \in 0 .. b - 1 : a = b * q + r /\ a % b = r
  <2>1. a \div b \in Nat /\ a % b \in 0 .. b - 1 /\ a = b * (a \div b) + (a % b)
    BY Quotient
  <2> QED
    BY <2>1
<1>2. CASE r = b - 1
  <2>1. a + 1 = b * (q + 1) + 0
    BY <1>1, <1>2
  <2>2. (b * (q + 1) + 0) % b = 0
    BY Remainder
  <2> QED
    BY <1>1, <1>2, <2>1, <2>2
<1>3. CASE r # b - 1
  <2>1. a + 1 = b * q + (r + 1) /\ r + 1 \in 0 .. b - 1
    BY <1>1, <1>3
  <2>2. (b * q + (r + 1)) % b = r + 1
    BY <2>1, Remainder
  <2> QED
    BY <1>1, <1>3, <2>1, <2>2
<1> QED
  BY <1>2, <1>3

LEMMA NextMultiple ==
  ASSUME NEW b \in Nat \ {0}, NEW x \in Nat, NEW c \in Nat,
         x % b = 0, c % b = 0, x < c
  PROVE  x + b <= c /\ (x + b) % b = 0
<1>1. PICK k \in Nat : x = b * k
  <2>1. x = b * (x \div b) /\ x \div b \in Nat
    BY Quotient
  <2> QED
    BY <2>1
<1>2. PICK l \in Nat : c = b * l
  <2>1. c = b * (c \div b) /\ c \div b \in Nat
    BY Quotient
  <2> QED
    BY <2>1
<1>3. k + 1 <= l
  BY <1>1, <1>2
<1>4. b * (k + 1) <= b * l
  BY <1>3
<1>5. (b * (k + 1) + 0) % b = 0
  BY Remainder
<1> QED
  BY <1>1, <1>2, <1>4, <1>5

\* Counting less keeps a sum within its bound.
LEMMA LessLeft ==
  ASSUME NEW x \in Nat, NEW y \in Nat, NEW p \in Nat, NEW b \in Nat,
         y <= x, x + p <= b
  PROVE  y + p <= b
OBVIOUS

LEMMA SizeFacts ==
  /\ Block \in Nat \ {0}
  /\ DefaultSize \in Sizes /\ Sizes \subseteq Nat
  /\ MemorySize \in Nat \ {0}
  /\ \A s \in Sizes : /\ 2 * Block <= s /\ s % Block = 0
                      /\ s + Block <= MemorySize /\ s < MemorySize
<1>1. \A s \in Sizes : s \in 2 * Block .. MemorySize - Block /\ s % Block = 0
  BY SizeAssumption
<1>2. Block \in Nat \ {0} /\ MemorySize \in Nat
  BY SizeAssumption
<1>3. \A s \in Sizes : /\ s \in Int /\ 2 * Block <= s
                       /\ s + Block <= MemorySize /\ s < MemorySize
  BY <1>1, <1>2
<1> QED
  BY <1>1, <1>2, <1>3, SizeAssumption

(* Where the next descriptor points, in a ring of size c.                  *)
LEMMA NextDescriptor ==
  ASSUME NEW x \in Nat, NEW c \in Sizes, x < c, x % Block = 0
  PROVE  /\ (x + Block) % c = IF x + Block = c THEN 0 ELSE x + Block
         /\ (x + Block) % c \in 0 .. c - 1
         /\ ((x + Block) % c) % Block = 0
<1>1. c \in Nat \ {0} /\ c % Block = 0 /\ Block \in Nat \ {0}
  BY SizeFacts
<1>2. x + Block <= c /\ (x + Block) % Block = 0
  BY <1>1, NextMultiple
<1>3. CASE x + Block = c
  BY <1>1, <1>3
<1>4. CASE x + Block < c
  BY <1>1, <1>2, <1>4
<1> QED
  BY <1>1, <1>2, <1>3, <1>4

(* A unit that does not end a block is not the last one of the ring.       *)
LEMMA InsideRing ==
  ASSUME NEW b \in Nat, NEW c \in Sizes, b < c, (b + 1) % Block # 0
  PROVE  b + 1 < c
BY SizeFacts

----------------------------------------------------------------------------
(* The inductive invariant.                                                *)

\* The handler's stop is noticed in the fills of the loop, not in the others.
InLoop == call.stage = "loop" /\ pc \in {"filled", "fault"} \cup Filling

\* Units that the fill in progress has still to count.
Pending == IF pc \in {"copy1", "add1"} THEN call.n1 + call.n2
           ELSE IF pc \in {"copy2", "add2"} THEN call.n2 ELSE 0

Calls == [cmd : {"none", "write", "sync", "reset", "close", "set_fragment"},
          count : Nat, nonblock : BOOLEAN, stage : {"first", "direct", "loop"},
          at : Nat, n1 : Nat, n2 : Nat, took : Nat, told : Int, cut : BOOLEAN]

CallOK ==
  /\ call \in Calls
  /\ pc = "fill" => call.stage \in {"first", "direct"}
  /\ pc = "fault" => call.stage = "loop"
  /\ call.stage = "first" /\ pc \in {"fill", "filled"} \cup Filling =>
       ~ initDevice /\ active
  /\ call.stage = "direct" /\ pc = "fill" => AvaliableUserBytes \in 0 .. Block - 1
  /\ call.stage = "direct" /\ pc \in Filling => Pending < Block
  /\ pc \in Filling => call.at + call.n1 <= buf_size /\ call.n2 <= call.at

\* The channel: the descriptors go round their ring, and a wrap leads it at
\* most a block past the start until the handler looks at it again.
Channel ==
  /\ next < chain /\ next % Block = 0
  /\ \E c \in Sizes : bar <= c /\ (sema > 0 => bar < c)
  /\ sema <= 2 /\ (irq => sema <= 1)
  /\ next # 0 => bar <= next /\ (sema > 0 => bar < next)
  /\ bar < lastDMAPosition => /\ sema <= 1 /\ bar <= Block /\ next <= Block
                              /\ sema = 1 => bar < Block

\* The channel, the write pointer and the counts are inside the ring, unless it
\* was made smaller.
Placed ==
  ~ shrunk =>
    /\ pc # "overrun"
    /\ chain <= buf_size /\ lastDMAPosition <= chain
    /\ initDevice => bar <= chain
    /\ sema > 0 => bar < chain
    /\ decoderWritePointer < buf_size
    /\ decoderValidBytes + Pending <= buf_size

\* Whether the ring is that of the descriptors, or was made smaller.
Sized ==
  /\ buf_size \in {chain, DefaultSize}
  /\ shrunk /\ ~ initDevice => buf_size < chain
  /\ intact => ~ shrunk

\* Without sound the channel has halted, its descriptors rewound.
Stopped ==
  ~ initDevice => /\ sema = 0 /\ irq = FALSE /\ isr = "none"
                  /\ next = 0 /\ lastDMAPosition = 0

\* A write during which the sound was stopped leaves less than a block, and
\* the write pointer where the smallest ring has it.
Torn ==
  ~ initDevice /\ ~ active /\ ~ InLoop =>
    /\ decoderWritePointer = 0
    /\ decoderValidBytes + Pending < Block
    /\ pc = "fill" => AvaliableUserBytes = 0

IInv == TypeOK /\ CallOK /\ Channel /\ Placed /\ Sized /\ Stopped /\ Torn

----------------------------------------------------------------------------
(* What the operators that the actions share do.                           *)

LEMMA Returned ==
  ASSUME NEW r \in Int, call \in Calls, Return(r)
  PROVE  /\ pc' = "idle" /\ call' \in Calls
         /\ call'.cmd = call.cmd /\ call'.told = r
         /\ call'.took = call.took /\ call'.cut = call.cut
BY DEF Return, NoCall, Calls

LEMMA Begun ==
  ASSUME NEW cmd \in {"sync", "reset", "close", "set_fragment"}, Begin(cmd)
  PROVE  /\ pc = "idle" /\ call' \in Calls
         /\ call'.cmd = cmd /\ call'.stage = "first"
<1>1. pc = "idle" /\ call' = [NoCall EXCEPT !.cmd = cmd]
  BY DEF Begin
<1>2. NoCall \in Calls /\ NoCall.stage = "first"
  BY DEF NoCall, Calls
<1> QED
  BY <1>1, <1>2 DEF Calls

\* Sequences written as functions: the units of a write, a silenced queue.
LEMMA FunctionIsSeq ==
  ASSUME NEW S, NEW n \in Nat, NEW f \in [1 .. n -> S]
  PROVE  f \in Seq(S) /\ Len(f) = n
<1>1. f \in Seq(S)
  BY SeqDef
<1> DEFINE l == Len(f)
<1>2. l \in Nat /\ 1 .. l = 1 .. n
  BY <1>1, LenProperties
<1> HIDE DEF l
<1>3. l > 0 => l \in 1 .. n
  BY <1>2
<1>4. n > 0 => n \in 1 .. l
  BY <1>2
<1>5. l = n
  BY <1>2, <1>3, <1>4
<1> QED
  BY <1>1, <1>5 DEF l

LEMMA UnitsType ==
  ASSUME NEW n \in Nat, stamp \in 0 .. Samples - 1
  PROVE  /\ Units(n) \in Seq(0 .. Samples) /\ Len(Units(n)) = n
         /\ Units(n) \in [1 .. n -> 0 .. Samples]
<1>1. \A i \in 1 .. n : ((stamp + i - 1) % Samples) + 1 \in 0 .. Samples
  <2> SUFFICES ASSUME NEW i \in 1 .. n
               PROVE  ((stamp + i - 1) % Samples) + 1 \in 0 .. Samples
    OBVIOUS
  <2>1. Samples \in Nat \ {0} /\ stamp + i - 1 \in Nat
    BY BoundAssumption
  <2> QED
    BY <2>1
<1>2. Units(n) \in [1 .. n -> 0 .. Samples]
  BY <1>1 DEF Units
<1> QED
  BY <1>2, FunctionIsSeq

LEMMA SilencedType ==
  ASSUME queue \in Seq(0 .. Samples)
  PROVE  /\ [i \in DOMAIN queue |-> 0] \in Seq(0 .. Samples)
         /\ Len([i \in DOMAIN queue |-> 0]) = Len(queue)
<1>1. Len(queue) \in Nat /\ DOMAIN queue = 1 .. Len(queue) /\ 0 \in 0 .. Samples
  BY LenProperties, BoundAssumption
<1>2. [i \in DOMAIN queue |-> 0] \in [1 .. Len(queue) -> 0 .. Samples]
  BY <1>1
<1> QED
  BY <1>1, <1>2, FunctionIsSeq

LEMMA StampType ==
  ASSUME NEW n \in Nat, stamp \in 0 .. Samples - 1
  PROVE  (stamp + n) % Samples \in 0 .. Samples - 1
BY BoundAssumption

LEMMA SilenceType == Silence \in [Memory -> 0 .. Samples]
<1>1. 0 \in 0 .. Samples
  BY BoundAssumption
<1> QED
  BY <1>1 DEF Silence

LEMMA EmptyQueue == << >> \in Seq(0 .. Samples)
OBVIOUS

\* Incrementing the semaphore moves the channel on along its descriptors.
LEMMA Incremented ==
  ASSUME NEW n \in Nat \ {0}, Increment(n), sema \in Nat, chain \in Sizes, next \in Nat,
         next < chain, next % Block = 0
  PROVE  /\ sema' = sema + n
         /\ next' \in Nat /\ next' < chain /\ next' % Block = 0
         /\ sema = 0 => bar' = next /\ next' = IF next + Block = chain THEN 0
                                               ELSE next + Block
         /\ sema # 0 => bar' = bar /\ next' = next
<1>1. /\ (next + Block) % chain = IF next + Block = chain THEN 0 ELSE next + Block
      /\ (next + Block) % chain \in 0 .. chain - 1
      /\ ((next + Block) % chain) % Block = 0
  BY NextDescriptor
<1> QED
  BY <1>1, SizeFacts DEF Increment

\* What a fill decides before it copies.
LEMMA Filled ==
  ASSUME NEW stage \in {"first", "direct", "loop"}, Fill(stage), call \in Calls,
         decoderWritePointer \in Nat, decoderValidBytes \in Nat,
         AvaliableUserBytes \in Int, buf_size \in Nat \ {0}
  PROVE  /\ call' \in Calls /\ call'.stage = stage
         /\ call'.cmd = call.cmd /\ call'.count = call.count
         /\ call'.took = call.took /\ call'.cut = call.cut
         /\ \/ /\ pc' = "filled"
               /\ decoderValidBytes = buf_size
               /\ decoderWritePointer' = decoderWritePointer
            \/ /\ pc' = "overrun"
               /\ decoderWritePointer > buf_size
               /\ decoderWritePointer' = decoderWritePointer
            \/ /\ pc' = "copy1"
               /\ decoderWritePointer' \in 0 .. buf_size - 1
               /\ call'.at + call'.n1 <= buf_size /\ call'.n2 <= call'.at
               /\ decoderValidBytes <= buf_size =>
                    decoderValidBytes + call'.n1 + call'.n2 <= buf_size
               /\ AvaliableUserBytes >= 0 => call'.n1 + call'.n2 <= AvaliableUserBytes
               /\ decoderValidBytes <= buf_size
                    /\ AvaliableUserBytes > call'.n1 + call'.n2 =>
                      decoderValidBytes + call'.n1 + call'.n2 = buf_size
               /\ AvaliableUserBytes = 0 /\ decoderWritePointer < buf_size =>
                    decoderWritePointer' = decoderWritePointer
<1>1. /\ Space \in 0 .. buf_size
      /\ decoderValidBytes <= buf_size => Space = buf_size - decoderValidBytes
      /\ Space = 0 => decoderValidBytes = buf_size
  BY DEF Space
<1>2. CASE Space = 0
  BY <1>1, <1>2 DEF Fill, Calls
<1>4. CASE Space # 0 /\ ToEnd < 0
  BY <1>4 DEF Fill, Calls, ToEnd
<1>3. CASE Space # 0 /\ ~ ToEnd < 0
  <2>1. /\ Taken \in 0 .. Space
        /\ AvaliableUserBytes >= 0 => Taken <= AvaliableUserBytes
        /\ AvaliableUserBytes > Taken => Taken = Space
        /\ AvaliableUserBytes = 0 => Taken = 0
    BY <1>1 DEF Taken, Lesser
  <2>2. ToEnd = buf_size - decoderWritePointer /\ ToEnd \in 0 .. buf_size
    BY <1>3 DEF ToEnd
  <2> HIDE DEF Space, Taken, ToEnd
  <2>3. /\ Lesser(Taken, ToEnd) \in 0 .. ToEnd
        /\ Taken - Lesser(Taken, ToEnd) \in 0 .. decoderWritePointer
    BY <1>1, <2>1, <2>2 DEF Lesser
  <2>4. /\ NewPointer \in 0 .. buf_size - 1
        /\ Taken = 0 /\ decoderWritePointer < buf_size => NewPointer = decoderWritePointer
    BY <1>1, <2>1, <2>2 DEF NewPointer
  <2>5. /\ pc' = "copy1" /\ decoderWritePointer' = NewPointer
        /\ call' = [call EXCEPT !.stage = stage, !.at = decoderWritePointer,
                                !.n1 = Lesser(Taken, ToEnd),
                                !.n2 = Taken - Lesser(Taken, ToEnd)]
    BY <1>3 DEF Fill
  <2> HIDE DEF Lesser, NewPointer
  <2>6. /\ call' \in Calls /\ call'.stage = stage
        /\ call'.cmd = call.cmd /\ call'.count = call.count
        /\ call'.took = call.took /\ call'.cut = call.cut
        /\ call'.at = decoderWritePointer /\ call'.n1 = Lesser(Taken, ToEnd)
        /\ call'.n2 = Taken - Lesser(Taken, ToEnd)
    <3> DEFINE n1 == Lesser(Taken, ToEnd)
               n2 == Taken - Lesser(Taken, ToEnd)
    <3>1. n1 \in Nat /\ n2 \in Nat /\ decoderWritePointer \in Nat
      BY <2>2, <2>3
    <3>2. call' = [call EXCEPT !.stage = stage, !.at = decoderWritePointer,
                               !.n1 = n1, !.n2 = n2]
      BY <2>5
    <3> HIDE DEF n1, n2
    <3>3. /\ call' \in Calls /\ call'.stage = stage
          /\ call'.cmd = call.cmd /\ call'.count = call.count
          /\ call'.took = call.took /\ call'.cut = call.cut
          /\ call'.at = decoderWritePointer /\ call'.n1 = n1 /\ call'.n2 = n2
      BY <3>1, <3>2 DEF Calls
    <3> QED
      BY <3>3 DEF n1, n2
  <2>7. call'.n1 + call'.n2 = Taken
    BY <2>1, <2>3, <2>6
  <2> QED
    BY <1>1, <2>1, <2>2, <2>3, <2>4, <2>5, <2>6, <2>7
<1> QED
  BY <1>2, <1>3, <1>4

\* What a copy writes into the ring.
LEMMA CopiedType ==
  ASSUME NEW at \in Nat, NEW n \in Nat, CopyTo(at, n), TypeOK
  PROVE  ring' \in [Memory -> 0 .. Samples]
<1> DEFINE u == Units(n)
<1>1. u \in [1 .. n -> 0 .. Samples]
  BY UnitsType DEF TypeOK
<1>2. ring' = [p \in Memory |-> IF p \in at .. at + n - 1 THEN u[p - at + 1] ELSE ring[p]]
  BY DEF CopyTo
<1> HIDE DEF u
<1>3. \A p \in Memory : p \in at .. at + n - 1 => p - at + 1 \in 1 .. n
  BY DEF Memory
<1> QED
  BY <1>1, <1>2, <1>3 DEF TypeOK

\* What addDecoderValidBytes adds to what is queued.
LEMMA AddedType ==
  ASSUME NEW n \in Nat, Add(n), TypeOK, call \in Calls
  PROVE  /\ queue' \in Seq(0 .. Samples)
         /\ intact => Len(queue') = Len(queue) + n
         /\ ~ intact => queue' = << >>
         /\ stamp' \in 0 .. Samples - 1
         /\ call' \in Calls /\ call' = [call EXCEPT !.took = @ + n]
<1> DEFINE u == Units(n)
<1>1. u \in Seq(0 .. Samples) /\ Len(u) = n
  BY UnitsType DEF TypeOK
<1>2. queue' = IF intact THEN queue \o u ELSE << >>
  BY DEF Add
<1> HIDE DEF u
<1>3. queue \o u \in Seq(0 .. Samples) /\ Len(queue \o u) = Len(queue) + n
  BY <1>1, ConcatProperties DEF TypeOK
<1>4. stamp' \in 0 .. Samples - 1
  BY StampType DEF Add, TypeOK
<1>5. call' \in Calls /\ call' = [call EXCEPT !.took = @ + n]
  BY SMTT(30) DEF Add, Calls
<1>6. queue' \in Seq(0 .. Samples)
  BY <1>2, <1>3, EmptyQueue
<1> QED
  BY <1>2, <1>3, <1>4, <1>5, <1>6

LEMMA InitIInv == Init => IInv
<1> SUFFICES ASSUME Init PROVE IInv
  OBVIOUS
<1>1. TypeOK
  <2>1. /\ DefaultSize \in Nat \ {0} /\ DefaultSize \in Sizes
        /\ Samples \in Nat \ {0}
    BY SizeFacts, BoundAssumption
  <2>2. << >> \in Seq(0 .. Samples)
    BY EmptyQueue
  <2>3. ring \in [Memory -> 0 .. Samples]
    BY SilenceType DEF Init
  <2>4. queue \in Seq(0 .. Samples)
    BY <2>2 DEF Init
  <2>5. 0 \in Memory /\ 0 \in 0 .. MemorySize /\ 0 \in 0 .. Samples - 1
    BY <2>1, SizeFacts DEF Memory
  <2> QED
    BY <2>1, <2>3, <2>4, <2>5 DEF Init, TypeOK
<1>2. CallOK
  BY SizeFacts DEF Init, CallOK, Calls, NoCall, Filling
<1>3. Placed /\ Stopped /\ Torn
  BY SizeFacts DEF Init, Placed, Stopped, Torn, Pending, Filling
<1>4. Channel
  <2>1. 0 % Block = 0 /\ 0 < DefaultSize /\ DefaultSize \in Sizes /\ DefaultSize \in Nat
    BY SizeFacts
  <2> QED
    BY <2>1 DEF Init, Channel
<1>5. Sized
  BY DEF Init, Sized
<1> QED
  BY <1>1, <1>2, <1>3, <1>4, <1>5 DEF IInv


----------------------------------------------------------------------------
(* Each action keeps the invariant.                                        *)

LEMMA DrainKeeps ==
  ASSUME IInv, Drain
  PROVE  IInv'
<1>a. call' \in Calls /\ pc' \in {"idle", "asleep"}
  BY Returned, 0 \in Int DEF IInv, CallOK, Drain
<1>1. TypeOK'
  BY DEF IInv, TypeOK, Memory, Filling, Drain, Return, channel, buffer, sems,
     history
<1>2. CallOK'
  BY <1>a DEF CallOK, Filling
<1>3. Placed'
  BY DEF IInv, Placed, Pending, TypeOK, Drain, Return, channel, buffer,
     sems, history
<1>4. Stopped' /\ Channel' /\ Sized'
  BY DEF IInv, Stopped, Channel, Sized, Drain, Return, channel, buffer, sems, history
<1>5. Torn'
  BY DEF IInv, Torn, Pending, InLoop, Filling, Drain, Return, channel,
     buffer, sems, history
<1> QED
  BY <1>1, <1>2, <1>3, <1>4, <1>5 DEF IInv

LEMMA WokenKeeps ==
  ASSUME IInv, Woken
  PROVE  IInv'
<1>1. TypeOK'
  BY DEF IInv, TypeOK, Memory, Filling, Woken, channel, buffer, history
<1>2. CallOK'
  BY DEF IInv, CallOK, Filling, Pending, Woken, channel, buffer, history
<1>3. Placed'
  BY DEF IInv, Placed, Pending, TypeOK, Woken, channel, buffer, history
<1>4. Stopped' /\ Channel' /\ Sized'
  BY DEF IInv, Stopped, Channel, Sized, Woken, channel, buffer, history
<1>5. Torn'
  BY DEF IInv, Torn, Pending, InLoop, Filling, Woken, channel, buffer,
     history
<1> QED
  BY <1>1, <1>2, <1>3, <1>4, <1>5 DEF IInv

LEMMA DrainedKeeps ==
  ASSUME IInv, Drained
  PROVE  IInv'
<1>a. call' \in Calls /\ pc' \in {"idle", "drain"}
  BY Returned, 0 \in Int DEF IInv, CallOK, Drained
<1>1. TypeOK'
  BY SMTT(30) DEF IInv, TypeOK, Memory, Filling, Drained, Return, channel, buffer,
     history
<1>2. CallOK'
  BY <1>a DEF CallOK, Filling
<1>3. Placed'
  BY DEF IInv, Placed, Pending, TypeOK, Drained, Return, channel, buffer,
     history
<1>4. Stopped' /\ Channel' /\ Sized'
  BY DEF IInv, Stopped, Channel, Sized, Drained, Return, channel, buffer, history
<1>5. Torn'
  BY DEF IInv, Torn, Pending, InLoop, Filling, Drained, Return, channel,
     buffer, history
<1> QED
  BY <1>1, <1>2, <1>3, <1>4, <1>5 DEF IInv

LEMMA SignalKeeps ==
  ASSUME IInv, Signal
  PROVE  IInv'
<1>a. call' \in Calls /\ pc' = "idle"
  BY Returned, Failed \in Int DEF IInv, CallOK, Signal, Failed
<1>1. TypeOK'
  BY DEF IInv, TypeOK, Memory, Filling, Signal, Return, channel, buffer, sems,
     history
<1>2. CallOK'
  BY <1>a DEF CallOK, Filling
<1>3. Placed'
  BY DEF IInv, Placed, Pending, TypeOK, Signal, Return, channel, buffer,
     sems, history
<1>4. Stopped' /\ Channel' /\ Sized'
  BY DEF IInv, Stopped, Channel, Sized, Signal, Return, channel, buffer, sems, history
<1>5. Torn'
  BY DEF IInv, Torn, Pending, InLoop, Filling, Signal, Return, channel,
     buffer, sems, history
<1> QED
  BY <1>1, <1>2, <1>3, <1>4, <1>5 DEF IInv

LEMMA FilledDirectKeeps ==
  ASSUME IInv, FilledDirect
  PROVE  IInv'
<1>a. call' \in Calls /\ pc' \in {"idle", "down"}
  BY Returned DEF IInv, CallOK, Calls, FilledDirect, WaitForSpace
<1>1. TypeOK'
  BY DEF IInv, TypeOK, Memory, Filling, FilledDirect, WaitForSpace, Return,
     channel, buffer, sems, history
<1>2. CallOK'
  BY <1>a DEF CallOK, Filling
<1>3. Placed'
  BY DEF IInv, Placed, Pending, TypeOK, FilledDirect, WaitForSpace, Return,
     channel, buffer, sems, history
<1>4. Stopped' /\ Channel' /\ Sized'
  BY DEF IInv, Stopped, Channel, Sized, FilledDirect, WaitForSpace, Return, channel, buffer,
     sems, history
<1>5. Torn'
  BY DEF IInv, Torn, Pending, InLoop, Filling, FilledDirect, WaitForSpace,
     Return, channel, buffer, sems, history
<1> QED
  BY <1>1, <1>2, <1>3, <1>4, <1>5 DEF IInv

LEMMA FilledLoopKeeps ==
  ASSUME IInv, FilledLoop
  PROVE  IInv'
<1>a. call' \in Calls /\ pc' \in {"idle", "down"}
  BY Returned DEF IInv, CallOK, Calls, FilledLoop, WaitForSpace
<1>1. TypeOK'
  BY DEF IInv, TypeOK, Memory, Filling, FilledLoop, WaitForSpace, Return,
     channel, buffer, sems, history
<1>2. CallOK'
  BY <1>a DEF CallOK, Filling
<1>3. Placed'
  BY DEF IInv, Placed, Pending, TypeOK, FilledLoop, WaitForSpace, Return,
     channel, buffer, sems, history
<1>4. Stopped' /\ Channel' /\ Sized'
  BY DEF IInv, Stopped, Channel, Sized, FilledLoop, WaitForSpace, Return, channel, buffer,
     sems, history
<1>5. Torn'
  BY DEF IInv, Torn, Pending, InLoop, Filling, FilledLoop, WaitForSpace,
     Return, channel, buffer, sems, history
<1> QED
  BY <1>1, <1>2, <1>3, <1>4, <1>5 DEF IInv

LEMMA FaultLoopKeeps ==
  ASSUME IInv, FaultLoop
  PROVE  IInv'
<1>a. call' \in Calls /\ pc' = "idle"
  <2>1. call.count - AvaliableUserBytes \in Int
    BY DEF IInv, TypeOK, CallOK, Calls
  <2> QED
    BY <2>1, Returned DEF IInv, CallOK, FaultLoop
<1>1. TypeOK'
  BY SMTT(30) DEF IInv, TypeOK, Memory, Filling, FaultLoop, Return, channel, buffer,
     history
<1>2. CallOK'
  BY <1>a DEF CallOK, Filling
<1>3. Placed'
  BY DEF IInv, Placed, Pending, TypeOK, FaultLoop, Return, channel, buffer,
     history
<1>4. Stopped' /\ Channel' /\ Sized'
  BY DEF IInv, Stopped, Channel, Sized, FaultLoop, Return, channel, buffer, history
<1>5. Torn'
  BY DEF IInv, Torn, Pending, InLoop, Filling, FaultLoop, Return, channel,
     buffer, history
<1> QED
  BY <1>1, <1>2, <1>3, <1>4, <1>5 DEF IInv

LEMMA CloseKeeps ==
  ASSUME IInv, Close
  PROVE  IInv'
<1>a. /\ pc = "idle" /\ call' \in Calls /\ call'.stage = "first"
      /\ ring' \in [Memory -> 0 .. Samples] /\ queue' \in Seq(0 .. Samples)
  BY Begun, SilenceType, SilencedType DEF Close, IInv, TypeOK
<1>1. TypeOK'
  BY <1>a DEF IInv, TypeOK, Memory, Filling, Close, channel, sems
<1>2. CallOK'
  BY <1>a DEF IInv, CallOK, Filling, Pending, Close, channel, sems
<1>3. Placed'
  BY <1>a DEF IInv, Placed, Pending, TypeOK, Close, channel, sems
<1>4. Stopped' /\ Channel' /\ Sized'
  BY <1>a DEF IInv, Stopped, Channel, Sized, Close, channel, sems
<1>5. Torn'
  BY <1>a DEF IInv, Torn, Pending, InLoop, Filling, Close, channel, sems
<1> QED
  BY <1>1, <1>2, <1>3, <1>4, <1>5 DEF IInv

LEMMA OpenKeeps ==
  ASSUME IInv, Open
  PROVE  IInv'
<1>a. queue' \in Seq(0 .. Samples) /\ intact' \in BOOLEAN
  BY EmptyQueue DEF Open, IInv, TypeOK
<1>b. /\ pc = "closed" /\ pc' = "idle" /\ buf_size' = DefaultSize
       /\ Pending = 0 /\ Pending' = 0
       /\ UNCHANGED <<channel, ring, decoderWritePointer, decoderValidBytes,
                AvaliableUserBytes, lastDMAPosition, initDevice, active, call>>
  BY DEF Open, Pending
<1>c. /\ buf_size \in Nat /\ chain \in Nat /\ DefaultSize \in Nat
        /\ decoderWritePointer \in Nat /\ decoderValidBytes \in Nat
        /\ shrunk \in BOOLEAN
  BY SizeFacts DEF IInv, TypeOK, Memory
<1>d. /\ shrunk' => shrunk \/ DefaultSize < buf_size
      /\ ~ shrunk' => ~ shrunk /\ ~ DefaultSize < buf_size
      /\ intact' => intact /\ chain = DefaultSize
      /\ intact' \in BOOLEAN /\ shrunk' \in BOOLEAN
  BY DEF Open
<1>1. TypeOK'
  BY <1>a, SizeFacts DEF IInv, TypeOK, Memory, Filling, Open, channel
<1>2. CallOK'
  BY <1>b DEF IInv, CallOK, Filling
<1>3. Placed'
  <2> SUFFICES ASSUME ~ shrunk'
               PROVE  Placed'
    BY DEF Placed
  <2>1. ~ shrunk /\ buf_size <= DefaultSize
    BY <1>c, <1>d
  <2> QED
    BY <1>b, <1>c, <2>1 DEF IInv, Placed, channel
<1>4. Stopped' /\ Channel'
  BY <1>b DEF IInv, Stopped, Channel, channel
<1>6. Sized'
  <2>1. buf_size = chain \/ buf_size = DefaultSize
    BY DEF IInv, Sized
  <2>2. ~ DefaultSize < DefaultSize /\ ~ chain < chain
    BY <1>c
  <2>3. intact' => ~ shrunk'
    BY <1>d, <2>1, <2>2 DEF IInv, Sized
  <2>4. shrunk' /\ ~ initDevice => DefaultSize < chain
    BY <1>d, <2>1, <2>2 DEF IInv, Sized
  <2> QED
    BY <1>b, <2>3, <2>4 DEF Sized, channel
<1>5. Torn'
  <2>1. ~ InLoop
    BY <1>b DEF InLoop, Filling
  <2> QED
    BY <1>b, <2>1 DEF IInv, Torn
<1> QED
  BY <1>1, <1>2, <1>3, <1>4, <1>5, <1>6 DEF IInv

LEMMA IsrRemainKeeps ==
  ASSUME IInv, IsrRemain
  PROVE  IInv'
<1>1. TypeOK'
  BY DEF IInv, TypeOK, Memory, Filling, IsrRemain, buffer, sems, history
<1>2. CallOK'
  BY DEF IInv, CallOK, Filling, Pending, IsrRemain, buffer, sems, history
<1>3. Placed'
  BY DEF IInv, Placed, Pending, TypeOK, IsrRemain, buffer, sems, history
<1>4. Stopped' /\ Channel' /\ Sized'
  BY DEF IInv, Stopped, Channel, Sized, IsrRemain, buffer, sems, history
<1>5. Torn'
  BY DEF IInv, Torn, Pending, InLoop, Filling, IsrRemain, buffer, sems,
     history
<1> QED
  BY <1>1, <1>2, <1>3, <1>4, <1>5 DEF IInv

LEMMA IsrAcknowledgeKeeps ==
  ASSUME IInv, IsrAcknowledge
  PROVE  IInv'
<1>1. TypeOK'
  BY DEF IInv, TypeOK, Memory, Filling, IsrAcknowledge, buffer, sems
<1>2. CallOK'
  BY DEF IInv, CallOK, Filling, Pending, IsrAcknowledge, buffer, sems
<1>3. Placed'
  BY DEF IInv, Placed, Pending, TypeOK, IsrAcknowledge, buffer, sems
<1>4. Stopped' /\ Channel' /\ Sized'
  BY DEF IInv, Stopped, Channel, Sized, IsrAcknowledge, buffer, sems
<1>5. Torn'
  BY DEF IInv, Torn, Pending, InLoop, Filling, IsrAcknowledge, buffer, sems
<1> QED
  BY <1>1, <1>2, <1>3, <1>4, <1>5 DEF IInv

LEMMA Copy1Keeps ==
  ASSUME IInv, Copy1
  PROVE  IInv'
<1>a. ring' \in [Memory -> 0 .. Samples]
  BY CopiedType, call.at \in Nat, call.n1 \in Nat DEF Copy1, IInv, CallOK, Calls
<1>1. TypeOK'
  <2>1. call.n1 \in Nat
    BY DEF IInv, CallOK, Calls
  <2> QED
    BY <1>a, <2>1 DEF IInv, TypeOK, Filling, Copy1, CopyTo, channel, sems, history
<1>2. CallOK'
  BY <1>a DEF IInv, CallOK, Filling, Pending, Copy1, CopyTo, channel, sems,
     history
<1>3. Placed'
  BY <1>a DEF IInv, Placed, Pending, TypeOK, Copy1, CopyTo, channel, sems,
     history
<1>4. Stopped' /\ Channel' /\ Sized'
  BY <1>a DEF IInv, Stopped, Channel, Sized, Copy1, CopyTo, channel, sems, history
<1>5. Torn'
  BY <1>a DEF IInv, Torn, Pending, InLoop, Filling, Copy1, CopyTo, channel,
     sems, history
<1> QED
  BY <1>1, <1>2, <1>3, <1>4, <1>5 DEF IInv

LEMMA Copy2Keeps ==
  ASSUME IInv, Copy2
  PROVE  IInv'
<1>a. ring' \in [Memory -> 0 .. Samples]
  BY CopiedType, 0 \in Nat, call.n2 \in Nat DEF Copy2, IInv, CallOK, Calls
<1>1. TypeOK'
  <2>1. call.n2 \in Nat
    BY DEF IInv, CallOK, Calls
  <2> QED
    BY <1>a, <2>1 DEF IInv, TypeOK, Filling, Copy2, CopyTo, channel, sems, history
<1>2. CallOK'
  BY <1>a DEF IInv, CallOK, Filling, Pending, Copy2, CopyTo, channel, sems,
     history
<1>3. Placed'
  BY <1>a DEF IInv, Placed, Pending, TypeOK, Copy2, CopyTo, channel, sems,
     history
<1>4. Stopped' /\ Channel' /\ Sized'
  BY <1>a DEF IInv, Stopped, Channel, Sized, Copy2, CopyTo, channel, sems, history
<1>5. Torn'
  BY <1>a DEF IInv, Torn, Pending, InLoop, Filling, Copy2, CopyTo, channel,
     sems, history
<1> QED
  BY <1>1, <1>2, <1>3, <1>4, <1>5 DEF IInv

LEMMA Add1Keeps ==
  ASSUME IInv, Add1
  PROVE  IInv'
<1>a. /\ call.n1 \in Nat
      /\ queue' \in Seq(0 .. Samples) /\ stamp' \in 0 .. Samples - 1
      /\ call' \in Calls /\ call' = [call EXCEPT !.took = @ + call.n1]
  <2>1. call.n1 \in Nat /\ call \in Calls /\ TypeOK
    BY DEF IInv, CallOK, Calls
  <2> QED
    BY <2>1, AddedType DEF Add1
<1>b. /\ call'.stage = call.stage /\ call'.at = call.at
       /\ call'.n1 = call.n1 /\ call'.n2 = call.n2
       /\ call.n1 \in Nat /\ call.n2 \in Nat
  BY <1>a DEF IInv, CallOK, Calls
<1>c. /\ pc = "add1" /\ pc' \in {"copy2", "filled"}
        /\ Pending = call.n1 + call.n2 /\ Pending' \in 0 .. call.n2
        /\ decoderValidBytes' = decoderValidBytes + call.n1
        /\ decoderValidBytes \in Nat
        /\ UNCHANGED <<channel, ring, decoderWritePointer, AvaliableUserBytes,
                       lastDMAPosition, initDevice, active, buf_size, sems, intact, shrunk, lost>>
  BY <1>b, SMTT(30) DEF Add1, Add, Pending, IInv, TypeOK
<1>1. TypeOK'
  <2>1. decoderValidBytes' \in Nat
    BY <1>a, <1>b, <1>c
  <2> QED
    BY <1>a, <1>c, <2>1 DEF IInv, TypeOK, Filling, channel, sems
<1>2. CallOK'
  <2>1. pc \in Filling /\ (pc' \in Filling \/ pc' = "filled")
    BY <1>c DEF Filling
  <2>2. pc' \notin {"fill", "fault"}
    BY <1>c
  <2>3. call'.stage = "direct" /\ pc' \in Filling => Pending' < Block
    <3>1. Pending' <= Pending /\ Pending \in Nat /\ Pending' \in Nat /\ Block \in Nat
      BY <1>b, <1>c, SizeFacts
    <3>2. call.stage = "direct" => Pending < Block
      BY <2>1 DEF IInv, CallOK
    <3> QED
      BY <1>b, <3>1, <3>2
  <2>4. call.at + call.n1 <= buf_size /\ call.n2 <= call.at
    BY <2>1 DEF IInv, CallOK
  <2>5. call.stage = "first" => ~ initDevice /\ active
    BY <2>1 DEF IInv, CallOK
  <2> QED
    BY <1>a, <1>b, <1>c, <2>1, <2>2, <2>3, <2>4, <2>5 DEF CallOK
<1>3. Placed'
  <2>1. decoderValidBytes' + Pending' <= decoderValidBytes + Pending
    BY <1>b, <1>c
  <2>2. Placed /\ decoderValidBytes' \in Nat /\ buf_size \in Nat
    BY <1>b, <1>c, SizeFacts, SMTT(30) DEF IInv, TypeOK
  <2> QED
    BY <1>b, <1>c, <2>1, <2>2 DEF Placed, channel
<1>4. Stopped' /\ Channel' /\ Sized'
  BY <1>c DEF IInv, Stopped, Channel, Sized, channel
<1>5. Torn'
  <2>1. decoderValidBytes' + Pending' <= decoderValidBytes + Pending
    BY <1>b, <1>c
  <2>2. InLoop' = InLoop
    BY <1>b, <1>c DEF InLoop, Filling
  <2>3. Torn /\ decoderValidBytes' \in Nat /\ Block \in Nat
    BY <1>b, <1>c, SizeFacts DEF IInv
  <2> QED
    BY <1>b, <1>c, <2>1, <2>2, <2>3 DEF Torn
<1> QED
  BY <1>1, <1>2, <1>3, <1>4, <1>5 DEF IInv

LEMMA Add2Keeps ==
  ASSUME IInv, Add2
  PROVE  IInv'
<1>a. /\ call.n2 \in Nat
      /\ queue' \in Seq(0 .. Samples) /\ stamp' \in 0 .. Samples - 1
      /\ call' \in Calls /\ call' = [call EXCEPT !.took = @ + call.n2]
  <2>1. call.n2 \in Nat /\ call \in Calls /\ TypeOK
    BY DEF IInv, CallOK, Calls
  <2> QED
    BY <2>1, AddedType DEF Add2
<1>b. /\ call'.stage = call.stage /\ call'.at = call.at
       /\ call'.n1 = call.n1 /\ call'.n2 = call.n2
       /\ call.n1 \in Nat /\ call.n2 \in Nat
  BY <1>a DEF IInv, CallOK, Calls
<1>c. /\ pc = "add2" /\ pc' \in {"filled"}
        /\ Pending = call.n2 /\ Pending' \in 0 .. 0
        /\ decoderValidBytes' = decoderValidBytes + call.n2
        /\ decoderValidBytes \in Nat
        /\ UNCHANGED <<channel, ring, decoderWritePointer, AvaliableUserBytes,
                       lastDMAPosition, initDevice, active, buf_size, sems, intact, shrunk, lost>>
  BY <1>b DEF Add2, Add, Pending, IInv, TypeOK
<1>1. TypeOK'
  <2>1. decoderValidBytes' \in Nat
    BY <1>a, <1>b, <1>c
  <2> QED
    BY <1>a, <1>c, <2>1 DEF IInv, TypeOK, Filling, channel, sems
<1>2. CallOK'
  <2>1. pc \in Filling /\ (pc' \in Filling \/ pc' = "filled")
    BY <1>c DEF Filling
  <2>2. pc' \notin {"fill", "fault"}
    BY <1>c
  <2>3. call'.stage = "direct" /\ pc' \in Filling => Pending' < Block
    <3>1. Pending' <= Pending /\ Pending \in Nat /\ Pending' \in Nat /\ Block \in Nat
      BY <1>b, <1>c, SizeFacts
    <3>2. call.stage = "direct" => Pending < Block
      BY <2>1 DEF IInv, CallOK
    <3> QED
      BY <1>b, <3>1, <3>2
  <2>4. call.at + call.n1 <= buf_size /\ call.n2 <= call.at
    BY <2>1 DEF IInv, CallOK
  <2>5. call.stage = "first" => ~ initDevice /\ active
    BY <2>1 DEF IInv, CallOK
  <2> QED
    BY <1>a, <1>b, <1>c, <2>1, <2>2, <2>3, <2>4, <2>5 DEF CallOK
<1>3. Placed'
  <2>1. decoderValidBytes' + Pending' <= decoderValidBytes + Pending
    BY <1>b, <1>c
  <2>2. Placed /\ decoderValidBytes' \in Nat /\ buf_size \in Nat
    BY <1>b, <1>c, SizeFacts DEF IInv, TypeOK
  <2> QED
    BY <1>b, <1>c, <2>1, <2>2 DEF Placed, channel
<1>4. Stopped' /\ Channel' /\ Sized'
  BY <1>c DEF IInv, Stopped, Channel, Sized, channel
<1>5. Torn'
  <2>1. decoderValidBytes' + Pending' <= decoderValidBytes + Pending
    BY <1>b, <1>c
  <2>2. InLoop' = InLoop
    BY <1>b, <1>c DEF InLoop, Filling
  <2>3. Torn /\ decoderValidBytes' \in Nat /\ Block \in Nat
    BY <1>b, <1>c, SizeFacts DEF IInv
  <2> QED
    BY <1>b, <1>c, <2>1, <2>2, <2>3 DEF Torn
<1> QED
  BY <1>1, <1>2, <1>3, <1>4, <1>5 DEF IInv

LEMMA CopyFaultsKeeps ==
  ASSUME IInv, CopyFaults
  PROVE  IInv'
<1>a. /\ call' \in Calls /\ queue' \in Seq(0 .. Samples)
      /\ \/ pc' = "idle"
         \/ pc' = "fault" /\ call' = call /\ call.stage = "loop"
  BY Returned, Failed \in Int, EmptyQueue DEF IInv, CallOK, CopyFaults, Failed
<1>b. /\ pc \in {"copy1", "copy2"} /\ pc' \in {"idle", "fault"}
       /\ Pending \in Nat /\ Pending' = 0
       /\ UNCHANGED <<channel, buffer, sems, stamp, shrunk, lost>>
  BY <1>a DEF CopyFaults, Pending, IInv, CallOK, Calls
<1>c. decoderValidBytes \in Nat /\ buf_size \in Nat /\ Block \in Nat
  BY SizeFacts DEF IInv, TypeOK
<1>1. TypeOK'
  BY <1>a DEF IInv, TypeOK, Memory, Filling, CopyFaults, Return, channel,
     buffer, sems
<1>2. CallOK'
  BY <1>a DEF IInv, CallOK, Filling, Pending, CopyFaults, Return, channel,
     buffer, sems
<1>3. Placed'
  <2>1. decoderValidBytes + Pending' <= decoderValidBytes + Pending
    BY <1>b, <1>c
  <2> QED
    BY <1>b, <1>c, <2>1 DEF IInv, Placed, channel, buffer
<1>4. Stopped' /\ Channel' /\ Sized'
  BY <1>a DEF IInv, Stopped, Channel, Sized, CopyFaults, Return, channel, buffer, sems
<1>5. Torn'
  <2>1. decoderValidBytes + Pending' <= decoderValidBytes + Pending
    BY <1>b, <1>c
  <2>2. pc' = "fault" => InLoop'
    BY <1>a DEF InLoop
  <2>3. ~ InLoop' => pc' = "idle"
    BY <1>b, <2>2
  <2>4. InLoop => call.stage = "loop"
    BY DEF InLoop
  <2>5. CASE call.stage = "loop"
    <3>1. pc' = "fault"
      BY <2>5, <1>b DEF CopyFaults
    <3> QED
      BY <3>1, <2>2 DEF Torn
  <2>6. CASE call.stage # "loop"
    <3> QED
      BY <1>b, <1>c, <2>1, <2>3, <2>4, <2>6 DEF IInv, Torn, buffer
  <2> QED
    BY <2>5, <2>6
<1> QED
  BY <1>1, <1>2, <1>3, <1>4, <1>5 DEF IInv

LEMMA WriteKeeps ==
  ASSUME IInv, NEW w \in Writes, Write(w)
  PROVE  IInv'
<1>a. /\ pc = "idle" /\ w.count \in Nat /\ w.nonblock \in BOOLEAN
      /\ pc' = IF initDevice /\ w.count >= Block THEN "down" ELSE "fill"
  BY BoundAssumption DEF Write
<1>b. /\ call' \in Calls /\ call'.stage = IF initDevice THEN "direct" ELSE "first"
  <2> DEFINE s == IF initDevice THEN "direct" ELSE "first"
  <2>1. call' = [NoCall EXCEPT !.cmd = "write", !.count = w.count,
                               !.nonblock = w.nonblock, !.stage = s]
    BY DEF Write
  <2>2. s \in {"first", "direct"} /\ NoCall \in Calls
    BY DEF NoCall, Calls
  <2> HIDE DEF s
  <2>3. call' \in Calls /\ call'.stage = s
    BY <1>a, <2>1, <2>2 DEF Calls
  <2> QED
    BY <2>3 DEF s
<1>c. /\ AvaliableUserBytes' = w.count /\ Pending = 0 /\ Pending' = 0
        /\ active' = (active \/ ~ initDevice) /\ ~ InLoop
        /\ UNCHANGED <<channel, ring, decoderWritePointer, decoderValidBytes,
                       lastDMAPosition, initDevice, buf_size, sems, history>>
  BY <1>a DEF Write, Pending, InLoop, Filling
<1>1. TypeOK'
  BY <1>a, <1>b DEF IInv, TypeOK, Memory, Filling, Write, channel, sems,
     history
<1>2. CallOK'
  <2>1. pc' \in {"down", "fill"} /\ pc' \notin Filling
    BY <1>a DEF Filling
  <2>2. call'.stage \in {"first", "direct"}
    BY <1>b
  <2>3. call'.stage = "first" /\ pc' \in {"fill", "filled"} \cup Filling =>
          ~ initDevice' /\ active'
    BY <1>b, <1>c DEF IInv, TypeOK
  <2>4. call'.stage = "direct" /\ pc' = "fill" => AvaliableUserBytes' \in 0 .. Block - 1
    <3>1. Block \in Nat
      BY SizeFacts
    <3>2. call'.stage = "direct" => initDevice
      BY <1>b
    <3>3. call'.stage = "direct" /\ pc' = "fill" => ~ w.count >= Block
      BY <1>a, <3>2
    <3> QED
      BY <1>a, <1>c, <3>1, <3>3
  <2> QED
    BY <1>b, <2>1, <2>2, <2>3, <2>4 DEF CallOK, Filling
<1>3. Placed'
  BY <1>a, <1>c DEF IInv, Placed, channel, history
<1>4. Stopped' /\ Channel' /\ Sized'
  BY <1>a, <1>c DEF IInv, Stopped, Channel, Sized, channel, history
<1>5. Torn'
  BY <1>a, <1>c DEF IInv, Torn, TypeOK
<1> QED
  BY <1>1, <1>2, <1>3, <1>4, <1>5 DEF IInv

LEMMA SetFragmentKeeps ==
  ASSUME IInv, NEW s \in Sizes, SetFragment(s)
  PROVE  IInv'
<1>a. /\ pc = "idle" /\ call' \in Calls /\ call'.stage = "first"
      /\ queue' \in Seq(0 .. Samples) /\ pc' = "idle"
  BY Begun, EmptyQueue DEF SetFragment
<1>b. /\ s \in Nat /\ 2 * Block <= s /\ Block \in Nat \ {0}
       /\ 0 % Block = 0 /\ 0 \in Memory
  BY SizeFacts DEF Memory
<1>c. /\ buf_size' = s /\ next' = 0 /\ chain' = s /\ ~ active
      /\ shrunk' \in BOOLEAN /\ intact' \in BOOLEAN
      /\ shrunk' => initDevice
      /\ ~ shrunk' /\ initDevice => ~ shrunk /\ ~ s < buf_size
      /\ intact' => ~ initDevice
      /\ Pending = 0 /\ Pending' = 0 /\ ~ InLoop
      /\ UNCHANGED <<sema, bar, irq, isr, ring, decoderWritePointer,
               decoderValidBytes, AvaliableUserBytes, lastDMAPosition, initDevice,
               active>>
  BY <1>a DEF SetFragment, Pending, InLoop, Filling
<1>d. /\ chain \in Nat /\ buf_size \in Nat /\ bar \in Nat
         /\ lastDMAPosition \in Nat /\ decoderValidBytes \in Nat
         /\ decoderWritePointer \in Nat /\ shrunk \in BOOLEAN /\ initDevice \in BOOLEAN
  BY SizeFacts DEF IInv, TypeOK, Memory
<1>1. TypeOK'
  BY <1>a, <1>b, <1>c, <1>d DEF IInv, TypeOK, Memory, Filling, SetFragment, sems
<1>2. CallOK'
  BY <1>a DEF CallOK, Filling
<1>3. Placed'
  <2>1. CASE initDevice
    <3>1. ~ shrunk' => ~ shrunk /\ buf_size <= s
      BY <1>b, <1>c, <1>d, <2>1
    <3> QED
      BY <1>a, <1>b, <1>c, <1>d, <2>1, <3>1 DEF IInv, Placed
  <2>2. CASE ~ initDevice
    <3>1. /\ lastDMAPosition = 0 /\ sema = 0
          /\ decoderWritePointer = 0 /\ decoderValidBytes < Block
      BY <1>c, <1>d, <2>2 DEF IInv, Stopped, Torn
    <3> QED
      BY <1>a, <1>b, <1>c, <1>d, <2>2, <3>1 DEF Placed
  <2> QED
    BY <2>1, <2>2
<1>4. Channel'
  BY <1>b, <1>c, <1>d DEF IInv, Channel, TypeOK
<1>5. Stopped' /\ Torn' /\ Sized'
  BY <1>a, <1>c DEF IInv, Stopped, Torn, Sized
<1> QED
  BY <1>1, <1>2, <1>3, <1>4, <1>5 DEF IInv


\* A unit played: the channel loads the next descriptor, or goes on in its block.
LEMMA PlayedOn ==
  ASSUME IInv, Play
  PROVE  /\ initDevice /\ pc # "overrun"
         /\ sema' \in Nat /\ bar' \in Nat /\ next' \in Nat /\ irq' \in BOOLEAN
         /\ next' < chain /\ next' % Block = 0
         /\ \/ /\ sema = 2 /\ sema' = 1
               /\ bar' = next
               /\ next' = IF next + Block = chain THEN 0 ELSE next + Block
            \/ /\ bar' = bar + 1 /\ next' = next
               /\ irq' => irq \/ sema' = 0
               /\ \/ sema = 1 /\ sema' = 0
                  \/ sema > 0 /\ sema' = sema /\ bar' % Block # 0
<1>1. initDevice /\ pc # "overrun" /\ sema > 0
  BY DEF IInv, TypeOK, Stopped, Play
<1>2. /\ sema \in Nat /\ bar \in Nat /\ next \in Nat /\ chain \in Sizes /\ chain \in Nat
      /\ next < chain /\ next % Block = 0 /\ sema <= 2
      /\ irq \in BOOLEAN
  BY <1>1, SizeFacts DEF IInv, TypeOK, Channel, Memory
<1>3. /\ (next + Block) % chain = IF next + Block = chain THEN 0 ELSE next + Block
      /\ (next + Block) % chain \in 0 .. chain - 1
      /\ ((next + Block) % chain) % Block = 0
  BY <1>2, NextDescriptor
<1>4. irq' \in BOOLEAN
  BY <1>2 DEF Play
<1>5. CASE (bar + 1) % Block = 0 /\ sema > 1
  BY <1>1, <1>2, <1>3, <1>4, <1>5 DEF Play
<1>6. CASE (bar + 1) % Block = 0 /\ ~ sema > 1
  BY <1>1, <1>2, <1>4, <1>6 DEF Play
<1>7. CASE (bar + 1) % Block # 0
  BY <1>1, <1>2, <1>4, <1>7 DEF Play
<1> QED
  BY <1>5, <1>6, <1>7

LEMMA PlayKeeps ==
  ASSUME IInv, Play
  PROVE  IInv'
<1> DEFINE Loads == /\ sema = 2 /\ sema' = 1
                    /\ bar' = next
                    /\ next' = IF next + Block = chain THEN 0 ELSE next + Block
           GoesOn == /\ bar' = bar + 1 /\ next' = next
                     /\ irq' => irq \/ sema' = 0
                     /\ \/ sema = 1 /\ sema' = 0
                        \/ sema > 0 /\ sema' = sema /\ bar' % Block # 0
<1>a. /\ initDevice /\ pc # "overrun"
      /\ sema' \in Nat /\ bar' \in Nat /\ next' \in Nat /\ irq' \in BOOLEAN
      /\ next' < chain /\ next' % Block = 0
      /\ Loads \/ GoesOn
  BY PlayedOn
<1>b. UNCHANGED <<chain, isr, buffer, sems, pc, call, stamp, shrunk, lost>>
  BY DEF Play
<1>c. /\ sema \in Nat /\ bar \in Nat /\ next \in Nat /\ chain \in Nat
      /\ chain \in Sizes /\ chain < MemorySize /\ MemorySize \in Nat
      /\ Block \in Nat \ {0} /\ lastDMAPosition \in Nat
  BY SizeFacts DEF IInv, TypeOK, Memory
<1>d. /\ next < chain /\ next % Block = 0
      /\ sema <= 2 /\ (irq => sema <= 1)
      /\ next # 0 => bar <= next /\ (sema > 0 => bar < next)
      /\ bar < lastDMAPosition => /\ sema <= 1 /\ bar <= Block /\ next <= Block
                                  /\ sema = 1 => bar < Block
  BY DEF IInv, Channel
\* The channel stays inside any ring it was in, and the one it loads from.
<1>e. \A c \in Sizes : sema > 0 /\ (Loads => c = chain) /\ (GoesOn => bar < c)
                         => bar' <= c /\ (sema' > 0 => bar' < c)
  <2> SUFFICES ASSUME NEW c \in Sizes, sema > 0,
                      Loads => c = chain, GoesOn => bar < c
               PROVE  bar' <= c /\ (sema' > 0 => bar' < c)
    OBVIOUS
  <2>1. c \in Nat
    BY SizeFacts
  <2>2. CASE Loads
    BY <1>c, <1>d, <2>1, <2>2
  <2>3. CASE GoesOn
    <3>1. bar' <= c
      BY <1>c, <2>1, <2>3
    <3>2. bar' % Block # 0 => bar' < c
      BY <1>c, <2>1, <2>3, InsideRing
    <3> QED
      BY <1>c, <2>3, <3>1, <3>2
  <2> QED
    BY <1>a, <2>2, <2>3
<1>f. sema > 0
  <2>1. Loads => sema > 0
    OBVIOUS
  <2>2. GoesOn => sema > 0
    OBVIOUS
  <2> QED
    BY <1>a, <2>1, <2>2
<1>1. TypeOK'
  <2>1. queue' \in Seq(0 .. Samples)
    BY EmptyQueue, HeadTailProperties DEF Play, IInv, TypeOK
  <2>2. bar' \in 0 .. MemorySize
    <3>1. PICK c \in Sizes : bar <= c /\ (sema > 0 => bar < c)
      BY DEF IInv, Channel
    <3>2. Loads => bar' <= chain
      BY <1>c, <1>d
    <3>4. GoesOn => bar' <= c
      BY <1>c, <1>f, <3>1, SizeFacts
    <3>3. c < MemorySize /\ c \in Nat
      BY SizeFacts
    <3> QED
      <4>1. bar' <= chain \/ bar' <= c
        BY <1>a, <3>2, <3>4
      <4> HIDE DEF Loads, GoesOn
      <4> QED
        BY <1>a, <1>c, <3>3, <4>1
  <2>3. next' \in Memory
    BY <1>a, <1>c DEF Memory
  <2>4. intact' \in BOOLEAN
    BY DEF Play, IInv, TypeOK
  <2> QED
    BY <1>a, <1>b, <2>1, <2>2, <2>3, <2>4 DEF IInv, TypeOK, buffer, sems
<1>2. CallOK'
  BY <1>b DEF IInv, CallOK, Filling, Pending, buffer
<1>3. Channel'
  <2>1. \E c \in Sizes : bar' <= c /\ (sema' > 0 => bar' < c)
    <3>1. PICK c \in Sizes : bar <= c /\ (sema > 0 => bar < c)
      BY DEF IInv, Channel
    <3>2. CASE Loads /\ ~ GoesOn
      BY <1>c, <1>e, <1>f, <3>2
    <3>3. CASE ~ Loads
      BY <1>e, <1>f, <3>1, <3>3
    <3>4. CASE Loads /\ GoesOn
      BY <1>c, <3>4
    <3> QED
      BY <3>2, <3>3, <3>4
  <2>2. CASE Loads
    BY <1>a, <1>b, <1>c, <1>d, <2>1, <2>2 DEF Channel, buffer
  <2>3. CASE GoesOn
    <3>1. Block % Block = 0
      BY <1>c
    <3>2. bar' % Block # 0 => bar' # next /\ bar' # Block
      BY <1>d, <3>1
    <3>3. next' # 0 => bar' <= next' /\ (sema' > 0 => bar' < next')
      BY <1>c, <1>d, <2>3, <3>2
    <3>4. bar' < lastDMAPosition => /\ sema' <= 1 /\ bar' <= Block /\ next' <= Block
                                    /\ sema' = 1 => bar' < Block
      BY <1>c, <1>d, <2>3, <3>2
    <3>5. sema' <= 2 /\ (irq' => sema' <= 1)
      BY <1>c, <1>d, <2>3
    <3> QED
      BY <1>a, <1>b, <2>1, <3>3, <3>4, <3>5 DEF Channel, buffer
  <2> QED
    BY <1>a, <2>2, <2>3
<1>4. Placed'
  <2>1. ~ shrunk => bar' <= chain /\ (sema' > 0 => bar' < chain)
    BY <1>c, <1>e, <1>f DEF IInv, Placed
  <2> QED
    BY <1>a, <1>b, <2>1 DEF IInv, Placed, Pending, buffer
<1>5. Stopped' /\ Torn'
  BY <1>a, <1>b DEF Stopped, Torn, buffer
<1>6. Sized'
  <2>1. intact' => intact
    BY DEF Play
  <2> QED
    BY <1>a, <1>b, <2>1 DEF IInv, Sized, buffer
<1> QED
  BY <1>1, <1>2, <1>3, <1>4, <1>5, <1>6 DEF IInv

\* What the handler counts is never more than what there was.
LEMMA Updated ==
  ASSUME NEW cur \in Nat, Mapped(cur), updateDacBytes(cur), TypeOK
  PROVE  /\ ring' \in [Memory -> 0 .. Samples]
         /\ decoderValidBytes' \in Nat /\ decoderValidBytes' <= decoderValidBytes
         /\ lastDMAPosition' = cur
<1>1. /\ lastDMAPosition \in Nat /\ decoderValidBytes \in Nat /\ buf_size \in Nat
      /\ 0 \in 0 .. Samples
  BY BoundAssumption, SizeFacts DEF TypeOK
<1>2. Consumed(cur) \in Nat
  BY <1>1 DEF Consumed, Mapped
<1>3. Cleared(Consumed(cur)) \in [Memory -> 0 .. Samples]
  BY <1>1 DEF Cleared, TypeOK
<1>4. CASE cur = lastDMAPosition /\ cur # 0
  BY <1>1, <1>4 DEF updateDacBytes, subDecoderValidBytes, TypeOK
<1>5. CASE ~ (cur = lastDMAPosition /\ cur # 0)
  BY <1>1, <1>2, <1>3, <1>5 DEF updateDacBytes, subDecoderValidBytes
<1> QED
  BY <1>4, <1>5

LEMMA IsrMoreKeeps ==
  ASSUME IInv, pc # "overrun", irq = TRUE, IsrMore
  PROVE  IInv'
<1>a. /\ initDevice
      /\ UNCHANGED <<chain, isr, decoderWritePointer, AvaliableUserBytes, initDevice,
                     active, buf_size, dac_sem, pc, call, history>>
      /\ irq' = FALSE /\ decoder_sem' = decoder_sem + 1
  BY DEF IInv, Stopped, IsrMore
<1>b. /\ chain \in Sizes /\ chain \in Nat /\ buf_size \in Nat /\ sema \in Nat
      /\ bar \in Nat /\ next \in Nat /\ lastDMAPosition \in Nat
      /\ decoderValidBytes \in Nat /\ MemorySize \in Nat /\ chain < MemorySize
      /\ bar <= MemorySize /\ Block \in Nat \ {0}
  BY SizeFacts DEF IInv, TypeOK, Memory
<1>c. /\ next < chain /\ next % Block = 0 /\ sema <= 1
      /\ next # 0 => bar <= next /\ (sema > 0 => bar < next)
  BY DEF IInv, Channel
<1>d. /\ sema' = sema + 1
      /\ next' \in Nat /\ next' < chain /\ next' % Block = 0
      /\ sema = 0 => bar' = next /\ next' = IF next + Block = chain THEN 0
                                            ELSE next + Block
      /\ sema # 0 => bar' = bar /\ next' = next
  BY <1>b, <1>c, Incremented DEF IsrMore
<1>e. /\ ring' \in [Memory -> 0 .. Samples]
      /\ decoderValidBytes' \in Nat /\ decoderValidBytes' <= decoderValidBytes
      /\ lastDMAPosition' \in {bar, bar'}
  <2>1. PICK cur \in {bar, bar'} : Mapped(cur) /\ updateDacBytes(cur)
    BY DEF IsrMore
  <2>2. cur \in Nat
    BY <1>b, <1>d, <2>1
  <2> QED
    BY <2>1, <2>2, Updated DEF IInv
<1>1. TypeOK'
  <2>1. /\ bar' \in 0 .. MemorySize /\ next' \in Memory
        /\ lastDMAPosition' \in 0 .. MemorySize /\ sema' \in Nat
    BY <1>b, <1>c, <1>d, <1>e DEF Memory
  <2>2. decoder_sem' \in Nat
    BY <1>a DEF IInv, TypeOK
  <2> QED
    BY <1>a, <1>d, <1>e, <2>1, <2>2 DEF IInv, TypeOK, history
<1>2. CallOK'
  BY <1>a DEF IInv, CallOK, Filling, Pending
<1>3. Channel'
  <2>1. \E c \in Sizes : bar' < c
    <3>1. PICK c \in Sizes : bar <= c /\ (sema > 0 => bar < c)
      BY DEF IInv, Channel
    <3> QED
      BY <1>b, <1>c, <1>d, <3>1
  <2>2. PICK c \in Sizes : bar' <= c /\ bar' < c
    <3>1. PICK c \in Sizes : bar' < c
      BY <2>1
    <3> QED
      BY <1>b, <1>d, <3>1, SizeFacts
  <2>3. CASE sema = 0
    <3>1. /\ sema' = 1 /\ bar' = next
          /\ next' = IF next + Block = chain THEN 0 ELSE next + Block
      BY <1>d, <2>3
    <3>2. bar' < lastDMAPosition' => next = 0 /\ bar' = 0 /\ next' <= Block
      BY <1>b, <1>c, <1>e, <3>1
    <3>3. next' # 0 => bar' <= next' /\ bar' < next'
      BY <1>b, <3>1
    <3>4. bar' < lastDMAPosition' => /\ sema' <= 1 /\ bar' <= Block /\ next' <= Block
                                     /\ sema' = 1 => bar' < Block
      BY <1>b, <3>1, <3>2
    <3> QED
      BY <1>a, <1>d, <2>2, <3>1, <3>3, <3>4 DEF Channel
  <2>4. CASE sema # 0
    BY <1>a, <1>b, <1>c, <1>d, <1>e, <2>2, <2>4 DEF Channel
  <2> QED
    BY <2>3, <2>4
<1>4. Placed'
  <2>1. Pending' = Pending /\ Pending \in Nat
    BY <1>a DEF Pending, IInv, CallOK, Calls
  <2> SUFFICES ASSUME ~ shrunk
               PROVE  Placed'
    BY <1>a DEF Placed, history
  <2>2. /\ chain <= buf_size /\ bar <= chain /\ (sema > 0 => bar < chain)
        /\ decoderWritePointer < buf_size /\ decoderValidBytes + Pending <= buf_size
    BY <1>a DEF IInv, Placed
  <2>3. decoderValidBytes' + Pending <= buf_size
    <3>1. /\ decoderValidBytes \in Nat /\ decoderValidBytes' \in Nat
          /\ buf_size \in Nat /\ Pending \in Nat
      BY <1>b, <1>e, <2>1
    <3>2. decoderValidBytes' <= decoderValidBytes
      BY <1>e
    <3>3. decoderValidBytes + Pending <= buf_size
      BY <2>2
    <3> QED
      BY <3>1, <3>2, <3>3, LessLeft
  <2>4. lastDMAPosition' <= chain /\ bar' < chain /\ bar' <= chain
    BY <1>b, <1>c, <1>d, <1>e, <2>2
  <2> QED
    BY <1>a, <2>1, <2>2, <2>3, <2>4 DEF Placed
<1>5. Stopped' /\ Torn'
  BY <1>a DEF Stopped, Torn
<1>6. Sized'
  BY <1>a DEF IInv, Sized, history
<1> QED
  BY <1>1, <1>2, <1>3, <1>4, <1>5, <1>6 DEF IInv

\* In a ring that was not made smaller the handler clears only what is mapped:
\* when the channel is behind the last position, it is at most a block past the
\* start.
LEMMA ClearsMapped ==
  ASSUME IInv, ~ shrunk, initDevice,
         NEW cur \in {bar, IF sema = 0 THEN next ELSE bar}
  PROVE  Mapped(cur)
<1>1. /\ chain \in Nat /\ buf_size \in Nat /\ sema \in Nat
      /\ bar \in Nat /\ next \in Nat /\ lastDMAPosition \in Nat
      /\ MemorySize \in Nat /\ Block \in Nat \ {0} /\ buf_size + Block <= MemorySize
  BY SizeFacts DEF IInv, TypeOK, Memory
<1>2. /\ chain <= buf_size /\ lastDMAPosition <= chain /\ bar <= chain
  BY DEF IInv, Placed
<1>3. /\ next < chain
      /\ next # 0 => bar <= next
      /\ bar < lastDMAPosition => bar <= Block /\ next <= Block
  BY DEF IInv, Channel
<1>4. cur \in Nat /\ cur <= chain /\ (cur < lastDMAPosition => cur <= Block)
  BY <1>1, <1>2, <1>3
<1>5. CASE cur >= lastDMAPosition
  BY <1>1, <1>2, <1>4, <1>5 DEF Mapped, Consumed
<1>6. CASE ~ cur >= lastDMAPosition
  BY <1>1, <1>2, <1>4, <1>6 DEF Mapped, Consumed
<1> QED
  BY <1>5, <1>6

LEMMA IsrOverrunKeeps ==
  ASSUME IInv, pc # "overrun", irq = TRUE, IsrOverrun
  PROVE  IInv'
<1>a. /\ initDevice /\ pc' = "overrun"
      /\ UNCHANGED <<channel, buffer, sems, call, history, budget>>
  BY DEF IInv, Stopped, IsrOverrun
<1>b. shrunk
  <2>1. PICK cur \in {bar, IF sema = 0 THEN next ELSE bar} : ~ Mapped(cur)
    BY DEF IsrOverrun
  <2> QED
    BY <1>a, <2>1, ClearsMapped
<1>1. TypeOK'
  BY <1>a DEF IInv, TypeOK, channel, buffer, sems, history
<1>2. CallOK'
  BY <1>a DEF IInv, CallOK, Filling, channel, buffer
<1>3. Placed'
  BY <1>a, <1>b DEF Placed, history
<1>4. Channel' /\ Sized'
  BY <1>a DEF IInv, Channel, Sized, channel, buffer, history
<1>5. Stopped' /\ Torn'
  BY <1>a DEF Stopped, Torn, buffer
<1> QED
  BY <1>1, <1>2, <1>3, <1>4, <1>5 DEF IInv

\* What a write has still to count when the sound is stopped under it.
LEMMA StopFacts ==
  ASSUME IInv, initDevice
  PROVE  /\ Pending \in Nat
         /\ ~ InLoop => Pending < Block
<1>1. Pending \in Nat
  BY DEF Pending, IInv, CallOK, Calls
<1>2. CASE pc \in Filling /\ call.stage = "loop"
  BY <1>1, <1>2 DEF InLoop
<1>3. CASE pc \in Filling /\ call.stage # "loop"
  <2>1. call.stage = "direct"
    BY <1>3 DEF IInv, CallOK, Calls
  <2> QED
    BY <1>1, <1>3, <2>1 DEF IInv, CallOK
<1>4. CASE pc \notin Filling
  BY <1>1, <1>4, SizeFacts DEF Pending, Filling
<1> QED
  BY <1>2, <1>3, <1>4

LEMMA IsrStopKeeps ==
  ASSUME IInv, pc # "overrun", irq = TRUE, isr = "none", IsrStop
  PROVE  IInv'
<1>a. initDevice /\ sema = 0
  BY DEF IInv, Stopped, IsrStop
<1>b. /\ irq' = FALSE /\ initDevice' = FALSE /\ next' = 0 /\ chain' = buf_size
      /\ ring' = Silence /\ lastDMAPosition' = 0 /\ AvaliableUserBytes' = 0
      /\ decoderValidBytes' = 0 /\ decoderWritePointer' = 0 /\ active' = FALSE
      /\ decoder_sem' = decoder_sem + 1 /\ dac_sem' = dac_sem + 1
      /\ queue' \in Seq(0 .. Samples) /\ intact' \in BOOLEAN /\ shrunk' = FALSE
      /\ UNCHANGED <<sema, bar, isr, buf_size, pc, stamp, lost>>
  BY EmptyQueue DEF IsrStop, setDMADesc, audio_reset_buf, WakeSync
<1>c. /\ call' \in Calls /\ call'.stage = call.stage /\ call'.at = call.at
      /\ call'.n1 = call.n1 /\ call'.n2 = call.n2
  BY DEF IInv, CallOK, Calls, IsrStop
<1>d. /\ Block \in Nat \ {0} /\ buf_size \in Nat /\ 2 * Block <= buf_size
      /\ buf_size \in Sizes /\ MemorySize \in Nat \ {0}
  BY SizeFacts DEF IInv, TypeOK
<1>e. /\ Pending \in Nat /\ Pending' = Pending
      /\ (InLoop' <=> InLoop) /\ (~ InLoop => Pending < Block)
  BY <1>a, <1>b, <1>c, StopFacts DEF Pending, InLoop, Filling
<1>1. TypeOK'
  <2>1. decoder_sem' \in Nat /\ dac_sem' \in Nat
    BY <1>b DEF IInv, TypeOK
  <2>2. 0 \in Memory /\ 0 \in 0 .. MemorySize
    BY <1>d DEF Memory
  <2>3. ring' \in [Memory -> 0 .. Samples]
    BY <1>b, SilenceType
  <2>4. /\ sema' \in Nat /\ bar' \in 0 .. MemorySize /\ next' \in Memory
        /\ chain' \in Sizes /\ buf_size' \in Sizes
        /\ irq' \in BOOLEAN /\ isr' \in {"none", "remain"}
    BY <1>b, <1>d, <2>1, <2>2, <2>3 DEF IInv, TypeOK
  <2>5. /\ ring' \in [Memory -> 0 .. Samples] /\ decoderWritePointer' \in Memory
        /\ decoderValidBytes' \in Nat /\ AvaliableUserBytes' \in Int
        /\ lastDMAPosition' \in 0 .. MemorySize
    BY <1>b, <1>d, <2>1, <2>2, <2>3 DEF IInv, TypeOK
  <2>6. /\ initDevice' \in BOOLEAN /\ active' \in BOOLEAN
        /\ decoder_sem' \in Nat /\ dac_sem' \in Nat
        /\ pc' \in {"idle", "closed", "fill", "filled", "fault", "down", "drain",
                    "asleep", "drained", "overrun"} \cup Filling
        /\ queue' \in Seq(0 .. Samples) /\ intact' \in BOOLEAN /\ shrunk' \in BOOLEAN
        /\ lost' \in BOOLEAN
        /\ stamp' \in 0 .. Samples - 1
    BY <1>b, <1>d, <2>1, <2>2, <2>3 DEF IInv, TypeOK
  <2> QED
    BY <2>4, <2>5, <2>6 DEF TypeOK
<1>2. CallOK'
  <2>1. call.stage = "first" => pc \notin {"fill", "filled"} \cup Filling
    BY <1>a DEF IInv, CallOK
  <2>2. 0 \in 0 .. Block - 1
    BY <1>d
  <2> QED
    BY <1>b, <1>c, <1>e, <2>1, <2>2 DEF IInv, CallOK, Filling
<1>3. Placed'
  <2>1. 0 % Block = 0 /\ 0 < buf_size
    BY <1>d
  <2>2. 0 + Pending <= buf_size
    BY <1>d, <1>e DEF IInv, CallOK, Calls, Pending, Filling
  <2> QED
    BY <1>a, <1>b, <1>d, <1>e, <2>1, <2>2 DEF Placed
<1>4. Stopped' /\ Sized'
  BY <1>a, <1>b DEF Stopped, Sized
<1>6. Channel'
  <2>1. 0 % Block = 0 /\ 0 < buf_size /\ bar \in Nat
    BY <1>d DEF IInv, TypeOK
  <2> QED
    BY <1>a, <1>b, <2>1 DEF IInv, Channel
<1>5. Torn'
  BY <1>b, <1>d, <1>e DEF Torn
<1> QED
  BY <1>1, <1>2, <1>3, <1>4, <1>5, <1>6 DEF IInv

\* initDacWrite's start of the channel: two blocks, from its next descriptor.
LEMMA Started ==
  ASSUME IInv, ~ initDevice, StartChannel
  PROVE  /\ initDevice' = TRUE /\ irq' = FALSE /\ isr' = isr /\ chain' = chain
         /\ sema' = 2 /\ bar' = 0 /\ next' \in Nat
         /\ next' < chain /\ next' % Block = 0
         /\ bar' < chain /\ chain \in Sizes /\ chain \in Nat /\ chain < MemorySize
<1>1. sema = 0 /\ next = 0
  BY DEF IInv, Stopped
<1>2. /\ sema \in Nat /\ chain \in Sizes /\ next \in Nat
      /\ next < chain /\ next % Block = 0
      /\ chain \in Nat /\ chain < MemorySize
  BY <1>1, SizeFacts DEF IInv, TypeOK, Channel
<1>3. Increment(2) /\ 2 \in Nat \ {0}
  BY DEF StartChannel
<1>4. /\ sema' = sema + 2
      /\ next' \in Nat /\ next' < chain /\ next' % Block = 0
      /\ sema = 0 => bar' = next
  BY <1>2, <1>3, Incremented
<1> QED
  BY <1>1, <1>2, <1>4 DEF StartChannel

\* Starting the channel between two steps of the caller keeps the invariant.
LEMMA StartKeeps ==
  ASSUME IInv, ~ initDevice, StartChannel \/ UNCHANGED <<channel, initDevice>>,
         call' \in Calls, pc' \in {"idle", "down", "drain"}, Pending = 0, ~ InLoop,
         UNCHANGED <<ring, decoderWritePointer, decoderValidBytes, AvaliableUserBytes,
                     lastDMAPosition, active, buf_size, sems, history>>
  PROVE  IInv'
<1>a. Pending' = 0 /\ pc' \notin Filling
  BY DEF Pending, Filling
<1>b. CASE UNCHANGED <<channel, initDevice>>
  <2>1. TypeOK'
    BY <1>b DEF IInv, TypeOK, channel, sems, history
  <2>2. CallOK'
    BY <1>a DEF CallOK, Filling
  <2>3. Placed' /\ Stopped' /\ Torn'
    BY <1>a, <1>b DEF IInv, Placed, Stopped, Torn, channel, history
  <2>4. Channel' /\ Sized'
    BY <1>b DEF IInv, Channel, Sized, channel, history
  <2> QED
    BY <2>1, <2>2, <2>3, <2>4 DEF IInv
<1>c. CASE StartChannel
  <2>a. /\ initDevice' = TRUE /\ irq' = FALSE /\ isr' = isr /\ chain' = chain
        /\ sema' = 2 /\ bar' = 0 /\ next' \in Nat
        /\ next' < chain /\ next' % Block = 0
        /\ bar' < chain /\ chain \in Sizes /\ chain \in Nat /\ chain < MemorySize
    BY <1>c, Started
  <2>1. TypeOK'
    <3>1. next' \in Memory /\ 0 \in 0 .. MemorySize /\ 2 \in Nat
      BY <2>a, SizeFacts DEF Memory
    <3> QED
      BY <2>a, <3>1 DEF IInv, TypeOK, sems, history
  <2>2. CallOK'
    BY <1>a DEF CallOK, Filling
  <2>3. Placed'
    BY <1>a, <2>a DEF IInv, Placed, Stopped, history
  <2>4. Stopped' /\ Torn'
    BY <2>a DEF Stopped, Torn
  <2>5. Channel'
    <3>1. lastDMAPosition' = 0
      BY DEF IInv, Stopped
    <3> QED
      BY <2>a, <3>1 DEF Channel
  <2>6. Sized'
    BY <2>a DEF IInv, Sized, history
  <2> QED
    BY <2>1, <2>2, <2>3, <2>4, <2>5, <2>6 DEF IInv
<1> QED
  BY <1>b, <1>c

LEMMA FilledFirstKeeps ==
  ASSUME IInv, FilledFirst
  PROVE  IInv'
<1>1. ~ initDevice /\ pc = "filled" /\ call.stage = "first"
  BY DEF FilledFirst, IInv, CallOK
<1>2. Pending = 0 /\ ~ InLoop
  BY <1>1 DEF Pending, InLoop
<1>3. call' \in Calls /\ pc' \in {"idle", "down"}
  BY Returned DEF FilledFirst, WaitForSpace, IInv, CallOK, Calls
<1>4. StartChannel \/ UNCHANGED <<channel, initDevice>>
  BY DEF FilledFirst
<1>5. UNCHANGED <<ring, decoderWritePointer, decoderValidBytes, AvaliableUserBytes,
                  lastDMAPosition, active, buf_size, sems, history>>
  BY DEF FilledFirst
<1> QED
  BY <1>1, <1>2, <1>3, <1>4, <1>5, StartKeeps

LEMMA SyncKeeps ==
  ASSUME IInv, Sync
  PROVE  IInv'
<1>1. pc = "idle" /\ call' \in Calls /\ pc' = "drain"
  BY Begun DEF Sync
<1>2. Pending = 0 /\ ~ InLoop /\ Pending' = 0 /\ ~ InLoop'
  BY <1>1 DEF Pending, InLoop, Filling
<1>3. UNCHANGED <<ring, decoderWritePointer, decoderValidBytes, AvaliableUserBytes,
                  lastDMAPosition, active, buf_size, sems, history>>
  BY DEF Sync
<1>4. CASE ~ initDevice
  <2>1. StartChannel \/ UNCHANGED <<channel, initDevice>>
    BY DEF Sync
  <2> QED
    BY <1>1, <1>2, <1>3, <1>4, <2>1, StartKeeps
<1>5. CASE initDevice
  <2>1. UNCHANGED <<channel, initDevice>>
    BY <1>5 DEF Sync
  <2>2. TypeOK'
    BY <1>1, <1>3, <2>1 DEF IInv, TypeOK, channel, sems, history
  <2>3. CallOK'
    BY <1>1 DEF CallOK, Filling
  <2>4. Placed' /\ Stopped' /\ Torn'
    BY <1>1, <1>2, <1>3, <1>5, <2>1 DEF IInv, Placed, Stopped, Torn, channel, history
  <2>5. Channel' /\ Sized'
    BY <1>3, <2>1 DEF IInv, Channel, Sized, channel, history
  <2> QED
    BY <2>2, <2>3, <2>4, <2>5 DEF IInv
<1> QED
  BY <1>4, <1>5

\* An emptied buffer without sound.
LEMMA EmptiedKeeps ==
  ASSUME IInv, ~ initDevice, audio_reset_buf, pc' = "idle", call' \in Calls,
         queue' \in Seq(0 .. Samples), intact' \in BOOLEAN, intact' => buf_size = chain,
         decoder_sem' \in Nat, dac_sem' = dac_sem,
         UNCHANGED <<channel, initDevice, buf_size, stamp, shrunk, lost>>
  PROVE  IInv'
<1>a. /\ ring' \in [Memory -> 0 .. Samples]
      /\ lastDMAPosition' = 0 /\ AvaliableUserBytes' = 0
      /\ decoderValidBytes' = 0 /\ decoderWritePointer' = 0 /\ active' = FALSE
  BY SilenceType DEF audio_reset_buf
<1>b. /\ buf_size \in Nat /\ chain \in Nat /\ Block \in Nat \ {0} /\ 0 < buf_size
      /\ MemorySize \in Nat \ {0} /\ 0 < Block
  BY SizeFacts DEF IInv, TypeOK
<1>c. Pending' = 0
  BY DEF Pending
<1>1. TypeOK'
  <2>1. 0 \in Memory /\ 0 \in 0 .. MemorySize
    BY <1>b DEF Memory
  <2>4. /\ sema' \in Nat /\ bar' \in 0 .. MemorySize /\ next' \in Memory
        /\ chain' \in Sizes /\ buf_size' \in Sizes
        /\ irq' \in BOOLEAN /\ isr' \in {"none", "remain"}
    BY <1>a, <2>1 DEF IInv, TypeOK, channel
  <2>5. /\ ring' \in [Memory -> 0 .. Samples] /\ decoderWritePointer' \in Memory
        /\ decoderValidBytes' \in Nat /\ AvaliableUserBytes' \in Int
        /\ lastDMAPosition' \in 0 .. MemorySize
    BY <1>a, <2>1 DEF IInv, TypeOK, channel
  <2>6. /\ initDevice' \in BOOLEAN /\ active' \in BOOLEAN
        /\ decoder_sem' \in Nat /\ dac_sem' \in Nat
        /\ pc' \in {"idle", "closed", "fill", "filled", "fault", "down", "drain",
                    "asleep", "drained", "overrun"} \cup Filling
        /\ queue' \in Seq(0 .. Samples) /\ intact' \in BOOLEAN /\ shrunk' \in BOOLEAN
        /\ lost' \in BOOLEAN
        /\ stamp' \in 0 .. Samples - 1
    BY <1>a, <2>1 DEF IInv, TypeOK, channel
  <2> QED
    BY <2>4, <2>5, <2>6 DEF TypeOK
<1>2. CallOK'
  BY DEF CallOK, Filling
<1>3. Placed' /\ Stopped' /\ Torn'
  BY <1>a, <1>b, <1>c DEF IInv, Placed, Stopped, Torn, channel
<1>4. Channel'
  <2>1. bar \in Nat
    BY DEF IInv, TypeOK
  <2> QED
    BY <1>a, <2>1 DEF IInv, Channel, channel
<1>5. Sized'
  BY <1>b DEF IInv, Sized, channel
<1> QED
  BY <1>1, <1>2, <1>3, <1>4, <1>5 DEF IInv

LEMMA StoppedMeanwhileKeeps ==
  ASSUME IInv, StoppedMeanwhile
  PROVE  IInv'
<1>1. call' \in Calls /\ pc' = "idle"
  BY Returned, 0 \in Int DEF StoppedMeanwhile, IInv, CallOK
<1>2. decoder_sem' \in Nat /\ dac_sem' = dac_sem
  BY DEF StoppedMeanwhile, IInv, TypeOK
<1>3. /\ ~ initDevice /\ audio_reset_buf
      /\ queue' \in Seq(0 .. Samples) /\ intact' \in BOOLEAN
      /\ (intact' => buf_size = chain)
      /\ UNCHANGED <<channel, initDevice, buf_size, stamp, shrunk, lost>>
  BY EmptyQueue DEF StoppedMeanwhile
<1> QED
  BY <1>1, <1>2, <1>3, EmptiedKeeps

LEMMA ResetKeeps ==
  ASSUME IInv, Reset
  PROVE  IInv'
<1>1. pc = "idle" /\ call' \in Calls
  BY Begun DEF Reset
<1>2. UNCHANGED <<channel, initDevice, buf_size, sems, stamp, shrunk, lost>>
  BY DEF Reset
<1>3. Pending = 0 /\ ~ InLoop
  BY <1>1 DEF Pending, InLoop, Filling
<1>4. CASE initDevice
  <2>1. /\ pc' = "drain"
        /\ UNCHANGED <<ring, lastDMAPosition, AvaliableUserBytes, decoderValidBytes,
                       decoderWritePointer, active, queue, intact>>
    BY <1>4 DEF Reset
  <2>2. Pending' = 0
    BY <2>1 DEF Pending
  <2>3. TypeOK'
    BY <1>2, <2>1 DEF IInv, TypeOK, channel, sems
  <2>4. CallOK'
    BY <1>1, <2>1 DEF CallOK, Filling
  <2>5. Placed' /\ Stopped' /\ Torn'
    BY <1>1, <1>2, <1>3, <1>4, <2>1, <2>2 DEF IInv, Placed, Stopped, Torn, channel
  <2>6. Channel' /\ Sized'
    BY <1>2, <2>1 DEF IInv, Channel, Sized, channel
  <2> QED
    BY <2>3, <2>4, <2>5, <2>6 DEF IInv
<1>5. CASE ~ initDevice
  <2>1. /\ audio_reset_buf /\ pc' = "idle"
        /\ queue' \in Seq(0 .. Samples) /\ intact' \in BOOLEAN
      /\ (intact' => buf_size = chain)
    BY EmptyQueue, <1>1, <1>5 DEF Reset
  <2>2. decoder_sem' \in Nat /\ dac_sem' = dac_sem
    BY <1>2 DEF IInv, TypeOK, sems
  <2> QED
    BY <1>1, <1>2, <1>5, <2>1, <2>2, EmptiedKeeps
<1> QED
  BY <1>4, <1>5

\* A fill leaves the write pointer and what it will count inside the ring, if it
\* was not made smaller.
LEMMA FillKeepsType ==
  ASSUME IInv, NEW stage \in {"first", "direct", "loop"}, Fill(stage),
         pc \in {"fill", "down"}
  PROVE  /\ call' \in Calls /\ call'.stage = stage
         /\ pc' \in {"filled", "copy1", "overrun"}
         /\ decoderWritePointer' \in Memory /\ Pending' \in Nat
         /\ ~ shrunk => /\ pc' # "overrun" /\ decoderWritePointer' < buf_size
                        /\ decoderValidBytes + Pending' <= buf_size
         /\ pc' = "copy1" => /\ call'.at + call'.n1 <= buf_size
                             /\ call'.n2 <= call'.at
         /\ AvaliableUserBytes >= 0 => Pending' <= AvaliableUserBytes
         /\ AvaliableUserBytes = 0 /\ decoderWritePointer = 0 => decoderWritePointer' = 0
<1>1. /\ call \in Calls /\ decoderWritePointer \in Nat /\ decoderValidBytes \in Nat
      /\ AvaliableUserBytes \in Int /\ buf_size \in Nat \ {0} /\ buf_size < MemorySize
      /\ MemorySize \in Nat /\ decoderWritePointer \in Memory
  BY SizeFacts DEF IInv, CallOK, TypeOK, Memory
<1>2. ~ shrunk => decoderWritePointer < buf_size /\ decoderValidBytes <= buf_size
  BY <1>1 DEF IInv, Placed, Pending
<1>3. /\ call' \in Calls /\ call'.stage = stage
      /\ \/ pc' = "filled" /\ decoderWritePointer' = decoderWritePointer
         \/ /\ pc' = "overrun" /\ decoderWritePointer > buf_size
            /\ decoderWritePointer' = decoderWritePointer
         \/ /\ pc' = "copy1"
            /\ decoderWritePointer' \in 0 .. buf_size - 1
            /\ call'.at + call'.n1 <= buf_size /\ call'.n2 <= call'.at
            /\ decoderValidBytes <= buf_size =>
                 decoderValidBytes + call'.n1 + call'.n2 <= buf_size
            /\ AvaliableUserBytes >= 0 => call'.n1 + call'.n2 <= AvaliableUserBytes
            /\ AvaliableUserBytes = 0 /\ decoderWritePointer < buf_size =>
                 decoderWritePointer' = decoderWritePointer
  BY <1>1, Filled
<1>4. call'.n1 \in Nat /\ call'.n2 \in Nat
  BY <1>3 DEF Calls
<1>5. Pending' = IF pc' = "copy1" THEN call'.n1 + call'.n2 ELSE 0
  BY <1>3 DEF Pending
<1>6. decoderWritePointer' \in Memory
  BY <1>1, <1>3 DEF Memory
<1>7. CASE pc' = "filled"
  BY <1>1, <1>2, <1>3, <1>5, <1>6, <1>7
<1>8. CASE pc' = "copy1"
  BY <1>1, <1>2, <1>3, <1>4, <1>5, <1>6, <1>8
<1>9. CASE pc' = "overrun"
  BY <1>1, <1>2, <1>3, <1>5, <1>6, <1>9
<1> QED
  BY <1>3, <1>7, <1>8, <1>9

LEMMA FillFirstKeeps ==
  ASSUME IInv, FillFirst
  PROVE  IInv'
<1>a. pc = "fill" /\ call.stage \in {"first", "direct"} /\ Fill(call.stage)
  BY DEF FillFirst, IInv, CallOK
<1>b. UNCHANGED <<channel, ring, decoderValidBytes, AvaliableUserBytes, lastDMAPosition,
                  initDevice, active, buf_size, sems, history>>
  BY DEF FillFirst
<1>c. /\ call' \in Calls /\ call'.stage = call.stage
      /\ pc' \in {"filled", "copy1", "overrun"}
      /\ decoderWritePointer' \in Memory /\ Pending' \in Nat
      /\ ~ shrunk => /\ pc' # "overrun" /\ decoderWritePointer' < buf_size
                     /\ decoderValidBytes + Pending' <= buf_size
      /\ pc' = "copy1" => call'.at + call'.n1 <= buf_size /\ call'.n2 <= call'.at
      /\ AvaliableUserBytes >= 0 => Pending' <= AvaliableUserBytes
      /\ AvaliableUserBytes = 0 /\ decoderWritePointer = 0 => decoderWritePointer' = 0
  BY <1>a, FillKeepsType
<1>d. Block \in Nat /\ decoderValidBytes \in Nat /\ AvaliableUserBytes \in Int
  BY SizeFacts DEF IInv, TypeOK
<1>1. TypeOK'
  BY <1>b, <1>c DEF IInv, TypeOK, Filling, channel, sems, history
<1>2. CallOK'
  <2>1. call.stage = "first" => ~ initDevice /\ active
    BY <1>a DEF IInv, CallOK
  <2>2. call.stage = "direct" => Pending' < Block
    <3>1. call.stage = "direct" => AvaliableUserBytes \in 0 .. Block - 1
      BY <1>a DEF IInv, CallOK
    <3> QED
      BY <1>c, <1>d, <3>1
  <2> QED
    BY <1>a, <1>b, <1>c, <2>1, <2>2 DEF CallOK, Filling
<1>3. Placed'
  BY <1>a, <1>b, <1>c DEF IInv, Placed, channel, history
<1>4. Stopped' /\ Channel' /\ Sized'
  BY <1>b DEF IInv, Stopped, Channel, Sized, channel, history
<1>5. Torn'
  <2>1. Pending = 0 /\ ~ InLoop
    BY <1>a DEF Pending, InLoop, Filling
  <2>2. CASE ~ initDevice /\ ~ active
    <3>1. decoderWritePointer = 0 /\ decoderValidBytes < Block /\ AvaliableUserBytes = 0
      BY <1>a, <1>d, <2>1, <2>2 DEF IInv, Torn
    <3>2. Pending' = 0 /\ decoderWritePointer' = 0
      BY <1>c, <3>1
    <3> QED
      BY <1>b, <1>c, <1>d, <3>1, <3>2 DEF Torn
  <2>3. CASE initDevice \/ active
    BY <1>b, <2>3 DEF Torn
  <2> QED
    BY <2>2, <2>3
<1> QED
  BY <1>1, <1>2, <1>3, <1>4, <1>5 DEF IInv

LEMMA FillNextKeeps ==
  ASSUME IInv, FillNext
  PROVE  IInv'
<1>a. pc = "down" /\ Pending = 0 /\ ~ InLoop
  BY DEF FillNext, Pending, InLoop, Filling
<1>b. UNCHANGED <<channel, ring, decoderValidBytes, AvaliableUserBytes, lastDMAPosition,
                  initDevice, active, buf_size, dac_sem, history>>
  BY DEF FillNext
<1>c. CASE decoder_sem > 0 /\ decoder_sem' = decoder_sem - 1 /\ Fill("loop")
  <2>a. /\ call' \in Calls /\ call'.stage = "loop"
        /\ pc' \in {"filled", "copy1", "overrun"}
        /\ decoderWritePointer' \in Memory /\ Pending' \in Nat
        /\ ~ shrunk => /\ pc' # "overrun" /\ decoderWritePointer' < buf_size
                       /\ decoderValidBytes + Pending' <= buf_size
        /\ pc' = "copy1" => call'.at + call'.n1 <= buf_size /\ call'.n2 <= call'.at
        /\ pc' = "overrun" => decoderWritePointer' = decoderWritePointer
    BY <1>a, <1>c, FillKeepsType DEF Fill
  <2>1. TypeOK'
    <3>1. decoder_sem' \in Nat
      BY <1>c DEF IInv, TypeOK
    <3> QED
      BY <1>b, <2>a, <3>1 DEF IInv, TypeOK, Filling, channel, history
  <2>2. CallOK'
    BY <2>a, <1>b DEF CallOK, Filling
  <2>3. Placed'
    BY <1>a, <1>b, <2>a DEF IInv, Placed, channel, history
  <2>4. Stopped' /\ Channel' /\ Sized'
    BY <1>b DEF IInv, Stopped, Channel, Sized, channel, history
  <2>5. Torn'
    <3>1. CASE pc' = "overrun"
      <4>1. Pending' = 0
        BY <3>1 DEF Pending
      <4> QED
        BY <1>a, <1>b, <2>a, <3>1, <4>1 DEF IInv, Torn
    <3>2. CASE pc' # "overrun"
      BY <2>a, <3>2 DEF Torn, InLoop, Filling
    <3> QED
      BY <3>1, <3>2
  <2> QED
    BY <2>1, <2>2, <2>3, <2>4, <2>5 DEF IInv
<1>d. CASE Return(WouldBlock) /\ UNCHANGED <<decoder_sem, decoderWritePointer>>
  <2>a. call' \in Calls /\ pc' = "idle"
    BY <1>d, Returned DEF IInv, CallOK, WouldBlock, Failed
  <2>b. Pending' = 0
    BY <2>a DEF Pending
  <2>1. TypeOK'
    BY <1>b, <1>d, <2>a DEF IInv, TypeOK, channel, history
  <2>2. CallOK'
    BY <2>a DEF CallOK, Filling
  <2>3. Placed' /\ Stopped' /\ Torn'
    BY <1>a, <1>b, <1>d, <2>a, <2>b DEF IInv, Placed, Stopped, Torn, channel, history
  <2>4. Channel' /\ Sized'
    BY <1>b DEF IInv, Channel, Sized, channel, history
  <2> QED
    BY <2>1, <2>2, <2>3, <2>4 DEF IInv
<1> QED
  BY <1>c, <1>d DEF FillNext

----------------------------------------------------------------------------
(* Every step keeps the invariant.                                         *)

LEMMA StutterKeeps ==
  ASSUME IInv, UNCHANGED vars
  PROVE  IInv'
<1>a. UNCHANGED <<channel, buffer, sems, pc, call, queue, intact, stamp, shrunk, lost>>
  BY DEF vars, history
<1>1. TypeOK'
  BY <1>a DEF IInv, TypeOK, Filling, channel, buffer, sems
<1>2. CallOK'
  BY <1>a DEF IInv, CallOK, Filling, Pending, channel, buffer
<1>3. Placed' /\ Stopped' /\ Torn'
  BY <1>a DEF IInv, Placed, Stopped, Torn, InLoop, Pending, Filling, channel, buffer
<1>4. Channel' /\ Sized'
  BY <1>a DEF IInv, Channel, Sized, channel, buffer
<1> QED
  BY <1>1, <1>2, <1>3, <1>4 DEF IInv

LEMMA IsrKeeps ==
  ASSUME IInv, Isr
  PROVE  IInv'
<1>1. pc # "overrun" /\ (irq => irq = TRUE)
  BY DEF Isr, IInv, TypeOK
<1>2. CASE irq /\ isr = "none" /\ IsrMore
  BY <1>1, <1>2, IsrMoreKeeps
<1>3. CASE irq /\ isr = "none" /\ IsrRemain
  BY <1>3, IsrRemainKeeps
<1>4. CASE irq /\ isr = "none" /\ IsrStop
  BY <1>1, <1>4, IsrStopKeeps
<1>5. CASE IsrAcknowledge
  BY <1>5, IsrAcknowledgeKeeps
<1>6. CASE irq /\ isr = "none" /\ IsrOverrun
  BY <1>1, <1>6, IsrOverrunKeeps
<1> QED
  BY <1>2, <1>3, <1>4, <1>5, <1>6 DEF Isr

LEMMA CallerKeeps ==
  ASSUME IInv, Caller
  PROVE  IInv'
<1>1. CASE FillFirst \/ FillNext
  BY <1>1, FillFirstKeeps, FillNextKeeps
<1>2. CASE Copy1 \/ Add1 \/ Copy2 \/ Add2
  BY <1>2, Copy1Keeps, Add1Keeps, Copy2Keeps, Add2Keeps
<1>3. CASE FilledFirst \/ FilledDirect \/ FilledLoop
  BY <1>3, FilledFirstKeeps, FilledDirectKeeps, FilledLoopKeeps
<1>4. CASE FaultLoop \/ StoppedMeanwhile
  BY <1>4, FaultLoopKeeps, StoppedMeanwhileKeeps
<1>5. CASE Drain \/ Woken \/ Drained
  BY <1>5, DrainKeeps, WokenKeeps, DrainedKeeps
<1> QED
  BY <1>1, <1>2, <1>3, <1>4, <1>5 DEF Caller

LEMMA RequestKeeps ==
  ASSUME IInv, Request
  PROVE  IInv'
<1>1. CASE \E w \in Writes : Write(w)
  BY <1>1, WriteKeeps
<1>2. CASE Sync \/ Reset \/ Close \/ Open
  BY <1>2, SyncKeeps, ResetKeeps, CloseKeeps, OpenKeeps
<1>3. CASE \E s \in Sizes : SetFragment(s)
  BY <1>3, SetFragmentKeeps
<1> QED
  BY <1>1, <1>2, <1>3 DEF Request

LEMMA StepIInv == IInv /\ [Next]_vars => IInv'
<1> SUFFICES ASSUME IInv, [Next]_vars
             PROVE  IInv'
  OBVIOUS
<1>1. CASE Play
  BY <1>1, PlayKeeps
<1>2. CASE Isr
  BY <1>2, IsrKeeps
<1>3. CASE Caller
  BY <1>3, CallerKeeps
<1>4. CASE Request
  BY <1>4, RequestKeeps
<1>5. CASE Signal \/ CopyFaults
  BY <1>5, SignalKeeps, CopyFaultsKeeps
<1>6. CASE UNCHANGED vars
  BY <1>6, StutterKeeps
<1> QED
  BY <1>1, <1>2, <1>3, <1>4, <1>5, <1>6 DEF Next

\* The invariant holds in every reachable state, for every ring and block size,
\* any writes and any number of calls and mishaps.
THEOREM Inductive == Spec => []IInv
<1> QED
  BY InitIInv, StepIInv, PTL DEF Spec

\* The driver's positions stay in the ring's memory and its counts are numbers:
\* the write pointer that fillDecoderBuffer wraps, the position that
\* updateDacBytes takes from the channel, and the descriptors.
THEOREM TypeCorrect == Spec => []TypeOK
<1>1. IInv => TypeOK
  BY DEF IInv
<1> QED
  BY <1>1, Inductive, PTL

\* Until the ring is made smaller under the sound, or smaller than that of its
\* descriptors, the copies of fillDecoderBuffer, its write pointer and the
\* handler's counts stay inside the ring in use, and the handler clears only what
\* is mapped: whatever size the ring was set to, larger than the default too, and
\* whenever the sound is stopped.
THEOREM NothingLeavesTheRing == Spec => []WithinRing
<1>1. IInv => WithinRing
  <2> SUFFICES ASSUME IInv, ~ shrunk
               PROVE  /\ pc # "overrun"
                      /\ decoderWritePointer < buf_size
                      /\ lastDMAPosition <= buf_size
                      /\ decoderValidBytes <= buf_size
                      /\ pc \in Filling => /\ call.at + call.n1 <= buf_size
                                           /\ call.n2 <= call.at
    BY DEF WithinRing
  <2>1. /\ chain \in Nat /\ buf_size \in Nat /\ lastDMAPosition \in Nat
        /\ decoderValidBytes \in Nat /\ Pending \in Nat
    BY SizeFacts DEF IInv, TypeOK, CallOK, Calls, Pending
  <2>2. /\ decoderWritePointer < buf_size /\ chain <= buf_size /\ pc # "overrun"
        /\ lastDMAPosition <= chain /\ decoderValidBytes + Pending <= buf_size
    BY DEF IInv, Placed
  <2> QED
    BY <2>1, <2>2 DEF IInv, CallOK
<1> QED
  BY <1>1, Inductive, PTL
=============================================================================
