------------------------------ MODULE AudioOut ------------------------------
(***************************************************************************)
(* Playback in the OSS audio driver (sound/oss/stmp37xx_audio.c and        *)
(* stmp37xx_audioout_dac.c).  The caller fills a ring in on-chip memory; a *)
(* chain of DMA descriptors, one per block of the ring, plays it, as many  *)
(* blocks as the channel's semaphore counts.  The interrupt at the end of  *)
(* a block counts what was played, gives the channel one block more, and,  *)
(* when nothing is left and the channel has halted, stops the playback.    *)
(*                                                                         *)
(* One caller at a time, which sleeps only in down_interruptible and in    *)
(* copy_from_user; the interrupt and the channel run in between.  Volume,  *)
(* mute and fading are left out.  The position that getDacPointer corrects *)
(* for 32 prefetched bytes is taken to be exact.                           *)
(***************************************************************************)
EXTENDS Integers, Sequences

CONSTANTS
  Block,        \* units of sound in a block: MIN_STREAM_SIZE
  Sizes,        \* ring sizes that SETFRAGMENT can give, in units
  DefaultSize,  \* the one that opening gives
  MemorySize,   \* units of the pages mapped for the ring
  Writes,       \* what is asked of a write: count, in units, and O_NONBLOCK
  Samples,      \* written units are numbered modulo this
  MaxWrites,    \* bound: writes
  MaxControls,  \* bound: syncs, resets, closes and fragment settings
  MaxMishaps    \* bound: units played while an interrupt is not yet handled,
                \* copies from the caller's memory that fail, and writes begun
                \* when the ring is out of step

\* The largest ring is 40K, from 1K after the start of a page on: the pages
\* mapped for it end more than a block behind it.
ASSUME SizeAssumption ==
  /\ Block \in Nat \ {0}
  /\ MemorySize \in Nat
  /\ DefaultSize \in Sizes
  /\ \A s \in Sizes : s \in 2 * Block .. MemorySize - Block /\ s % Block = 0

ASSUME BoundAssumption ==
  /\ Writes \subseteq [count : Nat, nonblock : BOOLEAN]
  /\ Samples \in Nat \ {0}
  /\ MaxWrites \in Nat /\ MaxControls \in Nat
  /\ MaxMishaps \in Nat

VARIABLES
  \* the DMA channel
  sema,         \* blocks it may still play
  bar,          \* the unit it plays, or the end of the block it halted at
  next,         \* where the next descriptor points
  chain,        \* the ring its descriptors go round
  irq,          \* its interrupt is pending
  isr,          \* "remain": its handler is about to acknowledge and return
  \* audio_buf_t, decoder_buf_t, audio_stream_t
  ring,
  decoderWritePointer,
  decoderValidBytes,
  AvaliableUserBytes,    \* unsigned in the code: below 0 means very large
  lastDMAPosition,
  initDevice,            \* sound is being played
  active,
  buf_size,
  decoder_sem, dac_sem,
  \* the caller
  pc,
  call,
  \* history and bounds
  queue,        \* units accepted and not yet played, oldest first
  intact,       \* ... known exactly: see "What is left out of step" below
  stamp,        \* number of the next unit written
  shrunk,       \* since the last stop the ring was made smaller under the
                \* sound, or smaller than that of its descriptors
  lost,         \* the channel has halted and its interrupt was thrown away
  budget

channel == <<sema, bar, next, chain, irq, isr>>
buffer  == <<ring, decoderWritePointer, decoderValidBytes, AvaliableUserBytes,
             lastDMAPosition, initDevice, active, buf_size>>
sems    == <<decoder_sem, dac_sem>>
history == <<queue, intact, stamp, shrunk, lost>>
vars    == <<channel, buffer, sems, pc, call, history, budget>>

Memory  == 0 .. MemorySize - 1
Silence == [p \in Memory |-> 0]
NoCall  == [cmd |-> "none", count |-> 0, nonblock |-> FALSE, stage |-> "first",
            at |-> 0, n1 |-> 0, n2 |-> 0, took |-> 0, told |-> 0, cut |-> FALSE]

Lesser(a, b) == IF a < b THEN a ELSE b

Spend(kind) == /\ budget[kind] > 0
               /\ budget' = [budget EXCEPT ![kind] = @ - 1]

----------------------------------------------------------------------------
(* The channel                                                             *)

\* INCREMENT_SEMA: a halted channel loads the next descriptor at once.
Increment(n) ==
  /\ sema' = sema + n
  /\ bar'  = IF sema = 0 THEN next ELSE bar
  /\ next' = IF sema = 0 THEN (next + Block) % chain ELSE next

Play ==
  /\ sema > 0 /\ pc # "overrun"
  /\ LET ends  == (bar + 1) % Block = 0
         loads == ends /\ sema > 1
     IN  /\ IF irq \/ isr # "none" THEN Spend("mishap") ELSE UNCHANGED budget
         /\ irq'  = (irq \/ ends)
         /\ sema' = IF ends THEN sema - 1 ELSE sema
         /\ bar'  = IF loads THEN next ELSE bar + 1
         /\ next' = IF loads THEN (next + Block) % chain ELSE next
  /\ intact' = (intact /\ queue # << >>)
  /\ queue'  = IF queue = << >> THEN << >> ELSE Tail(queue)
  /\ UNCHANGED <<chain, isr, buffer, sems, pc, call, stamp, shrunk, lost>>

----------------------------------------------------------------------------
(* audio_reset_buf                                                         *)

audio_reset_buf ==
  /\ ring' = Silence
  /\ lastDMAPosition' = 0
  /\ AvaliableUserBytes' = 0
  /\ decoderValidBytes' = 0
  /\ decoderWritePointer' = 0
  /\ active' = FALSE

----------------------------------------------------------------------------
(* stmp_dac_dma_isr                                                        *)

\* updateDacBytes; -1 if the channel seems not to have moved.
ConsumedSwapped(cur) == IF cur >= lastDMAPosition THEN cur - lastDMAPosition  \* mutant
                        ELSE buf_size - cur + lastDMAPosition
Consumed(cur) == IF cur >= lastDMAPosition THEN cur - lastDMAPosition
                 ELSE buf_size - lastDMAPosition + cur

\* One memset from the last position on: at a wrap it goes straight on past
\* the end of the ring.
Cleared(c) == [p \in Memory |-> IF p \in lastDMAPosition .. lastDMAPosition + c - 1
                              THEN 0 ELSE ring[p]]

SubUnclamped(n) == decoderValidBytes' = decoderValidBytes - n     \* mutant
subDecoderValidBytes(n) ==
  decoderValidBytes' = IF n > decoderValidBytes THEN 0 ELSE decoderValidBytes - n

updateDacBytes(cur) ==
  IF cur = lastDMAPosition /\ cur # 0
  THEN UNCHANGED <<ring, decoderValidBytes, lastDMAPosition>>
  ELSE /\ ring' = Cleared(Consumed(cur))
       /\ subDecoderValidBytes(Consumed(cur))
       /\ lastDMAPosition' = cur

\* A length below 0 is one of nearly 4G in the code.
Mapped(cur) == /\ Consumed(cur) >= 0
               /\ lastDMAPosition + Consumed(cur) <= MemorySize

TwoBlocksLeft == decoderValidBytes > 2 * Block                  \* mutant
SomethingLeft == decoderValidBytes > 0

\* A channel that had halted may have reloaded when its position is read.
IsrMore ==
  /\ SomethingLeft
  /\ irq' = FALSE
  /\ Increment(1)
  /\ \E cur \in {bar, bar'} : Mapped(cur) /\ updateDacBytes(cur)
  /\ decoder_sem' = decoder_sem + 1
  /\ UNCHANGED <<chain, isr, decoderWritePointer, AvaliableUserBytes, initDevice,
                 active, buf_size, dac_sem, pc, call, history, budget>>

\* The clearing leaves the mapped pages: the kernel stops.
IsrOverrun ==
  /\ SomethingLeft
  /\ \E cur \in {bar, IF sema = 0 THEN next ELSE bar} : ~ Mapped(cur)
  /\ pc' = "overrun"
  /\ UNCHANGED <<channel, buffer, sems, call, history, budget>>

\* Nothing is left, but the channel still plays: the handler returns, and
\* its acknowledgement clears what came after it read the semaphore.
IsrRemain ==
  /\ ~ SomethingLeft /\ sema # 0
  /\ isr' = "remain"
  /\ UNCHANGED <<sema, bar, next, chain, irq, buffer, sems, pc, call, history, budget>>

IsrAcknowledge ==
  /\ isr = "remain" /\ isr' = "none"
  /\ irq' = FALSE
  /\ lost' = (lost \/ sema = 0)
  /\ UNCHANGED <<sema, bar, next, chain, buffer, sems, pc, call, queue, intact, stamp,
                 shrunk, budget>>

Filling == {"copy1", "add1", "copy2", "add2"}

\* setDMADesc: the descriptors anew, from the start of the ring.
KeepDesc == UNCHANGED <<next, chain>>                             \* mutant
setDMADesc == /\ next' = 0
              /\ chain' = buf_size

WakeSync == dac_sem' = dac_sem + 1

\* The interrupt is masked, and acknowledged when playing starts again.
IsrStop ==
  /\ ~ SomethingLeft /\ sema = 0
  /\ irq' = FALSE
  /\ initDevice' = FALSE
  /\ setDMADesc
  /\ audio_reset_buf
  /\ decoder_sem' = decoder_sem + 1
  /\ WakeSync
  /\ call'   = [call EXCEPT !.cut = TRUE]
  /\ queue'  = << >>
  /\ intact' = (pc \notin Filling \cup {"fill"})
  /\ shrunk' = FALSE
  /\ UNCHANGED <<sema, bar, isr, buf_size, pc, stamp, lost, budget>>

Isr == /\ pc # "overrun"
       /\ \/ irq /\ isr = "none" /\ (IsrMore \/ IsrOverrun \/ IsrRemain \/ IsrStop)
          \/ IsrAcknowledge

----------------------------------------------------------------------------
(* fillDecoderBuffer                                                       *)

Return(r) == /\ pc' = "idle"
             /\ call' = [NoCall EXCEPT !.cmd = call.cmd, !.told = r, !.took = call.took,
                                       !.cut = call.cut]

Failed == -1

\* The loop of stmp_audio_write, given the bytes still available; -1 there
\* is a very large number.
WaitForSpace(avail) == IF avail # 0 THEN pc' = "down" /\ UNCHANGED call
                       ELSE Return(call.count)

\* How much goes to the write pointer and how much to the start of the ring.
Space == LET free == buf_size - decoderValidBytes
         IN  IF free < 0 THEN buf_size ELSE free
Taken == IF AvaliableUserBytes < 0 THEN Space ELSE Lesser(AvaliableUserBytes, Space)
ToDefaultEnd == DefaultSize - decoderWritePointer               \* mutant
ToEnd        == buf_size - decoderWritePointer

NewPointer == LET p == IF Taken > ToEnd THEN Taken - ToEnd
                       ELSE decoderWritePointer + Taken
              IN  IF p >= buf_size THEN 0 ELSE p

\* With the write pointer behind the end of the ring, the first length is one
\* of nearly 4G: copy_from_user refuses it and clears as much, the kernel stops.
Fill(stage) ==
  IF Space = 0 \/ ToEnd < 0
  THEN /\ pc' = IF Space = 0 THEN "filled" ELSE "overrun"
       /\ call' = [call EXCEPT !.stage = stage]
       /\ UNCHANGED decoderWritePointer
  ELSE /\ pc' = "copy1"
       /\ call' = [call EXCEPT !.stage = stage,
                               !.at = decoderWritePointer,
                               !.n1 = Lesser(Taken, ToEnd),
                               !.n2 = Taken - Lesser(Taken, ToEnd)]
       /\ decoderWritePointer' = NewPointer

Units(n) == [i \in 1 .. n |-> ((stamp + i - 1) % Samples) + 1]

CopyTo(at, n) ==
  /\ ring' = [p \in Memory |-> IF p \in at .. at + n - 1 THEN Units(n)[p - at + 1]
                             ELSE ring[p]]
  /\ AvaliableUserBytes' = AvaliableUserBytes - n
  /\ UNCHANGED <<channel, decoderWritePointer, decoderValidBytes, lastDMAPosition,
                 initDevice, active, buf_size, sems, call, history, budget>>

\* addDecoderValidBytes: from here on the units count as accepted.
Add(n) ==
  /\ decoderValidBytes' = decoderValidBytes + n
  /\ stamp' = (stamp + n) % Samples
  /\ queue' = IF intact THEN queue \o Units(n) ELSE << >>
  /\ call'  = [call EXCEPT !.took = @ + n]
  /\ UNCHANGED <<channel, ring, decoderWritePointer, AvaliableUserBytes, lastDMAPosition,
                 initDevice, active, buf_size, sems, intact, shrunk, lost, budget>>

Copy1 == /\ pc = "copy1" /\ pc' = "add1"
         /\ CopyTo(call.at, call.n1)

Add1 == /\ pc = "add1"
        /\ pc' = IF call.n2 # 0 /\ AvaliableUserBytes # 0 THEN "copy2" ELSE "filled"
        /\ Add(call.n1)

Copy2 == /\ pc = "copy2" /\ pc' = "add2"
         /\ CopyTo(0, call.n2)

Add2 == /\ pc = "add2" /\ pc' = "filled"
        /\ Add(call.n2)

\* -EFAULT: the write pointer has moved and stays where it is.
CopyFaults ==
  /\ pc \in {"copy1", "copy2"}
  /\ (pc = "copy1" => call.n1 > 0)
  /\ Spend("mishap")
  /\ intact' = FALSE
  /\ queue' = << >>
  /\ IF call.stage = "loop" THEN pc' = "fault" /\ UNCHANGED call ELSE Return(Failed)
  /\ UNCHANGED <<channel, buffer, sems, stamp, shrunk, lost>>

----------------------------------------------------------------------------
(* stmp_audio_write                                                        *)

Begin(cmd) == /\ pc = "idle"
              /\ Spend("control")
              /\ call' = [NoCall EXCEPT !.cmd = cmd]

Write(w) ==
  /\ pc = "idle"
  /\ budget.write > 0
  /\ budget.mishap > 0 \/ intact
  /\ budget' = [budget EXCEPT !.write = @ - 1, !.mishap = IF intact THEN @ ELSE @ - 1]
  /\ AvaliableUserBytes' = w.count
  /\ call' = [NoCall EXCEPT !.cmd = "write", !.count = w.count, !.nonblock = w.nonblock,
                            !.stage = IF initDevice THEN "direct" ELSE "first"]
  /\ active' = (active \/ ~ initDevice)
  /\ pc' = IF initDevice /\ w.count >= Block THEN "down" ELSE "fill"
  /\ UNCHANGED <<channel, ring, decoderWritePointer, decoderValidBytes, lastDMAPosition,
                 initDevice, buf_size, sems, history>>

\* Two blocks to begin with, so that the channel never waits for the handler.
StartChannel == /\ Increment(2)
                /\ irq' = FALSE
                /\ initDevice' = TRUE
                /\ UNCHANGED <<chain, isr>>

\* After the first fill, initDacWrite.
FilledFirst ==
  /\ pc = "filled" /\ call.stage = "first"
  /\ IF decoderValidBytes = buf_size THEN StartChannel ELSE UNCHANGED <<channel, initDevice>>
  /\ WaitForSpace(AvaliableUserBytes)
  /\ UNCHANGED <<ring, decoderWritePointer, decoderValidBytes, AvaliableUserBytes,
                 lastDMAPosition, active, buf_size, sems, history, budget>>

FilledDirect ==
  /\ pc = "filled" /\ call.stage = "direct"
  /\ WaitForSpace(AvaliableUserBytes)
  /\ UNCHANGED <<channel, buffer, sems, history, budget>>

\* In the loop the caller looks whether the handler has stopped the sound.
StoppedMeanwhile ==
  /\ pc \in {"filled", "fault"} /\ call.stage = "loop"
  /\ ~ initDevice
  /\ decoder_sem' = decoder_sem + 1
  /\ audio_reset_buf
  /\ queue' = << >>
  /\ intact' = (buf_size = chain)
  /\ Return(0)
  /\ UNCHANGED <<channel, initDevice, buf_size, dac_sem, stamp, shrunk, lost, budget>>

FilledLoop ==
  /\ pc = "filled" /\ call.stage = "loop"
  /\ initDevice
  /\ WaitForSpace(AvaliableUserBytes)
  /\ UNCHANGED <<channel, buffer, sems, history, budget>>

FaultLoop ==
  /\ pc = "fault"
  /\ initDevice
  /\ decoder_sem' = decoder_sem + 1
  /\ Return(call.count - AvaliableUserBytes)
  /\ UNCHANGED <<channel, buffer, dac_sem, history, budget>>

\* The first fill, of an idle device or of less than a block.
FillFirst ==
  /\ pc = "fill"
  /\ Fill(call.stage)
  /\ UNCHANGED <<channel, ring, decoderValidBytes, AvaliableUserBytes, lastDMAPosition,
                 initDevice, active, buf_size, sems, history, budget>>

WouldBlockDone == call.count                                    \* mutant
WouldBlock     == Failed

\* The fills of the loop: down_interruptible, or down_trylock with O_NONBLOCK.
FillNext ==
  /\ pc = "down"
  /\ \/ /\ decoder_sem > 0
        /\ decoder_sem' = decoder_sem - 1
        /\ Fill("loop")
     \/ /\ decoder_sem = 0 /\ call.nonblock
        /\ Return(WouldBlock)
        /\ UNCHANGED <<decoder_sem, decoderWritePointer>>
  /\ UNCHANGED <<channel, ring, decoderValidBytes, AvaliableUserBytes, lastDMAPosition,
                 initDevice, active, buf_size, dac_sem, history, budget>>

----------------------------------------------------------------------------
(* SNDCTL_DSP_SYNC and SNDCTL_DSP_RESET                                    *)

\* audio_sync of a file open for reading and writing: it does nothing for
\* the others.
Sync ==
  /\ Begin("sync")
  /\ pc' = "drain"
  /\ IF decoderValidBytes > 0 /\ ~ initDevice THEN StartChannel
     ELSE UNCHANGED <<channel, initDevice>>
  /\ UNCHANGED <<ring, decoderWritePointer, decoderValidBytes, AvaliableUserBytes,
                 lastDMAPosition, active, buf_size, sems, history>>

Reset ==
  /\ Begin("reset")
  /\ \/ /\ initDevice
        /\ pc' = "drain"
        /\ UNCHANGED <<ring, lastDMAPosition, AvaliableUserBytes, decoderValidBytes,
                       decoderWritePointer, active, queue, intact>>
     \/ /\ ~ initDevice
        /\ audio_reset_buf
        /\ queue' = << >>
        /\ intact' = (buf_size = chain)
        /\ UNCHANGED pc
  /\ UNCHANGED <<channel, initDevice, buf_size, sems, stamp, shrunk, lost>>

\* while(initDevice == 1) down(sem); whoever finds it stopped ups it again.
Drain ==
  /\ pc = "drain"
  /\ IF initDevice THEN pc' = "asleep" /\ UNCHANGED call ELSE Return(0)
  /\ UNCHANGED <<channel, buffer, sems, history, budget>>

Woken ==
  /\ pc = "asleep" /\ dac_sem > 0
  /\ dac_sem' = dac_sem - 1
  /\ pc' = "drained"
  /\ UNCHANGED <<channel, buffer, decoder_sem, call, history, budget>>

Drained ==
  /\ pc = "drained"
  /\ \/ /\ ~ initDevice
        /\ dac_sem' = dac_sem + 1
        /\ Return(0)
     \/ /\ initDevice
        /\ pc' = "drain"
        /\ UNCHANGED <<call, dac_sem>>
  /\ UNCHANGED <<channel, buffer, decoder_sem, history, budget>>

\* A signal wakes a caller that waits on a semaphore.
Signal ==
  /\ \/ pc = "down" /\ decoder_sem = 0 /\ ~ call.nonblock
     \/ pc = "asleep" /\ dac_sem = 0
  /\ Return(Failed)
  /\ UNCHANGED <<channel, buffer, sems, history, budget>>

----------------------------------------------------------------------------
(* open, release, and SNDCTL_DSP_SETFRAGMENT                               *)

\* What was accepted and not played is played as silence.
Close ==
  /\ Begin("close")
  /\ pc' = "closed"
  /\ ring' = Silence
  /\ queue' = [i \in DOMAIN queue |-> 0]
  /\ UNCHANGED <<channel, decoderWritePointer, decoderValidBytes, AvaliableUserBytes,
                 lastDMAPosition, initDevice, active, buf_size, sems, intact, stamp, shrunk,
                 lost>>

\* The descriptors are left as they were: setDMADesc is commented out.
Open ==
  /\ pc = "closed" /\ pc' = "idle"
  /\ decoder_sem' = 1
  /\ buf_size' = DefaultSize
  /\ intact' = (intact /\ chain = DefaultSize)
  /\ queue' = IF chain = DefaultSize THEN queue ELSE << >>
  /\ shrunk' = (shrunk \/ DefaultSize < buf_size)
  /\ UNCHANGED <<channel, ring, decoderWritePointer, decoderValidBytes,
                 AvaliableUserBytes, lastDMAPosition, initDevice, active, dac_sem, call,
                 stamp, lost, budget>>

\* The test is of active, not of initDevice.
SetWhileActive(s) ==                                            \* mutant
  /\ Begin("set_fragment")
  /\ buf_size' = s
  /\ next' = 0
  /\ chain' = s
  /\ UNCHANGED <<sema, bar, irq, isr, ring, decoderWritePointer, decoderValidBytes,
                 AvaliableUserBytes, lastDMAPosition, initDevice, active, sems, pc,
                 history>>
SetFragment(s) ==
  /\ ~ active
  /\ Begin("set_fragment")
  /\ buf_size' = s
  /\ next' = 0
  /\ chain' = s
  /\ intact' = (decoderValidBytes = 0 /\ decoderWritePointer = 0 /\ ~ initDevice)
  /\ queue' = << >>
  /\ shrunk' = (initDevice /\ (shrunk \/ s < buf_size))
  /\ UNCHANGED <<sema, bar, irq, isr, ring, decoderWritePointer, decoderValidBytes,
                 AvaliableUserBytes, lastDMAPosition, initDevice, active, sems, pc,
                 stamp, lost>>

----------------------------------------------------------------------------
Init ==
  /\ sema = 0 /\ bar = 0 /\ next = 0 /\ chain = DefaultSize
  /\ irq = FALSE /\ isr = "none"
  /\ ring = Silence
  /\ decoderWritePointer = 0
  /\ decoderValidBytes = 0
  /\ AvaliableUserBytes = 0
  /\ lastDMAPosition = 0
  /\ initDevice = FALSE
  /\ active = FALSE
  /\ buf_size = DefaultSize
  /\ decoder_sem = 1 /\ dac_sem = 1
  /\ pc = "idle"
  /\ call = NoCall
  /\ queue = << >> /\ intact = TRUE /\ stamp = 0
  /\ shrunk = FALSE /\ lost = FALSE
  /\ budget = [write |-> MaxWrites, control |-> MaxControls, mishap |-> MaxMishaps]

\* What the caller's thread does until its call returns.
Caller == \/ FillFirst \/ FillNext \/ Copy1 \/ Add1 \/ Copy2 \/ Add2
          \/ FilledFirst \/ FilledDirect \/ FilledLoop \/ FaultLoop
          \/ StoppedMeanwhile \/ Drain \/ Woken \/ Drained

Request == \/ \E w \in Writes : Write(w)
           \/ Sync \/ Reset \/ Close \/ Open
           \/ \E s \in Sizes : SetFragment(s)

\* The handler keeps the processor until it is done.
Next == \/ Play
        \/ Isr
        \/ isr = "none" /\ (Caller \/ Request \/ Signal \/ CopyFaults)

Spec == Init /\ [][Next]_vars

\* The channel plays, the interrupt is taken, the caller's thread runs.
FairSpec == /\ Spec
            /\ WF_vars(Play) /\ WF_vars(Isr) /\ WF_vars(isr = "none" /\ Caller)

----------------------------------------------------------------------------
TypeOK ==
  /\ sema \in Nat
  /\ bar \in 0 .. MemorySize
  /\ next \in Memory
  /\ chain \in Sizes /\ buf_size \in Sizes
  /\ irq \in BOOLEAN /\ isr \in {"none", "remain"}
  /\ ring \in [Memory -> 0 .. Samples]
  /\ decoderWritePointer \in Memory
  /\ decoderValidBytes \in Nat
  /\ AvaliableUserBytes \in Int
  /\ lastDMAPosition \in 0 .. MemorySize
  /\ initDevice \in BOOLEAN /\ active \in BOOLEAN
  /\ decoder_sem \in Nat /\ dac_sem \in Nat
  /\ pc \in {"idle", "closed", "fill", "filled", "fault", "down", "drain", "asleep",
             "drained", "overrun"} \cup Filling
  /\ queue \in Seq(0 .. Samples)
  /\ intact \in BOOLEAN /\ shrunk \in BOOLEAN /\ lost \in BOOLEAN
  /\ stamp \in 0 .. Samples - 1

(* What is left out of step: "intact" is no longer claimed once the        *)
(* channel has played on with nothing left, the handler has stopped the    *)
(* sound in the middle of a fill, a copy from the caller has failed, or    *)
(* open or a fragment setting has changed the ring under its sound.        *)

\* The unit played next: a halted channel goes on at its next descriptor.
Position == IF sema > 0 THEN bar ELSE next

(* The units accepted and not yet played lie in the ring from the channel's*)
(* position on, in order and none missing: the write pointer, the counts of*)
(* the handler and its clearing of what was played never reach them.       *)
RingInStep ==
  intact => \A i \in 1 .. Len(queue) : ring[(Position + i - 1) % buf_size] = queue[i]

(* Neither the write pointer, nor the counts, nor a copy leave the ring,   *)
(* also when the handler resets them in the middle of a fill, and a clear- *)
(* ing that runs past its end stays in the mapped pages: the semaphore lets*)
(* the channel be at most a block past the wrap.  Only a ring made smaller *)
(* under the sound, or than that of its descriptors, undoes this, until a  *)
(* stop.                                                                   *)
WithinRing ==
  ~ shrunk =>
    /\ pc # "overrun"
    /\ decoderWritePointer < buf_size
    /\ lastDMAPosition <= buf_size
    /\ decoderValidBytes <= buf_size
    /\ pc \in Filling => call.at + call.n1 <= buf_size /\ call.n2 <= call.at

(* decoderValidBytes, from which the space for the next write follows,     *)
(* covers what is still to be played: a fill never overwrites it.          *)
SpaceIsPlayed == intact => Len(queue) <= decoderValidBytes

(* What a write reports is what it added to the ring, but for one during   *)
(* which the handler stopped the sound.  In a ring made smaller a write may*)
(* find no sound and report 0, though none was stopped.                    *)
ReportedIsQueued ==
  pc = "idle" /\ call.cmd = "write" /\ call.told # Failed /\ ~ call.cut /\ ~ shrunk =>
    call.told = call.took

(* The handler stops the sound only when all that was accepted was played. *)
StopsWhenPlayed == [][intact /\ initDevice /\ ~ initDevice' => queue = << >>]_vars

(* While sound plays the descriptors move on only because the channel loads*)
(* one: the test of active keeps SETFRAGMENT from rewinding them, except   *)
(* after a write during which the handler stopped the sound, which leaves  *)
(* units in the ring and active unset.                                     *)
DescriptorsKept ==
  [][intact /\ initDevice /\ initDevice' /\ <<next, chain>>' # <<next, chain>> =>
       bar' = next]_vars

Resting == {"idle", "closed", "overrun"}

(* A write, a sync and a reset return, a writer because the channel makes  *)
(* room and the others because the sound stops, unless the interrupt that  *)
(* halted the channel was acknowledged unseen.                             *)
CallsReturn == pc \notin Resting ~> pc \in Resting \/ lost
=============================================================================
