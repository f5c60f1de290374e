-------------------------- MODULE MCLogicalDevice --------------------------
(* LogicalDevice for TLC: layouts that UFD_SET_PARTITION is asked for, two  *)
(* partitions a chip, in blocks that may or may not be whole plane groups. *)
EXTENDS LogicalDevice

P(class, n, x) == [NumBlocks |-> n, DevClass |-> class, InDevTable |-> TRUE, DevIndex |-> x]

\* Merged with those of the other chip; 3 blocks lose one, 1 loses it all; the
\* FTL partition of the third starts on an odd block and is moved up; the last
\* merges two partitions of one chip, which leaves no room for another chip.
Layouts == { << P("RAW", 2, 0), P("FTL", 3, 0) >>,
             << P("FTL", 5, 0) >>,
             << P("RAW", 1, 0), P("FTL", 4, 0) >>,
             << P("FTL", 2, 0), P("FTL", 2, 0) >> }
\* The FTL partition is moved up into the raw one after it.
Overlapping == { << P("RAW", 3, 0), P("FTL", 2, 0), P("RAW", 2, 0) >> }
Stack   == { NoPart, [NoPart EXCEPT !.NumBlocks = ActualNumBlocks + 1] }
Devices == { <<"RAW", 0, ENTIRE_PARTITION>>, <<"RAW", 1, ENTIRE_PARTITION>>,
             <<"RAW", 0, 1>>, <<"RAWTABLE", 0>>, <<"FTL", 0>> }
============================================================================
