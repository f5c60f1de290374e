----------------------------- MODULE DurableMap -----------------------------
(***************************************************************************)
(* What the bad block manager promises the driver above it: a mapping of   *)
(* the blocks in use, kept on the chip.  A call changes it at an instant,  *)
(* for one block, to a block that nothing else uses; a call returns only   *)
(* once the chip holds its change; and what a reboot finds is what the     *)
(* chip holds, whenever the power goes.                                    *)
(***************************************************************************)
EXTENDS Naturals

CONSTANTS User, Spare

VARIABLES
  stored,     \* the mapping the chip holds; << >> while it holds none
  answered,   \* the mapping callers were last given
  busy,       \* a call runs, or the power is off: they are given none
  formatting  \* the call is a format, which makes the mapping anew

vars == <<stored, answered, busy, formatting>>

None == << >>

Mappings == {m \in [User -> User \cup Spare] :
               \A u, v \in User : m[u] = m[v] => u = v}

\* What m becomes when one block gets another one, which nothing used.
Replacements(m) ==
  {[m EXCEPT ![u] = b] : u \in User, b \in Spare \ {m[v] : v \in User}}

Init == stored = None /\ answered = None /\ busy = TRUE /\ formatting = FALSE

\* On request, or because the chip holds no mapping.
StartFormat == /\ ~ formatting /\ formatting'
               /\ busy => stored = None
               /\ busy'
               /\ UNCHANGED <<stored, answered>>

\* Nothing is promised of the old mapping from here on, nor, if the power
\* goes, of the new one.
Formatting == /\ formatting /\ busy'
              /\ stored' \in Mappings \cup {None}
              /\ UNCHANGED answered

FormatDone == /\ formatting /\ ~ formatting'
              /\ ~ busy'
              /\ stored' \in Mappings
              /\ answered' = stored'

\* The change of the call in progress takes place, or is taken back.
Change == /\ busy /\ ~ formatting
          /\ UNCHANGED <<answered, busy, formatting>>
          /\ stored # None
          /\ stored' \in Replacements(answered) \cup {answered}

Call == /\ busy'
        /\ UNCHANGED <<answered, stored, formatting>>

Answer == /\ busy /\ ~ busy' /\ ~ formatting
          /\ answered' = stored
          /\ UNCHANGED <<stored, formatting>>

Next == StartFormat \/ Formatting \/ FormatDone \/ Change \/ Call \/ Answer

Spec == Init /\ [][Next]_vars
=============================================================================
