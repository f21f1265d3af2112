---------------------------- MODULE SegmentStore ----------------------------
(***************************************************************************)
(* What the RAM-disk directory promises its consumer (slimSync), without   *)
(* saying how: a bounded log of segments.  Names only grow, a name is      *)
(* never given to a second segment, only the oldest segment is ever given  *)
(* up, and never one of the Keep newest.  wal/rotate.rs states these       *)
(* promises in the comment above Rotator; module Rotator implements them.  *)
(***************************************************************************)
EXTENDS Integers, FiniteSets

CONSTANT Keep          \* so many of the newest segments are never given up

VARIABLES segs,        \* the numbers of the segments the directory holds
          allocated,   \* every number given out since the directory was last
                       \* read right (history)
          astray       \* the owner works with numbers it has misread (history)

storeVars == <<segs, allocated, astray>>

\* A new number is above every number ever given out.
Allocate ==
  /\ ~ astray /\ ~ astray'
  /\ \E n \in allocated' \ allocated :
       /\ \A a \in allocated : a < n
       /\ allocated' = allocated \cup {n}
       /\ segs' = segs \cup {n}

\* Unlink-Oldest: the oldest goes, and only when more than Keep are there.
Discard ==
  /\ ~ astray /\ ~ astray'
  /\ Cardinality(segs) > Keep
  /\ \E n \in segs : /\ \A s \in segs : n <= s
                     /\ segs' = segs \ {n}
  /\ UNCHANGED allocated

\* The owner misreads the directory, or works on with what it has misread:
\* nothing is promised ...
Misread == astray'

\* ... until it reads the directory right. The promise is then about what is
\* there.
Recover ==
  /\ astray /\ ~ astray'
  /\ allocated' = segs
  /\ UNCHANGED segs

Init == /\ segs \in SUBSET Nat
        /\ allocated = segs
        /\ astray = FALSE

Next == Allocate \/ Discard \/ Misread \/ Recover

Spec == Init /\ [][Next]_storeVars

=============================================================================
