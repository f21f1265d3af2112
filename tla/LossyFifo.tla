----------------------------- MODULE LossyFifo -----------------------------
(***************************************************************************)
(* What a fail-open probe promises of the frames it is shown: it may lose  *)
(* any of them at any moment, but it invents none, repeats none and        *)
(* reorders none.  Frames are numbered in the order in which they appear.  *)
(***************************************************************************)
EXTENDS Integers, Sequences

VARIABLES seen,      \* so many frames have appeared
          pending,   \* those inside the probe, oldest first
          output     \* those in the log, oldest first

fifoVars == <<seen, pending, output>>

Without(s, i) == SubSeq(s, 1, i - 1) \o SubSeq(s, i + 1, Len(s))

Init == seen = 0 /\ pending = <<>> /\ output = <<>>

\* A frame appears, and is taken in or missed at once.
Appear ==
  /\ seen' = seen + 1
  /\ pending' \in {pending, Append(pending, seen + 1)}
  /\ UNCHANGED output

Lose ==
  /\ \E i \in DOMAIN pending : pending' = Without(pending, i)
  /\ UNCHANGED <<seen, output>>

Emit ==
  /\ pending # <<>>
  /\ output' = Append(output, Head(pending))
  /\ pending' = Tail(pending)
  /\ UNCHANGED seen

Next == Appear \/ Lose \/ Emit

Spec == Init /\ [][Next]_fifoVars

=============================================================================
