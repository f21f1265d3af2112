---------------------------- MODULE MCWalWriter ----------------------------
(***************************************************************************)
(* Instances of WalWriter for TLC.                                         *)
(***************************************************************************)
EXTENDS WalWriter

\* With a buffer of 3 and a segment of 4 cells: two that share a buffer, one
\* that is written directly, one that is larger than a segment.
MCRecSizes == <<1, 2, 3, 5, 2>>

\* Fits: no record is larger than a segment.
MCSmallRecords == <<2, 1, 2>>

=============================================================================
