-------------------------- MODULE MCReassembler ----------------------------
(* Two segments of Reassembler that have one chunk in common.              *)
EXTENDS Reassembler

MCSegments == {"s1", "s2"}
MCSource == [s1 |-> <<"a", "b", "c">>, s2 |-> <<"b", "d">>]

=============================================================================
