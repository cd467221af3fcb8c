---------------------------- MODULE MCSampleList ----------------------------
(* SampleList on two files, one of which is called like a numbered copy of *)
(* the other.                                                              *)
EXTENDS SampleList

Kick       == [base |-> "kick", nums |-> <<>>]
KickOne    == [base |-> "kick", nums |-> <<1>>]
KickFiles  == {Kick, KickOne}
LeadNames  == {[base |-> "lead", nums |-> <<>>]}
=============================================================================
