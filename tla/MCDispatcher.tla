---------------------------- MODULE MCDispatcher ----------------------------
(* Dispatcher with every method it handles and one it does not, two        *)
(* connections, one string, and a list filled from the file of that name.  *)
EXTENDS Dispatcher, TLC

Kick        == [base |-> "kick", nums |-> <<>>]
KickOnly    == {Kick}
LeadNames   == {[base |-> "lead", nums |-> <<>>]}
AllMethods  == Handled \union {"samplelist/list"}

\* Bound: imports and requests together.
AtMostThree == imports + TotalSent <= 3

ConnSymmetry == Permutations(Conns)
=============================================================================
