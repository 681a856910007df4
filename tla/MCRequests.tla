---------------------------- MODULE MCRequests ----------------------------
(* Two requests of two callers to two workers, one batch to a window; bodies in
   parts of at most one unit, of which one is within the limit. *)
EXTENDS Requests

TwoRequests == {1, 2}
TwoCallers == {"ann", "bob"}
SomeClaims == {<<>>, <<"bob">>}
TwoWorkers == {"w1", "w2"}
TwoAnswers == {"200", "502"}
===========================================================================
