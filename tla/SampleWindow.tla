---------------------------- MODULE SampleWindow ----------------------------
(***************************************************************************)
(* What a bounded audio buffer promises: it holds the newest Capacity      *)
(* samples of everything appended since it was last cleared.               *)
(***************************************************************************)
EXTENDS Naturals, Sequences

CONSTANTS Capacity,  \* capacity_samples
          Arrays     \* the arrays that may be appended

VARIABLES window,
          given  \* the last array appended, <<>> after a clear

Last(s, n) == IF Len(s) <= n THEN s ELSE SubSeq(s, Len(s) - n + 1, Len(s))

Init == window = <<>> /\ given = <<>>

Push(array) == window' = Last(window \o array, Capacity) /\ given' = array

Clear == window' = <<>> /\ given' = <<>>

Next == Clear \/ \E a \in Arrays : Push(a)

Spec == Init /\ [][Next]_<<window, given>>
=============================================================================
