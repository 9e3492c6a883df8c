----------------------------- MODULE EtiStream -----------------------------
(***************************************************************************)
(* What the ETI-over-UDP transport promises to whoever reads the           *)
(* receiver's output: groups that were sent, each at most once and in the  *)
(* order of their numbers.  Groups may be missing, but what one write      *)
(* loop puts out is a run of consecutive groups.                           *)
(***************************************************************************)
EXTENDS Integers, Sequences

VARIABLES
  sent,     \* number of groups sent: they are the groups 1..sent
  stream    \* numbers of the groups written

streamVars == <<sent, stream>>

Init == sent = 0 /\ stream = << >>

Send == sent' = sent + 1 /\ UNCHANGED stream

\* Write the groups first..last, all of them later than what was written.
Write ==
  /\ \E first \in 1..sent : \E last \in first..sent :
       /\ stream # << >> => stream[Len(stream)] < first
       /\ stream' = stream \o [i \in 1..(last - first + 1) |-> first + i - 1]
  /\ UNCHANGED sent

Next == Send \/ Write

Spec == Init /\ [][Next]_streamVars
============================================================================
