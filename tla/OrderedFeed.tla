---------------------------- MODULE OrderedFeed -----------------------------
(***************************************************************************)
(* What the producer/consumer programs of proc_thread/ promise to whoever  *)
(* looks at them from outside: data that has been accepted comes out, each *)
(* piece once, in the order in which it was accepted.  No thread, lock or  *)
(* flag is visible here.                                                   *)
(***************************************************************************)
EXTENDS Sequences

CONSTANT Data

VARIABLES pending,   \* accepted, not yet at the hardware
          output     \* what has come out

feedVars == <<pending, output>>

Init == pending = <<>> /\ output = <<>>

Accept(d) == pending' = Append(pending, d) /\ UNCHANGED output

Emit ==
  /\ pending # <<>>
  /\ output' = Append(output, Head(pending))
  /\ pending' = Tail(pending)

Next == Emit \/ \E d \in Data : Accept(d)

Spec == Init /\ [][Next]_feedVars
=============================================================================
