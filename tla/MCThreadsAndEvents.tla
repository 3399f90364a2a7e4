------------------------- MODULE MCThreadsAndEvents -------------------------
(***************************************************************************)
(* The threads of MutexSync and the programs of ProcessEvents for TLC. One *)
(* behaviour is a run of MutexSync's threads, of one of the pulse loops or *)
(* of the two parents that wait for their child: what is not chosen has    *)
(* not been started, and nothing is assumed or shown of it.                *)
(*                                                                         *)
(* MutexSync has unsigned of three bits, so that the variables wrap, and a *)
(* message at every second piece of work.  The pulse loops get two bursts  *)
(* of three pulses, six events, or the deaths of three processes.          *)
(***************************************************************************)
EXTENDS MutexSync, ProcessEvents

VARIABLE chosen   \* what is run

ChosenInit ==
  /\ chosen \in {"threads", "loop", "parents"}
  /\ Init /\ Pulse!Init /\ Child!Init
  /\ chosen # "threads" => mutexed               \* either will do
  /\ chosen # "loop" => program = "reptimer"     \* any will do

ChosenNext ==
  /\ UNCHANGED chosen
  /\ \/ chosen = "threads" /\ Next /\ UNCHANGED <<pulseVars, childVars>>
     \/ chosen = "loop" /\ Pulse!Next /\ UNCHANGED <<vars, childVars>>
     \/ chosen = "parents" /\ Child!Next /\ UNCHANGED <<vars, pulseVars>>

\* The fairness of what is run, as its module justifies it
ChosenFairness ==
  \/ chosen = "threads" /\ Fairness
  \/ chosen = "loop" /\ Pulse!Fairness
  \/ chosen = "parents" /\ Child!Fairness

ChosenSpec ==
  /\ ChosenInit /\ [][ChosenNext]_<<vars, pulseVars, childVars, chosen>>
  /\ ChosenFairness
=============================================================================
