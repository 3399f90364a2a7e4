------------------------- MODULE MCCondvarPrograms -------------------------
(***************************************************************************)
(* The condvar programs of proc_thread for TLC: CondvarQueue, ProdCons and *)
(* CondvarStates.  One behaviour is a run of one of them: the other two    *)
(* have not been started, and nothing is assumed or shown of them.         *)
(*                                                                         *)
(* The queue gets bursts of one and two integers, four integers in all, so *)
(* that a burst can arrive while the handler writes, while it drains an    *)
(* empty list and while it waits.  The turn of ProdCons passes often       *)
(* enough for both threads to wait, wake, and be woken for nothing.  The   *)
(* two versions of CondvarStates are looked at without any bound.          *)
(***************************************************************************)
EXTENDS CondvarQueue, ProdConsThreads, CondvarThreads

VARIABLE chosen   \* the program that is run

ProgramsInit ==
  /\ chosen \in {"condvar_queue_ex", "prodcons", "condvar"}
  /\ Init /\ Turns!Init /\ States!Init
  /\ chosen # "condvar" => version = 2   \* either will do

ProgramsNext ==
  /\ UNCHANGED chosen
  /\ \/ /\ chosen = "condvar_queue_ex"
        /\ Next /\ UNCHANGED <<turnVars, machineVars>>
     \/ /\ chosen = "prodcons"
        /\ Turns!Next /\ UNCHANGED <<vars, machineVars>>
     \/ /\ chosen = "condvar"
        /\ States!Next /\ UNCHANGED <<vars, turnVars>>

\* The fairness of the program that is run, as its module justifies it
ProgramsFairness ==
  \/ chosen = "condvar_queue_ex" /\ Fairness
  \/ chosen = "prodcons" /\ Turns!Fairness
  \/ chosen = "condvar" /\ States!Fairness

ProgramsSpec ==
  /\ ProgramsInit /\ [][ProgramsNext]_<<vars, turnVars, machineVars, chosen>>
  /\ ProgramsFairness
=============================================================================
