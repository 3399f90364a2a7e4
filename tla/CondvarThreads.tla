--------------------------- MODULE CondvarThreads ---------------------------
(***************************************************************************)
(* The threads of both condvar.c, as they are checked and proved about:    *)
(* CondvarStates with variables of its own, so that a run and a proof can  *)
(* be about more programs than one.                                        *)
(***************************************************************************)
EXTENDS Integers

VARIABLES
  machine_owner, machine_waiters,   \* owner, waiters
  version,    \* which of the two programs it is
  current,    \* state
  visits,     \* i, state_1's local variable
  place,      \* pc
  started     \* main

machineVars ==
  <<machine_owner, machine_waiters, version, current, visits, place, started>>

States == INSTANCE CondvarStates
            WITH owner <- machine_owner, waiters <- machine_waiters, NoThread <- -1,
                 state <- current, i <- visits, pc <- place, main <- started

StatesSafe == States!Spec

StatesSpec == States!FairSpec

-----------------------------------------------------------------------------
(* What CondvarStates states of its program *)

StatesTypeOK == States!TypeOK

MachineSpec == States!MachineSpec
=============================================================================
