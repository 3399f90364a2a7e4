--------------------------- MODULE ProcessEvents ---------------------------
(***************************************************************************)
(* The programs that wait for what the kernel or the process manager tells *)
(* them, as they are checked and proved about: the pulse loops and the two *)
(* parents of ChildDeath, with names for what a run needs.  The loops and  *)
(* the parents share nothing.                                              *)
(***************************************************************************)
EXTENDS Integers, Sequences

CONSTANTS Programs, Pids, Burst, MaxEvents, KillParents

ASSUME ProcessEventsAssumption ==
  /\ Programs \subseteq {"nonblockpulserec", "reptimer", "death_pulse",
                         "kbd_ev", "kbd_ist"}
  /\ Burst \in Nat /\ MaxEvents \in Nat
  /\ Pids \cap Int = {}
  /\ KillParents \in BOOLEAN

VARIABLES
  program, lpc, waiting, to_send, line, masked, unmask_failed, raised, seen

VARIABLES spc, sigchld_masked, sigfunc_set, pending, sleeper,
          rpc, cpc, tstatus, mtx

pulseVars ==
  <<program, lpc, waiting, to_send, line, masked, unmask_failed, raised, seen>>

childVars ==
  <<spc, sigchld_masked, sigfunc_set, pending, sleeper, rpc, cpc, tstatus, mtx>>

Pulse == INSTANCE PulseLoops WITH pc <- lpc

Child == INSTANCE ChildDeath

PulseSafe == Pulse!Spec

PulseSpec == Pulse!FairSpec

ChildSafe == Child!Spec

ChildSpec == Child!FairSpec

-----------------------------------------------------------------------------
(* What the two modules state of their programs *)

TypesOK == Pulse!TypeOK /\ Child!TypeOK

EachEventOnce == Pulse!EachEventOnce

EveryEventHandled == Pulse!EveryEventHandled

ZombieAsReported == Child!ZombieAsReported

MutexRecovered == Child!MutexRecovered

ParentsGetThrough == Child!ParentsGetThrough
=============================================================================
