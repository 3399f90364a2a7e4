-------------------------- MODULE ProdConsThreads --------------------------
(***************************************************************************)
(* The threads of prodcons.c, as they are checked and proved about:        *)
(* ProdCons with variables of its own, so that a run and a proof can be    *)
(* about more programs than one.                                           *)
(***************************************************************************)
EXTENDS Integers, Sequences

CONSTANT MaxProducts

ASSUME ProdConsAssumption == MaxProducts \in Nat

VARIABLES
  turn_owner, turn_waiters,   \* owner, waiters
  turn,        \* state
  product,     \* the output of the producer
  tpc, tmain,  \* pc, main
  consumed     \* history: the products the consumer has printed, in order

turnVars == <<turn_owner, turn_waiters, turn, product, tpc, tmain, consumed>>

Turns == INSTANCE ProdCons
           WITH owner <- turn_owner, waiters <- turn_waiters, NoThread <- "nobody",
                state <- turn, pc <- tpc, main <- tmain

TurnsSafe == Turns!Spec

TurnsSpec == Turns!FairSpec

-----------------------------------------------------------------------------
(* What ProdCons states of its program *)

TurnsTypeOK == Turns!TypeOK

NeverBothAsleep == Turns!NeverBothAsleep

TurnsFeedSpec == Turns!FeedSpec

EveryProductConsumed == Turns!EveryProductConsumed
=============================================================================
