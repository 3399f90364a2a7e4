---------------------------- MODULE StateMachine ----------------------------
(***************************************************************************)
(* The transitions that proc_thread/solutions/condvar.c announces in its   *)
(* head comment: 0 -> 1, 1 -> 2 when state 1's variable is even, 1 -> 3    *)
(* when it is odd, 2 -> 0 and 3 -> 0; the variable counts the visits to    *)
(* state 1, so that 2 and 3 take turns.  proc_thread/condvar.c announces   *)
(* two states, 0 -> 1 and 1 -> 0.  Once the program has started it, the    *)
(* machine never stops, unless the program is ended.                       *)
(***************************************************************************)
EXTENDS Naturals

VARIABLES
  states,   \* their number
  state,    \* the current one
  odd,      \* whether state 1's variable is
  phase     \* "new", "running" or "ended"

machineVars == <<states, state, odd, phase>>

Init == states \in {2, 4} /\ state = 0 /\ odd = TRUE /\ phase = "new"

Move(from, to) ==
  /\ phase = "running"
  /\ state = from /\ state' = to
  /\ UNCHANGED <<states, phase>>

Branch ==
  /\ states = 4
  /\ odd' = ~odd
  /\ Move(1, IF odd' THEN 3 ELSE 2)

Straight ==
  /\ IF states = 2 THEN Move(0, 1) \/ Move(1, 0)
     ELSE Move(0, 1) \/ Move(2, 0) \/ Move(3, 0)
  /\ UNCHANGED odd

Goes(from, to) ==
  phase = from /\ phase' = to /\ UNCHANGED <<states, state, odd>>

Start == Goes("new", "running")

Stop == Goes("running", "ended")

Next == Start \/ Branch \/ Straight \/ Stop

Spec == Init /\ [][Next]_machineVars /\ WF_machineVars(Branch \/ Straight)
=============================================================================
