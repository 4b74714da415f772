------------------------------ MODULE WorkItem ------------------------------
(***************************************************************************)
(* What every durable rail of the API promises about one unit of work that *)
(* it keeps in Mongo (a queued event, a schedule occurrence, a build job): *)
(* the work is recorded once, it is taken before it is executed, it ends   *)
(* at most once, and an ended item never becomes work again.  A rail that  *)
(* may give taken work back to the queue (the event queue's retries and    *)
(* boot recovery) is the instance with MayRequeue; a rail whose claim is   *)
(* permanent is the instance without.                                      *)
(***************************************************************************)
CONSTANTS Items,       \* identities of units of work
          MayRequeue   \* TRUE when taken work may be handed back

VARIABLE state         \* state[i] is where item i is in its life

Stages == {"absent", "queued", "taken", "ended"}

WorkInit == state = [i \in Items |-> "absent"]

Records(old, new)  == old = "absent" /\ new \in Stages
Takes(old, new)    == old = "queued" /\ new = "taken"
Requeues(old, new) == MayRequeue /\ old = "taken" /\ new = "queued"
Finishes(old, new) == old = "taken" /\ new = "ended"

\* One step of a rail may concern several items (a schedule is deleted with all
\* its occurrences); each of them stays or makes one legal move.
WorkNext ==
    /\ state' \in [Items -> Stages]
    /\ \A i \in Items :
          \/ state'[i] = state[i]
          \/ Records(state[i], state'[i])
          \/ Takes(state[i], state'[i])
          \/ Requeues(state[i], state'[i])
          \/ Finishes(state[i], state'[i])

WorkSpec == WorkInit /\ [][WorkNext]_state
=============================================================================
