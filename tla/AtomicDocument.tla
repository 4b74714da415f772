--------------------------- MODULE AtomicDocument ---------------------------
(***************************************************************************)
(* What a rail takes for granted of a document it updates: a call takes    *)
(* effect on what is there at that moment, in one step, at most once, or   *)
(* not at all.  The content is the set of calls that have taken effect.    *)
(***************************************************************************)
CONSTANT Calls       \* the calls that reach the document

VARIABLES there,     \* whether the document exists
          marks,     \* the calls whose effect it carries
          wants,     \* where each call takes effect: there, not there, or both
          result     \* what has become of each call

AtomicInit ==
    /\ there \in {"yes", "no"}
    /\ marks = {}
    /\ wants \in [Calls -> SUBSET {"yes", "no"}]
    /\ result = [c \in Calls |-> "pending"]

Becomes(c, r) ==
    /\ result[c] = "pending"
    /\ result' = [result EXCEPT ![c] = r]
    /\ UNCHANGED wants

\* On top of everything that has taken effect before it.
TakesEffect(c) ==
    /\ Becomes(c, "done")
    /\ there \in wants[c]
    /\ there' = "yes" /\ marks' = marks \cup {c}

\* The document is not what the call asks for at this moment.
IsRefused(c) ==
    /\ Becomes(c, "refused")
    /\ there \notin wants[c]
    /\ UNCHANGED <<there, marks>>

\* An error, and nothing has happened.
GivesUp(c) ==
    /\ Becomes(c, "nothing")
    /\ UNCHANGED <<there, marks>>

AtomicNext == \E c \in Calls : TakesEffect(c) \/ IsRefused(c) \/ GivesUp(c)

atomicVars == <<there, marks, wants, result>>

AtomicSpec == AtomicInit /\ [][AtomicNext]_atomicVars
=============================================================================
