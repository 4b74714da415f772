--------------------------- MODULE CasStoreProofs ---------------------------
(* Theorems about CasStore for every set of calls, every mix of operations *)
(* and every number of retries.                                            *)
EXTENDS CasStore, TLAPS

\* A copy the document has moved away from since it was read.
Outdated(copy) == doc.there # copy.there \/ doc.rev # copy.rev

\* What makes LossesHaveWinners inductive: the race a call is about to lose is
\* already matched by a write.
LossesMatched ==
    \A c \in Calls : calls[c].phase = "write" /\ calls[c].kind \in {"update", "upsert"}
                     /\ Outdated(calls[c].copy) => calls[c].tries + 1 <= writes

\* Before the first put or removal every copy is fresh.
SteadyIsFresh == era = "steady" => \A c \in Calls : calls[c].fresh = "yes"

\* The inductive invariant.
IndInv == /\ TypeOK /\ CopiesAgree /\ SteadyIsFresh
          /\ AcknowledgedStays /\ LossesHaveWinners /\ LossesMatched

-----------------------------------------------------------------------------
\* The inductive invariant holds at the start.
LEMMA InitIndInv == Init => IndInv
<1> SUFFICES ASSUME Init PROVE IndInv
  OBVIOUS
<1> USE CasStoreAssumption DEF Init, NoDoc
<1>1. TypeOK
  BY DEF TypeOK, Doc, Call, Phases
<1>2. CopiesAgree /\ SteadyIsFresh /\ AcknowledgedStays
  BY DEF CopiesAgree, SteadyIsFresh, AcknowledgedStays
<1>3. LossesHaveWinners /\ LossesMatched
  BY DEF LossesHaveWinners, LossesMatched
<1> QED
  BY <1>1, <1>2, <1>3 DEF IndInv

\* Every step keeps types, and the bound on the tries of a call that goes on.
LEMMA StepType == TypeOK /\ [Next]_vars => TypeOK'
<1> SUFFICES ASSUME TypeOK, [Next]_vars PROVE TypeOK'
  OBVIOUS
<1> USE CasStoreAssumption DEF TypeOK, Doc, NoDoc, Call, Phases
<1>1. CASE UNCHANGED vars
  BY <1>1 DEF vars
<1>2. ASSUME NEW c \in Calls, Step(c) PROVE TypeOK'
  <2>1. CASE Insert(c)
    BY <2>1 DEF Insert, Writes, Replies, Ends
  <2>2. CASE Read(c)
    BY <2>2 DEF Read, Copies, Ends
  <2>3. CASE UpsertInserts(c)
    BY <2>3 DEF UpsertInserts, Writes, Replies, Ends, LosesRace
  <2>4. CASE Swap(c)
    BY <2>4 DEF Swap, Writes, Replies, Ends, LosesRace, Swapped, Matches
  <2>5. CASE Get(c)
    BY <2>5 DEF Get, Copies
  <2>6. CASE Put(c)
    BY <2>6 DEF Put, Overwrites
  <2>7. CASE Delete(c)
    <3>1. CASE doc.there = "yes"
      <4>1. PICK result \in {"ok", "unknown"} : Overwrites(c, NoDoc, result)
        BY <2>7, <3>1 DEF Delete
      <4> QED
        BY <4>1 DEF Overwrites
    <3>2. CASE doc.there = "no"
      BY <2>7, <3>2 DEF Delete, Ends
    <3> QED
      BY <3>1, <3>2
  <2>8. CASE Fails(c)
    BY <2>8 DEF Fails, Ends
  <2> QED
    BY <1>2, <2>1, <2>2, <2>3, <2>4, <2>5, <2>6, <2>7, <2>8 DEF Step
<1> QED
  BY <1>1, <1>2 DEF Next

-----------------------------------------------------------------------------
\* The three shapes of a step: it writes over what it has read, it overwrites
\* whatever is there, or it leaves the document alone.

\* What a step that leaves the document alone does to the calls.
Quiet(c) ==
    /\ UNCHANGED <<doc, era, wiped, writes>>
    /\ \/ Copies(c)
       \/ LosesRace(c) /\ Outdated(calls[c].copy) /\ calls[c].phase = "write"
          /\ calls[c].kind \in {"update", "upsert"}
       \/ \E result \in {"refused", "unknown"} : Ends(c, result)

\* A conditional write of call c goes through.
Lands(c, d) == Writes(d) /\ Replies(c)

\* Every step has one of the shapes.
LEMMA StepShapes ==
  ASSUME TypeOK, NEW c \in Calls, Step(c)
  PROVE  \/ Quiet(c)
         \/ doc.there = "no" /\ Lands(c, [there |-> "yes", rev |-> 0, marks |-> {c}])
         \/ SwapWins(c) /\ Lands(c, Swapped(c)) /\ calls[c].phase = "write"
            /\ calls[c].copy.there = "yes"
         \/ \E d \in Doc, result \in {"ok", "unknown"} :
               /\ Overwrites(c, d, result)
               /\ calls[c].kind = "put" => c \in d.marks
<1> USE DEF TypeOK, Doc, Call
<1>1. CASE Insert(c)
  BY <1>1 DEF Insert, Lands, Quiet
<1>2. CASE Read(c)
  BY <1>2 DEF Read, Quiet, Copies
<1>3. CASE UpsertInserts(c)
  BY <1>3 DEF UpsertInserts, Lands, Quiet, Outdated, LosesRace
<1>4. CASE Swap(c)
  BY <1>4 DEF Swap, Lands, Quiet, Outdated, LosesRace, SwapWins, Matches
<1>5. CASE Get(c)
  BY <1>5 DEF Get, Quiet, Copies
<1>6. CASE Put(c)
  BY <1>6 DEF Put
<1>7. CASE Delete(c)
  BY <1>7 DEF Delete, Quiet, NoDoc
<1>8. CASE Fails(c)
  BY <1>8 DEF Fails, Quiet
<1> QED
  BY <1>1, <1>2, <1>3, <1>4, <1>5, <1>6, <1>7, <1>8 DEF Step

\* Each shape keeps the inductive invariant.
LEMMA QuietKeeps ==
  ASSUME IndInv, TypeOK', NEW c \in Calls, Quiet(c) PROVE IndInv'
<1> USE DEF IndInv, TypeOK, Doc, Call, Quiet
<1>1. CASE Copies(c)
  <2>1. CopiesAgree' /\ SteadyIsFresh' /\ AcknowledgedStays'
    BY <1>1 DEF Copies, CopiesAgree, SteadyIsFresh, AcknowledgedStays
  <2>2. LossesHaveWinners' /\ LossesMatched'
    BY <1>1 DEF Copies, LossesHaveWinners, LossesMatched, Outdated
  <2> QED
    BY <2>1, <2>2
<1>2. CASE /\ LosesRace(c) /\ Outdated(calls[c].copy)
           /\ calls[c].phase = "write" /\ calls[c].kind \in {"update", "upsert"}
  <2>1. CopiesAgree' /\ SteadyIsFresh' /\ AcknowledgedStays'
    BY <1>2 DEF LosesRace, CopiesAgree, SteadyIsFresh, AcknowledgedStays
  <2>2. LossesHaveWinners' /\ LossesMatched'
    BY <1>2 DEF LosesRace, LossesHaveWinners, LossesMatched, Outdated
  <2> QED
    BY <2>1, <2>2
<1>3. ASSUME NEW result \in {"refused", "unknown"}, Ends(c, result) PROVE IndInv'
  <2>1. CopiesAgree' /\ SteadyIsFresh' /\ AcknowledgedStays'
    BY <1>3 DEF Ends, CopiesAgree, SteadyIsFresh, AcknowledgedStays
  <2>2. LossesHaveWinners' /\ LossesMatched'
    BY <1>3 DEF Ends, LossesHaveWinners, LossesMatched, Outdated
  <2> QED
    BY <2>1, <2>2
<1> QED
  BY <1>1, <1>2, <1>3

\* What a conditional write leaves of the other calls, and of its own.
LEMMA LandsFrame ==
  ASSUME TypeOK, NEW c \in Calls, NEW d, Lands(c, d)
  PROVE  /\ doc' = d /\ writes' = writes + 1 /\ era' = era
         /\ calls'[c].phase \in {"ok", "unknown"}
         /\ calls'[c].tries = calls[c].tries
         /\ calls'[c].fresh = calls[c].fresh
         /\ \A x \in Calls \ {c} : calls'[x] = calls[x]
BY DEF Lands, Writes, Replies, Ends, TypeOK, Call

\* An insert that lands keeps it: the document was not there, so nothing was in it.
LEMMA InsertKeeps ==
  ASSUME IndInv, TypeOK', NEW c \in Calls, doc.there = "no",
         Lands(c, [there |-> "yes", rev |-> 0, marks |-> {c}])
  PROVE  IndInv'
<1>0. /\ doc' = [there |-> "yes", rev |-> 0, marks |-> {c}]
      /\ writes' = writes + 1 /\ era' = era
      /\ calls'[c].phase \in {"ok", "unknown"}
      /\ calls'[c].tries = calls[c].tries
      /\ calls'[c].fresh = calls[c].fresh
      /\ \A x \in Calls \ {c} : calls'[x] = calls[x]
  BY LandsFrame DEF IndInv
<1> USE <1>0 DEF IndInv, TypeOK, Doc, Call
<1>1. CopiesAgree'
  BY DEF CopiesAgree
<1>2. SteadyIsFresh'
  BY DEF SteadyIsFresh
<1>3. AcknowledgedStays'
  BY DEF AcknowledgedStays, NoDoc
<1>4. LossesHaveWinners' /\ LossesMatched'
  <2> SUFFICES ASSUME NEW x \in Calls
               PROVE  /\ calls'[x].tries <= writes'
                      /\ calls'[x].phase = "write" => calls'[x].tries + 1 <= writes'
    BY DEF LossesHaveWinners, LossesMatched
  <2>1. /\ writes' = writes + 1 /\ calls'[x].tries = calls[x].tries
        /\ x = c => calls'[x].phase # "write"
    OBVIOUS
  <2>2. calls[x].tries <= writes /\ calls[x].tries \in Nat /\ writes \in Nat
    BY CasStoreAssumption DEF LossesHaveWinners
  <2> HIDE DEF IndInv, TypeOK, Doc, Call
  <2> QED
    BY <2>1, <2>2
<1> QED
  BY <1>1, <1>2, <1>3, <1>4

\* A swap that wins keeps it: what it replaces is what it read.
LEMMA SwapKeeps ==
  ASSUME IndInv, TypeOK', NEW c \in Calls, SwapWins(c), Lands(c, Swapped(c)),
         calls[c].phase = "write", calls[c].copy.there = "yes"
  PROVE  IndInv'
<1>0. /\ doc' = Swapped(c)
      /\ writes' = writes + 1 /\ era' = era
      /\ calls'[c].phase \in {"ok", "unknown"}
      /\ calls'[c].tries = calls[c].tries
      /\ calls'[c].fresh = calls[c].fresh
      /\ \A x \in Calls \ {c} : calls'[x] = calls[x]
  BY LandsFrame DEF IndInv
<1> USE <1>0 DEF IndInv, TypeOK, Doc, Call, Swapped, SwapWins, Matches
<1>1. CopiesAgree'
  BY DEF CopiesAgree
<1>2. SteadyIsFresh'
  BY DEF SteadyIsFresh
<1>3. AcknowledgedStays'
  BY DEF AcknowledgedStays, CopiesAgree, SteadyIsFresh
<1>4. LossesHaveWinners' /\ LossesMatched'
  <2> SUFFICES ASSUME NEW x \in Calls
               PROVE  /\ calls'[x].tries <= writes'
                      /\ calls'[x].phase = "write" => calls'[x].tries + 1 <= writes'
    BY DEF LossesHaveWinners, LossesMatched
  <2>1. /\ writes' = writes + 1 /\ calls'[x].tries = calls[x].tries
        /\ x = c => calls'[x].phase # "write"
    OBVIOUS
  <2>2. calls[x].tries <= writes /\ calls[x].tries \in Nat /\ writes \in Nat
    BY CasStoreAssumption DEF LossesHaveWinners
  <2> HIDE DEF IndInv, TypeOK, Doc, Call
  <2> QED
    BY <2>1, <2>2
<1> QED
  BY <1>1, <1>2, <1>3, <1>4

\* A put or a removal keeps it: it makes every copy stale and ends the steady era.
LEMMA OverwriteKeeps ==
  ASSUME IndInv, TypeOK', NEW c \in Calls, NEW d \in Doc,
         NEW result \in {"ok", "unknown"}, Overwrites(c, d, result)
  PROVE  IndInv'
<1> USE DEF IndInv, TypeOK, Doc, Call, Overwrites
<1>1. CopiesAgree'
  BY DEF CopiesAgree
<1>2. SteadyIsFresh' /\ AcknowledgedStays'
  BY DEF SteadyIsFresh, AcknowledgedStays
<1>3. LossesHaveWinners' /\ LossesMatched'
  BY DEF LossesHaveWinners, LossesMatched
<1> QED
  BY <1>1, <1>2, <1>3

\* The inductive invariant is kept by every step.
LEMMA StepIndInv == IndInv /\ [Next]_vars => IndInv'
<1> SUFFICES ASSUME IndInv, [Next]_vars PROVE IndInv'
  OBVIOUS
<1>1. TypeOK /\ TypeOK'
  BY StepType DEF IndInv
<1>2. CASE UNCHANGED vars
  BY <1>2 DEF vars, IndInv, TypeOK, CopiesAgree, SteadyIsFresh, AcknowledgedStays,
              LossesHaveWinners, LossesMatched, Outdated
<1>3. ASSUME NEW c \in Calls, Step(c) PROVE IndInv'
  BY <1>1, <1>3, StepShapes, QuietKeeps, InsertKeeps, SwapKeeps, OverwriteKeeps
<1> QED
  BY <1>2, <1>3 DEF Next

-----------------------------------------------------------------------------
\* The inductive invariant holds throughout.
LEMMA Invariance == Spec => []IndInv
<1> QED
  BY InitIndInv, StepIndInv, PTL DEF Spec

\* Types, for every set of calls.
THEOREM TypeCorrect == Spec => []TypeOK
<1>1. IndInv => TypeOK
  BY DEF IndInv
<1> QED
  BY Invariance, <1>1, PTL

\* While a document only meets inserts, updates and upserts, no acknowledged
\* write is lost, however many callers race and however often they retry.
THEOREM NoLostUpdate == Spec => []AcknowledgedStays
<1>1. IndInv => AcknowledgedStays
  BY DEF IndInv
<1> QED
  BY Invariance, <1>1, PTL

\* A call loses only to writes that took effect.
THEOREM LossesMeanProgress == Spec => []LossesHaveWinners
<1>1. IndInv => LossesHaveWinners
  BY DEF IndInv
<1> QED
  BY Invariance, <1>1, PTL

\* A winning compare-and-swap replaces exactly what it read, unless a put or a
\* removal came between.
THEOREM SwapsAreClean == Spec => CleanSwap
<1>1. IndInv => [\A c \in Calls : SwapWins(c) /\ calls[c].fresh = "yes"
                    => doc.marks = calls[c].copy.marks]_vars
  BY DEF IndInv, CopiesAgree, SwapWins, Swap, Matches
<1> QED
  BY Invariance, <1>1, PTL DEF CleanSwap

-----------------------------------------------------------------------------
(* Until the first put or removal, the document is atomic to its callers   *)

\* A call that is not over has not taken effect.
OverWhenDone == \A c \in doc.marks : calls[c].phase \notin {"read", "write"}

\* What the refinement needs besides the invariant above.
AtomicInv == IndInv /\ (era = "steady" => OverWhenDone)

ResultMap == [c \in Calls |-> Outcome(c)]
WantsMap  == [c \in Calls |-> Wanted(calls[c].kind)]

\* A step that is no put or removal is quiet or a conditional write.
LEMMA SteadyShapes ==
    ASSUME TypeOK, NEW c \in Calls, Step(c), era' = "steady"
    PROVE  \/ Quiet(c)
           \/ \E d \in Doc : /\ Lands(c, d)
                             /\ calls[c].phase \in {"read", "write"}
                             /\ doc.there \in Wanted(calls[c].kind)
                             /\ \/ doc.there = "no" /\ d = [there |-> "yes", rev |-> 0, marks |-> {c}]
                                \/ /\ SwapWins(c) /\ calls[c].phase = "write"
                                   /\ calls[c].copy.there = "yes" /\ d = Swapped(c)
<1>1. [there |-> "yes", rev |-> 0, marks |-> {c}] \in Doc /\ Swapped(c) \in Doc
  BY DEF TypeOK, Call, Doc, Swapped
<1> USE DEF TypeOK, Doc, Call
<1>2. CASE Insert(c)
  BY <1>1, <1>2 DEF Insert, Lands, Quiet, Wanted
<1>3. CASE Read(c)
  BY <1>3 DEF Read, Quiet, Copies
<1>4. CASE UpsertInserts(c)
  BY <1>1, <1>4 DEF UpsertInserts, Lands, Quiet, Outdated, LosesRace, Wanted
<1>5. CASE Swap(c)
  BY <1>1, <1>5 DEF Swap, Lands, Quiet, Outdated, LosesRace, SwapWins, Matches, Wanted
<1>6. CASE Get(c)
  BY <1>6 DEF Get, Quiet, Copies
<1>8. CASE Put(c) \/ Delete(c)
  BY <1>8 DEF Put, Delete, Overwrites, Quiet
<1>7. CASE Fails(c)
  BY <1>7 DEF Fails, Quiet
<1> QED
  BY <1>2, <1>3, <1>4, <1>5, <1>6, <1>7, <1>8 DEF Step

\* A step of one call changes what has become of that call, and of no other.
LEMMA OneOutcome ==
    ASSUME NEW c \in Calls, \A x \in Calls \ {c} : calls'[x] = calls[x],
           \A x \in Calls \ {c} : x \in doc'.marks <=> x \in doc.marks
    PROVE  ResultMap' = [ResultMap EXCEPT ![c] = Outcome(c)']
<1>1. \A x \in Calls \ {c} : Outcome(x)' = Outcome(x)
  BY DEF Outcome
<1>2. ResultMap' = [x \in Calls |-> Outcome(x)']
  BY DEF ResultMap
<1> QED
  BY <1>1, <1>2 DEF ResultMap

\* A conditional write that lands is the effect of its call on what is there.
LEMMA LandingTakesEffect ==
    ASSUME AtomicInv, era = "steady", NEW c \in Calls, NEW d \in Doc, Lands(c, d),
           calls[c].phase \in {"read", "write"}, doc.there \in Wanted(calls[c].kind),
           d.there = "yes", d.marks = doc.marks \cup {c}
    PROVE  Atomic!TakesEffect(c) /\ OverWhenDone'
<1>1. /\ doc' = d /\ era' = era /\ calls'[c].phase \in {"ok", "unknown"}
      /\ \A x \in Calls \ {c} : calls'[x] = calls[x]
  BY LandsFrame DEF AtomicInv, IndInv
<1>2. \A x \in Calls : calls'[x].kind = calls[x].kind
  BY DEF AtomicInv, IndInv, TypeOK, Call, Lands, Replies, Ends
<1>3. Outcome(c) = "pending" /\ Outcome(c)' = "done"
  BY <1>1 DEF Outcome
<1>4. ResultMap' = [ResultMap EXCEPT ![c] = "done"]
  BY <1>1, <1>3, OneOutcome
<1>5. WantsMap' = WantsMap
  BY <1>2 DEF WantsMap
<1>6. doc.marks \subseteq Calls
  BY DEF AtomicInv, IndInv, TypeOK, Doc
<1>7. OverWhenDone'
  BY <1>1, <1>6 DEF AtomicInv, OverWhenDone
<1> QED
  BY <1>1, <1>3, <1>4, <1>5, <1>7 DEF Atomic!TakesEffect, Atomic!Becomes, ResultMap, WantsMap, AtomicInv

\* Any other step is invisible, a refusal, or the end of a call without effect.
LEMMA QuietIsAtomic ==
    ASSUME AtomicInv, era = "steady", NEW c \in Calls, Quiet(c), Step(c)
    PROVE  /\ \/ Atomic!IsRefused(c) \/ Atomic!GivesUp(c)
              \/ UNCHANGED <<doc.there, doc.marks, WantsMap, ResultMap>>
           /\ OverWhenDone'
<1>1. doc' = doc /\ era' = era /\ \A x \in Calls : calls'[x].kind = calls[x].kind
  BY DEF AtomicInv, IndInv, TypeOK, Call, Quiet, Copies, LosesRace, Ends
<1>2. \A x \in Calls \ {c} : calls'[x] = calls[x]
  BY DEF AtomicInv, IndInv, TypeOK, Quiet, Copies, LosesRace, Ends
<1>3. calls[c].phase \in {"read", "write"}
  BY DEF Step, Insert, Read, UpsertInserts, Swap, Get, Put, Delete, Fails
<1>4. calls'[c].phase \in {"read", "write", "refused", "exhausted", "unknown"}
  BY DEF AtomicInv, IndInv, TypeOK, Call, Quiet, Copies, LosesRace, Ends
<1>5. ASSUME calls'[c].phase = "refused" PROVE doc.there \notin Wanted(calls[c].kind)
  <2>1. calls \in [Calls -> Call] /\ doc.there \in {"yes", "no"}
    BY DEF AtomicInv, IndInv, TypeOK, Doc
  <2>2. ~Copies(c) /\ ~LosesRace(c)
    BY <1>5, <2>1 DEF Copies, LosesRace, Call
  <2>3. \A r \in {"ok", "unknown"} : ~Ends(c, r)
    BY <1>5, <2>1 DEF Ends, Call
  <2>4. ~Swap(c) /\ ~UpsertInserts(c) /\ ~Fails(c)
    BY <2>2, <2>3 DEF Swap, UpsertInserts, Fails, Replies
  <2>5. era' # "mixed"
    BY DEF Quiet
  <2>6. CASE Insert(c)
    BY <2>1, <2>3, <2>6 DEF Insert, Replies, Wanted
  <2>7. CASE Read(c)
    BY <2>2, <2>7 DEF Read, Wanted
  <2>8. CASE Get(c) \/ Put(c)
    BY <2>2, <2>5, <2>8 DEF Get, Put, Overwrites
  <2>9. CASE Delete(c)
    BY <2>9 DEF Delete, Wanted
  <2> QED
    BY <2>4, <2>6, <2>7, <2>8, <2>9 DEF Step
<1>6. c \notin doc.marks
  BY <1>3 DEF AtomicInv, OverWhenDone
<1>7. /\ Outcome(c) = "pending"
      /\ Outcome(c)' = (IF calls'[c].phase \in {"read", "write"} THEN "pending"
                        ELSE IF calls'[c].phase = "refused" THEN "refused" ELSE "nothing")
  BY <1>1, <1>3, <1>4, <1>6 DEF Outcome
<1>8. ResultMap' = [ResultMap EXCEPT ![c] = Outcome(c)'] /\ WantsMap' = WantsMap
  BY <1>1, <1>2, OneOutcome DEF WantsMap
<1>9. Outcome(c)' = "pending" => ResultMap' = ResultMap
  BY <1>7, <1>8 DEF ResultMap
<1>10. OverWhenDone'
  BY <1>1, <1>2, <1>6 DEF AtomicInv, OverWhenDone, IndInv, TypeOK, Doc
<1> QED
  BY <1>1, <1>3, <1>4, <1>5, <1>7, <1>8, <1>9, <1>10
     DEF Atomic!IsRefused, Atomic!GivesUp, Atomic!Becomes, ResultMap, WantsMap, AtomicInv

\* There is no way back from the first put or removal.
LEMMA SteadyBefore ==
    ASSUME TypeOK, NEW c \in Calls, Step(c), era' = "steady" PROVE era = "steady"
  BY SteadyShapes DEF Quiet, Lands, Writes

LEMMA AtomicStep ==
    ASSUME AtomicInv, [Next]_vars
    PROVE  /\ AtomicInv'
           /\ era' = "steady" => era = "steady" /\ (Atomic!AtomicNext \/ UNCHANGED Atomic!atomicVars)
<1>1. IndInv' /\ TypeOK
  BY StepIndInv DEF AtomicInv, IndInv
<1>2. CASE UNCHANGED vars
  BY <1>1, <1>2 DEF vars, AtomicInv, OverWhenDone, Outcome, Atomic!atomicVars
<1>3. ASSUME NEW c \in Calls, Step(c), era' = "steady"
      PROVE  /\ OverWhenDone' /\ era = "steady"
             /\ Atomic!AtomicNext \/ UNCHANGED Atomic!atomicVars
  <2>0. era = "steady"
    BY <1>1, <1>3, SteadyBefore
  <2>1. CASE Quiet(c)
    BY <1>3, <2>0, <2>1, QuietIsAtomic DEF Atomic!AtomicNext, Atomic!atomicVars, WantsMap, ResultMap
  <2>2. ASSUME NEW d \in Doc, Lands(c, d), calls[c].phase \in {"read", "write"},
               doc.there \in Wanted(calls[c].kind), d.there = "yes", d.marks = doc.marks \cup {c}
        PROVE  OverWhenDone' /\ Atomic!AtomicNext
    BY <2>0, <2>2, LandingTakesEffect DEF Atomic!AtomicNext
  <2>3. doc.there = "no" => doc.marks = {}
    BY <1>1 DEF TypeOK, NoDoc
  <2>4. SwapWins(c) /\ calls[c].phase = "write" /\ calls[c].copy.there = "yes" => doc.marks = calls[c].copy.marks
    BY <2>0 DEF AtomicInv, IndInv, SteadyIsFresh, CopiesAgree, SwapWins, Matches
  <2>5. CASE ~Quiet(c)
    <3>1. PICK d \in Doc : /\ Lands(c, d)
                           /\ calls[c].phase \in {"read", "write"}
                           /\ doc.there \in Wanted(calls[c].kind)
                           /\ \/ doc.there = "no" /\ d = [there |-> "yes", rev |-> 0, marks |-> {c}]
                              \/ /\ SwapWins(c) /\ calls[c].phase = "write"
                                 /\ calls[c].copy.there = "yes" /\ d = Swapped(c)
      BY <1>1, <1>3, <2>5, SteadyShapes
    <3>2. d.there = "yes" /\ d.marks = doc.marks \cup {c}
      BY <2>3, <2>4, <3>1 DEF Swapped
    <3> QED
      BY <2>0, <2>2, <3>1, <3>2
  <2> QED
    BY <2>1, <2>5
<1> QED
  BY <1>1, <1>2, <1>3 DEF Next, AtomicInv

LEMMA AtomicInit == Init => AtomicInv /\ era = "steady" /\ Atomic!AtomicInit
<1> SUFFICES ASSUME Init PROVE AtomicInv /\ era = "steady" /\ Atomic!AtomicInit
  OBVIOUS
<1>1. AtomicInv /\ era = "steady"
  BY InitIndInv DEF Init, AtomicInv, OverWhenDone, NoDoc
<1>2. doc.there \in {"yes", "no"} /\ doc.marks = {}
  BY DEF Init, NoDoc
<1>3. WantsMap \in [Calls -> SUBSET {"yes", "no"}]
  BY DEF WantsMap, Wanted
<1>4. \A c \in Calls : Outcome(c) = "pending"
  BY DEF Init, Outcome
<1> QED
  BY <1>1, <1>2, <1>3, <1>4 DEF Atomic!AtomicInit, WantsMap

\* Until its first put or removal a document is an atomic one to its callers: the loop
\* of read, compare and swap (store.ts:50-61) takes effect on what is there, in one step,
\* once, or the caller is told that it did not; and no effect is ever undone.  For
\* any number of calls, races, errors and lost replies.
THEOREM ConditionalWritesAreAtomic == Spec => AtomicToCallers
<1>1. ASSUME AtomicInv, [Next]_vars
      PROVE  [era' = "steady" => Atomic!AtomicNext \/ UNCHANGED Atomic!atomicVars]_vars
  BY <1>1, AtomicStep
<1>2. AtomicInv /\ [Next]_vars => AtomicInv'
  BY AtomicStep
<1> QED
  BY <1>1, <1>2, AtomicInit, PTL DEF Spec, AtomicToCallers

\* A document that meets nothing but inserts, updates and upserts implements the atomic
\* document outright: this is what the rails rely on where an update of one of
\* their documents is taken for one step.
THEOREM ImplementsAtomicDocument ==
    ASSUME Kinds \subseteq {"insert", "update", "upsert"}
    PROVE  Spec => Atomic!AtomicSpec
<1> DEFINE Calm == AtomicInv /\ era = "steady"
<1>1. ASSUME Calm, [Next]_vars
      PROVE  Calm' /\ [Atomic!AtomicNext]_(Atomic!atomicVars)
  <2>1. era' = "steady"
    <3>1. CASE UNCHANGED vars
      BY <1>1, <3>1 DEF vars
    <3>2. ASSUME NEW c \in Calls, Step(c) PROVE era' = "steady"
      <4>1. calls[c].kind \in {"insert", "update", "upsert"}
        BY <1>1 DEF AtomicInv, IndInv, TypeOK, Call
      <4>2. ~Get(c) /\ ~Put(c) /\ ~Delete(c)
        BY <4>1 DEF Get, Put, Delete
      <4> QED
        BY <1>1, <3>2, <4>2 DEF Step, Insert, Read, UpsertInserts, Swap, Fails, Writes, Copies, LosesRace
    <3> QED
      BY <1>1, <3>1, <3>2 DEF Next
  <2> QED
    BY <1>1, <2>1, AtomicStep
<1>2. Init => Calm /\ Atomic!AtomicInit
  BY AtomicInit
<1> HIDE DEF Calm
<1> QED
  BY <1>1, <1>2, PTL DEF Spec, Atomic!AtomicSpec
=============================================================================
