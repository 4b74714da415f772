------------------------------ MODULE CasStore ------------------------------
(***************************************************************************)
(* One document of the data layer under concurrent calls: the generic      *)
(* store (api/src/data/store.ts) and the collections engine of the served  *)
(* apps (api/src/data/collections-engine.ts).  Each call makes one         *)
(* operation; its reads and writes are single-document operations of the   *)
(* database, atomic one by one and interleaved with those of the others.   *)
(*                                                                         *)
(* The content of the document is abstracted to the set of calls whose     *)
(* write it carries, since that is what a lost update loses.               *)
(***************************************************************************)
EXTENDS Naturals, FiniteSets

CONSTANTS Calls,       \* the calls that reach the document, one operation each
          Kinds,       \* the operations they may make
          MaxRetries   \* MAX_CAS_RETRIES

Operations == {"insert", "update", "upsert", "put", "delete"}

ASSUME CasStoreAssumption ==
    /\ Kinds \subseteq Operations
    /\ MaxRetries \in Nat \ {0}

VARIABLES doc,     \* the stored document
          calls,   \* the calls in progress and their results
          era,     \* history: "steady" until a put or a removal has taken effect
          wiped,   \* history: calls whose write a put or a removal has overwritten
          writes   \* history: number of writes that have taken effect

vars == <<doc, calls, era, wiped, writes>>

-----------------------------------------------------------------------------
(* Types                                                                   *)

Doc == [there : {"yes", "no"}, rev : Nat, marks : SUBSET Calls]
NoDoc == [there |-> "no", rev |-> 0, marks |-> {}]

\* "read" and "write" are the two halves of a call.  It ends "ok", "refused"
\* (false, null, SLUG_TAKEN), "exhausted", or "unknown": the reply was lost and
\* the caller sees an error although the write is there.
Phases == {"read", "write", "ok", "refused", "exhausted", "unknown"}

\* "copy" is what the call has read; it is "fresh" until a put or a removal
\* takes effect.
Call == [kind : Kinds, phase : Phases, tries : 0 .. MaxRetries, copy : Doc,
         fresh : {"yes", "no"}]

Writers == {"insert", "update", "upsert", "put"}

-----------------------------------------------------------------------------
Init ==
    /\ doc \in {NoDoc, [NoDoc EXCEPT !.there = "yes"]}
    /\ calls \in [Calls -> {[kind |-> k, phase |-> "read", tries |-> 0, copy |-> NoDoc,
                             fresh |-> "yes"] : k \in Kinds}]
    /\ era = "steady"
    /\ wiped = {}
    /\ writes = 0

-----------------------------------------------------------------------------
(* What a step does to the call and to the document                        *)

Ends(c, result) == calls' = [calls EXCEPT ![c].phase = result]

\* A write replies, or its reply is lost on the way.
Replies(c) == Ends(c, "ok") \/ Ends(c, "unknown")

\* insert, update and upsert: a write that is conditional on what was read.
Writes(d) ==
    /\ doc' = d
    /\ writes' = writes + 1
    /\ UNCHANGED <<era, wiped>>

\* put and removal: a write whatever the document is.
Overwrites(c, d, result) ==
    /\ doc' = d
    /\ writes' = writes + 1
    /\ era' = "mixed"
    /\ wiped' = wiped \cup (doc.marks \ d.marks)
    /\ calls' = [x \in Calls |->
                    IF x = c THEN [calls[x] EXCEPT !.phase = result]
                    ELSE [calls[x] EXCEPT !.fresh = "no"]]

\* findOne: the copy the call will work on.
Copies(c) ==
    /\ calls' = [calls EXCEPT ![c] = [kind |-> calls[c].kind, phase |-> "write",
                       tries |-> calls[c].tries, copy |-> doc, fresh |-> "yes"]]
    /\ UNCHANGED <<doc, era, wiped, writes>>

\* Mutant: one retry too many.
LosesRaceOnceMore(c) ==
    /\ calls' = [calls EXCEPT ![c].tries = @ + 1,
                              ![c].phase = IF calls[c].tries = MaxRetries
                                           THEN "exhausted" ELSE "read"]
    /\ UNCHANGED <<doc, era, wiped, writes>>

\* The database refuses the conditional write: read again, or give up.
LosesRace(c) ==
    /\ calls' = [calls EXCEPT ![c].tries = @ + 1,
                              ![c].phase = IF calls[c].tries + 1 = MaxRetries
                                           THEN "exhausted" ELSE "read"]
    /\ UNCHANGED <<doc, era, wiped, writes>>

-----------------------------------------------------------------------------
(* The operations                                                          *)

\* Store.insert and CollectionsEngine.create: the _id decides.
Insert(c) ==
    /\ calls[c].kind = "insert" /\ calls[c].phase = "read"
    /\ IF doc.there = "no"
       THEN Writes([there |-> "yes", rev |-> 0, marks |-> {c}]) /\ Replies(c)
       ELSE Ends(c, "refused") /\ UNCHANGED <<doc, era, wiped, writes>>

\* Store.update reads first; a missing document is null to its caller, and
\* CollectionsEngine.upsert goes on to create it.
Read(c) ==
    /\ calls[c].kind \in {"update", "upsert"} /\ calls[c].phase = "read"
    /\ IF doc.there = "no" /\ calls[c].kind = "update"
       THEN Ends(c, "refused") /\ UNCHANGED <<doc, era, wiped, writes>>
       ELSE Copies(c)

\* The insert of an upsert that has found nothing.
UpsertInserts(c) ==
    /\ calls[c].kind = "upsert" /\ calls[c].phase = "write" /\ calls[c].copy.there = "no"
    /\ IF doc.there = "no"
       THEN Writes([there |-> "yes", rev |-> 0, marks |-> {c}]) /\ Replies(c)
       ELSE LosesRace(c)

\* Mutant: replaceOne without _rev in its filter.
MatchesAnyRev(copy) == doc.there = "yes"

\* Mutant: the filter is built from the document to write.
MatchesNextRev(copy) == doc.there = "yes" /\ doc.rev = copy.rev + 1

\* The filter of the compare-and-swap's replaceOne.
Matches(copy) == doc.there = "yes" /\ doc.rev = copy.rev

\* Mutant: the written document keeps the revision it was read with.
SwappedSameRev(c) ==
    [there |-> "yes", rev |-> calls[c].copy.rev, marks |-> calls[c].copy.marks \cup {c}]

\* The mutator's result, over the copy.
Swapped(c) ==
    [there |-> "yes", rev |-> calls[c].copy.rev + 1, marks |-> calls[c].copy.marks \cup {c}]

Swap(c) ==
    /\ calls[c].kind \in {"update", "upsert"} /\ calls[c].phase = "write"
    /\ calls[c].copy.there = "yes"
    /\ IF Matches(calls[c].copy) THEN Writes(Swapped(c)) /\ Replies(c) ELSE LosesRace(c)

\* Store.put by a caller that got the document earlier (or got nothing): it
\* replaces whatever is there, and its revision follows the copy's.
Get(c) ==
    /\ calls[c].kind = "put" /\ calls[c].phase = "read"
    /\ Copies(c)

Put(c) ==
    /\ calls[c].kind = "put" /\ calls[c].phase = "write"
    /\ \E result \in {"ok", "unknown"} :
          Overwrites(c, [there |-> "yes", rev |-> calls[c].copy.rev + 1,
                         marks |-> calls[c].copy.marks \cup {c}], result)

\* Store.delete, Store.consume and CollectionsEngine.delete.
Delete(c) ==
    /\ calls[c].kind = "delete" /\ calls[c].phase = "read"
    /\ IF doc.there = "yes"
       THEN \E result \in {"ok", "unknown"} : Overwrites(c, NoDoc, result)
       ELSE Ends(c, "refused") /\ UNCHANGED <<doc, era, wiped, writes>>

\* The call fails before its write: nothing has happened.
Fails(c) ==
    /\ calls[c].phase \in {"read", "write"}
    /\ Ends(c, "unknown")
    /\ UNCHANGED <<doc, era, wiped, writes>>

Step(c) == \/ Insert(c) \/ Read(c) \/ UpsertInserts(c) \/ Swap(c)
           \/ Get(c) \/ Put(c) \/ Delete(c) \/ Fails(c)

Next == \E c \in Calls : Step(c)

Spec == Init /\ [][Next]_vars

-----------------------------------------------------------------------------
(* Properties                                                              *)

\* Every variable holds a value the program could hold; a document that is not
\* there has neither content nor revision, and no call goes on past its retries.
TypeOK ==
    /\ doc \in Doc
    /\ calls \in [Calls -> Call]
    /\ era \in {"steady", "mixed"}
    /\ wiped \subseteq Calls
    /\ writes \in Nat
    /\ doc.there = "no" => doc = NoDoc
    /\ \A c \in Calls : calls[c].phase \in {"read", "write"} => calls[c].tries < MaxRetries

\* What makes the compare-and-swap work: among copies that no put or removal
\* has outdated, one with the document's revision has the document's content,
\* and the revision has only grown since it was read.
CopiesAgree ==
    \A c \in Calls : calls[c].phase = "write" /\ calls[c].fresh = "yes"
                     /\ calls[c].copy.there = "yes" =>
       /\ doc.there = "yes"
       /\ calls[c].copy.rev <= doc.rev
       /\ calls[c].copy.rev = doc.rev => calls[c].copy.marks = doc.marks

\* The conditional write of an update or upsert goes through.
SwapWins(c) ==
    /\ Swap(c)
    /\ Matches(calls[c].copy)

\* A compare-and-swap that wins replaces exactly what it has read, however many
\* other calls wrote in between, unless a put or a removal was among them
\* (store.ts:4-6, "Updates are CAS on a _rev field").
CleanSwap ==
    [][\A c \in Calls : SwapWins(c) /\ calls[c].fresh = "yes"
          => doc.marks = calls[c].copy.marks]_vars

\* As long as only inserts, updates and upserts reach a document, what one of
\* them has acknowledged stays in it for ever (sync-state.ts:165-169, "a
\* concurrent write cannot be silently lost").
AcknowledgedStays ==
    era = "steady" =>
       \A c \in Calls : calls[c].phase = "ok" /\ calls[c].kind \in Writers => c \in doc.marks

\* A call loses a race only to a write that took effect, so the retries of all
\* the calls together cannot run out while nobody makes progress.
LossesHaveWinners == \A c \in Calls : calls[c].tries <= writes

\* Whatever the mix of operations, an acknowledged write is in the document
\* until a put or a removal that comes after it: nothing is lost to an update.
NotSilentlyLost ==
    \A c \in Calls : calls[c].phase = "ok" /\ calls[c].kind \in Writers
       => c \in doc.marks \cup wiped

-----------------------------------------------------------------------------
(* The atomic document that inserts, updates and upserts make believe      *)

\* Which documents an operation takes effect on.
Wanted(kind) ==
    CASE kind = "insert" -> {"no"}
      [] kind = "update" -> {"yes"}
      [] kind = "upsert" -> {"no", "yes"}
      [] OTHER           -> {}

\* A call whose reply was lost may or may not be in the document; one that gave
\* up after its last race is told that nothing has happened.
Outcome(c) ==
    CASE calls[c].phase \in {"read", "write"} -> "pending"
      [] calls[c].phase = "refused"           -> "refused"
      [] calls[c].phase = "ok"                -> "done"
      [] calls[c].phase = "exhausted"         -> "nothing"
      [] calls[c].phase = "unknown"           -> IF c \in doc.marks THEN "done" ELSE "nothing"

Atomic == INSTANCE AtomicDocument WITH
             there <- doc.there, marks <- doc.marks,
             wants <- [c \in Calls |-> Wanted(calls[c].kind)],
             result <- [c \in Calls |-> Outcome(c)]

\* Until the first put or removal, the loop of read, compare and swap (store.ts:50-61)
\* is one atomic step to its callers: a call takes effect on what is there, once or,
\* if it was refused or gave up, never, and nothing undoes it.
AtomicToCallers ==
    /\ Atomic!AtomicInit
    /\ [][era' = "steady" => Atomic!AtomicNext \/ UNCHANGED Atomic!atomicVars]_vars
=============================================================================
