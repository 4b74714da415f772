----------------------- MODULE AutomationRunsProofs -------------------------
(***************************************************************************)
(* The types of an automation run's memory and row, and what keeps two     *)
(* passes, an approval and a finished run from being mistaken for another, *)
(* for any recipe, any number of passes and requests, store errors and     *)
(* restarts.                                                               *)
(***************************************************************************)
EXTENDS AutomationRuns, TLAPS

-----------------------------------------------------------------------------
(* The bag of requests and wakes in progress                               *)

Asked == BagToSet(calls)

LEMMA BagGains ==
    ASSUME NEW B, IsABag(B), NEW c
    PROVE  IsABag(B (+) SetToBag({c})) /\ BagToSet(B (+) SetToBag({c})) = BagToSet(B) \cup {c}
<1> DEFINE G == B (+) SetToBag({c})
<1>1. G = [e \in (DOMAIN B) \cup {c} |-> (IF e \in DOMAIN B THEN B[e] ELSE 0) + (IF e \in {c} THEN 1 ELSE 0)]
  BY DEF SetToBag, (+)
<1>2. \A e \in DOMAIN B : B[e] \in Nat /\ B[e] > 0
  BY DEF IsABag
<1>3. \A e \in (DOMAIN B) \cup {c} :
         (IF e \in DOMAIN B THEN B[e] ELSE 0) + (IF e \in {c} THEN 1 ELSE 0) \in {n \in Nat : n > 0}
  BY <1>2
<1> HIDE DEF G
<1>4. DOMAIN G = (DOMAIN B) \cup {c} /\ G \in [(DOMAIN B) \cup {c} -> {n \in Nat : n > 0}]
  BY <1>1, <1>3
<1>5. QED
  BY <1>4 DEF IsABag, BagToSet, G

LEMMA BagLoses ==
    ASSUME NEW B, IsABag(B), NEW c
    PROVE  /\ IsABag(B (-) SetToBag({c}))
           /\ BagToSet(B) \ {c} \subseteq BagToSet(B (-) SetToBag({c}))
           /\ BagToSet(B (-) SetToBag({c})) \subseteq BagToSet(B)
  BY DEF IsABag, BagToSet, SetToBag, (-)

LEMMA CallBegins ==
    ASSUME IsABag(calls), NEW c, Begins(c)
    PROVE  IsABag(calls') /\ Asked' = Asked \cup {c}
  BY BagGains DEF Begins, Asked

LEMMA CallReturns ==
    ASSUME IsABag(calls), NEW c, Returns(c)
    PROVE  IsABag(calls') /\ Asked \ {c} \subseteq Asked' /\ Asked' \subseteq Asked
  BY BagLoses DEF Returns, Asked

LEMMA CallBecomes ==
    ASSUME IsABag(calls), NEW c, NEW then, Becomes(c, then)
    PROVE  /\ IsABag(calls')
           /\ (Asked \ {c}) \cup {then} \subseteq Asked' /\ Asked' \subseteq Asked \cup {then}
<1> DEFINE B == calls (-) SetToBag({c})
<1>1. IsABag(B) /\ Asked \ {c} \subseteq BagToSet(B) /\ BagToSet(B) \subseteq Asked
  BY BagLoses DEF Asked
<1>2. calls' = B (+) SetToBag({then})
  BY DEF Becomes
<1> HIDE DEF B
<1>3. QED
  BY <1>1, <1>2, BagGains DEF Asked

LEMMA NoCalls == IsABag(EmptyBag) /\ BagToSet(EmptyBag) = {}
  BY DEF IsABag, BagToSet, SetToBag, EmptyBag

-----------------------------------------------------------------------------
(* Types, and the signals map                                              *)

Row0OK == row \in Row /\ (passes = 0 => row = NoRow)

Verdicts == Ended \cup {"halted", "none"}

\* Where the passes are: a pass at a step is at one of the recipe's, and a pass that
\* is ending has a status to record.
PassesOK ==
    /\ phase \in [Passes -> Phases]
    /\ at \in [Passes -> 0 .. Last + 1]
    /\ outcome \in [Passes -> Verdicts]
    /\ pauses \in [Passes -> 0 .. MaxPauses]
    /\ passes \in 0 .. MaxPasses
    /\ \A k \in Passes : /\ phase[k] = "none" <=> k > passes
                         /\ phase[k] = "step" => at[k] \in Steps
                         /\ phase[k] = "ending" => outcome[k] # "none"

\* The pass that has signals is the one the map holds.
MemoryOK ==
    /\ signals \in 0 .. MaxPasses
    /\ signed = {signals} \ {None}
    /\ cancelled \subseteq signed /\ resumed \subseteq signed
    /\ once \in [Passes -> SUBSET Steps]
    /\ signals # None => Live(signals) \/ (phase[signals] = "leaked" /\ "unwritten" \in odd)

RestOK ==
    /\ approved \subseteq Steps /\ shown \subseteq Commands
    /\ waiter \in {"none", "parked"}
    /\ IsABag(calls) /\ Asked \subseteq Call
    /\ faults \in 0 .. MaxFaults
    /\ odd \subseteq Mishaps

TypeInv == Row0OK /\ PassesOK /\ MemoryOK /\ RestOK

LEMMA TypeInit == Init => TypeInv
  BY AutomationRunsAssumption, NoCalls
     DEF Init, TypeInv, Row0OK, PassesOK, MemoryOK, RestOK, Asked, Row, NoRow, Statuses, Steps, None, Passes,
         Phases, Ended, Verdicts

LivePhases == Phases \ {"none", "leaked", "over"}

\* A live pass moves on, and no other does.
LEMMA PassMoves ==
    ASSUME PassesOK, NEW k \in Passes, Live(k), NEW ph \in LivePhases, Moves(k, ph),
           at' \in [Passes -> 0 .. Last + 1], outcome' \in [Passes -> Verdicts],
           pauses' \in [Passes -> 0 .. MaxPauses], passes' = passes,
           ph = "step" => at'[k] \in Steps, ph = "ending" => outcome'[k] # "none",
           \A j \in Passes : j # k => at'[j] = at[j] /\ outcome'[j] = outcome[j]
    PROVE  PassesOK'
<1>1. phase' \in [Passes -> Phases]
  BY DEF PassesOK, Moves, LivePhases
<1>2. \A j \in Passes : j # k => phase'[j] = phase[j]
  BY DEF PassesOK, Moves
<1>3. phase'[k] = ph /\ ph # "none" /\ ~(k > passes)
  BY DEF PassesOK, Moves, LivePhases, Live
<1>4. ASSUME NEW j \in Passes
      PROVE  /\ phase'[j] = "none" <=> j > passes'
             /\ phase'[j] = "step" => at'[j] \in Steps
             /\ phase'[j] = "ending" => outcome'[j] # "none"
  BY <1>2, <1>3 DEF PassesOK
<1>5. QED
  BY <1>1, <1>4 DEF PassesOK

LEMMA GoesOnOK ==
    ASSUME PassesOK, NEW k \in Passes, NEW i \in 0 .. Last + 1, Goes(k, i)
    PROVE  /\ at' \in [Passes -> 0 .. Last + 1] /\ outcome' \in [Passes -> Verdicts]
           /\ \A j \in Passes : j # k => at'[j] = at[j] /\ outcome'[j] = outcome[j]
           /\ \E ph \in {"step", "ending"} : /\ Moves(k, ph)
                                             /\ ph = "step" => at'[k] \in Steps
                                             /\ ph = "ending" => outcome'[k] # "none"
<1>1. at' = [at EXCEPT ![k] = i] /\ at \in [Passes -> 0 .. Last + 1] /\ outcome \in [Passes -> Verdicts]
  BY DEF Goes, PassesOK
<1>2. at' \in [Passes -> 0 .. Last + 1] /\ at'[k] = i /\ \A j \in Passes : j # k => at'[j] = at[j]
  BY <1>1
<1>3. CASE i > Last \/ k \in cancelled
  <2>1. PICK v \in {"completed", "cancelled"} : outcome' = [outcome EXCEPT ![k] = v] /\ Moves(k, "ending")
    BY <1>3 DEF Goes, Ending
  <2>2. QED
    BY <1>1, <1>2, <2>1 DEF Verdicts, Ended
<1>4. CASE ~(i > Last \/ k \in cancelled)
  <2>1. Moves(k, "step") /\ outcome' = outcome /\ i \in Steps
    BY <1>4, AutomationRunsAssumption DEF Goes, Steps
  <2>2. QED
    BY <1>1, <1>2, <2>1
<1>5. QED
  BY <1>3, <1>4

LEMMA EngineKeepsPasses ==
    ASSUME PassesOK, NEW k \in Passes, EngineStep(k) \/ StartThrows(k) \/ Throws(k) \/ FailThrows(k)
    PROVE  PassesOK'
<1> USE DEF Live
<1>0. /\ at \in [Passes -> 0 .. Last + 1] /\ outcome \in [Passes -> Verdicts]
      /\ pauses \in [Passes -> 0 .. MaxPauses]
  BY DEF PassesOK
<1>1. ASSUME NEW i \in 0 .. Last + 1, Goes(k, i), Live(k), UNCHANGED <<pauses, passes>> PROVE PassesOK'
  <2>1. PICK ph \in {"step", "ending"} : /\ Moves(k, ph)
                                         /\ ph = "step" => at'[k] \in Steps
                                         /\ ph = "ending" => outcome'[k] # "none"
    BY <1>1, GoesOnOK
  <2>2. ph \in LivePhases
    BY DEF LivePhases, Phases
  <2>3. /\ at' \in [Passes -> 0 .. Last + 1] /\ outcome' \in [Passes -> Verdicts]
        /\ \A j \in Passes : j # k => at'[j] = at[j] /\ outcome'[j] = outcome[j]
    BY <1>1, GoesOnOK
  <2> HIDE DEF Live
  <2>4. QED
    BY <1>0, <1>1, <2>1, <2>2, <2>3, PassMoves
<1>2. ASSUME NEW ph \in LivePhases \ {"step", "ending"}, Moves(k, ph), Live(k), UNCHANGED <<at, outcome, passes>>,
             pauses' \in [Passes -> 0 .. MaxPauses]
      PROVE  PassesOK'
  <2> HIDE DEF Live
  <2>1. QED
    BY <1>0, <1>2, PassMoves
<1>3. ASSUME NEW v \in Verdicts \ {"none"}, Ending(k, v), Live(k), UNCHANGED <<at, pauses, passes>> PROVE PassesOK'
  <2>1. /\ outcome' \in [Passes -> Verdicts] /\ outcome'[k] = v
        /\ \A j \in Passes : j # k => outcome'[j] = outcome[j]
    BY <1>0, <1>3 DEF Ending
  <2>2. "ending" \in LivePhases /\ Moves(k, "ending")
    BY <1>3 DEF LivePhases, Phases, Ending
  <2> HIDE DEF Live
  <2>3. QED
    BY <1>0, <1>3, <2>1, <2>2, PassMoves
<1>4. ASSUME Leaves(k), Live(k), passes' = passes PROVE PassesOK'
  BY <1>4, AutomationRunsAssumption DEF Leaves, Forgets, Moves, PassesOK, Phases, Verdicts, Passes
<1>5. {"mark", "halting", "waiting", "resuming", "failing", "closing"} \subseteq LivePhases \ {"step", "ending"}
  BY DEF LivePhases, Phases
<1>6. at[k] \in 0 .. Last + 1 /\ 0 \in 0 .. Last + 1
  BY <1>0, AutomationRunsAssumption
<1>7. CASE Load(k)
  BY <1>1, <1>2, <1>5, <1>6, <1>7, <1>0 DEF Load
<1>8. CASE Mark(k) \/ Resume(k)
  BY <1>1, <1>6, <1>8 DEF Mark, Resume
<1>9. CASE StepDone(k)
  <2>1. at[k] + 1 \in 0 .. Last + 1
    BY <1>9, AutomationRunsAssumption DEF StepDone, PassesOK, Steps
  <2>2. QED
    BY <1>1, <1>9, <2>1 DEF StepDone
<1>10. CASE StepFails(k)
  BY <1>3, <1>10 DEF StepFails, Verdicts, Ended
<1>11. CASE Halt(k) \/ HaltDone(k) \/ AskConsent(k) \/ End(k) \/ Throws(k) \/ Fail(k) \/ FailThrows(k)
  BY <1>0, <1>2, <1>5, <1>11 DEF Halt, HaltDone, AskConsent, End, Throws, Fail, FailThrows
<1>12. CASE Pause(k)
  <2>1. pauses' \in [Passes -> 0 .. MaxPauses]
    BY <1>0, <1>12, AutomationRunsAssumption DEF Pause
  <2>2. QED
    BY <1>2, <1>5, <1>12, <2>1 DEF Pause
<1>13. CASE Poll(k)
  <2>1. "cancelled" \in Verdicts \ {"none"}
    BY DEF Verdicts, Ended
  <2>2. QED
    BY <1>0, <1>2, <1>3, <1>5, <1>13, <2>1 DEF Poll
<1>14. CASE Close(k) \/ StartThrows(k)
  BY <1>4, <1>14 DEF Close, StartThrows
<1>15. QED
  BY <1>7, <1>8, <1>9, <1>10, <1>11, <1>12, <1>13, <1>14 DEF EngineStep

LEMMA EngineKeepsRow ==
    ASSUME TypeInv, NEW k \in Passes, EngineStep(k) \/ StartThrows(k) \/ Throws(k) \/ FailThrows(k)
    PROVE  Row0OK'
<1>1. /\ row \in Row /\ at[k] \in 0 .. Last + 1 /\ Last \in Nat
      /\ phase[k] = "ending" => outcome[k] \in Verdicts /\ outcome[k] # "none"
      /\ phase[k] = "step" => at[k] \in Steps
  BY AutomationRunsAssumption DEF TypeInv, Row0OK, PassesOK
<1>2. passes' # 0
  <2>1. phase[k] # "none"
    BY DEF EngineStep, Load, Mark, StepDone, StepFails, Halt, HaltDone, AskConsent, Pause, Poll, Resume, End, Fail,
       Close, StartThrows, Throws, FailThrows
  <2>2. passes # 0
    BY <2>1, AutomationRunsAssumption DEF TypeInv, PassesOK, Passes
  <2>3. passes' = passes
    BY DEF EngineStep, Load, Mark, StepDone, StepFails, Halt, HaltDone, AskConsent, Pause, Poll, Resume, End, Fail,
       Close, StartThrows, Throws, FailThrows
  <2>4. QED
    BY <2>2, <2>3
<1>3. ASSUME NEW v \in Statuses, NEW from \in Steps, NEW shape \in 0 .. Last + 1,
             row' = [status |-> v, from |-> from, shape |-> shape]
      PROVE  row' \in Row
  BY <1>3 DEF Row
<1>4. /\ row = [status |-> row.status, from |-> row.from, shape |-> row.shape]
      /\ row.status \in Statuses /\ row.from \in Steps /\ row.shape \in 0 .. Last + 1
  BY <1>1 DEF Row
<1>5. /\ {"running", "needs_credentials", "awaiting_consent", "paused_for_user", "failed"} \subseteq Statuses
      /\ Verdicts \ {"none"} \subseteq Statuses /\ 0 \in Steps /\ Last + 1 \in 0 .. Last + 1
  BY <1>1 DEF Statuses, Verdicts, Ended, Steps
<1>6. ASSUME row' = row PROVE row' \in Row
  BY <1>1, <1>6
<1>7. ASSUME NEW v \in Statuses, row' = [row EXCEPT !.status = v] PROVE row' \in Row
  BY <1>1, <1>7 DEF Row
<1>8. CASE Mark(k) \/ StartThrows(k)
  <2>1. [row EXCEPT !.status = "running", !.from = 0] \in Row
    BY <1>1, <1>5 DEF Row
  <2>2. row' \in {row, [row EXCEPT !.status = "running", !.from = 0]}
    BY <1>8 DEF Mark, StartThrows
  <2>3. QED
    BY <1>1, <1>2, <2>1, <2>2 DEF Row0OK
<1>9. CASE Resume(k) \/ Throws(k)
  <2>1. [row EXCEPT !.status = "running", !.shape = Last + 1] \in Row
    BY <1>1, <1>5 DEF Row
  <2>2. phase[k] = "ending" => [row EXCEPT !.status = outcome[k]] \in Row
    BY <1>1, <1>5 DEF Row
  <2>3. \/ row' \in {row, [row EXCEPT !.status = "running", !.shape = Last + 1]}
        \/ phase[k] = "ending" /\ row' = [row EXCEPT !.status = outcome[k]]
    BY <1>9 DEF Resume, Throws
  <2>4. QED
    BY <1>1, <1>2, <2>1, <2>2, <2>3 DEF Row0OK
<1>10. CASE Halt(k)
  <2>1. PICK from \in 0 .. at[k] : row' = [row EXCEPT !.status = "needs_credentials", !.from = from]
    BY <1>10 DEF Halt
  <2>2. from \in Steps
    BY <1>1, <1>10, <2>1 DEF Halt, Steps
  <2>3. [row EXCEPT !.status = "needs_credentials", !.from = from] \in Row
    BY <1>1, <1>5, <2>2 DEF Row
  <2>4. QED
    BY <1>2, <2>1, <2>3 DEF Row0OK
<1>11. CASE AskConsent(k)
  <2>1. [row EXCEPT !.status = "awaiting_consent", !.shape = at[k]] \in Row
    BY <1>1, <1>5 DEF Row
  <2>2. QED
    BY <1>2, <1>11, <2>1 DEF AskConsent, Row0OK
<1>12. CASE End(k)
  BY <1>1, <1>2, <1>5, <1>7, <1>12 DEF End, Row0OK
<1>13. CASE HaltDone(k) \/ Pause(k) \/ Fail(k)
  BY <1>2, <1>5, <1>7, <1>13 DEF HaltDone, Pause, Fail, Row0OK
<1>14. CASE Load(k) \/ StepDone(k) \/ StepFails(k) \/ Poll(k) \/ Close(k) \/ FailThrows(k)
  BY <1>2, <1>6, <1>14 DEF Load, StepDone, StepFails, Poll, Close, FailThrows, Row0OK
<1>15. QED
  BY <1>8, <1>9, <1>10, <1>11, <1>12, <1>13, <1>14 DEF EngineStep

\* A live pass stays live or leaves.
LEMMA EngineMoves ==
    ASSUME PassesOK, NEW k \in Passes, EngineStep(k) \/ StartThrows(k) \/ Throws(k) \/ FailThrows(k)
    PROVE  /\ Live(k)
           /\ \A j \in Passes : j # k => phase'[j] = phase[j]
           /\ \/ Live(k)' /\ signals' = signals /\ signed' = signed /\ cancelled' = cancelled /\ once' = once
                          /\ resumed' \subseteq resumed
              \/ ~Live(k)' /\ Leaves(k)
<1>1. phase \in [Passes -> Phases]
  BY DEF PassesOK
<1>2. ASSUME NEW ph \in LivePhases, Moves(k, ph)
      PROVE  Live(k)' /\ \A j \in Passes : j # k => phase'[j] = phase[j]
  BY <1>1, <1>2 DEF Moves, Live, LivePhases
<1>3. ASSUME Leaves(k) PROVE ~Live(k)' /\ \A j \in Passes : j # k => phase'[j] = phase[j]
  BY <1>1, <1>3 DEF Leaves, Moves, Live
<1>4. {"mark", "step", "halting", "waiting", "resuming", "ending", "failing", "closing"} \subseteq LivePhases
  BY DEF LivePhases, Phases
<1>5. CASE Load(k) \/ Mark(k) \/ StepDone(k) \/ Resume(k)
  <2>1. \E ph \in {"mark", "step", "ending"} : Moves(k, ph)
    BY <1>5 DEF Load, Mark, StepDone, Resume, Goes, Ending
  <2>2. Live(k) /\ UNCHANGED <<signals, signed, cancelled, resumed, once>>
    BY <1>5 DEF Load, Mark, StepDone, Resume, Live, memory
  <2>3. QED
    BY <1>2, <1>4, <2>1, <2>2
<1>6. CASE StepFails(k) \/ Halt(k) \/ HaltDone(k) \/ AskConsent(k) \/ Pause(k) \/ End(k) \/ Throws(k) \/ Fail(k)
           \/ FailThrows(k)
  <2>1. \E ph \in {"ending", "halting", "closing", "waiting", "failing"} : Moves(k, ph)
    BY <1>6 DEF StepFails, Halt, HaltDone, AskConsent, Pause, End, Throws, Fail, FailThrows, Ending
  <2>2. Live(k) /\ UNCHANGED <<signals, signed, cancelled, resumed, once>>
    BY <1>6 DEF StepFails, Halt, HaltDone, AskConsent, Pause, End, Throws, Fail, FailThrows, Live, memory
  <2>3. QED
    BY <1>2, <1>4, <2>1, <2>2
<1>7. CASE Poll(k)
  <2>1. \E ph \in {"ending", "resuming"} : Moves(k, ph)
    BY <1>7 DEF Poll, Ending
  <2>2. /\ Live(k) /\ UNCHANGED <<signals, signed, cancelled, once>> /\ resumed' \subseteq resumed
    BY <1>7 DEF Poll, Live
  <2>3. QED
    BY <1>2, <1>4, <2>1, <2>2
<1>8. CASE Close(k) \/ StartThrows(k)
  <2>1. Leaves(k) /\ Live(k)
    BY <1>8 DEF Close, StartThrows, Live
  <2>2. QED
    BY <1>3, <2>1
<1>9. QED
  BY <1>5, <1>6, <1>7, <1>8 DEF EngineStep

LEMMA EngineKeepsMemory ==
    ASSUME TypeInv, NEW k \in Passes, EngineStep(k) \/ StartThrows(k) \/ Throws(k) \/ FailThrows(k)
    PROVE  MemoryOK'
<1>1. PassesOK /\ MemoryOK /\ Passes = 1 .. MaxPasses /\ MaxPasses \in Nat
  BY AutomationRunsAssumption DEF TypeInv, Passes
<1>2. odd \subseteq odd'
  BY DEF EngineStep, Load, Mark, StepDone, StepFails, Halt, HaltDone, AskConsent, Pause, Poll, Resume, End, Fail,
     Close, StartThrows, Throws, FailThrows
<1>3. Live(k) /\ \A j \in Passes : j # k => phase'[j] = phase[j]
  BY <1>1, EngineMoves
<1>4. CASE Live(k)' /\ signals' = signals /\ signed' = signed /\ cancelled' = cancelled /\ once' = once
           /\ resumed' \subseteq resumed
  BY <1>1, <1>2, <1>3, <1>4 DEF MemoryOK, Live, None
<1>5. CASE ~Live(k)' /\ Leaves(k)
  BY <1>1, <1>2, <1>3, <1>5 DEF MemoryOK, Leaves, Forgets, Live, None
<1>6. QED
  BY <1>1, <1>4, <1>5, EngineMoves

LEMMA EngineKeepsRest ==
    ASSUME TypeInv, NEW k \in Passes, EngineStep(k) \/ StartThrows(k) \/ Throws(k) \/ FailThrows(k)
    PROVE  RestOK'
<1>1. approved' = approved /\ calls' = calls
  BY DEF EngineStep, Load, Mark, StepDone, StepFails, Halt, HaltDone, AskConsent, Pause, Poll, Resume, End, Fail,
     Close, StartThrows, Throws, FailThrows
<1>2. shown' \subseteq Commands
  <2>1. AskConsent(k) => shown' = shown \cup {at[k]} /\ at[k] \in Commands
    BY DEF AskConsent, Consented
  <2>2. ~AskConsent(k) => shown' = shown
    BY DEF EngineStep, Load, Mark, StepDone, StepFails, Halt, HaltDone, Pause, Poll, Resume, End, Fail,
       Close, StartThrows, Throws, FailThrows
  <2>3. QED
    BY <2>1, <2>2 DEF TypeInv, RestOK
<1>3. waiter' \in {waiter, "parked"} /\ odd' \in {odd, odd \cup {"unwritten"}}
  BY DEF EngineStep, Load, Mark, StepDone, StepFails, Halt, HaltDone, AskConsent, Pause, Poll, Resume, End, Fail,
     Close, StartThrows, Throws, FailThrows
<1>4. faults' = faults \/ Fault
  BY DEF EngineStep, Load, Mark, StepDone, StepFails, Halt, HaltDone, AskConsent, Pause, Poll, Resume, End, Fail,
     Close, StartThrows, Throws, FailThrows
<1>5. faults' \in 0 .. MaxFaults
  BY <1>4, AutomationRunsAssumption DEF Fault, TypeInv, RestOK
<1>6. QED
  BY <1>1, <1>2, <1>3, <1>5 DEF TypeInv, RestOK, Asked, Mishaps

\* A request moves no pass, and touches no signals but the ones of the pass in the map.
LEMMA QuietKeeps ==
    ASSUME TypeInv, UNCHANGED <<row, pass, signals, signed>>,
           cancelled' \subseteq cancelled \cup ({signals} \ {None}),
           resumed' \subseteq resumed \cup ({signals} \ {None}),
           once' \in [Passes -> SUBSET Steps], odd \subseteq odd'
    PROVE  Row0OK' /\ PassesOK' /\ MemoryOK'
<1>1. row' = row /\ passes' = passes /\ phase' = phase /\ at' = at /\ outcome' = outcome /\ pauses' = pauses
  BY DEF pass
<1>2. Row0OK' /\ PassesOK'
  BY <1>1 DEF TypeInv, Row0OK, PassesOK
<1>3. Live(signals)' <=> Live(signals)
  BY <1>1 DEF Live
<1>4. MemoryOK'
  BY <1>1, <1>3 DEF TypeInv, MemoryOK, None, Live
<1>5. QED
  BY <1>2, <1>4

LEMMA AsksAreCalls ==
    ASSUME AutomationRunsAssumption, NEW kind \in Kinds, NEW arg \in Steps
    PROVE  Asks(kind, arg) \in Call
  BY DEF Asks, Call, Statuses, None, AutomationRunsAssumption

LEMMA GoesOnAreCalls ==
    ASSUME AutomationRunsAssumption, NEW kind \in Kinds, row \in Row
    PROVE  GoesOn(kind, row) \in Call
  BY DEF GoesOn, Row, Call, None, AutomationRunsAssumption

LEMMA RequestKeepsTypes ==
    ASSUME TypeInv, AskResume \/ Mint \/ Answer \/ Cancel \/ Stop
    PROVE  TypeInv'
<1>1. /\ UNCHANGED <<row, pass, signals, signed, resumed, once, approved, shown, faults>>
      /\ cancelled' \subseteq cancelled \cup ({signals} \ {None})
      /\ waiter' \in {waiter, "none"} /\ odd' \in {odd, odd \cup {"unparked"}}
  BY DEF AskResume, Mint, Answer, Cancel, Stop, memory, Tagged
<1>2. row \in Row /\ once \in [Passes -> SUBSET Steps] /\ IsABag(calls) /\ Asked \subseteq Call
  BY DEF TypeInv, Row0OK, MemoryOK, RestOK
<1>3. calls' = calls \/ \E c \in Call : Begins(c)
  <2>1. GoesOn("resume", row) \in Call /\ Asks("flag", 0) \in Call /\ Asks("woken", 0) \in Call
    BY <1>2, AutomationRunsAssumption, AsksAreCalls, GoesOnAreCalls DEF Kinds, Steps
  <2>2. ASSUME row.shape \in Steps, NEW kind \in {"once", "always"} PROVE Asks(kind, row.shape) \in Call
    BY <2>2, AutomationRunsAssumption, AsksAreCalls DEF Kinds
  <2>3. CASE AskResume \/ Mint
    BY <2>1, <2>3 DEF AskResume, Mint
  <2>4. CASE Answer
    BY <2>1, <2>2, <2>4 DEF Answer
  <2>5. CASE Cancel \/ Stop
    BY <2>5 DEF Cancel, Stop
  <2>6. QED
    BY <2>3, <2>4, <2>5
<1>4. IsABag(calls') /\ Asked' \subseteq Call
  BY <1>2, <1>3, CallBegins DEF Asked
<1>5. RestOK'
  BY <1>1, <1>4 DEF TypeInv, RestOK, Mishaps
<1>6. QED
  BY <1>1, <1>2, <1>5, QuietKeeps DEF TypeInv

LEMMA CallKeepsRest ==
    ASSUME TypeInv, NEW c \in Asked, CallStep(c)
    PROVE  RestOK'
<1>1. row \in Row /\ IsABag(calls) /\ Asked \subseteq Call /\ c \in Call /\ signals \in 0 .. MaxPasses
  BY DEF TypeInv, Row0OK, MemoryOK, RestOK
<1>2. Returns(c) \/ \E then \in Call : Becomes(c, then)
  <2>1. GoesOn("wake", row) \in Call
    BY <1>1, AutomationRunsAssumption, GoesOnAreCalls DEF Kinds
  <2>2. [c EXCEPT !.kind = "bank", !.sig = signals] \in Call
    BY <1>1 DEF Call, Kinds
  <2>3. CASE WakeReads(c)
    BY <2>1, <2>3 DEF WakeReads
  <2>4. CASE AllowAlways(c)
    BY <2>2, <2>4 DEF AllowAlways
  <2>5. CASE Dispatch(c) \/ Refuse(c) \/ Flag(c) \/ AllowOnce(c) \/ Bank(c) \/ CallThrows(c)
    BY <2>5 DEF Dispatch, Refuse, Flag, AllowOnce, Bank, CallThrows
  <2>6. QED
    BY <2>3, <2>4, <2>5 DEF CallStep
<1>3. IsABag(calls') /\ Asked' \subseteq Call
  BY <1>1, <1>2, CallReturns, CallBecomes
<1>4. /\ approved' \in {approved, approved \cup {c.arg}} /\ shown' = shown /\ waiter' \in {waiter, "none"}
      /\ odd' \subseteq odd \cup {"stale", "overlap", "missed"}
  BY DEF CallStep, WakeReads, Dispatch, Refuse, Flag, AllowOnce, AllowAlways, Bank, CallThrows, Tagged
<1>5. faults' = faults \/ Fault
  BY DEF CallStep, WakeReads, Dispatch, Refuse, Flag, AllowOnce, AllowAlways, Bank, CallThrows
<1>6. faults' \in 0 .. MaxFaults
  BY <1>5, AutomationRunsAssumption DEF Fault, TypeInv, RestOK
<1>7. c.arg \in Steps
  BY <1>1 DEF Call
<1>8. QED
  BY <1>3, <1>4, <1>6, <1>7 DEF TypeInv, RestOK, Mishaps

\* A pass begins at a step of the recipe, with signals of its own or none.
LEMMA PassBegins ==
    ASSUME PassesOK, passes < MaxPasses, NEW i \in Steps, NEW ph \in {"load", "leaked"},
           phase' = [phase EXCEPT ![passes + 1] = ph], at' = [at EXCEPT ![passes + 1] = i],
           passes' = passes + 1, UNCHANGED <<outcome, pauses>>
    PROVE  /\ PassesOK' /\ passes + 1 \in Passes /\ phase'[passes + 1] = ph
           /\ \A j \in Passes : j # passes + 1 => phase'[j] = phase[j]
<1>1. passes + 1 \in Passes /\ Last \in Nat /\ passes \in Nat /\ MaxPasses \in Nat
  BY AutomationRunsAssumption DEF PassesOK, Passes
<1>2. phase' \in [Passes -> Phases] /\ at' \in [Passes -> 0 .. Last + 1]
  BY <1>1 DEF PassesOK, Phases, Steps
<1>3. phase'[passes + 1] = ph /\ \A j \in Passes : j # passes + 1 => phase'[j] = phase[j] /\ at'[j] = at[j]
  BY <1>1 DEF PassesOK
<1>4. ASSUME NEW j \in Passes
      PROVE  /\ phase'[j] = "none" <=> j > passes'
             /\ phase'[j] = "step" => at'[j] \in Steps
             /\ phase'[j] = "ending" => outcome'[j] # "none"
  <2>1. CASE j = passes + 1
    BY <1>1, <1>3, <2>1
  <2>2. CASE j # passes + 1
    <3>1. j > passes <=> j > passes + 1
      BY <1>1, <2>2 DEF Passes
    <3>2. QED
      BY <1>3, <2>2, <3>1 DEF PassesOK
  <2>3. QED
    BY <2>1, <2>2
<1>5. QED
  BY <1>1, <1>2, <1>3, <1>4 DEF PassesOK

LEMMA DispatchKeeps ==
    ASSUME TypeInv, NEW c \in Asked, Dispatch(c)
    PROVE  Row0OK' /\ PassesOK' /\ MemoryOK'
<1>1. c.arg \in Steps /\ passes \in Nat /\ MaxPasses \in Nat
  BY AutomationRunsAssumption DEF TypeInv, RestOK, PassesOK, Call
<1>2. /\ PassesOK' /\ passes + 1 \in Passes /\ phase'[passes + 1] = "load"
  BY <1>1, PassBegins DEF TypeInv, Dispatch
<1>3. Row0OK'
  BY <1>1 DEF TypeInv, Row0OK, Dispatch
<1>4. signals' = passes + 1 /\ signed' = signed \cup {passes + 1} /\ cancelled' = cancelled /\ resumed' = resumed
      /\ once' = once /\ signals = None
  BY DEF Dispatch
<1>5. MemoryOK'
  BY <1>1, <1>2, <1>4 DEF TypeInv, MemoryOK, Live, None, Passes
<1>6. QED
  BY <1>2, <1>3, <1>5

LEMMA CallKeepsTypes ==
    ASSUME TypeInv, NEW c \in Asked, CallStep(c)
    PROVE  TypeInv'
<1>1. CASE Dispatch(c)
  BY <1>1, DispatchKeeps, CallKeepsRest DEF TypeInv
<1>2. CASE WakeReads(c) \/ Refuse(c) \/ Flag(c) \/ AllowOnce(c) \/ AllowAlways(c) \/ Bank(c) \/ CallThrows(c)
  <2>1. /\ UNCHANGED <<row, pass, signals, signed, cancelled>> /\ odd \subseteq odd'
        /\ resumed' \subseteq resumed \cup ({signals} \ {None})
    BY <1>2 DEF WakeReads, Refuse, Flag, AllowOnce, AllowAlways, Bank, CallThrows, Raised, memory
  <2>2. once' \in [Passes -> SUBSET Steps]
    <3>1. once \in [Passes -> SUBSET Steps] /\ c.arg \in Steps
      BY DEF TypeInv, MemoryOK, RestOK, Call
    <3>2. once' \in {once, [once EXCEPT ![signals] = @ \cup {c.arg}]}
      BY <1>2 DEF WakeReads, Refuse, Flag, AllowOnce, AllowAlways, Bank, CallThrows, memory
    <3>3. QED
      BY <3>1, <3>2
  <2>3. QED
    BY <2>1, <2>2, QuietKeeps, CallKeepsRest DEF TypeInv
<1>3. QED
  BY <1>1, <1>2 DEF CallStep

LEMMA CreateKeepsTypes ==
    ASSUME TypeInv, Create \/ CreateThrows
    PROVE  TypeInv'
<1>1. /\ passes = 0 /\ passes' = 1 /\ 0 \in Steps /\ MaxPasses \in Nat \ {0} /\ row \in Row
      /\ phase \in [Passes -> Phases] /\ at \in [Passes -> 0 .. Last + 1] /\ PassesOK
  BY AutomationRunsAssumption DEF TypeInv, Row0OK, PassesOK, Create, CreateThrows, Steps
<1>2. [NoRow EXCEPT !.status = "running"] \in Row
  BY <1>1, AutomationRunsAssumption DEF NoRow, Row, Statuses, Steps
<1>3. Row0OK'
  BY <1>1, <1>2 DEF Row0OK, Create, CreateThrows
<1>4. \A k \in Passes : phase[k] = "none"
  BY <1>1 DEF PassesOK, Passes
<1>5. signals = None
  BY <1>1, <1>4 DEF TypeInv, MemoryOK, Live, Passes, None
<1>6. \E ph \in {"load", "leaked"} : phase' = [phase EXCEPT ![1] = ph] /\ (ph = "leaked" => "unwritten" \in odd')
  BY DEF Create, CreateThrows
<1>7. PassesOK' /\ 1 \in Passes /\ phase'[1] \in {"load", "leaked"} /\ (phase'[1] = "leaked" => "unwritten" \in odd')
  <2>1. PICK ph \in {"load", "leaked"} : phase' = [phase EXCEPT ![1] = ph] /\ (ph = "leaked" => "unwritten" \in odd')
    BY <1>6
  <2>2. at' = at /\ outcome' = outcome /\ pauses' = pauses /\ 1 \in Passes
    BY <1>1 DEF Create, CreateThrows, Passes
  <2>3. phase' \in [Passes -> Phases] /\ phase'[1] = ph /\ \A j \in Passes : j # 1 => phase'[j] = "none"
    BY <1>1, <1>4, <2>1, <2>2 DEF Phases
  <2>4. \A j \in Passes : j > 1 <=> j # 1
    BY <1>1 DEF Passes
  <2>5. QED
    BY <1>1, <2>1, <2>2, <2>3, <2>4 DEF PassesOK, Passes
<1>8. MemoryOK'
  <2>1. /\ signals' \in {None, 1} /\ signed' = {signals'} \ {None} /\ UNCHANGED <<cancelled, resumed, once>>
    BY <1>5 DEF Create, CreateThrows, TypeInv, MemoryOK, None
  <2>2. QED
    BY <1>1, <1>5, <1>7, <2>1 DEF TypeInv, MemoryOK, Live, None
<1>9. RestOK'
  <2>1. /\ UNCHANGED <<approved, shown, waiter, calls>> /\ (faults' = faults \/ Fault)
        /\ odd' \in {odd, odd \cup {"unwritten"}}
    BY DEF Create, CreateThrows
  <2>2. faults' \in 0 .. MaxFaults
    BY <2>1, AutomationRunsAssumption DEF Fault, TypeInv, RestOK
  <2>3. QED
    BY <2>1, <2>2 DEF TypeInv, RestOK, Asked, Mishaps
<1>10. QED
  BY <1>3, <1>7, <1>8, <1>9 DEF TypeInv

LEMMA RestartKeepsTypes ==
    ASSUME TypeInv, Restart
    PROVE  TypeInv'
<1>1. row' \in {row, [row EXCEPT !.status = "failed"]} /\ passes' = passes /\ passes > 0 /\ row \in Row
  BY DEF Restart, TypeInv, Row0OK
<1>2. Row0OK'
  <2>1. [row EXCEPT !.status = "failed"] \in Row
    BY <1>1 DEF Row, Statuses, Ended
  <2>2. QED
    BY <1>1, <2>1, AutomationRunsAssumption DEF Row0OK, TypeInv, PassesOK
<1>3. PassesOK'
  <2>1. /\ phase' = [k \in Passes |-> IF phase[k] = "none" THEN "none" ELSE "over"]
        /\ at' = [k \in Passes |-> 0] /\ outcome' = [k \in Passes |-> "none"] /\ pauses' = [k \in Passes |-> 0]
    BY DEF Restart
  <2>2. /\ at' \in [Passes -> 0 .. Last + 1] /\ outcome' \in [Passes -> Verdicts] /\ pauses' \in [Passes -> 0 .. MaxPauses]
        /\ phase' \in [Passes -> Phases]
    BY <2>1, AutomationRunsAssumption DEF Verdicts, Phases
  <2>3. QED
    BY <1>1, <2>1, <2>2 DEF PassesOK, TypeInv
<1>4. MemoryOK'
  BY AutomationRunsAssumption DEF Restart, MemoryOK, None
<1>5. RestOK'
  <2>1. faults' \in 0 .. MaxFaults
    BY AutomationRunsAssumption DEF Restart, Fault, TypeInv, RestOK
  <2>2. QED
    BY <2>1, NoCalls DEF Restart, RestOK, TypeInv, Asked
<1>6. QED
  BY <1>2, <1>3, <1>4, <1>5 DEF TypeInv

LEMMA TypeStep == TypeInv /\ [Next]_vars => TypeInv'
<1> SUFFICES ASSUME TypeInv, [Next]_vars PROVE TypeInv'
  OBVIOUS
<1>1. ASSUME NEW k \in Passes, EngineStep(k) \/ StartThrows(k) \/ Throws(k) \/ FailThrows(k)
      PROVE  TypeInv'
  BY <1>1, EngineKeepsRow, EngineKeepsPasses, EngineKeepsMemory, EngineKeepsRest DEF TypeInv
<1>2. CASE UNCHANGED vars
  BY <1>2 DEF vars, memory, pass, TypeInv, Row0OK, PassesOK, MemoryOK, RestOK, Asked, Live
<1>3. QED
  BY <1>1, <1>2, CreateKeepsTypes, RequestKeepsTypes, CallKeepsTypes, RestartKeepsTypes DEF Next, Asked

\* Every variable holds a value the program could hold, and a pass that was given
\* signals is in the signals map for as long as it lives and no longer: what
\* dispatchCredentialResume takes the map for (service.ts:965-976).
THEOREM TypeCorrect == Spec => []TypeOK
<1>1. TypeInv => TypeOK
  <2> SUFFICES ASSUME TypeInv PROVE TypeOK
    OBVIOUS
  <2>1. signed \subseteq Passes
    BY AutomationRunsAssumption DEF TypeInv, MemoryOK, Passes, None
  <2>2. VariablesOK
    BY <2>1 DEF TypeInv, Row0OK, PassesOK, MemoryOK, RestOK, VariablesOK, Asked, Verdicts
  <2>3. /\ \A k \in Passes : phase[k] = "none" <=> k > passes
        /\ \A k \in signed : Live(k) => signals = k
        /\ signals # None => signals \in signed /\ (Live(signals) \/ phase[signals] = "leaked")
    BY DEF TypeInv, PassesOK, MemoryOK
  <2>4. QED
    BY <2>2, <2>3 DEF TypeOK
<1>2. QED
  BY <1>1, TypeInit, TypeStep, PTL DEF Spec

-----------------------------------------------------------------------------
(* Approvals                                                               *)

Answers == {"once", "always", "bank"}

\* What is approved, what the row asks for and what an answer in progress answers
\* was put to the owner.
ShownInv ==
    /\ ApprovalsWereShown
    /\ row.shape \in Steps => row.shape \in shown
    /\ \A c \in Asked : c.kind \in Answers => c.arg \in shown

LEMMA ShownKept ==
    ASSUME TypeInv, ShownInv, shown \subseteq shown',
           row'.shape \in Steps => row'.shape \in shown',
           approved' \subseteq shown',
           \A k \in Passes : once'[k] \subseteq shown',
           \A c \in Asked' : c.kind \in Answers => c \in Asked \/ c.arg \in shown'
    PROVE  ShownInv'
<1>1. ApprovalsWereShown'
  BY DEF ApprovalsWereShown
<1>2. QED
  BY <1>1 DEF ShownInv

LEMMA OnceWasShown == ASSUME ShownInv PROVE approved \subseteq shown /\ \A k \in Passes : once[k] \subseteq shown
  BY DEF ShownInv, ApprovalsWereShown

LEMMA EngineKeepsShown ==
    ASSUME TypeInv, ShownInv, NEW k \in Passes,
           EngineStep(k) \/ StartThrows(k) \/ Throws(k) \/ FailThrows(k)
    PROVE  ShownInv'
<1>1. row \in Row /\ PassesOK /\ once \in [Passes -> SUBSET Steps] /\ Last \in Nat
  BY AutomationRunsAssumption DEF TypeInv, Row0OK, MemoryOK
<1>2. approved' = approved /\ calls' = calls /\ shown \subseteq shown'
  BY DEF EngineStep, Load, Mark, StepDone, StepFails, Halt, HaltDone, AskConsent, Pause, Poll, Resume, End, Fail,
     Close, StartThrows, Throws, FailThrows
<1>3. row'.shape \in Steps => row'.shape \in shown'
  <2>1. CASE AskConsent(k)
    BY <1>1, <2>1 DEF AskConsent, Row
  <2>2. CASE ~AskConsent(k)
    <3>1. row'.shape \in {row.shape, Last + 1}
      BY <1>1, <2>2 DEF EngineStep, Load, Mark, StepDone, StepFails, Halt, HaltDone, Pause, Poll, Resume, End, Fail,
         Close, StartThrows, Throws, FailThrows, Row
    <3>2. Last + 1 \notin Steps
      BY <1>1 DEF Steps
    <3>3. QED
      BY <1>2, <3>1, <3>2 DEF ShownInv
  <2>3. QED
    BY <2>1, <2>2
<1>4. \A j \in Passes : once'[j] \subseteq once[j]
  BY <1>1, EngineMoves DEF Leaves, Forgets
<1>5. QED
  BY <1>2, <1>3, <1>4, ShownKept, OnceWasShown DEF Asked

LEMMA CallKeepsShown ==
    ASSUME TypeInv, ShownInv, NEW c \in Asked, CallStep(c)
    PROVE  ShownInv'
<1>1. IsABag(calls) /\ once \in [Passes -> SUBSET Steps] /\ c \in Call
  BY DEF TypeInv, MemoryOK, RestOK
<1>2. row' = row /\ shown' = shown
  BY DEF CallStep, WakeReads, Dispatch, Refuse, Flag, AllowOnce, AllowAlways, Bank, CallThrows
<1>3. c.kind \in Answers => c.arg \in shown
  BY DEF ShownInv
<1>4. approved' \subseteq shown
  BY <1>3, OnceWasShown DEF CallStep, WakeReads, Dispatch, Refuse, Flag, AllowOnce, AllowAlways, Bank, CallThrows, Answers
<1>5. once' = once \/ (c.arg \in shown /\ once' = [once EXCEPT ![signals] = @ \cup {c.arg}])
  BY <1>3 DEF CallStep, WakeReads, Dispatch, Refuse, Flag, AllowOnce, AllowAlways, Bank, CallThrows, Answers, memory
<1>6. \A k \in Passes : once'[k] \subseteq shown
  BY <1>1, <1>5, OnceWasShown
<1>7. \A d \in Asked' : d.kind \in Answers => d \in Asked \/ d.arg \in shown
  <2>1. CASE WakeReads(c)
    <3>1. GoesOn("wake", row).kind \notin Answers
      BY DEF GoesOn, Answers
    <3>2. Returns(c) \/ Becomes(c, GoesOn("wake", row))
      BY <2>1 DEF WakeReads
    <3>3. QED
      BY <1>1, <3>1, <3>2, CallReturns, CallBecomes
  <2>2. CASE AllowAlways(c)
    <3>1. [c EXCEPT !.kind = "bank", !.sig = signals].arg \in shown
      BY <1>1, <1>3, <2>2 DEF AllowAlways, Answers, Call
    <3>2. QED
      BY <1>1, <2>2, <3>1, CallBecomes DEF AllowAlways
  <2>3. CASE Returns(c)
    BY <1>1, <2>3, CallReturns
  <2>4. QED
    BY <2>1, <2>2, <2>3 DEF CallStep, Dispatch, Refuse, Flag, AllowOnce, Bank, CallThrows
<1>8. QED
  BY <1>2, <1>4, <1>6, <1>7, ShownKept DEF ShownInv

LEMMA RequestKeepsShown ==
    ASSUME TypeInv, ShownInv, AskResume \/ Mint \/ Answer \/ Cancel \/ Stop
    PROVE  ShownInv'
<1>1. UNCHANGED <<row, once, approved, shown>> /\ IsABag(calls)
  BY DEF AskResume, Mint, Answer, Cancel, Stop, memory, TypeInv, RestOK
<1>2. calls' = calls \/ \E c : Begins(c) /\ (c.kind \in Answers => c.arg \in shown)
  <2>1. CASE AskResume \/ Mint
    <3>1. /\ GoesOn("resume", row).kind \notin Answers /\ Asks("flag", 0).kind \notin Answers
          /\ Asks("woken", 0).kind \notin Answers
      BY DEF GoesOn, Asks, Answers
    <3>2. QED
      BY <2>1, <3>1 DEF AskResume, Mint
  <2>2. CASE Answer
    <3>1. Asks("flag", 0).kind \notin Answers /\ \A kind : Asks(kind, row.shape).arg = row.shape
      BY DEF Asks, Answers
    <3>2. QED
      BY <2>2, <3>1 DEF Answer, ShownInv
  <2>3. CASE Cancel \/ Stop
    BY <2>3 DEF Cancel, Stop
  <2>4. QED
    BY <2>1, <2>2, <2>3
<1>3. \A d \in Asked' : d.kind \in Answers => d \in Asked \/ d.arg \in shown
  BY <1>1, <1>2, CallBegins DEF Asked
<1>4. QED
  BY <1>1, <1>3, ShownKept, OnceWasShown DEF ShownInv

LEMMA OtherKeepsShown ==
    ASSUME TypeInv, ShownInv, Create \/ CreateThrows \/ Restart \/ UNCHANGED vars
    PROVE  ShownInv'
<1>1. approved' = approved /\ shown' = shown /\ row \in Row /\ once \in [Passes -> SUBSET Steps] /\ Last \in Nat
  BY AutomationRunsAssumption DEF Create, CreateThrows, Restart, vars, TypeInv, Row0OK, MemoryOK
<1>2. row'.shape \in {row.shape, Last + 1} /\ Last + 1 \notin Steps
  BY <1>1 DEF Create, CreateThrows, Restart, vars, NoRow, Row, Steps
<1>3. \A k \in Passes : once'[k] \subseteq once[k]
  BY <1>1 DEF Create, CreateThrows, Restart, vars, memory
<1>4. Asked' \subseteq Asked
  BY NoCalls DEF Create, CreateThrows, Restart, vars, Asked
<1>5. QED
  BY <1>1, <1>2, <1>3, <1>4, ShownKept, OnceWasShown DEF ShownInv

\* No approval is held for a command that was not put to the owner, however late
\* the answer comes, whatever pass it meets, and though stores fail and the process
\* restarts (service.ts:1055-1062).
THEOREM OnlyShownCommandsAreApproved == Spec => []ApprovalsWereShown
<1>1. Init => ShownInv
  BY AutomationRunsAssumption, NoCalls DEF Init, ShownInv, ApprovalsWereShown, NoRow, Steps, Asked
<1>2. TypeInv /\ ShownInv /\ [Next]_vars => ShownInv'
  BY EngineKeepsShown, CallKeepsShown, RequestKeepsShown, OtherKeepsShown DEF Next, Asked
<1>3. ShownInv => ApprovalsWereShown
  BY DEF ShownInv
<1>4. QED
  BY <1>1, <1>2, <1>3, TypeInit, TypeStep, PTL DEF Spec

-----------------------------------------------------------------------------
(* Overlapping passes                                                      *)

Tears   == {"halting", "failing", "closing"}
Resumes == {"resume", "wake"}

\* A pass without signals is at work.
RailAtWork == Live(1) /\ 1 \notin signed /\ phase[1] \notin Tears

\* Only the first pass may live without signals, and while it is at work nothing
\* can dispatch another: the run is not parked and no resume or wake is under way.
OverlapInv ==
    /\ \A k \in Passes : Live(k) /\ k \notin signed => k = 1
    /\ passes = 0 => Asked = {} /\ waiter = "none"
    /\ RailAtWork => /\ passes = 1 /\ row.status # "needs_credentials"
                     /\ \A c \in Asked : c.kind \notin Resumes

LEMMA EngineKeepsOverlap ==
    ASSUME TypeInv, OverlapInv, NEW k \in Passes,
           EngineStep(k) \/ StartThrows(k) \/ Throws(k) \/ FailThrows(k)
    PROVE  OverlapInv'
<1>1. /\ PassesOK /\ row \in Row /\ phase \in [Passes -> Phases] /\ passes \in Nat /\ MaxPasses \in Nat \ {0}
      /\ phase[k] = "ending" => outcome[k] \in Verdicts
  BY AutomationRunsAssumption DEF TypeInv, Row0OK, PassesOK
<1>2. calls' = calls /\ passes' = passes /\ k \in 1 .. passes
  <2>1. ~(k > passes)
    BY <1>1, EngineMoves DEF PassesOK, Live
  <2>2. calls' = calls /\ passes' = passes
    BY DEF EngineStep, Load, Mark, StepDone, StepFails, Halt, HaltDone, AskConsent, Pause, Poll, Resume, End, Fail,
       Close, StartThrows, Throws, FailThrows
  <2>3. QED
    BY <1>1, <2>1, <2>2 DEF Passes
<1>3. /\ Live(k) /\ \A j \in Passes : j # k => phase'[j] = phase[j]
      /\ \/ Live(k)' /\ signed' = signed
         \/ ~Live(k)' /\ signed' = signed \ {k}
  BY <1>1, EngineMoves DEF Leaves, Forgets
<1>4. \A j \in Passes : Live(j)' /\ j \notin signed' => Live(j) /\ j \notin signed
  BY <1>3 DEF Live
<1>5. ASSUME k = 1, RailAtWork' PROVE RailAtWork /\ row'.status # "needs_credentials"
  <2>1. Live(k)' /\ phase'[k] \notin Tears /\ k \notin signed'
    BY <1>5 DEF RailAtWork, Live
  <2>2. phase[k] \notin Tears
    BY <1>1, <2>1 DEF EngineStep, Load, Mark, StepDone, StepFails, Halt, HaltDone, AskConsent, Pause, Poll, Resume,
       End, Fail, Close, StartThrows, Throws, FailThrows, Leaves, Moves, Live, Tears
  <2>3. RailAtWork
    BY <1>3, <1>5, <2>1, <2>2 DEF RailAtWork
  <2>4. row.status # "needs_credentials"
    BY <2>3 DEF OverlapInv
  <2>5. CASE End(k)
    BY <1>1, <2>1, <2>5 DEF End, Moves, Tears
  <2>6. CASE Load(k) \/ StepDone(k) \/ StepFails(k) \/ Poll(k) \/ Close(k) \/ FailThrows(k)
    BY <2>3, <2>4, <2>6 DEF Load, StepDone, StepFails, Poll, Close, FailThrows
  <2>7. CASE Mark(k) \/ AskConsent(k) \/ Pause(k) \/ Resume(k)
    BY <1>1, <2>3, <2>7 DEF Mark, AskConsent, Pause, Resume, Row
  <2>8. CASE Halt(k) \/ HaltDone(k) \/ Throws(k) \/ Fail(k)
    BY <1>1, <2>1, <2>8 DEF Halt, HaltDone, Throws, Fail, Moves, Tears
  <2>9. CASE StartThrows(k)
    BY <1>1, <2>1, <2>9 DEF StartThrows, Leaves, Moves, Live
  <2>10. QED
    BY <2>3, <2>5, <2>6, <2>7, <2>8, <2>9 DEF EngineStep
<1>6. ASSUME k # 1, RailAtWork' PROVE FALSE
  <2>1. 1 \in Passes
    BY <1>1 DEF Passes
  <2>2. RailAtWork
    BY <1>3, <1>4, <1>6, <2>1 DEF RailAtWork
  <2>3. QED
    BY <1>1, <1>2, <1>6, <2>2 DEF OverlapInv
<1>7. RailAtWork' => RailAtWork /\ row'.status # "needs_credentials"
  BY <1>5, <1>6
<1>8. waiter' = waiter \/ passes # 0
  BY <1>1, <1>2
<1>9. QED
  BY <1>2, <1>4, <1>7, <1>8 DEF OverlapInv, Asked

LEMMA RequestKeepsOverlap ==
    ASSUME TypeInv, OverlapInv, AskResume \/ Mint \/ Answer \/ Cancel \/ Stop \/ UNCHANGED vars
    PROVE  OverlapInv'
<1>1. UNCHANGED <<row, phase, signed, passes>> /\ IsABag(calls)
  BY DEF AskResume, Mint, Answer, Cancel, Stop, vars, memory, pass, TypeInv, RestOK
<1>2. RailAtWork' = RailAtWork /\ \A k : Live(k)' <=> Live(k)
  BY <1>1 DEF RailAtWork, Live
<1>3. passes = 0 => calls' = calls /\ waiter' = "none"
  <2>1. passes = 0 => row.status = "absent" /\ waiter = "none"
    BY DEF TypeInv, Row0OK, NoRow, OverlapInv
  <2>2. QED
    BY <2>1 DEF AskResume, Mint, Answer, Cancel, Stop, vars
<1>4. ASSUME row.status # "needs_credentials"
      PROVE  calls' = calls \/ \E c : Begins(c) /\ c.kind \notin Resumes
  <2>1. Asks("flag", 0).kind \notin Resumes /\ Asks("woken", 0).kind \notin Resumes
    BY DEF Asks, Resumes
  <2>2. \A kind \in {"once", "always"} : Asks(kind, row.shape).kind \notin Resumes
    BY DEF Asks, Resumes
  <2>3. QED
    BY <1>4, <2>1, <2>2 DEF AskResume, Mint, Answer, Cancel, Stop, vars
<1>5. ASSUME row.status # "needs_credentials", \A c \in Asked : c.kind \notin Resumes
      PROVE  \A c \in Asked' : c.kind \notin Resumes
  BY <1>1, <1>4, <1>5, CallBegins DEF Asked
<1>6. QED
  BY <1>1, <1>2, <1>3, <1>5 DEF OverlapInv, Asked

LEMMA CallKeepsOverlap ==
    ASSUME TypeInv, OverlapInv, NEW c \in Asked, CallStep(c)
    PROVE  OverlapInv'
<1>1. /\ IsABag(calls) /\ PassesOK /\ row' = row /\ passes \in Nat /\ MaxPasses \in Nat \ {0}
      /\ phase \in [Passes -> Phases]
  <2>1. row' = row
    BY DEF CallStep, WakeReads, Dispatch, Refuse, Flag, AllowOnce, AllowAlways, Bank, CallThrows
  <2>2. QED
    BY <2>1, AutomationRunsAssumption DEF TypeInv, PassesOK, RestOK
<1>2. passes # 0
  BY DEF OverlapInv
<1>3. CASE Dispatch(c)
  <2>1. passes + 1 \in Passes /\ passes + 1 # 1
    BY <1>1, <1>2, <1>3 DEF Dispatch, Passes
  <2>2. \A j \in Passes : j # passes + 1 => phase'[j] = phase[j]
    BY <1>1, <1>3 DEF Dispatch
  <2>3. signed' = signed \cup {passes + 1} /\ passes' = passes + 1 /\ c.kind \in Resumes
    BY <1>3 DEF Dispatch, Resumes
  <2>4. ~RailAtWork
    BY <2>3 DEF OverlapInv
  <2>5. 1 \in Passes
    BY <1>1 DEF Passes
  <2>6. ~RailAtWork'
    BY <2>1, <2>2, <2>3, <2>4, <2>5 DEF RailAtWork, Live
  <2>7. \A k \in Passes : Live(k)' /\ k \notin signed' => k = 1
    BY <2>2, <2>3 DEF OverlapInv, Live
  <2>8. passes' # 0
    BY <1>1, <2>3
  <2>9. QED
    BY <2>6, <2>7, <2>8 DEF OverlapInv
<1>4. CASE ~Dispatch(c)
  <2>1. UNCHANGED <<phase, signed, passes>>
    BY <1>4 DEF CallStep, WakeReads, Refuse, Flag, AllowOnce, AllowAlways, Bank, CallThrows, memory, pass
  <2>2. RailAtWork' = RailAtWork /\ \A k : Live(k)' <=> Live(k)
    BY <2>1 DEF RailAtWork, Live
  <2>3. ASSUME row.status # "needs_credentials"
        PROVE  Returns(c) \/ \E d : Becomes(c, d) /\ d.kind \notin Resumes
    <3>1. CASE AllowAlways(c)
      <4>1. c \in Call
        BY DEF TypeInv, RestOK
      <4>2. [c EXCEPT !.kind = "bank", !.sig = signals].kind \notin Resumes
        BY <4>1 DEF Call, Resumes
      <4>3. QED
        BY <3>1, <4>2 DEF AllowAlways
    <3>2. CASE ~AllowAlways(c)
      BY <1>4, <2>3, <3>2 DEF CallStep, WakeReads, Refuse, Flag, AllowOnce, Bank, CallThrows
    <3>3. QED
      BY <3>1, <3>2
  <2>4. ASSUME row.status # "needs_credentials", \A d \in Asked : d.kind \notin Resumes
        PROVE  \A d \in Asked' : d.kind \notin Resumes
    BY <1>1, <2>3, <2>4, CallReturns, CallBecomes
  <2>5. QED
    BY <1>1, <1>2, <2>1, <2>2, <2>4 DEF OverlapInv
<1>5. QED
  BY <1>3, <1>4

LEMMA OtherKeepsOverlap ==
    ASSUME TypeInv, OverlapInv, Create \/ CreateThrows \/ Restart
    PROVE  OverlapInv'
<1>1. PassesOK /\ phase \in [Passes -> Phases] /\ passes \in Nat /\ Passes = 1 .. MaxPasses /\ MaxPasses \in Nat \ {0}
  BY AutomationRunsAssumption DEF TypeInv, PassesOK, Passes
<1>2. CASE Create \/ CreateThrows
  <2>1. passes = 0 /\ passes' = 1 /\ calls' = calls /\ Asked = {}
    BY <1>2 DEF Create, CreateThrows, OverlapInv
  <2>2. row' = row \/ row'.status = "running"
    BY <1>2 DEF Create, CreateThrows, NoRow
  <2>3. row.status = "absent"
    BY <2>1 DEF TypeInv, Row0OK, NoRow
  <2>4. \A j \in Passes : j # 1 => phase'[j] = "none"
    BY <1>1, <1>2, <2>1 DEF Create, CreateThrows, PassesOK
  <2>5. QED
    BY <2>1, <2>2, <2>3, <2>4 DEF OverlapInv, Live, Asked
<1>3. CASE Restart
  <2>1. \A k \in Passes : ~Live(k)'
    BY <1>3 DEF Restart, Live
  <2>2. 1 \in Passes /\ passes' # 0
    BY <1>1, <1>3 DEF Restart
  <2>3. QED
    BY <2>1, <2>2 DEF OverlapInv, RailAtWork
<1>4. QED
  BY <1>2, <1>3

LEMMA OverlapInit == Init => OverlapInv
<1> SUFFICES ASSUME Init PROVE OverlapInv
  OBVIOUS
<1>1. 1 \in Passes /\ Asked = {}
  BY NoCalls, AutomationRunsAssumption DEF Init, Asked, Passes
<1>2. QED
  BY <1>1 DEF Init, OverlapInv, RailAtWork, Live

LEMMA OverlapStep == TypeInv /\ OverlapInv /\ [Next]_vars => OverlapInv'
  BY EngineKeepsOverlap, RequestKeepsOverlap, CallKeepsOverlap, OtherKeepsOverlap DEF Next, Asked

\* Two passes of one run are never at work together, however requests, wakes and
\* restarts interleave: when they overlap the older one belongs to a trigger or a
\* schedule and is only tearing down (service.ts:965-976).
THEOREM OnePassAtWork == Spec => []PassesOverlapOnlyInTeardown
<1>1. TypeInv /\ OverlapInv => PassesOverlapOnlyInTeardown
  <2> SUFFICES ASSUME TypeInv, OverlapInv, NEW j \in Passes, NEW k \in Passes, j < k, Live(j), Live(k)
               PROVE  j \notin signed /\ phase[j] \in Tears
    BY DEF PassesOverlapOnlyInTeardown, Tears
  <2>1. k # 1 /\ ~(k > passes) /\ passes \in Nat /\ j \in Nat /\ k \in Nat
    BY AutomationRunsAssumption DEF Passes, TypeInv, PassesOK, Live
  <2>2. k \in signed /\ signed = {signals} \ {None}
    BY <2>1 DEF OverlapInv, TypeInv, MemoryOK
  <2>3. j \notin signed /\ j = 1
    BY <2>1, <2>2 DEF OverlapInv
  <2>4. passes # 1
    BY <2>1, <2>3
  <2>5. QED
    BY <2>3, <2>4 DEF OverlapInv, RailAtWork
<1>2. QED
  BY <1>1, OverlapInit, OverlapStep, TypeInit, TypeStep, PTL DEF Spec

-----------------------------------------------------------------------------
(* At rest                                                                 *)

Unsettled == {"running", "paused_for_user", "awaiting_consent"}
Wakes     == {"woken", "wake"}
Lost      == {"missed", "unparked", "unwritten"}

\* A pass that is closing has nothing left to write.
Working(k) == Live(k) /\ phase[k] # "closing"

\* The row is right as soon as no pass is working.
RestInv ==
    (\A k \in Passes : ~Working(k)) =>
       /\ row.status \in Unsettled => "unwritten" \in odd
       /\ row.status = "needs_credentials" => Wakeable

LEMMA WakeableIs ==
    Wakeable <=> \/ waiter = "parked"
                 \/ \E c \in Asked : c.kind \in Wakes
                 \/ odd \cap Lost # {}
  BY DEF Wakeable, Asked, Wakes, Lost

LEMMA WakeableIsAfter ==
    Wakeable' <=> \/ waiter' = "parked"
                  \/ \E c \in Asked' : c.kind \in Wakes
                  \/ odd' \cap Lost # {}
  BY DEF Wakeable, Asked, Wakes, Lost

\* A step that changes neither the row nor the passes.
LEMMA RestKept ==
    ASSUME RestInv, UNCHANGED <<row, phase>>, odd \subseteq odd',
           (\A k \in Passes : ~Working(k)) /\ row.status = "needs_credentials" /\ Wakeable => Wakeable'
    PROVE  RestInv'
  BY DEF RestInv, Working, Live

LEMMA EngineSettles ==
    ASSUME TypeInv, RestInv, NEW k \in Passes,
           EngineStep(k) \/ StartThrows(k) \/ Throws(k) \/ FailThrows(k)
    PROVE  RestInv'
<1>1. /\ PassesOK /\ row \in Row /\ phase \in [Passes -> Phases]
      /\ phase[k] = "ending" => outcome[k] \in Verdicts /\ outcome[k] # "none"
  BY DEF TypeInv, Row0OK, PassesOK
<1>2. Live(k) /\ \A j \in Passes : j # k => phase'[j] = phase[j]
  BY <1>1, EngineMoves
<1>3. ASSUME NEW ph \in LivePhases \ {"closing"}, Moves(k, ph) PROVE RestInv'
  <2>1. Working(k)'
    BY <1>1, <1>3 DEF Moves, Working, Live, LivePhases
  <2>2. QED
    BY <2>1 DEF RestInv
<1>4. {"mark", "step", "halting", "waiting", "resuming", "ending", "failing"} \subseteq LivePhases \ {"closing"}
  BY DEF LivePhases, Phases
<1>5. CASE Load(k) \/ Mark(k) \/ StepDone(k) \/ Resume(k)
  BY <1>3, <1>4, <1>5 DEF Load, Mark, StepDone, Resume, Goes, Ending
<1>6. CASE StepFails(k) \/ Halt(k) \/ AskConsent(k) \/ Pause(k) \/ Poll(k) \/ Throws(k)
  BY <1>3, <1>4, <1>6 DEF StepFails, Halt, AskConsent, Pause, Poll, Throws, Ending
<1>7. CASE HaltDone(k)
  <2>1. row'.status = "needs_credentials" /\ waiter' = "parked"
    BY <1>1, <1>7 DEF HaltDone, Row
  <2>2. QED
    BY <2>1, WakeableIsAfter DEF RestInv, Unsettled
<1>8. CASE End(k)
  <2>1. row'.status = outcome[k] /\ outcome[k] \in Verdicts \ {"none"}
    BY <1>1, <1>8 DEF End, Row
  <2>2. QED
    BY <2>1 DEF RestInv, Unsettled, Verdicts, Ended
<1>9. CASE Fail(k)
  <2>1. row'.status = "failed"
    BY <1>1, <1>9 DEF Fail, Row
  <2>2. QED
    BY <2>1 DEF RestInv, Unsettled
<1>10. CASE FailThrows(k) \/ StartThrows(k)
  <2>1. "unwritten" \in odd'
    BY <1>10 DEF FailThrows, StartThrows
  <2>2. QED
    BY <2>1, WakeableIsAfter DEF RestInv, Lost
<1>11. CASE Close(k)
  <2>1. phase[k] = "closing" /\ UNCHANGED <<row, calls, waiter, odd>>
    BY <1>11 DEF Close
  <2>2. Wakeable' = Wakeable
    BY <2>1, WakeableIs, WakeableIsAfter DEF Asked
  <2>3. (\A j \in Passes : ~Working(j)') => \A j \in Passes : ~Working(j)
    BY <1>2, <2>1 DEF Working, Live
  <2>4. QED
    BY <2>1, <2>2, <2>3 DEF RestInv
<1>12. QED
  BY <1>5, <1>6, <1>7, <1>8, <1>9, <1>10, <1>11 DEF EngineStep

LEMMA RequestSettles ==
    ASSUME TypeInv, RestInv, AskResume \/ Mint \/ Answer \/ Cancel \/ Stop \/ UNCHANGED vars
    PROVE  RestInv'
<1>1. UNCHANGED <<row, phase>> /\ IsABag(calls) /\ odd \subseteq odd'
  BY DEF AskResume, Mint, Answer, Cancel, Stop, vars, pass, TypeInv, RestOK
<1>2. Wakeable => Wakeable'
  <2>1. CASE AskResume \/ Answer
    <3>1. waiter' = waiter /\ odd' = odd /\ \E c : Begins(c)
      BY <2>1 DEF AskResume, Answer
    <3>2. Asked \subseteq Asked'
      BY <1>1, <3>1, CallBegins
    <3>3. QED
      BY <3>1, <3>2, WakeableIs, WakeableIsAfter
  <2>2. CASE Mint
    <3>1. Asks("woken", 0) \in Asked' /\ Asks("woken", 0).kind \in Wakes
      BY <1>1, <2>2, CallBegins DEF Mint, Asks, Wakes
    <3>2. QED
      BY <3>1, WakeableIsAfter
  <2>3. CASE Cancel
    <3>1. calls' = calls /\ odd \subseteq odd' /\ (waiter = "parked" => "unparked" \in odd')
      BY <2>3 DEF Cancel, Tagged
    <3>2. QED
      BY <3>1, WakeableIs, WakeableIsAfter DEF Asked, Lost
  <2>4. CASE Stop \/ UNCHANGED vars
    <3>1. UNCHANGED <<calls, odd, waiter>>
      BY <2>4 DEF Stop, vars
    <3>2. QED
      BY <3>1, WakeableIs, WakeableIsAfter DEF Asked
  <2>5. QED
    BY <2>1, <2>2, <2>3, <2>4
<1>3. QED
  BY <1>1, <1>2, RestKept

LEMMA CallSettles ==
    ASSUME TypeInv, RestInv, NEW c \in Asked, CallStep(c)
    PROVE  RestInv'
<1>1. IsABag(calls) /\ PassesOK /\ phase \in [Passes -> Phases] /\ Passes = 1 .. MaxPasses /\ MaxPasses \in Nat
  BY AutomationRunsAssumption DEF TypeInv, PassesOK, RestOK, Passes
<1>2. CASE Dispatch(c)
  <2>1. PICK k \in Passes : k = passes + 1
    BY <1>1, <1>2 DEF Dispatch, PassesOK
  <2>2. Working(k)'
    BY <1>1, <1>2, <2>1 DEF Dispatch, Working, Live
  <2>3. QED
    BY <2>1, <2>2 DEF RestInv
<1>3. CASE Refuse(c)
  <2>1. UNCHANGED <<row, phase, waiter>> /\ odd \subseteq odd' /\ signals # None
    BY <1>3 DEF Refuse, pass
  <2>2. ASSUME \A k \in Passes : ~Working(k), c.kind = "wake" PROVE odd' \cap Lost # {}
    <3>1. signals \in Passes /\ (Live(signals) \/ "unwritten" \in odd)
      BY <1>1, <2>1 DEF TypeInv, MemoryOK, None
    <3>2. phase[signals] = "closing" \/ "unwritten" \in odd
      BY <2>2, <3>1 DEF Working
    <3>3. "missed" \in odd' \/ "unwritten" \in odd'
      BY <1>3, <2>1, <2>2, <3>2 DEF Refuse, Tagged
    <3>4. QED
      BY <3>3 DEF Lost
  <2>3. Asked \ {c} \subseteq Asked' /\ (c.kind = "wake" \/ c.kind \notin Wakes)
    BY <1>1, <1>3, CallReturns DEF Refuse, Wakes
  <2>4. (\A k \in Passes : ~Working(k)) /\ Wakeable => Wakeable'
    BY <2>1, <2>2, <2>3, WakeableIs, WakeableIsAfter
  <2>5. QED
    BY <2>1, <2>4, RestKept
<1>4. CASE WakeReads(c)
  <2>1. UNCHANGED <<row, phase, waiter, odd>>
    BY <1>4 DEF WakeReads, pass
  <2>2. ASSUME row.status = "needs_credentials" PROVE Wakeable'
    <3>1. Becomes(c, GoesOn("wake", row)) /\ GoesOn("wake", row).kind \in Wakes
      BY <1>4, <2>2 DEF WakeReads, GoesOn, Wakes
    <3>2. GoesOn("wake", row) \in Asked'
      BY <1>1, <3>1, CallBecomes
    <3>3. QED
      BY <3>1, <3>2, WakeableIsAfter
  <2>3. QED
    BY <2>1, <2>2, RestKept
<1>5. CASE CallThrows(c)
  <2>1. /\ UNCHANGED <<row, phase, waiter>> /\ odd \subseteq odd' /\ Returns(c)
        /\ c.kind \in Wakes => "missed" \in odd'
    BY <1>5 DEF CallThrows, pass, Tagged, Wakes
  <2>2. Asked \ {c} \subseteq Asked'
    BY <1>1, <2>1, CallReturns
  <2>3. Wakeable => Wakeable'
    BY <2>1, <2>2, WakeableIs, WakeableIsAfter DEF Lost
  <2>4. QED
    BY <2>1, <2>3, RestKept
<1>6. CASE Flag(c) \/ AllowOnce(c) \/ AllowAlways(c) \/ Bank(c)
  <2>1. UNCHANGED <<row, phase, waiter, odd>> /\ c.kind \notin Wakes /\ (Returns(c) \/ \E d : Becomes(c, d))
    BY <1>6 DEF Flag, AllowOnce, AllowAlways, Bank, pass, Wakes
  <2>2. Asked \ {c} \subseteq Asked'
    BY <1>1, <2>1, CallReturns, CallBecomes
  <2>3. Wakeable => Wakeable'
    BY <2>1, <2>2, WakeableIs, WakeableIsAfter
  <2>4. QED
    BY <2>1, <2>3, RestKept
<1>7. QED
  BY <1>2, <1>3, <1>4, <1>5, <1>6 DEF CallStep

LEMMA OtherSettles ==
    ASSUME TypeInv, RestInv, Create \/ CreateThrows \/ Restart
    PROVE  RestInv'
<1>1. row \in Row /\ phase \in [Passes -> Phases] /\ 1 \in Passes
  BY AutomationRunsAssumption DEF TypeInv, Row0OK, PassesOK, Passes
<1>2. CASE Create
  <2>1. Working(1)'
    BY <1>1, <1>2 DEF Create, Working, Live
  <2>2. QED
    BY <1>1, <2>1 DEF RestInv
<1>3. CASE CreateThrows
  <2>1. "unwritten" \in odd'
    BY <1>3 DEF CreateThrows
  <2>2. QED
    BY <2>1, WakeableIsAfter DEF RestInv, Lost
<1>4. CASE Restart
  <2>1. row'.status \in Ended \cup {"absent"}
    BY <1>1, <1>4 DEF Restart, Row, Ended
  <2>2. QED
    BY <2>1 DEF RestInv, Ended, Unsettled
<1>5. QED
  BY <1>2, <1>3, <1>4

\* When no pass is under way the row says how things stand: a run that still says
\* running or waiting failed to record its end, and a parked run can be woken by the
\* next credential, unless a cancel or a refusal took its waiter (engine.ts:1092-1095).
THEOREM ParkedRunsCanBeWoken == Spec => []AtRest
<1>1. Init => RestInv
  BY DEF Init, RestInv, NoRow, Unsettled
<1>2. TypeInv /\ RestInv /\ [Next]_vars => RestInv'
  BY EngineSettles, RequestSettles, CallSettles, OtherSettles DEF Next, Asked
<1>3. RestInv => AtRest
  BY DEF RestInv, AtRest, Working, Unsettled
<1>4. QED
  BY <1>1, <1>2, <1>3, TypeInit, TypeStep, PTL DEF Spec

-----------------------------------------------------------------------------
(* Ended runs                                                              *)

Astray == {"stale", "overlap"}
Torn   == {"failing", "closing"}

\* Unless the pass in hand was dispatched on an outdated read or beside another, it
\* is the only one, and once the row has ended it has nothing to write but a failure.
EndedInv ==
    /\ \A c \in Asked : c.kind \in Resumes => c.saw = "needs_credentials"
    /\ "overlap" \notin odd => \A j, k \in Passes : Live(j) /\ Live(k) => j = k
    /\ odd \cap Astray = {} /\ row.status \in Ended => \A k \in Passes : Live(k) => phase[k] \in Torn

LEMMA EngineKeepsEnded ==
    ASSUME TypeInv, EndedInv, NEW k \in Passes,
           EngineStep(k) \/ StartThrows(k) \/ Throws(k) \/ FailThrows(k)
    PROVE  EndedInv'
<1>1. PassesOK /\ row \in Row /\ phase \in [Passes -> Phases]
  BY DEF TypeInv, Row0OK, PassesOK
<1>2. calls' = calls /\ odd \subseteq odd'
  BY DEF EngineStep, Load, Mark, StepDone, StepFails, Halt, HaltDone, AskConsent, Pause, Poll, Resume, End, Fail,
     Close, StartThrows, Throws, FailThrows
<1>3. Live(k) /\ \A j \in Passes : j # k => phase'[j] = phase[j]
  BY <1>1, EngineMoves
<1>4. \A j \in Passes : Live(j)' => Live(j)
  BY <1>3 DEF Live
<1>5. ASSUME phase[k] \in Torn PROVE Live(k)' => phase'[k] \in Torn
  BY <1>1, <1>5 DEF EngineStep, Load, Mark, StepDone, StepFails, Halt, HaltDone, AskConsent, Pause, Poll, Resume, End,
     Fail, Close, StartThrows, Throws, FailThrows, Leaves, Moves, Live, Torn
<1>6. ASSUME row.status \notin Ended, row'.status \in Ended PROVE phase'[k] \in Torn
  <2>1. CASE End(k) \/ Throws(k) \/ Fail(k)
    BY <1>1, <2>1 DEF End, Throws, Fail, Moves, Torn
  <2>2. CASE Mark(k) \/ Halt(k) \/ HaltDone(k) \/ AskConsent(k) \/ Pause(k) \/ Resume(k) \/ StartThrows(k)
    <3>1. row' = row \/ row'.status \in {"running", "needs_credentials", "awaiting_consent", "paused_for_user"}
      BY <1>1, <2>2 DEF Mark, Halt, HaltDone, AskConsent, Pause, Resume, StartThrows, Row
    <3>2. QED
      BY <1>6, <3>1 DEF Ended
  <2>3. CASE Load(k) \/ StepDone(k) \/ StepFails(k) \/ Poll(k) \/ Close(k) \/ FailThrows(k)
    BY <1>6, <2>3 DEF Load, StepDone, StepFails, Poll, Close, FailThrows
  <2>4. QED
    BY <2>1, <2>2, <2>3 DEF EngineStep
<1>7. ASSUME odd' \cap Astray = {}, row'.status \in Ended, NEW j \in Passes, Live(j)' PROVE phase'[j] \in Torn
  <2>1. odd \cap Astray = {} /\ "overlap" \notin odd
    BY <1>2, <1>7 DEF Astray
  <2>2. j = k
    BY <1>3, <1>4, <1>7, <2>1 DEF EndedInv
  <2>3. CASE row.status \in Ended
    BY <1>3, <1>5, <1>7, <2>1, <2>2, <2>3 DEF EndedInv
  <2>4. CASE row.status \notin Ended
    BY <1>6, <1>7, <2>2, <2>4
  <2>5. QED
    BY <2>3, <2>4
<1>8. QED
  BY <1>2, <1>4, <1>7 DEF EndedInv, Asked

LEMMA RequestKeepsEnded ==
    ASSUME TypeInv, EndedInv, AskResume \/ Mint \/ Answer \/ Cancel \/ Stop \/ UNCHANGED vars
    PROVE  EndedInv'
<1>1. UNCHANGED <<row, phase>> /\ IsABag(calls) /\ odd \subseteq odd'
  BY DEF AskResume, Mint, Answer, Cancel, Stop, vars, pass, TypeInv, RestOK
<1>2. calls' = calls \/ \E c : Begins(c) /\ (c.kind \in Resumes => c.saw = "needs_credentials")
  <2>1. Asks("flag", 0).kind \notin Resumes /\ Asks("woken", 0).kind \notin Resumes
    BY DEF Asks, Resumes
  <2>2. \A kind \in {"once", "always"} : Asks(kind, row.shape).kind \notin Resumes
    BY DEF Asks, Resumes
  <2>3. GoesOn("resume", row).saw = row.status
    BY DEF GoesOn
  <2>4. QED
    BY <2>1, <2>2, <2>3 DEF AskResume, Mint, Answer, Cancel, Stop, vars
<1>3. \A c \in Asked' : c.kind \in Resumes => c.saw = "needs_credentials"
  BY <1>1, <1>2, CallBegins DEF EndedInv, Asked
<1>4. QED
  BY <1>1, <1>3 DEF EndedInv, Live, Astray

LEMMA CallKeepsEnded ==
    ASSUME TypeInv, EndedInv, NEW c \in Asked, CallStep(c)
    PROVE  EndedInv'
<1>1. IsABag(calls) /\ c \in Call /\ phase \in [Passes -> Phases]
  BY DEF TypeInv, PassesOK, RestOK
<1>2. \A d \in Asked' : d.kind \in Resumes => d.saw = "needs_credentials"
  <2>1. CASE WakeReads(c)
    <3>1. Returns(c) \/ (Becomes(c, GoesOn("wake", row)) /\ GoesOn("wake", row).saw = "needs_credentials")
      BY <2>1 DEF WakeReads, GoesOn
    <3>2. QED
      BY <1>1, <3>1, CallReturns, CallBecomes DEF EndedInv
  <2>2. CASE AllowAlways(c)
    <3>1. [c EXCEPT !.kind = "bank", !.sig = signals].kind \notin Resumes
      BY <1>1 DEF Call, Resumes
    <3>2. QED
      BY <1>1, <2>2, <3>1, CallBecomes DEF EndedInv, AllowAlways
  <2>3. CASE Returns(c)
    BY <1>1, <2>3, CallReturns DEF EndedInv
  <2>4. QED
    BY <2>1, <2>2, <2>3 DEF CallStep, Dispatch, Refuse, Flag, AllowOnce, Bank, CallThrows
<1>3. CASE Dispatch(c)
  <2>1. /\ odd' = Tagged(row.status # c.saw, "stale") \cup Tagged(\E j \in Passes : Live(j), "overlap")
        /\ row' = row /\ c.saw = "needs_credentials"
        /\ \A j \in Passes : j # passes + 1 => phase'[j] = phase[j]
    BY <1>1, <1>3 DEF Dispatch, EndedInv, Resumes
  <2>2. "overlap" \notin odd' => \A j \in Passes : Live(j)' => j = passes + 1
    BY <2>1 DEF Tagged, Live
  <2>3. odd' \cap Astray = {} => row'.status \notin Ended
    BY <2>1 DEF Tagged, Astray, Ended
  <2>4. QED
    BY <1>2, <2>2, <2>3 DEF EndedInv
<1>4. CASE ~Dispatch(c)
  <2>1. row' = row /\ phase' = phase /\ odd \subseteq odd'
    BY <1>4 DEF CallStep, WakeReads, Refuse, Flag, AllowOnce, AllowAlways, Bank, CallThrows, pass
  <2>2. QED
    BY <1>2, <2>1 DEF EndedInv, Live, Astray
<1>5. QED
  BY <1>3, <1>4

LEMMA OtherKeepsEnded ==
    ASSUME TypeInv, EndedInv, Create \/ CreateThrows \/ Restart
    PROVE  EndedInv'
<1>1. PassesOK /\ phase \in [Passes -> Phases] /\ Passes = 1 .. MaxPasses /\ MaxPasses \in Nat
  BY AutomationRunsAssumption DEF TypeInv, PassesOK, Passes
<1>2. CASE Create \/ CreateThrows
  <2>1. passes = 0 /\ calls' = calls /\ odd \subseteq odd'
    BY <1>2 DEF Create, CreateThrows
  <2>2. \A j \in Passes : j # 1 => phase'[j] = "none"
    BY <1>1, <1>2, <2>1 DEF Create, CreateThrows, PassesOK
  <2>3. row'.status \notin Ended
    BY <1>2, <2>1 DEF Create, CreateThrows, NoRow, Ended, TypeInv, Row0OK
  <2>4. QED
    BY <2>1, <2>2, <2>3 DEF EndedInv, Live, Asked
<1>3. CASE Restart
  <2>1. (\A k \in Passes : ~Live(k)') /\ Asked' = {}
    BY <1>3, NoCalls DEF Restart, Live, Asked
  <2>2. QED
    BY <2>1 DEF EndedInv
<1>4. QED
  BY <1>2, <1>3

LEMMA EndedStep ==
    ASSUME TypeInv, EndedInv, [Next]_vars, row.status \in Ended, row' # row, odd \cap Astray = {}
    PROVE  \E k \in Passes : Fail(k)
<1>1. ~(Create \/ CreateThrows \/ Restart)
  BY DEF Create, CreateThrows, Restart, TypeInv, Row0OK, NoRow, Ended
<1>2. ~(AskResume \/ Mint \/ Answer \/ Cancel \/ Stop \/ UNCHANGED vars)
  BY DEF AskResume, Mint, Answer, Cancel, Stop, vars
<1>3. ASSUME NEW c PROVE ~CallStep(c)
  BY DEF CallStep, WakeReads, Dispatch, Refuse, Flag, AllowOnce, AllowAlways, Bank, CallThrows
<1>4. PICK k \in Passes : EngineStep(k) \/ StartThrows(k) \/ Throws(k) \/ FailThrows(k)
  BY <1>1, <1>2, <1>3 DEF Next
<1>5. phase[k] \in Torn
  BY <1>4, EngineMoves DEF EndedInv, TypeInv
<1>6. Fail(k)
  BY <1>4, <1>5 DEF EngineStep, Load, Mark, StepDone, StepFails, Halt, HaltDone, AskConsent, Pause, Poll, Resume, End,
     Close, StartThrows, Throws, FailThrows, Torn
<1>7. QED
  BY <1>6

\* A run that has ended stays as it ended, whatever wakes, resumes, answers and
\* restarts come late (service.ts:939-941), but for a pass that was dispatched on an
\* outdated read or beside another, and for the failure of recording the end itself.
THEOREM EndsAreFinal == Spec => EndedStays
<1>1. Init => EndedInv
  BY NoCalls DEF Init, EndedInv, Asked, Live
<1>2. TypeInv /\ EndedInv /\ [Next]_vars => EndedInv'
  BY EngineKeepsEnded, RequestKeepsEnded, CallKeepsEnded, OtherKeepsEnded DEF Next, Asked
<1>3. TypeInv /\ EndedInv /\ [Next]_vars
        => [row.status \in Ended /\ row' # row
              => odd \cap {"stale", "overlap"} # {} \/ \E k \in Passes : Fail(k)]_vars
  BY EndedStep DEF Astray
<1>4. QED
  BY <1>1, <1>2, <1>3, TypeInit, TypeStep, PTL DEF Spec, EndedStays
=============================================================================
