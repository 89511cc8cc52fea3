--------------------------- MODULE PipelineProofs ---------------------------
(* Proofs about Pipeline, for every value of the two limits.                 *)
EXTENDS Pipeline, TLAPS

(* The next phase is a phase, one position further. *)
LEMMA NextPhaseStep ==
    ASSUME NEW p \in Phases, p # LastPhase
    PROVE  NextPhase(p) \in Phases /\ Position(NextPhase(p)) = Position(p) + 1
BY DEF Phases, LastPhase, NextPhase, Position

LEMMA PositionType == \A p \in Phases : Position(p) \in 1..5
BY DEF Phases, Position

(* The variables keep their types: no retry or hop counter passes its limit. *)
THEOREM PipelineTypeOK == Spec => []TypeOK
<1>1. Init => TypeOK
  BY LimitsAssumption DEF Init, TypeOK, Phases, FirstPhase, Outcomes
<1>2. TypeOK /\ [Next]_vars => TypeOK'
  <2> SUFFICES ASSUME TypeOK, [Next]_vars PROVE TypeOK'
    OBVIOUS
  <2> USE LimitsAssumption DEF TypeOK, Outcomes
  <2>1. CASE Advance
    BY <2>1, NextPhaseStep DEF Advance
  <2>2. CASE Finish
    BY <2>2 DEF Finish
  <2>3. CASE Retry
    BY <2>3 DEF Retry
  <2>4. CASE Hop
    BY <2>4 DEF Hop, TriageTargets, Phases
  <2>5. CASE Stop
    BY <2>5 DEF Stop
  <2>6. CASE UNCHANGED vars
    BY <2>6 DEF vars
  <2> QED
    BY <2>1, <2>2, <2>3, <2>4, <2>5, <2>6 DEF Next
<1> QED
  BY <1>1, <1>2, PTL DEF Spec

(* The measure is a natural number as long as the counters keep to their     *)
(* limits.                                                                   *)
LEMMA MeasureType == TypeOK => Measure \in Nat
<1> SUFFICES ASSUME TypeOK PROVE Measure \in Nat
  OBVIOUS
<1>1. \A p \in Phases : MaxRetries - retries[p] \in Nat
  BY LimitsAssumption DEF TypeOK
<1>2. MaxHops - hops \in Nat
  BY LimitsAssumption DEF TypeOK
<1>3. 5 - Position(phase) \in Nat
  BY PositionType DEF TypeOK
<1> QED
  BY <1>1, <1>2, <1>3 DEF Measure, Phases

(* Every step of routing uses up some of the limits. *)
LEMMA StepDecreases ==
    ASSUME TypeOK, TypeOK', Next
    PROVE  Measure' < Measure
<1> USE LimitsAssumption DEF TypeOK
<1>1. Position(phase) \in 1..5 /\ Position(phase)' \in 1..5
  BY PositionType DEF TypeOK
<1>2. \A p \in Phases : retries[p] \in 0..MaxRetries /\ retries'[p] \in 0..MaxRetries
  OBVIOUS
<1>3. CASE Advance
  BY <1>1, <1>2, <1>3, NextPhaseStep DEF Advance, Measure, Phases
<1>4. CASE Finish
  BY <1>1, <1>2, <1>4 DEF Finish, Measure, Phases
<1>5. CASE Retry
  <2>1. /\ retries'[phase] = retries[phase] + 1
        /\ \A p \in Phases : p # phase => retries'[p] = retries[p]
    BY <1>5 DEF Retry
  <2>2. UNCHANGED <<phase, hops, outcome>>
    BY <1>5 DEF Retry
  <2> QED
    BY <1>1, <1>2, <2>1, <2>2 DEF Measure, Phases
<1>6. CASE Hop
  <2>1. Position(phase) = 4 /\ Position(phase)' >= 2
    BY <1>6 DEF Hop, TriageTargets, Position
  <2>2. hops' = hops + 1 /\ retries' = retries /\ outcome' = outcome
    BY <1>6 DEF Hop
  <2> QED
    BY <1>1, <1>2, <2>1, <2>2 DEF Measure, Phases
<1>7. CASE Stop
  BY <1>1, <1>2, <1>7 DEF Stop, Measure, Phases
<1> QED
  BY <1>3, <1>4, <1>5, <1>6, <1>7 DEF Next

(* Routing cannot go on forever: a natural number decreases with every step. *)
THEOREM PipelineDecreases == Spec => Decreases
<1>1. TypeOK' => (Measure \in Nat)'
  BY MeasureType, PTL
<1>2. TypeOK /\ TypeOK' /\ [Next]_vars => [Measure' < Measure /\ Measure' >= 0]_vars
  <2> SUFFICES ASSUME TypeOK, TypeOK', Next
               PROVE  Measure' < Measure /\ Measure' >= 0
    OBVIOUS
  <2> QED
    BY <1>1, StepDecreases
<1> QED
  BY <1>2, PipelineTypeOK, PTL DEF Spec, Decreases
=============================================================================
