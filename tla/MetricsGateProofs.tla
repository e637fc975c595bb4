-------------------------- MODULE MetricsGateProofs --------------------------
(***************************************************************************)
(* MetricsGate, for any set of collectors: nothing but an explicit "off"   *)
(* puts the collectors to sleep, inference is probed only once confirmed,  *)
(* and the three variables an answer is applied to agree between syncs;    *)
(* once metrics are off and what was under way is over, all stays silent.  *)
(***************************************************************************)
EXTENDS MetricsGate, FiniteSetTheorems, TLAPS

\* How far the answer has been applied at each point of the sync.
Applied ==
    /\ sync \in {"gauge", "gate", "waiting", "asking", "exited"}
           => disabled = ~Enabled(answer)
    /\ sync \in {"gate", "waiting", "asking", "exited"} => (disabled <=> gauge = 0)
    /\ sync \in {"waiting", "asking", "exited"} => gate = answer.inference

\* What the gates say was told, and so was the answer once its first part has
\* been applied.
GatesTold ==
    /\ disabled => "off" \in told
    /\ gate => "inference" \in told
    /\ sync \in {"gauge", "gate"} => Says(answer) \subseteq told

Inv == TypeOK /\ Applied /\ GatesTold /\ InferenceOnlyWhenConfirmed

\* There is a collector to count.
LEMMA SomeCollector == Cardinality(Collectors) \in Nat \ {0}
  <1>1. IsFiniteSet(Collectors) /\ Collectors # {}
    BY MetricsGateAssumption
  <1> QED
    BY <1>1, FS_CardinalityType, FS_EmptySet

\* The invariant holds initially.
LEMMA InitInv == Init => Inv
  <1> SUFFICES ASSUME Init PROVE Inv
    OBVIOUS
  <1>1. TypeOK
    <2>1. answer \in Answers
      BY DEF Init, Answers
    <2>2. pending \in 0 .. MaxPending
      BY MetricsGateAssumption DEF Init
    <2>3. gauge \in {0, Cardinality(Collectors)} /\ told \subseteq Facts
      BY DEF Init
    <2>4. pc \in [Collectors -> {"waiting", "ticked", "run", "scraping", "exited"}]
      BY DEF Init
    <2> QED
      BY <2>1, <2>2, <2>3, <2>4 DEF Init, TypeOK
  <1>2. Applied
    BY SomeCollector DEF Init, Applied, Enabled
  <1>3. GatesTold /\ InferenceOnlyWhenConfirmed
    BY MetricsGateAssumption DEF Init, GatesTold, InferenceOnlyWhenConfirmed
  <1> QED
    BY <1>1, <1>2, <1>3 DEF Inv

\* A step of the sync keeps it.
LEMMA SyncKeepsInv ==
    ASSUME Inv, SyncStep
    PROVE  Inv'
  <1> USE DEF Inv, gates
  <1>1. CASE SyncTick
    <2>1. TypeOK'
      BY <1>1 DEF SyncTick, SyncGoto, TypeOK
    <2>2. Applied'
      BY <1>1 DEF SyncTick, SyncGoto, TypeOK, Applied
    <2>3. GatesTold' /\ InferenceOnlyWhenConfirmed'
      BY <1>1 DEF SyncTick, SyncGoto, TypeOK, Applied, GatesTold,
         InferenceOnlyWhenConfirmed
    <2> QED
      BY <2>1, <2>2, <2>3
  <1>2. CASE SyncAnswered
    <2>1. TypeOK'
      BY <1>2 DEF SyncAnswered, SyncGoto, TypeOK
    <2>2. Applied'
      BY <1>2 DEF SyncAnswered, SyncGoto, TypeOK, Applied
    <2>3. GatesTold' /\ InferenceOnlyWhenConfirmed'
      BY <1>2 DEF SyncAnswered, SyncGoto, TypeOK, Applied, GatesTold,
         InferenceOnlyWhenConfirmed
    <2> QED
      BY <2>1, <2>2, <2>3
  <1>3. CASE SyncFailed
    <2>1. TypeOK'
      BY <1>3 DEF SyncFailed, SyncGoto, TypeOK
    <2>2. Applied'
      BY <1>3 DEF SyncFailed, SyncGoto, TypeOK, Applied
    <2>3. GatesTold' /\ InferenceOnlyWhenConfirmed'
      BY <1>3 DEF SyncFailed, SyncGoto, TypeOK, Applied, GatesTold,
         InferenceOnlyWhenConfirmed
    <2> QED
      BY <2>1, <2>2, <2>3
  <1>4. CASE SetManager
    <2>1. TypeOK'
      BY <1>4 DEF SetManager, SyncGoto, TypeOK, Facts, Says, Answers
    <2>2. Applied'
      BY <1>4 DEF SetManager, SyncGoto, TypeOK, Applied, Enabled, Says, Facts
    <2>3. GatesTold' /\ InferenceOnlyWhenConfirmed'
      BY <1>4 DEF SetManager, SyncGoto, TypeOK, Applied, GatesTold,
         InferenceOnlyWhenConfirmed, Enabled, Says, Facts
    <2> QED
      BY <2>1, <2>2, <2>3
  <1>5. CASE SetGauge
    <2>1. TypeOK'
      BY <1>5 DEF SetGauge, SyncGoto, TypeOK
    <2>2. Applied'
      BY <1>5, SomeCollector DEF SetGauge, SyncGoto, TypeOK, Applied, Enabled, Says
    <2>3. GatesTold' /\ InferenceOnlyWhenConfirmed'
      BY <1>5 DEF SetGauge, SyncGoto, TypeOK, Applied, GatesTold,
         InferenceOnlyWhenConfirmed, Enabled, Says
    <2> QED
      BY <2>1, <2>2, <2>3
  <1>6. CASE SetGate
    <2>1. TypeOK'
      BY <1>6 DEF SetGate, SyncGoto, TypeOK, Facts, Says, Answers
    <2>2. Applied'
      BY <1>6 DEF SetGate, SyncGoto, TypeOK, Applied, Enabled, Says, Facts, Answers
    <2>3. GatesTold' /\ InferenceOnlyWhenConfirmed'
      BY <1>6 DEF SetGate, SyncGoto, TypeOK, Applied, GatesTold,
         InferenceOnlyWhenConfirmed, Enabled, Says, Facts, Answers
    <2> QED
      BY <2>1, <2>2, <2>3
  <1>7. CASE SyncExit
    <2>1. TypeOK'
      BY <1>7 DEF SyncExit, SyncGoto, TypeOK
    <2>2. Applied'
      BY <1>7 DEF SyncExit, SyncGoto, TypeOK, Applied
    <2>3. GatesTold' /\ InferenceOnlyWhenConfirmed'
      BY <1>7 DEF SyncExit, SyncGoto, TypeOK, Applied, GatesTold,
         InferenceOnlyWhenConfirmed
    <2> QED
      BY <2>1, <2>2, <2>3
  <1> QED
    BY <1>1, <1>2, <1>3, <1>4, <1>5, <1>6, <1>7 DEF SyncStep

\* A step of a collector keeps it.
LEMMA CollectorKeepsInv ==
    ASSUME Inv, NEW c \in Collectors, CollectorStep(c)
    PROVE  Inv'
  <1> USE DEF Inv, gates
  <1>1. UNCHANGED <<gateway, sync, answer, gates, told>>
    BY DEF CollectorStep, Tick, AskManager, StartScrape, ScrapeDone,
       ScrapeFailed, CollectorExit
  <1>2. Applied' /\ GatesTold'
    BY <1>1 DEF Applied, GatesTold, Says, Enabled
  <1>3. TypeOK'
    <2>1. pc' \in [Collectors -> {"waiting", "ticked", "run", "scraping", "exited"}]
      BY DEF TypeOK, CollectorStep, CollectorGoto, Tick, AskManager, StartScrape,
         ScrapeDone, ScrapeFailed, CollectorExit
    <2>2. pending' \in 0 .. MaxPending /\ cancelled' = cancelled
      BY MetricsGateAssumption DEF TypeOK, CollectorStep, Tick, AskManager,
         StartScrape, ScrapeDone, ScrapeFailed, CollectorExit
    <2> QED
      BY <1>1, <2>1, <2>2 DEF TypeOK
  <1>4. InferenceOnlyWhenConfirmed'
    <2>1. pc'[Inference] = "scraping" => pc[Inference] = "scraping" \/ gate
      <3>1. CASE StartScrape(c)
        BY <3>1, MetricsGateAssumption DEF TypeOK, StartScrape, CollectorGoto
      <3>2. CASE ~StartScrape(c)
        <4>1. PICK at \in {"waiting", "ticked", "run",
        "exited"} : pc' = [pc EXCEPT ![c] = at]
          BY <3>2 DEF CollectorStep, CollectorGoto, Tick, AskManager, ScrapeDone,
             ScrapeFailed, CollectorExit
        <4> QED
          BY <4>1, MetricsGateAssumption DEF TypeOK
      <3> QED
        BY <3>1, <3>2
    <2> QED
      BY <1>1, <2>1 DEF GatesTold, InferenceOnlyWhenConfirmed
  <1> QED
    BY <1>2, <1>3, <1>4

\* The invariant is inductive.
LEMMA StepInv == Inv /\ [Next]_vars => Inv'
  <1> SUFFICES ASSUME Inv, [Next]_vars PROVE Inv'
    OBVIOUS
  <1>1. CASE SyncStep
    BY <1>1, SyncKeepsInv
  <1>2. ASSUME NEW c \in Collectors, CollectorStep(c) PROVE Inv'
    BY <1>2, CollectorKeepsInv
  <1>3. CASE SubmitDisabled \/ Submitted \/ Reconfigure \/ Cancel
    <2>1. UNCHANGED <<sync, answer, disabled, gauge, gate, told, pc>>
      BY <1>3 DEF SubmitDisabled, Submitted, Reconfigure, Cancel, gates
    <2>2. TypeOK'
      <3>1. gateway' \in Answers /\ cancelled' \in BOOLEAN
        BY <1>3 DEF Inv, TypeOK, SubmitDisabled, Submitted, Reconfigure, Cancel
      <3>2. pending' \in 0 .. MaxPending
        BY <1>3, MetricsGateAssumption
        DEF Inv, TypeOK, SubmitDisabled, Submitted, Reconfigure, Cancel
      <3> QED
        BY <2>1, <3>1, <3>2 DEF Inv, TypeOK
    <2> QED
      BY <2>1, <2>2 DEF Inv, Applied, GatesTold, InferenceOnlyWhenConfirmed,
         Says, Enabled
  <1>4. CASE UNCHANGED vars
    BY <1>4 DEF vars, gates, Inv, TypeOK, Applied, GatesTold,
       InferenceOnlyWhenConfirmed,
       Says, Enabled
  <1> QED
    BY <1>1, <1>2, <1>3, <1>4 DEF Next, Terminated

\* Inv is an invariant of the specification.
LEMMA Invariance == Spec => []Inv
  BY InitInv, StepInv, PTL DEF Spec

-----------------------------------------------------------------------------
(* Theorems                                                                 *)

\* Every variable has its type; the gauge counts all collectors or none
\* (main.go:329-333).
THEOREM TypeCorrect == Spec => []TypeOK
  BY Invariance, PTL DEF Inv

\* A missing field or a failed sync never turns the collectors off
\* (main.go:207-211, 312-328).
THEOREM SleepIsOrdered == Spec => []OffOnlyWhenTold
  <1>1. Inv => OffOnlyWhenTold
    BY DEF Inv, GatesTold, OffOnlyWhenTold
  <1> QED
    BY <1>1, Invariance, PTL

\* Inference is probed only after the gateway has confirmed the VM for it
\* (vllm.go:16-20, main.go:345-351).
THEOREM InferenceIsConfirmed == Spec => []InferenceOnlyWhenConfirmed
  BY Invariance, PTL DEF Inv

\* Between two syncs gauge and gates tell what the last answer says
\* (main.go:327-351).
THEOREM OneStory == Spec => []GatesAgree
  <1>1. Inv => GatesAgree
    BY DEF Inv, Applied, GatesAgree
  <1> QED
    BY <1>1, Invariance, PTL

\* Metrics are off, the agent has applied that, the queue has been dropped and
\* no collector is past the manager's gate; no other answer is on its way.
Silent ==
    /\ gateway.metrics = "off"
    /\ sync \in {"manager", "gauge", "gate"} => answer.metrics = "off"
    /\ disabled
    /\ pending = 0
    /\ \A c \in Collectors : pc[c] \in {"waiting", "ticked", "exited"}

\* Once metrics have been switched off and what was under way is over, nothing
\* is scraped or queued until the gateway changes its answer, however many ticks
\* and syncs, failed ones among them, come and go (main.go:312-333,
\* manager.go:60-64).
SilenceLasts == [][Silent /\ UNCHANGED gateway => Silent']_vars

THEOREM SilenceHolds == Spec => SilenceLasts
  <1>1. Inv /\ [Next]_vars => [Silent /\ UNCHANGED gateway => Silent']_vars
    <2> SUFFICES ASSUME Inv, [Next]_vars, Silent, UNCHANGED gateway
                 PROVE  Silent'
      OBVIOUS
    <2>1. CASE SyncStep
      <3>1. UNCHANGED <<pc, pending>>
        BY <2>1 DEF SyncStep, SyncTick, SyncAnswered, SyncFailed, SetManager,
           SetGauge, SetGate, SyncExit
      <3>2. disabled'
        BY <2>1 DEF Silent, Enabled, SyncStep, SyncGoto, SyncTick, SyncAnswered,
           SyncFailed, SetManager, SetGauge, SetGate, SyncExit, gates
      <3>3. sync' \in {"manager", "gauge", "gate"} => answer'.metrics = "off"
        BY <2>1 DEF Silent, SyncStep, SyncGoto, SyncTick, SyncAnswered,
           SyncFailed, SetManager, SetGauge, SetGate, SyncExit, gates
      <3> QED
        BY <3>1, <3>2, <3>3 DEF Silent
    <2>2. ASSUME NEW c \in Collectors, CollectorStep(c) PROVE Silent'
      <3>1. UNCHANGED <<gateway, sync, answer, gates>>
        BY <2>2 DEF CollectorStep, Tick, AskManager, StartScrape, ScrapeDone,
           ScrapeFailed, CollectorExit
      <3>2. Tick(c) \/ AskManager(c) \/ CollectorExit(c)
        BY <2>2 DEF Silent, CollectorStep, CollectorGoto, StartScrape, ScrapeDone,
           ScrapeFailed
      <3>3. pending' = pending
        BY <3>2 DEF Tick, AskManager, CollectorExit
      <3>4. \A d \in Collectors : pc'[d] \in {"waiting", "ticked", "exited"}
        BY <3>2 DEF Silent, Inv, TypeOK, CollectorGoto, Tick, AskManager, CollectorExit
      <3> QED
        BY <3>1, <3>3, <3>4 DEF Silent, gates
    <2>3. CASE SubmitDisabled \/ Submitted \/ Reconfigure
      BY <2>3 DEF Silent, SubmitDisabled, Submitted, Reconfigure
    <2>4. CASE Cancel \/ UNCHANGED vars
      BY <2>4 DEF Silent, Cancel, vars, gates
    <2> QED
      BY <2>1, <2>2, <2>3, <2>4 DEF Next, Terminated
  <1> QED
    BY <1>1, Invariance, PTL DEF Spec, SilenceLasts
=============================================================================
