---------------------------- MODULE MetricsGate ----------------------------
(***************************************************************************)
(* Which collectors scrape: the gateway decides, once a minute the sync    *)
(* (runMetricsEnabledSyncLoop, cmd/agent/main.go) asks it, and the         *)
(* collector goroutines read the two gates it sets when they get a tick    *)
(* (internal/collectors). The queue is a count here: HubQueue models it.   *)
(*                                                                         *)
(* The gateway's answer has two fields: whether metrics are enabled (on,   *)
(* off, or absent), and whether the VM is provisioned for dedicated        *)
(* inference (TRUE, or FALSE when it is not or the field is absent).       *)
(***************************************************************************)
EXTENDS Naturals, FiniteSets

CONSTANTS
    Collectors,    \* the scheduled collectors
    Inference,     \* the dedicated-inference (vLLM) collector among them
    MaxPending     \* bound: scrapes in the queue

ASSUME MetricsGateAssumption ==
    /\ Inference \in Collectors
    /\ IsFiniteSet(Collectors)
    /\ MaxPending \in Nat

Answers == [metrics : {"on", "off", "absent"}, inference : BOOLEAN]
Facts == {"off", "inference"}

VARIABLES
    gateway,    \* what the gateway answers for this VM
    sync,       \* where the sync goroutine is
    answer,     \* the answer it is applying
    disabled,   \* Manager.disabled
    gauge,      \* hub.collectorsRunning
    gate,       \* VLLMCollector.gate
    pc,         \* where each collector goroutine is
    pending,    \* scrapes in the hub client's queue
    cancelled,  \* the agent's context is done
    told        \* what the answers applied so far were plain about; no step reads it

gates == <<disabled, gauge, gate, told>>
vars == <<gateway, sync, answer, disabled, gauge, gate, pc, pending, cancelled,
          told>>

\* Collectors start enabled, the inference collector does not, as if an answer
\* without any field had been applied.
Init ==
    /\ gateway \in Answers
    /\ sync = "asking"
    /\ answer = [metrics |-> "absent", inference |-> FALSE]
    /\ disabled = FALSE
    /\ gauge = Cardinality(Collectors)
    /\ gate = FALSE
    /\ pc = [c \in Collectors |-> "waiting"]
    /\ pending = 0
    /\ cancelled = FALSE
    /\ told = {}

-----------------------------------------------------------------------------
(* The sync                                                                 *)

SyncGoto(from, to) ==
    /\ sync = from
    /\ sync' = to

\* The ticker; the first sync does not wait for it.
SyncTick ==
    /\ SyncGoto("waiting", "asking")
    /\ UNCHANGED <<gateway, answer, gates, pc, pending, cancelled>>

SyncAnswered ==
    /\ SyncGoto("asking", "manager")
    /\ answer' = gateway
    /\ UNCHANGED <<gateway, gates, pc, pending, cancelled>>

\* Slip: collectors sleep as long as the gateway cannot be asked.
SyncFailedClosed ==
    /\ SyncGoto("asking", "waiting")
    /\ disabled' = TRUE
    /\ UNCHANGED <<gateway, answer, gauge, gate, pc, pending, cancelled, told>>

\* The request fails, times out after ten seconds, or the context is done.
SyncFailed ==
    /\ SyncGoto("asking", "waiting")
    /\ UNCHANGED <<gateway, answer, gates, pc, pending, cancelled>>

\* What an answer is plain about.
Says(a) == {f \in Facts : IF f = "off" THEN a.metrics = "off" ELSE a.inference}

\* Slip: an absent field counts as off.
EnabledIfSaid(a) == a.metrics = "on"
\* An absent field counts as on.
Enabled(a) == a.metrics # "off"

SetManager ==
    /\ SyncGoto("manager", "gauge")
    /\ disabled' = ~Enabled(answer)
    /\ told' = told \cup Says(answer)
    /\ UNCHANGED <<gateway, answer, gauge, gate, pc, pending, cancelled>>

\* Slip: only a pause is reported.
SetGaugeOff ==
    /\ SyncGoto("gauge", "gate")
    /\ gauge' = IF Enabled(answer) THEN gauge ELSE 0
    /\ UNCHANGED <<gateway, answer, disabled, gate, told, pc, pending, cancelled>>

SetGauge ==
    /\ SyncGoto("gauge", "gate")
    /\ gauge' = IF Enabled(answer) THEN Cardinality(Collectors) ELSE 0
    /\ UNCHANGED <<gateway, answer, disabled, gate, told, pc, pending, cancelled>>

SetGate ==
    /\ SyncGoto("gate", "waiting")
    /\ gate' = answer.inference
    /\ UNCHANGED <<gateway, answer, disabled, gauge, told, pc, pending, cancelled>>

SyncExit ==
    /\ cancelled
    /\ SyncGoto("waiting", "exited")
    /\ UNCHANGED <<gateway, answer, gates, pc, pending, cancelled>>

SyncStep ==
    \/ SyncTick \/ SyncAnswered \/ SyncFailed
    \/ SetManager \/ SetGauge \/ SetGate
    \/ SyncExit

-----------------------------------------------------------------------------
(* Collectors                                                               *)

CollectorGoto(c, from, to) ==
    /\ pc[c] = from
    /\ pc' = [pc EXCEPT ![c] = to]

\* A tick and its jitter are over.
Tick(c) ==
    /\ CollectorGoto(c, "waiting", "ticked")
    /\ UNCHANGED <<gateway, sync, answer, gates, pending, cancelled>>

\* Slip: the manager's gate is not asked.
AskManagerIgnored(c) ==
    /\ CollectorGoto(c, "ticked", "run")
    /\ UNCHANGED <<gateway, sync, answer, gates, pending, cancelled>>

\* Manager.Run asks its gate.
AskManager(c) ==
    /\ CollectorGoto(c, "ticked", IF disabled THEN "waiting" ELSE "run")
    /\ UNCHANGED <<gateway, sync, answer, gates, pending, cancelled>>

\* Slip: the inference collector's own gate is not asked.
StartScrapeUngated(c) ==
    /\ CollectorGoto(c, "run", "scraping")
    /\ UNCHANGED <<gateway, sync, answer, gates, pending, cancelled>>

\* The inference collector asks its own gate; the others begin to probe.
StartScrape(c) ==
    /\ CollectorGoto(c, "run", IF c = Inference /\ ~gate THEN "waiting" ELSE "scraping")
    /\ UNCHANGED <<gateway, sync, answer, gates, pending, cancelled>>

\* EnqueueMetrics; a queue that is full loses its oldest.
ScrapeDone(c) ==
    /\ CollectorGoto(c, "scraping", "waiting")
    /\ pending' = IF pending < MaxPending THEN pending + 1 ELSE pending
    /\ UNCHANGED <<gateway, sync, answer, gates, cancelled>>

\* The probe fails or finds nothing.
ScrapeFailed(c) ==
    /\ CollectorGoto(c, "scraping", "waiting")
    /\ UNCHANGED <<gateway, sync, answer, gates, pending, cancelled>>

CollectorExit(c) ==
    /\ cancelled
    /\ CollectorGoto(c, "waiting", "exited")
    /\ UNCHANGED <<gateway, sync, answer, gates, pending, cancelled>>

CollectorStep(c) ==
    \/ Tick(c) \/ AskManager(c) \/ StartScrape(c)
    \/ ScrapeDone(c) \/ ScrapeFailed(c)
    \/ CollectorExit(c)

-----------------------------------------------------------------------------
(* The submit loop, the gateway, and the shutdown                           *)

\* The gateway answers 412 for a VM whose metrics are off: drop the batch.
SubmitDisabled ==
    /\ pending > 0
    /\ gateway.metrics = "off"
    /\ pending' = pending - 1
    /\ UNCHANGED <<gateway, sync, answer, gates, pc, cancelled>>

\* The gateway stores a batch; an attempt that fails changes nothing here.
Submitted ==
    /\ pending > 0
    /\ gateway.metrics # "off"
    /\ pending' = pending - 1
    /\ UNCHANGED <<gateway, sync, answer, gates, pc, cancelled>>

Reconfigure ==
    /\ gateway' \in Answers \ {gateway}
    /\ UNCHANGED <<sync, answer, gates, pc, pending, cancelled>>

Cancel ==
    /\ ~cancelled
    /\ cancelled' = TRUE
    /\ UNCHANGED <<gateway, sync, answer, gates, pc, pending>>

Terminated ==
    /\ sync = "exited"
    /\ \A c \in Collectors : pc[c] = "exited"
    /\ UNCHANGED vars

Next ==
    \/ SyncStep
    \/ \E c \in Collectors : CollectorStep(c)
    \/ SubmitDisabled
    \/ Submitted
    \/ Reconfigure
    \/ Cancel
    \/ Terminated

Spec == Init /\ [][Next]_vars

\* Tickers fire, goroutines are scheduled, and scrapes return (one that hangs adds
\* nothing to the queue); a gateway that is asked again and again answers in the
\* end, a sync as well as a batch.
Fairness ==
    /\ WF_vars(SyncStep)
    /\ SF_vars(SyncAnswered)
    /\ \A c \in Collectors : WF_vars(CollectorStep(c))
    /\ WF_vars(SubmitDisabled)

FairSpec == Spec /\ Fairness

-----------------------------------------------------------------------------
(* Properties                                                               *)

\* Every variable has its type, the gauge counts all collectors or none.
TypeOK ==
    /\ gateway \in Answers
    /\ sync \in {"waiting", "asking", "manager", "gauge", "gate", "exited"}
    /\ answer \in Answers
    /\ disabled \in BOOLEAN
    /\ gauge \in {0, Cardinality(Collectors)}
    /\ gate \in BOOLEAN
    /\ pc \in [Collectors -> {"waiting", "ticked", "run", "scraping", "exited"}]
    /\ pending \in 0 .. MaxPending
    /\ cancelled \in BOOLEAN
    /\ told \subseteq Facts

\* "A missing field never silently turns off all collectors", and neither does a
\* sync that fails: collectors sleep only after an explicit "off"
\* (main.go:207-211, 324-328).
OffOnlyWhenTold == disabled => "off" \in told

\* The inference collector probes only after the gateway has confirmed the VM
\* for it, whatever ticks and syncs interleave (vllm.go:16-20, main.go:345-351).
InferenceOnlyWhenConfirmed ==
    pc[Inference] = "scraping" => "inference" \in told

\* Between two syncs the gauge that the agent reports, the gate of the manager
\* and the gate of the inference collector tell the same story (main.go:327-351).
GatesAgree ==
    sync \in {"waiting", "asking", "exited"}
        => /\ disabled <=> gauge = 0
           /\ disabled = ~Enabled(answer)
           /\ gate = answer.inference

\* Metrics that are switched off stay off the wire: the collectors go to sleep
\* and the queue is dropped, unless the gateway changes its mind
\* (main.go:328-333, hub.go:405-413).
OffIsEffective ==
    (gateway.metrics = "off")
        ~> \/ gateway.metrics # "off"
           \/ cancelled
           \/ pending = 0 /\ \A c \in Collectors : pc[c] \in {"waiting", "ticked"}

\* Collectors that sleep are woken once the gateway says so, or no longer says
\* "off" (main.go:327-330).
OnIsEffective ==
    (gateway.metrics # "off") ~> (gateway.metrics = "off" \/ cancelled \/ ~disabled)
=============================================================================
