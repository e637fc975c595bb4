---------------------------- MODULE ProbeHealth ----------------------------
(***************************************************************************)
(* What a scrape leaves behind besides its samples, and what the health    *)
(* server reports of it. Each collector goroutine (internal/collectors)    *)
(* runs its probe, filters the samples, records success or failure         *)
(* (internal/system/health.go), and hands measures to the queue. The       *)
(* handlers of /metrics run next to them and read the records under two    *)
(* locks, one after the other.                                             *)
(*                                                                         *)
(* Time is counted in seconds, which is what the report shows. A report is *)
(* followed for one probe: the others' lines do not touch it.              *)
(***************************************************************************)
EXTENDS SeriesId

CONSTANTS
    Probes,        \* the probes that run
    Series,        \* the series they measure
    Handlers,      \* requests to /metrics that may be under way together
    MaxTime        \* bound: seconds the clock runs

ASSUME ProbeHealthAssumption == MaxTime \in Nat \ {0}

\* A series has finitely many labels, and is told from all others by the texts of
\* its name and of its labels: token and size follow from the text.
SameTexts(s, t) ==
    /\ s.name.raw = t.name.raw
    /\ DOMAIN s.labels = DOMAIN t.labels
    /\ \A k \in DOMAIN s.labels : s.labels[k].raw = t.labels[k].raw

ASSUME SeriesAssumption ==
    /\ \A s \in Series : DOMAIN s.labels \subseteq Int /\ IsFiniteSet(DOMAIN s.labels)
    /\ \A s, t \in Series : SameTexts(s, t) => s = t

\* What a probe may return: an error, samples none of which is important, or
\* important samples, whose values may all be unreadable, NaN or infinite.
Results == {"error", "unimportant", "unreadable", "numbers"}

\* NodeCollector takes a run without important samples for a success,
\* GPUCollector and VLLMCollector take it for a failure.
Collectors == {"node", "gpu"}

VARIABLES
    collector,    \* which collector runs each probe, never changed
    now,          \* the clock; the process starts at 1
    pc,           \* where the goroutine of each probe is
    result,       \* what the probe returned, "none" between its runs
    up,           \* exporterStats: no entry yet, 1 or 0
    lastSuccess,  \* probeLastSuccess, 0 for no entry
    lastFailure,  \* probeLastFailure, 0 for no entry
    lastError,    \* whether probeLastError has an entry
    measures,     \* the measures a goroutine is about to enqueue
    startTime,    \* startTimeUnix
    hpc,          \* where each request is
    report        \* what each request has put into its report so far

records == <<up, lastSuccess, lastFailure, lastError>>
vars == <<collector, now, pc, result, up, lastSuccess, lastFailure, lastError, measures,
          startTime, hpc, report>>

\* torn: a recording of the probe overlapped the reads.
Report == [probe : Probes \cup {"none"}, clock : 0 .. MaxTime, uptime : Int,
           up : {"none", "0", "1"}, success : Nat, failure : Nat, torn : BOOLEAN]
NoReport == [probe |-> "none", clock |-> 0, uptime |-> 0, up |-> "none",
             success |-> 0, failure |-> 0, torn |-> FALSE]

Init ==
    /\ collector \in [Probes -> Collectors]
    /\ now = 1
    /\ pc = [p \in Probes |-> "idle"]
    /\ result = [p \in Probes |-> "none"]
    /\ up = [p \in Probes |-> "none"]
    /\ lastSuccess = [p \in Probes |-> 0]
    /\ lastFailure = [p \in Probes |-> 0]
    /\ lastError = [p \in Probes |-> FALSE]
    /\ measures = [p \in Probes |-> {}]
    /\ startTime = 0
    /\ hpc = [h \in Handlers |-> "idle"]
    /\ report = [h \in Handlers |-> NoReport]

-----------------------------------------------------------------------------
(* The collector goroutines                                                 *)

Goto(p, from, to) ==
    /\ pc[p] = from
    /\ pc' = [pc EXCEPT ![p] = to]

\* Between its first and its last step a recording of p is half done.
Recording(p) == pc[p] \in {"store", "stamp"}

Disturb(p) ==
    report' = [h \in Handlers |->
                  IF hpc[h] = "probes" /\ report[h].probe = p
                  THEN [report[h] EXCEPT !.torn = TRUE] ELSE report[h]]

\* Slip: a run without important samples is a success for every probe.
SucceedsUnlessError(p) == result[p] # "error"

Succeeds(p) ==
    result[p] \in {"unreadable", "numbers"}
        \cup (IF collector[p] = "node" THEN {"unimportant"} ELSE {})

\* A tick runs the collector, unless a gate is off: its probe collects.
Collect(p) ==
    /\ Goto(p, "idle", "probing")
    /\ UNCHANGED <<collector, now, result, records, measures, startTime, hpc, report>>

\* The probe returns, if ever, and FilterSamples filters.
Return(p) ==
    /\ Goto(p, "probing", "ensure")
    /\ \E r \in Results : result' = [result EXCEPT ![p] = r]
    /\ UNCHANGED <<collector, now, records, measures, startTime, hpc, report>>

\* ensureExporter: the first recording makes an entry, which says 0.
EnsureExporter(p) ==
    /\ Goto(p, "ensure", "store")
    /\ up' = [up EXCEPT ![p] = IF @ = "none" THEN "0" ELSE @]
    /\ Disturb(p)
    /\ UNCHANGED <<collector, now, result, lastSuccess, lastFailure, lastError, measures,
                   startTime, hpc>>

\* The gauge is stored when the lock is released again.
StoreUp(p) ==
    /\ Goto(p, "store", "stamp")
    /\ up' = [up EXCEPT ![p] = IF Succeeds(p) THEN "1" ELSE "0"]
    /\ Disturb(p)
    /\ UNCHANGED <<collector, now, result, lastSuccess, lastFailure, lastError, measures,
                   startTime, hpc>>

\* Slip: the text of an old error outlives a success.
StampSuccessOnly(p) ==
    /\ Goto(p, "stamp", "convert")
    /\ Succeeds(p)
    /\ lastSuccess' = [lastSuccess EXCEPT ![p] = now]
    /\ Disturb(p)
    /\ UNCHANGED <<collector, now, result, up, lastFailure, lastError, measures,
                   startTime, hpc>>

\* RecordProbeSuccess under probeMu.
StampSuccess(p) ==
    /\ Goto(p, "stamp", "convert")
    /\ Succeeds(p)
    /\ lastSuccess' = [lastSuccess EXCEPT ![p] = now]
    /\ lastError' = [lastError EXCEPT ![p] = FALSE]
    /\ Disturb(p)
    /\ UNCHANGED <<collector, now, result, up, lastFailure, measures, startTime, hpc>>

\* RecordProbeFailure under probeMu; its callers always have an error to give.
StampFailure(p) ==
    /\ Goto(p, "stamp", "idle")
    /\ ~Succeeds(p)
    /\ result' = [result EXCEPT ![p] = "none"]
    /\ lastFailure' = [lastFailure EXCEPT ![p] = now]
    /\ lastError' = [lastError EXCEPT ![p] = TRUE]
    /\ Disturb(p)
    /\ UNCHANGED <<collector, now, up, lastSuccess, measures, startTime, hpc>>

\* The identifier of a series is made anew each time, from a map that is traversed
\* in any order.
Identifiers == [s \in Series |-> {metricIdentifier(s, order) : order \in KeyOrders(s)}]

\* SamplesToMeasures skips what is not a finite number.
\* NodeCollector does not call it when no sample is important.
SamplesToMeasures(p) ==
    /\ Goto(p, "convert", "enqueue")
    /\ \E s \in Series : \E id \in Identifiers[s] :
           measures' = [measures EXCEPT ![p] = IF result[p] = "numbers"
                                               THEN {[series |-> s, id |-> id]}
                                               ELSE {}]
    /\ result' = [result EXCEPT ![p] = "none"]
    /\ UNCHANGED <<collector, now, records, startTime, hpc, report>>

\* EnqueueMetrics (HubQueue) takes what there is.
Enqueue(p) ==
    /\ Goto(p, "enqueue", "idle")
    /\ measures' = [measures EXCEPT ![p] = {}]
    /\ UNCHANGED <<collector, now, result, records, startTime, hpc, report>>

RecordStep(p) ==
    \/ EnsureExporter(p) \/ StoreUp(p)
    \/ StampSuccess(p) \/ StampFailure(p)
    \/ SamplesToMeasures(p) \/ Enqueue(p)

ProbeStep(p) == Collect(p) \/ Return(p) \/ RecordStep(p)

-----------------------------------------------------------------------------
(* The handlers of /metrics                                                 *)

HGoto(h, from, to) ==
    /\ hpc[h] = from
    /\ hpc' = [hpc EXCEPT ![h] = to]

\* The first request that finds no start time is about to set it.
Request(h) ==
    /\ HGoto(h, "idle", IF startTime = 0 THEN "first" ELSE "clock")
    /\ \E p \in Probes : report' = [report EXCEPT ![h].probe = p]
    /\ UNCHANGED <<collector, now, pc, result, records, measures, startTime>>

\* Slip: nobody sets it.
StartNever(h) ==
    /\ HGoto(h, "first", "clock")
    /\ UNCHANGED <<collector, now, pc, result, records, measures, startTime, report>>

StoreStart(h) ==
    /\ HGoto(h, "first", "clock")
    /\ startTime' = now
    /\ UNCHANGED <<collector, now, pc, result, records, measures, report>>

\* time.Now().Unix() - startTimeUnix.Load(), from left to right.
ReadClock(h) ==
    /\ HGoto(h, "clock", "start")
    /\ report' = [report EXCEPT ![h].clock = now]
    /\ UNCHANGED <<collector, now, pc, result, records, measures, startTime>>

ReadStart(h) ==
    /\ HGoto(h, "start", "exporters")
    /\ report' = [report EXCEPT ![h].uptime = report[h].clock - startTime, ![h].clock = 0]
    /\ UNCHANGED <<collector, now, pc, result, records, measures, startTime>>

\* Under exporterMu, which StoreUp does not take.
ReadExporters(h) ==
    LET p == report[h].probe
    IN  /\ HGoto(h, "exporters", "probes")
        /\ report' = [report EXCEPT ![h].up = up[p], ![h].torn = Recording(p)]
        /\ UNCHANGED <<collector, now, pc, result, records, measures, startTime>>

\* Slip: the failures are printed as successes.
ReadProbesMixed(h) ==
    LET p == report[h].probe
    IN  /\ HGoto(h, "probes", "done")
        /\ report' = [report EXCEPT ![h].success = lastFailure[p],
                                    ![h].failure = lastFailure[p],
                                    ![h].torn = @ \/ Recording(p)]
        /\ UNCHANGED <<collector, now, pc, result, records, measures, startTime>>

\* Under probeMu.
ReadProbes(h) ==
    LET p == report[h].probe
    IN  /\ HGoto(h, "probes", "done")
        /\ report' = [report EXCEPT ![h].success = lastSuccess[p],
                                    ![h].failure = lastFailure[p],
                                    ![h].torn = @ \/ Recording(p)]
        /\ UNCHANGED <<collector, now, pc, result, records, measures, startTime>>

Respond(h) ==
    /\ HGoto(h, "done", "idle")
    /\ report' = [report EXCEPT ![h] = NoReport]
    /\ UNCHANGED <<collector, now, pc, result, records, measures, startTime>>

HandlerStep(h) ==
    \/ Request(h) \/ StoreStart(h) \/ ReadClock(h) \/ ReadStart(h)
    \/ ReadExporters(h) \/ ReadProbes(h) \/ Respond(h)

\* A second passes.
Tick ==
    /\ now < MaxTime
    /\ now' = now + 1
    /\ UNCHANGED <<collector, pc, result, records, measures, startTime, hpc, report>>

Next ==
    \/ \E p \in Probes : ProbeStep(p)
    \/ \E h \in Handlers : HandlerStep(h)
    \/ Tick

\* What a goroutine does after its probe has returned waits for nobody. That a
\* probe is run, or returns, is not assumed: gates may stay off, and the probes of
\* the GPUs and of the node run without a time limit (manager.go:87).
FairSpec ==
    /\ Init
    /\ [][Next]_vars
    /\ \A p \in Probes : WF_vars(RecordStep(p))

-----------------------------------------------------------------------------
(* Properties                                                               *)

\* Every variable has its type.
TypeOK ==
    /\ collector \in [Probes -> Collectors]
    /\ now \in 1 .. MaxTime
    /\ pc \in [Probes -> {"idle", "probing", "ensure", "store", "stamp", "convert",
                          "enqueue"}]
    /\ result \in [Probes -> Results \cup {"none"}]
    /\ up \in [Probes -> {"none", "0", "1"}]
    /\ lastSuccess \in [Probes -> 0 .. now]
    /\ lastFailure \in [Probes -> 0 .. now]
    /\ lastError \in [Probes -> BOOLEAN]
    /\ DOMAIN measures = Probes
    /\ \A p \in Probes : \A m \in measures[p] : m.series \in Series
    /\ startTime \in 0 .. now
    /\ hpc \in [Handlers -> {"idle", "first", "clock", "start", "exporters", "probes",
                             "done"}]
    /\ report \in [Handlers -> Report]

\* What a gauge and two timestamps may say together.
Agree(gauge, success, failure) ==
    /\ gauge = "none" => success = 0 /\ failure = 0
    /\ gauge = "1" => success > 0 /\ success >= failure
    /\ gauge = "0" => failure > 0 /\ failure >= success

\* The records of a probe agree with one another whenever it is not recording,
\* although they are under two locks and the gauge is under none: up says what
\* came last, and an error text is there exactly when that was a failure
\* (health.go:179-198, 223-240).
RecordsAgree ==
    \A p \in Probes : ~Recording(p) =>
        /\ Agree(up[p], lastSuccess[p], lastFailure[p])
        /\ lastError[p] <=> up[p] = "0"

\* A report that shows a probe up with a later failure, or down with a later
\* success, was made while that probe was recording (health.go:80-122).
TornOnlyByOverlap ==
    \A h \in Handlers : hpc[h] = "done" /\ ~report[h].torn =>
        Agree(report[h].up, report[h].success, report[h].failure)

\* No report shows more uptime than the process has, although the start time is
\* what the first request takes it to be (health.go:51-54).
UptimeNotOverstated ==
    \A h \in Handlers :
        hpc[h] \in {"exporters", "probes", "done"} => report[h].uptime <= now - 1

LongSeries == {s \in Series : IsLong(s)}

\* "the same series always maps to the same ID" (filter.go:59-60), in whatever
\* order the map of its labels is traversed, and a series whose identifier is cut
\* shares it with no other series (filter.go:98-129).
StableIdentity ==
    \A p \in Probes : \A m \in measures[p] :
        /\ Identifiers[m.series] = {m.id}
        /\ m.series \in LongSeries =>
               \A s \in Series \ {m.series} : m.id \notin Identifiers[s]

Failing(p) ==
    result[p] \in {"none", "error"}
        \cup (IF collector[p] = "node" THEN {} ELSE {"unimportant"})

\* A probe that never succeeds any more, because it fails, or brings nothing
\* important where that is a failure, or hangs, is reported down in the end and stays
\* down if it returns once more. If it hangs at once, nothing is reported of it
\* (gpu.go, vllm.go, health.go:232-240).
FailingProbeIsDown ==
    \A p \in Probes :
        <>([]Failing(p) /\ <>(pc[p] = "ensure")) => <>[](up[p] = "0")
=============================================================================
