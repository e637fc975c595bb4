-------------------------- MODULE ProbeHealthProofs --------------------------
(***************************************************************************)
(* ProbeHealth, for any number of probes, of requests under way and of     *)
(* seconds: the records of a probe agree, a report that contradicts itself *)
(* was made during a recording, and no uptime is overstated. And SeriesId, *)
(* for any set of series: each has one identifier, of its own if it is cut.*)
(***************************************************************************)
EXTENDS ProbeHealth, CountingLemmas

-----------------------------------------------------------------------------
(* The records of the probes and the reports                                *)

\* In the middle of a recording the gauge is ahead of the timestamps.
GaugeAhead ==
    \A p \in Probes : pc[p] = "stamp" => up[p] = IF Succeeds(p) THEN "1" ELSE "0"

\* A request that has read the gauge, and nothing recorded since, still has it.
GaugeFresh ==
    \A h \in Handlers :
        /\ hpc[h] # "idle" => report[h].probe \in Probes
        /\ hpc[h] = "probes" /\ ~report[h].torn =>
               /\ report[h].up = up[report[h].probe]
               /\ ~Recording(report[h].probe)

\* Once a request is past the first two lines there is a start time, and the
\* clock it has read is not ahead of the clock.
Started ==
    /\ \A h \in Handlers : hpc[h] \notin {"idle", "first"} => startTime >= 1
    /\ \A h \in Handlers : report[h].clock <= now

Inv ==
    /\ TypeOK
    /\ GaugeAhead
    /\ RecordsAgree
    /\ GaugeFresh
    /\ TornOnlyByOverlap
    /\ Started
    /\ UptimeNotOverstated

\* The invariant holds initially.
LEMMA InitInv == Init => Inv
  <1> SUFFICES ASSUME Init PROVE Inv
    OBVIOUS
  <1>1. TypeOK
    <2>1. NoReport \in Report
      BY ProbeHealthAssumption DEF NoReport, Report
    <2>2. now \in 1 .. MaxTime /\ startTime \in 0 .. now
      BY ProbeHealthAssumption DEF Init
    <2>3. report \in [Handlers -> Report]
      BY <2>1 DEF Init
    <2>4. lastSuccess \in [Probes -> 0 .. now] /\ lastFailure \in [Probes -> 0 .. now]
      BY DEF Init
    <2> QED
      BY <2>2, <2>3, <2>4 DEF Init, TypeOK, Results
  <1>2. GaugeAhead /\ RecordsAgree
    BY DEF Init, GaugeAhead, RecordsAgree, Agree, Recording
  <1>3. GaugeFresh /\ TornOnlyByOverlap /\ UptimeNotOverstated
    BY DEF Init, GaugeFresh, TornOnlyByOverlap, UptimeNotOverstated
  <1>4. Started
    BY DEF Init, Started, NoReport
  <1> QED
    BY <1>1, <1>2, <1>3, <1>4 DEF Inv

-----------------------------------------------------------------------------
(* A step of a collector goroutine                                          *)

\* It touches the records of its own probe only.
LEMMA ProbeFrame ==
    ASSUME TypeOK, NEW p \in Probes, ProbeStep(p)
    PROVE  /\ UNCHANGED <<collector, now, startTime, hpc>>
           /\ \A q \in Probes \ {p} :
                  /\ pc'[q] = pc[q] /\ result'[q] = result[q] /\ up'[q] = up[q]
                  /\ lastSuccess'[q] = lastSuccess[q] /\ lastFailure'[q] = lastFailure[q]
                  /\ lastError'[q] = lastError[q]
  <1>1. CASE Collect(p) \/ Return(p)
    BY <1>1 DEF TypeOK, Collect, Return, Goto, records
  <1>2. CASE EnsureExporter(p)
    BY <1>2 DEF TypeOK, EnsureExporter, Goto, records
  <1>3. CASE StoreUp(p)
    BY <1>3 DEF TypeOK, StoreUp, Goto, records
  <1>4. CASE StampSuccess(p)
    BY <1>4 DEF TypeOK, StampSuccess, Goto, records
  <1>5. CASE StampFailure(p)
    BY <1>5 DEF TypeOK, StampFailure, Goto, records
  <1>6. CASE SamplesToMeasures(p)
    BY <1>6 DEF TypeOK, SamplesToMeasures, Goto, records
  <1>7. CASE Enqueue(p)
    BY <1>7 DEF TypeOK, Enqueue, Goto, records
  <1> QED
    BY <1>1, <1>2, <1>3, <1>4, <1>5, <1>6, <1>7 DEF ProbeStep, RecordStep

\* It marks the reports it disturbs as torn and leaves them alone otherwise.
LEMMA ProbeReports ==
    ASSUME TypeOK, NEW p \in Probes, ProbeStep(p)
    PROVE  /\ report' \in [Handlers -> Report]
           /\ \A h \in Handlers :
                  /\ report'[h] = report[h] \/ report'[h] = [report[h] EXCEPT !.torn = TRUE]
                  /\ hpc[h] = "done" => report'[h] = report[h]
                  /\ hpc[h] = "probes" /\ report[h].probe = p /\ ~report'[h].torn =>
                         up' = up /\ ~Recording(p)'
  <1>1. CASE Disturb(p)
    <2>1. \A h \in Handlers : /\ [report[h] EXCEPT !.torn = TRUE] \in Report
                             /\ [report[h] EXCEPT !.torn = TRUE].torn
      <3> TAKE h \in Handlers
      <3>1. report[h] \in Report
        BY DEF TypeOK
      <3> QED
        BY <3>1 DEF Report
    <2> QED
      BY <1>1, <2>1 DEF Disturb, TypeOK
  <1>2. CASE ~Disturb(p)
    <2>1. Collect(p) \/ Return(p) \/ SamplesToMeasures(p) \/ Enqueue(p)
      BY <1>2 DEF ProbeStep, RecordStep, EnsureExporter, StoreUp, StampSuccess, StampFailure
    <2>2. UNCHANGED <<report, up>>
      BY <2>1 DEF Collect, Return, SamplesToMeasures, Enqueue, records
    <2>3. pc'[p] \in {"probing", "ensure", "enqueue", "idle"}
      BY <2>1 DEF Collect, Return, SamplesToMeasures, Enqueue, Goto, TypeOK
    <2> QED
      BY <2>2, <2>3 DEF TypeOK, Recording
  <1> QED
    BY <1>1, <1>2

\* It keeps the types.
LEMMA ProbeType ==
    ASSUME TypeOK, NEW p \in Probes, ProbeStep(p)
    PROVE  TypeOK'
  <1>1. /\ UNCHANGED <<collector, now, startTime, hpc>>
        /\ report' \in [Handlers -> Report]
    BY ProbeFrame, ProbeReports
  <1>2. pc' \in [Probes -> {"idle", "probing", "ensure", "store", "stamp", "convert",
                         "enqueue"}]
    BY DEF TypeOK, ProbeStep, RecordStep, Goto, Collect, Return, EnsureExporter, StoreUp,
       StampSuccess, StampFailure, SamplesToMeasures, Enqueue
  <1>3. result' \in [Probes -> Results \cup {"none"}]
    BY DEF TypeOK, ProbeStep, RecordStep, Results, records, Collect, Return,
       EnsureExporter, StoreUp, StampSuccess, StampFailure, SamplesToMeasures, Enqueue
  <1>4. /\ up' \in [Probes -> {"none", "0", "1"}]
        /\ lastError' \in [Probes -> BOOLEAN]
    BY DEF TypeOK, ProbeStep, RecordStep, records, Collect, Return, EnsureExporter, StoreUp,
       StampSuccess, StampFailure, SamplesToMeasures, Enqueue
  <1>5. now \in 0 .. now
    BY ProbeHealthAssumption DEF TypeOK
  <1>6. /\ lastSuccess' \in [Probes -> 0 .. now]
        /\ lastFailure' \in [Probes -> 0 .. now]
    BY <1>5 DEF TypeOK, ProbeStep, RecordStep, records, Collect, Return,
       EnsureExporter, StoreUp, StampSuccess, StampFailure, SamplesToMeasures, Enqueue
  <1>7. /\ DOMAIN measures' = Probes
        /\ \A q \in Probes : \A m \in measures'[q] : m.series \in Series
    <2>1. CASE SamplesToMeasures(p)
      <3>1. PICK s \in Series : \E id :
                measures' = [measures EXCEPT ![p] = IF result[p] = "numbers"
                                 THEN {[series |-> s, id |-> id]} ELSE {}]
        BY <2>1 DEF SamplesToMeasures
      <3>2. PICK id :
                measures' = [measures EXCEPT ![p] = IF result[p] = "numbers"
                                 THEN {[series |-> s, id |-> id]} ELSE {}]
        BY <3>1
      <3> QED
        BY <3>1, <3>2 DEF TypeOK
    <2>2. CASE Enqueue(p)
      BY <2>2 DEF Enqueue, TypeOK
    <2>3. CASE ~SamplesToMeasures(p) /\ ~Enqueue(p)
      <3>1. measures' = measures
        BY <2>3 DEF ProbeStep, RecordStep, Collect, Return, EnsureExporter, StoreUp,
           StampSuccess, StampFailure
      <3> QED
        BY <3>1 DEF TypeOK
    <2> QED
      BY <2>1, <2>2, <2>3
  <1> QED
    BY <1>1, <1>2, <1>3, <1>4, <1>6, <1>7 DEF TypeOK

\* It keeps the records in agreement: between its first and its last step the
\* gauge is ahead of the timestamps, and the last step brings them up to it.
LEMMA ProbeRecords ==
    ASSUME TypeOK, GaugeAhead, RecordsAgree, NEW p \in Probes, ProbeStep(p)
    PROVE  GaugeAhead' /\ RecordsAgree'
  <1> DEFINE Ahead(q) == pc[q] = "stamp" => up[q] = IF Succeeds(q) THEN "1" ELSE "0"
             Whole(q) == ~Recording(q) =>
                             /\ Agree(up[q], lastSuccess[q], lastFailure[q])
                             /\ lastError[q] <=> up[q] = "0"
  <1>1. ASSUME NEW q \in Probes \ {p}
        PROVE  Ahead(q)' /\ Whole(q)'
    <2>1. Ahead(q) /\ Whole(q)
      BY DEF GaugeAhead, RecordsAgree
    <2> QED
      BY <2>1, ProbeFrame DEF Succeeds, Recording, Agree
  <1>2. Ahead(p)'
    <2>1. CASE StoreUp(p)
      BY <2>1 DEF StoreUp, Succeeds, TypeOK, Goto
    <2>2. CASE ~StoreUp(p)
      <3>1. pc'[p] # "stamp"
        BY <2>2 DEF ProbeStep, RecordStep, Collect, Return, EnsureExporter, StampSuccess,
           StampFailure, SamplesToMeasures, Enqueue, Goto, TypeOK
      <3> QED
        BY <3>1
    <2> QED
      BY <2>1, <2>2
  <1>3. Whole(p)'
    <2>1. CASE EnsureExporter(p) \/ StoreUp(p)
      <3>1. pc'[p] \in {"store", "stamp"}
        BY <2>1 DEF EnsureExporter, StoreUp, Goto, TypeOK
      <3> QED
        BY <3>1 DEF Recording
    <2>2. CASE StampSuccess(p)
      <3>1. up[p] = "1" /\ up' = up
        BY <2>2 DEF StampSuccess, Goto, GaugeAhead
      <3>2. lastSuccess'[p] = now /\ lastFailure' = lastFailure /\ ~lastError'[p]
        BY <2>2 DEF StampSuccess, TypeOK
      <3>3. now > 0 /\ now >= lastFailure[p]
        BY ProbeHealthAssumption DEF TypeOK
      <3> QED
        BY <3>1, <3>2, <3>3 DEF Agree
    <2>3. CASE StampFailure(p)
      <3>1. up[p] = "0" /\ up' = up
        BY <2>3 DEF StampFailure, Goto, GaugeAhead
      <3>2. lastFailure'[p] = now /\ lastSuccess' = lastSuccess /\ lastError'[p]
        BY <2>3 DEF StampFailure, TypeOK
      <3>3. now > 0 /\ now >= lastSuccess[p]
        BY ProbeHealthAssumption DEF TypeOK
      <3> QED
        BY <3>1, <3>2, <3>3 DEF Agree
    <2>4. CASE Collect(p) \/ Return(p) \/ SamplesToMeasures(p) \/ Enqueue(p)
      <3>1. UNCHANGED records /\ ~Recording(p)
        BY <2>4 DEF Collect, Return, SamplesToMeasures, Enqueue, Goto, Recording
      <3>2. Agree(up[p], lastSuccess[p],
      lastFailure[p]) /\ (lastError[p] <=> up[p] = "0")
        BY <3>1 DEF RecordsAgree
      <3> QED
        BY <3>1, <3>2 DEF records
    <2> QED
      BY <2>1, <2>2, <2>3, <2>4 DEF ProbeStep, RecordStep
  <1>4. \A q \in Probes : Ahead(q)' /\ Whole(q)'
    BY <1>1, <1>2, <1>3
  <1> QED
    BY <1>4 DEF GaugeAhead, RecordsAgree, Succeeds, Recording

\* It keeps what is known of the requests under way.
LEMMA ProbeHandlers ==
    ASSUME Inv, NEW p \in Probes, ProbeStep(p)
    PROVE  GaugeFresh' /\ TornOnlyByOverlap' /\ Started' /\ UptimeNotOverstated'
  <1> USE DEF Inv
  <1>1. ASSUME NEW h \in Handlers
        PROVE  /\ report'[h].probe = report[h].probe /\ report'[h].up = report[h].up
               /\ report'[h].clock = report[h].clock
               /\ report'[h].uptime = report[h].uptime
               /\ ~report'[h].torn => ~report[h].torn
    <2>1. report[h] \in Report
      BY DEF TypeOK
    <2>2. report'[h] = report[h] \/ report'[h] = [report[h] EXCEPT !.torn = TRUE]
      BY ProbeReports
    <2> QED
      BY <2>1, <2>2 DEF Report
  <1>2. GaugeFresh'
    <2> SUFFICES ASSUME NEW h \in Handlers
                 PROVE  /\ hpc'[h] # "idle" => report'[h].probe \in Probes
                        /\ hpc'[h] = "probes" /\ ~report'[h].torn =>
                               /\ report'[h].up = up'[report'[h].probe]
                               /\ pc'[report'[h].probe] \notin {"store", "stamp"}
      BY DEF GaugeFresh, Recording
    <2>1. hpc'[h] = hpc[h]
      BY ProbeFrame
    <2>2. hpc[h] # "idle" => report[h].probe \in Probes
      BY DEF GaugeFresh
    <2>3. ASSUME hpc[h] = "probes", ~report'[h].torn, NEW q, q = report[h].probe
          PROVE  /\ report[h].up = up'[q]
                 /\ pc'[q] \notin {"store", "stamp"}
      <3>1. /\ report[h].up = up[q]
            /\ pc[q] \notin {"store", "stamp"}
            /\ q \in Probes
        BY <2>2, <2>3, <1>1 DEF GaugeFresh, Recording
      <3>2. CASE q = p
        BY <3>1, <3>2, <2>3, ProbeReports DEF Recording
      <3>3. CASE q # p
        BY <3>1, <3>3, ProbeFrame
      <3> QED
        BY <3>2, <3>3
    <2> QED
      BY <1>1, <2>1, <2>2, <2>3 DEF Recording
  <1>3. TornOnlyByOverlap'
    <2> SUFFICES ASSUME NEW h \in Handlers, hpc'[h] = "done", ~report'[h].torn
                 PROVE  Agree(report'[h].up, report'[h].success, report'[h].failure)
      BY DEF TornOnlyByOverlap, Agree
    <2>1. hpc[h] = "done" /\ report'[h] = report[h]
      BY ProbeFrame, ProbeReports
    <2> QED
      BY <2>1 DEF TornOnlyByOverlap
  <1>4. Started' /\ UptimeNotOverstated'
    BY <1>1, ProbeFrame DEF Started, UptimeNotOverstated
  <1> QED
    BY <1>2, <1>3, <1>4

-----------------------------------------------------------------------------
(* A step of a request                                                      *)

HandlerActions == {"idle", "first", "clock", "start", "exporters", "probes", "done"}

\* It keeps the records, and the place and the report of the other requests.
LEMMA HandlerFrame ==
    ASSUME TypeOK, NEW h \in Handlers, HandlerStep(h)
    PROVE  /\ UNCHANGED <<collector, now, pc, result, records, measures>>
           /\ hpc' \in [Handlers -> HandlerActions]
           /\ DOMAIN report' = Handlers
           /\ \A g \in Handlers \ {h} : hpc'[g] = hpc[g] /\ report'[g] = report[g]
  <1> USE DEF TypeOK, HandlerActions, HGoto
  <1>1. CASE Request(h)
    BY <1>1 DEF Request
  <1>2. CASE StoreStart(h)
    BY <1>2 DEF StoreStart
  <1>3. CASE ReadClock(h)
    BY <1>3 DEF ReadClock
  <1>4. CASE ReadStart(h)
    BY <1>4 DEF ReadStart
  <1>5. CASE ReadExporters(h)
    BY <1>5 DEF ReadExporters
  <1>6. CASE ReadProbes(h)
    BY <1>6 DEF ReadProbes
  <1>7. CASE Respond(h)
    BY <1>7 DEF Respond
  <1> QED
    BY <1>1, <1>2, <1>3, <1>4, <1>5, <1>6, <1>7 DEF HandlerStep

\* What an invariant says of one request.
OfRequest(g) ==
    /\ report[g] \in Report
    /\ hpc[g] # "idle" => report[g].probe \in Probes
    /\ hpc[g] = "probes" /\ ~report[g].torn =>
           /\ report[g].up = up[report[g].probe]
           /\ pc[report[g].probe] \notin {"store", "stamp"}
    /\ hpc[g] = "done" /\ ~report[g].torn =>
           Agree(report[g].up, report[g].success, report[g].failure)
    /\ hpc[g] \notin {"idle", "first"} => startTime >= 1
    /\ report[g].clock <= now
    /\ hpc[g] \in {"exporters", "probes", "done"} => report[g].uptime <= now - 1

LEMMA RequestParts ==
    (report \in [Handlers -> Report] /\ GaugeFresh /\ TornOnlyByOverlap /\ Started
        /\ UptimeNotOverstated)
    <=> (report \in [Handlers -> Report] /\ \A g \in Handlers : OfRequest(g))
  BY DEF OfRequest, GaugeFresh, TornOnlyByOverlap, Started, UptimeNotOverstated,
     Recording

\* Its own request stays as it should be.
LEMMA HandlerKeeps ==
    ASSUME Inv, NEW h \in Handlers, HandlerStep(h)
    PROVE  OfRequest(h)' /\ startTime' \in 0 .. now /\ startTime' >= startTime
  <1>1. /\ OfRequest(h) /\ report[h] \in Report
        /\ startTime \in 0 .. now /\ startTime \in Nat /\ now \in Nat /\ now >= 1
        /\ hpc \in [Handlers -> HandlerActions] /\ report \in [Handlers -> Report]
    BY RequestParts, ProbeHealthAssumption DEF Inv, TypeOK, HandlerActions
  <1>2. CASE Request(h)
    <2>1. PICK q \in Probes : report' = [report EXCEPT ![h].probe = q]
      BY <1>2 DEF Request
    <2>2. report'[h] = [report[h] EXCEPT !.probe = q]
      BY <1>1, <2>1
    <2>3. /\ report'[h] \in Report /\ report'[h].probe = q
          /\ report'[h].clock = report[h].clock
      BY <1>1, <2>2 DEF Report
    <2>4. /\ hpc'[h] = IF startTime = 0 THEN "first" ELSE "clock"
          /\ UNCHANGED <<startTime, now, up, pc>>
      BY <1>1, <1>2 DEF Request, HGoto, records
    <2> QED
      BY <1>1, <2>3, <2>4 DEF OfRequest
  <1>3. CASE StoreStart(h)
    <2>1. /\ hpc[h] = "first" /\ hpc'[h] = "clock"
          /\ UNCHANGED <<report, now, up, pc>> /\ startTime' = now
      BY <1>1, <1>3 DEF StoreStart, HGoto, records
    <2> QED
      BY <1>1, <2>1 DEF OfRequest
  <1>4. CASE ReadClock(h)
    <2>1. /\ hpc[h] = "clock" /\ hpc'[h] = "start"
          /\ UNCHANGED <<startTime, now, up, pc>>
          /\ report'[h] = [report[h] EXCEPT !.clock = now]
      BY <1>1, <1>4 DEF ReadClock, HGoto, records
    <2>2. now \in 0 .. MaxTime
      BY ProbeHealthAssumption DEF Inv, TypeOK
    <2>3. /\ report'[h] \in Report /\ report'[h].probe = report[h].probe
          /\ report'[h].clock = now
      BY <1>1, <2>1, <2>2 DEF Report
    <2> QED
      BY <1>1, <2>1, <2>3 DEF OfRequest
  <1>5. CASE ReadStart(h)
    <2>1. /\ hpc[h] = "start" /\ hpc'[h] = "exporters"
          /\ UNCHANGED <<startTime, now, up, pc>>
          /\ report'[h] = [report[h] EXCEPT !.uptime = report[h].clock - startTime,
                                           !.clock = 0]
      BY <1>1, <1>5 DEF ReadStart, HGoto, records
    <2>2. /\ report[h].clock \in Int /\ report[h].clock - startTime \in Int
          /\ 0 \in 0 .. MaxTime
      BY <1>1, ProbeHealthAssumption DEF Report
    <2>3. /\ report'[h] \in Report /\ report'[h].probe = report[h].probe
          /\ report'[h].clock = 0 /\ report'[h].uptime = report[h].clock - startTime
      BY <1>1, <2>1, <2>2 DEF Report
    <2>4. startTime >= 1 /\ report[h].clock <= now
      BY <1>1, <2>1 DEF OfRequest
    <2>5. report'[h].uptime <= now - 1
      BY <1>1, <2>2, <2>3, <2>4
    <2> QED
      BY <1>1, <2>1, <2>3, <2>5 DEF OfRequest
  <1>6. CASE ReadExporters(h)
    <2>1. /\ hpc[h] = "exporters" /\ hpc'[h] = "probes"
          /\ UNCHANGED <<startTime, now, up, pc>>
          /\ report'[h] = [report[h] EXCEPT !.up = up[report[h].probe],
                                           !.torn = Recording(report[h].probe)]
      BY <1>1, <1>6 DEF ReadExporters, HGoto, records
    <2>2. /\ report[h].probe \in Probes
          /\ up[report[h].probe] \in {"none", "0", "1"}
          /\ Recording(report[h].probe) \in BOOLEAN
      BY <1>1, <2>1 DEF OfRequest, Recording, Inv, TypeOK
    <2>3. /\ report'[h] \in Report /\ report'[h].probe = report[h].probe
          /\ report'[h].clock = report[h].clock /\ report'[h].uptime = report[h].uptime
          /\ report'[h].up = up[report[h].probe]
          /\ ~report'[h].torn => ~Recording(report[h].probe)
      BY <1>1, <2>1, <2>2 DEF Report
    <2>4. ~Recording(report[h].probe) => pc[report[h].probe] \notin {"store",
    "stamp"}
      BY DEF Recording
    <2> QED
      BY <1>1, <2>1, <2>3, <2>4 DEF OfRequest
  <1>7. CASE ReadProbes(h)
    <2> DEFINE q == report[h].probe
    <2>1. /\ hpc[h] = "probes" /\ hpc'[h] = "done"
          /\ UNCHANGED <<startTime, now, up, pc>>
          /\ report'[h] = [report[h] EXCEPT !.success = lastSuccess[q],
                                           !.failure = lastFailure[q],
                                           !.torn = report[h].torn \/ Recording(q)]
      BY <1>1, <1>7 DEF ReadProbes, HGoto, records
    <2>2. q \in Probes
      BY <1>1, <2>1 DEF OfRequest
    <2>3. lastSuccess[q] \in Nat /\ lastFailure[q] \in Nat
      BY <1>1, <2>2 DEF Inv, TypeOK
    <2>4. report[h].torn \in BOOLEAN /\ Recording(q) \in BOOLEAN
      BY <1>1 DEF Report, Recording
    <2>5. /\ report'[h] \in Report /\ report'[h].probe = q
          /\ report'[h].clock = report[h].clock /\ report'[h].uptime = report[h].uptime
          /\ report'[h].up = report[h].up
          /\ report'[h].success = lastSuccess[q] /\ report'[h].failure = lastFailure[q]
          /\ ~report'[h].torn => ~report[h].torn /\ ~Recording(q)
      BY <1>1, <2>1, <2>3, <2>4 DEF Report
    <2>6. ~report'[h].torn =>
              Agree(report'[h].up, report'[h].success, report'[h].failure)
      <3>1. ~Recording(q) => Agree(up[q], lastSuccess[q], lastFailure[q])
        BY <2>2 DEF Inv, RecordsAgree
      <3>2. ~report[h].torn => report[h].up = up[q]
        BY <1>1, <2>1 DEF OfRequest
      <3> QED
        BY <2>5, <3>1, <3>2
    <2> QED
      BY <1>1, <2>1, <2>2, <2>5, <2>6 DEF OfRequest, Agree
  <1>8. CASE Respond(h)
    <2>1. /\ hpc'[h] = "idle" /\ UNCHANGED <<startTime, now, up, pc>>
          /\ report'[h] = NoReport
      BY <1>1, <1>8 DEF Respond, HGoto, records
    <2>2. NoReport \in Report /\ NoReport.clock = 0
      BY ProbeHealthAssumption DEF NoReport, Report
    <2> QED
      BY <1>1, <2>1, <2>2 DEF OfRequest
  <1> QED
    BY <1>2, <1>3, <1>4, <1>5, <1>6, <1>7, <1>8 DEF HandlerStep

-----------------------------------------------------------------------------
(* The invariant                                                            *)

\* Every step keeps it.
LEMMA StepInv == Inv /\ [Next]_vars => Inv'
  <1> SUFFICES ASSUME Inv, [Next]_vars PROVE Inv'
    OBVIOUS
  <1>1. ASSUME NEW p \in Probes, ProbeStep(p) PROVE Inv'
    <2>1. TypeOK /\ GaugeAhead /\ RecordsAgree
      BY DEF Inv
    <2> QED
      BY <1>1, <2>1, ProbeType, ProbeRecords, ProbeHandlers DEF Inv
  <1>2. ASSUME NEW h \in Handlers, HandlerStep(h) PROVE Inv'
    <2>1. /\ TypeOK /\ GaugeAhead /\ RecordsAgree /\ GaugeFresh /\ TornOnlyByOverlap
          /\ Started /\ UptimeNotOverstated
      BY DEF Inv
    <2>2. /\ UNCHANGED <<collector, now, pc, result, records, measures>>
          /\ hpc' \in [Handlers -> HandlerActions]
          /\ DOMAIN report' = Handlers
          /\ \A g \in Handlers \ {h} : hpc'[g] = hpc[g] /\ report'[g] = report[g]
      BY <1>2, <2>1, HandlerFrame
    <2>3. OfRequest(h)' /\ startTime' \in 0 .. now /\ startTime' >= startTime
      BY <1>2, HandlerKeeps
    <2>4. ASSUME NEW g \in Handlers \ {h} PROVE OfRequest(g)'
      <3>1. OfRequest(g)
        BY <2>1, RequestParts DEF TypeOK
      <3>2. startTime >= 1 => startTime' >= 1
        BY <2>1, <2>3 DEF TypeOK
      <3> QED
        BY <2>2, <3>1, <3>2 DEF OfRequest, records
    <2>5. \A g \in Handlers : OfRequest(g)'
      BY <2>3, <2>4
    <2>6. report' \in [Handlers -> Report]
      <3>1. \A g \in Handlers : report'[g] \in Report
        <4>1. report'[h] \in Report
          BY <2>3 DEF OfRequest
        <4> QED
          BY <2>1, <2>2, <4>1 DEF TypeOK
      <3>2. report' = [g \in Handlers |-> report'[g]]
        BY <1>2, <2>1 DEF HandlerStep, Request, StoreStart, ReadClock, ReadStart,
           ReadExporters, ReadProbes, Respond, TypeOK
      <3> QED
        BY <2>2, <3>1, <3>2
    <2>7. GaugeFresh' /\ TornOnlyByOverlap' /\ Started' /\ UptimeNotOverstated'
      BY <2>5, <2>6 DEF OfRequest, GaugeFresh, TornOnlyByOverlap, Started,
         UptimeNotOverstated, Recording
    <2>8. TypeOK'
      BY <2>1, <2>2, <2>3, <2>6 DEF TypeOK, HandlerActions, records
    <2>9. GaugeAhead' /\ RecordsAgree'
      BY <2>1, <2>2 DEF GaugeAhead, RecordsAgree, Recording, Succeeds, Agree,
         records
    <2> QED
      BY <2>7, <2>8, <2>9 DEF Inv
  <1>3. CASE Tick
    <2>1. /\ TypeOK /\ GaugeAhead /\ RecordsAgree /\ GaugeFresh /\ TornOnlyByOverlap
          /\ Started /\ UptimeNotOverstated
      BY DEF Inv
    <2>2. /\ now \in Nat /\ now' \in 1 .. MaxTime /\ now' = now + 1
          /\ UNCHANGED <<collector, pc, result, records, measures, startTime, hpc, report>>
      BY <1>3, <2>1, ProbeHealthAssumption DEF Tick, TypeOK
    <2>3. /\ lastSuccess' \in [Probes -> 0 .. now'] /\ lastFailure' \in [Probes -> 0 .. now']
          /\ startTime' \in 0 .. now'
      BY <2>1, <2>2 DEF TypeOK, records
    <2>4. TypeOK'
      BY <2>1, <2>2, <2>3 DEF TypeOK, records
    <2>5. /\ GaugeAhead' /\ RecordsAgree' /\ GaugeFresh' /\ TornOnlyByOverlap'
      BY <2>1, <2>2 DEF GaugeAhead, RecordsAgree, GaugeFresh, TornOnlyByOverlap,
         Recording,
         Succeeds, Agree, records
    <2>6. \A h \in Handlers : report[h].clock \in Int /\ report[h].uptime \in Int
      BY <2>1 DEF TypeOK, Report
    <2>7. Started' /\ UptimeNotOverstated'
      BY <2>1, <2>2, <2>6 DEF Started, UptimeNotOverstated
    <2> QED
      BY <2>4, <2>5, <2>7 DEF Inv
  <1>4. CASE UNCHANGED vars
    BY <1>4 DEF vars, records, Inv, TypeOK, GaugeAhead, RecordsAgree, GaugeFresh,
       TornOnlyByOverlap, Started, UptimeNotOverstated, Recording, Succeeds, Agree
  <1> QED
    BY <1>1, <1>2, <1>3, <1>4 DEF Next

\* The next-state relation without the fairness, which safety does not need.
Spec == Init /\ [][Next]_vars

LEMMA Invariance == Spec => []Inv
  BY InitInv, StepInv, PTL DEF Spec

\* Every variable has its type, and no timestamp is ahead of the clock (health.go).
THEOREM TypeCorrect == Spec => []TypeOK
  BY Invariance, PTL DEF Inv

\* Between two recordings of a probe the gauge, the timestamps and the error
\* text say the same, however the recordings of all probes and the requests
\* interleave (health.go:179-198, 223-240).
THEOREM RecordsStayInAgreement == Spec => []RecordsAgree
  BY Invariance, PTL DEF Inv

\* A report that contradicts itself about a probe was made while that probe was
\* recording (health.go:80-122).
THEOREM ContradictionMeansOverlap == Spec => []TornOnlyByOverlap
  BY Invariance, PTL DEF Inv

\* However many first requests race to set the start time, none of them reports
\* more uptime than there was (health.go:51-54).
THEOREM UptimeIsBounded == Spec => []UptimeNotOverstated
  BY Invariance, PTL DEF Inv

-----------------------------------------------------------------------------
(* The identifiers of the series                                            *)

Sorted(K) == [n \in 1 .. Cardinality(K) |-> CHOOSE k \in K : Rank(K, k) = n]

\* Sorting leaves each key where its rank is.
LEMMA SortedRanks ==
    ASSUME NEW K \in SUBSET Int, IsFiniteSet(K)
    PROVE  /\ \A n \in 1 .. Cardinality(K) : Sorted(K)[n] \in K /\ Rank(K, Sorted(K)[n]) = n
           /\ K = {Sorted(K)[n] : n \in 1 .. Cardinality(K)}
  <1>1. \A n \in 1 .. Cardinality(K) : Sorted(K)[n] \in K /\ Rank(K, Sorted(K)[n]) = n
    BY Ranks DEF Sorted
  <1>2. ASSUME NEW k \in K
        PROVE  \E n \in 1 .. Cardinality(K) : k = Sorted(K)[n]
    <2>1. PICK n \in 1 .. Cardinality(K) : n = Rank(K, k)
      BY Ranks
    <2>2. PICK l \in K : l = Sorted(K)[n] /\ Rank(K, l) = n
      BY <1>1
    <2>3. ~(k < l) /\ ~(l < k)
      <3>1. n \in Int
        OBVIOUS
      <3> QED
        BY <2>1, <2>2, <3>1, Ranks
    <2>4. k = l
      <3>1. k \in Int /\ l \in Int
        OBVIOUS
      <3> QED
        BY <2>3, <3>1
    <2> QED
      BY <2>2, <2>4
  <1> QED
    BY <1>1, <1>2

\* Whatever order the keys of a map are handed out in, sorting them gives one
\* sequence, which has all of them, each before the greater ones (filter.go:106).
THEOREM SortedOnce ==
    ASSUME NEW K \in SUBSET Int, IsFiniteSet(K), NEW order \in SetToSeqs(K)
    PROVE  /\ SortedKeys(order) = Sorted(K)
           /\ K = {SortedKeys(order)[n] : n \in DOMAIN SortedKeys(order)}
           /\ \A m, n \in DOMAIN SortedKeys(order) :
                  m < n => SortedKeys(order)[m] < SortedKeys(order)[n]
  <1> DEFINE N == 1 .. Cardinality(K)
  <1>1. order \in [N -> K] /\ \A i, j \in N : i # j => order[i] # order[j]
    BY DEF SetToSeqs
  <1>2. Cardinality(K) \in Nat /\ IsFiniteSet(N) /\ Cardinality(N) = Cardinality(K)
    BY FS_CardinalityType, FS_Interval
  <1>3. Range(order) = K /\ DOMAIN order = N
    <2> HIDE DEF N
    <2>1. order \in Injection(N, K)
      BY <1>1 DEF Injection, IsInjective
    <2>2. order \in Surjection(N, K)
      BY <1>2, <2>1, FS_Injection
    <2> QED
      BY <1>1, <2>2 DEF Surjection, Range
  <1>4. SortedKeys(order) = Sorted(K)
    BY <1>3 DEF SortedKeys, Sorted, Rank
  <1>5. DOMAIN Sorted(K) = N
    BY DEF Sorted
  <1>6. ASSUME NEW m \in N, NEW n \in N, m < n
        PROVE  Sorted(K)[m] < Sorted(K)[n]
    <2>1. PICK k \in K : k = Sorted(K)[m] /\ Rank(K, k) = m
      BY SortedRanks
    <2>2. PICK l \in K : l = Sorted(K)[n] /\ Rank(K, l) = n
      BY SortedRanks
    <2>3. k # l /\ ~(l < k)
      <3>1. m \in Int /\ n \in Int
        OBVIOUS
      <3>2. l < k => Rank(K, l) < Rank(K, k)
        BY Ranks
      <3> QED
        BY <1>6, <2>1, <2>2, <3>1, <3>2
    <2>4. k \in Int /\ l \in Int
      OBVIOUS
    <2>5. k < l
      BY <2>3, <2>4
    <2> QED
      BY <2>1, <2>2, <2>5
  <1>7. K = {Sorted(K)[n] : n \in N}
    BY SortedRanks
  <1> HIDE DEF N
  <1> QED
    BY <1>4, <1>5, <1>6, <1>7, Zenon

\* The keys of a series, and the identifier that its labels in their order give.
KeysOf(s) == Sorted(DOMAIN s.labels)
IdentifierOf(s) ==
    IF Fits(Parts(s, KeysOf(s))) THEN <<Tokens(Parts(s, KeysOf(s))), <<>>>>
    ELSE CutAndHash(Parts(s, KeysOf(s)), s, KeysOf(s))

LEMMA OneIdentifier ==
    ASSUME NEW s \in Series
    PROVE  /\ \A id \in Identifiers[s] : id = IdentifierOf(s)
           /\ s \in LongSeries => ~Fits(Parts(s, KeysOf(s)))
  <1>1. \A order \in KeyOrders(s) : SortedKeys(order) = KeysOf(s)
    BY SeriesAssumption, SortedOnce DEF KeyOrders, KeysOf
  <1>2. \A order \in KeyOrders(s) : metricIdentifier(s, order) = IdentifierOf(s)
    BY <1>1 DEF metricIdentifier, IdentifierOf
  <1> QED
    BY <1>1, <1>2 DEF Identifiers, LongSeries, IsLong

\* The hash in an identifier that is cut tells which series it is.
LEMMA OwnIdentifier ==
    ASSUME NEW s \in Series, NEW t \in Series, ~Fits(Parts(s, KeysOf(s))),
           IdentifierOf(s) = IdentifierOf(t)
    PROVE  s = t
  <1> DEFINE Hash(u) == [i \in DOMAIN KeysOf(u) |-> <<KeysOf(u)[i], u.labels[KeysOf(u)[i]].raw>>]
  <1>1. /\ IdentifierOf(s)[2] = <<s.name.raw, Hash(s)>>
        /\ \/ IdentifierOf(t)[2] = <<>>
           \/ IdentifierOf(t)[2] = <<t.name.raw, Hash(t)>>
    BY DEF IdentifierOf, CutAndHash, metricUUID
  <1>2. s.name.raw = t.name.raw /\ Hash(s) = Hash(t)
    <2>1. \A a, b : <<a, b>> # <<>>
      OBVIOUS
    <2> HIDE DEF Hash
    <2> QED
      BY <1>1, <2>1
  <1>3. \A u \in Series : DOMAIN u.labels \in SUBSET Int /\ IsFiniteSet(DOMAIN u.labels)
    BY SeriesAssumption
  <1>4. \A u \in Series : DOMAIN u.labels = {KeysOf(u)[n] : n \in DOMAIN KeysOf(u)}
    <2> TAKE u \in Series
    <2>1. DOMAIN KeysOf(u) = 1 .. Cardinality(DOMAIN u.labels)
      BY DEF KeysOf, Sorted
    <2>2. DOMAIN u.labels = {KeysOf(u)[n] : n \in 1 .. Cardinality(DOMAIN u.labels)}
      BY <1>3, SortedRanks DEF KeysOf
    <2> QED
      BY <2>1, <2>2
  <1>5. /\ DOMAIN KeysOf(s) = DOMAIN KeysOf(t)
        /\ \A i \in DOMAIN KeysOf(s) :
               /\ KeysOf(s)[i] = KeysOf(t)[i]
               /\ s.labels[KeysOf(s)[i]].raw = t.labels[KeysOf(t)[i]].raw
    <2>1. DOMAIN Hash(s) = DOMAIN KeysOf(s) /\ DOMAIN Hash(t) = DOMAIN KeysOf(t)
      OBVIOUS
    <2>2. \A i \in DOMAIN KeysOf(s) : Hash(s)[i] = <<KeysOf(s)[i], s.labels[KeysOf(s)[i]].raw>>
      OBVIOUS
    <2>3. \A i \in DOMAIN KeysOf(t) : Hash(t)[i] = <<KeysOf(t)[i], t.labels[KeysOf(t)[i]].raw>>
      OBVIOUS
    <2>4. \A a, b, c, d : <<a, b>> = <<c, d>> => a = c /\ b = d
      OBVIOUS
    <2> HIDE DEF Hash
    <2>5. DOMAIN KeysOf(s) = DOMAIN KeysOf(t)
      BY <1>2, <2>1
    <2>6. ASSUME NEW i \in DOMAIN KeysOf(s)
          PROVE  <<KeysOf(s)[i], s.labels[KeysOf(s)[i]].raw>>
                     = <<KeysOf(t)[i], t.labels[KeysOf(t)[i]].raw>>
      <3>1. Hash(s)[i] = <<KeysOf(s)[i], s.labels[KeysOf(s)[i]].raw>>
        BY <2>2
      <3>2. Hash(t)[i] = <<KeysOf(t)[i], t.labels[KeysOf(t)[i]].raw>>
        BY <2>3, <2>5
      <3> QED
        BY <1>2, <3>1, <3>2
    <2> QED
      BY <2>4, <2>5, <2>6
  <1>6. DOMAIN s.labels = DOMAIN t.labels
    <2>1. \A k : k \in DOMAIN s.labels <=> \E n \in DOMAIN KeysOf(s) : k = KeysOf(s)[n]
      BY <1>4
    <2>2. \A k : k \in DOMAIN t.labels <=> \E n \in DOMAIN KeysOf(t) : k = KeysOf(t)[n]
      BY <1>4
    <2>3. \A k : k \in DOMAIN s.labels <=> k \in DOMAIN t.labels
      BY <1>5, <2>1, <2>2
    <2> QED
      BY <2>3
  <1>7. ASSUME NEW k \in DOMAIN s.labels
        PROVE  s.labels[k].raw = t.labels[k].raw
    <2>1. PICK n \in DOMAIN KeysOf(s) : k = KeysOf(s)[n]
      BY <1>4
    <2> QED
      BY <1>5, <2>1
  <1> QED
    BY <1>2, <1>6, <1>7, SeriesAssumption DEF SameTexts

\* Every measure carries an identifier of its series.
Identified == \A p \in Probes : \A m \in measures[p] : m.id \in Identifiers[m.series]

LEMMA IdentifiedStep ==
    ASSUME TypeOK, Identified, [Next]_vars
    PROVE  Identified'
  <1> DEFINE Fresh(p) == \E s \in Series : \E id \in Identifiers[s] :
                 measures' = [measures EXCEPT ![p] = IF result[p] = "numbers"
                                                     THEN {[series |-> s, id |-> id]}
                                                     ELSE {}]
  <1>1. \/ UNCHANGED measures
        \/ \E p \in Probes : measures' = [measures EXCEPT ![p] = {}]
        \/ \E p \in Probes : Fresh(p)
    BY DEF Next, ProbeStep, RecordStep, Collect, Return, EnsureExporter, StoreUp,
       StampSuccess, StampFailure, SamplesToMeasures, Enqueue, HandlerStep, Request,
       StoreStart, ReadClock, ReadStart, ReadExporters, ReadProbes, Respond, Tick, vars
  <1>2. DOMAIN measures = Probes
    BY DEF TypeOK
  <1>3. CASE UNCHANGED measures
    BY <1>3 DEF Identified
  <1>4. CASE \E p \in Probes : measures' = [measures EXCEPT ![p] = {}]
    BY <1>2, <1>4 DEF Identified
  <1>5. ASSUME NEW p \in Probes, Fresh(p)
        PROVE  Identified'
    <2>0. PICK s \in Series : \E id \in Identifiers[s] :
              measures' = [measures EXCEPT ![p] = IF result[p] = "numbers"
                                                  THEN {[series |-> s, id |-> id]} ELSE {}]
      BY <1>5
    <2>1. PICK id \in Identifiers[s] :
              measures' = [measures EXCEPT ![p] = IF result[p] = "numbers"
                                                  THEN {[series |-> s, id |-> id]} ELSE {}]
      BY <2>0
    <2>2. \A m \in {[series |-> s, id |-> id]} : m.id \in Identifiers[m.series]
      OBVIOUS
    <2>3. /\ measures'[p] \subseteq {[series |-> s, id |-> id]}
          /\ \A q \in Probes \ {p} : measures'[q] = measures[q]
      BY <1>2, <2>1
    <2> QED
      BY <2>2, <2>3 DEF Identified
  <1> HIDE DEF Fresh
  <1> QED
    BY <1>1, <1>3, <1>4, <1>5

\* A series has one identifier however its labels come out of the map, and one
\* that is cut belongs to no other series (filter.go:59-60, 98-129).
THEOREM IdentityIsStable == Spec => []StableIdentity
  <1>1. Init => Identified
    BY DEF Init, Identified
  <1>2. TypeOK /\ Identified => StableIdentity
    <2> SUFFICES ASSUME TypeOK, Identified, NEW p \in Probes, NEW m \in measures[p]
                 PROVE  /\ Identifiers[m.series] = {m.id}
                        /\ m.series \in LongSeries =>
                               \A s \in Series \ {m.series} : m.id \notin Identifiers[s]
      BY DEF StableIdentity
    <2>1. m.series \in Series /\ m.id \in Identifiers[m.series]
      BY DEF TypeOK, Identified
    <2>2. m.id = IdentifierOf(m.series)
      BY <2>1, OneIdentifier
    <2>3. Identifiers[m.series] = {m.id}
      BY <2>1, <2>2, OneIdentifier
    <2>4. ASSUME m.series \in LongSeries, NEW s \in Series, s # m.series,
                 m.id \in Identifiers[s]
          PROVE  FALSE
      <3>1. IdentifierOf(m.series) = IdentifierOf(s)
        BY <2>2, <2>4, OneIdentifier
      <3> QED
        BY <2>1, <2>4, <3>1, OneIdentifier, OwnIdentifier
    <2> QED
      BY <2>3, <2>4
  <1> QED
    BY <1>1, <1>2, IdentifiedStep, TypeCorrect, PTL DEF Spec
=============================================================================
