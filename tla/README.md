# A TLA+ model of hyperstack-agent

The agent runs on a customer VM, scrapes node, GPU, vLLM and self metrics, and
submits them in batches to a gateway ("hub"). It is a single Go process of some
ten goroutines. This directory models the parts of it whose correctness depends
on what happens between two steps: the start, the metrics queue and its shutdown,
the key that all requests share, the switches that silence collectors, the
back-off, the bookkeeping behind the health endpoints, the identifiers of series,
and the self-update with its restart.

Line numbers refer to `src/internal/client/hub.go` where no other file is named;
`main.go` is `src/cmd/agent/main.go`, `manager.go` is
`src/internal/update/manager.go` unless written `collectors/manager.go`;
`metadata.go` and `health.go` are in `src/internal/system/`, `filter.go` in
`src/internal/metrics/`.

## 1. The system

| Component | Code | State | Operations |
|---|---|---|---|
| Metrics queue, submit loop, drain | hub.go 213-556 | `pending` (under `pendingMu`), `notifyC` (capacity 1), `samplesSent`, `samplesFailed` | `EnqueueMetrics`, `runSubmitLoop`, `submitBatch`, `DrainPending` |
| Submit back-off | hub.go 278-452, 454-488; jitter.go | `retryAttempts`, `successesSinceFail` (locals of the loop) | one update per outcome of an attempt; `parseRetryAfter`, `capRetryAfter`, `jitter.Duration` |
| Credential, key refresh | hub.go 60-64, 100-209 | `APIKey`, `rawHyperstackKey` (`apiKeyMu`), `lastRefreshAt` (`refreshMu`) | `doWithKeyRefresh`, `refreshHyperstackKey`, `SetHyperstackKey` |
| Collector scheduling, enablement | collectors/, main.go 206-211, 294-357 | `Manager.disabled`, `hub.collectorsRunning`, `VLLMCollector.gate` | tick of a collector, `syncMetricsEnabled` |
| Self-update | update/manager.go, main.go 222-280, 397-449 | staged file, `<executable>.new`, `updateReadyCh`, `restartRelease`, `externalShutdown` | `Check`, `DownloadRelease`, `PromoteRelease`, exit 57 |
| Agent lifecycle | main.go 41-291 | the agent's context, `signalCh`, the schedule and the map that is reported of it | start, shut down, restart for an update |
| Metadata client | metadata.go | the cached instance UUID | startup load with attempts and pauses, `FetchHyperstackKey`, startup metadata submission |
| Health server, probe bookkeeping | health.go | `exporterStats`, `probeLastSuccess`, `probeLastFailure`, `probeLastError`, `startTimeUnix` | success or failure of a probe, `/metrics`, `/healthz` |
| Other gateway requests | hub.go 640-860 | none | `GetMetadata`, `Submit` |
| Metric filter and identifiers | filter.go | none | `FilterSamples`, `SamplesToMeasures`, `metricIdentifier` |
| Parser; probes; configuration | metrics/parser.go, probes/, config/ | none | one pass over a text, reads of the operating system and the environment |

How they interact:

- **Collectors -> queue -> gateway.** Each scheduled collector has its own
  goroutine. On a tick it asks the manager's gate (the vLLM collector also its
  own), scrapes, and calls `EnqueueMetrics`, which appends under `pendingMu`,
  evicts the oldest samples over the capacity, and *after the unlock* counts the
  evictions and puts a token into `notifyC`. The submit loop copies the front of
  the queue under the lock, submits the copy without the lock, and on success
  removes *as many samples as the copy had* from what is then the front.
- **Requests -> key.** The submit loop (later the drain) and the enablement sync
  send requests with the same key. A 401 makes the caller fetch a new key from
  the metadata service, under `refreshMu` and a cool-down, and retry once. main's
  announcement at the start does the same.
- **Sync -> collectors.** Once a minute the sync asks the gateway whether this VM
  reports metrics and applies the answer to three separate variables which the
  collectors and the self metrics read at any time.
- **Start.** main loads UUID and key from the cloud-init file or the metadata
  service, waiting between failures for as long as it takes; then it starts the
  health server, builds the schedule, announces the VM to the gateway, tells the
  hub client who it is, and starts submit loop, sync and collectors, in this order.
- **Probes -> records -> /metrics.** A collector records the result of its probe
  in a gauge and, under another lock, in time stamps; the handlers of `/metrics`
  read both, one after the other, at any moment.
- **main.** A signal, or a release in `updateReadyCh`, cancels the context.
  `mgr.Run` returns, main joins the submit loop, drains the queue with a deadline
  of ten seconds, and then ends, with code 57 if a release was promoted.

What is hard to test here, in short (PROJECT.json lists each hazard at its line):
evictions while a batch is in flight; a token of `notifyC` thrown away while
others append; the gateway storing what the agent believes lost; the drain
overlapping the loop or the collectors; several 401s at once while keys rotate;
one answer applied in three steps; counters that overflow after hours of failure;
a release that changes between announcement and download; crashes and signals in
the middle of a promotion or of the start; version strings nobody foresaw; two
first requests that both set the start time; labels that come out of a map in
another order.

What makes each component correct:

- *Queue*: bounded; never a slice out of range; never asleep on pending work;
  nothing that was acknowledged is submitted again; nothing disappears uncounted;
  every shutdown ends.
- *Back-off*: sleeps as announced, at most a minute, reset only when earned.
- *Key*: moves forward only, to published keys; one fetch per cool-down; a retry
  carries a newer key; after a rotation the client recovers.
- *Enablement*: collectors fall silent only when told to; the vLLM collector
  probes only when confirmed; switching off and on takes effect in the end.
- *Self-update*: only verified, whole, newer executables are installed; exit 57
  means there is one; a shutdown request wins over an update; staged files do not
  pile up; updates arrive.
- *Start*: every request speaks of the same VM; none goes out before the hub client
  has its key, and no step of main undoes a refresh of it; the agent reports the
  collectors it runs; a signal during the start is not lost.
- *Health*: the records of a probe agree; a probe that returns and never succeeds
  any more is reported down; no uptime is overstated.
- *Identifiers*: a series keeps its identifier, and a cut one is not shared.

## 2. Modules

| Module | Models | Kind |
|---|---|---|
| `SampleFate` | what the hub client promises of the samples it is given | abstract specification |
| `HubQueue` | queue, submit loop, drain, collectors as its producers; instantiates `SampleFate` | detailed specification |
| `MCHubQueue` | symmetry for `HubQueue` | TLC |
| `HubQueueProofs` | safety of `HubQueue`, its counters, and that it implements `SampleFate` | proofs |
| `SubmitBackoff` | the counters and the sleep between attempts | detailed specification |
| `SubmitBackoffProofs` | safety of `SubmitBackoff`, for every width of the word | proofs |
| `KeyRollover` | what the client promises about its key | abstract specification |
| `KeyRefresh` | `doWithKeyRefresh`, `refreshHyperstackKey`; instantiates `KeyRollover` | detailed specification |
| `KeyRefreshProofs` | safety of `KeyRefresh`, the refinement included | proofs |
| `MetricsGate` | the sync, both gates, the collectors that read them | detailed specification |
| `MetricsGateProofs` | safety of `MetricsGate` | proofs |
| `VersionOrder` | `parseVersion`, `isHigherVersion` | pure functions |
| `SelfUpdate` | update goroutine, main's part in it, promotion, restart; uses `VersionOrder` | detailed specification |
| `MCSelfUpdate` | the version strings of the run and the reference for their order | TLC |
| `SelfUpdateProofs` | safety of `SelfUpdate`, and that the order of versions is one, and of numbers | proofs |
| `Startup` | main from its first line to its select, the load of the metadata | detailed specification |
| `StartupProofs` | safety of `Startup`, the times of its loads and waits included | proofs |
| `SeriesId` | `metricIdentifier` | pure functions |
| `ProbeHealth` | the records of a probe, `/metrics`, the way from samples to measures; uses `SeriesId` | detailed specification |
| `MCProbeHealth` | the series of the run | TLC |
| `ProbeHealthProofs` | safety of `ProbeHealth`, and that identifiers are stable | proofs |
| `CountingLemmas` | finite sets, sequences and powers of two, as four of the proof modules need them | proofs |

Definitions whose comment begins with "Slip:" are no part of a specification.
Each is a variant of its neighbour with one plausible programming error; the
properties are measured against them (section 6).

### HubQueue and SampleFate

A sample is `<<t, i>>`, the i-th sample of the t-th scrape; its time stamp is `t`,
and `horizon` is the age limit: samples stamped at or before it are older than
`maxSampleAge`. `pending` is `h.pending`, `notify` whether `notifyC` holds its
token, `snap[k]` and `batch[k]` the copy of the queue's front and the samples of
it that are submitted, for the consumers `"loop"` and `"drain"`.

| Actions | Code |
|---|---|
| `Collect`, `CollectorExit` | the goroutine of collectors/manager.go |
| `EnqueueAppend`; `EnqueueNotify` | `EnqueueMetrics` under the lock; after the unlock |
| `LoopCheck`, `LoopIdleNotified` | the emptiness test and the idle select |
| `LoopWindow`, `LoopWaitNotified`, `LoopWaitExpired` | the batching window |
| `LoopSnapshot`, `LoopFilter`, `LoopDropStale` | the copy, `filterStaleMetrics`, a batch of nothing but stale samples |
| `SubmitStart` ... `SubmitReplyLost` | the outcomes of one `submitBatch` |
| `LoopSucceeded`, `LoopDrainNotify`, `LoopDisabled`, `LoopFailed`, `LoopRetry`, `LoopExit` | what the loop does with each outcome |
| `DrainJoin`, `DrainSnapshot`, `DrainSucceeded`, `DrainSkip`, `DrainCheckDeadline` | main.go 236-256 and `DrainPending` |
| `Cancel`, `Age`, `DrainExpire` | a shutdown request; time |

`enqueued`, `accepted`, `twice`, `lostReply` and `discarded` record what became of
each sample; no step reads them.

`SampleFate` has three variables and three actions: samples are offered (and push
out the oldest when there are too many), the oldest are settled, and what was
offered may be delivered. `RefinesSampleFate` is `HubQueue` seen through `queue <-
pending`, `offered <- enqueued`, `stored <- accepted`: all the rest of the loop,
the drain and the collectors is stuttering, or one of the three.

### SubmitBackoff

Only the outcome of an attempt is an input. A `time.Duration` is a signed word from
`-HalfWord` to `HalfWord - 1` which wraps around, as Go's does; `ShiftedDelay` is
`minRetryBackoff * (1 << retryAttempts)` in that arithmetic. `HalfJitter` is the
set of sleeps the jitter may choose.

### KeyRefresh

Keys are numbers in the order of issue, 0 is "no key". `valid` is the key the
gateway accepts, `published` the one the metadata service hands out; each moves
on in its own time. `sent`, `observed` and `fetched` are the three reads of a key
which a call makes at three different moments. One action per read, per answer
and per way out of `refreshHyperstackKey`.
`KeyMovesForward` is the refinement: `Rollover == INSTANCE KeyRollover`, with the
variables of the same names, and `Install` is the only step that maps to `Adopt`.

### MetricsGate

The gateway's answer is a pair, whether metrics are on, off or the field is
absent, and whether the VM is confirmed for dedicated inference. The sync applies
it in three steps (`SetManager`, `SetGauge`, `SetGate`), a collector asks the gates
in two (`AskManager`, `StartScrape`). The queue is a count: `ScrapeDone` adds to it,
`SubmitDisabled` (412) and `Submitted` take from it.

### SelfUpdate and VersionOrder

A version is what `parseVersion` sees of a string: the segments of its core, each a
number or `NotANumber`, and a tag. An executable is a version and two flags:
`intact` (the released bytes) and `whole` (all of them written). The update
goroutine checks, downloads, verifies and sends; main receives, cancels, stops,
decides, and discards or promotes. `passedOver` counts the staged files of releases
that main took from the channel and dropped (main.go:284-286).
`Rename` is the promotion within a file system, `CopyStart`/`CopyDone`/`CopyFailed`
the fallback across devices. `Start` is the service manager; it is external and
modelled from what manager.go:224-225 expects of `ExecStartPre`: verify
`<executable>.new`, swap it in, keep the old executable otherwise.

### Startup

`main` is where main is. `ReadFile` is the cloud-init file, which may be absent,
unreadable, or lack a part; `FetchAnswered`, `FetchFailed` and `FetchPause` are the
attempts of `fetchMetadataWithRetry`, with `spent` the milliseconds of this load;
`Wait` is main's select with the doubled back-off. Then one action per start of a
component, in main's order, the announcement of the VM among them.
`SyncTick` and `SubmitMetrics` begin the requests of goroutines that already run:
their steps may come between any two steps of main. `req[w]` is the request of main,
of the sync or of the submit loop: it is built with the key of that moment (`Build`),
goes out (`Send`), and may be rejected; then another request's key is taken over
(`Adopt`) or the metadata service brings one (`Renew`), and it is built again with
that (`Rebuild`). `Answered` is every other end, an error or a rejection that
brings no key included. Here a refresh is one step of a request; its lock, its
cool-down and the two readings of the key are in `KeyRefresh`. `renewed`, the key that
a refresh brought last, is for the properties: no step reads it.
`scheduled` is what `mgr.Add` got, `enabled` the map that the agent collector
reports, `collectorsRunning` the hub client's count.

### ProbeHealth and SeriesId

A run of a probe is `Collect`, `Return` unless it hangs, then the recording in three steps
(`EnsureExporter` under `exporterMu`, `StoreUp` under no lock, `StampSuccess` or
`StampFailure` under `probeMu`), then `SamplesToMeasures` and `Enqueue`. Whether
unimportant samples are a failure depends on the collector: they are not for the
node, they are for GPU and vLLM. A request to `/metrics` sets the start time when
there is none, reads clock and start time, then the gauge, then the time stamps.
`report[h]` is what it is going to print, and `torn` records that the probe was
recording meanwhile; no step reads it.

A label's key is a number in the order of the keys, and a map hands its keys out in
any order (`KeyOrders`); `SortedKeys` puts the key that has n keys up to it at the
n-th place. `Identifiers` is what can come of a series. Identifiers are sequences of tokens with their sizes; the
cut at 240 characters drops the tokens it goes through, and the hash is taken for
what is hashed, so that "no collision" is an assumption of the model.

## 3. Runs

| Run | Bounds | Distinct states | Shows |
|---|---|---|---|
| `hub_queue_safety` | 2 collectors, capacity 3, batches of 2, 2 scrapes of up to 2 samples, lossy network | 1.6 million | the safety of queue, loop, drain and counters; `HubQueue` implements `SampleFate` |
| `hub_queue_live` | 1 collector, same limits | 57,283 | the queue cleans itself, shutdown completes, with no assumption on the gateway |
| `key_refresh` | 2 callers, 3 keys | 40,615 | one fetch per cool-down, newer keys on retries, refinement of `KeyRollover`; the client recovers after a rotation |
| `submit_backoff` | 16 bits, a second of 6 units, 13 failures | 38,652 | schedule, cap, earned reset, growth |
| `metrics_gate` | 2 collectors, queue of 2 | 109,620 | the gates agree and close only when told; off and on take effect |
| `self_update` | 4 versions, 1 signal, 1 crash | 77,884 | verified, newer, whole; no promotion in a process that was sent a signal; few files; an announced version arrives |
| `startup` | 2 keys, 9 counted rounds of waiting | 177,592 | the wait follows its schedule; requests about one VM, with the newest key in the client; a true self-report; a signal is heeded |
| `probe_health` | 1 probe, 2 requests, 2 seconds, 3 series | 1.33 million | records agree, reports are torn only by overlap, uptime, stable identifiers; a probe that returns and succeeds no more is down |
| four runs that end in a violation | | | section 7 |

Why these bounds are enough for what the runs claim:

- *HubQueue.* Four samples against a capacity of three overflow the queue; two
  scrapes can be appended while a batch of two is in flight, so that the batch is
  evicted partly or wholly; batches of less, exactly and more than the queue's
  length occur; stale, mixed and fresh batches occur. `FailedCap` saturates
  `samplesFailed` at the number of samples: beyond it the counter only makes
  `LossIsCounted` easier to satisfy, and below it the property fails, so that
  `LossCounted` assumes it. The theorems of section 5 hold for all values.
- *KeyRefresh.* The agent has two callers at a time: loop or drain, and the sync.
  Three keys let the key change twice during one call. The theorems of section 5
  hold for any number of callers and keys.
- *SubmitBackoff.* 16 bits with a second of 6 stand for 64 bits with 10^9: in both,
  the doubling passes the cap of a minute (at the 7th failure) well before it
  leaves the word (at the 14th here, at the 35th in the code), and some
  Retry-After overflows. The number of failures in a row is bounded by
  `MaxAttempts` = 13, up to which the schedule holds in the small word; the run
  `submit_backoff_overflow` goes beyond it.
- *MetricsGate.* No counter but the queue's length, which collectors saturate.
- *SelfUpdate.* The versions differ in the number of digits (1.9 and 1.10), in
  length (2) and in the tag, and one is unreadable: there is an update, a second
  one on top, a downgrade and an unreadable version offered between check and
  download. One signal hits every point of main; a crash may hit any step. The
  order itself is checked for each of the four against fifteen strings, proved
  to be an order for all, and to be that of numbers for all of up to three segments.
- *Startup.* The back-off reaches its minute after seven rounds; two more are
  counted. Files, answers and switches take all their values. With two keys the
  client may change to another one, back again, or from none to one, for
  any of three requests that overlap; `OneVM` holds for any number of keys.
- *ProbeHealth.* One probe suffices, since no step of a probe reads another's
  records, and a report is followed for one probe; two requests are what the race
  for the start time needs; two seconds make the two read different clocks. Of the
  three series two differ behind the cut only.

`CHECK_DEADLOCK` is on everywhere; where the program really ends there is an
explicit `Terminated` or `Ended` step.

Types are an invariant of `hub_queue_safety` and, with the bound on the time of a load,
of `startup`. Those of the other components are proved (section 5) for all values
of the constants and not checked again.

## 4. Fairness

- *HubQueue*: goroutines are scheduled and their timers fire (weak fairness); a
  `select` that is offered a done context again and again takes it (strong: Go
  chooses at random among ready cases). Time passes, so samples age. Nothing is
  assumed of the gateway or the network beyond that an attempt ends, which the
  client's timeout and contexts guarantee.
- *KeyRefresh*: calls keep being made (the loop retries, the sync has a ticker); a
  gateway asked again and again rejects a wrong key at some time, a metadata
  service asked again and again answers at some time (strong); the cool-down ends.
- *MetricsGate*: tickers fire; a sync repeated for ever is answered at some time
  (strong); a pending batch is answered with 412 while metrics are off. Scrapes
  return, which only the one of vLLM is bound to do (probes/vllm.go:20): one that
  hangs stays under way for ever, against the letter of `OffIsEffective`, but adds
  nothing to the queue.
- *SelfUpdate*: goroutines run, the service manager restarts the agent (the reason
  for exit code 57, main.go:273; after exit code 0 and a crash it is assumed too, and
  only `UpdateArrives` rests on it); a check, a download with the right bytes, a
  smoke test and, as the agent must be able to write next to its executable, a
  promotion that are tried again and again succeed at some time (strong). Crashes
  and signals are finitely many.
- *Startup*: `FairSpec` says that main runs, its timers fire and its requests time
  out (weak). `AnsweredSpec`, under which `SignalHeeded` is checked, adds that a
  metadata service asked again and again answers at some time (strong); finding 4
  is what happens without it.
- *ProbeHealth*: what a goroutine does after its probe has returned, it goes on
  doing (weak: nothing there waits). Not assumed is that a probe is run, as a gate
  may stay off, nor that it returns: only the vLLM client has a timeout
  (probes/vllm.go:20), the calls into NVML and the reads of the node have none, and
  collectors/manager.go:87 passes the agent's context. A probe that hangs leaves its
  last record, so that `nagent_exporter_up` may say 1 for ever. `FailingProbeIsDown`
  is therefore conditional: if a probe never succeeds any more and returns once, it
  is reported down and stays so, also if it hangs later. Nothing is assumed of
  requests.

No fairness is assumed of shutdown requests, rotations, reconfigurations,
failures, or of what the gateway publishes.

## 5. Proofs

All theorems hold for every value of the constants that satisfies the modules'
assumptions: a batch is at least one sample and fits into the queue, as 1000 and
10000 do (`HubQueueAssumption`); there is a key (`KeyRefreshAssumption`); words and
seconds are positive (`SubmitBackoffAssumption`); there is a collector, and
finitely many (`MetricsGateAssumption`); versions have sequences of numbers
(`SelfUpdateAssumption`); the clock runs for a second at least
(`ProbeHealthAssumption`); a series has finitely many labels and is determined by
its texts (`SeriesAssumption`). Some theorems need more and say so in their
hypotheses: `LossCounted` and `BooksBalance` that the cap on `samplesFailed`, which is
the model's, is out of reach; `SleepFollowsSchedule` and `SleepGrows` that the
schedule fits into the word; `RoomForSchedule` and `PauseVanishes` the code's
second and word; `OrderNumeric` that what is announced has at most three segments;
those on the order of versions that both can be read.

`CountingLemmas` has what several proofs need: disjoint sets add up, an injective
function keeps the count, 2^(n+1) is twice 2^n. The last is induction in disguise,
and proved without: 2^n counts the subsets of 1..n (`FS_SUBSET`), and those of
1..n+1 are these and as many again. Other facts that one would prove by induction
go by a least counterexample: `LeastOf` finds it, the number before it is none, and
the step from one to the other is the contradiction: the comparison of versions of
any length below is proved so. The lemmas on powers and products (`PowerTen`,
`NextMultiple`, `ProductGrows`, `MultipleModulo`) keep arithmetic that is not linear
away from the solver. No step has a literal of 2^62 or more, nor a power of two
literals above 2^2: the prover folds those itself and would round or wrap them.
`CodeConstants` therefore writes 2^63 with a factor, `Giga`, that stays a name.

`HubQueueProofs`:

- `TypeCorrect`: types, and the queue's capacity. Inductive by itself; the work is
  in the lemmas about `Drop`, `Excess` and the copied front.
- `OneConsumer`: from `DrainAfterLoop`, which says *why*: main leaves the join only
  after the loop has returned, and the loop never comes back.
- `NoSlicePanic`: inductive together with `DrainAfterLoop`. An append with evictions
  leaves the queue at least as long as the smaller of its old length and its
  capacity, and no copy is longer than either; the other consumer, which could
  shorten the queue, is not there.
- `WakeupNeverLost`: inductive with the types. A step that makes `pending`
  non-empty puts its collector at `"notify"`, a step that takes a token sends the
  loop to a point where it looks at the queue again.
- `SubmittedOnce`, `BatchRemoved`: `NoDoubleSubmission` is far from inductive. It
  needs `Unique` (no sample is in two places of queue and collectors' hands),
  `CopyInFront` (samples of a copy that are still pending are among the first
  `Len(snap)` of the queue: evictions take from the front and appends go to the
  back), and `Absent` (what is acknowledged is neither pending nor in a copy
  about to be sent, but for the batch whose acknowledgement the consumer is
  holding). `CopyInFront` is what makes removal by size remove the batch; that it
  may remove *more* is finding 1.
- `SentIsExact`: `SentOnce` says that there *is* a set of counted samples: all that
  are acknowledged are in it, all in it are stored, `samplesSent` is its size, and none
  of it is pending or about to be sent. A batch that is acknowledged is therefore
  disjoint from the set and adds exactly its size. The set is not a function of the
  state (a sample whose reply was lost may or may not be in it), which is why
  the invariant quantifies over it.
- `LossCounted`: the invariant `Account` counts a loss where it begins. `Gone` has,
  besides the lost samples, those of a copy in hand that were evicted from the queue:
  the eviction is counted, and the batch may yet be stored. `FilteredOut` has those that
  the filter took out of a batch in flight: they are counted, and may still be
  pending. `Account` says that both together are no more than `samplesFailed` and the
  evictions about to be counted. An eviction of k samples adds at most k
  (`EvictionCounted`). A removal by size takes at most one sample of the next batch
  for each of its own that was evicted meanwhile or filtered out, and those were
  in `Gone` or `FilteredOut` before. The hypothesis `FailedCap >= Cardinality(Samples)`
  puts the model's bound on the counter out of the way; the code's counter has 64 bits.
- `BooksBalance`: the same from the side of the samples. Each that ever entered the
  queue is still in it, or among those counted sent or failed, or in the hands of a
  collector about to count it, or in one of the two sets that the code counts
  nowhere: stored with its reply lost, or given up after a 412 or a failed attempt
  of the drain. It is no equation, because a failed attempt counts its batch every
  time. It takes `Account`, `SentIsExact` and `LossCounted` together.
- `OldestGoFirst`, `DepartedForGood`: in every step what stays of `pending` is a rest
  of it with something new behind (`QueueShifts`). With `Unique` a sample that stays
  therefore keeps all behind it, and one that has gone cannot come back.
- `SilentAfterDrain`: with `DrainAfterLoop` nobody is left who could send.
- `Refinement`: the same invariants and one more, `HeldSized` (a collector about to
  append has at least one sample and at most a scrape's worth). `AppendOffers`,
  `RemovalSettles` and `AttemptDelivers` are the three kinds of step; everything else
  leaves `pending`, `enqueued` and `accepted` alone.

`KeyRefreshProofs`: the invariant `Inv` adds to the checked properties that fetches
do not overlap (`SingleFlight`), how fetches and cool-downs alternate
(`FetchesSpaced`), and the order of the keys a caller has read (`KeysOrdered`: sent
<= observed <= current, and equality with the current key while `refreshMu` is
held). From it follow `TypeCorrect`, `FetchBound`, `RetryIsNewer` and `Refinement`
(every step of `KeyRefresh` is a step of `KeyRollover` or leaves its variables).
`SettledIsQuiet` says that the key is refreshed for a reason only. `Settled` is that
services, metadata service, agent and the requests under way agree on the key; as
long as no service moves on, every step leads from such a state to another, no
request is rejected and no fetch begins.

`SubmitBackoffProofs`: `SleepIsCapped` rests on lemmas about the arithmetic of a
word: whatever a product wraps around to, it is an integer, what exceeds the cap is
cut, half of what is left plus less than half stays below, and a Retry-After ends
at its own cap. It says nothing against a sleep that is too *short* (finding 3):
that is `SleepFollowsSchedule`, under `NoOverflow`, the hypothesis that the delay of
the last failure fits in the signed word. `RoomForSchedule` says what that means in
the code, where a second is 10^9 and the word has 64 bits: at most 34 failures in a
row (13 in the run), and the 35th is the finding. `PauseVanishes` says where it
ends: 10^9 is 2^9 times 5^9, so from the 56th failure in a row on the shift leaves
nothing in the word, and no jitter makes something of it. Within the room the shift
is the power of two that the schedule speaks of (`DelayScheduled`), and the jitter
keeps at least half (`JitterRange`). `SleepGrows` adds that this half is the whole
of the delay before (`HalfIsPrevious`), which takes that 2^(n+1) is twice 2^n.
`ResetNeedsSuccess` needs `Streak`: what the counter of successes has counted is at
the end of what was remembered.

`MetricsGateProofs`: `Applied` says how far the answer in hand has been applied at
each point of the sync; `GatesTold`, that what the gates say has been told. With
them `SleepIsOrdered`, `InferenceIsConfirmed` and `OneStory` follow. `SilenceHolds`:
`Silent` is that the gateway says off, the gates are shut, nothing is pending and no
collector is past its check. Until the gateway changes its answer no step leads
out of it; a sync that fails does not open the gates.

`SelfUpdateProofs`: `Good` is a staged file with the announced bytes, whole, and
newer than what runs. The invariant carries it from the update goroutine
(`WorkGood`) through the channel (`ReadyGood`) and main (`TakenGood`) to the file next
to the executable (`NewFileGood`, which a crash in a copy leaves partial), so that
what `Start` swaps in is verified and newer: `InstalledIsVerified`,
`RestartIsWorthIt`, `VersionsClimb`. `FilesStayFew` needs `FilesBounded`: once the
context is done no new download begins, and a file only moves on.
`ShutdownHasPriority` needs `Remembered`: a signal that was sent to this process is
in `signalCh` or in `externalShutdown`, so that the two looks of main before a
promotion miss none.

The order of versions has theorems of its own, which make `VersionsClimb` mean
something. `HigherTransitive` and `HigherIrreflexive`: updates cannot go round in a
circle. `HigherTotal`: of two versions that can be read one is higher, or they are the
same number. `NeverBack`: what was once left behind is never installed again.
`HigherIsNumeric` says which order it is: up to three segments it is that of the
numbers which the segments spell, to a base above all of them (`DigitByDigit`,
twice); `OrderNumeric` is that for the strings of the run.
`HigherIsNumericAtAnyLength` is the same for any number of segments. The number is
then the last value of a function that shifts in one segment after the other
(`Spells`). There is one (`NumberExists`), and at each prefix comparing the values
is comparing the segments (`PrefixesCompare`); both by the least prefix where it
fails, and `LongerPrefix` for the step.

`StartupProofs`: `InOrder` says what main has done by each point, and which
goroutines cannot run yet; `InTurn`, which requests can be under way by then, and
that a refresh leaves a key behind. With both `OneVM` is inductive: what sends
requests is started after what they carry has been set, and from the moment the
client has the key of the metadata only a refresh replaces it (`NewestKey`); main's
later steps leave it alone. `ReportIsTrue` is about two assignments which must
agree and a count which the sync changes. `TypeCorrect` includes that a load takes
at most 3.6 s, for which `InTime` says how much of that is spent at each attempt:
one share per attempt behind, and the pauses so far, which are 200 ms times
2^(n-1) - 1. `WaitFollowsSchedule` is inductive by itself: below the limit doubling
follows the powers of two, and once cut it stays there.

`ProbeHealthProofs`: `GaugeAhead` (between its last two steps a recording has
the gauge of the time stamps to come) makes `RecordsAgree` inductive;
`GaugeFresh` (a request that has read the gauge, and was not overtaken, still has
it) gives `TornOnlyByOverlap`; `Started` (past the first lines there is a start
time, and no clock that was read is ahead) gives `UptimeNotOverstated`.
`IdentityIsStable` is about all series at once. In a finite set of integers the
ranks are 1 to its size, one each (`Ranks`: a rank is a cardinality, it grows with
the integer, and an injection between sets of one size is onto). So sorting gives
one sequence with all the keys, whatever order they come in (`SortedOnce`);
identifiers depend on nothing else (`OneIdentifier`), and a hash that is equal has
the same keys with the same texts (`OwnIdentifier`).

Every safety property that a run checks is stated by a theorem. Only
model-checked: everything under fairness (`QueueCleansItself`,
`ShutdownCompletes`, `KeyRecovers`, `OffIsEffective`, `OnIsEffective`, `UpdateArrives`,
`SignalHeeded`, `FailingProbeIsDown`), which TLAPS cannot prove. Not proved either
is that the parts of an identifier have the size that `SizeOf` sums up, which is
induction over data; `IdentityIsStable` holds whatever the sizes are.

## 6. Mutants

For every property of every passing run PROJECT.json names a slip: a variant of
one definition (an eviction off by one, a lock not taken, a token thrown away
before sleeping, a digest not compared, labels not sorted) under which TLC finds
that property violated in the same run. A property no such slip can break is not
kept.

## 7. What comments say and the code does not do

Each of these is a run that checks one sentence of the source and finds it
violated; the traces are short.

1. hub.go:387, `hub_queue_stray_removal`: removal goes by the size the batch had.
   Evictions of its samples while it was in flight make it take newer samples that
   were never sent ("remove batch from queue", 385). `LossIsCounted` still holds: as
   many evictions were counted as samples are lost, only other ones.
2. hub.go:198, `key_refresh_adopt`: the key compared against is read after the
   request was built; a refresh in between is not adopted (154).
3. hub.go:430, `submit_backoff_overflow`: at the 35th failure in a row the shifted
   delay overflows and the loop retries without a pause (schedule at 429). Until the
   55th some failures get a pause of up to a minute and thirteen get none.
   `RoomForSchedule` proves that it begins with the 35th, `PauseVanishes` that from
   the 56th on there is no pause at all.
4. main.go:93, `startup_deaf`: the wait for the metadata service selects on a
   context that nothing cancels yet; while the service does not answer, a signal
   does not end the agent ("startup cancelled while waiting", 95).

Read in the code while modelling, part of the models, without a run of their own:

- hub.go:417: `samplesFailed` grows by the batch on every failed attempt ("once per
  batch, not per retry attempt", 415). `LossIsCounted` is therefore a bound from
  below only.
- hub.go:520: the drain does not filter stale samples ("never submitted", 273).
- main.go:249: a batch stored by an attempt that the shutdown cuts off is sent again
  by the drain ("prevents double-submission on shutdown", 247): this is why
  `NoDoubleSubmission` excepts lost replies.
- main.go:251 says "Collectors have exited"; `Manager.Run` waits for none of its
  goroutines. In `HubQueue` collectors append during and after the drain.
- manager.go:156 says "atomicSwap handles the cross-device rename fallback"; the
  fallback writes `<executable>.new` in place. In `SelfUpdate` a crash leaves it
  partial (`CopyStart`), and installation is safe because `ExecStartPre` verifies.
- manager.go:153-155 calls the directory of the executable read-only, and
  `PromoteRelease` writes to it. `UpdateArrives` assumes that it may.
- main.go:284-286: a release that main takes after the first is dropped, its staged
  file stays in the temporary directory. `FewFilesLeft` bounds how many.
- health.go:51-54: the uptime counts from the first request to `/metrics`, not from
  the start; when two first requests race it may fall by a second between reports,
  or be negative in one. `UptimeNotOverstated` is the direction that holds.
- collectors/manager.go:87 runs probes with the agent's context and without a
  time limit: one that hangs keeps its last record (section 4).
- metadata.go:365-367: a readable file without UUID is the whole answer; the agent
  runs without announcement and sync until it is restarted (main.go:204-205).

## 8. Not modelled, and why

- How long things take: timers may fire at any moment, which includes the real
  durations; `SubmitBackoff` and `Startup` model those that are computed.
- Redirects, error bodies, gzip, TLS: data of single requests.
- The text parser and the probes: one pass over a text, reads of the operating
  system, of NVML, of `nvidia-smi` or of an endpoint, without state of their own.
- `IncExporterRestart`, `SetExporterVersion`, `ProbeHealthyWithin`: nothing calls
  them. The gauges of the last scrape and submit durations: single atomic stores
  which nothing is derived from. The listener of the health server: I/O.
- Settings other than the switches of the schedule: values no step tells apart.
- Memory-model races: `VMName` and `InstanceUUID` are written before the loop starts
  and only read afterwards (`InOrder` of `StartupProofs`); all other shared state is under a mutex,
  atomic, or a channel.

## 9. Plan

Done, in this order, the most important behaviour first: `HubQueue`,
`SubmitBackoff`, `KeyRefresh` with `KeyRollover`, `MetricsGate`, `SelfUpdate`; then
`SampleFate` and the refinement, `VersionOrder`, `Startup`, `ProbeHealth` with
`SeriesId`; and the proofs of their safety, those of the counters, schedules,
version numbers and identifiers after the others, and last what holds from some
state on: the queue's order, its balance, and the states in which nothing happens.

Left:

1. `Startup`, main's part of `SelfUpdate` and the drain of `HubQueue` composed into
   one process, and `HubQueue` with `SubmitBackoff`: today each module takes the
   others' part as a single step or an input.
