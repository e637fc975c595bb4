------------------------------ MODULE HubQueue ------------------------------
(***************************************************************************)
(* The metrics queue of the hub client (internal/client/hub.go) and the    *)
(* goroutines that share it:                                               *)
(*   - the collectors (internal/collectors), which call EnqueueMetrics;    *)
(*   - the submit loop (runSubmitLoop), which sends the front of the queue *)
(*     in batches, one attempt per iteration, and backs off on failure;    *)
(*   - main, which on shutdown joins the submit loop and then flushes what *)
(*     is left (DrainPending).                                             *)
(* A step is what a goroutine does between two points where another one    *)
(* can interfere: a critical section of pendingMu, a select, an attempt to *)
(* submit.                                                                 *)
(*                                                                         *)
(* A sample is <<t, i>>, the i-th sample of the t-th scrape: all samples   *)
(* of a scrape carry the time of that scrape. How long a back-off or a     *)
(* batching window lasts is left open: its timer may fire at any moment    *)
(* (SubmitBackoff models the lengths). A 401 answer and the key refresh it *)
(* triggers happen inside one attempt (KeyRefresh models them).            *)
(***************************************************************************)
EXTENDS Naturals, Sequences, FiniteSets, Functions

CONSTANTS
    Collectors,           \* the collector goroutines
    MaxSeriesPerRequest,  \* samples per request
    MaxPendingSeries,     \* capacity of the pending queue
    MaxScrapes,           \* bound: scrapes in a behaviour
    MaxScrape,            \* bound: samples of one scrape
    FailedCap,            \* bound: value at which samplesFailed saturates
    LossyNetwork          \* whether a reply may be lost while nobody cancels

ASSUME HubQueueAssumption ==
    /\ MaxSeriesPerRequest \in Nat \ {0}
    /\ MaxPendingSeries \in Nat
    /\ MaxSeriesPerRequest <= MaxPendingSeries
    /\ MaxScrapes \in Nat
    /\ MaxScrape \in Nat
    /\ FailedCap \in Nat
    /\ LossyNetwork \in BOOLEAN

Samples == (1 .. MaxScrapes) \X (1 .. MaxScrape)

\* The two callers of submitBatch that take samples off the queue.
Consumers == {"loop", "drain"}

VARIABLES
    pending,        \* h.pending, oldest first
    notify,         \* whether notifyC (capacity 1) holds a token
    samplesSent,    \* h.samplesSent
    samplesFailed,  \* h.samplesFailed
    scrapes,        \* scrapes so far; the clock that stamps samples
    horizon,        \* samples stamped at or before it are past maxSampleAge
    cpc,            \* where each collector goroutine is
    held,           \* the measures a collector has built and not yet appended
    dropped,        \* EnqueueMetrics' local count of evicted samples
    pc,             \* where the submit loop and main's drain are
    snap,           \* the front of the queue as copied under pendingMu
    batch,          \* the samples of that copy that are submitted
    cancelled,      \* the agent's context is done
    expired         \* the drain's ten seconds are over

\* What happened to each sample; no step reads these.
VARIABLES
    enqueued,       \* samples EnqueueMetrics has appended
    accepted,       \* samples the gateway has stored
    twice,          \* samples the gateway has stored more than once
    lostReply,      \* samples stored by an attempt whose reply never arrived
    discarded       \* samples given up after a 412 or a failed drain attempt

program == <<pending, notify, samplesSent, samplesFailed, scrapes, horizon,
             cpc, held, dropped, pc, snap, batch, cancelled, expired>>
outside == <<enqueued, accepted, twice, lostReply, discarded>>
vars == <<pending, notify, samplesSent, samplesFailed, scrapes, horizon,
          cpc, held, dropped, pc, snap, batch, cancelled, expired,
          enqueued, accepted, twice, lostReply, discarded>>

Stamp(s) == s[1]
Drop(seq, n) == SubSeq(seq, n + 1, Len(seq))
Smaller(m, n) == IF m < n THEN m ELSE n

\* atomic.AddInt64(&h.samplesFailed, n), saturating at the model's bound.
AddFailed(n) == samplesFailed' = Smaller(samplesFailed + n, FailedCap)

Init ==
    /\ pending = <<>>
    /\ notify = FALSE
    /\ samplesSent = 0
    /\ samplesFailed = 0
    /\ scrapes = 0
    /\ horizon = 0
    /\ cpc = [c \in Collectors |-> "waiting"]
    /\ held = [c \in Collectors |-> <<>>]
    /\ dropped = [c \in Collectors |-> 0]
    /\ pc = [k \in Consumers |-> IF k = "loop" THEN "check" ELSE "join"]
    /\ snap = [k \in Consumers |-> <<>>]
    /\ batch = [k \in Consumers |-> {}]
    /\ cancelled = FALSE
    /\ expired = FALSE
    /\ enqueued = {}
    /\ accepted = {}
    /\ twice = {}
    /\ lostReply = {}
    /\ discarded = {}

-----------------------------------------------------------------------------
(* Collectors: the goroutine of collectors.Manager.Run and EnqueueMetrics.  *)

\* A tick runs the collector, which builds n measures stamped with one
\* time.Now(). Go's select may take the tick although the context is done.
Collect(c) ==
    /\ cpc[c] = "waiting"
    /\ scrapes < MaxScrapes
    /\ scrapes' = scrapes + 1
    /\ \E n \in 1 .. MaxScrape :
           held' = [held EXCEPT ![c] = [i \in 1 .. n |-> <<scrapes + 1, i>>]]
    /\ cpc' = [cpc EXCEPT ![c] = "enqueue"]
    /\ UNCHANGED <<pending, notify, samplesSent, samplesFailed, horizon, dropped,
                   pc, snap, batch, cancelled, expired, outside>>

\* Slip: one sample more than the capacity is tolerated.
ExcessLate(seq) ==
    IF Len(seq) > MaxPendingSeries + 1 THEN Len(seq) - MaxPendingSeries ELSE 0

\* Slip: an overflow empties the queue.
ExcessAll(seq) == IF Len(seq) > MaxPendingSeries THEN Len(seq) ELSE 0

\* How many of the oldest samples of a queue exceed its capacity.
Excess(seq) ==
    IF Len(seq) > MaxPendingSeries THEN Len(seq) - MaxPendingSeries ELSE 0

\* EnqueueMetrics under pendingMu: append, then evict the oldest samples that
\* exceed the capacity.
EnqueueAppend(c) ==
    /\ cpc[c] = "enqueue"
    /\ LET appended == pending \o held[c]
       IN  /\ pending' = Drop(appended, Excess(appended))
           /\ dropped' = [dropped EXCEPT ![c] = Excess(appended)]
    /\ enqueued' = enqueued \cup Range(held[c])
    /\ held' = [held EXCEPT ![c] = <<>>]
    /\ cpc' = [cpc EXCEPT ![c] = "notify"]
    /\ UNCHANGED <<notify, samplesSent, samplesFailed, scrapes, horizon, pc, snap,
                   batch, cancelled, expired, accepted, twice, lostReply, discarded>>

\* Slip: the evicted samples are not counted.
EnqueueNotifyOnly(c) ==
    /\ cpc[c] = "notify"
    /\ notify' = TRUE
    /\ dropped' = [dropped EXCEPT ![c] = 0]
    /\ cpc' = [cpc EXCEPT ![c] = "waiting"]
    /\ UNCHANGED <<pending, samplesSent, samplesFailed, scrapes, horizon, held,
                   pc, snap, batch, cancelled, expired, outside>>

\* EnqueueMetrics after the unlock: count the evicted samples and leave a
\* token in notifyC unless one is there already.
EnqueueNotify(c) ==
    /\ cpc[c] = "notify"
    /\ AddFailed(dropped[c])
    /\ notify' = TRUE
    /\ dropped' = [dropped EXCEPT ![c] = 0]
    /\ cpc' = [cpc EXCEPT ![c] = "waiting"]
    /\ UNCHANGED <<pending, samplesSent, scrapes, horizon, held,
                   pc, snap, batch, cancelled, expired, outside>>

CollectorExit(c) ==
    /\ cpc[c] = "waiting"
    /\ cancelled
    /\ cpc' = [cpc EXCEPT ![c] = "exited"]
    /\ UNCHANGED <<pending, notify, samplesSent, samplesFailed, scrapes, horizon,
                   held, dropped, pc, snap, batch, cancelled, expired, outside>>

CollectorStep(c) ==
    Collect(c) \/ EnqueueAppend(c) \/ EnqueueNotify(c) \/ CollectorExit(c)

-----------------------------------------------------------------------------
(* What the submit loop and the drain have in common.                       *)

collecting == <<scrapes, horizon, cpc, held, dropped>>

Goto(k, from, to) ==
    /\ pc[k] = from
    /\ pc' = [pc EXCEPT ![k] = to]

\* A goroutine moves on and touches nothing else.
Move(k, from, to) ==
    /\ Goto(k, from, to)
    /\ UNCHANGED <<pending, notify, samplesSent, samplesFailed, collecting,
                   snap, batch, cancelled, expired, outside>>

\* Copy the front of the queue, at most MaxSeriesPerRequest samples.
CopyFront(k) ==
    snap' = [snap EXCEPT ![k] =
                 SubSeq(pending, 1, Smaller(Len(pending), MaxSeriesPerRequest))]

\* Slip: only as many samples are removed as were submitted.
RemoveSubmitted(k) ==
    /\ pending' = Drop(pending, Cardinality(batch[k]))
    /\ snap' = [snap EXCEPT ![k] = <<>>]
    /\ batch' = [batch EXCEPT ![k] = {}]

\* h.pending = h.pending[batchSize:], after which the copy is dead.
RemoveBatch(k) ==
    /\ pending' = Drop(pending, Len(snap[k]))
    /\ snap' = [snap EXCEPT ![k] = <<>>]
    /\ batch' = [batch EXCEPT ![k] = {}]

\* The context given to submitBatch is done: the agent's for the loop, the
\* drain's own deadline for the drain.
ContextDone(k) == IF k = "loop" THEN cancelled ELSE expired

\* The gateway stores a batch.
Store(k) ==
    /\ accepted' = accepted \cup batch[k]
    /\ twice' = twice \cup (accepted \cap batch[k])

\* submitBatch sends its request; with its context already done it fails
\* without sending anything.
SubmitStart(k) ==
    Move(k, "send", IF ContextDone(k) THEN "failed" ELSE "inflight")

\* Slip: the samples filtered out of the batch count as sent.
SubmitAcceptedAll(k) ==
    /\ Goto(k, "inflight", "sent")
    /\ samplesSent' = samplesSent + Len(snap[k])
    /\ Store(k)
    /\ UNCHANGED <<pending, notify, samplesFailed, collecting, snap, batch,
                   cancelled, expired, enqueued, lostReply, discarded>>

\* A 2xx answer.
SubmitAccepted(k) ==
    /\ Goto(k, "inflight", "sent")
    /\ samplesSent' = samplesSent + Cardinality(batch[k])
    /\ Store(k)
    /\ UNCHANGED <<pending, notify, samplesFailed, collecting, snap, batch,
                   cancelled, expired, enqueued, lostReply, discarded>>

\* A 412 answer: ErrMetricsDisabled.
SubmitDisabled(k) == Move(k, "inflight", "disabled")

\* Any other answer, or no connection: nothing was stored.
SubmitRefused(k) == Move(k, "inflight", "failed")

\* The attempt is abandoned after the gateway stored the batch: the context
\* is done, or the network loses the reply.
SubmitReplyLost(k) ==
    /\ Goto(k, "inflight", "failed")
    /\ ContextDone(k) \/ LossyNetwork
    /\ Store(k)
    /\ lostReply' = lostReply \cup batch[k]
    /\ UNCHANGED <<pending, notify, samplesSent, samplesFailed, collecting, snap,
                   batch, cancelled, expired, enqueued, discarded>>

SubmitBatch(k) ==
    \/ SubmitStart(k)
    \/ SubmitAccepted(k)
    \/ SubmitDisabled(k)
    \/ SubmitRefused(k)
    \/ SubmitReplyLost(k)

-----------------------------------------------------------------------------
(* runSubmitLoop                                                            *)

LoopCheck == Move("loop", "check", IF pending = <<>> THEN "idle" ELSE "window")

\* Idle, or waiting for more samples: a token in notifyC starts over.
LoopTakeNotify(from, to) ==
    /\ Goto("loop", from, to)
    /\ notify
    /\ notify' = FALSE
    /\ UNCHANGED <<pending, samplesSent, samplesFailed, collecting,
                   snap, batch, cancelled, expired, outside>>

LoopIdleNotified == LoopTakeNotify("idle", "check")

\* The batching window closes early on a full batch, and at its deadline.
LoopWindow ==
    \/ Move("loop", "window", "snapshot")
    \/ Len(pending) < MaxSeriesPerRequest /\ Move("loop", "window", "wait")

LoopWaitNotified == LoopTakeNotify("wait", "window")
LoopWaitExpired == Move("loop", "wait", "snapshot")

LoopSnapshot ==
    /\ Goto("loop", "snapshot", IF pending = <<>> THEN "check" ELSE "filter")
    /\ CopyFront("loop")
    /\ UNCHANGED <<pending, notify, samplesSent, samplesFailed, collecting,
                   batch, cancelled, expired, outside>>

\* Slip: stale samples stay in the batch.
LoopKeepStale ==
    /\ Goto("loop", "filter", "send")
    /\ batch' = [batch EXCEPT !["loop"] = Range(snap["loop"])]
    /\ UNCHANGED <<pending, notify, samplesSent, samplesFailed, collecting, snap,
                   cancelled, expired, outside>>

\* filterStaleMetrics, and the test for a batch of nothing but stale samples.
LoopFilter ==
    LET fresh == {s \in Range(snap["loop"]) : Stamp(s) > horizon}
        stale == {i \in DOMAIN snap["loop"] : Stamp(snap["loop"][i]) <= horizon}
    IN  /\ Goto("loop", "filter", IF fresh = {} THEN "allstale" ELSE "send")
        /\ batch' = [batch EXCEPT !["loop"] = fresh]
        /\ AddFailed(Cardinality(stale))
        /\ UNCHANGED <<pending, notify, samplesSent, collecting, snap,
                       cancelled, expired, outside>>

LoopDropStale ==
    /\ Goto("loop", "allstale", "check")
    /\ RemoveBatch("loop")
    /\ UNCHANGED <<notify, samplesSent, samplesFailed, collecting,
                   cancelled, expired, outside>>

LoopSucceeded ==
    /\ Goto("loop", "sent", "unnotify")
    /\ RemoveBatch("loop")
    /\ UNCHANGED <<notify, samplesSent, samplesFailed, collecting,
                   cancelled, expired, outside>>

\* Slip: having drained the token, the loop sleeps without looking again.
LoopDrainNotifyAndSleep ==
    /\ Goto("loop", "unnotify", "idle")
    /\ notify' = FALSE
    /\ UNCHANGED <<pending, samplesSent, samplesFailed, collecting, snap, batch,
                   cancelled, expired, outside>>

\* "Drain stale notify so next idle wait is clean."
LoopDrainNotify ==
    /\ Goto("loop", "unnotify", "check")
    /\ notify' = FALSE
    /\ UNCHANGED <<pending, samplesSent, samplesFailed, collecting, snap, batch,
                   cancelled, expired, outside>>

LoopDisabled ==
    /\ Goto("loop", "disabled", "check")
    /\ RemoveBatch("loop")
    /\ discarded' = discarded \cup Range(snap["loop"])
    /\ UNCHANGED <<notify, samplesSent, samplesFailed, collecting,
                   cancelled, expired, enqueued, accepted, twice, lostReply>>

\* Slip: a failed batch goes to the back of the queue.
LoopFailedRequeue ==
    /\ Goto("loop", "failed", "backoff")
    /\ AddFailed(Len(snap["loop"]))
    /\ pending' = Drop(pending, Len(snap["loop"])) \o snap["loop"]
    /\ snap' = [snap EXCEPT !["loop"] = <<>>]
    /\ batch' = [batch EXCEPT !["loop"] = {}]
    /\ UNCHANGED <<notify, samplesSent, collecting, cancelled, expired, outside>>

\* A failed attempt counts its whole batch and leaves it in the queue.
LoopFailed ==
    /\ Goto("loop", "failed", "backoff")
    /\ AddFailed(Len(snap["loop"]))
    /\ snap' = [snap EXCEPT !["loop"] = <<>>]
    /\ batch' = [batch EXCEPT !["loop"] = {}]
    /\ UNCHANGED <<pending, notify, samplesSent, collecting,
                   cancelled, expired, outside>>

LoopRetry == Move("loop", "backoff", "check")

\* The three selects that watch the context.
LoopExit ==
    /\ cancelled
    /\ \E from \in {"idle", "wait", "backoff"} : Move("loop", from, "exited")

LoopStep ==
    \/ LoopCheck \/ LoopIdleNotified
    \/ LoopWindow \/ LoopWaitNotified \/ LoopWaitExpired
    \/ LoopSnapshot \/ LoopFilter \/ LoopDropStale
    \/ SubmitBatch("loop")
    \/ LoopSucceeded \/ LoopDrainNotify \/ LoopDisabled
    \/ LoopFailed \/ LoopRetry
    \/ LoopExit

-----------------------------------------------------------------------------
(* main after the context is done, and DrainPending                         *)

\* Slip: main does not wait for the submit loop.
DrainWithoutJoin == cancelled /\ Move("drain", "join", "snapshot")

\* mgr.Run returns as soon as the context is done; main then waits for the
\* submit loop only.
DrainJoin ==
    /\ cancelled
    /\ pc["loop"] = "exited"
    /\ Move("drain", "join", "snapshot")

DrainSnapshot ==
    /\ Goto("drain", "snapshot", IF pending = <<>> THEN "done" ELSE "send")
    /\ CopyFront("drain")
    /\ batch' = [batch EXCEPT !["drain"] = Range(snap'["drain"])]
    /\ UNCHANGED <<pending, notify, samplesSent, samplesFailed, collecting,
                   cancelled, expired, outside>>

DrainSucceeded ==
    /\ Goto("drain", "sent", "deadline")
    /\ RemoveBatch("drain")
    /\ UNCHANGED <<notify, samplesSent, samplesFailed, collecting,
                   cancelled, expired, outside>>

\* Slip: a failed batch is kept and tried again.
DrainRetry ==
    /\ \E outcome \in {"disabled", "failed"} : Goto("drain", outcome, "deadline")
    /\ snap' = [snap EXCEPT !["drain"] = <<>>]
    /\ batch' = [batch EXCEPT !["drain"] = {}]
    /\ UNCHANGED <<pending, notify, samplesSent, samplesFailed, collecting,
                   cancelled, expired, outside>>

\* Any failure, a 412 included: log and skip.
DrainSkip ==
    /\ \E outcome \in {"disabled", "failed"} : Goto("drain", outcome, "deadline")
    /\ RemoveBatch("drain")
    /\ discarded' = discarded \cup Range(snap["drain"])
    /\ UNCHANGED <<notify, samplesSent, samplesFailed, collecting,
                   cancelled, expired, enqueued, accepted, twice, lostReply>>

DrainCheckDeadline ==
    Move("drain", "deadline", IF expired THEN "done" ELSE "snapshot")

DrainStep ==
    \/ DrainJoin
    \/ DrainSnapshot
    \/ SubmitBatch("drain")
    \/ DrainSucceeded \/ DrainSkip
    \/ DrainCheckDeadline

-----------------------------------------------------------------------------
(* The world: a shutdown request, and time.                                 *)

\* A signal, or a downloaded update, cancels the agent's context.
Cancel ==
    /\ ~cancelled
    /\ cancelled' = TRUE
    /\ UNCHANGED <<pending, notify, samplesSent, samplesFailed, collecting,
                   pc, snap, batch, expired, outside>>

\* Five minutes have passed since the next scrape.
Age ==
    /\ horizon < scrapes
    /\ horizon' = horizon + 1
    /\ UNCHANGED <<pending, notify, samplesSent, samplesFailed, scrapes, cpc, held,
                   dropped, pc, snap, batch, cancelled, expired, outside>>

\* Ten seconds have passed since the drain began.
DrainExpire ==
    /\ pc["drain"] \notin {"join", "done"}
    /\ ~expired
    /\ expired' = TRUE
    /\ UNCHANGED <<pending, notify, samplesSent, samplesFailed, collecting,
                   pc, snap, batch, cancelled, outside>>

\* Every goroutine has returned.
Terminated ==
    /\ pc["loop"] = "exited"
    /\ pc["drain"] = "done"
    /\ \A c \in Collectors : cpc[c] = "exited"
    /\ UNCHANGED vars

Next ==
    \/ \E c \in Collectors : CollectorStep(c)
    \/ LoopStep
    \/ DrainStep
    \/ Cancel
    \/ Age
    \/ DrainExpire
    \/ Terminated

\* Goroutines are scheduled and timers fire; a select that is offered a done
\* context again and again takes it (Go chooses at random among ready cases).
\* Nothing is assumed of the gateway.
Fairness ==
    /\ \A c \in Collectors :
           /\ WF_vars(EnqueueAppend(c) \/ EnqueueNotify(c))
           /\ SF_vars(CollectorExit(c))
    /\ WF_vars(LoopStep)
    /\ SF_vars(LoopExit)
    /\ WF_vars(DrainStep)
    /\ WF_vars(Age)

Spec == Init /\ [][Next]_vars
FairSpec == Spec /\ Fairness

-----------------------------------------------------------------------------
(* Properties                                                               *)

LoopAt == {"check", "idle", "window", "wait", "snapshot", "filter", "allstale",
           "send", "inflight", "sent", "disabled", "failed", "unnotify",
           "backoff", "exited"}
DrainAt == {"join", "snapshot", "send", "inflight", "sent", "disabled", "failed",
            "deadline", "done"}

\* A consumer holds a copy of the front of the queue, which it will remove or
\* leave there depending on how the attempt ends.
Holding(k) == pc[k] \in {"filter", "allstale", "send", "inflight", "sent",
                         "disabled", "failed"}

\* Every variable has its type; the pending queue never exceeds
\* MaxPendingSeries (hub.go:242-245).
TypeOK ==
    /\ pending \in Seq(Samples)
    /\ Len(pending) <= MaxPendingSeries
    /\ notify \in BOOLEAN
    /\ samplesSent \in Nat
    /\ samplesFailed \in 0 .. FailedCap
    /\ scrapes \in 0 .. MaxScrapes
    /\ horizon \in 0 .. scrapes
    /\ cpc \in [Collectors -> {"waiting", "enqueue", "notify", "exited"}]
    /\ held \in [Collectors -> Seq(Samples)]
    /\ dropped \in [Collectors -> Nat]
    /\ pc \in [Consumers -> LoopAt \cup DrainAt]
    /\ pc["loop"] \in LoopAt
    /\ pc["drain"] \in DrainAt
    /\ snap \in [Consumers -> Seq(Samples)]
    /\ \A k \in Consumers : Len(snap[k]) <= MaxSeriesPerRequest
    /\ batch \in [Consumers -> SUBSET Samples]
    /\ cancelled \in BOOLEAN
    /\ expired \in BOOLEAN
    /\ enqueued \subseteq Samples
    /\ accepted \subseteq Samples
    /\ twice \subseteq Samples
    /\ lostReply \subseteq Samples
    /\ discarded \subseteq Samples

\* pending[batchSize:] is in range whenever a consumer may still evaluate it:
\* evictions by EnqueueMetrics never leave the queue shorter than a copy taken
\* from its front (hub.go:375, 387, 407, 530, 536 would panic otherwise).
SliceInRange == \A k \in Consumers : Holding(k) => Len(snap[k]) <= Len(pending)

\* Why there is only one: main leaves the join after the loop has returned.
DrainAfterLoop == pc["drain"] # "join" => pc["loop"] = "exited"

\* The submit loop never sleeps on work it was not told about: when it is idle
\* and samples are pending, or waits in the batching window and a full batch is
\* pending, then a token is in notifyC or a collector is about to put one there,
\* although the channel holds one token only and a finished submission throws
\* that token away (hub.go:251-254, 306-313, 336-343, 398-402).
NoLostWakeup ==
    \/ pc["loop"] = "idle" /\ pending # <<>>
    \/ pc["loop"] = "wait" /\ Len(pending) >= MaxSeriesPerRequest
    => notify \/ \E c \in Collectors : cpc[c] = "notify"

\* Samples that left the queue without being stored by the gateway and without
\* being discarded after a 412 or a failed drain attempt.
Lost == enqueued \ (Range(pending) \cup accepted \cup discarded)

\* The evictions that EnqueueMetrics has still to count, each with its number.
Uncounted == UNION {{c} \X (1 .. dropped[c]) : c \in Collectors}

\* No sample disappears from the statistics: samplesFailed, together with the
\* evictions a collector is about to count, covers every lost sample, whatever
\* evictions, stale drops and removals interleave (hub.go:240-250, 366-376).
LossIsCounted == Cardinality(Lost) <= samplesFailed + Cardinality(Uncounted)

\* The gateway stores a sample twice only when the reply to an earlier attempt
\* was lost: evictions during an attempt, retries and the drain after the loop
\* never make the agent send again what the gateway has acknowledged
\* (hub.go:384-389, main.go:247).
NoDoubleSubmission == twice \subseteq lostReply

\* samples_submitted_total is exact: every sample whose acknowledgement arrived
\* is counted once, and nothing is counted that the gateway did not store
\* (hub.go:599-602).
SentCounterExact ==
    /\ samplesSent <= Cardinality(accepted)
    /\ Cardinality(accepted \ lostReply) <= samplesSent

\* Removing a batch by its size removes it: once a consumer has advanced past an
\* acknowledged batch, none of its samples is pending any more, even when
\* evictions moved the queue's front, or stale samples were filtered out of the
\* batch, while it was in flight (hub.go:384-389, 527-532).
RemovesItsBatch ==
    [][\A k \in Consumers :
           pc[k] = "sent" /\ pc'[k] # "sent"
               => Range(pending') \cap batch[k] = {}]_vars

\* "Success: remove batch from queue" (hub.go:385): what leaves the queue with a
\* batch is samples of that batch.
RemovesOnlyItsBatch ==
    [][\A k \in Consumers :
           pc[k] = "sent" /\ pc'[k] # "sent"
               => Range(pending) \ Range(pending') \subseteq Range(snap[k])]_vars

\* The queue is what SampleFate promises, whatever goroutines, evictions and
\* failed attempts do: samples keep their order, enter once and leave at the
\* front, as few as an overflow or a request explains (hub.go:235-255, 384-389).
Fate == INSTANCE SampleFate
            WITH Items <- Samples, Capacity <- MaxPendingSeries, MaxOffer <- MaxScrape,
                 MaxSettled <- MaxSeriesPerRequest,
                 queue <- pending, offered <- enqueued, stored <- accepted

RefinesSampleFate == Fate!Spec

\* Nothing stays in the queue for ever while the agent runs, even when no
\* attempt ever succeeds: the batch at the front is delivered, dropped after a
\* 412, evicted, or grows stale and is dropped (hub.go:296-452).
QueueCleansItself ==
    \A s \in Samples :
        s \in Range(pending) ~> (s \notin Range(pending) \/ cancelled)

\* A shutdown request ends the submit loop and the drain, wherever they are and
\* however the gateway answers (main.go:247-256).
ShutdownCompletes == cancelled ~> pc["drain"] = "done"

=============================================================================
