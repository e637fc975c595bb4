--------------------------- MODULE HubQueueProofs ---------------------------
(***************************************************************************)
(* Theorems about HubQueue, for every set of collectors and all limits:    *)
(* type correctness with the queue's capacity; one consumer at a time, no  *)
(* slice out of range, no lost wakeup; that nothing acknowledged is stored *)
(* again and a batch is removed by its size; and that the counters are     *)
(* right: every acknowledged sample counted once, every lost one covered.  *)
(* At the end, that HubQueue implements SampleFate, and what follows from  *)
(* it all for those who use the queue.                                     *)
(***************************************************************************)
EXTENDS HubQueue, CountingLemmas

-----------------------------------------------------------------------------
(* Lemmas about the operators of the queue.                                 *)

\* What is left of a sequence when its first n elements are dropped.
LEMMA DropProperties ==
    ASSUME NEW S, NEW seq \in Seq(S), NEW n \in Nat
    PROVE  /\ Drop(seq, n) \in Seq(S)
           /\ Len(Drop(seq, n)) = IF n <= Len(seq) THEN Len(seq) - n ELSE 0
           /\ \A i \in 1 .. Len(seq) - n : Drop(seq, n)[i] = seq[n + i]
<1>1. Len(seq) \in Nat /\ \A i \in n + 1 .. Len(seq) : seq[i] \in S
  BY LenProperties, ElementOfSeq
<1>2. /\ SubSeq(seq, n + 1, Len(seq)) \in Seq(S)
      /\ Len(SubSeq(seq, n + 1, Len(seq)))
             = IF n + 1 <= Len(seq) THEN Len(seq) - (n + 1) + 1 ELSE 0
      /\ \A i \in 1 .. Len(seq) - (n + 1) + 1 :
             SubSeq(seq, n + 1, Len(seq))[i] = seq[(n + 1) + i - 1]
  <2>1. n + 1 \in Int /\ Len(seq) \in Int
    BY <1>1
  <2> QED  BY <1>1, <2>1, SubSeqProperties
<1> QED  BY <1>1, <1>2 DEF Drop

\* The queue after an append and the evictions it causes.
LEMMA ExcessProperties ==
    ASSUME NEW seq \in Seq(Samples)
    PROVE  /\ Excess(seq) \in 0 .. Len(seq)
           /\ Drop(seq, Excess(seq)) \in Seq(Samples)
           /\ Len(Drop(seq, Excess(seq))) = Smaller(Len(seq), MaxPendingSeries)
<1>1. Len(seq) \in Nat
  BY LenProperties
<1>2. Excess(seq) \in Nat /\ Excess(seq) <= Len(seq)
  BY <1>1, HubQueueAssumption DEF Excess
<1>3. /\ Drop(seq, Excess(seq)) \in Seq(Samples)
      /\ Len(Drop(seq, Excess(seq))) = Len(seq) - Excess(seq)
  <2> DEFINE n == Excess(seq)
  <2> HIDE DEF n
  <2>1. n \in Nat /\ n <= Len(seq)
    BY <1>2 DEF n
  <2>2. Drop(seq, n) \in Seq(Samples) /\ Len(Drop(seq, n)) = Len(seq) - n
    BY <2>1, <1>1, DropProperties
  <2> QED  BY <2>2 DEF n
<1>4. Len(seq) - Excess(seq) = Smaller(Len(seq), MaxPendingSeries)
  <2>1. Len(seq) \in Nat /\ MaxPendingSeries \in Nat
    BY <1>1, HubQueueAssumption
  <2>2. CASE Len(seq) > MaxPendingSeries
    BY <2>1, <2>2 DEF Excess, Smaller
  <2>3. CASE Len(seq) = MaxPendingSeries
    BY <2>1, <2>3 DEF Excess, Smaller
  <2>4. CASE Len(seq) < MaxPendingSeries
    BY <2>1, <2>4 DEF Excess, Smaller
  <2> QED  BY <2>1, <2>2, <2>3, <2>4
<1> QED  BY <1>1, <1>2, <1>3, <1>4

\* The front of the queue that a consumer copies.
LEMMA FrontProperties ==
    ASSUME NEW seq \in Seq(Samples)
    PROVE  LET front == SubSeq(seq, 1, Smaller(Len(seq), MaxSeriesPerRequest))
           IN  /\ front \in Seq(Samples)
               /\ Len(front) = Smaller(Len(seq), MaxSeriesPerRequest)
               /\ \A i \in 1 .. Len(front) : front[i] = seq[i]
<1> DEFINE n == Smaller(Len(seq), MaxSeriesPerRequest)
<1>1. Len(seq) \in Nat /\ n \in 0 .. Len(seq)
  BY LenProperties, HubQueueAssumption DEF Smaller
<1>2. \A i \in 1 .. n : seq[i] \in Samples
  BY <1>1, ElementOfSeq
<1>3. /\ SubSeq(seq, 1, n) \in Seq(Samples)
      /\ Len(SubSeq(seq, 1, n)) = IF 1 <= n THEN n - 1 + 1 ELSE 0
      /\ \A i \in 1 .. n - 1 + 1 : SubSeq(seq, 1, n)[i] = seq[1 + i - 1]
  <2> HIDE DEF n
  <2> QED  BY <1>1, <1>2, SubSeqProperties
<1> HIDE DEF n
<1>4. /\ SubSeq(seq, 1, n) \in Seq(Samples)
      /\ Len(SubSeq(seq, 1, n)) = n
      /\ \A i \in 1 .. Len(SubSeq(seq, 1, n)) : SubSeq(seq, 1, n)[i] = seq[i]
  BY <1>1, <1>3
<1> QED  BY <1>4 DEF n

LEMMA SamplesFinite == IsFiniteSet(Samples)
<1>1. IsFiniteSet(1 .. MaxScrapes) /\ IsFiniteSet(1 .. MaxScrape)
  BY FS_Interval, HubQueueAssumption
<1> QED  BY <1>1, FS_Product DEF Samples

-----------------------------------------------------------------------------
(* Type correctness                                                         *)

\* What removing a batch does to the types of what it writes.
LEMMA RemoveBatchType ==
    ASSUME TypeOK, NEW k \in Consumers, RemoveBatch(k)
    PROVE  /\ pending' \in Seq(Samples)
           /\ Len(pending') <= MaxPendingSeries
           /\ snap' \in [Consumers -> Seq(Samples)]
           /\ \A j \in Consumers : Len(snap'[j]) <= MaxSeriesPerRequest
           /\ batch' \in [Consumers -> SUBSET Samples]
<1>1. Len(snap[k]) \in Nat /\ Len(pending) \in Nat
  BY LenProperties DEF TypeOK
<1>2. pending' \in Seq(Samples) /\ Len(pending') <= MaxPendingSeries
  <2> DEFINE n == Len(snap[k])
  <2>1. pending \in Seq(Samples) /\ n \in Nat /\ pending' = Drop(pending, n)
    BY <1>1 DEF TypeOK, RemoveBatch
  <2> HIDE DEF n
  <2>2. /\ Drop(pending, n) \in Seq(Samples)
        /\ Len(Drop(pending, n)) = IF n <= Len(pending) THEN Len(pending) - n ELSE 0
    BY <1>1, <2>1, DropProperties
  <2> QED  BY <1>1, <2>1, <2>2, HubQueueAssumption DEF TypeOK
<1>3. <<>> \in Seq(Samples) /\ Len(<<>>) = 0
  BY EmptySeq
<1> QED  BY <1>2, <1>3, HubQueueAssumption DEF TypeOK, RemoveBatch

LEMMA SnapRange == TypeOK => \A k \in Consumers : Range(snap[k]) \subseteq Samples
BY RangeOfSeq DEF TypeOK

\* Every step of every goroutine keeps every variable in its type.
LEMMA TypeOKStep == TypeOK /\ [Next]_vars => TypeOK'
<1> SUFFICES ASSUME TypeOK, [Next]_vars PROVE TypeOK'
  OBVIOUS
<1> USE HubQueueAssumption DEF Consumers
<1>1. ASSUME NEW c \in Collectors, Collect(c) PROVE TypeOK'
  <2>1. PICK n \in 1 .. MaxScrape :
            held' = [held EXCEPT ![c] = [i \in 1 .. n |-> <<scrapes + 1, i>>]]
    BY <1>1 DEF Collect
  <2>2. [i \in 1 .. n |-> <<scrapes + 1, i>>] \in [1 .. n -> Samples]
    BY SMTT(30), <1>1 DEF Collect, TypeOK, Samples
  <2>3. [i \in 1 .. n |-> <<scrapes + 1, i>>] \in Seq(Samples)
    BY <2>2, SeqDef
  <2> QED  BY <1>1, <2>1, <2>3 DEF Collect, TypeOK, outside
<1>2. ASSUME NEW c \in Collectors, EnqueueAppend(c) PROVE TypeOK'
  <2> DEFINE appended == pending \o held[c]
  <2>1. appended \in Seq(Samples)
    BY <1>2, ConcatProperties DEF TypeOK
  <2>2. /\ Drop(appended, Excess(appended)) \in Seq(Samples)
        /\ Len(Drop(appended, Excess(appended))) <= MaxPendingSeries
        /\ Excess(appended) \in Nat
    <3>1. Len(appended) \in Nat
      BY <2>1, LenProperties
    <3> HIDE DEF appended
    <3> QED  BY <2>1, <3>1, ExcessProperties DEF Smaller
  <2>3. Range(held[c]) \subseteq Samples
    BY RangeOfSeq DEF TypeOK
  <2>4. <<>> \in Seq(Samples)
    BY EmptySeq
  <2> QED  BY <1>2, <2>2, <2>3, <2>4 DEF EnqueueAppend, TypeOK
<1>3. ASSUME NEW c \in Collectors, EnqueueNotify(c) PROVE TypeOK'
  BY SMTT(30), <1>3 DEF EnqueueNotify, AddFailed, Smaller, TypeOK, outside
<1>4. ASSUME NEW c \in Collectors, CollectorExit(c) PROVE TypeOK'
  BY <1>4 DEF CollectorExit, TypeOK, outside
<1>5. ASSUME NEW k \in Consumers, SubmitBatch(k) PROVE TypeOK'
  <2>1. CASE SubmitAccepted(k)
    <3>1. Cardinality(batch[k]) \in Nat
      BY SamplesFinite, FS_Subset, FS_CardinalityType DEF TypeOK
    <3> QED  BY <2>1, <3>1 DEF SubmitAccepted, Goto, Store, TypeOK, collecting,
                               LoopAt, DrainAt
  <2>2. CASE SubmitReplyLost(k)
    BY <2>2 DEF SubmitReplyLost, Goto, Store, TypeOK, collecting, LoopAt, DrainAt
  <2>3. CASE SubmitStart(k) \/ SubmitDisabled(k) \/ SubmitRefused(k)
    BY SMTT(30), <2>3 DEF SubmitStart, SubmitDisabled, SubmitRefused, Move, Goto, TypeOK,
                collecting, outside, LoopAt, DrainAt
  <2> QED  BY <1>5, <2>1, <2>2, <2>3 DEF SubmitBatch
<1>6. ASSUME LoopStep, ~SubmitBatch("loop") PROVE TypeOK'
  <2>1. CASE \/ LoopCheck \/ LoopWindow \/ LoopWaitExpired \/ LoopRetry \/ LoopExit
    BY SMTT(30), <2>1 DEF LoopCheck, LoopWindow, LoopWaitExpired, LoopRetry, LoopExit,
                Move, Goto, TypeOK, collecting, outside, LoopAt, DrainAt
  <2>2. CASE LoopIdleNotified \/ LoopWaitNotified \/ LoopDrainNotify
    BY <2>2 DEF LoopIdleNotified, LoopWaitNotified, LoopTakeNotify, LoopDrainNotify,
                Goto, TypeOK, collecting, outside, LoopAt, DrainAt
  <2>3. CASE LoopSnapshot
    BY <2>3, FrontProperties DEF LoopSnapshot, CopyFront, Goto, TypeOK, collecting,
                outside, LoopAt, DrainAt, Smaller
  <2>4. CASE LoopFilter
    <3> DEFINE stale == {i \in DOMAIN snap["loop"] : Stamp(snap["loop"][i]) <= horizon}
               fresh == {s \in Range(snap["loop"]) : Stamp(s) > horizon}
    <3>1. Range(snap["loop"]) \subseteq Samples
      BY RangeOfSeq DEF TypeOK
    <3>2. Cardinality(stale) \in Nat
      <4>1. DOMAIN snap["loop"] = 1 .. Len(snap["loop"]) /\ Len(snap["loop"]) \in Nat
        BY LenProperties DEF TypeOK
      <4>2. IsFiniteSet(1 .. Len(snap["loop"])) /\ stale \in SUBSET (1 .. Len(snap["loop"]))
        BY <4>1, FS_Interval
      <4> HIDE DEF stale
      <4> QED  BY <4>2, FS_Subset, FS_CardinalityType
    <3>3. batch' = [batch EXCEPT !["loop"] = fresh] /\ AddFailed(Cardinality(stale))
      BY <2>4 DEF LoopFilter
    <3> HIDE DEF stale, fresh
    <3>4. fresh \subseteq Samples
      BY <3>1 DEF fresh
    <3>5. Goto("loop", "filter", "allstale") \/ Goto("loop", "filter", "send")
      BY <2>4 DEF LoopFilter
    <3>6. UNCHANGED <<pending, notify, samplesSent, collecting, snap,
                      cancelled, expired, outside>>
      BY <2>4 DEF LoopFilter
    <3> QED  BY <3>2, <3>3, <3>4, <3>5, <3>6
             DEF AddFailed, Goto, TypeOK, collecting, outside, LoopAt, DrainAt, Smaller
  <2>5. CASE LoopDropStale \/ LoopSucceeded \/ LoopDisabled
    <3>1. RemoveBatch("loop")
      BY <2>5 DEF LoopDropStale, LoopSucceeded, LoopDisabled
    <3>2. /\ pending' \in Seq(Samples) /\ Len(pending') <= MaxPendingSeries
          /\ snap' \in [Consumers -> Seq(Samples)]
          /\ \A j \in Consumers : Len(snap'[j]) <= MaxSeriesPerRequest
          /\ batch' \in [Consumers -> SUBSET Samples]
      BY <3>1, RemoveBatchType
    <3>3. /\ pc' \in [Consumers -> LoopAt \cup DrainAt]
          /\ pc'["loop"] \in LoopAt /\ pc'["drain"] \in DrainAt
      BY <2>5 DEF LoopDropStale, LoopSucceeded, LoopDisabled, Goto, TypeOK, LoopAt, DrainAt
    <3>4. discarded' \subseteq Samples
      BY <2>5, SnapRange DEF LoopDropStale, LoopSucceeded, LoopDisabled, TypeOK, outside
    <3>5. UNCHANGED <<notify, samplesSent, samplesFailed, collecting, cancelled,
                      expired, enqueued, accepted, twice, lostReply>>
      BY <2>5 DEF LoopDropStale, LoopSucceeded, LoopDisabled, outside
    <3> QED  BY <3>2, <3>3, <3>4, <3>5 DEF TypeOK, collecting
  <2>6. CASE LoopFailed
    BY <2>6, EmptySeq, LenProperties DEF LoopFailed, AddFailed, Goto, TypeOK, collecting,
                outside, LoopAt, DrainAt, Smaller
  <2> QED  BY <1>6, <2>1, <2>2, <2>3, <2>4, <2>5, <2>6 DEF LoopStep
<1>7. ASSUME DrainStep, ~SubmitBatch("drain") PROVE TypeOK'
  <2>1. CASE DrainJoin \/ DrainCheckDeadline
    BY <2>1 DEF DrainJoin, DrainCheckDeadline, Move, Goto, TypeOK, collecting, outside,
                LoopAt, DrainAt
  <2>2. CASE DrainSnapshot
    <3> DEFINE front == SubSeq(pending, 1, Smaller(Len(pending), MaxSeriesPerRequest))
    <3>1. front \in Seq(Samples) /\ Len(front) = Smaller(Len(pending), MaxSeriesPerRequest)
      BY FrontProperties DEF TypeOK
    <3>2. snap' = [snap EXCEPT !["drain"] = front]
      BY <2>2 DEF DrainSnapshot, CopyFront
    <3> HIDE DEF front
    <3>3. Len(front) <= MaxSeriesPerRequest
      BY <3>1, LenProperties DEF TypeOK, Smaller
    <3>4. Range(front) \subseteq Samples
      BY <3>1, RangeOfSeq
    <3>5. batch' = [batch EXCEPT !["drain"] = Range(front)]
      BY <2>2, <3>2 DEF DrainSnapshot, TypeOK
    <3> QED  BY <2>2, <3>1, <3>2, <3>3, <3>4, <3>5
             DEF DrainSnapshot, Goto, TypeOK, collecting, outside, LoopAt, DrainAt
  <2>3. CASE DrainSucceeded \/ DrainSkip
    <3>1. RemoveBatch("drain")
      BY <2>3 DEF DrainSucceeded, DrainSkip
    <3>2. /\ pending' \in Seq(Samples) /\ Len(pending') <= MaxPendingSeries
          /\ snap' \in [Consumers -> Seq(Samples)]
          /\ \A j \in Consumers : Len(snap'[j]) <= MaxSeriesPerRequest
          /\ batch' \in [Consumers -> SUBSET Samples]
      BY <3>1, RemoveBatchType
    <3>3. /\ pc' \in [Consumers -> LoopAt \cup DrainAt]
          /\ pc'["loop"] \in LoopAt /\ pc'["drain"] \in DrainAt
      BY <2>3 DEF DrainSucceeded, DrainSkip, Goto, TypeOK, LoopAt, DrainAt
    <3>4. discarded' \subseteq Samples
      BY <2>3, SnapRange DEF DrainSucceeded, DrainSkip, TypeOK, outside
    <3>5. UNCHANGED <<notify, samplesSent, samplesFailed, collecting, cancelled,
                      expired, enqueued, accepted, twice, lostReply>>
      BY <2>3 DEF DrainSucceeded, DrainSkip, outside
    <3> QED  BY <3>2, <3>3, <3>4, <3>5 DEF TypeOK, collecting
  <2> QED  BY <1>7, <2>1, <2>2, <2>3 DEF DrainStep
<1>8. CASE Cancel \/ DrainExpire
  BY <1>8 DEF Cancel, DrainExpire, TypeOK, collecting, outside
<1>9. CASE Age
  BY <1>9 DEF Age, TypeOK, outside
<1>10. CASE Terminated \/ UNCHANGED vars
  BY <1>10 DEF Terminated, vars, TypeOK
<1> QED
  BY <1>1, <1>2, <1>3, <1>4, <1>5, <1>6, <1>7, <1>8, <1>9, <1>10
  DEF Next, CollectorStep, LoopStep, DrainStep

LEMMA InitPlaces == Init => pc["loop"] = "check" /\ pc["drain"] = "join"
BY DEF Init, Consumers

\* The type invariant, the capacity of the pending queue (MaxPendingSeries) and
\* the size of a batch (MaxSeriesPerRequest) included, holds in every reachable
\* state (hub.go:28-29, 241-245, 352-355).
THEOREM TypeCorrect == Spec => []TypeOK
<1>1. Init => TypeOK
  <2>1. <<>> \in Seq(Samples) /\ Len(<<>>) = 0
    BY EmptySeq
  <2>2. ASSUME Init
        PROVE  /\ pc \in [Consumers -> LoopAt \cup DrainAt]
               /\ pc["loop"] \in LoopAt /\ pc["drain"] \in DrainAt
               /\ snap \in [Consumers -> Seq(Samples)]
               /\ \A k \in Consumers : snap[k] = <<>>
               /\ batch \in [Consumers -> SUBSET Samples]
    BY <2>1, <2>2 DEF Init, Consumers, LoopAt, DrainAt
  <2>3. ASSUME Init
        PROVE  /\ cpc \in [Collectors -> {"waiting", "enqueue", "notify", "exited"}]
               /\ held \in [Collectors -> Seq(Samples)]
               /\ dropped \in [Collectors -> Nat]
    BY <2>1, <2>3 DEF Init
  <2>4. ASSUME Init
        PROVE  /\ pending \in Seq(Samples) /\ Len(pending) <= MaxPendingSeries
               /\ samplesSent \in Nat /\ samplesFailed \in 0 .. FailedCap
               /\ scrapes \in 0 .. MaxScrapes /\ horizon \in 0 .. scrapes
               /\ \A k \in Consumers : Len(snap[k]) <= MaxSeriesPerRequest
    BY <2>1, <2>2, <2>4, HubQueueAssumption DEF Init
  <2>5. ASSUME Init
        PROVE  /\ notify \in BOOLEAN /\ cancelled \in BOOLEAN /\ expired \in BOOLEAN
               /\ enqueued \subseteq Samples /\ accepted \subseteq Samples
               /\ twice \subseteq Samples /\ lostReply \subseteq Samples
               /\ discarded \subseteq Samples
    BY <2>5 DEF Init
  <2> QED  BY <2>2, <2>3, <2>4, <2>5 DEF TypeOK
<1> QED  BY <1>1, TypeOKStep, PTL DEF Spec

-----------------------------------------------------------------------------
(* One consumer at a time, and no slice out of range                        *)

\* The steps that leave the queue, the copies and who holds one alone; at most
\* they filter a batch.
QuietStep ==
    /\ UNCHANGED <<pending, snap>>
    /\ \A k \in Consumers : Holding(k)' <=> Holding(k)
    /\ \A k \in Consumers : pc[k] = "sent" => pc'[k] = "sent"
    /\ \A k \in Consumers :
           \/ batch'[k] = batch[k]
           \/ Holding(k) /\ pc[k] # "sent" /\ batch'[k] \subseteq Range(snap[k])

\* The steps that end with h.pending[batchSize:].
RemoveStep(k) ==
    /\ Holding(k)
    /\ RemoveBatch(k)
    /\ ~Holding(k)'
    /\ \A j \in Consumers : j # k => pc'[j] = pc[j]

\* The steps that copy the front of the queue; an empty queue is not held.
CopyStep(k) ==
    /\ UNCHANGED pending
    /\ CopyFront(k)
    /\ pc[k] = "snapshot"
    /\ \A j \in Consumers : j # k => pc'[j] = pc[j] /\ batch'[j] = batch[j]
    /\ IF Holding(k)' THEN batch'[k] \subseteq batch[k] \cup Range(snap'[k])
                      ELSE batch'[k] \subseteq batch[k]

\* The steps that drop the copy after a failed attempt.
ForgetStep ==
    /\ UNCHANGED pending
    /\ pc["loop"] = "failed"
    /\ ~Holding("loop")'
    /\ batch'["loop"] = {}
    /\ pc'["drain"] = pc["drain"]
    /\ snap'["drain"] = snap["drain"]
    /\ batch'["drain"] = batch["drain"]

\* Every step is an append or one of these kinds.
LEMMA StepKinds ==
    ASSUME TypeOK, [Next]_vars
    PROVE  \/ \E c \in Collectors : EnqueueAppend(c)
           \/ QuietStep
           \/ \E k \in Consumers : RemoveStep(k)
           \/ \E k \in Consumers : CopyStep(k)
           \/ ForgetStep
<1> USE DEF Consumers
<1>1. ASSUME NEW c \in Collectors, Collect(c) \/ EnqueueNotify(c) \/ CollectorExit(c)
      PROVE  QuietStep
  BY <1>1 DEF Collect, EnqueueNotify, CollectorExit, QuietStep, Holding, outside
<1>2. ASSUME NEW k \in Consumers, SubmitBatch(k) PROVE QuietStep
  BY <1>2 DEF SubmitBatch, SubmitStart, SubmitAccepted, SubmitDisabled, SubmitRefused,
              SubmitReplyLost, Move, Goto, QuietStep, Holding, TypeOK
<1>3. CASE LoopStep /\ ~SubmitBatch("loop")
  <2>1. CASE LoopCheck \/ LoopWindow \/ LoopWaitExpired \/ LoopRetry \/ LoopExit
    <3>1. QuietStep
      BY <2>1 DEF LoopCheck, LoopWindow, LoopWaitExpired, LoopRetry, LoopExit, Move,
                  Goto, QuietStep, Holding, TypeOK
    <3> QED  BY <3>1
  <2>2. CASE LoopIdleNotified \/ LoopWaitNotified \/ LoopDrainNotify
    <3>1. QuietStep
      BY <2>2 DEF LoopIdleNotified, LoopWaitNotified, LoopTakeNotify, LoopDrainNotify,
                  Goto, QuietStep, Holding, TypeOK
    <3> QED  BY <3>1
  <2>6. CASE LoopFilter
    <3> DEFINE fresh == {s \in Range(snap["loop"]) : Stamp(s) > horizon}
    <3>1. /\ batch' = [batch EXCEPT !["loop"] = fresh] /\ fresh \subseteq Range(snap["loop"])
          /\ pending' = pending /\ snap' = snap
      BY <2>6 DEF LoopFilter
    <3>2. Goto("loop", "filter", "allstale") \/ Goto("loop", "filter", "send")
      BY <2>6 DEF LoopFilter
    <3> HIDE DEF fresh
    <3>3. QuietStep
      BY <3>1, <3>2 DEF Goto, QuietStep, Holding, TypeOK
    <3> QED  BY <3>3
  <2>3. CASE LoopSnapshot
    <3>1. CopyStep("loop")
      BY <2>3 DEF LoopSnapshot, Goto, CopyStep, Holding, TypeOK
    <3> QED  BY <3>1
  <2>4. CASE LoopDropStale \/ LoopSucceeded \/ LoopDisabled
    BY <2>4 DEF LoopDropStale, LoopSucceeded, LoopDisabled, Goto, RemoveStep, Holding,
                TypeOK
  <2>5. CASE LoopFailed
    BY <2>5 DEF LoopFailed, Goto, ForgetStep, Holding, TypeOK
  <2> QED  BY <1>3, <2>1, <2>2, <2>3, <2>4, <2>5, <2>6 DEF LoopStep
<1>4. CASE DrainStep /\ ~SubmitBatch("drain")
  <2>1. CASE DrainJoin \/ DrainCheckDeadline
    <3>1. QuietStep
      BY <2>1 DEF DrainJoin, DrainCheckDeadline, Move, Goto, QuietStep, Holding, TypeOK
    <3> QED  BY <3>1
  <2>2. CASE DrainSnapshot
    <3>1. /\ CopyFront("drain") /\ pending' = pending
          /\ batch' = [batch EXCEPT !["drain"] = Range(snap'["drain"])]
      BY <2>2 DEF DrainSnapshot
    <3>2. CASE pending = <<>>
      <4>1. snap'["drain"] = <<>>
        BY <3>1, <3>2, EmptySeq, SubSeqEmpty, HubQueueAssumption
           DEF CopyFront, TypeOK, Smaller
      <4>2. Range(snap'["drain"]) = {}
        BY <4>1 DEF Range
      <4>3. CopyStep("drain")
        BY <2>2, <3>1, <3>2, <4>2 DEF DrainSnapshot, Goto, CopyStep, Holding, TypeOK
      <4> QED  BY <4>3
    <3>3. CASE pending # <<>>
      <4>1. CopyStep("drain")
        BY <2>2, <3>1, <3>3 DEF DrainSnapshot, Goto, CopyStep, Holding, TypeOK
      <4> QED  BY <4>1
    <3> QED  BY <3>2, <3>3
  <2>3. CASE DrainSucceeded \/ DrainSkip
    BY <2>3 DEF DrainSucceeded, DrainSkip, Goto, RemoveStep, Holding, TypeOK
  <2> QED  BY <1>4, <2>1, <2>2, <2>3 DEF DrainStep
<1>5. CASE Cancel \/ Age \/ DrainExpire \/ Terminated \/ UNCHANGED vars
  <2>1. QuietStep
    BY <1>5 DEF Cancel, Age, DrainExpire, Terminated, vars, QuietStep, Holding
  <2> QED  BY <2>1
<1> QED  BY <1>1, <1>2, <1>3, <1>4, <1>5 DEF Next, CollectorStep, LoopStep, DrainStep

LEMMA DrainAfterLoopStep == TypeOK /\ DrainAfterLoop /\ [Next]_vars => DrainAfterLoop'
<1> SUFFICES ASSUME TypeOK, DrainAfterLoop, [Next]_vars PROVE DrainAfterLoop'
  OBVIOUS
<1> USE DEF Consumers, DrainAfterLoop
<1>1. CASE pc' = pc
  BY <1>1
<1>2. ASSUME NEW k \in Consumers, SubmitBatch(k) PROVE DrainAfterLoop'
  BY <1>2 DEF SubmitBatch, SubmitStart, SubmitAccepted, SubmitDisabled, SubmitRefused,
              SubmitReplyLost, Move, Goto, TypeOK
<1>3. CASE LoopStep
  BY <1>3, <1>2 DEF LoopStep, LoopCheck, LoopIdleNotified, LoopWindow, LoopWaitNotified,
                    LoopWaitExpired, LoopSnapshot, LoopFilter, LoopDropStale,
                    LoopSucceeded, LoopDrainNotify, LoopDisabled, LoopFailed, LoopRetry,
                    LoopExit, LoopTakeNotify, Move, Goto, TypeOK
<1>4. CASE DrainStep
  BY <1>4, <1>2 DEF DrainStep, DrainJoin, DrainSnapshot, DrainSucceeded, DrainSkip,
                    DrainCheckDeadline, Move, Goto, TypeOK
<1> QED
  BY <1>1, <1>3, <1>4 DEF Next, vars, CollectorStep, Collect, EnqueueAppend, EnqueueNotify,
                          CollectorExit, Cancel, Age, DrainExpire, Terminated

\* The submit loop and the drain never both hold a copy of the queue's front.
SingleConsumer == ~(Holding("loop") /\ Holding("drain"))

\* The drain starts after the submit loop has returned (main.go:247-249), so at
\* most one of them holds a copy of the queue's front.
THEOREM OneConsumer == Spec => []SingleConsumer
<1>1. Init => DrainAfterLoop
  BY InitPlaces DEF DrainAfterLoop
<1>2. TypeOK /\ DrainAfterLoop => SingleConsumer
  BY DEF DrainAfterLoop, SingleConsumer, Holding
<1> QED  BY <1>1, <1>2, DrainAfterLoopStep, TypeCorrect, PTL DEF Spec

LEMMA SliceInRangeStep ==
    TypeOK /\ TypeOK' /\ DrainAfterLoop /\ SliceInRange /\ [Next]_vars => SliceInRange'
<1> SUFFICES ASSUME TypeOK, TypeOK', DrainAfterLoop, SliceInRange, [Next]_vars,
                    NEW k \in Consumers, Holding(k)'
             PROVE  Len(snap'[k]) <= Len(pending')
  BY DEF SliceInRange
<1>1. ASSUME NEW c \in Collectors, EnqueueAppend(c)
      PROVE  Len(snap'[k]) <= Len(pending')
  <2> DEFINE appended == pending \o held[c]
  <2>1. /\ appended \in Seq(Samples)
        /\ Len(appended) = Len(pending) + Len(held[c])
        /\ Len(pending) \in Nat /\ Len(held[c]) \in Nat /\ Len(snap[k]) \in Nat
    BY ConcatProperties, LenProperties DEF TypeOK
  <2>2. pending' = Drop(appended, Excess(appended)) /\ snap' = snap /\ pc' = pc
    BY <1>1 DEF EnqueueAppend
  <2>3. Len(snap[k]) <= Len(pending) /\ Len(snap[k]) <= MaxPendingSeries
    BY SMTT(30), <2>1, <2>2, HubQueueAssumption DEF SliceInRange, Holding, TypeOK
  <2> HIDE DEF appended
  <2>4. Len(pending') = Smaller(Len(appended), MaxPendingSeries)
    BY <2>1, <2>2, ExcessProperties
  <2> QED  BY <2>1, <2>2, <2>3, <2>4 DEF Smaller
<1>2. CASE QuietStep
  BY <1>2 DEF QuietStep, SliceInRange
<1>3. ASSUME NEW j \in Consumers, RemoveStep(j) PROVE FALSE
  BY <1>3 DEF RemoveStep, Holding, DrainAfterLoop, Consumers
<1>4. ASSUME NEW j \in Consumers, CopyStep(j) PROVE Len(snap'[k]) <= Len(pending')
  <2>1. CASE j = k
    <3>1. snap'[k] = SubSeq(pending, 1, Smaller(Len(pending), MaxSeriesPerRequest))
      BY <1>4, <2>1 DEF CopyStep, CopyFront, TypeOK
    <3>2. Len(snap'[k]) = Smaller(Len(pending), MaxSeriesPerRequest)
      BY <3>1, FrontProperties DEF TypeOK
    <3>3. Len(pending) \in Nat
      BY LenProperties DEF TypeOK
    <3> QED  BY <1>4, <3>2, <3>3, HubQueueAssumption DEF CopyStep, Smaller
  <2>2. CASE j # k
    BY <1>4, <2>2 DEF CopyStep, CopyFront, SliceInRange, Holding, TypeOK
  <2> QED  BY <2>1, <2>2
<1>5. CASE ForgetStep
  BY <1>5 DEF ForgetStep, SliceInRange, Holding, Consumers
<1> QED  BY <1>1, <1>2, <1>3, <1>4, <1>5, StepKinds

\* h.pending[batchSize:] never panics: while a consumer holds a copy of the
\* queue's front, the queue is at least as long as that copy, whatever
\* EnqueueMetrics appends and evicts meanwhile (hub.go:241-245, 375, 387, 407).
THEOREM NoSlicePanic == Spec => []SliceInRange
<1>1. Init => DrainAfterLoop /\ SliceInRange
  BY InitPlaces DEF DrainAfterLoop, SliceInRange, Holding, Consumers
<1> QED
  BY <1>1, DrainAfterLoopStep, SliceInRangeStep, TypeCorrect, PTL DEF Spec

-----------------------------------------------------------------------------
(* No lost wakeup                                                           *)

LEMMA NoLostWakeupStep ==
    TypeOK /\ DrainAfterLoop /\ NoLostWakeup /\ [Next]_vars => NoLostWakeup'
<1> SUFFICES ASSUME TypeOK, DrainAfterLoop, NoLostWakeup, [Next]_vars
             PROVE  NoLostWakeup'
  OBVIOUS
<1> USE DEF Consumers
<1>1. ASSUME NEW c \in Collectors, CollectorStep(c) PROVE NoLostWakeup'
  BY <1>1 DEF CollectorStep, Collect, EnqueueAppend, EnqueueNotify, CollectorExit,
              NoLostWakeup, TypeOK
<1>2. ASSUME NEW k \in Consumers, SubmitBatch(k) PROVE NoLostWakeup'
  BY <1>2 DEF SubmitBatch, SubmitStart, SubmitAccepted, SubmitDisabled, SubmitRefused,
              SubmitReplyLost, Move, Goto, NoLostWakeup, TypeOK, collecting
<1>3. CASE LoopStep
  <2>1. CASE LoopCheck
    BY <2>1 DEF LoopCheck, Move, Goto, NoLostWakeup, TypeOK
  <2>5. CASE LoopWindow
    <3>1. Len(pending) \in Nat /\ MaxSeriesPerRequest \in Nat
      BY LenProperties, HubQueueAssumption DEF TypeOK
    <3>2. pending' = pending /\ pc["loop"] = "window"
      BY <2>5 DEF LoopWindow, Move, Goto
    <3>3. pc'["loop"] = "snapshot" \/ (pc'["loop"] = "wait" /\ Len(pending) < MaxSeriesPerRequest)
      BY <2>5 DEF LoopWindow, Move, Goto, TypeOK
    <3> QED  BY <3>1, <3>2, <3>3 DEF NoLostWakeup
  <2>6. CASE LoopWaitExpired \/ LoopRetry \/ LoopExit
    BY <2>6 DEF LoopWaitExpired, LoopRetry, LoopExit, Move, Goto, NoLostWakeup, TypeOK
  <2>2. CASE LoopIdleNotified \/ LoopWaitNotified \/ LoopDrainNotify
    BY <2>2 DEF LoopIdleNotified, LoopWaitNotified, LoopTakeNotify, LoopDrainNotify, Goto,
                NoLostWakeup, TypeOK, collecting
  <2>3. CASE LoopSnapshot \/ LoopFilter \/ LoopFailed
    BY <2>3 DEF LoopSnapshot, LoopFilter, LoopFailed, Goto, NoLostWakeup, TypeOK,
                collecting
  <2>4. CASE LoopDropStale \/ LoopSucceeded \/ LoopDisabled
    BY <2>4 DEF LoopDropStale, LoopSucceeded, LoopDisabled, Goto, NoLostWakeup, TypeOK,
                collecting
  <2> QED  BY <1>3, <1>2, <2>1, <2>2, <2>3, <2>4, <2>5, <2>6 DEF LoopStep
<1>4. CASE DrainStep
  BY <1>4, <1>2 DEF DrainStep, DrainJoin, DrainSnapshot, DrainSucceeded, DrainSkip,
                    DrainCheckDeadline, Move, Goto, NoLostWakeup, TypeOK, DrainAfterLoop,
                    collecting
<1>5. CASE Cancel \/ Age \/ DrainExpire \/ Terminated \/ UNCHANGED vars
  BY <1>5 DEF Cancel, Age, DrainExpire, Terminated, vars, NoLostWakeup, collecting
<1> QED  BY <1>1, <1>3, <1>4, <1>5 DEF Next

\* The submit loop is never asleep on samples it will not be told about: the
\* token of notifyC, or a collector on its way to put one there, is in place
\* although the loop throws tokens away after a success (hub.go:251-254,
\* 306-313, 336-343, 398-402).
THEOREM WakeupNeverLost == Spec => []NoLostWakeup
<1>1. Init => DrainAfterLoop /\ NoLostWakeup
  BY InitPlaces DEF DrainAfterLoop, NoLostWakeup
<1> QED
  BY <1>1, DrainAfterLoopStep, NoLostWakeupStep, TypeCorrect, PTL DEF Spec

-----------------------------------------------------------------------------
(* No double submission                                                     *)

\* No sample exists twice inside the agent: what collectors have in hand has
\* not been enqueued, each sample is in hand once and pending once.
Unique ==
    /\ \A s \in enqueued : s[1] <= scrapes
    /\ \A c \in Collectors : \A i \in DOMAIN held[c] :
           held[c][i][1] <= scrapes /\ held[c][i] \notin enqueued
    /\ \A c \in Collectors : \A i, j \in DOMAIN held[c] :
           held[c][i] = held[c][j] => i = j
    /\ \A c, d \in Collectors : c # d =>
           \A i \in DOMAIN held[c], j \in DOMAIN held[d] : held[c][i] # held[d][j]
    /\ \A i \in DOMAIN pending : pending[i] \in enqueued
    /\ \A i, j \in DOMAIN pending : pending[i] = pending[j] => i = j

\* A copy holds enqueued samples, its batch is taken from it, and those of its
\* samples that are still pending are among the first batchSize of the queue.
CopyInFront ==
    /\ \A k \in Consumers : ~Holding(k) => batch[k] = {}
    /\ \A k \in Consumers : Holding(k) =>
           /\ Range(snap[k]) \subseteq enqueued
           /\ batch[k] \subseteq Range(snap[k])
           /\ \A i \in DOMAIN pending :
                  pending[i] \in Range(snap[k]) => i <= Len(snap[k])

\* No sample of C is pending or about to be submitted, but for the batch whose
\* acknowledgement the consumer has in hand.
Absent(C) ==
    /\ \A i \in DOMAIN pending : pending[i] \in C =>
           \E k \in Consumers : pc[k] = "sent" /\ pending[i] \in batch[k]
    /\ \A k \in Consumers :
           Holding(k) /\ pc[k] # "sent" => Range(snap[k]) \cap C = {}

\* samplesSent counts samples the gateway has, all those it has acknowledged
\* among them, and none of those counted is submitted again.
Acknowledged == accepted \ lostReply
SentOnce ==
    /\ accepted \subseteq enqueued
    /\ twice \subseteq lostReply
    /\ \E counted \in SUBSET accepted :
           /\ Acknowledged \subseteq counted
           /\ samplesSent = Cardinality(counted)
           /\ Absent(counted)

\* Where the elements of the queue come from, and go to, in an append with evictions.
LEMMA AppendElements ==
    ASSUME TypeOK, NEW c \in Collectors, EnqueueAppend(c)
    PROVE  \E e \in Nat :
               /\ \A i \in DOMAIN pending' :
                      \/ i + e \in DOMAIN pending /\ pending'[i] = pending[i + e]
                      \/ /\ i + e - Len(pending) \in DOMAIN held[c]
                         /\ pending'[i] = held[c][i + e - Len(pending)]
               /\ \A j \in DOMAIN pending :
                      j > e => j - e \in DOMAIN pending' /\ pending'[j - e] = pending[j]
<1> DEFINE appended == pending \o held[c]
           e == Excess(appended)
<1>1. /\ pending \in Seq(Samples) /\ held[c] \in Seq(Samples)
      /\ pending' = Drop(appended, e)
  BY DEF TypeOK, EnqueueAppend
<1>2. /\ appended \in Seq(Samples)
      /\ Len(appended) = Len(pending) + Len(held[c])
      /\ \A i \in 1 .. Len(pending) + Len(held[c]) :
             appended[i] = IF i <= Len(pending) THEN pending[i] ELSE held[c][i - Len(pending)]
  BY <1>1, ConcatProperties
<1>3. /\ Len(pending) \in Nat /\ DOMAIN pending = 1 .. Len(pending)
      /\ Len(held[c]) \in Nat /\ DOMAIN held[c] = 1 .. Len(held[c])
  BY <1>1, DomainOfSeq
<1> HIDE DEF appended
<1>4. e \in Nat /\ e <= Len(appended)
  BY <1>2, <1>3, ExcessProperties
<1> HIDE DEF e
<1>5. /\ pending' \in Seq(Samples)
      /\ Len(pending') = Len(appended) - e
      /\ \A i \in 1 .. Len(appended) - e : pending'[i] = appended[e + i]
  BY <1>1, <1>2, <1>3, <1>4, DropProperties
<1>6. DOMAIN pending' = 1 .. Len(appended) - e
  BY <1>5, DomainOfSeq
<1>7. ASSUME NEW i \in DOMAIN pending'
      PROVE  \/ i + e \in DOMAIN pending /\ pending'[i] = pending[i + e]
             \/ /\ i + e - Len(pending) \in DOMAIN held[c]
                /\ pending'[i] = held[c][i + e - Len(pending)]
  <2>1. i \in 1 .. Len(appended) - e /\ e + i = i + e /\ i + e \in 1 .. Len(pending) + Len(held[c])
    BY <1>2, <1>3, <1>4, <1>6
  <2>2. pending'[i] = appended[i + e]
    BY <1>5, <2>1
  <2>3. CASE i + e <= Len(pending)
    BY <1>2, <1>3, <1>4, <2>1, <2>2, <2>3
  <2>4. CASE ~(i + e <= Len(pending))
    <3>1. i + e - Len(pending) \in 1 .. Len(held[c])
      BY SMTT(30), <1>3, <1>4, <2>1, <2>4
    <3>2. appended[i + e] = held[c][i + e - Len(pending)]
      <4>1. ASSUME NEW m \in 1 .. Len(pending) + Len(held[c]), ~(m <= Len(pending))
            PROVE  appended[m] = held[c][m - Len(pending)]
        BY <1>2, <4>1
      <4>2. i \in Int /\ e \in Int /\ Len(pending) \in Int
        BY <1>2, <1>3, <1>4, <2>1
      <4>3. i + e \in 1 .. Len(pending) + Len(held[c]) /\ ~(i + e <= Len(pending))
        BY <2>1, <2>4
      <4> QED  BY <4>1, <4>2, <4>3
    <3> QED  BY <1>3, <2>2, <3>1, <3>2
  <2> QED  BY <2>3, <2>4
<1>8. ASSUME NEW j \in DOMAIN pending, j > e
      PROVE  j - e \in DOMAIN pending' /\ pending'[j - e] = pending[j]
  <2>1. j - e \in 1 .. Len(appended) - e /\ e + (j - e) = j
    BY <1>2, <1>3, <1>4, <1>8
  <2>2. j \in 1 .. Len(pending) + Len(held[c]) /\ j <= Len(pending)
    BY <1>3
  <2> QED  BY <1>2, <1>5, <1>6, <2>1, <2>2
<1> QED  BY <1>4, <1>7, <1>8

\* The same for the removal of a batch.
LEMMA RemoveElements ==
    ASSUME TypeOK, NEW k \in Consumers, RemoveBatch(k)
    PROVE  /\ Len(snap[k]) \in Nat
           /\ \A i \in DOMAIN pending' :
                  /\ i \in Nat \ {0}
                  /\ i + Len(snap[k]) \in DOMAIN pending
                  /\ pending'[i] = pending[i + Len(snap[k])]
           /\ \A j \in DOMAIN pending : j > Len(snap[k]) =>
                  /\ j - Len(snap[k]) \in DOMAIN pending'
                  /\ pending'[j - Len(snap[k])] = pending[j]
<1> DEFINE n == Len(snap[k])
<1>1. pending \in Seq(Samples) /\ n \in Nat /\ pending' = Drop(pending, n)
  BY LenProperties DEF TypeOK, RemoveBatch
<1> HIDE DEF n
<1>2. DOMAIN pending = 1 .. Len(pending) /\ Len(pending) \in Nat
  BY <1>1, DomainOfSeq
<1>3. /\ pending' \in Seq(Samples)
      /\ Len(pending') = IF n <= Len(pending) THEN Len(pending) - n ELSE 0
      /\ \A i \in 1 .. Len(pending) - n : pending'[i] = pending[n + i]
  BY <1>1, DropProperties
<1>4. DOMAIN pending' = 1 .. Len(pending')
  BY <1>3, DomainOfSeq
<1>5. ASSUME NEW i \in DOMAIN pending'
      PROVE  i \in Nat \ {0} /\ i + n \in DOMAIN pending /\ pending'[i] = pending[i + n]
  <2>1. i \in 1 .. Len(pending) - n /\ n + i = i + n
    <3>1. CASE n <= Len(pending)
      BY <1>1, <1>2, <1>3, <1>4, <3>1
    <3>2. CASE ~(n <= Len(pending))
      BY <1>1, <1>2, <1>3, <1>4, <3>2
    <3> QED  BY <3>1, <3>2
  <2> QED  BY <1>1, <1>2, <1>3, <2>1
<1>6. ASSUME NEW j \in DOMAIN pending, j > n
      PROVE  j - n \in DOMAIN pending' /\ pending'[j - n] = pending[j]
  <2>1. n <= Len(pending) /\ j - n \in 1 .. Len(pending) - n /\ n + (j - n) = j
    BY <1>1, <1>2, <1>6
  <2> QED  BY <1>3, <1>4, <2>1
<1> QED  BY <1>1, <1>5, <1>6 DEF n

\* Only Collect and EnqueueAppend touch what Unique speaks of besides pending.
LEMMA SamplesKept ==
    ASSUME TypeOK, [Next]_vars
    PROVE  \/ \E c \in Collectors : Collect(c) \/ EnqueueAppend(c)
           \/ UNCHANGED <<scrapes, held, enqueued>>
<1>1. ASSUME NEW k \in Consumers, SubmitBatch(k)
      PROVE  UNCHANGED <<scrapes, held, enqueued>>
  BY <1>1 DEF SubmitBatch, SubmitStart, SubmitAccepted, SubmitDisabled, SubmitRefused,
              SubmitReplyLost, Move, Store, collecting, outside
<1>2. CASE LoopStep
  BY <1>1, <1>2 DEF LoopStep, LoopCheck, LoopIdleNotified, LoopWindow, LoopWaitNotified,
                    LoopWaitExpired, LoopSnapshot, LoopFilter, LoopDropStale,
                    LoopSucceeded, LoopDrainNotify, LoopDisabled, LoopFailed, LoopRetry,
                    LoopExit, LoopTakeNotify, Move, collecting, outside, Consumers
<1>3. CASE DrainStep
  BY <1>1, <1>3 DEF DrainStep, DrainJoin, DrainSnapshot, DrainSucceeded, DrainSkip,
                    DrainCheckDeadline, Move, collecting, outside, Consumers
<1> QED
  BY <1>2, <1>3 DEF Next, CollectorStep, EnqueueNotify, CollectorExit, Cancel, Age,
                    DrainExpire, Terminated, vars, collecting, outside

LEMMA UniqueStep == TypeOK /\ TypeOK' /\ Unique /\ [Next]_vars => Unique'
<1> SUFFICES ASSUME TypeOK, TypeOK', Unique, [Next]_vars PROVE Unique'
  OBVIOUS
<1>1. ASSUME NEW c \in Collectors, Collect(c) PROVE Unique'
  <2>1. PICK n \in 1 .. MaxScrape :
            held' = [held EXCEPT ![c] = [i \in 1 .. n |-> <<scrapes + 1, i>>]]
    BY <1>1 DEF Collect
  <2>2. /\ scrapes' = scrapes + 1 /\ scrapes \in Nat
        /\ pending' = pending /\ enqueued' = enqueued /\ held \in [Collectors -> Seq(Samples)]
    BY <1>1, HubQueueAssumption DEF Collect, TypeOK, outside
  <2> DEFINE fresh == [i \in 1 .. n |-> <<scrapes + 1, i>>]
  <2>3. \A d \in Collectors : held'[d] = IF d = c THEN fresh ELSE held[d]
    BY <2>1, <2>2
  <2>4. \A s \in enqueued : s[1] <= scrapes /\ s[1] \in Nat
    BY SMTT(30), HubQueueAssumption DEF TypeOK, Samples, Unique
  <2>5. \A d \in Collectors : \A i \in DOMAIN held[d] :
            held[d][i][1] <= scrapes /\ held[d][i][1] \in Nat
    <3>1. ASSUME NEW d \in Collectors, NEW i \in DOMAIN held[d] PROVE held[d][i] \in Samples
      BY <2>2, DomainOfSeq, ElementOfSeq
    <3>2. \A s \in Samples : s[1] \in Nat
      BY HubQueueAssumption DEF Samples
    <3> QED  BY <3>1, <3>2 DEF Unique
  <2>6. /\ \A i \in DOMAIN fresh : fresh[i][1] = scrapes + 1
        /\ \A i, j \in DOMAIN fresh : fresh[i] = fresh[j] => i = j
    OBVIOUS
  <2> HIDE DEF fresh
  <2>11. \A i \in DOMAIN fresh : fresh[i] \notin enqueued
    BY <2>2, <2>4, <2>6
  <2>12. \A d \in Collectors : \A i \in DOMAIN held[d], j \in DOMAIN fresh : held[d][i] # fresh[j]
    BY <2>2, <2>5, <2>6
  <2>7. \A s \in enqueued' : s[1] <= scrapes'
    BY <2>2, <2>4
  <2>8. ASSUME NEW d \in Collectors, NEW i \in DOMAIN held'[d]
        PROVE  held'[d][i][1] <= scrapes' /\ held'[d][i] \notin enqueued'
    <3>1. CASE d = c
      BY <2>2, <2>3, <2>6, <2>11, <3>1
    <3>2. CASE d # c
      BY <2>2, <2>3, <2>5, <3>2 DEF Unique
    <3> QED  BY <3>1, <3>2
  <2>9. ASSUME NEW d \in Collectors, NEW i \in DOMAIN held'[d], NEW j \in DOMAIN held'[d],
               held'[d][i] = held'[d][j]
        PROVE  i = j
    <3>1. CASE d = c
      BY <2>3, <2>6, <2>9, <3>1
    <3>2. CASE d # c
      BY <2>3, <2>9, <3>2 DEF Unique
    <3> QED  BY <3>1, <3>2
  <2>10. ASSUME NEW d \in Collectors, NEW f \in Collectors, d # f,
                NEW i \in DOMAIN held'[d], NEW j \in DOMAIN held'[f]
         PROVE  held'[d][i] # held'[f][j]
    <3>1. CASE d = c
      BY <2>3, <2>10, <2>12, <3>1
    <3>2. CASE f = c
      BY <2>3, <2>10, <2>12, <3>2
    <3>3. CASE d # c /\ f # c
      BY <2>3, <2>10, <3>3 DEF Unique
    <3> QED  BY <3>1, <3>2, <3>3
  <2> QED  BY <2>2, <2>7, <2>8, <2>9, <2>10 DEF Unique
<1>2. ASSUME NEW c \in Collectors, EnqueueAppend(c) PROVE Unique'
  <2>1. PICK e \in Nat : \A i \in DOMAIN pending' :
               \/ i + e \in DOMAIN pending /\ pending'[i] = pending[i + e]
               \/ /\ i + e - Len(pending) \in DOMAIN held[c]
                  /\ pending'[i] = held[c][i + e - Len(pending)]
    BY <1>2, AppendElements
  <2>2. /\ scrapes' = scrapes /\ enqueued' = enqueued \cup Range(held[c])
        /\ held' = [held EXCEPT ![c] = <<>>] /\ held \in [Collectors -> Seq(Samples)]
    BY <1>2 DEF EnqueueAppend, TypeOK
  <2>3. \A d \in Collectors : held'[d] = IF d = c THEN <<>> ELSE held[d]
    BY <2>2
  <2>4. DOMAIN <<>> = {}
    BY EmptySeq, DomainOfSeq
  <2>5. \A s \in Range(held[c]) : \E i \in DOMAIN held[c] : s = held[c][i]
    BY DEF Range
  <2>6. \A i \in DOMAIN held[c] : held[c][i] \in Range(held[c])
    BY DEF Range
  <2>7. \A i \in DOMAIN pending' : i \in Nat
    BY SMTT(30), DomainOfSeq DEF TypeOK
  <2>8. Len(pending) \in Nat
    BY DomainOfSeq DEF TypeOK
  <2>9. \A s \in enqueued' : s[1] <= scrapes'
    BY <2>2, <2>5 DEF Unique
  <2>10. \A d \in Collectors : \A i \in DOMAIN held'[d] :
             held'[d][i][1] <= scrapes' /\ held'[d][i] \notin enqueued'
    BY <2>2, <2>3, <2>4, <2>5 DEF Unique
  <2>11. /\ \A d \in Collectors : \A i, j \in DOMAIN held'[d] :
                held'[d][i] = held'[d][j] => i = j
         /\ \A d, f \in Collectors : d # f =>
                \A i \in DOMAIN held'[d], j \in DOMAIN held'[f] : held'[d][i] # held'[f][j]
    BY <2>3, <2>4 DEF Unique
  <2>12. \A i \in DOMAIN pending' : pending'[i] \in enqueued'
    BY <2>1, <2>2, <2>6 DEF Unique
  <2>13. ASSUME NEW i \in DOMAIN pending', NEW j \in DOMAIN pending', pending'[i] = pending'[j]
         PROVE  i = j
    <3>1. i \in Nat /\ j \in Nat
      BY <2>7
    <3>2. CASE i + e \in DOMAIN pending /\ pending'[i] = pending[i + e]
               /\ j + e \in DOMAIN pending /\ pending'[j] = pending[j + e]
      <4>1. i + e = j + e
        BY <2>13, <3>2 DEF Unique
      <4> QED  BY <3>1, <4>1
    <3>3. CASE /\ i + e - Len(pending) \in DOMAIN held[c]
               /\ pending'[i] = held[c][i + e - Len(pending)]
               /\ j + e - Len(pending) \in DOMAIN held[c]
               /\ pending'[j] = held[c][j + e - Len(pending)]
      <4>1. i + e - Len(pending) = j + e - Len(pending)
        BY <2>13, <3>3 DEF Unique
      <4> QED  BY <2>8, <3>1, <4>1
    <3>4. ASSUME NEW a \in DOMAIN pending, NEW b \in DOMAIN held[c] PROVE pending[a] # held[c][b]
      BY DEF Unique
    <3> QED  BY <2>1, <2>13, <3>2, <3>3, <3>4
  <2> QED  BY <2>9, <2>10, <2>11, <2>12, <2>13 DEF Unique
<1>3. CASE UNCHANGED <<scrapes, held, enqueued>> /\ UNCHANGED pending
  BY <1>3 DEF Unique
<1>4. ASSUME NEW k \in Consumers, RemoveStep(k), UNCHANGED <<scrapes, held, enqueued>>
      PROVE  Unique'
  <2>1. /\ Len(snap[k]) \in Nat
        /\ \A i \in DOMAIN pending' :
               /\ i \in Nat \ {0}
               /\ i + Len(snap[k]) \in DOMAIN pending
               /\ pending'[i] = pending[i + Len(snap[k])]
    BY <1>4, RemoveElements DEF RemoveStep
  <2>2. \A i \in DOMAIN pending' : pending'[i] \in enqueued
    BY <2>1 DEF Unique
  <2>3. ASSUME NEW i \in DOMAIN pending', NEW j \in DOMAIN pending', pending'[i] = pending'[j]
        PROVE  i = j
    <3>1. i + Len(snap[k]) = j + Len(snap[k])
      BY <2>1, <2>3 DEF Unique
    <3> QED  BY <2>1, <3>1
  <2> QED  BY <1>4, <2>2, <2>3 DEF Unique
<1> QED
  BY <1>1, <1>2, <1>3, <1>4, StepKinds, SamplesKept
  DEF QuietStep, CopyStep, ForgetStep

\* The front of the queue, as CopyFront copies it.
LEMMA CopyElements ==
    ASSUME TypeOK, NEW k \in Consumers, CopyFront(k)
    PROVE  /\ \A j \in Consumers : j # k => snap'[j] = snap[j]
           /\ \A i \in DOMAIN snap'[k] :
                  i \in DOMAIN pending /\ i <= Len(snap'[k]) /\ snap'[k][i] = pending[i]
<1> DEFINE front == SubSeq(pending, 1, Smaller(Len(pending), MaxSeriesPerRequest))
<1>1. /\ front \in Seq(Samples)
      /\ Len(front) = Smaller(Len(pending), MaxSeriesPerRequest)
      /\ \A i \in 1 .. Len(front) : front[i] = pending[i]
  BY FrontProperties DEF TypeOK
<1>2. snap' = [snap EXCEPT ![k] = front] /\ snap \in [Consumers -> Seq(Samples)]
  BY DEF CopyFront, TypeOK
<1> HIDE DEF front
<1>3. DOMAIN front = 1 .. Len(front) /\ DOMAIN pending = 1 .. Len(pending)
      /\ Len(pending) \in Nat /\ Len(front) \in Nat
  BY <1>1, DomainOfSeq DEF TypeOK
<1>4. Len(front) <= Len(pending)
  BY <1>1, <1>3, HubQueueAssumption DEF Smaller
<1>5. snap'[k] = front /\ \A j \in Consumers : j # k => snap'[j] = snap[j]
  BY <1>2
<1>6. ASSUME NEW i \in DOMAIN front
      PROVE  i \in DOMAIN pending /\ i <= Len(front) /\ front[i] = pending[i]
  BY <1>1, <1>3, <1>4
<1> QED  BY <1>5, <1>6

LEMMA CopyInFrontStep ==
    /\ TypeOK /\ TypeOK' /\ DrainAfterLoop /\ Unique /\ CopyInFront /\ [Next]_vars
    => CopyInFront'
<1> SUFFICES ASSUME TypeOK, TypeOK', DrainAfterLoop, Unique, CopyInFront, [Next]_vars
             PROVE  CopyInFront'
  OBVIOUS
<1>1. ASSUME NEW c \in Collectors, EnqueueAppend(c) PROVE CopyInFront'
  <2>1. PICK e \in Nat : \A i \in DOMAIN pending' :
               \/ i + e \in DOMAIN pending /\ pending'[i] = pending[i + e]
               \/ /\ i + e - Len(pending) \in DOMAIN held[c]
                  /\ pending'[i] = held[c][i + e - Len(pending)]
    BY <1>1, AppendElements
  <2>2. /\ pc' = pc /\ snap' = snap /\ batch' = batch
        /\ enqueued' = enqueued \cup Range(held[c])
    BY <1>1 DEF EnqueueAppend
  <2>3. ASSUME NEW k \in Consumers, Holding(k), NEW i \in DOMAIN pending',
               pending'[i] \in Range(snap[k])
        PROVE  i <= Len(snap[k])
    <3>1. pending'[i] \in enqueued
      BY <2>3 DEF CopyInFront
    <3>2. \A j \in DOMAIN held[c] : held[c][j] \notin enqueued
      BY DEF Unique
    <3>3. i + e \in DOMAIN pending /\ pending'[i] = pending[i + e]
      BY <2>1, <3>1, <3>2
    <3>4. i + e <= Len(snap[k])
      BY <2>3, <3>3 DEF CopyInFront
    <3>5. i \in Nat
      <4>1. pending' \in Seq(Samples)
        BY DEF TypeOK
      <4>2. DOMAIN pending' = 1 .. Len(pending') /\ Len(pending') \in Nat
        BY <4>1, DomainOfSeq
      <4> QED  BY <4>2
    <3>6. Len(snap[k]) \in Nat
      <4>1. snap[k] \in Seq(Samples)
        BY <2>3 DEF TypeOK
      <4> QED  BY <4>1, LenProperties
    <3> QED  BY <3>3, <3>4, <3>5, <3>6
  <2> QED  BY <2>2, <2>3 DEF CopyInFront, Holding
<1>2. ASSUME ~\E c \in Collectors : EnqueueAppend(c) PROVE UNCHANGED enqueued
  BY <1>2, SamplesKept DEF Collect, outside
<1>3. CASE QuietStep /\ UNCHANGED enqueued
  BY <1>3 DEF QuietStep, CopyInFront
<1>4. ASSUME NEW k \in Consumers, RemoveStep(k), UNCHANGED enqueued PROVE CopyInFront'
  <2>1. \A j \in Consumers : j # k => ~Holding(j) /\ ~Holding(j)'
    BY <1>4 DEF RemoveStep, DrainAfterLoop, Holding, Consumers
  <2>2. \A j \in Consumers : batch'[j] = IF j = k THEN {} ELSE batch[j]
    BY <1>4 DEF RemoveStep, RemoveBatch, TypeOK
  <2> QED  BY <1>4, <2>1, <2>2 DEF RemoveStep, CopyInFront
<1>5. ASSUME NEW k \in Consumers, CopyStep(k), UNCHANGED enqueued PROVE CopyInFront'
  <2>1. /\ \A j \in Consumers : j # k => snap'[j] = snap[j]
        /\ \A i \in DOMAIN snap'[k] :
               i \in DOMAIN pending /\ i <= Len(snap'[k]) /\ snap'[k][i] = pending[i]
    BY <1>5, CopyElements DEF CopyStep
  <2>2. batch[k] = {} /\ ~Holding(k)
    BY <1>5 DEF CopyStep, Holding, CopyInFront
  <2>3. ASSUME NEW j \in Consumers, ~Holding(j)' PROVE batch'[j] = {}
    BY <1>5, <2>2, <2>3 DEF CopyStep, Holding, CopyInFront
  <2>4. ASSUME NEW j \in Consumers, Holding(j)', j # k
        PROVE  Holding(j) /\ snap'[j] = snap[j] /\ batch'[j] = batch[j]
    BY <1>5, <2>1, <2>4 DEF CopyStep, Holding
  <2>5. ASSUME Holding(k)'
        PROVE  /\ Range(snap'[k]) \subseteq enqueued
               /\ batch'[k] \subseteq Range(snap'[k])
               /\ \A i \in DOMAIN pending :
                      pending[i] \in Range(snap'[k]) => i <= Len(snap'[k])
    <3>1. Range(snap'[k]) \subseteq enqueued
      BY <2>1 DEF Range, Unique
    <3>2. batch'[k] \subseteq Range(snap'[k])
      BY <1>5, <2>2, <2>5 DEF CopyStep
    <3>3. ASSUME NEW i \in DOMAIN pending, pending[i] \in Range(snap'[k])
          PROVE  i <= Len(snap'[k])
      <4>1. PICK j \in DOMAIN snap'[k] : pending[i] = snap'[k][j]
        BY <3>3 DEF Range
      <4>2. i = j
        BY <2>1, <4>1 DEF Unique
      <4> QED  BY <2>1, <4>2
    <3> QED  BY <3>1, <3>2, <3>3
  <2>6. pending' = pending
    BY <1>5 DEF CopyStep
  <2> QED  BY <1>5, <2>3, <2>4, <2>5, <2>6 DEF CopyInFront
<1>6. CASE ForgetStep /\ UNCHANGED enqueued
  BY <1>6 DEF ForgetStep, CopyInFront, Holding, Consumers
<1> QED  BY <1>1, <1>2, <1>3, <1>4, <1>5, <1>6, StepKinds

\* Only submitBatch's outcomes change what the gateway has, or make a consumer
\* hold an acknowledgement.
LEMMA GatewayKept ==
    ASSUME TypeOK, [Next]_vars, \A k \in Consumers : ~SubmitBatch(k)
    PROVE  /\ UNCHANGED <<samplesSent, accepted, twice, lostReply>>
           /\ \A k \in Consumers : pc'[k] = "sent" => pc[k] = "sent"
<1> USE DEF Consumers
<1>1. CASE LoopStep
  BY <1>1 DEF LoopStep, LoopCheck, LoopIdleNotified, LoopWindow, LoopWaitNotified,
              LoopWaitExpired, LoopSnapshot, LoopFilter, LoopDropStale, LoopSucceeded,
              LoopDrainNotify, LoopDisabled, LoopFailed, LoopRetry, LoopExit,
              LoopTakeNotify, Move, Goto, outside, TypeOK
<1>2. CASE DrainStep
  BY <1>2 DEF DrainStep, DrainJoin, DrainSnapshot, DrainSucceeded, DrainSkip,
              DrainCheckDeadline, Move, Goto, outside, TypeOK
<1> QED
  BY <1>1, <1>2 DEF Next, CollectorStep, Collect, EnqueueAppend, EnqueueNotify,
                    CollectorExit, Cancel, Age, DrainExpire, Terminated, vars, outside

\* What is absent from the agent stays absent, but for what a submission does.
LEMMA AbsentKept ==
    ASSUME TypeOK, TypeOK', DrainAfterLoop, Unique, CopyInFront, [Next]_vars,
           \A k \in Consumers : ~SubmitBatch(k),
           NEW C, C \subseteq enqueued, Absent(C)
    PROVE  Absent(C)'
<1>1. \A k \in Consumers : pc'[k] = "sent" => pc[k] = "sent"
  BY GatewayKept
<1>2. ASSUME NEW c \in Collectors, EnqueueAppend(c) PROVE Absent(C)'
  <2>1. PICK e \in Nat : \A i \in DOMAIN pending' :
             \/ i + e \in DOMAIN pending /\ pending'[i] = pending[i + e]
             \/ /\ i + e - Len(pending) \in DOMAIN held[c]
                /\ pending'[i] = held[c][i + e - Len(pending)]
    BY <1>2, AppendElements
  <2>2. pc' = pc /\ snap' = snap /\ batch' = batch
    BY <1>2 DEF EnqueueAppend
  <2>3. \A i \in DOMAIN held[c] : held[c][i] \notin C
    BY DEF Unique
  <2>4. ASSUME NEW i \in DOMAIN pending', pending'[i] \in C
        PROVE  \E k \in Consumers : pc[k] = "sent" /\ pending'[i] \in batch[k]
    BY <2>1, <2>3, <2>4 DEF Absent
  <2> QED  BY <2>2, <2>4 DEF Absent, Holding
<1>3. CASE QuietStep
  BY <1>1, <1>3 DEF QuietStep, Absent
<1>4. ASSUME NEW k \in Consumers, RemoveStep(k) PROVE Absent(C)'
  <2>1. /\ Len(snap[k]) \in Nat
        /\ \A i \in DOMAIN pending' :
               /\ i \in Nat \ {0}
               /\ i + Len(snap[k]) \in DOMAIN pending
               /\ pending'[i] = pending[i + Len(snap[k])]
    BY <1>4, RemoveElements DEF RemoveStep
  <2>2. \A j \in Consumers : j # k => ~Holding(j) /\ ~Holding(j)' /\ pc[j] # "sent"
    BY <1>4 DEF RemoveStep, DrainAfterLoop, Holding, Consumers
  <2>3. ASSUME NEW i \in DOMAIN pending', pending'[i] \in C PROVE FALSE
    <3>1. pending'[i] \in batch[k]
      BY <2>1, <2>2, <2>3 DEF Absent
    <3>2. i + Len(snap[k]) <= Len(snap[k])
      BY <1>4, <2>1, <3>1 DEF RemoveStep, CopyInFront
    <3> QED  BY <2>1, <3>2
  <2>4. \A j \in Consumers : ~Holding(j)'
    BY <1>4, <2>2 DEF RemoveStep
  <2> QED  BY <2>3, <2>4 DEF Absent
<1>5. ASSUME NEW k \in Consumers, CopyStep(k) PROVE Absent(C)'
  <2>1. /\ \A j \in Consumers : j # k => snap'[j] = snap[j]
        /\ \A i \in DOMAIN snap'[k] :
               i \in DOMAIN pending /\ i <= Len(snap'[k]) /\ snap'[k][i] = pending[i]
    BY <1>5, CopyElements DEF CopyStep
  <2>2. \A j \in Consumers : pc[j] # "sent"
    BY <1>5 DEF CopyStep, DrainAfterLoop, Consumers
  <2>3. \A i \in DOMAIN pending : pending[i] \notin C
    BY <2>2 DEF Absent
  <2>4. Range(snap'[k]) \cap C = {}
    BY <2>1, <2>3 DEF Range
  <2>5. \A j \in Consumers : j # k => (Holding(j)' <=> Holding(j)) /\ pc'[j] = pc[j]
    BY <1>5 DEF CopyStep, Holding
  <2>6. pending' = pending
    BY <1>5 DEF CopyStep
  <2> QED  BY <2>1, <2>2, <2>3, <2>4, <2>5, <2>6 DEF Absent
<1>6. CASE ForgetStep
  BY <1>1, <1>6 DEF ForgetStep, Absent, Holding, Consumers
<1> QED  BY <1>2, <1>3, <1>4, <1>5, <1>6, StepKinds

LEMMA SentOnceStep ==
    /\ TypeOK /\ TypeOK' /\ DrainAfterLoop /\ Unique /\ CopyInFront /\ SentOnce
    /\ [Next]_vars
    => SentOnce'
<1> SUFFICES ASSUME TypeOK, TypeOK', DrainAfterLoop, Unique, CopyInFront, SentOnce,
                    [Next]_vars
             PROVE  SentOnce'
  OBVIOUS
<1>1. PICK counted \in SUBSET accepted :
          /\ Acknowledged \subseteq counted
          /\ samplesSent = Cardinality(counted)
          /\ Absent(counted)
  BY DEF SentOnce
<1>2. ASSUME NEW k \in Consumers, SubmitBatch(k) PROVE SentOnce'
  <2>1. UNCHANGED <<pending, snap, batch, enqueued>>
    BY <1>2 DEF SubmitBatch, SubmitStart, SubmitAccepted, SubmitDisabled, SubmitRefused,
                SubmitReplyLost, Move, outside
  <2>2. /\ Holding(k) /\ pc[k] # "sent"
        /\ \A j \in Consumers : j # k => pc'[j] = pc[j] /\ ~Holding(j) /\ pc[j] # "sent"
    BY <1>2 DEF SubmitBatch, SubmitStart, SubmitAccepted, SubmitDisabled, SubmitRefused,
                SubmitReplyLost, Move, Goto, TypeOK, Holding, DrainAfterLoop, Consumers
  <2>3. /\ batch[k] \subseteq Range(snap[k]) /\ Range(snap[k]) \subseteq enqueued
        /\ Range(snap[k]) \cap counted = {}
        /\ \A i \in DOMAIN pending : pending[i] \notin counted
    BY <1>1, <2>2 DEF CopyInFront, Absent
  <2>4. accepted \cap batch[k] \subseteq lostReply
    BY <1>1, <2>3 DEF Acknowledged
  <2>5. CASE SubmitAccepted(k)
    <3>1. /\ accepted' = accepted \cup batch[k] /\ lostReply' = lostReply
          /\ twice' = twice \cup (accepted \cap batch[k]) /\ pc'[k] = "sent"
          /\ samplesSent' = samplesSent + Cardinality(batch[k])
      BY <2>5 DEF SubmitAccepted, Store, Goto, TypeOK
    <3>2. IsFiniteSet(counted) /\ IsFiniteSet(batch[k]) /\ counted \cap batch[k] = {}
      BY <2>3, SamplesFinite, FS_Subset DEF TypeOK
    <3>3. PICK larger : larger = counted \cup batch[k]
      OBVIOUS
    <3>4. larger \in SUBSET accepted' /\ Acknowledged' \subseteq larger
      BY <1>1, <3>1, <3>3 DEF Acknowledged
    <3>5. samplesSent' = Cardinality(larger)
      BY <1>1, <3>1, <3>2, <3>3, DisjointUnion
    <3>6. Absent(larger)'
      BY <2>1, <2>2, <2>3, <3>1, <3>3 DEF Absent, Holding
    <3>7. accepted' \subseteq enqueued' /\ twice' \subseteq lostReply'
      BY <2>1, <2>3, <2>4, <3>1 DEF SentOnce
    <3> QED  BY <3>4, <3>5, <3>6, <3>7 DEF SentOnce
  <2>6. CASE SubmitReplyLost(k)
    <3>1. /\ accepted' = accepted \cup batch[k] /\ lostReply' = lostReply \cup batch[k]
          /\ twice' = twice \cup (accepted \cap batch[k])
          /\ samplesSent' = samplesSent /\ pc'[k] = "failed"
      BY <2>6 DEF SubmitReplyLost, Store, Goto, TypeOK
    <3>2. Absent(counted)'
      BY <2>1, <2>2, <2>3, <3>1 DEF Absent, Holding
    <3>3. counted \in SUBSET accepted' /\ Acknowledged' \subseteq counted
      BY <1>1, <3>1 DEF Acknowledged
    <3>4. accepted' \subseteq enqueued' /\ twice' \subseteq lostReply'
      BY <2>1, <2>3, <2>4, <3>1 DEF SentOnce
    <3> QED  BY <1>1, <3>1, <3>2, <3>3, <3>4 DEF SentOnce
  <2>7. CASE SubmitStart(k) \/ SubmitDisabled(k) \/ SubmitRefused(k)
    <3>1. UNCHANGED <<samplesSent, accepted, twice, lostReply>>
      BY <2>7 DEF SubmitStart, SubmitDisabled, SubmitRefused, Move, outside
    <3>2. Absent(counted)'
      BY <2>1, <2>2, <2>3 DEF Absent, Holding
    <3> QED  BY <1>1, <2>1, <3>1, <3>2 DEF SentOnce, Acknowledged
  <2> QED  BY <1>2, <2>5, <2>6, <2>7 DEF SubmitBatch
<1>3. ASSUME \A k \in Consumers : ~SubmitBatch(k) PROVE SentOnce'
  <2>1. UNCHANGED <<samplesSent, accepted, twice, lostReply>>
    BY <1>3, GatewayKept
  <2>2. enqueued \subseteq enqueued'
    BY SamplesKept DEF Collect, EnqueueAppend, outside
  <2>3. Absent(counted)'
    BY <1>1, <1>3, AbsentKept DEF SentOnce
  <2> QED  BY <1>1, <2>1, <2>2, <2>3 DEF SentOnce, Acknowledged
<1> QED  BY <1>2, <1>3

\* Of an acknowledged batch nothing is left in the queue once the consumer has
\* removed it.
LEMMA RemovesItsBatchStep ==
    /\ TypeOK /\ CopyInFront /\ [Next]_vars
    => \A k \in Consumers : pc[k] = "sent" /\ pc'[k] # "sent"
                               => Range(pending') \cap batch[k] = {}
<1> SUFFICES ASSUME TypeOK, CopyInFront, [Next]_vars,
                    NEW k \in Consumers, pc[k] = "sent", pc'[k] # "sent"
             PROVE  Range(pending') \cap batch[k] = {}
  OBVIOUS
<1>1. RemoveStep(k)
  BY StepKinds DEF EnqueueAppend, QuietStep, RemoveStep, CopyStep, ForgetStep, Consumers
<1>2. /\ Len(snap[k]) \in Nat
      /\ \A i \in DOMAIN pending' :
             /\ i \in Nat \ {0}
             /\ i + Len(snap[k]) \in DOMAIN pending
             /\ pending'[i] = pending[i + Len(snap[k])]
  BY <1>1, RemoveElements DEF RemoveStep
<1>3. ASSUME NEW i \in DOMAIN pending', pending'[i] \in batch[k] PROVE FALSE
  <2>1. i + Len(snap[k]) <= Len(snap[k])
    BY <1>1, <1>2, <1>3 DEF RemoveStep, CopyInFront
  <2> QED  BY <1>2, <2>1
<1> QED  BY <1>3 DEF Range

LEMMA DeliveryInit == Init => DrainAfterLoop /\ Unique /\ CopyInFront /\ SentOnce
<1> SUFFICES ASSUME Init PROVE DrainAfterLoop /\ Unique /\ CopyInFront /\ SentOnce
  OBVIOUS
<1>1. DOMAIN <<>> = {}
  BY EmptySeq, DomainOfSeq
<1>2. pending = <<>> /\ \A c \in Collectors : held[c] = <<>>
  BY DEF Init
<1>3. /\ enqueued = {} /\ accepted = {} /\ twice = {} /\ lostReply = {}
      /\ \A k \in Consumers : batch[k] = {} /\ ~Holding(k)
  BY InitPlaces DEF Init, Holding, Consumers
<1>4. Absent({})
  BY DEF Absent
<1>5. SentOnce
  BY <1>3, <1>4, FS_EmptySet DEF SentOnce, Acknowledged, Init
<1> QED  BY <1>1, <1>2, <1>3, <1>5, InitPlaces DEF DrainAfterLoop, Unique, CopyInFront

\* The gateway stores a sample twice only if the reply to an earlier attempt was
\* lost: evictions during an attempt, partial staleness, retries and the hand-
\* over to the drain never resubmit what was acknowledged (hub.go:371-413,
\* 499-541, main.go:247-249).
THEOREM SubmittedOnce == Spec => []NoDoubleSubmission
<1>1. SentOnce => NoDoubleSubmission
  BY DEF SentOnce, NoDoubleSubmission
<1> QED
  BY <1>1, DeliveryInit, TypeCorrect, DrainAfterLoopStep, UniqueStep, CopyInFrontStep,
     SentOnceStep, PTL DEF Spec

\* samples_submitted_total lies between what was acknowledged and what was
\* stored: each acknowledged sample is counted, once, stale ones and retried
\* batches are not (hub.go:599-602).
THEOREM SentIsExact == Spec => []SentCounterExact
<1>1. TypeOK /\ SentOnce => SentCounterExact
  <2> SUFFICES ASSUME TypeOK, SentOnce PROVE SentCounterExact
    OBVIOUS
  <2>1. PICK counted \in SUBSET accepted :
            Acknowledged \subseteq counted /\ samplesSent = Cardinality(counted)
    BY DEF SentOnce
  <2>2. IsFiniteSet(accepted)
    BY SamplesFinite, FS_Subset DEF TypeOK
  <2>3. IsFiniteSet(counted) /\ Cardinality(counted) <= Cardinality(accepted)
    BY <2>2, FS_Subset
  <2>4. Cardinality(Acknowledged) <= Cardinality(counted)
    BY <2>1, <2>3, FS_Subset
  <2> QED  BY <2>1, <2>3, <2>4 DEF SentCounterExact, Acknowledged
<1> QED
  BY <1>1, DeliveryInit, TypeCorrect, DrainAfterLoopStep, UniqueStep, CopyInFrontStep,
     SentOnceStep, PTL DEF Spec

\* Removing as many samples as the batch held removes the batch, although the
\* queue's front may have moved since it was copied (hub.go:384-389, 527-532).
THEOREM BatchRemoved == Spec => RemovesItsBatch
<1>1. TypeOK /\ CopyInFront /\ [Next]_vars =>
          [\A k \in Consumers : pc[k] = "sent" /\ pc'[k] # "sent"
                                   => Range(pending') \cap batch[k] = {}]_vars
  BY RemovesItsBatchStep
<1> QED
  BY <1>1, DeliveryInit, TypeCorrect, DrainAfterLoopStep, UniqueStep, CopyInFrontStep,
     PTL DEF Spec, RemovesItsBatch

-----------------------------------------------------------------------------
(* No uncounted loss                                                        *)

\* One pair for each unit of each value of a function to the naturals.
Numbered(f) == UNION {{c} \X (1 .. f[c]) : c \in Collectors}

\* Raising one value from zero adds that many.
LEMMA NumberedGrows ==
    ASSUME NEW f \in [Collectors -> Nat], NEW g \in [Collectors -> Nat],
           NEW c \in Collectors, f[c] = 0, g = [f EXCEPT ![c] = g[c]]
    PROVE  /\ IsFiniteSet(Numbered(f)) <=> IsFiniteSet(Numbered(g))
           /\ IsFiniteSet(Numbered(f)) =>
                  Cardinality(Numbered(g)) = Cardinality(Numbered(f)) + g[c]
<1> DEFINE own == {c} \X (1 .. g[c])
<1>1. Numbered(g) = Numbered(f) \cup own
  <2>1. \A d \in Collectors : d # c => g[d] = f[d]
    OBVIOUS
  <2>2. 1 .. f[c] = {}
    OBVIOUS
  <2> QED  BY <2>1, <2>2 DEF Numbered
<1>2. Numbered(f) \cap own = {}
  <2>1. \A p \in Numbered(f) : \E d \in Collectors : p \in {d} \X (1 .. f[d])
    BY DEF Numbered
  <2>2. \A p \in Numbered(f) : p[1] # c
    BY <2>1
  <2> QED  BY <2>2
<1>3. IsFiniteSet(own) /\ Cardinality(own) = g[c]
  <2>1. IsFiniteSet(1 .. g[c]) /\ Cardinality(1 .. g[c]) = g[c]
    BY FS_Interval
  <2>2. IsFiniteSet({c}) /\ Cardinality({c}) = 1
    BY FS_Singleton
  <2>3. IsFiniteSet(own) /\ Cardinality(own) = Cardinality({c}) * Cardinality(1 .. g[c])
    BY <2>1, <2>2, FS_Product
  <2> QED  BY <2>1, <2>2, <2>3
<1> HIDE DEF own
<1>4. IsFiniteSet(Numbered(g)) => IsFiniteSet(Numbered(f))
  BY <1>1, FS_Subset
<1>5. ASSUME IsFiniteSet(Numbered(f))
      PROVE  /\ IsFiniteSet(Numbered(g))
             /\ Cardinality(Numbered(g)) = Cardinality(Numbered(f)) + g[c]
  BY <1>1, <1>2, <1>3, <1>5, DisjointUnion
<1> QED  BY <1>4, <1>5

\* The copies that consumers hold; what a filter has taken out of them; and the
\* samples that left the queue for another reason than the removal of a batch
\* they belong to. A removal by size takes a sample of the next batch for each
\* one of its own batch that was evicted meanwhile: those are in Gone before.
Holders == {k \in Consumers : Holding(k)}
Copied == UNION {Range(snap[k]) : k \in Holders}
FilteredOut ==
    UNION {Range(snap[k]) \ batch[k] : k \in {j \in Holders : pc[j] # "filter"}}
Gone == Lost \cup (Copied \ Range(pending))

\* samplesFailed, unless it saturates, covers what is gone and what has been
\* filtered out of a batch that is still in flight.
Account ==
    /\ IsFiniteSet(Uncounted)
    /\ \A c \in Collectors : cpc[c] # "notify" => dropped[c] = 0
    /\ \A k \in Holders : \A i, j \in DOMAIN snap[k] : snap[k][i] = snap[k][j] => i = j
    /\ \A k \in Consumers : pc[k] \in {"sent", "allstale"} => batch[k] \subseteq accepted
    /\ \/ samplesFailed = FailedCap
       \/ Cardinality(Gone) + Cardinality(FilteredOut)
              <= samplesFailed + Cardinality(Uncounted)

LEMMA AccountFinite ==
    ASSUME TypeOK
    PROVE  /\ Gone \subseteq Samples /\ FilteredOut \subseteq Samples
           /\ Copied \subseteq Samples /\ Range(pending) \subseteq Samples
           /\ \A S : S \subseteq Samples => IsFiniteSet(S) /\ Cardinality(S) \in Nat
<1>1. \A S : S \subseteq Samples => IsFiniteSet(S) /\ Cardinality(S) \in Nat
  BY SamplesFinite, FS_Subset, FS_CardinalityType
<1>2. Copied \subseteq Samples /\ FilteredOut \subseteq Samples
  BY SnapRange DEF Copied, FilteredOut, Holders
<1>3. Range(pending) \subseteq Samples
  BY RangeOfSeq DEF TypeOK
<1> QED  BY <1>1, <1>2, <1>3 DEF Gone, Lost, TypeOK

-----------------------------------------------------------------------------
(* The kinds of step that matter to the account.                            *)

AccountStill ==
    /\ UNCHANGED <<pending, samplesFailed, dropped, snap, batch, enqueued, accepted,
                   discarded>>
    /\ \A c \in Collectors : cpc'[c] = "notify" <=> cpc[c] = "notify"
    /\ \A k \in Consumers : Holding(k)' <=> Holding(k)
    /\ \A k \in Consumers : Holding(k) => pc'[k] = pc[k]

AccountRemove(k) ==
    /\ RemoveStep(k)
    /\ UNCHANGED <<samplesFailed, dropped, cpc, enqueued, accepted>>
    /\ \/ discarded' = discarded \cup Range(snap[k])
       \/ pc[k] \in {"sent", "allstale"} /\ discarded' = discarded

AccountCopy(k) ==
    /\ CopyStep(k)
    /\ UNCHANGED <<samplesFailed, dropped, cpc, enqueued, accepted, discarded>>
    /\ pc'[k] \notin {"sent", "allstale"}
    /\ Holding(k)' => pc'[k] = "filter" \/ batch'[k] = Range(snap'[k])

LEMMA AccountKinds ==
    ASSUME TypeOK, [Next]_vars
    PROVE  \/ AccountStill
           \/ \E c \in Collectors : EnqueueAppend(c) \/ EnqueueNotify(c)
           \/ \E k \in Consumers : SubmitBatch(k) \/ AccountRemove(k) \/ AccountCopy(k)
           \/ LoopFilter
           \/ LoopFailed
<1> USE DEF Consumers
<1>1. ASSUME NEW c \in Collectors, Collect(c) \/ CollectorExit(c)
      PROVE  AccountStill
  BY <1>1 DEF Collect, CollectorExit, AccountStill, Holding, outside, TypeOK
<1>2. CASE Cancel \/ Age \/ DrainExpire \/ Terminated \/ UNCHANGED vars
  <2>1. AccountStill
    BY <1>2 DEF Cancel, Age, DrainExpire, Terminated, vars, AccountStill, Holding,
                outside, collecting
  <2> QED  BY <2>1
<1>3. CASE LoopCheck \/ LoopWindow \/ LoopWaitExpired \/ LoopRetry \/ LoopExit
  <2>1. AccountStill
    BY <1>3 DEF LoopCheck, LoopWindow, LoopWaitExpired, LoopRetry, LoopExit, Move,
                Goto, AccountStill, Holding, TypeOK, outside, collecting
  <2> QED  BY <2>1
<1>4. CASE LoopIdleNotified \/ LoopWaitNotified \/ LoopDrainNotify
  <2>1. AccountStill
    BY <1>4 DEF LoopIdleNotified, LoopWaitNotified, LoopTakeNotify, LoopDrainNotify,
                Goto, AccountStill, Holding, TypeOK, outside, collecting
  <2> QED  BY <2>1
<1>5. CASE LoopSnapshot
  <2>1. AccountCopy("loop")
    BY <1>5 DEF LoopSnapshot, Goto, AccountCopy, CopyStep, Holding, TypeOK, outside,
                collecting
  <2> QED  BY <2>1
<1>6. CASE LoopDropStale \/ LoopSucceeded \/ LoopDisabled
  <2>1. RemoveStep("loop")
    BY <1>6 DEF LoopDropStale, LoopSucceeded, LoopDisabled, Goto, RemoveStep, Holding,
                TypeOK
  <2>2. AccountRemove("loop")
    BY <1>6, <2>1 DEF LoopDropStale, LoopSucceeded, LoopDisabled, Goto, AccountRemove,
                      outside, collecting
  <2> QED  BY <2>2
<1>7. CASE DrainJoin \/ DrainCheckDeadline
  <2>1. AccountStill
    BY <1>7 DEF DrainJoin, DrainCheckDeadline, Move, Goto, AccountStill, Holding, TypeOK,
                outside, collecting
  <2> QED  BY <2>1
<1>8. CASE DrainSnapshot
  <2>1. /\ UNCHANGED <<pending, samplesFailed, dropped, cpc, enqueued, accepted, discarded>>
        /\ batch'["drain"] = Range(snap'["drain"])
        /\ pc'["drain"] \in {"done", "send"}
        /\ \A k \in Consumers : k # "drain" => pc'[k] = pc[k] /\ batch'[k] = batch[k]
        /\ pc["drain"] = "snapshot"
        /\ CopyFront("drain")
    BY <1>8 DEF DrainSnapshot, Goto, TypeOK, outside, collecting
  <2>2. pc'["drain"] = "done" => pending = <<>>
    BY <1>8 DEF DrainSnapshot, Goto, TypeOK
  <2>3. pending = <<>> => Range(snap'["drain"]) = {}
    <3> SUFFICES ASSUME pending = <<>> PROVE snap'["drain"] = <<>>
      BY DEF Range
    <3> QED  BY <2>1, EmptySeq, SubSeqEmpty, HubQueueAssumption DEF CopyFront, TypeOK, Smaller
  <2>4. CopyStep("drain")
    BY <2>1, <2>2, <2>3 DEF CopyStep, Holding
  <2>5. AccountCopy("drain")
    BY <2>1, <2>4 DEF AccountCopy
  <2> QED  BY <2>5
<1>9. CASE DrainSucceeded \/ DrainSkip
  <2>1. RemoveStep("drain")
    BY <1>9 DEF DrainSucceeded, DrainSkip, Goto, RemoveStep, Holding, TypeOK
  <2>2. AccountRemove("drain")
    BY <1>9, <2>1 DEF DrainSucceeded, DrainSkip, Goto, AccountRemove, outside, collecting
  <2> QED  BY <2>2
<1> QED
  BY <1>1, <1>2, <1>3, <1>4, <1>5, <1>6, <1>7, <1>8, <1>9
  DEF Next, CollectorStep, LoopStep, DrainStep

\* The samples that evictions take are at most as many as EnqueueMetrics counts.
LEMMA EvictionCounted ==
    ASSUME NEW seq \in Seq(Samples), NEW e \in Nat, e <= Len(seq)
    PROVE  /\ IsFiniteSet(Range(seq) \ Range(Drop(seq, e)))
           /\ Cardinality(Range(seq) \ Range(Drop(seq, e))) <= e
<1> DEFINE front == {seq[i] : i \in 1 .. e}
           evicted == Range(seq) \ Range(Drop(seq, e))
<1>1. Len(seq) \in Nat /\ DOMAIN seq = 1 .. Len(seq)
  BY DomainOfSeq
<1>2. /\ Drop(seq, e) \in Seq(Samples)
      /\ Len(Drop(seq, e)) = Len(seq) - e
      /\ \A i \in 1 .. Len(seq) - e : Drop(seq, e)[i] = seq[e + i]
  BY <1>1, DropProperties
<1>3. DOMAIN Drop(seq, e) = 1 .. Len(seq) - e
  BY <1>2, DomainOfSeq
<1>4. evicted \subseteq front
  <2> SUFFICES ASSUME NEW i \in 1 .. Len(seq), seq[i] \notin Range(Drop(seq, e))
               PROVE  seq[i] \in front
    BY <1>1 DEF Range
  <2>1. ASSUME i > e PROVE FALSE
    <3>1. i - e \in 1 .. Len(seq) - e /\ e + (i - e) = i
      BY <1>1, <2>1
    <3>2. Drop(seq, e)[i - e] = seq[i]
      BY <1>2, <3>1
    <3> QED  BY <1>3, <3>1, <3>2 DEF Range
  <2> QED  BY <1>1, <2>1
<1>5. IsFiniteSet(front) /\ Cardinality(front) <= e
  <2>1. IsFiniteSet(1 .. e) /\ Cardinality(1 .. e) = e
    BY FS_Interval
  <2> QED  BY <2>1, ElementsOf
<1> HIDE DEF front, evicted
<1>6. IsFiniteSet(evicted) /\ Cardinality(evicted) <= Cardinality(front)
  BY <1>4, <1>5, FS_Subset
<1>7. Cardinality(evicted) <= e
  BY <1>5, <1>6, FS_CardinalityType
<1> QED  BY <1>6, <1>7 DEF evicted

-----------------------------------------------------------------------------
(* Each kind of step keeps the account.                                     *)

LEMMA AppendAccount ==
    ASSUME TypeOK, TypeOK', Account, NEW c \in Collectors, EnqueueAppend(c)
    PROVE  Account'
<1> DEFINE appended == pending \o held[c]
           e == Excess(appended)
           evicted == Range(appended) \ Range(pending')
<1>1. /\ pending \in Seq(Samples) /\ held[c] \in Seq(Samples)
      /\ appended \in Seq(Samples)
  BY ConcatProperties DEF TypeOK
<1>2. e \in Nat /\ e <= Len(appended)
  <2>1. Len(appended) \in Nat
    BY <1>1, LenProperties
  <2> HIDE DEF appended
  <2> QED  BY <1>1, <2>1, ExcessProperties
<1>3. /\ pending' = Drop(appended, e) /\ dropped' = [dropped EXCEPT ![c] = e]
      /\ enqueued' = enqueued \cup Range(held[c])
      /\ UNCHANGED <<samplesFailed, pc, snap, batch, accepted, discarded>>
  BY DEF EnqueueAppend
<1>4. Range(pending) \subseteq Range(appended) /\ Range(held[c]) \subseteq Range(appended)
  <2>1. /\ Len(appended) = Len(pending) + Len(held[c])
        /\ \A i \in 1 .. Len(pending) + Len(held[c]) :
               appended[i] = IF i <= Len(pending) THEN pending[i]
                                                  ELSE held[c][i - Len(pending)]
    BY <1>1, ConcatProperties
  <2>2. /\ DOMAIN pending = 1 .. Len(pending) /\ Len(pending) \in Nat
        /\ DOMAIN held[c] = 1 .. Len(held[c]) /\ Len(held[c]) \in Nat
        /\ DOMAIN appended = 1 .. Len(appended)
    BY <1>1, DomainOfSeq
  <2> HIDE DEF appended
  <2>3. ASSUME NEW i \in DOMAIN pending PROVE i \in DOMAIN appended /\ pending[i] = appended[i]
    BY <2>1, <2>2
  <2>4. ASSUME NEW i \in DOMAIN held[c]
        PROVE  i + Len(pending) \in DOMAIN appended /\ held[c][i] = appended[i + Len(pending)]
    <3>1. /\ i + Len(pending) \in 1 .. Len(pending) + Len(held[c])
          /\ ~(i + Len(pending) <= Len(pending))
          /\ (i + Len(pending)) - Len(pending) = i
      BY <2>2
    <3> QED  BY <2>1, <2>2, <3>1
  <2> QED  BY <2>3, <2>4 DEF Range
<1>5. IsFiniteSet(evicted) /\ Cardinality(evicted) <= e
  <2> HIDE DEF appended, e
  <2> QED  BY <1>1, <1>2, <1>3, EvictionCounted
<1> HIDE DEF appended, e
<1>6. Copied' = Copied /\ FilteredOut' = FilteredOut
  BY <1>3 DEF Copied, FilteredOut, Holders, Holding
<1>7. Gone' \subseteq Gone \cup evicted
  BY <1>3, <1>4, <1>6 DEF Gone, Lost
<1> HIDE DEF evicted
<1>8. /\ IsFiniteSet(Gone) /\ Cardinality(Gone') \in Nat /\ Cardinality(Gone) \in Nat
      /\ Cardinality(Gone') <= Cardinality(Gone) + e
      /\ Cardinality(FilteredOut) \in Nat
  <2>1. IsFiniteSet(Gone) /\ Cardinality(FilteredOut) \in Nat
    BY AccountFinite
  <2>2. /\ Cardinality(Gone') \in Nat /\ Cardinality(Gone) \in Nat
        /\ Cardinality(evicted) \in Nat
        /\ Cardinality(Gone') <= Cardinality(Gone) + Cardinality(evicted)
    BY <1>5, <1>7, <2>1, CoverBound
  <2> QED  BY <1>2, <1>5, <2>1, <2>2
<1>9. /\ IsFiniteSet(Uncounted') /\ Cardinality(Uncounted) \in Nat
      /\ Cardinality(Uncounted') = Cardinality(Uncounted) + e
  <2>1. /\ dropped \in [Collectors -> Nat] /\ dropped' \in [Collectors -> Nat]
        /\ dropped[c] = 0 /\ dropped' = [dropped EXCEPT ![c] = dropped'[c]]
        /\ dropped'[c] = e
    BY <1>3 DEF TypeOK, Account, EnqueueAppend
  <2>2. IsFiniteSet(Numbered(dropped)) /\ Cardinality(Numbered(dropped)) \in Nat
    BY FS_CardinalityType DEF Account, Uncounted, Numbered
  <2>3. PICK f \in [Collectors -> Nat], g \in [Collectors -> Nat] :
            f = dropped /\ g = dropped'
    BY <2>1
  <2>4. /\ IsFiniteSet(Numbered(g))
        /\ Cardinality(Numbered(g)) = Cardinality(Numbered(f)) + g[c]
    BY <2>1, <2>2, <2>3, NumberedGrows
  <2>5. Numbered(f) = Uncounted /\ Numbered(g) = Uncounted'
    BY <2>3 DEF Numbered, Uncounted
  <2> QED  BY <2>1, <2>2, <2>3, <2>4, <2>5
<1>10. \A d \in Collectors : cpc'[d] # "notify" => dropped'[d] = 0
  BY <1>3 DEF EnqueueAppend, Account, TypeOK
<1>11. /\ \A k \in Holders' : \A i, j \in DOMAIN snap'[k] : snap'[k][i] = snap'[k][j] => i = j
       /\ \A k \in Consumers : pc'[k] \in {"sent", "allstale"} => batch'[k] \subseteq accepted'
  BY <1>3 DEF Account, Holders, Holding
<1>12. \/ samplesFailed' = FailedCap
       \/ Cardinality(Gone') + Cardinality(FilteredOut')
              <= samplesFailed' + Cardinality(Uncounted')
  <2>1. samplesFailed \in Int
    BY HubQueueAssumption DEF TypeOK
  <2>2. CASE samplesFailed = FailedCap
    BY <1>3, <2>2
  <2>3. CASE Cardinality(Gone) + Cardinality(FilteredOut)
                 <= samplesFailed + Cardinality(Uncounted)
    BY <1>2, <1>3, <1>6, <1>8, <1>9, <2>1, <2>3
  <2> QED  BY <2>2, <2>3 DEF Account
<1> QED  BY <1>9, <1>10, <1>11, <1>12 DEF Account

LEMMA NotifyAccount ==
    ASSUME TypeOK, TypeOK', Account, NEW c \in Collectors, EnqueueNotify(c)
    PROVE  Account'
<1>1. /\ UNCHANGED <<pending, pc, snap, batch, enqueued, accepted, discarded>>
      /\ dropped' = [dropped EXCEPT ![c] = 0] /\ AddFailed(dropped[c])
      /\ cpc' = [cpc EXCEPT ![c] = "waiting"]
  BY DEF EnqueueNotify, outside
<1>2. Gone' = Gone /\ FilteredOut' = FilteredOut
  BY <1>1 DEF Gone, Lost, Copied, FilteredOut, Holders, Holding
<1>3. /\ IsFiniteSet(Uncounted') /\ Cardinality(Uncounted') \in Nat
      /\ Cardinality(Uncounted) = Cardinality(Uncounted') + dropped[c]
  <2>1. /\ dropped \in [Collectors -> Nat] /\ dropped' \in [Collectors -> Nat]
        /\ dropped'[c] = 0 /\ dropped = [dropped' EXCEPT ![c] = dropped[c]]
    BY <1>1 DEF TypeOK
  <2>2. IsFiniteSet(Numbered(dropped))
    BY DEF Account, Uncounted, Numbered
  <2>3. PICK f \in [Collectors -> Nat], g \in [Collectors -> Nat] :
            f = dropped' /\ g = dropped
    BY <2>1
  <2>4. IsFiniteSet(Numbered(g)) /\ f[c] = 0 /\ g = [f EXCEPT ![c] = g[c]]
    BY <2>1, <2>2, <2>3
  <2>5. /\ IsFiniteSet(Numbered(f))
        /\ Cardinality(Numbered(g)) = Cardinality(Numbered(f)) + g[c]
    BY <2>4, NumberedGrows
  <2>6. Numbered(f) = Uncounted' /\ Numbered(g) = Uncounted
    BY <2>3 DEF Numbered, Uncounted
  <2> QED  BY <2>3, <2>5, <2>6, FS_CardinalityType
<1>4. \A d \in Collectors : cpc'[d] # "notify" => dropped'[d] = 0
  BY <1>1 DEF Account, TypeOK
<1>5. /\ \A k \in Holders' : \A i, j \in DOMAIN snap'[k] : snap'[k][i] = snap'[k][j] => i = j
      /\ \A k \in Consumers : pc'[k] \in {"sent", "allstale"} => batch'[k] \subseteq accepted'
  BY <1>1 DEF Account, Holders, Holding
<1>6. \/ samplesFailed' = FailedCap
      \/ Cardinality(Gone') + Cardinality(FilteredOut')
             <= samplesFailed' + Cardinality(Uncounted')
  <2>1. /\ Cardinality(Gone) \in Nat /\ Cardinality(FilteredOut) \in Nat
        /\ dropped[c] \in Nat /\ samplesFailed \in 0 .. FailedCap /\ FailedCap \in Nat
    BY AccountFinite, HubQueueAssumption DEF TypeOK
  <2>2. samplesFailed' = IF samplesFailed + dropped[c] < FailedCap
                         THEN samplesFailed + dropped[c] ELSE FailedCap
    BY <1>1 DEF AddFailed, Smaller
  <2>3. \/ samplesFailed = FailedCap
        \/ Cardinality(Gone) + Cardinality(FilteredOut)
               <= samplesFailed + Cardinality(Uncounted)
    BY DEF Account
  <2> QED  BY <1>2, <1>3, <2>1, <2>2, <2>3
<1> QED  BY <1>3, <1>4, <1>5, <1>6 DEF Account

LEMMA FilterAccount ==
    ASSUME TypeOK, DrainAfterLoop, Account, LoopFilter
    PROVE  Account'
<1> DEFINE front == snap["loop"]
           fresh == {s \in Range(front) : Stamp(s) > horizon}
           stale == {i \in DOMAIN front : Stamp(front[i]) <= horizon}
<1>1. /\ Goto("loop", "filter", IF fresh = {} THEN "allstale" ELSE "send")
      /\ batch' = [batch EXCEPT !["loop"] = fresh]
      /\ AddFailed(Cardinality(stale))
      /\ UNCHANGED <<pending, dropped, cpc, snap, enqueued, accepted, discarded>>
  BY DEF LoopFilter, collecting, outside
<1>2. IsFiniteSet(stale) /\ Cardinality(stale) \in Nat
  <2>1. DOMAIN front = 1 .. Len(front) /\ Len(front) \in Nat
    BY DomainOfSeq DEF TypeOK, Consumers
  <2>2. IsFiniteSet(1 .. Len(front)) /\ stale \in SUBSET (1 .. Len(front))
    BY <2>1, FS_Interval
  <2> HIDE DEF stale
  <2> QED  BY <2>2, FS_Subset, FS_CardinalityType
<1>3. Cardinality({front[i] : i \in stale}) <= Cardinality(stale)
  <2> HIDE DEF stale, front
  <2> QED  BY <1>2, ElementsOf
<1>4. Range(front) \ fresh \subseteq {front[i] : i \in stale}
  <2>1. \A i \in DOMAIN front : Stamp(front[i]) \in Nat
    <3>1. \A i \in DOMAIN front : front[i] \in Samples
      BY ElementOfSeq, DomainOfSeq DEF TypeOK, Consumers
    <3> QED  BY <3>1, HubQueueAssumption DEF Samples, Stamp
  <2>2. horizon \in Nat
    BY HubQueueAssumption DEF TypeOK
  <2> QED  BY <2>1, <2>2 DEF Range
<1> HIDE DEF fresh, stale
<1>5. /\ pc["loop"] = "filter" /\ pc' \in [Consumers -> LoopAt \cup DrainAt]
      /\ pc'["loop"] \in {"allstale", "send"} /\ pc'["drain"] = pc["drain"]
      /\ pc'["loop"] = "allstale" => fresh = {}
  BY <1>1 DEF Goto, TypeOK, Consumers, LoopAt, DrainAt
<1>6. Holders = {"loop"} /\ Holders' = {"loop"}
  BY <1>5 DEF Holders, Holding, DrainAfterLoop, Consumers
<1>7. FilteredOut = {} /\ FilteredOut' = Range(front) \ fresh
  BY <1>1, <1>5, <1>6 DEF FilteredOut, TypeOK, Consumers
<1>8. Gone' = Gone
  BY <1>1, <1>6 DEF Gone, Lost, Copied
<1>9. Cardinality(FilteredOut') \in Nat /\ Cardinality(FilteredOut') <= Cardinality(stale)
  <2>1. IsFiniteSet({front[i] : i \in stale})
    BY <1>2, ElementsOf
  <2>2. /\ IsFiniteSet(FilteredOut')
        /\ Cardinality(FilteredOut') <= Cardinality({front[i] : i \in stale})
    BY <1>4, <1>7, <2>1, FS_Subset
  <2>3. Cardinality(FilteredOut') \in Nat /\ Cardinality({front[i] : i \in stale}) \in Nat
    BY <2>1, <2>2, FS_CardinalityType
  <2> QED  BY <1>2, <1>3, <2>2, <2>3
<1>10. \/ samplesFailed' = FailedCap
       \/ Cardinality(Gone') + Cardinality(FilteredOut')
              <= samplesFailed' + Cardinality(Uncounted')
  <2>1. /\ Cardinality(Gone) \in Nat /\ Cardinality(FilteredOut) = 0
        /\ samplesFailed \in 0 .. FailedCap /\ FailedCap \in Nat
    BY <1>7, AccountFinite, HubQueueAssumption, FS_EmptySet DEF TypeOK
  <2>2. samplesFailed' = IF samplesFailed + Cardinality(stale) < FailedCap
                         THEN samplesFailed + Cardinality(stale) ELSE FailedCap
    BY <1>1 DEF AddFailed, Smaller
  <2>3. Uncounted' = Uncounted /\ Cardinality(Uncounted) \in Nat
    BY <1>1, FS_CardinalityType DEF Uncounted, Account
  <2>4. \/ samplesFailed = FailedCap
        \/ Cardinality(Gone) + Cardinality(FilteredOut)
               <= samplesFailed + Cardinality(Uncounted)
    BY DEF Account
  <2> QED  BY <1>2, <1>8, <1>9, <2>1, <2>2, <2>3, <2>4
<1>11. IsFiniteSet(Uncounted') /\ \A c \in Collectors : cpc'[c] # "notify" => dropped'[c] = 0
  BY <1>1 DEF Account, Uncounted
<1>12. \A k \in Holders' : \A i, j \in DOMAIN snap'[k] : snap'[k][i] = snap'[k][j] => i = j
  BY <1>1, <1>6 DEF Account
<1>13. \A k \in Consumers : pc'[k] \in {"sent", "allstale"} => batch'[k] \subseteq accepted'
  BY <1>1, <1>5 DEF Account, TypeOK, Consumers
<1> QED  BY <1>10, <1>11, <1>12, <1>13 DEF Account

LEMMA SubmitAccount ==
    ASSUME TypeOK, TypeOK', Account, NEW k \in Consumers, SubmitBatch(k)
    PROVE  Account'
<1>1. /\ UNCHANGED <<pending, samplesFailed, dropped, cpc, snap, batch, enqueued, discarded>>
      /\ accepted \subseteq accepted'
      /\ pc'[k] = "sent" => batch[k] \subseteq accepted'
      /\ pc[k] \in {"send", "inflight"}
      /\ pc'[k] \in {"inflight", "sent", "disabled", "failed"}
      /\ \A j \in Consumers : j # k => pc'[j] = pc[j]
  BY DEF SubmitBatch, SubmitStart, SubmitAccepted, SubmitDisabled, SubmitRefused,
         SubmitReplyLost, Move, Goto, Store, collecting, outside, TypeOK
<1>2. Holders' = Holders /\ \A j \in Holders : pc'[j] = "filter" <=> pc[j] = "filter"
  BY <1>1 DEF Holders, Holding
<1>3. Copied' = Copied /\ FilteredOut' = FilteredOut
  BY <1>1, <1>2 DEF Copied, FilteredOut
<1>4. Gone' \subseteq Gone
  BY <1>1, <1>3 DEF Gone, Lost
<1>5. /\ Cardinality(Gone') \in Nat /\ Cardinality(Gone) \in Nat
      /\ Cardinality(Gone') <= Cardinality(Gone)
  BY <1>4, AccountFinite, FS_Subset, FS_CardinalityType
<1>6. Uncounted' = Uncounted /\ Cardinality(Uncounted) \in Nat
  BY <1>1, FS_CardinalityType DEF Uncounted, Account
<1>7. \/ samplesFailed' = FailedCap
      \/ Cardinality(Gone') + Cardinality(FilteredOut')
             <= samplesFailed' + Cardinality(Uncounted')
  <2>1. samplesFailed \in Int
    BY HubQueueAssumption DEF TypeOK
  <2>2. Cardinality(FilteredOut) \in Nat
    BY AccountFinite
  <2> QED  BY <1>1, <1>3, <1>5, <1>6, <2>1, <2>2 DEF Account
<1>8. \A j \in Consumers : pc'[j] \in {"sent", "allstale"} => batch'[j] \subseteq accepted'
  BY <1>1 DEF Account
<1> QED  BY <1>1, <1>2, <1>6, <1>7, <1>8 DEF Account

\* A removal by size takes as many samples of the next batch as were evicted of
\* its own: what it takes too much was gone before.
LEMMA RemoveAccount ==
    ASSUME TypeOK, TypeOK', DrainAfterLoop, CopyInFront, Account,
           NEW k \in Consumers, AccountRemove(k)
    PROVE  Account'
<1> DEFINE S == Range(snap[k])
           P == Range(pending)
           n == Len(snap[k])
           F == {pending[i] : i \in (1 .. n) \cap DOMAIN pending}
<1>1. /\ RemoveBatch(k) /\ Holding(k) /\ ~Holding(k)'
      /\ UNCHANGED <<samplesFailed, dropped, cpc, enqueued, accepted>>
      /\ \A j \in Consumers : j # k => pc'[j] = pc[j]
  BY DEF AccountRemove, RemoveStep
<1>2. Holders = {k} /\ Holders' = {}
  BY <1>1 DEF Holders, Holding, DrainAfterLoop, Consumers
<1>3. Copied = S /\ Copied' = {} /\ FilteredOut' = {}
  BY <1>2 DEF Copied, FilteredOut
<1>4. n \in Nat /\ DOMAIN snap[k] = 1 .. n /\ snap[k] \in Seq(Samples)
  BY DomainOfSeq DEF TypeOK
<1>5. Cardinality(S) = n
  <2>1. IsFiniteSet(1 .. n) /\ Cardinality(1 .. n) = n
    BY <1>4, FS_Interval
  <2>2. \A i, j \in 1 .. n : snap[k][i] = snap[k][j] => i = j
    BY <1>2, <1>4 DEF Account
  <2>3. S = {snap[k][i] : i \in 1 .. n}
    BY <1>4 DEF Range
  <2> HIDE DEF n, S
  <2> QED  BY <2>1, <2>2, <2>3, ElementsOf
<1>6. IsFiniteSet(F) /\ Cardinality(F) <= n /\ F \subseteq P
  <2> DEFINE I == (1 .. n) \cap DOMAIN pending
  <2>1. IsFiniteSet(1 .. n) /\ Cardinality(1 .. n) = n
    BY <1>4, FS_Interval
  <2>2. IsFiniteSet(I) /\ Cardinality(I) <= n
    <3> HIDE DEF n
    <3> QED  BY <2>1, FS_Intersection
  <2>3. F \subseteq P
    BY DEF Range
  <2> HIDE DEF I
  <2>4. IsFiniteSet({pending[i] : i \in I}) /\ Cardinality({pending[i] : i \in I}) <= Cardinality(I)
    BY <2>2, ElementsOf
  <2>5. Cardinality(I) \in Nat /\ Cardinality({pending[i] : i \in I}) \in Nat
    BY <2>2, <2>4, FS_CardinalityType
  <2>6. F = {pending[i] : i \in I}
    BY DEF I
  <2> HIDE DEF F, n
  <2> QED  BY <1>4, <2>2, <2>3, <2>4, <2>5, <2>6
<1>7. P \cap S \subseteq F
  <2>1. \A i \in DOMAIN pending : pending[i] \in S => i \in 1 .. n
    <3>1. \A i \in DOMAIN pending : i \in Nat \ {0}
      BY SMTT(30), DomainOfSeq DEF TypeOK
    <3> QED  BY <1>1, <1>4, <3>1 DEF CopyInFront
  <2> QED  BY <2>1 DEF Range
<1>8. P \ Range(pending') \subseteq F
  <2>1. pending \in Seq(Samples) /\ pending' = Drop(pending, n)
    BY <1>1 DEF TypeOK, RemoveBatch
  <2>2. DOMAIN pending = 1 .. Len(pending) /\ Len(pending) \in Nat
    BY <2>1, DomainOfSeq
  <2> HIDE DEF n
  <2>3. /\ Drop(pending, n) \in Seq(Samples)
        /\ Len(Drop(pending, n)) = IF n <= Len(pending) THEN Len(pending) - n ELSE 0
        /\ \A i \in 1 .. Len(pending) - n : Drop(pending, n)[i] = pending[n + i]
    BY <1>4, <2>1, DropProperties
  <2>4. DOMAIN pending' = 1 .. Len(pending')
    BY <2>1, <2>3, DomainOfSeq
  <2>5. ASSUME NEW i \in DOMAIN pending, i \notin 1 .. n PROVE pending[i] \in Range(pending')
    <3>1. i - n \in 1 .. Len(pending) - n /\ n + (i - n) = i
      BY <1>4, <2>2, <2>5
    <3>2. i - n \in DOMAIN pending'
      <4>1. n <= Len(pending)
        BY <1>4, <2>2, <2>5
      <4>2. Len(pending') = Len(pending) - n
        BY <2>1, <2>3, <4>1
      <4> QED  BY <2>4, <3>1, <4>2
    <3>3. pending'[i - n] = pending[i]
      BY <2>1, <2>3, <3>1
    <3> QED  BY <3>2, <3>3 DEF Range
  <2> QED  BY <2>5 DEF Range
<1> HIDE DEF F, n
<1>9. Lost' \subseteq ((Lost \ S) \cup (F \ S)) \cup FilteredOut
  <2>1. ASSUME NEW s \in Lost', s \in S PROVE s \in FilteredOut
    <3>1. s \notin discarded' /\ s \notin accepted
      BY <1>1, <2>1 DEF Lost
    <3>2. pc[k] \in {"sent", "allstale"}
      BY <2>1, <3>1 DEF AccountRemove
    <3>3. s \notin batch[k]
      BY <3>1, <3>2 DEF Account
    <3> QED  BY <1>2, <2>1, <3>2, <3>3 DEF FilteredOut
  <2>2. ASSUME NEW s \in Lost', s \notin S PROVE s \in (Lost \ S) \cup (F \ S)
    <3>1. discarded \subseteq discarded'
      BY DEF AccountRemove
    <3> QED  BY <1>1, <1>8, <2>2, <3>1 DEF Lost
  <2> QED  BY <2>1, <2>2
<1>10. /\ IsFiniteSet(S) /\ IsFiniteSet(P) /\ IsFiniteSet(Gone) /\ IsFiniteSet(FilteredOut)
       /\ IsFiniteSet(Lost) /\ Cardinality(FilteredOut) \in Nat
  BY <1>3, AccountFinite DEF Gone
<1> HIDE DEF S, P
<1>11. /\ IsFiniteSet(F \ S) /\ IsFiniteSet(S \ P)
       /\ Cardinality(F \ S) <= Cardinality(S \ P)
  <2>1. F \cap S = S \cap P
    BY <1>6, <1>7
  <2>2. /\ IsFiniteSet(F \ S) /\ Cardinality(F \ S) = Cardinality(F) - Cardinality(F \cap S)
        /\ IsFiniteSet(S \ P) /\ Cardinality(S \ P) = Cardinality(S) - Cardinality(S \cap P)
    BY <1>6, <1>10, FS_Difference
  <2>3. /\ Cardinality(F) \in Nat /\ Cardinality(S) \in Nat
        /\ Cardinality(F \cap S) \in Nat
    BY <1>6, <1>10, FS_CardinalityType, FS_Intersection
  <2>4. Cardinality(F) <= Cardinality(S)
    BY <1>5, <1>6
  <2> HIDE DEF S, P, F
  <2>5. PICK common : common = Cardinality(F \cap S)
    OBVIOUS
  <2>6. common \in Nat /\ Cardinality(S \cap P) = common
    BY <2>1, <2>3, <2>5
  <2> QED  BY <2>2, <2>3, <2>4, <2>5, <2>6
<1>12. Cardinality(Lost') <= Cardinality(Gone) + Cardinality(FilteredOut)
  <2> DEFINE A == Lost \ S
             B == F \ S
             D == S \ P
  <2>1. IsFiniteSet(A) /\ A \cap D = {} /\ A \cup D \subseteq Gone
    BY <1>3, <1>10, FS_Difference DEF Gone, P
  <2> HIDE DEF A, B, D
  <2>2. /\ IsFiniteSet(A \cup D)
        /\ Cardinality(A \cup D) = Cardinality(A) + Cardinality(D)
    BY <1>11, <2>1, DisjointUnion DEF D
  <2>3. Cardinality(A \cup D) <= Cardinality(Gone)
    BY <1>10, <2>1, FS_Subset
  <2>4. /\ IsFiniteSet(A \cup B)
        /\ Cardinality(A \cup B) <= Cardinality(A) + Cardinality(B)
    BY <1>11, <2>1, CoverBound DEF B
  <2>5. /\ Cardinality(Lost') \in Nat
        /\ Cardinality(Lost') <= Cardinality(A \cup B) + Cardinality(FilteredOut)
    BY <1>9, <1>10, <2>4, CoverBound DEF A, B
  <2>6. Cardinality(B) <= Cardinality(D)
    BY <1>11 DEF B, D
  <2>7. /\ Cardinality(A) \in Nat /\ Cardinality(B) \in Nat /\ Cardinality(D) \in Nat
        /\ Cardinality(A \cup B) \in Nat /\ Cardinality(A \cup D) \in Nat
        /\ Cardinality(Gone) \in Nat
    BY <1>10, <1>11, <2>1, <2>2, <2>4, FS_CardinalityType DEF B, D
  <2> QED  BY <1>10, <2>2, <2>3, <2>4, <2>5, <2>6, <2>7
<1>13. Gone' = Lost'
  BY <1>3 DEF Gone
<1>14. Uncounted' = Uncounted /\ Cardinality(Uncounted) \in Nat
  BY <1>1, FS_CardinalityType DEF Uncounted, Account
<1>15. \/ samplesFailed' = FailedCap
       \/ Cardinality(Gone') + Cardinality(FilteredOut')
              <= samplesFailed' + Cardinality(Uncounted')
  <2>1. /\ samplesFailed \in Int /\ Cardinality(Gone) \in Nat /\ Cardinality(Lost') \in Nat
        /\ Cardinality({}) = 0
    <3>1. Lost' \subseteq Samples
      BY DEF Lost, TypeOK
    <3>2. samplesFailed \in Int
      BY HubQueueAssumption DEF TypeOK
    <3> QED  BY <3>1, <3>2, AccountFinite, FS_EmptySet
  <2> QED  BY <1>1, <1>3, <1>10, <1>12, <1>13, <1>14, <2>1 DEF Account
<1>16. \A j \in Consumers : pc'[j] \in {"sent", "allstale"} => batch'[j] \subseteq accepted'
  BY <1>2 DEF Holders, Holding
<1> QED  BY <1>1, <1>2, <1>14, <1>15, <1>16 DEF Account

LEMMA CopyAccount ==
    ASSUME TypeOK, TypeOK', DrainAfterLoop, Unique, Account,
           NEW k \in Consumers, AccountCopy(k)
    PROVE  Account'
<1>1. /\ UNCHANGED <<pending, samplesFailed, dropped, cpc, enqueued, accepted, discarded>>
      /\ CopyFront(k) /\ pc[k] = "snapshot" /\ pc'[k] \notin {"sent", "allstale"}
      /\ \A j \in Consumers : j # k => pc'[j] = pc[j]
      /\ Holding(k)' => pc'[k] = "filter" \/ batch'[k] = Range(snap'[k])
  BY DEF AccountCopy, CopyStep
<1>2. Holders = {} /\ Holders' \subseteq {k}
  BY <1>1 DEF Holders, Holding, DrainAfterLoop, Consumers
<1>3. \A i \in DOMAIN snap'[k] : i \in DOMAIN pending /\ snap'[k][i] = pending[i]
  BY <1>1, CopyElements
<1>4. Copied' \subseteq Range(pending')
  BY <1>1, <1>2, <1>3 DEF Copied, Range
<1>5. Gone' = Lost /\ Gone = Lost
  BY <1>1, <1>2, <1>4 DEF Gone, Lost, Copied
<1>6. FilteredOut = {} /\ FilteredOut' = {}
  BY <1>1, <1>2 DEF FilteredOut, Holders
<1>7. \A j \in Holders' : \A a, b \in DOMAIN snap'[j] : snap'[j][a] = snap'[j][b] => a = b
  BY <1>2, <1>3 DEF Unique
<1>8. \A j \in Consumers : pc'[j] \in {"sent", "allstale"} => batch'[j] \subseteq accepted'
  BY <1>1, <1>2 DEF Holders, Holding
<1>9. Uncounted' = Uncounted
  BY <1>1 DEF Uncounted
<1> QED  BY <1>1, <1>5, <1>6, <1>7, <1>8, <1>9 DEF Account

LEMMA FailedAccount ==
    ASSUME TypeOK, TypeOK', DrainAfterLoop, Account, LoopFailed
    PROVE  Account'
<1>1. /\ UNCHANGED <<pending, dropped, cpc, enqueued, accepted, discarded>>
      /\ AddFailed(Len(snap["loop"]))
      /\ pc["loop"] = "failed" /\ pc'["loop"] = "backoff" /\ pc'["drain"] = pc["drain"]
  BY DEF LoopFailed, Goto, collecting, outside, TypeOK, Consumers
<1>2. Holders' = {}
  BY <1>1 DEF Holders, Holding, DrainAfterLoop, Consumers
<1>3. Gone' \subseteq Gone /\ FilteredOut' = {}
  BY <1>1, <1>2 DEF Gone, Lost, Copied, FilteredOut
<1>4. /\ Cardinality(Gone') \in Nat /\ Cardinality(Gone) \in Nat
      /\ Cardinality(Gone') <= Cardinality(Gone)
      /\ Cardinality(FilteredOut) \in Nat /\ Cardinality(FilteredOut') = 0
  BY <1>3, AccountFinite, FS_Subset, FS_CardinalityType, FS_EmptySet
<1>5. Uncounted' = Uncounted /\ Cardinality(Uncounted) \in Nat
  BY <1>1, FS_CardinalityType DEF Uncounted, Account
<1>6. \/ samplesFailed' = FailedCap
      \/ Cardinality(Gone') + Cardinality(FilteredOut')
             <= samplesFailed' + Cardinality(Uncounted')
  <2>1. samplesFailed \in 0 .. FailedCap /\ FailedCap \in Nat /\ Len(snap["loop"]) \in Nat
    BY LenProperties, HubQueueAssumption DEF TypeOK, Consumers
  <2>2. samplesFailed' = FailedCap \/ samplesFailed' >= samplesFailed
    BY <1>1, <2>1 DEF AddFailed, Smaller
  <2>3. samplesFailed' \in 0 .. FailedCap
    BY DEF TypeOK
  <2>4. \/ samplesFailed = FailedCap
        \/ Cardinality(Gone) + Cardinality(FilteredOut)
               <= samplesFailed + Cardinality(Uncounted)
    BY DEF Account
  <2> QED  BY <1>4, <1>5, <2>1, <2>2, <2>3, <2>4
<1>7. \A k \in Consumers : pc'[k] \notin {"sent", "allstale"}
  BY <1>2 DEF Holders, Holding
<1> QED  BY <1>1, <1>2, <1>5, <1>6, <1>7 DEF Account

LEMMA AccountStep ==
    /\ TypeOK /\ TypeOK' /\ DrainAfterLoop /\ Unique /\ CopyInFront /\ Account
    /\ [Next]_vars
    => Account'
<1> SUFFICES ASSUME TypeOK, TypeOK', DrainAfterLoop, Unique, CopyInFront, Account,
                    [Next]_vars
             PROVE  Account'
  OBVIOUS
<1>1. CASE AccountStill
  <2>1. /\ UNCHANGED <<pending, samplesFailed, dropped, snap, batch, enqueued, accepted,
                       discarded>>
        /\ Holders' = Holders /\ \A k \in Holders : pc'[k] = pc[k]
    BY <1>1 DEF AccountStill, Holders
  <2>2. Gone' = Gone /\ FilteredOut' = FilteredOut /\ Uncounted' = Uncounted
    BY <2>1 DEF Gone, Lost, Copied, FilteredOut, Uncounted
  <2>3. \A k \in Consumers : pc'[k] \in {"sent", "allstale"} => pc[k] = pc'[k]
    BY <1>1 DEF AccountStill, Holding
  <2>4. \A c \in Collectors : cpc'[c] # "notify" => cpc[c] # "notify"
    BY <1>1 DEF AccountStill
  <2> QED  BY <2>1, <2>2, <2>3, <2>4 DEF Account
<1> QED
  BY <1>1, AccountKinds, AppendAccount, NotifyAccount, FilterAccount, SubmitAccount,
     RemoveAccount, CopyAccount, FailedAccount

LEMMA AccountHolds == Spec => []Account
<1>1. Init => Account
  <2> SUFFICES ASSUME Init PROVE Account
    OBVIOUS
  <2>1. Holders = {} /\ \A k \in Consumers : pc[k] \notin {"sent", "allstale"}
    BY InitPlaces DEF Holders, Holding, Consumers
  <2>2. Gone = {} /\ FilteredOut = {}
    BY <2>1 DEF Gone, Lost, Copied, FilteredOut, Init
  <2>3. Uncounted = {}
    <3>1. 1 .. 0 = {}
      OBVIOUS
    <3> QED  BY <3>1 DEF Uncounted, Init
  <2> QED  BY <2>1, <2>2, <2>3, FS_EmptySet DEF Account, Init
<1> QED
  BY <1>1, DeliveryInit, TypeCorrect, DrainAfterLoopStep, UniqueStep, CopyInFrontStep,
     AccountStep, PTL DEF Spec

\* No sample is lost that the statistics do not count, provided that the bound
\* of the model's counter is above the number of samples: evictions, stale
\* drops, removals by size and retries may come in any order (hub.go:240-250,
\* 366-376, 384-389).
THEOREM LossCounted ==
    ASSUME FailedCap >= Cardinality(Samples)
    PROVE  Spec => []LossIsCounted
<1>1. TypeOK /\ Account => LossIsCounted
  <2> SUFFICES ASSUME TypeOK, Account PROVE LossIsCounted
    OBVIOUS
  <2>1. /\ Cardinality(Lost) \in Nat /\ Cardinality(Gone) \in Nat
        /\ Cardinality(FilteredOut) \in Nat /\ Cardinality(Uncounted) \in Nat
        /\ Cardinality(Samples) \in Nat
    BY AccountFinite, FS_CardinalityType DEF Gone, Account
  <2>2. Cardinality(Lost) <= Cardinality(Gone)
    BY AccountFinite, FS_Subset DEF Gone
  <2>3. Cardinality(Lost) <= Cardinality(Samples)
    BY SamplesFinite, FS_Subset DEF Lost, TypeOK
  <2>4. samplesFailed \in Nat /\ FailedCap \in Nat
    BY HubQueueAssumption DEF TypeOK
  <2>5. CASE samplesFailed = FailedCap
    BY <2>1, <2>3, <2>4, <2>5 DEF LossIsCounted
  <2>6. CASE Cardinality(Gone) + Cardinality(FilteredOut)
                 <= samplesFailed + Cardinality(Uncounted)
    BY <2>1, <2>2, <2>4, <2>6 DEF LossIsCounted
  <2> QED  BY <2>5, <2>6 DEF Account
<1> QED
  BY <1>1, TypeCorrect, AccountHolds, PTL

\* The books balance: every sample that was ever enqueued is in the queue, among
\* those counted as sent or failed, among those a collector is about to count as
\* evicted, or is one that counts nowhere: given up after a 412 or a failed drain
\* attempt, or stored although its answer was lost (hub.go:240-250, 366-376,
\* 408-419, 527-536, 599-602).
Explained ==
    Cardinality(enqueued) <= samplesSent + samplesFailed + Len(pending)
                                 + Cardinality(Uncounted)
                                 + Cardinality(lostReply) + Cardinality(discarded)

THEOREM BooksBalance ==
    ASSUME FailedCap >= Cardinality(Samples)
    PROVE  Spec => []Explained
<1>1. TypeOK /\ Account /\ SentCounterExact /\ LossIsCounted => Explained
  <2> SUFFICES ASSUME TypeOK, Account, SentCounterExact, LossIsCounted PROVE Explained
    OBVIOUS
  <2> DEFINE Queued == Range(pending)
             Acked == accepted \ lostReply
             A == Lost \cup Queued
             B == Acked \cup lostReply
             C == B \cup discarded
  <2>1. /\ \A S : S \subseteq Samples => IsFiniteSet(S) /\ Cardinality(S) \in Nat
        /\ Lost \subseteq Samples /\ Queued \subseteq Samples /\ Acked \subseteq Samples
        /\ lostReply \subseteq Samples /\ discarded \subseteq Samples
    BY AccountFinite DEF Lost, TypeOK
  <2>2. Cardinality(Queued) <= Len(pending) /\ Len(pending) \in Nat
    <3>1. DOMAIN pending = 1 .. Len(pending) /\ Len(pending) \in Nat
      BY DomainOfSeq DEF TypeOK
    <3>2. IsFiniteSet(DOMAIN pending) /\ Cardinality(DOMAIN pending) = Len(pending)
      <4>1. \A n \in Nat : IsFiniteSet(1 .. n) /\ Cardinality(1 .. n) = n
        BY FS_Interval
      <4> QED  BY <3>1, <4>1
    <3>3. Cardinality({pending[i] : i \in DOMAIN pending}) <= Cardinality(DOMAIN pending)
      BY <3>2, ElementsOf
    <3>4. Queued = {pending[i] : i \in DOMAIN pending}
      BY DEF Range
    <3> QED  BY <3>1, <3>2, <3>3, <3>4
  <2>3. Cardinality(A) <= Cardinality(Lost) + Cardinality(Queued) /\ A \subseteq Samples
    BY <2>1, CoverBound
  <2>4. Cardinality(B) <= Cardinality(Acked) + Cardinality(lostReply) /\ B \subseteq Samples
    BY <2>1, CoverBound
  <2>5. Cardinality(C) <= Cardinality(B) + Cardinality(discarded) /\ C \subseteq Samples
    BY <2>1, <2>4, CoverBound
  <2>6. enqueued \subseteq A \cup C
    BY DEF Lost
  <2>7. Cardinality(enqueued) <= Cardinality(A) + Cardinality(C)
    BY <2>1, <2>3, <2>5, <2>6, CoverBound
  <2>8. /\ Cardinality(Acked) <= samplesSent
        /\ Cardinality(Lost) <= samplesFailed + Cardinality(Uncounted)
    BY DEF SentCounterExact, LossIsCounted
  <2>9. /\ Cardinality(Uncounted) \in Nat /\ samplesSent \in Nat /\ samplesFailed \in Nat
        /\ Cardinality(enqueued) \in Nat
    BY <2>1, FS_CardinalityType, HubQueueAssumption DEF Account, TypeOK
  <2>10. /\ Cardinality(A) \in Nat /\ Cardinality(B) \in Nat /\ Cardinality(C) \in Nat
         /\ Cardinality(Lost) \in Nat /\ Cardinality(Queued) \in Nat
         /\ Cardinality(Acked) \in Nat /\ Cardinality(lostReply) \in Nat
         /\ Cardinality(discarded) \in Nat
    BY <2>1, <2>3, <2>4, <2>5
  <2> HIDE DEF A, B, C, Queued, Acked
  <2>11. Cardinality(A) <= samplesFailed + Cardinality(Uncounted) + Len(pending)
    BY <2>2, <2>3, <2>8, <2>9, <2>10
  <2>12. Cardinality(C) <= samplesSent + Cardinality(lostReply) + Cardinality(discarded)
    BY <2>4, <2>5, <2>8, <2>9, <2>10
  <2>13. \A e, a, c, s, f, l, u, r, d \in Nat :
             e <= a + c /\ a <= f + u + l /\ c <= s + r + d => e <= s + f + l + u + r + d
    OBVIOUS
  <2> QED
    BY <2>2, <2>7, <2>9, <2>10, <2>11, <2>12, <2>13, Zenon DEF Explained
<1>2. Spec => []LossIsCounted
  BY LossCounted
<1> QED
  BY <1>1, <1>2, TypeCorrect, AccountHolds, SentIsExact, PTL

-----------------------------------------------------------------------------
(* HubQueue implements SampleFate: appends with evictions are offers,       *)
(* removals of a batch settle it, and what the gateway stores was offered.  *)

\* What a collector has in hand is no more than one scrape brings.
HeldSized ==
    \A c \in Collectors :
        /\ Len(held[c]) <= MaxScrape
        /\ cpc[c] = "enqueue" => held[c] # <<>>

LEMMA HeldSizedStep == TypeOK /\ HeldSized /\ [Next]_vars => HeldSized'
<1> SUFFICES ASSUME TypeOK, HeldSized, [Next]_vars PROVE HeldSized'
  OBVIOUS
<1>1. ASSUME NEW c \in Collectors, Collect(c) PROVE HeldSized'
  <2>1. PICK n \in 1 .. MaxScrape :
            held' = [held EXCEPT ![c] = [i \in 1 .. n |-> <<scrapes + 1, i>>]]
    BY <1>1 DEF Collect
  <2> DEFINE fresh == [i \in 1 .. n |-> <<scrapes + 1, i>>]
  <2>2. fresh \in Seq(Samples)
    <3>1. fresh \in [1 .. n -> Samples]
      BY SMTT(30), <1>1, HubQueueAssumption DEF Collect, TypeOK, Samples
    <3> QED  BY <3>1, SeqDef, HubQueueAssumption
  <2>3. Len(fresh) = n /\ fresh # <<>>
    <3>1. DOMAIN fresh = 1 .. Len(fresh) /\ Len(fresh) \in Nat
      BY <2>2, DomainOfSeq
    <3>2. DOMAIN fresh = 1 .. n
      OBVIOUS
    <3>4. n \in Nat /\ n # 0
      BY HubQueueAssumption
    <3>5. \A a, b \in Nat : 1 .. a = 1 .. b => a = b
      <4> SUFFICES ASSUME NEW a \in Nat, NEW b \in Nat, 1 .. a = 1 .. b PROVE a = b
        OBVIOUS
      <4>1. a < b => b \in 1 .. b /\ b \notin 1 .. a
        OBVIOUS
      <4>2. b < a => a \in 1 .. a /\ a \notin 1 .. b
        OBVIOUS
      <4> QED  BY <4>1, <4>2
    <3> HIDE DEF fresh
    <3>6. Len(fresh) = n
      BY <3>1, <3>2, <3>4, <3>5
    <3>7. fresh # <<>>
      BY <3>6, <3>4, EmptySeq
    <3> QED  BY <3>6, <3>7
  <2>4. \A d \in Collectors : held'[d] = IF d = c THEN fresh ELSE held[d]
    BY <2>1 DEF TypeOK
  <2>5. \A d \in Collectors : d # c => cpc'[d] = cpc[d]
    BY <1>1 DEF Collect, TypeOK
  <2> HIDE DEF fresh
  <2> QED  BY <2>3, <2>4, <2>5, HubQueueAssumption DEF HeldSized
<1>2. ASSUME NEW c \in Collectors, EnqueueAppend(c) PROVE HeldSized'
  <2>1. /\ \A d \in Collectors : held'[d] = IF d = c THEN <<>> ELSE held[d]
        /\ \A d \in Collectors : cpc'[d] = IF d = c THEN "notify" ELSE cpc[d]
    BY <1>2 DEF EnqueueAppend, TypeOK
  <2> QED  BY <2>1, EmptySeq, HubQueueAssumption DEF HeldSized
<1>3. CASE /\ \A c \in Collectors : ~Collect(c) /\ ~EnqueueAppend(c)
  <2>1. UNCHANGED held
    BY <1>3, SamplesKept
  <2>2. \A c \in Collectors : cpc'[c] = "enqueue" => cpc[c] = "enqueue"
    <3>1. ASSUME NEW k \in Consumers, SubmitBatch(k) PROVE cpc' = cpc
      BY <3>1 DEF SubmitBatch, SubmitStart, SubmitAccepted, SubmitDisabled,
                  SubmitRefused, SubmitReplyLost, Move, collecting
    <3>2. CASE LoopStep
      BY <3>1, <3>2 DEF LoopStep, LoopCheck, LoopIdleNotified, LoopWindow,
             LoopWaitNotified, LoopWaitExpired, LoopSnapshot, LoopFilter, LoopDropStale,
             LoopSucceeded, LoopDrainNotify, LoopDisabled, LoopFailed, LoopRetry,
             LoopExit, LoopTakeNotify, Move, collecting, Consumers
    <3>3. CASE DrainStep
      BY <3>1, <3>3 DEF DrainStep, DrainJoin, DrainSnapshot, DrainSucceeded, DrainSkip,
             DrainCheckDeadline, Move, collecting, Consumers
    <3> QED
      BY <1>3, <3>2, <3>3 DEF Next, CollectorStep, EnqueueNotify, CollectorExit, Cancel,
             Age, DrainExpire, Terminated, vars, collecting, TypeOK
  <2> QED  BY <2>1, <2>2 DEF HeldSized
<1> QED  BY <1>1, <1>2, <1>3

-----------------------------------------------------------------------------
(* The three kinds of step.                                                 *)

\* An append is an offer.
LEMMA AppendOffers ==
    ASSUME TypeOK, Unique, HeldSized, NEW c \in Collectors, EnqueueAppend(c)
    PROVE  Fate!Offer
<1> DEFINE n == Len(held[c])
           appended == pending \o held[c]
<1>1. /\ held[c] \in Seq(Samples) /\ n \in Nat /\ DOMAIN held[c] = 1 .. n
      /\ \A i \in 1 .. n : held[c][i] \in Samples
  <2>1. held[c] \in Seq(Samples)
    BY DEF TypeOK
  <2> QED  BY <2>1, DomainOfSeq, ElementOfSeq
<1>2. n \in 1 .. MaxScrape
  <2>1. held[c] # <<>> /\ n <= MaxScrape
    BY DEF HeldSized, EnqueueAppend
  <2>2. n # 0
    BY <1>1, <2>1, EmptySeq
  <2> QED  BY <1>1, <2>1, <2>2, HubQueueAssumption
<1>3. held[c] \in [1 .. n -> Samples \ enqueued]
  <2>1. held[c] \in [1 .. n -> Samples]
    BY <1>1, LenProperties
  <2>2. \A i \in 1 .. n : held[c][i] \notin enqueued
    BY <1>1 DEF Unique
  <2> QED  BY <2>1, <2>2
<1>4. \A i, j \in 1 .. n : held[c][i] = held[c][j] => i = j
  BY <1>1 DEF Unique
<1>5. pending' = Fate!Newest(appended)
  BY DEF EnqueueAppend, Fate!Newest, Fate!Without, Drop, Excess
<1>6. enqueued' = enqueued \cup Fate!Range(held[c]) /\ accepted' = accepted
  BY DEF EnqueueAppend, Range, Fate!Range
<1> HIDE DEF n
<1> QED
  BY <1>2, <1>3, <1>4, <1>5, <1>6, Zenon DEF Fate!Offer

\* The removal of a batch settles it.
LEMMA RemovalSettles ==
    ASSUME TypeOK, NEW k \in Consumers, RemoveBatch(k), UNCHANGED <<enqueued, accepted>>
    PROVE  Fate!Settle \/ UNCHANGED <<pending, enqueued, accepted>>
<1>1. Len(snap[k]) \in Nat /\ Len(snap[k]) <= MaxSeriesPerRequest
  BY LenProperties DEF TypeOK
<1>2. pending' = SubSeq(pending, Len(snap[k]) + 1, Len(pending))
  BY DEF RemoveBatch, Drop
<1>3. CASE Len(snap[k]) = 0
  BY <1>2, <1>3, SubSeqFull DEF TypeOK
<1>4. CASE Len(snap[k]) # 0
  <2> DEFINE n == Len(snap[k])
  <2>1. n \in 1 .. MaxSeriesPerRequest
    BY <1>1, <1>4, HubQueueAssumption
  <2>2. pending' = Fate!Without(pending, n)
    BY <1>2 DEF Fate!Without
  <2> HIDE DEF n
  <2> QED  BY <2>1, <2>2 DEF Fate!Settle
<1> QED  BY <1>3, <1>4

\* An attempt stores nothing that was not offered.
LEMMA AttemptDelivers ==
    ASSUME TypeOK, TypeOK', CopyInFront, SentOnce, NEW k \in Consumers, SubmitBatch(k)
    PROVE  Fate!Deliver
<1>1. UNCHANGED <<pending, enqueued>>
  BY DEF SubmitBatch, SubmitStart, SubmitAccepted, SubmitDisabled, SubmitRefused,
         SubmitReplyLost, Move, outside
<1>2. batch[k] \subseteq enqueued
  <2>1. Holding(k)
    BY DEF SubmitBatch, SubmitStart, SubmitAccepted, SubmitDisabled, SubmitRefused,
           SubmitReplyLost, Move, Goto, Holding
  <2> QED  BY <2>1 DEF CopyInFront
<1>3. accepted' = accepted \/ accepted' = accepted \cup batch[k]
  BY DEF SubmitBatch, SubmitStart, SubmitAccepted, SubmitDisabled, SubmitRefused,
         SubmitReplyLost, Move, Store, outside
<1> QED  BY <1>1, <1>2, <1>3 DEF Fate!Deliver, SentOnce

LEMMA FateStep ==
    /\ TypeOK /\ TypeOK' /\ DrainAfterLoop /\ Unique /\ CopyInFront /\ SentOnce
    /\ HeldSized /\ [Next]_vars
    => [Fate!Next]_(Fate!vars)
<1> SUFFICES ASSUME TypeOK, TypeOK', Unique, CopyInFront, SentOnce, HeldSized, [Next]_vars
             PROVE  Fate!Next \/ UNCHANGED <<pending, enqueued, accepted>>
  BY DEF Fate!vars
<1>1. CASE \E c \in Collectors : EnqueueAppend(c)
  BY <1>1, AppendOffers DEF Fate!Next
<1>2. CASE \E k \in Consumers : SubmitBatch(k)
  BY <1>2, AttemptDelivers DEF Fate!Next
<1>3. CASE /\ \A c \in Collectors : ~EnqueueAppend(c)
           /\ \A k \in Consumers : ~SubmitBatch(k)
  <2>1. UNCHANGED <<enqueued, accepted>>
    <3>1. accepted' = accepted
      BY <1>3, GatewayKept
    <3>2. enqueued' = enqueued
      BY <1>3, SamplesKept DEF Collect, outside
    <3> QED  BY <3>1, <3>2
  <2>2. CASE \E k \in Consumers : RemoveStep(k)
    BY <2>1, <2>2, RemovalSettles DEF RemoveStep, Fate!Next
  <2>3. CASE UNCHANGED pending
    BY <2>1, <2>3
  <2> QED  BY <1>3, <2>2, <2>3, StepKinds DEF QuietStep, CopyStep, ForgetStep
<1> QED  BY <1>1, <1>2, <1>3

\* The queue keeps what SampleFate promises: samples enter once, keep their
\* order, leave at the front only and no faster than overflow and requests
\* explain, and nothing is delivered that was not offered (hub.go:235-255,
\* 384-389, 518-535).
THEOREM Refinement == Spec => RefinesSampleFate
<1>1. Init => Fate!Init
  BY DEF Init, Fate!Init
<1>2. Init => HeldSized
  BY EmptySeq, HubQueueAssumption DEF Init, HeldSized
<1> QED
  BY <1>1, <1>2, DeliveryInit, TypeCorrect, DrainAfterLoopStep, UniqueStep,
     CopyInFrontStep, SentOnceStep, HeldSizedStep, FateStep, PTL
  DEF Spec, RefinesSampleFate, Fate!Spec

-----------------------------------------------------------------------------
(* What the collectors and the gateway can rely on.                         *)

\* In every step the queue is shifted by some number of samples: what was behind
\* them is kept in its order, and what is new in it has never been enqueued.
LEMMA QueueShifts ==
    ASSUME TypeOK, Unique, [Next]_vars
    PROVE  \E e \in Nat :
               /\ \A i \in DOMAIN pending' :
                      \/ i + e \in DOMAIN pending /\ pending'[i] = pending[i + e]
                      \/ pending'[i] \notin enqueued
               /\ \A j \in DOMAIN pending :
                      j > e => j - e \in DOMAIN pending' /\ pending'[j - e] = pending[j]
<1>1. DOMAIN pending = 1 .. Len(pending) /\ Len(pending) \in Nat
  BY DomainOfSeq DEF TypeOK
<1>2. CASE pending' = pending
  <2> WITNESS 0 \in Nat
  <2> QED  BY <1>1, <1>2
<1>3. ASSUME NEW c \in Collectors, EnqueueAppend(c)
      PROVE  \E e \in Nat :
               /\ \A i \in DOMAIN pending' :
                      \/ i + e \in DOMAIN pending /\ pending'[i] = pending[i + e]
                      \/ pending'[i] \notin enqueued
               /\ \A j \in DOMAIN pending :
                      j > e => j - e \in DOMAIN pending' /\ pending'[j - e] = pending[j]
  <2>1. PICK e \in Nat :
               /\ \A i \in DOMAIN pending' :
                      \/ i + e \in DOMAIN pending /\ pending'[i] = pending[i + e]
                      \/ /\ i + e - Len(pending) \in DOMAIN held[c]
                         /\ pending'[i] = held[c][i + e - Len(pending)]
               /\ \A j \in DOMAIN pending :
                      j > e => j - e \in DOMAIN pending' /\ pending'[j - e] = pending[j]
    BY <1>3, AppendElements
  <2>2. \A m \in DOMAIN held[c] : held[c][m] \notin enqueued
    BY DEF Unique
  <2>3. ASSUME NEW i \in DOMAIN pending'
        PROVE  \/ i + e \in DOMAIN pending /\ pending'[i] = pending[i + e]
               \/ pending'[i] \notin enqueued
    BY <2>1, <2>2
  <2> QED  BY <2>1, <2>3
<1>4. ASSUME NEW k \in Consumers, RemoveStep(k)
      PROVE  \E e \in Nat :
               /\ \A i \in DOMAIN pending' :
                      i + e \in DOMAIN pending /\ pending'[i] = pending[i + e]
               /\ \A j \in DOMAIN pending :
                      j > e => j - e \in DOMAIN pending' /\ pending'[j - e] = pending[j]
  BY <1>4, RemoveElements DEF RemoveStep
<1> QED
  BY <1>2, <1>3, <1>4, StepKinds DEF QuietStep, CopyStep, ForgetStep

\* First in, first out: whenever a sample is kept, so is every sample behind it.
\* Evictions, deliveries, refusals and stale drops take from the front only
\* (hub.go:242-245, 384-389, 527-536).
FirstInFirstOut ==
    [][\A i, j \in DOMAIN pending :
           i < j /\ pending[i] \in Range(pending') => pending[j] \in Range(pending')]_vars

THEOREM OldestGoFirst == Spec => FirstInFirstOut
<1>1. TypeOK /\ Unique /\ [Next]_vars =>
          \A i, j \in DOMAIN pending :
              i < j /\ pending[i] \in Range(pending') => pending[j] \in Range(pending')
  <2> SUFFICES ASSUME TypeOK, Unique, [Next]_vars,
                      NEW i \in DOMAIN pending, NEW j \in DOMAIN pending,
                      i < j, pending[i] \in Range(pending')
               PROVE  pending[j] \in Range(pending')
    OBVIOUS
  <2>1. DOMAIN pending = 1 .. Len(pending) /\ Len(pending) \in Nat
    BY DomainOfSeq DEF TypeOK
  <2>2. PICK e \in Nat :
               /\ \A m \in DOMAIN pending' :
                      \/ m + e \in DOMAIN pending /\ pending'[m] = pending[m + e]
                      \/ pending'[m] \notin enqueued
               /\ \A m \in DOMAIN pending :
                      m > e => m - e \in DOMAIN pending' /\ pending'[m - e] = pending[m]
    BY QueueShifts
  <2>3. PICK m \in DOMAIN pending' : pending'[m] = pending[i]
    BY DEF Range
  <2>4. m + e = i
    BY <2>2, <2>3 DEF Unique
  <2>5. m \in Nat \ {0}
    <3>1. pending' \in Seq(Samples)
      BY TypeOKStep DEF TypeOK
    <3> QED  BY <3>1, DomainOfSeq
  <2>6. j > e
    BY <2>1, <2>4, <2>5
  <2> QED  BY <2>2, <2>6 DEF Range
<1> QED
  BY <1>1, DeliveryInit, TypeCorrect, UniqueStep, PTL DEF Spec, FirstInFirstOut

\* Whatever the reason for which a sample has left the queue, it is never there
\* again: nothing that was delivered, refused or evicted is queued a second time
\* (hub.go:235-255, 384-389, 527-536).
Departed(s) == s \in enqueued /\ s \notin Range(pending)

THEOREM DepartedForGood ==
    ASSUME NEW s
    PROVE  Spec => [](Departed(s) => []Departed(s))
<1>1. TypeOK /\ Unique /\ Departed(s) /\ [Next]_vars => Departed(s)'
  <2> SUFFICES ASSUME TypeOK, Unique, Departed(s), [Next]_vars
               PROVE  s \in enqueued' /\ s \notin Range(pending')
    BY DEF Departed
  <2>1. s \in enqueued'
    BY SamplesKept DEF Departed, Collect, EnqueueAppend, outside
  <2>2. PICK e \in Nat : \A m \in DOMAIN pending' :
               \/ m + e \in DOMAIN pending /\ pending'[m] = pending[m + e]
               \/ pending'[m] \notin enqueued
    BY QueueShifts
  <2> QED  BY <2>1, <2>2 DEF Departed, Range
<1> QED
  BY <1>1, DeliveryInit, TypeCorrect, UniqueStep, PTL DEF Spec

\* Once the drain is over nothing is sent or stored any more, and a collector
\* that still appends changes no acknowledged state (main.go:247-256).
DrainIsLast ==
    [][pc["drain"] = "done" => UNCHANGED <<samplesSent, accepted, twice, lostReply>>]_vars

THEOREM SilentAfterDrain == Spec => DrainIsLast
<1>1. TypeOK /\ DrainAfterLoop /\ [Next]_vars =>
          [pc["drain"] = "done" => UNCHANGED <<samplesSent, accepted, twice, lostReply>>]_vars
  <2> SUFFICES ASSUME TypeOK, DrainAfterLoop, [Next]_vars, pc["drain"] = "done"
               PROVE  UNCHANGED <<samplesSent, accepted, twice, lostReply>>
    OBVIOUS
  <2>1. \A k \in Consumers : pc[k] \notin {"send", "inflight"}
    BY DEF DrainAfterLoop, Consumers
  <2>2. \A k \in Consumers : ~SubmitBatch(k)
    BY <2>1 DEF SubmitBatch, SubmitStart, SubmitAccepted, SubmitDisabled, SubmitRefused,
                SubmitReplyLost, Move, Goto
  <2> QED  BY <2>2, GatewayKept
<1> QED
  BY <1>1, DeliveryInit, TypeCorrect, DrainAfterLoopStep, PTL DEF Spec, DrainIsLast
=============================================================================
