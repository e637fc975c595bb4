--------------------------- MODULE StartupProofs ---------------------------
(***************************************************************************)
(* Startup, for any number of rounds that are waited and any set of keys:  *)
(* all requests are about one VM, and the hub client has the newest key    *)
(* from its first request on; the agent reports the collectors that it     *)
(* runs; a load takes a bounded time, and the wait after the n-th one that *)
(* failed is what the schedule says.                                       *)
(***************************************************************************)
EXTENDS Startup, CountingLemmas

-----------------------------------------------------------------------------
(* How long a load takes                                                    *)

\* What the pauses before this attempt sum up to.
Paused == openStackMetadataInitialBackoff * (2 ^ (attempt - 1) - 1)

\* Each attempt that is behind has taken its share of the time at most, and no
\* pause comes after the last one.
InTime ==
    /\ main \in {"fetch", "pause"} => attempt \in 1 .. Attempts
    /\ main = "pause" => attempt < Attempts
    /\ main = "fetch" => spent <= (attempt - 1) * AttemptTimeout + Paused
    /\ main = "pause" => spent <= attempt * AttemptTimeout + Paused

TypeInv == TypeOK /\ InTime

LEMMA SmallPowers == 2 ^ 0 = 1 /\ 2 ^ 1 = 2 /\ 2 ^ 2 = 4
  <1>1. 2 ^ 0 = 1
    BY PowerOfNone
  <1>2. 2 ^ (0 + 1) = 2 * 2 ^ 0 /\ 2 ^ (1 + 1) = 2 * 2 ^ 1
    BY PowerDoubles
  <1> QED
    BY <1>1, <1>2

\* The constants of the code, as far as the proofs look at them.
LEMMA Durations ==
    /\ openStackMetadataInitialBackoff \in Nat
    /\ metadataTimeout \in Nat
    /\ startupMetadataInitialBackoff \in Nat \ {0}
    /\ startupMetadataMaxBackoff \in Nat \ {0}
    /\ startupMetadataInitialBackoff <= startupMetadataMaxBackoff
  BY DEF openStackMetadataInitialBackoff, metadataTimeout,
     startupMetadataInitialBackoff, startupMetadataMaxBackoff

\* However many attempts the configuration allows, they share the time there is.
LEMMA AttemptsShare ==
    ASSUME config \in Config
    PROVE  /\ Attempts \in {1, 3}
           /\ AttemptTimeout \in Nat
           /\ Attempts * AttemptTimeout <= metadataTimeout
  <1>1. Attempts \in {1, 3}
    BY DEF Attempts, openStackMetadataRetryAttempts
  <1>2. metadataTimeout \in Nat
    BY Durations
  <1> QED
    BY <1>1, <1>2 DEF AttemptTimeout

LEMMA CollectorsCounted ==
    ASSUME NEW S, S \subseteq Always \cup {"node", "gpu"}
    PROVE  Cardinality(S) \in 0 .. 4
  <1> DEFINE D == {"dedicated_inference"}
  <1>1. IsFiniteSet(D) /\ Cardinality(D) = 1
    BY FS_Singleton
  <1>2. /\ IsFiniteSet(D \cup {"agent"})
        /\ Cardinality(D \cup {"agent"}) = 2
    BY <1>1, FS_AddElement
  <1>3. /\ IsFiniteSet(D \cup {"agent"} \cup {"node"})
        /\ Cardinality(D \cup {"agent"} \cup {"node"}) = 3
    BY <1>2, FS_AddElement
  <1>4. /\ IsFiniteSet(D \cup {"agent"} \cup {"node"} \cup {"gpu"})
        /\ Cardinality(D \cup {"agent"} \cup {"node"} \cup {"gpu"}) = 4
    BY <1>3, FS_AddElement
  <1>5. S \subseteq D \cup {"agent"} \cup {"node"} \cup {"gpu"}
    BY DEF Always
  <1>6. Cardinality(S) <= 4 /\ IsFiniteSet(S)
    BY <1>4, <1>5, FS_Subset
  <1> QED
    BY <1>6, FS_CardinalityType

LEMMA InitType == Init => TypeInv
  <1> SUFFICES ASSUME Init PROVE TypeInv
    OBVIOUS
  <1>1. InTime
    BY DEF Init, InTime
  <1>2. /\ attempt \in 0 .. openStackMetadataRetryAttempts
        /\ rounds \in 0 .. MaxRounds
        /\ collectorsRunning \in 0 .. 4
    BY StartupAssumption DEF Init, openStackMetadataRetryAttempts
  <1>3. /\ spent \in 0 .. metadataTimeout + 3 * openStackMetadataInitialBackoff
        /\ backoff \in 1 .. startupMetadataMaxBackoff
    BY Durations DEF Init
  <1>4. meta \in Metadata /\ req \in [Requesters -> Request]
    BY DEF Init, NoMetadata, Metadata, NoRequest, Request
  <1> QED
    BY <1>1, <1>2, <1>3, <1>4 DEF Init, TypeInv, TypeOK

\* The time of an attempt is added where it ends, that of a pause behind it.
LEMMA LoadInTime ==
    ASSUME TypeInv, ReadFile \/ FetchAnswered \/ FetchFailed \/ FetchPause \/ Wait
    PROVE  /\ attempt' \in 0 .. openStackMetadataRetryAttempts
           /\ spent' \in 0 .. metadataTimeout + 3 * openStackMetadataInitialBackoff
           /\ InTime'
  <1> DEFINE W == openStackMetadataInitialBackoff
             T == AttemptTimeout
             A == Attempts
  <1>1. config' = config /\ config \in Config
    BY DEF TypeInv, TypeOK, ReadFile, FetchAnswered, FetchFailed, FetchPause, Wait
  <1>2. Attempts' = A /\ AttemptTimeout' = T
    BY <1>1 DEF Attempts, AttemptTimeout
  <1>3. /\ A = 1 \/ A = 3
        /\ T \in Nat /\ metadataTimeout \in Nat
        /\ A = 1 => T <= metadataTimeout
        /\ A = 3 => 3 * T <= metadataTimeout
    BY <1>1, AttemptsShare, Durations
  <1>4. /\ attempt \in 0 .. 3 /\ W \in Nat
        /\ spent \in Nat /\ spent <= metadataTimeout + 3 * W
    BY Durations DEF TypeInv, TypeOK, openStackMetadataRetryAttempts
  <1>5. /\ attempt = 1 => Paused = 0
        /\ attempt = 2 => Paused = W
        /\ attempt = 3 => Paused = 3 * W
    <2>1. ASSUME attempt = 1 PROVE Paused = 0
      <3>1. attempt - 1 = 0
        BY <2>1
      <3> QED
        BY <3>1, SmallPowers, Durations DEF Paused
    <2>2. ASSUME attempt = 2 PROVE Paused = W
      <3>1. attempt - 1 = 1
        BY <2>2
      <3> QED
        BY <3>1, SmallPowers, Durations DEF Paused
    <2>3. ASSUME attempt = 3 PROVE Paused = 3 * W
      <3>1. attempt - 1 = 2
        BY <2>3
      <3> QED
        BY <3>1, SmallPowers, Durations DEF Paused
    <2> QED
      BY <2>1, <2>2, <2>3
  <1> HIDE DEF W, T, A
  <1>6. SUFFICES /\ attempt' \in 0 .. 3
                 /\ spent' \in Nat /\ spent' <= metadataTimeout + 3 * W
                 /\ InTime'
    BY <1>3, <1>4 DEF W, openStackMetadataRetryAttempts
  <1>7. CASE ReadFile
    <2>1. Paused' = 0
      <3>1. attempt' = 1
        BY <1>7 DEF ReadFile
      <3>2. attempt' - 1 = 0
        BY <3>1
      <3> QED
        BY <3>2, SmallPowers, Durations DEF Paused
    <2>2. attempt' = 1 /\ spent' = 0 /\ main' \in {"loaded", "fetch"}
      BY <1>7 DEF ReadFile, Goto
    <2>3. InTime'
      BY <1>2, <1>3, <2>1, <2>2 DEF InTime, A, T
    <2> QED
      BY <1>3, <1>4, <2>2, <2>3
  <1>8. CASE FetchAnswered \/ FetchFailed
    <2>1. /\ main = "fetch" /\ attempt' = attempt
          /\ spent' = spent \/ spent' = spent + T
          /\ main' = "loaded" \/ main' = (IF attempt < A THEN "pause" ELSE "wait")
      <3>1. \E t \in {0, T} : spent' = spent + t
        BY <1>8 DEF FetchAnswered, FetchFailed, T
      <3>2. /\ main = "fetch" /\ attempt' = attempt
            /\ main' = "loaded" \/ main' = (IF attempt < A THEN "pause" ELSE "wait")
        BY <1>8 DEF FetchAnswered, FetchFailed, Goto, A
      <3> QED
        BY <1>4, <3>1, <3>2
    <2>2. attempt \in 1 .. A /\ spent <= (attempt - 1) * T + Paused
      BY <2>1 DEF TypeInv, InTime, A, T
    <2>3. Paused' = Paused
      BY <2>1 DEF Paused
    <2>4. PICK p \in Nat : p = (attempt - 1) * T /\ p + T = attempt * T
      <3>1. PICK n \in Nat : n = attempt - 1 /\ n + 1 = attempt
        BY <1>4, <2>2
      <3>2. n * T \in Nat /\ n * T + T = (n + 1) * T
        BY <1>3, NextMultiple
      <3> QED
        BY <3>1, <3>2, Zenon
    <2>5. /\ attempt = 1 => p = 0
          /\ attempt = 2 => p = T
          /\ attempt = 3 => p = 2 * T
      <3>1. attempt = 1 => p = 0 * T
        BY <2>4
      <3>2. attempt = 2 => p = 1 * T
        BY <2>4
      <3>3. attempt = 3 => p = 2 * T
        BY <2>4
      <3> QED
        BY <1>3, <3>1, <3>2, <3>3
    <2>6. spent <= p + Paused
      BY <2>2, <2>4, Zenon
    <2>7. (attempt = 1 \/ attempt = 2 \/ attempt = 3) /\ Paused \in Nat
      BY <1>4, <1>5, <2>2
    <2>8. /\ spent' \in Nat /\ spent' <= (p + T) + Paused
          /\ spent' <= metadataTimeout + 3 * W
      <3>1. A = 1 => attempt = 1
        BY <2>2, <2>7
      <3> HIDE DEF Paused
      <3> QED
        BY <1>3, <1>4, <1>5, <2>1, <2>5, <2>6, <2>7, <3>1
    <2>9. spent' <= attempt * T + Paused
      BY <2>4, <2>8, Zenon
    <2>10. InTime'
      BY <1>2, <2>1, <2>2, <2>3, <2>9 DEF InTime, A, T
    <2> QED
      BY <1>4, <2>1, <2>8, <2>10
  <1>9. CASE FetchPause
    <2>1. /\ main = "pause" /\ main' = "fetch" /\ attempt' = attempt + 1
          /\ spent' = spent + W * 2 ^ (attempt - 1)
      BY <1>9 DEF FetchPause, Goto, W
    <2>2. /\ attempt \in 1 .. A /\ attempt < A
          /\ spent <= attempt * T + Paused
      BY <2>1 DEF TypeInv, InTime, A, T
    <2>3. A = 3 /\ (attempt = 1 \/ attempt = 2)
      BY <1>3, <1>4, <2>2
    <2>4. CASE attempt = 1
      <3>1. attempt - 1 = 0 /\ attempt' - 1 = 1
        BY <2>1, <2>4
      <3>2. spent' = spent + W /\ Paused' = W
        BY <1>4, <2>1, <3>1, SmallPowers DEF Paused, W
      <3>3. /\ spent' \in Nat /\ spent' <= metadataTimeout + 3 * W
            /\ spent' <= (attempt' - 1) * T + Paused'
        BY <1>3, <1>4, <1>5, <2>1, <2>2, <2>3, <2>4, <3>2
      <3>4. InTime'
        BY <1>2, <2>1, <2>3, <2>4, <3>3 DEF InTime, A, T
      <3> QED
        BY <2>1, <2>4, <3>3, <3>4
    <2>5. CASE attempt = 2
      <3>1. attempt - 1 = 1 /\ attempt' - 1 = 2
        BY <2>1, <2>5
      <3>2. spent' = spent + 2 * W /\ Paused' = 3 * W
        BY <1>4, <2>1, <3>1, SmallPowers DEF Paused, W
      <3>3. /\ spent' \in Nat /\ spent' <= metadataTimeout + 3 * W
            /\ spent' <= (attempt' - 1) * T + Paused'
        BY <1>3, <1>4, <1>5, <2>1, <2>2, <2>3, <2>5, <3>2
      <3>4. InTime'
        BY <1>2, <2>1, <2>3, <2>5, <3>3 DEF InTime, A, T
      <3> QED
        BY <2>1, <2>5, <3>3, <3>4
    <2> QED
      BY <2>3, <2>4, <2>5
  <1>10. CASE Wait
    <2>1. main' = "load" /\ attempt' = attempt /\ spent' = spent
      BY <1>10 DEF Wait, Goto
    <2>2. InTime'
      BY <2>1 DEF InTime
    <2> QED
      BY <1>4, <2>1, <2>2
  <1> QED
    BY <1>7, <1>8, <1>9, <1>10

LEMMA LoadKeepsType ==
    ASSUME TypeInv, ReadFile \/ FetchAnswered \/ FetchFailed \/ FetchPause \/ Wait
    PROVE  TypeInv'
  <1>1. /\ UNCHANGED <<config, hub, collecting, goroutines, req, asked, signalCh>>
        /\ main' \in {"load", "fetch", "pause", "wait", "loaded"} /\ meta' \in Metadata
    BY DEF TypeInv, TypeOK, ReadFile, FetchAnswered, FetchFailed, FetchPause, Wait, Goto
  <1>2. /\ backoff \in 1 .. startupMetadataMaxBackoff /\ rounds \in 0 .. MaxRounds
        /\ MaxRounds \in Nat /\ startupMetadataMaxBackoff \in Nat
    BY StartupAssumption, Durations DEF TypeInv, TypeOK
  <1>3. backoff' \in 1 .. startupMetadataMaxBackoff /\ rounds' \in 0 .. MaxRounds
    <2>1. CASE Wait
      BY <1>2, <2>1 DEF Wait, Smaller
    <2>2. CASE UNCHANGED <<backoff, rounds>>
      BY <1>2, <2>2
    <2> QED
      BY <2>1, <2>2 DEF ReadFile, FetchAnswered, FetchFailed, FetchPause
  <1> QED
    BY <1>1, <1>3, LoadInTime DEF TypeInv, TypeOK, hub, collecting

\* Requests take one of the keys along, and one of the VM's identities.
LEMMA RequestsKeepType ==
    ASSUME TypeInv, SubmitStartupMetadata \/ Announced \/ Meanwhile
    PROVE  /\ hubKey' \in Keys \cup {None}
           /\ renewed' \in Keys \cup {None}
           /\ req' \in [Requesters -> Request]
           /\ collectorsRunning' \in 0 .. 4
  <1>1. /\ hubKey \in Keys \cup {None} /\ renewed \in Keys \cup {None}
        /\ hubUuid \in {Uuid, None} /\ meta.uuid \in {Uuid, None}
        /\ req \in [Requesters -> Request] /\ collectorsRunning \in 0 .. 4
    BY DEF TypeInv, TypeOK, Metadata
  <1>2. \A w, r : r \in Request => [req EXCEPT ![w] = r] \in [Requesters -> Request]
    BY <1>1
  <1>3. NoRequest \in Request
    BY DEF NoRequest, Request
  <1>4. ASSUME NEW u \in {Uuid, None}
        PROVE  [at |-> "built", uuid |-> u, header |-> hubKey, observed |-> None] \in Request
    BY <1>1 DEF Request
  <1>5. CASE SubmitStartupMetadata
    <2>1. req' \in [Requesters -> Request]
      BY <1>1, <1>2, <1>4, <1>5 DEF SubmitStartupMetadata, Build
    <2> QED
      BY <1>1, <1>5, <2>1 DEF SubmitStartupMetadata, hub, collecting
  <1>6. CASE SyncTick \/ SubmitMetrics
    <2>1. req' \in [Requesters -> Request]
      BY <1>1, <1>2, <1>4, <1>6 DEF SyncTick, SubmitMetrics, Build
    <2> QED
      BY <1>1, <1>6, <2>1 DEF SyncTick, SubmitMetrics
  <1>7. CASE Announced \/ SyncAnswered \/ MetricsAnswered
    <2>1. req' \in [Requesters -> Request] /\ UNCHANGED <<hubKey, renewed>>
      BY <1>2, <1>3, <1>7 DEF Announced, SyncAnswered, MetricsAnswered, Answered
    <2>2. Cardinality(scheduled) \in 0 .. 4
      BY CollectorsCounted DEF TypeInv, TypeOK
    <2>3. collectorsRunning' \in 0 .. 4
      BY <1>1, <1>7, <2>2 DEF Announced, SyncAnswered, MetricsAnswered
    <2> QED
      BY <1>1, <2>1, <2>3
  <1>8. ASSUME NEW w \in Requesters, RequestStep(w)
        PROVE  /\ hubKey' \in Keys \cup {None} /\ renewed' \in Keys \cup {None}
               /\ req' \in [Requesters -> Request] /\ collectorsRunning' \in 0 .. 4
    <2>1. req[w] \in Request
      BY <1>1
    <2>2. /\ [req[w] EXCEPT !.at = "sent", !.observed = hubKey] \in Request
          /\ [req[w] EXCEPT !.at = "refreshed"] \in Request
          /\ [req[w] EXCEPT !.at = "rebuilt", !.header = hubKey] \in Request
      BY <1>1, <2>1 DEF Request
    <2>3. req' \in [Requesters -> Request]
      BY <1>2, <1>8, <2>2 DEF RequestStep, Send, Adopt, Renew, Rebuild, ReqGoto
    <2> QED
      BY <1>1, <1>8, <2>3 DEF RequestStep, Send, Adopt, Renew, Rebuild
  <1> QED
    BY <1>5, <1>6, <1>7, <1>8 DEF Meanwhile

\* Whatever else happens leaves the load and its times alone, until main forgets
\* them.
LEMMA OthersKeepType ==
    ASSUME TypeInv, Setup \/ TakeSignal \/ Announced \/ Meanwhile \/ Signal
    PROVE  TypeInv'
  <1> DEFINE Places == {"loaded", "key", "schedule", "announce", "announcing", "identify",
                        "submit", "sync", "manager", "select", "ended"}
  <1>1. config' = config /\ meta' = meta
    BY DEF Setup, StartHealthServer, SetHyperstackKey, Schedule, SubmitStartupMetadata,
       Identify, StartSubmitLoop, StartSync, StartManager, Launch, TakeSignal, Announced,
       Meanwhile, SyncTick, SyncAnswered, SubmitMetrics, MetricsAnswered, RequestStep, Send,
       Adopt, Renew, Rebuild, Answered, requesting, Signal, loading
  <1>2. main' \in Places \/ main' = main
    BY DEF Setup, StartHealthServer, SetHyperstackKey, Schedule, SubmitStartupMetadata,
       Identify, StartSubmitLoop, StartSync, StartManager, Launch, Goto, TakeSignal,
       Announced, Meanwhile, SyncTick, SyncAnswered, SubmitMetrics, MetricsAnswered,
       RequestStep, Send, Adopt, Renew, Rebuild, Signal
  <1>3. CASE StartHealthServer
    <2>1. /\ main' = "key" /\ attempt' = 0 /\ spent' = 0 /\ rounds' = 0
          /\ backoff' = startupMetadataInitialBackoff
          /\ UNCHANGED <<hub, collecting, req, asked, signalCh>>
          /\ goroutines' \subseteq goroutines \cup {"health"}
      BY <1>3 DEF StartHealthServer, Goto
    <2>2. InTime'
      BY <2>1 DEF InTime
    <2>3. /\ attempt' \in 0 .. openStackMetadataRetryAttempts
          /\ rounds' \in 0 .. MaxRounds
      BY <2>1, StartupAssumption DEF openStackMetadataRetryAttempts
    <2>4. /\ spent' \in 0 .. metadataTimeout + 3 * openStackMetadataInitialBackoff
          /\ backoff' \in 1 .. startupMetadataMaxBackoff
      BY <2>1, Durations
    <2> QED
      BY <1>1, <2>1, <2>2, <2>3, <2>4 DEF TypeInv, TypeOK, hub, collecting
  <1>4. ASSUME UNCHANGED loading,
               /\ hubKey' \in Keys \cup {None} /\ renewed' \in Keys \cup {None}
               /\ hubUuid' \in {Uuid, None}
               /\ scheduled' \subseteq Always \cup {"node", "gpu"}
               /\ enabled' \subseteq Always \cup {"node", "gpu"}
               /\ collectorsRunning' \in 0 .. 4
               /\ goroutines' \subseteq {"health", "submit", "sync", "manager"}
               /\ req' \in [Requesters -> Request]
               /\ asked' \in BOOLEAN /\ signalCh' \in BOOLEAN
        PROVE  TypeInv'
    <2>1. InTime'
      BY <1>1, <1>2, <1>4 DEF TypeInv, InTime, Paused, Attempts, AttemptTimeout, loading
    <2>2. main' \in {"load", "fetch", "pause", "wait", "loaded", "key", "schedule",
                     "announce", "announcing", "identify", "submit", "sync", "manager",
                     "select", "ended"}
      BY <1>2 DEF TypeInv, TypeOK
    <2> QED
      BY <1>1, <1>4, <2>1, <2>2 DEF TypeInv, TypeOK, loading
  <1>5. CASE Schedule
    <2>1. /\ scheduled' \subseteq Always \cup {"node", "gpu"}
          /\ enabled' \subseteq Always \cup {"node", "gpu"}
      BY <1>5 DEF Schedule, If
    <2>2. collectorsRunning' \in 0 .. 4
      BY <1>5, <2>1, CollectorsCounted DEF Schedule
    <2> QED
      BY <1>4, <1>5, <2>1, <2>2 DEF Schedule, TypeInv, TypeOK, hub
  <1>6. CASE SubmitStartupMetadata \/ Announced \/ Meanwhile
    <2>1. UNCHANGED <<loading, hubUuid, scheduled, enabled, goroutines, asked, signalCh>>
      BY <1>6 DEF SubmitStartupMetadata, Announced, Meanwhile, SyncTick, SyncAnswered,
         SubmitMetrics, MetricsAnswered, RequestStep, Send, Adopt, Renew, Rebuild, Answered,
         requesting, hub, collecting
    <2> QED
      BY <1>4, <1>6, <2>1, RequestsKeepType DEF TypeInv, TypeOK
  <1>7. CASE StartSubmitLoop \/ StartSync \/ StartManager
    BY <1>4, <1>7 DEF StartSubmitLoop, StartSync, StartManager, Launch, If, TypeInv, TypeOK,
       hub, collecting
  <1>8. CASE SetHyperstackKey \/ Identify
    <2>1. meta.key \in Keys \cup {None} /\ meta.uuid \in {Uuid, None}
      BY DEF TypeInv, TypeOK, Metadata
    <2> QED
      BY <1>4, <1>8, <2>1 DEF SetHyperstackKey, Identify, TypeInv, TypeOK, collecting
  <1>9. CASE TakeSignal \/ Signal
    BY <1>4, <1>9 DEF TakeSignal, Signal, TypeInv, TypeOK, hub, collecting
  <1> QED
    BY <1>3, <1>5, <1>6, <1>7, <1>8, <1>9 DEF Setup

LEMMA StepType == TypeInv /\ [Next]_vars => TypeInv'
  <1> SUFFICES ASSUME TypeInv, [Next]_vars PROVE TypeInv'
    OBVIOUS
  <1>1. CASE UNCHANGED vars
    BY <1>1 DEF vars, TypeInv, TypeOK, InTime, Paused, Attempts, AttemptTimeout
  <1> QED
    BY <1>1, LoadKeepsType, OthersKeepType DEF Next, MainStep, Ended

LEMMA TypeInvariance == Spec => []TypeInv
  BY InitType, StepType, PTL DEF Spec

\* A load of the metadata takes at most 3.6 s whatever the service does: one
\* attempt of three seconds, or three of one second and their pauses
\* (metadata.go:131-160).
THEOREM TypeCorrect == Spec => []TypeOK
  BY TypeInvariance, PTL DEF TypeInv

-----------------------------------------------------------------------------
(* One VM, the newest key, and a true report                                *)

Loading == {"load", "fetch", "pause", "wait"}
Anonymous == Keyless \cup {"schedule", "announce", "announcing", "identify"}

Underway(w) == req[w].at # "none"

\* What main has done by the point it is at: no goroutine that sends requests
\* runs before the hub client has its key and its UUID, and no collector before
\* the submit loop and the sync.
InOrder ==
    /\ main \in Keyless => hubKey = None /\ renewed = None
    /\ main \notin Anonymous => hubUuid = meta.uuid
    /\ main \in Anonymous =>
           "submit" \notin goroutines /\ "sync" \notin goroutines
    /\ main \in Anonymous \cup {"submit", "sync", "manager"} =>
           "manager" \notin goroutines
    /\ "sync" \in goroutines => meta.uuid # None

\* Which requests there can be at this point, and that a refresh leaves a key.
InTurn ==
    /\ Underway("main") => main = "announcing"
    /\ Underway("sync") \/ Underway("submit") => main \notin Anonymous
    /\ \A w \in Requesters : req[w].at = "refreshed" => hubKey # None

Inv == InOrder /\ InTurn /\ OneIdentity /\ SelfReportAgrees

\* What the invariant says of one request.
Sound(w) ==
    Underway(w) => /\ req[w].uuid = meta.uuid
                   /\ w # "submit" => meta.uuid # None
                   /\ w = "main" => main = "announcing"
                   /\ w # "main" => main \notin Anonymous
                   /\ req[w].header = None => meta.key = None /\ req[w].at # "rebuilt"
                   /\ req[w].at = "refreshed" => hubKey # None

NewestKey == IF renewed = None THEN meta.key ELSE renewed

LEMMA ByRequest ==
    ASSUME Inv
    PROVE  /\ \A w \in Requesters : Sound(w)
           /\ main \notin Keyless => hubKey = NewestKey
  BY DEF Inv, InTurn, OneIdentity, Sound, Underway, NewestKey, Requesters

\* The invariant holds after a step when main's part, the key's and that of each
\* request do.
LEMMA FromRequests ==
    ASSUME InOrder', SelfReportAgrees', main' \notin Keyless => hubKey' = NewestKey',
           \A w \in Requesters : Sound(w)'
    PROVE  Inv'
  <1>1. "main" \in Requesters /\ "sync" \in Requesters /\ "submit" \in Requesters
    BY DEF Requesters
  <1>2. InTurn'
    BY <1>1 DEF InTurn, Sound, Underway, Requesters
  <1>3. ASSUME NEW w \in Requesters, Underway(w)' PROVE main' \notin Keyless
    BY <1>3 DEF Sound, Keyless, Anonymous
  <1> QED
    BY <1>2, <1>3 DEF Inv, OneIdentity, Sound, Underway, NewestKey

LEMMA InitInv == Init => Inv
  <1> SUFFICES ASSUME Init PROVE Inv
    OBVIOUS
  <1>1. \A w \in Requesters : ~Underway(w)
    BY DEF Init, Underway, NoRequest
  <1>2. InOrder /\ SelfReportAgrees /\ main \in Keyless
    BY DEF Init, InOrder, SelfReportAgrees, Keyless, Anonymous, NoMetadata
  <1>3. InTurn
    BY <1>1 DEF Init, InTurn, Underway, Requesters, NoRequest
  <1> QED
    BY <1>1, <1>2, <1>3 DEF Inv, OneIdentity, Underway

\* While the metadata is loaded nothing is sent and nothing runs that sends.
LEMMA LoadKeepsInv ==
    ASSUME Inv, ReadFile \/ FetchAnswered \/ FetchFailed \/ FetchPause \/ Wait
    PROVE  Inv'
  <1>1. /\ main \in Loading /\ main' \in Loading \cup {"loaded"}
        /\ UNCHANGED <<hub, collecting, goroutines, req>>
    BY DEF ReadFile, FetchAnswered, FetchFailed, FetchPause, Wait, Goto, Loading
  <1>2. main \in Keyless /\ main' \in Keyless
    BY <1>1 DEF Loading, Keyless
  <1>3. \A w \in Requesters : ~Underway(w)
    BY <1>2 DEF Inv, OneIdentity, Underway
  <1>4. \A w \in Requesters : Sound(w)'
    BY <1>1, <1>3 DEF Sound, Underway
  <1>5. InOrder' /\ SelfReportAgrees'
    <2>1. "sync" \notin goroutines
      BY <1>2 DEF Inv, InOrder, Anonymous
    <2> QED
      BY <1>1, <1>2, <2>1 DEF Inv, InOrder, SelfReportAgrees, hub, collecting, Anonymous
  <1> QED
    BY <1>2, <1>4, <1>5, FromRequests

\* One step after the other main sets up the client and starts the goroutines.
LEMMA SetupKeepsInv ==
    ASSUME TypeOK, Inv, Setup
    PROVE  Inv'
  <1> USE DEF Keyless, Anonymous, loading
  <1>1. \A w \in Requesters : Sound(w)
    BY ByRequest
  <1>2. CASE StartHealthServer \/ SetHyperstackKey
    <2>1. \A w \in Requesters : ~Underway(w)
      BY <1>2 DEF StartHealthServer, SetHyperstackKey, Goto, Inv, OneIdentity, Underway
    <2>2. \A w \in Requesters : Sound(w)'
      BY <1>2, <2>1 DEF StartHealthServer, SetHyperstackKey, Sound, Underway
    <2>3. InOrder' /\ SelfReportAgrees'
      BY <1>2 DEF StartHealthServer, SetHyperstackKey, Goto, Inv, InOrder,
         SelfReportAgrees, hub, collecting
    <2>4. main' \notin Keyless => hubKey' = NewestKey'
      BY <1>2 DEF StartHealthServer, SetHyperstackKey, Goto, Inv, InOrder, NewestKey
    <2> QED
      BY <2>2, <2>3, <2>4, FromRequests
  <1>3. CASE Schedule
    <2>1. enabled' = scheduled' /\ collectorsRunning' = Cardinality(enabled')
      BY <1>3 DEF Schedule
    <2>2. UNCHANGED <<meta, hub, goroutines, req>> /\ main = "schedule" /\ main' = "announce"
      BY <1>3 DEF Schedule, Goto
    <2>3. InOrder' /\ \A w \in Requesters : Sound(w)'
      BY <1>1, <2>2 DEF Inv, InOrder, hub, Sound, Underway
    <2>4. main' \notin Keyless => hubKey' = NewestKey'
      BY <2>2, ByRequest DEF hub, NewestKey
    <2> QED
      BY <2>1, <2>3, <2>4, FromRequests DEF SelfReportAgrees
  <1>4. CASE SubmitStartupMetadata
    <2>1. /\ UNCHANGED <<meta, hub, collecting, goroutines>> /\ main = "announce"
          /\ main' \in {"identify", "announcing"}
      BY <1>4 DEF SubmitStartupMetadata, Goto
    <2>2. InOrder' /\ SelfReportAgrees'
      BY <2>1 DEF Inv, InOrder, SelfReportAgrees, hub, collecting
    <2>3. hubKey = NewestKey /\ UNCHANGED <<hubKey, NewestKey>>
      BY <2>1, ByRequest DEF hub, NewestKey
    <2>4. hubKey = None => meta.key = None
      BY <2>1, <2>3 DEF TypeOK, NewestKey
    <2>5. ASSUME NEW w \in Requesters PROVE Sound(w)'
      <3>1. CASE meta.uuid = None
        <4>1. UNCHANGED req /\ ~Underway(w)
          BY <1>1, <1>4, <2>1, <3>1 DEF SubmitStartupMetadata, Sound
        <4> QED
          BY <4>1 DEF Sound, Underway
      <3>2. CASE meta.uuid # None
        <4>1. main' = "announcing" /\ Build("main", meta.uuid)
          BY <1>4, <3>2 DEF SubmitStartupMetadata, Goto
        <4>2. req \in [Requesters -> Request]
          BY DEF TypeOK
        <4>3. CASE w = "main"
          <5>1. req'[w] = [at |-> "built", uuid |-> meta.uuid, header |-> hubKey,
                           observed |-> None]
            BY <4>1, <4>2, <4>3 DEF Build, Requesters
          <5> QED
            BY <2>1, <2>4, <3>2, <4>1, <4>3, <5>1 DEF Sound, Underway
        <4>4. CASE w # "main"
          <5>1. req'[w] = req[w] /\ ~Underway(w)
            BY <1>1, <2>1, <4>1, <4>2, <4>4 DEF Build, Sound, Underway
          <5> QED
            BY <5>1 DEF Sound, Underway
        <4> QED
          BY <4>3, <4>4
      <3> QED
        BY <3>1, <3>2
    <2> QED
      BY <2>2, <2>3, <2>5, FromRequests
  <1>5. CASE Identify \/ StartSubmitLoop \/ StartSync \/ StartManager
    <2>1. /\ UNCHANGED <<meta, hubKey, renewed, collecting, req>>
          /\ main \in {"identify", "submit", "sync", "manager"}
          /\ main' \in {"submit", "sync", "manager", "select"}
      BY <1>5 DEF Identify, StartSubmitLoop, StartSync, StartManager, Launch, Goto, hub
    <2>2. \A w \in Requesters : Sound(w)'
      BY <1>1, <2>1 DEF Sound, Underway
    <2>3. hubKey' = NewestKey'
      BY <2>1, ByRequest DEF NewestKey
    <2>4. InOrder'
      BY <1>5, <2>1 DEF Identify, StartSubmitLoop, StartSync, StartManager, Launch, Goto,
         If, Inv, InOrder, hub
    <2>5. SelfReportAgrees'
      BY <2>1 DEF Inv, SelfReportAgrees, collecting
    <2> QED
      BY <2>2, <2>3, <2>4, <2>5, FromRequests
  <1> QED
    BY <1>2, <1>3, <1>4, <1>5 DEF Setup

\* Whoever asks goes on about its VM, with the key that there is.
LEMMA RequestsKeepInv ==
    ASSUME TypeOK, Inv, Announced \/ Meanwhile
    PROVE  Inv'
  <1>1. \A w \in Requesters : Sound(w)
    BY ByRequest
  <1>2. req \in [Requesters -> Request] /\ None \notin Keys
        /\ Requesters = {"main", "sync", "submit"}
    BY StartupAssumption DEF TypeOK, Requesters
  <1>3. UNCHANGED <<config, loading, hubUuid, scheduled, enabled, goroutines>>
    BY DEF Announced, Meanwhile, SyncTick, SyncAnswered, SubmitMetrics, MetricsAnswered,
       RequestStep, Send, Adopt, Renew, Rebuild, Answered, requesting
  <1>4. SelfReportAgrees'
    BY <1>3 DEF Inv, SelfReportAgrees, Announced, Meanwhile, SyncTick, SyncAnswered,
       SubmitMetrics, MetricsAnswered, RequestStep, Send, Adopt, Renew, Rebuild
  <1>5. ASSUME NEW w \in Requesters, req' = [req EXCEPT ![w] = req'[w]], UNCHANGED main,
               main \notin Keyless, hubKey' = NewestKey', hubKey # None => hubKey' # None,
               Sound(w)'
        PROVE  Inv'
    <2>1. InOrder'
      BY <1>3, <1>5 DEF Inv, InOrder, loading
    <2>2. ASSUME NEW v \in Requesters PROVE Sound(v)'
      <3>1. CASE v = w
        BY <1>5, <3>1
      <3>2. CASE v # w
        <4>1. req'[v] = req[v]
          BY <1>2, <1>5, <3>2
        <4> QED
          BY <1>1, <1>3, <1>5, <4>1 DEF Sound, Underway, loading
      <3> QED
        BY <3>1, <3>2
    <2> QED
      BY <1>4, <1>5, <2>1, <2>2, FromRequests
  <1>6. CASE Announced
    <2>1. /\ main = "announcing" /\ main' = "identify" /\ UNCHANGED <<hubKey, renewed>>
          /\ req' = [req EXCEPT !["main"] = NoRequest]
      BY <1>6 DEF Announced, Goto, Answered
    <2>2. ~Underway("main")' /\ \A w \in Requesters \ {"main"} : req'[w] = req[w] /\ ~Underway(w)
      BY <1>1, <1>2, <2>1 DEF NoRequest, Underway, Sound, Anonymous
    <2>3. \A w \in Requesters : Sound(w)'
      BY <1>2, <2>2 DEF Sound, Underway
    <2>4. InOrder'
      BY <1>3, <2>1 DEF Inv, InOrder, loading, Anonymous, Keyless
    <2>5. hubKey' = NewestKey'
      BY <1>3, <2>1, ByRequest DEF NewestKey, loading, Keyless
    <2> QED
      BY <1>4, <2>3, <2>4, <2>5, FromRequests
  <1>7. CASE SyncTick \/ SubmitMetrics
    <2>1. PICK w \in {"sync", "submit"}, u \in {meta.uuid, hubUuid} :
              /\ Build(w, u) /\ w \in goroutines
              /\ w = "sync" => u = meta.uuid
              /\ w = "submit" => u = hubUuid
      BY <1>7 DEF SyncTick, SubmitMetrics, Free
    <2>2. UNCHANGED <<main, hubKey, renewed, meta>>
      BY <1>3, <1>7 DEF SyncTick, SubmitMetrics, loading
    <2>3. main \notin Anonymous /\ main \notin Keyless /\ hubUuid = meta.uuid
          /\ (w = "sync" => meta.uuid # None)
      BY <2>1 DEF Inv, InOrder, Anonymous
    <2>4. hubKey = NewestKey /\ hubKey' = NewestKey'
      BY <2>2, <2>3, ByRequest DEF NewestKey
    <2>5. hubKey = None => meta.key = None
      BY <2>4 DEF NewestKey
    <2>6. w \in Requesters /\ u = meta.uuid
      BY <1>2, <2>1, <2>3
    <2>7. req'[w] = [at |-> "built", uuid |-> u, header |-> hubKey, observed |-> None]
      BY <1>2, <2>1, <2>6 DEF Build
    <2>8. Sound(w)'
      BY <2>1, <2>2, <2>3, <2>5, <2>6, <2>7 DEF Sound, Underway
    <2>9. req' = [req EXCEPT ![w] = req'[w]]
      BY <2>1, <2>7 DEF Build
    <2> QED
      BY <1>5, <2>2, <2>3, <2>4, <2>6, <2>8, <2>9
  <1>8. CASE SyncAnswered \/ MetricsAnswered
    <2>1. PICK w \in Requesters : /\ Underway(w) /\ w # "main"
                                  /\ req' = [req EXCEPT ![w] = NoRequest]
      BY <1>2, <1>8 DEF SyncAnswered, MetricsAnswered, Answered, Underway
    <2>2. UNCHANGED <<main, hubKey, renewed, meta>>
      BY <1>3, <1>8 DEF SyncAnswered, MetricsAnswered, Answered, loading
    <2>3. main \notin Keyless
      BY <1>1, <2>1 DEF Sound, Anonymous
    <2>4. req'[w] = NoRequest
      BY <1>2, <2>1
    <2>5. Sound(w)'
      BY <2>4 DEF Sound, Underway, NoRequest
    <2>6. hubKey' = NewestKey'
      BY <2>2, <2>3, ByRequest DEF NewestKey
    <2>7. req' = [req EXCEPT ![w] = req'[w]]
      BY <2>1, <2>4
    <2> QED
      BY <1>5, <2>2, <2>3, <2>5, <2>6, <2>7
  <1>9. ASSUME NEW w \in Requesters, RequestStep(w) PROVE Inv'
    <2>1. Underway(w) /\ UNCHANGED <<main, meta>>
      BY <1>3, <1>9 DEF RequestStep, Send, Adopt, Renew, Rebuild, ReqGoto, Underway, loading
    <2>2. main \notin Keyless /\ hubKey = NewestKey
      <3>1. main \notin Keyless
        BY <1>1, <2>1 DEF Sound, Anonymous, Keyless
      <3> QED
        BY <3>1, ByRequest
    <2>3. hubKey' = NewestKey' /\ (hubKey # None => hubKey' # None)
      <3>1. CASE Renew(w)
        BY <1>2, <3>1 DEF Renew, NewestKey
      <3>2. CASE UNCHANGED <<hubKey, renewed>>
        BY <2>1, <2>2, <3>2 DEF NewestKey
      <3> QED
        BY <1>9, <3>1, <3>2 DEF RequestStep, Send, Adopt, Rebuild
    <2>4. req[w] \in Request /\ Sound(w)
      BY <1>1, <1>2
    <2>5. PICK r : /\ req' = [req EXCEPT ![w] = r]
                   /\ \/ Send(w) /\ r = [req[w] EXCEPT !.at = "sent", !.observed = hubKey]
                      \/ Adopt(w) /\ r = [req[w] EXCEPT !.at = "refreshed"]
                      \/ Renew(w) /\ r = [req[w] EXCEPT !.at = "refreshed"]
                      \/ Rebuild(w) /\ r = [req[w] EXCEPT !.at = "rebuilt", !.header = hubKey]
      BY <1>9 DEF RequestStep, Send, Adopt, Renew, Rebuild, ReqGoto
    <2>6. req'[w] = r /\ req' = [req EXCEPT ![w] = req'[w]]
      BY <1>2, <2>5
    <2>7. r.uuid = req[w].uuid
      BY <2>4, <2>5 DEF Request
    <2>8. r.at \in {"sent", "refreshed"} => r.header = req[w].header
      BY <2>4, <2>5 DEF Request
    <2>9. r.at \in {"sent", "refreshed", "rebuilt"}
          /\ (r.at = "refreshed" => hubKey' # None)
          /\ (r.at = "rebuilt" => r.header = hubKey /\ hubKey # None)
      <3>1. CASE Send(w)
        BY <2>4, <2>5, <3>1 DEF Request, Send, Adopt, Renew, Rebuild, ReqGoto
      <3>2. CASE Adopt(w)
        BY <2>4, <2>5, <3>2 DEF Request, Send, Adopt, Renew, Rebuild, ReqGoto
      <3>3. CASE Renew(w)
        BY <1>2, <2>4, <2>5, <3>3 DEF Request, Send, Adopt, Renew, Rebuild, ReqGoto
      <3>4. CASE Rebuild(w)
        BY <2>1, <2>4, <2>5, <3>4 DEF Request, Send, Adopt, Renew, Rebuild, ReqGoto, Sound
      <3> QED
        BY <2>5, <3>1, <3>2, <3>3, <3>4
    <2>10. Sound(w)'
      BY <2>1, <2>4, <2>6, <2>7, <2>8, <2>9 DEF Sound, Underway
    <2> QED
      BY <1>5, <2>1, <2>2, <2>3, <2>6, <2>10
  <1> QED
    BY <1>6, <1>7, <1>8, <1>9 DEF Meanwhile

LEMMA StepInv == TypeOK /\ Inv /\ [Next]_vars => Inv'
  <1> SUFFICES ASSUME TypeOK, Inv, [Next]_vars PROVE Inv'
    OBVIOUS
  <1>1. CASE TakeSignal
    <2>1. /\ UNCHANGED <<loading, hub, collecting, goroutines, req>>
          /\ main = "select" /\ main' = "ended"
      BY <1>1 DEF TakeSignal, Goto
    <2>2. hubKey' = NewestKey' /\ \A w \in Requesters : Sound(w)'
      BY <2>1, ByRequest DEF Sound, Underway, loading, hub, NewestKey, Anonymous, Keyless
    <2>3. InOrder' /\ SelfReportAgrees'
      BY <2>1 DEF Inv, InOrder, SelfReportAgrees, loading, hub, collecting, Anonymous, Keyless
    <2> QED
      BY <2>2, <2>3, FromRequests
  <1>2. CASE Signal \/ UNCHANGED vars
    BY <1>2 DEF Signal, vars, Inv, InOrder, InTurn, Underway, OneIdentity, SelfReportAgrees,
       hub, collecting, loading
  <1> QED
    BY <1>1, <1>2, LoadKeepsInv, SetupKeepsInv, RequestsKeepInv
    DEF Next, MainStep, Ended

LEMMA Invariance == Spec => []Inv
  BY InitInv, StepInv, TypeCorrect, PTL DEF Spec

\* The announcement, the sync and the metrics speak of the one VM whose metadata
\* was loaded, and without UUID nothing but metrics is sent; from the first
\* request on the client has the key of the metadata or the one that a refresh
\* brought last, and no retry goes out without key, wherever requests, 401s and
\* new keys fall between main's steps (main.go:118-127, 194-213,
\* metadata.go:365-367, hub.go:147-215).
THEOREM OneVM == Spec => []OneIdentity
  BY Invariance, PTL DEF Inv

\* The collectors that the agent reports are those that main has scheduled, and
\* their count is right whenever the sync has not switched them off
\* (main.go:138-192, 329-333).
THEOREM ReportIsTrue == Spec => []SelfReportAgrees
  BY Invariance, PTL DEF Inv

-----------------------------------------------------------------------------
(* The wait between two loads                                               *)

\* Doubling below the limit and cutting there follows the powers of two.
LEMMA WaitDoubles ==
    ASSUME TypeOK, BackoffFollowsRounds, Wait
    PROVE  BackoffFollowsRounds'
  <1> DEFINE First == startupMetadataInitialBackoff
             Limit == startupMetadataMaxBackoff
  <1>1. /\ rounds \in Nat /\ MaxRounds \in Nat /\ rounds <= MaxRounds /\ backoff \in Nat
        /\ First \in Nat /\ Limit \in Nat
    BY StartupAssumption, Durations DEF TypeOK
  <1>2. /\ rounds' = (IF rounds + 1 < MaxRounds THEN rounds + 1 ELSE MaxRounds)
        /\ backoff' = (IF backoff < Limit
                        THEN IF 2 * backoff < Limit THEN 2 * backoff ELSE Limit
                        ELSE backoff)
    BY DEF Wait, Smaller
  <1>3. PICK p \in Nat : p = 2 ^ rounds
    BY <1>1, PowerOfTwo
  <1>4. 2 ^ (rounds + 1) = 2 * p
    BY <1>1, <1>3, PowerDoubles
  <1>5. rounds < MaxRounds => backoff = (IF First * p < Limit THEN First * p ELSE Limit)
    BY <1>3 DEF BackoffFollowsRounds, Smaller
  <1>6. SUFFICES ASSUME rounds' < MaxRounds
                 PROVE  backoff' = (IF First * 2 ^ rounds' < Limit
                                    THEN First * 2 ^ rounds' ELSE Limit)
    BY DEF BackoffFollowsRounds, Smaller
  <1> HIDE DEF First, Limit
  <1>7. rounds' = rounds + 1 /\ rounds < MaxRounds
    BY <1>1, <1>2, <1>6
  <1>8. PICK q \in Nat : q = First * p
    BY <1>1, <1>3
  <1>9. First * 2 ^ rounds' = 2 * q
    <2>1. First * (2 * p) = 2 * (First * p)
      BY <1>1, <1>3, SMTT(30)
    <2> QED
      BY <1>4, <1>7, <1>8, <2>1, Zenon
  <1>10. backoff = IF q < Limit THEN q ELSE Limit
    BY <1>5, <1>7, <1>8
  <1> QED
    BY <1>1, <1>2, <1>8, <1>9, <1>10

LEMMA StepBackoff == TypeOK /\ BackoffFollowsRounds /\ [Next]_vars => BackoffFollowsRounds'
  <1> SUFFICES ASSUME TypeOK, BackoffFollowsRounds, [Next]_vars
               PROVE  BackoffFollowsRounds'
    OBVIOUS
  <1>1. CASE UNCHANGED <<backoff, rounds>>
    BY <1>1 DEF BackoffFollowsRounds
  <1>2. CASE StartHealthServer
    <2>1. backoff' = startupMetadataInitialBackoff /\ rounds' = 0
      BY <1>2 DEF StartHealthServer
    <2> QED
      BY <2>1, SmallPowers, Durations DEF BackoffFollowsRounds, Smaller
  <1>3. UNCHANGED <<backoff, rounds>> \/ StartHealthServer \/ Wait
    BY DEF Next, MainStep, ReadFile, FetchAnswered, FetchFailed, FetchPause, Setup,
       SetHyperstackKey, Schedule, SubmitStartupMetadata, Identify, StartSubmitLoop,
       StartSync, StartManager, Launch, TakeSignal, Announced, Meanwhile, SyncTick,
       SyncAnswered, SubmitMetrics, MetricsAnswered, RequestStep, Send, Adopt, Renew,
       Rebuild, Answered, requesting, Signal, Ended, loading, vars
  <1> QED
    BY <1>1, <1>2, <1>3, WaitDoubles

\* However often the metadata service fails, the n-th wait is 500 ms doubled n
\* times, cut to one minute (main.go:33-34, 96-102).
THEOREM WaitFollowsSchedule == Spec => []BackoffFollowsRounds
  <1>1. Init => BackoffFollowsRounds
    BY SmallPowers, Durations DEF Init, BackoffFollowsRounds, Smaller
  <1> QED
    BY <1>1, StepBackoff, TypeCorrect, PTL DEF Spec
=============================================================================
