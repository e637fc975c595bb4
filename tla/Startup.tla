------------------------------ MODULE Startup ------------------------------
(***************************************************************************)
(* From the start of the agent to main's select (cmd/agent/main.go): the   *)
(* metadata is loaded from the cloud-init file or from the metadata        *)
(* service (LoadStartupMetadata, internal/system/metadata.go), as often as *)
(* it takes; then main sets up the hub client, schedules the collectors,   *)
(* announces the VM to the gateway and starts the goroutines, one after    *)
(* the other, while those that run already send requests. The gateway may  *)
(* reject the key of any of them; the hub client (internal/client/hub.go)  *)
(* then asks the metadata service for another. A signal may come at any    *)
(* moment.                                                                 *)
(*                                                                         *)
(* What file and service answer is chosen when they are asked: cloud-init  *)
(* may still be writing, the service may not be up. Metadata is a UUID and *)
(* a key, each of which may be missing. Times are in milliseconds.         *)
(* KeyRefresh has the locks, the cool-down and the two readings of the key *)
(* that a request makes; here a refresh is one step of a request.          *)
(***************************************************************************)
EXTENDS Integers, FiniteSets

CONSTANTS
    Uuid,                \* the VM's UUID
    Keys,                \* the keys that the metadata service may know
    None,                \* stands for an empty string
    MaxRounds            \* bound: up to which failed loads are counted

ASSUME StartupAssumption ==
    /\ None \notin Keys \cup {Uuid}
    /\ MaxRounds \in Nat

Metadata == [uuid : {Uuid, None}, key : Keys \cup {None}]
NoMetadata == [uuid |-> None, key |-> None]

\* config.Load, of which METADATA_URL and the two switches matter here.
Config == [customURL : BOOLEAN, node : BOOLEAN, gpu : BOOLEAN]

VARIABLES
    config,             \* cfg, and whether METADATA_URL is set
    main,               \* where main is
    attempt,            \* of fetchMetadataWithRetry
    spent,              \* how long the load has taken so far
    backoff,            \* before the next load
    rounds,             \* loads that have failed, counted up to MaxRounds
    meta,               \* the loaded metadata
    hubKey,             \* the hub client's key
    hubUuid,            \* hub.InstanceUUID
    scheduled,          \* the collectors that mgr will run
    enabled,            \* enabledCollectors: what the agent reports
    collectorsRunning,  \* the hub client's count of them
    goroutines,         \* what runs besides main
    req,                \* the requests of main, the sync and the submit loop
    renewed,            \* history: the key that a refresh brought last
    asked,              \* a signal was sent to the agent
    signalCh            \* it waits in signalCh

loading == <<attempt, spent, backoff, rounds, meta>>
hub == <<hubKey, hubUuid, renewed>>
collecting == <<scheduled, enabled, collectorsRunning>>
vars == <<config, main, attempt, spent, backoff, rounds, meta, hubKey, hubUuid,
          scheduled, enabled, collectorsRunning, goroutines, req, renewed, asked, signalCh>>

startupMetadataInitialBackoff == 500
startupMetadataMaxBackoff == 60000
openStackMetadataRetryAttempts == 3
openStackMetadataInitialBackoff == 200
metadataTimeout == 3000

\* Who sends requests, and a request: where it is, the UUID it is about, the key
\* in its header, and the key that was seen when it went out.
Requesters == {"main", "sync", "submit"}
Request == [at : {"none", "built", "sent", "refreshed", "rebuilt"}, uuid : {Uuid, None},
            header : Keys \cup {None}, observed : Keys \cup {None}]
NoRequest == [at |-> "none", uuid |-> None, header |-> None, observed |-> None]

Smaller(a, b) == IF a < b THEN a ELSE b

Init ==
    /\ config \in Config
    /\ main = "load"
    /\ attempt = 0
    /\ spent = 0
    /\ backoff = startupMetadataInitialBackoff
    /\ rounds = 0
    /\ meta = NoMetadata
    /\ hubKey = None
    /\ hubUuid = None
    /\ scheduled = {}
    /\ enabled = {}
    /\ collectorsRunning = 0
    /\ goroutines = {}
    /\ req = [w \in Requesters |-> NoRequest]
    /\ renewed = None
    /\ asked = FALSE
    /\ signalCh = FALSE

Goto(from, to) ==
    /\ main = from
    /\ main' = to

-----------------------------------------------------------------------------
(* Loading the metadata                                                     *)

\* readCloudInitMetadata finds ds.meta_data in the file, or it does not: the
\* file is absent, half-written or without that part.
ReadFile ==
    /\ attempt' = 1
    /\ spent' = 0
    /\ \/ Goto("load", "loaded") /\ meta' \in Metadata
       \/ Goto("load", "fetch") /\ UNCHANGED meta
    /\ UNCHANGED <<config, backoff, rounds, hub, collecting, goroutines, req, asked,
                   signalCh>>

\* The default URL is tried several times, in as much time as another URL gets
\* for its one attempt.
Attempts == IF config.customURL THEN 1 ELSE openStackMetadataRetryAttempts

\* Slip: each attempt gets all the time there is.
WholeTimeout == metadataTimeout

AttemptTimeout == metadataTimeout \div Attempts

\* The service answers 200 with a JSON object, at once or at the last moment.
FetchAnswered ==
    /\ Goto("fetch", "loaded")
    /\ meta' \in Metadata
    /\ \E t \in {0, AttemptTimeout} : spent' = spent + t
    /\ UNCHANGED <<config, attempt, backoff, rounds, hub, collecting, goroutines, req,
                   asked, signalCh>>

\* No connection, a timeout, another status, no JSON.
FetchFailed ==
    /\ Goto("fetch", IF attempt < Attempts THEN "pause" ELSE "wait")
    /\ \E t \in {0, AttemptTimeout} : spent' = spent + t
    /\ UNCHANGED <<config, attempt, backoff, rounds, meta, hub, collecting, goroutines,
                   req, asked, signalCh>>

\* time.Sleep between two attempts, doubled each time.
FetchPause ==
    /\ Goto("pause", "fetch")
    /\ spent' = spent + openStackMetadataInitialBackoff * 2 ^ (attempt - 1)
    /\ attempt' = attempt + 1
    /\ UNCHANGED <<config, backoff, rounds, meta, hub, collecting, goroutines, req,
                   asked, signalCh>>

\* Slip: the delay is doubled below the limit and never cut to it.
WaitUncapped ==
    /\ Goto("wait", "load")
    /\ backoff' = IF backoff < startupMetadataMaxBackoff THEN 2 * backoff ELSE backoff
    /\ rounds' = Smaller(rounds + 1, MaxRounds)
    /\ UNCHANGED <<config, attempt, spent, meta, hub, collecting, goroutines, req,
                   asked, signalCh>>

\* The load has failed; main's select waits out the back-off. Its other case is
\* a context that nobody cancels yet.
Wait ==
    /\ Goto("wait", "load")
    /\ backoff' = IF backoff < startupMetadataMaxBackoff
                  THEN Smaller(2 * backoff, startupMetadataMaxBackoff)
                  ELSE backoff
    /\ rounds' = Smaller(rounds + 1, MaxRounds)
    /\ UNCHANGED <<config, attempt, spent, meta, hub, collecting, goroutines, req,
                   asked, signalCh>>

-----------------------------------------------------------------------------
(* Setting up                                                               *)

Launch(from, to, launched) ==
    /\ Goto(from, to)
    /\ goroutines' = goroutines \cup launched
    /\ UNCHANGED <<config, loading, hub, collecting, req, asked, signalCh>>

\* An address that cannot be listened on is logged and lived with. What the load
\* has counted is dead from here on.
StartHealthServer ==
    /\ Goto("loaded", "key")
    /\ \E launched \in {{}, {"health"}} : goroutines' = goroutines \cup launched
    /\ attempt' = 0
    /\ spent' = 0
    /\ backoff' = startupMetadataInitialBackoff
    /\ rounds' = 0
    /\ UNCHANGED <<config, meta, hub, collecting, req, asked, signalCh>>

\* The hub client with its KeyRefresher, and its key if the metadata has one.
SetHyperstackKey ==
    /\ Goto("key", "schedule")
    /\ hubKey' = IF meta.key = None THEN hubKey ELSE meta.key
    /\ UNCHANGED <<config, loading, hubUuid, renewed, collecting, goroutines, req, asked,
                   signalCh>>

Always == {"dedicated_inference", "agent"}
If(condition, name) == IF condition THEN {name} ELSE {}

\* Slip: the GPU collector is reported as configured, not as scheduled.
ScheduleAsConfigured ==
    /\ Goto("schedule", "announce")
    /\ \E hasNvidiaGPU \in BOOLEAN :
           scheduled' = Always \cup If(config.node, "node")
                               \cup If(config.gpu /\ hasNvidiaGPU, "gpu")
    /\ enabled' = Always \cup If(config.node, "node") \cup If(config.gpu, "gpu")
    /\ collectorsRunning' = Cardinality(scheduled')
    /\ UNCHANGED <<config, loading, hub, goroutines, req, asked, signalCh>>

\* The schedule and, apart from it, the map that the self-metrics report.
Schedule ==
    /\ Goto("schedule", "announce")
    /\ \E hasNvidiaGPU \in BOOLEAN :
           LET gpuCollectorEnabled == config.gpu /\ hasNvidiaGPU
           IN  /\ scheduled' = Always \cup If(config.node, "node")
                                      \cup If(gpuCollectorEnabled, "gpu")
               /\ enabled' = Always \cup If(gpuCollectorEnabled, "gpu")
                                    \cup If(config.node, "node")
    /\ collectorsRunning' = Cardinality(scheduled')
    /\ UNCHANGED <<config, loading, hub, goroutines, req, asked, signalCh>>

\* w builds a request about a VM: its header is the key of this moment.
Build(w, uuid) ==
    req' = [req EXCEPT ![w] = [at |-> "built", uuid |-> uuid, header |-> hubKey,
                               observed |-> None]]

\* SubmitStartupMetadata announces the VM in one request; no UUID, no request.
SubmitStartupMetadata ==
    /\ Goto("announce", IF meta.uuid = None THEN "identify" ELSE "announcing")
    /\ IF meta.uuid = None THEN UNCHANGED req ELSE Build("main", meta.uuid)
    /\ UNCHANGED <<config, loading, hub, collecting, goroutines, asked, signalCh>>

\* Slip: the collectors start before the hub client knows who it is.
IdentifyBehindManager ==
    /\ Goto("identify", "submit")
    /\ goroutines' = goroutines \cup {"submit", "manager"}
    /\ UNCHANGED <<config, loading, hub, collecting, req, asked, signalCh>>

\* hub.InstanceUUID = GetCachedInstanceUUID().
Identify ==
    /\ Goto("identify", "submit")
    /\ hubUuid' = meta.uuid
    /\ UNCHANGED <<config, loading, hubKey, renewed, collecting, goroutines, req, asked,
                   signalCh>>

StartSubmitLoop == Launch("submit", "sync", {"submit"})

StartSync == Launch("sync", "manager", If(meta.uuid # None, "sync"))

StartManager == Launch("manager", "select", {"manager"})

Setup ==
    \/ StartHealthServer \/ SetHyperstackKey \/ Schedule \/ SubmitStartupMetadata
    \/ Identify \/ StartSubmitLoop \/ StartSync \/ StartManager

\* main's select, and what a shutdown takes (HubQueue, SelfUpdate).
TakeSignal ==
    /\ Goto("select", "ended")
    /\ signalCh
    /\ signalCh' = FALSE
    /\ UNCHANGED <<config, loading, hub, collecting, goroutines, req, asked>>

MainStep == ReadFile \/ FetchAnswered \/ FetchFailed \/ FetchPause \/ Wait
            \/ Setup \/ TakeSignal

-----------------------------------------------------------------------------
(* Requests                                                                 *)

requesting == <<config, loading, hubUuid, scheduled, enabled, goroutines, asked, signalCh>>

\* The goroutines that w needs run, and no request of w is under way.
Free(w, needs) ==
    /\ needs \subseteq goroutines
    /\ main # "ended"
    /\ req[w].at = "none"

\* A tick of the sync asks the gateway about the VM.
SyncTick ==
    /\ Free("sync", {"sync"})
    /\ Build("sync", meta.uuid)
    /\ UNCHANGED <<requesting, main, hubKey, renewed, collectorsRunning>>

\* A collector enqueues, the submit loop sends what the hub client knows.
SubmitMetrics ==
    /\ Free("submit", {"submit", "manager"})
    /\ Build("submit", hubUuid)
    /\ UNCHANGED <<requesting, main, hubKey, renewed, collectorsRunning>>

ReqGoto(w, from, to) ==
    /\ main # "ended"
    /\ req[w].at = from
    /\ req' = [req EXCEPT ![w] = to]

\* doWithKeyRefresh sends the request; which key the hub client has by now is
\* what a 401 will be measured against.
Send(w) ==
    /\ ReqGoto(w, "built", [req[w] EXCEPT !.at = "sent", !.observed = hubKey])
    /\ UNCHANGED <<requesting, main, hubKey, renewed, collectorsRunning>>

\* 401, but another request has brought another key meanwhile.
Adopt(w) ==
    /\ ReqGoto(w, "sent", [req[w] EXCEPT !.at = "refreshed"])
    /\ hubKey \notin {None, req[w].observed}
    /\ UNCHANGED <<requesting, main, hubKey, renewed, collectorsRunning>>

\* 401, and FetchHyperstackKey brings another key than the one that was seen.
Renew(w) ==
    /\ ReqGoto(w, "sent", [req[w] EXCEPT !.at = "refreshed"])
    /\ hubKey \in {None, req[w].observed}
    /\ \E key \in Keys \ {req[w].observed} : hubKey' = key /\ renewed' = key
    /\ UNCHANGED <<requesting, main, collectorsRunning>>

\* The one retry is built anew.
Rebuild(w) ==
    /\ ReqGoto(w, "refreshed", [req[w] EXCEPT !.at = "rebuilt", !.header = hubKey])
    /\ UNCHANGED <<requesting, main, hubKey, renewed, collectorsRunning>>

RequestStep(w) == Send(w) \/ Adopt(w) \/ Renew(w) \/ Rebuild(w)

\* Any answer or none ends the request: also a 401 without a new key (the fetch
\* fails or brings the same key, or the cool-down runs), and one to the retry.
Answered(w) ==
    /\ req[w].at \in {"sent", "rebuilt"}
    /\ req' = [req EXCEPT ![w] = NoRequest]
    /\ UNCHANGED <<requesting, hubKey, renewed>>

\* Whatever came of the announcement, main goes on.
Announced ==
    /\ Goto("announcing", "identify")
    /\ Answered("main")
    /\ UNCHANGED collectorsRunning

\* The gateway may switch all collectors.
SyncAnswered ==
    /\ main # "ended"
    /\ Answered("sync")
    /\ collectorsRunning' \in {0, Cardinality(scheduled), collectorsRunning}
    /\ UNCHANGED main

MetricsAnswered ==
    /\ main # "ended"
    /\ Answered("submit")
    /\ UNCHANGED <<main, collectorsRunning>>

Meanwhile ==
    \/ SyncTick \/ SyncAnswered
    \/ SubmitMetrics \/ MetricsAnswered
    \/ \E w \in Requesters : RequestStep(w)

\* Slip: a signal is lost unless main waits for it.
SignalUnbuffered ==
    /\ ~asked
    /\ main # "ended"
    /\ asked' = TRUE
    /\ signalCh' = (main = "select")
    /\ UNCHANGED <<config, main, loading, hub, collecting, goroutines, req>>

\* signal.Notify comes first of all, on a channel of capacity one.
Signal ==
    /\ ~asked
    /\ main # "ended"
    /\ asked' = TRUE
    /\ signalCh' = TRUE
    /\ UNCHANGED <<config, main, loading, hub, collecting, goroutines, req>>

Ended == main = "ended" /\ UNCHANGED vars

Next == MainStep \/ Announced \/ Meanwhile \/ Signal \/ Ended

Spec == Init /\ [][Next]_vars

\* main runs, timers fire, requests time out (30 s, and 3 s for a new key).
FairSpec == Spec /\ WF_vars(MainStep \/ RequestStep("main") \/ Announced)

\* And the metadata service that is asked for ever answers one day.
AnsweredSpec == FairSpec /\ SF_vars(FetchAnswered)

-----------------------------------------------------------------------------
(* Properties                                                               *)

\* Every variable has its type, and a load takes at most 3.6 s, its attempts and
\* their pauses included: main's back-off governs how often the service is asked
\* (metadata.go:131-160).
TypeOK ==
    /\ config \in Config
    /\ main \in {"load", "fetch", "pause", "wait", "loaded", "key", "schedule",
                 "announce", "announcing", "identify", "submit", "sync", "manager", "select", "ended"}
    /\ attempt \in 0 .. openStackMetadataRetryAttempts
    /\ spent \in 0 .. metadataTimeout + 3 * openStackMetadataInitialBackoff
    /\ backoff \in 1 .. startupMetadataMaxBackoff
    /\ rounds \in 0 .. MaxRounds
    /\ meta \in Metadata
    /\ hubKey \in Keys \cup {None}
    /\ hubUuid \in {Uuid, None}
    /\ scheduled \subseteq Always \cup {"node", "gpu"}
    /\ enabled \subseteq Always \cup {"node", "gpu"}
    /\ collectorsRunning \in 0 .. 4
    /\ goroutines \subseteq {"health", "submit", "sync", "manager"}
    /\ req \in [Requesters -> Request]
    /\ renewed \in Keys \cup {None}
    /\ asked \in BOOLEAN
    /\ signalCh \in BOOLEAN

\* The n-th wait for the metadata service is 500 ms doubled n times, one minute
\* from the seventh on (main.go:33-34, 96-102).
BackoffFollowsRounds ==
    rounds < MaxRounds =>
        backoff = Smaller(startupMetadataInitialBackoff * 2 ^ rounds,
                          startupMetadataMaxBackoff)

\* Before main has come to this point, the hub client has no key.
Keyless == {"load", "fetch", "pause", "wait", "loaded", "key"}

\* All requests are about the VM whose metadata was loaded, although announcement,
\* sync and metrics learn its UUID at different times from different places, and
\* without UUID there is neither announcement nor sync. None is built before the
\* client has the key that came with the UUID; after that the client has the key
\* that a refresh brought last, whosever request that was and whatever main did
\* next, and a request goes out without key only where there was none at first;
\* its retry never does (main.go:118-127, 194-213, metadata.go:365-367,
\* hub.go:147-215).
OneIdentity ==
    /\ \A w \in Requesters : req[w].at # "none" =>
           /\ req[w].uuid = meta.uuid
           /\ w # "submit" => meta.uuid # None
           /\ main \notin Keyless
           /\ req[w].header = None => meta.key = None /\ req[w].at # "rebuilt"
    /\ main \notin Keyless => hubKey = IF renewed = None THEN meta.key ELSE renewed

\* What the agent reports of its collectors is what it runs: each enabled one is
\* scheduled, and the count is theirs unless the gateway has switched them off
\* (main.go:138-192, 329-333).
SelfReportAgrees ==
    /\ enabled = scheduled
    /\ collectorsRunning \in {0, Cardinality(enabled)}

\* A signal that comes while the agent starts ends it once it has started
\* (main.go:68-70, 237).
SignalHeeded == asked ~> main = "ended"

\* "startup cancelled while waiting for metadata service" (main.go:94): a signal
\* that comes during that wait ends the agent, the service up or not.
StartupStops == asked ~> main = "ended"
=============================================================================
