----------------------------- MODULE KeyRefresh -----------------------------
(***************************************************************************)
(* The credential of the hub client (internal/client/hub.go) and the       *)
(* requests that share it: doWithKeyRefresh sends a request and, on a 401, *)
(* lets refreshHyperstackKey fetch a new key from the metadata service,    *)
(* with a mutex and a cool-down, and repeats the request once.             *)
(*                                                                         *)
(* The callers are the goroutines that talk to the gateway at the same     *)
(* time: the submit loop or the drain (submitBatch) and the enablement     *)
(* sync (GetMetadata). A step ends where another goroutine can interfere:  *)
(* at a read or write under apiKeyMu, at a network exchange, at refreshMu. *)
(*                                                                         *)
(* Keys are numbered in the order in which they are issued, 0 is no key:   *)
(* APIKey and rawHyperstackKey, always written together under apiKeyMu,    *)
(* are one variable. The gateway and the metadata service move on to a new *)
(* key each in its own time.                                               *)
(***************************************************************************)
EXTENDS Naturals, FiniteSets

CONSTANTS
    Callers,  \* goroutines that send requests to the gateway
    MaxKey    \* bound: keys issued

ASSUME KeyRefreshAssumption == MaxKey \in Nat \ {0}

VARIABLES
    key,        \* h.APIKey, h.rawHyperstackKey
    mutex,      \* the callers inside refreshMu while a fetch is under way
    cooling,    \* less than refreshCooldown since lastRefreshAt
    pc,         \* where each caller is in doWithKeyRefresh
    sent,       \* the key its latest request carries
    observed,   \* its observedRawKey
    fetched,    \* the key the metadata service has answered it with
    valid,      \* the key the gateway accepts
    published,  \* the key the metadata service hands out
    fetches     \* fetches begun since the last cool-down ended; never read

callers == <<pc, sent, observed, fetched>>
services == <<valid, published>>
vars == <<key, mutex, cooling, pc, sent, observed, fetched, valid, published,
          fetches>>

\* The key of the startup metadata may be missing, or outdated already.
Init ==
    /\ valid \in 1 .. MaxKey
    /\ published \in 1 .. MaxKey
    /\ key \in 0 .. published
    /\ mutex = {}
    /\ cooling = FALSE
    /\ pc = [c \in Callers |-> "ready"]
    /\ sent = [c \in Callers |-> 0]
    /\ observed = [c \in Callers |-> 0]
    /\ fetched = [c \in Callers |-> 0]
    /\ fetches = 0

Goto(c, from, to) ==
    /\ pc[c] = from
    /\ pc' = [pc EXCEPT ![c] = to]

-----------------------------------------------------------------------------
(* doWithKeyRefresh                                                         *)

\* buildReq reads the key into the request.
Build(c) ==
    /\ Goto(c, "ready", "observe")
    /\ sent' = [sent EXCEPT ![c] = key]
    /\ UNCHANGED <<key, mutex, cooling, observed, fetched, services, fetches>>

\* observedRawKey is a second read of the key.
Observe(c) ==
    /\ Goto(c, "observe", "first")
    /\ observed' = [observed EXCEPT ![c] = key]
    /\ UNCHANGED <<key, mutex, cooling, sent, fetched, services, fetches>>

\* The first request fails to connect, or is answered with anything but a 401.
FirstReturned(c) ==
    /\ Goto(c, "first", "ready")
    /\ UNCHANGED <<key, mutex, cooling, sent, observed, fetched, services, fetches>>

\* A gateway that does not accept the key answers 401.
FirstUnauthorized(c) ==
    /\ sent[c] # valid
    /\ Goto(c, "first", "refresh")
    /\ UNCHANGED <<key, mutex, cooling, sent, observed, fetched, services, fetches>>

\* The request is built anew for the retry.
Rebuild(c) ==
    /\ Goto(c, "rebuild", "second")
    /\ sent' = [sent EXCEPT ![c] = key]
    /\ UNCHANGED <<key, mutex, cooling, observed, fetched, services, fetches>>

\* However the retry ends, a 401 included, the call is over.
SecondReturned(c) ==
    /\ Goto(c, "second", "ready")
    /\ UNCHANGED <<key, mutex, cooling, sent, observed, fetched, services, fetches>>

-----------------------------------------------------------------------------
(* refreshHyperstackKey                                                     *)

\* Slip: whatever key there is counts as another goroutine's result.
AdoptAny(c) ==
    /\ mutex = {}
    /\ key # 0
    /\ Goto(c, "refresh", "rebuild")
    /\ UNCHANGED <<key, mutex, cooling, sent, observed, fetched, services, fetches>>

\* Another goroutine has replaced the key: adopt its result.
AdoptOther(c) ==
    /\ mutex = {}
    /\ key # 0 /\ key # observed[c]
    /\ Goto(c, "refresh", "rebuild")
    /\ UNCHANGED <<key, mutex, cooling, sent, observed, fetched, services, fetches>>

\* A refresh ended less than refreshCooldown ago.
CoolingDown(c) ==
    /\ mutex = {}
    /\ key = 0 \/ key = observed[c]
    /\ cooling
    /\ Goto(c, "refresh", "ready")
    /\ UNCHANGED <<key, mutex, cooling, sent, observed, fetched, services, fetches>>

\* Slip: refreshMu is not taken.
FetchUnlocked(c) ==
    /\ key = 0 \/ key = observed[c]
    /\ ~cooling
    /\ Goto(c, "refresh", "fetching")
    /\ mutex' = mutex \cup {c}
    /\ fetches' = fetches + 1
    /\ UNCHANGED <<key, cooling, sent, observed, fetched, services>>

\* Call KeyRefresher, with refreshMu held until it has returned.
FetchStart(c) ==
    /\ mutex = {}
    /\ key = 0 \/ key = observed[c]
    /\ ~cooling
    /\ Goto(c, "refresh", "fetching")
    /\ mutex' = mutex \cup {c}
    /\ fetches' = fetches + 1
    /\ UNCHANGED <<key, cooling, sent, observed, fetched, services>>

\* The metadata service answers with the key of that moment.
FetchAnswered(c) ==
    /\ Goto(c, "fetching", "fetched")
    /\ fetched' = [fetched EXCEPT ![c] = published]
    /\ UNCHANGED <<key, mutex, cooling, sent, observed, services, fetches>>

\* refreshMu is released, and the cool-down starts however the fetch ended.
FetchEnds(c) ==
    /\ mutex' = mutex \ {c}
    /\ cooling' = TRUE

\* Slip: the cool-down starts only after a key was received.
FetchFailedUnstamped(c) ==
    /\ Goto(c, "fetching", "ready")
    /\ mutex' = mutex \ {c}
    /\ UNCHANGED <<key, cooling, sent, observed, fetched, services, fetches>>

\* The service is unavailable, has no key, or the caller's context is done.
FetchFailed(c) ==
    /\ Goto(c, "fetching", "ready")
    /\ FetchEnds(c)
    /\ UNCHANGED <<key, sent, observed, fetched, services, fetches>>

\* Slip: the same key again is taken for a new one.
InstallAny(c) ==
    /\ Goto(c, "fetched", "rebuild")
    /\ key' = fetched[c]
    /\ FetchEnds(c)
    /\ UNCHANGED <<sent, observed, fetched, services, fetches>>

\* SetHyperstackKey with a key that differs from the rejected one.
Install(c) ==
    /\ fetched[c] # observed[c]
    /\ Goto(c, "fetched", "rebuild")
    /\ key' = fetched[c]
    /\ FetchEnds(c)
    /\ UNCHANGED <<sent, observed, fetched, services, fetches>>

SameKey(c) ==
    /\ fetched[c] = observed[c]
    /\ Goto(c, "fetched", "ready")
    /\ FetchEnds(c)
    /\ UNCHANGED <<key, sent, observed, fetched, services, fetches>>

Progress(c) ==
    \/ Build(c) \/ Observe(c)
    \/ FirstReturned(c) \/ FirstUnauthorized(c)
    \/ AdoptOther(c) \/ CoolingDown(c) \/ FetchStart(c)
    \/ FetchAnswered(c) \/ FetchFailed(c)
    \/ Install(c) \/ SameKey(c)
    \/ Rebuild(c) \/ SecondReturned(c)

-----------------------------------------------------------------------------
(* The world                                                                *)

GatewayRotates ==
    /\ valid < MaxKey
    /\ valid' = valid + 1
    /\ UNCHANGED <<key, mutex, cooling, callers, published, fetches>>

MetadataPublishes ==
    /\ published < MaxKey
    /\ published' = published + 1
    /\ UNCHANGED <<key, mutex, cooling, callers, valid, fetches>>

\* refreshCooldown has passed.
CooldownEnds ==
    /\ cooling
    /\ cooling' = FALSE
    /\ fetches' = 0
    /\ UNCHANGED <<key, mutex, callers, services>>

Next ==
    \/ \E c \in Callers : Progress(c)
    \/ GatewayRotates
    \/ MetadataPublishes
    \/ CooldownEnds

Spec == Init /\ [][Next]_vars

\* The submit loop retries a failed batch for ever and the sync has a ticker,
\* so calls keep being made; the gateway is reached now and then and rejects
\* what it must; a metadata service that is asked again and again answers in
\* the end. Time passes.
Fairness ==
    /\ \A c \in Callers :
           /\ WF_vars(Progress(c))
           /\ SF_vars(FirstUnauthorized(c))
           /\ SF_vars(FetchAnswered(c))
    /\ WF_vars(CooldownEnds)

FairSpec == Spec /\ Fairness

-----------------------------------------------------------------------------
(* Properties                                                               *)

At == {"ready", "observe", "first", "refresh", "fetching", "fetched", "rebuild",
       "second"}

\* Every variable has its type; refreshMu is held by the caller whose fetch is
\* under way and by nobody else, whichever way a refresh returns
\* (hub.go:151-182).
TypeOK ==
    /\ key \in 0 .. MaxKey
    /\ cooling \in BOOLEAN
    /\ pc \in [Callers -> At]
    /\ sent \in [Callers -> 0 .. MaxKey]
    /\ observed \in [Callers -> 0 .. MaxKey]
    /\ fetched \in [Callers -> 0 .. MaxKey]
    /\ valid \in 1 .. MaxKey
    /\ published \in 1 .. MaxKey
    /\ fetches \in Nat
    /\ mutex = {c \in Callers : pc[c] \in {"fetching", "fetched"}}

\* A flood of 401s does not hammer the metadata service: between the ends of two
\* cool-downs there is at most one fetch, also when it fails or brings nothing
\* new (hub.go:60-64, 151-167).
OneFetchPerCooldown == fetches <= 1

\* A request is repeated only with a newer key than the one the gateway has just
\* rejected, whoever fetched that key and although the key that was sent and the
\* key compared against are read at different moments (hub.go:156, 176, 194-209).
RetryHasNewerKey ==
    [][\A c \in Callers :
           pc[c] = "rebuild" /\ pc'[c] = "second" => sent'[c] > sent[c]]_vars

\* The key only moves forward, to keys that have been published: a slow fetch
\* never overwrites the result of a later one (hub.go:147-183).
Rollover == INSTANCE KeyRollover
KeyMovesForward == Rollover!RolloverSpec

\* Once the metadata service hands out the key the gateway accepts, the client
\* ends up with it, unless a service moves on before (hub.go:748-750).
KeyRecovers ==
    \A k \in 1 .. MaxKey :
        (valid = k /\ published = k) ~> (key = k \/ valid # k \/ published # k)

\* "If another goroutine already refreshed since we observed the bad key, adopt
\* its result instead of calling the refresher again" (hub.go:154): a caller
\* whose rejected request carried another key than the current one retries.
AdoptsNewerKey ==
    [][\A c \in Callers :
           pc[c] = "refresh" /\ pc'[c] # "refresh" /\ key # 0 /\ sent[c] # key
               => pc'[c] = "rebuild"]_vars
=============================================================================
