-------------------------- MODULE KeyRefreshProofs --------------------------
(***************************************************************************)
(* KeyRefresh, for any number of callers and keys: its type and lock       *)
(* discipline, the bound on fetches, that a retry carries a newer key,     *)
(* that it implements KeyRollover, and that no refresh happens without a   *)
(* reason.                                                                 *)
(***************************************************************************)
EXTENDS KeyRefresh, TLAPS

\* Fetches do not overlap.
SingleFlight == \A c, d \in mutex : c = d

\* A fetch begins outside a cool-down and starts one when it ends.
FetchesSpaced ==
    /\ fetches = 1 => cooling \/ mutex # {}
    /\ mutex # {} => ~cooling

\* What is known of a caller's keys at each point: they were read in the order
\* sent, observed, fetched, and while it holds refreshMu the key stays put.
KeysOrdered(c) ==
    /\ pc[c] = "observe" => sent[c] <= key
    /\ pc[c] \in {"first", "refresh", "fetching", "fetched"}
           => sent[c] <= observed[c] /\ observed[c] <= key
    /\ pc[c] \in {"fetching", "fetched"} => observed[c] = key
    /\ pc[c] = "fetched" => key <= fetched[c] /\ fetched[c] <= published
    /\ pc[c] = "rebuild" => sent[c] < key

Inv ==
    /\ TypeOK
    /\ OneFetchPerCooldown
    /\ SingleFlight
    /\ FetchesSpaced
    /\ key <= published
    /\ \A c \in Callers : KeysOrdered(c)

\* The invariant holds initially.
LEMMA InitInv == Init => Inv
  <1> SUFFICES ASSUME Init PROVE Inv
    OBVIOUS
  <1>1. MaxKey \in Nat /\ published \in 1 .. MaxKey /\ key \in 0 .. published
    BY KeyRefreshAssumption DEF Init
  <1>2. key \in 0 .. MaxKey /\ key <= published
    BY <1>1
  <1>3. mutex = {c \in Callers : pc[c] \in {"fetching", "fetched"}}
    BY DEF Init
  <1>4. TypeOK
    <2>1. cooling \in BOOLEAN
      BY DEF Init
    <2>2. /\ pc \in [Callers -> At]
          /\ sent \in [Callers -> 0 .. MaxKey]
          /\ observed \in [Callers -> 0 .. MaxKey]
          /\ fetched \in [Callers -> 0 .. MaxKey]
          /\ fetches \in Nat
      BY <1>1 DEF Init, At
    <2>3. valid \in 1 .. MaxKey /\ published \in 1 .. MaxKey
      BY DEF Init
    <2> QED
      BY <1>2, <1>3, <2>1, <2>2, <2>3 DEF TypeOK
  <1>5. OneFetchPerCooldown /\ SingleFlight /\ FetchesSpaced
    BY DEF Init, OneFetchPerCooldown, SingleFlight, FetchesSpaced
  <1>6. \A c \in Callers : KeysOrdered(c)
    BY DEF Init, KeysOrdered
  <1> QED
    BY <1>2, <1>4, <1>5, <1>6 DEF Inv

\* A step of a caller keeps the type and the lock discipline.
LEMMA ProgressType ==
    ASSUME TypeOK, NEW c \in Callers, Progress(c)
    PROVE  TypeOK'
  <1>0. cooling' \in BOOLEAN
    BY DEF TypeOK, Progress, Build, Observe, FirstReturned, FirstUnauthorized,
           AdoptOther, CoolingDown, FetchStart, FetchAnswered, FetchFailed, FetchEnds,
           Install, SameKey, Rebuild, SecondReturned
  <1>1. /\ key' \in 0 .. MaxKey
        /\ pc' \in [Callers -> At]
        /\ sent' \in [Callers -> 0 .. MaxKey]
        /\ observed' \in [Callers -> 0 .. MaxKey]
        /\ valid' \in 1 .. MaxKey
        /\ published' \in 1 .. MaxKey
        /\ fetches' \in Nat
    BY DEF TypeOK, At, Progress, Goto, Build, Observe, FirstReturned,
           FirstUnauthorized, AdoptOther, CoolingDown, FetchStart, FetchAnswered,
           FetchFailed, FetchEnds, Install, SameKey, Rebuild, SecondReturned,
           services
  <1>2. fetched' \in [Callers -> 0 .. MaxKey]
    <2>1. CASE FetchAnswered(c)
      <3>1. published \in 0 .. MaxKey
        BY DEF TypeOK
      <3> QED
        BY <2>1, <3>1 DEF TypeOK, FetchAnswered
    <2>2. CASE UNCHANGED fetched
      BY <2>2 DEF TypeOK
    <2> QED
      BY <2>1, <2>2
         DEF Progress, Build, Observe, FirstReturned, FirstUnauthorized, AdoptOther,
             CoolingDown, FetchStart, FetchFailed, Install, SameKey, Rebuild,
             SecondReturned
  <1>3. mutex' = {d \in Callers : pc'[d] \in {"fetching", "fetched"}}
    <2>1. CASE FetchStart(c)
      BY <2>1 DEF TypeOK, FetchStart, Goto
    <2>2. CASE FetchFailed(c) \/ Install(c) \/ SameKey(c)
      BY <2>2 DEF TypeOK, FetchFailed, Install, SameKey, FetchEnds, Goto
    <2>3. CASE FetchAnswered(c)
      BY <2>3 DEF TypeOK, FetchAnswered, Goto
    <2>4. CASE \/ Build(c) \/ Observe(c) \/ FirstReturned(c) \/ FirstUnauthorized(c)
               \/ AdoptOther(c) \/ CoolingDown(c) \/ Rebuild(c) \/ SecondReturned(c)
      BY <2>4 DEF TypeOK, Goto, Build, Observe, FirstReturned, FirstUnauthorized,
                  AdoptOther, CoolingDown, Rebuild, SecondReturned
    <2> QED
      BY <2>1, <2>2, <2>3, <2>4 DEF Progress
  <1> QED
    BY <1>0, <1>1, <1>2, <1>3 DEF TypeOK

\* A step of a caller keeps fetches apart.
LEMMA ProgressFetches ==
    ASSUME TypeOK, SingleFlight, FetchesSpaced, OneFetchPerCooldown,
           NEW c \in Callers, Progress(c)
    PROVE  SingleFlight' /\ FetchesSpaced' /\ OneFetchPerCooldown'
  <1>1. CASE FetchStart(c)
    <2>1. mutex = {} /\ ~cooling /\ mutex' = {c} /\ fetches' = fetches + 1
          /\ cooling' = cooling
      BY <1>1 DEF FetchStart
    <2>2. fetches = 0
      BY <2>1 DEF TypeOK, FetchesSpaced, OneFetchPerCooldown
    <2> QED
      BY <2>1, <2>2 DEF SingleFlight, FetchesSpaced, OneFetchPerCooldown
  <1>2. CASE FetchFailed(c) \/ Install(c) \/ SameKey(c)
    <2>1. c \in mutex /\ mutex' = mutex \ {c} /\ cooling' = TRUE /\ fetches' = fetches
      BY <1>2 DEF FetchFailed, Install, SameKey, FetchEnds, Goto, TypeOK
    <2>2. mutex' = {}
      BY <2>1 DEF SingleFlight
    <2> QED
      BY <2>1, <2>2 DEF SingleFlight, FetchesSpaced, OneFetchPerCooldown
  <1>3. CASE UNCHANGED <<mutex, cooling, fetches>>
    BY <1>3 DEF SingleFlight, FetchesSpaced, OneFetchPerCooldown
  <1> QED
    BY <1>1, <1>2, <1>3
       DEF Progress, Build, Observe, FirstReturned, FirstUnauthorized, AdoptOther,
           CoolingDown, FetchAnswered, Rebuild, SecondReturned

\* A step of a caller that leaves the key alone keeps the order of the keys.
LEMMA ProgressKeys ==
    ASSUME Inv, NEW c \in Callers, Progress(c), ~Install(c)
    PROVE  (key <= published)' /\ \A d \in Callers : KeysOrdered(d)'
  <1>1. key' = key /\ published' = published
    BY DEF Progress, Build, Observe, FirstReturned, FirstUnauthorized, AdoptOther,
           CoolingDown, FetchStart, FetchAnswered, FetchFailed, SameKey, Rebuild,
           SecondReturned, services
  <1>2. ASSUME NEW d \in Callers, d # c
        PROVE  KeysOrdered(d)'
    <2>1. pc'[d] = pc[d] /\ sent'[d] = sent[d] /\ observed'[d] = observed[d]
          /\ fetched'[d] = fetched[d]
      BY <1>2
         DEF Inv, TypeOK, Progress, Goto, Build, Observe, FirstReturned,
             FirstUnauthorized, AdoptOther, CoolingDown, FetchStart, FetchAnswered,
             FetchFailed, SameKey, Rebuild, SecondReturned
    <2> QED
      BY <1>1, <1>2, <2>1 DEF Inv, KeysOrdered
  <1>3. KeysOrdered(c)'
    BY <1>1
       DEF Inv, TypeOK, KeysOrdered, Progress, Goto, Build, Observe, FirstReturned,
           FirstUnauthorized, AdoptOther, CoolingDown, FetchStart, FetchAnswered,
           FetchFailed, SameKey, Rebuild, SecondReturned
  <1> QED
    BY <1>1, <1>2, <1>3 DEF Inv

\* Installing a fetched key moves the key forward, past the one every caller
\* has read: nobody else is in a fetch.
LEMMA InstallKeys ==
    ASSUME Inv, NEW c \in Callers, Install(c)
    PROVE  /\ key < key' /\ key' <= published /\ published' = published
           /\ \A d \in Callers : KeysOrdered(d)'
  <1>1. pc[c] = "fetched" /\ c \in mutex /\ key' = fetched[c]
        /\ fetched[c] # observed[c] /\ published' = published
    BY DEF Inv, TypeOK, Install, Goto, services
  <1>2. key \in Nat /\ fetched[c] \in Nat /\ published \in Nat
        /\ sent[c] \in Nat /\ observed[c] \in Nat
    BY DEF Inv, TypeOK
  <1>3. key < key' /\ key' <= published /\ sent[c] < key'
    BY <1>1, <1>2 DEF Inv, KeysOrdered
  <1>4. ASSUME NEW d \in Callers, d # c
        PROVE  KeysOrdered(d)'
    <2>1. pc'[d] = pc[d] /\ sent'[d] = sent[d] /\ observed'[d] = observed[d]
      BY <1>4 DEF Inv, TypeOK, Install, Goto
    <2>2. pc[d] \notin {"fetching", "fetched"}
      BY <1>1, <1>4 DEF Inv, TypeOK, SingleFlight
    <2>3. sent[d] \in Nat /\ observed[d] \in Nat /\ key' \in Nat
      BY <1>1, <1>2 DEF Inv, TypeOK
    <2> QED
      BY <1>2, <1>3, <2>1, <2>2, <2>3 DEF Inv, KeysOrdered
  <1>5. KeysOrdered(c)'
    BY <1>3 DEF Inv, TypeOK, Install, Goto, KeysOrdered
  <1> QED
    BY <1>1, <1>3, <1>4, <1>5

\* Every step keeps the invariant.
LEMMA NextInv == Inv /\ [Next]_vars => Inv'
  <1> SUFFICES ASSUME Inv, [Next]_vars PROVE Inv'
    OBVIOUS
  <1>1. ASSUME NEW c \in Callers, Progress(c) PROVE Inv'
    <2>1. TypeOK' /\ SingleFlight' /\ FetchesSpaced' /\ OneFetchPerCooldown'
      BY <1>1, ProgressType, ProgressFetches DEF Inv
    <2>2. key' <= published' /\ \A d \in Callers : KeysOrdered(d)'
      BY <1>1, ProgressKeys, InstallKeys
    <2> QED
      BY <2>1, <2>2 DEF Inv
  <1>2. CASE GatewayRotates \/ MetadataPublishes \/ CooldownEnds \/ UNCHANGED vars
    <2>1. /\ UNCHANGED <<key, mutex, pc, sent, observed, fetched>>
          /\ published' >= published
      BY <1>2 DEF Inv, TypeOK, GatewayRotates, MetadataPublishes, CooldownEnds, vars,
                  callers, services
    <2>2. valid' \in 1 .. MaxKey /\ published' \in 1 .. MaxKey
      BY <1>2, KeyRefreshAssumption
         DEF Inv, TypeOK, GatewayRotates, MetadataPublishes, CooldownEnds, vars, services
    <2>3. cooling' \in BOOLEAN /\ fetches' \in Nat
      <3>1. cooling' \in BOOLEAN
        BY <1>2 DEF Inv, TypeOK, GatewayRotates, MetadataPublishes, CooldownEnds, vars
      <3>2. fetches' = fetches \/ fetches' = 0
        BY <1>2 DEF GatewayRotates, MetadataPublishes, CooldownEnds, vars
      <3> QED
        BY <3>1, <3>2 DEF Inv, TypeOK
    <2>4. TypeOK'
      BY <2>1, <2>2, <2>3 DEF Inv, TypeOK
    <2>5. SingleFlight' /\ FetchesSpaced' /\ OneFetchPerCooldown'
      BY <1>2 DEF Inv, GatewayRotates, MetadataPublishes, CooldownEnds, vars,
                  SingleFlight, FetchesSpaced, OneFetchPerCooldown
    <2>6. key' <= published' /\ \A c \in Callers : KeysOrdered(c)'
      <3>1. key \in Nat /\ published \in Nat /\ published' \in Nat
        BY <2>2 DEF Inv, TypeOK
      <3>2. fetched \in [Callers -> Nat]
        BY DEF Inv, TypeOK
      <3> QED
        BY <2>1, <3>1, <3>2 DEF Inv, KeysOrdered
    <2> QED
      BY <2>4, <2>5, <2>6 DEF Inv
  <1> QED
    BY <1>1, <1>2 DEF Next

\* The invariant holds in every state of every behaviour.
LEMMA Invariance == Spec => []Inv
  BY InitInv, NextInv, PTL DEF Spec

-----------------------------------------------------------------------------

\* Types, and refreshMu is held exactly while a fetch is under way
\* (hub.go:151-182).
THEOREM TypeCorrect == Spec => []TypeOK
  <1>1. Inv => TypeOK
    BY DEF Inv
  <1> QED
    BY <1>1, Invariance, PTL

\* At most one fetch between the ends of two cool-downs (hub.go:160-167).
THEOREM FetchBound == Spec => []OneFetchPerCooldown
  <1>1. Inv => OneFetchPerCooldown
    BY DEF Inv
  <1> QED
    BY <1>1, Invariance, PTL

\* A request is repeated only with a newer key (hub.go:156, 176, 203-209).
THEOREM RetryIsNewer == Spec => RetryHasNewerKey
  <1>1. ASSUME Inv, [Next]_vars, NEW c \in Callers,
               pc[c] = "rebuild", pc'[c] = "second"
        PROVE  sent'[c] > sent[c]
    <2>1. Rebuild(c)
      <3>1. PICK d \in Callers : Progress(d)
        BY <1>1 DEF Next, vars, GatewayRotates, MetadataPublishes, CooldownEnds, callers
      <3>2. d = c
        BY <1>1, <3>1
           DEF Inv, TypeOK, Progress, Goto, Build, Observe, FirstReturned,
               FirstUnauthorized, AdoptOther, CoolingDown, FetchStart, FetchAnswered,
               FetchFailed, Install, SameKey, Rebuild, SecondReturned
      <3> QED
        BY <1>1, <3>1, <3>2
           DEF Inv, TypeOK, Progress, Goto, Build, Observe, FirstReturned,
               FirstUnauthorized, AdoptOther, CoolingDown, FetchStart, FetchAnswered,
               FetchFailed, Install, SameKey, SecondReturned
    <2>2. sent[c] < key /\ sent'[c] = key /\ sent[c] \in Nat /\ key \in Nat
      BY <1>1, <2>1 DEF Inv, TypeOK, KeysOrdered, Rebuild
    <2> QED
      BY <2>2
  <1>2. Inv /\ [Next]_vars
          => [\A c \in Callers :
                 pc[c] = "rebuild" /\ pc'[c] = "second" => sent'[c] > sent[c]]_vars
    BY <1>1
  <1> QED
    BY <1>2, Invariance, PTL DEF Spec, RetryHasNewerKey

\* The client implements KeyRollover: its key only moves forward, to published
\* keys (hub.go:147-183).
THEOREM Refinement == Spec => KeyMovesForward
  <1>1. Init => Rollover!RolloverInit
    BY DEF Init, Rollover!RolloverInit
  <1>2. ASSUME Inv, [Next]_vars
        PROVE  [Rollover!Publish \/ Rollover!Adopt]_Rollover!RolloverVars
    <2>1. ASSUME NEW c \in Callers, Install(c)
          PROVE  Rollover!Adopt
      <3>1. key < key' /\ key' <= published /\ published' = published
        BY <1>2, <2>1, InstallKeys
      <3>2. key \in Nat /\ published \in Nat /\ key' \in Nat
        BY <1>2, <2>1 DEF Inv, TypeOK, Install
      <3> QED
        BY <3>1, <3>2 DEF Rollover!Adopt
    <2>2. CASE MetadataPublishes
      BY <2>2 DEF MetadataPublishes, Rollover!Publish
    <2>3. ASSUME NEW c \in Callers, Progress(c), ~Install(c)
          PROVE  UNCHANGED <<key, published>>
      BY <2>3
         DEF Progress, Build, Observe, FirstReturned, FirstUnauthorized, AdoptOther,
             CoolingDown, FetchStart, FetchAnswered, FetchFailed, SameKey, Rebuild,
             SecondReturned, services
    <2>4. CASE GatewayRotates \/ CooldownEnds \/ UNCHANGED vars
      BY <2>4 DEF GatewayRotates, CooldownEnds, vars, services, Rollover!RolloverVars
    <2> QED
      BY <1>2, <2>1, <2>2, <2>3, <2>4 DEF Next, Rollover!RolloverVars
  <1> QED
    BY <1>1, <1>2, Invariance, PTL DEF Spec, KeyMovesForward, Rollover!RolloverSpec

\* The gateway accepts the key, which is also the latest one, and every request
\* that is being built or under way carries it.
Settled ==
    /\ key = valid
    /\ key = published
    /\ \A c \in Callers :
           /\ pc[c] \in {"ready", "observe", "first", "rebuild", "second"}
           /\ pc[c] \in {"observe", "first", "second"} => sent[c] = key

\* The key is refreshed for a reason only: from a state in which requests and
\* services agree on it, as long as no service moves on, no request is rejected,
\* no fetch begins and the key stays as it is, whatever the callers do
\* (hub.go:147-183, 194-230).
QuietWhenSettled ==
    [][Settled /\ UNCHANGED services
           => Settled' /\ key' = key /\ fetches' <= fetches]_vars

THEOREM SettledIsQuiet == Spec => QuietWhenSettled
  <1>1. Inv /\ [Next]_vars
            => [Settled /\ UNCHANGED services
                    => Settled' /\ key' = key /\ fetches' <= fetches]_vars
    <2> SUFFICES ASSUME Inv, [Next]_vars, Settled, UNCHANGED services
                 PROVE  Settled' /\ key' = key /\ fetches' <= fetches
      OBVIOUS
    <2>1. valid' = valid /\ published' = published
      BY DEF services
    <2>2. fetches \in Nat
      BY DEF Inv, TypeOK
    <2>3. ASSUME NEW c \in Callers, Progress(c)
          PROVE  Settled' /\ key' = key /\ fetches' = fetches
      <3>1. \/ Build(c) \/ Observe(c) \/ FirstReturned(c)
            \/ Rebuild(c) \/ SecondReturned(c)
        BY <2>3 DEF Settled, Progress, Goto, FirstUnauthorized, AdoptOther, CoolingDown,
           FetchStart, FetchAnswered, FetchFailed, Install, SameKey
      <3>2. key' = key /\ fetches' = fetches
        BY <3>1 DEF Build, Observe, FirstReturned, Rebuild, SecondReturned
      <3>3. ASSUME NEW d \in Callers
            PROVE  /\ pc'[d] \in {"ready", "observe", "first", "rebuild", "second"}
                   /\ pc'[d] \in {"observe", "first", "second"} => sent'[d] = key
        BY <3>1 DEF Settled, Inv, TypeOK, Goto, Build, Observe, FirstReturned, Rebuild,
           SecondReturned
      <3> QED
        BY <2>1, <3>2, <3>3 DEF Settled
    <2>4. CASE GatewayRotates \/ MetadataPublishes
      BY <2>1, <2>4 DEF Inv, TypeOK, GatewayRotates, MetadataPublishes
    <2>5. CASE CooldownEnds \/ UNCHANGED vars
      <3>1. key' = key /\ pc' = pc /\ sent' = sent
        BY <2>5 DEF CooldownEnds, callers, vars
      <3>2. fetches' = 0 \/ fetches' = fetches
        BY <2>5 DEF CooldownEnds, vars
      <3>3. Settled'
        BY <2>1, <3>1 DEF Settled
      <3> QED
        BY <2>2, <3>1, <3>2, <3>3
    <2> QED
      BY <2>2, <2>3, <2>4, <2>5 DEF Next
  <1> QED
    BY <1>1, Invariance, PTL DEF Spec, QuietWhenSettled
=============================================================================
