------------------------------ MODULE SeriesId ------------------------------
(***************************************************************************)
(* The identifier of a time series (metricIdentifier, internal/metrics):   *)
(* the sanitized metric name and the sanitized labels in the order of      *)
(* their keys; one that grows too long is cut and told apart by a hash.    *)
(*                                                                         *)
(* A string is a record: its raw text, the token that sanitizing leaves of *)
(* it, and the token's size. Keys are numbers in the order of the keys. A  *)
(* series is a name and a function from its keys to label values, the      *)
(* label that repeats the name among them. Go hands out the keys of a map  *)
(* in any order. Only important names get here, and they have a token, so  *)
(* that the cases of an empty name and an empty identifier do not arise.   *)
(***************************************************************************)
EXTENDS Integers, SequencesExt

CONSTANTS
    Blank,        \* the raw text of a blank string
    KeySize,      \* size of a key's token
    MaxBase       \* size beyond which an identifier is cut (240)

ASSUME SeriesIdAssumption == KeySize \in Nat /\ MaxBase \in Nat

KeyOrders(s) == SetToSeqs(DOMAIN s.labels)

\* Slip: the keys are taken as the map hands them out.
UnsortedKeys(keys) == keys

\* The n-th of them is the one with n keys up to it.
SortedKeys(keys) ==
    LET all == Range(keys)
    IN  [n \in DOMAIN keys |->
            CHOOSE k \in all : Cardinality({j \in all : j <= k}) = n]

\* The hash of a name and its labels is taken for what is hashed: the twelve
\* characters kept of it are taken to tell the series of one agent apart.
metricUUID(s, keys) ==
    <<s.name.raw, [i \in DOMAIN keys |-> <<keys[i], s.labels[keys[i]].raw>>]>>

\* The parts of the identifier before it is cut; blank labels are left out.
Parts(s, keys) ==
    LET used == SelectSeq(keys, LAMBDA k : s.labels[k].raw # Blank)
    IN  <<[token |-> s.name.token, size |-> s.name.size]>>
            \o [i \in DOMAIN used |->
                   [token |-> <<used[i], s.labels[used[i]].token>>,
                    size |-> KeySize + 1 + s.labels[used[i]].size]]

\* The size of the first n parts, joined by "__".
SizeOf(parts, n) ==
    FoldLeft(LAMBDA sum, part : sum + part.size, 2 * (n - 1), SubSeq(parts, 1, n))

Fits(parts) == SizeOf(parts, Len(parts)) <= MaxBase

Tokens(parts) == [i \in DOMAIN parts |-> parts[i].token]

\* Of the part that the cut goes through nothing is kept.
Cut(parts) ==
    SubSeq(parts, 1, Cardinality({n \in DOMAIN parts : SizeOf(parts, n) <= MaxBase}))

\* Slip: the cut is all that happens to a long identifier.
CutOnly(parts, s, keys) == <<Tokens(Cut(parts)), <<>>>>

CutAndHash(parts, s, keys) == <<Tokens(Cut(parts)), metricUUID(s, keys)>>

metricIdentifier(s, order) ==
    LET keys == SortedKeys(order)
        parts == Parts(s, keys)
    IN  IF Fits(parts)
        THEN <<Tokens(parts), <<>>>>
        ELSE CutAndHash(parts, s, keys)

IsLong(s) == \E order \in KeyOrders(s) : ~Fits(Parts(s, SortedKeys(order)))
=============================================================================
