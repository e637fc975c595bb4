----------------------------- MODULE SampleFate -----------------------------
(***************************************************************************)
(* What the hub client promises of the samples it is given: a bounded      *)
(* first-in-first-out queue between the collectors and the gateway. A      *)
(* sample enters once; it leaves at the front only, pushed out by newer    *)
(* samples when the queue is full, or with at most a request's worth of    *)
(* samples when an attempt has settled them; and the gateway gets nothing  *)
(* that was not offered.                                                   *)
(***************************************************************************)
EXTENDS Naturals, Sequences, Functions

CONSTANTS
    Items,       \* the samples
    Capacity,    \* of the queue
    MaxOffer,    \* samples that are offered together
    MaxSettled   \* samples that are settled together

VARIABLES
    queue,       \* oldest first
    offered,     \* samples that have been offered
    stored       \* samples the gateway has

vars == <<queue, offered, stored>>

Init ==
    /\ queue = <<>>
    /\ offered = {}
    /\ stored = {}

Without(seq, n) == SubSeq(seq, n + 1, Len(seq))
Newest(seq) == Without(seq, IF Len(seq) > Capacity THEN Len(seq) - Capacity ELSE 0)

\* New samples, all different, join the queue; the newest ones stay.
Offer ==
    \E n \in 1 .. MaxOffer : \E new \in [1 .. n -> Items \ offered] :
        /\ \A i, j \in 1 .. n : new[i] = new[j] => i = j
        /\ queue' = Newest(queue \o new)
        /\ offered' = offered \cup Range(new)
        /\ UNCHANGED stored

\* The oldest samples are settled: delivered, refused for good, or too old.
Settle ==
    \E n \in 1 .. MaxSettled :
        /\ queue' = Without(queue, n)
        /\ UNCHANGED <<offered, stored>>

\* The gateway stores samples, whatever becomes of the answer.
Deliver ==
    /\ stored' \in SUBSET offered
    /\ stored \subseteq stored'
    /\ UNCHANGED <<queue, offered>>

Next == Offer \/ Settle \/ Deliver

Spec == Init /\ [][Next]_vars
=============================================================================
