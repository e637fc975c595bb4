---------------------------- MODULE VersionOrder ----------------------------
(***************************************************************************)
(* The order of version strings that decides whether an announced release  *)
(* is an update (isHigherVersion and parseVersion in internal/update).     *)
(*                                                                         *)
(* A version string is a record: the segments its core splits into at the  *)
(* dots, and the tag that follows ("-rc.1", "+build", nothing). A segment  *)
(* is the number it spells, or NotANumber when it is blank or holds        *)
(* anything but digits; no sign gets into a segment, because the core ends *)
(* before the first "-" or "+". A leading "v" and blanks around the string *)
(* are gone.                                                               *)
(***************************************************************************)
EXTENDS Integers, Sequences

CONSTANT MaxInt              \* the largest int of the build

ASSUME VersionOrderAssumption == MaxInt \in Nat

NotANumber == -1

\* parseVersion returns no error: every segment is a number that fits an int.
\* The tag plays no part.
Parses(v) ==
    /\ v.segments # <<>>
    /\ \A i \in DOMAIN v.segments : v.segments[i] \in 0 .. MaxInt

\* Segments that one of the two versions lacks count as zero.
Segment(v, i) == IF i \in DOMAIN v.segments THEN v.segments[i] ELSE 0

SameUpTo(v, w, n) == \A i \in 1 .. n : Segment(v, i) = Segment(w, i)

\* Slip: the comparison goes on behind a segment that is smaller.
IsHigherSomewhere(next, current) ==
    /\ Parses(next) /\ Parses(current)
    /\ \E i \in DOMAIN next.segments : Segment(next, i) > Segment(current, i)

\* The first segment in which the two differ is the greater one in next. Behind
\* the last segment of next there are only zeros, none of which is greater. An
\* unreadable version on either side, reported or not, is no update.
IsHigherVersion(next, current) ==
    /\ Parses(next) /\ Parses(current)
    /\ \E i \in DOMAIN next.segments :
           /\ Segment(next, i) > Segment(current, i)
           /\ SameUpTo(next, current, i - 1)
=============================================================================
