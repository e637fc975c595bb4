---------------------------- MODULE MCSelfUpdate ----------------------------
(***************************************************************************)
(* SelfUpdate with a handful of version strings, and the reference that    *)
(* their order is checked against.                                         *)
(***************************************************************************)
EXTENDS SelfUpdate

Version(segments, tag) == [segments |-> segments, tag |-> tag]

\* Strings that differ in the number of digits, in length and in the tag; the
\* builds of a developer have no number.
MCVersions ==
    {Version(<<1, 9>>, ""), Version(<<1, 10>>, "-rc"), Version(<<2>>, ""),
     Version(<<NotANumber>>, "dev")}

\* More strings, for the order alone: leading and trailing zeros, a blank
\* segment, an empty core, a number that is too large.
OrderSamples ==
    MCVersions \cup
    {Version(s, "") : s \in {<<>>, <<0>>, <<1>>, <<1, 9, 1>>, <<1, 10, 0>>, <<2, 0>>,
                             <<2, 0, 1>>, <<0, 99>>, <<1, NotANumber>>,
                             <<1, MaxInt + 1>>, <<NotANumber, 3>>}}

\* The segments read as the digits of one number, to a base above all of them.
Base == MaxInt + 1
Weight(v) == (Segment(v, 1) * Base + Segment(v, 2)) * Base + Segment(v, 3)

\* isHigherVersion answers "does the announced version spell a greater number",
\* for versions of any two lengths, and never for strings it cannot read
\* (manager.go:374-406).
OrderIsNumeric ==
    \A v \in OrderSamples :
        IsHigherVersion(offered, v) <=>
            Parses(offered) /\ Parses(v) /\ Weight(offered) > Weight(v)
=============================================================================
