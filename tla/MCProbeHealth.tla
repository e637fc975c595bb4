--------------------------- MODULE MCProbeHealth ---------------------------
(***************************************************************************)
(* ProbeHealth with three series: two that differ behind the cut only, and *)
(* one that is not cut and has a blank label.                              *)
(***************************************************************************)
EXTENDS ProbeHealth

String(text, size) == [raw |-> text, token |-> text, size |-> size]

MCSeries ==
    {[name |-> String("long", 30),
      labels |-> 1 :> String("long", 30) @@ 2 :> String("long", 200) @@ 3 :> String(t, 1)]
          : t \in {"x", "y"}}
    \cup
    {[name |-> String("short", 20),
      labels |-> 1 :> String("short", 20) @@ 2 :> String("x", 1) @@ 3 :> String("", 0)]}
=============================================================================
