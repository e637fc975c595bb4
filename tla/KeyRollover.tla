---------------------------- MODULE KeyRollover ----------------------------
(***************************************************************************)
(* What the hub client promises about its credential while keys are        *)
(* rotated: it only ever moves forward, to a key that the metadata service *)
(* has published. Keys are numbered in the order in which they are issued; *)
(* 0 is no key.                                                            *)
(***************************************************************************)
EXTENDS Naturals

CONSTANT MaxKey

VARIABLES
    key,        \* the key requests are sent with
    published   \* the key the metadata service hands out

RolloverVars == <<key, published>>

RolloverInit ==
    /\ published \in 1 .. MaxKey
    /\ key \in 0 .. published

Publish ==
    /\ published < MaxKey
    /\ published' = published + 1
    /\ UNCHANGED key

Adopt ==
    /\ key' \in key + 1 .. published
    /\ UNCHANGED published

RolloverSpec == RolloverInit /\ [][Publish \/ Adopt]_RolloverVars
=============================================================================
