---------------------------- MODULE MCJsonStore -----------------------------
(* Instances of JsonStore for TLC: patches p1..p3 and a whole write w1. *)
EXTENDS JsonStore, TLC

CONSTANTS p1, p2, p3, w1, stage, error

MCSets == (p1 :> {stage}) @@ (p2 :> {stage, error}) @@ (p3 :> {error})
              @@ (w1 :> {stage})
MCSets3 == (p1 :> {stage}) @@ (p2 :> {error}) @@ (w1 :> {stage})
=============================================================================
