------------------------------- MODULE MCLoader -------------------------------
(* Loader for TLC.                                                          *)
EXTENDS Loader

CONSTANTS a, b

Plan(way, pod, starts, execs, frail, gates) ==
  [way |-> way, pod |-> pod, starts |-> starts, execs |-> execs,
   frail |-> frail, gates |-> gates]

LoaderPlans ==
  { Plan("start", {a}, 2, {a}, {a}, FALSE),        \* a container comes back
    Plan("start", {a}, 1, {Root}, {Root}, FALSE),  \* the root goes
    Plan("restore", {a}, 2, {a}, {a}, FALSE),
    Plan("restore", {a, b}, 1, {}, {}, FALSE),     \* two calls race
    Plan("start", {}, 1, {}, {}, TRUE),            \* the gate
    Plan("restore", {}, 1, {}, {}, TRUE) }
=============================================================================
