-------------------------------- MODULE Probe --------------------------------
(***************************************************************************)
(* How the solvers judge a route (model/allocation.py): light a probe on a *)
(* reference comb, take the GSNR of the worse direction, keep the fastest  *)
(* mode it supports.                                                       *)
(*                                                                         *)
(* GNPy is outside src/: Gsnr is what a propagation of the route and of    *)
(* its reverse returns, the smaller of the two.  ComposedGsnr is the sum   *)
(* of per-section increments that earlier propagations left in a table;    *)
(* the code takes it instead whenever the table covers the route.  dB are  *)
(* integers, in any unit small enough.                                     *)
(***************************************************************************)
EXTENDS IpRouting, Spectrum

CONSTANTS
  RequiredGsnr,         \* [Modes -> Int], required_gsnr_db
  DesignMargin,         \* design_margin_db of the model
  CompositionBound,     \* COMPOSITION_ERROR_BOUND_DB
  MaxComposedHops,      \* MAX_COMPOSED_HOPS; 0 for no increment table
  FillPolicy,           \* "full" or "actual"
  Gsnr(_, _, _),        \* (sections, slot, comb) of an exact propagation
  ComposedGsnr(_, _)    \* (sections, slot) of a composition

ASSUME ProbeAssumption ==
  /\ RequiredGsnr \in [Modes -> Int]
  /\ DesignMargin \in Nat /\ CompositionBound \in Nat /\ MaxComposedHops \in Nat
  /\ FillPolicy \in {"full", "actual"}

NoMode == "none"       \* _best_feasible_mode found no mode under the threshold

\* The probe comb: the whole grid, or the channels lit next to the probe.
Loading(state, seq, slot) ==
  IF FillPolicy = "full" THEN Slots ELSE OccupiedAlong(state, seq) \cup {slot}

\* A propagation reads both directions, and calibrates the sections of both.
BothWays(seq) == Range(seq) \cup UNION {Opposite(o) : o \in Range(seq)}

\* Increments are measured under the full comb and over a bounded length.
CanCompose(table, seq, comb) ==
  /\ comb = Slots
  /\ Len(seq) <= MaxComposedHops
  /\ BothWays(seq) \subseteq table

WorseDirection(table, seq, slot, comb) ==
  IF CanCompose(table, seq, comb) THEN ComposedGsnr(seq, slot) ELSE Gsnr(seq, slot, comb)

\* The design margin forgotten: a mode at the edge of a composed value.
ModesAtTheEdge(gsnr) == {m \in Modes : RequiredGsnr[m] <= gsnr}         \* mutant

FeasibleModes(gsnr) == {m \in Modes : RequiredGsnr[m] + DesignMargin <= gsnr}

BestFeasibleMode(gsnr) ==
  LET feasible == FeasibleModes(gsnr)
  IN  IF feasible = {} THEN NoMode
      ELSE CHOOSE m \in feasible : \A n \in feasible : Bitrate[n] <= Bitrate[m]

\* What a probe of the route adds to the table; nothing when it is composed.
Calibrated(table, seq, comb) ==
  IF comb = Slots THEN table \cup BothWays(seq) ELSE table
===============================================================================
