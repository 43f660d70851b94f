------------------------------- MODULE Spectrum -------------------------------
(***************************************************************************)
(* Spectrum occupancy (model/spectrum.py) and the wavelength layers of the *)
(* layered graph (multilayer_graph.maximal_slot_classes).                  *)
(*                                                                         *)
(* The code keeps one bit vector per section and works on it with bitwise  *)
(* arithmetic; here a state is a function from sections to sets of slots.  *)
(* A section the dictionary does not hold has no lit slot.                 *)
(***************************************************************************)
EXTENDS NetworkState, FiniteSetsExt

SpectrumState == [OMS -> SUBSET Slots]

NoSlot == -1                       \* first_fit_slot returned None

AllDark == [o \in OMS |-> {}]

\* Every lit carrier on every section it crosses; raises when HasOffGrid(m).
BuildSpectrumState(m) ==
  [o \in OMS |-> {m.lightpaths[id].slot : id \in {id \in Lit(m) : o \in OmsOf(m, id)}}]

OccupiedAlong(state, seq) == UNION {state[o] : o \in OMS \cap Range(seq)}

\* Continuity: a slot is free along a path when it is free on every section.
FreeSlotsAlong(state, seq) == Slots \ OccupiedAlong(state, seq)

LowestSlot(free) == IF free = {} THEN NoSlot ELSE Min(free)

\* Fits the first section and hopes for the others.
FirstFitOnEntry(state, seq) == LowestSlot(Slots \ state[seq[1]])     \* mutant

FirstFitSlot(state, seq) == LowestSlot(FreeSlotsAlong(state, seq))

Reserve(state, seq, slot) ==
  [o \in OMS |-> IF o \in Range(seq) THEN state[o] \cup {slot} ELSE state[o]]

\* extra_state: reservations made earlier in an unfinished solver run.
Merged(state, extra) == [o \in OMS |-> state[o] \cup extra[o]]

\* check_spectrum_feasibility: the sections that already light the slot.
SpectrumClashes(state, seq, slot) == {o \in Range(seq) : slot \in state[o]}

-------------------------------------------------------------------------------
(* Wavelength layers.  A slot is worth to a search what its signature is:  *)
(* the allowed sections on which it is free.                               *)

Signature(state, allowed, slot) == {o \in allowed : slot \notin state[o]}

Signatures(state, allowed) == {Signature(state, allowed, s) : s \in Slots} \ {{}}

\* A layer for each signature no other one strictly contains.
MaximalSlotClasses(state, allowed) ==
  LET sigs == Signatures(state, allowed)
  IN  {s \in sigs : ~ \E t \in sigs : s \subseteq t /\ s # t}
===============================================================================
