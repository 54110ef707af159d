------------------------------ MODULE AreaLookup ------------------------------
(***************************************************************************)
(* The room an entity counts for (helpers.py, effective_area_id): its own, *)
(* or the one its device has or inherits. The device registry is edited by *)
(* others, so parents may be missing and may form a circle.                *)
(***************************************************************************)
EXTENDS Naturals, Sequences, FiniteSets

LOCAL INSTANCE SequencesExt

CONSTANTS Areas, Devices

None == "none"

ASSUME AreaAssumption == None \notin Areas \cup Devices

\* A device's own area and its parent.
Device == [area : Areas \cup {None}, parent : Devices \cup {None}]

\* The loop stops at a circle before it looks at the device it is at.
DeviceAreaOwnLast_Mutant(devices, device) ==
  LET walk[d \in Devices \cup {None}, seen \in SUBSET Devices] ==
        IF d = None THEN None
        ELSE IF devices[d].parent \in seen \cup {None} THEN devices[d].area
        ELSE walk[devices[d].parent, seen \cup {d}]
  IN  walk[device, {}]

\* The walk from a device up its parents, which stops at the first area, at
\* a device without a parent, and at one it has already seen.
DeviceArea(devices, device) ==
  LET walk[d \in Devices \cup {None}, seen \in SUBSET Devices] ==
        IF d = None \/ d \in seen THEN None
        ELSE IF devices[d].area # None THEN devices[d].area
        ELSE walk[devices[d].parent, seen \cup {d}]
  IN  walk[device, {}]

EffectiveArea(devices, entry) ==
  IF entry.area # None THEN entry.area ELSE DeviceArea(devices, entry.device)

-----------------------------------------------------------------------------
(* What it promises *)

\* The ways up from a device, without a repetition.
Ancestry(devices, device) ==
  {p \in BoundedSeq(Devices, Cardinality(Devices)) :
     /\ p # <<>> /\ p[1] = device /\ IsInjective(p)
     /\ \A n \in 1 .. Len(p) - 1 : devices[p[n]].parent = p[n + 1]}

\* The areas that a device is nearest to: at most one.
NearestAreas(devices, device) ==
  {devices[Last(p)].area :
     p \in {q \in Ancestry(devices, device) :
              /\ devices[Last(q)].area # None
              /\ \A d \in Range(Front(q)) : devices[d].area = None}}

\* The walk finds the area nearest to the device, and none only if no
\* ancestor has one, in a circle of parents as well.
NearestIn(devices) ==
  \A d \in Devices :
    LET found == DeviceArea(devices, d)
    IN  NearestAreas(devices, d) = IF found = None THEN {} ELSE {found}
=============================================================================
