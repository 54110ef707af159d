---------------------------- MODULE MCConfigFlow ----------------------------
(***************************************************************************)
(* A home of two rooms for ConfigFlow: a lamp in the kitchen, a fan whose  *)
(* device is in the kitchen by its parent device, and two Shabbat sensors. *)
(***************************************************************************)
EXTENDS ConfigFlow

In(name, area, device) == [name |-> name, area |-> area, device |-> device, enabled |-> TRUE]

House ==
  [entries |-> [lamp |-> In("light.1", "kitchen", None),
                fan |-> In("fan.1", None, "socket"),
                calendar |-> In("binary_sensor.1", None, None),
                holiday |-> In("binary_sensor.2", None, None)],
   devices |-> [hub |-> [area |-> "kitchen", parent |-> None],
                socket |-> [area |-> None, parent |-> "hub"]]]

\* Rules of earlier versions: one without a retry interval and a gate, one
\* that never waits and has never retried; one of this version with a gate;
\* and one with fractions of a second and a gate without a registry entry.
StoredRules ==
  {[area |-> "kitchen", targets |-> {"lamp", "fan"}, delay |-> {2000}, retry |-> {}, gate |-> {}],
   [area |-> "kitchen", targets |-> {"lamp"}, delay |-> {0}, retry |-> {}, gate |-> {}],
   [area |-> "kitchen", targets |-> {"fan"}, delay |-> {2000}, retry |-> {1000}, gate |-> {"calendar"}],
   [area |-> "kitchen", targets |-> {"fan"}, delay |-> {1500}, retry |-> {500}, gate |-> {"binary_sensor.3"}]}
=============================================================================
