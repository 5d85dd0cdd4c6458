--------------------------- MODULE MCWifiProfiles ---------------------------
(* Small instance of WifiProfiles for TLC: two identifiers and the empty one,  *)
(* two networks, and lists of at most two profiles.  The pairs contain one     *)
(* network under two identifiers, two networks under one identifier, two       *)
(* networks that swap their identifiers, and disabled profiles.                *)
EXTENDS WifiProfiles

CONSTANTS a, b, empty, home, office

P(id, ssid, enabled) == [id |-> id, ssid |-> ssid, enabled |-> enabled]

MCList == {<<>>}
          \union {<<P(id, ssid, on)>> : id \in {a, b}, ssid \in {home, office}, on \in BOOLEAN}
          \union {<<P(a, s, on), P(b, t, TRUE)>> : s, t \in {home, office}, on \in BOOLEAN}
          \union {<<P(a, home, FALSE), P(a, office, TRUE)>>, <<P(empty, home, TRUE)>>}
==============================================================================
