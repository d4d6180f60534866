--------------------------- MODULE MCConfigPortal ---------------------------
(* Instances of ConfigPortal for TLC. *)
EXTENDS ConfigPortal

Config(portalTimeout, connectTimeout, break, quality, removeDuplicates) ==
  [portalTimeout |-> portalTimeout, connectTimeout |-> connectTimeout,
   breakAfterConfig |-> break, minimumQuality |-> quality,
   removeDuplicates |-> removeDuplicates]

\* As the sketches and the examples use the library: nothing set; a timeout for
\* the portal; both, and setBreakAfterConfig too.
MCConfigs == {Config(0, 0, FALSE, -1, TRUE), Config(3, 0, FALSE, -1, FALSE),
              Config(3, 1, TRUE, 8, TRUE)}

Entry(ssid, rssi) == [ssid |-> ssid, rssi |-> rssi]

\* Two names, one of them heard twice, once too weakly; in every order.
Heard == {Entry("a", -97), Entry("a", -60), Entry("b", -70)}
MCScanLists == {s \in [1..3 -> Heard] : \A e \in Heard : \E i \in 1..3 : s[i] = e}
                 \cup {<<Entry("a", -97), Entry("b", -70)>>}
=============================================================================
