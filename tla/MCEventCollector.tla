--------------------------- MODULE MCEventCollector ---------------------------
(* An instance of EventCollector for TLC: one receiver changes its port,   *)
(* another comes and goes.                                                 *)
EXTENDS EventCollector

CONSTANTS h1, h2, t1, t2, t3, n1, n2

MCHost == {h1, h2}
MCTarget == {t1, t2, t3}
MCNamespace == {n1, n2}
MCWatched == (t1 :> {n1}) @@ (t2 :> {n1}) @@ (t3 :> {n2})
MCConfigs == {h1 :> t1, h1 :> t2, (h1 :> t1) @@ (h2 :> t3)}
=============================================================================
