--------------------------- MODULE MCNssmService ---------------------------
(***************************************************************************)
(* Instances of NssmService for TLC.                                       *)
(***************************************************************************)
EXTENDS NssmService

CONSTANTS s1, s2

BothStops == {s1, s2}

Configuration(action, default, delay, terminate, failure, controls, n) ==
  [action |-> action, default |-> default, delay |-> delay,
   terminate |-> terminate, failure |-> failure, stops |-> controls,
   continues |-> n]

\* With one STOP: the defaults with each failure, with a CONTINUE and without,
\* and each setting. With two: the defaults.
EachSetting ==
  {Configuration("restart", TRUE, FALSE, TRUE, f, {s1}, 0) : f \in Failures} \cup
  {Configuration("restart", TRUE,  FALSE, TRUE,  "none", {s1},     1),
   Configuration("restart", TRUE,  TRUE,  TRUE,  "none", {s1},     1),
   Configuration("restart", TRUE,  FALSE, FALSE, "none", {s1},     0),
   Configuration("ignore",  FALSE, FALSE, TRUE,  "none", {s1},     0),
   Configuration("exit",    FALSE, FALSE, TRUE,  "none", {s1},     0),
   Configuration("suicide", TRUE,  FALSE, TRUE,  "none", {s1},     0),
   Configuration("suicide", FALSE, FALSE, TRUE,  "none", {s1},     0),
   Configuration("restart", TRUE,  FALSE, TRUE,  "none", {s1, s2}, 0)}

=============================================================================
