---------------------------- MODULE MCHTTPClient ----------------------------
(* The instances of HTTPClient that TLC checks. *)
EXTENDS HTTPClient

CONSTANTS c1, c2
TwoCallers == {c1, c2}
LongWait   == {0, 5}
=============================================================================
