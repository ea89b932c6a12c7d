------------------------------ MODULE MCCache ------------------------------
(* The instances of Cache that TLC checks. *)
EXTENDS Cache

TwoRuns   == {"cli", "driver"}
AllBodies == {"page", "apiError", "garbled"}
LongPage  == {"page"}
============================================================================
