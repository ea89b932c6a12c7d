---------------------------- MODULE MCReadPages ----------------------------
(* The instances of ReadPages that TLC checks. *)
EXTENDS ReadPages

\* Three pages; a stream may be empty, hold only unwanted pages, or end in one.
MCPage   == {1, 2, 3}
MCWanted == {1, 2}
MCPages == << <<2, 1>>, <<>>, <<3>>, <<>>, <<>>, <<1>> >>
============================================================================
