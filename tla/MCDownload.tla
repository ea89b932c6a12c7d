----------------------------- MODULE MCDownload -----------------------------
(* The instances of Download that TLC checks. *)
EXTENDS Download

AllCommands  == {"tables", "download", "export"}
OnlyDownload == {"download"}
=============================================================================
