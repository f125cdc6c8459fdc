---------------------------- MODULE MCDriveSync ----------------------------
(* A folder with a credit note, a zip of two invoices and an invoice that   *)
(* is in the zip as well, for TLC.                                          *)
EXTENDS DriveSync, TLC

CONSTANTS note, zip, inv

MCInside == (note :> {"dn"}) @@ (zip :> {"da", "db"}) @@ (inv :> {"di"})
MCIdentity == [dn |-> "kn", da |-> "ka", db |-> "kb", di |-> "ka"]
MCRank == (zip :> 1) @@ (note :> 2) @@ (inv :> 3)
=============================================================================
