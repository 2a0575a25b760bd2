--------------------------- MODULE MCSnapshotLogs ---------------------------
(* Three calls: h1 and h2 ask for the logs of backup b1 in the same second *)
(* and compute the same request name; h3 asks for b2.                      *)
EXTENDS SnapshotLogs

CONSTANTS h1, h2, h3, b1, b2, n1, n2

MCNameOf(h) == IF h = h3 THEN n2 ELSE n1
MCBackupOf(h) == IF h = h3 THEN b2 ELSE b1
=============================================================================
