-------------------------- MODULE MCMacUeCreation --------------------------
(* Three UE creations over two cells.  Two UEs of different cells share a  *)
(* C-RNTI (C-RNTIs are allocated per cell), and two UEs share a cell, so   *)
(* their DL steps queue on the same DL executor.                           *)
EXTENDS MacUeCreation

CONSTANTS p1, p2, p3, c1, c2

MCProcs == {p1, p2, p3}
MCCells == {c1, c2}
MCReqUe == [p \in MCProcs |-> CASE p = p1 -> 0 [] p = p2 -> 1 [] p = p3 -> 2]
MCReqCrnti == [p \in MCProcs |-> IF p = p3 THEN 17 ELSE 16]
MCReqCell == [p \in MCProcs |-> IF p = p2 THEN c2 ELSE c1]
MCReqBearers == [p \in MCProcs |-> IF p = p1 THEN {1, 2} ELSE {1}]
=============================================================================
