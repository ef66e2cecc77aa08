-------------------------- MODULE MCEvidenceStore --------------------------
(***************************************************************************)
(* Instances of the evidence store for TLC.  A line is 2 or 3 bytes and a  *)
(* segment is full beyond 4, so the second line of a segment fills it and  *)
(* three to five entries rotate once or twice; the cut of a 3-byte line    *)
(* leaves either unreadable text or JSON without its newline.              *)
(***************************************************************************)
EXTENDS EvidenceStore

=============================================================================
