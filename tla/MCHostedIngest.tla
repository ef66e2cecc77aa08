--------------------------- MODULE MCHostedIngest ---------------------------
(***************************************************************************)
(* Instances of the hosted ingest service: two or three requests, of which  *)
(* some are retries with the same key, and a pool of two connections.       *)
(***************************************************************************)
EXTENDS HostedIngest

=============================================================================
