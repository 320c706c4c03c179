-------------------------- MODULE MCParallelDownload --------------------------
(* ParallelDownload with the bounds its configurations give. *)
EXTENDS ParallelDownload
=============================================================================
