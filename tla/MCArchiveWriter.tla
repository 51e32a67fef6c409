-------------------------- MODULE MCArchiveWriter --------------------------
(* ArchiveWriter on two or three entries, files of up to three units.      *)
EXTENDS ArchiveWriter
=============================================================================
