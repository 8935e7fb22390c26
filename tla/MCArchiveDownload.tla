------------------------- MODULE MCArchiveDownload -------------------------
(***************************************************************************)
(* Two archives and two versions of an object, of the same length.         *)
(***************************************************************************)
EXTENDS ArchiveDownload

CONSTANTS audio, resources, v1, v2

MCOrder == <<audio, resources>>
MCSize == [v \in Versions |-> 2]
=============================================================================
