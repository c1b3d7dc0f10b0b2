-------------------------- MODULE MCMetadataCache --------------------------
(***************************************************************************)
(* Instances of MetadataCache for TLC.                                     *)
(***************************************************************************)
EXTENDS MetadataCacheProperties

FreshBootOrLongUp == {0, 2}
=============================================================================
