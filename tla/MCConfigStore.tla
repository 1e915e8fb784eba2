--------------------------- MODULE MCConfigStore ---------------------------
(* Instances of ConfigStore for TLC.                                        *)
EXTENDS ConfigStore, TLC
=============================================================================
