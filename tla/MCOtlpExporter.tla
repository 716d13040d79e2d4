--------------------------- MODULE MCOtlpExporter ---------------------------
(* Small instances of OtlpExporter for TLC: the .cfg files give the calls.  *)
EXTENDS OtlpExporter
=============================================================================
