----------------------------- MODULE MCOsaWire -----------------------------
\* An instance of OsaWire for TLC.
EXTENDS OsaWire
=============================================================================
