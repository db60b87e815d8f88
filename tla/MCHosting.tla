----------------------------- MODULE MCHosting -----------------------------
EXTENDS Hosting, TLC
CONSTANTS s1, s2, s3, s4, etl, report, gone
Classes == s1 :> etl @@ s2 :> report @@ s3 :> etl @@ s4 :> gone
=============================================================================
