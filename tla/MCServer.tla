------------------------------ MODULE MCServer ------------------------------
(* Two configurations, and two runners that may be at work at once.         *)
EXTENDS Server

CONSTANTS c1, c2

MCConfigs == <<c1, c2>>
=============================================================================
