------------------------- MODULE MC_TideIdpCreation -------------------------
\* Model-checking instance of TideIdpCreation; the constants are set in the
\* .cfg files.
EXTENDS TideIdpCreation
====
