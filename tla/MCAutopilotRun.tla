--------------------------- MODULE MCAutopilotRun ---------------------------
\* One instance of AutopilotRun for TLC: the constants are in the .cfg.
EXTENDS AutopilotRun

\* What the tenant's schema held before: prospects of nobody's run.
OlderProspects == {"older"}
=============================================================================
