------------------------------ MODULE MCUsage -------------------------------
EXTENDS Usage
=============================================================================
