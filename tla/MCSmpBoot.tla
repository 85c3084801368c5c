----------------------------- MODULE MCSmpBoot ------------------------------
EXTENDS SmpBoot
=============================================================================
