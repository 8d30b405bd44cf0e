---------------------------- MODULE MCMembership ----------------------------
EXTENDS DcsMembership
=============================================================================
