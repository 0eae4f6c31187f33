----------------------------- MODULE MCMembership -----------------------------
EXTENDS Membership
CONSTANTS p1, p2
=============================================================================
