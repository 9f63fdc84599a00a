---------------------------- MODULE MCTaskListing ----------------------------
EXTENDS TaskListing

\* Both sides of the accepted range, and its ends.
MCLimits == {-1, 0, 1, 3, 4}
=============================================================================
