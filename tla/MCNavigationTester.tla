------------------------- MODULE MCNavigationTester -------------------------
\* NavigationTester for TLC: an empty drawing, and routes of one and two poses,
\* with and without a marker that is not a pose.
EXTENDS NavigationTester

CONSTANTS p1, p2

SomeDrawings == {<<>>, <<p1>>, <<p2, p1>>, <<p1, Arrow, p2>>}
=============================================================================
