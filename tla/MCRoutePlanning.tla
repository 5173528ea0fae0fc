--------------------------- MODULE MCRoutePlanning ---------------------------
EXTENDS RoutePlanning

CONSTANTS p1, p2, p3

\* Three passengers for two vehicles of one seat: one is left over.
MCRoster == <<p1, p2, p3>>

\* A person plans the first route for the first two passengers.
MCBoards == {{p1, p2}}
=============================================================================
