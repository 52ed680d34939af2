-------------------------------- MODULE MCPages --------------------------------
EXTENDS Pages, TLC

\* Two conversations of the tenant of the one user.
MCRecordsOf == "alice" :> {1, 2}

=============================================================================
