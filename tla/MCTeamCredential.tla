-------------------------- MODULE MCTeamCredential --------------------------
\* TLC instance of TeamCredential: one client of a role, each of which may run
\* again and again.
EXTENDS TeamCredential
=============================================================================
