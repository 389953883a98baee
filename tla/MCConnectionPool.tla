-------------------------- MODULE MCConnectionPool --------------------------
\* Instances of ConnectionPool for TLC.
EXTENDS ConnectionPool, TLC

\* Connections are interchangeable, and so are threads.
Symmetry == Permutations(Conns) \cup Permutations(Threads)
=============================================================================
