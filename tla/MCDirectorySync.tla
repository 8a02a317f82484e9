-------------------------- MODULE MCDirectorySync --------------------------
EXTENDS DirectorySync
CONSTANTS p1, p2, e1, e2, t1, s1, s2
=============================================================================
