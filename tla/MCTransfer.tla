------------------------------ MODULE MCTransfer ------------------------------
EXTENDS Transfer

CONSTANTS f1, f2, s1, s2

\* Two sessions that send one file each, or one that sends two and repeats one.
BoundsValue ==
    {[sessions |-> {s1, s2}, background |-> {FALSE}, selections |-> {{f1}}, tries |-> 1],
     [sessions |-> {s1}, background |-> BOOLEAN, selections |-> {{f1, f2}}, tries |-> 2]}
=============================================================================
