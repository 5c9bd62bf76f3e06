--------------------------- MODULE MCInstanceLock ---------------------------
\* Three processes: one that left its socket behind, and two that find it.  Two
\* are of one user, the third is of another.
EXTENDS InstanceLock, TLC

CONSTANTS p1, p2, p3

MCProcess == {p1, p2, p3}
MCAccess == {p1, p2} \X {p1, p2} \cup {<<p3, p3>>}
MCSymmetry == Permutations({p1, p2})
=============================================================================
