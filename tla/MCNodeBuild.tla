----------------------------- MODULE MCNodeBuild -----------------------------
\* Every list of up to two devices with up to two endpoints between them, of all
\* kinds: both in one device, or one in each, or a device without any before or
\* after another.
EXTENDS NodeBuild

CONSTANTS l1, l2

MCLabels == {l1, l2}
LabelSymmetry == Permutations(MCLabels)
=============================================================================
