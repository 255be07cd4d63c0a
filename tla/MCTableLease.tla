---------------------------- MODULE MCTableLease ----------------------------
EXTENDS TableLease, TLC

CONSTANTS n1, n2

MCNodes == {n1, n2}

NodeSymmetry == Permutations(MCNodes)

====
