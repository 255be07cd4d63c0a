--------------------------- MODULE MCTableManager ---------------------------
EXTENDS TableManager, TLC

CONSTANTS n1, n2, t1

MCNodes == {n1, n2}
MCNodesOne == {n1}
MCNames == {t1}
AllOperations == {"create", "delete", "restore", "put"}
RestorePut == {"restore", "put"}
CreateDelete == {"create", "delete"}
NodeSymmetry == Permutations(MCNodes)
====
