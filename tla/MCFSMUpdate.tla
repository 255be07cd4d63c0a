---------------------------- MODULE MCFSMUpdate ----------------------------
EXTENDS FSMUpdate

MCKeys == {1, 2}
====
