---------------------------- MODULE MCBootstrap ----------------------------
EXTENDS Bootstrap

CONSTANTS k1, k2, v1

MCKeys == {k1, k2}
MCValues == {v1}
====
