---------------------------- MODULE MCLogReader ----------------------------
EXTENDS LogReader, TLC

CONSTANTS q1, q2

MCQueries == {q1, q2}
MCQueriesOne == {q1}

Symmetry == Permutations(MCQueries)

\* States that differ only in the entries of a garbage shard object (neither
\* stored nor held by a query) behave alike: the view forgets them.
LiveCaches == [o \in ObjIds |-> IF o \in FreeObjs THEN <<>> ELSE caches[o]]

View == <<Cached, log, logFirst, nodeUp, restarts, events, shardCache, LiveCaches,
          qpc, qreq, qobj, resp>>
====
