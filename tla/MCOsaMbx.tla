---- MODULE MCOsaMbx ----
EXTENDS OsaMbx

CONSTANTS t1, t2, t3

\* One sends to two; one to one to one; and two that send to each other.
Star  == {<<t1, t2>>, <<t1, t3>>}
Chain == {<<t1, t2>>, <<t2, t3>>}
Cycle == {<<t1, t2>>, <<t2, t3>>, <<t3, t2>>}

Mixed == {Star, Chain, Cycle}
====
