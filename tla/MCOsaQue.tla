----------------------------- MODULE MCOsaQue -----------------------------
\* Instances of OsaQue for TLC.
EXTENDS OsaQue

CONSTANT t3

\* Two threads move items, with every timeout; the third makes every call.
MoveCalls == {c \in PutCalls \cup GetCalls : c.op = "get" => c.keep}
Callers == [t \in Threads |-> IF t = t3 THEN Calls ELSE MoveCalls]
=============================================================================
