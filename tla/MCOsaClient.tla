---- MODULE MCOsaClient ----
EXTENDS OsaClient

\* Clients with and without heartbeat, which reconnect or do not.
AllKinds == {"MSG_TYPE", "STREAM_TYPE"} \X {0, 1}
Reconnecting == {<<"MSG_TYPE", 1>>}
====
