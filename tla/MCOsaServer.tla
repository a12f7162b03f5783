---------------------------- MODULE MCOsaServer ----------------------------
\* Instances of OsaServer for TLC.
EXTENDS OsaServer

Scenario(type, buf_num, max_client, peers, frames) ==
    [server_type |-> type, buf_num |-> buf_num, max_client |-> max_client,
     peers |-> peers, frames |-> frames]

\* A stream server to which two clients connect, one whose one client's two
\* buffers are used again, and a message server of two clients.
Mixed == {Scenario("STREAM_TYPE", 1, 2, 2, 1),
          Scenario("STREAM_TYPE", 2, 1, 1, 3),
          Scenario("MSG_TYPE", 1, 2, 2, 0)}

\* A stream server of one client with one buffer.
OneBuffer == {Scenario("STREAM_TYPE", 1, 1, 1, 2)}
=============================================================================
