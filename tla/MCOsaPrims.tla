----------------------------- MODULE MCOsaPrims -----------------------------
(***************************************************************************)
(* The buffer pool, the list and the pipe share nothing: in each behaviour *)
(* one of them runs and the other two stay as they are.  Of the pipe,      *)
(* either the descriptors move or the bytes do: transfers neither read nor *)
(* change the descriptors.                                                 *)
(***************************************************************************)
EXTENDS OsaBuf, OsaList, OsaPipe

CONSTANTS f1, f2

VARIABLE primitive

primVars == <<primitive, bufVars, listVars, pipeVars>>

Init ==
    /\ primitive \in {"pool", "list", "descriptors", "transfers"}
    /\ BufInit /\ ListInit /\ PipeInit
    /\ primitive # "pool" => bufInfo = [b \in Ids(NumBuf) |-> f1]
    /\ primitive # "descriptors" => fds = Reserved
    /\ primitive # "transfers" => lengths = {2}

Next ==
    /\ \/ primitive = "pool" /\ BufNext  /\ UNCHANGED <<listVars, pipeVars>>
       \/ primitive = "list" /\ ListNext /\ UNCHANGED <<bufVars, pipeVars>>
       \/ primitive = "descriptors" /\ Creating /\ UNCHANGED <<bufVars, listVars>>
       \/ primitive = "transfers" /\ (FirstPipe \/ DeletePipe \/ Transferring)
                                  /\ UNCHANGED <<bufVars, listVars>>
    /\ UNCHANGED primitive

Spec == Init /\ [][Next]_primVars
=============================================================================
