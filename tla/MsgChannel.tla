----------------------------- MODULE MsgChannel -----------------------------
(***************************************************************************)
(* What a connection of communication/osa_communication.c promises those   *)
(* who send messages on it: as long as it is clean and open, every message *)
(* comes out at the other end whole, once and in order.  A connection that *)
(* has been spoiled promises nothing more; a new one starts clean.         *)
(***************************************************************************)
EXTENDS Integers, Sequences

CONSTANTS Conns, Msgs, Garbled

VARIABLES
    sent,       \* for each connection, the messages begun on it, in order
    handed,     \* what its reader has handed to the callback, in order
    clean,      \* whether no message on it has been cut or mixed with another
    closed      \* whether the reader has given the connection up

channelVars == <<sent, handed, clean, closed>>

ChannelInit ==
    /\ sent = [c \in Conns |-> << >>]
    /\ handed = [c \in Conns |-> << >>]
    /\ clean = [c \in Conns |-> TRUE]
    /\ closed = [c \in Conns |-> FALSE]

Isolated(m) == \A c \in Conns : \A i \in DOMAIN sent[c] : sent[c][i] # m

\* A sender may begin a message amid another.
Send(c, m) ==
    /\ Isolated(m)
    /\ sent' = [sent EXCEPT ![c] = Append(@, m)]
    /\ clean' \in {clean, [clean EXCEPT ![c] = FALSE]}
    /\ UNCHANGED <<handed, closed>>

Hand(c) ==
    /\ clean[c] /\ ~closed[c]
    /\ Len(handed[c]) < Len(sent[c])
    /\ handed' = [handed EXCEPT ![c] = Append(@, sent[c][Len(@) + 1])]
    /\ UNCHANGED <<sent, clean, closed>>

\* A message may stray from one connection to another and spoil both.
Spoil(C) ==
    /\ clean' = [c \in Conns |-> clean[c] /\ c \notin C]
    /\ UNCHANGED <<sent, handed, closed>>

HandAny(c) ==
    /\ ~clean[c] /\ ~closed[c]
    /\ \E m \in Msgs \cup {Garbled} : handed' = [handed EXCEPT ![c] = Append(@, m)]
    /\ UNCHANGED <<sent, clean, closed>>

Close(c) ==
    /\ closed' = [closed EXCEPT ![c] = TRUE]
    /\ UNCHANGED <<sent, handed, clean>>

ChannelNext ==
    \/ \E C \in SUBSET Conns : Spoil(C)
    \/ \E c \in Conns :
          (\E m \in Msgs : Send(c, m)) \/ Hand(c) \/ HandAny(c) \/ Close(c)

\* What has been begun arrives, unless it is spoiled or the connection closed.
ChannelSpec ==
    /\ ChannelInit /\ [][ChannelNext]_channelVars
    /\ \A c \in Conns : WF_channelVars(Hand(c))
=============================================================================
