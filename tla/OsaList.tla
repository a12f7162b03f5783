------------------------------ MODULE OsaList ------------------------------
(***************************************************************************)
(* The linked list of osa_list.c, down to its nodes: a call that follows a *)
(* pointer to a node that has been freed, or a null one, does something    *)
(* undefined.  Each call is one step: users that share a list make it      *)
(* under a lock, their own (osa_communication.c) or that of the            *)
(* list_lockAnd calls.                                                     *)
(***************************************************************************)
EXTENDS Integers, Sequences, FiniteSets

CONSTANTS
    Nodes,      \* the addresses malloc can return
    Data,       \* what callers put in
    Null, NoData,
    MaxSize     \* bound: what a list_push_back without memory may count

ASSUME ListAssumption == IsFiniteSet(Nodes) /\ Null \notin Nodes /\ NoData \notin Data /\ MaxSize \in Nat

VARIABLES
    head, nSize,    \* of the head node
    live,           \* the nodes that are allocated
    node,           \* pData and next of each, kept when it is freed
    broken,         \* a call has done something undefined
    last,           \* the last call: its name, and its argument or result
    spoiled         \* history: a call has left the list in disorder

listVars == <<head, nSize, live, node, broken, last, spoiled>>

Empty == [pData |-> NoData, next |-> Null]

\* list_create and list_lockAndCreate
ListInit ==
    /\ head = Null /\ nSize = 0
    /\ live = {}
    /\ node = [n \in Nodes |-> Empty]
    /\ broken = FALSE
    /\ last = <<"create">>
    /\ spoiled = FALSE

-----------------------------------------------------------------------------
(* Following the pointers *)

\* The node i links after the first one.
At[i \in 0 .. Cardinality(Nodes)] ==
    IF i = 0 THEN head
    ELSE IF At[i - 1] = Null THEN Null ELSE node[At[i - 1]].next

\* The first i nodes may be read.
Readable(i) == \A j \in 0 .. i - 1 : At[j] \in live

\* The list ends in order after i nodes.
Ends(i) == Readable(i) /\ At[i] = Null

Lengths == {i \in 0 .. Cardinality(Nodes) : Ends(i)}

Terminates == Lengths # {}

Length == CHOOSE i \in Lengths : TRUE

\* The call runs into a node that is gone.  What it does then is not modelled.
Breaks ==
    /\ broken' = TRUE
    /\ UNCHANGED <<head, nSize, live, node, last, spoiled>>

\* The node before the (i + 1)st, or the head, is made to point to n.
Link(i, n) ==
    IF i = 0 THEN head' = n /\ UNCHANGED node
    ELSE node' = [node EXCEPT ![At[i - 1]].next = n] /\ UNCHANGED head

Return(r) == last' = r /\ UNCHANGED <<broken, spoiled>>

-----------------------------------------------------------------------------
(* list_push_front and, on an empty list, list_push_back *)

Nothing(op) == Return(<<op>>) /\ UNCHANGED <<head, nSize, live, node>>

AtFront(op, v) ==
    \/ Nothing(op)
    \/ \E n \in Nodes \ live :
          /\ live' = live \cup {n}
          /\ node' = [node EXCEPT ![n] = [pData |-> v, next |-> head]]
          /\ head' = n
          /\ nSize' = nSize + 1
          /\ Return(<<op, v>>)

PushFront(v) == ~broken /\ AtFront("push_front", v)

\* Mutant: the new node goes behind the first.
PushBackSecond(v) ==
    /\ ~broken
    /\ IF nSize = 0 THEN AtFront("push_back", v)
       ELSE \E n \in Nodes \ live :
               /\ nSize' = nSize + 1
               /\ live' = live \cup {n}
               /\ node' = [node EXCEPT ![head].next = n,
                                       ![n] = [pData |-> v, next |-> node[head].next]]
               /\ Return(<<"push_back", v>>)
               /\ UNCHANGED head

\* nSize is raised before there is a node.
PushBack(v) ==
    /\ ~broken
    /\ IF nSize = 0 THEN AtFront("push_back", v)
       ELSE IF head = Null \/ ~Terminates THEN Breaks
       ELSE /\ nSize' = nSize + 1
            /\ \/ /\ nSize < MaxSize
                  /\ spoiled' = TRUE /\ last' = <<"push_back">>
                  /\ UNCHANGED <<head, live, node, broken>>
               \/ \E n \in Nodes \ live :
                     /\ live' = live \cup {n}
                     /\ node' = [node EXCEPT ![At[Length - 1]].next = n,
                                             ![n] = [pData |-> v, next |-> Null]]
                     /\ Return(<<"push_back", v>>)
                     /\ UNCHANGED head

\* Mutant: the size is left as it is.
PopFrontUncounted ==
    /\ ~broken
    /\ IF nSize = 0 THEN Nothing("pop_front")
       ELSE IF head \notin live THEN Breaks
       ELSE /\ head' = node[head].next
            /\ live' = live \ {head}
            /\ Return(<<"pop_front", node[head].pData>>)
            /\ UNCHANGED <<nSize, node>>

PopFront ==
    /\ ~broken
    /\ IF nSize = 0 THEN Nothing("pop_front")
       ELSE IF head \notin live THEN Breaks
       ELSE /\ head' = node[head].next
            /\ live' = live \ {head}
            /\ nSize' = nSize - 1
            /\ Return(<<"pop_front", node[head].pData>>)
            /\ UNCHANGED node

\* The last node goes, and the pointer to it stays.
PopBack ==
    /\ ~broken
    /\ IF nSize = 0 THEN Nothing("pop_back")
       ELSE IF head = Null \/ ~Terminates THEN Breaks
       ELSE /\ live' = live \ {At[Length - 1]}
            /\ nSize' = nSize - 1
            /\ last' = <<"pop_back", node[At[Length - 1]].pData>>
            /\ spoiled' = TRUE
            /\ UNCHANGED <<head, node, broken>>

-----------------------------------------------------------------------------
\* The number of nodes before the first that holds v, if there is one that can be
\* reached.
Before(v) == {i \in 0 .. Cardinality(Nodes) - 1 :
                /\ Readable(i + 1)
                /\ node[At[i]].pData = v
                /\ \A j \in 0 .. i - 1 : node[At[j]].pData # v}

Missing(v) == Return(<<"earse_data", v>>) /\ UNCHANGED <<head, nSize, live, node>>

\* list_earse_data
EraseData(v) ==
    /\ ~broken
    /\ IF Before(v) = {} THEN IF Terminates THEN Missing(v) ELSE Breaks
       ELSE LET i == CHOOSE j \in Before(v) : TRUE
            IN  /\ Link(i, At[i + 1])
                /\ live' = live \ {At[i]}
                /\ nSize' = nSize - 1
                /\ Return(<<"earse_data", v>>)

\* list_clear; list_destory with a list_create after it comes to the same.
Clear ==
    /\ ~broken
    /\ IF ~Terminates THEN Breaks
       ELSE /\ live' = live \ {At[i] : i \in 0 .. Length - 1}
            /\ head' = Null /\ nSize' = 0
            /\ last' = <<"clear">> /\ spoiled' = FALSE
            /\ UNCHANGED <<node, broken>>

\* list_size
Size == ~broken /\ Return(<<"size", nSize>>) /\ UNCHANGED <<head, nSize, live, node>>

Walked == [i \in 1 .. Length |-> node[At[i - 1]].pData]

\* list_begin, list_next, list_end
Walk ==
    /\ ~broken
    /\ IF ~Terminates THEN Breaks
       ELSE Return(<<"walk", Walked>>) /\ UNCHANGED <<head, nSize, live, node>>

ListNext ==
    \/ \E v \in Data : PushFront(v) \/ PushBack(v) \/ EraseData(v)
    \/ PopFront \/ PopBack \/ Clear \/ Size \/ Walk

ListSpec == ListInit /\ [][ListNext]_listVars

-----------------------------------------------------------------------------
ListTypeOK ==
    /\ head \in Nodes \cup {Null} /\ nSize \in Int
    /\ live \subseteq Nodes
    /\ node \in [Nodes -> [pData : Data \cup {NoData}, next : Nodes \cup {Null}]]
    /\ {broken, spoiled} \subseteq BOOLEAN

\* Unless list_pop_back has freed a node or list_push_back has found no memory, the
\* list is a chain of as many allocated nodes as nSize says that ends, there is no
\* other allocated node, and no call has touched one that is gone
\* (osa_list.c:63-141, 176-214).
ListShape ==
    /\ ListTypeOK
    /\ ~spoiled => /\ ~broken
                   /\ Ends(nSize)
                   /\ live = {At[i] : i \in 0 .. nSize - 1}
                   /\ Cardinality(live) = nSize

Sequence == INSTANCE DataList WITH items <- IF spoiled THEN << >> ELSE Walked

\* The chain behaves as the sequence of its data, for the calls' results too
\* (osa_list.c:63-238).
ListIsSequence == Sequence!ListSpec
=============================================================================
