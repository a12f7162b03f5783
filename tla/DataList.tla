------------------------------ MODULE DataList ------------------------------
(***************************************************************************)
(* What osa_list.c promises: a sequence of the callers' data, and to each  *)
(* call the result that the sequence gives.  A list that has been spoiled  *)
(* promises nothing more until it is cleared.                              *)
(***************************************************************************)
EXTENDS SequencesExt

CONSTANT Data

VARIABLES
    items,
    last,       \* the last call: its name, and its argument or result
    spoiled

listVars == <<items, last, spoiled>>

ListInit == items = << >> /\ last = <<"create">> /\ spoiled = FALSE

PushFront(v) == last' = <<"push_front", v>> /\ items' = <<v>> \o items

PushBack(v) == last' = <<"push_back", v>> /\ items' = Append(items, v)

PopFront ==
    IF items = << >> THEN last' = <<"pop_front">> /\ UNCHANGED items
    ELSE last' = <<"pop_front", Head(items)>> /\ items' = Tail(items)

Erase(v) == last' = <<"earse_data", v>> /\ items' = RemoveFirst(items, v)

Size == last' = <<"size", Len(items)>> /\ UNCHANGED items

Walk == last' = <<"walk", items>> /\ UNCHANGED items

\* There is no memory, or there is nothing at the end.
Nothing == last' \in {<<"push_front">>, <<"push_back">>, <<"pop_back">>} /\ UNCHANGED items

Sound ==
    \/ \E v \in Data : PushFront(v) \/ PushBack(v) \/ Erase(v)
    \/ PopFront \/ Size \/ Walk \/ Nothing

\* A list that has been spoiled may be cleared and starts again.
Clear == last' = <<"clear">> /\ items' = << >> /\ ~spoiled'

ListNext ==
    \/ ~spoiled /\ Sound /\ UNCHANGED spoiled
    \/ Clear
    \/ spoiled'

ListSpec == ListInit /\ [][ListNext]_listVars
=============================================================================
