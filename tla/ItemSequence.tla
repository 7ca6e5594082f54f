---------------------------- MODULE ItemSequence -----------------------------
(***************************************************************************)
(* What the users of a steque_t rely on: a sequence of items, a result for *)
(* each call, and an exit when there is no item to return.                 *)
(***************************************************************************)
EXTENDS Sequences

CONSTANTS Item, NoResult

VARIABLES
    items,      \* the items, front first
    result,     \* what the last call returned
    exited      \* the process called exit

vars == <<items, result, exited>>

Init == items = <<>> /\ result = NoResult /\ exited = FALSE

Void == result' = NoResult /\ UNCHANGED exited

Enqueue(i) == items' = Append(items, i) /\ Void
Push(i)    == items' = <<i>> \o items /\ Void

Cycle ==
    /\ items' = IF items = <<>> THEN <<>> ELSE Append(Tail(items), Head(items))
    /\ Void

Destroy == items' = <<>> /\ Void

Pop ==
    /\ items # <<>>
    /\ result' = [item |-> Head(items)]
    /\ items' = Tail(items)
    /\ UNCHANGED exited

Front ==
    /\ items # <<>>
    /\ result' = [item |-> Head(items)]
    /\ UNCHANGED <<items, exited>>

Size    == result' = [size |-> Len(items)] /\ UNCHANGED <<items, exited>>
IsEmpty == result' = [isempty |-> items = <<>>] /\ UNCHANGED <<items, exited>>

Underflow ==
    /\ items = <<>>
    /\ exited' = TRUE
    /\ UNCHANGED <<items, result>>

Next ==
    /\ ~exited
    /\ \/ \E i \in Item : Enqueue(i) \/ Push(i)
       \/ Cycle \/ Destroy \/ Pop \/ Front \/ Size \/ IsEmpty \/ Underflow

Spec == Init /\ [][Next]_vars
=============================================================================
