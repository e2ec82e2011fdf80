------------------------------ MODULE BytePipe ------------------------------
(***************************************************************************)
(* What the write buffer of the socket loop promises: a connection at a    *)
(* time, and on it a pipe.  What is put in comes out in the same order,    *)
(* none twice and none left out; when the connection breaks, what is still *)
(* inside is gone, and the next connection starts empty.                   *)
(***************************************************************************)
EXTENDS Integers, Sequences

VARIABLES state, inside, out

vars == <<state, inside, out>>

Open ==
    /\ state # "open"
    /\ state' = "open" /\ inside' = <<>> /\ out' = <<>>

Put ==
    /\ state = "open"
    /\ Len(inside') > Len(inside) /\ SubSeq(inside', 1, Len(inside)) = inside
    /\ UNCHANGED <<state, out>>

Take ==
    /\ state = "open"
    /\ \E n \in 1 .. Len(inside) :
         /\ out' = out \o SubSeq(inside, 1, n)
         /\ inside' = SubSeq(inside, n + 1, Len(inside))
    /\ UNCHANGED state

Break ==
    /\ state = "open"
    /\ state' = "broken" /\ inside' = <<>>
    /\ UNCHANGED out

\* An orderly end: nothing is left inside.
Close ==
    /\ state = "open" /\ inside = <<>>
    /\ state' = "closed"
    /\ UNCHANGED <<inside, out>>

Init == state = "closed" /\ inside = <<>> /\ out = <<>>

Next == Open \/ Put \/ Take \/ Break \/ Close

Spec == Init /\ [][Next]_vars

=============================================================================
