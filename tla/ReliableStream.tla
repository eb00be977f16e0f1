--------------------------- MODULE ReliableStream ---------------------------
(***************************************************************************)
(* What the link layer promises for one direction of one session: the      *)
(* pieces 1, 2, 3 ... that the sender submits arrive in this order, none   *)
(* twice and none left out, and the sender releases only what has arrived. *)
(***************************************************************************)
EXTENDS Naturals, Sequences

VARIABLES
    submitted,  \* number of pieces the sender's application has handed over
    delivered,  \* the pieces the receiver's application has been given
    released    \* number of pieces the sender takes for delivered

svars == <<submitted, delivered, released>>

Init == submitted = 0 /\ delivered = <<>> /\ released = 0

Submit ==
    /\ submitted' = submitted + 1
    /\ UNCHANGED <<delivered, released>>

\* one piece, or some that were waiting for it
Deliver ==
    /\ \E k \in Len(delivered) + 1 .. submitted :
        delivered' = delivered \o [i \in 1 .. k - Len(delivered) |-> Len(delivered) + i]
    /\ UNCHANGED <<submitted, released>>

Release ==
    /\ \E k \in released + 1 .. Len(delivered) : released' = k
    /\ UNCHANGED <<submitted, delivered>>

Next == Submit \/ Deliver \/ Release

Spec == Init /\ [][Next]_svars

-----------------------------------------------------------------------------

TypeOK == submitted \in Nat /\ delivered \in Seq(Nat) /\ released \in Nat

(* What has been delivered is a beginning of what was submitted, in order   *)
(* and without gaps, and all that was released is part of it.               *)
PrefixDelivered ==
    /\ \A i \in 1 .. Len(delivered) : delivered[i] = i
    /\ released <= Len(delivered)
    /\ Len(delivered) <= submitted
=============================================================================
