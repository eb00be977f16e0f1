----------------------------- MODULE MCForward ------------------------------
(* Instances of FbbForward and AsciiForward for TLC.                       *)
EXTENDS AsciiForward

CONSTANTS A, B, C, p, q, b

NoneRefused == [x \in Boxes |-> {}]
EnteredAt(bx, bp, bq) == [m \in Mails |->
    CASE m = b -> bx [] m = p -> bp [] OTHER -> bq]

\* A user mail from A to B, and one back, so that both call.
BothCall == {<<A, B>>, <<B, A>>}
PairOrigins == {EnteredAt({}, {A}, {B})}
PairLeftover == {<<B, A, p>>}
PairRoute == [x \in Boxes |-> [m \in Mails |->
    IF m = p /\ x = A THEN {B} ELSE IF m = q /\ x = B THEN {A} ELSE {}]]

\* B has no correct path either: it routes the mail of A back to A.
LoopOrigins == {EnteredAt({}, {A}, {})}
LoopRoute == [x \in Boxes |-> [m \in Mails |->
    IF m # p THEN {} ELSE IF x = A THEN {B} ELSE {A}]]

\* A -- B -- C: p is for a user of C, q for one of A; a bulletin goes
\* everywhere, but C does not want it from others.
NetSessions == {<<A, B>>, <<B, C>>}
NetAscii == {<<B, C>>}
NetOrigins == {EnteredAt({A, C}, {A}, {}), EnteredAt({B}, {B}, {B})}
NetRoute == [x \in Boxes |-> [m \in Mails |->
    IF m = b THEN IF x = B THEN {A, C} ELSE {B}
    ELSE IF x = B THEN IF m = p THEN {C} ELSE {A}
    ELSE IF <<x, m>> \in {<<A, p>>, <<C, q>>} THEN {B} ELSE {}]]
NetRefused == [x \in Boxes |-> IF x = C THEN {b} ELSE {}]
=============================================================================
