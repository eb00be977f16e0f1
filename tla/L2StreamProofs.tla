--------------------------- MODULE L2StreamProofs ---------------------------
(***************************************************************************)
(* L2Link implements ReliableStream, for every modulus, window, receive    *)
(* queue and number of retries, any check sums and any lost frames, while  *)
(* one station connects once (OneSession).                                 *)
(*                                                                         *)
(* The two directions of a port are looked at apart: its sending side      *)
(* (Window: txinfptr, vs, va and what waits) and its receiving side (vr,   *)
(* the sammler, the last check sums).  For each function of L2Port there   *)
(* is a lemma about what it does to either.  Link ties the sender's port x *)
(* and the receiver's port y to the frames under way: every I frame on the *)
(* air carries a piece near those that have arrived (Carried), the         *)
(* numbers acknowledged on the air are in order and of what has arrived    *)
(* (Acks), what was received is the beginning of the data, the frame that  *)
(* is kept is the piece after the missing one (Arrived), and what has come *)
(* in was sent and is released only then (Ahead).  SenderSteps and         *)
(* ReceiverSteps keep Link; StreamIInv is the inductive invariant.         *)
(*                                                                         *)
(* A connection that is made again could meet frames of the one before,    *)
(* and numbers modulo M do not tell them apart: therefore one session.     *)
(* Data for which there is no room are acknowledged and thrown away        *)
(* (pacdecinf): therefore NothingDropped.  If two pieces after another ask *)
(* for the end, the second is delivered when the link is already being     *)
(* taken down: therefore QuitsApart.                                       *)
(*                                                                         *)
(* When the peer hands over no data, every number it is sent is 0 and its  *)
(* window stays empty (Alone); with Link for the sender that is WindowHeld *)
(* (WindowsHeld).                                                          *)
(*                                                                         *)
(* Then the receive queue has room as well (QueueHasRoom): the sender may  *)
(* go as far as the pieces that have arrived and the free places up to     *)
(* maxrx (Allowed) and one window more, on its side, on the air and in the *)
(* acknowledgements under way (Credit), because a busy station lets nobody *)
(* go on (Lull) and a window only opens with an acknowledgement (Cred).    *)
(* One window has to fit into the places beyond maxrx: MaxFrame < RxRoom.  *)
(* A second connection of the peer would find the messages of the first in *)
(* the queue: therefore OneConnection.                                     *)
(***************************************************************************)
EXTENDS L2LinkProofs

-----------------------------------------------------------------------------
(* Numbers modulo M.                                                       *)

LEMMA ModUnique ==
    ASSUME NEW q \in Nat, NEW r \in 0 .. M - 1
    PROVE (M * q + r) % M = r
  <1>1. M \in Nat /\ M >= 2
    BY PortAssumption
  <1> QED
    BY <1>1

LEMMA Divided == \A n \in Nat : \E q \in Nat : \E r \in 0 .. M - 1 : n = M * q + r
  <1> DEFINE A == {n \in Nat : \E q \in Nat : \E r \in 0 .. M - 1 : n = M * q + r}
  <1>0. M \in Nat /\ M >= 2
    BY PortAssumption
  <1>1. 0 \in A
    <2>1. 0 = M * 0 + 0 /\ 0 \in 0 .. M - 1 /\ 0 \in Nat
      BY <1>0
    <2> QED
      BY <2>1
  <1>2. ASSUME NEW n \in Nat, n \in A PROVE n + 1 \in A
    <2>1. PICK q \in Nat, r \in 0 .. M - 1 : n = M * q + r
      BY <1>2
    <2>2. CASE r + 1 < M
      <3>1. n + 1 = M * q + (r + 1) /\ r + 1 \in 0 .. M - 1
        BY <1>0, <2>1, <2>2
      <3> QED
        BY <3>1
    <2>3. CASE r + 1 = M
      <3>1. M * (q + 1) = M * q + M
        BY <1>0
      <3>2. n + 1 = M * (q + 1) + 0 /\ 0 \in 0 .. M - 1 /\ q + 1 \in Nat
        BY <1>0, <2>1, <2>3, <3>1
      <3> QED
        BY <3>2
    <2> QED
      BY <1>0, <2>2, <2>3
  <1> HIDE DEF A
  <1>3. Nat \subseteq A
    BY <1>1, <1>2, SetInduction
  <1> QED
    BY <1>3 DEF A

LEMMA ModRange ==
    ASSUME NEW n \in Nat
    PROVE  n % M \in Numbers
  <1>1. M \in Nat /\ M >= 2
    BY PortAssumption
  <1> QED
    BY <1>1 DEF Numbers

LEMMA ModPlus ==
    ASSUME NEW n \in Nat, NEW k \in 0 .. M
    PROVE Plus(n % M, k) = (n + k) % M
  <1>0. M \in Nat /\ M >= 2
    BY PortAssumption
  <1>1. PICK q \in Nat, r \in 0 .. M - 1 : n = M * q + r
    BY Divided
  <1>2. n % M = r
    BY <1>1, ModUnique
  <1>3. CASE r + k < M
    <2>1. n + k = M * q + (r + k) /\ r + k \in 0 .. M - 1
      BY <1>0, <1>1, <1>3
    <2>2. (n + k) % M = r + k
      BY <2>1, ModUnique
    <2> QED
      BY <1>0, <1>2, <1>3, <2>2, PlusIs DEF Numbers
  <1>4. CASE r + k >= M /\ r + k < M + M
    <2>0. M * (q + 1) = M * q + M
      BY <1>0
    <2>1. n + k = M * (q + 1) + (r + k - M) /\ r + k - M \in 0 .. M - 1
      BY <1>0, <1>1, <1>4, <2>0
    <2>2. (n + k) % M = r + k - M
      BY <2>1, ModUnique
    <2>3. r \in Numbers
      BY DEF Numbers
    <2>4. Plus(r, k) = IF r + k < M THEN r + k ELSE r + k - M
      BY <2>3, PlusIs
    <2> QED
      BY <1>0, <1>2, <1>4, <2>2, <2>4
  <1> QED
    BY <1>0, <1>3, <1>4

LEMMA ModMinus ==
    ASSUME NEW n \in Nat, NEW k \in 0 .. M - 1
    PROVE Minus((n + k) % M, n % M) = k
  <1>0. M \in Nat /\ M >= 2
    BY PortAssumption
  <1>1. n % M \in Numbers /\ (n + k) % M \in Numbers /\ n + k \in Nat
    BY <1>0, ModRange
  <1>2. (n + k) % M = Plus(n % M, k)
    <2>1. k \in 0 .. M
      BY <1>0
    <2> QED
      BY <2>1, ModPlus
  <1> DEFINE a == n % M
             b == (n + k) % M
  <1>3. a \in Numbers /\ b \in Numbers /\ b = Plus(a, k)
    BY <1>1, <1>2
  <1> HIDE DEF a, b
  <1>4. Minus(b, a) = k
    <2>1. k \in 0 .. M /\ a \in Nat /\ a < M /\ b \in Nat /\ b < M
      BY <1>0, <1>3 DEF Numbers
    <2>2. b = IF a + k < M THEN a + k ELSE a + k - M
      BY <1>3, <2>1, PlusIs
    <2>3. Minus(b, a) = IF b >= a THEN b - a ELSE M + b - a
      BY <1>3, MinusIs
    <2> QED
      BY <1>0, <2>1, <2>2, <2>3
  <1> QED
    BY <1>4 DEF a, b

LEMMA ModApart ==
    ASSUME NEW a \in Nat, NEW b \in Nat, a <= b, b < a + M
    PROVE  Minus(b % M, a % M) = b - a
  <1>1. M \in Nat /\ M >= 2
    BY PortAssumption
  <1>2. b - a \in 0 .. M - 1 /\ b = a + (b - a)
    BY <1>1
  <1> QED
    BY <1>2, ModMinus

LEMMA ModSame ==
    ASSUME NEW a \in Nat, NEW b \in Nat, a <= b, b < a + M, a % M = b % M
    PROVE  a = b
  <1>1. Minus(b % M, a % M) = b - a
    BY ModApart
  <1>2. a % M \in Numbers
    BY ModRange
  <1>3. Minus(a % M, a % M) = 0
    <2>1. M \in Nat
      BY PortAssumption
    <2> QED
      BY <1>2, <2>1, MinusIs DEF Numbers
  <1> QED
    BY <1>1, <1>3

LEMMA SlotIs ==
    ASSUME NEW n \in Numbers, NEW a \in Nat
    PROVE  (a + Minus(n, a % M)) % M = n
  <1> DEFINE r == a % M
             d == Minus(n, r)
  <1>0. M \in Nat /\ M >= 2
    BY PortAssumption
  <1>1. r \in Numbers
    BY ModRange
  <1>2. d \in Numbers /\ d = IF n >= r THEN n - r ELSE M + n - r
    <2> HIDE DEF r
    <2> QED
      BY <1>1, MinusIs
  <1>3. d \in 0 .. M
    BY <1>0, <1>2 DEF Numbers
  <1>4. Plus(r, d) = (a + d) % M
    <2> HIDE DEF d
    <2> QED
      BY <1>3, ModPlus
  <1>5. Plus(r, d) = n
    <2> HIDE DEF d, r
    <2>1. Plus(r, d) = IF r + d < M THEN r + d ELSE r + d - M
      BY <1>1, <1>3, PlusIs
    <2> QED
      BY <1>0, <1>1, <1>2, <2>1 DEF Numbers
  <1> QED
    BY <1>4, <1>5

LEMMA MinusRange ==
    ASSUME NEW n \in Numbers, NEW k \in Numbers
    PROVE  Minus(n, k) \in Numbers /\ Minus(n, k) \in Nat /\ Minus(n, k) < M /\ Minus(n, n) = 0
  <1>1. Minus(n, k) \in Numbers /\ Minus(n, n) = n - n
    <2>1. n >= n
      BY PortAssumption DEF Numbers
    <2> QED
      BY <2>1, MinusIs
  <1>2. n - n = 0
    BY PortAssumption DEF Numbers
  <1> QED
    BY <1>1, <1>2, PortAssumption DEF Numbers

\* distances from r, which is d after v
LEMMA MinusFrom ==
    ASSUME NEW n \in Numbers, NEW r \in Numbers, NEW v \in Numbers
    PROVE  Minus(n, r) = IF Minus(n, v) < Minus(r, v) THEN Minus(n, v) - Minus(r, v) + M
                         ELSE Minus(n, v) - Minus(r, v)
  <1>1. /\ Minus(n, v) = IF n >= v THEN n - v ELSE M + n - v
        /\ Minus(n, r) = IF n >= r THEN n - r ELSE M + n - r
        /\ Minus(r, v) = IF r >= v THEN r - v ELSE M + r - v
    BY MinusIs
  <1>2. n \in Nat /\ n < M /\ r \in Nat /\ r < M /\ v \in Nat /\ v < M /\ M \in Nat
    BY PortAssumption DEF Numbers
  <1> QED
    BY <1>1, <1>2

-----------------------------------------------------------------------------
(* What the functions of L2Port do to the two directions of a port.        *)

\* the sending and the receiving side of a port
SameTx(p, q) ==
    /\ q.sess = p.sess /\ q.sub = p.sub /\ q.acked = p.acked
    /\ q.txinfout = p.txinfout /\ q.txinfptr = p.txinfptr /\ q.v1s = p.v1s /\ q.vs = p.vs
SameRx(p, q) ==
    /\ q.vr = p.vr /\ q.sammler = p.sammler /\ q.qsumme = p.qsumme
    /\ q.got = p.got /\ q.overrun = p.overrun
Near(p, q) == q \in Port /\ SameTx(p, q) /\ SameRx(p, q) /\ q.lstate = p.lstate
Level(p, q) == Near(p, q) /\ q.out = p.out /\ q.timer2 = p.timer2 /\ q.busy = p.busy

Up(p) == p.lstate # "disconnected"
Linked(p) == p.lstate \notin {"disconnected", "link_setup"}
Numbered == {"I", "RR", "RNR", "REJ"}

\* the frames a port may send: a number tells what it expects next, and an I
\* frame is in its window
Says(p) ==
    {f \in GoodFrames :
        /\ f.type # "SABM"
        /\ f.type \in Numbered => f.nr = p.vr
        /\ f.type = "I" => /\ Linked(p)
                           /\ p.txinfptr[f.ns] # NoInfo /\ f.info = p.txinfptr[f.ns]}

LEMMA ToSetIs ==
    ASSUME NEW T, NEW s \in Seq(T)
    PROVE  /\ ToSet(s) = {s[i] : i \in 1 .. Len(s)} /\ ToSet(s) \subseteq T
           /\ \A f \in T : ToSet(Append(s, f)) = ToSet(s) \cup {f}
           /\ \A t \in Seq(T) : ToSet(s \o t) = ToSet(s) \cup ToSet(t)
  <1>1. \A t \in Seq(T) : ToSet(t) = {t[i] : i \in 1 .. Len(t)}
    BY DEF ToSet
  <1>2. ToSet(s) \subseteq T
    BY <1>1
  <1>3. ASSUME NEW f \in T PROVE ToSet(Append(s, f)) = ToSet(s) \cup {f}
    <2>1. /\ Append(s, f) \in Seq(T) /\ Len(Append(s, f)) = Len(s) + 1 /\ Len(s) \in Nat
          /\ \A i \in 1 .. Len(s) : Append(s, f)[i] = s[i]
          /\ Append(s, f)[Len(s) + 1] = f
      BY AppendProperties
    <2> DEFINE t == Append(s, f)
    <2> HIDE DEF t
    <2>2. ToSet(t) \subseteq ToSet(s) \cup {f}
      <3> SUFFICES ASSUME NEW i \in 1 .. Len(t) PROVE t[i] \in ToSet(s) \cup {f}
        BY DEF ToSet
      <3>1. i \in 1 .. Len(s) \/ i = Len(s) + 1
        BY <2>1 DEF t
      <3> QED
        BY <1>1, <2>1, <3>1 DEF t
    <2>3. ToSet(s) \cup {f} \subseteq ToSet(t)
      <3>1. \A i \in 1 .. Len(s) : i \in 1 .. Len(t) /\ t[i] = s[i]
        BY <2>1 DEF t
      <3>2. Len(s) + 1 \in 1 .. Len(t) /\ t[Len(s) + 1] = f
        BY <2>1 DEF t
      <3>3. ToSet(t) = {t[i] : i \in 1 .. Len(t)}
        BY <1>1, <2>1 DEF t
      <3> QED
        BY <1>1, <3>1, <3>2, <3>3
    <2> QED
      BY <2>2, <2>3 DEF t
  <1>4. ASSUME NEW u \in Seq(T) PROVE ToSet(s \o u) = ToSet(s) \cup ToSet(u)
    <2> DEFINE t == s \o u
    <2>1. /\ t \in Seq(T) /\ Len(t) = Len(s) + Len(u) /\ Len(s) \in Nat /\ Len(u) \in Nat
          /\ \A i \in 1 .. Len(s) : t[i] = s[i]
          /\ \A i \in 1 .. Len(u) : t[Len(s) + i] = u[i]
      BY ConcatProperties
    <2> HIDE DEF t
    <2>2. ToSet(t) \subseteq ToSet(s) \cup ToSet(u)
      <3> SUFFICES ASSUME NEW i \in 1 .. Len(t) PROVE t[i] \in ToSet(s) \cup ToSet(u)
        BY DEF ToSet
      <3>1. CASE i \in 1 .. Len(s)
        BY <1>1, <2>1, <3>1
      <3>2. CASE i - Len(s) \in 1 .. Len(u)
        <4>1. Len(s) + (i - Len(s)) = i
          BY <2>1
        <4>2. t[i] = u[i - Len(s)]
          BY <2>1, <3>2, <4>1
        <4> QED
          BY <1>1, <3>2, <4>2
      <3> QED
        BY <2>1, <3>1, <3>2
    <2>3. ToSet(s) \cup ToSet(u) \subseteq ToSet(t)
      <3>1. \A i \in 1 .. Len(s) : i \in 1 .. Len(t) /\ t[i] = s[i]
        BY <2>1
      <3>2. \A i \in 1 .. Len(u) : Len(s) + i \in 1 .. Len(t) /\ t[Len(s) + i] = u[i]
        BY <2>1
      <3>3. ToSet(s) \subseteq ToSet(t)
        BY <3>1 DEF ToSet
      <3>4. ToSet(u) \subseteq ToSet(t)
        <4> SUFFICES ASSUME NEW i \in 1 .. Len(u) PROVE u[i] \in ToSet(t)
          BY DEF ToSet
        <4>1. Len(s) + i \in 1 .. Len(t) /\ t[Len(s) + i] = u[i]
          BY <3>2
        <4> QED
          BY <4>1 DEF ToSet
      <3> QED
        BY <3>3, <3>4
    <2> QED
      BY <2>2, <2>3 DEF t
  <1> QED
    BY <1>1, <1>2, <1>3, <1>4

\* q differs from p in what neither direction depends on
LEMMA FlagsLevel ==
    ASSUME NEW p \in Port
    PROVE  /\ Level(p, p)
           /\ \A b \in BOOLEAN : Level(p, [p EXCEPT !.timer1 = b]) /\ Level(p, [p EXCEPT !.qtimer = b])
                  /\ Level(p, [p EXCEPT !.rembusy = b]) /\ Level(p, [p EXCEPT !.wasrej = b])
           /\ \A r \in -1 .. Retry + 1 : Level(p, [p EXCEPT !.retries = r])
           /\ \A n \in Numbers : Level(p, [p EXCEPT !.v2s = n])
           /\ \A msg \in Messages : Level(p, Linkmsg(p, msg))
           /\ \A b \in BOOLEAN : /\ Near(p, [p EXCEPT !.timer2 = b]) /\ [p EXCEPT !.timer2 = b].out = p.out
                                 /\ [p EXCEPT !.timer2 = b].timer2 = b /\ [p EXCEPT !.timer2 = b].busy = p.busy
           /\ \A b \in BOOLEAN : /\ Near(p, [p EXCEPT !.busy = b]) /\ [p EXCEPT !.busy = b].out = p.out
                                 /\ [p EXCEPT !.busy = b].busy = b /\ [p EXCEPT !.busy = b].timer2 = p.timer2
  <1>1. Level(p, p)
    BY DEF Level, Near, SameTx, SameRx
  <1>2. ASSUME NEW b \in BOOLEAN
        PROVE  Level(p, [p EXCEPT !.timer1 = b]) /\ Level(p, [p EXCEPT !.qtimer = b])
    <2>1. Level(p, [p EXCEPT !.timer1 = b])
      BY DEF Level, Near, SameTx, SameRx, Port
    <2>2. Level(p, [p EXCEPT !.qtimer = b])
      BY DEF Level, Near, SameTx, SameRx, Port
    <2> QED
      BY <2>1, <2>2
  <1>3. ASSUME NEW b \in BOOLEAN
        PROVE  Level(p, [p EXCEPT !.rembusy = b]) /\ Level(p, [p EXCEPT !.wasrej = b])
    <2>1. Level(p, [p EXCEPT !.rembusy = b])
      BY DEF Level, Near, SameTx, SameRx, Port
    <2>2. Level(p, [p EXCEPT !.wasrej = b])
      BY DEF Level, Near, SameTx, SameRx, Port
    <2> QED
      BY <2>1, <2>2
  <1>4. \A r \in -1 .. Retry + 1 : Level(p, [p EXCEPT !.retries = r])
    BY DEF Level, Near, SameTx, SameRx, Port
  <1>5. \A n \in Numbers : Level(p, [p EXCEPT !.v2s = n])
    BY DEF Level, Near, SameTx, SameRx, Port
  <1>6. ASSUME NEW msg \in Messages PROVE Level(p, Linkmsg(p, msg))
    <2>1. p.rxlen + 1 \in Nat
      BY DEF Port
    <2> QED
      BY <2>1 DEF Level, Near, SameTx, SameRx, Port, Linkmsg
  <1>7. \A b \in BOOLEAN : /\ Near(p, [p EXCEPT !.timer2 = b]) /\ [p EXCEPT !.timer2 = b].out = p.out
                           /\ [p EXCEPT !.timer2 = b].timer2 = b /\ [p EXCEPT !.timer2 = b].busy = p.busy
    BY DEF Near, SameTx, SameRx, Port
  <1>8. \A b \in BOOLEAN : /\ Near(p, [p EXCEPT !.busy = b]) /\ [p EXCEPT !.busy = b].out = p.out
                           /\ [p EXCEPT !.busy = b].busy = b /\ [p EXCEPT !.busy = b].timer2 = p.timer2
    BY DEF Near, SameTx, SameRx, Port
  <1> QED
    BY <1>1, <1>2, <1>3, <1>4, <1>5, <1>6, <1>7, <1>8

LEMMA LstateNear ==
    ASSUME NEW p \in Port, NEW l \in LStates
    PROVE  LET q == [p EXCEPT !.lstate = l] IN
           /\ q \in Port /\ SameTx(p, q) /\ SameRx(p, q) /\ q.lstate = l /\ q.out = p.out
           /\ q.timer2 = p.timer2 /\ q.busy = p.busy /\ q.qtimer = p.qtimer /\ q.rxlen = p.rxlen
  BY DEF SameTx, SameRx, Port

LEMMA NearSteps ==
    /\ \A p, q, r : SameTx(p, q) /\ SameTx(q, r) => SameTx(p, r)
    /\ \A p, q, r : SameRx(p, q) /\ SameRx(q, r) => SameRx(p, r)
    /\ \A p, q, r : Near(p, q) /\ Near(q, r) => Near(p, r)
    /\ \A p, q, r : Level(p, q) /\ Level(q, r) => Level(p, r)
  <1>1. \A p, q, r : SameTx(p, q) /\ SameTx(q, r) => SameTx(p, r)
    BY DEF SameTx
  <1>2. \A p, q, r : SameRx(p, q) /\ SameRx(q, r) => SameRx(p, r)
    BY DEF SameRx
  <1>3. \A p, q, r : Near(p, q) /\ Near(q, r) => Near(p, r)
    BY <1>1, <1>2 DEF Near
  <1>4. \A p, q, r : Level(p, q) /\ Level(q, r) => Level(p, r)
    BY <1>3 DEF Level
  <1> QED
    BY <1>1, <1>2, <1>3, <1>4

LEMMA SendNear ==
    ASSUME NEW p \in Port, NEW f \in GoodFrames
    PROVE  /\ Near(p, Send(p, f)) /\ ToSet(Send(p, f).out) = ToSet(p.out) \cup {f}
           /\ Send(p, f).timer2 = p.timer2 /\ Send(p, f).busy = p.busy
  <1>1. p.out \in Seq(GoodFrames)
    BY DEF Port
  <1>2. Append(p.out, f) \in Seq(GoodFrames) /\ ToSet(Append(p.out, f)) = ToSet(p.out) \cup {f}
    BY <1>1, ToSetIs
  <1>3. /\ Near(p, Send(p, f)) /\ Send(p, f).out = Append(p.out, f)
        /\ Send(p, f).timer2 = p.timer2 /\ Send(p, f).busy = p.busy
    BY <1>2 DEF Send, Near, SameTx, SameRx, Port
  <1> QED
    BY <1>2, <1>3

\* a link stays one, or the state does not change
Phase(p, q) ==
    q.lstate = p.lstate \/ (Linked(p) /\ Linked(q) /\ q.lstate # "frame_reject")

\* p sends something, and nothing is received or acknowledged
Chat(p, q) ==
    /\ q \in Port /\ SameTx(p, q) /\ SameRx(p, q) /\ Phase(p, q)
    /\ ToSet(q.out) \subseteq ToSet(p.out) \cup Says(p)

LEMMA SaysSame ==
    ASSUME NEW p, NEW q, SameTx(p, q), SameRx(p, q), Phase(p, q)
    PROVE  Says(q) = Says(p)
  <1>1. Linked(q) <=> Linked(p)
    BY DEF Phase, Linked
  <1> QED
    BY <1>1 DEF Says, SameTx, SameRx

LEMMA ChatSteps ==
    /\ \A p, q : Near(p, q) /\ ToSet(q.out) \subseteq ToSet(p.out) \cup Says(p) => Chat(p, q)
    /\ \A p, q : Level(p, q) => Chat(p, q)
    /\ \A p, q, r : Chat(p, q) /\ Chat(q, r) => Chat(p, r)
  <1>1. \A p, q : Near(p, q) /\ ToSet(q.out) \subseteq ToSet(p.out) \cup Says(p) => Chat(p, q)
    BY DEF Near, Chat, Phase
  <1>2. \A p, q : Level(p, q) => Chat(p, q)
    BY <1>1 DEF Level
  <1>3. ASSUME NEW p, NEW q, NEW r, Chat(p, q), Chat(q, r) PROVE Chat(p, r)
    <2>1. Says(q) = Says(p)
      BY <1>3, SaysSame DEF Chat
    <2>2. Phase(p, r)
      BY <1>3 DEF Chat, Phase, Linked
    <2>3. SameTx(p, r) /\ SameRx(p, r)
      BY <1>3, NearSteps DEF Chat
    <2> QED
      BY <1>3, <2>1, <2>2, <2>3 DEF Chat
  <1> QED
    BY <1>1, <1>2, <1>3

\* the frames without a number
Plain == {"UA", "DISC", "DM", "FRMR"}

LEMMA SaysThese ==
    ASSUME NEW p \in Port
    PROVE  /\ \A type \in Plain : \A pf \in PFs : U(type, pf) \in Says(p)
           /\ \A type \in {"RR", "RNR", "REJ"} : \A pf \in PFs : S(type, pf, p.vr) \in Says(p)
           /\ \A pf \in PFs : \A n \in Numbers :
                 Linked(p) /\ p.txinfptr[n] # NoInfo => I(pf, p.vr, n, p.txinfptr[n]) \in Says(p)
  <1>1. p.vr \in Numbers /\ \A n \in Numbers : p.txinfptr[n] # NoInfo => p.txinfptr[n] \in Pieces
    BY DEF Port, Infos
  <1>2. ASSUME NEW type \in Plain, NEW pf \in PFs PROVE U(type, pf) \in Says(p)
    <2>1. U(type, pf) \in GoodFrames
      BY FramesOf DEF Plain, PFs
    <2>2. U(type, pf).type = type
      BY DEF U
    <2> QED
      BY <2>1, <2>2 DEF Says, Plain, Numbered
  <1>3. ASSUME NEW type \in {"RR", "RNR", "REJ"}, NEW pf \in PFs PROVE S(type, pf, p.vr) \in Says(p)
    <2>1. S(type, pf, p.vr) \in GoodFrames
      BY <1>1, FramesOf DEF PFs
    <2>2. S(type, pf, p.vr).type = type /\ S(type, pf, p.vr).nr = p.vr
      BY DEF S
    <2> QED
      BY <2>1, <2>2 DEF Says, Numbered
  <1>4. ASSUME NEW pf \in PFs, NEW n \in Numbers, Linked(p), p.txinfptr[n] # NoInfo
        PROVE  I(pf, p.vr, n, p.txinfptr[n]) \in Says(p)
    <2> DEFINE f == I(pf, p.vr, n, p.txinfptr[n])
    <2>1. f \in GoodFrames
      BY <1>1, <1>4, FramesOf DEF PFs
    <2>2. f.type = "I" /\ f.nr = p.vr /\ f.ns = n /\ f.info = p.txinfptr[n]
      BY DEF I
    <2> HIDE DEF f
    <2>3. Linked(p) /\ p.txinfptr[f.ns] # NoInfo /\ f.info = p.txinfptr[f.ns] /\ f.type # "SABM"
      BY <1>4, <2>2
    <2>4. f \in Says(p)
      BY <2>1, <2>2, <2>3 DEF Says
    <2> QED
      BY <2>4 DEF f
  <1> QED
    BY <1>2, <1>3, <1>4

LEMMA SendChat ==
    ASSUME NEW p \in Port, NEW f \in Says(p)
    PROVE  Chat(p, Send(p, f)) /\ Near(p, Send(p, f))
  <1>1. f \in GoodFrames
    BY DEF Says
  <1>2. Near(p, Send(p, f)) /\ ToSet(Send(p, f).out) = ToSet(p.out) \cup {f}
    BY <1>1, SendNear
  <1> QED
    BY <1>2, ChatSteps

LEMMA PaccodsupChat ==
    ASSUME NEW p \in Port, NEW pf \in PFs
    PROVE  Chat(p, Paccodsup(p, pf)) /\ Near(p, Paccodsup(p, pf))
  <1>1. \A type \in {"RR", "RNR", "REJ"} : S(type, pf, p.vr) \in Says(p)
    BY SaysThese
  <1>2. \A type \in {"RR", "RNR", "REJ"} :
            Chat(p, Send(p, S(type, pf, p.vr))) /\ Near(p, Send(p, S(type, pf, p.vr)))
    BY <1>1, SendChat
  <1>3. Level(p, p) /\ Chat(p, p) /\ Near(p, p)
    BY FlagsLevel, ChatSteps DEF Level
  <1> QED
    BY <1>2, <1>3 DEF Paccodsup

LEMMA PaccodrejChat ==
    ASSUME NEW p \in Port, NEW pf \in PFs, Linked(p)
    PROVE  Chat(p, Paccodrej(p, pf))
  <1>1. \A type \in {"RNR", "REJ"} : S(type, "response", p.vr) \in Says(p)
    BY SaysThese DEF PFs
  <1> DEFINE g == S(IF p.busy THEN "RNR" ELSE "REJ", "response", p.vr)
             q == Send(p, g)
  <1>2. Chat(p, q) /\ Near(p, q)
    BY <1>1, SendChat
  <1> HIDE DEF q
  <1>3. /\ [q EXCEPT !.lstate = "rej_sent"] \in Port /\ SameTx(q, [q EXCEPT !.lstate = "rej_sent"])
        /\ SameRx(q, [q EXCEPT !.lstate = "rej_sent"])
        /\ [q EXCEPT !.lstate = "rej_sent"].lstate = "rej_sent"
        /\ [q EXCEPT !.lstate = "rej_sent"].out = q.out
    BY <1>2, LstateNear, StateSets DEF Chat
  <1>4. Chat(q, [q EXCEPT !.lstate = "rej_sent"])
    <2>1. q.lstate = p.lstate
      BY <1>2 DEF Near
    <2>2. Phase(q, [q EXCEPT !.lstate = "rej_sent"])
      BY <1>3, <2>1 DEF Phase, Linked
    <2> QED
      BY <1>3, <2>2 DEF Chat
  <1>5. Chat(p, p)
    BY FlagsLevel, ChatSteps
  <1>6. Paccodrej(p, pf) = IF p.lstate = "rej_sent" \/ pf # "command" THEN p
                           ELSE [q EXCEPT !.lstate = "rej_sent"]
    BY DEF Paccodrej, q
  <1> QED
    BY <1>2, <1>4, <1>5, <1>6, ChatSteps

LEMMA Restt1Chat ==
    ASSUME NEW p \in Port
    PROVE  Level(p, Restt1(p)) /\ Level(p, Stopt1(p)) /\ Chat(p, Restt1(p)) /\ Chat(p, Stopt1(p))
  <1>1. Level(p, Restt1(p)) /\ Level(p, Stopt1(p))
    BY FlagsLevel DEF Restt1, Stopt1
  <1> QED
    BY <1>1, ChatSteps

\* the I frames a port may send
DataOf(p) == {f \in Says(p) : f.type = "I"}

\* the frames of infosend come out of the window
LEMMA FramesSay ==
    ASSUME NEW p \in Port, Linked(p), NEW pf \in PFs, NEW a \in Numbers, NEW b \in Numbers
    PROVE  Frames(p, pf, a, b) \in Seq(GoodFrames) /\ ToSet(Frames(p, pf, a, b)) \subseteq DataOf(p)
  <1> DEFINE n == Minus(b, a)
             F == CHOOSE F : SentOf(p, pf, a, n, F)
             Right == {k \in Nat : k <= n => F[k] \in Seq(GoodFrames) /\ ToSet(F[k]) \subseteq DataOf(p)}
  <1>1. n \in Nat /\ n < M
    BY MinusIs, PortAssumption DEF Numbers
  <1>2. Frames(p, pf, a, b) = F[n]
    BY DEF Frames, SentOf, NextSent
  <1>3. SentOf(p, pf, a, n, F)
    <2> HIDE DEF n
    <2> QED
      BY <1>1, SentExists
  <1> HIDE DEF F, n
  <1>4. F[0] = <<>> /\ \A k \in 1 .. n : F[k] = NextSent(p, pf, a, k, F[k - 1])
    <2>1. Stepwise(p, pf, a, n, F)
      BY <1>1, <1>3, SentStep
    <2> QED
      BY <2>1 DEF Stepwise
  <1>5. 0 \in Right
    <2>1. F[0] \in Seq(GoodFrames) /\ ToSet(F[0]) = {}
      BY <1>4 DEF ToSet
    <2> QED
      BY <2>1
  <1>6. ASSUME NEW k \in Nat, k \in Right PROVE k + 1 \in Right
    <2> SUFFICES ASSUME k + 1 <= n
                 PROVE  F[k + 1] \in Seq(GoodFrames) /\ ToSet(F[k + 1]) \subseteq DataOf(p)
      OBVIOUS
    <2>0. M \in Nat
      BY PortAssumption
    <2>1. k + 1 \in 1 .. n /\ (k + 1) - 1 = k /\ k \in 0 .. M /\ k <= n
      BY <1>1, <2>0
    <2>2. F[k] \in Seq(GoodFrames) /\ ToSet(F[k]) \subseteq DataOf(p)
      BY <1>6, <2>1
    <2> HIDE DEF Right
    <2> DEFINE m == Plus(a, k)
    <2>3. F[k + 1] = IF p.txinfptr[m] = NoInfo THEN F[k]
                     ELSE Append(F[k], I(pf, p.vr, m, p.txinfptr[m]))
      BY <1>4, <2>1 DEF NextSent
    <2>4. m \in Numbers
      BY <2>1, PlusIs
    <2> HIDE DEF m
    <2> DEFINE g == I(pf, p.vr, m, p.txinfptr[m])
    <2>5. p.txinfptr[m] # NoInfo => g \in DataOf(p) /\ g \in GoodFrames
      <3>1. p.txinfptr[m] # NoInfo => g \in Says(p)
        BY <2>4, SaysThese
      <3>2. g.type = "I"
        BY DEF I
      <3> HIDE DEF g
      <3> QED
        BY <3>1, <3>2 DEF Says, DataOf
    <2> HIDE DEF g
    <2>6. p.txinfptr[m] # NoInfo => ToSet(Append(F[k], g)) = ToSet(F[k]) \cup {g}
      BY <2>2, <2>5, ToSetIs
    <2>7. p.txinfptr[m] # NoInfo => Append(F[k], g) \in Seq(GoodFrames)
      BY <2>2, <2>5, AppendProperties
    <2> QED
      BY <2>2, <2>3, <2>5, <2>6, <2>7 DEF g
  <1>7. Nat \subseteq Right
    <2> HIDE DEF Right
    <2> QED
      BY <1>5, <1>6, SetInduction
  <1> QED
    BY <1>1, <1>2, <1>7

LEMMA InfosendChat ==
    ASSUME NEW p \in Port, Linked(p), NEW pf \in PFs, NEW a \in Numbers, NEW b \in Numbers
    PROVE  Chat(p, Infosend(p, pf, a, b)) /\ Near(p, Infosend(p, pf, a, b))
  <1>1. Level(p, p) /\ Chat(p, p) /\ Near(p, p)
    BY FlagsLevel, ChatSteps DEF Level
  <1>2. CASE a # b
    <2> DEFINE fs == Frames(p, pf, a, b)
               t2 == IF fs = <<>> THEN p.timer2 ELSE FALSE
               q == [p EXCEPT !.out = @ \o fs, !.timer2 = t2, !.wasrej = FALSE]
    <2>1. fs \in Seq(GoodFrames) /\ ToSet(fs) \subseteq Says(p)
      BY FramesSay DEF DataOf
    <2>2. Infosend(p, pf, a, b) = Restt1(q)
      BY <1>2 DEF Infosend
    <2> HIDE DEF fs
    <2>3. t2 \in BOOLEAN /\ p.out \in Seq(GoodFrames)
      BY DEF Port
    <2>4. p.out \o fs \in Seq(GoodFrames) /\ ToSet(p.out \o fs) = ToSet(p.out) \cup ToSet(fs)
      BY <2>1, <2>3, ToSetIs
    <2> HIDE DEF t2
    <2>5. Near(p, q) /\ q.out = p.out \o fs
      BY <2>3, <2>4 DEF Near, SameTx, SameRx, Port
    <2> HIDE DEF q
    <2>6. Chat(p, q)
      BY <2>1, <2>4, <2>5, ChatSteps
    <2>7. Level(q, Restt1(q)) /\ Chat(q, Restt1(q))
      BY <2>6, Restt1Chat DEF Chat
    <2> QED
      BY <2>2, <2>5, <2>6, <2>7, ChatSteps, NearSteps DEF Level
  <1> QED
    BY <1>1, <1>2 DEF Infosend

LEMMA AnswerInfChat ==
    ASSUME NEW p \in Port, NEW pf \in PFs, NEW aus \in BOOLEAN
    PROVE  Chat(p, AnswerInf(p, pf, aus)) /\ Near(p, AnswerInf(p, pf, aus))
  <1>1. \A b \in BOOLEAN : Near(p, [p EXCEPT !.timer2 = b]) /\ Chat(p, [p EXCEPT !.timer2 = b])
    <2>1. \A b \in BOOLEAN : Near(p, [p EXCEPT !.timer2 = b]) /\ [p EXCEPT !.timer2 = b].out = p.out
      BY FlagsLevel
    <2> QED
      BY <2>1, ChatSteps
  <1> DEFINE q == [p EXCEPT !.timer2 = FALSE]
  <1>2. Near(p, q) /\ Chat(p, q) /\ q \in Port
    BY <1>1 DEF Near
  <1> HIDE DEF q
  <1>3. Chat(q, Paccodsup(q, "final")) /\ Near(q, Paccodsup(q, "final"))
    BY <1>2, PaccodsupChat DEF PFs
  <1>4. Chat(p, Paccodsup(p, "response")) /\ Near(p, Paccodsup(p, "response"))
    BY PaccodsupChat DEF PFs
  <1>5. Chat(p, Paccodsup(q, "final")) /\ Near(p, Paccodsup(q, "final"))
    BY <1>2, <1>3, ChatSteps, NearSteps
  <1> QED
    BY <1>1, <1>4, <1>5 DEF AnswerInf, q

LEMMA PollWaitingChat ==
    ASSUME NEW p \in Port, Linked(p)
    PROVE  Chat(p, PollWaiting(p)) /\ PollWaiting(p).lstate \in {p.lstate, "disc_request"}
  <1> DEFINE r == Countdown(p.retries)
             q == [p EXCEPT !.retries = r]
  <1>1. r \in -1 .. Retry + 1 /\ p.vs \in Numbers /\ p.v1s \in Numbers /\ Retry \in Nat \ {0}
    BY CountdownIs, PortAssumption DEF Port
  <1> HIDE DEF r
  <1>2. Level(p, q) /\ Chat(p, q) /\ q \in Port /\ q.lstate = p.lstate
    <2>1. Level(p, q)
      BY <1>1, FlagsLevel
    <2> HIDE DEF q
    <2> QED
      BY <2>1, ChatSteps DEF Level, Near
  <1> HIDE DEF q
  <1>3. Linked(q)
    BY <1>2 DEF Linked
  <1> DEFINE d == [q EXCEPT !.lstate = "disc_request", !.retries = 1, !.timer1 = TRUE]
             e == Send(d, U("DISC", "poll"))
  <1>4. Chat(q, e) /\ e.lstate = "disc_request"
    <2>1. "disc_request" \in LStates /\ 1 \in -1 .. Retry + 1
      BY <1>1, StateSets
    <2>2. d \in Port /\ SameTx(q, d) /\ SameRx(q, d) /\ d.lstate = "disc_request" /\ d.out = q.out
      BY <1>2, <2>1 DEF Port, SameTx, SameRx
    <2> HIDE DEF d
    <2>3. Phase(q, d)
      BY <1>3, <2>2 DEF Phase, Linked
    <2>4. Chat(q, d)
      BY <2>2, <2>3 DEF Chat
    <2>5. U("DISC", "poll") \in Says(d)
      BY <2>2, SaysThese DEF Plain, PFs
    <2>6. Chat(d, e) /\ Near(d, e)
      BY <2>2, <2>5, SendChat
    <2> QED
      BY <2>2, <2>4, <2>6, ChatSteps DEF Near
  <1> HIDE DEF e
  <1> DEFINE v == [q EXCEPT !.v2s = p.vs]
             i == Infosend(v, "poll", p.v1s, p.vs)
             s == Paccodsup(q, "poll")
  <1>5. Chat(q, [i EXCEPT !.timer1 = TRUE]) /\ [i EXCEPT !.timer1 = TRUE].lstate = q.lstate
    <2>1. Level(q, v) /\ v \in Port /\ Linked(v)
      BY <1>1, <1>2, <1>3, FlagsLevel DEF Level, Near, Linked
    <2> HIDE DEF v
    <2>2. Chat(v, i) /\ Near(v, i)
      BY <1>1, <2>1, InfosendChat DEF PFs
    <2> HIDE DEF i
    <2>3. Level(i, [i EXCEPT !.timer1 = TRUE])
      BY <2>2, FlagsLevel DEF Chat
    <2> QED
      BY <2>1, <2>2, <2>3, ChatSteps DEF Level, Near
  <1>6. Chat(q, [s EXCEPT !.timer1 = TRUE]) /\ [s EXCEPT !.timer1 = TRUE].lstate = q.lstate
    <2>1. Chat(q, s) /\ Near(q, s)
      BY <1>2, PaccodsupChat DEF PFs
    <2> HIDE DEF s
    <2>2. Level(s, [s EXCEPT !.timer1 = TRUE])
      BY <2>1, FlagsLevel DEF Chat
    <2> QED
      BY <2>1, <2>2, ChatSteps DEF Level, Near
  <1>7. PollWaiting(p) =
           IF r = 0 THEN e
           ELSE IF /\ IPoll /\ p.txinfptr[p.v1s] # NoInfo
                   /\ Outstanding(p) = 1 /\ Retry - r < 4
                THEN [i EXCEPT !.timer1 = TRUE]
                ELSE [s EXCEPT !.timer1 = TRUE]
    BY DEF PollWaiting, e, d, i, v, s, q, r
  <1> HIDE DEF i, s
  <1>8. /\ Chat(p, e) /\ Chat(p, [i EXCEPT !.timer1 = TRUE]) /\ Chat(p, [s EXCEPT !.timer1 = TRUE])
    BY <1>2, <1>4, <1>5, <1>6, ChatSteps
  <1> QED
    BY <1>2, <1>4, <1>5, <1>6, <1>7, <1>8

\* what rnrfrei and chrin do; a port that is not busy says nothing
LEMMA ChrinChat ==
    ASSUME NEW p \in Port
    PROVE  /\ Chat(p, Chrin(p)) /\ Near(p, Chrin(p))
           /\ ~p.busy => Chrin(p).out = p.out /\ Chrin(p).timer2 = p.timer2 /\ ~Chrin(p).busy
  <1> DEFINE q == IF p.busy /\ p.rxlen <= MaxRx \div 2 THEN Rnrfrei(p) ELSE p
             l == IF q.rxlen > 0 THEN q.rxlen - 1 ELSE 0
  <1>1. Chat(p, Rnrfrei(p)) /\ Near(p, Rnrfrei(p))
    <2> DEFINE b == [p EXCEPT !.busy = FALSE]
               s == Paccodsup(b, "response")
    <2>1. Near(p, b) /\ Chat(p, b) /\ b \in Port
      <3>1. Near(p, b) /\ b.out = p.out
        BY FlagsLevel
      <3> HIDE DEF b
      <3> QED
        BY <3>1, ChatSteps DEF Near
    <2> HIDE DEF b
    <2>2. Chat(b, s) /\ Near(b, s)
      BY <2>1, PaccodsupChat DEF PFs
    <2> HIDE DEF s
    <2>3. Level(s, [s EXCEPT !.timer1 = TRUE])
      BY <2>2, FlagsLevel DEF Chat
    <2>4. Rnrfrei(p) = [s EXCEPT !.timer1 = TRUE]
      BY DEF Rnrfrei, s, b
    <2> QED
      BY <2>1, <2>2, <2>3, <2>4, ChatSteps, NearSteps DEF Level
  <1>2. Chat(p, q) /\ Near(p, q) /\ q \in Port
    BY <1>1, FlagsLevel, ChatSteps DEF Level, Near
  <1>3. ~p.busy => q = p
    OBVIOUS
  <1> HIDE DEF q
  <1>4. l \in Nat
    <2>1. q.rxlen \in Nat
      BY <1>2 DEF Port
    <2> QED
      BY <2>1
  <1>5. Chrin(p) = [q EXCEPT !.rxlen = l]
    BY DEF Chrin, q
  <1> HIDE DEF l
  <1>6. Level(q, [q EXCEPT !.rxlen = l])
    BY <1>2, <1>4 DEF Level, Near, SameTx, SameRx, Port
  <1> QED
    BY <1>2, <1>3, <1>5, <1>6, ChatSteps, NearSteps DEF Level

\* what is left of a port when its connection is over
Gone(p, q) ==
    /\ q \in Port /\ q.lstate = "disconnected" /\ q.out = p.out
    /\ q.sess = p.sess /\ q.sub = p.sub /\ q.acked = p.acked /\ q.got = p.got /\ q.overrun = p.overrun
    /\ q.vr = 0 /\ q.sammler = [n \in Numbers |-> NoInfo] /\ ~q.timer2 /\ ~q.busy
    /\ q.vs = 0 /\ q.v1s = 0 /\ q.txinfout = <<>> /\ q.txinfptr = [n \in Numbers |-> NoInfo]

LEMMA LresetGone ==
    ASSUME NEW p \in Port, p.lstate = "disconnected"
    PROVE  Gone(p, Lreset(p))
  <1>1. Lreset(p) \in Port /\ Lreset(p).lstate = "disconnected"
    BY LresetIs, StateSets
  <1>2. /\ Lreset(p).sess = p.sess /\ Lreset(p).sub = p.sub /\ Lreset(p).acked = p.acked
        /\ Lreset(p).got = p.got /\ Lreset(p).overrun = p.overrun /\ Lreset(p).out = p.out
    BY DEF Lreset, Idle
  <1>3. /\ Lreset(p).vr = 0 /\ Lreset(p).sammler = [n \in Numbers |-> NoInfo] /\ Lreset(p).timer2 = FALSE
        /\ Lreset(p).busy = FALSE
    BY DEF Lreset, Idle
  <1>4. /\ Lreset(p).vs = 0 /\ Lreset(p).v1s = 0 /\ Lreset(p).txinfout = <<>>
        /\ Lreset(p).txinfptr = [n \in Numbers |-> NoInfo]
    BY DEF Lreset, Idle
  <1> QED
    BY <1>1, <1>2, <1>3, <1>4 DEF Gone

LEMMA DodiscGone ==
    ASSUME NEW p \in Port
    PROVE  Gone(p, Dodisc(p))
  <1> DEFINE q == IF p.lstate = "link_setup" THEN Linkmsg(p, "failure")
                  ELSE IF p.lstate # "disconnected" THEN Linkmsg(p, "disconnected") ELSE p
             r == [q EXCEPT !.lstate = "disconnected"]
  <1>1. Level(p, q) /\ q \in Port
    <2>1. Level(p, Linkmsg(p, "failure")) /\ Level(p, Linkmsg(p, "disconnected")) /\ Level(p, p)
      BY FlagsLevel DEF Messages
    <2>2. Level(p, q)
      BY <2>1
    <2> HIDE DEF q
    <2> QED
      BY <2>2 DEF Level, Near
  <1> HIDE DEF q
  <1>2. r \in Port /\ SameTx(q, r) /\ SameRx(q, r) /\ r.lstate = "disconnected" /\ r.out = q.out
    BY <1>1, LstateNear, StateSets
  <1> HIDE DEF r
  <1>3. Gone(r, Lreset(r))
    BY <1>2, LresetGone
  <1>4. Dodisc(p) = Lreset(r)
    BY DEF Dodisc, r, q
  <1> QED
    BY <1>1, <1>2, <1>3, <1>4 DEF Gone, Level, Near, SameTx, SameRx

-----------------------------------------------------------------------------
(* The window of the sending side.                                         *)

\* the pieces that have got their number; the others wait in txinfout
V(p) == p.sub - Len(p.txinfout)

Window(p) ==
    /\ p.acked <= V(p) /\ V(p) <= p.acked + MaxFrame
    /\ p.v1s = p.acked % M /\ p.vs = V(p) % M
    /\ \A i \in 1 .. Len(p.txinfout) : p.txinfout[i] = <<p.sess, V(p) + i>>
    /\ \A n \in Numbers :
          p.txinfptr[n] = IF Minus(n, p.v1s) < V(p) - p.acked
                          THEN <<p.sess, p.acked + Minus(n, p.v1s) + 1>> ELSE NoInfo

LEMMA WindowSame ==
    ASSUME NEW p, NEW q, SameTx(p, q)
    PROVE  V(q) = V(p) /\ (Window(p) => Window(q))
  BY DEF SameTx, V, Window

LEMMA PortTypes ==
    ASSUME NEW p \in Port
    PROVE  /\ p.vr \in Numbers /\ p.vs \in Numbers /\ p.v1s \in Numbers
           /\ p.sub \in Nat /\ p.acked \in Nat /\ p.sess \in Nat /\ p.rxlen \in Nat
           /\ p.txinfout \in Seq(Pieces) /\ p.got \in Seq(Pieces) /\ Len(p.txinfout) \in Nat /\ V(p) \in Int
           /\ p.txinfptr \in [Numbers -> Infos] /\ p.sammler \in [Numbers -> Infos]
           /\ p.qsumme \in [Numbers -> Sums] /\ p.out \in Seq(GoodFrames)
           /\ p.overrun \in BOOLEAN /\ p.busy \in BOOLEAN /\ p.timer2 \in BOOLEAN /\ p.qtimer \in BOOLEAN
           /\ p.lstate \in LStates
  <1>1. /\ p.vr \in Numbers /\ p.vs \in Numbers /\ p.v1s \in Numbers
        /\ p.sub \in Nat /\ p.acked \in Nat /\ p.sess \in Nat /\ p.rxlen \in Nat
        /\ p.txinfout \in Seq(Pieces) /\ p.got \in Seq(Pieces)
        /\ p.txinfptr \in [Numbers -> Infos] /\ p.sammler \in [Numbers -> Infos]
        /\ p.qsumme \in [Numbers -> Sums] /\ p.out \in Seq(GoodFrames)
        /\ p.overrun \in BOOLEAN /\ p.busy \in BOOLEAN /\ p.timer2 \in BOOLEAN /\ p.qtimer \in BOOLEAN
        /\ p.lstate \in LStates
    BY DEF Port
  <1>2. Len(p.txinfout) \in Nat
    BY <1>1
  <1> QED
    BY <1>1, <1>2 DEF V

LEMMA Parameters ==
    /\ M \in Nat /\ M >= 2 /\ MaxFrame \in Nat /\ MaxFrame >= 1 /\ MaxFrame < M
    /\ Retry \in Nat /\ Retry >= 1 /\ NoInfo \notin Pieces /\ MaxAir \in Nat /\ MaxAir >= 1
  BY PortAssumption, LinkAssumption DEF Pieces

\* d numbers follow on v
LEMMA CountNumbers ==
    ASSUME NEW v \in Numbers
    PROVE  \A d \in Nat : d <= M => Cardinality({n \in Numbers : Minus(n, v) < d}) = d
  <1> DEFINE B(d) == {n \in Numbers : Minus(n, v) < d}
             Right == {d \in Nat : d <= M => IsFiniteSet(B(d)) /\ Cardinality(B(d)) = d}
  <1>0. M \in Nat /\ M >= 2 /\ \A n \in Numbers : Minus(n, v) \in Nat /\ Minus(n, v) < M
    BY Parameters, MinusIs DEF Numbers
  <1>1. 0 \in Right
    <2>1. B(0) = {}
      BY <1>0
    <2> QED
      BY <2>1, FS_EmptySet
  <1>2. ASSUME NEW d \in Nat, d \in Right PROVE d + 1 \in Right
    <2> SUFFICES ASSUME d + 1 <= M PROVE IsFiniteSet(B(d + 1)) /\ Cardinality(B(d + 1)) = d + 1
      OBVIOUS
    <2>1. IsFiniteSet(B(d)) /\ Cardinality(B(d)) = d
      <3>1. d <= M
        BY <1>0
      <3> QED
        BY <1>2, <3>1
    <2>2. d \in 0 .. M /\ d \in 0 .. M - 1
      BY <1>0
    <2>3. Plus(v, d) \in Numbers /\ Plus(v, d) = IF v + d < M THEN v + d ELSE v + d - M
      BY <2>2, PlusIs
    <2>4. \A n \in Numbers : Minus(n, v) = d <=> n = Plus(v, d)
      <3> SUFFICES ASSUME NEW n \in Numbers PROVE Minus(n, v) = d <=> n = Plus(v, d)
        OBVIOUS
      <3>1. Minus(n, v) = IF n >= v THEN n - v ELSE M + n - v
        BY MinusIs
      <3>2. n \in Nat /\ n < M /\ v \in Nat /\ v < M
        BY <1>0 DEF Numbers
      <3> QED
        BY <1>0, <2>2, <2>3, <3>1, <3>2
    <2>5. \A n \in Numbers : Minus(n, v) < d + 1 <=> (Minus(n, v) < d \/ Minus(n, v) = d)
      BY <1>0
    <2>6. \A n \in Numbers : Minus(n, v) = d => ~(Minus(n, v) < d)
      BY <1>0
    <2>7. B(d + 1) = B(d) \cup {Plus(v, d)}
      BY <2>3, <2>4, <2>5
    <2>8. Plus(v, d) \notin B(d)
      BY <2>3, <2>4, <2>6
    <2> HIDE DEF B
    <2> QED
      BY <2>1, <2>7, <2>8, FS_AddElement
  <1> HIDE DEF Right
  <1>3. Nat \subseteq Right
    BY <1>1, <1>2, SetInduction
  <1> QED
    BY <1>3 DEF Right

\* infack for the receiving side of the port and for what it sends
LEMMA InfackRx ==
    ASSUME NEW p \in Port, NEW nr \in Numbers
    PROVE  LET q == Infack(p, nr) IN
           /\ q \in Port /\ SameRx(p, q) /\ q.out = p.out /\ q.lstate \in {p.lstate, "frame_reject"}
           /\ q.qtimer = p.qtimer /\ q.rxlen = p.rxlen /\ q.busy = p.busy /\ q.timer2 = p.timer2
           /\ q.sess = p.sess /\ q.sub = p.sub /\ q.txinfout = p.txinfout /\ q.vs = p.vs /\ q.v1s = nr
           /\ q.txinfptr = [n \in Numbers |-> IF n \in Acked(p, nr) THEN NoInfo ELSE p.txinfptr[n]]
           /\ q.acked = p.acked + Cardinality({n \in Acked(p, nr) : p.txinfptr[n] # NoInfo})
           /\ (\A n \in Acked(p, nr) : p.txinfptr[n] # NoInfo) => q.lstate = p.lstate
  <1> DEFINE inf == [n \in Numbers |-> IF n \in Acked(p, nr) THEN NoInfo ELSE p.txinfptr[n]]
             l == IF \E n \in Acked(p, nr) : p.txinfptr[n] = NoInfo THEN "frame_reject" ELSE p.lstate
             a == p.acked + Cardinality({n \in Acked(p, nr) : p.txinfptr[n] # NoInfo})
             q == [p EXCEPT !.txinfptr = inf, !.lstate = l, !.v1s = nr, !.acked = a]
  <1>1. Infack(p, nr) = IF q.vs = nr /\ q.lstate # "wait_ack" THEN Stopt1(q) ELSE q
    BY DEF Infack
  <1>2. Infack(p, nr) \in Port /\ Infack(p, nr).lstate \in {p.lstate, "frame_reject"}
    BY InfackIs
  <1>3. (\A n \in Acked(p, nr) : p.txinfptr[n] # NoInfo) => l = p.lstate
    OBVIOUS
  <1> HIDE DEF inf, l, a
  <1>4. Infack(p, nr) \in {q, [q EXCEPT !.timer1 = FALSE]}
    BY <1>1 DEF Stopt1
  <1>5. \A z \in {q, [q EXCEPT !.timer1 = FALSE]} :
           /\ SameRx(p, z) /\ z.out = p.out /\ z.lstate = l
           /\ z.qtimer = p.qtimer /\ z.rxlen = p.rxlen /\ z.busy = p.busy /\ z.timer2 = p.timer2
           /\ z.sess = p.sess /\ z.sub = p.sub /\ z.txinfout = p.txinfout /\ z.vs = p.vs
           /\ z.v1s = nr /\ z.txinfptr = inf /\ z.acked = a
    <2>1. /\ SameRx(p, q) /\ q.out = p.out /\ q.lstate = l
          /\ q.qtimer = p.qtimer /\ q.rxlen = p.rxlen /\ q.busy = p.busy /\ q.timer2 = p.timer2
      BY DEF SameRx, Port
    <2>2. /\ q.sess = p.sess /\ q.sub = p.sub /\ q.txinfout = p.txinfout /\ q.vs = p.vs
          /\ q.v1s = nr /\ q.txinfptr = inf /\ q.acked = a
      BY DEF Port
    <2> DEFINE z == [q EXCEPT !.timer1 = FALSE]
    <2>3. /\ SameRx(q, z) /\ z.out = q.out /\ z.lstate = q.lstate
          /\ z.qtimer = q.qtimer /\ z.rxlen = q.rxlen /\ z.busy = q.busy /\ z.timer2 = q.timer2
      BY DEF SameRx, Port
    <2>4. /\ z.sess = q.sess /\ z.sub = q.sub /\ z.txinfout = q.txinfout /\ z.vs = q.vs
          /\ z.v1s = q.v1s /\ z.txinfptr = q.txinfptr /\ z.acked = q.acked
      BY DEF Port
    <2> HIDE DEF q, z
    <2>5. SameRx(p, z)
      BY <2>1, <2>3, NearSteps
    <2> QED
      BY <2>1, <2>2, <2>3, <2>4, <2>5 DEF z
  <1>6. LET z == Infack(p, nr) IN
           /\ SameRx(p, z) /\ z.out = p.out /\ z.lstate = l
           /\ z.qtimer = p.qtimer /\ z.rxlen = p.rxlen /\ z.busy = p.busy /\ z.timer2 = p.timer2
           /\ z.sess = p.sess /\ z.sub = p.sub /\ z.txinfout = p.txinfout /\ z.vs = p.vs
           /\ z.v1s = nr /\ z.txinfptr = inf /\ z.acked = a
    BY <1>4, <1>5
  <1> QED
    BY <1>2, <1>3, <1>6 DEF inf, a

\* infack for the sending side: a number within the window moves it
LEMMA InfackWindow ==
    ASSUME NEW p \in Port, Window(p), NEW nr \in Numbers, Minus(nr, p.v1s) <= V(p) - p.acked
    PROVE  /\ Infack(p, nr).lstate = p.lstate
           /\ Infack(p, nr).acked = p.acked + Minus(nr, p.v1s)
           /\ V(Infack(p, nr)) = V(p) /\ Window(Infack(p, nr))
  <1> DEFINE q == Infack(p, nr)
             d == Minus(nr, p.v1s)
             w == V(p) - p.acked
             A == Acked(p, nr)
  <1>1. /\ q \in Port /\ q.sess = p.sess /\ q.sub = p.sub /\ q.txinfout = p.txinfout
        /\ q.vs = p.vs /\ q.v1s = nr
        /\ q.txinfptr = [n \in Numbers |-> IF n \in A THEN NoInfo ELSE p.txinfptr[n]]
        /\ q.acked = p.acked + Cardinality({n \in A : p.txinfptr[n] # NoInfo})
        /\ (\A n \in A : p.txinfptr[n] # NoInfo) => q.lstate = p.lstate
    BY InfackRx
  <1>2. /\ p.v1s \in Numbers /\ p.acked \in Nat /\ p.sess \in Nat /\ V(p) \in Int
        /\ d \in Numbers /\ d \in Nat /\ d < M /\ d <= w /\ w \in Nat /\ w <= MaxFrame /\ w < M
        /\ M \in Nat /\ M >= 2 /\ NoInfo \notin Pieces /\ MaxFrame \in Nat
    <2>1. p.v1s \in Numbers /\ p.acked \in Nat /\ p.sess \in Nat /\ V(p) \in Int
      BY PortTypes
    <2>2. d \in Numbers /\ d \in Nat /\ d < M
      BY <2>1, MinusRange
    <2>3. w \in Nat /\ w <= MaxFrame
      BY <2>1, Parameters DEF Window
    <2> HIDE DEF w
    <2>4. d <= w
      BY DEF w, d
    <2> HIDE DEF d
    <2> QED
      BY <2>1, <2>2, <2>3, <2>4, Parameters
  <1>3. A = {n \in Numbers : Minus(n, p.v1s) < d}
    BY DEF Acked
  <1>4. \A n \in Numbers : /\ Minus(n, p.v1s) \in Nat /\ Minus(n, p.v1s) < M
                           /\ p.txinfptr[n] = IF Minus(n, p.v1s) < w
                                              THEN <<p.sess, p.acked + Minus(n, p.v1s) + 1>> ELSE NoInfo
    <2>1. \A n \in Numbers : Minus(n, p.v1s) \in Nat /\ Minus(n, p.v1s) < M
      BY <1>2, MinusRange
    <2> QED
      BY <2>1 DEF Window
  <1> HIDE DEF q, d, w, A
  <1>5. \A n \in Numbers : Minus(n, p.v1s) < w => p.txinfptr[n] # NoInfo
    <2> TAKE n \in Numbers
    <2> HAVE Minus(n, p.v1s) < w
    <2>0. Minus(n, p.v1s) \in Nat
      BY <1>4
    <2> DEFINE e == Minus(n, p.v1s)
    <2> HIDE DEF e
    <2>1. p.acked + Minus(n, p.v1s) + 1 \in Nat
      <3>1. p.acked + e + 1 \in Nat
        BY <1>2, <2>0 DEF e
      <3> QED
        BY <3>1 DEF e
    <2>2. p.txinfptr[n] = <<p.sess, p.acked + Minus(n, p.v1s) + 1>>
      BY <1>4
    <2> QED
      BY <1>2, <2>1, <2>2 DEF Pieces
  <1>6. \A n \in A : p.txinfptr[n] # NoInfo
    <2> TAKE n \in A
    <2>1. n \in Numbers /\ Minus(n, p.v1s) < d
      BY <1>3
    <2>2. Minus(n, p.v1s) < w
      <3>1. Minus(n, p.v1s) \in Nat
        BY <1>4, <2>1
      <3> DEFINE e == Minus(n, p.v1s)
      <3>2. e \in Nat /\ e < d
        BY <2>1, <3>1
      <3> HIDE DEF e
      <3>3. e < w
        BY <1>2, <3>2
      <3> QED
        BY <3>3 DEF e
    <2> QED
      BY <1>5, <2>1, <2>2
  <1>7. {n \in A : p.txinfptr[n] # NoInfo} = A /\ Cardinality(A) = d
    <2>1. {n \in A : p.txinfptr[n] # NoInfo} = A
      BY <1>6
    <2>2. Cardinality({n \in Numbers : Minus(n, p.v1s) < d}) = d
      <3>1. d <= M
        BY <1>2
      <3> QED
        BY <1>2, <3>1, CountNumbers
    <2> QED
      BY <1>3, <2>1, <2>2
  <1>8. q.acked = p.acked + d /\ q.lstate = p.lstate /\ V(q) = V(p)
    BY <1>1, <1>6, <1>7 DEF V
  <1>9. nr = q.acked % M
    <2>1. nr = (p.acked + d) % M
      <3>1. (p.acked + Minus(nr, p.acked % M)) % M = nr
        BY <1>2, SlotIs
      <3>2. p.v1s = p.acked % M
        BY DEF Window
      <3> QED
        BY <3>1, <3>2 DEF d
    <2> QED
      BY <1>8, <2>1
  <1>10. \A n \in Numbers :
            q.txinfptr[n] = IF Minus(n, nr) < V(q) - q.acked
                            THEN <<q.sess, q.acked + Minus(n, nr) + 1>> ELSE NoInfo
    <2> SUFFICES ASSUME NEW n \in Numbers
                 PROVE  q.txinfptr[n] = IF Minus(n, nr) < V(q) - q.acked
                                        THEN <<q.sess, q.acked + Minus(n, nr) + 1>> ELSE NoInfo
      OBVIOUS
    <2> DEFINE e == Minus(n, p.v1s)
               e2 == Minus(n, nr)
    <2>3. e \in Nat /\ e < M /\ e2 \in Nat /\ e2 < M
      BY <1>2, MinusRange
    <2>4. n \in A <=> e < d
      BY <1>3
    <2>5. q.txinfptr[n] = IF e < d THEN NoInfo ELSE p.txinfptr[n]
      BY <1>1, <2>4
    <2>6. p.txinfptr[n] = IF e < w THEN <<p.sess, p.acked + e + 1>> ELSE NoInfo
      BY <1>4
    <2> HIDE DEF e, e2
    <2>7. IF e < d THEN e2 = e - d + M ELSE e2 = e - d
      BY <1>2, MinusFrom DEF e, e2, d
    <2>8. V(q) - q.acked = w - d
      BY <1>2, <1>8 DEF w
    <2>9. CASE e < d
      <3>1. e2 >= w - d
        BY <1>2, <2>3, <2>7, <2>9
      <3> QED
        BY <1>2, <2>3, <2>5, <2>8, <2>9, <3>1 DEF e2
    <2>10. CASE ~(e < d)
      <3>1. e2 = e - d /\ (e2 < w - d <=> e < w) /\ q.acked + e2 + 1 = p.acked + e + 1
        BY <1>2, <1>8, <2>3, <2>7, <2>10
      <3> QED
        BY <1>1, <2>5, <2>6, <2>8, <2>10, <3>1 DEF e2
    <2> QED
      BY <2>9, <2>10
  <1>11. Window(q)
    <2>1. q.acked <= V(q) /\ V(q) <= q.acked + MaxFrame
      BY <1>2, <1>8 DEF w
    <2>2. q.vs = V(q) % M /\ \A i \in 1 .. Len(q.txinfout) : q.txinfout[i] = <<q.sess, V(q) + i>>
      BY <1>1, <1>8 DEF Window
    <2> QED
      BY <1>1, <1>9, <1>10, <2>1, <2>2 DEF Window
  <1> QED
    BY <1>8, <1>11 DEF q, d

-----------------------------------------------------------------------------
(* New data enter the window.                                              *)

\* frames whose number is what p expects next
Hears(p) == {f \in GoodFrames : f.type # "SABM" /\ (f.type \in Numbered => f.nr = p.vr)}

\* frame f carries piece n + 1 of the port, with its number
Carries(p, f, n) == f.info = <<p.sess, n + 1>> /\ f.ns = n % M

\* I frames of the window
Fits(p) ==
    {f \in GoodFrames :
        /\ f.type # "SABM"
        /\ f.type = "I" => Linked(p) /\ \E n \in Nat : Carries(p, f, n) /\ p.acked <= n /\ n < V(p)}

\* the receiving side is as before
RxChat(p, q) ==
    /\ q \in Port /\ SameRx(p, q) /\ (q.lstate = p.lstate \/ (Linked(p) /\ Linked(q)))
    /\ ToSet(q.out) \subseteq ToSet(p.out) \cup Hears(p)

\* the sending side may have put more data into its window
Grows(p, q) ==
    /\ q \in Port /\ q.sess = p.sess /\ q.sub = p.sub /\ q.acked = p.acked /\ Phase(p, q)
    /\ Window(p) => /\ Window(q) /\ V(p) <= V(q)
                    /\ ToSet(q.out) \subseteq ToSet(p.out) \cup Fits(q)

LEMMA WindowFrames ==
    ASSUME NEW p \in Port, Window(p)
    PROVE  Says(p) \subseteq Fits(p)
  <1> SUFFICES ASSUME NEW f \in Says(p), f.type = "I"
               PROVE  \E n \in Nat : Carries(p, f, n) /\ p.acked <= n /\ n < V(p)
    BY DEF Says, Fits
  <1> DEFINE d == Minus(f.ns, p.v1s)
             n == p.acked + d
  <1>1. f.ns \in Numbers /\ p.v1s \in Numbers /\ p.acked \in Nat /\ V(p) \in Int
    BY PortTypes DEF Says, GoodFrames, Frame
  <1>2. d \in Nat
    BY <1>1, MinusRange
  <1>3. n % M = f.ns
    BY <1>1, SlotIs DEF Window
  <1>4. f.info = p.txinfptr[f.ns] /\ p.txinfptr[f.ns] # NoInfo
    BY DEF Says
  <1>5. p.txinfptr[f.ns] = IF d < V(p) - p.acked THEN <<p.sess, p.acked + d + 1>> ELSE NoInfo
    BY <1>1 DEF Window
  <1> HIDE DEF d
  <1>6. d < V(p) - p.acked /\ f.info = <<p.sess, n + 1>> /\ n \in Nat
    BY <1>1, <1>2, <1>4, <1>5
  <1>7. p.acked <= n /\ n < V(p)
    BY <1>1, <1>2, <1>6
  <1> HIDE DEF n
  <1> QED
    BY <1>3, <1>6, <1>7 DEF Carries

LEMMA ChatIs ==
    ASSUME NEW p \in Port, NEW q, Chat(p, q)
    PROVE  RxChat(p, q) /\ Grows(p, q)
  <1>1. Says(p) \subseteq Hears(p)
    BY DEF Says, Hears
  <1>2. RxChat(p, q)
    BY <1>1 DEF Chat, RxChat, Phase
  <1>3. V(q) = V(p) /\ V(p) \in Int /\ (Window(p) => Window(q))
    BY WindowSame, PortTypes DEF Chat
  <1>4. Says(q) = Says(p)
    BY SaysSame DEF Chat
  <1>5. Window(p) => Says(p) \subseteq Fits(q)
    BY <1>3, <1>4, WindowFrames DEF Chat
  <1>6. V(p) <= V(q)
    BY <1>3
  <1> QED
    BY <1>2, <1>3, <1>5, <1>6 DEF Grows, Chat, SameTx

LEMMA RxChatSteps ==
    \A p, q, r : RxChat(p, q) /\ RxChat(q, r) => RxChat(p, r)
  <1> SUFFICES ASSUME NEW p, NEW q, NEW r, RxChat(p, q), RxChat(q, r) PROVE RxChat(p, r)
    OBVIOUS
  <1>1. Hears(q) = Hears(p)
    BY DEF Hears, RxChat, SameRx
  <1>2. r.lstate = p.lstate \/ (Linked(p) /\ Linked(r))
    BY DEF RxChat, Linked
  <1>3. SameRx(p, r)
    BY NearSteps DEF RxChat
  <1> QED
    BY <1>1, <1>2, <1>3 DEF RxChat

LEMMA GrowsSteps ==
    ASSUME NEW p \in Port, NEW q, NEW r, Grows(p, q), Grows(q, r)
    PROVE  Grows(p, r)
  <1>1. Phase(p, r) /\ (Linked(q) <=> Linked(r))
    BY DEF Grows, Phase, Linked
  <1>2. ASSUME Window(p)
        PROVE  Window(r) /\ V(p) <= V(r) /\ ToSet(r.out) \subseteq ToSet(p.out) \cup Fits(r)
    <2>1. Window(q) /\ Window(r) /\ V(p) <= V(q) /\ V(q) <= V(r)
      BY <1>2 DEF Grows
    <2>2. V(p) \in Int /\ V(q) \in Int /\ V(r) \in Int
      BY PortTypes DEF Grows
    <2>3. \A n \in Nat : n < V(q) => n < V(r)
      BY <2>1, <2>2
    <2>4. q.sess = r.sess /\ q.acked = r.acked
      BY DEF Grows
    <2>5. Fits(q) \subseteq Fits(r)
      BY <1>1, <2>3, <2>4 DEF Fits, Carries
    <2>6. V(p) <= V(r)
      BY <2>1, <2>2
    <2> QED
      BY <1>2, <2>1, <2>5, <2>6 DEF Grows
  <1> QED
    BY <1>1, <1>2 DEF Grows

\* putinfo before it sends
Loaded(p, k) ==
    [p EXCEPT
        !.txinfptr = [n \in Numbers |-> IF Minus(n, p.vs) < k
                                        THEN p.txinfout[Minus(n, p.vs) + 1] ELSE @[n]],
        !.txinfout = SubSeq(@, k + 1, Len(@)),
        !.vs = Plus(@, k), !.v2s = Plus(p.vs, k), !.retries = Retry]

LEMMA LoadedIs ==
    ASSUME NEW p \in Port, NEW k \in Nat, k <= Len(p.txinfout), k < M
    PROVE  LET q == Loaded(p, k) IN
           /\ q \in Port /\ SameRx(p, q) /\ q.lstate = p.lstate /\ q.out = p.out
           /\ q.sess = p.sess /\ q.sub = p.sub /\ q.acked = p.acked /\ q.v1s = p.v1s
           /\ q.txinfptr = [n \in Numbers |-> IF Minus(n, p.vs) < k
                                              THEN p.txinfout[Minus(n, p.vs) + 1] ELSE p.txinfptr[n]]
           /\ q.txinfout = SubSeq(p.txinfout, k + 1, Len(p.txinfout))
           /\ q.vs = Plus(p.vs, k)
  <1> DEFINE inf == [n \in Numbers |-> IF Minus(n, p.vs) < k
                                       THEN p.txinfout[Minus(n, p.vs) + 1] ELSE p.txinfptr[n]]
             rest == SubSeq(p.txinfout, k + 1, Len(p.txinfout))
             v == Plus(p.vs, k)
             q == [p EXCEPT !.txinfptr = inf, !.txinfout = rest, !.vs = v, !.v2s = v, !.retries = Retry]
  <1>1. /\ p.vs \in Numbers /\ p.txinfout \in Seq(Pieces) /\ p.txinfptr \in [Numbers -> Infos]
        /\ Retry \in Nat /\ M \in Nat
    BY PortTypes, Parameters
  <1>2. v \in Numbers
    <2>1. k \in 0 .. M
      BY <1>1
    <2> QED
      BY <1>1, <2>1, PlusIs
  <1>3. inf \in [Numbers -> Infos]
    <2>1. ASSUME NEW n \in Numbers, Minus(n, p.vs) < k
          PROVE  p.txinfout[Minus(n, p.vs) + 1] \in Pieces
      <3>1. Minus(n, p.vs) \in Nat
        BY <1>1, MinusRange
      <3>2. Minus(n, p.vs) + 1 \in 1 .. Len(p.txinfout)
        BY <1>1, <2>1, <3>1
      <3> QED
        BY <1>1, <3>2
    <2>2. \A n \in Numbers : p.txinfptr[n] \in Infos
      BY <1>1
    <2> QED
      BY <2>1, <2>2 DEF Infos
  <1>4. rest \in Seq(Pieces)
    BY <1>1
  <1>5. Retry \in -1 .. Retry + 1
    BY <1>1
  <1>6. Loaded(p, k) = q
    BY DEF Loaded
  <1> HIDE DEF inf, rest, v
  <1>7. q \in Port /\ SameRx(p, q) /\ q.lstate = p.lstate /\ q.out = p.out
    BY <1>2, <1>3, <1>4, <1>5 DEF Port, SameRx
  <1>8. /\ q.sess = p.sess /\ q.sub = p.sub /\ q.acked = p.acked /\ q.v1s = p.v1s
        /\ q.txinfptr = inf /\ q.txinfout = rest /\ q.vs = v
    BY DEF Port
  <1> QED
    BY <1>6, <1>7, <1>8 DEF inf, rest, v

LEMMA LoadedWindow ==
    ASSUME NEW p \in Port, NEW k \in Nat, k <= Len(p.txinfout), k < M, Window(p),
           V(p) - p.acked + k <= MaxFrame
    PROVE  Window(Loaded(p, k)) /\ V(Loaded(p, k)) = V(p) + k
  <1> DEFINE q == Loaded(p, k)
             w == V(p) - p.acked
             out == p.txinfout
             l == Len(out)
  <1>1. /\ q.sess = p.sess /\ q.sub = p.sub /\ q.acked = p.acked /\ q.v1s = p.v1s
        /\ q.txinfptr = [n \in Numbers |-> IF Minus(n, p.vs) < k THEN out[Minus(n, p.vs) + 1]
                                           ELSE p.txinfptr[n]]
        /\ q.txinfout = SubSeq(out, k + 1, l) /\ q.vs = Plus(p.vs, k)
    BY LoadedIs
  <1>2. /\ p.v1s \in Numbers /\ p.vs \in Numbers /\ p.acked \in Nat /\ p.sess \in Nat /\ p.sub \in Nat
        /\ V(p) \in Int /\ out \in Seq(Pieces) /\ l \in Nat
    BY PortTypes
  <1>3. /\ w \in Nat /\ w + k <= MaxFrame /\ V(p) \in Nat /\ w < M
    BY <1>2, Parameters DEF Window
  <1>4. Len(q.txinfout) = l - k /\ \A i \in 1 .. l - k : q.txinfout[i] = out[k + i]
    <2>1. Len(SubSeq(out, k + 1, l)) = l - k
      BY <1>2
    <2>2. \A i \in 1 .. l - k : SubSeq(out, k + 1, l)[i] = out[k + i]
      <3> TAKE i \in 1 .. l - k
      <3>1. i \in 1 .. (l - (k + 1)) + 1 /\ (k + 1) + i - 1 = k + i
        BY <1>2
      <3> QED
        BY <1>2, <3>1
    <2> QED
      BY <1>1, <2>1, <2>2
  <1> HIDE DEF q
  <1>5. V(q) = V(p) + k
    BY <1>1, <1>2, <1>4 DEF V
  <1>6. \A i \in 1 .. l : out[i] = <<p.sess, V(p) + i>>
    BY DEF Window
  <1>7. \A i \in 1 .. Len(q.txinfout) : q.txinfout[i] = <<q.sess, V(q) + i>>
    <2> TAKE i \in 1 .. Len(q.txinfout)
    <2>0. i \in 1 .. l - k
      BY <1>4
    <2> HIDE DEF l
    <2>1. i \in 1 .. l - k /\ k + i \in 1 .. l /\ V(p) + (k + i) = (V(p) + k) + i
      <3>1. i \in Nat /\ i >= 1 /\ i <= l - k
        BY <1>2, <2>0
      <3>2. k + i \in 1 .. l
        BY <1>2, <3>1
      <3>3. V(p) + (k + i) = (V(p) + k) + i
        BY <1>3, <3>1
      <3> QED
        BY <2>0, <3>2, <3>3
    <2>2. q.txinfout[i] = <<p.sess, V(p) + (k + i)>>
      BY <1>4, <1>6, <2>1
    <2> QED
      BY <1>1, <1>5, <2>1, <2>2
  <1>8. q.vs = V(q) % M
    <2>1. k \in 0 .. M
      BY Parameters
    <2>2. Plus(V(p) % M, k) = (V(p) + k) % M
      BY <1>3, <2>1, ModPlus
    <2> QED
      BY <1>1, <1>5, <2>2 DEF Window
  <1>9. Minus(p.vs, p.v1s) = w
    <2>1. p.acked <= V(p) /\ V(p) < p.acked + M
      BY <1>2, <1>3, Parameters DEF Window
    <2>2. Minus(V(p) % M, p.acked % M) = V(p) - p.acked
      BY <1>2, <1>3, <2>1, ModApart
    <2> QED
      BY <2>2 DEF Window
  <1>10. ASSUME NEW n \in Numbers
         PROVE  q.txinfptr[n] = IF Minus(n, q.v1s) < V(q) - q.acked
                                THEN <<q.sess, q.acked + Minus(n, q.v1s) + 1>> ELSE NoInfo
    <2> DEFINE e == Minus(n, p.v1s)
               g == Minus(n, p.vs)
    <2>1. e \in Nat /\ e < M /\ g \in Nat /\ g < M
      BY <1>2, MinusRange
    <2>2. g = IF e < w THEN e - w + M ELSE e - w
      BY <1>2, <1>9, MinusFrom
    <2>3. q.txinfptr[n] = IF g < k THEN out[g + 1] ELSE p.txinfptr[n]
      BY <1>1
    <2>4. p.txinfptr[n] = IF e < w THEN <<p.sess, p.acked + e + 1>> ELSE NoInfo
      BY DEF Window
    <2>5. V(q) - q.acked = w + k
      BY <1>1, <1>2, <1>5
    <2> HIDE DEF e, g, w
    <2>6. g < k => g + 1 \in 1 .. l
      BY <1>2, <2>1
    <2>7. g < k => out[g + 1] = <<p.sess, V(p) + (g + 1)>>
      BY <1>6, <2>6
    <2>8. V(p) = p.acked + w
      BY <1>2 DEF w
    <2>9. CASE e < w
      <3>1. ~(g < k) /\ e < w + k
        BY <1>3, <2>1, <2>2, <2>9, Parameters
      <3> QED
        BY <1>1, <2>3, <2>4, <2>5, <2>9, <3>1 DEF e
    <2>10. CASE ~(e < w) /\ g < k
      <3>0. g = e - w /\ w \in Nat /\ p.acked \in Nat
        BY <1>2, <1>3, <2>2, <2>10
      <3>1. e < w + k /\ V(p) + (g + 1) = p.acked + e + 1
        BY <2>1, <2>8, <2>10, <3>0
      <3> QED
        BY <1>1, <2>3, <2>5, <2>7, <2>10, <3>1 DEF e
    <2>11. CASE ~(e < w) /\ ~(g < k)
      <3>1. ~(e < w + k)
        BY <1>2, <1>3, <2>1, <2>2, <2>11
      <3> QED
        BY <1>1, <2>3, <2>4, <2>5, <2>11, <3>1 DEF e
    <2> QED
      BY <2>9, <2>10, <2>11
  <1>11. q.acked <= V(q) /\ V(q) <= q.acked + MaxFrame
    BY <1>1, <1>2, <1>3, <1>5, Parameters
  <1>12. q.v1s = q.acked % M
    BY <1>1 DEF Window
  <1>13. Window(q)
    BY <1>7, <1>8, <1>10, <1>11, <1>12 DEF Window
  <1> QED
    BY <1>5, <1>13 DEF q

LEMMA PutinfoChat ==
    ASSUME NEW p \in Port, NEW k \in Nat, k <= Len(p.txinfout), k < M, Linked(p) \/ k = 0
    PROVE  /\ RxChat(p, Putinfo(p, k))
           /\ (Window(p) => V(p) - p.acked + k <= MaxFrame) => Grows(p, Putinfo(p, k))
  <1>0. Chat(p, p) /\ RxChat(p, p) /\ Grows(p, p)
    BY FlagsLevel, ChatSteps, ChatIs
  <1>1. CASE k = 0
    BY <1>0, <1>1 DEF Putinfo
  <1>2. CASE k # 0
    <2> DEFINE q == Loaded(p, k)
    <2>1. Putinfo(p, k) = Infosend(q, "command", p.vs, q.vs)
      BY <1>2 DEF Putinfo, Loaded
    <2>2. /\ q \in Port /\ SameRx(p, q) /\ q.lstate = p.lstate /\ q.out = p.out
          /\ q.sess = p.sess /\ q.sub = p.sub /\ q.acked = p.acked /\ q.v1s = p.v1s
      BY LoadedIs
    <2>3. Window(p) /\ V(p) - p.acked + k <= MaxFrame => Window(q) /\ V(q) = V(p) + k
      BY LoadedWindow
    <2> HIDE DEF q
    <2>4. V(p) \in Int /\ p.vs \in Numbers /\ q.vs \in Numbers
      BY <2>2, PortTypes
    <2>5. RxChat(p, q) /\ Linked(q)
      BY <1>2, <2>2 DEF RxChat, Phase, Linked
    <2>6. (Window(p) => V(p) - p.acked + k <= MaxFrame) => Grows(p, q)
      <3>1. V(p) <= V(p) + k
        BY <2>4
      <3> QED
        BY <2>2, <2>3, <3>1 DEF Grows, Phase
    <2> DEFINE r == Infosend(q, "command", p.vs, q.vs)
    <2>7. Chat(q, r)
      BY <2>2, <2>4, <2>5, InfosendChat DEF PFs
    <2> HIDE DEF r
    <2>8. RxChat(q, r) /\ Grows(q, r)
      BY <2>2, <2>7, ChatIs
    <2>9. RxChat(p, r)
      BY <2>5, <2>8, RxChatSteps
    <2>10. (Window(p) => V(p) - p.acked + k <= MaxFrame) => Grows(p, r)
      BY <2>6, <2>8, GrowsSteps
    <2> QED
      BY <2>1, <2>9, <2>10 DEF r
  <1> QED
    BY <1>1, <1>2

LEMMA TryinfoChat ==
    ASSUME NEW p \in Port, Up(p)
    PROVE  RxChat(p, Tryinfo(p)) /\ Grows(p, Tryinfo(p))
  <1> DEFINE room == Room(p)
             l == Len(p.txinfout)
             k == Min({room, l})
             q == Putinfo(p, k)
  <1>1. /\ l \in Nat /\ p.vs \in Numbers /\ p.v1s \in Numbers /\ p.acked \in Nat /\ V(p) \in Int
        /\ Outstanding(p) \in Nat /\ Outstanding(p) < M
    <2>1. p.vs \in Numbers /\ p.v1s \in Numbers
      BY PortTypes
    <2> QED
      BY <2>1, PortTypes, MinusRange DEF Outstanding
  <1>2. /\ room \in Nat /\ room < M /\ (room # 0 => Linked(p) /\ room + Outstanding(p) <= MaxFrame)
    <2> DEFINE d == MaxFrame - Outstanding(p)
               r == Max({0, d})
    <2>1. d \in Int /\ d < M /\ d + Outstanding(p) = MaxFrame
      BY <1>1, Parameters
    <2>2. Room(p) = IF p.lstate \in {"info_transfer", "rej_sent"} /\ ~p.rembusy THEN r ELSE 0
      BY DEF Room
    <2> HIDE DEF d
    <2>3. r \in {0, d} /\ r >= 0
      <3>1. \E x \in {0, d} : \A y \in {0, d} : x >= y
        BY <2>1
      <3>2. r \in {0, d} /\ \A y \in {0, d} : r >= y
        BY <3>1 DEF Max
      <3> QED
        BY <3>2
    <2> HIDE DEF r
    <2>4. room \in Nat /\ room < M
      BY <2>1, <2>2, <2>3, Parameters
    <2>5. room # 0 => room = d /\ Linked(p)
      BY <2>2, <2>3 DEF Linked
    <2> QED
      BY <2>1, <2>4, <2>5, Parameters
  <1> HIDE DEF room
  <1>3. k \in Nat /\ k <= room /\ k <= l
    <2>1. room \in Int /\ l \in Int
      BY <1>1, <1>2
    <2> HIDE DEF l
    <2>2. k \in {room, l} /\ k <= room /\ k <= l
      BY <2>1, MinOf
    <2> QED
      BY <1>1, <1>2, <2>2 DEF l
  <1> HIDE DEF k
  <1>4. k < M /\ (Linked(p) \/ k = 0)
    <2>1. k < M
      BY <1>2, <1>3, Parameters
    <2>2. room = 0 => k = 0
      BY <1>2, <1>3
    <2> QED
      BY <1>2, <2>1, <2>2
  <1>5. Window(p) => V(p) - p.acked + k <= MaxFrame
    <2> SUFFICES ASSUME Window(p) PROVE V(p) - p.acked + k <= MaxFrame
      OBVIOUS
    <2>1. p.acked <= V(p) /\ V(p) <= p.acked + MaxFrame /\ V(p) \in Nat
      BY <1>1 DEF Window
    <2>2. V(p) < p.acked + M
      BY <1>1, <2>1, Parameters
    <2>3. Minus(V(p) % M, p.acked % M) = V(p) - p.acked
      BY <1>1, <2>1, <2>2, ModApart
    <2>4. Outstanding(p) = V(p) - p.acked
      BY <2>3 DEF Outstanding, Window
    <2>5. CASE room = 0
      <3>1. k = 0
        BY <1>2, <1>3, <2>5
      <3> QED
        BY <1>1, <2>1, <3>1, Parameters
    <2>6. CASE room # 0
      BY <1>1, <1>2, <1>3, <2>1, <2>4, <2>6, Parameters
    <2> QED
      BY <2>5, <2>6
  <1>6. RxChat(p, q) /\ Grows(p, q)
    BY <1>3, <1>4, <1>5, PutinfoChat
  <1>7. Tryinfo(p) = IF (q.vs # q.v1s \/ q.txinfout # <<>>) /\ ~q.timer1 /\ ~q.rembusy
                     THEN Restt1(q) ELSE q
    BY DEF Tryinfo, Up, k, room
  <1> HIDE DEF q
  <1>8. q \in Port
    BY <1>6 DEF RxChat
  <1>9. RxChat(q, Restt1(q)) /\ Grows(q, Restt1(q))
    BY <1>8, Restt1Chat, ChatIs
  <1>10. RxChat(p, Restt1(q))
    BY <1>6, <1>9, RxChatSteps
  <1>11. Grows(p, Restt1(q))
    BY <1>6, <1>9, GrowsSteps
  <1> QED
    BY <1>6, <1>7, <1>10, <1>11

\* without a connection the data that wait are thrown away
LEMMA TryinfoDown ==
    ASSUME NEW p \in Port, ~Up(p)
    PROVE  LET q == Tryinfo(p) IN
           /\ q \in Port /\ SameRx(p, q) /\ q.lstate = p.lstate /\ q.out = p.out
           /\ q.sess = p.sess /\ q.sub = p.sub /\ q.acked = p.acked
           /\ q.timer2 = p.timer2 /\ q.busy = p.busy /\ q.vs = p.vs /\ q.v1s = p.v1s
  <1> DEFINE q == [p EXCEPT !.txinfout = <<>>]
  <1>1. Tryinfo(p) = IF (q.vs # q.v1s \/ q.txinfout # <<>>) /\ ~q.timer1 /\ ~q.rembusy
                     THEN Restt1(q) ELSE q
    BY DEF Tryinfo, Up
  <1>2. <<>> \in Seq(Pieces)
    OBVIOUS
  <1>3. /\ q \in Port /\ SameRx(p, q) /\ q.lstate = p.lstate /\ q.out = p.out
        /\ q.sess = p.sess /\ q.sub = p.sub /\ q.acked = p.acked
        /\ q.timer2 = p.timer2 /\ q.busy = p.busy /\ q.vs = p.vs /\ q.v1s = p.v1s
    BY <1>2 DEF Port, SameRx
  <1> HIDE DEF q
  <1>4. Level(q, Restt1(q))
    BY <1>3, Restt1Chat
  <1> QED
    BY <1>1, <1>3, <1>4, NearSteps DEF Level, Near, SameTx

-----------------------------------------------------------------------------
(* The end of a connection.                                                *)

Blank(p) == p.vr = 0 /\ p.sammler = [n \in Numbers |-> NoInfo] /\ ~p.timer2 /\ ~p.busy
Off(p) == ~Up(p) => Blank(p)
Still(p) == ~Up(p) => p.vs = p.v1s

PlainFrames == {f \in GoodFrames : f.type \in Plain}

\* p sends no number; its connection may end, and its data stay what they are
Hush(p, q) ==
    /\ q \in Port
    /\ q.sess = p.sess /\ q.sub = p.sub /\ q.acked = p.acked
    /\ q.got = p.got /\ q.overrun = p.overrun
    /\ Up(q) => Up(p) /\ SameTx(p, q) /\ SameRx(p, q)
    /\ (Off(p) => Off(q)) /\ (Still(p) => Still(q))
    /\ q.lstate \in {"link_setup", "frame_reject"} => q.lstate = p.lstate
    /\ ToSet(q.out) \subseteq ToSet(p.out) \cup PlainFrames

LEMMA HushSteps ==
    ASSUME NEW p, NEW q, NEW r, Hush(p, q), Hush(q, r)
    PROVE  Hush(p, r)
  <1>1. Up(r) => Up(p) /\ SameTx(p, r) /\ SameRx(p, r)
    BY NearSteps DEF Hush
  <1>2. ToSet(r.out) \subseteq ToSet(p.out) \cup PlainFrames
    BY DEF Hush
  <1> QED
    BY <1>1, <1>2 DEF Hush

LEMMA LevelHush ==
    ASSUME NEW p, NEW q, Level(p, q)
    PROVE  Hush(p, q)
  <1>1. Up(q) <=> Up(p)
    BY DEF Level, Near, Up
  <1>2. (Off(p) => Off(q)) /\ (Still(p) => Still(q))
    BY <1>1 DEF Off, Blank, Still, Level, Near, SameRx, SameTx
  <1> QED
    BY <1>1, <1>2 DEF Level, Near, Hush, SameTx, SameRx

LEMMA DodiscHush ==
    ASSUME NEW p \in Port
    PROVE  Hush(p, Dodisc(p)) /\ ~Up(Dodisc(p))
  <1>1. Gone(p, Dodisc(p))
    BY DodiscGone
  <1> QED
    BY <1>1 DEF Gone, Hush, Up, Off, Blank, Still

LEMMA SendHush ==
    ASSUME NEW p \in Port, NEW type \in Plain, NEW pf \in PFs
    PROVE  Hush(p, Send(p, U(type, pf))) /\ Send(p, U(type, pf)).lstate = p.lstate
  <1> DEFINE f == U(type, pf)
             q == Send(p, f)
  <1>1. f \in PlainFrames
    <2>1. f \in GoodFrames
      BY FramesOf DEF Plain, PFs
    <2>2. f.type = type
      BY DEF U
    <2> QED
      BY <2>1, <2>2 DEF PlainFrames
  <1> HIDE DEF f
  <1>2. Near(p, q) /\ ToSet(q.out) = ToSet(p.out) \cup {f} /\ q.timer2 = p.timer2 /\ q.busy = p.busy
    BY <1>1, SendNear DEF PlainFrames
  <1> HIDE DEF q
  <1>3. (Off(p) => Off(q)) /\ (Still(p) => Still(q))
    BY <1>2 DEF Near, Off, Up, Blank, Still, SameRx, SameTx
  <1>4. Hush(p, q)
    BY <1>1, <1>2, <1>3 DEF Near, Hush, SameTx, SameRx, Up
  <1> QED
    BY <1>2, <1>4 DEF Near, q, f

LEMMA DisconnectHush ==
    ASSUME NEW p \in Port, NEW mode
    PROVE  Hush(p, Disconnect(p, mode))
  <1> DEFINE s == Send(p, U("DISC", "poll"))
             t == [p EXCEPT !.lstate = "disc_request", !.qtimer = FALSE, !.timer2 = FALSE,
                            !.retries = Retry \div 4]
             u == Send(t, U("DISC", "poll"))
  <1>1. \/ Disconnect(p, mode) = [p EXCEPT !.qtimer = FALSE]
        \/ Disconnect(p, mode) = Dodisc(p)
        \/ Disconnect(p, mode) = Dodisc(s)
        \/ Disconnect(p, mode) = [p EXCEPT !.qtimer = TRUE]
        \/ Disconnect(p, mode) = p
        \/ p.lstate \in Transfer /\ Disconnect(p, mode) = Restt1(u)
    BY DEF Disconnect
  <1>2. Hush(p, [p EXCEPT !.qtimer = FALSE]) /\ Hush(p, [p EXCEPT !.qtimer = TRUE]) /\ Hush(p, p)
    <2>1. Level(p, [p EXCEPT !.qtimer = FALSE]) /\ Level(p, [p EXCEPT !.qtimer = TRUE]) /\ Level(p, p)
      BY FlagsLevel
    <2> QED
      BY <2>1, LevelHush
  <1>3. Hush(p, Dodisc(p))
    BY DodiscHush
  <1>4. Hush(p, Dodisc(s))
    <2>1. Hush(p, s)
      BY SendHush DEF Plain, PFs
    <2> HIDE DEF s
    <2>2. Hush(s, Dodisc(s))
      BY <2>1, DodiscHush DEF Hush
    <2> QED
      BY <2>1, <2>2, HushSteps
  <1>5. ASSUME p.lstate \in Transfer PROVE Hush(p, Restt1(u))
    <2>1. Retry \div 4 \in -1 .. Retry + 1 /\ "disc_request" \in LStates
      BY Parameters, StateSets
    <2>2. t \in Port /\ SameTx(p, t) /\ SameRx(p, t) /\ t.lstate = "disc_request" /\ t.out = p.out
      BY <2>1 DEF Port, SameTx, SameRx
    <2> HIDE DEF t
    <2>3. Up(p) /\ Up(t) /\ Off(t) /\ Still(t)
      BY <1>5, <2>2, StateSets DEF Up, Off, Still
    <2>4. Hush(p, t)
      BY <2>2, <2>3 DEF Hush, SameTx, SameRx
    <2>5. Hush(t, u)
      BY <2>2, <2>3, SendHush DEF Plain, PFs
    <2> HIDE DEF u
    <2>6. Level(u, Restt1(u))
      BY <2>5, Restt1Chat DEF Hush
    <2>7. Hush(u, Restt1(u))
      BY <2>6, LevelHush
    <2> QED
      BY <2>4, <2>5, <2>7, HushSteps
  <1> HIDE DEF s, u
  <1> QED
    BY <1>1, <1>2, <1>3, <1>4, <1>5

-----------------------------------------------------------------------------
(* Timer 1, and the frames with a number.                                  *)

\* t1tout repeats a request, polls, gives up, or asks for a link once more
LEMMA T1toutIs ==
    ASSUME NEW p \in Port
    PROVE  \/ Linked(p) /\ Chat(p, T1tout(p))
           \/ Hush(p, T1tout(p))
           \/ /\ p.lstate = "link_setup" /\ Near(p, T1tout(p))
              /\ ToSet(T1tout(p).out) = ToSet(p.out) \cup {U("SABM", "poll")}
  <1> DEFINE r == Countdown(p.retries)
             q == [p EXCEPT !.retries = r]
  <1>1. r \in -1 .. Retry + 1 /\ Retry \in -1 .. Retry + 1
    <2>1. p.retries \in -1 .. Retry + 1
      BY DEF Port
    <2> QED
      BY <2>1, CountdownIs, Parameters
  <1> HIDE DEF r
  <1>2. Level(p, q)
    BY <1>1, FlagsLevel
  <1>3. q \in Port /\ Hush(p, q) /\ q.lstate = p.lstate
    <2> HIDE DEF q
    <2>1. Hush(p, q)
      BY <1>2, LevelHush
    <2> QED
      BY <1>2, <2>1 DEF Level, Near, Hush
  <1>4. CASE p.lstate \in {"info_transfer", "rej_sent"}
    <2> DEFINE w == [p EXCEPT !.lstate = "wait_ack", !.retries = Retry]
    <2>1. T1tout(p) = PollWaiting(w)
      BY <1>4 DEF T1tout
    <2>2. "wait_ack" \in LStates
      BY StateSets
    <2>3. w \in Port /\ SameTx(p, w) /\ SameRx(p, w) /\ w.lstate = "wait_ack" /\ w.out = p.out
      BY <1>1, <2>2 DEF Port, SameTx, SameRx
    <2> HIDE DEF w
    <2>4. Linked(p) /\ Linked(w) /\ Chat(p, w)
      BY <1>4, <2>3 DEF Linked, Chat, Phase
    <2>5. Chat(w, PollWaiting(w))
      BY <2>3, <2>4, PollWaitingChat
    <2> QED
      BY <2>1, <2>4, <2>5, ChatSteps
  <1>5. CASE p.lstate = "wait_ack"
    <2>1. T1tout(p) = PollWaiting(p) /\ Linked(p)
      BY <1>5 DEF T1tout, Linked
    <2> QED
      BY <2>1, PollWaitingChat
  <1>6. CASE p.lstate = "frame_reject"
    <2> DEFINE s == Send(p, U("FRMR", "response"))
               t == [s EXCEPT !.lstate = "disc_request", !.retries = 2, !.timer1 = TRUE]
    <2>1. T1tout(p) = t
      BY <1>6 DEF T1tout
    <2>2. Hush(p, s) /\ s.lstate = p.lstate
      BY SendHush DEF Plain, PFs
    <2> HIDE DEF s
    <2>3. "disc_request" \in LStates /\ 2 \in -1 .. Retry + 1
      BY StateSets, Parameters
    <2>4. t \in Port /\ SameTx(s, t) /\ SameRx(s, t) /\ t.lstate = "disc_request" /\ t.out = s.out
      BY <2>2, <2>3 DEF Hush, Port, SameTx, SameRx
    <2> HIDE DEF t
    <2>5. Up(s) /\ Up(t)
      BY <1>6, <2>2, <2>4 DEF Up
    <2>6. Hush(s, t)
      BY <2>4, <2>5 DEF Hush, SameTx, SameRx, Off, Still
    <2> QED
      BY <2>1, <2>2, <2>6, HushSteps
  <1>7. CASE p.lstate = "disc_request"
    <2> DEFINE s == Send(q, U("DISC", "poll"))
    <2>1. T1tout(p) = IF r # 0 THEN [s EXCEPT !.timer1 = TRUE] ELSE Dodisc(q)
      <3>1. q.retries = r
        BY DEF Port
      <3> QED
        BY <1>7, <3>1 DEF T1tout, r
    <2> HIDE DEF q
    <2>2. Hush(q, s)
      BY <1>3, SendHush DEF Plain, PFs
    <2> HIDE DEF s
    <2>3. Level(s, [s EXCEPT !.timer1 = TRUE])
      BY <2>2, FlagsLevel DEF Hush
    <2>4. Hush(s, [s EXCEPT !.timer1 = TRUE])
      BY <2>2, <2>3, LevelHush DEF Hush
    <2>5. Hush(p, [s EXCEPT !.timer1 = TRUE])
      BY <1>3, <2>2, <2>4, HushSteps
    <2>6. Hush(p, Dodisc(q))
      BY <1>3, DodiscHush, HushSteps
    <2> QED
      BY <2>1, <2>5, <2>6
  <1>8. CASE p.lstate = "link_setup"
    <2> DEFINE s == Send(q, U("SABM", "poll"))
               d == Send(q, U("DISC", "poll"))
               e == [d EXCEPT !.lstate = "disconnected"]
    <2>1. T1tout(p) = IF r # 0 THEN [s EXCEPT !.timer1 = TRUE] ELSE Lreset(Linkmsg(e, "failure"))
      <3>1. q.retries = r
        BY DEF Port
      <3> QED
        BY <1>8, <3>1 DEF T1tout, r
    <2> HIDE DEF q
    <2>2. Near(q, s) /\ ToSet(s.out) = ToSet(q.out) \cup {U("SABM", "poll")}
      BY <1>3, FramesOf, SendNear
    <2> HIDE DEF s
    <2>3. Level(s, [s EXCEPT !.timer1 = TRUE])
      BY <2>2, FlagsLevel DEF Near
    <2>4. /\ Near(p, [s EXCEPT !.timer1 = TRUE])
          /\ ToSet([s EXCEPT !.timer1 = TRUE].out) = ToSet(p.out) \cup {U("SABM", "poll")}
      BY <1>2, <2>2, <2>3, NearSteps DEF Level
    <2>5. Hush(q, d)
      BY <1>3, SendHush DEF Plain, PFs
    <2> HIDE DEF d
    <2>6. e \in Port /\ SameTx(d, e) /\ SameRx(d, e) /\ e.lstate = "disconnected" /\ e.out = d.out
      BY <2>5, LstateNear, StateSets DEF Hush
    <2> HIDE DEF e
    <2> DEFINE g == Linkmsg(e, "failure")
    <2>7. Level(e, g)
      BY <2>6, FlagsLevel DEF Messages
    <2> HIDE DEF g
    <2>8. Gone(g, Lreset(g))
      BY <2>6, <2>7, LresetGone DEF Level, Near
    <2>9. Hush(d, Lreset(g))
      BY <2>6, <2>7, <2>8 DEF Gone, Level, Near, SameTx, SameRx, Hush, Up, Off, Blank, Still
    <2>10. Hush(p, Lreset(g))
      BY <1>3, <2>5, <2>9, HushSteps
    <2> QED
      BY <1>8, <2>1, <2>4, <2>10 DEF g
  <1>9. CASE p.lstate = "disconnected"
    <2>1. T1tout(p) = p
      BY <1>9 DEF T1tout
    <2>2. Level(p, p)
      BY FlagsLevel
    <2> QED
      BY <2>1, <2>2, LevelHush
  <1>10. p.lstate \in LStates
    BY DEF Port
  <1> QED
    BY <1>4, <1>5, <1>6, <1>7, <1>8, <1>9, <1>10, StateSets

\* pacdecsup after infack
LEMMA SupRest ==
    ASSUME NEW p \in Port, p.lstate \in Transfer, NEW f \in GoodFrames
    PROVE  LET a == Infack(p, f.nr) IN
           /\ a \in Port /\ Linked(a) /\ Chat(a, Pacdecsup(p, f))
  <1> DEFINE waited == p.lstate = "wait_ack" /\ f.pf = "final"
             a == Infack(p, f.nr)
             b == IF ~waited THEN a
                  ELSE IF a.vs = a.v1s THEN [Stopt1(a) EXCEPT !.lstate = "info_transfer"]
                  ELSE [a EXCEPT !.lstate = "info_transfer"]
             u == Plus(b.v1s, 1)
             c == IF b.v1s # b.vs /\ (b.v2s = b.vs \/ f.pf = "final") /\ f.type = "REJ"
                  THEN [Infosend([b EXCEPT !.v2s = u], "command", b.v1s, u)
                          EXCEPT !.retries = Retry, !.wasrej = TRUE]
                  ELSE IF (waited \/ (b.vs # b.v2s /\ b.wasrej)) /\ b.vs # b.v1s /\ ~b.rembusy
                  THEN [Infosend([b EXCEPT !.v2s = b.vs], "command", b.v1s, b.vs)
                          EXCEPT !.retries = Retry]
                  ELSE [b EXCEPT !.v2s = b.vs]
             d == CASE f.pf = "poll" -> Paccodsup(c, "final")
                    [] f.pf = "command" -> Paccodsup(c, "response")
                    [] OTHER -> c
             rem == f.type = "RNR"
             t1 == rem \/ d.timer1
  <1>1. Pacdecsup(p, f) = [d EXCEPT !.rembusy = rem, !.timer1 = t1]
    BY DEF Pacdecsup
  <1>2. f.nr \in Numbers
    BY DEF GoodFrames, Frame
  <1>3. a \in Port /\ a.lstate \in {p.lstate, "frame_reject"}
    BY <1>2, InfackIs
  <1>4. Linked(a)
    BY <1>3, StateSets DEF Linked
  <1> HIDE DEF a
  <1>5. Chat(a, b) /\ Linked(b)
    <2>1. \A x \in Port : Linked(x) =>
             Chat(x, [x EXCEPT !.lstate = "info_transfer"]) /\ Linked([x EXCEPT !.lstate = "info_transfer"])
      <3> SUFFICES ASSUME NEW x \in Port, Linked(x)
                   PROVE  /\ Chat(x, [x EXCEPT !.lstate = "info_transfer"])
                          /\ Linked([x EXCEPT !.lstate = "info_transfer"])
        OBVIOUS
      <3> DEFINE y == [x EXCEPT !.lstate = "info_transfer"]
      <3>1. y \in Port /\ SameTx(x, y) /\ SameRx(x, y) /\ y.lstate = "info_transfer" /\ y.out = x.out
        BY LstateNear, StateSets
      <3> HIDE DEF y
      <3>2. Linked(y) /\ Chat(x, y)
        BY <3>1 DEF Linked, Chat, Phase
      <3> QED
        BY <3>2 DEF y
    <2> DEFINE s == Stopt1(a)
    <2>2. Chat(a, s) /\ s \in Port /\ Linked(s)
      BY <1>3, <1>4, Restt1Chat DEF Level, Near, Linked
    <2>3. Chat(a, a)
      BY <1>3, FlagsLevel, ChatSteps
    <2> HIDE DEF s
    <2>4. Chat(s, [s EXCEPT !.lstate = "info_transfer"]) /\ Linked([s EXCEPT !.lstate = "info_transfer"])
      BY <2>1, <2>2
    <2>5. Chat(a, [s EXCEPT !.lstate = "info_transfer"])
      BY <2>2, <2>4, ChatSteps
    <2>6. Chat(a, [a EXCEPT !.lstate = "info_transfer"]) /\ Linked([a EXCEPT !.lstate = "info_transfer"])
      BY <1>3, <1>4, <2>1
    <2> HIDE DEF waited
    <2>7. b \in {a, [s EXCEPT !.lstate = "info_transfer"], [a EXCEPT !.lstate = "info_transfer"]}
      BY DEF s
    <2> HIDE DEF b
    <2> QED
      BY <1>4, <2>3, <2>4, <2>5, <2>6, <2>7
  <1> HIDE DEF waited, b
  <1>6. b \in Port /\ b.vs \in Numbers /\ b.v1s \in Numbers /\ u \in Numbers
    <2>1. b \in Port
      BY <1>5 DEF Chat
    <2>2. 1 \in 0 .. M
      BY Parameters
    <2>3. b.vs \in Numbers /\ b.v1s \in Numbers
      BY <2>1, PortTypes
    <2> QED
      BY <2>1, <2>2, <2>3, PlusIs
  <1> HIDE DEF u
  <1>7. \A n \in Numbers, v \in Numbers : \A w \in BOOLEAN :
           /\ Chat(b, [Infosend([b EXCEPT !.v2s = v], "command", b.v1s, n) EXCEPT !.retries = Retry, !.wasrej = w])
           /\ Chat(b, [Infosend([b EXCEPT !.v2s = v], "command", b.v1s, n) EXCEPT !.retries = Retry])
    <2> TAKE n \in Numbers, v \in Numbers
    <2> TAKE w \in BOOLEAN
    <2> DEFINE e == [b EXCEPT !.v2s = v]
               i == Infosend(e, "command", b.v1s, n)
    <2>1. Level(b, e)
      BY <1>6, FlagsLevel
    <2> HIDE DEF e
    <2>2. e \in Port /\ Linked(e) /\ Chat(b, e)
      BY <1>5, <2>1, ChatSteps DEF Level, Near, Linked
    <2>3. Chat(e, i)
      BY <1>6, <2>2, InfosendChat DEF PFs
    <2> HIDE DEF i
    <2>4. Chat(b, i) /\ i \in Port
      BY <2>2, <2>3, ChatSteps DEF Chat
    <2> DEFINE j == [i EXCEPT !.retries = Retry]
    <2>5. Retry \in -1 .. Retry + 1
      BY Parameters
    <2>6. Level(i, j)
      BY <2>4, <2>5, FlagsLevel
    <2>7. Level(i, [i EXCEPT !.retries = Retry, !.wasrej = w])
      BY <2>4, <2>5 DEF Level, Near, SameTx, SameRx, Port
    <2> HIDE DEF j
    <2>8. Chat(b, j)
      BY <2>4, <2>6, ChatSteps
    <2> DEFINE k == [i EXCEPT !.retries = Retry, !.wasrej = w]
    <2>9. Level(i, k)
      BY <2>7
    <2> HIDE DEF k
    <2>10. Chat(b, k)
      BY <2>4, <2>9, ChatSteps
    <2> QED
      BY <2>8, <2>10 DEF e, i, j, k
  <1>8. Chat(b, c)
    <2>1. Chat(b, [Infosend([b EXCEPT !.v2s = u], "command", b.v1s, u) EXCEPT !.retries = Retry, !.wasrej = TRUE])
      BY <1>6, <1>7
    <2>2. Chat(b, [Infosend([b EXCEPT !.v2s = b.vs], "command", b.v1s, b.vs) EXCEPT !.retries = Retry])
      BY <1>6, <1>7
    <2>3. Chat(b, [b EXCEPT !.v2s = b.vs])
      <3> DEFINE e == [b EXCEPT !.v2s = b.vs]
      <3>1. Level(b, e)
        BY <1>6, FlagsLevel
      <3> HIDE DEF e
      <3>2. Chat(b, e)
        BY <3>1, ChatSteps
      <3> QED
        BY <3>2 DEF e
    <2> QED
      BY <2>1, <2>2, <2>3
  <1> HIDE DEF c
  <1>9. Chat(c, d)
    <2>1. c \in Port
      BY <1>8 DEF Chat
    <2>2. Chat(c, Paccodsup(c, "final")) /\ Chat(c, Paccodsup(c, "response"))
      BY <2>1, PaccodsupChat DEF PFs
    <2>3. Chat(c, c)
      BY <2>1, FlagsLevel, ChatSteps
    <2> QED
      BY <2>2, <2>3
  <1> HIDE DEF d
  <1>10. Level(d, [d EXCEPT !.rembusy = rem, !.timer1 = t1])
    <2>1. d \in Port
      BY <1>9 DEF Chat
    <2>2. rem \in BOOLEAN /\ t1 \in BOOLEAN
      BY <2>1 DEF Port
    <2> HIDE DEF rem, t1
    <2> QED
      BY <2>1, <2>2 DEF Level, Near, SameTx, SameRx, Port
  <1> HIDE DEF rem, t1
  <1> DEFINE g == [d EXCEPT !.rembusy = rem, !.timer1 = t1]
  <1>11. Chat(d, g)
    <2> HIDE DEF g
    <2> QED
      BY <1>10, ChatSteps DEF g
  <1>12. Chat(a, g)
    <2> HIDE DEF g
    <2>1. Chat(a, c)
      BY <1>5, <1>8, ChatSteps
    <2>2. Chat(a, d)
      BY <1>9, <2>1, ChatSteps
    <2> QED
      BY <1>11, <2>2, ChatSteps
  <1> QED
    BY <1>1, <1>3, <1>4, <1>12 DEF a

-----------------------------------------------------------------------------
(* What the sending station does with its port.                            *)

NoData == {f \in GoodFrames : f.type \notin {"I", "SABM"}}

\* nothing is sent of the data, and the window is what it was
TxHush(p, q) ==
    /\ q \in Port
    /\ q.sess = p.sess /\ q.sub = p.sub /\ q.acked = p.acked
    /\ Up(q) => Up(p) /\ SameTx(p, q)
    /\ Still(p) => Still(q)
    /\ q.lstate \in {"link_setup", "frame_reject"} => q.lstate = p.lstate
    /\ ToSet(q.out) \subseteq ToSet(p.out) \cup NoData

LEMMA HushTx ==
    ASSUME NEW p, NEW q, Hush(p, q)
    PROVE  TxHush(p, q)
  <1>1. PlainFrames \subseteq NoData
    BY DEF PlainFrames, NoData, Plain
  <1> QED
    BY <1>1 DEF Hush, TxHush

LEMMA TxSteps ==
    ASSUME NEW p, NEW q, NEW r, TxHush(p, q), TxHush(q, r)
    PROVE  TxHush(p, r)
  <1>1. Up(r) => Up(p) /\ SameTx(p, r)
    BY NearSteps DEF TxHush
  <1>2. ToSet(r.out) \subseteq ToSet(p.out) \cup NoData
    BY DEF TxHush
  <1> QED
    BY <1>1, <1>2 DEF TxHush

LEMMA LevelTx ==
    ASSUME NEW p, NEW q, Level(p, q) \/ (Near(p, q) /\ q.out = p.out)
    PROVE  TxHush(p, q)
  BY DEF Level, Near, TxHush, SameTx, Still, Up

\* piece n + 1 is sent by q in its window
Sent(q, f, n) ==
    /\ Carries(q, f, n) /\ q.acked <= n /\ n < q.acked + MaxFrame /\ n < q.sub
    /\ Up(q) => n < V(q)

\* x becomes q and may have sent data out of its window
Sends(x, q) ==
    /\ q \in Port
    /\ q.sess = x.sess /\ q.sub = x.sub /\ x.acked <= q.acked
    /\ Up(q) => Up(x) /\ Window(q) /\ V(x) <= V(q)
    /\ Still(x) => Still(q)
    /\ q.lstate \in {"link_setup", "frame_reject"} => q.lstate = x.lstate
    /\ \A f \in ToSet(q.out) :
          /\ f.type # "SABM"
          /\ f.type = "I" => Up(x) /\ q.lstate # "link_setup" /\ \E n \in Nat : Sent(q, f, n)

LEMMA SendsSelf ==
    ASSUME NEW x \in Port, x.out = <<>>, Up(x) => Window(x)
    PROVE  Sends(x, x)
  <1>1. ToSet(<<>>) = {}
    BY DEF ToSet
  <1>2. x.acked \in Nat /\ V(x) \in Int
    BY PortTypes
  <1> QED
    BY <1>1, <1>2 DEF Sends

LEMMA SendsTx ==
    ASSUME NEW x \in Port, NEW p, NEW q, Sends(x, p), TxHush(p, q)
    PROVE  Sends(x, q)
  <1>1. Up(q) => Up(p) /\ Up(x) /\ Window(q) /\ V(q) = V(p) /\ V(x) <= V(q)
    BY WindowSame DEF Sends, TxHush
  <1>2. ASSUME NEW f \in ToSet(q.out)
        PROVE  /\ f.type # "SABM"
               /\ f.type = "I" => Up(x) /\ q.lstate # "link_setup" /\ \E n \in Nat : Sent(q, f, n)
    <2>1. CASE f \in NoData
      BY <2>1 DEF NoData
    <2>2. CASE f \in ToSet(p.out)
      <3>1. f.type # "SABM"
        BY <2>2 DEF Sends
      <3>2. ASSUME f.type = "I"
            PROVE Up(x) /\ q.lstate # "link_setup" /\ \E n \in Nat : Sent(q, f, n)
        <4>1. Up(x) /\ p.lstate # "link_setup" /\ \E n \in Nat : Sent(p, f, n)
          BY <2>2, <3>2 DEF Sends
        <4>2. q.lstate # "link_setup"
          BY <4>1 DEF TxHush
        <4>3. PICK n \in Nat : Sent(p, f, n)
          BY <4>1
        <4>4. Sent(q, f, n)
          BY <1>1, <4>3 DEF Sent, Carries, TxHush
        <4> QED
          BY <4>1, <4>2, <4>4
      <3> QED
        BY <3>1, <3>2
    <2> QED
      BY <1>2, <2>1, <2>2 DEF TxHush
  <1> QED
    BY <1>1, <1>2 DEF Sends, TxHush

LEMMA SendsGrows ==
    ASSUME NEW x \in Port, NEW p \in Port, NEW q, Sends(x, p), Up(p), Grows(p, q)
    PROVE  Sends(x, q)
  <1>1. /\ q \in Port /\ q.sess = p.sess /\ q.sub = p.sub /\ q.acked = p.acked /\ Phase(p, q)
        /\ Window(q) /\ V(p) <= V(q) /\ ToSet(q.out) \subseteq ToSet(p.out) \cup Fits(q)
    BY DEF Sends, Grows
  <1>2. Up(q) /\ (q.lstate \in {"link_setup", "frame_reject"} => q.lstate = p.lstate)
    BY <1>1 DEF Phase, Up, Linked
  <1>3. /\ Up(x) /\ V(x) \in Int /\ V(p) \in Int /\ V(q) \in Int /\ V(x) <= V(p)
        /\ q.sub \in Nat /\ q.acked \in Nat /\ Len(q.txinfout) \in Nat /\ MaxFrame \in Nat
    <2>1. V(p) \in Int /\ V(q) \in Int /\ q.sub \in Nat /\ q.acked \in Nat /\ Len(q.txinfout) \in Nat
      BY <1>1, PortTypes
    <2>2. Up(x) /\ V(x) <= V(p) /\ MaxFrame \in Nat /\ V(x) \in Int
      BY Parameters, PortTypes DEF Sends
    <2> QED
      BY <2>1, <2>2
  <1>4. V(q) <= q.sub /\ V(q) <= q.acked + MaxFrame
    BY <1>1, <1>3 DEF Window, V
  <1>5. ASSUME NEW f \in ToSet(q.out)
        PROVE  /\ f.type # "SABM"
               /\ f.type = "I" => Up(x) /\ q.lstate # "link_setup" /\ \E n \in Nat : Sent(q, f, n)
    <2>1. CASE f \in Fits(q)
      <3>1. f.type # "SABM"
        BY <2>1 DEF Fits
      <3>2. ASSUME f.type = "I"
            PROVE  q.lstate # "link_setup" /\ \E n \in Nat : Sent(q, f, n)
        <4>1. PICK n \in Nat : Carries(q, f, n) /\ q.acked <= n /\ n < V(q)
          BY <2>1, <3>2 DEF Fits
        <4>2. n < q.acked + MaxFrame /\ n < q.sub
          BY <1>3, <1>4, <4>1
        <4>3. Linked(q)
          BY <2>1, <3>2 DEF Fits
        <4> QED
          BY <4>1, <4>2, <4>3 DEF Sent, Linked
      <3> QED
        BY <1>3, <3>1, <3>2
    <2>2. CASE f \in ToSet(p.out)
      <3>1. f.type # "SABM"
        BY <2>2 DEF Sends
      <3>2. ASSUME f.type = "I"
            PROVE  q.lstate # "link_setup" /\ \E n \in Nat : Sent(q, f, n)
        <4>1. p.lstate # "link_setup" /\ \E n \in Nat : Sent(p, f, n)
          BY <2>2, <3>2 DEF Sends
        <4>2. q.lstate # "link_setup"
          BY <1>2, <4>1
        <4>3. PICK n \in Nat : Sent(p, f, n)
          BY <4>1
        <4>4. n < V(q)
          <5>1. n < V(p)
            BY <4>3 DEF Sent
          <5> QED
            BY <1>1, <1>3, <5>1
        <4>5. Sent(q, f, n)
          BY <1>1, <4>3, <4>4 DEF Sent, Carries
        <4> QED
          BY <4>2, <4>5
      <3> QED
        BY <1>3, <3>1, <3>2
    <2> QED
      BY <1>1, <1>5, <2>1, <2>2
  <1>6. Up(q) => Up(x) /\ Window(q) /\ V(x) <= V(q)
    BY <1>1, <1>3
  <1>7. q.sess = x.sess /\ q.sub = x.sub /\ x.acked <= q.acked
    BY <1>1 DEF Sends
  <1>8. q.lstate \in {"link_setup", "frame_reject"} => q.lstate = x.lstate
    BY <1>2 DEF Sends
  <1> QED
    BY <1>1, <1>2, <1>5, <1>6, <1>7, <1>8 DEF Sends, Still

LEMMA SendsChat ==
    ASSUME NEW x \in Port, NEW p \in Port, NEW q, Sends(x, p), Chat(p, q)
    PROVE  Sends(x, q)
  <1>1. CASE Up(p)
    BY <1>1, ChatIs, SendsGrows
  <1>2. CASE ~Up(p)
    <2>1. q.lstate = p.lstate /\ q \in Port /\ SameTx(p, q) /\ ToSet(q.out) \subseteq ToSet(p.out) \cup Says(p)
      BY <1>2 DEF Chat, Phase, Linked, Up
    <2>2. Says(p) \subseteq NoData
      BY <1>2 DEF Says, NoData, Linked, Up
    <2>3. TxHush(p, q)
      BY <2>1, <2>2, <1>2 DEF TxHush, SameTx, Still, Up
    <2> QED
      BY <2>3, SendsTx
  <1> QED
    BY <1>1, <1>2

LEMMA SendsTryinfo ==
    ASSUME NEW x \in Port, NEW p \in Port, Sends(x, p)
    PROVE  Sends(x, Tryinfo(p)) /\ Tryinfo(p).acked = p.acked
  <1>1. CASE Up(p)
    <2>1. Grows(p, Tryinfo(p))
      BY <1>1, TryinfoChat
    <2> QED
      BY <1>1, <2>1, SendsGrows DEF Grows
  <1>2. CASE ~Up(p)
    <2> DEFINE q == Tryinfo(p)
    <2>1. /\ q \in Port /\ q.lstate = p.lstate /\ q.out = p.out
          /\ q.sess = p.sess /\ q.sub = p.sub /\ q.acked = p.acked
          /\ q.vs = p.vs /\ q.v1s = p.v1s
      BY <1>2, TryinfoDown
    <2> HIDE DEF q
    <2>2. TxHush(p, q)
      BY <1>2, <2>1 DEF TxHush, Still, Up
    <2> QED
      BY <2>1, <2>2, SendsTx DEF q
  <1> QED
    BY <1>1, <1>2

\* what the peer expects next is acknowledged
LEMMA SendsInfack ==
    ASSUME NEW x \in Port, NEW p \in Port, Sends(x, p), Up(p), NEW nr \in Numbers,
           \A f \in ToSet(p.out) : f.type # "I",
           Minus(nr, p.v1s) <= V(p) - p.acked
    PROVE  Sends(x, Infack(p, nr)) /\ Infack(p, nr).acked = p.acked + Minus(nr, p.v1s)
  <1> DEFINE q == Infack(p, nr)
             d == Minus(nr, p.v1s)
  <1>1. Window(p) /\ Up(x) /\ V(x) <= V(p) /\ x.acked <= p.acked
    BY DEF Sends
  <1>2. q.lstate = p.lstate /\ q.acked = p.acked + d /\ V(q) = V(p) /\ Window(q)
    BY <1>1, InfackWindow
  <1>3. q \in Port /\ q.out = p.out /\ q.sess = p.sess /\ q.sub = p.sub
    BY InfackRx
  <1>4. d \in Nat /\ p.acked \in Nat /\ x.acked \in Nat
    BY PortTypes, MinusRange
  <1> HIDE DEF q, d
  <1>5. x.acked <= q.acked /\ Up(q)
    BY <1>1, <1>2, <1>4 DEF Up
  <1>6. Sends(x, q)
    BY <1>1, <1>2, <1>3, <1>5 DEF Sends, Still, Up
  <1> QED
    BY <1>2, <1>6 DEF q, d

\* the receive queue has room for a piece, and the port as data come in
Opened(p) == [p EXCEPT !.lstate = IF @ = "rej_sent" THEN "info_transfer" ELSE @]
Entered(p, x) == IF ~p.qtimer /\ Quits(x) THEN Disconnect(Opened(p), 1) ELSE Opened(p)
Stored(p, x) == ~p.qtimer /\ Entered(p, x).rxlen < MaxRx + RxRoom

LEMMA OpenedIs ==
    ASSUME NEW p \in Port
    PROVE  LET a == Opened(p) IN
           /\ a \in Port /\ SameTx(p, a) /\ SameRx(p, a) /\ a.out = p.out /\ a.qtimer = p.qtimer
           /\ a.lstate = p.lstate \/ (p.lstate = "rej_sent" /\ a.lstate = "info_transfer")
  <1> DEFINE l == IF p.lstate = "rej_sent" THEN "info_transfer" ELSE p.lstate
  <1>1. Opened(p) = [p EXCEPT !.lstate = l]
    BY DEF Opened
  <1>2. l \in LStates /\ (l = p.lstate \/ (p.lstate = "rej_sent" /\ l = "info_transfer"))
    BY PortTypes, StateSets
  <1> HIDE DEF l
  <1> QED
    BY <1>1, <1>2, LstateNear

LEMMA TakeIsThis ==
    ASSUME NEW p \in Port, NEW x \in Pieces
    PROVE  LET b == Entered(p, x)  q == Take(p, x) IN
           /\ b \in Port /\ Hush(Opened(p), b)
           /\ q \in Port /\ SameTx(b, q) /\ q.lstate = b.lstate /\ q.out = b.out
           /\ q.vr = Plus(b.vr, 1) /\ q.sammler = b.sammler
           /\ q.overrun = (b.overrun \/ ~Stored(p, x))
           /\ Stored(p, x) => /\ q.got = Append(b.got, x)
                           /\ q.qsumme = [b.qsumme EXCEPT ![b.vr] = Quersumme(x)]
  <1> DEFINE stored == Stored(p, x)
             b == Entered(p, x)
             got == IF stored THEN Append(b.got, x) ELSE b.got
             astray == b.astray \/ (stored /\ b.told # "connected")
             rxlen == IF stored THEN b.rxlen + 1 ELSE b.rxlen
             over == b.overrun \/ ~stored
             busy == b.busy \/ (stored /\ b.rxlen > MaxRx)
             sums == [b.qsumme EXCEPT ![b.vr] = IF stored THEN Quersumme(x) ELSE 0]
             v == Plus(b.vr, 1)
             q == [b EXCEPT !.got = got, !.astray = astray, !.rxlen = rxlen, !.overrun = over,
                            !.busy = busy, !.qsumme = sums, !.vr = v]
  <1>1. Take(p, x) = q
    BY DEF Take, Stored, Entered, Opened
  <1>2. b \in Port /\ Hush(Opened(p), b)
    <2>1. Opened(p) \in Port
      BY OpenedIs
    <2>2. Hush(Opened(p), Disconnect(Opened(p), 1))
      BY <2>1, DisconnectHush
    <2>3. Hush(Opened(p), Opened(p))
      BY <2>1, FlagsLevel, LevelHush
    <2> QED
      BY <2>1, <2>2, <2>3 DEF Hush, Entered
  <1> HIDE DEF b
  <1>3. /\ b.got \in Seq(Pieces) /\ b.rxlen \in Nat /\ b.vr \in Numbers /\ b.qsumme \in [Numbers -> Sums]
        /\ b.overrun \in BOOLEAN /\ b.busy \in BOOLEAN
    BY <1>2, PortTypes
  <1>4. got \in Seq(Pieces) /\ rxlen \in Nat
    BY <1>3
  <1>5. v \in Numbers
    <2>1. 1 \in 0 .. M
      BY Parameters
    <2> QED
      BY <1>3, <2>1, PlusIs
  <1>6. sums \in [Numbers -> Sums]
    <2>1. (IF stored THEN Quersumme(x) ELSE 0) \in Sums
      BY DEF Sums, Infos
    <2>2. \A n \in Numbers : b.qsumme[n] \in Sums
      BY <1>3
    <2> QED
      BY <1>3, <2>1, <2>2
  <1>7. astray \in BOOLEAN /\ over \in BOOLEAN /\ busy \in BOOLEAN
    <2>1. b.astray \in BOOLEAN
      BY <1>2 DEF Port
    <2> QED
      BY <1>3, <2>1
  <1>8. stored => got = Append(b.got, x) /\ sums = [b.qsumme EXCEPT ![b.vr] = Quersumme(x)]
    OBVIOUS
  <1>9. over = (b.overrun \/ ~stored)
    OBVIOUS
  <1> HIDE DEF got, astray, rxlen, over, busy, v, sums, stored
  <1>10. q \in Port
    BY <1>2, <1>4, <1>5, <1>6, <1>7 DEF Port
  <1>11. /\ q.lstate = b.lstate /\ q.out = b.out /\ SameTx(b, q) /\ q.sammler = b.sammler
    BY <1>2 DEF Port, SameTx
  <1>12. q.got = got /\ q.qsumme = sums /\ q.overrun = over /\ q.vr = v
    BY <1>2 DEF Port
  <1> HIDE DEF q
  <1> QED
    BY <1>1, <1>2, <1>8, <1>9, <1>10, <1>11, <1>12 DEF v, b, stored

\* the data that the sender itself receives do not touch its window
LEMMA TakeTx ==
    ASSUME NEW p \in Port, NEW x \in Pieces
    PROVE  TxHush(p, Take(p, x))
  <1> DEFINE a == Opened(p)
             b == Entered(p, x)
             q == Take(p, x)
  <1>1. /\ a \in Port /\ SameTx(p, a) /\ a.out = p.out
        /\ a.lstate = p.lstate \/ (p.lstate = "rej_sent" /\ a.lstate = "info_transfer")
    BY OpenedIs
  <1>2. b \in Port /\ Hush(a, b) /\ q \in Port /\ SameTx(b, q) /\ q.lstate = b.lstate /\ q.out = b.out
    BY TakeIsThis
  <1> HIDE DEF a, b, q
  <1>3. TxHush(p, a)
    BY <1>1 DEF TxHush, SameTx, Still, Up
  <1>4. TxHush(a, b)
    BY <1>2, HushTx
  <1>5. TxHush(b, q)
    BY <1>2 DEF TxHush, SameTx, Still, Up
  <1> QED
    BY <1>3, <1>4, <1>5, TxSteps DEF q

LEMMA KeepTx ==
    ASSUME NEW p \in Port, NEW f \in GoodFrames, f.type = "I"
    PROVE  TxHush(p, Keep(p, f))
  <1> DEFINE sam == [p.sammler EXCEPT ![f.ns] = f.info]
             sums == [p.qsumme EXCEPT ![f.ns] = Quersumme(f.info)]
             q == [p EXCEPT !.sammler = sam, !.qsumme = sums]
  <1>1. Keep(p, f) = q \/ Keep(p, f) = p
    BY DEF Keep
  <1>2. f.info \in Pieces
    BY DEF GoodFrames
  <1>3. sam \in [Numbers -> Infos] /\ sums \in [Numbers -> Sums]
    BY <1>2, PortTypes DEF Infos, Sums
  <1> HIDE DEF sam, sums
  <1>4. q \in Port /\ SameTx(p, q) /\ q.lstate = p.lstate /\ q.out = p.out
    BY <1>3 DEF Port, SameTx
  <1> HIDE DEF q
  <1> QED
    BY <1>1, <1>4 DEF TxHush, SameTx, Still, Up

LEMMA SendsDrain ==
    ASSUME NEW x \in Port, NEW p \in Port, Sends(x, p), NEW pf \in PFs
    PROVE  Sends(x, Drain(p, pf)) /\ Drain(p, pf).acked = p.acked
  <1>1. CASE p.sammler[p.vr] = NoInfo
    BY <1>1 DEF Drain
  <1>2. CASE p.sammler[p.vr] # NoInfo
    <2> DEFINE sam == [p.sammler EXCEPT ![p.vr] = NoInfo]
               e == [p EXCEPT !.sammler = sam]
               i == p.sammler[p.vr]
               t == Take(e, i)
               q == AnswerInf(t, pf, TRUE)
    <2>1. Drain(p, pf) = q
      BY <1>2 DEF Drain
    <2>2. i \in Pieces /\ sam \in [Numbers -> Infos]
      BY <1>2, PortTypes DEF Infos
    <2> HIDE DEF i, sam
    <2>3. e \in Port /\ SameTx(p, e) /\ e.lstate = p.lstate /\ e.out = p.out
      BY <2>2 DEF Port, SameTx
    <2> HIDE DEF e
    <2>4. TxHush(p, e)
      BY <2>3 DEF TxHush, SameTx, Still, Up
    <2>5. TxHush(e, t)
      BY <2>2, <2>3, TakeTx
    <2> HIDE DEF t
    <2>6. Sends(x, e) /\ Sends(x, t) /\ t \in Port
      BY <2>4, <2>5, SendsTx DEF TxHush
    <2>7. Chat(t, q)
      BY <2>6, AnswerInfChat
    <2> HIDE DEF q
    <2>8. Sends(x, q)
      BY <2>6, <2>7, SendsChat
    <2>9. q.acked = p.acked
      BY <2>3, <2>5, <2>7 DEF Chat, SameTx, TxHush
    <2> QED
      BY <2>1, <2>8, <2>9
  <1> QED
    BY <1>1, <1>2

\* a frame with data at the sender
LEMMA SendsInf ==
    ASSUME NEW x \in Port, NEW p \in Port, p.lstate \in Transfer, NEW f \in GoodFrames, f.type = "I",
           Sends(x, Infack(p, f.nr))
    PROVE  Sends(x, Pacdecinf(p, f)) /\ Pacdecinf(p, f).acked = Infack(p, f.nr).acked
  <1> DEFINE a == Infack(p, f.nr)
             t == Take(a, f.info)
             d == Drain(t, f.pf)
             r == Paccodrej(a, f.pf)
             k == Keep(r, f)
             b == IF f.ns = a.vr THEN d ELSE IF a.vr # Plus(f.ns, 1) THEN k ELSE a
             q == AnswerInf(b, f.pf, FALSE)
  <1>1. Pacdecinf(p, f) = q
    BY DEF Pacdecinf
  <1>2. f.nr \in Numbers /\ f.pf \in PFs /\ f.info \in Pieces
    BY DEF GoodFrames, Frame, PFs
  <1>3. a \in Port /\ Linked(a)
    <2>1. a \in Port /\ a.lstate \in {p.lstate, "frame_reject"}
      BY <1>2, InfackRx
    <2> QED
      BY <2>1 DEF Linked, Transfer
  <1> HIDE DEF a
  <1>4. Sends(x, d) /\ d.acked = a.acked
    <2>1. TxHush(a, t)
      BY <1>2, <1>3, TakeTx
    <2> HIDE DEF t
    <2>2. Sends(x, t) /\ t \in Port /\ t.acked = a.acked
      BY <2>1, SendsTx DEF TxHush, a
    <2> QED
      BY <1>2, <2>2, SendsDrain
  <1>5. Sends(x, k) /\ k.acked = a.acked
    <2>1. Chat(a, r)
      BY <1>2, <1>3, PaccodrejChat
    <2> HIDE DEF r
    <2>2. Sends(x, r) /\ r \in Port /\ r.acked = a.acked
      BY <1>3, <2>1, SendsChat DEF a, Chat, SameTx
    <2>3. TxHush(r, k)
      BY <2>2, KeepTx
    <2> HIDE DEF k
    <2> QED
      BY <2>2, <2>3, SendsTx DEF TxHush
  <1> HIDE DEF d, k
  <1>6. Sends(x, b) /\ b.acked = a.acked /\ b \in Port
    <2>1. Sends(x, b) /\ b.acked = a.acked
      BY <1>4, <1>5 DEF a
    <2> QED
      BY <2>1 DEF Sends
  <1> HIDE DEF b
  <1>7. Chat(b, q)
    BY <1>2, <1>6, AnswerInfChat
  <1> HIDE DEF q
  <1>8. Sends(x, q) /\ q.acked = a.acked
    BY <1>6, <1>7, SendsChat DEF Chat, SameTx
  <1> QED
    BY <1>1, <1>8 DEF a

LEMMA PacdecuaTx ==
    ASSUME NEW p \in Port
    PROVE  TxHush(p, Pacdecua(p))
  <1>1. CASE p.lstate = "link_setup"
    <2> DEFINE c == Stopt1(p)
               g == [c EXCEPT !.lstate = "info_transfer"]
    <2>1. Pacdecua(p) = Linkmsg(g, "connected")
      BY <1>1 DEF Pacdecua
    <2>2. Level(p, c)
      BY Restt1Chat
    <2> HIDE DEF c
    <2>3. g \in Port /\ SameTx(c, g) /\ g.lstate = "info_transfer" /\ g.out = c.out
      BY <2>2, LstateNear, StateSets DEF Level, Near
    <2> HIDE DEF g
    <2>4. Level(g, Linkmsg(g, "connected"))
      BY <2>3, FlagsLevel DEF Messages
    <2>5. TxHush(c, g)
      BY <1>1, <2>2, <2>3 DEF Level, Near, TxHush, SameTx, Still, Up
    <2> QED
      BY <2>1, <2>2, <2>4, <2>5, LevelTx, TxSteps
  <1>2. CASE p.lstate # "link_setup"
    <2>1. Pacdecua(p) = Dodisc(p) \/ Pacdecua(p) = p
      BY <1>2 DEF Pacdecua
    <2>2. TxHush(p, Dodisc(p)) /\ TxHush(p, p)
      BY DodiscHush, HushTx, FlagsLevel, LevelTx
    <2> QED
      BY <2>1, <2>2
  <1> QED
    BY <1>1, <1>2

LEMMA PacdecdmHush ==
    ASSUME NEW p \in Port
    PROVE  Hush(p, Pacdecdm(p)) /\ ~Up(Pacdecdm(p))
  <1>1. CASE p.lstate = "link_setup"
    <2> DEFINE e == [p EXCEPT !.lstate = "disconnected"]
               g == Linkmsg(e, "busy")
    <2>1. Pacdecdm(p) = Dodisc(g)
      BY <1>1 DEF Pacdecdm
    <2>2. e \in Port /\ SameTx(p, e) /\ SameRx(p, e) /\ e.out = p.out
      BY LstateNear, StateSets
    <2> HIDE DEF e
    <2>3. Level(e, g)
      BY <2>2, FlagsLevel DEF Messages
    <2> HIDE DEF g
    <2>4. Gone(g, Dodisc(g))
      BY <2>3, DodiscGone DEF Level, Near
    <2>5. Hush(p, Dodisc(g)) /\ ~Up(Dodisc(g))
      BY <2>2, <2>3, <2>4 DEF Gone, Level, Near, SameTx, SameRx, Hush, Up, Off, Blank, Still
    <2> QED
      BY <2>1, <2>5
  <1>2. CASE p.lstate # "link_setup"
    <2>1. Pacdecdm(p) = Dodisc(p)
      BY <1>2 DEF Pacdecdm
    <2> QED
      BY <2>1, DodiscHush
  <1> QED
    BY <1>1, <1>2

\* the frames without a number, SABM apart
LEMMA PacdecPlain ==
    ASSUME NEW p \in Port, NEW f \in GoodFrames
    PROVE  /\ Hush(p, Pacdecdm(Send(p, U("DM", "final"))))
           /\ Hush(p, Pacdecdm(p)) /\ Hush(p, Disconnect(p, 1)) /\ Hush(p, p)
  <1> DEFINE s == Send(p, U("DM", "final"))
  <1>1. Hush(p, s)
    BY SendHush DEF Plain, PFs
  <1> HIDE DEF s
  <1>2. Hush(s, Pacdecdm(s))
    BY <1>1, PacdecdmHush DEF Hush
  <1>3. Hush(p, Pacdecdm(s))
    BY <1>1, <1>2, HushSteps
  <1>4. Hush(p, p)
    BY FlagsLevel, LevelHush
  <1> QED
    BY <1>3, <1>4, PacdecdmHush, DisconnectHush DEF s

LEMMA OtherHush ==
    ASSUME NEW p \in Port, NEW f \in GoodFrames, f.type # "SABM"
    PROVE  Hush(p, PacdecOther(p, f))
  <1>1. Hush(p, p)
    BY FlagsLevel, LevelHush
  <1>2. Hush(p, Send(p, U("DM", "final")))
    BY SendHush DEF Plain, PFs
  <1> QED
    BY <1>1, <1>2 DEF PacdecOther

\* What the sender makes of a frame.  An acknowledgement that fits its window
\* is all that moves it on.
LEMMA PacdecSends ==
    ASSUME NEW x \in Port, x.out = <<>>, Up(x) => Window(x),
           NEW f \in GoodFrames, f.type # "SABM",
           Up(x) /\ f.type \in Numbered => Minus(f.nr, x.v1s) <= V(x) - x.acked
    PROVE  LET q == Pacdec(x, f) IN
           /\ Sends(x, q)
           /\ \/ q.acked = x.acked
              \/ Up(x) /\ f.type \in Numbered /\ q.acked = x.acked + Minus(f.nr, x.v1s)
  <1>0. Sends(x, x)
    BY SendsSelf
  <1>1. CASE x.lstate = "disconnected"
    <2> DEFINE q == PacdecOther(x, f)
    <2>1. Pacdec(x, f) = q
      BY <1>1 DEF Pacdec
    <2>2. TxHush(x, q)
      BY OtherHush, HushTx
    <2> HIDE DEF q
    <2>3. Sends(x, q) /\ q.acked = x.acked
      BY <1>0, <2>2, SendsTx DEF TxHush
    <2> QED
      BY <2>1, <2>3
  <1>2. CASE x.lstate # "disconnected"
    <2> DEFINE a == IF x.qtimer /\ x.txinfout = <<>> /\ x.vs = x.v1s THEN Disconnect(x, 1) ELSE x
               i == Infack(a, f.nr)
               b == CASE f.type = "SABM" -> Conack(a)
                      [] f.type = "UA" -> Pacdecua(a)
                      [] f.type = "DISC" -> Pacdecdm(Send(a, U("DM", "final")))
                      [] f.type = "DM" -> Pacdecdm(a)
                      [] f.type = "FRMR" -> Disconnect(a, 1)
                      [] f.type \in {"RR", "RNR", "REJ"} /\ a.lstate \in Transfer -> Pacdecsup(a, f)
                      [] f.type = "I" /\ a.lstate \in Transfer -> Pacdecinf(a, f)
                      [] OTHER -> a
    <2>1. Pacdec(x, f) = Tryinfo(b)
      BY <1>2 DEF Pacdec, PacdecMatch
    <2>2. Hush(x, a)
      BY FlagsLevel, LevelHush, DisconnectHush
    <2>3. \/ f.type = "UA" /\ b = Pacdecua(a)
          \/ b \in {Pacdecdm(Send(a, U("DM", "final"))), Pacdecdm(a), Disconnect(a, 1), a}
          \/ a.lstate \in Transfer /\ f.type \in {"RR", "RNR", "REJ"} /\ b = Pacdecsup(a, f)
          \/ a.lstate \in Transfer /\ f.type = "I" /\ b = Pacdecinf(a, f)
      BY DEF Numbered
    <2> HIDE DEF a, b
    <2>4. a \in Port /\ TxHush(x, a) /\ Sends(x, a)
      BY <1>0, <2>2, HushTx, SendsTx DEF Hush
    <2>5. ASSUME TxHush(a, b)
          PROVE  Sends(x, b) /\ b.acked = x.acked
      BY <2>4, <2>5, SendsTx DEF TxHush
    <2>6. ASSUME a.lstate \in Transfer, f.type \in Numbered
          PROVE  /\ i \in Port /\ Sends(x, i) /\ Up(x)
                 /\ i.acked = x.acked + Minus(f.nr, x.v1s)
      <3>1. Up(a) /\ f.nr \in Numbers
        BY <2>6 DEF Up, Transfer, GoodFrames, Frame
      <3>2. Up(x) /\ SameTx(x, a)
        BY <2>4, <3>1 DEF TxHush
      <3>3. V(a) = V(x) /\ a.acked = x.acked /\ a.v1s = x.v1s
        BY <3>2, WindowSame DEF SameTx
      <3>4. \A g \in ToSet(a.out) : g.type # "I"
        <4>1. ToSet(x.out) = {}
          BY DEF ToSet
        <4> QED
          BY <2>2, <4>1 DEF Hush, PlainFrames, Plain
      <3>5. Sends(x, i) /\ i.acked = a.acked + Minus(f.nr, a.v1s)
        BY <2>4, <2>6, <3>1, <3>2, <3>3, <3>4, SendsInfack
      <3> QED
        BY <3>2, <3>3, <3>5 DEF Sends
    <2>7. /\ Sends(x, b)
          /\ \/ b.acked = x.acked
             \/ Up(x) /\ f.type \in Numbered /\ b.acked = x.acked + Minus(f.nr, x.v1s)
      <3>1. CASE f.type = "UA" /\ b = Pacdecua(a)
        BY <2>4, <2>5, <3>1, PacdecuaTx
      <3>2. CASE b \in {Pacdecdm(Send(a, U("DM", "final"))), Pacdecdm(a), Disconnect(a, 1), a}
        <4>1. Hush(a, b)
          BY <2>4, <3>2, PacdecPlain
        <4> QED
          BY <2>5, <4>1, HushTx
      <3>3. CASE a.lstate \in Transfer /\ f.type \in {"RR", "RNR", "REJ"} /\ b = Pacdecsup(a, f)
        <4>1. f.type \in Numbered
          BY <3>3 DEF Numbered
        <4>2. Chat(i, b)
          BY <2>4, <3>3, SupRest
        <4>3. i \in Port /\ Sends(x, i) /\ Up(x) /\ i.acked = x.acked + Minus(f.nr, x.v1s)
          BY <2>6, <3>3, <4>1
        <4> HIDE DEF i
        <4>4. Sends(x, b) /\ b.acked = i.acked
          BY <4>2, <4>3, SendsChat DEF Chat, SameTx
        <4> QED
          BY <4>1, <4>3, <4>4
      <3>4. CASE a.lstate \in Transfer /\ f.type = "I" /\ b = Pacdecinf(a, f)
        <4>1. f.type \in Numbered
          BY <3>4 DEF Numbered
        <4>2. i \in Port /\ Sends(x, i) /\ Up(x) /\ i.acked = x.acked + Minus(f.nr, x.v1s)
          BY <2>6, <3>4, <4>1
        <4>3. Sends(x, b) /\ b.acked = i.acked
          BY <2>4, <3>4, <4>2, SendsInf
        <4> QED
          BY <4>1, <4>2, <4>3
      <3> QED
        BY <2>3, <3>1, <3>2, <3>3, <3>4
    <2>8. b \in Port
      BY <2>7 DEF Sends
    <2>9. Sends(x, Tryinfo(b)) /\ Tryinfo(b).acked = b.acked
      BY <2>7, <2>8, SendsTryinfo
    <2> QED
      BY <2>1, <2>7, <2>9
  <1> QED
    BY <1>1, <1>2

-----------------------------------------------------------------------------
(* What the receiving station does with its port.                          *)

\* every number that is sent is the one that is expected next
Spoken(q) ==
    \A f \in ToSet(q.out) : f.type # "SABM" /\ (f.type \in Numbered => f.nr = q.vr)

\* the link is there, and its receiving side can be relied upon
Hold(q) == q \in Port /\ Up(q) /\ q.lstate # "link_setup" /\ Spoken(q)

\* y becomes q, and no data have come in
Answers(y, q) ==
    /\ q \in Port /\ q.got = y.got /\ q.overrun = y.overrun
    /\ Off(q) /\ q.lstate # "link_setup"
    /\ Up(q) => Up(y) /\ SameRx(y, q)
    /\ Spoken(q)
    /\ ~Up(q) => \A f \in ToSet(q.out) : f.type \notin Numbered

LEMMA HushAnswers ==
    ASSUME NEW y \in Port, y.out = <<>>, Off(y), y.lstate # "link_setup", NEW q, Hush(y, q)
    PROVE  Answers(y, q) /\ ToSet(q.out) \subseteq PlainFrames /\ (Up(q) => Hold(q))
  <1>1. ToSet(y.out) = {}
    BY DEF ToSet
  <1>2. ToSet(q.out) \subseteq PlainFrames
    BY <1>1 DEF Hush
  <1>3. \A f \in ToSet(q.out) : f.type # "SABM" /\ f.type \notin Numbered
    BY <1>2 DEF PlainFrames, Plain, Numbered
  <1> QED
    BY <1>2, <1>3 DEF Answers, Hush, Spoken, Hold

LEMMA HoldChat ==
    ASSUME NEW p, Hold(p), NEW q, RxChat(p, q)
    PROVE  Hold(q) /\ SameRx(p, q)
  <1>1. q \in Port /\ SameRx(p, q) /\ Up(q) /\ q.lstate # "link_setup"
    BY DEF RxChat, Hold, Up, Linked
  <1>2. Spoken(q)
    BY <1>1 DEF RxChat, Hold, Spoken, Hears, SameRx
  <1> QED
    BY <1>1, <1>2 DEF Hold

LEMMA HoldAnswers ==
    ASSUME NEW y, Up(y), NEW q, Hold(q), SameRx(y, q)
    PROVE  Answers(y, q)
  BY DEF Answers, Hold, SameRx, Off

LEMMA SelfHold ==
    ASSUME NEW y \in Port, y.out = <<>>, Up(y), y.lstate # "link_setup"
    PROVE  Hold(y) /\ SameRx(y, y)
  BY DEF Hold, Spoken, ToSet, SameRx

LEMMA AnswersChat ==
    ASSUME NEW y \in Port, y.out = <<>>, Up(y), y.lstate # "link_setup", NEW q, RxChat(y, q)
    PROVE  Answers(y, q)
  BY SelfHold, HoldChat, HoldAnswers

\* a SABM for a link that is there
LEMMA ConackUp ==
    ASSUME NEW p \in Port, Up(p)
    PROVE  Chat(p, Conack(p))
  <1> DEFINE s == Send(p, U("UA", "final"))
             r == Restt1(s)
  <1>1. Conack(p) = [r EXCEPT !.retries = Retry]
    BY DEF Conack, Up
  <1>2. U("UA", "final") \in Says(p)
    BY SaysThese DEF Plain, PFs
  <1>3. Chat(p, s)
    BY <1>2, SendChat
  <1> HIDE DEF s
  <1>4. Chat(s, r) /\ r \in Port
    BY <1>3, Restt1Chat DEF Chat
  <1> HIDE DEF r
  <1>5. Chat(r, [r EXCEPT !.retries = Retry])
    <2>1. Retry \in -1 .. Retry + 1
      BY Parameters
    <2>2. Level(r, [r EXCEPT !.retries = Retry])
      BY <1>4, <2>1, FlagsLevel
    <2> QED
      BY <2>2, ChatSteps
  <1> QED
    BY <1>1, <1>3, <1>4, <1>5, ChatSteps

\* a session begins
Begins(q) ==
    /\ Hold(q) /\ q.got = <<>> /\ ~q.overrun
    /\ q.vr = 0 /\ q.sammler = [n \in Numbers |-> NoInfo]

LEMMA ConackDown ==
    ASSUME NEW p \in Port, ~Up(p), ToSet(p.out) \subseteq PlainFrames
    PROVE  Begins(Conack(p))
  <1> DEFINE d == Dodisc(p)
             e == NewSession(d)
             i == [e EXCEPT !.lstate = "info_transfer"]
             l == Linkmsg(i, "connected")
             s == Send(l, U("UA", "final"))
             r == Restt1(s)
             q == [r EXCEPT !.retries = Retry]
  <1>1. Conack(p) = q
    BY DEF Conack, Up
  <1>2. /\ d \in Port /\ d.vr = 0 /\ d.sammler = [n \in Numbers |-> NoInfo] /\ d.out = p.out
    BY DodiscGone DEF Gone
  <1> HIDE DEF d
  <1>3. /\ e \in Port /\ e.vr = 0 /\ e.sammler = [n \in Numbers |-> NoInfo] /\ e.out = p.out
        /\ e.got = <<>> /\ e.overrun = FALSE
    <2>1. e \in Port
      BY <1>2, NewSessionIs DEF Same
    <2>2. /\ e.vr = d.vr /\ e.sammler = d.sammler /\ e.out = d.out
          /\ e.got = <<>> /\ e.overrun = FALSE
      BY <1>2 DEF Port, NewSession
    <2> QED
      BY <1>2, <2>1, <2>2
  <1> HIDE DEF e
  <1>4. i \in Port /\ SameRx(e, i) /\ i.lstate = "info_transfer" /\ i.out = e.out
    BY <1>3, LstateNear, StateSets
  <1> HIDE DEF i
  <1>5. Level(i, l)
    BY <1>4, FlagsLevel DEF Messages
  <1> HIDE DEF l
  <1>6. l \in Port /\ SameRx(i, l) /\ l.lstate = "info_transfer" /\ ToSet(l.out) \subseteq PlainFrames
    BY <1>3, <1>4, <1>5 DEF Level, Near
  <1>7. Hush(l, s) /\ s.lstate = l.lstate
    BY <1>6, SendHush DEF Plain, PFs
  <1> HIDE DEF s
  <1>8. Level(s, r)
    BY <1>7, Restt1Chat DEF Hush
  <1> HIDE DEF r
  <1>9. Level(r, q)
    <2>1. Retry \in -1 .. Retry + 1
      BY Parameters
    <2> QED
      BY <1>8, <2>1, FlagsLevel DEF Level, Near
  <1> HIDE DEF q
  <1>10. SameRx(l, q) /\ q \in Port /\ q.lstate = "info_transfer" /\ ToSet(q.out) \subseteq PlainFrames
    <2>1. Up(s) /\ SameRx(l, s) /\ ToSet(s.out) \subseteq PlainFrames
      BY <1>6, <1>7 DEF Hush, Up
    <2>2. SameRx(s, r) /\ r.lstate = s.lstate /\ r.out = s.out
      BY <1>8 DEF Level, Near
    <2>3. SameRx(r, q) /\ q.lstate = r.lstate /\ q.out = r.out /\ q \in Port
      BY <1>9 DEF Level, Near
    <2> QED
      BY <1>6, <1>7, <2>1, <2>2, <2>3, NearSteps
  <1>11. q.got = <<>> /\ ~q.overrun /\ q.vr = 0 /\ q.sammler = [n \in Numbers |-> NoInfo]
    BY <1>3, <1>4, <1>6, <1>10 DEF SameRx
  <1>12. Hold(q)
    BY <1>10 DEF Hold, Up, Spoken, PlainFrames, Plain, Numbered
  <1> QED
    BY <1>1, <1>11, <1>12 DEF Begins

LEMMA InfackChat ==
    ASSUME NEW p \in Port, p.lstate \in Transfer, NEW nr \in Numbers
    PROVE  RxChat(p, Infack(p, nr))
  <1> DEFINE q == Infack(p, nr)
  <1>1. q \in Port /\ SameRx(p, q) /\ q.out = p.out /\ q.lstate \in {p.lstate, "frame_reject"}
    BY InfackRx
  <1> HIDE DEF q
  <1>2. q.lstate = p.lstate \/ (Linked(p) /\ Linked(q))
    BY <1>1 DEF Linked, Transfer
  <1> QED
    BY <1>1, <1>2 DEF RxChat, q

LEMMA TryinfoAnswers ==
    ASSUME NEW y \in Port, NEW p, Answers(y, p)
    PROVE  Answers(y, Tryinfo(p))
  <1>0. p \in Port
    BY DEF Answers
  <1>1. CASE Up(p)
    <2>1. Hold(p) /\ Up(y) /\ SameRx(y, p)
      BY <1>1 DEF Answers, Hold
    <2>2. RxChat(p, Tryinfo(p))
      BY <1>0, <1>1, TryinfoChat
    <2> QED
      BY <2>1, <2>2, HoldChat, HoldAnswers, NearSteps
  <1>2. CASE ~Up(p)
    <2> DEFINE q == Tryinfo(p)
    <2>1. /\ q \in Port /\ SameRx(p, q) /\ q.lstate = p.lstate /\ q.out = p.out
          /\ q.timer2 = p.timer2 /\ q.busy = p.busy
      BY <1>0, <1>2, TryinfoDown
    <2> HIDE DEF q
    <2>2. ~Up(q) /\ Off(q)
      BY <1>2, <2>1 DEF Answers, Off, Up, Blank, SameRx
    <2>3. q.got = y.got /\ q.overrun = y.overrun /\ q.lstate # "link_setup"
      BY <2>1 DEF Answers, SameRx
    <2>4. Spoken(q) /\ \A f \in ToSet(q.out) : f.type \notin Numbered
      BY <1>2, <2>1 DEF Answers, Spoken
    <2>5. Answers(y, q)
      BY <2>1, <2>2, <2>3, <2>4 DEF Answers
    <2> QED
      BY <2>5 DEF q
  <1> QED
    BY <1>1, <1>2

LEMMA DisconnectStays ==
    ASSUME NEW p \in Port, p.lstate \in Transfer \cup {"frame_reject"}
    PROVE  Disconnect(p, 1).lstate \in {p.lstate, "disc_request"}
  <1> DEFINE t == [p EXCEPT !.lstate = "disc_request", !.qtimer = FALSE, !.timer2 = FALSE,
                            !.retries = Retry \div 4]
             u == Send(t, U("DISC", "poll"))
  <1>1. Disconnect(p, 1) = Restt1(u) \/ Disconnect(p, 1) = p
    BY DEF Disconnect, Transfer
  <1>2. Retry \div 4 \in -1 .. Retry + 1 /\ "disc_request" \in LStates
    BY Parameters, StateSets
  <1>3. t \in Port /\ t.lstate = "disc_request"
    BY <1>2 DEF Port
  <1> HIDE DEF t
  <1>4. u \in Port /\ u.lstate = "disc_request"
    BY <1>3, SendHush DEF Plain, PFs, Hush
  <1> HIDE DEF u
  <1>5. Level(u, Restt1(u))
    BY <1>4, Restt1Chat
  <1> QED
    BY <1>1, <1>4, <1>5 DEF Level, Near

\* A piece is received.  The link outlives it unless it is being quit already.
LEMMA TakeRx ==
    ASSUME NEW p \in Port, Linked(p), NEW x \in Pieces, Stored(p, x),
           Quits(x) => p.lstate # "disc_request"
    PROVE  LET t == Take(p, x) IN
           /\ t \in Port /\ Linked(t) /\ t.overrun = p.overrun
           /\ t.got = Append(p.got, x) /\ t.vr = Plus(p.vr, 1) /\ t.sammler = p.sammler
           /\ t.qsumme = [p.qsumme EXCEPT ![p.vr] = Quersumme(x)]
           /\ ToSet(t.out) \subseteq ToSet(p.out) \cup PlainFrames
           /\ t.lstate = "disc_request" => p.lstate = "disc_request" \/ Quits(x)
  <1> DEFINE a == Opened(p)
             b == Entered(p, x)
             t == Take(p, x)
  <1>1. /\ a \in Port /\ SameRx(p, a) /\ a.out = p.out
        /\ a.lstate = p.lstate \/ (p.lstate = "rej_sent" /\ a.lstate = "info_transfer")
    BY OpenedIs
  <1>2. /\ b \in Port /\ Hush(a, b) /\ t \in Port /\ t.lstate = b.lstate /\ t.out = b.out
        /\ t.vr = Plus(b.vr, 1) /\ t.sammler = b.sammler /\ t.overrun = (b.overrun \/ ~Stored(p, x))
        /\ t.got = Append(b.got, x) /\ t.qsumme = [b.qsumme EXCEPT ![b.vr] = Quersumme(x)]
    BY TakeIsThis
  <1>3. b = a \/ (Quits(x) /\ b = Disconnect(a, 1))
    BY DEF Entered
  <1>4. b.lstate = a.lstate \/ (Quits(x) /\ b.lstate \in {a.lstate, "disc_request"})
    <2>1. CASE b = a
      BY <2>1
    <2>2. CASE Quits(x) /\ b = Disconnect(a, 1)
      <3>1. p.lstate \in Transfer \cup {"frame_reject"}
        BY <2>2, PortTypes DEF Linked, LStates
      <3>2. a.lstate \in Transfer \cup {"frame_reject"}
        BY <1>1, <3>1 DEF Transfer
      <3> HIDE DEF a
      <3> QED
        BY <1>1, <2>2, <3>2, DisconnectStays
    <2> QED
      BY <1>3, <2>1, <2>2
  <1> HIDE DEF a, b, t
  <1>5. Linked(a) /\ Linked(b) /\ Up(b) /\ Linked(t)
    BY <1>1, <1>2, <1>4 DEF Linked, Up
  <1>6. SameRx(a, b) /\ ToSet(b.out) \subseteq ToSet(a.out) \cup PlainFrames
    BY <1>2, <1>5 DEF Hush
  <1>7. SameRx(p, b)
    BY <1>1, <1>6, NearSteps
  <1>8. t.lstate = "disc_request" => p.lstate = "disc_request" \/ Quits(x)
    BY <1>1, <1>2, <1>4
  <1>9. /\ t.got = Append(p.got, x) /\ t.vr = Plus(p.vr, 1) /\ t.sammler = p.sammler
        /\ t.qsumme = [p.qsumme EXCEPT ![p.vr] = Quersumme(x)]
    BY <1>2, <1>7 DEF SameRx
  <1>10. t.overrun = p.overrun
    <2>1. p.overrun \in BOOLEAN /\ t.overrun \in BOOLEAN /\ b.overrun = p.overrun
      BY <1>2, <1>7, PortTypes DEF SameRx
    <2>2. t.overrun <=> p.overrun
      BY <1>2, <2>1
    <2> QED
      BY <2>1, <2>2
  <1> QED
    BY <1>1, <1>2, <1>5, <1>6, <1>8, <1>9, <1>10 DEF t

\* nothing but frames without a number has been sent so far
LEMMA PlainHold ==
    ASSUME NEW q \in Port, Linked(q), ToSet(q.out) \subseteq PlainFrames
    PROVE  Hold(q)
  BY DEF Hold, Linked, Up, Spoken, PlainFrames, Plain, Numbered

\* the port knows the same, as far as receiving goes
SameIn(p, q) ==
    q.vr = p.vr /\ q.sammler = p.sammler /\ q.qsumme = p.qsumme /\ q.got = p.got

\* the three things that a frame with data may do
TakesOne(y, q, f) ==
    /\ f.ns = y.vr /\ y.sammler[Plus(y.vr, 1)] = NoInfo
    /\ q.got = Append(y.got, f.info) /\ q.vr = Plus(y.vr, 1) /\ q.sammler = y.sammler
    /\ q.qsumme = [y.qsumme EXCEPT ![y.vr] = Quersumme(f.info)]

TakesTwo(y, q, f) ==
    LET v == Plus(y.vr, 1) z == y.sammler[v] IN
    /\ f.ns = y.vr /\ z # NoInfo
    /\ q.got = Append(Append(y.got, f.info), z) /\ q.vr = Plus(v, 1)
    /\ q.sammler = [y.sammler EXCEPT ![v] = NoInfo]
    /\ q.qsumme = [[y.qsumme EXCEPT ![y.vr] = Quersumme(f.info)] EXCEPT ![v] = Quersumme(z)]

Keeps(y, q, f) ==
    /\ f.ns = Plus(y.vr, 1) /\ y.qsumme[f.ns] # Quersumme(f.info)
    /\ q.got = y.got /\ q.vr = y.vr
    /\ q.sammler = [y.sammler EXCEPT ![f.ns] = f.info]
    /\ q.qsumme = [y.qsumme EXCEPT ![f.ns] = Quersumme(f.info)]

Receives(y, q, f) ==
    /\ Hold(q) /\ q.overrun = y.overrun
    /\ SameIn(y, q) \/ TakesOne(y, q, f) \/ TakesTwo(y, q, f) \/ Keeps(y, q, f)

LEMMA ReceivesChat ==
    ASSUME NEW y, NEW f, NEW p, Receives(y, p, f), NEW q, RxChat(p, q)
    PROVE  Receives(y, q, f)
  <1>1. Hold(q) /\ SameRx(p, q)
    BY HoldChat DEF Receives
  <1> QED
    BY <1>1 DEF Receives, SameRx, SameIn, TakesOne, TakesTwo, Keeps

LEMMA TakeOver ==
    ASSUME NEW p \in Port, NEW x \in Pieces, p.overrun \/ ~Stored(p, x)
    PROVE  Take(p, x).overrun /\ Take(p, x) \in Port
  <1> DEFINE a == Opened(p)
             b == Entered(p, x)
             t == Take(p, x)
  <1>1. SameRx(p, a)
    BY OpenedIs
  <1>2. Hush(a, b) /\ t.overrun = (b.overrun \/ ~Stored(p, x)) /\ t \in Port
    BY TakeIsThis
  <1> HIDE DEF a, b, t
  <1>3. b.overrun = p.overrun
    BY <1>1, <1>2 DEF Hush, SameRx
  <1> QED
    BY <1>2, <1>3 DEF t

LEMMA DrainPort ==
    ASSUME NEW t \in Port, NEW pf \in PFs
    PROVE  Drain(t, pf) \in Port
  <1>1. CASE t.sammler[t.vr] = NoInfo
    BY <1>1 DEF Drain
  <1>2. CASE t.sammler[t.vr] # NoInfo
    <2> DEFINE z == t.sammler[t.vr]
               sam == [t.sammler EXCEPT ![t.vr] = NoInfo]
               e == [t EXCEPT !.sammler = sam]
               u == Take(e, z)
    <2>1. Drain(t, pf) = AnswerInf(u, pf, TRUE)
      BY <1>2 DEF Drain
    <2>2. z \in Pieces /\ sam \in [Numbers -> Infos]
      BY <1>2, PortTypes DEF Infos
    <2>3. e \in Port
      BY <2>2 DEF Port
    <2> HIDE DEF z, e
    <2>4. u \in Port
      BY <2>2, <2>3, TakeIsThis
    <2> HIDE DEF u
    <2> QED
      BY <2>1, <2>4, AnswerInfChat DEF Chat
  <1> QED
    BY <1>1, <1>2

\* the frame that has been kept comes after the one that was missing
LEMMA DrainRx ==
    ASSUME NEW t \in Port, NEW pf \in PFs, ~Drain(t, pf).overrun
    PROVE  /\ ~t.overrun
           /\ t.sammler[t.vr] = NoInfo => Drain(t, pf) = t
           /\ (/\ t.sammler[t.vr] # NoInfo /\ Linked(t)
               /\ Quits(t.sammler[t.vr]) => t.lstate # "disc_request"
               /\ ToSet(t.out) \subseteq PlainFrames)
              => LET d == Drain(t, pf) z == t.sammler[t.vr] IN
                 /\ Hold(d) /\ d.overrun = t.overrun
                 /\ d.got = Append(t.got, z) /\ d.vr = Plus(t.vr, 1)
                 /\ d.sammler = [t.sammler EXCEPT ![t.vr] = NoInfo]
                 /\ d.qsumme = [t.qsumme EXCEPT ![t.vr] = Quersumme(z)]
  <1>1. CASE t.sammler[t.vr] = NoInfo
    BY <1>1 DEF Drain
  <1>2. CASE t.sammler[t.vr] # NoInfo
    <2> DEFINE z == t.sammler[t.vr]
               sam == [t.sammler EXCEPT ![t.vr] = NoInfo]
               e == [t EXCEPT !.sammler = sam]
               u == Take(e, z)
               d == AnswerInf(u, pf, TRUE)
    <2>1. Drain(t, pf) = d
      BY <1>2 DEF Drain
    <2>2. z \in Pieces /\ sam \in [Numbers -> Infos]
      BY <1>2, PortTypes DEF Infos
    <2>3. e \in Port
      BY <2>2 DEF Port
    <2>4. /\ e.sammler = sam /\ e.vr = t.vr /\ e.qsumme = t.qsumme /\ e.got = t.got /\ e.overrun = t.overrun
          /\ e.lstate = t.lstate /\ e.out = t.out /\ e.qtimer = t.qtimer /\ e.rxlen = t.rxlen
      BY DEF Port
    <2> HIDE DEF z, e
    <2>5. u \in Port
      BY <2>2, <2>3, TakeIsThis
    <2> HIDE DEF u
    <2>6. Chat(u, d)
      BY <2>5, AnswerInfChat
    <2> HIDE DEF d
    <2>7. ~u.overrun
      BY <2>1, <2>6 DEF Chat, SameRx
    <2>8. ~e.overrun /\ Stored(e, z)
      BY <2>2, <2>3, <2>7, TakeOver DEF u
    <2>9. ASSUME Linked(t), Quits(z) => t.lstate # "disc_request", ToSet(t.out) \subseteq PlainFrames
          PROVE  /\ Hold(d) /\ d.overrun = t.overrun
                 /\ d.got = Append(t.got, z) /\ d.vr = Plus(t.vr, 1)
                 /\ d.sammler = sam
                 /\ d.qsumme = [t.qsumme EXCEPT ![t.vr] = Quersumme(z)]
      <3>1. Linked(e)
        BY <2>4, <2>9 DEF Linked
      <3>2. /\ Linked(u) /\ u.overrun = e.overrun
            /\ u.got = Append(e.got, z) /\ u.vr = Plus(e.vr, 1) /\ u.sammler = e.sammler
            /\ u.qsumme = [e.qsumme EXCEPT ![e.vr] = Quersumme(z)]
            /\ ToSet(u.out) \subseteq ToSet(e.out) \cup PlainFrames
        BY <2>2, <2>3, <2>4, <2>8, <2>9, <3>1, TakeRx DEF u
      <3>3. Hold(u)
        BY <2>4, <2>5, <2>9, <3>2, PlainHold
      <3>4. RxChat(u, d)
        BY <2>5, <2>6, ChatIs
      <3>5. Hold(d) /\ SameRx(u, d)
        BY <3>3, <3>4, HoldChat
      <3> QED
        BY <2>4, <3>2, <3>5 DEF SameRx
    <2> QED
      BY <1>2, <2>1, <2>4, <2>8, <2>9 DEF z
  <1> QED
    BY <1>1, <1>2

LEMMA KeepRx ==
    ASSUME NEW y \in Port, NEW r, Hold(r), SameRx(y, r), NEW f \in GoodFrames, f.type = "I"
    PROVE  Receives(y, Keep(r, f), f)
  <1> DEFINE sam == [r.sammler EXCEPT ![f.ns] = f.info]
             sums == [r.qsumme EXCEPT ![f.ns] = Quersumme(f.info)]
             q == [r EXCEPT !.sammler = sam, !.qsumme = sums]
  <1>1. CASE f.ns = Plus(r.vr, 1) /\ ~r.qtimer /\ r.qsumme[f.ns] # Quersumme(f.info)
    <2>1. Keep(r, f) = q
      BY <1>1 DEF Keep
    <2>2. r \in Port /\ f.info \in Pieces
      BY DEF GoodFrames, Hold
    <2>3. sam \in [Numbers -> Infos] /\ sums \in [Numbers -> Sums]
      BY <2>2, PortTypes DEF Infos, Sums
    <2> DEFINE s1 == sam
               s2 == sums
               w == [r EXCEPT !.sammler = s1, !.qsumme = s2]
    <2> HIDE DEF s1, s2
    <2>4. s1 \in [Numbers -> Infos] /\ s2 \in [Numbers -> Sums] /\ q = w
      BY <2>3 DEF s1, s2
    <2>5. /\ w \in Port /\ w.sammler = s1 /\ w.qsumme = s2
          /\ w.vr = r.vr /\ w.got = r.got /\ w.overrun = r.overrun /\ w.lstate = r.lstate /\ w.out = r.out
      BY <2>2, <2>4 DEF Port
    <2> HIDE DEF w
    <2>6. Hold(w)
      BY <2>5 DEF Hold, Up, Spoken
    <2>7. Keeps(y, w, f) /\ w.overrun = y.overrun
      BY <1>1, <2>5 DEF Keeps, SameRx, s1, s2
    <2>8. Keep(r, f) = w
      BY <2>1, <2>4
    <2> QED
      BY <2>6, <2>7, <2>8 DEF Receives
  <1>2. CASE ~(f.ns = Plus(r.vr, 1) /\ ~r.qtimer /\ r.qsumme[f.ns] # Quersumme(f.info))
    <2>1. Keep(r, f) = r
      BY <1>2 DEF Keep
    <2> QED
      BY <2>1 DEF Receives, SameIn, SameRx
  <1> QED
    BY <1>1, <1>2

\* two pieces after another do not both ask for the end of the connection
Apart(y, f) ==
    LET z == y.sammler[Plus(y.vr, 1)] IN
    f.ns = y.vr /\ z # NoInfo => ~(Quits(f.info) /\ Quits(z))

LEMMA InfRx ==
    ASSUME NEW y \in Port, NEW a \in Port, SameRx(y, a), a.lstate \in Transfer,
           ToSet(a.out) \subseteq PlainFrames,
           NEW f \in GoodFrames, f.type = "I", Apart(y, f), ~Pacdecinf(a, f).overrun
    PROVE  Receives(y, Pacdecinf(a, f), f)
  <1> DEFINE p == Infack(a, f.nr)
             x == f.info
             t == Take(p, x)
             d == Drain(t, f.pf)
             r == Paccodrej(p, f.pf)
             k == Keep(r, f)
             b == IF f.ns = p.vr THEN d ELSE IF p.vr # Plus(f.ns, 1) THEN k ELSE p
             q == AnswerInf(b, f.pf, FALSE)
  <1>1. Pacdecinf(a, f) = q
    BY DEF Pacdecinf
  <1>2. f.nr \in Numbers /\ f.pf \in PFs /\ x \in Pieces
    BY DEF GoodFrames, Frame, PFs
  <1>3. p \in Port /\ SameRx(a, p) /\ p.out = a.out /\ p.lstate \in {a.lstate, "frame_reject"}
    BY <1>2, InfackRx
  <1> HIDE DEF p, x
  <1>4. Linked(p) /\ p.lstate # "disc_request" /\ SameRx(y, p)
    BY <1>3, NearSteps DEF Linked, Transfer
  <1>5. Hold(p)
    BY <1>3, <1>4, PlainHold
  <1>6. t \in Port
    BY <1>2, <1>3, TakeIsThis
  <1> HIDE DEF t
  <1>7. Receives(y, k, f)
    <2>1. Chat(p, r)
      BY <1>2, <1>3, <1>4, PaccodrejChat
    <2> HIDE DEF r
    <2>2. RxChat(p, r)
      BY <1>3, <2>1, ChatIs
    <2>3. Hold(r) /\ SameRx(p, r)
      BY <1>5, <2>2, HoldChat
    <2>4. SameRx(y, r)
      BY <1>4, <2>3, NearSteps
    <2> QED
      BY <2>3, <2>4, KeepRx
  <1>8. ASSUME f.ns = p.vr, ~d.overrun
        PROVE  Receives(y, d, f)
    <2>1. ~t.overrun
      BY <1>2, <1>6, <1>8, DrainRx
    <2>2. Stored(p, x)
      BY <1>2, <1>3, <2>1, TakeOver DEF t
    <2>3. /\ Linked(t) /\ t.overrun = p.overrun
          /\ t.got = Append(p.got, x) /\ t.vr = Plus(p.vr, 1) /\ t.sammler = p.sammler
          /\ t.qsumme = [p.qsumme EXCEPT ![p.vr] = Quersumme(x)]
          /\ ToSet(t.out) \subseteq ToSet(p.out) \cup PlainFrames
          /\ t.lstate = "disc_request" => p.lstate = "disc_request" \/ Quits(x)
      BY <1>2, <1>3, <1>4, <2>2, TakeRx DEF t
    <2>4. ToSet(t.out) \subseteq PlainFrames
      BY <1>3, <2>3
    <2>5. f.ns = y.vr
      BY <1>4, <1>8 DEF SameRx
    <2>6. CASE t.sammler[t.vr] = NoInfo
      <3>1. d = t
        BY <1>2, <1>6, <1>8, <2>6, DrainRx
      <3>2. Hold(t)
        BY <1>6, <2>3, <2>4, PlainHold
      <3>3. TakesOne(y, t, f) /\ t.overrun = y.overrun
        BY <1>4, <2>3, <2>5, <2>6 DEF TakesOne, SameRx, x
      <3> QED
        BY <3>1, <3>2, <3>3 DEF Receives
    <2>7. CASE t.sammler[t.vr] # NoInfo
      <3> DEFINE z == t.sammler[t.vr]
      <3>1. z = y.sammler[Plus(y.vr, 1)]
        BY <1>4, <2>3 DEF SameRx
      <3>2. Quits(z) => t.lstate # "disc_request"
        BY <1>4, <2>3, <2>5, <2>7, <3>1 DEF Apart, x
      <3>3. /\ Hold(d) /\ d.overrun = t.overrun
            /\ d.got = Append(t.got, z) /\ d.vr = Plus(t.vr, 1)
            /\ d.sammler = [t.sammler EXCEPT ![t.vr] = NoInfo]
            /\ d.qsumme = [t.qsumme EXCEPT ![t.vr] = Quersumme(z)]
        BY <1>2, <1>6, <1>8, <2>3, <2>4, <2>7, <3>2, DrainRx
      <3> HIDE DEF z
      <3>4. z # NoInfo
        BY <2>7 DEF z
      <3> HIDE DEF d
      <3>5. TakesTwo(y, d, f) /\ d.overrun = y.overrun
        BY <1>4, <2>3, <2>5, <3>1, <3>3, <3>4 DEF TakesTwo, SameRx, x
      <3> QED
        BY <3>3, <3>5 DEF Receives
    <2> QED
      BY <2>6, <2>7
  <1>9. Receives(y, p, f)
    BY <1>4, <1>5 DEF Receives, SameIn, SameRx
  <1>10. d \in Port
    BY <1>2, <1>6, DrainPort
  <1>11. k \in Port
    BY <1>7 DEF Receives, Hold
  <1> HIDE DEF d, k
  <1>12. b \in Port
    BY <1>3, <1>10, <1>11
  <1>13. Chat(b, q)
    BY <1>2, <1>12, AnswerInfChat
  <1>14. ~b.overrun
    BY <1>1, <1>13 DEF Chat, SameRx
  <1>15. Receives(y, b, f)
    BY <1>7, <1>8, <1>9, <1>14
  <1> HIDE DEF b, q
  <1>16. RxChat(b, q)
    BY <1>12, <1>13, ChatIs
  <1> QED
    BY <1>1, <1>15, <1>16, ReceivesChat

LEMMA BeginsChat ==
    ASSUME NEW p, Begins(p), NEW q, RxChat(p, q)
    PROVE  Begins(q)
  <1>1. Hold(q) /\ SameRx(p, q)
    BY HoldChat DEF Begins
  <1> QED
    BY <1>1 DEF Begins, SameRx

LEMMA PacdecinfPort ==
    ASSUME NEW a \in Port, a.lstate \in Transfer, NEW f \in GoodFrames, f.type = "I"
    PROVE  Pacdecinf(a, f) \in Port
  <1> DEFINE p == Infack(a, f.nr)
             t == Take(p, f.info)
             r == Paccodrej(p, f.pf)
             b == IF f.ns = p.vr THEN Drain(t, f.pf)
                  ELSE IF p.vr # Plus(f.ns, 1) THEN Keep(r, f) ELSE p
  <1>1. Pacdecinf(a, f) = AnswerInf(b, f.pf, FALSE)
    BY DEF Pacdecinf
  <1>2. f.nr \in Numbers /\ f.pf \in PFs /\ f.info \in Pieces
    BY DEF GoodFrames, Frame, PFs
  <1>3. p \in Port /\ p.lstate \in {a.lstate, "frame_reject"}
    BY <1>2, InfackRx
  <1> HIDE DEF p
  <1>4. t \in Port
    BY <1>2, <1>3, TakeIsThis
  <1>5. Linked(p)
    BY <1>3 DEF Linked, Transfer
  <1>6. r \in Port
    BY <1>2, <1>3, <1>5, PaccodrejChat DEF Chat
  <1> HIDE DEF t, r
  <1>7. b \in Port
    BY <1>2, <1>3, <1>4, <1>6, DrainPort, KeepTx DEF TxHush
  <1> HIDE DEF b
  <1> QED
    BY <1>1, <1>2, <1>7, AnswerInfChat DEF Chat

\* what the receiving station makes of a frame
LEMMA PacdecReceives ==
    ASSUME NEW y \in Port, y.out = <<>>, Off(y), y.lstate # "link_setup",
           NEW f \in GoodFrames, f.type = "I" => Apart(y, f), ~Pacdec(y, f).overrun
    PROVE  LET q == Pacdec(y, f) IN
           \/ Answers(y, q)
           \/ f.type = "SABM" /\ Begins(q)
           \/ f.type = "I" /\ Up(y) /\ Receives(y, q, f)
  <1>1. CASE ~Up(y)
    <2> DEFINE q == PacdecOther(y, f)
    <2>1. Pacdec(y, f) = q
      BY <1>1 DEF Pacdec, Up
    <2>2. CASE f.type # "SABM"
      <3>1. Hush(y, q)
        BY <2>2, OtherHush
      <3> QED
        BY <2>1, <3>1, HushAnswers
    <2>3. CASE f.type = "SABM"
      <3>1. q = y \/ q = Conack(y)
        BY <2>3 DEF PacdecOther
      <3>2. Answers(y, y)
        BY FlagsLevel, LevelHush, HushAnswers
      <3>3. ToSet(y.out) = {}
        BY DEF ToSet
      <3>4. Begins(Conack(y))
        BY <1>1, <3>3, ConackDown
      <3> QED
        BY <2>1, <2>3, <3>1, <3>2, <3>4
    <2> QED
      BY <2>2, <2>3
  <1>2. CASE Up(y)
    <2> DEFINE a == IF y.qtimer /\ y.txinfout = <<>> /\ y.vs = y.v1s THEN Disconnect(y, 1) ELSE y
               i == Infack(a, f.nr)
               b == CASE f.type = "SABM" -> Conack(a)
                      [] f.type = "UA" -> Pacdecua(a)
                      [] f.type = "DISC" -> Pacdecdm(Send(a, U("DM", "final")))
                      [] f.type = "DM" -> Pacdecdm(a)
                      [] f.type = "FRMR" -> Disconnect(a, 1)
                      [] f.type \in {"RR", "RNR", "REJ"} /\ a.lstate \in Transfer -> Pacdecsup(a, f)
                      [] f.type = "I" /\ a.lstate \in Transfer -> Pacdecinf(a, f)
                      [] OTHER -> a
               q == Tryinfo(b)
    <2>1. Pacdec(y, f) = q
      BY <1>2 DEF Pacdec, PacdecMatch, Up
    <2>2. Hush(y, a)
      BY FlagsLevel, LevelHush, DisconnectHush
    <2>3. \/ f.type = "SABM" /\ b = Conack(a)
          \/ f.type = "UA" /\ b = Pacdecua(a)
          \/ b \in {Pacdecdm(Send(a, U("DM", "final"))), Pacdecdm(a), Disconnect(a, 1), a}
          \/ a.lstate \in Transfer /\ f.type \in {"RR", "RNR", "REJ"} /\ b = Pacdecsup(a, f)
          \/ a.lstate \in Transfer /\ f.type = "I" /\ b = Pacdecinf(a, f)
      OBVIOUS
    <2> HIDE DEF a, b
    <2>4. a \in Port /\ Answers(y, a) /\ ToSet(a.out) \subseteq PlainFrames /\ a.lstate # "link_setup"
      BY <2>2, HushAnswers DEF Hush, Answers
    <2>5. Up(a) => Hold(a) /\ SameRx(y, a)
      BY <2>2, <2>4, HushAnswers DEF Answers
    <2>6. CASE f.type = "SABM" /\ b = Conack(a)
      <3>1. CASE Up(a)
        <4>1. RxChat(a, b)
          BY <2>4, <2>6, <3>1, ConackUp, ChatIs
        <4>2. Hold(b) /\ SameRx(y, b)
          BY <2>5, <3>1, <4>1, HoldChat, NearSteps
        <4>3. Answers(y, b)
          BY <1>2, <4>2, HoldAnswers
        <4> QED
          BY <2>1, <4>3, TryinfoAnswers
      <3>2. CASE ~Up(a)
        <4>1. Begins(b)
          BY <2>4, <2>6, <3>2, ConackDown
        <4>2. b \in Port /\ Up(b)
          BY <4>1 DEF Begins, Hold
        <4>3. RxChat(b, q)
          BY <4>2, TryinfoChat
        <4>4. Begins(q)
          BY <4>1, <4>3, BeginsChat
        <4> QED
          BY <2>1, <2>6, <4>4
      <3> QED
        BY <3>1, <3>2
    <2>7. ASSUME Hush(a, b)
          PROVE  Answers(y, q)
      <3>1. Hush(y, b)
        BY <2>2, <2>7, HushSteps
      <3>2. Answers(y, b)
        BY <3>1, HushAnswers
      <3> QED
        BY <3>2, TryinfoAnswers
    <2>8. CASE f.type = "UA" /\ b = Pacdecua(a)
      <3>1. b = Dodisc(a) \/ b = a
        BY <2>4, <2>8 DEF Pacdecua
      <3>2. Hush(a, b)
        BY <2>4, <3>1, DodiscHush, PacdecPlain
      <3> QED
        BY <2>1, <2>7, <3>2
    <2>9. CASE b \in {Pacdecdm(Send(a, U("DM", "final"))), Pacdecdm(a), Disconnect(a, 1), a}
      <3>1. Hush(a, b)
        BY <2>4, <2>9, PacdecPlain
      <3> QED
        BY <2>1, <2>7, <3>1
    <2>10. CASE a.lstate \in Transfer /\ f.type \in {"RR", "RNR", "REJ"} /\ b = Pacdecsup(a, f)
      <3>1. f.nr \in Numbers /\ Up(a)
        BY <2>10 DEF GoodFrames, Frame, Up, Transfer
      <3>2. RxChat(a, i)
        BY <2>4, <2>10, <3>1, InfackChat
      <3>3. i \in Port /\ Chat(i, b)
        BY <2>4, <2>10, SupRest
      <3> HIDE DEF i
      <3>4. RxChat(i, b)
        BY <3>3, ChatIs
      <3>5. Hold(i) /\ SameRx(y, i)
        BY <2>5, <3>1, <3>2, HoldChat, NearSteps
      <3>6. Hold(b) /\ SameRx(y, b)
        BY <3>4, <3>5, HoldChat, NearSteps
      <3>7. Answers(y, b)
        BY <1>2, <3>6, HoldAnswers
      <3> QED
        BY <2>1, <3>7, TryinfoAnswers
    <2>11. CASE a.lstate \in Transfer /\ f.type = "I" /\ b = Pacdecinf(a, f)
      <3>1. Up(a) /\ Linked(a)
        BY <2>11 DEF Up, Linked, Transfer
      <3>2. SameRx(y, a)
        BY <2>5, <3>1
      <3>3. b \in Port /\ (~b.overrun => Receives(y, b, f))
        <4>1. b \in Port
          BY <2>4, <2>11, <3>1, PacdecinfPort
        <4>2. ~b.overrun => Receives(y, b, f)
          BY <2>4, <2>11, <3>2, InfRx
        <4> QED
          BY <4>1, <4>2
      <3>4. q.overrun = b.overrun
        BY <3>3, TryinfoChat, TryinfoDown DEF RxChat, SameRx
      <3>5. ~b.overrun
        BY <2>1, <3>4
      <3>6. Receives(y, b, f)
        BY <3>3, <3>5
      <3>7. Up(b)
        BY <3>6 DEF Receives, Hold
      <3>8. RxChat(b, q)
        BY <3>3, <3>7, TryinfoChat
      <3>9. Receives(y, q, f)
        BY <3>6, <3>8, ReceivesChat
      <3> QED
        BY <1>2, <2>1, <2>11, <3>9
    <2> QED
      BY <2>3, <2>6, <2>8, <2>9, <2>10, <2>11
  <1> QED
    BY <1>1, <1>2

-----------------------------------------------------------------------------
(* The stream from x to y, with the frames a under way from x and the      *)
(* frames b from y.                                                        *)

\* The frame after the missing one may be there already: all pieces before
\* Edge are.
Kept(y) == y.sammler[Plus(y.vr, 1)] # NoInfo
Edge(y) == IF Kept(y) THEN Len(y.got) + 2 ELSE Len(y.got)

\* the number of the piece that a frame carries, counted from 0
Num(f) == f.info[2] - 1

Fresh(y) ==
    y.got = <<>> /\ (Up(y) => y.vr = 0 /\ \A n \in Numbers : y.sammler[n] = NoInfo)

Shapes(x, y, a, b) ==
    /\ x \in Port /\ x.sess = 1 /\ y \in Port /\ Off(y) /\ y.lstate # "link_setup"
    /\ a \in Seq(GoodFrames) /\ b \in Seq(GoodFrames)

\* The setup of the link is over before data are sent.
Setup(x, y, a, b) ==
    /\ \A k \in 1 .. Len(b) : b[k].type # "SABM"
    /\ x.lstate = "link_setup" => Fresh(y) /\ \A k \in 1 .. Len(a) : a[k].type # "I"
    /\ \A k \in 1 .. Len(a) : a[k].type = "SABM" => Fresh(y) /\ \A i \in 1 .. k : a[i].type # "I"

\* What has been received is the beginning of the data, and what is kept is
\* the piece after the next; the check sums are those of the last M pieces.
SumsRight(y) ==
    \A i \in 1 .. Len(y.got) :
        i > Len(y.got) - M =>
            y.qsumme[(i - 1) % M] = Quersumme(<<1, i>>) \/ (i = Len(y.got) + 2 - M /\ Kept(y))

Arrived(x, y) ==
    /\ \A i \in 1 .. Len(y.got) : y.got[i] = <<1, i>>
    /\ Len(y.got) <= x.sub
    /\ Up(y) =>
        /\ y.vr = Len(y.got) % M
        /\ \A n \in Numbers : y.sammler[n] # NoInfo =>
              n = Plus(y.vr, 1) /\ y.sammler[n] = <<1, Len(y.got) + 2>> /\ Len(y.got) + 2 <= x.sub
        /\ SumsRight(y)

\* A frame carries a piece that is not too far from what has arrived.
Piece(x, y, f) ==
    /\ Num(f) \in Nat /\ f.info = <<1, Num(f) + 1>> /\ f.ns = Num(f) % M /\ Num(f) < x.sub
    /\ Num(f) < Len(y.got) + MaxFrame /\ Edge(y) <= Num(f) + MaxFrame
    /\ Up(x) => Num(f) < V(x)

Carried(x, y, a) ==
    \A k \in 1 .. Len(a) : a[k].type = "I" =>
        /\ Piece(x, y, a[k])
        /\ \A i \in 1 .. k - 1 : a[i].type = "I" => Num(a[i]) + 1 <= Num(a[k]) + MaxFrame

\* The acknowledgements under way are in order, and of what has arrived.
Acks(x, y, b) ==
    Up(x) => \A k \in 1 .. Len(b) : b[k].type \in Numbered =>
        /\ Minus(b[k].nr, x.v1s) <= Len(y.got) - x.acked
        /\ \A i \in 1 .. k - 1 :
              b[i].type \in Numbered => Minus(b[i].nr, x.v1s) <= Minus(b[k].nr, x.v1s)

\* What is released has arrived, and what has arrived was sent.
Ahead(x, y) ==
    /\ x.acked <= Len(y.got)
    /\ Up(x) => Window(x) /\ Edge(y) <= V(x)

Link(x, y, a, b) ==
    /\ Shapes(x, y, a, b) /\ Setup(x, y, a, b)
    /\ Arrived(x, y) /\ Carried(x, y, a) /\ Acks(x, y, b) /\ Ahead(x, y)

LEMMA TailIs ==
    ASSUME NEW s \in Seq(GoodFrames), s # <<>>
    PROVE  /\ Tail(s) \in Seq(GoodFrames) /\ Len(s) \in Nat /\ Len(s) >= 1 /\ Len(Tail(s)) = Len(s) - 1
           /\ Head(s) = s[1] /\ Head(s) \in GoodFrames
           /\ \A k \in 1 .. Len(Tail(s)) : k + 1 \in 1 .. Len(s) /\ Tail(s)[k] = s[k + 1]
  OBVIOUS

\* the first frame under way from x is gone
LEMMA LoseFirst ==
    ASSUME NEW x, NEW y, NEW a, NEW b, Link(x, y, a, b), a # <<>>
    PROVE  /\ Link(x, y, Tail(a), b)
           /\ Head(a).type = "I" =>
                /\ Piece(x, y, Head(a))
                /\ x.lstate # "link_setup" /\ \A k \in 1 .. Len(Tail(a)) : Tail(a)[k].type # "SABM"
                /\ \A k \in 1 .. Len(Tail(a)) :
                      Tail(a)[k].type = "I" => Num(Head(a)) + 1 <= Num(Tail(a)[k]) + MaxFrame
           /\ Head(a).type = "SABM" => Fresh(y)
  <1> DEFINE t == Tail(a)
  <1>1. a \in Seq(GoodFrames)
    BY DEF Link, Shapes
  <1>2. /\ t \in Seq(GoodFrames) /\ Len(a) \in Nat /\ Len(a) >= 1 /\ Len(t) = Len(a) - 1 /\ Head(a) = a[1]
        /\ \A k \in 1 .. Len(t) : k + 1 \in 1 .. Len(a) /\ t[k] = a[k + 1]
    BY <1>1, TailIs
  <1> HIDE DEF t
  <1>3. Shapes(x, y, t, b)
    BY <1>2 DEF Link, Shapes
  <1>4. Setup(x, y, t, b)
    <2>1. \A k \in 1 .. Len(b) : b[k].type # "SABM"
      BY DEF Link, Setup
    <2>2. x.lstate = "link_setup" => Fresh(y) /\ \A k \in 1 .. Len(t) : t[k].type # "I"
      BY <1>2 DEF Link, Setup
    <2>3. ASSUME NEW k \in 1 .. Len(t), t[k].type = "SABM"
          PROVE  Fresh(y) /\ \A i \in 1 .. k : t[i].type # "I"
      <3>1. Fresh(y) /\ \A i \in 1 .. k + 1 : a[i].type # "I"
        BY <1>2, <2>3 DEF Link, Setup
      <3>2. \A i \in 1 .. k : i \in 1 .. Len(t) /\ i + 1 \in 1 .. k + 1
        BY <1>2
      <3> QED
        BY <1>2, <3>1, <3>2
    <2> QED
      BY <2>1, <2>2, <2>3 DEF Setup
  <1>5. Carried(x, y, t)
    <2>1. ASSUME NEW k \in 1 .. Len(t), t[k].type = "I"
          PROVE  /\ Piece(x, y, t[k])
                 /\ \A i \in 1 .. k - 1 : t[i].type = "I" => Num(t[i]) + 1 <= Num(t[k]) + MaxFrame
      <3>1. /\ Piece(x, y, a[k + 1])
            /\ \A i \in 1 .. k : a[i].type = "I" => Num(a[i]) + 1 <= Num(a[k + 1]) + MaxFrame
        <4>1. k + 1 \in 1 .. Len(a) /\ a[k + 1].type = "I" /\ (k + 1) - 1 = k
          BY <1>2, <2>1
        <4> QED
          BY <4>1 DEF Link, Carried
      <3>2. \A i \in 1 .. k - 1 : i \in 1 .. Len(t) /\ i + 1 \in 1 .. k
        BY <1>2
      <3> QED
        BY <1>2, <3>1, <3>2
    <2> QED
      BY <2>1 DEF Carried
  <1>6. ASSUME a[1].type = "I"
        PROVE  /\ Piece(x, y, a[1]) /\ x.lstate # "link_setup"
               /\ \A k \in 1 .. Len(t) : t[k].type # "SABM"
               /\ \A k \in 1 .. Len(t) : t[k].type = "I" => Num(a[1]) + 1 <= Num(t[k]) + MaxFrame
    <2>1. 1 \in 1 .. Len(a)
      BY <1>2
    <2>2. Piece(x, y, a[1]) /\ x.lstate # "link_setup"
      BY <1>6, <2>1 DEF Link, Carried, Setup
    <2>3. ASSUME NEW k \in 1 .. Len(t)
          PROVE  /\ t[k].type # "SABM"
                 /\ t[k].type = "I" => Num(a[1]) + 1 <= Num(t[k]) + MaxFrame
      <3>1. k + 1 \in 1 .. Len(a) /\ t[k] = a[k + 1] /\ 1 \in 1 .. k + 1 /\ 1 \in 1 .. (k + 1) - 1
        BY <1>2
      <3> QED
        BY <1>6, <3>1 DEF Link, Setup, Carried
    <2> QED
      BY <2>2, <2>3
  <1>7. a[1].type = "SABM" => Fresh(y)
    BY <1>2 DEF Link, Setup
  <1>8. Link(x, y, t, b)
    BY <1>3, <1>4, <1>5 DEF Link
  <1> QED
    BY <1>2, <1>6, <1>7, <1>8 DEF t

\* the first frame under way from y is gone
LEMMA LoseAnswer ==
    ASSUME NEW x, NEW y, NEW a, NEW b, Link(x, y, a, b), b # <<>>
    PROVE  /\ Link(x, y, a, Tail(b)) /\ Head(b).type # "SABM"
           /\ Up(x) /\ Head(b).type \in Numbered =>
                /\ Minus(Head(b).nr, x.v1s) <= Len(y.got) - x.acked
                /\ \A k \in 1 .. Len(Tail(b)) :
                      Tail(b)[k].type \in Numbered => Minus(Head(b).nr, x.v1s) <= Minus(Tail(b)[k].nr, x.v1s)
  <1> DEFINE t == Tail(b)
  <1>1. b \in Seq(GoodFrames)
    BY DEF Link, Shapes
  <1>2. /\ t \in Seq(GoodFrames) /\ Len(b) \in Nat /\ Len(b) >= 1 /\ Len(t) = Len(b) - 1 /\ Head(b) = b[1]
        /\ \A k \in 1 .. Len(t) : k + 1 \in 1 .. Len(b) /\ t[k] = b[k + 1]
    BY <1>1, TailIs
  <1> HIDE DEF t
  <1>3. Shapes(x, y, a, t) /\ Setup(x, y, a, t)
    BY <1>2 DEF Link, Shapes, Setup
  <1>4. ASSUME Up(x), NEW k \in 1 .. Len(t), t[k].type \in Numbered
        PROVE  /\ Minus(t[k].nr, x.v1s) <= Len(y.got) - x.acked
               /\ \A i \in 1 .. k - 1 :
                     t[i].type \in Numbered => Minus(t[i].nr, x.v1s) <= Minus(t[k].nr, x.v1s)
               /\ b[1].type \in Numbered => Minus(b[1].nr, x.v1s) <= Minus(t[k].nr, x.v1s)
    <2>1. k + 1 \in 1 .. Len(b) /\ b[k + 1].type \in Numbered /\ (k + 1) - 1 = k
      BY <1>2, <1>4
    <2>2. /\ Minus(b[k + 1].nr, x.v1s) <= Len(y.got) - x.acked
          /\ \A i \in 1 .. k :
                b[i].type \in Numbered => Minus(b[i].nr, x.v1s) <= Minus(b[k + 1].nr, x.v1s)
      BY <1>4, <2>1 DEF Link, Acks
    <2>3. 1 \in 1 .. k /\ \A i \in 1 .. k - 1 : i \in 1 .. Len(t) /\ i + 1 \in 1 .. k
      BY <1>2
    <2> QED
      BY <1>2, <2>2, <2>3
  <1>5. Acks(x, y, t)
    BY <1>4 DEF Acks
  <1>6. b[1].type # "SABM"
    BY <1>2 DEF Link, Setup
  <1>7. Up(x) /\ b[1].type \in Numbered => Minus(b[1].nr, x.v1s) <= Len(y.got) - x.acked
    BY <1>2 DEF Link, Acks
  <1>8. Link(x, y, a, t)
    BY <1>3, <1>5 DEF Link
  <1> QED
    BY <1>2, <1>4, <1>6, <1>7, <1>8 DEF t

-----------------------------------------------------------------------------
(* The steps of the two stations keep the stream.                          *)

\* frames out of F may come behind those of h
Behind(c, h, F) ==
    /\ c \in Seq(GoodFrames)
    /\ \A k \in 1 .. Len(c) : (k \in 1 .. Len(h) /\ c[k] = h[k]) \/ (k > Len(h) /\ c[k] \in F)

\* what else the flow of the data depends on
Flow(p, q) == q.rxlen = p.rxlen /\ q.qtimer = p.qtimer /\ q.rembusy = p.rembusy

\* the frames have been taken from the port
Emptied(q, z) ==
    /\ Near(q, z) /\ z.out = <<>> /\ z.timer2 = q.timer2 /\ z.busy = q.busy /\ Flow(q, z)

LEMMA WindowRange ==
    ASSUME NEW p \in Port, Window(p)
    PROVE  /\ p.acked \in Nat /\ V(p) \in Nat /\ p.acked <= V(p) /\ V(p) <= p.acked + MaxFrame
           /\ V(p) <= p.sub /\ p.sub \in Nat /\ MaxFrame \in Nat
  <1>1. p.acked \in Nat /\ V(p) \in Int /\ p.sub \in Nat /\ Len(p.txinfout) \in Nat /\ MaxFrame \in Nat
    BY PortTypes, Parameters
  <1> QED
    BY <1>1 DEF Window, V

\* Where an acknowledgement lies, seen from a window that has moved on by d.
LEMMA MovedOn ==
    ASSUME NEW x \in Port, Window(x), NEW q \in Port, Window(q), NEW d \in Nat, d < M,
           q.acked = x.acked + d, NEW nr \in Numbers, d <= Minus(nr, x.v1s)
    PROVE  Minus(nr, q.v1s) = Minus(nr, x.v1s) - d
  <1> DEFINE v == x.v1s
             w == q.v1s
  <1>1. v \in Numbers /\ w \in Numbers /\ x.acked \in Nat /\ v = x.acked % M /\ w = (x.acked + d) % M
    BY PortTypes DEF Window
  <1>2. Minus(w, v) = d
    <2>1. d \in 0 .. M - 1
      BY Parameters
    <2> QED
      BY <1>1, <2>1, ModMinus
  <1> HIDE DEF v, w
  <1>3. Minus(nr, w) = IF Minus(nr, v) < Minus(w, v) THEN Minus(nr, v) - Minus(w, v) + M
                       ELSE Minus(nr, v) - Minus(w, v)
    BY <1>1, MinusFrom
  <1>4. Minus(nr, v) \in Nat
    BY <1>1, MinusRange
  <1> DEFINE m == Minus(nr, v)
             e == Minus(w, v)
  <1>5. m \in Nat /\ d <= m /\ e = d
    BY <1>2, <1>4 DEF v
  <1> HIDE DEF m, e
  <1>6. ~(m < e)
    BY <1>5
  <1> QED
    BY <1>3, <1>5, <1>6 DEF m, e, v, w

\* the sender
LEMMA SendStep ==
    ASSUME NEW x, NEW y, NEW a, NEW b, Link(x, y, a, b),
           NEW q, Sends(x, q), NEW z, Emptied(q, z), NEW c, Behind(c, a, ToSet(q.out)),
           NEW d \in Nat, q.acked = x.acked + d, d <= Len(y.got) - x.acked,
           Up(x) => \A k \in 1 .. Len(b) : b[k].type \in Numbered => d <= Minus(b[k].nr, x.v1s)
    PROVE  Link(z, y, c, b) /\ z.sub = x.sub /\ z.acked = x.acked + d
  <1>1. /\ x \in Port /\ y \in Port /\ z \in Port /\ q \in Port
        /\ z.sess = x.sess /\ z.sub = x.sub /\ z.acked = x.acked + d /\ z.lstate = q.lstate
        /\ z.acked = q.acked /\ q.sub = x.sub /\ q.sess = x.sess
    BY DEF Link, Shapes, Sends, Emptied, Near, SameTx
  <1>2. (Up(z) <=> Up(q)) /\ (Up(q) => Up(x) /\ Window(x) /\ Window(q) /\ V(x) <= V(q))
    BY <1>1 DEF Up, Sends, Link, Ahead
  <1>3. SameTx(q, z) /\ V(z) = V(q) /\ (Window(q) => Window(z)) /\ z.v1s = q.v1s
    BY WindowSame DEF Emptied, Near, SameTx
  <1>4. /\ Len(y.got) \in Nat /\ x.acked \in Nat /\ x.sub \in Nat /\ V(x) \in Int /\ V(q) \in Int /\ M \in Nat
        /\ MaxFrame \in Nat /\ MaxFrame < M
    BY <1>1, PortTypes, Parameters
  <1>5. z.acked <= Len(y.got)
    BY <1>1, <1>4
  <1>6. Edge(y) \in Nat
    BY <1>4 DEF Edge
  <1>7. Up(z) => Window(z) /\ Edge(y) <= V(z)
    <2>1. Up(z) => Edge(y) <= V(x)
      BY <1>2 DEF Link, Ahead
    <2> QED
      BY <1>2, <1>3, <1>4, <1>6, <2>1
  <1>8. Ahead(z, y)
    BY <1>5, <1>7 DEF Ahead
  <1>9. Arrived(z, y)
    BY <1>1 DEF Link, Arrived
  <1>10. Shapes(z, y, c, b)
    BY <1>1 DEF Link, Shapes, Behind
  <1>11. Acks(z, y, b)
    <2> SUFFICES ASSUME Up(z), NEW k \in 1 .. Len(b), b[k].type \in Numbered
                 PROVE  /\ Minus(b[k].nr, z.v1s) <= Len(y.got) - z.acked
                        /\ \A i \in 1 .. k - 1 : b[i].type \in Numbered =>
                              Minus(b[i].nr, z.v1s) <= Minus(b[k].nr, z.v1s)
      BY DEF Acks
    <2>1. d < M
      <3>1. Len(y.got) <= Edge(y) /\ Edge(y) <= V(x) /\ V(x) <= x.acked + MaxFrame
        BY <1>2, <1>4 DEF Edge, Link, Ahead, Window
      <3> QED
        BY <1>4, <1>6, <3>1
    <2>2. \A i \in 1 .. Len(b) : b[i].type \in Numbered =>
              /\ b[i].nr \in Numbers /\ d <= Minus(b[i].nr, x.v1s)
              /\ Minus(b[i].nr, z.v1s) = Minus(b[i].nr, x.v1s) - d
      <3> SUFFICES ASSUME NEW i \in 1 .. Len(b), b[i].type \in Numbered
                   PROVE  /\ b[i].nr \in Numbers /\ d <= Minus(b[i].nr, x.v1s)
                          /\ Minus(b[i].nr, z.v1s) = Minus(b[i].nr, x.v1s) - d
        OBVIOUS
      <3>1. b[i] \in GoodFrames
        BY DEF Link, Shapes
      <3>2. b[i].nr \in Numbers /\ d <= Minus(b[i].nr, x.v1s)
        BY <1>2, <3>1 DEF GoodFrames, Frame
      <3> QED
        BY <1>1, <1>2, <1>3, <2>1, <3>2, MovedOn
    <2>3. /\ Minus(b[k].nr, x.v1s) <= Len(y.got) - x.acked
          /\ \A i \in 1 .. k - 1 : b[i].type \in Numbered =>
                Minus(b[i].nr, x.v1s) <= Minus(b[k].nr, x.v1s)
      BY <1>2 DEF Link, Acks
    <2>4. \A i \in 1 .. k - 1 : i \in 1 .. Len(b)
      BY <1>10 DEF Shapes
    <2>5. \A i \in 1 .. Len(b) : b[i].type \in Numbered => Minus(b[i].nr, x.v1s) \in Nat
      BY <1>1, <2>2, PortTypes, MinusRange
    <2> DEFINE old == [i \in 1 .. Len(b) |-> Minus(b[i].nr, x.v1s)]
               new == [i \in 1 .. Len(b) |-> Minus(b[i].nr, z.v1s)]
               g == Len(y.got)
    <2>6. \A i \in 1 .. Len(b) : b[i].type \in Numbered => old[i] \in Nat /\ new[i] = old[i] - d
      BY <2>2, <2>5
    <2>7. old[k] <= g - x.acked /\ \A i \in 1 .. k - 1 : b[i].type \in Numbered => old[i] <= old[k]
      BY <2>3, <2>4
    <2>8. z.acked = x.acked + d /\ g \in Nat /\ x.acked \in Nat
      BY <1>1, <1>4
    <2>9. \A i \in 1 .. Len(b) : new[i] = Minus(b[i].nr, z.v1s)
      OBVIOUS
    <2> HIDE DEF old, new, g
    <2>10. new[k] <= g - z.acked
      BY <2>6, <2>7, <2>8
    <2>11. \A i \in 1 .. k - 1 : b[i].type \in Numbered => new[i] <= new[k]
      BY <2>4, <2>6, <2>7
    <2> QED
      BY <2>4, <2>9, <2>10, <2>11 DEF g
  <1>12. \A f \in ToSet(q.out) :
            /\ f.type # "SABM"
            /\ f.type = "I" => Up(x) /\ q.lstate # "link_setup" /\ \E n \in Nat : Sent(q, f, n)
    BY DEF Sends
  <1>13. Setup(z, y, c, b)
    <2>1. z.lstate = "link_setup" => x.lstate = "link_setup"
      BY <1>1 DEF Sends
    <2>2. z.lstate = "link_setup" => Fresh(y) /\ \A k \in 1 .. Len(c) : c[k].type # "I"
      BY <1>1, <1>12, <2>1 DEF Behind, Link, Setup
    <2>3. ASSUME NEW k \in 1 .. Len(c), c[k].type = "SABM"
          PROVE  Fresh(y) /\ \A i \in 1 .. k : c[i].type # "I"
      <3>1. k \in 1 .. Len(a) /\ c[k] = a[k]
        BY <1>12, <2>3 DEF Behind
      <3>2. Fresh(y) /\ \A i \in 1 .. k : a[i].type # "I"
        BY <2>3, <3>1 DEF Link, Setup
      <3>3. \A i \in 1 .. k : i \in 1 .. Len(c) /\ i \in 1 .. Len(a)
        BY <3>1, <1>10 DEF Shapes, Link
      <3>4. \A i \in 1 .. k : c[i] = a[i]
        BY <3>3 DEF Behind
      <3> QED
        BY <3>2, <3>4
    <2> QED
      BY <2>2, <2>3 DEF Setup, Link
  <1>14. \A k \in 1 .. Len(a) : a[k].type = "I" => Piece(z, y, a[k])
    <2> SUFFICES ASSUME NEW k \in 1 .. Len(a), a[k].type = "I" PROVE Piece(z, y, a[k])
      OBVIOUS
    <2>1. Piece(x, y, a[k])
      BY DEF Link, Carried
    <2>2. Up(z) => Num(a[k]) < V(z)
      BY <1>2, <1>3, <1>4, <2>1 DEF Piece
    <2> QED
      BY <1>1, <2>1, <2>2 DEF Piece
  <1>15. ASSUME NEW f \in ToSet(q.out), f.type = "I"
         PROVE  Piece(z, y, f) /\ Up(x) /\ q.acked <= Num(f) /\ Num(f) < q.acked + MaxFrame
    <2>1. Up(x)
      BY <1>12, <1>15
    <2>2. PICK n \in Nat : Sent(q, f, n)
      BY <1>12, <1>15
    <2>3. f.info = <<1, n + 1>> /\ Num(f) = n
      BY <1>1, <2>2 DEF Sent, Carries, Num, Link, Shapes
    <2>4. /\ f.ns = n % M /\ q.acked <= n /\ n < q.acked + MaxFrame /\ n < q.sub
          /\ Up(q) => n < V(q)
      BY <2>2 DEF Sent, Carries
    <2>5. Edge(y) <= n + MaxFrame
      <3>1. Edge(y) <= V(x) /\ V(x) <= x.acked + MaxFrame
        BY <2>1 DEF Link, Ahead, Window
      <3> QED
        BY <1>1, <1>4, <1>6, <2>4, <3>1
    <2>6. n < Len(y.got) + MaxFrame
      <3> DEFINE g == Len(y.got)
      <3>1. q.acked <= g /\ q.acked \in Nat /\ g \in Nat
        BY <1>1, <1>4, <1>5, PortTypes
      <3> HIDE DEF g
      <3> QED
        BY <1>4, <2>2, <2>4, <3>1 DEF g
    <2> QED
      BY <1>1, <1>2, <1>3, <2>1, <2>3, <2>4, <2>5, <2>6 DEF Piece
  <1>16. Carried(z, y, c)
    <2> SUFFICES ASSUME NEW k \in 1 .. Len(c), c[k].type = "I"
                 PROVE  /\ Piece(z, y, c[k])
                        /\ \A i \in 1 .. k - 1 : c[i].type = "I" => Num(c[i]) + 1 <= Num(c[k]) + MaxFrame
      BY DEF Carried
    <2>0. \A i \in 1 .. k - 1 : i \in 1 .. Len(c)
      BY <1>10 DEF Shapes
    <2>1. CASE k \in 1 .. Len(a) /\ c[k] = a[k]
      <3>1. \A i \in 1 .. k - 1 : i \in 1 .. Len(a)
        BY <2>1 DEF Link, Shapes
      <3>2. \A i \in 1 .. k - 1 : c[i] = a[i]
        BY <2>0, <3>1 DEF Behind
      <3>3. \A i \in 1 .. k - 1 : a[i].type = "I" => Num(a[i]) + 1 <= Num(a[k]) + MaxFrame
        BY <2>1 DEF Link, Carried
      <3> QED
        BY <1>14, <2>1, <3>2, <3>3
    <2>2. CASE k > Len(a) /\ c[k] \in ToSet(q.out)
      <3>1. Piece(z, y, c[k]) /\ Up(x) /\ q.acked <= Num(c[k])
        BY <1>15, <2>2
      <3>2. ASSUME NEW i \in 1 .. k - 1, c[i].type = "I"
            PROVE  Num(c[i]) + 1 <= Num(c[k]) + MaxFrame
        <4>1. Num(c[i]) \in Nat /\ Num(c[i]) < q.acked + MaxFrame
          <5>1. CASE i \in 1 .. Len(a) /\ c[i] = a[i]
            <6>1. Num(a[i]) \in Nat /\ Num(a[i]) < V(x)
              BY <3>1, <3>2, <5>1 DEF Link, Carried, Piece
            <6>2. V(x) <= x.acked + MaxFrame
              BY <3>1 DEF Link, Ahead, Window
            <6> QED
              BY <1>1, <1>4, <5>1, <6>1, <6>2
          <5>2. CASE c[i] \in ToSet(q.out)
            BY <1>15, <3>2, <5>2 DEF Piece
          <5> QED
            BY <2>0, <5>1, <5>2 DEF Behind
        <4>2. Num(c[k]) \in Nat
          BY <3>1 DEF Piece
        <4> QED
          BY <1>1, <1>4, <3>1, <4>1, <4>2
      <3> QED
        BY <3>1, <3>2
    <2> QED
      BY <2>1, <2>2 DEF Behind
  <1> QED
    BY <1>1, <1>8, <1>9, <1>10, <1>11, <1>13, <1>16 DEF Link

\* y has become z, which may have got more
LEMMA ReceiverStep ==
    ASSUME NEW x, NEW y, NEW a, NEW b, Link(x, y, a, b),
           NEW z \in Port, Off(z), z.lstate # "link_setup", Arrived(x, z),
           Len(y.got) <= Len(z.got),
           (x.lstate = "link_setup" \/ \E k \in 1 .. Len(a) : a[k].type = "SABM") => Fresh(z),
           \A k \in 1 .. Len(a) : a[k].type = "I" => Edge(z) <= Num(a[k]) + MaxFrame,
           Up(x) => Edge(z) <= V(x),
           NEW F, \A f \in F : f.type # "SABM" /\ (f.type \in Numbered => Up(z) /\ f.nr = z.vr),
           NEW c, Behind(c, b, F)
    PROVE  Link(x, z, a, c)
  <1>1. /\ x \in Port /\ y \in Port /\ Len(y.got) \in Nat /\ Len(z.got) \in Nat /\ x.acked \in Nat
        /\ V(x) \in Int /\ MaxFrame \in Nat /\ MaxFrame < M /\ M \in Nat /\ x.v1s \in Numbers
    BY PortTypes, Parameters DEF Link, Shapes
  <1>2. Shapes(x, z, a, c)
    BY DEF Link, Shapes, Behind
  <1>3. Setup(x, z, a, c)
    <2>1. \A k \in 1 .. Len(c) : c[k].type # "SABM"
      BY DEF Behind, Link, Setup
    <2> QED
      BY <2>1 DEF Link, Setup
  <1>4. Carried(x, z, a)
    <2> SUFFICES ASSUME NEW k \in 1 .. Len(a), a[k].type = "I"
                 PROVE  /\ Piece(x, z, a[k])
                        /\ \A i \in 1 .. k - 1 : a[i].type = "I" => Num(a[i]) + 1 <= Num(a[k]) + MaxFrame
      BY DEF Carried
    <2>1. Piece(x, y, a[k])
      BY DEF Link, Carried
    <2>2. Edge(z) <= Num(a[k]) + MaxFrame
      OBVIOUS
    <2>3. Num(a[k]) < Len(z.got) + MaxFrame
      BY <1>1, <2>1 DEF Piece
    <2>4. \A i \in 1 .. k - 1 : a[i].type = "I" => Num(a[i]) + 1 <= Num(a[k]) + MaxFrame
      BY DEF Link, Carried
    <2> QED
      BY <2>1, <2>2, <2>3, <2>4 DEF Piece
  <1>5. Ahead(x, z)
    <2>1. x.acked <= Len(z.got)
      BY <1>1 DEF Link, Ahead
    <2> QED
      BY <2>1 DEF Link, Ahead
  <1>6. Acks(x, z, c)
    <2> SUFFICES ASSUME Up(x), NEW k \in 1 .. Len(c), c[k].type \in Numbered
                 PROVE  /\ Minus(c[k].nr, x.v1s) <= Len(z.got) - x.acked
                        /\ \A i \in 1 .. k - 1 : c[i].type \in Numbered =>
                              Minus(c[i].nr, x.v1s) <= Minus(c[k].nr, x.v1s)
      BY DEF Acks
    <2>0. \A i \in 1 .. k : i \in 1 .. Len(c) /\ (i \in 1 .. Len(b) \/ i > Len(b))
      BY <1>2 DEF Shapes, Link
    <2>1. \A i \in 1 .. Len(b) : b[i].type \in Numbered =>
              /\ Minus(b[i].nr, x.v1s) \in Nat
              /\ Minus(b[i].nr, x.v1s) <= Len(y.got) - x.acked
      <3> SUFFICES ASSUME NEW i \in 1 .. Len(b), b[i].type \in Numbered
                   PROVE  /\ Minus(b[i].nr, x.v1s) \in Nat
                          /\ Minus(b[i].nr, x.v1s) <= Len(y.got) - x.acked
        OBVIOUS
      <3>1. b[i] \in GoodFrames
        BY DEF Link, Shapes
      <3>2. b[i].nr \in Numbers
        BY <3>1 DEF GoodFrames, Frame
      <3> QED
        BY <1>1, <3>2, MinusRange DEF Link, Acks
    <2>2. \A f \in F : f.type \in Numbered => Minus(f.nr, x.v1s) = Len(z.got) - x.acked
      <3> SUFFICES ASSUME NEW f \in F, f.type \in Numbered
                   PROVE  Minus(f.nr, x.v1s) = Len(z.got) - x.acked
        OBVIOUS
      <3>1. f.nr = Len(z.got) % M
        BY DEF Arrived
      <3>2. x.v1s = x.acked % M /\ V(x) <= x.acked + MaxFrame
        BY DEF Link, Ahead, Window
      <3> DEFINE g == Len(z.got)
                 e == Edge(z)
                 v == V(x)
      <3>3. g <= e /\ e \in Nat
        BY <1>1 DEF Edge
      <3>4. e <= v /\ v <= x.acked + MaxFrame /\ x.acked <= g /\ g \in Nat /\ v \in Int
        BY <1>1, <1>5, <3>2 DEF Ahead
      <3> HIDE DEF g, e, v
      <3>5. x.acked <= g /\ g < x.acked + M
        BY <1>1, <3>3, <3>4
      <3>6. Minus(g % M, x.acked % M) = g - x.acked
        BY <1>1, <3>4, <3>5, ModApart
      <3> QED
        BY <3>1, <3>2, <3>6 DEF g
    <2>3. CASE k \in 1 .. Len(b) /\ c[k] = b[k]
      <3>1. \A i \in 1 .. k - 1 : i \in 1 .. Len(b) /\ i \in 1 .. Len(c)
        BY <2>0, <2>3 DEF Link, Shapes
      <3>2. \A i \in 1 .. k - 1 : c[i] = b[i]
        BY <3>1 DEF Behind
      <3>3. \A i \in 1 .. k - 1 : b[i].type \in Numbered =>
                Minus(b[i].nr, x.v1s) <= Minus(b[k].nr, x.v1s)
        BY <2>3 DEF Link, Acks
      <3>4. Minus(b[k].nr, x.v1s) \in Nat /\ Minus(b[k].nr, x.v1s) <= Len(y.got) - x.acked
        BY <2>1, <2>3
      <3>5. Minus(b[k].nr, x.v1s) <= Len(z.got) - x.acked
        BY <1>1, <3>4
      <3> QED
        BY <2>3, <3>2, <3>3, <3>5
    <2>4. CASE k > Len(b) /\ c[k] \in F
      <3>1. Minus(c[k].nr, x.v1s) = Len(z.got) - x.acked
        BY <2>2, <2>4
      <3>2. ASSUME NEW i \in 1 .. k - 1, c[i].type \in Numbered
            PROVE  Minus(c[i].nr, x.v1s) <= Len(z.got) - x.acked
        <4>1. i \in 1 .. Len(c)
          BY <2>0
        <4>2. CASE i \in 1 .. Len(b) /\ c[i] = b[i]
          <5>1. Minus(b[i].nr, x.v1s) \in Nat /\ Minus(b[i].nr, x.v1s) <= Len(y.got) - x.acked
            BY <2>1, <3>2, <4>2
          <5> QED
            BY <1>1, <4>2, <5>1
        <4>3. CASE c[i] \in F
          <5>1. Minus(c[i].nr, x.v1s) = Len(z.got) - x.acked
            BY <2>2, <3>2, <4>3
          <5> QED
            BY <1>1, <5>1
        <4> QED
          BY <4>1, <4>2, <4>3 DEF Behind
      <3>3. Minus(c[k].nr, x.v1s) <= Len(z.got) - x.acked
        BY <1>1, <3>1
      <3> QED
        BY <3>1, <3>2, <3>3
    <2> QED
      BY <2>3, <2>4 DEF Behind
  <1> QED
    BY <1>2, <1>3, <1>4, <1>5, <1>6 DEF Link

LEMMA EdgeBounds ==
    ASSUME NEW y \in Port
    PROVE  Len(y.got) \in Nat /\ Edge(y) \in Nat /\ Len(y.got) <= Edge(y) /\ Plus(y.vr, 1) \in Numbers
  <1>1. Len(y.got) \in Nat /\ y.vr \in Numbers /\ 1 \in 0 .. M
    BY PortTypes, Parameters
  <1> QED
    BY <1>1, PlusIs DEF Edge

\* no data have come in
LEMMA AnswerStep ==
    ASSUME NEW x, NEW y, NEW a, NEW b, Link(x, y, a, b),
           NEW q, Answers(y, q), NEW z, Emptied(q, z), NEW c, Behind(c, b, ToSet(q.out))
    PROVE  Link(x, z, a, c) /\ z.got = y.got /\ Edge(z) <= Edge(y)
  <1>1. /\ x \in Port /\ y \in Port /\ z \in Port /\ q \in Port /\ SameRx(q, z) /\ z.lstate = q.lstate
        /\ z.got = y.got /\ z.lstate # "link_setup" /\ (Up(z) <=> Up(q))
    BY DEF Link, Shapes, Answers, Emptied, Near, SameRx, Up
  <1>2. Off(z)
    BY <1>1 DEF Answers, Emptied, Off, Blank, SameRx
  <1>3. Up(z) => Up(y) /\ SameRx(y, z)
    BY <1>1, NearSteps DEF Answers
  <1>4. (Up(z) => Edge(z) = Edge(y) /\ (Kept(z) <=> Kept(y))) /\ (~Up(z) => Edge(z) = Len(y.got))
    <2>1. Up(z) => Edge(z) = Edge(y) /\ (Kept(z) <=> Kept(y))
      BY <1>3 DEF Edge, Kept, SameRx
    <2>2. ASSUME ~Up(z) PROVE Edge(z) = Len(y.got)
      <3>1. z.sammler = [n \in Numbers |-> NoInfo] /\ Plus(z.vr, 1) \in Numbers
        BY <1>1, <1>2, <2>2, EdgeBounds DEF Off, Blank
      <3>2. ~Kept(z)
        BY <3>1 DEF Kept
      <3> QED
        BY <1>1, <3>2 DEF Edge
    <2> QED
      BY <2>1, <2>2
  <1>5. /\ Edge(z) \in Nat /\ Edge(y) \in Nat /\ Len(y.got) \in Nat /\ Edge(z) <= Edge(y)
        /\ V(x) \in Int /\ MaxFrame \in Nat
    BY <1>1, <1>4, EdgeBounds, PortTypes, Parameters
  <1>6. Arrived(x, z)
    <2>1. Up(z) => SumsRight(z)
      BY <1>3, <1>4 DEF Link, Arrived, SumsRight, SameRx
    <2> QED
      BY <1>1, <1>3, <2>1 DEF Link, Arrived, SameRx
  <1>7. Fresh(y) => Fresh(z)
    BY <1>1, <1>3 DEF Fresh, SameRx
  <1>8. (x.lstate = "link_setup" \/ \E k \in 1 .. Len(a) : a[k].type = "SABM") => Fresh(z)
    BY <1>7 DEF Link, Setup
  <1>9. \A k \in 1 .. Len(a) : a[k].type = "I" => Edge(z) <= Num(a[k]) + MaxFrame
    <2> SUFFICES ASSUME NEW k \in 1 .. Len(a), a[k].type = "I" PROVE Edge(z) <= Num(a[k]) + MaxFrame
      OBVIOUS
    <2>1. Edge(y) <= Num(a[k]) + MaxFrame /\ Num(a[k]) \in Nat
      BY DEF Link, Carried, Piece
    <2> QED
      BY <1>5, <2>1
  <1>10. Up(x) => Edge(z) <= V(x)
    BY <1>5 DEF Link, Ahead
  <1>11. \A f \in ToSet(q.out) : f.type # "SABM" /\ (f.type \in Numbered => Up(z) /\ f.nr = z.vr)
    BY <1>1 DEF Answers, Spoken, SameRx
  <1>12. Len(y.got) <= Len(z.got)
    BY <1>1, <1>5
  <1>13. Link(x, z, a, c)
    BY <1>1, <1>2, <1>6, <1>8, <1>9, <1>10, <1>11, <1>12, ReceiverStep
  <1> QED
    BY <1>1, <1>5, <1>13

\* a session begins at the receiver
LEMMA BeginStep ==
    ASSUME NEW x, NEW y, NEW a, NEW b, Link(x, y, a, b), Fresh(y),
           NEW q, Begins(q), NEW z, Emptied(q, z), NEW c, Behind(c, b, ToSet(q.out))
    PROVE  Link(x, z, a, c) /\ z.got = y.got /\ Edge(z) <= Edge(y)
  <1>1. /\ x \in Port /\ y \in Port /\ z \in Port /\ SameRx(q, z) /\ z.lstate = q.lstate
        /\ z.got = <<>> /\ y.got = <<>> /\ z.lstate # "link_setup" /\ Up(z)
        /\ z.vr = 0 /\ z.sammler = [n \in Numbers |-> NoInfo]
    BY DEF Link, Shapes, Begins, Hold, Emptied, Near, SameRx, Up, Fresh
  <1>2. Off(z) /\ Fresh(z)
    BY <1>1 DEF Off, Fresh
  <1>3. Edge(z) = 0 /\ Len(z.got) = 0 /\ Len(y.got) = 0
    <2>1. ~Kept(z)
      BY <1>1, EdgeBounds DEF Kept
    <2> QED
      BY <1>1, <2>1 DEF Edge
  <1>4. Edge(y) \in Nat /\ V(x) \in Int /\ MaxFrame \in Nat /\ x.sub \in Nat /\ M \in Nat /\ M >= 2
    BY <1>1, EdgeBounds, PortTypes, Parameters
  <1>5. Arrived(x, z)
    <2>1. SumsRight(z)
      BY <1>3 DEF SumsRight
    <2>2. 0 % M = 0
      BY <1>4
    <2> QED
      BY <1>1, <1>3, <1>4, <2>1, <2>2 DEF Arrived
  <1>6. \A k \in 1 .. Len(a) : a[k].type = "I" => Edge(z) <= Num(a[k]) + MaxFrame
    <2> SUFFICES ASSUME NEW k \in 1 .. Len(a), a[k].type = "I" PROVE Edge(z) <= Num(a[k]) + MaxFrame
      OBVIOUS
    <2>1. Num(a[k]) \in Nat
      BY DEF Link, Carried, Piece
    <2> QED
      BY <1>3, <1>4, <2>1
  <1>7. Up(x) => Edge(z) <= V(x)
    <2>1. Up(x) => Edge(y) <= V(x)
      BY DEF Link, Ahead
    <2> QED
      BY <1>3, <1>4, <2>1
  <1>8. \A f \in ToSet(q.out) : f.type # "SABM" /\ (f.type \in Numbered => Up(z) /\ f.nr = z.vr)
    BY <1>1 DEF Begins, Hold, Spoken, SameRx
  <1>9. Len(y.got) <= Len(z.got)
    BY <1>3
  <1>10. Link(x, z, a, c)
    BY <1>1, <1>2, <1>5, <1>6, <1>7, <1>8, <1>9, ReceiverStep
  <1>11. Edge(z) <= Edge(y)
    BY <1>3, <1>4
  <1> QED
    BY <1>1, <1>10, <1>11

\* the piece that comes next
LEMMA OneArrives ==
    ASSUME NEW x, NEW y \in Port, Up(y), Arrived(x, y), NEW z, NEW f, TakesOne(y, z, f),
           f.info = <<1, Len(y.got) + 1>>, Len(y.got) + 1 <= x.sub
    PROVE  Arrived(x, z) /\ Edge(z) = Len(y.got) + 1 /\ Len(z.got) = Len(y.got) + 1
  <1> DEFINE g == Len(y.got)
  <1>1. /\ g \in Nat /\ M \in Nat /\ M >= 2 /\ y.got \in Seq(Pieces) /\ y.qsumme \in [Numbers -> Sums]
        /\ y.sammler \in [Numbers -> Infos] /\ y.vr \in Numbers /\ f.info \in Pieces
        /\ f.info = <<1, g + 1>>
    <2>1. f.info \in Pieces
      BY PortTypes DEF Pieces
    <2> QED
      BY <2>1, PortTypes, Parameters
  <1>2. /\ \A i \in 1 .. g : y.got[i] = <<1, i>>
        /\ y.vr = g % M /\ SumsRight(y)
        /\ \A n \in Numbers : y.sammler[n] # NoInfo => n = Plus(y.vr, 1)
    BY DEF Arrived
  <1>3. /\ z.got = Append(y.got, f.info) /\ z.vr = Plus(y.vr, 1) /\ z.sammler = y.sammler
        /\ z.qsumme = [y.qsumme EXCEPT ![y.vr] = Quersumme(f.info)]
        /\ y.sammler[Plus(y.vr, 1)] = NoInfo
    BY DEF TakesOne
  <1>4. Len(z.got) = g + 1 /\ (\A i \in 1 .. g : z.got[i] = y.got[i]) /\ z.got[g + 1] = f.info
    BY <1>1, <1>3
  <1> HIDE DEF g
  <1>5. \A n \in Numbers : z.sammler[n] = NoInfo
    BY <1>2, <1>3
  <1>6. 1 \in 0 .. M
    BY <1>1
  <1>7. z.vr = (g + 1) % M
    BY <1>1, <1>2, <1>3, <1>6, ModPlus
  <1>8. z.vr \in Numbers
    BY <1>1, <1>3, <1>6, PlusIs
  <1>9. ~Kept(z)
    BY <1>5, <1>6, <1>8, PlusIs DEF Kept
  <1>10. \A i \in 1 .. g + 1 : i > g + 1 - M => z.qsumme[(i - 1) % M] = Quersumme(<<1, i>>)
    <2> SUFFICES ASSUME NEW i \in 1 .. g + 1, i > g + 1 - M
                 PROVE  z.qsumme[(i - 1) % M] = Quersumme(<<1, i>>)
      OBVIOUS
    <2>1. i - 1 \in Nat /\ (i - 1) % M \in Numbers
      <3>1. i - 1 \in Nat
        BY <1>1
      <3> QED
        BY <3>1, ModRange
    <2>2. CASE i = g + 1
      <3>1. (i - 1) % M = y.vr
        BY <1>1, <1>2, <2>2
      <3> QED
        BY <1>1, <1>3, <2>2, <3>1
    <2>3. CASE i # g + 1
      <3>1. (i - 1) % M # y.vr
        <4>1. i - 1 <= g /\ g < (i - 1) + M /\ i - 1 # g
          BY <1>1, <2>3
        <4> QED
          BY <1>1, <1>2, <2>1, <4>1, ModSame
      <3>2. i \in 1 .. g /\ i > g - M
        BY <1>1, <2>3
      <3>3. y.qsumme[(i - 1) % M] = Quersumme(<<1, i>>)
        <4>1. i = g + 2 - M => ~Kept(y)
          BY <1>3 DEF Kept
        <4> QED
          BY <1>2, <3>2, <4>1 DEF SumsRight, g
      <3> QED
        BY <1>1, <1>3, <2>1, <3>1, <3>3
    <2> QED
      BY <2>2, <2>3
  <1>11. SumsRight(z)
    <2>1. Len(z.got) = g + 1
      BY <1>4
    <2> QED
      BY <1>1, <1>10, <2>1 DEF SumsRight
  <1>12. \A i \in 1 .. g + 1 : z.got[i] = <<1, i>>
    <2> SUFFICES ASSUME NEW i \in 1 .. g + 1 PROVE z.got[i] = <<1, i>>
      OBVIOUS
    <2>1. i \in 1 .. g \/ i = g + 1
      BY <1>1
    <2> QED
      BY <1>1, <1>2, <1>4, <2>1
  <1> QED
    BY <1>4, <1>5, <1>7, <1>9, <1>11, <1>12 DEF Arrived, Edge, g

\* the piece that comes next, and the one that has been kept
LEMMA TwoArrive ==
    ASSUME NEW x, NEW y \in Port, Up(y), Arrived(x, y), NEW z, NEW f, TakesTwo(y, z, f),
           f.info = <<1, Len(y.got) + 1>>
    PROVE  /\ Arrived(x, z) /\ Edge(z) = Len(y.got) + 2 /\ Len(z.got) = Len(y.got) + 2
           /\ Edge(y) = Len(y.got) + 2
  <1> DEFINE g == Len(y.got)
             v == Plus(y.vr, 1)
             p == y.sammler[v]
  <1>1. /\ g \in Nat /\ M \in Nat /\ M >= 2 /\ y.got \in Seq(Pieces) /\ y.qsumme \in [Numbers -> Sums]
        /\ y.sammler \in [Numbers -> Infos] /\ y.vr \in Numbers /\ f.info \in Pieces /\ 1 \in 0 .. M
        /\ f.info = <<1, g + 1>>
    <2>1. f.info \in Pieces
      BY PortTypes DEF Pieces
    <2> QED
      BY <2>1, PortTypes, Parameters
  <1>2. /\ \A i \in 1 .. g : y.got[i] = <<1, i>>
        /\ y.vr = g % M /\ SumsRight(y)
        /\ \A n \in Numbers : y.sammler[n] # NoInfo =>
              n = Plus(y.vr, 1) /\ y.sammler[n] = <<1, g + 2>> /\ g + 2 <= x.sub
    BY DEF Arrived
  <1>3. /\ z.got = Append(Append(y.got, f.info), p) /\ z.vr = Plus(v, 1)
        /\ z.sammler = [y.sammler EXCEPT ![v] = NoInfo] /\ p # NoInfo
        /\ z.qsumme = [[y.qsumme EXCEPT ![y.vr] = Quersumme(f.info)] EXCEPT ![v] = Quersumme(p)]
    BY DEF TakesTwo
  <1>4. v \in Numbers /\ v = (g + 1) % M
    BY <1>1, <1>2, PlusIs, ModPlus
  <1>5. p = <<1, g + 2>> /\ g + 2 <= x.sub /\ p \in Pieces
    <2>1. p = <<1, g + 2>> /\ g + 2 <= x.sub
      BY <1>2, <1>3, <1>4
    <2> QED
      BY <1>1, <2>1 DEF Pieces
  <1>6. \A n \in Numbers : z.sammler[n] = NoInfo
    <2> SUFFICES ASSUME NEW n \in Numbers PROVE z.sammler[n] = NoInfo
      OBVIOUS
    <2>1. n # v => y.sammler[n] = NoInfo
      BY <1>2
    <2> QED
      BY <1>1, <1>3, <2>1
  <1>7. Kept(y) /\ Edge(y) = g + 2
    BY <1>3 DEF Kept, Edge
  <1> HIDE DEF p
  <1>8. /\ Len(z.got) = g + 2 /\ \A i \in 1 .. g : z.got[i] = y.got[i]
        /\ z.got[g + 1] = f.info /\ z.got[g + 2] = p
    <2> DEFINE s == Append(y.got, f.info)
    <2>1. s \in Seq(Pieces) /\ Len(s) = g + 1 /\ s[g + 1] = f.info /\ \A i \in 1 .. g : s[i] = y.got[i]
      BY <1>1
    <2> HIDE DEF s
    <2>2. /\ Len(Append(s, p)) = g + 2 /\ Append(s, p)[g + 2] = p
          /\ \A i \in 1 .. g + 1 : Append(s, p)[i] = s[i]
      BY <1>1, <1>5, <2>1
    <2>3. z.got = Append(s, p)
      BY <1>3 DEF s
    <2>4. g + 1 \in 1 .. g + 1 /\ \A i \in 1 .. g : i \in 1 .. g + 1
      BY <1>1
    <2> QED
      BY <2>1, <2>2, <2>3, <2>4
  <1> HIDE DEF v, g
  <1>9. z.vr = (g + 2) % M /\ z.vr \in Numbers
    <2>0. g + 1 \in Nat
      BY <1>1
    <2>1. z.vr = ((g + 1) + 1) % M
      BY <1>1, <1>3, <1>4, <2>0, ModPlus
    <2>2. (g + 1) + 1 = g + 2
      BY <1>1
    <2> QED
      BY <1>1, <1>3, <1>4, <2>1, <2>2, PlusIs
  <1>10. ~Kept(z)
    BY <1>1, <1>6, <1>9, PlusIs DEF Kept
  <1>11. \A i \in 1 .. g + 2 : i > g + 2 - M => z.qsumme[(i - 1) % M] = Quersumme(<<1, i>>)
    <2> SUFFICES ASSUME NEW i \in 1 .. g + 2, i > g + 2 - M
                 PROVE  z.qsumme[(i - 1) % M] = Quersumme(<<1, i>>)
      OBVIOUS
    <2>1. i - 1 \in Nat /\ (i - 1) % M \in Numbers
      <3>1. i - 1 \in Nat
        BY <1>1
      <3> QED
        BY <3>1, ModRange
    <2>2. CASE i = g + 2
      <3>1. (i - 1) % M = v
        <4>1. i - 1 = g + 1
          BY <1>1, <2>2
        <4> QED
          BY <1>4, <4>1
      <3> QED
        BY <1>1, <1>3, <1>4, <1>5, <2>2, <3>1
    <2>3. CASE i = g + 1
      <3>1. (i - 1) % M = y.vr
        BY <1>1, <1>2, <2>3
      <3>2. y.vr # v
        <4>1. g <= g + 1 /\ g + 1 < g + M /\ g # g + 1 /\ g + 1 \in Nat
          BY <1>1
        <4> QED
          BY <1>1, <1>2, <1>4, <4>1, ModSame
      <3> QED
        BY <1>1, <1>3, <2>3, <3>1, <3>2
    <2>4. CASE i \in 1 .. g
      <3>1. (i - 1) % M # y.vr
        <4>1. i - 1 <= g /\ g < (i - 1) + M /\ i - 1 # g
          BY <1>1, <2>4
        <4> QED
          BY <1>1, <1>2, <2>1, <4>1, ModSame
      <3>2. (i - 1) % M # v
        <4>1. i - 1 <= g + 1 /\ g + 1 < (i - 1) + M /\ i - 1 # g + 1 /\ g + 1 \in Nat
          BY <1>1, <2>4
        <4> QED
          BY <1>1, <1>4, <2>1, <4>1, ModSame
      <3>3. y.qsumme[(i - 1) % M] = Quersumme(<<1, i>>)
        <4>1. i > g - M /\ i # g + 2 - M
          BY <1>1
        <4> QED
          BY <1>2, <2>4, <4>1 DEF SumsRight, g
      <3> QED
        BY <1>1, <1>3, <2>1, <3>1, <3>2, <3>3
    <2>5. i = g + 2 \/ i = g + 1 \/ i \in 1 .. g
      BY <1>1
    <2> QED
      BY <2>2, <2>3, <2>4, <2>5
  <1>12. SumsRight(z)
    <2>1. Len(z.got) = g + 2
      BY <1>8
    <2> QED
      BY <1>1, <1>11, <2>1 DEF SumsRight
  <1>13. \A i \in 1 .. g + 2 : z.got[i] = <<1, i>>
    <2> SUFFICES ASSUME NEW i \in 1 .. g + 2 PROVE z.got[i] = <<1, i>>
      OBVIOUS
    <2>1. i \in 1 .. g \/ i = g + 1 \/ i = g + 2
      BY <1>1
    <2> QED
      BY <1>1, <1>2, <1>5, <1>8, <2>1
  <1> QED
    BY <1>5, <1>6, <1>7, <1>8, <1>9, <1>10, <1>12, <1>13 DEF Arrived, Edge, g

\* the piece after the next is kept
LEMMA OneKept ==
    ASSUME NEW x, NEW y \in Port, Up(y), Arrived(x, y), NEW z, NEW f, Keeps(y, z, f),
           f.info = <<1, Len(y.got) + 2>>, Len(y.got) + 2 <= x.sub
    PROVE  Arrived(x, z) /\ Edge(z) = Len(y.got) + 2 /\ z.got = y.got
  <1> DEFINE g == Len(y.got)
             v == Plus(y.vr, 1)
  <1>1. /\ g \in Nat /\ M \in Nat /\ M >= 2 /\ y.qsumme \in [Numbers -> Sums]
        /\ y.sammler \in [Numbers -> Infos] /\ y.vr \in Numbers /\ f.info \in Pieces /\ 1 \in 0 .. M
        /\ f.info = <<1, g + 2>>
    <2>1. f.info \in Pieces
      BY PortTypes DEF Pieces
    <2> QED
      BY <2>1, PortTypes, Parameters
  <1>2. /\ y.vr = g % M /\ SumsRight(y)
        /\ \A n \in Numbers : y.sammler[n] # NoInfo => n = v /\ y.sammler[n] = <<1, g + 2>>
    BY DEF Arrived
  <1>3. /\ z.got = y.got /\ z.vr = y.vr /\ f.ns = v
        /\ z.sammler = [y.sammler EXCEPT ![v] = f.info]
        /\ z.qsumme = [y.qsumme EXCEPT ![v] = Quersumme(f.info)]
    BY DEF Keeps
  <1>4. v \in Numbers /\ v = (g + 1) % M
    BY <1>1, <1>2, PlusIs, ModPlus
  <1>5. z.sammler[v] = f.info /\ f.info # NoInfo
    BY <1>1, <1>3, <1>4, Parameters
  <1>6. Kept(z)
    BY <1>3, <1>5 DEF Kept
  <1> HIDE DEF v, g
  <1>7. \A n \in Numbers : z.sammler[n] # NoInfo => n = v /\ z.sammler[n] = <<1, g + 2>>
    <2> SUFFICES ASSUME NEW n \in Numbers, z.sammler[n] # NoInfo
                 PROVE  n = v /\ z.sammler[n] = <<1, g + 2>>
      OBVIOUS
    <2>1. n = v
      BY <1>1, <1>2, <1>3
    <2> QED
      BY <1>1, <1>5, <2>1
  <1>8. SumsRight(z)
    <2> SUFFICES ASSUME NEW i \in 1 .. g, i > g - M, i # g + 2 - M
                 PROVE  z.qsumme[(i - 1) % M] = Quersumme(<<1, i>>)
      BY <1>3, <1>6 DEF SumsRight, g
    <2>1. i - 1 \in Nat /\ (i - 1) % M \in Numbers
      <3>1. i - 1 \in Nat
        BY <1>1
      <3> QED
        BY <3>1, ModRange
    <2>2. (i - 1) % M # v
      <3>1. CASE i = g + 1 - M
        <4>1. (i - 1) + M = g
          BY <1>1, <3>1
        <4>2. g % M = Plus((i - 1) % M, M) /\ Plus((i - 1) % M, M) = (i - 1) % M
          <5>1. M \in 0 .. M
            BY <1>1
          <5>2. Plus((i - 1) % M, M) = ((i - 1) + M) % M
            BY <2>1, <5>1, ModPlus
          <5>3. Plus((i - 1) % M, M) = (i - 1) % M
            <6> DEFINE r == (i - 1) % M
            <6>1. r \in Numbers /\ r \in Nat
              BY <1>1, <2>1 DEF Numbers
            <6> HIDE DEF r
            <6>2. Plus(r, M) = IF r + M < M THEN r + M ELSE r + M - M
              BY <5>1, <6>1, PlusIs
            <6>3. ~(r + M < M) /\ r + M - M = r
              BY <1>1, <6>1
            <6> QED
              BY <6>2, <6>3 DEF r
          <5> QED
            BY <4>1, <5>2, <5>3
        <4>3. g % M # (g + 1) % M
          <5>1. g <= g + 1 /\ g + 1 < g + M /\ g # g + 1 /\ g + 1 \in Nat
            BY <1>1
          <5> QED
            BY <1>1, <5>1, ModSame
        <4> QED
          BY <1>4, <4>2, <4>3
      <3>2. CASE i # g + 1 - M
        <4>1. i - 1 <= g + 1 /\ g + 1 < (i - 1) + M /\ i - 1 # g + 1 /\ g + 1 \in Nat
          BY <1>1, <3>2
        <4> QED
          BY <1>1, <1>4, <2>1, <4>1, ModSame
      <3> QED
        BY <3>1, <3>2
    <2>3. y.qsumme[(i - 1) % M] = Quersumme(<<1, i>>)
      BY <1>2 DEF SumsRight, g
    <2> QED
      BY <1>1, <1>3, <2>1, <2>2, <2>3
  <1> QED
    BY <1>3, <1>6, <1>7, <1>8 DEF Arrived, Edge, v, g

\* a number that fits is that of the piece that comes next
LEMMA NextNumber ==
    ASSUME NEW g \in Nat, NEW n \in Nat, n < g + MaxFrame, g <= n + MaxFrame, n % M = g % M
    PROVE  n = g
  <1>1. MaxFrame \in Nat /\ M \in Nat /\ MaxFrame < M
    BY Parameters
  <1>2. CASE n <= g
    <2>1. g < n + M
      BY <1>1
    <2> QED
      BY <1>2, <2>1, ModSame
  <1>3. CASE g <= n
    <2>1. n < g + M
      BY <1>1
    <2> QED
      BY <1>3, <2>1, ModSame
  <1> QED
    BY <1>2, <1>3

\* the number of the piece after the next: it may also be an old one
LEMMA KeepNumber ==
    ASSUME NEW g \in Nat, NEW n \in Nat, n < g + MaxFrame, g <= n + MaxFrame, n % M = (g + 1) % M
    PROVE  n = g + 1 \/ n = g + 1 - M
  <1>1. MaxFrame \in Nat /\ M \in Nat /\ MaxFrame < M /\ g + 1 \in Nat
    BY Parameters
  <1>2. CASE n >= g + 1
    <2>1. g + 1 <= n /\ n < (g + 1) + M
      BY <1>1, <1>2
    <2> QED
      BY <1>1, <2>1, ModSame
  <1>3. CASE n < g + 1 /\ g + 1 < n + M
    <2>1. n <= g + 1
      BY <1>1, <1>3
    <2>2. n = g + 1
      BY <1>1, <1>3, <2>1, ModSame
    <2> QED
      BY <2>2
  <1>4. CASE n < g + 1 /\ g + 1 >= n + M
    <2>1. g + 1 <= n + M
      BY <1>1
    <2>2. n = g + 1 - M
      BY <1>1, <1>4, <2>1
    <2> QED
      BY <2>2
  <1> QED
    BY <1>1, <1>2, <1>3, <1>4

\* A frame with data has come: the stream goes on by no, one or two pieces.
\* An old piece is not kept, because the check sums of the last M are known.
LEMMA ReceiveStep ==
    ASSUME NEW x, NEW y, NEW a, NEW b, Link(x, y, a, b), Up(y),
           NEW f \in GoodFrames, Piece(x, y, f), x.lstate # "link_setup",
           \A k \in 1 .. Len(a) : a[k].type # "SABM",
           \A k \in 1 .. Len(a) : a[k].type = "I" => Num(f) + 1 <= Num(a[k]) + MaxFrame,
           NEW q, Receives(y, q, f), NEW z, Emptied(q, z), NEW c, Behind(c, b, ToSet(q.out))
    PROVE  /\ Link(x, z, a, c) /\ Len(y.got) <= Len(z.got)
           /\ Edge(z) <= Edge(y) \/ Edge(z) <= Num(f) + 1
  <1> DEFINE g == Len(y.got)
             n == Num(f)
  <1>1. /\ x \in Port /\ y \in Port /\ q \in Port /\ z \in Port /\ SameRx(q, z) /\ z.lstate = q.lstate
        /\ Up(z) /\ Off(z) /\ z.lstate # "link_setup" /\ Hold(q) /\ q.overrun = y.overrun
    BY DEF Link, Shapes, Receives, Hold, Emptied, Near, Up, Off
  <1>2. CASE SameIn(y, q)
    <2>1. SameRx(y, q)
      BY <1>1, <1>2 DEF SameIn, SameRx
    <2>2. Answers(y, q)
      BY <1>1, <2>1, HoldAnswers
    <2>3. Link(x, z, a, c) /\ z.got = y.got /\ Edge(z) <= Edge(y)
      BY <2>2, AnswerStep
    <2>4. g \in Nat
      BY <1>1, EdgeBounds
    <2> QED
      BY <2>3, <2>4
  <1>3. /\ g \in Nat /\ n \in Nat /\ Edge(y) \in Nat /\ g <= Edge(y) /\ V(x) \in Int /\ x.sub \in Nat
        /\ MaxFrame \in Nat /\ M \in Nat /\ MaxFrame < M /\ M >= 2
    BY <1>1, EdgeBounds, PortTypes, Parameters DEF Piece
  <1>4. /\ f.info = <<1, n + 1>> /\ f.ns = n % M /\ n < x.sub /\ n < g + MaxFrame /\ Edge(y) <= n + MaxFrame
        /\ Up(x) => n < V(x)
    BY DEF Piece
  <1>5. Arrived(x, y) /\ y.vr = g % M /\ y.vr \in Numbers
    BY <1>1, PortTypes DEF Link, Arrived
  <1>6. \A h \in ToSet(q.out) : h.type # "SABM" /\ (h.type \in Numbered => Up(z) /\ h.nr = z.vr)
    BY <1>1 DEF Hold, Spoken, SameRx
  <1>7. ASSUME Arrived(x, z), Len(y.got) <= Len(z.got),
               Edge(z) \in Nat, Edge(z) <= n + 1 \/ Edge(z) = Edge(y)
        PROVE  Link(x, z, a, c)
    <2>1. ASSUME NEW k \in 1 .. Len(a), a[k].type = "I"
          PROVE  Edge(z) <= Num(a[k]) + MaxFrame
      <3>1. Piece(x, y, a[k]) /\ n + 1 <= Num(a[k]) + MaxFrame
        BY <2>1 DEF Link, Carried
      <3>2. Edge(y) <= Num(a[k]) + MaxFrame /\ Num(a[k]) \in Nat
        BY <3>1 DEF Piece
      <3> HIDE DEF n, g
      <3> QED
        BY <1>3, <1>7, <3>1, <3>2
    <2>2. Up(x) => Edge(z) <= V(x)
      <3>1. Up(x) => Edge(y) <= V(x)
        BY DEF Link, Ahead
      <3> HIDE DEF n, g
      <3> QED
        BY <1>3, <1>4, <1>7, <3>1
    <2> QED
      BY <1>1, <1>6, <1>7, <2>1, <2>2, ReceiverStep
  <1> HIDE DEF g, n
  <1>8. g <= n + MaxFrame
    BY <1>3, <1>4
  <1>9. CASE TakesOne(y, q, f)
    <2>1. TakesOne(y, z, f)
      BY <1>1, <1>9 DEF TakesOne, SameRx
    <2>2. n = g
      <3>1. n % M = g % M
        BY <1>4, <1>5, <1>9 DEF TakesOne
      <3> QED
        BY <1>3, <1>4, <1>8, <3>1, NextNumber
    <2>3. f.info = <<1, Len(y.got) + 1>> /\ Len(y.got) + 1 <= x.sub
      BY <1>3, <1>4, <2>2 DEF g
    <2>4. Arrived(x, z) /\ Edge(z) = g + 1 /\ Len(z.got) = g + 1
      BY <1>1, <1>5, <2>1, <2>3, OneArrives DEF g
    <2>5. Len(y.got) <= Len(z.got) /\ Edge(z) \in Nat /\ Edge(z) <= n + 1
      BY <1>3, <2>2, <2>4 DEF g
    <2> QED
      BY <1>7, <2>4, <2>5 DEF n
  <1>10. CASE TakesTwo(y, q, f)
    <2>1. TakesTwo(y, z, f)
      BY <1>1, <1>10 DEF TakesTwo, SameRx
    <2>2. n = g
      <3>1. n % M = g % M
        BY <1>4, <1>5, <1>10 DEF TakesTwo
      <3> QED
        BY <1>3, <1>4, <1>8, <3>1, NextNumber
    <2>3. f.info = <<1, Len(y.got) + 1>>
      BY <1>3, <1>4, <2>2 DEF g
    <2>4. Arrived(x, z) /\ Edge(z) = g + 2 /\ Len(z.got) = g + 2 /\ Edge(y) = g + 2
      BY <1>1, <1>5, <2>1, <2>3, TwoArrive DEF g
    <2>5. Len(y.got) <= Len(z.got) /\ Edge(z) \in Nat /\ Edge(z) = Edge(y) /\ Edge(z) <= Edge(y)
      BY <1>3, <2>4 DEF g
    <2> QED
      BY <1>7, <2>4, <2>5
  <1>11. CASE Keeps(y, q, f)
    <2>1. Keeps(y, z, f)
      BY <1>1, <1>11 DEF Keeps, SameRx
    <2>2. f.ns = (g + 1) % M /\ y.qsumme[f.ns] # Quersumme(f.info)
      <3>1. Plus(y.vr, 1) = (g + 1) % M
        BY <1>3, <1>5, ModPlus
      <3> QED
        BY <1>11, <3>1 DEF Keeps
    <2>3. n = g + 1
      <3>1. n = g + 1 \/ n = g + 1 - M
        BY <1>3, <1>4, <1>8, <2>2, KeepNumber
      <3>2. ASSUME n = g + 1 - M PROVE FALSE
        <4>1. n + 1 \in 1 .. g /\ n + 1 > g - M /\ n + 1 = g + 2 - M /\ (n + 1) - 1 = n
          BY <1>3, <3>2
        <4>2. \/ y.qsumme[((n + 1) - 1) % M] = Quersumme(<<1, n + 1>>)
              \/ Kept(y)
          BY <1>1, <1>5, <4>1 DEF Arrived, SumsRight, g
        <4>3. Kept(y)
          BY <1>4, <2>2, <4>1, <4>2
        <4>4. Edge(y) = g + 2
          BY <4>3 DEF Edge, g
        <4> QED
          BY <1>3, <1>4, <3>2, <4>4
      <3> QED
        BY <3>1, <3>2
    <2>4. f.info = <<1, Len(y.got) + 2>> /\ Len(y.got) + 2 <= x.sub
      BY <1>3, <1>4, <2>3 DEF g
    <2>5. Arrived(x, z) /\ Edge(z) = g + 2 /\ z.got = y.got
      BY <1>1, <1>5, <2>1, <2>4, OneKept DEF g
    <2>6. Len(y.got) <= Len(z.got) /\ Edge(z) \in Nat /\ Edge(z) <= n + 1
      BY <1>3, <2>3, <2>5 DEF g
    <2> QED
      BY <1>7, <2>5, <2>6 DEF n
  <1> QED
    BY <1>2, <1>9, <1>10, <1>11 DEF Receives

\* the request for a link is repeated
LEMMA SetupStep ==
    ASSUME NEW x, NEW y, NEW a, NEW b, Link(x, y, a, b), x.lstate = "link_setup",
           NEW q, Near(x, q), NEW z, Emptied(q, z),
           NEW F, F = {U("SABM", "poll")}, NEW c, Behind(c, a, F)
    PROVE  Link(z, y, c, b) /\ z.sub = x.sub /\ z.acked = x.acked
  <1>1. /\ x \in Port /\ z \in Port /\ SameTx(x, z) /\ z.lstate = x.lstate /\ (Up(z) <=> Up(x))
    BY NearSteps DEF Link, Shapes, Emptied, Near, Up
  <1>2. V(z) = V(x) /\ (Window(x) => Window(z)) /\ z.v1s = x.v1s /\ z.sub = x.sub /\ z.acked = x.acked
        /\ z.sess = x.sess
    BY <1>1, WindowSame DEF SameTx
  <1>3. \A k \in 1 .. Len(c) : (k \in 1 .. Len(a) /\ c[k] = a[k]) \/ (k > Len(a) /\ c[k].type = "SABM")
    BY DEF Behind, U
  <1>4. Fresh(y) /\ \A k \in 1 .. Len(a) : a[k].type # "I"
    BY DEF Link, Setup
  <1>5. \A k \in 1 .. Len(c) : c[k].type # "I"
    BY <1>3, <1>4
  <1>6. Shapes(z, y, c, b)
    BY <1>1, <1>2 DEF Link, Shapes, Behind
  <1>7. Setup(z, y, c, b)
    <2>1. \A k \in 1 .. Len(c) : \A i \in 1 .. k : i \in 1 .. Len(c)
      BY <1>6 DEF Shapes
    <2> QED
      BY <1>4, <1>5, <2>1 DEF Link, Setup
  <1>8. Carried(z, y, c)
    BY <1>5 DEF Carried
  <1>9. Arrived(z, y) /\ Acks(z, y, b) /\ Ahead(z, y)
    BY <1>1, <1>2 DEF Link, Arrived, Acks, Ahead
  <1> QED
    BY <1>2, <1>6, <1>7, <1>8, <1>9 DEF Link

\* nothing has been acknowledged
Unacked(x, q) == q.acked = x.acked

LEMMA SenderQuiet ==
    ASSUME NEW x, NEW y, NEW a, NEW b, Link(x, y, a, b), NEW q, Sends(x, q), Unacked(x, q),
           NEW z, Emptied(q, z), NEW c, Behind(c, a, ToSet(q.out))
    PROVE  Link(z, y, c, b) /\ z.sub = x.sub /\ z.acked = x.acked
  <1>1. x \in Port /\ x.acked \in Nat /\ Len(y.got) \in Nat
    BY PortTypes DEF Link, Shapes
  <1>2. \E d \in Nat : d = 0
    BY SMT
  <1>3. PICK d \in Nat : d = 0
    BY <1>2
  <1>4. q.acked = x.acked + d /\ d <= Len(y.got) - x.acked
    BY <1>1, <1>3 DEF Link, Ahead, Unacked
  <1>5. Up(x) => \A k \in 1 .. Len(b) : b[k].type \in Numbered => d <= Minus(b[k].nr, x.v1s)
    <2> SUFFICES ASSUME NEW k \in 1 .. Len(b), b[k].type \in Numbered PROVE d <= Minus(b[k].nr, x.v1s)
      OBVIOUS
    <2>1. b[k] \in GoodFrames /\ x.v1s \in Numbers
      BY <1>1, PortTypes DEF Link, Shapes
    <2>2. b[k].nr \in Numbers
      BY <2>1 DEF GoodFrames, Frame
    <2>3. Minus(b[k].nr, x.v1s) \in Nat
      BY <2>1, <2>2, MinusRange
    <2> QED
      BY <1>3, <2>3
  <1>6. Link(z, y, c, b) /\ z.sub = x.sub /\ z.acked = x.acked + d
    BY <1>4, <1>5, SendStep
  <1> QED
    BY <1>1, <1>3, <1>6

\* data are handed over
Queued(x) == [x EXCEPT !.txinfout = Append(@, <<x.sess, x.sub + 1>>), !.sub = @ + 1]

LEMMA QueuedIs ==
    ASSUME NEW x \in Port
    PROVE  LET p == Queued(x) IN
           /\ p \in Port /\ SameRx(x, p) /\ p.lstate = x.lstate /\ p.out = x.out
           /\ p.sess = x.sess /\ p.sub = x.sub + 1 /\ p.acked = x.acked
           /\ p.txinfout = Append(x.txinfout, <<x.sess, x.sub + 1>>)
           /\ p.txinfptr = x.txinfptr /\ p.v1s = x.v1s /\ p.vs = x.vs
  <1> DEFINE t == Append(x.txinfout, <<x.sess, x.sub + 1>>)
             n == x.sub + 1
             p == [x EXCEPT !.txinfout = t, !.sub = n]
  <1>1. Queued(x) = p
    BY DEF Queued
  <1>2. t \in Seq(Pieces) /\ n \in Nat
    <2>1. x.sess \in Nat /\ x.sub \in Nat /\ x.txinfout \in Seq(Pieces)
      BY PortTypes
    <2>2. <<x.sess, x.sub + 1>> \in Pieces
      BY <2>1 DEF Pieces
    <2> QED
      BY <2>1, <2>2
  <1> HIDE DEF t, n
  <1>3. p \in Port /\ SameRx(x, p) /\ p.lstate = x.lstate /\ p.out = x.out
    BY <1>2 DEF Port, SameRx
  <1>4. /\ p.sess = x.sess /\ p.sub = n /\ p.acked = x.acked /\ p.txinfout = t
        /\ p.txinfptr = x.txinfptr /\ p.v1s = x.v1s /\ p.vs = x.vs
    BY DEF Port
  <1> QED
    BY <1>1, <1>3, <1>4 DEF t, n

LEMMA QueuedWindow ==
    ASSUME NEW x \in Port
    PROVE  V(Queued(x)) = V(x) /\ (Window(x) => Window(Queued(x)))
  <1> DEFINE p == Queued(x)
             l == Len(x.txinfout)
             t == Append(x.txinfout, <<x.sess, x.sub + 1>>)
  <1>1. /\ p.sess = x.sess /\ p.sub = x.sub + 1 /\ p.acked = x.acked
        /\ p.txinfout = t /\ p.txinfptr = x.txinfptr /\ p.v1s = x.v1s /\ p.vs = x.vs
    BY QueuedIs
  <1>2. x.sub \in Nat /\ l \in Nat /\ x.txinfout \in Seq(Pieces)
    BY PortTypes
  <1>3. Len(t) = l + 1 /\ t[l + 1] = <<x.sess, x.sub + 1>> /\ \A i \in 1 .. l : t[i] = x.txinfout[i]
    BY <1>2
  <1> HIDE DEF p, t
  <1>4. V(p) = V(x)
    <2>1. V(p) = p.sub - Len(p.txinfout) /\ V(x) = x.sub - l
      BY DEF V
    <2>2. p.sub = x.sub + 1 /\ Len(p.txinfout) = l + 1
      BY <1>1, <1>3
    <2> HIDE DEF l
    <2> QED
      BY <1>2, <2>1, <2>2
  <1>5. ASSUME Window(x) PROVE Window(p)
    <2>1. ASSUME NEW i \in 1 .. l + 1 PROVE p.txinfout[i] = <<p.sess, V(p) + i>>
      <3>1. CASE i \in 1 .. l
        BY <1>1, <1>3, <1>4, <1>5, <3>1 DEF Window
      <3>2. CASE i = l + 1
        <4>1. V(x) + (l + 1) = x.sub + 1
          BY <1>2 DEF V
        <4> QED
          BY <1>1, <1>3, <1>4, <3>2, <4>1
      <3> QED
        BY <1>2, <3>1, <3>2
    <2>2. \A i \in 1 .. Len(p.txinfout) : p.txinfout[i] = <<p.sess, V(p) + i>>
      BY <1>1, <1>3, <2>1
    <2> QED
      BY <1>1, <1>4, <1>5, <2>2 DEF Window
  <1> QED
    BY <1>4, <1>5 DEF p

LEMMA SubmitStep ==
    ASSUME NEW x, NEW y, NEW a, NEW b, Link(x, y, a, b), x.out = <<>>, Up(x),
           NEW z, Emptied(Submit(x), z), NEW c, Behind(c, a, ToSet(Submit(x).out))
    PROVE  Link(z, y, c, b) /\ z.sub = x.sub + 1 /\ z.acked = x.acked
  <1> DEFINE p == Queued(x)
             q == Tryinfo(p)
  <1>1. Submit(x) = q
    BY DEF Submit, Queued
  <1>2. x \in Port
    BY DEF Link, Shapes
  <1>3. /\ p \in Port /\ p.lstate = x.lstate /\ p.out = x.out
        /\ p.sess = x.sess /\ p.sub = x.sub + 1 /\ p.acked = x.acked /\ p.v1s = x.v1s
    BY <1>2, QueuedIs
  <1>4. V(p) = V(x) /\ (Window(x) => Window(p))
    BY <1>2, QueuedWindow
  <1> HIDE DEF p
  <1>5. Up(p) /\ x.sub \in Nat /\ x.acked \in Nat /\ Len(y.got) \in Nat /\ y \in Port
    BY <1>2, <1>3, PortTypes DEF Up, Link, Shapes
  <1>6. Link(p, y, a, b)
    <2>1. Shapes(p, y, a, b) /\ Setup(p, y, a, b)
      BY <1>3 DEF Link, Shapes, Setup
    <2>2. Arrived(p, y)
      BY <1>3, <1>5 DEF Link, Arrived
    <2>3. Carried(p, y, a)
      <3> SUFFICES ASSUME NEW k \in 1 .. Len(a), a[k].type = "I" PROVE Piece(p, y, a[k])
        BY DEF Link, Carried
      <3>1. Piece(x, y, a[k])
        BY DEF Link, Carried
      <3>2. Num(a[k]) < p.sub
        BY <1>3, <1>5, <3>1 DEF Piece
      <3> QED
        BY <1>4, <3>1, <3>2 DEF Piece
    <2>4. Acks(p, y, b) /\ Ahead(p, y)
      BY <1>3, <1>4 DEF Link, Acks, Ahead
    <2> QED
      BY <2>1, <2>2, <2>3, <2>4 DEF Link
  <1>7. Sends(p, p)
    BY <1>3, <1>6, SendsSelf DEF Link, Ahead
  <1>8. Sends(p, q) /\ q.acked = p.acked
    BY <1>3, <1>7, SendsTryinfo
  <1> HIDE DEF q
  <1>9. Emptied(q, z) /\ Behind(c, a, ToSet(q.out)) /\ Unacked(p, q)
    BY <1>1, <1>8 DEF Unacked
  <1>10. Link(z, y, c, b) /\ z.sub = p.sub /\ z.acked = p.acked
    BY <1>6, <1>8, <1>9, SenderQuiet
  <1> QED
    BY <1>3, <1>10

-----------------------------------------------------------------------------
(* The two stations and the channel.                                       *)

LEMMA PeerOf ==
    ASSUME NEW s \in Stations
    PROVE  Peer(Peer(s)) = s /\ \A t \in Stations : t = s \/ t = Peer(s)
  <1> DEFINE t == Peer(s)
  <1>1. t \in Stations /\ t # s /\ IsFiniteSet(Stations) /\ Cardinality(Stations) = 2
    BY PeerIs, LinkAssumption
  <1> HIDE DEF t
  <1>2. /\ IsFiniteSet(Stations \ {s}) /\ Cardinality(Stations \ {s}) = 1 /\ t \in Stations \ {s}
    BY <1>1, FS_RemoveElement
  <1> DEFINE R == (Stations \ {s}) \ {t}
  <1>3. IsFiniteSet(R) /\ Cardinality(R) = 0
    <2> DEFINE Q == Stations \ {s}
    <2>1. IsFiniteSet(Q) /\ Cardinality(Q) = 1 /\ t \in Q
      BY <1>2
    <2> HIDE DEF Q
    <2>2. IsFiniteSet(Q \ {t}) /\ Cardinality(Q \ {t}) = 0
      BY <2>1, FS_RemoveElement
    <2> QED
      BY <2>2 DEF Q
  <1>4. R = {}
    BY <1>3, FS_EmptySet
  <1>5. \A r \in Stations : r = s \/ r = t
    BY <1>4
  <1>6. Peer(t) \in Stations /\ Peer(t) # t
    BY <1>1, PeerIs
  <1> QED
    BY <1>5, <1>6 DEF t

\* What is left of the frames of a station, and its port, after a step.
LEMMA BecomesIs ==
    ASSUME port \in [Stations -> Port], NEW s \in Stations, NEW p \in Port,
           NEW heard \in [Stations -> Seq(GoodFrames)], Becomes(s, p, heard)
    PROVE  /\ Emptied(p, port'[s]) /\ Behind(air'[s], heard[s], ToSet(p.out))
           /\ \A t \in Stations \ {s} : port'[t] = port[t] /\ air'[t] = heard[t]
  <1> DEFINE h == heard[s]
             sent == h \o p.out
             n == Min({MaxAir, Len(sent)})
             rest == SubSeq(sent, 1, n)
             q == [p EXCEPT !.out = <<>>]
  <1>1. port' = [port EXCEPT ![s] = q] /\ air' = [heard EXCEPT ![s] = rest]
    BY DEF Becomes
  <1>2. /\ h \in Seq(GoodFrames) /\ p.out \in Seq(GoodFrames)
        /\ sent \in Seq(GoodFrames) /\ Len(sent) = Len(h) + Len(p.out)
        /\ \A k \in 1 .. Len(sent) : sent[k] = IF k <= Len(h) THEN h[k] ELSE p.out[k - Len(h)]
    <2>1. h \in Seq(GoodFrames) /\ p.out \in Seq(GoodFrames)
      BY PortTypes
    <2> QED
      BY <2>1
  <1> HIDE DEF sent, h
  <1>3. n \in Nat /\ n <= Len(sent)
    <2>1. MaxAir \in Nat /\ Len(sent) \in Nat /\ MaxAir \in Int /\ Len(sent) \in Int
      BY <1>2, LinkAssumption
    <2> DEFINE len == Len(sent)
    <2> HIDE DEF len
    <2>2. Min({MaxAir, len}) \in {MaxAir, len} /\ Min({MaxAir, len}) <= len
      BY <2>1, MinOf DEF len
    <2> QED
      BY <2>1, <2>2 DEF len
  <1> HIDE DEF n
  <1>4. rest \in Seq(GoodFrames) /\ Len(rest) = n /\ \A k \in 1 .. n : rest[k] = sent[k]
    BY <1>2, <1>3
  <1> HIDE DEF rest
  <1>5. Behind(rest, h, ToSet(p.out))
    <2> SUFFICES ASSUME NEW k \in 1 .. Len(rest)
                 PROVE  (k \in 1 .. Len(h) /\ rest[k] = h[k]) \/ (k > Len(h) /\ rest[k] \in ToSet(p.out))
      BY <1>4 DEF Behind
    <2>1. k \in 1 .. Len(sent) /\ rest[k] = sent[k] /\ k \in Nat /\ Len(h) \in Nat /\ Len(p.out) \in Nat
      BY <1>2, <1>3, <1>4
    <2>2. CASE k <= Len(h)
      BY <1>2, <2>1, <2>2
    <2>3. CASE k > Len(h)
      <3>1. k - Len(h) \in 1 .. Len(p.out) /\ rest[k] = p.out[k - Len(h)]
        BY <1>2, <2>1, <2>3
      <3>2. \A i \in 1 .. Len(p.out) : p.out[i] \in ToSet(p.out)
        BY <1>2, ToSetIs
      <3> QED
        BY <2>3, <3>1, <3>2
    <2> QED
      BY <2>1, <2>2, <2>3
  <1>6. Emptied(p, q)
    <2>1. <<>> \in Seq(GoodFrames)
      OBVIOUS
    <2> QED
      BY <2>1 DEF Emptied, Flow, Near, SameTx, SameRx, Port
  <1> HIDE DEF q
  <1> QED
    BY <1>1, <1>5, <1>6 DEF h

\* the first step: the sender asks for the link
Linking(q) ==
    /\ q \in Port /\ q.lstate = "link_setup" /\ q.sess = 1 /\ q.sub = 0 /\ q.acked = 0
    /\ q.txinfout = <<>> /\ q.txinfptr = [n \in Numbers |-> NoInfo] /\ q.v1s = 0 /\ q.vs = 0 /\ q.vr = 0
    /\ ~q.overrun /\ ToSet(q.out) = {U("SABM", "poll")}

LEMMA ConnectIdle == Linking(Connect(Idle))
  <1> DEFINE i == Idle
             l == [i EXCEPT !.lstate = IF i.lstate \in Transfer THEN "info_transfer" ELSE i.lstate,
                 !.retries = i.retries, !.qsumme = i.qsumme, !.rxlen = i.rxlen, !.told = i.told, !.astray = i.astray,
                 !.sess = i.sess, !.sub = i.sub, !.acked = i.acked, !.got = i.got,
                 !.overrun = i.overrun, !.out = i.out]
             n == NewSession(i)
             r == Retry \div 4 + 1
             d == [n EXCEPT !.lstate = "link_setup", !.timer1 = TRUE, !.retries = r]
  <1>1. i \in Port /\ i.lstate = "disconnected"
    BY IdlePort
  <1>2. /\ i.sess = 0 /\ i.txinfout = <<>> /\ i.txinfptr = [k \in Numbers |-> NoInfo]
        /\ i.v1s = 0 /\ i.vs = 0 /\ i.vr = 0 /\ i.out = <<>>
    BY DEF Idle
  <1>3. Disconnect(i, 1) = i
    <2> HIDE DEF i
    <2> QED
      BY <1>1, StateSets DEF Disconnect
  <1>4. Lreset(i) = i
    <2>1. Lreset(i) = l
      BY DEF Lreset
    <2> HIDE DEF i
    <2>2. i.lstate \notin Transfer
      BY <1>1, StateSets
    <2>3. l = i
      BY <1>1, <2>2 DEF Port
    <2> QED
      BY <2>1, <2>3
  <1> HIDE DEF i
  <1>5. /\ n \in Port /\ n.sess = 1 /\ n.sub = 0 /\ n.acked = 0 /\ n.out = <<>>
        /\ n.txinfout = <<>> /\ n.txinfptr = [k \in Numbers |-> NoInfo] /\ n.v1s = 0 /\ n.vs = 0 /\ n.vr = 0
        /\ n.overrun = FALSE
    <2>1. n \in Port
      BY <1>1, NewSessionIs DEF Same
    <2>2. /\ n.sess = i.sess + 1 /\ n.sub = 0 /\ n.acked = 0 /\ n.out = i.out
          /\ n.txinfout = i.txinfout /\ n.txinfptr = i.txinfptr /\ n.v1s = i.v1s /\ n.vs = i.vs /\ n.vr = i.vr
          /\ n.overrun = FALSE
      BY <1>1 DEF NewSession, Port
    <2> QED
      BY <1>2, <2>1, <2>2
  <1> HIDE DEF n
  <1>6. r \in -1 .. Retry + 1
    BY Parameters
  <1> HIDE DEF r
  <1>7. /\ d \in Port /\ d.lstate = "link_setup" /\ SameTx(n, d) /\ d.vr = n.vr /\ d.out = n.out /\ d.overrun = n.overrun
    BY <1>5, <1>6, StateSets DEF Port, SameTx
  <1> HIDE DEF d
  <1>8. U("SABM", "poll") \in GoodFrames
    BY FramesOf
  <1> DEFINE q == Send(d, U("SABM", "poll"))
  <1>9. Near(d, q) /\ ToSet(q.out) = ToSet(d.out) \cup {U("SABM", "poll")}
    BY <1>7, <1>8, SendNear
  <1>10. Connect(Idle) = q
    BY <1>3, <1>4 DEF Connect, i, d, n, r
  <1> HIDE DEF q
  <1>11. ToSet(d.out) = {}
    BY <1>5, <1>7 DEF ToSet
  <1> QED
    BY <1>5, <1>7, <1>9, <1>10, <1>11 DEF Linking, Near, SameTx, SameRx

LEMMA LinkBegins ==
    ASSUME NEW q, Linking(q), NEW z, Emptied(q, z), NEW c, Behind(c, <<>>, ToSet(q.out))
    PROVE  Link(z, Idle, c, <<>>) /\ z.sub = 0 /\ z.acked = 0 /\ Idle.got = <<>>
  <1>1. /\ z \in Port /\ z.sess = 1 /\ z.sub = 0 /\ z.acked = 0 /\ z.lstate = "link_setup"
        /\ z.txinfout = <<>> /\ z.txinfptr = [n \in Numbers |-> NoInfo] /\ z.v1s = 0 /\ z.vs = 0
    BY DEF Linking, Emptied, Near, SameTx
  <1> DEFINE y == Idle
  <1>2. /\ y \in Port /\ y.lstate = "disconnected" /\ y.got = <<>> /\ ~Up(y) /\ Off(y)
        /\ y.sammler = [n \in Numbers |-> NoInfo] /\ y.vr = 0
    BY IdlePort DEF Idle, Up, Off, Blank
  <1> HIDE DEF y
  <1>3. c \in Seq(GoodFrames) /\ Len(c) \in Nat /\ \A k \in 1 .. Len(c) : c[k].type = "SABM"
    <2>1. c \in Seq(GoodFrames) /\ \A k \in 1 .. Len(c) : c[k] \in ToSet(q.out)
      BY DEF Behind
    <2> QED
      BY <2>1 DEF Linking, U
  <1>4. Len(y.got) = 0 /\ ~Kept(y) /\ Edge(y) = 0 /\ <<>> \in Seq(GoodFrames)
    BY <1>2, EdgeBounds DEF Kept, Edge
  <1>5. Shapes(z, y, c, <<>>)
    BY <1>1, <1>2, <1>3, <1>4 DEF Shapes
  <1>6. Setup(z, y, c, <<>>)
    <2>1. \A k \in 1 .. Len(c) : \A i \in 1 .. k : i \in 1 .. Len(c)
      BY <1>3
    <2> QED
      BY <1>2, <1>3, <2>1 DEF Setup, Fresh
  <1>7. Arrived(z, y) /\ Carried(z, y, c) /\ Acks(z, y, <<>>)
    BY <1>1, <1>2, <1>3, <1>4 DEF Arrived, Carried, Acks
  <1>8. V(z) = 0 /\ MaxFrame \in Nat /\ M \in Nat /\ M >= 2
    <2>1. Len(z.txinfout) = 0 /\ V(z) = z.sub - Len(z.txinfout)
      BY <1>1 DEF V
    <2> QED
      BY <1>1, <2>1, Parameters
  <1>9. Window(z)
    <2>1. 0 % M = 0 /\ 0 \in Numbers
      BY <1>8 DEF Numbers
    <2>2. ASSUME NEW n \in Numbers PROVE ~(Minus(n, z.v1s) < V(z) - z.acked)
      <3>1. Minus(n, 0) \in Nat
        BY <2>1, MinusRange
      <3> QED
        BY <1>1, <1>8, <3>1
    <2>3. \A n \in Numbers : z.txinfptr[n] = NoInfo
      BY <1>1
    <2>4. \A n \in Numbers :
             z.txinfptr[n] = IF Minus(n, z.v1s) < V(z) - z.acked
                             THEN <<z.sess, z.acked + Minus(n, z.v1s) + 1>> ELSE NoInfo
      BY <2>2, <2>3
    <2>5. \A i \in 1 .. Len(z.txinfout) : FALSE
      BY <1>1
    <2>6. z.acked <= V(z) /\ V(z) <= z.acked + MaxFrame /\ z.v1s = z.acked % M /\ z.vs = V(z) % M
      BY <1>1, <1>8, <2>1
    <2> QED
      BY <2>4, <2>5, <2>6 DEF Window
  <1>10. Ahead(z, y)
    BY <1>1, <1>4, <1>8, <1>9 DEF Ahead
  <1> QED
    BY <1>1, <1>2, <1>5, <1>6, <1>7, <1>10 DEF Link, y

-----------------------------------------------------------------------------
(* The steps of the sending station.                                       *)

LEMMA LinkTypes2 ==
    ASSUME NEW x, NEW y, NEW a, NEW b, Link(x, y, a, b), x.out = <<>>
    PROVE  /\ x \in Port /\ y \in Port /\ Off(y) /\ y.lstate # "link_setup" /\ Sends(x, x)
           /\ x.sub \in Nat /\ x.acked \in Nat /\ Len(y.got) \in Nat
  <1>1. x \in Port /\ y \in Port /\ Off(y) /\ y.lstate # "link_setup" /\ (Up(x) => Window(x))
    BY DEF Link, Shapes, Ahead
  <1>2. Sends(x, x)
    BY <1>1, SendsSelf
  <1> QED
    BY <1>1, <1>2, PortTypes

LEMMA SenderHush ==
    ASSUME NEW x, NEW y, NEW a, NEW b, Link(x, y, a, b), x.out = <<>>, NEW q, Hush(x, q),
           NEW z, Emptied(q, z), NEW c, Behind(c, a, ToSet(q.out))
    PROVE  Link(z, y, c, b) /\ z.sub = x.sub /\ z.acked = x.acked
  <1>1. x \in Port /\ Sends(x, x)
    BY LinkTypes2
  <1>2. Sends(x, q) /\ Unacked(x, q)
    BY <1>1, HushTx, SendsTx DEF Hush, Unacked
  <1> QED
    BY <1>2, SenderQuiet

LEMMA SenderChat ==
    ASSUME NEW x, NEW y, NEW a, NEW b, Link(x, y, a, b), x.out = <<>>,
           NEW p, Near(x, p), p.out = <<>>, NEW q, Chat(p, q),
           NEW z, Emptied(q, z), NEW c, Behind(c, a, ToSet(q.out))
    PROVE  Link(z, y, c, b) /\ z.sub = x.sub /\ z.acked = x.acked
  <1>1. x \in Port /\ p \in Port /\ Sends(x, x) /\ TxHush(x, p)
    BY LinkTypes2, LevelTx DEF Near
  <1>2. Sends(x, p)
    BY <1>1, SendsTx
  <1>3. Sends(x, q)
    BY <1>1, <1>2, SendsChat
  <1>4. Unacked(x, q)
    BY DEF Chat, Near, SameTx, Unacked
  <1> QED
    BY <1>3, <1>4, SenderQuiet

\* timer 1 or timer 3
LEMMA SenderTimer ==
    ASSUME NEW x, NEW y, NEW a, NEW b, Link(x, y, a, b), x.out = <<>>,
           NEW p, Level(x, p), NEW z, Emptied(T1tout(p), z), NEW c, Behind(c, a, ToSet(T1tout(p).out))
    PROVE  Link(z, y, c, b) /\ z.sub = x.sub /\ z.acked = x.acked
  <1> DEFINE q == T1tout(p)
  <1>1. p \in Port /\ Near(x, p) /\ p.out = <<>> /\ p.lstate = x.lstate /\ ToSet(p.out) = {}
    BY DEF Level, Near, ToSet
  <1>2. \/ Chat(p, q)
        \/ Hush(p, q)
        \/ /\ p.lstate = "link_setup" /\ Near(p, q)
           /\ ToSet(q.out) = ToSet(p.out) \cup {U("SABM", "poll")}
    BY <1>1, T1toutIs
  <1>3. Emptied(q, z) /\ Behind(c, a, ToSet(q.out))
    OBVIOUS
  <1> HIDE DEF q
  <1>4. CASE Chat(p, q)
    BY <1>1, <1>3, <1>4, SenderChat
  <1>5. CASE Hush(p, q)
    <2>1. Hush(x, q)
      BY <1>5, LevelHush, HushSteps
    <2> QED
      BY <1>3, <2>1, SenderHush
  <1>6. CASE /\ p.lstate = "link_setup" /\ Near(p, q)
             /\ ToSet(q.out) = ToSet(p.out) \cup {U("SABM", "poll")}
    <2>1. Near(x, q) /\ x.lstate = "link_setup" /\ ToSet(q.out) = {U("SABM", "poll")}
      BY <1>1, <1>6, NearSteps
    <2> DEFINE F == ToSet(q.out)
    <2>2. F = {U("SABM", "poll")} /\ Behind(c, a, F)
      BY <1>3, <2>1
    <2> HIDE DEF F
    <2> QED
      BY <1>3, <2>1, <2>2, SetupStep
  <1> QED
    BY <1>2, <1>4, <1>5, <1>6

\* timer 2
LEMMA SenderAnswer ==
    ASSUME NEW x, NEW y, NEW a, NEW b, Link(x, y, a, b), x.out = <<>>,
           NEW q, q = Paccodsup([x EXCEPT !.timer2 = FALSE], "response"),
           NEW z, Emptied(q, z), NEW c, Behind(c, a, ToSet(q.out))
    PROVE  Link(z, y, c, b) /\ z.sub = x.sub /\ z.acked = x.acked
  <1> DEFINE p == [x EXCEPT !.timer2 = FALSE]
  <1>1. x \in Port
    BY LinkTypes2
  <1>2. Near(x, p) /\ p.out = <<>> /\ p \in Port
    BY <1>1 DEF Near, SameTx, SameRx, Port
  <1>3. q = Paccodsup(p, "response")
    OBVIOUS
  <1> HIDE DEF p
  <1>4. Chat(p, q)
    BY <1>2, <1>3, PaccodsupChat DEF PFs
  <1> QED
    BY <1>2, <1>4, SenderChat

LEMMA SenderReads ==
    ASSUME NEW x, NEW y, NEW a, NEW b, Link(x, y, a, b), x.out = <<>>,
           NEW z, Emptied(Chrin(x), z), NEW c, Behind(c, a, ToSet(Chrin(x).out))
    PROVE  Link(z, y, c, b) /\ z.sub = x.sub /\ z.acked = x.acked
  <1>1. x \in Port
    BY LinkTypes2
  <1>2. Near(x, x) /\ Chat(x, Chrin(x))
    BY <1>1, ChrinChat DEF Near, SameTx, SameRx
  <1> DEFINE q == Chrin(x)
  <1>3. Chat(x, q) /\ Emptied(q, z) /\ Behind(c, a, ToSet(q.out))
    BY <1>2
  <1> HIDE DEF q
  <1> QED
    BY <1>2, <1>3, SenderChat

\* a frame from the receiver
LEMMA SenderReceives ==
    ASSUME NEW x, NEW y, NEW a, NEW b, Link(x, y, a, b), x.out = <<>>, b # <<>>,
           NEW z, Emptied(Pacdec(x, Head(b)), z), NEW c, Behind(c, a, ToSet(Pacdec(x, Head(b)).out))
    PROVE  Link(z, y, c, Tail(b)) /\ z.sub = x.sub /\ x.acked <= z.acked
  <1> DEFINE f == Head(b)
             t == Tail(b)
             q == Pacdec(x, f)
             d == Minus(f.nr, x.v1s)
  <1>1. x \in Port /\ y \in Port /\ (Up(x) => Window(x)) /\ x.acked \in Nat /\ Len(y.got) \in Nat
        /\ x.v1s \in Numbers /\ V(x) \in Int
    BY LinkTypes2, PortTypes DEF Link, Ahead
  <1>2. f \in GoodFrames
    BY TailIs DEF Link, Shapes
  <1>3. /\ Link(x, y, a, t) /\ f.type # "SABM"
        /\ Up(x) /\ f.type \in Numbered =>
             /\ d <= Len(y.got) - x.acked
             /\ \A k \in 1 .. Len(t) : t[k].type \in Numbered => d <= Minus(t[k].nr, x.v1s)
    BY LoseAnswer
  <1>4. Emptied(q, z) /\ Behind(c, a, ToSet(q.out))
    OBVIOUS
  <1>5. q = Pacdec(x, f)
    OBVIOUS
  <1>6. d \in Nat
    <2>1. f.nr \in Numbers
      BY <1>2 DEF GoodFrames, Frame
    <2> QED
      BY <1>1, <2>1, MinusRange
  <1> HIDE DEF f, t, q
  <1>7. Up(x) /\ f.type \in Numbered => Minus(f.nr, x.v1s) <= V(x) - x.acked
    <2>1. Len(y.got) <= Edge(y) /\ Edge(y) \in Nat
      BY <1>1, EdgeBounds
    <2>2. Up(x) => Edge(y) <= V(x)
      BY DEF Link, Ahead
    <2> DEFINE g == Len(y.got)
               v == V(x)
               e == Edge(y)
    <2>3. g <= e /\ e \in Nat /\ g \in Nat /\ v \in Int /\ (Up(x) => e <= v)
      BY <1>1, <2>1, <2>2
    <2>4. Up(x) /\ f.type \in Numbered => d <= g - x.acked
      BY <1>3
    <2> HIDE DEF d, g, v, e
    <2>5. Up(x) /\ f.type \in Numbered => d <= v - x.acked
      BY <1>1, <1>6, <2>3, <2>4
    <2> QED
      BY <2>5 DEF d, v
  <1> HIDE DEF d
  <1>8. Sends(x, q) /\ (q.acked = x.acked \/ (Up(x) /\ f.type \in Numbered /\ q.acked = x.acked + d))
    <2>1. LET r == Pacdec(x, f) IN
          /\ Sends(x, r)
          /\ \/ r.acked = x.acked
             \/ Up(x) /\ f.type \in Numbered /\ r.acked = x.acked + Minus(f.nr, x.v1s)
      BY <1>1, <1>2, <1>3, <1>7, PacdecSends
    <2> QED
      BY <1>5, <2>1 DEF d
  <1>9. CASE q.acked = x.acked
    <2>0. Sends(x, q) /\ Unacked(x, q)
      BY <1>8, <1>9 DEF Unacked
    <2>1. Link(z, y, c, t) /\ z.sub = x.sub /\ z.acked = x.acked
      BY <1>3, <1>4, <2>0, SenderQuiet
    <2> QED
      BY <1>1, <2>1 DEF t
  <1>10. CASE Up(x) /\ f.type \in Numbered /\ q.acked = x.acked + d
    <2>1. q.acked = x.acked + d
      BY <1>10
    <2>2. Up(x) => \A k \in 1 .. Len(t) : t[k].type \in Numbered => d <= Minus(t[k].nr, x.v1s)
      BY <1>3, <1>10
    <2>3. d <= Len(y.got) - x.acked /\ Sends(x, q)
      BY <1>3, <1>8, <1>10
    <2>4. Link(z, y, c, t) /\ z.sub = x.sub /\ z.acked = x.acked + d
      BY <1>3, <1>4, <1>6, <2>1, <2>2, <2>3, SendStep
    <2> QED
      BY <1>1, <1>6, <2>4 DEF t
  <1> QED
    BY <1>8, <1>9, <1>10

-----------------------------------------------------------------------------
(* The steps of the receiving station.                                     *)

LEMMA ReceiverHush ==
    ASSUME NEW x, NEW y, NEW a, NEW b, Link(x, y, a, b), y.out = <<>>, NEW q, Hush(y, q),
           NEW z, Emptied(q, z), NEW c, Behind(c, b, ToSet(q.out))
    PROVE  Link(x, z, a, c) /\ z.got = y.got
  <1>1. Answers(y, q)
    BY HushAnswers DEF Link, Shapes
  <1> QED
    BY <1>1, AnswerStep

LEMMA ReceiverChat ==
    ASSUME NEW x, NEW y, NEW a, NEW b, Link(x, y, a, b), y.out = <<>>, Up(y),
           NEW p \in Port, SameRx(y, p), p.lstate = y.lstate, p.out = <<>>, NEW q, RxChat(p, q),
           NEW z, Emptied(q, z), NEW c, Behind(c, b, ToSet(q.out))
    PROVE  Link(x, z, a, c) /\ z.got = y.got
  <1>1. RxChat(y, p)
    BY DEF RxChat
  <1>2. RxChat(y, q)
    BY <1>1, RxChatSteps
  <1>3. Answers(y, q)
    BY <1>2, AnswersChat DEF Link, Shapes
  <1> QED
    BY <1>3, AnswerStep

\* timer 1 or timer 3
LEMMA ReceiverTimer ==
    ASSUME NEW x, NEW y, NEW a, NEW b, Link(x, y, a, b), y.out = <<>>,
           NEW p, Level(y, p), NEW z, Emptied(T1tout(p), z), NEW c, Behind(c, b, ToSet(T1tout(p).out))
    PROVE  Link(x, z, a, c) /\ z.got = y.got
  <1> DEFINE q == T1tout(p)
  <1>1. p \in Port /\ SameRx(y, p) /\ p.out = <<>> /\ p.lstate = y.lstate /\ p.lstate # "link_setup"
    BY DEF Level, Near, Link, Shapes
  <1>2. (Linked(p) /\ Chat(p, q)) \/ Hush(p, q)
    BY <1>1, T1toutIs
  <1>3. Emptied(q, z) /\ Behind(c, b, ToSet(q.out))
    OBVIOUS
  <1> HIDE DEF q
  <1>4. CASE Linked(p) /\ Chat(p, q)
    <2>1. Up(y) /\ RxChat(p, q)
      BY <1>1, <1>4, ChatIs DEF Linked, Up
    <2> QED
      BY <1>1, <1>3, <2>1, ReceiverChat
  <1>5. CASE Hush(p, q)
    <2>1. Hush(y, q)
      BY <1>5, LevelHush, HushSteps
    <2> QED
      BY <1>3, <2>1, ReceiverHush
  <1> QED
    BY <1>2, <1>4, <1>5

\* timer 2
SupAnswer(q, y) == q = Paccodsup([y EXCEPT !.timer2 = FALSE], "response")

LEMMA ReceiverAnswer ==
    ASSUME NEW x, NEW y, NEW a, NEW b, Link(x, y, a, b), y.out = <<>>, y.timer2,
           NEW q, SupAnswer(q, y),
           NEW z, Emptied(q, z), NEW c, Behind(c, b, ToSet(q.out))
    PROVE  Link(x, z, a, c) /\ z.got = y.got
  <1> DEFINE p == [y EXCEPT !.timer2 = FALSE]
  <1>1. y \in Port /\ Up(y)
    BY DEF Link, Shapes, Off, Blank
  <1>2. p \in Port /\ SameRx(y, p) /\ p.out = <<>> /\ p.lstate = y.lstate
    BY <1>1 DEF SameRx, Port
  <1>3. q = Paccodsup(p, "response")
    BY DEF SupAnswer
  <1> HIDE DEF p
  <1>4. RxChat(p, q)
    BY <1>2, <1>3, PaccodsupChat, ChatIs DEF PFs
  <1>5. RxChat(y, q)
    <2>1. RxChat(y, p)
      BY <1>2 DEF RxChat
    <2> QED
      BY <1>4, <2>1, RxChatSteps
  <1>6. Answers(y, q)
    BY <1>1, <1>5, AnswersChat DEF Link, Shapes
  <1> QED
    BY <1>6, AnswerStep

LEMMA ReceiverSubmits ==
    ASSUME NEW x, NEW y, NEW a, NEW b, Link(x, y, a, b), y.out = <<>>, Up(y),
           NEW z, Emptied(Submit(y), z), NEW c, Behind(c, b, ToSet(Submit(y).out))
    PROVE  Link(x, z, a, c) /\ z.got = y.got
  <1> DEFINE p == Queued(y)
             q == Tryinfo(p)
  <1>1. Submit(y) = q
    BY DEF Submit, Queued
  <1>2. p \in Port /\ SameRx(y, p) /\ p.out = <<>> /\ p.lstate = y.lstate
    BY QueuedIs DEF Link, Shapes
  <1> HIDE DEF p
  <1>3. RxChat(p, q)
    BY <1>2, TryinfoChat DEF Up
  <1>4. Emptied(q, z) /\ Behind(c, b, ToSet(q.out))
    BY <1>1
  <1> HIDE DEF q
  <1> QED
    BY <1>2, <1>3, <1>4, ReceiverChat

LEMMA ReceiverReads ==
    ASSUME NEW x, NEW y, NEW a, NEW b, Link(x, y, a, b), y.out = <<>>,
           NEW z, Emptied(Chrin(y), z), NEW c, Behind(c, b, ToSet(Chrin(y).out))
    PROVE  Link(x, z, a, c) /\ z.got = y.got
  <1> DEFINE q == Chrin(y)
  <1>1. y \in Port /\ Off(y) /\ y.lstate # "link_setup" /\ SameRx(y, y)
    BY DEF Link, Shapes, SameRx
  <1>2. /\ Chat(y, q) /\ Near(y, q)
        /\ ~y.busy => q.out = y.out /\ q.timer2 = y.timer2 /\ ~q.busy
    BY <1>1, ChrinChat
  <1>3. Emptied(q, z) /\ Behind(c, b, ToSet(q.out))
    OBVIOUS
  <1> HIDE DEF q
  <1>4. CASE Up(y)
    <2>1. RxChat(y, q)
      BY <1>1, <1>2, ChatIs
    <2> QED
      BY <1>1, <1>3, <1>4, <2>1, ReceiverChat
  <1>5. CASE ~Up(y)
    <2>1. q.out = <<>> /\ q.timer2 = y.timer2 /\ ~q.busy /\ ~Up(q) /\ Off(q) /\ q.lstate # "link_setup"
      BY <1>1, <1>2, <1>5 DEF Off, Blank, Near, SameRx, Up
    <2>2. ToSet(q.out) = {}
      BY <2>1 DEF ToSet
    <2>3. Answers(y, q)
      BY <1>2, <2>1, <2>2 DEF Answers, Near, SameRx, Spoken
    <2> QED
      BY <1>3, <2>3, AnswerStep
  <1> QED
    BY <1>4, <1>5

\* No two pieces after another both ask for the end: a connection that ends
\* while the second is taken out of the sammler would be left half open.
QuitsApart == \A k \in Nat : ~(Quits(<<1, k>>) /\ Quits(<<1, k + 1>>))

LEMMA PiecesApart ==
    ASSUME NEW x, NEW y, NEW a, NEW b, Link(x, y, a, b), NEW f, Piece(x, y, f), QuitsApart
    PROVE  Apart(y, f)
  <1> DEFINE z == y.sammler[Plus(y.vr, 1)]
             n == Num(f)
             g == Len(y.got)
  <1> SUFFICES ASSUME f.ns = y.vr, z # NoInfo PROVE ~(Quits(f.info) /\ Quits(z))
    BY DEF Apart
  <1>1. y \in Port /\ g \in Nat /\ Plus(y.vr, 1) \in Numbers /\ MaxFrame \in Nat
    BY EdgeBounds, Parameters DEF Link, Shapes
  <1>2. Up(y)
    BY <1>1 DEF Link, Shapes, Off, Blank
  <1>3. z = <<1, g + 2>> /\ y.vr = g % M
    BY <1>1, <1>2 DEF Link, Arrived
  <1>4. /\ n \in Nat /\ f.info = <<1, n + 1>> /\ f.ns = n % M
        /\ n < g + MaxFrame /\ Edge(y) <= n + MaxFrame
    BY DEF Piece
  <1>5. Edge(y) = g + 2
    BY DEF Edge, Kept
  <1>6. n % M = g % M
    BY <1>3, <1>4
  <1> HIDE DEF n, g, z
  <1>7. g <= n + MaxFrame
    BY <1>1, <1>4, <1>5
  <1>8. n = g
    BY <1>1, <1>4, <1>6, <1>7, NextNumber
  <1>9. f.info = <<1, g + 1>> /\ z = <<1, (g + 1) + 1>> /\ g + 1 \in Nat
    <2>1. g + 2 = (g + 1) + 1 /\ g + 1 \in Nat
      BY <1>1
    <2> QED
      BY <1>3, <1>4, <1>8, <2>1
  <1> QED
    BY <1>9 DEF QuitsApart

\* a frame from the sender
LEMMA ReceiverReceives ==
    ASSUME NEW x, NEW y, NEW a, NEW b, Link(x, y, a, b), y.out = <<>>, a # <<>>, QuitsApart,
           NEW z, Emptied(Pacdec(y, Head(a)), z), ~z.overrun,
           NEW c, Behind(c, b, ToSet(Pacdec(y, Head(a)).out))
    PROVE  /\ Link(x, z, Tail(a), c) /\ Len(y.got) <= Len(z.got)
           /\ Edge(z) <= Edge(y) \/ (Head(a).type = "I" /\ Edge(z) <= Num(Head(a)) + 1)
  <1> DEFINE f == Head(a)
             t == Tail(a)
             q == Pacdec(y, f)
  <1>1. y \in Port /\ Off(y) /\ y.lstate # "link_setup" /\ Len(y.got) \in Nat
    BY PortTypes DEF Link, Shapes
  <1>2. f \in GoodFrames
    BY TailIs DEF Link, Shapes
  <1>3. /\ Link(x, y, t, b)
        /\ f.type = "I" =>
             /\ Piece(x, y, f)
             /\ x.lstate # "link_setup" /\ \A k \in 1 .. Len(t) : t[k].type # "SABM"
             /\ \A k \in 1 .. Len(t) : t[k].type = "I" => Num(f) + 1 <= Num(t[k]) + MaxFrame
        /\ f.type = "SABM" => Fresh(y)
    BY LoseFirst
  <1>4. f.type = "I" => Apart(y, f)
    BY <1>3, PiecesApart
  <1>5. Emptied(q, z) /\ Behind(c, b, ToSet(q.out))
    OBVIOUS
  <1>6. ~q.overrun
    BY <1>5 DEF Emptied, Near, SameRx
  <1>7. \/ Answers(y, q)
        \/ f.type = "SABM" /\ Begins(q)
        \/ f.type = "I" /\ Up(y) /\ Receives(y, q, f)
    BY <1>1, <1>2, <1>4, <1>6, PacdecReceives
  <1> HIDE DEF f, t, q
  <1>8. CASE Answers(y, q)
    <2>1. Link(x, z, t, c) /\ z.got = y.got /\ Edge(z) <= Edge(y)
      BY <1>3, <1>5, <1>8, AnswerStep
    <2> QED
      BY <1>1, <2>1 DEF t
  <1>9. CASE f.type = "SABM" /\ Begins(q)
    <2>1. Link(x, z, t, c) /\ z.got = y.got /\ Edge(z) <= Edge(y)
      BY <1>3, <1>5, <1>9, BeginStep
    <2> QED
      BY <1>1, <2>1 DEF t
  <1>10. CASE f.type = "I" /\ Up(y) /\ Receives(y, q, f)
    <2>1. /\ Link(x, z, t, c) /\ Len(y.got) <= Len(z.got)
          /\ Edge(z) <= Edge(y) \/ Edge(z) <= Num(f) + 1
      BY <1>2, <1>3, <1>5, <1>10, ReceiveStep
    <2> QED
      BY <1>10, <2>1 DEF t, f
  <1> QED
    BY <1>7, <1>8, <1>9, <1>10

-----------------------------------------------------------------------------
(* The steps of the two stations together.                                 *)

\* station s handles something: its port becomes q, and heard is left on the air
Turned(s, q, heard) ==
    /\ Emptied(q, port'[s]) /\ Behind(air'[s], heard[s], ToSet(q.out))
    /\ port'[Peer(s)] = port[Peer(s)] /\ air'[Peer(s)] = heard[Peer(s)]

LEMMA BecomesTurned ==
    ASSUME L2LinkInv, NEW s \in Stations, NEW q, Good(q),
           NEW heard \in [Stations -> Seq(GoodFrames)], Becomes(s, q, heard)
    PROVE  Turned(s, q, heard)
  <1>1. q \in Port /\ port \in [Stations -> Port]
    BY DEF Good, L2LinkInv
  <1>2. Peer(s) \in Stations \ {s}
    BY PeerIs
  <1> QED
    BY <1>1, <1>2, BecomesIs DEF Turned

LEMMA StationSteps ==
    ASSUME L2LinkInv, NEW s \in Stations
    PROVE  /\ Receive(s) =>
                /\ air[Peer(s)] # <<>>
                /\ Turned(s, Pacdec(port[s], Head(air[Peer(s)])), [air EXCEPT ![Peer(s)] = Tail(@)])
           /\ Timer1(s) => Turned(s, T1tout([port[s] EXCEPT !.timer1 = FALSE]), air)
           /\ Timer2(s) =>
                /\ port[s].timer2
                /\ Turned(s, Paccodsup([port[s] EXCEPT !.timer2 = FALSE], "response"), air)
           /\ Timer3(s) => Turned(s, T1tout(port[s]), air)
           /\ Qtimer(s) => Turned(s, Disconnect(port[s], 1), air)
           /\ ConnectTo(s) => Turned(s, Connect(port[s]), air)
           /\ \A mode \in Modes : DisconnectFrom(s, mode) => Turned(s, Disconnect(port[s], mode), air)
           /\ SubmitData(s) => Up(port[s]) /\ Turned(s, Submit(port[s]), air)
           /\ Read(s) => Turned(s, Chrin(port[s]), air)
  <1>0. Good(port[s]) /\ Peer(s) \in Stations /\ air \in [Stations -> Seq(GoodFrames)]
    BY PeerIs DEF L2LinkInv, Aired
  <1>1. ASSUME Receive(s)
        PROVE  /\ air[Peer(s)] # <<>>
               /\ Turned(s, Pacdec(port[s], Head(air[Peer(s)])), [air EXCEPT ![Peer(s)] = Tail(@)])
    <2> DEFINE t == Peer(s)
               f == Head(air[t])
               heard == [air EXCEPT ![t] = Tail(air[t])]
               q == Pacdec(port[s], f)
    <2>1. t \in Stations /\ air[t] # <<>> /\ Becomes(s, q, heard)
      BY <1>0, <1>1 DEF Receive
    <2> HIDE DEF t
    <2>2. f \in GoodFrames /\ Tail(air[t]) \in Seq(GoodFrames)
      <3>1. air[t] \in Seq(GoodFrames)
        BY <1>0, <2>1
      <3> QED
        BY <2>1, <3>1
    <2>3. heard \in [Stations -> Seq(GoodFrames)]
      BY <1>0, <2>1, <2>2
    <2> HIDE DEF f, heard
    <2>4. Good(q)
      BY <1>0, <2>2, PacdecGood
    <2> HIDE DEF q
    <2>5. Turned(s, q, heard)
      BY <2>1, <2>3, <2>4, BecomesTurned
    <2> QED
      BY <2>1, <2>5 DEF q, heard, f, t
  <1>2. ASSUME Timer1(s) PROVE Turned(s, T1tout([port[s] EXCEPT !.timer1 = FALSE]), air)
    <2> DEFINE q == [port[s] EXCEPT !.timer1 = FALSE]
    <2>1. Becomes(s, T1tout(q), air)
      BY <1>2 DEF Timer1
    <2>2. Good(q)
      BY <1>0, PortSame
    <2> HIDE DEF q
    <2>3. Good(T1tout(q))
      BY <2>2, T1toutGood
    <2>4. Turned(s, T1tout(q), air)
      BY <1>0, <2>1, <2>3, BecomesTurned
    <2> QED
      BY <2>4 DEF q
  <1>3. ASSUME Timer2(s)
        PROVE  /\ port[s].timer2
               /\ Turned(s, Paccodsup([port[s] EXCEPT !.timer2 = FALSE], "response"), air)
    <2> DEFINE q == [port[s] EXCEPT !.timer2 = FALSE]
    <2>1. port[s].timer2 /\ Becomes(s, Paccodsup(q, "response"), air)
      BY <1>3 DEF Timer2
    <2>2. Good(q)
      BY <1>0, PortSame
    <2> HIDE DEF q
    <2>3. Same(q, Paccodsup(q, "response"))
      BY <2>2, PaccodsupSame DEF Good, PFs
    <2>4. Good(Paccodsup(q, "response"))
      BY <2>2, <2>3, SameKeeps
    <2>5. Turned(s, Paccodsup(q, "response"), air)
      BY <1>0, <2>1, <2>4, BecomesTurned
    <2> QED
      BY <2>1, <2>5 DEF q
  <1>4. Timer3(s) => Turned(s, T1tout(port[s]), air)
    BY <1>0, T1toutGood, BecomesTurned DEF Timer3
  <1>5. Qtimer(s) => Turned(s, Disconnect(port[s], 1), air)
    BY <1>0, DisconnectGood, BecomesTurned DEF Qtimer
  <1>6. ConnectTo(s) => Turned(s, Connect(port[s]), air)
    BY <1>0, ConnectGood, BecomesTurned DEF ConnectTo
  <1>7. ASSUME NEW mode \in Modes PROVE DisconnectFrom(s, mode) => Turned(s, Disconnect(port[s], mode), air)
    BY <1>0, DisconnectGood, BecomesTurned DEF DisconnectFrom
  <1>8. SubmitData(s) => Up(port[s]) /\ Turned(s, Submit(port[s]), air)
    BY <1>0, SubmitGood, BecomesTurned DEF SubmitData, Up
  <1>9. Read(s) => Turned(s, Chrin(port[s]), air)
    BY <1>0, ChrinGood, BecomesTurned DEF Read
  <1> QED
    BY <1>1, <1>2, <1>3, <1>4, <1>5, <1>6, <1>7, <1>8, <1>9

\* One station connects, once, and no station is started again.
OneSession == Callers = {Sender} /\ MaxSess = 1 /\ Restarts = {} /\ QuitsApart

StreamLinked == Link(port[Sender], port[Peer(Sender)], air[Sender], air[Peer(Sender)])

\* what a step does to the data
Goes ==
    \/ /\ port'[Sender].sub = port[Sender].sub + 1 /\ port'[Sender].acked = port[Sender].acked
       /\ port'[Peer(Sender)].got = port[Peer(Sender)].got
    \/ /\ port'[Sender].sub = port[Sender].sub /\ port[Sender].acked <= port'[Sender].acked
       /\ port'[Peer(Sender)].got = port[Peer(Sender)].got
    \/ /\ port'[Sender].sub = port[Sender].sub /\ port'[Sender].acked = port[Sender].acked
       /\ Len(port[Peer(Sender)].got) <= Len(port'[Peer(Sender)].got)

LEMMA StationsAre ==
    ASSUME L2LinkInv, Callers = {Sender}
    PROVE  /\ Sender \in Stations /\ Peer(Sender) \in Stations /\ Peer(Sender) # Sender
           /\ Peer(Peer(Sender)) = Sender /\ \A s \in Stations : s = Sender \/ s = Peer(Sender)
           /\ port[Sender].out = <<>> /\ port[Peer(Sender)].out = <<>>
           /\ port[Sender] \in Port /\ port[Peer(Sender)] \in Port /\ port[Sender].acked \in Nat
           /\ Len(port[Peer(Sender)].got) \in Nat /\ air \in [Stations -> Seq(GoodFrames)]
  <1>1. Sender \in Stations
    BY LinkAssumption
  <1> DEFINE s == Sender
  <1> HIDE DEF s
  <1>2. Sender = s
    BY DEF s
  <1>3. Peer(s) \in Stations /\ Peer(s) # s /\ Peer(Peer(s)) = s /\ \A t \in Stations : t = s \/ t = Peer(s)
    BY <1>1, <1>2, PeerIs, PeerOf
  <1>4. /\ port[s].out = <<>> /\ port[Peer(s)].out = <<>>
        /\ port[s] \in Port /\ port[Peer(s)] \in Port /\ air \in [Stations -> Seq(GoodFrames)]
    BY <1>1, <1>2, <1>3 DEF L2LinkInv, Aired
  <1>5. port[s].acked \in Nat /\ Len(port[Peer(s)].got) \in Nat
    BY <1>4, PortTypes
  <1> QED
    BY <1>1, <1>2, <1>3, <1>4, <1>5

\* the first step of all
LEMMA FirstCall ==
    ASSUME OneSession, L2LinkInv, Init, Next
    PROVE  /\ Idle.got = <<>> /\ Idle.sub = 0 /\ Idle.acked = 0
           /\ port[Sender] = Idle /\ port[Peer(Sender)] = Idle
           /\ port'[Peer(Sender)] = Idle /\ air'[Peer(Sender)] = <<>>
           /\ \E q : /\ Linking(q) /\ Emptied(q, port'[Sender])
                    /\ Behind(air'[Sender], <<>>, ToSet(q.out))
  <1> DEFINE i == Idle
  <1>1. /\ i.lstate = "disconnected" /\ ~i.timer1 /\ ~i.timer2 /\ ~i.qtimer /\ ~i.busy /\ i.rxlen = 0
        /\ i.got = <<>> /\ i.sub = 0 /\ i.acked = 0
    BY DEF Idle
  <1>2. \A s \in Stations : port[s] = i /\ air[s] = <<>> /\ Peer(s) \in Stations
    BY PeerIs DEF Init
  <1> HIDE DEF i
  <1>3. \E s \in Stations : ConnectTo(s)
    BY <1>1, <1>2 DEF Next, Receive, Lose, Timer1, Timer2, Timer3, Qtimer, DisconnectFrom, SubmitData,
                      Read, Unread, Restart, OneSession
  <1> DEFINE s == Sender
             t == Peer(s)
             q == Connect(Idle)
  <1>4. s \in Stations /\ t \in Stations
    BY StationsAre DEF OneSession
  <1>5. ConnectTo(s)
    BY <1>3 DEF ConnectTo, OneSession
  <1>6. Turned(s, q, air)
    <2>1. Turned(s, Connect(port[s]), air)
      BY <1>4, <1>5, StationSteps
    <2> QED
      BY <1>2, <1>4, <2>1 DEF i
  <1>7. Linking(q)
    BY ConnectIdle
  <1> HIDE DEF q
  <1>8. /\ Emptied(q, port'[s]) /\ Behind(air'[s], <<>>, ToSet(q.out))
        /\ port'[t] = i /\ air'[t] = <<>> /\ port[s] = i /\ port[t] = i
    BY <1>2, <1>4, <1>6 DEF Turned
  <1> QED
    BY <1>1, <1>7, <1>8 DEF i

LEMMA FirstStep ==
    ASSUME OneSession, L2LinkInv, Init, Next
    PROVE  StreamLinked' /\ Goes
  <1> DEFINE s == Sender
             t == Peer(s)
             z == port'[s]
             c == air'[s]
  <1>1. /\ Idle.got = <<>> /\ Idle.sub = 0 /\ Idle.acked = 0
        /\ port[s] = Idle /\ port[t] = Idle /\ port'[t] = Idle /\ air'[t] = <<>>
    BY FirstCall
  <1>2. PICK q : Linking(q) /\ Emptied(q, z) /\ Behind(c, <<>>, ToSet(q.out))
    BY FirstCall
  <1> HIDE DEF s, t
  <1>3. Link(z, Idle, c, <<>>) /\ z.sub = 0 /\ z.acked = 0
    <2> HIDE DEF z, c
    <2> QED
      BY <1>2, LinkBegins
  <1>4. StreamLinked'
    BY <1>1, <1>3 DEF StreamLinked, s, t
  <1>5. Goes
    BY <1>1, <1>3 DEF Goes, s, t
  <1> QED
    BY <1>4, <1>5

Acts(s) ==
    \/ Receive(s) \/ Lose(s) \/ Timer1(s) \/ Timer2(s) \/ Timer3(s) \/ Qtimer(s)
    \/ ConnectTo(s) \/ (\E mode \in Modes : DisconnectFrom(s, mode))
    \/ SubmitData(s) \/ Read(s) \/ Restart(s)

LEMMA SenderSteps ==
    ASSUME OneSession, L2LinkInv, StreamLinked, Acts(Sender)
    PROVE  StreamLinked' /\ Goes
  <1> DEFINE s == Sender
             t == Peer(s)
             x == port[s]
             y == port[t]
             a == air[s]
             b == air[t]
             z == port'[s]
             c == air'[s]
  <1>1. /\ s \in Stations /\ t \in Stations /\ t # s /\ t = Peer(s) /\ x.out = <<>> /\ x \in Port /\ x.acked \in Nat
        /\ Len(y.got) \in Nat /\ air \in [Stations -> Seq(GoodFrames)]
    BY StationsAre DEF OneSession
  <1>2. Link(x, y, a, b)
    BY DEF StreamLinked
  <1>3. SUFFICES /\ Link(z, port'[t], c, air'[t]) /\ port'[t].got = y.got
                 /\ \/ z.sub = x.sub + 1 /\ z.acked = x.acked
                    \/ z.sub = x.sub /\ x.acked <= z.acked
    BY DEF StreamLinked, Goes
  <1>17. Acts(s)
    OBVIOUS
  <1> HIDE DEF s, t
  <1>4. \A q : Turned(s, q, air) =>
            Emptied(q, z) /\ Behind(c, a, ToSet(q.out)) /\ port'[t] = y /\ air'[t] = b
    BY <1>1 DEF Turned
  <1>16. x.out = <<>>
    BY <1>1
  <1>5. CASE Receive(s)
    <2> DEFINE q == Pacdec(x, Head(b))
               heard == [air EXCEPT ![t] = Tail(b)]
    <2>1. b # <<>> /\ Turned(s, q, heard)
      BY <1>1, <1>5, StationSteps
    <2>2. heard[s] = a /\ heard[t] = Tail(b)
      BY <1>1
    <2>3. Emptied(q, z) /\ Behind(c, a, ToSet(q.out))
      BY <1>1, <2>1, <2>2 DEF Turned
    <2>5. port'[t] = y /\ air'[t] = Tail(b)
      BY <1>1, <2>1, <2>2 DEF Turned
    <2>6. b # <<>>
      BY <2>1
    <2>4. Link(z, y, c, Tail(b)) /\ z.sub = x.sub /\ x.acked <= z.acked
      <3> HIDE DEF z, c, x, y, a, b
      <3> QED
        BY <1>2, <1>16, <2>3, <2>6, SenderReceives
    <2> QED
      BY <2>4, <2>5
  <1>6. CASE Lose(s)
    <2>1. a # <<>> /\ port' = port /\ c = Tail(a) /\ air'[t] = b
      BY <1>1, <1>6 DEF Lose
    <2>2. Link(x, y, Tail(a), b)
      <3> HIDE DEF x, y, a, b
      <3> QED
        BY <1>2, <2>1, LoseFirst
    <2> QED
      BY <1>1, <2>1, <2>2
  <1>7. CASE Timer1(s)
    <2> DEFINE p == [x EXCEPT !.timer1 = FALSE]
    <2>1. Turned(s, T1tout(p), air)
      BY <1>1, <1>7, StationSteps
    <2>2. Level(x, p)
      BY <1>1, FlagsLevel
    <2>3. Emptied(T1tout(p), z) /\ Behind(c, a, ToSet(T1tout(p).out))
      BY <1>4, <2>1
    <2> HIDE DEF z, c, x, y, a, b, p
    <2>4. Link(z, y, c, b) /\ z.sub = x.sub /\ z.acked = x.acked
      BY <1>2, <1>16, <2>2, <2>3, SenderTimer
    <2> QED
      BY <1>1, <1>4, <2>1, <2>2, <2>4
  <1>8. CASE Timer2(s)
    <2> DEFINE q == Paccodsup([x EXCEPT !.timer2 = FALSE], "response")
    <2>1. Turned(s, q, air)
      BY <1>1, <1>8, StationSteps
    <2>2. q = Paccodsup([x EXCEPT !.timer2 = FALSE], "response")
      OBVIOUS
    <2>3. Emptied(q, z) /\ Behind(c, a, ToSet(q.out))
      BY <1>4, <2>1
    <2> HIDE DEF z, c, x, y, a, b, q
    <2>4. Link(z, y, c, b) /\ z.sub = x.sub /\ z.acked = x.acked
      BY <1>2, <1>16, <2>2, <2>3, SenderAnswer
    <2> QED
      BY <1>1, <1>4, <2>1, <2>2, <2>4
  <1>9. CASE Timer3(s)
    <2>1. Turned(s, T1tout(x), air)
      BY <1>1, <1>9, StationSteps
    <2>2. Level(x, x)
      BY <1>1, FlagsLevel
    <2>3. Emptied(T1tout(x), z) /\ Behind(c, a, ToSet(T1tout(x).out))
      BY <1>4, <2>1
    <2> HIDE DEF z, c, x, y, a, b
    <2>4. Link(z, y, c, b) /\ z.sub = x.sub /\ z.acked = x.acked
      BY <1>2, <1>16, <2>2, <2>3, SenderTimer
    <2> QED
      BY <1>1, <1>4, <2>1, <2>2, <2>4
  <1>10. CASE Qtimer(s)
    <2>1. Turned(s, Disconnect(x, 1), air)
      BY <1>1, <1>10, StationSteps
    <2>0. Hush(x, Disconnect(x, 1))
      BY <1>1, DisconnectHush
    <2>2. Emptied(Disconnect(x, 1), z) /\ Behind(c, a, ToSet(Disconnect(x, 1).out))
      BY <1>4, <2>1
    <2> HIDE DEF z, c, x, y, a, b
    <2>3. Link(z, y, c, b) /\ z.sub = x.sub /\ z.acked = x.acked
      BY <1>2, <1>16, <2>0, <2>2, SenderHush
    <2> QED
      BY <1>1, <1>4, <2>1, <2>3
  <1>11. CASE ConnectTo(s)
    <2>1. x.sess = 1
      BY <1>2 DEF Link, Shapes
    <2> QED
      BY <1>11, <2>1 DEF ConnectTo, OneSession
  <1>12. CASE \E mode \in Modes : DisconnectFrom(s, mode)
    <2>1. PICK mode \in Modes : DisconnectFrom(s, mode)
      BY <1>12
    <2>2. Turned(s, Disconnect(x, mode), air) /\ Hush(x, Disconnect(x, mode))
      BY <1>1, <2>1, StationSteps, DisconnectHush
    <2>3. Emptied(Disconnect(x, mode), z) /\ Behind(c, a, ToSet(Disconnect(x, mode).out))
      BY <1>4, <2>1, <2>2
    <2> HIDE DEF z, c, x, y, a, b
    <2>4. Link(z, y, c, b) /\ z.sub = x.sub /\ z.acked = x.acked
      BY <1>2, <1>16, <2>2, <2>3, SenderHush
    <2> QED
      BY <1>1, <1>4, <2>2, <2>4
  <1>13. CASE SubmitData(s)
    <2>1. Up(x) /\ Turned(s, Submit(x), air)
      BY <1>1, <1>13, StationSteps
    <2>2. Emptied(Submit(x), z) /\ Behind(c, a, ToSet(Submit(x).out)) /\ port'[t] = y /\ air'[t] = b
      BY <1>1, <2>1 DEF Turned
    <2>3. Link(z, y, c, b) /\ z.sub = x.sub + 1 /\ z.acked = x.acked
      <3> HIDE DEF z, c, x, y, a, b
      <3> QED
        BY <1>2, <1>16, <2>1, <2>2, SubmitStep
    <2> QED
      BY <2>2, <2>3
  <1>14. CASE Read(s)
    <2>1. Turned(s, Chrin(x), air)
      BY <1>1, <1>14, StationSteps
    <2>2. Emptied(Chrin(x), z) /\ Behind(c, a, ToSet(Chrin(x).out))
      BY <1>4, <2>1
    <2> HIDE DEF z, c, x, y, a, b
    <2>3. Link(z, y, c, b) /\ z.sub = x.sub /\ z.acked = x.acked
      BY <1>2, <1>16, <2>2, SenderReads
    <2> QED
      BY <1>1, <1>4, <2>1, <2>3
  <1>15. ~Restart(s)
    BY DEF Restart, OneSession
  <1> QED
    BY <1>17, <1>5, <1>6, <1>7, <1>8, <1>9, <1>10, <1>11, <1>12, <1>13, <1>14, <1>15 DEF Acts

LEMMA ReceiverSteps ==
    ASSUME OneSession, L2LinkInv, StreamLinked, NothingDropped', Acts(Peer(Sender))
    PROVE  StreamLinked' /\ Goes
  <1> DEFINE s == Sender
             t == Peer(s)
             x == port[s]
             y == port[t]
             a == air[s]
             b == air[t]
             z == port'[t]
             c == air'[t]
  <1>1. /\ s \in Stations /\ t \in Stations /\ t # s /\ Peer(t) = s /\ y.out = <<>> /\ y \in Port
        /\ x.acked \in Nat /\ Len(y.got) \in Nat /\ air \in [Stations -> Seq(GoodFrames)]
    BY StationsAre DEF OneSession
  <1>2. Link(x, y, a, b)
    BY DEF StreamLinked
  <1>3. SUFFICES /\ Link(port'[s], z, air'[s], c) /\ port'[s] = x /\ Len(y.got) <= Len(z.got)
    BY DEF StreamLinked, Goes
  <1>17. Acts(t)
    OBVIOUS
  <1> HIDE DEF s, t
  <1>4. \A q : Turned(t, q, air) =>
            Emptied(q, z) /\ Behind(c, b, ToSet(q.out)) /\ port'[s] = x /\ air'[s] = a
    BY <1>1 DEF Turned
  <1>16. y.out = <<>>
    BY <1>1
  <1>5. CASE Receive(t)
    <2> DEFINE q == Pacdec(y, Head(a))
               heard == [air EXCEPT ![s] = Tail(a)]
    <2>1. a # <<>> /\ Turned(t, q, heard)
      BY <1>1, <1>5, StationSteps
    <2>2. heard[s] = Tail(a) /\ heard[t] = b
      BY <1>1
    <2>3. Emptied(q, z) /\ Behind(c, b, ToSet(q.out)) /\ port'[s] = x /\ air'[s] = Tail(a)
      BY <1>1, <2>1, <2>2 DEF Turned
    <2>4. ~z.overrun /\ QuitsApart
      BY <1>1 DEF NothingDropped, OneSession
    <2>5. Link(x, z, Tail(a), c) /\ Len(y.got) <= Len(z.got)
      <3> HIDE DEF z, c, x, y, a, b
      <3> QED
        BY <1>2, <1>16, <2>1, <2>3, <2>4, ReceiverReceives
    <2> QED
      BY <2>3, <2>5
  <1>6. CASE Lose(t)
    <2>1. b # <<>> /\ port' = port /\ c = Tail(b) /\ air'[s] = a
      BY <1>1, <1>6 DEF Lose
    <2>2. Link(x, y, a, Tail(b))
      <3> HIDE DEF x, y, a, b
      <3> QED
        BY <1>2, <2>1, LoseAnswer
    <2> QED
      BY <1>1, <2>1, <2>2
  <1>7. CASE Timer1(t)
    <2> DEFINE p == [y EXCEPT !.timer1 = FALSE]
    <2>1. Turned(t, T1tout(p), air)
      BY <1>1, <1>7, StationSteps
    <2>2. Level(y, p)
      BY <1>1, FlagsLevel
    <2>3. Emptied(T1tout(p), z) /\ Behind(c, b, ToSet(T1tout(p).out))
      BY <1>4, <2>1
    <2> HIDE DEF z, c, x, y, a, b, p
    <2>4. Link(x, z, a, c) /\ z.got = y.got
      BY <1>2, <1>16, <2>2, <2>3, ReceiverTimer
    <2> QED
      BY <1>1, <1>4, <2>1, <2>2, <2>4
  <1>8. CASE Timer2(t)
    <2> DEFINE q == Paccodsup([y EXCEPT !.timer2 = FALSE], "response")
    <2>1. y.timer2 /\ Turned(t, q, air)
      BY <1>1, <1>8, StationSteps
    <2>2. SupAnswer(q, y) /\ y.timer2
      BY <2>1 DEF SupAnswer
    <2>3. Emptied(q, z) /\ Behind(c, b, ToSet(q.out))
      BY <1>4, <2>1
    <2> HIDE DEF z, c, x, y, a, b, q
    <2>4. Link(x, z, a, c) /\ z.got = y.got
      BY <1>2, <1>16, <2>2, <2>3, ReceiverAnswer
    <2> QED
      BY <1>1, <1>4, <2>1, <2>2, <2>4
  <1>9. CASE Timer3(t)
    <2>1. Turned(t, T1tout(y), air)
      BY <1>1, <1>9, StationSteps
    <2>2. Level(y, y)
      BY <1>1, FlagsLevel
    <2>3. Emptied(T1tout(y), z) /\ Behind(c, b, ToSet(T1tout(y).out))
      BY <1>4, <2>1
    <2> HIDE DEF z, c, x, y, a, b
    <2>4. Link(x, z, a, c) /\ z.got = y.got
      BY <1>2, <1>16, <2>2, <2>3, ReceiverTimer
    <2> QED
      BY <1>1, <1>4, <2>1, <2>2, <2>4
  <1>10. CASE Qtimer(t)
    <2>1. Turned(t, Disconnect(y, 1), air)
      BY <1>1, <1>10, StationSteps
    <2>0. Hush(y, Disconnect(y, 1))
      BY <1>1, DisconnectHush
    <2>2. Emptied(Disconnect(y, 1), z) /\ Behind(c, b, ToSet(Disconnect(y, 1).out))
      BY <1>4, <2>1
    <2> HIDE DEF z, c, x, y, a, b
    <2>3. Link(x, z, a, c) /\ z.got = y.got
      BY <1>2, <1>16, <2>0, <2>2, ReceiverHush
    <2> QED
      BY <1>1, <1>4, <2>1, <2>3
  <1>11. ~ConnectTo(t)
    BY <1>1 DEF ConnectTo, OneSession, s, t
  <1>12. CASE \E mode \in Modes : DisconnectFrom(t, mode)
    <2>1. PICK mode \in Modes : DisconnectFrom(t, mode)
      BY <1>12
    <2>2. Turned(t, Disconnect(y, mode), air) /\ Hush(y, Disconnect(y, mode))
      BY <1>1, <2>1, StationSteps, DisconnectHush
    <2>3. Emptied(Disconnect(y, mode), z) /\ Behind(c, b, ToSet(Disconnect(y, mode).out))
      BY <1>4, <2>1, <2>2
    <2> HIDE DEF z, c, x, y, a, b
    <2>4. Link(x, z, a, c) /\ z.got = y.got
      BY <1>2, <1>16, <2>2, <2>3, ReceiverHush
    <2> QED
      BY <1>1, <1>4, <2>2, <2>4
  <1>13. CASE SubmitData(t)
    <2>1. Up(y) /\ Turned(t, Submit(y), air)
      BY <1>1, <1>13, StationSteps
    <2>2. Emptied(Submit(y), z) /\ Behind(c, b, ToSet(Submit(y).out))
      BY <1>4, <2>1
    <2> HIDE DEF z, c, x, y, a, b
    <2>3. Link(x, z, a, c) /\ z.got = y.got
      BY <1>2, <1>16, <2>1, <2>2, ReceiverSubmits
    <2> QED
      BY <1>1, <1>4, <2>1, <2>3
  <1>14. CASE Read(t)
    <2>1. Turned(t, Chrin(y), air)
      BY <1>1, <1>14, StationSteps
    <2>2. Emptied(Chrin(y), z) /\ Behind(c, b, ToSet(Chrin(y).out))
      BY <1>4, <2>1
    <2> HIDE DEF z, c, x, y, a, b
    <2>3. Link(x, z, a, c) /\ z.got = y.got
      BY <1>2, <1>16, <2>2, ReceiverReads
    <2> QED
      BY <1>1, <1>4, <2>1, <2>3
  <1>15. ~Restart(t)
    BY DEF Restart, OneSession
  <1> QED
    BY <1>17, <1>5, <1>6, <1>7, <1>8, <1>9, <1>10, <1>11, <1>12, <1>13, <1>14, <1>15 DEF Acts

-----------------------------------------------------------------------------
(* The link implements ReliableStream.                                     *)

\* what the receiver has got is the beginning of the data
Mapped(x, y) ==
    /\ x \in Port /\ y \in Port
    /\ \A i \in 1 .. Len(y.got) : y.got[i] = <<1, i>>
    /\ Len(y.got) <= x.sub /\ x.acked <= Len(y.got)

Upto(n) == [i \in 1 .. n |-> i]

LEMMA LinkMapped ==
    ASSUME NEW x, NEW y, NEW a, NEW b, Link(x, y, a, b)
    PROVE  Mapped(x, y)
  BY DEF Link, Shapes, Arrived, Ahead, Mapped

LEMMA DeliveredIs ==
    ASSUME NEW x, NEW y, Mapped(x, y)
    PROVE  [i \in DOMAIN y.got |-> y.got[i][2]] = Upto(Len(y.got))
  <1>1. y.got \in Seq(Pieces) /\ \A i \in 1 .. Len(y.got) : y.got[i] = <<1, i>>
    BY PortTypes DEF Mapped
  <1>2. DOMAIN y.got = 1 .. Len(y.got)
    BY <1>1
  <1>3. \A i \in 1 .. Len(y.got) : y.got[i][2] = i
    BY <1>1
  <1> QED
    BY <1>2, <1>3 DEF Upto

LEMMA UptoIs ==
    ASSUME NEW n \in Nat, NEW k \in Nat, n <= k
    PROVE  /\ Len(Upto(n)) = n
           /\ Upto(k) = Upto(n) \o [i \in 1 .. k - n |-> n + i]
  <1> DEFINE u == Upto(n)
             v == [i \in 1 .. k - n |-> n + i]
             w == u \o v
             t == Upto(k)
  <1>1. /\ u \in Seq(Nat) /\ Len(u) = n /\ \A i \in 1 .. n : u[i] = i
        /\ t \in Seq(Nat) /\ Len(t) = k /\ \A i \in 1 .. k : t[i] = i
    BY DEF Upto
  <1>2. v \in Seq(Nat) /\ Len(v) = k - n /\ \A i \in 1 .. k - n : v[i] = n + i
    OBVIOUS
  <1> HIDE DEF u, v, t
  <1>3. w \in Seq(Nat) /\ Len(w) = k /\ \A i \in 1 .. k : w[i] = IF i <= n THEN u[i] ELSE v[i - n]
    BY <1>1, <1>2
  <1> HIDE DEF w
  <1>4. \A i \in 1 .. k : w[i] = t[i]
    <2> TAKE i \in 1 .. k
    <2>1. CASE i <= n
      BY <1>1, <1>3, <2>1
    <2>2. CASE i > n
      <3>1. i - n \in 1 .. k - n /\ n + (i - n) = i
        BY <2>2
      <3>2. w[i] = v[i - n] /\ v[i - n] = n + (i - n) /\ t[i] = i
        BY <1>1, <1>2, <1>3, <2>2, <3>1
      <3> QED
        BY <3>1, <3>2
    <2> QED
      BY <2>1, <2>2
  <1>5. w = t
    BY <1>1, <1>3, <1>4
  <1> QED
    BY <1>1, <1>5 DEF u, v, w, t

LEMMA GoesMapped ==
    ASSUME Mapped(port[Sender], port[Peer(Sender)]), Mapped(port'[Sender], port'[Peer(Sender)]), Goes
    PROVE  [Direction!Next]_(Direction!svars)
  <1> DEFINE x == port[Sender]
             y == port[Peer(Sender)]
             n == Len(y.got)
             d == [i \in DOMAIN y.got |-> y.got[i][2]]
  <1>1. /\ x.sub \in Nat /\ x.acked \in Nat /\ n \in Nat /\ x'.sub \in Nat /\ x'.acked \in Nat /\ n' \in Nat
    BY PortTypes DEF Mapped
  <1>2. d = Upto(n) /\ d' = Upto(n') /\ Len(Upto(n)) = n
    <2>1. [i \in DOMAIN port'[Peer(Sender)].got |-> port'[Peer(Sender)].got[i][2]]
            = Upto(Len(port'[Peer(Sender)].got))
      BY DeliveredIs
    <2>2. d = Upto(n)
      BY DeliveredIs
    <2>3. Len(Upto(n)) = n
      <3> HIDE DEF n
      <3> QED
        BY <1>1, UptoIs
    <2> QED
      BY <2>1, <2>2, <2>3
  <1>3. CASE x'.sub = x.sub + 1 /\ x'.acked = x.acked /\ y'.got = y.got
    <2>1. Direction!Submit
      BY <1>3 DEF Direction!Submit
    <2> QED
      BY <2>1 DEF Direction!Next
  <1>4. CASE x'.sub = x.sub /\ x.acked <= x'.acked /\ y'.got = y.got
    <2>1. x'.acked <= n
      BY <1>4 DEF Mapped
    <2>2. CASE x'.acked = x.acked
      BY <1>4, <2>2 DEF Direction!svars
    <2>3. CASE x'.acked # x.acked
      <3>1. x'.acked \in x.acked + 1 .. Len(d)
        <4> HIDE DEF x, d, n
        <4> QED
          BY <1>1, <1>2, <1>4, <2>1, <2>3
      <3>2. Direction!Release
        BY <1>4, <3>1 DEF Direction!Release
      <3> QED
        BY <3>2 DEF Direction!Next
    <2> QED
      BY <2>2, <2>3
  <1>5. CASE x'.sub = x.sub /\ x'.acked = x.acked /\ n <= n'
    <2>1. n' <= x.sub
      BY <1>5 DEF Mapped
    <2>2. CASE n' = n
      BY <1>2, <1>5, <2>2 DEF Direction!svars
    <2>3. CASE n' # n
      <3>1. d' = d \o [i \in 1 .. n' - Len(d) |-> Len(d) + i]
        <4> HIDE DEF n, d
        <4> QED
          BY <1>1, <1>2, <1>5, UptoIs
      <3>2. n' \in Len(d) + 1 .. x.sub
        <4> HIDE DEF n, d, x
        <4> QED
          BY <1>1, <1>2, <1>5, <2>1, <2>3
      <3>3. Direction!Deliver
        BY <1>5, <3>1, <3>2 DEF Direction!Deliver
      <3> QED
        BY <3>3 DEF Direction!Next
    <2> QED
      BY <2>2, <2>3
  <1> QED
    BY <1>3, <1>4, <1>5 DEF Goes

\* The inductive invariant of the stream, beside that of the types.
StreamIInv == Init \/ StreamLinked

LEMMA InitMapped ==
    ASSUME Callers = {Sender}, Init
    PROVE  Mapped(port[Sender], port[Peer(Sender)]) /\ Direction!Init
  <1> DEFINE i == Idle
  <1>1. i \in Port /\ i.got = <<>> /\ i.sub = 0 /\ i.acked = 0
    BY IdlePort DEF Idle
  <1>2. Sender \in Stations /\ Peer(Sender) \in Stations
    <2>1. Sender \in Stations
      BY LinkAssumption
    <2> DEFINE s == Sender
    <2> HIDE DEF s
    <2>2. s \in Stations => Peer(s) \in Stations
      BY PeerIs
    <2> QED
      BY <2>1, <2>2 DEF s
  <1>3. port[Sender] = i /\ port[Peer(Sender)] = i
    BY <1>2 DEF Init
  <1> HIDE DEF i
  <1>4. Mapped(port[Sender], port[Peer(Sender)])
    BY <1>1, <1>3 DEF Mapped
  <1>5. [k \in DOMAIN port[Peer(Sender)].got |-> port[Peer(Sender)].got[k][2]] = <<>>
    BY <1>1, <1>3
  <1> QED
    BY <1>1, <1>3, <1>4, <1>5 DEF Direction!Init

LEMMA StreamSteps ==
    ASSUME OneSession, L2LinkInv, L2LinkInv', StreamIInv, NothingDropped', [Next]_vars
    PROVE  StreamIInv' /\ [Direction!Next]_(Direction!svars)
  <1>1. CASE UNCHANGED vars
    <2>1. port' = port /\ air' = air
      BY <1>1 DEF vars
    <2>2. StreamIInv'
      BY <2>1 DEF StreamIInv, Init, StreamLinked
    <2> QED
      BY <2>1, <2>2 DEF Direction!svars
  <1>2. CASE Next
    <2>1. StreamLinked' /\ Goes
      <3>1. CASE Init
        BY <1>2, <3>1, FirstStep
      <3>2. CASE StreamLinked
        <4>1. \A s \in Stations : s = Sender \/ s = Peer(Sender)
          BY StationsAre DEF OneSession
        <4>2. \E s \in Stations : Acts(s)
          BY <1>2 DEF Next, Acts
        <4>3. Acts(Sender) \/ Acts(Peer(Sender))
          BY <4>1, <4>2
        <4> QED
          BY <3>2, <4>3, SenderSteps, ReceiverSteps
      <3> QED
        BY <3>1, <3>2 DEF StreamIInv
    <2>2. Mapped(port[Sender], port[Peer(Sender)])
      BY InitMapped, LinkMapped DEF StreamIInv, StreamLinked, OneSession
    <2>3. Mapped(port'[Sender], port'[Peer(Sender)])
      BY <2>1, LinkMapped DEF StreamLinked
    <2> QED
      BY <2>1, <2>2, <2>3, GoesMapped DEF StreamIInv
  <1> QED
    BY <1>1, <1>2

(* One session is a reliable stream: what the peer is given are the pieces  *)
(* that were submitted, in order, none twice and none left out, and infack  *)
(* releases only what has arrived, whatever frames are lost and whenever    *)
(* the timers run out (pacdecinf, putinfo, infack, t1tout).  The receive    *)
(* queue has not overflowed, and not two pieces after another ask for the   *)
(* end.                                                                     *)
THEOREM StreamImplemented == OneSession => (Spec /\ []NothingDropped => StreamKept)
  <1> SUFFICES ASSUME OneSession PROVE Spec /\ []NothingDropped => StreamKept
    OBVIOUS
  <1>1. Init => StreamIInv /\ Direction!Init
    BY InitMapped DEF StreamIInv, OneSession
  <1>2. L2LinkInv /\ L2LinkInv' /\ StreamIInv /\ NothingDropped' /\ [Next]_vars
            => StreamIInv' /\ [Direction!Next]_(Direction!svars)
    BY StreamSteps
  <1> QED
    BY <1>1, <1>2, L2LinkInit, L2LinkStep, PTL DEF Spec, StreamKept, Direction!Spec

(* So the receiving application has been given a beginning of what was      *)
(* submitted, in every state of such a session.                            *)
THEOREM StreamDelivered == OneSession => (Spec /\ []NothingDropped => []Direction!PrefixDelivered)
  BY StreamImplemented, StreamPrefix

-----------------------------------------------------------------------------
(* A peer that has nothing to send.                                        *)

\* a station that has got nothing: the numbers it sends are 0
Mute(p) ==
    /\ p \in Port /\ p.vr = 0 /\ Off(p) /\ Still(p)
    /\ \A f \in ToSet(p.out) : f.type \in Numbered => f.nr = 0

\* a station that has handed over nothing
Bare(p) ==
    /\ p \in Port /\ p.sub = 0 /\ (Up(p) => Window(p)) /\ Still(p)
    /\ \A f \in ToSet(p.out) : f.type # "I"

LEMMA MuteHush ==
    ASSUME NEW p, Mute(p), NEW q, Hush(p, q)
    PROVE  Mute(q)
  <1>1. q.vr = 0
    BY DEF Mute, Hush, Off, Blank, SameRx
  <1>2. \A f \in ToSet(q.out) : f.type \in Numbered => f \in ToSet(p.out)
    BY DEF Hush, PlainFrames, Plain, Numbered
  <1> QED
    BY <1>1, <1>2 DEF Mute, Hush

LEMMA MuteChat ==
    ASSUME NEW p, Mute(p), Up(p), NEW q, RxChat(p, q)
    PROVE  Mute(q) /\ Up(q)
  <1>1. Up(q) /\ q.vr = 0 /\ q \in Port
    BY DEF Mute, RxChat, SameRx, Up, Linked
  <1>2. \A f \in ToSet(q.out) : f.type \in Numbered => f \in ToSet(p.out) \/ f.nr = 0
    BY DEF RxChat, Hears, Mute
  <1> QED
    BY <1>1, <1>2 DEF Mute, Off, Still

LEMMA MuteTryinfo ==
    ASSUME NEW p, Mute(p)
    PROVE  Mute(Tryinfo(p))
  <1>1. CASE Up(p)
    <2>1. RxChat(p, Tryinfo(p))
      BY <1>1, TryinfoChat DEF Mute
    <2> QED
      BY <1>1, <2>1, MuteChat
  <1>2. CASE ~Up(p)
    <2> DEFINE q == Tryinfo(p)
    <2>1. /\ q \in Port /\ SameRx(p, q) /\ q.lstate = p.lstate /\ q.out = p.out
          /\ q.timer2 = p.timer2 /\ q.busy = p.busy /\ q.vs = p.vs /\ q.v1s = p.v1s
      BY <1>2, TryinfoDown DEF Mute
    <2> HIDE DEF q
    <2>2. Mute(q)
      BY <1>2, <2>1 DEF Mute, Off, Still, Blank, Up, SameRx
    <2> QED
      BY <2>2 DEF q
  <1> QED
    BY <1>1, <1>2

LEMMA MuteTimer ==
    ASSUME NEW x, Mute(x), NEW p, Level(x, p)
    PROVE  Mute(T1tout(p))
  <1>1. Mute(p)
    BY LevelHush, MuteHush
  <1> DEFINE q == T1tout(p)
  <1>2. \/ Linked(p) /\ Chat(p, q)
        \/ Hush(p, q)
        \/ /\ p.lstate = "link_setup" /\ Near(p, q)
           /\ ToSet(q.out) = ToSet(p.out) \cup {U("SABM", "poll")}
    BY <1>1, T1toutIs DEF Mute
  <1> SUFFICES Mute(q)
    OBVIOUS
  <1> HIDE DEF q
  <1>3. CASE Linked(p) /\ Chat(p, q)
    <2>1. Up(p) /\ RxChat(p, q)
      BY <1>1, <1>3, ChatIs DEF Linked, Up, Mute
    <2> QED
      BY <1>1, <2>1, MuteChat
  <1>4. CASE Hush(p, q)
    BY <1>1, <1>4, MuteHush
  <1>5. CASE /\ p.lstate = "link_setup" /\ Near(p, q)
             /\ ToSet(q.out) = ToSet(p.out) \cup {U("SABM", "poll")}
    <2>1. Up(q) /\ q.vr = 0 /\ q \in Port
      BY <1>1, <1>5 DEF Near, SameRx, Mute, Up
    <2>2. \A f \in ToSet(q.out) : f.type \in Numbered => f.nr = 0
      BY <1>1, <1>5 DEF Mute, U
    <2> QED
      BY <2>1, <2>2 DEF Mute, Off, Still
  <1> QED
    BY <1>2, <1>3, <1>4, <1>5

LEMMA MuteAnswer ==
    ASSUME NEW x, Mute(x), x.timer2
    PROVE  Mute(Paccodsup([x EXCEPT !.timer2 = FALSE], "response"))
  <1> DEFINE p == [x EXCEPT !.timer2 = FALSE]
  <1>1. x \in Port /\ Up(x)
    BY DEF Mute, Off, Blank
  <1>2. p \in Port /\ SameRx(x, p) /\ p.out = x.out /\ p.lstate = x.lstate
    BY <1>1 DEF SameRx, Port
  <1> HIDE DEF p
  <1>3. Up(p) /\ Mute(p)
    BY <1>1, <1>2 DEF Up, Mute, Off, Still, SameRx
  <1>4. RxChat(p, Paccodsup(p, "response"))
    BY <1>2, PaccodsupChat, ChatIs DEF PFs
  <1>5. Mute(Paccodsup(p, "response"))
    BY <1>3, <1>4, MuteChat
  <1> QED
    BY <1>5 DEF p

LEMMA MuteReads ==
    ASSUME NEW x, Mute(x)
    PROVE  Mute(Chrin(x))
  <1> DEFINE q == Chrin(x)
  <1>1. x \in Port /\ Chat(x, q) /\ Near(x, q) /\ (~x.busy => q.out = x.out /\ q.timer2 = x.timer2 /\ ~q.busy)
    BY ChrinChat DEF Mute
  <1> SUFFICES Mute(q)
    OBVIOUS
  <1> HIDE DEF q
  <1>2. CASE Up(x)
    BY <1>1, <1>2, ChatIs, MuteChat
  <1>3. CASE ~Up(x)
    BY <1>1, <1>3 DEF Mute, Off, Blank, Still, Near, SameRx, SameTx, Up
  <1> QED
    BY <1>2, <1>3

LEMMA MuteSubmit ==
    ASSUME NEW x, Mute(x), Up(x)
    PROVE  Mute(Submit(x))
  <1> DEFINE p == Queued(x)
  <1>1. Submit(x) = Tryinfo(p)
    BY DEF Submit, Queued
  <1>2. p \in Port /\ SameRx(x, p) /\ p.out = x.out /\ p.lstate = x.lstate
    BY QueuedIs DEF Mute
  <1> HIDE DEF p
  <1>3. Mute(p)
    BY <1>2 DEF Up, Mute, Off, Still, SameRx
  <1> QED
    BY <1>1, <1>3, MuteTryinfo

LEMMA MuteUa ==
    ASSUME NEW p, Mute(p)
    PROVE  Mute(Pacdecua(p))
  <1>1. CASE p.lstate = "link_setup"
    <2> DEFINE c == Stopt1(p)
               g == [c EXCEPT !.lstate = "info_transfer"]
               q == Linkmsg(g, "connected")
    <2>1. Pacdecua(p) = q
      BY <1>1 DEF Pacdecua
    <2>2. Level(p, c)
      BY Restt1Chat DEF Mute
    <2> HIDE DEF c
    <2>3. g \in Port /\ SameRx(c, g) /\ g.lstate = "info_transfer" /\ g.out = c.out
      BY <2>2, LstateNear, StateSets DEF Level, Near
    <2> HIDE DEF g
    <2>4. Level(g, q)
      BY <2>3, FlagsLevel DEF Messages
    <2> HIDE DEF q
    <2>5. q \in Port /\ Up(q) /\ q.vr = p.vr /\ q.out = p.out
      BY <2>2, <2>3, <2>4 DEF Level, Near, SameRx, Up
    <2>6. Mute(q)
      BY <2>5 DEF Mute, Off, Still
    <2> QED
      BY <2>1, <2>6
  <1>2. CASE p.lstate # "link_setup"
    <2>1. Pacdecua(p) = Dodisc(p) \/ Pacdecua(p) = p
      BY <1>2 DEF Pacdecua
    <2>2. Mute(Dodisc(p))
      BY DodiscHush, MuteHush DEF Mute
    <2> QED
      BY <2>1, <2>2
  <1> QED
    BY <1>1, <1>2

\* a frame that carries no data
LEMMA MutePacdec ==
    ASSUME NEW x, Mute(x), NEW f \in GoodFrames, f.type \notin {"I", "SABM"}
    PROVE  Mute(Pacdec(x, f))
  <1>0. x \in Port
    BY DEF Mute
  <1>1. CASE x.lstate = "disconnected"
    <2>1. Pacdec(x, f) = PacdecOther(x, f)
      BY <1>1 DEF Pacdec
    <2> QED
      BY <1>0, <2>1, OtherHush, MuteHush
  <1>2. CASE x.lstate # "disconnected"
    <2> DEFINE a == IF x.qtimer /\ x.txinfout = <<>> /\ x.vs = x.v1s THEN Disconnect(x, 1) ELSE x
               i == Infack(a, f.nr)
               b == CASE f.type = "SABM" -> Conack(a)
                      [] f.type = "UA" -> Pacdecua(a)
                      [] f.type = "DISC" -> Pacdecdm(Send(a, U("DM", "final")))
                      [] f.type = "DM" -> Pacdecdm(a)
                      [] f.type = "FRMR" -> Disconnect(a, 1)
                      [] f.type \in {"RR", "RNR", "REJ"} /\ a.lstate \in Transfer -> Pacdecsup(a, f)
                      [] f.type = "I" /\ a.lstate \in Transfer -> Pacdecinf(a, f)
                      [] OTHER -> a
    <2>1. Pacdec(x, f) = Tryinfo(b)
      BY <1>2 DEF Pacdec, PacdecMatch
    <2>2. Hush(x, a)
      BY <1>0, FlagsLevel, LevelHush, DisconnectHush
    <2>3. \/ f.type = "UA" /\ b = Pacdecua(a)
          \/ b \in {Pacdecdm(Send(a, U("DM", "final"))), Pacdecdm(a), Disconnect(a, 1), a}
          \/ a.lstate \in Transfer /\ f.type \in {"RR", "RNR", "REJ"} /\ b = Pacdecsup(a, f)
      OBVIOUS
    <2> HIDE DEF a, b
    <2>4. a \in Port /\ Mute(a)
      BY <2>2, MuteHush DEF Hush
    <2>5. CASE f.type = "UA" /\ b = Pacdecua(a)
      BY <2>1, <2>4, <2>5, MuteUa, MuteTryinfo
    <2>6. CASE b \in {Pacdecdm(Send(a, U("DM", "final"))), Pacdecdm(a), Disconnect(a, 1), a}
      <3>1. Hush(a, b)
        BY <2>4, <2>6, PacdecPlain
      <3> QED
        BY <2>1, <2>4, <3>1, MuteHush, MuteTryinfo
    <2>7. CASE a.lstate \in Transfer /\ f.type \in {"RR", "RNR", "REJ"} /\ b = Pacdecsup(a, f)
      <3>1. f.nr \in Numbers
        BY DEF GoodFrames, Frame
      <3>2. i \in Port /\ Linked(i) /\ Chat(i, b)
        BY <2>4, <2>7, SupRest
      <3>3. RxChat(a, i)
        BY <2>4, <2>7, <3>1, InfackChat
      <3> HIDE DEF i
      <3>4. Up(a) /\ Up(i) /\ RxChat(i, b)
        BY <2>7, <3>2, ChatIs DEF Up, Linked, Transfer
      <3>5. Mute(i)
        BY <2>4, <3>3, <3>4, MuteChat
      <3>6. Mute(b)
        BY <3>4, <3>5, MuteChat
      <3> QED
        BY <2>1, <3>6, MuteTryinfo
    <2> QED
      BY <2>3, <2>5, <2>6, <2>7
  <1> QED
    BY <1>1, <1>2

LEMMA BareSends ==
    ASSUME NEW p, Bare(p), NEW q, Sends(p, q)
    PROVE  Bare(q)
  <1>1. q \in Port /\ q.sub = 0 /\ (Up(q) => Window(q)) /\ Still(q)
    BY DEF Bare, Sends
  <1>2. ASSUME NEW f \in ToSet(q.out), f.type = "I" PROVE FALSE
    <2>1. PICK n \in Nat : Sent(q, f, n)
      BY <1>2 DEF Sends
    <2> QED
      BY <1>1, <2>1 DEF Sent
  <1> QED
    BY <1>1, <1>2 DEF Bare

LEMMA BareGrows ==
    ASSUME NEW p, Bare(p), Up(p), NEW q, Grows(p, q)
    PROVE  Bare(q)
  <1>1. q \in Port /\ q.sub = 0 /\ Window(q) /\ Phase(p, q) /\ ToSet(q.out) \subseteq ToSet(p.out) \cup Fits(q)
    BY DEF Bare, Grows
  <1>2. Up(q)
    BY <1>1 DEF Phase, Up, Linked
  <1>3. V(q) <= 0 /\ V(q) \in Nat /\ q.acked \in Nat
    BY <1>1, WindowRange
  <1>4. ASSUME NEW f \in ToSet(q.out), f.type = "I" PROVE FALSE
    <2>1. CASE f \in ToSet(p.out)
      BY <1>4, <2>1 DEF Bare
    <2>2. CASE f \in Fits(q)
      <3>1. PICK n \in Nat : Carries(q, f, n) /\ q.acked <= n /\ n < V(q)
        BY <1>4, <2>2 DEF Fits
      <3> QED
        BY <1>3, <3>1
    <2> QED
      BY <1>1, <2>1, <2>2
  <1> QED
    BY <1>1, <1>2, <1>4 DEF Bare, Still

LEMMA BareChat ==
    ASSUME NEW p, Bare(p), NEW q, Chat(p, q)
    PROVE  Bare(q)
  <1>1. CASE Up(p)
    BY <1>1, ChatIs, BareGrows DEF Bare
  <1>2. CASE ~Up(p)
    <2>1. q \in Port /\ SameTx(p, q) /\ ~Up(q) /\ ToSet(q.out) \subseteq ToSet(p.out) \cup Says(p)
      BY <1>2 DEF Chat, Phase, Up, Linked
    <2>2. \A f \in Says(p) : f.type # "I"
      BY <1>2 DEF Says, Up, Linked
    <2> QED
      BY <1>2, <2>1, <2>2 DEF Bare, SameTx, Still
  <1> QED
    BY <1>1, <1>2

LEMMA BareHush ==
    ASSUME NEW p, Bare(p), NEW q, Hush(p, q)
    PROVE  Bare(q)
  <1>1. Up(q) => Window(q)
    BY WindowSame DEF Bare, Hush
  <1>2. \A f \in ToSet(q.out) : f.type # "I"
    BY DEF Bare, Hush, PlainFrames, Plain
  <1> QED
    BY <1>1, <1>2 DEF Bare, Hush

LEMMA BareTryinfo ==
    ASSUME NEW p, Bare(p)
    PROVE  Bare(Tryinfo(p))
  <1>1. CASE Up(p)
    <2>1. Grows(p, Tryinfo(p))
      BY <1>1, TryinfoChat DEF Bare
    <2> QED
      BY <1>1, <2>1, BareGrows
  <1>2. CASE ~Up(p)
    <2> DEFINE q == Tryinfo(p)
    <2>1. /\ q \in Port /\ q.lstate = p.lstate /\ q.out = p.out /\ q.sub = p.sub
          /\ q.vs = p.vs /\ q.v1s = p.v1s
      BY <1>2, TryinfoDown DEF Bare
    <2> HIDE DEF q
    <2>2. Bare(q)
      BY <1>2, <2>1 DEF Bare, Still, Up
    <2> QED
      BY <2>2 DEF q
  <1> QED
    BY <1>1, <1>2

LEMMA BareTimer ==
    ASSUME NEW y, Bare(y), NEW p, Level(y, p)
    PROVE  Bare(T1tout(p))
  <1>1. Bare(p)
    BY LevelHush, BareHush
  <1> DEFINE q == T1tout(p)
  <1>2. \/ Linked(p) /\ Chat(p, q)
        \/ Hush(p, q)
        \/ /\ p.lstate = "link_setup" /\ Near(p, q)
           /\ ToSet(q.out) = ToSet(p.out) \cup {U("SABM", "poll")}
    BY <1>1, T1toutIs DEF Bare
  <1> SUFFICES Bare(q)
    OBVIOUS
  <1> HIDE DEF q
  <1>3. CASE Linked(p) /\ Chat(p, q)
    BY <1>1, <1>3, BareChat
  <1>4. CASE Hush(p, q)
    BY <1>1, <1>4, BareHush
  <1>5. CASE /\ p.lstate = "link_setup" /\ Near(p, q)
             /\ ToSet(q.out) = ToSet(p.out) \cup {U("SABM", "poll")}
    <2>1. Up(q) /\ q.sub = 0 /\ q \in Port /\ Window(q)
      BY <1>1, <1>5, WindowSame DEF Near, SameTx, Bare, Up
    <2>2. \A f \in ToSet(q.out) : f.type # "I"
      BY <1>1, <1>5 DEF Bare, U
    <2> QED
      BY <2>1, <2>2 DEF Bare, Still
  <1> QED
    BY <1>2, <1>3, <1>4, <1>5

LEMMA BareAnswer ==
    ASSUME NEW y, Bare(y)
    PROVE  Bare(Paccodsup([y EXCEPT !.timer2 = FALSE], "response"))
  <1> DEFINE p == [y EXCEPT !.timer2 = FALSE]
  <1>1. p \in Port /\ SameTx(y, p) /\ p.out = y.out /\ p.lstate = y.lstate
    BY DEF SameTx, Port, Bare
  <1> HIDE DEF p
  <1>2. Bare(p)
    BY <1>1, WindowSame DEF Up, Bare, Still, SameTx
  <1>3. Chat(p, Paccodsup(p, "response"))
    BY <1>1, PaccodsupChat DEF PFs
  <1>4. Bare(Paccodsup(p, "response"))
    BY <1>2, <1>3, BareChat
  <1> QED
    BY <1>4 DEF p

\* without data the window is empty
LEMMA EmptyWindow ==
    ASSUME NEW z \in Port, z.sub = 0, z.acked = 0, z.txinfout = <<>>,
           z.txinfptr = [n \in Numbers |-> NoInfo], z.v1s = 0, z.vs = 0
    PROVE  Window(z)
  <1>1. V(z) = 0 /\ MaxFrame \in Nat /\ M \in Nat /\ M >= 2
    <2>1. Len(z.txinfout) = 0 /\ V(z) = z.sub - Len(z.txinfout)
      BY DEF V
    <2> QED
      BY <2>1, Parameters
  <1>2. 0 % M = 0 /\ 0 \in Numbers
    BY <1>1 DEF Numbers
  <1>3. ASSUME NEW n \in Numbers PROVE ~(Minus(n, z.v1s) < V(z) - z.acked)
    <2>1. Minus(n, 0) \in Nat
      BY <1>2, MinusRange
    <2> QED
      BY <1>1, <2>1
  <1>4. \A n \in Numbers : z.txinfptr[n] = NoInfo
    OBVIOUS
  <1>5. \A n \in Numbers :
           z.txinfptr[n] = IF Minus(n, z.v1s) < V(z) - z.acked
                           THEN <<z.sess, z.acked + Minus(n, z.v1s) + 1>> ELSE NoInfo
    BY <1>3, <1>4
  <1>6. \A i \in 1 .. Len(z.txinfout) : FALSE
    OBVIOUS
  <1>7. z.acked <= V(z) /\ V(z) <= z.acked + MaxFrame /\ z.v1s = z.acked % M /\ z.vs = V(z) % M
    BY <1>1, <1>2
  <1> QED
    BY <1>5, <1>6, <1>7 DEF Window

LEMMA BareConack ==
    ASSUME NEW p, Bare(p)
    PROVE  Bare(Conack(p))
  <1>1. CASE Up(p)
    <2>1. Chat(p, Conack(p))
      BY <1>1, ConackUp DEF Bare
    <2> QED
      BY <2>1, BareChat
  <1>2. CASE ~Up(p)
    <2> DEFINE d == Dodisc(p)
               e == NewSession(d)
               i == [e EXCEPT !.lstate = "info_transfer"]
               l == Linkmsg(i, "connected")
               s == Send(l, U("UA", "final"))
               r == Restt1(s)
               q == [r EXCEPT !.retries = Retry]
    <2>1. Conack(p) = q
      BY <1>2 DEF Conack, Up
    <2>2. /\ d \in Port /\ d.vs = 0 /\ d.v1s = 0 /\ d.txinfout = <<>>
          /\ d.txinfptr = [n \in Numbers |-> NoInfo] /\ d.out = p.out
      BY DodiscGone DEF Gone, Bare
    <2> HIDE DEF d
    <2>3. e \in Port
      BY <2>2, NewSessionIs DEF Same
    <2>4. /\ e.vs = d.vs /\ e.v1s = d.v1s /\ e.txinfout = d.txinfout /\ e.txinfptr = d.txinfptr
          /\ e.out = d.out /\ e.sub = 0 /\ e.acked = 0
      BY <2>2 DEF Port, NewSession
    <2> HIDE DEF e
    <2>5. Window(e)
      BY <2>2, <2>3, <2>4, EmptyWindow
    <2>6. i \in Port /\ SameTx(e, i) /\ i.lstate = "info_transfer" /\ i.out = e.out
      BY <2>3, LstateNear, StateSets
    <2> HIDE DEF i
    <2>7. Up(i) /\ i.sub = 0 /\ Window(i)
      BY <2>4, <2>5, <2>6, WindowSame DEF Up, SameTx
    <2>8. Bare(i)
      BY <2>2, <2>4, <2>6, <2>7 DEF Bare, Still
    <2>9. Level(i, l)
      BY <2>6, FlagsLevel DEF Messages
    <2> HIDE DEF l
    <2>10. Bare(l) /\ l \in Port
      BY <2>8, <2>9, LevelHush, BareHush DEF Bare
    <2>11. Hush(l, s)
      BY <2>10, SendHush DEF Plain, PFs
    <2> HIDE DEF s
    <2>12. Bare(s) /\ s \in Port
      BY <2>10, <2>11, BareHush DEF Bare
    <2>13. Level(s, r)
      BY <2>12, Restt1Chat
    <2> HIDE DEF r
    <2>14. Bare(r) /\ r \in Port
      BY <2>12, <2>13, LevelHush, BareHush DEF Bare
    <2>15. Level(r, q)
      <3>1. Retry \in -1 .. Retry + 1
        BY Parameters
      <3> QED
        BY <2>14, <3>1, FlagsLevel
    <2> HIDE DEF q
    <2>16. Bare(q)
      BY <2>14, <2>15, LevelHush, BareHush
    <2> QED
      BY <2>1, <2>16
  <1> QED
    BY <1>1, <1>2

\* Nothing that is waited for is acknowledged.
LEMMA BarePacdec ==
    ASSUME NEW y, Bare(y), y.out = <<>>, NEW f \in GoodFrames, f.type \in Numbered => f.nr = 0
    PROVE  Bare(Pacdec(y, f))
  <1>0. y \in Port
    BY DEF Bare
  <1>1. CASE f.type # "SABM"
    <2>1. Up(y) /\ f.type \in Numbered => Minus(f.nr, y.v1s) <= V(y) - y.acked
      <3> SUFFICES ASSUME Up(y), f.type \in Numbered PROVE Minus(f.nr, y.v1s) <= V(y) - y.acked
        OBVIOUS
      <3>1. Window(y) /\ y.sub = 0 /\ y.acked \in Nat /\ V(y) \in Nat /\ y.acked <= V(y) /\ V(y) <= y.sub
        BY <1>0, WindowRange DEF Bare
      <3>2. y.acked = 0 /\ V(y) = 0
        BY <3>1
      <3>3. 0 % M = 0 /\ 0 \in Numbers
        BY Parameters DEF Numbers
      <3>4. y.v1s = 0 /\ f.nr = 0 /\ Minus(0, 0) = 0
        BY <3>1, <3>2, <3>3, MinusRange DEF Window
      <3> QED
        BY <3>2, <3>4
    <2>2. Up(y) => Window(y)
      BY DEF Bare
    <2>3. Sends(y, Pacdec(y, f))
      BY <1>0, <1>1, <2>1, <2>2, PacdecSends
    <2> QED
      BY <2>3, BareSends
  <1>2. CASE f.type = "SABM"
    <2>1. CASE y.lstate = "disconnected"
      <3>1. Pacdec(y, f) \in {y, Conack(y)}
        BY <1>2, <2>1 DEF Pacdec, PacdecOther
      <3> QED
        BY <3>1, BareConack
    <2>2. CASE y.lstate # "disconnected"
      <3> DEFINE a == IF y.qtimer /\ y.txinfout = <<>> /\ y.vs = y.v1s THEN Disconnect(y, 1) ELSE y
      <3>1. Pacdec(y, f) = Tryinfo(Conack(a))
        BY <1>2, <2>2 DEF Pacdec, PacdecMatch
      <3>2. Hush(y, a)
        BY <1>0, FlagsLevel, LevelHush, DisconnectHush
      <3> HIDE DEF a
      <3>3. Bare(Conack(a))
        BY <3>2, BareHush, BareConack
      <3> QED
        BY <3>1, <3>3, BareTryinfo
    <2> QED
      BY <2>1, <2>2
  <1> QED
    BY <1>1, <1>2

\* the numbers in the frames c are 0
Noughts(c) == \A k \in 1 .. Len(c) : c[k].type \in Numbered => c[k].nr = 0

\* station x sends to station y, which sends no data
Alone(x, y, a, b) == Mute(x) /\ Bare(y) /\ Noughts(a) /\ \A k \in 1 .. Len(b) : b[k].type # "I"

LEMMA MuteTurn ==
    ASSUME NEW q, Mute(q), NEW z, Emptied(q, z), NEW h, Noughts(h), NEW c, Behind(c, h, ToSet(q.out))
    PROVE  Mute(z) /\ Noughts(c)
  <1>1. z \in Port /\ z.out = <<>> /\ z.vr = 0 /\ Off(z) /\ Still(z)
    BY DEF Mute, Emptied, Near, SameTx, SameRx, Off, Blank, Still, Up
  <1>2. ToSet(z.out) = {}
    BY <1>1 DEF ToSet
  <1>3. Noughts(c)
    BY DEF Mute, Noughts, Behind
  <1> QED
    BY <1>1, <1>2, <1>3 DEF Mute

LEMMA BareTurn ==
    ASSUME NEW q, Bare(q), NEW z, Emptied(q, z), NEW h, \A k \in 1 .. Len(h) : h[k].type # "I",
           NEW c, Behind(c, h, ToSet(q.out))
    PROVE  Bare(z) /\ \A k \in 1 .. Len(c) : c[k].type # "I"
  <1>1. z \in Port /\ z.out = <<>> /\ z.sub = 0 /\ Still(z)
    BY DEF Bare, Emptied, Near, SameTx, Still, Up
  <1>2. Up(z) => Window(z)
    BY WindowSame DEF Bare, Emptied, Near, Up
  <1>3. ToSet(z.out) = {}
    BY <1>1 DEF ToSet
  <1>4. \A k \in 1 .. Len(c) : c[k].type # "I"
    BY DEF Bare, Behind
  <1> QED
    BY <1>1, <1>2, <1>3, <1>4 DEF Bare

LEMMA TailFrames ==
    ASSUME NEW h \in Seq(GoodFrames), h # <<>>
    PROVE  /\ Noughts(h) => Noughts(Tail(h)) /\ (Head(h).type \in Numbered => Head(h).nr = 0)
           /\ (\A k \in 1 .. Len(h) : h[k].type # "I") =>
                Head(h).type # "I" /\ \A k \in 1 .. Len(Tail(h)) : Tail(h)[k].type # "I"
  <1>1. /\ Head(h) = h[1] /\ 1 \in 1 .. Len(h)
        /\ \A k \in 1 .. Len(Tail(h)) : k + 1 \in 1 .. Len(h) /\ Tail(h)[k] = h[k + 1]
    BY TailIs
  <1> QED
    BY <1>1 DEF Noughts

\* what a station does, one of losing apart
LEMMA TurnsMute ==
    ASSUME OneSession, L2LinkInv, NEW s \in Stations, Acts(s), ~Lose(s), ~ConnectTo(s), Mute(port[s]),
           \A k \in 1 .. Len(air[Peer(s)]) : air[Peer(s)][k].type \notin {"I", "SABM"}
    PROVE  \E q : Mute(q) /\ \/ Turned(s, q, air)
                             \/ /\ air[Peer(s)] # <<>>
                                /\ Turned(s, q, [air EXCEPT ![Peer(s)] = Tail(@)])
  <1> DEFINE x == port[s]
             t == Peer(s)
  <1>1. t \in Stations /\ air \in [Stations -> Seq(GoodFrames)] /\ x \in Port
    BY PeerIs DEF L2LinkInv, Aired, Mute
  <1> HIDE DEF t
  <1>2. CASE Receive(s)
    <2> DEFINE q == Pacdec(x, Head(air[t]))
               heard == [air EXCEPT ![t] = Tail(@)]
    <2>1. air[t] # <<>> /\ Turned(s, q, heard)
      BY <1>2, StationSteps DEF t
    <2>2. Head(air[t]) \in GoodFrames /\ Head(air[t]) = air[t][1] /\ 1 \in 1 .. Len(air[t])
      <3>1. air[t] \in Seq(GoodFrames)
        BY <1>1
      <3> DEFINE h == air[t]
      <3> HIDE DEF h
      <3>2. h \in Seq(GoodFrames) /\ h # <<>> => Head(h) \in GoodFrames /\ Head(h) = h[1] /\ 1 \in 1 .. Len(h)
        BY TailIs
      <3> QED
        BY <2>1, <3>1, <3>2 DEF h
    <2>3. Mute(q)
      BY <2>2, MutePacdec DEF t
    <2> HIDE DEF q
    <2> QED
      BY <2>1, <2>3 DEF t
  <1>3. CASE Timer1(s)
    <2> DEFINE p == [x EXCEPT !.timer1 = FALSE]
    <2>1. Turned(s, T1tout(p), air)
      BY <1>3, StationSteps
    <2>2. Level(x, p)
      BY <1>1, FlagsLevel
    <2> HIDE DEF p
    <2>3. Mute(T1tout(p))
      BY <2>2, MuteTimer
    <2> QED
      BY <2>1, <2>3
  <1>4. CASE Timer2(s)
    <2>1. x.timer2 /\ Turned(s, Paccodsup([x EXCEPT !.timer2 = FALSE], "response"), air)
      BY <1>4, StationSteps
    <2> QED
      BY <2>1, MuteAnswer
  <1>5. CASE Timer3(s)
    <2>1. Turned(s, T1tout(x), air)
      BY <1>5, StationSteps
    <2>2. Level(x, x)
      BY <1>1, FlagsLevel
    <2> QED
      BY <2>1, <2>2, MuteTimer
  <1>6. CASE Qtimer(s)
    <2>1. Turned(s, Disconnect(x, 1), air) /\ Hush(x, Disconnect(x, 1))
      BY <1>1, <1>6, StationSteps, DisconnectHush
    <2> QED
      BY <2>1, MuteHush
  <1>7. CASE \E mode \in Modes : DisconnectFrom(s, mode)
    <2>1. PICK mode \in Modes : DisconnectFrom(s, mode)
      BY <1>7
    <2>2. Turned(s, Disconnect(x, mode), air) /\ Hush(x, Disconnect(x, mode))
      BY <1>1, <2>1, StationSteps, DisconnectHush
    <2> QED
      BY <2>2, MuteHush
  <1>8. CASE SubmitData(s)
    <2>1. Up(x) /\ Turned(s, Submit(x), air)
      BY <1>8, StationSteps
    <2> QED
      BY <2>1, MuteSubmit
  <1>9. CASE Read(s)
    <2>1. Turned(s, Chrin(x), air)
      BY <1>9, StationSteps
    <2> QED
      BY <2>1, MuteReads
  <1>10. ~Restart(s)
    BY DEF Restart, OneSession
  <1> QED
    BY <1>2, <1>3, <1>4, <1>5, <1>6, <1>7, <1>8, <1>9, <1>10 DEF Acts

LEMMA TurnsBare ==
    ASSUME OneSession, L2LinkInv, NEW s \in Stations, Acts(s), ~Lose(s), ~ConnectTo(s), Bare(port[s]),
           MaxData[s] = 0, port[s].out = <<>>, Noughts(air[Peer(s)])
    PROVE  \E q : Bare(q) /\ \/ Turned(s, q, air)
                             \/ /\ air[Peer(s)] # <<>>
                                /\ Turned(s, q, [air EXCEPT ![Peer(s)] = Tail(@)])
  <1> DEFINE y == port[s]
             t == Peer(s)
  <1>1. t \in Stations /\ air \in [Stations -> Seq(GoodFrames)] /\ y \in Port /\ y.out = <<>>
    BY PeerIs DEF L2LinkInv, Aired, Bare
  <1> HIDE DEF t
  <1>2. CASE Receive(s)
    <2> DEFINE q == Pacdec(y, Head(air[t]))
               heard == [air EXCEPT ![t] = Tail(@)]
    <2>1. air[t] # <<>> /\ Turned(s, q, heard)
      BY <1>2, StationSteps DEF t
    <2>2. /\ Head(air[t]) \in GoodFrames
          /\ Head(air[t]).type \in Numbered => Head(air[t]).nr = 0
      <3>1. air[t] \in Seq(GoodFrames) /\ Noughts(air[t])
        BY <1>1 DEF t
      <3> DEFINE h == air[t]
      <3> HIDE DEF h
      <3>2. h \in Seq(GoodFrames) /\ h # <<>> /\ Noughts(h) =>
              Head(h) \in GoodFrames /\ (Head(h).type \in Numbered => Head(h).nr = 0)
        BY TailIs, TailFrames
      <3> QED
        BY <2>1, <3>1, <3>2 DEF h
    <2>3. Bare(q)
      BY <1>1, <2>2, BarePacdec
    <2> HIDE DEF q
    <2> QED
      BY <2>1, <2>3 DEF t
  <1>3. CASE Timer1(s)
    <2> DEFINE p == [y EXCEPT !.timer1 = FALSE]
    <2>1. Turned(s, T1tout(p), air)
      BY <1>3, StationSteps
    <2>2. Level(y, p)
      BY <1>1, FlagsLevel
    <2> HIDE DEF p
    <2>3. Bare(T1tout(p))
      BY <2>2, BareTimer
    <2> QED
      BY <2>1, <2>3
  <1>4. CASE Timer2(s)
    <2>1. Turned(s, Paccodsup([y EXCEPT !.timer2 = FALSE], "response"), air)
      BY <1>4, StationSteps
    <2> QED
      BY <2>1, BareAnswer
  <1>5. CASE Timer3(s)
    <2>1. Turned(s, T1tout(y), air)
      BY <1>5, StationSteps
    <2>2. Level(y, y)
      BY <1>1, FlagsLevel
    <2> QED
      BY <2>1, <2>2, BareTimer
  <1>6. CASE Qtimer(s)
    <2>1. Turned(s, Disconnect(y, 1), air) /\ Hush(y, Disconnect(y, 1))
      BY <1>1, <1>6, StationSteps, DisconnectHush
    <2> QED
      BY <2>1, BareHush
  <1>7. CASE \E mode \in Modes : DisconnectFrom(s, mode)
    <2>1. PICK mode \in Modes : DisconnectFrom(s, mode)
      BY <1>7
    <2>2. Turned(s, Disconnect(y, mode), air) /\ Hush(y, Disconnect(y, mode))
      BY <1>1, <2>1, StationSteps, DisconnectHush
    <2> QED
      BY <2>2, BareHush
  <1>8. ~SubmitData(s)
    BY DEF SubmitData, Bare
  <1>9. CASE Read(s)
    <2>1. Turned(s, Chrin(y), air) /\ Chat(y, Chrin(y))
      BY <1>1, <1>9, StationSteps, ChrinChat
    <2> QED
      BY <2>1, BareChat
  <1>10. ~Restart(s)
    BY DEF Restart, OneSession
  <1> QED
    BY <1>2, <1>3, <1>4, <1>5, <1>6, <1>7, <1>8, <1>9, <1>10 DEF Acts

AloneNow == Alone(port[Sender], port[Peer(Sender)], air[Sender], air[Peer(Sender)])

LEMMA AloneFirst ==
    ASSUME OneSession, L2LinkInv, Init
    PROVE  AloneNow /\ (Next => AloneNow')
  <1> DEFINE s == Sender
             t == Peer(s)
  <1>1. s \in Stations /\ t \in Stations
    BY StationsAre DEF OneSession
  <1>2. port[s] = Idle /\ port[t] = Idle /\ air[s] = <<>> /\ air[t] = <<>>
    BY <1>1 DEF Init
  <1>3. ToSet(<<>>) = {} /\ Noughts(<<>>) /\ \A k \in 1 .. Len(<<>>) : FALSE
    BY DEF ToSet, Noughts
  <1>4. Mute(Idle) /\ Bare(Idle)
    <2> DEFINE i == Idle
    <2>1. /\ i \in Port /\ i.lstate = "disconnected" /\ Blank(i) /\ i.vs = i.v1s /\ i.sub = 0
          /\ i.out = <<>>
      BY IdlePort DEF Idle, Blank
    <2> HIDE DEF i
    <2>2. Mute(i) /\ Bare(i)
      BY <1>3, <2>1 DEF Mute, Bare, Off, Blank, Still, Up
    <2> QED
      BY <2>2 DEF i
  <1>5. AloneNow
    BY <1>2, <1>3, <1>4 DEF AloneNow, Alone
  <1>6. ASSUME Next PROVE AloneNow'
    <2>1. port'[t] = Idle /\ air'[t] = <<>>
      BY <1>6, FirstCall
    <2>2. PICK q : Linking(q) /\ Emptied(q, port'[s]) /\ Behind(air'[s], <<>>, ToSet(q.out))
      BY <1>6, FirstCall
    <2>3. Mute(q)
      BY <2>2 DEF Linking, Mute, Off, Still, Up, U, Numbered
    <2>4. Mute(port'[s]) /\ Noughts(air'[s])
      BY <1>3, <2>2, <2>3, MuteTurn
    <2> QED
      BY <1>3, <1>4, <2>1, <2>4 DEF AloneNow, Alone
  <1> QED
    BY <1>5, <1>6

LEMMA AloneSender ==
    ASSUME OneSession, L2LinkInv, StreamLinked, AloneNow, Acts(Sender)
    PROVE  AloneNow'
  <1> DEFINE s == Sender
             t == Peer(s)
             x == port[s]
             y == port[t]
             a == air[s]
             b == air[t]
  <1>1. /\ s \in Stations /\ t \in Stations /\ t # s /\ air \in [Stations -> Seq(GoodFrames)]
        /\ a \in Seq(GoodFrames) /\ b \in Seq(GoodFrames)
    BY StationsAre DEF OneSession
  <1>2. Mute(x) /\ Bare(y) /\ Noughts(a) /\ \A k \in 1 .. Len(b) : b[k].type # "I"
    BY DEF AloneNow, Alone
  <1>3. x.sess = 1 /\ \A k \in 1 .. Len(b) : b[k].type # "SABM"
    BY DEF StreamLinked, Link, Shapes, Setup
  <1> SUFFICES Mute(port'[s]) /\ Bare(port'[t]) /\ Noughts(air'[s]) /\ \A k \in 1 .. Len(air'[t]) : air'[t][k].type # "I"
    BY DEF AloneNow, Alone
  <1>4. Acts(s)
    OBVIOUS
  <1> HIDE DEF s, t
  <1>5. CASE Lose(s)
    <2>1. a # <<>> /\ port' = port /\ air'[s] = Tail(a) /\ air'[t] = b
      BY <1>1, <1>5 DEF Lose
    <2>2. Noughts(Tail(a))
      <3> HIDE DEF a
      <3> QED
        BY <1>1, <1>2, <2>1, TailFrames
    <2> QED
      BY <1>2, <2>1, <2>2
  <1>6. CASE ~Lose(s)
    <2>1. ~ConnectTo(s)
      BY <1>3 DEF ConnectTo, OneSession
    <2>2. Peer(s) = t
      BY DEF t
    <2>3. \A k \in 1 .. Len(air[Peer(s)]) : air[Peer(s)][k].type \notin {"I", "SABM"}
      BY <1>2, <1>3, <2>2
    <2>4. PICK q : Mute(q) /\ \/ Turned(s, q, air)
                              \/ b # <<>> /\ Turned(s, q, [air EXCEPT ![t] = Tail(@)])
      BY <1>1, <1>2, <1>4, <1>6, <2>1, <2>2, <2>3, TurnsMute
    <2>5. /\ Emptied(q, port'[s]) /\ Behind(air'[s], a, ToSet(q.out)) /\ port'[t] = y
          /\ air'[t] = b \/ (b # <<>> /\ air'[t] = Tail(b))
      BY <1>1, <2>2, <2>4 DEF Turned
    <2>6. Mute(port'[s]) /\ Noughts(air'[s])
      BY <1>2, <2>4, <2>5, MuteTurn
    <2>7. \A k \in 1 .. Len(air'[t]) : air'[t][k].type # "I"
      <3> HIDE DEF b
      <3> QED
        BY <1>1, <1>2, <2>5, TailFrames
    <2> QED
      BY <1>2, <2>5, <2>6, <2>7
  <1> QED
    BY <1>5, <1>6

LEMMA AlonePeer ==
    ASSUME OneSession, L2LinkInv, MaxData[Peer(Sender)] = 0, AloneNow, Acts(Peer(Sender))
    PROVE  AloneNow'
  <1> DEFINE s == Sender
             t == Peer(s)
             x == port[s]
             y == port[t]
             a == air[s]
             b == air[t]
  <1>1. /\ s \in Stations /\ t \in Stations /\ t # s /\ air \in [Stations -> Seq(GoodFrames)]
        /\ a \in Seq(GoodFrames) /\ b \in Seq(GoodFrames) /\ Peer(t) = s /\ y.out = <<>>
    BY StationsAre DEF OneSession
  <1>2. Mute(x) /\ Bare(y) /\ Noughts(a) /\ \A k \in 1 .. Len(b) : b[k].type # "I"
    BY DEF AloneNow, Alone
  <1> SUFFICES Mute(port'[s]) /\ Bare(port'[t]) /\ Noughts(air'[s]) /\ \A k \in 1 .. Len(air'[t]) : air'[t][k].type # "I"
    BY DEF AloneNow, Alone
  <1>4. Acts(t) /\ MaxData[t] = 0
    OBVIOUS
  <1>7. ~ConnectTo(t)
    BY <1>1 DEF ConnectTo, OneSession, s, t
  <1> HIDE DEF s, t
  <1>5. CASE Lose(t)
    <2>1. b # <<>> /\ port' = port /\ air'[t] = Tail(b) /\ air'[s] = a
      BY <1>1, <1>5 DEF Lose
    <2>2. \A k \in 1 .. Len(Tail(b)) : Tail(b)[k].type # "I"
      <3> HIDE DEF b
      <3> QED
        BY <1>1, <1>2, <2>1, TailFrames
    <2> QED
      BY <1>2, <2>1, <2>2
  <1>6. CASE ~Lose(t)
    <2>3. Noughts(air[Peer(t)])
      BY <1>1, <1>2
    <2>4. PICK q : Bare(q) /\ \/ Turned(t, q, air)
                              \/ a # <<>> /\ Turned(t, q, [air EXCEPT ![s] = Tail(@)])
      BY <1>1, <1>2, <1>4, <1>6, <1>7, <2>3, TurnsBare
    <2>5. /\ Emptied(q, port'[t]) /\ Behind(air'[t], b, ToSet(q.out)) /\ port'[s] = x
          /\ air'[s] = a \/ (a # <<>> /\ air'[s] = Tail(a))
      BY <1>1, <2>4 DEF Turned
    <2>6. Bare(port'[t]) /\ \A k \in 1 .. Len(air'[t]) : air'[t][k].type # "I"
      BY <1>2, <2>4, <2>5, BareTurn
    <2>7. Noughts(air'[s])
      <3> HIDE DEF a
      <3> QED
        BY <1>1, <1>2, <2>5, TailFrames
    <2> QED
      BY <1>2, <2>5, <2>6, <2>7
  <1> QED
    BY <1>5, <1>6

LEMMA AloneSteps ==
    ASSUME OneSession, MaxData[Peer(Sender)] = 0, L2LinkInv, StreamIInv, AloneNow, [Next]_vars
    PROVE  AloneNow'
  <1>1. CASE UNCHANGED vars
    BY <1>1 DEF vars, AloneNow
  <1>2. CASE Next /\ Init
    BY <1>2, AloneFirst
  <1>3. CASE Next /\ StreamLinked
    <2>1. \A s \in Stations : s = Sender \/ s = Peer(Sender)
      BY StationsAre DEF OneSession
    <2>2. \E s \in Stations : Acts(s)
      BY <1>3 DEF Next, Acts
    <2>3. Acts(Sender) \/ Acts(Peer(Sender))
      BY <2>1, <2>2
    <2> QED
      BY <1>3, <2>3, AloneSender, AlonePeer
  <1> QED
    BY <1>1, <1>2, <1>3 DEF StreamIInv

\* the window of a port as WindowHeld has it
Held(p) ==
    /\ Outstanding(p) <= MaxFrame
    /\ Up(p) => {n \in Numbers : p.txinfptr[n] # NoInfo} = {n \in Numbers : Minus(n, p.v1s) < Outstanding(p)}

LEMMA WindowIsHeld ==
    ASSUME NEW p \in Port, Up(p) => Window(p), Still(p)
    PROVE  Held(p)
  <1>1. MaxFrame \in Nat /\ MaxFrame >= 1 /\ MaxFrame < M /\ M \in Nat /\ p.vs \in Numbers /\ p.v1s \in Numbers
    BY Parameters, PortTypes
  <1>2. CASE Up(p)
    <2>1. /\ Window(p) /\ p.acked \in Nat /\ V(p) \in Nat /\ p.acked <= V(p) /\ V(p) <= p.acked + MaxFrame
          /\ p.sess \in Nat
      BY <1>2, WindowRange, PortTypes
    <2>2. Outstanding(p) = V(p) - p.acked
      <3>1. V(p) < p.acked + M
        BY <1>1, <2>1
      <3>2. Minus(V(p) % M, p.acked % M) = V(p) - p.acked
        BY <2>1, <3>1, ModApart
      <3> QED
        BY <2>1, <3>2 DEF Outstanding, Window
    <2>3. ASSUME NEW n \in Numbers
          PROVE  p.txinfptr[n] # NoInfo <=> Minus(n, p.v1s) < Outstanding(p)
      <3>1. Minus(n, p.v1s) \in Nat
        BY <1>1, MinusRange
      <3>2. <<p.sess, p.acked + Minus(n, p.v1s) + 1>> # NoInfo
        BY <2>1, <3>1, Parameters DEF Pieces
      <3> QED
        BY <2>1, <2>2, <3>2 DEF Window
    <2>4. Outstanding(p) <= MaxFrame
      BY <1>1, <2>1, <2>2
    <2> QED
      BY <2>3, <2>4 DEF Held
  <1>3. CASE ~Up(p)
    <2>1. Outstanding(p) = 0
      BY <1>1, <1>3, MinusRange DEF Still, Outstanding
    <2> QED
      BY <1>1, <1>3, <2>1 DEF Held
  <1> QED
    BY <1>2, <1>3

LEMMA AloneHeld ==
    ASSUME OneSession, L2LinkInv, StreamIInv, AloneNow
    PROVE  WindowHeld
  <1> DEFINE s == Sender
             t == Peer(s)
  <1>1. /\ s \in Stations /\ t \in Stations /\ \A r \in Stations : r = s \/ r = t
        /\ port[s] \in Port /\ port[t] \in Port
    BY StationsAre DEF OneSession
  <1>2. Still(port[s]) /\ Bare(port[t])
    BY DEF AloneNow, Alone, Mute
  <1>3. Up(port[s]) => Window(port[s])
    <2>1. CASE Init
      BY <1>1, <2>1 DEF Init, Idle, Up
    <2>2. CASE StreamLinked
      BY <2>2 DEF StreamLinked, Link, Ahead
    <2> QED
      BY <2>1, <2>2 DEF StreamIInv
  <1>4. Held(port[s]) /\ Held(port[t])
    BY <1>1, <1>2, <1>3, WindowIsHeld DEF Bare
  <1>5. \A r \in Stations : Held(port[r]) /\ (Connected(r) => Up(port[r]))
    BY <1>1, <1>4, StateSets DEF Connected, Up
  <1> QED
    BY <1>5 DEF WindowHeld, Held

(* putinfo and infack keep the window of both stations: a piece is held     *)
(* exactly from the time it gets its number to the time that number is     *)
(* acknowledged, and never more than maxframe, whatever is lost and        *)
(* whenever the timers run out.  Only one station has data to send.        *)
THEOREM WindowsHeld ==
    OneSession /\ MaxData[Peer(Sender)] = 0 => (Spec /\ []NothingDropped => []WindowHeld)
  <1> SUFFICES ASSUME OneSession, MaxData[Peer(Sender)] = 0
               PROVE  Spec /\ []NothingDropped => []WindowHeld
    OBVIOUS
  <1>1. L2LinkInv /\ Init => StreamIInv /\ AloneNow
    BY AloneFirst DEF StreamIInv
  <1>2. L2LinkInv /\ L2LinkInv' /\ StreamIInv /\ AloneNow /\ NothingDropped' /\ [Next]_vars
            => StreamIInv' /\ AloneNow'
    BY StreamSteps, AloneSteps
  <1>3. L2LinkInv /\ StreamIInv /\ AloneNow => WindowHeld
    BY AloneHeld
  <1> QED
    BY <1>1, <1>2, <1>3, L2LinkInit, L2LinkStep, PTL DEF Spec

-----------------------------------------------------------------------------
(* The receive queue has room.                                             *)

\* the frames that tell the peer to go on
Grants == {"RR", "REJ"}

\* the receive queue is as before; a busy port lets nobody go on
Steady(p, q) ==
    /\ q.rxlen = p.rxlen /\ q.qtimer = p.qtimer /\ q.busy = p.busy /\ q.got = p.got
    /\ q.overrun = p.overrun /\ q.sess = p.sess /\ (Up(q) <=> Up(p))
    /\ \A f \in ToSet(q.out) : f \in ToSet(p.out) \/ (f.type \in Grants => ~p.busy)

\* and the peer is as ready to receive
Calm(p, q) == Steady(p, q) /\ q.rembusy = p.rembusy

LEMMA CalmSteps ==
    /\ \A p : Calm(p, p)
    /\ \A p, q, r : Calm(p, q) /\ Calm(q, r) => Calm(p, r)
  <1>1. \A p : Calm(p, p)
    BY DEF Calm, Steady
  <1>2. \A p, q, r : Calm(p, q) /\ Calm(q, r) => Calm(p, r)
    BY DEF Calm, Steady
  <1> QED
    BY <1>1, <1>2

\* timers, counts and the state of a link that stays up
LEMMA CalmFlags ==
    ASSUME NEW p \in Port
    PROVE  /\ \A b : Calm(p, [p EXCEPT !.timer1 = b]) /\ Calm(p, [p EXCEPT !.timer2 = b])
           /\ \A r : Calm(p, [p EXCEPT !.retries = r])
           /\ \A r, w : Calm(p, [p EXCEPT !.retries = r, !.wasrej = w])
           /\ \A n : Calm(p, [p EXCEPT !.v2s = n])
           /\ \A l : (l # "disconnected" <=> Up(p)) => Calm(p, [p EXCEPT !.lstate = l])
           /\ \A l, r : (l # "disconnected" <=> Up(p)) => Calm(p, [p EXCEPT !.lstate = l, !.retries = r])
           /\ \A l, r, b : (l # "disconnected" <=> Up(p)) =>
                 Calm(p, [p EXCEPT !.lstate = l, !.retries = r, !.timer1 = b])
  <1>1. \A b : Calm(p, [p EXCEPT !.timer1 = b]) /\ Calm(p, [p EXCEPT !.timer2 = b])
    BY DEF Calm, Steady, Up, Port
  <1>2. \A r : Calm(p, [p EXCEPT !.retries = r])
    BY DEF Calm, Steady, Up, Port
  <1>3. \A r, w : Calm(p, [p EXCEPT !.retries = r, !.wasrej = w])
    BY DEF Calm, Steady, Up, Port
  <1>4. \A n : Calm(p, [p EXCEPT !.v2s = n])
    BY DEF Calm, Steady, Up, Port
  <1>5. \A l : (l # "disconnected" <=> Up(p)) => Calm(p, [p EXCEPT !.lstate = l])
    BY DEF Calm, Steady, Up, Port
  <1>6. \A l, r : (l # "disconnected" <=> Up(p)) => Calm(p, [p EXCEPT !.lstate = l, !.retries = r])
    BY DEF Calm, Steady, Up, Port
  <1>7. \A l, r, b : (l # "disconnected" <=> Up(p)) =>
           Calm(p, [p EXCEPT !.lstate = l, !.retries = r, !.timer1 = b])
    BY DEF Calm, Steady, Up, Port
  <1> QED
    BY <1>1, <1>2, <1>3, <1>4, <1>5, <1>6, <1>7

LEMMA CalmSend ==
    ASSUME NEW p \in Port, NEW f \in GoodFrames, f.type \in Grants => ~p.busy
    PROVE  Calm(p, Send(p, f)) /\ Send(p, f) \in Port
  <1> DEFINE q == Send(p, f)
  <1>1. /\ ToSet(q.out) = ToSet(p.out) \cup {f} /\ q.busy = p.busy /\ q \in Port /\ q.lstate = p.lstate
        /\ q.got = p.got /\ q.overrun = p.overrun
    BY SendNear DEF Near, SameRx
  <1>2. q.rxlen = p.rxlen /\ q.qtimer = p.qtimer /\ q.rembusy = p.rembusy /\ q.sess = p.sess
    BY DEF Send, Port
  <1> QED
    BY <1>1, <1>2 DEF Calm, Steady, Up

LEMMA CalmPlain ==
    ASSUME NEW p \in Port, NEW type \in Plain \cup {"SABM"}, NEW pf \in PFs
    PROVE  Calm(p, Send(p, U(type, pf))) /\ Send(p, U(type, pf)) \in Port
  <1> DEFINE f == U(type, pf)
  <1>1. f \in GoodFrames /\ f.type = type
    BY FramesOf DEF Plain, PFs, U
  <1>2. f.type \notin Grants
    BY <1>1 DEF Plain, Grants
  <1> HIDE DEF f
  <1>3. Calm(p, Send(p, f)) /\ Send(p, f) \in Port
    BY <1>1, <1>2, CalmSend
  <1> QED
    BY <1>3 DEF f

LEMMA CalmSup ==
    ASSUME NEW p \in Port, NEW pf \in PFs
    PROVE  Calm(p, Paccodsup(p, pf)) /\ Paccodsup(p, pf) \in Port
  <1>1. \A type \in {"RR", "RNR", "REJ"} : S(type, pf, p.vr) \in GoodFrames /\ S(type, pf, p.vr).type = type
    <2>1. \A type \in {"RR", "RNR", "REJ"} : S(type, pf, p.vr) \in Says(p)
      BY SaysThese
    <2> QED
      BY <2>1 DEF Says, S
  <1> DEFINE type == IF p.busy THEN "RNR" ELSE IF p.lstate = "rej_sent" THEN "REJ" ELSE "RR"
             f == S(type, pf, p.vr)
  <1>2. type \in {"RR", "RNR", "REJ"} /\ (type \in Grants => ~p.busy)
    BY DEF Grants
  <1>3. Paccodsup(p, pf) = p \/ Paccodsup(p, pf) = Send(p, f)
    BY DEF Paccodsup
  <1> HIDE DEF type
  <1>4. f \in GoodFrames /\ (f.type \in Grants => ~p.busy)
    BY <1>1, <1>2
  <1> HIDE DEF f
  <1>5. Calm(p, Send(p, f)) /\ Send(p, f) \in Port
    BY <1>4, CalmSend
  <1> QED
    BY <1>3, <1>5, CalmSteps

LEMMA CalmRej ==
    ASSUME NEW p \in Port, NEW pf \in PFs, Linked(p)
    PROVE  Calm(p, Paccodrej(p, pf)) /\ Paccodrej(p, pf) \in Port
  <1>0. Paccodrej(p, pf) \in Port
    BY PaccodrejChat DEF Chat
  <1> DEFINE type == IF p.busy THEN "RNR" ELSE "REJ"
             f == S(type, "response", p.vr)
             q == Send(p, f)
  <1>1. f \in GoodFrames /\ f.type = type
    <2>1. f \in Says(p)
      BY SaysThese DEF PFs
    <2> QED
      BY <2>1 DEF Says, S
  <1>2. type \in Grants => ~p.busy
    BY DEF Grants
  <1>3. Paccodrej(p, pf) = p \/ Paccodrej(p, pf) = [q EXCEPT !.lstate = "rej_sent"]
    BY DEF Paccodrej
  <1> HIDE DEF type, f
  <1>4. Calm(p, q) /\ q \in Port
    BY <1>1, <1>2, CalmSend
  <1> HIDE DEF q
  <1>5. Up(q)
    BY <1>4 DEF Calm, Steady, Up, Linked
  <1>6. Calm(q, [q EXCEPT !.lstate = "rej_sent"])
    BY <1>4, <1>5, CalmFlags
  <1> QED
    BY <1>0, <1>3, <1>4, <1>6, CalmSteps

LEMMA CalmT1 ==
    ASSUME NEW p \in Port
    PROVE  /\ Calm(p, Restt1(p)) /\ Restt1(p) \in Port
           /\ Calm(p, Stopt1(p)) /\ Stopt1(p) \in Port
  <1>1. Restt1(p) \in Port /\ Stopt1(p) \in Port
    BY Restt1Chat DEF Chat
  <1>2. Calm(p, [p EXCEPT !.timer1 = TRUE]) /\ Calm(p, [p EXCEPT !.timer1 = FALSE]) /\ Calm(p, p)
    BY CalmFlags, CalmSteps
  <1> QED
    BY <1>1, <1>2 DEF Restt1, Stopt1

LEMMA CalmInfosend ==
    ASSUME NEW p \in Port, Linked(p), NEW pf \in PFs, NEW a \in Numbers, NEW b \in Numbers
    PROVE  Calm(p, Infosend(p, pf, a, b)) /\ Infosend(p, pf, a, b) \in Port
  <1>1. Infosend(p, pf, a, b) \in Port
    BY InfosendChat DEF Chat
  <1>2. CASE a # b
    <2> DEFINE fs == Frames(p, pf, a, b)
               t2 == IF fs = <<>> THEN p.timer2 ELSE FALSE
               q == [p EXCEPT !.out = @ \o fs, !.timer2 = t2, !.wasrej = FALSE]
    <2>1. fs \in Seq(GoodFrames) /\ \A f \in ToSet(fs) : f.type = "I"
      BY FramesSay DEF DataOf
    <2>2. Infosend(p, pf, a, b) = Restt1(q)
      BY <1>2 DEF Infosend
    <2> HIDE DEF fs
    <2>3. t2 \in BOOLEAN /\ p.out \in Seq(GoodFrames)
      BY DEF Port
    <2>4. p.out \o fs \in Seq(GoodFrames) /\ ToSet(p.out \o fs) = ToSet(p.out) \cup ToSet(fs)
      BY <2>1, <2>3, ToSetIs
    <2> HIDE DEF t2
    <2>5. /\ q \in Port /\ q.out = p.out \o fs /\ q.busy = p.busy /\ q.sess = p.sess
          /\ q.lstate = p.lstate /\ q.got = p.got /\ q.overrun = p.overrun
          /\ q.rxlen = p.rxlen /\ q.qtimer = p.qtimer /\ q.rembusy = p.rembusy
      BY <2>3, <2>4 DEF Port
    <2> HIDE DEF q
    <2>6. Calm(p, q)
      BY <2>1, <2>4, <2>5 DEF Calm, Steady, Up, Grants
    <2> QED
      BY <1>1, <2>2, <2>5, <2>6, CalmT1, CalmSteps
  <1>3. CASE a = b
    BY <1>1, <1>3, CalmSteps DEF Infosend
  <1> QED
    BY <1>2, <1>3

LEMMA CalmInf ==
    ASSUME NEW p \in Port, NEW pf \in PFs, NEW aus \in BOOLEAN
    PROVE  Calm(p, AnswerInf(p, pf, aus)) /\ AnswerInf(p, pf, aus) \in Port
  <1>1. AnswerInf(p, pf, aus) \in Port
    BY AnswerInfChat DEF Chat
  <1> DEFINE q == [p EXCEPT !.timer2 = FALSE]
             r == [p EXCEPT !.timer2 = TRUE]
  <1>2. AnswerInf(p, pf, aus) \in {Paccodsup(q, "final"), Paccodsup(p, "response"), r}
    BY DEF AnswerInf
  <1>3. Calm(p, q) /\ Calm(p, r)
    BY CalmFlags
  <1>4. q \in Port
    BY DEF Port
  <1> HIDE DEF q, r
  <1>5. Calm(q, Paccodsup(q, "final")) /\ Calm(p, Paccodsup(p, "response"))
    BY <1>4, CalmSup DEF PFs
  <1> QED
    BY <1>1, <1>2, <1>3, <1>5, CalmSteps

LEMMA CalmInfack ==
    ASSUME NEW p \in Port, NEW nr \in Numbers, Up(p)
    PROVE  Calm(p, Infack(p, nr)) /\ Infack(p, nr) \in Port
  <1> DEFINE q == Infack(p, nr)
             inf == [n \in Numbers |-> IF n \in Acked(p, nr) THEN NoInfo ELSE p.txinfptr[n]]
             l == IF \E n \in Acked(p, nr) : p.txinfptr[n] = NoInfo THEN "frame_reject" ELSE p.lstate
             a == p.acked + Cardinality({n \in Acked(p, nr) : p.txinfptr[n] # NoInfo})
             r == [p EXCEPT !.txinfptr = inf, !.lstate = l, !.v1s = nr, !.acked = a]
  <1>1. /\ q \in Port /\ q.out = p.out /\ q.lstate \in {p.lstate, "frame_reject"}
        /\ q.qtimer = p.qtimer /\ q.rxlen = p.rxlen /\ q.busy = p.busy /\ q.sess = p.sess
        /\ q.got = p.got /\ q.overrun = p.overrun
    BY InfackRx DEF SameRx
  <1>2. q = IF r.vs = nr /\ r.lstate # "wait_ack" THEN Stopt1(r) ELSE r
    BY DEF Infack
  <1> HIDE DEF inf, l, a
  <1>3. r.rembusy = p.rembusy /\ Stopt1(r).rembusy = r.rembusy
    BY DEF Stopt1, Port
  <1> HIDE DEF r
  <1>4. q.rembusy = p.rembusy
    BY <1>2, <1>3
  <1> HIDE DEF q
  <1>5. Calm(p, q)
    BY <1>1, <1>4 DEF Calm, Steady, Up
  <1> QED
    BY <1>1, <1>5 DEF q

LEMMA CalmPoll ==
    ASSUME NEW p \in Port, Linked(p)
    PROVE  Calm(p, PollWaiting(p)) /\ PollWaiting(p) \in Port
  <1>0. PollWaiting(p) \in Port
    BY PollWaitingChat DEF Chat
  <1> DEFINE r == Countdown(p.retries)
             q == [p EXCEPT !.retries = r]
             d == [q EXCEPT !.lstate = "disc_request", !.retries = 1, !.timer1 = TRUE]
             e == Send(d, U("DISC", "poll"))
             v == [q EXCEPT !.v2s = p.vs]
             i == Infosend(v, "poll", p.v1s, p.vs)
             s == Paccodsup(q, "poll")
  <1>1. /\ PollWaiting(p) \in {e, [i EXCEPT !.timer1 = TRUE], [s EXCEPT !.timer1 = TRUE]}
        /\ p.vs \in Numbers /\ p.v1s \in Numbers
    BY PortTypes DEF PollWaiting
  <1>2. r \in -1 .. Retry + 1 /\ Retry \in Nat \ {0}
    BY CountdownIs, PortAssumption DEF Port
  <1> HIDE DEF r
  <1>3. q \in Port /\ Calm(p, q) /\ Linked(q)
    <2>1. q \in Port /\ q.lstate = p.lstate
      BY <1>2 DEF Port
    <2> QED
      BY <2>1, CalmFlags DEF Linked
  <1> HIDE DEF q
  <1>4. Calm(q, e)
    <2>1. "disc_request" \in LStates /\ 1 \in -1 .. Retry + 1
      BY <1>2, StateSets
    <2>2. d \in Port
      BY <1>3, <2>1 DEF Port
    <2>3. Calm(q, d)
      BY <1>3, CalmFlags DEF Linked, Up
    <2> HIDE DEF d
    <2>4. Calm(d, e)
      BY <2>2, CalmPlain DEF Plain, PFs
    <2> QED
      BY <2>3, <2>4, CalmSteps
  <1>5. Calm(q, [i EXCEPT !.timer1 = TRUE])
    <2>1. v \in Port /\ v.lstate = q.lstate
      BY <1>1, <1>3 DEF Port
    <2>2. Calm(q, v)
      BY <1>3, CalmFlags
    <2> HIDE DEF v
    <2>3. Calm(v, i) /\ i \in Port
      BY <1>1, <1>3, <2>1, CalmInfosend DEF PFs, Linked
    <2> HIDE DEF i
    <2>4. Calm(i, [i EXCEPT !.timer1 = TRUE])
      BY <2>3, CalmFlags
    <2> QED
      BY <2>2, <2>3, <2>4, CalmSteps
  <1>6. Calm(q, [s EXCEPT !.timer1 = TRUE])
    <2>1. Calm(q, s) /\ s \in Port
      BY <1>3, CalmSup DEF PFs
    <2> HIDE DEF s
    <2>2. Calm(s, [s EXCEPT !.timer1 = TRUE])
      BY <2>1, CalmFlags
    <2> QED
      BY <2>1, <2>2, CalmSteps
  <1> HIDE DEF e, i, s
  <1> QED
    BY <1>0, <1>1, <1>3, <1>4, <1>5, <1>6, CalmSteps

\* the connection is over
Shut(p, q) ==
    /\ Up(p) /\ ~Up(q) /\ ~q.busy /\ ~q.qtimer
    /\ q.sess = p.sess /\ q.overrun = p.overrun

\* the end of a link
LEMMA LresetShut ==
    ASSUME NEW p \in Port, p.lstate = "disconnected"
    PROVE  /\ ~Up(Lreset(p)) /\ ~Lreset(p).busy /\ ~Lreset(p).qtimer
           /\ Lreset(p).sess = p.sess /\ Lreset(p).overrun = p.overrun
  <1>1. Gone(p, Lreset(p))
    BY LresetGone
  <1>2. Lreset(p).qtimer = FALSE
    BY DEF Lreset, Idle
  <1> QED
    BY <1>1, <1>2 DEF Gone, Up

LEMMA DodiscShut ==
    ASSUME NEW p \in Port, Up(p)
    PROVE  Shut(p, Dodisc(p))
  <1> DEFINE q == IF p.lstate = "link_setup" THEN Linkmsg(p, "failure")
                  ELSE IF p.lstate # "disconnected" THEN Linkmsg(p, "disconnected") ELSE p
             r == [q EXCEPT !.lstate = "disconnected"]
  <1>1. Gone(p, Dodisc(p))
    BY DodiscGone
  <1>2. Dodisc(p) = Lreset(r)
    BY DEF Dodisc
  <1> HIDE DEF r
  <1>3. Lreset(r).qtimer = FALSE
    BY DEF Lreset, Idle
  <1> QED
    BY <1>1, <1>2, <1>3 DEF Gone, Up, Shut

\* when a timer runs out: an inquiry, or the end of the link
LEMMA T1toutCalm ==
    ASSUME NEW p \in Port
    PROVE  Calm(p, T1tout(p)) \/ Shut(p, T1tout(p))
  <1> DEFINE r == Countdown(p.retries)
             q == [p EXCEPT !.retries = r]
  <1>1. r \in -1 .. Retry + 1 /\ Retry \in -1 .. Retry + 1 /\ 2 \in -1 .. Retry + 1
    <2>1. p.retries \in -1 .. Retry + 1
      BY DEF Port
    <2> QED
      BY <2>1, CountdownIs, Parameters
  <1> HIDE DEF r
  <1>2. q \in Port /\ q.lstate = p.lstate /\ q.sess = p.sess /\ q.retries = r /\ q.overrun = p.overrun
    BY <1>1 DEF Port
  <1>3. Calm(p, q) /\ (Up(q) <=> Up(p))
    BY CalmFlags DEF Calm, Steady
  <1>4. CASE p.lstate \in {"info_transfer", "rej_sent"}
    <2> DEFINE w == [p EXCEPT !.lstate = "wait_ack", !.retries = Retry]
    <2>1. T1tout(p) = PollWaiting(w)
      BY <1>4 DEF T1tout
    <2>2. "wait_ack" \in LStates
      BY StateSets
    <2>3. w \in Port /\ w.lstate = "wait_ack"
      BY <1>1, <2>2 DEF Port
    <2>4. Calm(p, w)
      BY <1>4, CalmFlags DEF Up
    <2> HIDE DEF w
    <2>5. Calm(w, PollWaiting(w))
      BY <2>3, CalmPoll DEF Linked
    <2> QED
      BY <2>1, <2>4, <2>5, CalmSteps
  <1>5. CASE p.lstate = "wait_ack"
    BY <1>5, CalmPoll DEF T1tout, Linked
  <1>6. CASE p.lstate = "frame_reject"
    <2> DEFINE s == Send(p, U("FRMR", "response"))
               t == [s EXCEPT !.lstate = "disc_request", !.retries = 2, !.timer1 = TRUE]
    <2>1. T1tout(p) = t
      BY <1>6 DEF T1tout
    <2>2. Calm(p, s) /\ s \in Port
      BY CalmPlain DEF Plain, PFs
    <2> HIDE DEF s
    <2>3. Up(s)
      BY <1>6, <2>2 DEF Calm, Steady, Up
    <2>4. Calm(s, t)
      BY <2>2, <2>3, CalmFlags
    <2> QED
      BY <2>1, <2>2, <2>4, CalmSteps
  <1>7. CASE p.lstate = "disc_request"
    <2> DEFINE s == Send(q, U("DISC", "poll"))
    <2>1. T1tout(p) = IF r # 0 THEN [s EXCEPT !.timer1 = TRUE] ELSE Dodisc(q)
      BY <1>2, <1>7 DEF T1tout, r
    <2> HIDE DEF q
    <2>2. Calm(q, s) /\ s \in Port
      BY <1>2, CalmPlain DEF Plain, PFs
    <2> HIDE DEF s
    <2>3. Calm(s, [s EXCEPT !.timer1 = TRUE])
      BY <2>2, CalmFlags
    <2>4. Shut(q, Dodisc(q))
      BY <1>2, <1>7, DodiscShut DEF Up
    <2>5. Shut(p, Dodisc(q))
      BY <1>2, <1>3, <2>4 DEF Shut
    <2> QED
      BY <1>3, <2>1, <2>2, <2>3, <2>5, CalmSteps
  <1>8. CASE p.lstate = "link_setup"
    <2> DEFINE s == Send(q, U("SABM", "poll"))
               d == Send(q, U("DISC", "poll"))
               e == [d EXCEPT !.lstate = "disconnected"]
               g == Linkmsg(e, "failure")
    <2>1. T1tout(p) = IF r # 0 THEN [s EXCEPT !.timer1 = TRUE] ELSE Lreset(g)
      BY <1>2, <1>8 DEF T1tout, r
    <2> HIDE DEF q
    <2>2. Calm(q, s) /\ s \in Port
      BY <1>2, CalmPlain DEF PFs
    <2> HIDE DEF s
    <2>3. Calm(s, [s EXCEPT !.timer1 = TRUE])
      BY <2>2, CalmFlags
    <2>4. d \in Port /\ d.sess = q.sess /\ d.overrun = q.overrun
      BY <1>2, CalmPlain DEF Plain, PFs, Calm, Steady
    <2> HIDE DEF d
    <2>5. e \in Port /\ e.lstate = "disconnected" /\ e.sess = d.sess /\ e.overrun = d.overrun
      BY <2>4, LstateNear, StateSets DEF SameTx, SameRx
    <2> HIDE DEF e
    <2>6. g \in Port /\ g.lstate = "disconnected" /\ g.sess = e.sess /\ g.overrun = e.overrun
      BY <2>5, FlagsLevel DEF Messages, Level, Near, SameTx, SameRx
    <2> HIDE DEF g
    <2>7. Shut(p, Lreset(g))
      BY <1>2, <1>8, <2>4, <2>5, <2>6, LresetShut DEF Shut, Up
    <2> QED
      BY <1>3, <2>1, <2>2, <2>3, <2>7, CalmSteps
  <1>9. CASE p.lstate = "disconnected"
    BY <1>9, CalmSteps DEF T1tout
  <1>10. p.lstate \in LStates
    BY DEF Port
  <1> QED
    BY <1>4, <1>5, <1>6, <1>7, <1>8, <1>9, <1>10, StateSets

\* what has been handed over is acknowledged
Spent(p) == p.txinfout = <<>> /\ p.vs = p.v1s

\* A disconnect of a port with nothing left to send does not quit.
LEMMA DisconnectCalm ==
    ASSUME NEW p \in Port, NEW mode
    PROVE  LET q == Disconnect(p, mode) IN
           /\ Up(q) => q.rembusy = p.rembusy
           /\ ~p.qtimer /\ (mode = 1 \/ (Up(p) /\ Spent(p))) => Calm(p, q) \/ Shut(p, q)
  <1> DEFINE q == Disconnect(p, mode)
             o == [p EXCEPT !.qtimer = FALSE]
             w == [p EXCEPT !.qtimer = TRUE]
             s == Send(p, U("DISC", "poll"))
             t == [p EXCEPT !.lstate = "disc_request", !.qtimer = FALSE, !.timer2 = FALSE,
                            !.retries = Retry \div 4]
             u == Send(t, U("DISC", "poll"))
  <1>1. \/ q = o \/ q = p
        \/ q = Dodisc(p) /\ (p.lstate = "disc_request" \/ mode = 0)
        \/ q = Dodisc(s) /\ Up(p)
        \/ q = w /\ ~Spent(p) /\ mode = 2
        \/ q = Restt1(u) /\ Up(p)
    BY DEF Disconnect, Spent, Up, Transfer
  <1> HIDE DEF q
  <1>2. o.rembusy = p.rembusy /\ w.rembusy = p.rembusy /\ (~p.qtimer => Calm(p, o))
    <2>1. p.qtimer \in BOOLEAN
      BY PortTypes DEF Port
    <2> QED
      BY <2>1 DEF Port, Calm, Steady, Up
  <1> HIDE DEF o, w
  <1>3. ~Up(Dodisc(p)) /\ (Up(p) => Shut(p, Dodisc(p)))
    BY DodiscHush, DodiscShut
  <1>4. s \in Port /\ Calm(p, s)
    BY CalmPlain DEF Plain, PFs
  <1> HIDE DEF s
  <1>5. ~Up(Dodisc(s)) /\ (Up(p) => Shut(p, Dodisc(s)))
    BY <1>4, DodiscHush, DodiscShut DEF Shut, Calm, Steady
  <1>6. Up(p) => Restt1(u).rembusy = p.rembusy /\ (~p.qtimer => Calm(p, Restt1(u)))
    <2> SUFFICES ASSUME Up(p) PROVE Restt1(u).rembusy = p.rembusy /\ (~p.qtimer => Calm(p, Restt1(u)))
      OBVIOUS
    <2>1. Retry \div 4 \in -1 .. Retry + 1 /\ "disc_request" \in LStates /\ p.qtimer \in BOOLEAN
      BY Parameters, StateSets, PortTypes DEF Port
    <2>2. t \in Port /\ t.rembusy = p.rembusy /\ (~p.qtimer => Calm(p, t))
      BY <2>1 DEF Port, Calm, Steady, Up
    <2> HIDE DEF t
    <2>3. Calm(t, u) /\ u \in Port
      BY <2>2, CalmPlain DEF Plain, PFs
    <2> HIDE DEF u
    <2>4. Calm(u, Restt1(u))
      BY <2>3, CalmT1
    <2>5. Calm(t, Restt1(u))
      BY <2>3, <2>4, CalmSteps
    <2>6. Restt1(u).rembusy = p.rembusy
      BY <2>2, <2>5 DEF Calm, Steady
    <2> QED
      BY <2>2, <2>5, <2>6, CalmSteps
  <1> HIDE DEF u
  <1>7. Up(q) => q.rembusy = p.rembusy
    BY <1>1, <1>2, <1>3, <1>5, <1>6
  <1>8. ASSUME ~p.qtimer, mode = 1 \/ (Up(p) /\ Spent(p))
        PROVE  Calm(p, q) \/ Shut(p, q)
    <2>1. Calm(p, p)
      BY CalmSteps
    <2>2. p.lstate = "disc_request" => Up(p)
      BY DEF Up
    <2> QED
      BY <1>1, <1>2, <1>3, <1>5, <1>6, <1>8, <2>1, <2>2
  <1> QED
    BY <1>7, <1>8 DEF q

\* new data enter the window, or frames are sent again
LEMMA CalmPutinfo ==
    ASSUME NEW p \in Port, NEW k \in Nat, k <= Len(p.txinfout), k < M, Linked(p) \/ k = 0
    PROVE  Calm(p, Putinfo(p, k)) /\ Putinfo(p, k) \in Port
  <1>1. CASE k = 0
    BY <1>1, CalmSteps DEF Putinfo
  <1>2. CASE k # 0
    <2> DEFINE q == Loaded(p, k)
               inf == [n \in Numbers |-> IF Minus(n, p.vs) < k
                                         THEN p.txinfout[Minus(n, p.vs) + 1] ELSE p.txinfptr[n]]
               rest == SubSeq(p.txinfout, k + 1, Len(p.txinfout))
               v == Plus(p.vs, k)
               r == [p EXCEPT !.txinfptr = inf, !.txinfout = rest, !.vs = v, !.v2s = v, !.retries = Retry]
    <2>1. Putinfo(p, k) = Infosend(q, "command", p.vs, q.vs)
      BY <1>2 DEF Putinfo, Loaded
    <2>2. /\ q \in Port /\ SameRx(p, q) /\ q.lstate = p.lstate /\ q.out = p.out /\ q.sess = p.sess
      BY LoadedIs
    <2>3. q = r
      BY DEF Loaded
    <2> HIDE DEF q, inf, rest, v
    <2>4. /\ r.rxlen = p.rxlen /\ r.qtimer = p.qtimer /\ r.busy = p.busy /\ r.rembusy = p.rembusy
      BY DEF Port
    <2> HIDE DEF r
    <2>5. Calm(p, q) /\ Linked(q)
      BY <1>2, <2>2, <2>3, <2>4 DEF Calm, Steady, Up, SameRx, Linked
    <2>6. p.vs \in Numbers /\ q.vs \in Numbers
      BY <2>2, PortTypes
    <2> DEFINE s == Infosend(q, "command", p.vs, q.vs)
    <2>7. Calm(q, s) /\ s \in Port
      BY <2>2, <2>5, <2>6, CalmInfosend DEF PFs
    <2> HIDE DEF s
    <2>8. Calm(p, s)
      BY <2>5, <2>7, CalmSteps
    <2> QED
      BY <2>1, <2>7, <2>8 DEF s
  <1> QED
    BY <1>1, <1>2

\* how many pieces tryinfo puts into the window
Puts(p) == Min({Room(p), Len(p.txinfout)})

LEMMA PutsIs ==
    ASSUME NEW p \in Port
    PROVE  /\ Puts(p) \in Nat /\ Puts(p) <= Len(p.txinfout) /\ Puts(p) < M
           /\ Linked(p) \/ Puts(p) = 0
           /\ p.rembusy => Puts(p) = 0
  <1> DEFINE d == MaxFrame - Outstanding(p)
             r == Max({0, d})
             l == Len(p.txinfout)
             room == Room(p)
  <1>1. Outstanding(p) \in Nat /\ l \in Nat /\ MaxFrame \in Nat /\ MaxFrame < M /\ M \in Nat
    BY PortTypes, MinusRange, Parameters DEF Outstanding
  <1>2. d \in Int /\ d < M
    BY <1>1
  <1>3. room = IF p.lstate \in {"info_transfer", "rej_sent"} /\ ~p.rembusy THEN r ELSE 0
    BY DEF Room
  <1> HIDE DEF d
  <1>4. r \in {0, d} /\ r >= 0
    <2>1. \E x \in {0, d} : \A y \in {0, d} : x >= y
      BY <1>2
    <2>2. r \in {0, d} /\ \A y \in {0, d} : r >= y
      BY <2>1 DEF Max
    <2> QED
      BY <2>2
  <1> HIDE DEF r
  <1>5. room \in Nat /\ room < M
    BY <1>1, <1>2, <1>3, <1>4
  <1>6. (p.rembusy \/ ~Linked(p)) => room = 0
    BY <1>3 DEF Linked
  <1> HIDE DEF room, l
  <1>7. Min({room, l}) \in {room, l} /\ Min({room, l}) <= room /\ Min({room, l}) <= l
    <2>1. room \in Int /\ l \in Int
      BY <1>1, <1>5
    <2> QED
      BY <2>1, MinOf
  <1> DEFINE k == Min({room, l})
  <1>8. k \in Nat /\ k <= l /\ k < M /\ (room = 0 => k = 0)
    <2>1. k \in {room, l} /\ k <= room /\ k <= l
      BY <1>7
    <2> HIDE DEF k
    <2> QED
      BY <1>1, <1>5, <2>1
  <1>9. Puts(p) = k
    BY DEF Puts, room, l
  <1> HIDE DEF k
  <1> QED
    BY <1>6, <1>8, <1>9 DEF l

LEMMA CalmTryinfo ==
    ASSUME NEW p \in Port
    PROVE  /\ Calm(p, Tryinfo(p)) /\ Tryinfo(p) \in Port
           /\ Up(p) /\ p.rembusy => V(Tryinfo(p)) = V(p)
  <1>1. CASE Up(p)
    <2> DEFINE q == Putinfo(p, Puts(p))
    <2>1. Tryinfo(p) = IF (q.vs # q.v1s \/ q.txinfout # <<>>) /\ ~q.timer1 /\ ~q.rembusy
                       THEN Restt1(q) ELSE q
      BY <1>1 DEF Tryinfo, Up, Puts
    <2>2. Calm(p, q) /\ q \in Port
      BY PutsIs, CalmPutinfo
    <2>3. p.rembusy => q = p
      BY PutsIs DEF Putinfo
    <2> HIDE DEF q
    <2>4. Calm(q, Restt1(q)) /\ Restt1(q) \in Port /\ SameTx(q, Restt1(q))
      BY <2>2, CalmT1, Restt1Chat DEF Level, Near
    <2>5. V(Restt1(q)) = V(q)
      BY <2>4 DEF SameTx, V
    <2> QED
      BY <2>1, <2>2, <2>3, <2>4, <2>5, CalmSteps
  <1>2. CASE ~Up(p)
    <2> DEFINE q == [p EXCEPT !.txinfout = <<>>]
    <2>1. Tryinfo(p) = IF (q.vs # q.v1s \/ q.txinfout # <<>>) /\ ~q.timer1 /\ ~q.rembusy
                       THEN Restt1(q) ELSE q
      BY <1>2 DEF Tryinfo, Up
    <2>2. <<>> \in Seq(Pieces)
      OBVIOUS
    <2>3. q \in Port /\ Calm(p, q)
      BY <2>2 DEF Port, Calm, Steady, Up
    <2> HIDE DEF q
    <2>4. Calm(q, Restt1(q)) /\ Restt1(q) \in Port
      BY <2>3, CalmT1
    <2> QED
      BY <1>2, <2>1, <2>3, <2>4, CalmSteps
  <1> QED
    BY <1>1, <1>2

LEMMA CalmKeep ==
    ASSUME NEW p \in Port, NEW f \in GoodFrames, f.type = "I"
    PROVE  Calm(p, Keep(p, f)) /\ Keep(p, f) \in Port
  <1> DEFINE sam == [p.sammler EXCEPT ![f.ns] = f.info]
             sums == [p.qsumme EXCEPT ![f.ns] = Quersumme(f.info)]
             q == [p EXCEPT !.sammler = sam, !.qsumme = sums]
  <1>1. Keep(p, f) = q \/ Keep(p, f) = p
    BY DEF Keep
  <1>2. f.info \in Pieces
    BY DEF GoodFrames
  <1>3. sam \in [Numbers -> Infos] /\ sums \in [Numbers -> Sums]
    BY <1>2, PortTypes DEF Infos, Sums
  <1> HIDE DEF sam, sums
  <1>4. q \in Port /\ Calm(p, q)
    BY <1>3 DEF Port, Calm, Steady, Up
  <1> HIDE DEF q
  <1> QED
    BY <1>1, <1>4, CalmSteps

\* a SABM for a link that is there
LEMMA CalmConack ==
    ASSUME NEW p \in Port, Up(p)
    PROVE  Calm(p, Conack(p)) /\ Conack(p) \in Port
  <1> DEFINE s == Send(p, U("UA", "final"))
             r == Restt1(s)
  <1>1. Conack(p) = [r EXCEPT !.retries = Retry]
    BY DEF Conack, Up
  <1>2. Calm(p, s) /\ s \in Port
    BY CalmPlain DEF Plain, PFs
  <1> HIDE DEF s
  <1>3. Calm(s, r) /\ r \in Port
    BY <1>2, CalmT1
  <1> HIDE DEF r
  <1>4. Calm(r, [r EXCEPT !.retries = Retry])
    BY <1>3, CalmFlags
  <1>5. Conack(p) \in Port
    BY ConackUp DEF Chat
  <1> QED
    BY <1>1, <1>2, <1>3, <1>4, <1>5, CalmSteps

\* a UA, a DISC or a DM
LEMMA UaCalm ==
    ASSUME NEW p \in Port, p.lstate # "link_setup"
    PROVE  Calm(p, Pacdecua(p)) \/ Shut(p, Pacdecua(p))
  <1>1. Pacdecua(p) = p \/ (p.lstate = "disc_request" /\ Pacdecua(p) = Dodisc(p))
    BY DEF Pacdecua
  <1> QED
    BY <1>1, CalmSteps, DodiscShut DEF Up

\* and on a port that has asked for a link: the link is there
LEMMA UaSetup ==
    ASSUME NEW p \in Port, p.lstate = "link_setup"
    PROVE  LET q == Pacdecua(p) IN
           /\ SameTx(p, q) /\ SameRx(p, q) /\ Up(q) /\ q.out = p.out /\ q.rembusy = p.rembusy
  <1> DEFINE c == Stopt1(p)
             g == [c EXCEPT !.lstate = "info_transfer"]
             q == Linkmsg(g, "connected")
  <1>1. Pacdecua(p) = q
    BY DEF Pacdecua
  <1>2. Level(p, c) /\ c.rembusy = p.rembusy
    <2>1. c.rembusy = p.rembusy
      BY CalmT1 DEF Calm
    <2> QED
      BY <2>1, Restt1Chat
  <1> HIDE DEF c
  <1>3. g \in Port /\ SameTx(c, g) /\ SameRx(c, g) /\ g.lstate = "info_transfer" /\ g.out = c.out
    BY <1>2, LstateNear, StateSets DEF Level, Near
  <1>4. g.rembusy = c.rembusy
    BY <1>2 DEF Level, Near, Port
  <1> HIDE DEF g
  <1>5. Level(g, q)
    BY <1>3, FlagsLevel DEF Messages
  <1>6. q.rembusy = g.rembusy
    BY <1>3 DEF Linkmsg, Port
  <1> HIDE DEF q
  <1> QED
    BY <1>1, <1>2, <1>3, <1>4, <1>5, <1>6, NearSteps DEF Level, Near, Up

LEMMA DmDown ==
    ASSUME NEW p \in Port
    PROVE  /\ ~Up(Pacdecdm(p))
           /\ p.lstate \notin {"link_setup", "disconnected"} => Shut(p, Pacdecdm(p))
  <1>1. p.lstate # "link_setup" => Pacdecdm(p) = Dodisc(p)
    BY DEF Pacdecdm
  <1> QED
    BY <1>1, PacdecdmHush, DodiscShut DEF Up

LEMMA CalmAgain ==
    ASSUME NEW b \in Port, Linked(b), NEW n \in Numbers, NEW v \in Numbers, NEW w \in BOOLEAN
    PROVE  LET i == Infosend([b EXCEPT !.v2s = v], "command", b.v1s, n) IN
           /\ Calm(b, [i EXCEPT !.retries = Retry, !.wasrej = w])
           /\ Calm(b, [i EXCEPT !.retries = Retry])
  <1> DEFINE e == [b EXCEPT !.v2s = v]
             i == Infosend(e, "command", b.v1s, n)
  <1>1. Calm(b, e)
    BY CalmFlags
  <1>2. e \in Port /\ Linked(e) /\ b.v1s \in Numbers
    <2>1. e \in Port /\ e.lstate = b.lstate
      BY DEF Port
    <2> QED
      BY <2>1, PortTypes DEF Linked
  <1> HIDE DEF e
  <1>3. Calm(e, i) /\ i \in Port
    BY <1>2, CalmInfosend DEF PFs
  <1> HIDE DEF i
  <1>4. Calm(i, [i EXCEPT !.retries = Retry, !.wasrej = w]) /\ Calm(i, [i EXCEPT !.retries = Retry])
    BY <1>3, CalmFlags
  <1> DEFINE j == [i EXCEPT !.retries = Retry, !.wasrej = w]
             k == [i EXCEPT !.retries = Retry]
  <1>5. Calm(i, j) /\ Calm(i, k)
    BY <1>4
  <1> HIDE DEF j, k
  <1>6. Calm(b, i)
    BY <1>1, <1>3, CalmSteps
  <1>7. Calm(b, j) /\ Calm(b, k)
    BY <1>5, <1>6, CalmSteps
  <1> QED
    BY <1>7 DEF j, k, i, e

LEMMA SteadySteps ==
    ASSUME NEW p, NEW q, NEW r, Steady(p, q), Steady(q, r)
    PROVE  Steady(p, r)
  BY DEF Steady

\* an acknowledgement leaves the receive queue alone, and tells whether the
\* peer is busy
LEMMA SupSteady ==
    ASSUME NEW p \in Port, p.lstate \in Transfer, NEW f \in GoodFrames
    PROVE  LET q == Pacdecsup(p, f) IN
           /\ Steady(p, q) /\ Chat(Infack(p, f.nr), q) /\ (q.rembusy <=> f.type = "RNR")
  <1> DEFINE waited == p.lstate = "wait_ack" /\ f.pf = "final"
             a == Infack(p, f.nr)
             b == IF ~waited THEN a
                  ELSE IF a.vs = a.v1s THEN [Stopt1(a) EXCEPT !.lstate = "info_transfer"]
                  ELSE [a EXCEPT !.lstate = "info_transfer"]
             u == Plus(b.v1s, 1)
             c == IF b.v1s # b.vs /\ (b.v2s = b.vs \/ f.pf = "final") /\ f.type = "REJ"
                  THEN [Infosend([b EXCEPT !.v2s = u], "command", b.v1s, u)
                          EXCEPT !.retries = Retry, !.wasrej = TRUE]
                  ELSE IF (waited \/ (b.vs # b.v2s /\ b.wasrej)) /\ b.vs # b.v1s /\ ~b.rembusy
                  THEN [Infosend([b EXCEPT !.v2s = b.vs], "command", b.v1s, b.vs)
                          EXCEPT !.retries = Retry]
                  ELSE [b EXCEPT !.v2s = b.vs]
             d == CASE f.pf = "poll" -> Paccodsup(c, "final")
                    [] f.pf = "command" -> Paccodsup(c, "response")
                    [] OTHER -> c
             rem == f.type = "RNR"
             t1 == rem \/ d.timer1
             q == [d EXCEPT !.rembusy = rem, !.timer1 = t1]
  <1>1. Pacdecsup(p, f) = q
    BY DEF Pacdecsup
  <1>2. f.nr \in Numbers /\ Chat(a, q)
    <2>1. LET r == Infack(p, f.nr) IN Chat(r, Pacdecsup(p, f))
      BY SupRest
    <2> HIDE DEF q
    <2> QED
      BY <1>1, <2>1 DEF GoodFrames, Frame
  <1>3. a \in Port /\ Linked(a) /\ Calm(p, a)
    <2>1. a \in Port /\ a.lstate \in {p.lstate, "frame_reject"}
      BY <1>2, InfackIs
    <2>2. Up(p)
      BY StateSets DEF Up
    <2> HIDE DEF a
    <2>3. Linked(a)
      BY <2>1, StateSets DEF Linked
    <2>4. Calm(p, a)
      BY <1>2, <2>2, CalmInfack DEF a
    <2> QED
      BY <2>1, <2>3, <2>4
  <1> HIDE DEF a
  <1>4. b \in Port /\ Linked(b) /\ Calm(a, b)
    <2>1. \A x \in Port : Linked(x) =>
             /\ [x EXCEPT !.lstate = "info_transfer"] \in Port /\ Linked([x EXCEPT !.lstate = "info_transfer"])
             /\ Calm(x, [x EXCEPT !.lstate = "info_transfer"])
      <3> SUFFICES ASSUME NEW x \in Port, Linked(x)
                   PROVE  LET y == [x EXCEPT !.lstate = "info_transfer"] IN
                          y \in Port /\ Linked(y) /\ Calm(x, y)
        OBVIOUS
      <3> DEFINE y == [x EXCEPT !.lstate = "info_transfer"]
      <3>1. y \in Port /\ y.lstate = "info_transfer"
        BY LstateNear, StateSets
      <3>2. Calm(x, y)
        BY CalmFlags DEF Linked, Up
      <3> HIDE DEF y
      <3> QED
        BY <3>1, <3>2 DEF Linked, y
    <2> DEFINE s == Stopt1(a)
               v == [s EXCEPT !.lstate = "info_transfer"]
               w == [a EXCEPT !.lstate = "info_transfer"]
    <2>2. s \in Port /\ Linked(s) /\ Calm(a, s)
      BY <1>3, CalmT1, Restt1Chat DEF Level, Near, Linked
    <2> HIDE DEF s
    <2>3. v \in Port /\ Linked(v) /\ Calm(s, v) /\ w \in Port /\ Linked(w) /\ Calm(a, w)
      BY <1>3, <2>1, <2>2
    <2> HIDE DEF waited
    <2>4. b \in {a, v, w}
      BY DEF s
    <2> HIDE DEF v, w, b
    <2>5. Calm(a, v) /\ Calm(a, a)
      BY <2>2, <2>3, CalmSteps
    <2> QED
      BY <1>3, <2>3, <2>4, <2>5
  <1> HIDE DEF waited, b
  <1>5. b.vs \in Numbers /\ b.v1s \in Numbers /\ u \in Numbers
    <2>1. 1 \in 0 .. M
      BY Parameters
    <2>2. b.vs \in Numbers /\ b.v1s \in Numbers
      BY <1>4, PortTypes
    <2> QED
      BY <2>1, <2>2, PlusIs
  <1> HIDE DEF u
  <1>6. Calm(b, c)
    <2>1. Calm(b, [Infosend([b EXCEPT !.v2s = u], "command", b.v1s, u) EXCEPT !.retries = Retry, !.wasrej = TRUE])
      BY <1>4, <1>5, CalmAgain
    <2>2. Calm(b, [Infosend([b EXCEPT !.v2s = b.vs], "command", b.v1s, b.vs) EXCEPT !.retries = Retry])
      BY <1>4, <1>5, CalmAgain
    <2>3. Calm(b, [b EXCEPT !.v2s = b.vs])
      BY <1>4, CalmFlags
    <2> QED
      BY <2>1, <2>2, <2>3
  <1>7. c \in Port
    <2>1. \A n \in Numbers, v \in Numbers : \A w \in BOOLEAN :
             LET i == Infosend([b EXCEPT !.v2s = v], "command", b.v1s, n) IN
             /\ [i EXCEPT !.retries = Retry, !.wasrej = w] \in Port /\ [i EXCEPT !.retries = Retry] \in Port
      <3> TAKE n \in Numbers, v \in Numbers
      <3> TAKE w \in BOOLEAN
      <3> DEFINE e == [b EXCEPT !.v2s = v]
                 i == Infosend(e, "command", b.v1s, n)
      <3>1. e \in Port /\ e.lstate = b.lstate
        BY <1>4 DEF Port
      <3> HIDE DEF e
      <3>2. i \in Port
        BY <1>4, <1>5, <3>1, InfosendChat DEF PFs, Linked, Chat
      <3> HIDE DEF i
      <3>3. Retry \in -1 .. Retry + 1
        BY Parameters
      <3>4. [i EXCEPT !.retries = Retry, !.wasrej = w] \in Port /\ [i EXCEPT !.retries = Retry] \in Port
        BY <3>2, <3>3 DEF Port
      <3> QED
        BY <3>4 DEF i, e
    <2>2. [b EXCEPT !.v2s = b.vs] \in Port
      BY <1>4, <1>5 DEF Port
    <2> QED
      BY <1>5, <2>1, <2>2
  <1> HIDE DEF c
  <1>8. Calm(c, d) /\ d \in Port
    BY <1>7, CalmSup, CalmSteps DEF PFs
  <1> HIDE DEF d
  <1>9. Steady(d, q) /\ q.rembusy = rem
    <2>1. rem \in BOOLEAN /\ t1 \in BOOLEAN
      BY <1>8 DEF Port
    <2> HIDE DEF rem, t1
    <2> QED
      BY <1>8, <2>1 DEF Steady, Up, Port
  <1> HIDE DEF q
  <1>10. Steady(p, q)
    <2>1. Calm(p, b)
      BY <1>3, <1>4, CalmSteps
    <2>2. Calm(p, c)
      BY <1>6, <2>1, CalmSteps
    <2>3. Calm(p, d)
      BY <1>8, <2>2, CalmSteps
    <2> QED
      BY <1>9, <2>3, SteadySteps DEF Calm
  <1> QED
    BY <1>1, <1>2, <1>9, <1>10 DEF a

\* Nothing has been dropped and the port is not quitting.  It is busy when its
\* receive queue is longer than it may be, and only then it lets nobody go on.
\* The queue is no longer than what has arrived, but for j.
Lull(p, j) ==
    /\ p \in Port /\ ~p.overrun /\ ~p.qtimer
    /\ p.sess = 0 => ~Up(p) /\ p.rxlen = 0
    /\ Up(p) => /\ p.rxlen <= Len(p.got) + j
                /\ ~p.busy => p.rxlen <= MaxRx + 1
    /\ \A f \in ToSet(p.out) : f.type \in Grants => ~p.busy

\* what leaves the receive queue alone
LEMMA LullSteady ==
    ASSUME NEW p, NEW j, Lull(p, j), NEW q \in Port, Steady(p, q) \/ Calm(p, q)
    PROVE  Lull(q, j)
  BY DEF Lull, Steady, Calm

LEMMA LullShut ==
    ASSUME NEW p, NEW j, Lull(p, j), NEW q \in Port, Shut(p, q)
    PROVE  Lull(q, j)
  BY DEF Lull, Shut

\* no acknowledgement waits to be sent
Unsaid(p) == \A f \in ToSet(p.out) : f.type \notin Grants

\* There is room for a piece: the queue gets longer with what has arrived.
LEMMA LullTake ==
    ASSUME NEW p, NEW j \in Int, Lull(p, j), Linked(p), Unsaid(p), NEW x \in Pieces,
           Quits(x) => p.lstate # "disc_request", p.rxlen < MaxRx + RxRoom, NEW t, t = Take(p, x)
    PROVE  /\ Lull(t, j) /\ Linked(t) /\ Unsaid(t)
           /\ t.rxlen = p.rxlen + 1 /\ t.sammler = p.sammler /\ t.vr = Plus(p.vr, 1)
           /\ t.lstate = "disc_request" => p.lstate = "disc_request" \/ Quits(x)
  <1> DEFINE a == Opened(p)
             b == Entered(p, x)
  <1>0. p \in Port /\ ~p.overrun /\ ~p.qtimer
    BY DEF Lull
  <1>1. /\ a \in Port /\ SameTx(p, a) /\ SameRx(p, a) /\ a.out = p.out /\ a.qtimer = p.qtimer
        /\ a.lstate = p.lstate \/ (p.lstate = "rej_sent" /\ a.lstate = "info_transfer")
    BY <1>0, OpenedIs
  <1>2. a.rxlen = p.rxlen /\ a.busy = p.busy
    BY <1>0 DEF Opened, Port
  <1>3. b = a \/ (Quits(x) /\ b = Disconnect(a, 1))
    BY DEF Entered
  <1>4. b \in Port /\ Hush(a, b)
    BY <1>0, TakeIsThis
  <1>5. b.lstate = a.lstate \/ b.lstate \in {a.lstate, "disc_request"}
    <2>1. CASE Quits(x) /\ b = Disconnect(a, 1)
      <3>1. p.lstate \in Transfer \cup {"frame_reject"}
        BY <1>0, <2>1, PortTypes DEF Linked, LStates
      <3>2. a.lstate \in Transfer \cup {"frame_reject"}
        BY <1>1, <3>1 DEF Transfer
      <3> HIDE DEF a
      <3> QED
        BY <1>1, <2>1, <3>2, DisconnectStays
    <2> QED
      BY <1>3, <2>1
  <1>6. Calm(a, b) \/ Shut(a, b)
    BY <1>0, <1>1, <1>3, DisconnectCalm, CalmSteps
  <1> HIDE DEF a, b
  <1>7. Up(b) /\ Up(a)
    BY <1>1, <1>5 DEF Linked, Up
  <1>8. /\ b.rxlen = p.rxlen /\ b.busy = p.busy /\ ~b.qtimer /\ b.got = p.got /\ b.sess = p.sess
        /\ \A f \in ToSet(b.out) : f \in ToSet(a.out) \/ f \in PlainFrames
    BY <1>0, <1>1, <1>2, <1>4, <1>6, <1>7 DEF Calm, Steady, Shut, Hush, SameRx, SameTx
  <1>9. Stored(p, x)
    BY <1>0, <1>8 DEF Stored, b
  <1>10. t \in Port /\ t.out = b.out /\ SameTx(b, t)
    BY <1>0, TakeIsThis DEF b
  <1>11. /\ Linked(t) /\ t.overrun = p.overrun
         /\ t.got = Append(p.got, x) /\ t.vr = Plus(p.vr, 1) /\ t.sammler = p.sammler
         /\ t.lstate = "disc_request" => p.lstate = "disc_request" \/ Quits(x)
    BY <1>0, <1>9, TakeRx
  <1>12. t.rxlen = b.rxlen + 1 /\ t.qtimer = b.qtimer /\ t.busy = (b.busy \/ b.rxlen > MaxRx)
    <2> DEFINE stored == ~p.qtimer /\ b.rxlen < MaxRx + RxRoom
    <2>1. stored
      BY <1>9 DEF Stored, b
    <2>2. t = [b EXCEPT !.got = IF stored THEN Append(@, x) ELSE @,
              !.astray = @ \/ (stored /\ b.told # "connected"),
              !.rxlen = IF stored THEN @ + 1 ELSE @,
              !.overrun = @ \/ ~stored,
              !.busy = @ \/ (stored /\ b.rxlen > MaxRx),
              !.qsumme[b.vr] = IF stored THEN Quersumme(x) ELSE 0,
              !.vr = Plus(@, 1)]
      BY DEF Take, b, Entered, Opened
    <2> HIDE DEF stored
    <2> QED
      BY <1>4, <2>1, <2>2 DEF Port
  <1>13. Unsaid(t)
    BY <1>1, <1>8, <1>10 DEF Unsaid, PlainFrames, Plain, Grants
  <1>14. Len(t.got) = Len(p.got) + 1 /\ Len(p.got) \in Nat /\ p.rxlen \in Nat /\ MaxRx \in Nat
    BY <1>0, <1>11, PortTypes, PortAssumption
  <1>15. t.sess = p.sess /\ Up(p) /\ t.sess # 0
    BY <1>8, <1>10 DEF SameTx, Lull, Linked, Up
  <1>16. t.rxlen = p.rxlen + 1 /\ ~t.qtimer
    BY <1>8, <1>12
  <1>17. p.rxlen <= Len(p.got) + j => t.rxlen <= Len(t.got) + j
    BY <1>14, <1>16
  <1>18. ~t.busy => t.rxlen <= MaxRx + 1
    <2>1. ~t.busy => ~(b.rxlen > MaxRx)
      BY <1>12, Zenon
    <2>2. ~(p.rxlen > MaxRx) => p.rxlen + 1 <= MaxRx + 1
      BY <1>14
    <2> QED
      BY <1>8, <1>16, <2>1, <2>2
  <1> QED
    BY <1>0, <1>10, <1>11, <1>13, <1>15, <1>16, <1>17, <1>18 DEF Lull, Unsaid

LEMMA LullCalm ==
    ASSUME NEW p, NEW j, Lull(p, j), NEW q, Calm(p, q), q \in Port
    PROVE  Lull(q, j)
  BY LullSteady

\* the kept piece is handed over after the missing one
LEMMA LullDrain ==
    ASSUME NEW t, NEW j \in Int, Lull(t, j), Linked(t), Unsaid(t), NEW pf \in PFs,
           LET z == t.sammler[t.vr] IN
           z # NoInfo => t.rxlen < MaxRx + RxRoom /\ (Quits(z) => t.lstate # "disc_request")
    PROVE  Lull(Drain(t, pf), j)
  <1>1. CASE t.sammler[t.vr] = NoInfo
    BY <1>1 DEF Drain
  <1>2. CASE t.sammler[t.vr] # NoInfo
    <2> DEFINE z == t.sammler[t.vr]
               sam == [t.sammler EXCEPT ![t.vr] = NoInfo]
               e == [t EXCEPT !.sammler = sam]
               u == Take(e, z)
    <2>1. Drain(t, pf) = AnswerInf(u, pf, TRUE)
      BY <1>2 DEF Drain
    <2>0. t \in Port
      BY DEF Lull
    <2>2. z \in Pieces /\ sam \in [Numbers -> Infos]
      BY <1>2, <2>0, PortTypes DEF Infos
    <2>3. /\ e \in Port /\ e.lstate = t.lstate /\ e.rxlen = t.rxlen /\ e.out = t.out
          /\ e.overrun = t.overrun /\ e.qtimer = t.qtimer /\ e.sess = t.sess /\ e.busy = t.busy
          /\ e.got = t.got
      BY <2>0, <2>2 DEF Port
    <2>4. t.rxlen < MaxRx + RxRoom /\ (Quits(z) => t.lstate # "disc_request")
      BY <1>2
    <2> HIDE DEF z, e
    <2>5. Lull(e, j)
      BY <2>3 DEF Lull, Up
    <2>6. Linked(e) /\ Unsaid(e)
      BY <2>3 DEF Linked, Unsaid
    <2>7. Lull(u, j)
      BY <2>2, <2>3, <2>4, <2>5, <2>6, LullTake
    <2>8. u \in Port
      BY <2>7 DEF Lull
    <2> HIDE DEF u
    <2>9. Calm(u, AnswerInf(u, pf, TRUE)) /\ AnswerInf(u, pf, TRUE) \in Port
      BY <2>8, CalmInf
    <2> QED
      BY <2>1, <2>7, <2>9, LullCalm
  <1> QED
    BY <1>1, <1>2

\* for the piece that comes next there is room, and for the one that was kept
RoomFor(y, f) ==
    f.ns = y.vr => /\ y.rxlen < MaxRx + RxRoom
                   /\ y.sammler[Plus(y.vr, 1)] # NoInfo => y.rxlen + 1 < MaxRx + RxRoom

\* an I frame
LEMMA LullInf ==
    ASSUME NEW y, NEW j \in Int, Lull(y, j), y.lstate \in Transfer, y.out = <<>>,
           NEW f \in GoodFrames, f.type = "I", Apart(y, f), RoomFor(y, f)
    PROVE  Lull(Pacdecinf(y, f), j)
  <1> DEFINE p == Infack(y, f.nr)
             x == f.info
             t == Take(p, x)
             d == Drain(t, f.pf)
             r == Paccodrej(p, f.pf)
             k == Keep(r, f)
             b == IF f.ns = p.vr THEN d ELSE IF p.vr # Plus(f.ns, 1) THEN k ELSE p
             q == AnswerInf(b, f.pf, FALSE)
  <1>1. Pacdecinf(y, f) = q
    BY DEF Pacdecinf
  <1>2. f.nr \in Numbers /\ f.pf \in PFs /\ x \in Pieces /\ y \in Port /\ Up(y)
    BY DEF GoodFrames, Frame, PFs, Lull, Transfer, Up
  <1>3. p \in Port /\ SameRx(y, p) /\ p.out = y.out /\ p.lstate \in {y.lstate, "frame_reject"}
        /\ p.rxlen = y.rxlen
    BY <1>2, InfackRx
  <1>4. Lull(p, j)
    BY <1>2, CalmInfack, LullCalm
  <1> HIDE DEF p, x
  <1>5. Linked(p) /\ p.lstate # "disc_request"
    BY <1>3 DEF Linked, Transfer
  <1>6. Unsaid(p)
    BY <1>3 DEF Unsaid, ToSet
  <1>7. ASSUME f.ns = p.vr
        PROVE  Lull(d, j)
    <2>1. f.ns = y.vr /\ p.rxlen < MaxRx + RxRoom
      BY <1>3, <1>7 DEF SameRx, RoomFor
    <2>2. /\ Lull(t, j) /\ Linked(t) /\ Unsaid(t)
          /\ t.rxlen = p.rxlen + 1 /\ t.sammler = p.sammler /\ t.vr = Plus(p.vr, 1)
          /\ t.lstate = "disc_request" => p.lstate = "disc_request" \/ Quits(x)
      BY <1>2, <1>4, <1>5, <1>6, <2>1, LullTake
    <2> HIDE DEF t
    <2> DEFINE z == t.sammler[t.vr]
    <2>3. z = y.sammler[Plus(y.vr, 1)]
      BY <1>3, <2>2 DEF SameRx
    <2>4. ASSUME z # NoInfo
          PROVE  t.rxlen < MaxRx + RxRoom /\ (Quits(z) => t.lstate # "disc_request")
      <3>1. y.rxlen + 1 < MaxRx + RxRoom
        BY <2>1, <2>3, <2>4 DEF RoomFor
      <3>2. Quits(x) => ~Quits(z)
        BY <2>1, <2>3, <2>4 DEF Apart, x
      <3> QED
        BY <1>3, <1>5, <2>2, <3>1, <3>2
    <2> QED
      BY <1>2, <2>2, <2>4, LullDrain
  <1>8. Lull(k, j)
    <2>1. Calm(p, r) /\ r \in Port
      BY <1>2, <1>3, <1>5, CalmRej
    <2> HIDE DEF r
    <2>2. Calm(r, k) /\ k \in Port
      BY <2>1, CalmKeep
    <2> QED
      BY <1>4, <2>1, <2>2, LullCalm
  <1> HIDE DEF d, k
  <1>9. Lull(b, j)
    BY <1>4, <1>7, <1>8
  <1> HIDE DEF b
  <1>10. b \in Port
    BY <1>9 DEF Lull
  <1>11. Calm(b, q) /\ q \in Port
    BY <1>2, <1>10, CalmInf
  <1> QED
    BY <1>1, <1>9, <1>11, LullCalm

LEMMA LullTryinfo ==
    ASSUME NEW p, NEW j, Lull(p, j)
    PROVE  Lull(Tryinfo(p), j)
  <1>1. p \in Port
    BY DEF Lull
  <1> QED
    BY <1>1, CalmTryinfo, LullCalm

\* A connection begins: linkmsg has put its message into the receive queue.
LEMMA LullBegins ==
    ASSUME NEW p, NEW j, Lull(p, j), ~Up(p), p.sess = 0
    PROVE  Lull(Conack(p), 1) /\ Conack(p).rxlen = 1 /\ Conack(p).sess = 1
  <1> DEFINE d == Dodisc(p)
             n == [NewSession(d) EXCEPT !.lstate = "info_transfer"]
             l == Linkmsg(n, "connected")
             s == Send(l, U("UA", "final"))
             r == Restt1(s)
             q == [r EXCEPT !.retries = Retry]
  <1>0. p \in Port /\ p.rxlen = 0
    BY DEF Lull
  <1>1. Conack(p) = q
    BY DEF Conack, Up
  <1>2. d \in Port /\ d.rxlen = 0 /\ ~d.qtimer /\ d.sess = 0 /\ d.busy = FALSE /\ d.out = p.out
    <2>1. Gone(p, d)
      BY <1>0, DodiscGone
    <2>2. d = Lreset([p EXCEPT !.lstate = "disconnected"])
      BY DEF Dodisc, Up
    <2>3. d.qtimer = FALSE /\ d.rxlen = p.rxlen
      BY <1>0, <2>2 DEF Lreset, Idle, Port
    <2> QED
      BY <1>0, <2>1, <2>3, PortTypes DEF Gone
  <1> HIDE DEF d
  <1>3. /\ l \in Port /\ l.rxlen = 1 /\ ~l.qtimer /\ l.sess = 1 /\ ~l.busy /\ l.out = p.out
        /\ l.got = <<>> /\ ~l.overrun /\ Up(l)
    <2>1. "info_transfer" \in LStates /\ "connected" \in Messages
      BY StateSets DEF Messages, Transfer
    <2>2. NewSession(d) \in Port
      <3>1. d.sess + 1 \in Nat /\ 0 \in Nat /\ <<>> \in Seq(Pieces)
        BY <1>2
      <3> QED
        BY <1>2, <3>1 DEF Port, NewSession
    <2>7. /\ NewSession(d).sess = 1 /\ NewSession(d).got = <<>>
          /\ NewSession(d).overrun = FALSE /\ NewSession(d).rxlen = 0 /\ NewSession(d).qtimer = d.qtimer
          /\ NewSession(d).busy = FALSE /\ NewSession(d).out = p.out
      BY <1>2 DEF Port, NewSession
    <2> DEFINE m == NewSession(d)
    <2>8. m \in Port /\ m.sess = 1 /\ m.got = <<>> /\ m.overrun = FALSE /\ m.rxlen = 0
          /\ m.qtimer = d.qtimer /\ m.busy = FALSE /\ m.out = p.out
      BY <2>2, <2>7
    <2> HIDE DEF m
    <2>3. /\ n \in Port /\ n.sess = 1 /\ n.got = <<>> /\ n.overrun = FALSE /\ n.rxlen = 0
          /\ n.qtimer = d.qtimer /\ n.busy = FALSE /\ n.out = p.out /\ n.lstate = "info_transfer"
      <3>1. n = [m EXCEPT !.lstate = "info_transfer"]
        BY DEF m
      <3> HIDE DEF n
      <3> QED
        BY <2>1, <2>8, <3>1 DEF Port
    <2> HIDE DEF n
    <2>4. l \in Port
      BY <2>1, <2>3, FlagsLevel DEF Level, Near
    <2>5. l.rxlen = 1 /\ l.qtimer = n.qtimer /\ l.sess = n.sess /\ l.busy = n.busy /\ l.out = n.out
          /\ l.got = n.got /\ l.overrun = n.overrun /\ l.lstate = n.lstate
      BY <2>3 DEF Port, Linkmsg
    <2> QED
      BY <1>2, <2>3, <2>4, <2>5 DEF Up
  <1> HIDE DEF l
  <1>4. Lull(l, 1)
    <2>1. MaxRx \in Nat
      BY PortAssumption
    <2> QED
      BY <1>3, <2>1 DEF Lull
  <1>5. Calm(l, s) /\ s \in Port
    BY <1>3, CalmPlain DEF Plain, PFs
  <1> HIDE DEF s
  <1>6. Calm(s, r) /\ r \in Port
    BY <1>5, CalmT1
  <1> HIDE DEF r
  <1>7. Calm(r, q)
    BY <1>6, CalmFlags
  <1>8. q \in Port
    BY <1>6, Parameters, FlagsLevel DEF Level, Near
  <1> HIDE DEF q
  <1>9. Calm(l, q)
    BY <1>5, <1>6, <1>7, CalmSteps
  <1>10. Lull(q, 1)
    BY <1>4, <1>8, <1>9, LullCalm
  <1> QED
    BY <1>1, <1>3, <1>9, <1>10 DEF Calm, Steady

\* The application reads.
LEMMA LullChrin ==
    ASSUME NEW p, NEW j \in Int, Lull(p, j)
    PROVE  Lull(Chrin(p), j) /\ Chrin(p).got = p.got /\ Chrin(p).rxlen <= p.rxlen
  <1> DEFINE b == [p EXCEPT !.busy = FALSE]
             s == Paccodsup(b, "response")
             r == [s EXCEPT !.timer1 = TRUE]
             l == p.busy /\ p.rxlen <= MaxRx \div 2
             q == IF l THEN r ELSE p
             n == IF q.rxlen > 0 THEN q.rxlen - 1 ELSE 0
             z == [q EXCEPT !.rxlen = n]
  <1>0. p \in Port /\ MaxRx \in Nat /\ p.rxlen \in Nat /\ Len(p.got) \in Nat
    BY PortAssumption, PortTypes DEF Lull
  <1>1. Chrin(p) = z
    BY DEF Chrin, Rnrfrei
  <1>2. l => Lull(q, j) /\ q.got = p.got /\ q.rxlen = p.rxlen
    <2> SUFFICES ASSUME l PROVE Lull(r, j) /\ r.got = p.got /\ r.rxlen = p.rxlen
      OBVIOUS
    <2>1. p.rxlen <= MaxRx + 1
      <3>1. MaxRx \div 2 <= MaxRx
        BY <1>0
      <3> QED
        BY <1>0, <3>1
    <2>2. /\ b \in Port /\ b.lstate = p.lstate /\ b.rxlen = p.rxlen /\ b.out = p.out
          /\ b.overrun = p.overrun /\ b.qtimer = p.qtimer /\ b.sess = p.sess /\ b.busy = FALSE
          /\ b.got = p.got
      BY <1>0 DEF Port
    <2> HIDE DEF b
    <2>3. Lull(b, j)
      BY <2>1, <2>2 DEF Lull, Up
    <2>4. Calm(b, s) /\ s \in Port
      BY <2>2, CalmSup DEF PFs
    <2> HIDE DEF s
    <2>5. Calm(s, r)
      BY <2>4, CalmFlags
    <2>6. r \in Port
      BY <2>4, FlagsLevel DEF Level, Near
    <2> HIDE DEF r
    <2>7. Calm(b, r)
      BY <2>4, <2>5, CalmSteps
    <2> QED
      BY <2>2, <2>3, <2>6, <2>7, LullCalm DEF Calm, Steady
  <1> HIDE DEF l, r
  <1>3. Lull(q, j) /\ q.got = p.got /\ q.rxlen = p.rxlen
    BY <1>2
  <1> HIDE DEF q
  <1>4. n \in Nat /\ n <= q.rxlen /\ (q.rxlen = 0 => n = 0)
    BY <1>0, <1>3
  <1> HIDE DEF n
  <1>5. q \in Port
    BY <1>3 DEF Lull
  <1>6. /\ z \in Port /\ z.lstate = q.lstate /\ z.rxlen = n /\ z.out = q.out
        /\ z.overrun = q.overrun /\ z.qtimer = q.qtimer /\ z.sess = q.sess /\ z.busy = q.busy
        /\ z.got = q.got
    BY <1>4, <1>5 DEF Port
  <1> HIDE DEF z
  <1>7. Up(q) => /\ z.rxlen <= Len(z.got) + j
                 /\ ~z.busy => z.rxlen <= MaxRx + 1
    <2> SUFFICES ASSUME Up(q) PROVE z.rxlen <= Len(z.got) + j /\ (~z.busy => z.rxlen <= MaxRx + 1)
      OBVIOUS
    <2>1. q.rxlen <= Len(q.got) + j /\ (~q.busy => q.rxlen <= MaxRx + 1)
      BY <1>3 DEF Lull
    <2>2. z.rxlen <= q.rxlen /\ z.rxlen \in Nat /\ q.rxlen \in Nat /\ Len(q.got) \in Nat
      BY <1>0, <1>3, <1>4, <1>6
    <2>3. z.rxlen <= Len(z.got) + j
      BY <1>6, <2>1, <2>2
    <2>4. q.rxlen <= MaxRx + 1 => z.rxlen <= MaxRx + 1
      BY <1>0, <2>2
    <2> QED
      BY <1>6, <2>1, <2>3, <2>4
  <1>8. Lull(z, j)
    BY <1>3, <1>4, <1>6, <1>7 DEF Lull, Up
  <1> QED
    BY <1>1, <1>3, <1>4, <1>6, <1>8

\* What the receiver makes of a frame: it goes on, or its session begins.
LEMMA LullPacdec ==
    ASSUME NEW y, NEW j \in Int, Lull(y, j), y.out = <<>>, y.lstate # "link_setup",
           NEW f \in GoodFrames, f.type = "I" /\ Up(y) => Apart(y, f) /\ RoomFor(y, f),
           NEW q, q = Pacdec(y, f)
    PROVE  (Lull(q, j) /\ (Up(q) => Up(y))) \/ q.sess > 1 \/ (~Up(y) /\ Lull(q, 1) /\ q.rxlen = 1)
  <1>0. y \in Port /\ ~y.qtimer /\ y.sess \in Nat /\ f.pf \in PFs
    BY PortTypes DEF Lull, GoodFrames, Frame, PFs
  <1>1. CASE ~Up(y)
    <2>1. q = y \/ q = Conack(y) \/ q = Send(y, U("DM", "final"))
      BY <1>1 DEF Pacdec, PacdecOther, Up
    <2>2. Lull(Send(y, U("DM", "final")), j) /\ (Up(Send(y, U("DM", "final"))) => Up(y))
      <3>1. Calm(y, Send(y, U("DM", "final"))) /\ Send(y, U("DM", "final")) \in Port
        BY <1>0, CalmPlain DEF Plain, PFs
      <3> QED
        BY <3>1, LullCalm DEF Calm, Steady
    <2>3. CASE q = Conack(y) /\ y.sess = 0
      BY <1>1, <2>3, LullBegins
    <2>4. CASE q = Conack(y) /\ y.sess # 0
      <3> DEFINE d == Dodisc(y)
                 n == [NewSession(d) EXCEPT !.lstate = "info_transfer"]
                 l == Linkmsg(n, "connected")
                 s == Send(l, U("UA", "final"))
                 r == Restt1(s)
      <3>1. q = [r EXCEPT !.retries = Retry]
        BY <1>1, <2>4 DEF Conack, Up
      <3>2. d.sess = y.sess /\ d \in Port
        BY <1>0, DodiscGone DEF Gone
      <3> HIDE DEF d
      <3>3. s.sess = y.sess + 1
        BY <1>0, <3>2 DEF Port, Send, Linkmsg, NewSession
      <3> HIDE DEF s
      <3>4. r.sess = s.sess
        BY DEF Restt1
      <3> HIDE DEF r
      <3>5. q.sess = r.sess
        BY <3>1
      <3> QED
        BY <1>0, <2>4, <3>3, <3>4, <3>5
    <2> QED
      BY <2>1, <2>2, <2>3, <2>4
  <1>2. CASE Up(y)
    <2> DEFINE s == Send(y, U("DM", "final"))
               b == CASE f.type = "SABM" -> Conack(y)
                      [] f.type = "UA" -> Pacdecua(y)
                      [] f.type = "DISC" -> Pacdecdm(s)
                      [] f.type = "DM" -> Pacdecdm(y)
                      [] f.type = "FRMR" -> Disconnect(y, 1)
                      [] f.type \in {"RR", "RNR", "REJ"} /\ y.lstate \in Transfer -> Pacdecsup(y, f)
                      [] f.type = "I" /\ y.lstate \in Transfer -> Pacdecinf(y, f)
                      [] OTHER -> y
    <2>1. q = Tryinfo(b)
      BY <1>0, <1>2 DEF Pacdec, PacdecMatch, Up
    <2>2. \/ b = Conack(y)
          \/ b = Pacdecua(y)
          \/ b = Pacdecdm(s)
          \/ b = Pacdecdm(y)
          \/ b = Disconnect(y, 1)
          \/ y.lstate \in Transfer /\ b = Pacdecsup(y, f)
          \/ y.lstate \in Transfer /\ f.type = "I" /\ b = Pacdecinf(y, f)
          \/ b = y
      OBVIOUS
    <2> HIDE DEF b
    <2>3. y.lstate \notin {"link_setup", "disconnected"}
      BY <1>2 DEF Up
    <2>4. Lull(Conack(y), j)
      BY <1>0, <1>2, CalmConack, LullCalm
    <2>5. Lull(Pacdecua(y), j)
      BY <1>0, UaCalm, PacdecuaTx, LullCalm, LullShut DEF TxHush
    <2>6. Lull(Pacdecdm(y), j)
      BY <1>0, <2>3, DmDown, PacdecdmHush, LullShut DEF Hush
    <2>7. Lull(Pacdecdm(s), j)
      <3>1. Calm(y, s) /\ s \in Port
        BY <1>0, CalmPlain DEF Plain, PFs
      <3>2. s.lstate = y.lstate
        BY <1>0, SendHush DEF Plain, PFs
      <3> HIDE DEF s
      <3>3. Lull(s, j)
        BY <3>1, LullCalm
      <3> QED
        BY <2>3, <3>1, <3>2, <3>3, DmDown, PacdecdmHush, LullShut DEF Hush
    <2>8. Lull(Disconnect(y, 1), j)
      BY <1>0, DisconnectCalm, DisconnectHush, LullCalm, LullShut DEF Hush
    <2>9. y.lstate \in Transfer => Lull(Pacdecsup(y, f), j)
      BY <1>0, SupSteady, LullSteady DEF Chat
    <2>10. y.lstate \in Transfer /\ f.type = "I" => Lull(Pacdecinf(y, f), j)
      BY <1>2, LullInf
    <2>11. Lull(b, j)
      BY <2>2, <2>4, <2>5, <2>6, <2>7, <2>8, <2>9, <2>10
    <2> QED
      BY <1>2, <2>1, <2>11, LullTryinfo
  <1> QED
    BY <1>1, <1>2

\* no data are on their way out
Silent(p) == \A f \in ToSet(p.out) : f.type # "I"

\* The peer lets the station send up to piece k and its window; while it does
\* not say that it is busy, not more than k pieces are acknowledged.
Cred(p, k) ==
    /\ p \in Port /\ ~p.overrun
    /\ Up(p) => /\ Window(p) /\ V(p) <= k + MaxFrame
                /\ ~p.rembusy => p.acked <= k
    /\ ~Up(p) => Silent(p)

\* A sender that is let go on further is still within what is allowed.
LEMMA CredMore ==
    ASSUME NEW p, NEW k \in Int, NEW l \in Int, k <= l, Cred(p, k)
    PROVE  Cred(p, l)
  <1>1. p.acked \in Nat /\ V(p) \in Int /\ MaxFrame \in Nat
    BY PortTypes, Parameters DEF Cred
  <1>2. V(p) <= k + MaxFrame => V(p) <= l + MaxFrame
    BY <1>1
  <1>3. p.acked <= k => p.acked <= l
    BY <1>1
  <1> QED
    BY <1>2, <1>3 DEF Cred

\* what does not touch the window
LEMMA CredHush ==
    ASSUME NEW p, NEW k \in Int, Cred(p, k), Silent(p), NEW q, Hush(p, q),
           Up(q) => q.rembusy = p.rembusy
    PROVE  Cred(q, k) /\ Silent(q)
  <1>1. q \in Port /\ q.overrun = p.overrun /\ (Up(q) => Up(p) /\ SameTx(p, q))
    BY DEF Hush
  <1>2. Silent(q)
    BY DEF Hush, Silent, PlainFrames, Plain
  <1>3. Up(q) => V(q) = V(p) /\ Window(q) /\ q.acked = p.acked
    BY <1>1, WindowSame DEF Cred, SameTx
  <1> QED
    BY <1>1, <1>2, <1>3 DEF Cred

LEMMA CredChat ==
    ASSUME NEW p, NEW k \in Int, Cred(p, k), NEW q, Chat(p, q), q.rembusy = p.rembusy
    PROVE  Cred(q, k)
  <1>1. q \in Port /\ q.overrun = p.overrun /\ SameTx(p, q) /\ (Up(q) <=> Up(p))
    BY DEF Chat, SameRx, Phase, Linked, Up
  <1>2. ~Up(q) => Silent(q)
    BY <1>1 DEF Chat, Silent, Cred, Says, Linked, Up
  <1>3. V(q) = V(p) /\ (Window(p) => Window(q)) /\ q.acked = p.acked
    BY <1>1, WindowSame DEF SameTx
  <1> QED
    BY <1>1, <1>2, <1>3 DEF Cred

\* New data enter the window only while the peer is not busy.
LEMMA CredTryinfo ==
    ASSUME NEW p, NEW k \in Int, Cred(p, k)
    PROVE  Cred(Tryinfo(p), k)
  <1> DEFINE q == Tryinfo(p)
  <1>0. p \in Port /\ ~p.overrun
    BY DEF Cred
  <1>1. Calm(p, q) /\ q \in Port /\ (Up(p) /\ p.rembusy => V(q) = V(p))
    BY <1>0, CalmTryinfo
  <1>2. CASE Up(p)
    <2>1. Grows(p, q)
      BY <1>0, <1>2, TryinfoChat
    <2> HIDE DEF q
    <2>2. Window(p) /\ Window(q) /\ q.acked = p.acked /\ q.rembusy = p.rembusy /\ Up(q) /\ ~q.overrun
      BY <1>0, <1>1, <1>2, <2>1 DEF Cred, Grows, Calm, Steady
    <2>3. V(q) <= q.acked + MaxFrame
      BY <2>2 DEF Window
    <2>4. V(q) <= k + MaxFrame
      <3>1. CASE p.rembusy
        BY <1>1, <1>2, <3>1 DEF Cred
      <3>2. CASE ~p.rembusy
        <4>1. p.acked <= k /\ p.acked \in Nat /\ V(q) \in Int /\ MaxFrame \in Nat
          BY <1>0, <1>1, <1>2, <3>2, PortTypes, Parameters DEF Cred
        <4> QED
          BY <2>2, <2>3, <4>1
      <3> QED
        BY <3>1, <3>2
    <2> QED
      BY <1>1, <1>2, <2>2, <2>4 DEF Cred, q
  <1>3. CASE ~Up(p)
    <2>1. q.out = p.out /\ ~Up(q)
      BY <1>0, <1>3, TryinfoDown DEF Up
    <2> HIDE DEF q
    <2> QED
      BY <1>0, <1>1, <1>3, <2>1 DEF Cred, Silent, Calm, Steady, q
  <1> QED
    BY <1>2, <1>3

\* Infack moves the window to what the peer has told, unless it is busy.
LEMMA CredSup ==
    ASSUME NEW a, NEW k \in Int, Cred(a, k), Silent(a), a.lstate \in Transfer, NEW f \in GoodFrames,
           f.type \in {"RR", "RNR", "REJ"}, Minus(f.nr, a.v1s) <= V(a) - a.acked,
           f.type \in Grants => a.acked + Minus(f.nr, a.v1s) <= k
    PROVE  Cred(Pacdecsup(a, f), k)
  <1> DEFINE i == Infack(a, f.nr)
             q == Pacdecsup(a, f)
  <1>0. a \in Port /\ ~a.overrun /\ Up(a) /\ Window(a) /\ V(a) <= k + MaxFrame /\ f.nr \in Numbers
    BY DEF Cred, Transfer, Up, GoodFrames, Frame
  <1>1. /\ i.lstate = a.lstate /\ i.acked = a.acked + Minus(f.nr, a.v1s)
        /\ V(i) = V(a) /\ Window(i)
    BY <1>0, InfackWindow
  <1>2. i \in Port /\ SameRx(a, i) /\ i.out = a.out
    BY <1>0, InfackRx
  <1>3. Chat(i, q) /\ (q.rembusy <=> f.type = "RNR")
    BY <1>0, SupSteady
  <1> HIDE DEF i, q
  <1>4. Up(q) /\ q \in Port /\ ~q.overrun /\ SameTx(i, q)
    BY <1>0, <1>1, <1>2, <1>3 DEF Chat, Phase, SameRx, Linked, Up
  <1>5. V(q) = V(a) /\ Window(q) /\ q.acked = a.acked + Minus(f.nr, a.v1s)
    BY <1>1, <1>4, WindowSame DEF SameTx
  <1>6. ~q.rembusy => q.acked <= k
    BY <1>3, <1>5 DEF Grants
  <1> QED
    BY <1>0, <1>4, <1>5, <1>6 DEF Cred, q

\* a frame from a peer that sends no data
LEMMA CredPacdec ==
    ASSUME NEW x, NEW k \in Int, Cred(x, k), x.out = <<>>, NEW f \in GoodFrames,
           f.type \notin {"I", "SABM"},
           Up(x) /\ f.type \in Numbered => Minus(f.nr, x.v1s) <= V(x) - x.acked,
           Up(x) /\ f.type \in Grants => x.acked + Minus(f.nr, x.v1s) <= k
    PROVE  Cred(Pacdec(x, f), k)
  <1>0. x \in Port /\ Silent(x)
    BY DEF Cred, Silent, ToSet
  <1>1. CASE x.lstate = "disconnected"
    <2>1. Pacdec(x, f) = PacdecOther(x, f)
      BY <1>1 DEF Pacdec
    <2>2. Hush(x, PacdecOther(x, f))
      BY <1>0, OtherHush
    <2>3. ~Up(PacdecOther(x, f))
      BY <1>1, <2>2 DEF Hush, Up
    <2> QED
      BY <1>0, <2>1, <2>2, <2>3, CredHush
  <1>2. CASE x.lstate # "disconnected"
    <2> DEFINE c == x.qtimer /\ x.txinfout = <<>> /\ x.vs = x.v1s
               a == IF c THEN Disconnect(x, 1) ELSE x
               s == Send(a, U("DM", "final"))
               b == CASE f.type = "SABM" -> Conack(a)
                      [] f.type = "UA" -> Pacdecua(a)
                      [] f.type = "DISC" -> Pacdecdm(s)
                      [] f.type = "DM" -> Pacdecdm(a)
                      [] f.type = "FRMR" -> Disconnect(a, 1)
                      [] f.type \in {"RR", "RNR", "REJ"} /\ a.lstate \in Transfer -> Pacdecsup(a, f)
                      [] f.type = "I" /\ a.lstate \in Transfer -> Pacdecinf(a, f)
                      [] OTHER -> a
    <2>1. Pacdec(x, f) = Tryinfo(b)
      BY <1>2 DEF Pacdec, PacdecMatch
    <2>2. Hush(x, a) /\ (Up(a) => a.rembusy = x.rembusy)
      BY <1>0, FlagsLevel, LevelHush, DisconnectHush, DisconnectCalm
    <2>3. \/ f.type = "UA" /\ b = Pacdecua(a)
          \/ b \in {Pacdecdm(s), Pacdecdm(a), Disconnect(a, 1), a}
          \/ a.lstate \in Transfer /\ f.type \in {"RR", "RNR", "REJ"} /\ b = Pacdecsup(a, f)
      OBVIOUS
    <2> HIDE DEF c, a, b
    <2>4. Cred(a, k) /\ Silent(a) /\ a \in Port
      BY <1>0, <2>2, CredHush DEF Hush
    <2>5. CASE b \in {Pacdecdm(s), Pacdecdm(a), Disconnect(a, 1), a}
      <3>1. Hush(a, b)
        BY <2>4, <2>5, PacdecPlain
      <3>2. s \in Port
        BY <2>4, CalmPlain DEF Plain, PFs
      <3> HIDE DEF s
      <3>3. Up(b) => b.rembusy = a.rembusy
        BY <2>4, <2>5, <3>2, DmDown, DisconnectCalm
      <3> QED
        BY <2>1, <2>4, <3>1, <3>3, CredHush, CredTryinfo
    <2>6. CASE f.type = "UA" /\ b = Pacdecua(a)
      <3>1. CASE a.lstate = "link_setup"
        <4>1. SameTx(a, b) /\ SameRx(a, b) /\ Up(b) /\ b.rembusy = a.rembusy /\ b \in Port
          BY <2>4, <2>6, <3>1, UaSetup, PacdecuaTx DEF TxHush
        <4>2. Up(a) /\ V(b) = V(a) /\ (Window(a) => Window(b)) /\ b.acked = a.acked /\ b.overrun = a.overrun
          BY <3>1, <4>1, WindowSame DEF SameTx, SameRx, Up
        <4>3. Cred(b, k)
          BY <2>4, <4>1, <4>2 DEF Cred
        <4> QED
          BY <2>1, <4>3, CredTryinfo
      <3>2. CASE a.lstate # "link_setup"
        <4>1. b = Dodisc(a) \/ b = a
          BY <2>6, <3>2 DEF Pacdecua
        <4>2. Hush(a, b) /\ (Up(b) => b.rembusy = a.rembusy)
          BY <2>4, <4>1, DodiscHush, FlagsLevel, LevelHush
        <4> QED
          BY <2>1, <2>4, <4>2, CredHush, CredTryinfo
      <3> QED
        BY <3>1, <3>2
    <2>7. CASE a.lstate \in Transfer /\ f.type \in {"RR", "RNR", "REJ"} /\ b = Pacdecsup(a, f)
      <3>1. Up(a) /\ f.type \in Numbered
        BY <2>7 DEF Up, Transfer, Numbered
      <3>2. Up(x) /\ SameTx(x, a)
        BY <2>2, <3>1 DEF Hush
      <3>3. V(a) = V(x) /\ a.acked = x.acked /\ a.v1s = x.v1s
        BY <3>2, WindowSame DEF SameTx
      <3>4. Cred(b, k)
        BY <2>4, <2>7, <3>1, <3>2, <3>3, CredSup
      <3> QED
        BY <2>1, <3>4, CredTryinfo
    <2> QED
      BY <2>3, <2>5, <2>6, <2>7
  <1> QED
    BY <1>1, <1>2

\* a timer, which sends again what is in the window
LEMMA CredTimer ==
    ASSUME NEW p, NEW k \in Int, Cred(p, k), Silent(p)
    PROVE  LET q == T1tout(p) IN Cred(q, k) /\ (Up(q) => Up(p))
  <1> DEFINE q == T1tout(p)
  <1>0. p \in Port
    BY DEF Cred
  <1>1. Calm(p, q) \/ Shut(p, q)
    BY <1>0, T1toutCalm
  <1>2. \/ Linked(p) /\ Chat(p, q)
        \/ Hush(p, q)
        \/ /\ p.lstate = "link_setup" /\ Near(p, q)
           /\ ToSet(q.out) = ToSet(p.out) \cup {U("SABM", "poll")}
    BY <1>0, T1toutIs
  <1> HIDE DEF q
  <1>3. Up(q) => q.rembusy = p.rembusy
    BY <1>1 DEF Calm, Shut
  <1>4. CASE Linked(p) /\ Chat(p, q)
    <2>1. Up(q) /\ Up(p)
      BY <1>4 DEF Chat, Phase, Linked, Up
    <2> QED
      BY <1>3, <1>4, <2>1, CredChat DEF q
  <1>5. CASE Hush(p, q)
    BY <1>3, <1>5, CredHush DEF q, Hush
  <1>6. CASE p.lstate = "link_setup" /\ Near(p, q)
    <2>1. Up(p) /\ Up(q) /\ SameTx(p, q) /\ q \in Port /\ q.overrun = p.overrun
      BY <1>6 DEF Near, SameRx, Up
    <2>2. V(q) = V(p) /\ (Window(p) => Window(q)) /\ q.acked = p.acked
      BY <2>1, WindowSame DEF SameTx
    <2> QED
      BY <1>3, <2>1, <2>2 DEF Cred, q
  <1> QED
    BY <1>2, <1>4, <1>5, <1>6

LEMMA CredFlags ==
    ASSUME NEW p, NEW k \in Int, Cred(p, k), NEW b \in BOOLEAN
    PROVE  /\ Cred([p EXCEPT !.timer1 = b], k) /\ [p EXCEPT !.timer1 = b].out = p.out
           /\ Up([p EXCEPT !.timer1 = b]) <=> Up(p)
           /\ Cred([p EXCEPT !.timer2 = b], k) /\ [p EXCEPT !.timer2 = b].out = p.out
           /\ Up([p EXCEPT !.timer2 = b]) <=> Up(p)
  <1> DEFINE q == [p EXCEPT !.timer1 = b]
             r == [p EXCEPT !.timer2 = b]
  <1>0. p \in Port
    BY DEF Cred
  <1>1. Level(p, q) /\ Near(p, r) /\ r.out = p.out
    <2>1. Level(p, q)
      BY <1>0, FlagsLevel
    <2>2. Near(p, r)
      BY <1>0, FlagsLevel
    <2>3. r.out = p.out
      BY <1>0 DEF Port
    <2> QED
      BY <2>1, <2>2, <2>3
  <1>2. q.rembusy = p.rembusy /\ r.rembusy = p.rembusy
    BY <1>0 DEF Port
  <1> HIDE DEF q, r
  <1>3. Chat(p, q) /\ Chat(p, r) /\ q.out = p.out /\ r.out = p.out /\ (Up(q) <=> Up(p)) /\ (Up(r) <=> Up(p))
    BY <1>1, ChatSteps DEF Level, Near, Up
  <1> QED
    BY <1>2, <1>3, CredChat DEF q, r

LEMMA CredSup1 ==
    ASSUME NEW p, NEW k \in Int, Cred(p, k), NEW pf \in PFs
    PROVE  Cred(Paccodsup(p, pf), k) /\ (Up(Paccodsup(p, pf)) <=> Up(p))
  <1> DEFINE q == Paccodsup(p, pf)
  <1>0. p \in Port
    BY DEF Cred
  <1>1. Chat(p, q) /\ Calm(p, q)
    BY <1>0, PaccodsupChat, CalmSup
  <1> HIDE DEF q
  <1> QED
    BY <1>1, CredChat DEF Calm, Steady, q

\* the application of the sender
LEMMA CredReads ==
    ASSUME NEW p, NEW k \in Int, Cred(p, k)
    PROVE  Cred(Chrin(p), k) /\ (Up(Chrin(p)) => Up(p))
  <1> DEFINE b == [p EXCEPT !.busy = FALSE]
             s == Paccodsup(b, "response")
             r == [s EXCEPT !.timer1 = TRUE]
             l == p.busy /\ p.rxlen <= MaxRx \div 2
             q == IF l THEN r ELSE p
             n == IF q.rxlen > 0 THEN q.rxlen - 1 ELSE 0
             z == [q EXCEPT !.rxlen = n]
  <1>0. p \in Port
    BY DEF Cred
  <1>1. Chrin(p) = z
    BY DEF Chrin, Rnrfrei
  <1>2. b \in Port /\ b.rembusy = p.rembusy
    BY <1>0 DEF Port
  <1> HIDE DEF b
  <1>3. Calm(b, s) /\ s \in Port
    BY <1>2, CalmSup DEF PFs
  <1> HIDE DEF s
  <1>4. r.rembusy = s.rembusy /\ r \in Port
    BY <1>3 DEF Port
  <1> HIDE DEF r
  <1>5. q.rembusy = p.rembusy /\ q \in Port
    BY <1>0, <1>2, <1>3, <1>4 DEF Calm
  <1> HIDE DEF q
  <1>6. z.rembusy = q.rembusy
    BY <1>5 DEF Port
  <1> HIDE DEF z
  <1>7. Chat(p, z)
    BY <1>0, <1>1, ChrinChat
  <1>8. Up(z) => Up(p)
    BY <1>7 DEF Chat, Phase, Linked, Up
  <1> QED
    BY <1>1, <1>5, <1>6, <1>7, <1>8, CredChat

LEMMA CredSubmit ==
    ASSUME NEW x, NEW k \in Int, Cred(x, k), Silent(x), Up(x)
    PROVE  Cred(Submit(x), k)
  <1> DEFINE p == Queued(x)
  <1>0. x \in Port
    BY DEF Cred
  <1>1. Submit(x) = Tryinfo(p)
    BY DEF Submit, Queued
  <1>2. /\ p \in Port /\ SameRx(x, p) /\ p.lstate = x.lstate /\ p.acked = x.acked
        /\ V(p) = V(x) /\ (Window(x) => Window(p))
    BY <1>0, QueuedIs, QueuedWindow
  <1>3. p.rembusy = x.rembusy
    BY <1>0 DEF Queued, Port
  <1> HIDE DEF p
  <1>4. Cred(p, k)
    BY <1>2, <1>3 DEF Cred, SameRx, Up
  <1> QED
    BY <1>1, <1>4, CredTryinfo

LEMMA CredDisconnect ==
    ASSUME NEW x, NEW k \in Int, Cred(x, k), Silent(x), NEW mode
    PROVE  Cred(Disconnect(x, mode), k) /\ (Up(Disconnect(x, mode)) => Up(x))
  <1> DEFINE q == Disconnect(x, mode)
  <1>0. x \in Port
    BY DEF Cred
  <1>1. Hush(x, q) /\ (Up(q) => q.rembusy = x.rembusy)
    BY <1>0, DisconnectHush, DisconnectCalm
  <1> HIDE DEF q
  <1> QED
    BY <1>1, CredHush DEF Hush, q

\* What the sending station does, one of losing apart: its window stays within
\* what the peer allows.
LEMMA TurnsCred ==
    ASSUME OneSession, L2LinkInv, NEW s \in Stations, Acts(s), ~Lose(s), ~ConnectTo(s),
           NEW k \in Int, Cred(port[s], k),
           \A i \in 1 .. Len(air[Peer(s)]) :
              LET f == air[Peer(s)][i] IN
              /\ f.type \notin {"I", "SABM"}
              /\ Up(port[s]) /\ f.type \in Numbered => Minus(f.nr, port[s].v1s) <= V(port[s]) - port[s].acked
              /\ Up(port[s]) /\ f.type \in Grants => port[s].acked + Minus(f.nr, port[s].v1s) <= k
    PROVE  \E q : /\ Cred(q, k) /\ (Up(q) => Up(port[s]))
                  /\ \/ Turned(s, q, air)
                     \/ /\ air[Peer(s)] # <<>>
                        /\ Turned(s, q, [air EXCEPT ![Peer(s)] = Tail(@)])
  <1> DEFINE x == port[s]
             t == Peer(s)
  <1>1. /\ t \in Stations /\ air \in [Stations -> Seq(GoodFrames)] /\ x \in Port /\ x.out = <<>>
        /\ (Up(x) => Window(x)) /\ Silent(x)
    <2>1. Silent(x) /\ x.out = <<>>
      BY DEF L2LinkInv, Silent, ToSet
    <2> QED
      BY <2>1, PeerIs DEF L2LinkInv, Aired, Cred
  <1> HIDE DEF t
  <1>2. CASE Receive(s)
    <2> DEFINE f == Head(air[t])
               q == Pacdec(x, f)
               heard == [air EXCEPT ![t] = Tail(@)]
    <2>1. air[t] # <<>> /\ Turned(s, q, heard)
      BY <1>2, StationSteps DEF t
    <2>2. f \in GoodFrames /\ f = air[t][1] /\ 1 \in 1 .. Len(air[t])
      <3>1. air[t] \in Seq(GoodFrames)
        BY <1>1
      <3> DEFINE h == air[t]
      <3> HIDE DEF h
      <3>2. h \in Seq(GoodFrames) /\ h # <<>> => Head(h) \in GoodFrames /\ Head(h) = h[1] /\ 1 \in 1 .. Len(h)
        BY TailIs
      <3> QED
        BY <2>1, <3>1, <3>2 DEF h
    <2> HIDE DEF f
    <2>3. /\ f.type \notin {"I", "SABM"}
          /\ Up(x) /\ f.type \in Numbered => Minus(f.nr, x.v1s) <= V(x) - x.acked
          /\ Up(x) /\ f.type \in Grants => x.acked + Minus(f.nr, x.v1s) <= k
      BY <2>2 DEF t
    <2> HIDE DEF x
    <2>4. Cred(q, k)
      BY <1>1, <2>2, <2>3, CredPacdec DEF x
    <2>5. Sends(x, q)
      BY <1>1, <2>2, <2>3, PacdecSends
    <2>6. Up(q) => Up(x)
      BY <2>5 DEF Sends
    <2> QED
      BY <2>1, <2>4, <2>6 DEF t, f, x
  <1>3. CASE Timer1(s)
    <2> DEFINE p == [x EXCEPT !.timer1 = FALSE]
    <2>1. Turned(s, T1tout(p), air)
      BY <1>3, StationSteps
    <2>2. Cred(p, k) /\ p.out = x.out /\ (Up(p) <=> Up(x))
      BY CredFlags
    <2> HIDE DEF p
    <2>3. Silent(p)
      BY <1>1, <2>2 DEF Silent
    <2>4. Cred(T1tout(p), k) /\ (Up(T1tout(p)) => Up(x))
      BY <2>2, <2>3, CredTimer
    <2> QED
      BY <2>1, <2>4
  <1>4. CASE Timer2(s)
    <2> DEFINE p == [x EXCEPT !.timer2 = FALSE]
    <2>1. Turned(s, Paccodsup(p, "response"), air)
      BY <1>4, StationSteps
    <2>2. Cred(p, k) /\ (Up(p) <=> Up(x))
      BY CredFlags
    <2> HIDE DEF p
    <2>3. Cred(Paccodsup(p, "response"), k) /\ (Up(Paccodsup(p, "response")) => Up(x))
      BY <2>2, CredSup1 DEF PFs
    <2> QED
      BY <2>1, <2>3
  <1>5. CASE Timer3(s)
    <2>1. Turned(s, T1tout(x), air)
      BY <1>5, StationSteps
    <2>2. Cred(T1tout(x), k) /\ (Up(T1tout(x)) => Up(x))
      BY <1>1, CredTimer
    <2> QED
      BY <2>1, <2>2
  <1>6. CASE Qtimer(s)
    <2>1. Turned(s, Disconnect(x, 1), air)
      BY <1>6, StationSteps
    <2> QED
      BY <1>1, <2>1, CredDisconnect
  <1>7. CASE \E mode \in Modes : DisconnectFrom(s, mode)
    <2>1. PICK mode \in Modes : DisconnectFrom(s, mode)
      BY <1>7
    <2>2. Turned(s, Disconnect(x, mode), air)
      BY <2>1, StationSteps
    <2> QED
      BY <1>1, <2>2, CredDisconnect
  <1>8. CASE SubmitData(s)
    <2>1. Up(x) /\ Turned(s, Submit(x), air)
      BY <1>8, StationSteps
    <2>2. Cred(Submit(x), k)
      BY <1>1, <2>1, CredSubmit
    <2> QED
      BY <2>1, <2>2
  <1>9. CASE Read(s)
    <2>1. Turned(s, Chrin(x), air)
      BY <1>9, StationSteps
    <2> QED
      BY <2>1, CredReads
  <1>10. ~Restart(s)
    BY DEF Restart, OneSession
  <1> QED
    BY <1>2, <1>3, <1>4, <1>5, <1>6, <1>7, <1>8, <1>9, <1>10 DEF Acts

\* how many pieces there may be before the peer has to wait: what has arrived
\* and what the receive queue still holds
Allowed(y) == Len(y.got) + MaxRx + 1 - y.rxlen

\* While the receiver is there: the sender's window, the frames with data under
\* way and the acknowledgements that let it go on stay within what is allowed.
Credit(x, y, a, b) ==
    /\ x \in Port /\ ~x.overrun /\ Lull(y, y.rxlen - Len(y.got))
    /\ Up(y) =>
        /\ Cred(x, Allowed(y)) /\ Edge(y) <= Allowed(y) + MaxFrame
        /\ \A i \in 1 .. Len(a) : a[i].type = "I" => Num(a[i]) + 1 <= Allowed(y) + MaxFrame
        /\ Up(x) => \A i \in 1 .. Len(b) :
                       b[i].type \in Grants => x.acked + Minus(b[i].nr, x.v1s) <= Allowed(y)

\* An acknowledgement tells the same piece after the window has moved.
LEMMA SameNumber ==
    ASSUME NEW x \in Port, Window(x), NEW z \in Port, Window(z), x.acked <= z.acked,
           NEW nr \in Numbers, NEW g \in Int, g <= V(x),
           Minus(nr, x.v1s) <= g - x.acked, Minus(nr, z.v1s) <= g - z.acked
    PROVE  z.acked + Minus(nr, z.v1s) = x.acked + Minus(nr, x.v1s)
  <1> DEFINE d == x.acked + Minus(nr, x.v1s)
             e == z.acked + Minus(nr, z.v1s)
             A == x.acked
             B == z.acked
             i == Minus(nr, A % M)
             j == Minus(nr, B % M)
  <1>1. x.v1s = A % M /\ z.v1s = B % M /\ A \in Nat /\ B \in Nat /\ V(x) \in Nat /\ V(x) <= A + MaxFrame
    BY WindowRange DEF Window
  <1>2. MaxFrame < M /\ M \in Nat /\ MaxFrame \in Nat
    BY Parameters
  <1>3. A % M \in Numbers /\ B % M \in Numbers
    BY <1>1, ModRange
  <1>4. i \in Nat /\ j \in Nat
    BY <1>3, MinusRange
  <1>5. (A + i) % M = nr /\ (B + j) % M = nr
    BY <1>1, SlotIs
  <1>6. d = A + i /\ e = B + j
    BY <1>1
  <1>7. i <= g - A /\ j <= g - B /\ A <= B
    BY <1>1
  <1> HIDE DEF A, B, i, j, d, e
  <1>8. d \in Nat /\ e \in Nat /\ d % M = e % M
    BY <1>1, <1>4, <1>5, <1>6
  <1>9. d <= e => e < d + M
    BY <1>1, <1>2, <1>4, <1>6, <1>7
  <1>10. e <= d => d < e + M
    BY <1>1, <1>2, <1>4, <1>6, <1>7
  <1>11. d <= e => d = e
    BY <1>8, <1>9, ModSame
  <1>12. e <= d => d = e
    BY <1>8, <1>10, ModSame
  <1>13. d = e
    BY <1>8, <1>11, <1>12
  <1> QED
    BY <1>13 DEF d, e

\* the port after the step, when its frames are on the air
LEMMA LullEmptied ==
    ASSUME NEW q, NEW j \in Int, Lull(q, j), NEW z, Emptied(q, z)
    PROVE  /\ z \in Port /\ Lull(z, z.rxlen - Len(z.got)) /\ ~z.overrun
           /\ Up(z) => z.rxlen <= Len(z.got) + j /\ (~z.busy => Allowed(z) >= Len(z.got))
           /\ Len(z.got) \in Nat /\ Allowed(z) \in Int /\ z.rxlen \in Nat
  <1>1. z \in Port /\ z.out = <<>> /\ SameRx(q, z) /\ SameTx(q, z) /\ z.lstate = q.lstate
        /\ z.busy = q.busy /\ z.rxlen = q.rxlen /\ z.qtimer = q.qtimer
    BY DEF Emptied, Near, Flow
  <1>2. Len(z.got) \in Nat /\ z.rxlen \in Nat /\ MaxRx \in Nat
    BY <1>1, PortTypes, PortAssumption
  <1>3. ToSet(z.out) = {}
    BY <1>1 DEF ToSet
  <1>4. z.rxlen <= Len(z.got) + (z.rxlen - Len(z.got)) /\ Allowed(z) \in Int
    BY <1>2 DEF Allowed
  <1>5. Lull(z, j)
    BY <1>1, <1>3 DEF Lull, SameRx, SameTx, Up
  <1>6. Lull(z, z.rxlen - Len(z.got))
    BY <1>4, <1>5 DEF Lull
  <1>7. z.rxlen <= MaxRx + 1 => Allowed(z) >= Len(z.got)
    BY <1>2 DEF Allowed
  <1> QED
    BY <1>1, <1>2, <1>4, <1>5, <1>6, <1>7 DEF Lull

\* a step of the sender
LEMMA SenderCredit ==
    ASSUME NEW x, NEW y, NEW a, NEW b, Link(x, y, a, b), Credit(x, y, a, b),
           NEW q, ~q.overrun, Up(y) => Cred(q, Allowed(y)), Up(q) => Up(x),
           NEW z, Emptied(q, z), NEW c, Behind(c, a, ToSet(q.out)),
           NEW d, d = b \/ (b # <<>> /\ d = Tail(b)), Link(z, y, c, d), x.acked <= z.acked
    PROVE  Credit(z, y, c, d)
  <1> DEFINE k == Allowed(y)
  <1>1. /\ z \in Port /\ ~z.overrun /\ SameTx(q, z) /\ z.lstate = q.lstate /\ z.rembusy = q.rembusy
        /\ z.out = <<>> /\ (Up(z) <=> Up(q))
    BY DEF Emptied, Near, SameRx, Flow, Up
  <1> SUFFICES ASSUME Up(y)
               PROVE  /\ Cred(z, k)
                      /\ \A i \in 1 .. Len(c) : c[i].type = "I" => Num(c[i]) + 1 <= k + MaxFrame
                      /\ Up(z) => \A i \in 1 .. Len(d) :
                            d[i].type \in Grants => z.acked + Minus(d[i].nr, z.v1s) <= k
    BY <1>1 DEF Credit
  <1>2. k \in Int /\ MaxFrame \in Nat /\ y \in Port /\ Len(y.got) \in Nat
    <2>1. y \in Port
      BY DEF Link, Shapes
    <2> QED
      BY <2>1, PortTypes, PortAssumption, Parameters DEF Allowed
  <1> HIDE DEF k
  <1>3. Cred(q, k)
    BY DEF k
  <1>4. Cred(z, k)
    <2>1. V(z) = V(q) /\ (Window(q) => Window(z)) /\ z.acked = q.acked
      BY <1>1, WindowSame DEF SameTx
    <2>2. Silent(z)
      BY <1>1 DEF Silent, ToSet
    <2> QED
      BY <1>1, <1>3, <2>1, <2>2 DEF Cred
  <1>5. ASSUME NEW i \in 1 .. Len(c), c[i].type = "I"
        PROVE  Num(c[i]) + 1 <= k + MaxFrame
    <2>1. CASE i \in 1 .. Len(a) /\ c[i] = a[i]
      BY <1>5, <2>1 DEF Credit, k
    <2>2. CASE c[i] \in ToSet(q.out)
      <3>1. Up(z) /\ V(z) <= k + MaxFrame
        BY <1>1, <1>3, <1>4, <1>5, <2>2 DEF Cred, Silent
      <3>2. Piece(z, y, c[i])
        BY <1>5 DEF Link, Carried
      <3>3. Num(c[i]) \in Nat /\ Num(c[i]) < V(z) /\ V(z) \in Int
        BY <1>1, <3>1, <3>2, PortTypes DEF Piece
      <3> QED
        BY <1>2, <3>1, <3>3
    <2> QED
      BY <2>1, <2>2 DEF Behind
  <1>6. ASSUME Up(z), NEW i \in 1 .. Len(d), d[i].type \in Grants
        PROVE  z.acked + Minus(d[i].nr, z.v1s) <= k
    <2> DEFINE f == d[i]
               g == Len(y.got)
    <2>1. b \in Seq(GoodFrames) /\ Up(x) /\ x \in Port
      BY <1>1, <1>6 DEF Link, Shapes
    <2>2. \E n \in 1 .. Len(b) : f = b[n]
      <3>1. CASE d = b
        BY <3>1
      <3>2. CASE b # <<>> /\ d = Tail(b)
        BY <2>1, <3>2, TailIs
      <3> QED
        BY <3>1, <3>2
    <2>3. PICK n \in 1 .. Len(b) : f = b[n]
      BY <2>2
    <2>4. f.type \in Numbered /\ f.nr \in Numbers
      <3>1. f \in GoodFrames
        BY <2>1, <2>3
      <3> QED
        BY <1>6, <3>1 DEF Grants, Numbered, GoodFrames, Frame
    <2>5. Minus(f.nr, x.v1s) <= g - x.acked /\ x.acked + Minus(f.nr, x.v1s) <= k
      BY <1>6, <2>1, <2>3, <2>4 DEF Link, Acks, Credit, k
    <2>6. Minus(f.nr, z.v1s) <= g - z.acked
      BY <1>6, <2>4 DEF Link, Acks
    <2>7. Window(x) /\ Window(z) /\ Edge(y) <= V(x)
      BY <1>6, <2>1 DEF Link, Ahead
    <2>8. g <= V(x) /\ g \in Int
      <3>1. g \in Nat /\ Edge(y) \in Nat /\ g <= Edge(y) /\ V(x) \in Int
        BY <1>2, <2>1, EdgeBounds, PortTypes
      <3> QED
        BY <2>7, <3>1
    <2> HIDE DEF f, g
    <2>9. z.acked + Minus(f.nr, z.v1s) = x.acked + Minus(f.nr, x.v1s)
      BY <1>1, <2>1, <2>4, <2>5, <2>6, <2>7, <2>8, SameNumber
    <2> QED
      BY <2>5, <2>9 DEF f
  <1> QED
    BY <1>4, <1>5, <1>6

\* a step of the receiver, which lets the sender go on only when it is not busy
LEMMA PeerCredit ==
    ASSUME NEW x, NEW y, NEW a, NEW b, Link(x, y, a, b), Credit(x, y, a, b),
           NEW q, NEW j, j = y.rxlen - Len(y.got), Lull(q, j), Up(q) => Up(y),
           NEW z, Emptied(q, z), NEW c, Behind(c, b, ToSet(q.out)),
           NEW d, d = a \/ (a # <<>> /\ d = Tail(a)), Link(x, z, d, c),
           Up(z) => \/ Edge(z) <= Edge(y)
                    \/ a # <<>> /\ Head(a).type = "I" /\ Edge(z) <= Num(Head(a)) + 1
    PROVE  Credit(x, z, d, c)
  <1> DEFINE k == Allowed(y)
             l == Allowed(z)
  <1>1. x \in Port /\ y \in Port /\ ~x.overrun /\ a \in Seq(GoodFrames)
    BY DEF Link, Shapes, Credit
  <1>2. /\ Len(y.got) \in Nat /\ y.rxlen \in Nat /\ MaxRx \in Nat /\ MaxFrame \in Nat /\ j \in Int
        /\ Edge(y) \in Nat
    BY <1>1, PortTypes, PortAssumption, Parameters, EdgeBounds
  <1>3. /\ z \in Port /\ Lull(z, z.rxlen - Len(z.got))
        /\ Up(z) => z.rxlen <= Len(z.got) + j /\ (~z.busy => Allowed(z) >= Len(z.got))
        /\ Len(z.got) \in Nat /\ l \in Int /\ z.rxlen \in Nat
    BY <1>2, LullEmptied
  <1>4. Up(z) <=> Up(q)
    BY DEF Emptied, Near, Up
  <1> SUFFICES ASSUME Up(z)
               PROVE  /\ Cred(x, l) /\ Edge(z) <= l + MaxFrame
                      /\ \A i \in 1 .. Len(d) : d[i].type = "I" => Num(d[i]) + 1 <= l + MaxFrame
                      /\ Up(x) => \A i \in 1 .. Len(c) :
                            c[i].type \in Grants => x.acked + Minus(c[i].nr, x.v1s) <= l
    BY <1>1, <1>3 DEF Credit
  <1>5. k \in Int /\ k <= l /\ Edge(z) \in Nat
    <2>1. Edge(z) \in Nat
      BY <1>3, EdgeBounds
    <2>2. k = MaxRx + 1 - j /\ j \in Int /\ MaxRx \in Nat
      BY <1>2 DEF Allowed
    <2>6. l = Len(z.got) + MaxRx + 1 - z.rxlen
      BY DEF Allowed
    <2>3. z.rxlen <= Len(z.got) + j
      BY <1>3
    <2> DEFINE g == Len(z.got)
               h == z.rxlen
    <2>5. g \in Nat /\ h \in Nat /\ h <= g + j /\ l = g + MaxRx + 1 - h
      BY <1>3, <2>3, <2>6
    <2> HIDE DEF k, l, g, h
    <2>4. k \in Int /\ k <= l
      BY <2>2, <2>5
    <2> QED
      BY <2>1, <2>4
  <1>6. /\ Cred(x, k) /\ Edge(y) <= k + MaxFrame
        /\ \A i \in 1 .. Len(a) : a[i].type = "I" => Num(a[i]) + 1 <= k + MaxFrame
        /\ Up(x) => \A i \in 1 .. Len(b) : b[i].type \in Grants => x.acked + Minus(b[i].nr, x.v1s) <= k
    BY <1>4 DEF Credit
  <1> HIDE DEF k, l
  <1>7. Cred(x, l)
    BY <1>3, <1>5, <1>6, CredMore
  <1>8. \A i \in 1 .. Len(a) : a[i].type = "I" => Num(a[i]) \in Nat /\ Num(a[i]) + 1 <= l + MaxFrame
    <2> SUFFICES ASSUME NEW i \in 1 .. Len(a), a[i].type = "I"
                 PROVE  Num(a[i]) \in Nat /\ Num(a[i]) + 1 <= l + MaxFrame
      OBVIOUS
    <2>1. Num(a[i]) \in Nat
      BY DEF Link, Carried, Piece
    <2>2. Num(a[i]) + 1 <= k + MaxFrame
      BY <1>6
    <2> HIDE DEF Num
    <2> QED
      BY <1>2, <1>3, <1>5, <2>1, <2>2
  <1>9. Edge(z) <= l + MaxFrame
    <2>1. CASE Edge(z) <= Edge(y)
      BY <1>2, <1>3, <1>5, <1>6, <2>1
    <2>2. CASE a # <<>> /\ Head(a).type = "I" /\ Edge(z) <= Num(Head(a)) + 1
      <3>1. Head(a) = a[1] /\ 1 \in 1 .. Len(a)
        BY <1>1, <2>2, TailIs
      <3>2. Num(a[1]) \in Nat /\ Num(a[1]) + 1 <= l + MaxFrame /\ Edge(z) <= Num(a[1]) + 1
        BY <1>8, <2>2, <3>1
      <3> QED
        BY <1>2, <1>3, <1>5, <3>2
    <2> QED
      BY <2>1, <2>2
  <1>10. \A i \in 1 .. Len(d) : d[i].type = "I" => Num(d[i]) + 1 <= l + MaxFrame
    <2>1. CASE d = a
      BY <1>8, <2>1
    <2>2. CASE a # <<>> /\ d = Tail(a)
      BY <1>1, <1>8, <2>2, TailIs
    <2> QED
      BY <2>1, <2>2
  <1>11. ASSUME Up(x), NEW i \in 1 .. Len(c), c[i].type \in Grants
         PROVE  x.acked + Minus(c[i].nr, x.v1s) <= l
    <2>1. c[i] \in GoodFrames
      BY DEF Behind
    <2>2. /\ c[i].type \in Numbered /\ c[i].nr \in Numbers /\ x.v1s \in Numbers /\ x.acked \in Nat
      BY <1>1, <1>11, <2>1, PortTypes DEF Grants, Numbered, GoodFrames, Frame
    <2>3. Minus(c[i].nr, x.v1s) \in Nat
      BY <2>2, MinusRange
    <2>4. CASE i \in 1 .. Len(b) /\ c[i] = b[i]
      <3>1. x.acked + Minus(c[i].nr, x.v1s) <= k
        BY <1>6, <1>11, <2>4
      <3> QED
        BY <1>3, <1>5, <2>2, <2>3, <3>1
    <2>5. CASE c[i] \in ToSet(q.out)
      <3>1. ~z.busy
        BY <1>11, <2>5 DEF Lull, Emptied
      <3>2. Len(z.got) <= l
        BY <1>3, <3>1 DEF l
      <3>3. Minus(c[i].nr, x.v1s) <= Len(z.got) - x.acked
        BY <1>11, <2>2 DEF Link, Acks
      <3> QED
        BY <1>3, <2>2, <2>3, <3>2, <3>3
    <2> QED
      BY <2>4, <2>5 DEF Behind
  <1> QED
    BY <1>7, <1>9, <1>10, <1>11

\* A session begins: the message of linkmsg is all that is in the queue.
LEMMA BeginCredit ==
    ASSUME NEW x, NEW z, NEW a, NEW c, Link(x, z, a, c), x.out = <<>>, ~x.overrun,
           NEW q, Lull(q, 1), q.rxlen = 1, Up(q) => Begins(q), Emptied(q, z)
    PROVE  Credit(x, z, a, c)
  <1> DEFINE l == Allowed(z)
  <1>1. x \in Port /\ z \in Port /\ c \in Seq(GoodFrames)
    BY DEF Link, Shapes
  <1>2. Lull(z, z.rxlen - Len(z.got))
    BY LullEmptied
  <1> SUFFICES ASSUME Up(z)
               PROVE  /\ Cred(x, l) /\ Edge(z) <= l + MaxFrame
                      /\ \A i \in 1 .. Len(a) : a[i].type = "I" => Num(a[i]) + 1 <= l + MaxFrame
                      /\ Up(x) => \A i \in 1 .. Len(c) :
                            c[i].type \in Grants => x.acked + Minus(c[i].nr, x.v1s) <= l
    BY <1>1, <1>2 DEF Credit
  <1>3. z.got = <<>> /\ z.rxlen = 1 /\ z.sammler = [n \in Numbers |-> NoInfo]
    BY DEF Begins, Emptied, Near, SameRx, Flow, Up
  <1>4. Edge(z) = 0 /\ Len(z.got) = 0
    <2>1. ~Kept(z)
      BY <1>1, <1>3, EdgeBounds DEF Kept
    <2> QED
      BY <1>3, <2>1 DEF Edge
  <1>5. l = MaxRx /\ MaxRx \in Nat /\ MaxFrame \in Nat
    BY <1>3, <1>4, PortAssumption, Parameters DEF Allowed
  <1> HIDE DEF l
  <1>6. Cred(x, l)
    <2>1. Silent(x)
      BY DEF Silent, ToSet
    <2>2. Up(x) => Window(x) /\ V(x) <= l + MaxFrame /\ x.acked <= l
      <3> SUFFICES ASSUME Up(x) PROVE Window(x) /\ V(x) <= l + MaxFrame /\ x.acked <= l
        OBVIOUS
      <3>1. Window(x) /\ x.acked <= 0 /\ V(x) <= x.acked + MaxFrame
        BY <1>4 DEF Link, Ahead, Window
      <3>2. x.acked \in Nat /\ V(x) \in Int
        BY <1>1, PortTypes
      <3> QED
        BY <1>5, <3>1, <3>2
    <2> QED
      BY <1>1, <2>1, <2>2 DEF Cred
  <1>7. ASSUME NEW i \in 1 .. Len(a), a[i].type = "I" PROVE Num(a[i]) + 1 <= l + MaxFrame
    <2>1. Num(a[i]) \in Nat /\ Num(a[i]) < 0 + MaxFrame
      BY <1>4, <1>7 DEF Link, Carried, Piece
    <2> QED
      BY <1>5, <2>1
  <1>8. ASSUME Up(x), NEW i \in 1 .. Len(c), c[i].type \in Grants
        PROVE  x.acked + Minus(c[i].nr, x.v1s) <= l
    <2>1. /\ c[i].type \in Numbered /\ c[i].nr \in Numbers /\ x.v1s \in Numbers /\ x.acked \in Nat
      BY <1>1, <1>8, PortTypes DEF Grants, Numbered, GoodFrames, Frame
    <2>2. Minus(c[i].nr, x.v1s) \in Nat
      BY <2>1, MinusRange
    <2>3. Minus(c[i].nr, x.v1s) <= 0 - x.acked
      BY <1>4, <1>8, <2>1 DEF Link, Acks
    <2> QED
      BY <1>5, <2>1, <2>2, <2>3
  <1> QED
    BY <1>4, <1>5, <1>6, <1>7, <1>8

\* the sender and its peer
CreditNow == Credit(port[Sender], port[Peer(Sender)], air[Sender], air[Peer(Sender)])

\* the sender's own window is all there is when no receiver is up
LEMMA CredSelf ==
    ASSUME NEW x \in Port, ~x.overrun, x.out = <<>>, Up(x) => Window(x)
    PROVE  Cred(x, x.acked + M) /\ Silent(x) /\ x.acked + M \in Int
  <1>1. Silent(x)
    BY DEF Silent, ToSet
  <1>2. x.acked \in Nat /\ V(x) \in Int /\ MaxFrame \in Nat /\ M \in Nat /\ MaxFrame < M
    BY PortTypes, Parameters
  <1>3. Up(x) => V(x) <= x.acked + MaxFrame
    BY DEF Window
  <1>4. (Up(x) => V(x) <= x.acked + M + MaxFrame) /\ x.acked <= x.acked + M /\ x.acked + M \in Int
    BY <1>2, <1>3
  <1> QED
    BY <1>1, <1>4 DEF Cred

\* what an acknowledgement on its way can do
LEMMA GrantsAhead ==
    ASSUME NEW x, NEW y, NEW a, NEW b, Link(x, y, a, b), Up(x), NEW i \in 1 .. Len(b),
           b[i].type \in Numbered
    PROVE  /\ Minus(b[i].nr, x.v1s) \in Nat /\ Minus(b[i].nr, x.v1s) <= V(x) - x.acked
           /\ x.acked \in Nat /\ V(x) <= x.acked + MaxFrame
  <1>1. x \in Port /\ y \in Port /\ b[i] \in GoodFrames
    BY DEF Link, Shapes
  <1>2. b[i].nr \in Numbers /\ x.v1s \in Numbers /\ x.acked \in Nat /\ V(x) \in Int
    BY <1>1, PortTypes DEF Numbered, GoodFrames, Frame
  <1>3. Minus(b[i].nr, x.v1s) \in Nat
    BY <1>2, MinusRange
  <1>4. Minus(b[i].nr, x.v1s) <= Len(y.got) - x.acked
    BY DEF Link, Acks
  <1>5. Len(y.got) \in Nat /\ Edge(y) \in Nat /\ Len(y.got) <= Edge(y)
    BY <1>1, EdgeBounds
  <1>6. Edge(y) <= V(x) /\ V(x) <= x.acked + MaxFrame
    BY DEF Link, Ahead, Window
  <1> QED
    BY <1>2, <1>3, <1>4, <1>5, <1>6

\* the credit of a station whose receiver may be down
Bound(x, y) == IF Up(y) THEN Allowed(y) ELSE x.acked + M

\* Whatever the sender does, the credit is kept.
LEMMA CreditSender ==
    ASSUME OneSession, L2LinkInv, StreamLinked, AloneNow, CreditNow, Acts(Sender)
    PROVE  CreditNow' /\ ~port'[Sender].overrun /\ ~port'[Peer(Sender)].overrun
  <1> DEFINE s == Sender
             t == Peer(s)
             x == port[s]
             y == port[t]
             a == air[s]
             b == air[t]
             k == Bound(x, y)
  <1>1. /\ s \in Stations /\ t \in Stations /\ t # s /\ air \in [Stations -> Seq(GoodFrames)]
        /\ a \in Seq(GoodFrames) /\ b \in Seq(GoodFrames) /\ x.out = <<>> /\ x \in Port /\ y \in Port
        /\ x.acked \in Nat
    BY StationsAre DEF OneSession
  <1>2. Link(x, y, a, b) /\ Credit(x, y, a, b) /\ \A i \in 1 .. Len(b) : b[i].type # "I"
    BY DEF StreamLinked, CreditNow, AloneNow, Alone
  <1>3. x.sess = 1 /\ (\A i \in 1 .. Len(b) : b[i].type # "SABM") /\ (Up(x) => Window(x)) /\ ~x.overrun
        /\ ~y.overrun
    BY <1>2 DEF Link, Shapes, Setup, Ahead, Credit, Lull
  <1>4. Link(port'[s], port'[t], air'[s], air'[t]) /\ x.acked <= port'[s].acked
    <2>1. StreamLinked' /\ Goes
      BY SenderSteps
    <2>2. x.acked <= port'[s].acked
      BY <1>1, <2>1 DEF Goes
    <2> QED
      BY <2>1, <2>2 DEF StreamLinked
  <1>5. k \in Int /\ Cred(x, k) /\ (Up(y) => k = Allowed(y))
    <2>1. Allowed(y) \in Int
      BY <1>1, PortTypes, PortAssumption DEF Allowed
    <2>2. Up(y) => Cred(x, Allowed(y))
      BY <1>2 DEF Credit
    <2>3. Cred(x, x.acked + M) /\ x.acked + M \in Int
      BY <1>1, <1>3, CredSelf
    <2> QED
      BY <2>1, <2>2, <2>3 DEF Bound
  <1> SUFFICES Credit(port'[s], port'[t], air'[s], air'[t]) /\ ~port'[s].overrun /\ ~port'[t].overrun
    BY DEF CreditNow
  <1> HIDE DEF s, t, k
  <1>6. CASE Lose(s)
    <2>1. a # <<>> /\ port' = port /\ air'[s] = Tail(a) /\ air'[t] = b
      BY <1>1, <1>6 DEF Lose
    <2>2. \A i \in 1 .. Len(Tail(a)) : i + 1 \in 1 .. Len(a) /\ Tail(a)[i] = a[i + 1]
      <3> HIDE DEF a
      <3> QED
        BY <1>1, <2>1, TailIs
    <2>3. Credit(x, y, Tail(a), b)
      <3> HIDE DEF a, b, x, y
      <3> QED
        BY <1>2, <2>2 DEF Credit
    <2> QED
      BY <1>3, <2>1, <2>3
  <1>7. CASE ~Lose(s)
    <2>1. ~ConnectTo(s)
      BY <1>3 DEF ConnectTo, OneSession
    <2>2. Peer(s) = t /\ Acts(s)
      BY DEF s, t
    <2>3. \A i \in 1 .. Len(air[Peer(s)]) :
            LET f == air[Peer(s)][i] IN
            /\ f.type \notin {"I", "SABM"}
            /\ Up(port[s]) /\ f.type \in Numbered => Minus(f.nr, port[s].v1s) <= V(port[s]) - port[s].acked
            /\ Up(port[s]) /\ f.type \in Grants => port[s].acked + Minus(f.nr, port[s].v1s) <= k
      <3> SUFFICES ASSUME NEW i \in 1 .. Len(b)
                   PROVE  /\ b[i].type \notin {"I", "SABM"}
                          /\ Up(x) /\ b[i].type \in Numbered => Minus(b[i].nr, x.v1s) <= V(x) - x.acked
                          /\ Up(x) /\ b[i].type \in Grants => x.acked + Minus(b[i].nr, x.v1s) <= k
        BY <2>2
      <3> HIDE DEF x, y, a, b
      <3>1. Up(x) /\ b[i].type \in Numbered => Minus(b[i].nr, x.v1s) <= V(x) - x.acked
        BY <1>2, GrantsAhead
      <3>2. ASSUME Up(x), b[i].type \in Grants PROVE x.acked + Minus(b[i].nr, x.v1s) <= k
        <4>1. CASE Up(y)
          BY <1>2, <1>5, <3>2, <4>1 DEF Credit
        <4>2. CASE ~Up(y)
          <5>1. b[i].type \in Numbered
            BY <3>2 DEF Grants, Numbered
          <5> DEFINE m == Minus(b[i].nr, x.v1s)
                     v == V(x)
          <5>2. m \in Nat /\ m <= v - x.acked /\ v <= x.acked + MaxFrame
            BY <1>2, <3>2, <5>1, GrantsAhead
          <5>3. v \in Int /\ MaxFrame \in Nat /\ M \in Nat /\ MaxFrame < M
            BY <1>1, PortTypes, Parameters
          <5>4. k = x.acked + M
            BY <4>2 DEF k, Bound, x, y
          <5> HIDE DEF m, v
          <5>5. x.acked + m <= k
            BY <1>1, <5>2, <5>3, <5>4
          <5> QED
            BY <5>5 DEF m
        <4> QED
          BY <4>1, <4>2
      <3> QED
        BY <1>2, <1>3, <3>1, <3>2
    <2>4. PICK q : /\ Cred(q, k) /\ (Up(q) => Up(port[s]))
                   /\ \/ Turned(s, q, air)
                      \/ b # <<>> /\ Turned(s, q, [air EXCEPT ![t] = Tail(@)])
      <3>1. Cred(port[s], k)
        BY <1>5
      <3> QED
        BY <1>1, <1>5, <1>7, <2>1, <2>2, <2>3, <3>1, TurnsCred
    <2>5. /\ Emptied(q, port'[s]) /\ Behind(air'[s], a, ToSet(q.out)) /\ port'[t] = y
          /\ air'[t] = b \/ (b # <<>> /\ air'[t] = Tail(b))
      BY <1>1, <2>2, <2>4 DEF Turned
    <2>6. ~q.overrun /\ (Up(y) => Cred(q, Allowed(y))) /\ (Up(q) => Up(x))
      BY <1>5, <2>4 DEF Cred
    <2>7. Credit(port'[s], y, air'[s], air'[t])
      <3>1. Link(port'[s], y, air'[s], air'[t])
        BY <1>4, <2>5
      <3> DEFINE z == port'[s]
                 c == air'[s]
                 d == air'[t]
      <3> HIDE DEF x, y, a, b, z, c, d
      <3>2. /\ Link(z, y, c, d) /\ Emptied(q, z) /\ Behind(c, a, ToSet(q.out))
            /\ d = b \/ (b # <<>> /\ d = Tail(b))
            /\ x.acked <= z.acked
        BY <1>4, <2>5, <3>1 DEF z, c, d, x
      <3>3. Credit(z, y, c, d)
        BY <1>2, <2>6, <3>2, SenderCredit
      <3> QED
        BY <3>3 DEF z, c, d
    <2> QED
      BY <1>3, <2>5, <2>7 DEF Credit
  <1> QED
    BY <1>6, <1>7

\* The window of the sender fits into the places beyond maxrx.
LEMMA CreditRoom ==
    ASSUME MaxFrame < RxRoom, NEW x, NEW y, NEW a, NEW b, Link(x, y, a, b), Credit(x, y, a, b), Up(y),
           NEW f, Piece(x, y, f), Num(f) + 1 <= Allowed(y) + MaxFrame
    PROVE  RoomFor(y, f)
  <1> DEFINE g == Len(y.got)
             n == Num(f)
             h == y.rxlen
  <1>1. y \in Port /\ g \in Nat /\ h \in Nat /\ MaxFrame \in Nat /\ MaxRx \in Nat /\ RxRoom \in Int
    <2>1. y \in Port
      BY DEF Link, Shapes
    <2> QED
      BY <2>1, PortTypes, PortAssumption, Parameters
  <1> SUFFICES ASSUME f.ns = y.vr
               PROVE  /\ h < MaxRx + RxRoom
                      /\ y.sammler[Plus(y.vr, 1)] # NoInfo => h + 1 < MaxRx + RxRoom
    BY DEF RoomFor
  <1>2. n \in Nat /\ f.ns = n % M /\ n < g + MaxFrame /\ Edge(y) <= n + MaxFrame
    BY DEF Piece
  <1>3. y.vr = g % M
    BY DEF Link, Arrived
  <1>4. Edge(y) \in Nat /\ g <= Edge(y)
    BY <1>1, EdgeBounds
  <1>5. n + 1 <= g + MaxRx + 1 - h + MaxFrame /\ Edge(y) <= g + MaxRx + 1 - h + MaxFrame
    BY DEF Credit, Allowed
  <1>6. y.sammler[Plus(y.vr, 1)] # NoInfo => Edge(y) = g + 2
    BY DEF Edge, Kept
  <1>7. n % M = g % M
    BY <1>2, <1>3
  <1> HIDE DEF n, g, h
  <1>8. g <= n + MaxFrame
    BY <1>1, <1>2, <1>4
  <1>9. n = g
    BY <1>1, <1>2, <1>7, <1>8, NextNumber
  <1>10. h < MaxRx + RxRoom
    BY <1>1, <1>5, <1>9
  <1>11. y.sammler[Plus(y.vr, 1)] # NoInfo => h + 1 < MaxRx + RxRoom
    BY <1>1, <1>5, <1>6
  <1> QED
    BY <1>10, <1>11

\* A station that has submitted nothing has nothing to send.
LEMMA BareSpent ==
    ASSUME NEW y, Bare(y), Up(y)
    PROVE  Spent(y)
  <1>1. y \in Port /\ Window(y) /\ y.sub = 0
    BY DEF Bare
  <1>2. /\ y.acked \in Nat /\ V(y) \in Nat /\ y.acked <= V(y) /\ V(y) <= y.sub
    BY <1>1, WindowRange
  <1>3. y.txinfout \in Seq(Pieces) /\ Len(y.txinfout) \in Nat
    BY <1>1, PortTypes
  <1>4. V(y) = y.acked
    BY <1>1, <1>2
  <1>5. Len(y.txinfout) = 0
    BY <1>1, <1>2, <1>3 DEF V
  <1>6. y.txinfout = <<>>
    <2> DEFINE l == y.txinfout
    <2> HIDE DEF l
    <2>1. l \in Seq(Pieces) /\ Len(l) = 0 => l = <<>>
      OBVIOUS
    <2> QED
      BY <1>3, <1>5, <2>1 DEF l
  <1>7. y.vs = y.v1s
    BY <1>1, <1>4 DEF Window
  <1> QED
    BY <1>6, <1>7 DEF Spent

\* what the peer does, receiving, losing and connecting apart
LEMMA PeerCalls ==
    ASSUME OneSession, L2LinkInv, NEW t \in Stations, MaxData[t] = 0, Bare(port[t]),
           Acts(t), ~Lose(t), ~ConnectTo(t), ~Receive(t), port[t].lstate # "link_setup",
           NEW j \in Int, Lull(port[t], j)
    PROVE  \E q : /\ Lull(q, j) /\ (Up(q) => Up(port[t]) /\ SameRx(port[t], q))
                  /\ Turned(t, q, air)
  <1> DEFINE y == port[t]
  <1>1. y \in Port /\ ~y.qtimer
    BY DEF Bare, Lull
  <1>2. CASE Timer1(t)
    <2> DEFINE p == [y EXCEPT !.timer1 = FALSE]
    <2>1. Turned(t, T1tout(p), air)
      BY <1>2, StationSteps
    <2>2. p \in Port /\ SameRx(y, p) /\ p.lstate = y.lstate
      BY <1>1, FlagsLevel DEF Level, Near
    <2>3. Lull(p, j)
      <3>1. Calm(y, p)
        BY <1>1, CalmFlags
      <3> QED
        BY <2>2, <3>1, LullCalm
    <2> HIDE DEF p
    <2>4. Calm(p, T1tout(p)) \/ Shut(p, T1tout(p))
      BY <2>2, T1toutCalm
    <2>5. Chat(p, T1tout(p)) \/ Hush(p, T1tout(p))
      BY <2>2, T1toutIs
    <2>6. T1tout(p) \in Port /\ (Up(T1tout(p)) => Up(p) /\ SameRx(p, T1tout(p)))
      BY <2>5 DEF Chat, Hush, Phase, Linked, Up
    <2>7. Lull(T1tout(p), j)
      BY <2>3, <2>4, <2>6, LullCalm, LullShut
    <2> QED
      BY <2>1, <2>2, <2>6, <2>7 DEF Up, SameRx
  <1>3. CASE Timer2(t)
    <2> DEFINE p == [y EXCEPT !.timer2 = FALSE]
               q == Paccodsup(p, "response")
    <2>1. Turned(t, q, air)
      BY <1>3, StationSteps
    <2>2. p \in Port /\ SameRx(y, p) /\ p.lstate = y.lstate
      BY <1>1, FlagsLevel DEF Near
    <2>3. Calm(y, p)
      BY <1>1, CalmFlags
    <2> HIDE DEF p
    <2>4. Calm(p, q) /\ q \in Port
      BY <2>2, CalmSup DEF PFs
    <2>5. Chat(p, q)
      BY <2>2, PaccodsupChat DEF PFs
    <2> HIDE DEF q
    <2>6. Lull(q, j)
      BY <2>2, <2>3, <2>4, LullCalm
    <2>7. Up(q) => Up(y) /\ SameRx(y, q)
      BY <2>2, <2>5 DEF Chat, Phase, Linked, Up, SameRx
    <2> QED
      BY <2>1, <2>6, <2>7
  <1>4. CASE Timer3(t)
    <2>1. Turned(t, T1tout(y), air)
      BY <1>4, StationSteps
    <2>2. Calm(y, T1tout(y)) \/ Shut(y, T1tout(y))
      BY <1>1, T1toutCalm
    <2>3. Chat(y, T1tout(y)) \/ Hush(y, T1tout(y))
      BY <1>1, T1toutIs
    <2>4. T1tout(y) \in Port /\ (Up(T1tout(y)) => Up(y) /\ SameRx(y, T1tout(y)))
      BY <2>3 DEF Chat, Hush, Phase, Linked, Up
    <2>5. Lull(T1tout(y), j)
      BY <2>2, <2>4, LullCalm, LullShut
    <2> QED
      BY <2>1, <2>4, <2>5
  <1>5. ~Qtimer(t)
    BY <1>1 DEF Qtimer
  <1>6. CASE \E mode \in Modes : DisconnectFrom(t, mode)
    <2>1. PICK mode \in Modes : DisconnectFrom(t, mode)
      BY <1>6
    <2> DEFINE q == Disconnect(y, mode)
    <2>2. Turned(t, q, air) /\ Up(y)
      BY <2>1, StationSteps DEF DisconnectFrom, Up
    <2>3. Hush(y, q)
      BY <1>1, DisconnectHush
    <2>4. Calm(y, q) \/ Shut(y, q)
      BY <1>1, <2>2, BareSpent, DisconnectCalm
    <2> HIDE DEF q
    <2>5. Lull(q, j)
      BY <2>3, <2>4, LullCalm, LullShut DEF Hush
    <2> QED
      BY <2>2, <2>3, <2>5 DEF Hush
  <1>7. ~SubmitData(t)
    BY DEF SubmitData, Bare
  <1>8. CASE Read(t)
    <2>1. Turned(t, Chrin(y), air)
      BY <1>8, StationSteps
    <2>2. Near(y, Chrin(y))
      BY <1>1, ChrinChat
    <2> QED
      BY <2>1, <2>2, LullChrin DEF Near, Up
  <1>9. ~Restart(t)
    BY DEF Restart, OneSession
  <1> QED
    BY <1>2, <1>3, <1>4, <1>5, <1>6, <1>7, <1>8, <1>9 DEF Acts

\* a frame from the sender, when the receiver has no second session
LEMMA PeerReceives ==
    ASSUME MaxFrame < RxRoom, QuitsApart, NEW x, NEW y, NEW a, NEW b, Link(x, y, a, b),
           Credit(x, y, a, b), x.out = <<>>, y.out = <<>>, a # <<>>,
           NEW q, q = Pacdec(y, Head(a)), q.sess <= 1,
           NEW z, Emptied(q, z), NEW c, Behind(c, b, ToSet(q.out))
    PROVE  Credit(x, z, Tail(a), c) /\ ~z.overrun
  <1> DEFINE f == Head(a)
             t == Tail(a)
             j == y.rxlen - Len(y.got)
  <1>1. /\ x \in Port /\ y \in Port /\ Off(y) /\ y.lstate # "link_setup" /\ a \in Seq(GoodFrames)
        /\ ~x.overrun /\ Lull(y, j)
    BY DEF Link, Shapes, Credit
  <1>2. /\ f \in GoodFrames /\ f = a[1] /\ 1 \in 1 .. Len(a)
        /\ \A k \in 1 .. Len(t) : k + 1 \in 1 .. Len(a) /\ t[k] = a[k + 1]
    BY <1>1, TailIs
  <1>3. Link(x, y, t, b) /\ (f.type = "I" => Piece(x, y, f))
    BY LoseFirst
  <1>4. f.type = "I" /\ Up(y) => Apart(y, f) /\ RoomFor(y, f)
    <2> SUFFICES ASSUME f.type = "I", Up(y) PROVE Apart(y, f) /\ RoomFor(y, f)
      OBVIOUS
    <2>1. Piece(x, y, f) /\ Num(f) + 1 <= Allowed(y) + MaxFrame
      <3>1. a[1].type = "I" => Num(a[1]) + 1 <= Allowed(y) + MaxFrame
        BY <1>2 DEF Credit
      <3> QED
        BY <1>2, <1>3, <3>1
    <2> QED
      BY <2>1, PiecesApart, CreditRoom
  <1>5. j \in Int /\ q.sess \in Nat
    <2>1. z \in Port /\ q.sess = z.sess
      BY DEF Emptied, Near, SameTx
    <2> QED
      BY <1>1, <2>1, PortTypes
  <1>6. (Lull(q, j) /\ (Up(q) => Up(y))) \/ (~Up(y) /\ Lull(q, 1) /\ q.rxlen = 1)
    <2>1. (Lull(q, j) /\ (Up(q) => Up(y))) \/ q.sess > 1 \/ (~Up(y) /\ Lull(q, 1) /\ q.rxlen = 1)
      BY <1>1, <1>2, <1>4, <1>5, LullPacdec
    <2>2. ~(q.sess > 1)
      BY <1>5
    <2> QED
      BY <2>1, <2>2
  <1>7. ~q.overrun /\ ~z.overrun
    BY <1>6 DEF Lull, Emptied, Near, SameRx
  <1>8. /\ Link(x, z, t, c)
        /\ Edge(z) <= Edge(y) \/ (f.type = "I" /\ Edge(z) <= Num(f) + 1)
    BY <1>7, ReceiverReceives
  <1>9. CASE Lull(q, j) /\ (Up(q) => Up(y))
    <2> HIDE DEF f, t, j
    <2>1. t = a \/ (a # <<>> /\ t = Tail(a))
      BY DEF t
    <2>2. Up(z) => Edge(z) <= Edge(y) \/ (a # <<>> /\ Head(a).type = "I" /\ Edge(z) <= Num(Head(a)) + 1)
      BY <1>8 DEF f
    <2>3. j = y.rxlen - Len(y.got)
      BY DEF j
    <2>4. Credit(x, z, t, c)
      BY <1>5, <1>8, <1>9, <2>1, <2>2, <2>3, PeerCredit
    <2> QED
      BY <1>7, <2>4 DEF t
  <1>10. CASE ~Up(y) /\ Lull(q, 1) /\ q.rxlen = 1
    <2>1. Up(q) => Begins(q)
      <3>2. f.type = "I" => Apart(y, f)
        BY <1>3, PiecesApart
      <3>3. q = Pacdec(y, f)
        OBVIOUS
      <3> HIDE DEF f
      <3>1. \/ Answers(y, q)
            \/ f.type = "SABM" /\ Begins(q)
            \/ f.type = "I" /\ Up(y) /\ Receives(y, q, f)
        BY <1>1, <1>2, <1>7, <3>2, <3>3, PacdecReceives
      <3> QED
        BY <1>10, <3>1 DEF Answers
    <2> HIDE DEF f, t, j
    <2>2. Credit(x, z, t, c)
      BY <1>1, <1>8, <1>10, <2>1, BeginCredit
    <2> QED
      BY <1>7, <2>2 DEF t
  <1> QED
    BY <1>6, <1>9, <1>10

\* the receiver has no second session
OneConnection == port[Peer(Sender)].sess <= 1

\* Whatever its peer does, the credit is kept and nothing is dropped.
LEMMA CreditPeer ==
    ASSUME OneSession, MaxFrame < RxRoom, MaxData[Peer(Sender)] = 0, L2LinkInv, StreamLinked, AloneNow,
           CreditNow, OneConnection', Acts(Peer(Sender))
    PROVE  CreditNow' /\ ~port'[Sender].overrun /\ ~port'[Peer(Sender)].overrun
  <1> DEFINE s == Sender
             t == Peer(s)
             x == port[s]
             y == port[t]
             a == air[s]
             b == air[t]
             z == port'[t]
             c == air'[t]
             d == air'[s]
             j == y.rxlen - Len(y.got)
  <1>1. /\ s \in Stations /\ t \in Stations /\ t # s /\ Peer(t) = s /\ y.out = <<>> /\ x.out = <<>>
        /\ y \in Port /\ air \in [Stations -> Seq(GoodFrames)] /\ b \in Seq(GoodFrames)
    BY StationsAre DEF OneSession
  <1>2. Link(x, y, a, b) /\ Credit(x, y, a, b) /\ Bare(y) /\ ~x.overrun
    BY DEF StreamLinked, CreditNow, AloneNow, Alone, Credit
  <1>3. y.lstate # "link_setup" /\ Lull(y, j) /\ ~y.overrun /\ j \in Int
    BY <1>1, <1>2, PortTypes DEF Link, Shapes, Credit, Lull
  <1>4. Acts(t) /\ MaxData[t] = 0 /\ z.sess <= 1 /\ ~ConnectTo(t)
    BY <1>1 DEF ConnectTo, OneSession, OneConnection, s, t
  <1> SUFFICES Credit(port'[s], z, d, c) /\ ~port'[s].overrun /\ ~z.overrun
    BY DEF CreditNow
  <1> HIDE DEF s, t, j
  <1>5. CASE Receive(t)
    <2> DEFINE q == Pacdec(y, Head(a))
               heard == [air EXCEPT ![s] = Tail(a)]
    <2>1. a # <<>> /\ Turned(t, q, heard)
      BY <1>1, <1>5, StationSteps
    <2>2. heard[s] = Tail(a) /\ heard[t] = b
      BY <1>1
    <2>3. Emptied(q, z) /\ Behind(c, b, ToSet(q.out)) /\ port'[s] = x /\ d = Tail(a)
      BY <1>1, <2>1, <2>2 DEF Turned
    <2>4. QuitsApart /\ q.sess <= 1
      <3>1. q.sess = z.sess
        BY <2>3 DEF Emptied, Near, SameTx
      <3> QED
        BY <1>4, <3>1 DEF OneSession
    <2>5. Credit(x, z, Tail(a), c) /\ ~z.overrun
      <3>1. q = Pacdec(y, Head(a))
        OBVIOUS
      <3> HIDE DEF z, c, x, y, a, b, d, q
      <3> QED
        BY <1>1, <1>2, <2>1, <2>3, <2>4, <3>1, PeerReceives
    <2> QED
      BY <1>2, <2>3, <2>5
  <1>6. CASE Lose(t)
    <2>1. b # <<>> /\ port' = port /\ c = Tail(b) /\ d = a
      BY <1>1, <1>6 DEF Lose
    <2>2. \A i \in 1 .. Len(Tail(b)) : i + 1 \in 1 .. Len(b) /\ Tail(b)[i] = b[i + 1]
      <3> HIDE DEF b
      <3> QED
        BY <1>1, <2>1, TailIs
    <2>3. Credit(x, y, a, Tail(b))
      <3> HIDE DEF a, b, x, y
      <3> QED
        BY <1>2, <2>2 DEF Credit
    <2> QED
      BY <1>2, <1>3, <2>1, <2>3
  <1>7. CASE ~Receive(t) /\ ~Lose(t)
    <2>1. PICK q : /\ Lull(q, j) /\ (Up(q) => Up(y) /\ SameRx(y, q)) /\ Turned(t, q, air)
      BY <1>1, <1>2, <1>3, <1>4, <1>7, PeerCalls
    <2>2. Emptied(q, z) /\ Behind(c, b, ToSet(q.out)) /\ port'[s] = x /\ d = a
      BY <1>1, <2>1 DEF Turned
    <2>3. ~z.overrun
      BY <2>1, <2>2 DEF Lull, Emptied, Near, SameRx
    <2>4. Link(x, z, a, c)
      <3>1. NothingDropped'
        <4>1. port'[s] = x /\ \A r \in Stations : r = s \/ r = t
          BY <2>2, StationsAre DEF OneSession, s, t
        <4> QED
          BY <1>2, <2>3, <4>1 DEF NothingDropped
      <3>2. StreamLinked'
        BY <3>1, ReceiverSteps
      <3> QED
        BY <2>2, <3>2 DEF StreamLinked, s, t
    <2>5. Up(z) => Edge(z) <= Edge(y)
      <3> SUFFICES ASSUME Up(z) PROVE Edge(z) <= Edge(y)
        OBVIOUS
      <3>1. SameRx(q, z) /\ Up(q)
        BY <2>2 DEF Emptied, Near, Up
      <3>2. z.got = y.got /\ z.sammler = y.sammler /\ z.vr = y.vr
        BY <2>1, <3>1 DEF SameRx
      <3>3. Edge(z) = Edge(y) /\ Edge(y) \in Nat
        BY <1>1, <3>2, EdgeBounds DEF Edge, Kept
      <3> QED
        BY <3>3
    <2>6. Credit(x, z, a, c)
      <3>1. j = y.rxlen - Len(y.got)
        BY DEF j
      <3> HIDE DEF z, c, x, y, a, b, d
      <3> QED
        BY <1>2, <1>3, <2>1, <2>2, <2>4, <2>5, <3>1, PeerCredit
    <2> QED
      BY <1>2, <2>2, <2>3, <2>6
  <1> QED
    BY <1>5, <1>6, <1>7

\* the first call
LEMMA CreditFirst ==
    ASSUME OneSession, L2LinkInv, Init
    PROVE  NothingDropped /\ (Next => NothingDropped' /\ CreditNow')
  <1> DEFINE s == Sender
             t == Peer(s)
             i == Idle
  <1>1. s \in Stations /\ t \in Stations /\ \A r \in Stations : r = s \/ r = t
    BY StationsAre DEF OneSession
  <1>2. /\ i \in Port /\ ~i.overrun /\ i.lstate = "disconnected" /\ i.sess = 0 /\ i.rxlen = 0
        /\ ~i.qtimer /\ i.out = <<>> /\ ~i.busy /\ i.got = <<>>
    BY IdlePort DEF Idle
  <1>3. port[s] = i /\ port[t] = i
    BY <1>1 DEF Init
  <1>4. NothingDropped
    BY <1>1, <1>2, <1>3 DEF NothingDropped
  <1>5. ASSUME Next PROVE NothingDropped' /\ CreditNow'
    <2>1. port'[t] = i /\ air'[t] = <<>>
      BY <1>5, FirstCall
    <2>2. PICK q : Linking(q) /\ Emptied(q, port'[s]) /\ Behind(air'[s], <<>>, ToSet(q.out))
      BY <1>5, FirstCall
    <2> HIDE DEF i, s, t
    <2>3. port'[s] \in Port /\ ~port'[s].overrun
      BY <2>2 DEF Emptied, Near, SameRx, Linking
    <2>4. Lull(i, i.rxlen - Len(i.got)) /\ ~Up(i)
      <3>1. ToSet(i.out) = {}
        BY <1>2 DEF ToSet
      <3> QED
        BY <1>2, <3>1 DEF Lull, Up
    <2>5. Credit(port'[s], i, air'[s], <<>>)
      BY <2>3, <2>4 DEF Credit
    <2>6. NothingDropped'
      BY <1>1, <1>2, <2>1, <2>3 DEF NothingDropped
    <2> QED
      BY <2>1, <2>5, <2>6 DEF CreditNow, s, t
  <1> QED
    BY <1>4, <1>5

\* before the first call, and while the link is there
CreditIInv == Init \/ (StreamLinked /\ CreditNow)

LEMMA CreditSteps ==
    ASSUME OneSession, MaxFrame < RxRoom, MaxData[Peer(Sender)] = 0, L2LinkInv, CreditIInv, AloneNow,
           OneConnection', [Next]_vars, NothingDropped
    PROVE  NothingDropped' /\ (StreamIInv' => CreditIInv')
  <1>1. CASE UNCHANGED vars
    <2>1. CreditIInv' /\ NothingDropped'
      BY <1>1 DEF vars, CreditIInv, Init, StreamLinked, CreditNow, NothingDropped
    <2> QED
      BY <2>1
  <1>2. CASE Next /\ Init
    <2>1. NothingDropped' /\ CreditNow' /\ StreamLinked'
      BY <1>2, CreditFirst, FirstStep
    <2> QED
      BY <2>1 DEF CreditIInv
  <1>3. CASE Next /\ StreamLinked /\ CreditNow
    <2>1. \A s \in Stations : s = Sender \/ s = Peer(Sender)
      BY StationsAre DEF OneSession
    <2>2. \E s \in Stations : Acts(s)
      BY <1>3 DEF Next, Acts
    <2>3. Acts(Sender) \/ Acts(Peer(Sender))
      BY <2>1, <2>2
    <2>4. CreditNow' /\ ~port'[Sender].overrun /\ ~port'[Peer(Sender)].overrun
      BY <1>3, <2>3, CreditSender, CreditPeer
    <2>5. NothingDropped'
      BY <2>1, <2>4 DEF NothingDropped
    <2>6. StreamLinked'
      BY <1>3, <2>3, <2>5, SenderSteps, ReceiverSteps
    <2> QED
      BY <2>4, <2>5, <2>6 DEF CreditIInv
  <1> QED
    BY <1>1, <1>2, <1>3 DEF CreditIInv

\* one station sends, in one connection, and its window fits into the receive queue
OneDirection == OneSession /\ MaxData[Peer(Sender)] = 0 /\ MaxFrame < RxRoom

(* The receive queue has room for everything that comes: a station that    *)
(* becomes busy says so before the window of the other one has filled the  *)
(* places beyond maxrx (pacdecinf, paccodsup, rnrfrei), whatever is lost,  *)
(* and whenever the timers run out and the application reads.              *)
THEOREM QueueHasRoom ==
    OneDirection => (Spec /\ []OneConnection => []NothingDropped)
  <1> SUFFICES ASSUME OneSession, MaxData[Peer(Sender)] = 0, MaxFrame < RxRoom
               PROVE  Spec /\ []OneConnection => []NothingDropped
    BY DEF OneDirection
  <1>1. L2LinkInv /\ Init => CreditIInv /\ AloneNow /\ NothingDropped
    BY AloneFirst, CreditFirst DEF CreditIInv
  <1>2. L2LinkInv /\ L2LinkInv' /\ CreditIInv /\ AloneNow /\ NothingDropped /\ OneConnection' /\ [Next]_vars
            => CreditIInv' /\ AloneNow' /\ NothingDropped'
    <2> SUFFICES ASSUME L2LinkInv, L2LinkInv', CreditIInv, AloneNow, NothingDropped, OneConnection',
                        [Next]_vars
                 PROVE  CreditIInv' /\ AloneNow' /\ NothingDropped'
      OBVIOUS
    <2>1. StreamIInv
      BY DEF CreditIInv, StreamIInv
    <2>2. NothingDropped' /\ (StreamIInv' => CreditIInv')
      BY CreditSteps
    <2>3. StreamIInv' /\ AloneNow'
      BY <2>1, <2>2, StreamSteps, AloneSteps
    <2> QED
      BY <2>2, <2>3
  <1> QED
    BY <1>1, <1>2, L2LinkInit, L2LinkStep, PTL DEF Spec

(* The link layer is a reliable stream in one direction, and nothing has   *)
(* to be assumed about the receive queue.                                  *)
THEOREM StreamIsKept ==
    OneDirection => (Spec /\ []OneConnection => StreamKept)
  <1>1. OneDirection => OneSession
    BY DEF OneDirection
  <1>2. OneSession => (Spec /\ []NothingDropped => StreamKept)
    BY StreamImplemented
  <1> QED
    BY <1>1, <1>2, QueueHasRoom, PTL

(* Both stations keep their windows, and nothing has to be assumed about   *)
(* the receive queue.                                                      *)
THEOREM WindowsKept ==
    OneDirection => (Spec /\ []OneConnection => []WindowHeld)
  <1>1. OneDirection => OneSession /\ MaxData[Peer(Sender)] = 0
    BY DEF OneDirection
  <1> QED
    BY <1>1, QueueHasRoom, WindowsHeld, PTL
=============================================================================
