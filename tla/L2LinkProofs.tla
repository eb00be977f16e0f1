---------------------------- MODULE L2LinkProofs ----------------------------
(***************************************************************************)
(* The link layer for every modulus, window, receive queue and number of   *)
(* retries.  Port has the types of a port, Tells what the application must *)
(* have been told in each state; a port is Good if it is both, and Live if *)
(* the application takes it for connected as well.  Every function of      *)
(* L2Port that a handler calls keeps a port good, and those of a           *)
(* connection keep it live; so do the steps of L2Link.                     *)
(***************************************************************************)
EXTENDS L2Link, FiniteSetTheorems, SequenceTheorems, WellFoundedInduction, TLAPS

-----------------------------------------------------------------------------
(* Numbers modulo M.                                                       *)

LEMMA PlusIs ==
    ASSUME NEW n \in Numbers, NEW k \in 0 .. M
    PROVE  Plus(n, k) \in Numbers /\ Plus(n, k) = IF n + k < M THEN n + k ELSE n + k - M
  <1>1. M \in Nat /\ M >= 2 /\ n \in Nat /\ k \in Nat /\ n < M /\ k <= M
    BY PortAssumption DEF Numbers
  <1>2. CASE n + k < M
    <2>1. (n + k) % M = n + k
      BY <1>1, <1>2
    <2> QED
      BY <1>1, <1>2, <2>1 DEF Plus, Numbers
  <1>3. CASE n + k >= M
    <2>1. (n + k) % M = n + k - M
      BY <1>1, <1>3
    <2> QED
      BY <1>1, <1>3, <2>1 DEF Plus, Numbers
  <1> QED
    BY <1>1, <1>2, <1>3

LEMMA MinusIs ==
    ASSUME NEW n \in Numbers, NEW k \in Numbers
    PROVE  Minus(n, k) \in Numbers /\ Minus(n, k) = IF n >= k THEN n - k ELSE M + n - k
  <1>1. M \in Nat /\ M >= 2 /\ n \in Nat /\ k \in Nat /\ n < M /\ k < M
    BY PortAssumption DEF Numbers
  <1>2. CASE n >= k
    <2>1. (M + n - k) % M = n - k
      BY <1>1, <1>2
    <2> QED
      BY <1>1, <1>2, <2>1 DEF Minus, Numbers
  <1>3. CASE n < k
    <2>1. (M + n - k) % M = M + n - k
      BY <1>1, <1>3
    <2> QED
      BY <1>1, <1>3, <2>1 DEF Minus, Numbers
  <1> QED
    BY <1>1, <1>2, <1>3

LEMMA MinOf ==
    ASSUME NEW a \in Int, NEW b \in Int
    PROVE  /\ Min({a, b}) \in {a, b} /\ Min({a, b}) <= a /\ Min({a, b}) <= b
  <1>1. \E x \in {a, b} : \A y \in {a, b} : x <= y
    OBVIOUS
  <1>3. Min({a, b}) \in {a, b} /\ \A y \in {a, b} : Min({a, b}) <= y
    BY <1>1 DEF Min
  <1> QED
    BY <1>3

-----------------------------------------------------------------------------
(* Types.                                                                  *)

Infos == Pieces \cup {NoInfo}
Sums == {Quersumme(x) : x \in Infos} \cup {0}
GoodFrames == {f \in Frame : f.type = "I" => f.info \in Pieces}
Messages == {"connected", "disconnected", "failure", "busy"}

Port ==
    [lstate : LStates, vr : Numbers, vs : Numbers, v1s : Numbers, v2s : Numbers,
     busy : BOOLEAN, rembusy : BOOLEAN, wasrej : BOOLEAN,
     timer1 : BOOLEAN, timer2 : BOOLEAN, qtimer : BOOLEAN, retries : -1 .. Retry + 1,
     txinfptr : [Numbers -> Infos], txinfout : Seq(Pieces),
     sammler : [Numbers -> Infos], qsumme : [Numbers -> Sums],
     rxlen : Nat, told : Messages, astray : BOOLEAN, sess : Nat, sub : Nat, acked : Nat,
     got : Seq(Pieces), overrun : BOOLEAN, out : Seq(GoodFrames)]

(* Some data have "//q".                                                   *)
Quitting == \E x \in Pieces : Quits(x)

(* What the application was told fits the state of the link, or will as     *)
(* soon as a frame has been dealt with.                                    *)
Tells(p) ==
    /\ p.lstate \in Transfer => p.told = "connected"
    /\ p.lstate = "disconnected" => p.told # "connected"
    /\ (p.astray => Quitting)
Good(p) == p \in Port /\ Tells(p)

(* A link that the application takes for connected.                        *)
Live(p) ==
    /\ p \in Port /\ p.told = "connected" /\ (p.astray => Quitting)
    /\ p.lstate \in Transfer \cup {"frame_reject", "disc_request"}

(* Steps that leave alone what the application is told.                    *)
Same(p, q) == q \in Port /\ q.lstate = p.lstate /\ q.told = p.told /\ q.astray = p.astray

LEMMA SameKeeps ==
    ASSUME NEW p, NEW q, Same(p, q)
    PROVE  (Good(p) => Good(q)) /\ (Live(p) => Live(q))
  BY DEF Same, Good, Live, Tells

LEMMA LiveGood ==
    ASSUME NEW p, Live(p)
    PROVE  Good(p)
  BY DEF Live, Good, Tells, Transfer

LEMMA StateSets ==
    /\ Transfer \subseteq LStates /\ "disconnected" \notin Transfer
    /\ "frame_reject" \notin Transfer /\ "disc_request" \notin Transfer
    /\ "link_setup" \notin Transfer
    /\ {"link_setup", "frame_reject", "disc_request", "disconnected", "info_transfer", "rej_sent",
        "wait_ack"} = LStates
  BY DEF Transfer, LStates

LEMMA SetInduction ==
    ASSUME NEW A, 0 \in A, \A n \in Nat : n \in A => n + 1 \in A
    PROVE  Nat \subseteq A
  <1> DEFINE R == OpToRel(<, Nat)
             Q == Nat \ A
  <1>1. IsWellFoundedOn(R, Nat)
    BY NatLessThanWellFounded
  <1>2. SUFFICES ASSUME Q # {} PROVE FALSE
    OBVIOUS
  <1>3. PICK x \in Q : \A y \in Q : ~ (<<y, x>> \in R)
    <2>1. Q \subseteq Nat
      OBVIOUS
    <2> HIDE DEF R, Q
    <2> QED
      BY <1>1, <1>2, <2>1, WFMin
  <1>4. x - 1 \in Q /\ <<x - 1, x>> \in R
    BY DEF OpToRel
  <1> QED
    BY <1>3, <1>4

LEMMA FramesOf ==
    /\ \A type \in {"SABM", "UA", "DISC", "DM", "FRMR"} : \A pf \in {"command", "response", "poll", "final"} :
          U(type, pf) \in GoodFrames
    /\ \A type \in {"RR", "RNR", "REJ"} : \A pf \in {"command", "response", "poll", "final"} :
          \A nr \in Numbers : S(type, pf, nr) \in GoodFrames
    /\ \A pf \in {"command", "response", "poll", "final"} : \A nr, ns \in Numbers : \A x \in Pieces :
          I(pf, nr, ns, x) \in GoodFrames
  <1>1. 0 \in Numbers
    BY PortAssumption DEF Numbers
  <1> QED
    BY <1>1 DEF U, S, I, GoodFrames, Frame

LEMMA SendSame ==
    ASSUME NEW p \in Port, NEW f \in GoodFrames
    PROVE  Same(p, Send(p, f)) /\ Send(p, f).timer1 = p.timer1
  <1>1. Append(p.out, f) \in Seq(GoodFrames)
    BY DEF Port
  <1> QED
    BY <1>1 DEF Send, Port, Same

LEMMA LinkmsgIs ==
    ASSUME NEW p \in Port, NEW msg \in Messages
    PROVE  /\ Linkmsg(p, msg) \in Port /\ Linkmsg(p, msg).lstate = p.lstate
           /\ Linkmsg(p, msg).told = msg /\ Linkmsg(p, msg).astray = p.astray
  <1>1. p.rxlen + 1 \in Nat
    BY DEF Port
  <1> QED
    BY <1>1 DEF Linkmsg, Port

LEMMA Restt1Same ==
    ASSUME NEW p \in Port
    PROVE  Same(p, Restt1(p)) /\ Same(p, Stopt1(p))
  <1>1. \A b \in BOOLEAN : Same(p, [p EXCEPT !.timer1 = b])
    BY DEF Port, Same
  <1>2. Same(p, p)
    BY DEF Same
  <1> QED
    BY <1>1, <1>2 DEF Restt1, Stopt1

LEMMA CountdownIs ==
    ASSUME NEW r \in -1 .. Retry + 1
    PROVE  Countdown(r) \in -1 .. Retry + 1
  <1>1. Retry \in Nat
    BY PortAssumption
  <1> QED
    BY <1>1 DEF Countdown, Endless

PFs == {"command", "response", "poll", "final"}

LEMMA PaccodsupSame ==
    ASSUME NEW p \in Port, NEW pf \in PFs
    PROVE  Same(p, Paccodsup(p, pf))
  <1>1. p.vr \in Numbers
    BY DEF Port
  <1>2. \A type \in {"RR", "RNR", "REJ"} : Same(p, Send(p, S(type, pf, p.vr)))
    BY <1>1, FramesOf, SendSame DEF PFs
  <1>3. Same(p, p)
    BY DEF Same
  <1> QED
    BY <1>2, <1>3 DEF Paccodsup

LEMMA PaccodrejIs ==
    ASSUME NEW p \in Port, NEW pf \in PFs
    PROVE  /\ Paccodrej(p, pf) \in Port /\ Paccodrej(p, pf).told = p.told
           /\ Paccodrej(p, pf).astray = p.astray
           /\ Paccodrej(p, pf).lstate \in {p.lstate, "rej_sent"}
  <1>1. p.vr \in Numbers
    BY DEF Port
  <1>2. \A type \in {"RR", "RNR", "REJ"} : Same(p, Send(p, S(type, "response", p.vr)))
    BY <1>1, FramesOf, SendSame DEF PFs
  <1>3. ASSUME NEW q \in Port
        PROVE  /\ [q EXCEPT !.lstate = "rej_sent"] \in Port
               /\ [q EXCEPT !.lstate = "rej_sent"].told = q.told
               /\ [q EXCEPT !.lstate = "rej_sent"].astray = q.astray
               /\ [q EXCEPT !.lstate = "rej_sent"].lstate = "rej_sent"
    <2>1. "rej_sent" \in LStates
      BY StateSets
    <2> QED
      BY <2>1 DEF Port
  <1> QED
    BY <1>2, <1>3 DEF Paccodrej, Same

(* The frames of infosend: the recursive function exists, and its frames   *)
(* are I frames with data.                                                 *)
NextSent(p, pf, a, k, s) ==
    LET n == Plus(a, k - 1) IN
    IF p.txinfptr[n] = NoInfo THEN s ELSE Append(s, I(pf, p.vr, n, p.txinfptr[n]))

SentOf(p, pf, a, n, F) ==
    F = [k \in 0 .. n |-> IF k = 0 THEN <<>> ELSE NextSent(p, pf, a, k, F[k - 1])]

Stepwise(p, pf, a, n, F) ==
    F[0] = <<>> /\ \A k \in 1 .. n : F[k] = NextSent(p, pf, a, k, F[k - 1])

LEMMA SentStep ==
    ASSUME NEW p, NEW pf, NEW a, NEW n \in Nat, NEW F, SentOf(p, pf, a, n, F)
    PROVE  Stepwise(p, pf, a, n, F)
  <1> DEFINE B(k) == IF k = 0 THEN <<>> ELSE NextSent(p, pf, a, k, F[k - 1])
  <1>1. \A k \in 0 .. n : F[k] = B(k)
    <2>1. F = [k \in 0 .. n |-> B(k)]
      BY DEF SentOf
    <2> HIDE DEF B
    <2> QED
      BY <2>1
  <1>2. 0 \in 0 .. n /\ \A k \in 1 .. n : k \in 0 .. n /\ k # 0
    OBVIOUS
  <1>3. F[0] = B(0) /\ \A k \in 1 .. n : F[k] = B(k)
    <2> HIDE DEF B
    <2> QED
      BY <1>1, <1>2
  <1> QED
    BY <1>3 DEF Stepwise

LEMMA SentExists ==
    ASSUME NEW p, NEW pf, NEW a
    PROVE  \A n \in Nat : \E F : SentOf(p, pf, a, n, F)
  <1> DEFINE Exists == {n \in Nat : \E F : SentOf(p, pf, a, n, F)}
  <1>1. 0 \in Exists
    <2>1. SentOf(p, pf, a, 0, [k \in 0 .. 0 |-> <<>>])
      BY DEF SentOf
    <2> QED
      BY <2>1
  <1>2. ASSUME NEW n \in Nat, n \in Exists PROVE n + 1 \in Exists
    <2>1. PICK F : SentOf(p, pf, a, n, F)
      BY <1>2
    <2> DEFINE G == [k \in 0 .. n + 1 |-> IF k \in 0 .. n THEN F[k] ELSE NextSent(p, pf, a, n + 1, F[n])]
    <2>2. (\A k \in 0 .. n : G[k] = F[k]) /\ G[n + 1] = NextSent(p, pf, a, n + 1, F[n])
      OBVIOUS
    <2>3. G = [k \in 0 .. n + 1 |-> G[k]]
      OBVIOUS
    <2> HIDE DEF G
    <2>4. \A k \in 0 .. n + 1 :
             G[k] = IF k = 0 THEN <<>> ELSE NextSent(p, pf, a, k, G[k - 1])
      <3> SUFFICES ASSUME NEW k \in 0 .. n + 1
                   PROVE  G[k] = IF k = 0 THEN <<>> ELSE NextSent(p, pf, a, k, G[k - 1])
        OBVIOUS
      <3>1. F[0] = <<>> /\ \A j \in 1 .. n : F[j] = NextSent(p, pf, a, j, F[j - 1])
        <4> HIDE DEF Exists
        <4>1. SentOf(p, pf, a, n, F) /\ n \in Nat
          BY <2>1
        <4>2. Stepwise(p, pf, a, n, F)
          BY <4>1, SentStep
        <4> QED
          BY <4>2 DEF Stepwise
      <3>2. CASE k = 0
        BY <2>2, <3>1, <3>2
      <3>3. CASE k \in 1 .. n
        <4>1. k \in 0 .. n /\ k - 1 \in 0 .. n /\ k # 0
          BY <3>3
        <4> QED
          BY <2>2, <3>1, <3>3, <4>1
      <3>4. CASE k = n + 1
        <4>1. k - 1 = n /\ k # 0 /\ n \in 0 .. n
          BY <3>4
        <4> QED
          BY <2>2, <3>4, <4>1
      <3> QED
        BY <3>2, <3>3, <3>4
    <2>5. SentOf(p, pf, a, n + 1, G)
      BY <2>3, <2>4 DEF SentOf
    <2> QED
      BY <2>5
  <1>3. Nat \subseteq Exists
    <2> HIDE DEF Exists
    <2> QED
      BY <1>1, <1>2, SetInduction
  <1> QED
    BY <1>3

LEMMA FramesGood ==
    ASSUME NEW p \in Port, NEW pf \in PFs, NEW a \in Numbers, NEW b \in Numbers
    PROVE  Frames(p, pf, a, b) \in Seq(GoodFrames)
  <1> DEFINE n == Minus(b, a)
             F == CHOOSE F : SentOf(p, pf, a, n, F)
             Right == {k \in Nat : k <= n => F[k] \in Seq(GoodFrames)}
  <1>1. n \in Nat /\ n < M
    BY MinusIs, PortAssumption DEF Numbers
  <1>2. Frames(p, pf, a, b) = F[n]
    BY DEF Frames, SentOf, NextSent
  <1>3. SentOf(p, pf, a, n, F)
    <2> HIDE DEF n
    <2> QED
      BY <1>1, SentExists
  <1> HIDE DEF F, n
  <1>4. F[0] = <<>> /\ \A k \in 1 .. n : F[k] = NextSent(p, pf, a, k, F[k - 1])
    <2>1. Stepwise(p, pf, a, n, F)
      BY <1>1, <1>3, SentStep
    <2> QED
      BY <2>1 DEF Stepwise
  <1>5. 0 \in Right
    <2>1. F[0] \in Seq(GoodFrames)
      BY <1>4
    <2> QED
      BY <2>1
  <1>6. ASSUME NEW k \in Nat, k \in Right PROVE k + 1 \in Right
    <2> SUFFICES ASSUME k + 1 <= n PROVE F[k + 1] \in Seq(GoodFrames)
      OBVIOUS
    <2>0. M \in Nat
      BY PortAssumption
    <2>1. F[k] \in Seq(GoodFrames) /\ k + 1 \in 1 .. n /\ (k + 1) - 1 = k /\ k \in 0 .. M
      <3>1. k <= n
        BY <1>1
      <3>2. F[k] \in Seq(GoodFrames)
        BY <1>6, <3>1
      <3> QED
        BY <1>1, <2>0, <3>2
    <2> DEFINE m == Plus(a, k)
    <2>2. F[k + 1] = IF p.txinfptr[m] = NoInfo THEN F[k]
                     ELSE Append(F[k], I(pf, p.vr, m, p.txinfptr[m]))
      BY <1>4, <2>1 DEF NextSent
    <2>3. m \in Numbers
      BY <2>1, PlusIs
    <2> HIDE DEF m
    <2>4. p.txinfptr[m] \in Pieces \cup {NoInfo} /\ p.vr \in Numbers
      BY <2>3 DEF Port, Infos
    <2>5. p.txinfptr[m] # NoInfo => I(pf, p.vr, m, p.txinfptr[m]) \in GoodFrames
      BY <2>3, <2>4, FramesOf DEF PFs
    <2> QED
      BY <2>1, <2>2, <2>5
  <1>7. Nat \subseteq Right
    <2> HIDE DEF Right
    <2> QED
      BY <1>5, <1>6, SetInduction
  <1> QED
    BY <1>1, <1>2, <1>7

LEMMA InfosendSame ==
    ASSUME NEW p \in Port, NEW pf \in PFs, NEW a \in Numbers, NEW b \in Numbers
    PROVE  Same(p, Infosend(p, pf, a, b))
  <1>1. CASE a = b
    BY <1>1 DEF Infosend, Same
  <1>2. CASE a # b
    <2> DEFINE fs == Frames(p, pf, a, b)
               t2 == IF fs = <<>> THEN p.timer2 ELSE FALSE
               q == [p EXCEPT !.out = @ \o fs, !.timer2 = t2, !.wasrej = FALSE]
    <2>1. fs \in Seq(GoodFrames)
      BY FramesGood
    <2>2. Infosend(p, pf, a, b) = Restt1(q)
      BY <1>2 DEF Infosend
    <2> HIDE DEF fs
    <2>3. p.out \o fs \in Seq(GoodFrames) /\ t2 \in BOOLEAN
      <3>1. p.out \in Seq(GoodFrames) /\ p.timer2 \in BOOLEAN
        BY DEF Port
      <3>2. p.out \o fs \in Seq(GoodFrames)
        BY <2>1, <3>1
      <3> QED
        BY <3>1, <3>2
    <2> HIDE DEF t2
    <2>4. Same(p, q)
      BY <2>3 DEF Same, Port
    <2> HIDE DEF q
    <2>5. Same(q, Restt1(q))
      BY <2>4, Restt1Same DEF Same
    <2> QED
      BY <2>2, <2>4, <2>5 DEF Same
  <1> QED
    BY <1>1, <1>2

LEMMA OutstandingIs ==
    ASSUME NEW p \in Port
    PROVE  Outstanding(p) \in Numbers /\ p.vs \in Numbers /\ p.v1s \in Numbers
  <1>1. p.vs \in Numbers /\ p.v1s \in Numbers
    BY DEF Port
  <1> QED
    BY <1>1, MinusIs DEF Outstanding

LEMMA PutinfoSame ==
    ASSUME NEW p \in Port, NEW k \in Nat, k <= Len(p.txinfout), k < M
    PROVE  Same(p, Putinfo(p, k))
  <1>1. CASE k = 0
    BY <1>1 DEF Putinfo, Same
  <1>2. CASE k # 0
    <2> DEFINE inf == [n \in Numbers |-> IF Minus(n, p.vs) < k
                                         THEN p.txinfout[Minus(n, p.vs) + 1] ELSE p.txinfptr[n]]
               rest == SubSeq(p.txinfout, k + 1, Len(p.txinfout))
               v == Plus(p.vs, k)
               q == [p EXCEPT !.txinfptr = inf, !.txinfout = rest,
                              !.vs = v, !.v2s = v, !.retries = Retry]
    <2>1. /\ p.vs \in Numbers /\ p.txinfout \in Seq(Pieces) /\ p.txinfptr \in [Numbers -> Infos]
          /\ Retry \in Nat /\ M \in Nat
      BY PortAssumption DEF Port
    <2>2. v \in Numbers
      <3>1. k \in 0 .. M
        BY <2>1
      <3> QED
        BY <2>1, <3>1, PlusIs
    <2>3. inf \in [Numbers -> Infos]
      <3>1. ASSUME NEW n \in Numbers, Minus(n, p.vs) < k
            PROVE  p.txinfout[Minus(n, p.vs) + 1] \in Pieces
        <4>1. Minus(n, p.vs) \in Nat
          <5>1. Minus(n, p.vs) \in Numbers
            BY <2>1, MinusIs
          <5> QED
            BY <5>1, PortAssumption DEF Numbers
        <4>2. Minus(n, p.vs) + 1 \in 1 .. Len(p.txinfout)
          BY <2>1, <3>1, <4>1
        <4> QED
          BY <2>1, <4>2
      <3>2. \A n \in Numbers : p.txinfptr[n] \in Infos
        BY <2>1
      <3> QED
        BY <3>1, <3>2 DEF Infos
    <2>4. rest \in Seq(Pieces)
      BY <2>1
    <2>5. Putinfo(p, k) = Infosend(q, "command", p.vs, q.vs)
      BY <1>2 DEF Putinfo
    <2> HIDE DEF inf, rest, v
    <2>6. Same(p, q) /\ q.vs = v
      <3>1. Retry \in -1 .. Retry + 1
        BY <2>1
      <3> QED
        BY <2>2, <2>3, <2>4, <3>1 DEF Same, Port
    <2> HIDE DEF q
    <2>7. Same(q, Infosend(q, "command", p.vs, q.vs))
      BY <2>1, <2>2, <2>6, InfosendSame DEF Same, PFs
    <2> QED
      BY <2>5, <2>6, <2>7 DEF Same
  <1> QED
    BY <1>1, <1>2

LEMMA TryinfoSame ==
    ASSUME NEW p \in Port
    PROVE  Same(p, Tryinfo(p))
  <1> DEFINE k == Min({Room(p), Len(p.txinfout)})
             q == IF p.lstate = "disconnected" THEN [p EXCEPT !.txinfout = <<>>] ELSE Putinfo(p, k)
  <1>1. Outstanding(p) \in Nat /\ Len(p.txinfout) \in Nat /\ MaxFrame \in Nat /\ MaxFrame < M /\ M \in Nat
    <2>1. p.txinfout \in Seq(Pieces)
      BY DEF Port
    <2> QED
      BY <2>1, OutstandingIs, PortAssumption DEF Numbers
  <1>2. Room(p) \in Nat /\ Room(p) < M
    <2> DEFINE d == MaxFrame - Outstanding(p)
               r == Max({0, d})
    <2>1. d \in Int /\ d < M
      BY <1>1
    <2>2. Room(p) \in {0, r}
      BY DEF Room
    <2> HIDE DEF d
    <2>3. r \in {0, d} /\ r >= 0
      <3>1. \E x \in {0, d} : \A y \in {0, d} : x >= y
        BY <2>1
      <3>2. r \in {0, d} /\ \A y \in {0, d} : r >= y
        BY <3>1 DEF Max
      <3> QED
        BY <3>2
    <2> HIDE DEF r
    <2> QED
      BY <1>1, <2>1, <2>2, <2>3
  <1>3. k \in Nat /\ k <= Len(p.txinfout) /\ k < M
    <2> DEFINE r == Room(p)
               l == Len(p.txinfout)
    <2>1. r \in Nat /\ r < M /\ l \in Nat /\ k = Min({r, l}) /\ M \in Nat
      BY <1>1, <1>2
    <2> HIDE DEF k, r, l
    <2>2. k \in {r, l} /\ k <= r /\ k <= l
      BY <2>1, MinOf
    <2>3. k \in Nat /\ k <= l /\ k < M
      BY <2>1, <2>2
    <2> QED
      BY <2>3 DEF l
  <1> HIDE DEF k
  <1>4. Same(p, q)
    <2>1. CASE p.lstate = "disconnected"
      <3>1. <<>> \in Seq(Pieces)
        OBVIOUS
      <3> QED
        BY <2>1, <3>1 DEF Same, Port
    <2>2. CASE p.lstate # "disconnected"
      BY <1>3, <2>2, PutinfoSame
    <2> QED
      BY <2>1, <2>2
  <1>5. Tryinfo(p) = IF (q.vs # q.v1s \/ q.txinfout # <<>>) /\ ~q.timer1 /\ ~q.rembusy
                     THEN Restt1(q) ELSE q
    BY DEF Tryinfo, k
  <1> HIDE DEF q
  <1>6. Same(q, Restt1(q))
    BY <1>4, Restt1Same DEF Same
  <1> QED
    BY <1>4, <1>5, <1>6 DEF Same

LEMMA IdlePort ==
    ASSUME TRUE
    PROVE  Idle \in Port /\ Idle.lstate = "disconnected" /\ Idle.told = "disconnected"
             /\ Idle.astray = FALSE
  <1>1. 0 \in Numbers /\ Retry \in -1 .. Retry + 1
    BY PortAssumption DEF Numbers
  <1>2. [n \in Numbers |-> NoInfo] \in [Numbers -> Infos] /\ [n \in Numbers |-> 0] \in [Numbers -> Sums]
    BY DEF Infos, Sums
  <1>3. <<>> \in Seq(Pieces) /\ <<>> \in Seq(GoodFrames)
    OBVIOUS
  <1>4. "disconnected" \in LStates /\ "disconnected" \in Messages
    BY StateSets DEF Messages
  <1> QED
    BY <1>1, <1>2, <1>3, <1>4 DEF Idle, Port

LEMMA LresetIs ==
    ASSUME NEW p \in Port
    PROVE  /\ Lreset(p) \in Port /\ Lreset(p).told = p.told /\ Lreset(p).astray = p.astray
           /\ Lreset(p).lstate = IF p.lstate \in Transfer THEN "info_transfer" ELSE p.lstate
  <1>1. Idle \in Port
    BY IdlePort
  <1>2. (IF p.lstate \in Transfer THEN "info_transfer" ELSE p.lstate) \in LStates
    BY StateSets DEF Port
  <1> DEFINE l == IF p.lstate \in Transfer THEN "info_transfer" ELSE p.lstate
  <1>3. Lreset(p) =
          [Idle EXCEPT !.lstate = l,
                 !.retries = p.retries, !.qsumme = p.qsumme, !.rxlen = p.rxlen, !.told = p.told,
                 !.astray = p.astray,
                 !.sess = p.sess, !.sub = p.sub, !.acked = p.acked, !.got = p.got,
                 !.overrun = p.overrun, !.out = p.out]
    BY DEF Lreset
  <1> HIDE DEF l
  <1>4. l \in LStates
    BY <1>2 DEF l
  <1>5. Lreset(p) \in Port /\ Lreset(p).told = p.told /\ Lreset(p).astray = p.astray
          /\ Lreset(p).lstate = l
    <2> DEFINE i == Idle
    <2>1. i \in Port
      BY <1>1
    <2> HIDE DEF i
    <2>2. Lreset(p) =
          [i EXCEPT !.lstate = l,
                 !.retries = p.retries, !.qsumme = p.qsumme, !.rxlen = p.rxlen, !.told = p.told,
                 !.astray = p.astray,
                 !.sess = p.sess, !.sub = p.sub, !.acked = p.acked, !.got = p.got,
                 !.overrun = p.overrun, !.out = p.out]
      BY <1>3 DEF i
    <2>3. /\ p.retries \in -1 .. Retry + 1 /\ p.qsumme \in [Numbers -> Sums] /\ p.rxlen \in Nat
          /\ p.told \in Messages /\ p.astray \in BOOLEAN /\ p.sess \in Nat /\ p.sub \in Nat
          /\ p.acked \in Nat /\ p.got \in Seq(Pieces) /\ p.overrun \in BOOLEAN
          /\ p.out \in Seq(GoodFrames)
      BY DEF Port
    <2> DEFINE j == [i EXCEPT !.lstate = l, !.retries = p.retries, !.qsumme = p.qsumme,
                              !.rxlen = p.rxlen, !.told = p.told, !.astray = p.astray]
    <2>5. j \in Port
      BY <1>4, <2>1, <2>3 DEF Port
    <2>6. j.lstate = l /\ j.told = p.told /\ j.astray = p.astray
      BY <2>1 DEF Port
    <2>7. Lreset(p) = [j EXCEPT !.sess = p.sess, !.sub = p.sub, !.acked = p.acked, !.got = p.got,
                                !.overrun = p.overrun, !.out = p.out]
      BY <2>1, <2>2 DEF Port
    <2> HIDE DEF j
    <2> DEFINE k == [j EXCEPT !.sess = p.sess, !.sub = p.sub, !.acked = p.acked]
    <2>8. k \in Port
      BY <2>3, <2>5 DEF Port
    <2>9. k.lstate = l /\ k.told = p.told /\ k.astray = p.astray
      BY <2>5, <2>6 DEF Port
    <2>10. Lreset(p) = [k EXCEPT !.got = p.got, !.overrun = p.overrun, !.out = p.out]
      BY <2>5, <2>7 DEF Port
    <2> HIDE DEF k
    <2> DEFINE z == [k EXCEPT !.got = p.got, !.overrun = p.overrun, !.out = p.out]
    <2>11. z \in Port
      BY <2>3, <2>8 DEF Port
    <2>12. z.lstate = l /\ z.told = p.told /\ z.astray = p.astray
      BY <2>8, <2>9 DEF Port
    <2> QED
      BY <2>10, <2>11, <2>12
  <1> QED
    BY <1>5 DEF l

LEMMA LstateIs ==
    ASSUME NEW p \in Port, NEW l \in LStates
    PROVE  /\ [p EXCEPT !.lstate = l] \in Port /\ [p EXCEPT !.lstate = l].lstate = l
           /\ [p EXCEPT !.lstate = l].told = p.told /\ [p EXCEPT !.lstate = l].astray = p.astray
  BY DEF Port

LEMMA DodiscGood ==
    ASSUME NEW p \in Port, (p.astray => Quitting), p.lstate = "disconnected" => p.told # "connected"
    PROVE  Good(Dodisc(p)) /\ Dodisc(p).lstate = "disconnected"
  <1> DEFINE q == IF p.lstate = "link_setup" THEN Linkmsg(p, "failure")
                  ELSE IF p.lstate # "disconnected" THEN Linkmsg(p, "disconnected") ELSE p
             r == [q EXCEPT !.lstate = "disconnected"]
  <1>1. q \in Port /\ q.told # "connected" /\ (q.astray => Quitting)
    BY LinkmsgIs DEF Messages
  <1>2. Dodisc(p) = Lreset(r)
    BY DEF Dodisc
  <1> HIDE DEF q
  <1>3. r \in Port /\ r.lstate = "disconnected" /\ r.told = q.told /\ r.astray = q.astray
    BY <1>1, LstateIs, StateSets
  <1> HIDE DEF r
  <1>4. /\ Lreset(r) \in Port /\ Lreset(r).told = q.told /\ Lreset(r).astray = q.astray
        /\ Lreset(r).lstate = "disconnected"
    BY <1>3, LresetIs, StateSets
  <1> QED
    BY <1>1, <1>2, <1>4, StateSets DEF Good, Tells

LEMMA NewSessionIs ==
    ASSUME NEW p \in Port
    PROVE  Same(p, NewSession(p))
  <1>1. p.sess + 1 \in Nat /\ <<>> \in Seq(Pieces)
    BY DEF Port
  <1> QED
    BY <1>1 DEF NewSession, Same, Port

(* disconnect: from a connection nothing is told until the peer answers.   *)
LEMMA DisconnectGood ==
    ASSUME NEW p, Good(p), NEW mode
    PROVE  /\ Good(Disconnect(p, mode))
           /\ Live(p) /\ p.lstate # "disc_request" /\ mode = 1 => Live(Disconnect(p, mode))
  <1>1. p \in Port /\ (p.astray => Quitting) /\ (p.lstate = "disconnected" => p.told # "connected")
    BY DEF Good, Tells
  <1>2. \A b \in BOOLEAN : Same(p, [p EXCEPT !.qtimer = b])
    BY <1>1 DEF Same, Port
  <1>3. Good(Dodisc(p))
    BY <1>1, DodiscGood
  <1>4. CASE mode = 4
    BY <1>2, <1>4, SameKeeps DEF Disconnect
  <1>5. CASE mode # 4 /\ (p.lstate = "disc_request" \/ mode = 0)
    BY <1>3, <1>5 DEF Disconnect
  <1>6. CASE mode \notin {0, 4} /\ p.lstate = "link_setup"
    <2> DEFINE q == Send(p, U("DISC", "poll"))
    <2>1. Disconnect(p, mode) = Dodisc(q)
      BY <1>6 DEF Disconnect
    <2>2. Same(p, q)
      BY <1>1, FramesOf, SendSame
    <2> HIDE DEF q
    <2>3. Good(Dodisc(q))
      BY <1>1, <2>2, DodiscGood DEF Same
    <2> QED
      BY <1>6, <2>1, <2>3, StateSets DEF Live
  <1>7. CASE /\ mode \notin {0, 4} /\ p.lstate \notin {"disc_request", "link_setup"}
             /\ mode = 2 /\ (p.txinfout # <<>> \/ p.vs # p.v1s)
    BY <1>2, <1>7, SameKeeps DEF Disconnect
  <1>8. CASE /\ mode \notin {0, 4} /\ p.lstate \notin {"disc_request", "link_setup"}
             /\ ~ (mode = 2 /\ (p.txinfout # <<>> \/ p.vs # p.v1s))
             /\ p.lstate \in Transfer
    <2> DEFINE a == [p EXCEPT !.lstate = "disc_request", !.qtimer = FALSE, !.timer2 = FALSE,
                              !.retries = Retry \div 4]
               b == Send(a, U("DISC", "poll"))
    <2>1. Disconnect(p, mode) = Restt1(b)
      BY <1>8 DEF Disconnect
    <2>2. a \in Port /\ a.lstate = "disc_request" /\ a.told = p.told /\ a.astray = p.astray
      <3>1. Retry \div 4 \in -1 .. Retry + 1
        BY PortAssumption
      <3>2. "disc_request" \in LStates /\ p \in Port
        BY <1>1, StateSets
      <3>3. a \in Port
        BY <3>1, <3>2 DEF Port
      <3> QED
        BY <3>2, <3>3 DEF Port
    <2> HIDE DEF a
    <2>3. Same(a, b)
      BY <2>2, FramesOf, SendSame
    <2> HIDE DEF b
    <2>4. Same(b, Restt1(b))
      BY <2>3, Restt1Same DEF Same
    <2>5. p.told = "connected"
      BY <1>8 DEF Good, Tells
    <2>6. Live(a)
      BY <1>1, <2>2, <2>5 DEF Live
    <2>7. Live(Restt1(b))
      BY <2>3, <2>4, <2>6, SameKeeps
    <2> QED
      BY <2>1, <2>7, LiveGood
  <1>9. CASE /\ mode \notin {0, 4} /\ p.lstate \notin {"disc_request", "link_setup"}
             /\ ~ (mode = 2 /\ (p.txinfout # <<>> \/ p.vs # p.v1s))
             /\ p.lstate \notin Transfer
    BY <1>9 DEF Disconnect
  <1> QED
    BY <1>4, <1>5, <1>6, <1>7, <1>8, <1>9

LEMMA ConnectGood ==
    ASSUME NEW p, Good(p)
    PROVE  Good(Connect(p))
  <1> DEFINE a == Disconnect(p, 1)
             b == Lreset(a)
             c == NewSession(b)
             d == [c EXCEPT !.lstate = "link_setup", !.timer1 = TRUE, !.retries = Retry \div 4 + 1]
  <1>1. Connect(p) = Send(d, U("SABM", "poll"))
    BY DEF Connect
  <1>2. a \in Port /\ (a.astray => Quitting)
    BY DisconnectGood DEF Good, Tells
  <1> HIDE DEF a
  <1>3. b \in Port /\ (b.astray => Quitting)
    BY <1>2, LresetIs
  <1> HIDE DEF b
  <1>4. c \in Port /\ (c.astray => Quitting)
    BY <1>3, NewSessionIs DEF Same
  <1> HIDE DEF c
  <1>5. d \in Port /\ (d.astray => Quitting) /\ d.lstate = "link_setup"
    <2>1. Retry \div 4 + 1 \in -1 .. Retry + 1
      BY PortAssumption
    <2> QED
      BY <1>4, <2>1, StateSets DEF Port
  <1> HIDE DEF d
  <1>6. Good(d)
    BY <1>5, StateSets DEF Good, Tells
  <1>7. Same(d, Send(d, U("SABM", "poll")))
    BY <1>5, FramesOf, SendSame
  <1> QED
    BY <1>1, <1>6, <1>7, SameKeeps

LEMMA SubmitGood ==
    ASSUME NEW p, Good(p)
    PROVE  Good(Submit(p))
  <1> DEFINE x == <<p.sess, p.sub + 1>>
             q == [p EXCEPT !.txinfout = Append(@, x), !.sub = @ + 1]
  <1>1. p \in Port
    BY DEF Good
  <1>2. p.sub + 1 \in Nat /\ x \in Pieces /\ p.txinfout \in Seq(Pieces)
    BY <1>1 DEF Port, Pieces
  <1>3. Submit(p) = Tryinfo(q)
    BY DEF Submit
  <1> HIDE DEF x
  <1>4. Append(p.txinfout, x) \in Seq(Pieces)
    BY <1>2
  <1>5. Same(p, q)
    BY <1>1, <1>2, <1>4 DEF Same, Port
  <1> HIDE DEF q
  <1>6. Same(q, Tryinfo(q))
    BY <1>5, TryinfoSame DEF Same
  <1> QED
    BY <1>3, <1>5, <1>6, SameKeeps

LEMMA RnrfreiSame ==
    ASSUME NEW p \in Port
    PROVE  Same(p, Rnrfrei(p))
  <1> DEFINE a == [p EXCEPT !.busy = FALSE]
             b == Paccodsup(a, "response")
  <1>1. Same(p, a)
    BY DEF Same, Port
  <1>2. Rnrfrei(p) = [b EXCEPT !.timer1 = TRUE]
    BY DEF Rnrfrei
  <1> HIDE DEF a
  <1>3. Same(a, b)
    BY <1>1, PaccodsupSame DEF Same, PFs
  <1> HIDE DEF b
  <1>4. Same(b, [b EXCEPT !.timer1 = TRUE])
    BY <1>3 DEF Same, Port
  <1> QED
    BY <1>1, <1>2, <1>3, <1>4 DEF Same

LEMMA ChrinGood ==
    ASSUME NEW p, Good(p)
    PROVE  Good(Chrin(p))
  <1> DEFINE q == IF p.busy /\ p.rxlen <= MaxRx \div 2 THEN Rnrfrei(p) ELSE p
             n == IF q.rxlen > 0 THEN q.rxlen - 1 ELSE 0
  <1>1. p \in Port /\ Same(p, p)
    BY DEF Good, Same
  <1>2. Same(p, q)
    BY <1>1, RnrfreiSame
  <1>3. Chrin(p) = [q EXCEPT !.rxlen = n]
    BY DEF Chrin
  <1> HIDE DEF q
  <1>4. q \in Port /\ q.rxlen \in Nat
    BY <1>2 DEF Same, Port
  <1>5. n \in Nat
    BY <1>4
  <1> HIDE DEF n
  <1>6. Same(q, [q EXCEPT !.rxlen = n])
    BY <1>4, <1>5 DEF Same, Port
  <1> QED
    BY <1>2, <1>3, <1>6, SameKeeps

(* Timer 1 while connected: the link stays, or a disconnect is asked for.  *)
LEMMA PollWaitingLive ==
    ASSUME NEW p, Live(p), p.lstate = "wait_ack"
    PROVE  Live(PollWaiting(p))
  <1> DEFINE r == Countdown(p.retries)
             q == [p EXCEPT !.retries = r]
             d == [q EXCEPT !.lstate = "disc_request", !.retries = 1, !.timer1 = TRUE]
             w == [q EXCEPT !.v2s = p.vs]
             i == Infosend(w, "poll", p.v1s, p.vs)
             s == Paccodsup(q, "poll")
  <1>1. p \in Port /\ p.vs \in Numbers /\ p.v1s \in Numbers /\ p.retries \in -1 .. Retry + 1
    BY DEF Live, Port
  <1>2. r \in -1 .. Retry + 1
    BY <1>1, CountdownIs
  <1>3. \/ PollWaiting(p) = Send(d, U("DISC", "poll"))
        \/ PollWaiting(p) = [i EXCEPT !.timer1 = TRUE]
        \/ PollWaiting(p) = [s EXCEPT !.timer1 = TRUE]
    BY DEF PollWaiting
  <1> HIDE DEF r
  <1>4. Same(p, q)
    BY <1>1, <1>2 DEF Same, Port
  <1> HIDE DEF q
  <1>5. \A x \in Port : Same(x, [x EXCEPT !.timer1 = TRUE])
    BY DEF Same, Port
  <1>6. Live(q)
    BY <1>4, SameKeeps
  <1>7. Live(Send(d, U("DISC", "poll")))
    <2>1. q \in Port /\ 1 \in -1 .. Retry + 1
      BY <1>6, PortAssumption DEF Live
    <2>2. d \in Port /\ d.told = q.told /\ d.astray = q.astray /\ d.lstate = "disc_request"
      BY <2>1, StateSets DEF Port
    <2> HIDE DEF d
    <2>3. Live(d)
      BY <1>6, <2>2 DEF Live
    <2>4. Same(d, Send(d, U("DISC", "poll")))
      BY <2>2, FramesOf, SendSame
    <2> QED
      BY <2>3, <2>4, SameKeeps
  <1>8. Live([i EXCEPT !.timer1 = TRUE])
    <2>1. Same(q, w)
      BY <1>1, <1>4 DEF Same, Port
    <2> HIDE DEF w
    <2>2. Same(w, i)
      BY <1>1, <2>1, InfosendSame DEF Same, PFs
    <2> HIDE DEF i
    <2>3. Live(i) /\ i \in Port
      BY <1>6, <2>1, <2>2, SameKeeps DEF Same
    <2> QED
      BY <1>5, <2>3, SameKeeps
  <1>9. Live([s EXCEPT !.timer1 = TRUE])
    <2>1. Same(q, s)
      BY <1>4, PaccodsupSame DEF Same, PFs
    <2> HIDE DEF s
    <2>2. Live(s) /\ s \in Port
      BY <1>6, <2>1, SameKeeps DEF Same
    <2> QED
      BY <1>5, <2>2, SameKeeps
  <1> HIDE DEF d, i, s
  <1> QED
    BY <1>3, <1>7, <1>8, <1>9

LEMMA T1toutGood ==
    ASSUME NEW p, Good(p)
    PROVE  Good(T1tout(p))
  <1>1. /\ p \in Port /\ (p.astray => Quitting) /\ p.lstate \in LStates /\ p.retries \in -1 .. Retry + 1
        /\ (p.lstate = "disconnected" => p.told # "connected")
    BY DEF Good, Tells, Port
  <1>2. CASE p.lstate \in {"link_setup", "disc_request"}
    <2> DEFINE r == Countdown(p.retries)
               q == [p EXCEPT !.retries = r]
               type == IF p.lstate = "link_setup" THEN "SABM" ELSE "DISC"
               a == Send(q, U(type, "poll"))
               b == Send(q, U("DISC", "poll"))
               c == [b EXCEPT !.lstate = "disconnected"]
               d == Linkmsg(c, "failure")
    <2>1. \/ T1tout(p) = [a EXCEPT !.timer1 = TRUE]
          \/ T1tout(p) = Dodisc(q)
          \/ T1tout(p) = Lreset(d)
      BY <1>2 DEF T1tout
    <2>2. r \in -1 .. Retry + 1
      BY <1>1, CountdownIs
    <2> HIDE DEF r
    <2>3. Same(p, q)
      BY <1>1, <2>2 DEF Same, Port
    <2> HIDE DEF q
    <2>4. Good([a EXCEPT !.timer1 = TRUE])
      <3>1. type \in {"SABM", "DISC"}
        OBVIOUS
      <3> HIDE DEF type
      <3>2. Same(q, a)
        BY <2>3, <3>1, FramesOf, SendSame DEF Same
      <3> HIDE DEF a
      <3>3. Same(a, [a EXCEPT !.timer1 = TRUE])
        BY <3>2 DEF Same, Port
      <3> QED
        BY <2>3, <3>2, <3>3, SameKeeps
    <2>5. Good(Dodisc(q))
      BY <1>1, <2>3, DodiscGood DEF Same
    <2>6. Good(Lreset(d))
      <3>1. Same(q, b)
        BY <2>3, FramesOf, SendSame DEF Same
      <3> HIDE DEF b
      <3>2. c \in Port /\ c.lstate = "disconnected" /\ (c.astray => Quitting)
        BY <1>1, <2>3, <3>1, LstateIs, StateSets DEF Same
      <3> HIDE DEF c
      <3>3. d \in Port /\ d.lstate = "disconnected" /\ (d.astray => Quitting) /\ d.told = "failure"
        BY <3>2, LinkmsgIs DEF Messages
      <3> HIDE DEF d
      <3> QED
        BY <3>3, LresetIs, StateSets DEF Good, Tells
    <2> HIDE DEF a, d
    <2> QED
      BY <2>1, <2>4, <2>5, <2>6
  <1>3. CASE p.lstate \in Transfer
    <2>1. Live(p)
      BY <1>1, <1>3 DEF Live, Good, Tells
    <2>2. CASE p.lstate = "wait_ack"
      <3>1. T1tout(p) = PollWaiting(p)
        BY <2>2 DEF T1tout
      <3> QED
        BY <2>1, <2>2, <3>1, PollWaitingLive, LiveGood
    <2>3. CASE p.lstate \in {"info_transfer", "rej_sent"}
      <3> DEFINE q == [p EXCEPT !.lstate = "wait_ack", !.retries = Retry]
      <3>1. T1tout(p) = PollWaiting(q)
        BY <2>3 DEF T1tout
      <3>2. Retry \in -1 .. Retry + 1
        BY PortAssumption
      <3>3. q \in Port /\ q.lstate = "wait_ack" /\ q.told = p.told /\ q.astray = p.astray
        BY <1>1, <3>2, StateSets DEF Port
      <3> HIDE DEF q
      <3>4. Live(q)
        BY <2>1, <3>3 DEF Live, Transfer
      <3> QED
        BY <3>1, <3>3, <3>4, PollWaitingLive, LiveGood
    <2> QED
      BY <1>3, <2>2, <2>3 DEF Transfer
  <1>4. CASE p.lstate = "frame_reject"
    <2> DEFINE a == Send(p, U("FRMR", "response"))
               q == [a EXCEPT !.lstate = "disc_request", !.retries = 2, !.timer1 = TRUE]
    <2>1. T1tout(p) = q
      BY <1>4 DEF T1tout
    <2>2. Same(p, a)
      BY <1>1, FramesOf, SendSame
    <2> HIDE DEF a
    <2>3. 2 \in -1 .. Retry + 1 /\ a \in Port /\ (a.astray => Quitting)
      BY <1>1, <2>2, PortAssumption DEF Same
    <2>4. q \in Port /\ q.lstate = "disc_request" /\ (q.astray => Quitting)
      BY <2>3, StateSets DEF Port
    <2> QED
      BY <2>1, <2>4, StateSets DEF Good, Tells
  <1>5. CASE p.lstate = "disconnected"
    BY <1>5 DEF T1tout
  <1> QED
    BY <1>1, <1>2, <1>3, <1>4, <1>5 DEF LStates

(* A released frame that is not there ends in frame_reject: the link stays. *)
LEMMA AckedNat ==
    ASSUME NEW A \in SUBSET Numbers
    PROVE  Cardinality(A) \in Nat
  <1>1. IsFiniteSet(Numbers)
    <2>1. 0 \in Int /\ M - 1 \in Int
      BY PortAssumption
    <2>2. IsFiniteSet(0 .. M - 1)
      BY <2>1, FS_Interval
    <2> QED
      BY <2>2 DEF Numbers
  <1>2. IsFiniteSet(A)
    BY <1>1, FS_Subset
  <1> QED
    BY <1>2, FS_CardinalityType

LEMMA InfackIs ==
    ASSUME NEW p \in Port, NEW nr \in Numbers
    PROVE  /\ Infack(p, nr) \in Port /\ Infack(p, nr).told = p.told
           /\ Infack(p, nr).astray = p.astray
           /\ Infack(p, nr).lstate \in {p.lstate, "frame_reject"}
  <1> DEFINE inf == [n \in Numbers |-> IF n \in Acked(p, nr) THEN NoInfo ELSE p.txinfptr[n]]
             l == IF \E n \in Acked(p, nr) : p.txinfptr[n] = NoInfo THEN "frame_reject" ELSE p.lstate
             c == Cardinality({n \in Acked(p, nr) : p.txinfptr[n] # NoInfo})
             a == p.acked + c
             q == [p EXCEPT !.txinfptr = inf, !.lstate = l, !.v1s = nr, !.acked = a]
  <1>1. Infack(p, nr) = IF q.vs = nr /\ q.lstate # "wait_ack" THEN Stopt1(q) ELSE q
    BY DEF Infack
  <1>2. c \in Nat /\ p.acked \in Nat
    <2>1. {n \in Acked(p, nr) : p.txinfptr[n] # NoInfo} \in SUBSET Numbers
      BY DEF Acked
    <2>2. p.acked \in Nat
      BY DEF Port
    <2> QED
      BY <2>1, <2>2, AckedNat
  <1> HIDE DEF c
  <1>3. a \in Nat
    BY <1>2
  <1> HIDE DEF a
  <1>4. inf \in [Numbers -> Infos]
    <2>1. \A n \in Numbers : p.txinfptr[n] \in Infos
      BY DEF Port
    <2> QED
      BY <2>1 DEF Infos
  <1> HIDE DEF inf
  <1>5. l \in {p.lstate, "frame_reject"} /\ l \in LStates
    BY StateSets DEF Port
  <1> HIDE DEF l
  <1>6. q \in Port /\ q.told = p.told /\ q.astray = p.astray /\ q.lstate = l
    BY <1>3, <1>4, <1>5 DEF Port
  <1> HIDE DEF q
  <1>7. Same(q, Stopt1(q))
    BY <1>6, Restt1Same
  <1> QED
    BY <1>1, <1>5, <1>6, <1>7 DEF Same

LEMMA InfackLive ==
    ASSUME NEW p, Live(p), NEW nr \in Numbers
    PROVE  /\ Live(Infack(p, nr))
           /\ p.lstate # "disc_request" => Infack(p, nr).lstate # "disc_request"
  <1>1. p \in Port
    BY DEF Live
  <1>2. /\ Infack(p, nr) \in Port /\ Infack(p, nr).told = p.told
        /\ Infack(p, nr).astray = p.astray
        /\ Infack(p, nr).lstate \in {p.lstate, "frame_reject"}
    BY <1>1, InfackIs
  <1> QED
    BY <1>2 DEF Live

LEMMA RetriesSame ==
    ASSUME NEW p \in Port
    PROVE  /\ Same(p, [p EXCEPT !.retries = Retry])
           /\ \A n \in Numbers : Same(p, [p EXCEPT !.v2s = n])
           /\ \A b \in BOOLEAN : Same(p, [p EXCEPT !.timer2 = b])
           /\ \A b \in BOOLEAN : Same(p, [p EXCEPT !.retries = Retry, !.wasrej = b])
           /\ \A b, c \in BOOLEAN : Same(p, [p EXCEPT !.rembusy = b, !.timer1 = c])
  <1>1. Retry \in -1 .. Retry + 1
    BY PortAssumption
  <1>2. Same(p, [p EXCEPT !.retries = Retry])
    BY <1>1 DEF Same, Port
  <1>3. \A n \in Numbers : Same(p, [p EXCEPT !.v2s = n])
    BY DEF Same, Port
  <1>4. \A b \in BOOLEAN : Same(p, [p EXCEPT !.timer2 = b])
    BY DEF Same, Port
  <1>5. \A b \in BOOLEAN : Same(p, [p EXCEPT !.retries = Retry, !.wasrej = b])
    BY <1>1 DEF Same, Port
  <1>6. ASSUME NEW b \in BOOLEAN, NEW c \in BOOLEAN
        PROVE  Same(p, [p EXCEPT !.rembusy = b, !.timer1 = c])
    <2> DEFINE q == [p EXCEPT !.rembusy = b, !.timer1 = c]
    <2>1. q \in Port
      BY DEF Port
    <2>2. q.lstate = p.lstate /\ q.told = p.told /\ q.astray = p.astray
      BY DEF Port
    <2> QED
      BY <2>1, <2>2 DEF Same
  <1> QED
    BY <1>2, <1>3, <1>4, <1>5, <1>6

(* SABM, UA, DISC and DM: the application is told what has become of the    *)
(* link before anything else happens to it.                                *)
LEMMA ConackGood ==
    ASSUME NEW p, Good(p)
    PROVE  Good(Conack(p))
  <1> DEFINE a == NewSession(Dodisc(p))
             b == [a EXCEPT !.lstate = "info_transfer"]
             q == IF p.lstate # "disconnected" THEN p ELSE Linkmsg(b, "connected")
             s == Send(q, U("UA", "final"))
             t == Restt1(s)
  <1>1. Conack(p) = [t EXCEPT !.retries = Retry]
    BY DEF Conack
  <1>2. Good(q)
    <2>1. CASE p.lstate # "disconnected"
      BY <2>1
    <2>2. CASE p.lstate = "disconnected"
      <3>1. Good(Dodisc(p))
        BY DodiscGood DEF Good, Tells
      <3>2. a \in Port /\ (a.astray => Quitting)
        BY <3>1, NewSessionIs DEF Same, Good, Tells
      <3> HIDE DEF a
      <3>3. b \in Port /\ (b.astray => Quitting) /\ b.lstate = "info_transfer"
        BY <3>2, LstateIs, StateSets
      <3> HIDE DEF b
      <3>4. /\ Linkmsg(b, "connected") \in Port /\ (Linkmsg(b, "connected").astray => Quitting)
            /\ Linkmsg(b, "connected").lstate = "info_transfer"
            /\ Linkmsg(b, "connected").told = "connected"
        BY <3>3, LinkmsgIs DEF Messages
      <3> QED
        BY <2>2, <3>4 DEF Good, Tells
    <2> QED
      BY <2>1, <2>2
  <1> HIDE DEF q
  <1>3. Same(q, s)
    BY <1>2, FramesOf, SendSame DEF Good
  <1> HIDE DEF s
  <1>4. Same(s, t)
    BY <1>3, Restt1Same DEF Same
  <1> HIDE DEF t
  <1>5. Same(t, [t EXCEPT !.retries = Retry])
    BY <1>4, RetriesSame DEF Same
  <1> QED
    BY <1>1, <1>2, <1>3, <1>4, <1>5, SameKeeps

LEMMA PacdecuaGood ==
    ASSUME NEW p, Good(p)
    PROVE  Good(Pacdecua(p))
  <1>1. p \in Port /\ (p.astray => Quitting) /\ (p.lstate = "disconnected" => p.told # "connected")
    BY DEF Good, Tells
  <1>2. CASE p.lstate = "link_setup"
    <2> DEFINE a == Stopt1(p)
               b == [a EXCEPT !.lstate = "info_transfer"]
    <2>1. Pacdecua(p) = Linkmsg(b, "connected")
      BY <1>2 DEF Pacdecua
    <2>2. a \in Port /\ (a.astray => Quitting)
      BY <1>1, Restt1Same DEF Same
    <2> HIDE DEF a
    <2>3. b \in Port /\ (b.astray => Quitting) /\ b.lstate = "info_transfer"
      BY <2>2, LstateIs, StateSets
    <2> HIDE DEF b
    <2>4. /\ Linkmsg(b, "connected") \in Port /\ (Linkmsg(b, "connected").astray => Quitting)
          /\ Linkmsg(b, "connected").lstate = "info_transfer"
          /\ Linkmsg(b, "connected").told = "connected"
      BY <2>3, LinkmsgIs DEF Messages
    <2> QED
      BY <2>1, <2>4 DEF Good, Tells
  <1>3. CASE p.lstate = "disc_request"
    BY <1>1, <1>3, DodiscGood DEF Pacdecua
  <1>4. CASE p.lstate \notin {"link_setup", "disc_request"}
    BY <1>4 DEF Pacdecua
  <1> QED
    BY <1>2, <1>3, <1>4

LEMMA PacdecdmGood ==
    ASSUME NEW p, Good(p)
    PROVE  Good(Pacdecdm(p))
  <1>1. p \in Port /\ (p.astray => Quitting) /\ (p.lstate = "disconnected" => p.told # "connected")
    BY DEF Good, Tells
  <1>2. CASE p.lstate = "link_setup"
    <2> DEFINE a == [p EXCEPT !.lstate = "disconnected"]
               b == Linkmsg(a, "busy")
    <2>1. Pacdecdm(p) = Dodisc(b)
      BY <1>2 DEF Pacdecdm
    <2>2. a \in Port /\ (a.astray => Quitting)
      BY <1>1, LstateIs, StateSets
    <2> HIDE DEF a
    <2>3. b \in Port /\ (b.astray => Quitting) /\ b.told = "busy"
      BY <2>2, LinkmsgIs DEF Messages
    <2> HIDE DEF b
    <2> QED
      BY <2>1, <2>3, DodiscGood
  <1>3. CASE p.lstate # "link_setup"
    BY <1>1, <1>3, DodiscGood DEF Pacdecdm
  <1> QED
    BY <1>2, <1>3

(* RR, RNR and REJ while connected: the link stays, or a frame reject comes. *)
LEMMA RepeatSame ==
    ASSUME NEW p \in Port, NEW v \in Numbers, NEW to \in Numbers, NEW rej \in BOOLEAN
    PROVE  /\ Same(p, [Infosend([p EXCEPT !.v2s = v], "command", p.v1s, to)
                         EXCEPT !.retries = Retry])
           /\ Same(p, [Infosend([p EXCEPT !.v2s = v], "command", p.v1s, to)
                         EXCEPT !.retries = Retry, !.wasrej = rej])
  <1> DEFINE a == [p EXCEPT !.v2s = v]
             b == Infosend(a, "command", p.v1s, to)
  <1>1. Same(p, a)
    BY RetriesSame
  <1>2. p.v1s \in Numbers
    BY DEF Port
  <1> HIDE DEF a
  <1>3. Same(a, b)
    BY <1>1, <1>2, InfosendSame DEF Same, PFs
  <1> HIDE DEF b
  <1>4. /\ Same(b, [b EXCEPT !.retries = Retry])
        /\ Same(b, [b EXCEPT !.retries = Retry, !.wasrej = rej])
    BY <1>3, RetriesSame DEF Same
  <1>5. Same(p, [b EXCEPT !.retries = Retry])
    BY <1>1, <1>3, <1>4 DEF Same
  <1>6. Same(p, [b EXCEPT !.retries = Retry, !.wasrej = rej])
    BY <1>1, <1>3, <1>4 DEF Same
  <1> QED
    BY <1>5, <1>6 DEF a, b

LEMMA PacdecsupLive ==
    ASSUME NEW p, Live(p), NEW f \in GoodFrames
    PROVE  Live(Pacdecsup(p, f))
  <1> DEFINE waited == p.lstate = "wait_ack" /\ f.pf = "final"
             a == Infack(p, f.nr)
             b == IF ~waited THEN a
                  ELSE IF a.vs = a.v1s THEN [Stopt1(a) EXCEPT !.lstate = "info_transfer"]
                  ELSE [a EXCEPT !.lstate = "info_transfer"]
             c == IF b.v1s # b.vs /\ (b.v2s = b.vs \/ f.pf = "final") /\ f.type = "REJ"
                  THEN [Infosend([b EXCEPT !.v2s = Plus(b.v1s, 1)], "command", b.v1s, Plus(b.v1s, 1))
                          EXCEPT !.retries = Retry, !.wasrej = TRUE]
                  ELSE IF (waited \/ (b.vs # b.v2s /\ b.wasrej)) /\ b.vs # b.v1s /\ ~b.rembusy
                  THEN [Infosend([b EXCEPT !.v2s = b.vs], "command", b.v1s, b.vs)
                          EXCEPT !.retries = Retry]
                  ELSE [b EXCEPT !.v2s = b.vs]
             d == CASE f.pf = "poll" -> Paccodsup(c, "final")
                    [] f.pf = "command" -> Paccodsup(c, "response")
                    [] OTHER -> c
             rem == f.type = "RNR"
             t1 == rem \/ d.timer1
  <1>1. Pacdecsup(p, f) = [d EXCEPT !.rembusy = rem, !.timer1 = t1]
    BY DEF Pacdecsup
  <1>2. f.nr \in Numbers
    BY DEF GoodFrames, Frame
  <1>3. Live(a)
    BY <1>2, InfackLive
  <1> HIDE DEF a
  <1>4. Live(b)
    <2>1. \A x : Live(x) => Live([x EXCEPT !.lstate = "info_transfer"])
      <3> SUFFICES ASSUME NEW x, Live(x) PROVE Live([x EXCEPT !.lstate = "info_transfer"])
        OBVIOUS
      <3>1. x \in Port
        BY DEF Live
      <3> QED
        BY <3>1, LstateIs, StateSets DEF Live, Transfer
    <2>2. Live(Stopt1(a))
      <3>1. Same(a, Stopt1(a))
        BY <1>3, Restt1Same DEF Live
      <3> QED
        BY <1>3, <3>1, SameKeeps
    <2> QED
      BY <1>3, <2>1, <2>2
  <1> HIDE DEF waited, b
  <1>5. b \in Port /\ b.vs \in Numbers /\ b.v1s \in Numbers
    BY <1>4 DEF Live, Port
  <1>6. Same(b, c)
    <2>1. 1 \in 0 .. M
      BY PortAssumption
    <2>2. Plus(b.v1s, 1) \in Numbers
      BY <1>5, <2>1, PlusIs
    <2>3. Same(b, [Infosend([b EXCEPT !.v2s = Plus(b.v1s, 1)], "command", b.v1s, Plus(b.v1s, 1))
                     EXCEPT !.retries = Retry, !.wasrej = TRUE])
      BY <1>5, <2>2, RepeatSame
    <2>4. Same(b, [Infosend([b EXCEPT !.v2s = b.vs], "command", b.v1s, b.vs)
                     EXCEPT !.retries = Retry])
      BY <1>5, RepeatSame
    <2>5. Same(b, [b EXCEPT !.v2s = b.vs])
      BY <1>5, RetriesSame
    <2> QED
      BY <2>3, <2>4, <2>5
  <1> HIDE DEF c
  <1>7. Same(c, d)
    <2>1. c \in Port
      BY <1>6 DEF Same
    <2>2. Same(c, Paccodsup(c, "final")) /\ Same(c, Paccodsup(c, "response"))
      BY <2>1, PaccodsupSame DEF PFs
    <2>3. Same(c, c)
      BY <2>1 DEF Same
    <2> QED
      BY <2>2, <2>3
  <1> HIDE DEF d
  <1>8. rem \in BOOLEAN /\ t1 \in BOOLEAN
    OBVIOUS
  <1> HIDE DEF rem, t1
  <1>9. Same(d, [d EXCEPT !.rembusy = rem, !.timer1 = t1])
    <2>1. d \in Port
      BY <1>7 DEF Same
    <2> QED
      BY <1>8, <2>1, RetriesSame
  <1> QED
    BY <1>1, <1>4, <1>6, <1>7, <1>9, SameKeeps

(* Data enter the receive queue while the application takes the link for    *)
(* connected: also those with "//q", after which the state is disc_request  *)
(* first.                                                                  *)
LEMMA TakeIs ==
    ASSUME NEW p, Live(p), NEW x \in Pieces
    PROVE  Good(Take(p, x)) /\ (p.lstate # "disc_request" => Live(Take(p, x)))
  <1> DEFINE l == IF p.lstate = "rej_sent" THEN "info_transfer" ELSE p.lstate
             a == [p EXCEPT !.lstate = l]
             b == IF ~p.qtimer /\ Quits(x) THEN Disconnect(a, 1) ELSE a
             stored == ~p.qtimer /\ b.rxlen < MaxRx + RxRoom
             got == IF stored THEN Append(b.got, x) ELSE b.got
             astray == b.astray \/ (stored /\ b.told # "connected")
             rxlen == IF stored THEN b.rxlen + 1 ELSE b.rxlen
             over == b.overrun \/ ~stored
             busy == b.busy \/ (stored /\ b.rxlen > MaxRx)
             sums == [b.qsumme EXCEPT ![b.vr] = IF stored THEN Quersumme(x) ELSE 0]
             v == Plus(b.vr, 1)
             q == [b EXCEPT !.got = got, !.astray = astray, !.rxlen = rxlen, !.overrun = over,
                            !.busy = busy, !.qsumme = sums, !.vr = v]
  <1>1. Take(p, x) = q
    BY DEF Take
  <1>2. /\ p \in Port /\ p.told = "connected" /\ (p.astray => Quitting)
        /\ p.lstate \in Transfer \cup {"frame_reject", "disc_request"}
    BY DEF Live
  <1>3. Live(a) /\ (p.lstate # "disc_request" => a.lstate # "disc_request")
    <2>1. l \in LStates /\ l \in Transfer \cup {"frame_reject", "disc_request"}
      BY <1>2, StateSets DEF Transfer
    <2>2. p.lstate # "disc_request" => l # "disc_request"
      OBVIOUS
    <2> HIDE DEF l
    <2>3. a \in Port /\ a.lstate = l /\ a.told = p.told /\ a.astray = p.astray
      BY <1>2, <2>1, LstateIs
    <2> QED
      BY <1>2, <2>1, <2>2, <2>3 DEF Live
  <1> HIDE DEF a, l
  <1>4. Good(b) /\ (p.lstate # "disc_request" => Live(b))
    <2>1. Good(a)
      BY <1>3, LiveGood
    <2>2. Good(Disconnect(a, 1))
      BY <2>1, DisconnectGood
    <2>3. p.lstate # "disc_request" => Live(Disconnect(a, 1))
      BY <1>3, <2>1, DisconnectGood
    <2> QED
      BY <1>3, <2>1, <2>2, <2>3
  <1> HIDE DEF b
  <1>5. /\ b \in Port /\ (b.astray => Quitting) /\ b.got \in Seq(Pieces) /\ b.rxlen \in Nat /\ b.vr \in Numbers
        /\ b.qsumme \in [Numbers -> Sums] /\ b.overrun \in BOOLEAN /\ b.busy \in BOOLEAN
    BY <1>4 DEF Good, Tells, Port
  <1>6. /\ got \in Seq(Pieces) /\ astray \in BOOLEAN /\ rxlen \in Nat /\ over \in BOOLEAN
        /\ busy \in BOOLEAN /\ v \in Numbers /\ sums \in [Numbers -> Sums]
    <2>1. got \in Seq(Pieces) /\ rxlen \in Nat
      BY <1>5
    <2>2. v \in Numbers
      <3>1. 1 \in 0 .. M
        BY PortAssumption
      <3> QED
        BY <1>5, <3>1, PlusIs
    <2>3. sums \in [Numbers -> Sums]
      <3>1. (IF stored THEN Quersumme(x) ELSE 0) \in Sums
        BY DEF Sums, Infos
      <3>2. \A n \in Numbers : b.qsumme[n] \in Sums
        BY <1>5
      <3> QED
        BY <1>5, <3>1, <3>2
    <2>4. astray \in BOOLEAN /\ over \in BOOLEAN /\ busy \in BOOLEAN
      OBVIOUS
    <2> QED
      BY <2>1, <2>2, <2>3, <2>4
  <1>7. astray => Quitting
    <2>1. CASE b = a
      BY <1>2, <1>3, <1>5, <2>1 DEF Live
    <2>2. CASE b # a
      BY <2>2 DEF b, Quitting
    <2> QED
      BY <2>1, <2>2
  <1> HIDE DEF got, astray, rxlen, over, busy, v, sums
  <1>8. (Good(b) => Good(q)) /\ (Live(b) => Live(q))
    <2>1. q \in Port
      BY <1>5, <1>6 DEF Port
    <2>2. q.lstate = b.lstate /\ q.told = b.told /\ q.astray = astray
      BY <1>5 DEF Port
    <2> HIDE DEF q
    <2> QED
      BY <1>7, <2>1, <2>2 DEF Good, Live, Tells
  <1> HIDE DEF q
  <1> QED
    BY <1>1, <1>4, <1>8

LEMMA AnswerInfSame ==
    ASSUME NEW p \in Port, NEW pf, NEW out \in BOOLEAN
    PROVE  Same(p, AnswerInf(p, pf, out))
  <1>1. \A b \in BOOLEAN : Same(p, [p EXCEPT !.timer2 = b])
    BY RetriesSame
  <1> DEFINE q == [p EXCEPT !.timer2 = FALSE]
  <1>2. q \in Port /\ Same(p, q)
    BY <1>1 DEF Same
  <1>3. Same(q, Paccodsup(q, "final"))
    <2> HIDE DEF q
    <2> QED
      BY <1>2, PaccodsupSame DEF PFs
  <1>4. Same(p, Paccodsup(q, "final"))
    <2> HIDE DEF q
    <2> QED
      BY <1>2, <1>3 DEF Same
  <1>5. Same(p, Paccodsup(p, "response"))
    BY PaccodsupSame DEF PFs
  <1> QED
    BY <1>1, <1>4, <1>5 DEF AnswerInf

LEMMA DrainGood ==
    ASSUME NEW p, Live(p), NEW pf
    PROVE  Good(Drain(p, pf))
  <1>0. p \in Port /\ p.vr \in Numbers /\ p.sammler \in [Numbers -> Infos]
    BY DEF Live, Port
  <1> DEFINE x == p.sammler[p.vr]
             s == [p.sammler EXCEPT ![p.vr] = NoInfo]
             q == [p EXCEPT !.sammler = s]
             r == Take(q, x)
  <1>1. CASE x = NoInfo
    BY <1>1, LiveGood DEF Drain
  <1>2. CASE x # NoInfo
    <2>1. Drain(p, pf) = AnswerInf(r, pf, TRUE)
      BY <1>2 DEF Drain
    <2>2. x \in Pieces
      BY <1>0, <1>2 DEF Infos
    <2> HIDE DEF x
    <2>3. s \in [Numbers -> Infos]
      BY <1>0 DEF Infos
    <2> HIDE DEF s
    <2>4. Same(p, q)
      BY <1>0, <2>3 DEF Same, Port
    <2> HIDE DEF q
    <2>5. Live(q)
      BY <2>4, SameKeeps
    <2>6. Good(r)
      BY <2>2, <2>5, TakeIs
    <2> HIDE DEF r
    <2>7. Same(r, AnswerInf(r, pf, TRUE))
      BY <2>6, AnswerInfSame DEF Good
    <2> QED
      BY <2>1, <2>6, <2>7, SameKeeps
  <1> QED
    BY <1>1, <1>2

LEMMA KeepSame ==
    ASSUME NEW p \in Port, NEW f \in GoodFrames, f.type = "I"
    PROVE  Same(p, Keep(p, f))
  <1>1. f.ns \in Numbers /\ f.info \in Infos
    BY DEF GoodFrames, Frame, Infos
  <1>2. p.sammler \in [Numbers -> Infos] /\ p.qsumme \in [Numbers -> Sums]
    BY DEF Port
  <1> DEFINE s == [p.sammler EXCEPT ![f.ns] = f.info]
             c == [p.qsumme EXCEPT ![f.ns] = Quersumme(f.info)]
  <1>3. Keep(p, f) = p \/ Keep(p, f) = [p EXCEPT !.sammler = s, !.qsumme = c]
    BY DEF Keep
  <1>4. s \in [Numbers -> Infos]
    BY <1>1, <1>2
  <1>5. c \in [Numbers -> Sums]
    <2>1. Quersumme(f.info) \in Sums
      BY <1>1 DEF Sums
    <2>2. \A n \in Numbers : p.qsumme[n] \in Sums
      BY <1>2
    <2> QED
      BY <1>1, <1>2, <2>1, <2>2
  <1> HIDE DEF s, c
  <1>6. Same(p, [p EXCEPT !.sammler = s, !.qsumme = c])
    BY <1>4, <1>5 DEF Same, Port
  <1>7. Same(p, p)
    BY DEF Same
  <1> QED
    BY <1>3, <1>6, <1>7

LEMMA PacdecinfGood ==
    ASSUME NEW p, Live(p), p.lstate # "disc_request", NEW f \in GoodFrames, f.type = "I"
    PROVE  Good(Pacdecinf(p, f))
  <1> DEFINE a == Infack(p, f.nr)
             t == Take(a, f.info)
             d == Drain(t, f.pf)
             r == Paccodrej(a, f.pf)
             k == Keep(r, f)
             b == IF f.ns = a.vr THEN d ELSE IF a.vr # Plus(f.ns, 1) THEN k ELSE a
  <1>1. Pacdecinf(p, f) = AnswerInf(b, f.pf, FALSE)
    BY DEF Pacdecinf
  <1>2. f.nr \in Numbers /\ f.info \in Pieces /\ f.pf \in PFs
    BY DEF GoodFrames, Frame, PFs
  <1>3. Live(a) /\ a.lstate # "disc_request"
    BY <1>2, InfackLive
  <1> HIDE DEF a
  <1>4. Good(d)
    <2>1. Live(t)
      BY <1>2, <1>3, TakeIs
    <2> HIDE DEF t
    <2> QED
      BY <2>1, DrainGood
  <1> HIDE DEF d
  <1>5. Live(r)
    <2>1. a \in Port
      BY <1>3 DEF Live
    <2>2. r \in Port /\ r.told = a.told /\ r.astray = a.astray /\ r.lstate \in {a.lstate, "rej_sent"}
      BY <1>2, <2>1, PaccodrejIs
    <2> HIDE DEF r
    <2> QED
      BY <1>3, <2>2 DEF Live, Transfer
  <1> HIDE DEF r
  <1>6. Good(k)
    <2>1. Same(r, k)
      BY <1>5, KeepSame DEF Live
    <2> QED
      BY <1>5, <2>1, SameKeeps, LiveGood
  <1> HIDE DEF k
  <1>7. Good(b)
    BY <1>3, <1>4, <1>6, LiveGood
  <1> HIDE DEF b
  <1>8. Same(b, AnswerInf(b, f.pf, FALSE))
    BY <1>7, AnswerInfSame DEF Good
  <1> QED
    BY <1>1, <1>7, <1>8, SameKeeps

(* Every frame leaves the application with what the state of its link is.   *)
LEMMA PacdecGood ==
    ASSUME NEW p, Good(p), NEW f \in GoodFrames
    PROVE  Good(Pacdec(p, f))
  <1>1. CASE p.lstate = "disconnected"
    <2>1. Good(Conack(p))
      BY ConackGood
    <2>2. Good(Send(p, U("DM", "final")))
      <3>1. Same(p, Send(p, U("DM", "final")))
        BY FramesOf, SendSame DEF Good
      <3> QED
        BY <3>1, SameKeeps
    <2> QED
      BY <1>1, <2>1, <2>2 DEF Pacdec, PacdecOther
  <1>2. CASE p.lstate # "disconnected"
    <2> DEFINE a == IF p.qtimer /\ p.txinfout = <<>> /\ p.vs = p.v1s THEN Disconnect(p, 1) ELSE p
               s == Send(a, U("DM", "final"))
               b == CASE f.type = "SABM" -> Conack(a)
                      [] f.type = "UA" -> Pacdecua(a)
                      [] f.type = "DISC" -> Pacdecdm(s)
                      [] f.type = "DM" -> Pacdecdm(a)
                      [] f.type = "FRMR" -> Disconnect(a, 1)
                      [] f.type \in {"RR", "RNR", "REJ"} /\ a.lstate \in Transfer -> Pacdecsup(a, f)
                      [] f.type = "I" /\ a.lstate \in Transfer -> Pacdecinf(a, f)
                      [] OTHER -> a
    <2>1. Pacdec(p, f) = Tryinfo(b)
      BY <1>2 DEF Pacdec, PacdecMatch
    <2>2. Good(a)
      BY DisconnectGood
    <2> HIDE DEF a
    <2>3. Good(b)
      <3>1. Good(Conack(a)) /\ Good(Pacdecua(a)) /\ Good(Pacdecdm(a)) /\ Good(Disconnect(a, 1))
        BY <2>2, ConackGood, PacdecuaGood, PacdecdmGood, DisconnectGood
      <3>2. Good(Pacdecdm(s))
        <4>1. Same(a, s)
          BY <2>2, FramesOf, SendSame DEF Good
        <4> HIDE DEF s
        <4>2. Good(s)
          BY <2>2, <4>1, SameKeeps
        <4> QED
          BY <4>2, PacdecdmGood
      <3> HIDE DEF s
      <3>3. ASSUME a.lstate \in Transfer PROVE Good(Pacdecsup(a, f))
        <4>1. Live(a)
          BY <2>2, <3>3 DEF Good, Tells, Live
        <4> QED
          BY <4>1, PacdecsupLive, LiveGood
      <3>4. ASSUME a.lstate \in Transfer, f.type = "I" PROVE Good(Pacdecinf(a, f))
        <4>1. Live(a) /\ a.lstate # "disc_request"
          BY <2>2, <3>4, StateSets DEF Good, Tells, Live
        <4> QED
          BY <3>4, <4>1, PacdecinfGood
      <3>5. f.type \in {"SABM", "UA", "DISC", "DM", "FRMR", "RR", "RNR", "REJ", "I"}
        BY DEF GoodFrames, Frame
      <3> QED
        BY <2>2, <3>1, <3>2, <3>3, <3>4, <3>5
    <2> HIDE DEF b
    <2>4. Same(b, Tryinfo(b))
      BY <2>3, TryinfoSame DEF Good
    <2> QED
      BY <2>1, <2>3, <2>4, SameKeeps
  <1> QED
    BY <1>1, <1>2

-----------------------------------------------------------------------------
(* The two stations.                                                       *)

(* The inductive invariant: every port tells the truth, and the frames on   *)
(* the air have their form; an I frame always carries data.                 *)
Aired(a) == a \in [Stations -> Seq(GoodFrames)] /\ \A s \in Stations : Len(a[s]) <= MaxAir
L2LinkInv ==
    /\ port \in [Stations -> Port]
    /\ \A s \in Stations : Good(port[s]) /\ port[s].out = <<>>
    /\ Aired(air)

LEMMA PeerIs ==
    ASSUME NEW s \in Stations
    PROVE  Peer(s) \in Stations /\ Peer(s) # s
  <1>1. IsFiniteSet(Stations) /\ Cardinality(Stations) = 2
    BY LinkAssumption
  <1>2. Cardinality(Stations \ {s}) = 1
    BY <1>1, FS_RemoveElement
  <1>3. Stations \ {s} # {}
    BY <1>2, FS_EmptySet
  <1>4. \E t \in Stations : t # s
    BY <1>3
  <1> QED
    BY <1>4 DEF Peer

LEMMA BecomesKeeps ==
    ASSUME L2LinkInv, NEW s \in Stations, NEW p, Good(p), NEW heard, Aired(heard),
           Becomes(s, p, heard)
    PROVE  L2LinkInv'
  <1> DEFINE sent == heard[s] \o p.out
             n == Min({MaxAir, Len(sent)})
             rest == SubSeq(sent, 1, n)
             q == [p EXCEPT !.out = <<>>]
  <1>1. port' = [port EXCEPT ![s] = q] /\ air' = [heard EXCEPT ![s] = rest]
    BY DEF Becomes
  <1>2. sent \in Seq(GoodFrames)
    BY DEF Aired, Good, Port
  <1> HIDE DEF sent
  <1>3. n \in Nat /\ n <= MaxAir /\ n <= Len(sent)
    <2>1. MaxAir \in Nat /\ Len(sent) \in Nat
      BY <1>2, LinkAssumption
    <2>2. MaxAir \in Int /\ Len(sent) \in Int
      BY <2>1
    <2> DEFINE len == Len(sent)
    <2> HIDE DEF len
    <2>3. Min({MaxAir, len}) \in {MaxAir, len} /\ Min({MaxAir, len}) <= MaxAir /\ Min({MaxAir, len}) <= len
      BY <2>2, MinOf DEF len
    <2> QED
      BY <2>1, <2>3 DEF len
  <1> HIDE DEF n
  <1>4. rest \in Seq(GoodFrames) /\ Len(rest) <= MaxAir
    BY <1>2, <1>3
  <1> HIDE DEF rest
  <1>5. Same(p, q) /\ q.out = <<>>
    <2>1. <<>> \in Seq(GoodFrames)
      OBVIOUS
    <2> QED
      BY <2>1 DEF Good, Port, Same
  <1> HIDE DEF q
  <1>6. Good(q) /\ q \in Port
    BY <1>5, SameKeeps DEF Good
  <1>7. Aired(air')
    BY <1>1, <1>4 DEF Aired
  <1>8. port' \in [Stations -> Port]
    BY <1>1, <1>6 DEF L2LinkInv
  <1>9. \A t \in Stations : Good(port'[t]) /\ port'[t].out = <<>>
    BY <1>1, <1>5, <1>6 DEF L2LinkInv
  <1> QED
    BY <1>7, <1>8, <1>9 DEF L2LinkInv, Aired

LEMMA PortSame ==
    ASSUME NEW p, Good(p)
    PROVE  /\ Good([p EXCEPT !.timer1 = FALSE]) /\ Good([p EXCEPT !.timer2 = FALSE])
  <1>1. Same(p, [p EXCEPT !.timer1 = FALSE])
    BY DEF Same, Good, Port
  <1>2. Same(p, [p EXCEPT !.timer2 = FALSE])
    BY DEF Same, Good, Port
  <1> QED
    BY <1>1, <1>2, SameKeeps

LEMMA L2LinkInit == Init => L2LinkInv
  <1> SUFFICES ASSUME Init PROVE L2LinkInv
    OBVIOUS
  <1>1. Good(Idle) /\ Idle.out = <<>>
    <2>1. Idle \in Port /\ Idle.lstate = "disconnected" /\ Idle.told = "disconnected"
             /\ Idle.astray = FALSE
      BY IdlePort
    <2>2. Idle.out = <<>>
      BY DEF Idle
    <2> QED
      BY <2>1, <2>2, StateSets DEF Good, Tells
  <1>2. Idle \in Port
    BY <1>1 DEF Good
  <1>3. Aired(air)
    <2>1. <<>> \in Seq(GoodFrames) /\ Len(<<>>) = 0 /\ 0 <= MaxAir
      BY LinkAssumption
    <2> QED
      BY <2>1 DEF Init, Aired
  <1> QED
    BY <1>1, <1>2, <1>3 DEF Init, L2LinkInv

LEMMA L2LinkStep == L2LinkInv /\ [Next]_vars => L2LinkInv'
  <1> SUFFICES ASSUME L2LinkInv, [Next]_vars PROVE L2LinkInv'
    OBVIOUS
  <1>0. Aired(air) /\ \A s \in Stations : Good(port[s]) /\ Peer(s) \in Stations
    BY PeerIs DEF L2LinkInv
  <1>1. CASE UNCHANGED vars
    BY <1>1 DEF vars, L2LinkInv, Aired
  <1>2. ASSUME NEW s \in Stations, Receive(s) PROVE L2LinkInv'
    <2> DEFINE t == Peer(s)
               f == Head(air[t])
               heard == [air EXCEPT ![t] = Tail(air[t])]
    <2>1. t \in Stations /\ air[t] # <<>> /\ Becomes(s, Pacdec(port[s], f), heard)
      BY <1>0, <1>2 DEF Receive
    <2> HIDE DEF t
    <2>2. f \in GoodFrames /\ Tail(air[t]) \in Seq(GoodFrames) /\ Len(Tail(air[t])) <= MaxAir
      <3>1. air[t] \in Seq(GoodFrames) /\ Len(air[t]) <= MaxAir /\ MaxAir \in Nat
        BY <1>0, <2>1, LinkAssumption DEF Aired
      <3> QED
        BY <2>1, <3>1
    <2>3. Aired(heard)
      BY <1>0, <2>1, <2>2 DEF Aired
    <2> HIDE DEF f, heard
    <2>4. Good(Pacdec(port[s], f))
      BY <1>0, <2>2, PacdecGood
    <2> QED
      BY <2>1, <2>3, <2>4, BecomesKeeps
  <1>3. ASSUME NEW s \in Stations, Lose(s) PROVE L2LinkInv'
    <2>1. air[s] \in Seq(GoodFrames) /\ Len(air[s]) <= MaxAir /\ MaxAir \in Nat /\ air[s] # <<>>
      BY <1>0, <1>3, LinkAssumption DEF Aired, Lose
    <2>2. Tail(air[s]) \in Seq(GoodFrames) /\ Len(Tail(air[s])) <= MaxAir
      BY <2>1
    <2>3. air' = [air EXCEPT ![s] = Tail(air[s])] /\ port' = port
      BY <1>3 DEF Lose
    <2>4. Aired(air')
      BY <1>0, <2>2, <2>3 DEF Aired
    <2> QED
      BY <2>3, <2>4 DEF L2LinkInv, Aired
  <1>4. ASSUME NEW s \in Stations, Timer1(s) PROVE L2LinkInv'
    <2> DEFINE q == [port[s] EXCEPT !.timer1 = FALSE]
    <2>1. Becomes(s, T1tout(q), air)
      BY <1>4 DEF Timer1
    <2>2. Good(q)
      BY <1>0, PortSame
    <2> HIDE DEF q
    <2>3. Good(T1tout(q))
      BY <2>2, T1toutGood
    <2> QED
      BY <1>0, <2>1, <2>3, BecomesKeeps
  <1>5. ASSUME NEW s \in Stations, Timer2(s) PROVE L2LinkInv'
    <2> DEFINE q == [port[s] EXCEPT !.timer2 = FALSE]
    <2>1. Becomes(s, Paccodsup(q, "response"), air)
      BY <1>5 DEF Timer2
    <2>2. Good(q)
      BY <1>0, PortSame
    <2> HIDE DEF q
    <2>3. Same(q, Paccodsup(q, "response"))
      BY <2>2, PaccodsupSame DEF Good, PFs
    <2>4. Good(Paccodsup(q, "response"))
      BY <2>2, <2>3, SameKeeps
    <2> QED
      BY <1>0, <2>1, <2>4, BecomesKeeps
  <1>6. ASSUME NEW s \in Stations, Timer3(s) PROVE L2LinkInv'
    <2>1. Good(T1tout(port[s])) /\ Becomes(s, T1tout(port[s]), air)
      BY <1>0, <1>6, T1toutGood DEF Timer3
    <2> QED
      BY <1>0, <2>1, BecomesKeeps
  <1>7. ASSUME NEW s \in Stations, Qtimer(s) PROVE L2LinkInv'
    <2>1. Good(Disconnect(port[s], 1)) /\ Becomes(s, Disconnect(port[s], 1), air)
      BY <1>0, <1>7, DisconnectGood DEF Qtimer
    <2> QED
      BY <1>0, <2>1, BecomesKeeps
  <1>8. ASSUME NEW s \in Stations, ConnectTo(s) PROVE L2LinkInv'
    <2>1. Good(Connect(port[s])) /\ Becomes(s, Connect(port[s]), air)
      BY <1>0, <1>8, ConnectGood DEF ConnectTo
    <2> QED
      BY <1>0, <2>1, BecomesKeeps
  <1>9. ASSUME NEW s \in Stations, NEW mode \in Modes, DisconnectFrom(s, mode) PROVE L2LinkInv'
    <2>1. Good(Disconnect(port[s], mode)) /\ Becomes(s, Disconnect(port[s], mode), air)
      BY <1>0, <1>9, DisconnectGood DEF DisconnectFrom
    <2> QED
      BY <1>0, <2>1, BecomesKeeps
  <1>10. ASSUME NEW s \in Stations, SubmitData(s) PROVE L2LinkInv'
    <2>1. Good(Submit(port[s])) /\ Becomes(s, Submit(port[s]), air)
      BY <1>0, <1>10, SubmitGood DEF SubmitData
    <2> QED
      BY <1>0, <2>1, BecomesKeeps
  <1>11. ASSUME NEW s \in Stations, Read(s) PROVE L2LinkInv'
    <2>1. Good(Chrin(port[s])) /\ Becomes(s, Chrin(port[s]), air)
      BY <1>0, <1>11, ChrinGood DEF Read
    <2> QED
      BY <1>0, <2>1, BecomesKeeps
  <1>12. ASSUME NEW s \in Stations, Restart(s) PROVE L2LinkInv'
    <2> DEFINE n == port[s].sess
               q == [Idle EXCEPT !.sess = n]
    <2>1. Becomes(s, q, air)
      BY <1>12 DEF Restart
    <2>2. n \in Nat
      BY <1>0 DEF Good, Port
    <2> HIDE DEF n
    <2>3. Good(q)
      <3> DEFINE i == Idle
      <3>1. /\ i \in Port /\ i.lstate = "disconnected" /\ i.told = "disconnected" /\ (i.astray => Quitting)
        BY IdlePort
      <3> HIDE DEF i
      <3>2. Same(i, [i EXCEPT !.sess = n])
        BY <2>2, <3>1 DEF Same, Port
      <3>3. Good(i)
        BY <3>1, StateSets DEF Good, Tells
      <3>4. Good([i EXCEPT !.sess = n])
        BY <3>2, <3>3, SameKeeps
      <3> QED
        BY <3>4 DEF i
    <2> HIDE DEF q
    <2> QED
      BY <1>0, <2>1, <2>3, BecomesKeeps
  <1> QED
    BY <1>1, <1>2, <1>3, <1>4, <1>5, <1>6, <1>7, <1>8, <1>9, <1>10, <1>11, <1>12 DEF Next

LEMMA L2LinkTypes == L2LinkInv => TypeOK
  <1> SUFFICES ASSUME L2LinkInv, NEW s \in Stations
               PROVE  LET p == port[s] IN
                      /\ p.lstate \in LStates /\ {p.vr, p.vs, p.v1s, p.v2s} \subseteq Numbers
                      /\ {p.busy, p.rembusy, p.wasrej, p.timer1, p.timer2, p.qtimer, p.overrun}
                            \subseteq BOOLEAN
                      /\ p.retries \in -1 .. Retry + 1 /\ p.rxlen \in Nat
                      /\ \A n \in Numbers : {p.txinfptr[n], p.sammler[n]} \subseteq Pieces \cup {NoInfo}
                      /\ ToSet(p.txinfout) \subseteq Pieces /\ ToSet(p.got) \subseteq Pieces
                      /\ p.told \in {"connected", "disconnected", "failure", "busy"}
                      /\ p.astray \in BOOLEAN
                      /\ ToSet(air[s]) \subseteq Frame /\ Len(air[s]) <= MaxAir
                      /\ p.out = <<>>
    BY DEF TypeOK
  <1> DEFINE p == port[s]
  <1>1. p \in Port /\ p.out = <<>> /\ air[s] \in Seq(GoodFrames) /\ Len(air[s]) <= MaxAir
    BY DEF L2LinkInv, Aired
  <1> HIDE DEF p
  <1>2. /\ p.lstate \in LStates /\ {p.vr, p.vs, p.v1s, p.v2s} \subseteq Numbers
        /\ {p.busy, p.rembusy, p.wasrej, p.timer1, p.timer2, p.qtimer, p.overrun} \subseteq BOOLEAN
        /\ p.retries \in -1 .. Retry + 1 /\ p.rxlen \in Nat
        /\ p.told \in {"connected", "disconnected", "failure", "busy"} /\ p.astray \in BOOLEAN
    BY <1>1 DEF Port, Messages
  <1>3. \A n \in Numbers : {p.txinfptr[n], p.sammler[n]} \subseteq Pieces \cup {NoInfo}
    BY <1>1 DEF Port, Infos
  <1>4. ToSet(p.txinfout) \subseteq Pieces /\ ToSet(p.got) \subseteq Pieces
    BY <1>1 DEF Port, ToSet
  <1>5. ToSet(air[s]) \subseteq Frame
    BY <1>1 DEF ToSet, GoodFrames
  <1> QED
    BY <1>1, <1>2, <1>3, <1>4, <1>5 DEF p

(* Type correctness of the two stations and the channel, for every modulus, *)
(* window, queue and number of retries, with lost frames and restarts.      *)
THEOREM LinkTypes == Spec => []TypeOK
  <1>1. Spec => []L2LinkInv
    BY L2LinkInit, L2LinkStep, PTL DEF Spec
  <1> QED
    BY <1>1, L2LinkTypes, PTL

(* What linkmsg tells the application is true (dodisc, conack, pacdecua,    *)
(* pacdecdm, t1tout), and all data lie between a "connected" and the end    *)
(* (pacdecinf), also when frames are lost, late or left from before a       *)
(* restart.  With "//q" (w.sccon off) the last is true of one of them at a  *)
(* time: of two that leave the sammler together, the second ends the       *)
(* connection before it is stored.                                         *)
THEOREM LinkMessages == ~Quitting => (Spec => []MessagesTell)
  <1> SUFFICES ASSUME ~Quitting PROVE Spec => []MessagesTell
    OBVIOUS
  <1>1. Spec => []L2LinkInv
    BY L2LinkInit, L2LinkStep, PTL DEF Spec
  <1>2. L2LinkInv => MessagesTell
    BY DEF L2LinkInv, Good, Tells, MessagesTell, Connected
  <1> QED
    BY <1>1, <1>2, PTL

-----------------------------------------------------------------------------
(* What an implementation of ReliableStream guarantees.                    *)

BeginningOf(submitted, delivered, released) ==
    /\ submitted \in Nat /\ delivered \in Seq(Nat) /\ released \in Nat
    /\ \A i \in 1 .. Len(delivered) : delivered[i] = i
    /\ released <= Len(delivered) /\ Len(delivered) <= submitted

(* Pieces appended with the numbers that follow keep the order.             *)
LEMMA DeliverOrder ==
    ASSUME NEW n, NEW d, NEW r, BeginningOf(n, d, r), NEW k \in Len(d) + 1 .. n
    PROVE  BeginningOf(n, d \o [i \in 1 .. k - Len(d) |-> Len(d) + i], r)
  <1> DEFINE l == Len(d)
             more == [i \in 1 .. k - l |-> l + i]
             e == d \o more
  <1>1. /\ l \in Nat /\ k \in Nat /\ l + 1 <= k /\ k - l \in Nat /\ k <= n /\ n \in Nat
        /\ d \in Seq(Nat) /\ r \in Nat /\ r <= l /\ \A i \in 1 .. l : d[i] = i
    BY DEF BeginningOf
  <1>2. more \in Seq(Nat) /\ Len(more) = k - l
    BY <1>1
  <1>3. e \in Seq(Nat) /\ Len(e) = k /\ \A i \in 1 .. k : e[i] = IF i <= l THEN d[i] ELSE more[i - l]
    BY <1>1, <1>2
  <1>4. \A i \in 1 .. k : e[i] = i
    <2> TAKE i \in 1 .. k
    <2>1. CASE i <= l
      <3>1. i \in 1 .. l /\ d[i] = i
        BY <1>1, <2>1
      <3> HIDE DEF l, more, e
      <3> QED
        BY <1>3, <2>1, <3>1
    <2>2. CASE i > l
      <3>1. i - l \in 1 .. k - l
        BY <1>1, <2>2
      <3>2. more[i - l] = l + (i - l)
        BY <3>1
      <3> HIDE DEF l, more, e
      <3> QED
        BY <1>1, <1>3, <2>2, <3>2
    <2> QED
      BY <2>1, <2>2, <1>1
  <1>5. BeginningOf(n, e, r)
    <2> HIDE DEF l, more, e
    <2> QED
      BY <1>1, <1>3, <1>4 DEF BeginningOf
  <1> QED
    BY <1>5

LEMMA BeginningSteps ==
    /\ BeginningOf(0, <<>>, 0)
    /\ \A n, d, r : BeginningOf(n, d, r) => BeginningOf(n + 1, d, r)
    /\ \A n, d, r : BeginningOf(n, d, r) =>
          \A k \in r + 1 .. Len(d) : BeginningOf(n, d, k)
  BY DEF BeginningOf

StreamInv ==
    BeginningOf(port[Sender].sub,
                [i \in DOMAIN port[Peer(Sender)].got |-> port[Peer(Sender)].got[i][2]],
                port[Sender].acked)

(* If the link implements ReliableStream, which the runs check, then what   *)
(* the receiving application has been given is a beginning of what was      *)
(* submitted, in order and without gaps, and the sender has released no     *)
(* more (putinfo, infack, pacdecinf).                                      *)
THEOREM StreamPrefix == StreamKept => []Direction!PrefixDelivered
  <1> DEFINE submitted == port[Sender].sub
             delivered == [i \in DOMAIN port[Peer(Sender)].got |-> port[Peer(Sender)].got[i][2]]
             released == port[Sender].acked
  <1>1. Direction!Init => StreamInv
    BY BeginningSteps DEF Direction!Init, StreamInv
  <1>2. StreamInv /\ [Direction!Next]_(Direction!svars) => StreamInv'
    <2> SUFFICES ASSUME BeginningOf(submitted, delivered, released),
                        [Direction!Next]_(Direction!svars)
                 PROVE  BeginningOf(submitted', delivered', released')
      BY DEF StreamInv
    <2>1. CASE Direction!Submit
      <3>1. submitted' = submitted + 1 /\ delivered' = delivered /\ released' = released
        BY <2>1 DEF Direction!Submit
      <3> HIDE DEF submitted, delivered, released
      <3> QED
        BY <3>1, BeginningSteps
    <2>2. CASE Direction!Deliver
      <3>1. submitted' = submitted /\ released' = released
        BY <2>2 DEF Direction!Deliver
      <3>2. PICK k \in Len(delivered) + 1 .. submitted :
               delivered' = delivered \o [i \in 1 .. k - Len(delivered) |-> Len(delivered) + i]
        BY <2>2 DEF Direction!Deliver
      <3> HIDE DEF submitted, delivered, released
      <3>3. BeginningOf(submitted,
                        delivered \o [i \in 1 .. k - Len(delivered) |-> Len(delivered) + i], released)
        BY DeliverOrder
      <3> QED
        BY <3>1, <3>2, <3>3
    <2>3. CASE Direction!Release
      <3>1. /\ submitted' = submitted /\ delivered' = delivered
            /\ \E k \in released + 1 .. Len(delivered) : released' = k
        BY <2>3 DEF Direction!Release
      <3> HIDE DEF submitted, delivered, released
      <3> QED
        BY <3>1, BeginningSteps
    <2>4. CASE UNCHANGED Direction!svars
      <3>1. submitted' = submitted /\ delivered' = delivered /\ released' = released
        BY <2>4 DEF Direction!svars
      <3> HIDE DEF submitted, delivered, released
      <3> QED
        BY <3>1
    <2> QED
      BY <2>1, <2>2, <2>3, <2>4 DEF Direction!Next
  <1>3. StreamInv => Direction!PrefixDelivered
    BY DEF StreamInv, BeginningOf, Direction!PrefixDelivered
  <1> QED
    BY <1>1, <1>2, <1>3, PTL DEF StreamKept, Direction!Spec
=============================================================================
