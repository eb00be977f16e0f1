--------------------------- MODULE SessionProofs ---------------------------
(* What the partners of a forwarding session know of each other, and the   *)
(* lemmas by which one step of one of them keeps it.                       *)
EXTENDS AsciiForward, FiniteSetTheorems, WellFoundedInduction, TLAPS

(* Induction over the natural numbers, in the form the provers can use: a  *)
(* set that has 0 and the successors of its members has all of them.       *)
LEMMA SetInduction ==
    ASSUME NEW S, 0 \in S, \A n \in Nat : n \in S => n + 1 \in S
    PROVE  Nat \subseteq S
  <1> DEFINE R == OpToRel(<, Nat)
             Q == Nat \ S
  <1>1. IsWellFoundedOn(R, Nat)
    BY NatLessThanWellFounded
  <1>2. SUFFICES ASSUME Q # {} PROVE FALSE
    OBVIOUS
  <1>3. PICK x \in Q : \A y \in Q : ~ (<<y, x>> \in R)
    <2>1. Q \subseteq Nat
      OBVIOUS
    <2> HIDE DEF R, Q
    <2> QED
      BY <1>1, <1>2, <2>1, WFMin
  <1>4. x - 1 \in Q /\ <<x - 1, x>> \in R
    BY DEF OpToRel
  <1> QED
    BY <1>3, <1>4

(* The recursive function in Those exists.                                 *)
KeepOf(q, S, n, K) ==
    K = [k \in 0 .. n |-> IF k = 0 THEN <<>>
                          ELSE IF q[k] \in S THEN Append(K[k - 1], q[k]) ELSE K[k - 1]]

LEMMA KeepStep ==
    ASSUME NEW q, NEW S, NEW n \in Nat, NEW K, KeepOf(q, S, n, K)
    PROVE  /\ K[0] = <<>>
           /\ \A k \in 1 .. n :
                K[k] = IF q[k] \in S THEN Append(K[k - 1], q[k]) ELSE K[k - 1]
  <1> DEFINE B(k) == IF k = 0 THEN <<>>
                     ELSE IF q[k] \in S THEN Append(K[k - 1], q[k]) ELSE K[k - 1]
  <1>1. \A k \in 0 .. n : K[k] = B(k)
    <2>1. K = [k \in 0 .. n |-> B(k)]
      BY DEF KeepOf
    <2> HIDE DEF B
    <2> QED
      BY <2>1
  <1>2. 0 \in 0 .. n /\ \A k \in 1 .. n : k \in 0 .. n /\ k # 0
    OBVIOUS
  <1>3. K[0] = B(0) /\ \A k \in 1 .. n : K[k] = B(k)
    <2> HIDE DEF B
    <2> QED
      BY <1>1, <1>2
  <1> QED
    BY <1>3

LEMMA KeepExists ==
    ASSUME NEW q, NEW S
    PROVE  \A n \in Nat : \E K : KeepOf(q, S, n, K)
  <1> DEFINE Good == {n \in Nat : \E K : KeepOf(q, S, n, K)}
  <1>1. 0 \in Good
    <2>1. KeepOf(q, S, 0, [k \in 0 .. 0 |-> <<>>])
      BY DEF KeepOf
    <2> QED
      BY <2>1
  <1>2. ASSUME NEW n \in Nat, n \in Good PROVE n + 1 \in Good
    <2>1. PICK K : KeepOf(q, S, n, K)
      BY <1>2
    <2> DEFINE L == [k \in 0 .. n + 1 |->
                 IF k \in 0 .. n THEN K[k]
                 ELSE IF q[n + 1] \in S THEN Append(K[n], q[n + 1]) ELSE K[n]]
    <2>2. \A k \in 0 .. n : L[k] = K[k]
      OBVIOUS
    <2>3. \A k \in 0 .. n + 1 : L[k] = IF k = 0 THEN <<>>
                          ELSE IF q[k] \in S THEN Append(L[k - 1], q[k]) ELSE L[k - 1]
      <3> SUFFICES ASSUME NEW k \in 0 .. n + 1
                   PROVE  L[k] = IF k = 0 THEN <<>>
                          ELSE IF q[k] \in S THEN Append(L[k - 1], q[k]) ELSE L[k - 1]
        OBVIOUS
      <3>1. CASE k = 0
        BY <2>1, <3>1 DEF KeepOf
      <3>2. CASE k \in 1 .. n
        <4>1. \A j \in 1 .. n :
                 K[j] = IF q[j] \in S THEN Append(K[j - 1], q[j]) ELSE K[j - 1]
          <5> HIDE DEF L
          <5> QED
            BY <2>1, KeepStep
        <4>2. k \in 0 .. n /\ k - 1 \in 0 .. n /\ k # 0
          BY <3>2
        <4> HIDE DEF L
        <4> QED
          BY <2>2, <3>2, <4>1, <4>2
      <3>3. CASE k = n + 1
        <4>1. L[n + 1] = IF q[n + 1] \in S THEN Append(K[n], q[n + 1]) ELSE K[n]
          OBVIOUS
        <4>2. L[n] = K[n] /\ k - 1 = n /\ k # 0
          BY <2>2, <3>3
        <4> HIDE DEF L
        <4> QED
          BY <3>3, <4>1, <4>2
      <3> QED
        BY <3>1, <3>2, <3>3
    <2>4. L = [k \in 0 .. n + 1 |-> IF k = 0 THEN <<>>
                          ELSE IF q[k] \in S THEN Append(L[k - 1], q[k]) ELSE L[k - 1]]
      <3>1. L = [k \in 0 .. n + 1 |-> L[k]]
        OBVIOUS
      <3> HIDE DEF L
      <3> QED
        BY <2>3, <3>1
    <2>5. KeepOf(q, S, n + 1, L)
      <3> HIDE DEF L
      <3> QED
        BY <2>4 DEF KeepOf
    <2> QED
      BY <2>5
  <1>3. Nat \subseteq Good
    <2> HIDE DEF Good
    <2> QED
      BY <1>1, <1>2, SetInduction
  <1> QED
    BY <1>3

(* What Those returns: the members of q that are in S, and no more of them *)
(* than q has.                                                             *)
LEMMA ThoseKept ==
    ASSUME NEW V, NEW q \in Seq(V), NEW S
    PROVE  /\ Those(q, S) \in Seq(V)
           /\ Len(Those(q, S)) <= Len(q)
           /\ \A k \in 1 .. Len(Those(q, S)) :
                Those(q, S)[k] \in S /\ \E i \in 1 .. Len(q) : q[i] = Those(q, S)[k]
           /\ \A i \in 1 .. Len(q) :
                q[i] \in S => \E k \in 1 .. Len(Those(q, S)) : Those(q, S)[k] = q[i]
  <1> DEFINE n == Len(q)
             K == CHOOSE K : KeepOf(q, S, n, K)
             Right(k) == /\ K[k] \in Seq(V) /\ Len(K[k]) <= k
                         /\ \A j \in 1 .. Len(K[k]) :
                              K[k][j] \in S /\ \E i \in 1 .. k : q[i] = K[k][j]
                         /\ \A i \in 1 .. k : q[i] \in S =>
                              \E j \in 1 .. Len(K[k]) : K[k][j] = q[i]
             Good == {k \in Nat : k <= n => Right(k)}
  <1>1. n \in Nat /\ Those(q, S) = K[n]
    BY DEF Those, KeepOf
  <1>2. KeepOf(q, S, n, K)
    BY <1>1, KeepExists
  <1>3. /\ K[0] = <<>>
        /\ \A k \in 1 .. n : K[k] = IF q[k] \in S THEN Append(K[k - 1], q[k]) ELSE K[k - 1]
    <2> HIDE DEF K, n
    <2> QED
      BY <1>1, <1>2, KeepStep
  <1> HIDE DEF K
  <1>4. 0 \in Good
    <2>1. K[0] = <<>> /\ <<>> \in Seq(V) /\ Len(<<>>) = 0
      BY <1>3
    <2>2. Right(0)
      BY <2>1
    <2> HIDE DEF Right
    <2> QED
      BY <2>2
  <1>5. ASSUME NEW k \in Nat, k \in Good PROVE k + 1 \in Good
    <2> SUFFICES ASSUME k + 1 <= n PROVE Right(k + 1)
      <3> HIDE DEF Right, n
      <3> QED
        OBVIOUS
    <2>1. Right(k) /\ k + 1 \in 1 .. n /\ (k + 1) - 1 = k /\ q[k + 1] \in V
      BY <1>1, <1>5
    <2>2. K[k + 1] = IF q[k + 1] \in S THEN Append(K[k], q[k + 1]) ELSE K[k]
      BY <1>3, <2>1
    <2>3. CASE q[k + 1] \in S
      <3> DEFINE c == q[k + 1]
                 a == K[k]
      <3>1. K[k + 1] = Append(a, c) /\ a \in Seq(V)
        BY <2>1, <2>2, <2>3
      <3>2. /\ Append(a, c) \in Seq(V) /\ Len(Append(a, c)) = Len(a) + 1
            /\ \A j \in 1 .. Len(a) : Append(a, c)[j] = a[j]
            /\ Append(a, c)[Len(a) + 1] = c
        BY <2>1, <3>1
      <3>3. \A j \in 1 .. Len(a) + 1 : j \in 1 .. Len(a) \/ j = Len(a) + 1
        BY <3>1
      <3>4. \A i \in 1 .. k + 1 : i \in 1 .. k \/ i = k + 1
        OBVIOUS
      <3>5. 1 .. k \subseteq 1 .. k + 1 /\ k + 1 \in 1 .. k + 1
            /\ 1 .. Len(a) \subseteq 1 .. Len(a) + 1 /\ Len(a) + 1 \in 1 .. Len(a) + 1
        BY <3>1
      <3>6. Len(a) + 1 <= k + 1
        BY <2>1, <3>1
      <3> HIDE DEF a
      <3> QED
        BY <2>1, <2>3, <3>1, <3>2, <3>3, <3>4, <3>5, <3>6 DEF a
    <2>4. CASE q[k + 1] \notin S
      <3> DEFINE a == K[k]
      <3>1. K[k + 1] = a /\ a \in Seq(V) /\ Len(a) <= k + 1
        BY <2>1, <2>2, <2>4
      <3>2. /\ \A j \in 1 .. Len(a) : a[j] \in S /\ \E i \in 1 .. k : q[i] = a[j]
            /\ \A i \in 1 .. k : q[i] \in S => \E j \in 1 .. Len(a) : a[j] = q[i]
        BY <2>1
      <3>3. /\ \A i \in 1 .. k + 1 : i \in 1 .. k \/ i = k + 1
            /\ 1 .. k \subseteq 1 .. k + 1
        OBVIOUS
      <3> HIDE DEF a
      <3> QED
        BY <2>4, <3>1, <3>2, <3>3
    <2> QED
      BY <2>3, <2>4
  <1>6. n \in Good
    <2> HIDE DEF Good
    <2> QED
      BY <1>1, <1>4, <1>5, SetInduction
  <1> QED
    BY <1>1, <1>6

-----------------------------------------------------------------------------
(* Types.                                                                  *)

FbbPcs == {"send_propose", "send_delay", "wait_fs", "send_mail", "recv_propose",
           "parse", "take", "erase", "recv_mail", "recv_data", "save", "queue"}
AsciiPcs == {"a_pr2", "a_send", "a_file", "a_ok", "a_wp", "a_del", "a_delay",
             "a_prompt", "a_receive", "a_want", "a_take", "a_text", "a_save", "a_queue"}
Fields == {"pc", "job", "list", "stat", "i", "at", "ask", "ans", "want", "got",
           "next", "had", "delayed", "locks"}

Bits == 0 .. 1
(* the texts of mails that are whole *)
Wholes == {[k \in 1 .. Blocks |-> v] : v \in Bits}
Status == {"yes", "no", "later", "reject"}
Replies == [m : Mails, st : Status, off : Nat]

Frames == {<<"FF">>, <<"FQ">>, <<">">>, <<"OK">>, <<"NO">>, <<"LA">>, <<"RJ">>,
           <<"F>">>, <<"***done">>}
            \cup ({"prop"} \X Seq(Mails)) \cup ({"FS"} \X Seq(Replies))
            \cup ({"mail"} \X Nat \X Wholes) \cup ({"S"} \X Mails) \cup ({"text"} \X Wholes)

(* The variables of a task.                                                *)
TaskType(t) ==
    /\ DOMAIN t = Fields
    /\ t.pc \in FbbPcs \cup AsciiPcs \cup {"none", "end"}
    /\ t.pc = "none" => t = NoTask
    /\ t.list \in Seq(Mails) /\ t.ask \in Seq(Mails)
    /\ t.ans \in Seq(Replies) /\ t.want \in Seq(Replies)
    /\ t.i \in Nat /\ t.locks \subseteq Mails
    /\ t.pc \in {"parse", "take"} => Len(t.ans) <= Len(t.ask)
    /\ t.pc = "take" => Len(t.ans) < Len(t.ask)
    /\ t.pc \in {"recv_data", "save", "queue", "a_text", "a_save", "a_queue"} => t.want # <<>>
    /\ t.pc \in {"save", "a_save"} => t.got \in Wholes
    /\ t.pc \in {"a_want", "a_take"} => t.ask # <<>>
    /\ t.pc \in {"a_file", "a_ok", "a_wp", "a_del"} => t.list # <<>>
    /\ t.pc \in {"send_mail", "erase"} => t.i >= 1
    /\ t.pc \in {"send_mail", "recv_propose", "parse", "take", "erase"} =>
         t.stat \in Seq(Replies) /\ Len(t.stat) = Len(t.list)
    /\ t.pc = "erase" => t.next \in {"recv_mail", "send_propose", "end"}

BoxTypes ==
    /\ mail \in [Boxes -> [Mails -> {"none", "live", "fwd", "user"}]]
    /\ text \in [Boxes -> [Mails -> Seq(Bits)]]
    /\ prop \in [Boxes -> SUBSET Personal] /\ bids \in [Boxes -> SUBSET Mails]
    /\ queue \in [Boxes -> [Boxes -> Seq(Mails)]]
    /\ frag \in [Boxes -> [Boxes -> [Mails -> Seq(Bits)]]]
    /\ \A x \in Boxes, m \in Mails : mail[x][m] # "none" => text[x][m] \in Wholes
SessionTypes ==
    /\ link \in [Sessions -> {"down", "up", "broken"}]
    /\ DOMAIN end = Sessions /\ DOMAIN wire = Sessions
    /\ \A s \in Sessions :
         /\ DOMAIN end[s] = {s[1], s[2]} /\ DOMAIN wire[s] = {s[1], s[2]}
         /\ \A x \in {s[1], s[2]} : TaskType(end[s][x]) /\ wire[s][x] \in Seq(Frames)

-----------------------------------------------------------------------------
(* What one end of a session knows of the other.  t is the task at this    *)
(* end, u the one at the other; M and N are the messages under way to this *)
(* and to the other end, bx and by the BID lists of the two boxes.         *)

Msgs(w) == {w[k] : k \in 1 .. Len(w)}
TurnKinds == {"prop", "FF", "FQ"}
Weighty == TurnKinds \cup {"FS"}
HasTurn(M) == \E f \in M : f[1] \in TurnKinds
HasStatus(M) == \E f \in M : f[1] = "FS"
(* At most one of the messages w is of these kinds.                        *)
OneOf(w, kinds) ==
    \A j, k \in 1 .. Len(w) : w[j][1] \in kinds /\ w[k][1] \in kinds => j = k

(* It is this end's turn to send, or it does the work before.              *)
TurnPcs == {"send_propose", "send_delay", "erase", "recv_mail", "recv_data", "save", "queue"}

WantSet(t) == {t.want[k].m : k \in 1 .. Len(t.want)}

(* Of the mails proposed, those not put off are known to the partner ...   *)
Settled(list, stat, by) ==
    \A k \in 1 .. Len(list) : stat[k].st # "later" => list[k] \in by
(* ... or it is going to receive them.                                     *)
Covered(list, stat, by, u) ==
    \A k \in 1 .. Len(list) :
        /\ stat[k].st = "yes" => list[k] \in by \cup WantSet(u)
        /\ stat[k].st \in {"no", "reject"} => list[k] \in by
(* When the partner's next turn comes, all is settled.                     *)
InHand(list, stat, by, u, M) ==
    \/ Settled(list, stat, by)
    \/ ~HasTurn(M) /\ (u.pc = "none" \/ Covered(list, stat, by, u))

Answering(t, u, M, N, bx) ==
    t.pc \in {"parse", "take"} =>
        /\ ~HasTurn(M) /\ ~HasTurn(N) /\ ~HasStatus(N)
        /\ u.pc \in {"none", "wait_fs"} /\ (u.pc = "wait_fs" => u.list = t.ask)
        /\ \A k \in 1 .. Len(t.ans) :
             /\ t.ans[k].st = "yes" => t.ask[k] \in WantSet(t)
             /\ t.ans[k].st \in {"no", "reject"} => t.ask[k] \in bx
Offered(u, M, N) ==
    \A f \in M :
        /\ f[1] = "prop" => /\ u.pc \in {"none", "wait_fs"}
                            /\ u.pc = "wait_fs" => u.list = f[2]
        /\ f[1] \in {"FF", "FQ"} => u.pc \in {"none", "recv_propose", "end"} /\ u.want = <<>>
        /\ f[1] \in TurnKinds => ~HasTurn(N) /\ ~HasStatus(N)
Answered(t, u, M, by) ==
    \A f \in M : f[1] = "FS" =>
        /\ t.pc \in {"none", "wait_fs"}
        /\ t.pc = "wait_fs" => /\ Len(f[2]) = Len(t.list)
                               /\ InHand(t.list, f[2], by, u, M)
Turn(t, u, M, N) ==
    t.pc \in TurnPcs =>
        ~HasTurn(M) /\ ~HasTurn(N) /\ u.pc \notin TurnPcs \cup {"parse", "take"}
Wanting(t, bx) ==
    /\ t.want # <<>> =>
         \/ t.pc \in {"parse", "take", "recv_mail", "recv_data", "save", "queue", "end",
                      "a_text", "a_save", "a_queue"}
         \/ t.pc = "erase" /\ t.next = "recv_mail"
    /\ t.pc = "queue" => Head(t.want).m \in bx
Confirming(t, u, M, by) ==
    /\ t.pc \in {"send_mail", "recv_propose"} => InHand(t.list, t.stat, by, u, M)
    /\ t.pc \in {"parse", "take", "erase"} => Settled(t.list, t.stat, by)

Half(t, u, M, N, bx, by) ==
    /\ Answering(t, u, M, N, bx) /\ Offered(u, M, N)
    /\ Answered(t, u, M, by) /\ Turn(t, u, M, N)
    /\ Wanting(t, bx) /\ Confirming(t, u, M, by)
    /\ t.pc \in FbbPcs => u.pc \notin AsciiPcs
Both(t, u, M, N, bx, by) == Half(t, u, M, N, bx, by) /\ Half(u, t, N, M, by, bx)

HalfOf(s, x) ==
    Half(end[s][x], end[s][Peer(s, x)], Msgs(wire[s][x]), Msgs(wire[s][Peer(s, x)]),
         bids[x], bids[Peer(s, x)])
Links ==
    \A s \in Sessions :
        /\ link[s] = "up" => \A x \in {s[1], s[2]} : end[s][x].pc # "none"
        /\ link[s] = "down" => \A x \in {s[1], s[2]} :
                                  end[s][x] = NoTask /\ wire[s][x] = <<>>
Singles ==
    \A s \in Sessions : \A x \in {s[1], s[2]} :
        OneOf(wire[s][x], TurnKinds) /\ OneOf(wire[s][x], {"FS"})
SessionInv == \A s \in Sessions : \A x \in {s[1], s[2]} : HalfOf(s, x)

(* A box has the mails it proposes; it may have erased them meanwhile.     *)
Has(x, list) == \A k \in 1 .. Len(list) : mail[x][list[k]] # "none"
Owned == \A s \in Sessions : \A x \in {s[1], s[2]} : Has(x, end[s][x].list)

SessionsInv == SessionTypes /\ Links /\ Singles /\ Owned /\ SessionInv

(* The inductive invariant.                                                *)
ForwardInv == BoxTypes /\ SessionsInv

-----------------------------------------------------------------------------
(* Half is kept by each kind of step.  Here t and u are tasks before the   *)
(* step, t2 the task at this end after it, and so on.                      *)

(* A BID list only grows; a message that is neither a turn nor a status,   *)
(* or that is taken or lost, does not matter.                              *)
LEMMA HalfLess ==
    ASSUME NEW t, NEW u, NEW M, NEW N, NEW bx, NEW by, Half(t, u, M, N, bx, by),
           NEW M2, NEW N2, NEW bx2, NEW by2, bx \subseteq bx2, by \subseteq by2,
           \A f \in M2 : f[1] \in Weighty => f \in M,
           \A f \in N2 : f[1] \in Weighty => f \in N
    PROVE  Half(t, u, M2, N2, bx2, by2)
  <1>1. /\ HasTurn(M2) => HasTurn(M)
        /\ HasTurn(N2) => HasTurn(N)
        /\ HasStatus(N2) => HasStatus(N)
    BY DEF HasTurn, HasStatus, Weighty
  <1>2. ASSUME NEW list, NEW stat, InHand(list, stat, by, u, M)
        PROVE  InHand(list, stat, by2, u, M2)
    BY <1>1, <1>2 DEF InHand, Settled, Covered
  <1>3. Answering(t, u, M2, N2, bx2)
    BY <1>1 DEF Half, Answering
  <1>4. Offered(u, M2, N2)
    BY <1>1 DEF Half, Offered, Weighty, TurnKinds
  <1>5. Answered(t, u, M2, by2)
    BY <1>2 DEF Half, Answered, Weighty
  <1>6. Turn(t, u, M2, N2) /\ Wanting(t, bx2)
    BY <1>1 DEF Half, Turn, Wanting
  <1>7. Confirming(t, u, M2, by2)
    BY <1>2 DEF Half, Confirming, Settled
  <1> QED
    BY <1>3, <1>4, <1>5, <1>6, <1>7 DEF Half

(* A box that wants nothing any more has all it was going to receive.      *)
LEMMA CoveredSettled ==
    ASSUME NEW list \in Seq(Mails), NEW stat \in Seq(Replies), Len(stat) = Len(list),
           NEW u, u.want = <<>>, NEW by, Covered(list, stat, by, u)
    PROVE  Settled(list, stat, by)
  <1> SUFFICES ASSUME NEW k \in 1 .. Len(list), stat[k].st # "later"
               PROVE  list[k] \in by
    BY DEF Settled
  <1>1. WantSet(u) = {}
    BY DEF WantSet
  <1>2. stat[k] \in Replies
    OBVIOUS
  <1>3. stat[k].st \in Status
    BY <1>2 DEF Replies
  <1> QED
    BY <1>1, <1>3 DEF Covered, Status

(* The box whose turn it is goes on with its work, or ends.                *)
LEMMA InTurn ==
    ASSUME NEW t, NEW u, NEW M, NEW N, NEW bx, NEW by, Both(t, u, M, N, bx, by),
           t.pc \in TurnPcs, NEW t2, t2.pc \in TurnPcs \cup {"end"},
           t2.pc = "erase" => t.pc = "erase" /\ t2.list = t.list /\ t2.stat = t.stat,
           NEW M2, M2 \subseteq M, NEW bx2, bx \subseteq bx2,
           WantSet(t) \subseteq WantSet(t2) \cup bx2, Wanting(t2, bx2)
    PROVE  Both(t2, u, M2, N, bx2, by)
  <1>0. ~HasTurn(M) /\ ~HasTurn(N) /\ u.pc \notin TurnPcs \cup {"parse", "take"}
    BY DEF Both, Half, Turn
  <1>1. ~HasStatus(M)
    BY DEF Both, Half, Answered, HasStatus, TurnPcs
  <1>2. ~HasTurn(M2) /\ ~HasStatus(M2)
    BY <1>0, <1>1 DEF HasTurn, HasStatus
  <1>3. /\ t2.pc \in FbbPcs \cup {"end"} /\ t2.pc \notin {"parse", "take", "send_mail", "recv_propose"}
        /\ u.pc \notin AsciiPcs /\ t2.pc \notin AsciiPcs /\ t.pc # "none"
    BY DEF Both, Half, FbbPcs, TurnPcs, AsciiPcs
  <1>4. Half(t2, u, M2, N, bx2, by)
    <2>1. Answering(t2, u, M2, N, bx2) /\ Turn(t2, u, M2, N) /\ Offered(u, M2, N)
      BY <1>0, <1>2, <1>3 DEF Answering, Turn, Offered, HasTurn, HasStatus, TurnKinds
    <2>2. Answered(t2, u, M2, by)
      BY <1>2 DEF Answered, HasStatus
    <2>3. Confirming(t2, u, M2, by)
      BY <1>3 DEF Both, Half, Confirming
    <2> QED
      BY <1>3, <2>1, <2>2, <2>3 DEF Half
  <1>5. ASSUME NEW list, NEW stat, InHand(list, stat, bx, t, N)
        PROVE  InHand(list, stat, bx2, t2, N)
    BY <1>3, <1>5 DEF InHand, Settled, Covered
  <1>6. Half(u, t2, N, M2, by, bx2)
    <2>1. Answering(u, t2, N, M2, by) /\ Turn(u, t2, N, M2) /\ Wanting(u, by)
      BY <1>0 DEF Answering, Turn, Both, Half
    <2>2. Offered(t2, N, M2)
      BY <1>0 DEF Offered, HasTurn, TurnKinds
    <2>3. Answered(u, t2, N, bx2)
      BY <1>5 DEF Both, Half, Answered
    <2>4. Confirming(u, t2, N, bx2)
      BY <1>0, <1>5 DEF Both, Half, Confirming, TurnPcs
    <2> QED
      BY <1>3, <2>1, <2>2, <2>3, <2>4 DEF Half
  <1> QED
    BY <1>4, <1>6 DEF Both

(* What is in a status frame.                                              *)
LEMMA StatusFrame ==
    ASSUME NEW f \in Frames
    PROVE  /\ f[1] = "FS" => f[2] \in Seq(Replies)
           /\ f[1] = "prop" => f[2] \in Seq(Mails)
           /\ f[1] = "mail" => f[2] \in Nat /\ f[3] \in Wholes
           /\ f[1] = "S" => f[2] \in Mails
           /\ f[1] = "text" => f[2] \in Wholes
  BY DEF Frames

(* The box whose turn it is sends its turn.                                *)
LEMMA PutTurn ==
    ASSUME NEW t, NEW u, NEW M, NEW N, NEW bx, NEW by, Both(t, u, M, N, bx, by),
           TaskType(u), M \subseteq Frames, N \subseteq Frames,
           t.pc \in {"send_propose", "send_delay"},
           NEW t2, t2.want = t.want, NEW f, NEW N2, N2 \subseteq N \cup {f},
           \/ f[1] = "prop" /\ t2.pc = "wait_fs" /\ t2.list = f[2]
           \/ f[1] \in {"FF", "FQ"} /\ t2.pc = "recv_propose" /\ t2.list = <<>>
           \/ f[1] \in {"FF", "FQ"} /\ t2.pc = "end"
    PROVE  Both(t2, u, M, N2, bx, by)
  <1>0. ~HasTurn(M) /\ ~HasTurn(N) /\ u.pc \notin TurnPcs \cup {"parse", "take"}
    BY DEF Both, Half, Turn, TurnPcs
  <1>1. ~HasStatus(M)
    BY DEF Both, Half, Answered, HasStatus
  <1>2. t.want = <<>> /\ WantSet(t2) = WantSet(t)
    BY DEF Both, Half, Wanting, WantSet
  <1>3. t.pc \in FbbPcs /\ t.pc # "none" /\ u.pc \notin AsciiPcs /\ t2.pc \notin AsciiPcs
    BY DEF Both, Half, FbbPcs, AsciiPcs
  <1>4. Half(t2, u, M, N2, bx, by)
    <2>1. Answering(t2, u, M, N2, bx) /\ Turn(t2, u, M, N2) /\ Offered(u, M, N2)
      BY <1>0 DEF Answering, Turn, Offered, HasTurn, TurnKinds, TurnPcs
    <2>2. Answered(t2, u, M, by) /\ Wanting(t2, bx)
      BY <1>1, <1>2 DEF Answered, HasStatus, Wanting
    <2>3. Confirming(t2, u, M, by)
      BY <1>3 DEF Confirming, InHand, Settled
    <2> QED
      BY <1>3, <2>1, <2>2, <2>3 DEF Half
  <1>5. ASSUME NEW list \in Seq(Mails), NEW stat \in Seq(Replies), Len(stat) = Len(list),
               InHand(list, stat, bx, t, N)
        PROVE  InHand(list, stat, bx, t2, N2)
    <2>1. Settled(list, stat, bx)
      BY <1>2, <1>3, <1>5, CoveredSettled DEF InHand
    <2> QED
      BY <2>1 DEF InHand
  <1>6. Half(u, t2, N2, M, by, bx)
    <2>1. Answering(u, t2, N2, M, by) /\ Turn(u, t2, N2, M) /\ Wanting(u, by)
      BY <1>0 DEF Answering, Turn, Both, Half
    <2>2. Offered(t2, N2, M)
      BY <1>0, <1>1, <1>2 DEF Offered, HasTurn, TurnKinds
    <2>3. Answered(u, t2, N2, bx)
      <3> SUFFICES ASSUME NEW g \in N2, g[1] = "FS"
                   PROVE  /\ u.pc \in {"none", "wait_fs"}
                          /\ u.pc = "wait_fs" => /\ Len(g[2]) = Len(u.list)
                                                 /\ InHand(u.list, g[2], bx, t2, N2)
        BY DEF Answered
      <3>1. g \in N
        OBVIOUS
      <3>2. /\ u.pc \in {"none", "wait_fs"}
            /\ u.pc = "wait_fs" => /\ Len(g[2]) = Len(u.list)
                                   /\ InHand(u.list, g[2], bx, t, N)
        BY <3>1 DEF Both, Half, Answered
      <3>3. g[2] \in Seq(Replies) /\ u.list \in Seq(Mails)
        BY <3>1, StatusFrame DEF TaskType
      <3> QED
        BY <1>5, <3>2, <3>3
    <2>4. Confirming(u, t2, N2, bx)
      <3>1. u.pc \notin {"parse", "take", "erase"}
        BY <1>0 DEF TurnPcs
      <3>2. CASE u.pc \in {"send_mail", "recv_propose"}
        <4>1. /\ u.list \in Seq(Mails) /\ u.stat \in Seq(Replies)
              /\ Len(u.stat) = Len(u.list)
          BY <3>2 DEF TaskType
        <4>2. InHand(u.list, u.stat, bx, t, N)
          BY <3>2 DEF Both, Half, Confirming
        <4> QED
          BY <1>5, <3>1, <4>1, <4>2 DEF Confirming
      <3> QED
        BY <3>1, <3>2 DEF Confirming
    <2> QED
      BY <1>3, <2>1, <2>2, <2>3, <2>4 DEF Half
  <1> QED
    BY <1>4, <1>6 DEF Both

(* The answer to the proposal comes in.                                    *)
LEMMA TakeStatus ==
    ASSUME NEW t, NEW u, NEW M, NEW N, NEW bx, NEW by, Both(t, u, M, N, bx, by),
           t.pc = "wait_fs", NEW h \in M, h[1] = "FS",
           NEW M2, M2 \subseteq M, ~HasStatus(M2),
           NEW t2, t2.pc = "send_mail", t2.list = t.list, t2.stat = h[2], t2.want = t.want
    PROVE  Both(t2, u, M2, N, bx, by)
  <1>0. HasStatus(M) /\ t.pc \in FbbPcs /\ t.pc # "none"
    BY DEF HasStatus, FbbPcs
  <1>1. ~HasTurn(N) /\ u.pc \notin {"parse", "take"} /\ u.pc \notin AsciiPcs
    BY <1>0 DEF Both, Half, Offered, Answering, HasTurn
  <1>2. t.want = <<>> /\ WantSet(t2) = WantSet(t)
    BY DEF Both, Half, Wanting, WantSet
  <1>3. InHand(t.list, h[2], by, u, M)
    BY DEF Both, Half, Answered
  <1>4. HasTurn(M2) => HasTurn(M)
    BY DEF HasTurn
  <1>5. Half(t2, u, M2, N, bx, by)
    <2>1. Answering(t2, u, M2, N, bx) /\ Turn(t2, u, M2, N) /\ Answered(t2, u, M2, by)
      BY DEF Answering, Turn, TurnPcs, Answered, HasStatus
    <2>2. Offered(u, M2, N) /\ Wanting(t2, bx)
      BY <1>2 DEF Both, Half, Offered, Wanting
    <2>3. Confirming(t2, u, M2, by)
      BY <1>3, <1>4 DEF Confirming, InHand
    <2> QED
      BY <1>1, <2>1, <2>2, <2>3 DEF Half
  <1>6. ASSUME NEW list, NEW stat, InHand(list, stat, bx, t, N)
        PROVE  InHand(list, stat, bx, t2, N)
    BY <1>0, <1>2, <1>6 DEF InHand, Covered
  <1>7. Half(u, t2, N, M2, by, bx)
    <2>1. Answering(u, t2, N, M2, by) /\ Offered(t2, N, M2)
      BY <1>1 DEF Answering, Offered, HasTurn, TurnKinds
    <2>2. Answered(u, t2, N, bx) /\ Confirming(u, t2, N, bx)
      BY <1>6 DEF Both, Half, Answered, Confirming
    <2>3. Turn(u, t2, N, M2) /\ Wanting(u, by)
      BY <1>4 DEF Both, Half, Turn, TurnPcs
    <2> QED
      BY <1>1, <2>1, <2>2, <2>3 DEF Half, AsciiPcs
  <1> QED
    BY <1>5, <1>7 DEF Both

(* The wanted mails are sent.                                              *)
LEMMA Sending ==
    ASSUME NEW t, NEW u, NEW M, NEW N, NEW bx, NEW by, Both(t, u, M, N, bx, by),
           t.pc = "send_mail", NEW t2, t2.pc \in {"send_mail", "recv_propose", "end"},
           t2.list = t.list, t2.stat = t.stat, t2.want = t.want,
           NEW f, f[1] \notin Weighty, NEW N2, N2 \subseteq N \cup {f}
    PROVE  Both(t2, u, M, N2, bx, by)
  <1>0. t.pc \in FbbPcs /\ t.pc # "none" /\ u.pc \notin AsciiPcs /\ t2.pc \notin AsciiPcs
    BY DEF Both, Half, FbbPcs, AsciiPcs
  <1>1. ~HasTurn(N) /\ u.pc \notin {"parse", "take"} /\ ~HasStatus(M)
    BY <1>0 DEF Both, Half, Offered, Answering, Answered, HasTurn, HasStatus, TurnKinds
  <1>2. /\ \A g \in N2 : g[1] \in Weighty => g \in N
        /\ ~HasTurn(N2)
        /\ HasStatus(N2) => HasStatus(N)
    BY <1>1 DEF HasTurn, HasStatus, Weighty
  <1>3. t.want = <<>> /\ WantSet(t2) = WantSet(t)
    BY DEF Both, Half, Wanting, WantSet
  <1>4. Half(t2, u, M, N2, bx, by)
    <2>1. Answering(t2, u, M, N2, bx) /\ Turn(t2, u, M, N2) /\ Answered(t2, u, M, by)
      BY <1>1 DEF Answering, Turn, TurnPcs, Answered, HasStatus
    <2>2. Offered(u, M, N2) /\ Wanting(t2, bx)
      BY <1>2, <1>3 DEF Both, Half, Offered, Wanting
    <2>3. Confirming(t2, u, M, by)
      BY DEF Both, Half, Confirming
    <2> QED
      BY <1>0, <2>1, <2>2, <2>3 DEF Half
  <1>5. ASSUME NEW list, NEW stat, InHand(list, stat, bx, t, N)
        PROVE  InHand(list, stat, bx, t2, N2)
    BY <1>0, <1>2, <1>3, <1>5 DEF InHand, Covered
  <1>6. Half(u, t2, N2, M, by, bx)
    <2>1. Answering(u, t2, N2, M, by) /\ Offered(t2, N2, M)
      BY <1>1, <1>2 DEF Answering, Offered, HasTurn, TurnKinds
    <2>2. Answered(u, t2, N2, bx) /\ Confirming(u, t2, N2, bx)
      BY <1>2, <1>5 DEF Both, Half, Answered, Confirming, Weighty
    <2>3. Turn(u, t2, N2, M) /\ Wanting(u, by)
      BY <1>2 DEF Both, Half, Turn, TurnPcs
    <2> QED
      BY <1>0, <2>1, <2>2, <2>3 DEF Half
  <1> QED
    BY <1>4, <1>6 DEF Both

LEMMA SendingNothing ==
    ASSUME NEW t, NEW u, NEW M, NEW N, NEW bx, NEW by, Both(t, u, M, N, bx, by),
           t.pc = "send_mail", NEW t2, t2.pc \in {"send_mail", "recv_propose", "end"},
           t2.list = t.list, t2.stat = t.stat, t2.want = t.want
    PROVE  Both(t2, u, M, N, bx, by)
  <1> DEFINE f == <<">">>
  <1>1. f[1] \notin Weighty /\ N \subseteq N \cup {f}
    BY DEF Weighty, TurnKinds
  <1> HIDE DEF f
  <1> QED
    BY <1>1, Sending

(* A proposal comes in.                                                    *)
LEMMA TakeProposal ==
    ASSUME NEW t, NEW u, NEW M, NEW N, NEW bx, NEW by, Both(t, u, M, N, bx, by),
           t.pc = "recv_propose", NEW h \in M, h[1] = "prop",
           NEW M2, M2 \subseteq M, ~HasTurn(M2),
           NEW t2, t2.pc = "parse", t2.list = t.list, t2.stat = t.stat,
           t2.ask = h[2], t2.ans = <<>>, t2.want = <<>>
    PROVE  Both(t2, u, M2, N, bx, by)
  <1>0. HasTurn(M) /\ t.pc \in FbbPcs /\ t.pc # "none"
    BY DEF HasTurn, TurnKinds, FbbPcs
  <1>1. /\ u.pc \in {"none", "wait_fs"} /\ (u.pc = "wait_fs" => u.list = h[2])
        /\ ~HasTurn(N) /\ ~HasStatus(N)
    BY DEF Both, Half, Offered, TurnKinds
  <1>2. ~HasStatus(M2)
    BY DEF Both, Half, Answered, HasStatus
  <1>3. Half(t2, u, M2, N, bx, by)
    <2>1. Answering(t2, u, M2, N, bx) /\ Turn(t2, u, M2, N) /\ Answered(t2, u, M2, by)
      BY <1>1, <1>2 DEF Answering, Turn, TurnPcs, Answered, HasStatus
    <2>2. Offered(u, M2, N) /\ Wanting(t2, bx)
      BY DEF Both, Half, Offered, Wanting
    <2>3. Confirming(t2, u, M2, by)
      BY <1>0 DEF Both, Half, Confirming, InHand
    <2> QED
      BY <1>1, <2>1, <2>2, <2>3 DEF Half, AsciiPcs
  <1>4. Half(u, t2, N, M2, by, bx)
    <2>1. Answering(u, t2, N, M2, by) /\ Offered(t2, N, M2)
      BY <1>1 DEF Answering, Offered, HasTurn, TurnKinds
    <2>2. Answered(u, t2, N, bx) /\ Confirming(u, t2, N, bx)
      BY <1>1 DEF Answered, Confirming, HasStatus
    <2>3. Turn(u, t2, N, M2) /\ Wanting(u, by)
      BY <1>1 DEF Both, Half, Turn, TurnPcs
    <2> QED
      BY <2>1, <2>2, <2>3 DEF Half, AsciiPcs
  <1> QED
    BY <1>3, <1>4 DEF Both

(* The partner has nothing to propose, or ends.                            *)
LEMMA TakeNothing ==
    ASSUME NEW t, NEW u, NEW M, NEW N, NEW bx, NEW by, Both(t, u, M, N, bx, by),
           t.pc = "recv_propose", NEW h \in M, h[1] \in {"FF", "FQ"},
           NEW M2, M2 \subseteq M, ~HasTurn(M2),
           NEW t2, t2.pc \in {"erase", "send_propose", "end"},
           t2.list = t.list, t2.stat = t.stat, t2.want = t.want
    PROVE  Both(t2, u, M2, N, bx, by)
  <1>0. HasTurn(M) /\ t.pc \in FbbPcs /\ t.pc # "none"
    BY DEF HasTurn, TurnKinds, FbbPcs
  <1>1. u.pc \in {"none", "recv_propose", "end"} /\ ~HasTurn(N) /\ ~HasStatus(N)
    BY DEF Both, Half, Offered, TurnKinds
  <1>2. ~HasStatus(M2) /\ t.want = <<>> /\ WantSet(t2) = WantSet(t)
    BY DEF Both, Half, Answered, HasStatus, Wanting, WantSet
  <1>3. Half(t2, u, M2, N, bx, by)
    <2>1. Answering(t2, u, M2, N, bx) /\ Turn(t2, u, M2, N) /\ Answered(t2, u, M2, by)
      BY <1>1, <1>2 DEF Answering, Turn, TurnPcs, Answered, HasStatus
    <2>2. Offered(u, M2, N) /\ Wanting(t2, bx)
      BY <1>2 DEF Both, Half, Offered, Wanting
    <2>3. Confirming(t2, u, M2, by)
      BY <1>0 DEF Both, Half, Confirming, InHand
    <2> QED
      BY <1>1, <2>1, <2>2, <2>3 DEF Half, AsciiPcs
  <1>4. ASSUME NEW list, NEW stat, InHand(list, stat, bx, t, N)
        PROVE  InHand(list, stat, bx, t2, N)
    BY <1>0, <1>2, <1>4 DEF InHand, Covered
  <1>5. Half(u, t2, N, M2, by, bx)
    <2>1. Answering(u, t2, N, M2, by) /\ Offered(t2, N, M2)
      BY <1>1 DEF Answering, Offered, HasTurn, TurnKinds
    <2>2. Answered(u, t2, N, bx) /\ Confirming(u, t2, N, bx)
      BY <1>1, <1>4 DEF Both, Half, Answered, Confirming, HasStatus
    <2>3. Turn(u, t2, N, M2) /\ Wanting(u, by)
      BY <1>1 DEF Both, Half, Turn, TurnPcs
    <2> QED
      BY <2>1, <2>2, <2>3 DEF Half, AsciiPcs
  <1> QED
    BY <1>3, <1>5 DEF Both

(* A line of the proposal is answered.                                     *)
LEMMA AnswerLine ==
    ASSUME NEW t, NEW u, NEW M, NEW N, NEW bx, NEW by, Both(t, u, M, N, bx, by),
           t.pc \in {"parse", "take"}, NEW t2, t2.pc \in {"parse", "take"},
           t2.list = t.list, t2.stat = t.stat, t2.ask = t.ask,
           WantSet(t) \subseteq WantSet(t2), NEW bx2, bx \subseteq bx2,
           \A k \in 1 .. Len(t2.ans) :
              \/ k \in 1 .. Len(t.ans) /\ t2.ans[k] = t.ans[k]
              \/ /\ t2.ans[k].st = "yes" => t.ask[k] \in WantSet(t2)
                 /\ t2.ans[k].st \in {"no", "reject"} => t.ask[k] \in bx2
    PROVE  Both(t2, u, M, N, bx2, by)
  <1>1. /\ ~HasTurn(M) /\ ~HasTurn(N) /\ ~HasStatus(N)
        /\ u.pc \in {"none", "wait_fs"} /\ (u.pc = "wait_fs" => u.list = t.ask)
    BY DEF Both, Half, Answering
  <1>2. ~HasStatus(M) /\ u.pc \notin AsciiPcs
    BY <1>1 DEF Both, Half, Answered, HasStatus, AsciiPcs
  <1>3. Half(t2, u, M, N, bx2, by)
    <2>1. Answering(t2, u, M, N, bx2)
      <3> SUFFICES ASSUME NEW k \in 1 .. Len(t2.ans)
                   PROVE  /\ t2.ans[k].st = "yes" => t2.ask[k] \in WantSet(t2)
                          /\ t2.ans[k].st \in {"no", "reject"} => t2.ask[k] \in bx2
        BY <1>1 DEF Answering
      <3> QED
        BY DEF Both, Half, Answering
    <2>2. Turn(t2, u, M, N) /\ Answered(t2, u, M, by)
      BY <1>2 DEF Turn, TurnPcs, Answered, HasStatus
    <2>3. Offered(u, M, N) /\ Wanting(t2, bx2)
      BY DEF Both, Half, Offered, Wanting
    <2>4. Confirming(t2, u, M, by)
      BY DEF Both, Half, Confirming
    <2> QED
      BY <1>2, <2>1, <2>2, <2>3, <2>4 DEF Half
  <1>4. Half(u, t2, N, M, by, bx2)
    <2>1. Answering(u, t2, N, M, by) /\ Offered(t2, N, M)
      BY <1>1 DEF Answering, Offered, HasTurn, TurnKinds
    <2>2. Answered(u, t2, N, bx2) /\ Confirming(u, t2, N, bx2)
      BY <1>1 DEF Answered, Confirming, HasStatus
    <2>3. Turn(u, t2, N, M) /\ Wanting(u, by)
      BY <1>1 DEF Both, Half, Turn, TurnPcs
    <2> QED
      BY <2>1, <2>2, <2>3 DEF Half, AsciiPcs
  <1> QED
    BY <1>3, <1>4 DEF Both

(* The answer to the whole proposal is sent.                               *)
LEMMA PutStatus ==
    ASSUME NEW t, NEW u, NEW M, NEW N, NEW bx, NEW by, Both(t, u, M, N, bx, by),
           t.pc = "parse", Len(t.ans) = Len(t.ask), t.ans \in Seq(Replies),
           NEW t2, t2.pc = "recv_mail" \/ (t2.pc = "erase" /\ t2.next = "recv_mail"),
           t2.list = t.list, t2.stat = t.stat, t2.want = t.want,
           NEW f, f[1] = "FS", f[2] = t.ans, NEW N2, N2 \subseteq N \cup {f}
    PROVE  Both(t2, u, M, N2, bx, by)
  <1>1. /\ ~HasTurn(M) /\ ~HasTurn(N) /\ ~HasStatus(N)
        /\ u.pc \in {"none", "wait_fs"} /\ (u.pc = "wait_fs" => u.list = t.ask)
    BY DEF Both, Half, Answering
  <1>2. ~HasStatus(M) /\ u.pc \notin AsciiPcs /\ ~HasTurn(N2)
    BY <1>1 DEF Both, Half, Answered, HasStatus, AsciiPcs, HasTurn, TurnKinds
  <1>3. WantSet(t2) = WantSet(t)
    BY DEF WantSet
  <1>4. Half(t2, u, M, N2, bx, by)
    <2>1. Answering(t2, u, M, N2, bx) /\ Turn(t2, u, M, N2) /\ Answered(t2, u, M, by)
      BY <1>1, <1>2 DEF Answering, Turn, TurnPcs, Answered, HasStatus
    <2>2. Offered(u, M, N2) /\ Wanting(t2, bx)
      BY <1>1 DEF Both, Half, Offered, Wanting, HasTurn, TurnKinds
    <2>3. Confirming(t2, u, M, by)
      BY DEF Both, Half, Confirming
    <2> QED
      BY <1>2, <2>1, <2>2, <2>3 DEF Half
  <1>5. InHand(t.ask, t.ans, bx, t2, N2)
    <2> SUFFICES Covered(t.ask, t.ans, bx, t2)
      BY <1>2 DEF InHand
    <2> QED
      BY <1>3 DEF Both, Half, Answering, Covered
  <1>6. Half(u, t2, N2, M, by, bx)
    <2>1. Answering(u, t2, N2, M, by) /\ Offered(t2, N2, M)
      BY <1>1, <1>2 DEF Answering, Offered, HasTurn, TurnKinds
    <2>2. Answered(u, t2, N2, bx)
      BY <1>1, <1>5 DEF Answered, HasStatus
    <2>3. Turn(u, t2, N2, M) /\ Wanting(u, by) /\ Confirming(u, t2, N2, bx)
      BY <1>1 DEF Both, Half, Turn, TurnPcs, Confirming
    <2> QED
      BY <1>1, <2>1, <2>2, <2>3 DEF Half, FbbPcs, AsciiPcs
  <1> QED
    BY <1>4, <1>6 DEF Both

(* Any step of the ASCII protocol.                                         *)
LEMMA AsciiMove ==
    ASSUME NEW t, NEW u, NEW M, NEW N, NEW bx, NEW by, Both(t, u, M, N, bx, by),
           t.pc \in AsciiPcs, NEW t2, t2.pc \in AsciiPcs \cup {"end"},
           NEW bx2, bx \subseteq bx2, Wanting(t2, bx2),
           NEW M2, M2 \subseteq M, NEW f, f[1] \notin Weighty, NEW N2, N2 \subseteq N \cup {f}
    PROVE  Both(t2, u, M2, N2, bx2, by)
  <1>0. /\ t.pc \notin FbbPcs /\ t2.pc \notin FbbPcs /\ u.pc \notin FbbPcs
        /\ t.pc \notin {"none", "wait_fs", "recv_propose", "end"}
    BY DEF Both, Half, FbbPcs, AsciiPcs
  <1>1. ~HasStatus(M) /\ ~HasTurn(N)
    BY <1>0 DEF Both, Half, Answered, HasStatus, Offered, HasTurn, TurnKinds
  <1>2. ~HasTurn(N2) /\ ~HasStatus(M2) /\ (HasStatus(N2) => HasStatus(N))
    BY <1>1 DEF HasTurn, HasStatus, Weighty
  <1>3. Half(t2, u, M2, N2, bx2, by)
    <2>1. Answering(t2, u, M2, N2, bx2) /\ Turn(t2, u, M2, N2) /\ Confirming(t2, u, M2, by)
      BY <1>0 DEF Answering, Turn, TurnPcs, Confirming, FbbPcs
    <2>2. Offered(u, M2, N2) /\ Answered(t2, u, M2, by)
      BY <1>2 DEF Both, Half, Offered, Answered, HasStatus
    <2> QED
      BY <1>0, <2>1, <2>2 DEF Half
  <1>4. Half(u, t2, N2, M2, by, bx2)
    <2>1. Answering(u, t2, N2, M2, by) /\ Turn(u, t2, N2, M2) /\ Confirming(u, t2, N2, bx2)
      BY <1>0 DEF Answering, Turn, TurnPcs, Confirming, FbbPcs
    <2>2. Offered(t2, N2, M2)
      BY <1>2 DEF Offered, HasTurn, TurnKinds
    <2>3. Answered(u, t2, N2, bx2)
      BY <1>0 DEF Both, Half, Answered, FbbPcs, Weighty
    <2>4. Wanting(u, by)
      BY DEF Both, Half
    <2> QED
      BY <1>0, <2>1, <2>2, <2>3, <2>4 DEF Half
  <1> QED
    BY <1>3, <1>4 DEF Both

LEMMA AsciiQuiet ==
    ASSUME NEW t, NEW u, NEW M, NEW N, NEW bx, NEW by, Both(t, u, M, N, bx, by),
           t.pc \in AsciiPcs, NEW t2, t2.pc \in AsciiPcs \cup {"end"},
           NEW bx2, bx \subseteq bx2, Wanting(t2, bx2), NEW M2, M2 \subseteq M
    PROVE  Both(t2, u, M2, N, bx2, by)
  <1> DEFINE f == <<">">>
  <1>1. f[1] \notin Weighty /\ N \subseteq N \cup {f}
    BY DEF Weighty, TurnKinds
  <1> HIDE DEF f
  <1> QED
    BY <1>1, AsciiMove

(* A task that is gone.                                                    *)
LEMMA Gone ==
    ASSUME NEW t, NEW u, NEW M, NEW N, NEW bx, NEW by, Both(t, u, M, N, bx, by)
    PROVE  Both(NoTask, u, M, N, bx, by)
  <1>0. NoTask.pc = "none" /\ NoTask.want = <<>>
    BY DEF NoTask
  <1>1. Half(NoTask, u, M, N, bx, by)
    <2>1. Answering(NoTask, u, M, N, bx) /\ Turn(NoTask, u, M, N) /\ Confirming(NoTask, u, M, by)
      BY <1>0 DEF Answering, Turn, TurnPcs, Confirming
    <2>2. Offered(u, M, N) /\ Answered(NoTask, u, M, by) /\ Wanting(NoTask, bx)
      BY <1>0 DEF Both, Half, Answered, Wanting
    <2> QED
      BY <1>0, <2>1, <2>2 DEF Half, FbbPcs
  <1>2. ASSUME NEW list, NEW stat, InHand(list, stat, bx, t, N)
        PROVE  InHand(list, stat, bx, NoTask, N)
    BY <1>0, <1>2 DEF InHand
  <1>3. Half(u, NoTask, N, M, by, bx)
    <2>1. Answering(u, NoTask, N, M, by) /\ Offered(NoTask, N, M)
      BY <1>0 DEF Both, Half, Answering, Offered
    <2>2. Answered(u, NoTask, N, bx) /\ Confirming(u, NoTask, N, bx)
      BY <1>2 DEF Both, Half, Answered, Confirming
    <2>3. Turn(u, NoTask, N, M) /\ Wanting(u, by)
      BY <1>0 DEF Both, Half, Turn, TurnPcs
    <2> QED
      BY <1>0, <2>1, <2>2, <2>3 DEF Half, AsciiPcs
  <1> QED
    BY <1>1, <1>3 DEF Both

(* Two new tasks.                                                          *)
LEMMA New ==
    ASSUME NEW t, NEW u, t.want = <<>>, u.want = <<>>, NEW bx, NEW by,
           \/ t.pc = "send_propose" /\ u.pc = "recv_propose" /\ u.list = <<>>
           \/ t.pc = "a_pr2" /\ u.pc = "a_prompt"
           \/ t.pc = "none" /\ u.pc = "none"
    PROVE  Both(t, u, {}, {}, bx, by)
  <1>1. /\ Answering(t, u, {}, {}, bx) /\ Answering(u, t, {}, {}, by)
        /\ Turn(t, u, {}, {}) /\ Turn(u, t, {}, {})
    BY DEF Answering, Turn, TurnPcs, HasTurn
  <1>2. /\ Offered(u, {}, {}) /\ Offered(t, {}, {})
        /\ Answered(t, u, {}, by) /\ Answered(u, t, {}, bx)
        /\ Wanting(t, bx) /\ Wanting(u, by)
    BY DEF Offered, Answered, Wanting
  <1>3. Confirming(t, u, {}, by) /\ Confirming(u, t, {}, bx)
    BY DEF Confirming, InHand, Settled
  <1> QED
    BY <1>1, <1>2, <1>3 DEF Both, Half, FbbPcs, AsciiPcs
-----------------------------------------------------------------------------
(* The messages under way, and the two ends of a session.                  *)

LEMMA SentOn ==
    ASSUME NEW w \in Seq(Frames), NEW f \in Frames
    PROVE  /\ w \o <<f>> \in Seq(Frames)
           /\ Msgs(w \o <<f>>) = Msgs(w) \cup {f}
           /\ \A kinds : OneOf(w, kinds) /\ (f[1] \in kinds => \A g \in Msgs(w) : g[1] \notin kinds)
                            => OneOf(w \o <<f>>, kinds)
  <1> DEFINE v == w \o <<f>>
  <1>1. /\ v \in Seq(Frames) /\ Len(v) = Len(w) + 1
        /\ \A k \in 1 .. Len(w) : v[k] = w[k]
        /\ v[Len(w) + 1] = f
    OBVIOUS
  <1>2. Len(w) \in Nat /\ \A k \in 1 .. Len(w) + 1 : k \in 1 .. Len(w) \/ k = Len(w) + 1
    OBVIOUS
  <1>3. \A k \in 1 .. Len(w) : k \in 1 .. Len(w) + 1
    BY <1>2
  <1>4. Len(w) + 1 \in 1 .. Len(w) + 1
    BY <1>2
  <1> HIDE DEF v
  <1>5. Msgs(v) = Msgs(w) \cup {f}
    BY <1>1, <1>2, <1>3, <1>4 DEF Msgs
  <1>6. ASSUME NEW kinds, OneOf(w, kinds), f[1] \in kinds => \A g \in Msgs(w) : g[1] \notin kinds
        PROVE  OneOf(v, kinds)
    <2>1. \A k \in 1 .. Len(w) : w[k] \in Msgs(w)
      BY DEF Msgs
    <2> QED
      BY <1>1, <1>2, <1>6, <2>1 DEF OneOf
  <1> QED
    BY <1>1, <1>5, <1>6 DEF v

LEMMA TakenOff ==
    ASSUME NEW w \in Seq(Frames), w # <<>>
    PROVE  /\ Head(w) \in Frames /\ Head(w) \in Msgs(w)
           /\ Tail(w) \in Seq(Frames)
           /\ Msgs(Tail(w)) \subseteq Msgs(w)
           /\ \A kinds : OneOf(w, kinds) =>
                 /\ OneOf(Tail(w), kinds)
                 /\ Head(w)[1] \in kinds => \A g \in Msgs(Tail(w)) : g[1] \notin kinds
  <1> DEFINE v == Tail(w)
  <1>1. /\ v \in Seq(Frames) /\ Len(v) = Len(w) - 1 /\ Len(w) \in Nat \ {0}
        /\ \A k \in 1 .. Len(v) : v[k] = w[k + 1]
        /\ Head(w) = w[1]
    OBVIOUS
  <1>2. \A k \in 1 .. Len(v) : k + 1 \in 1 .. Len(w) /\ k + 1 # 1 /\ k \in Int
    BY <1>1
  <1>3. 1 \in 1 .. Len(w)
    BY <1>1
  <1> HIDE DEF v
  <1>4. Head(w) \in Frames /\ Head(w) \in Msgs(w)
    BY <1>1, <1>3 DEF Msgs
  <1>5. Msgs(v) \subseteq Msgs(w)
    BY <1>1, <1>2 DEF Msgs
  <1>6. ASSUME NEW kinds, OneOf(w, kinds)
        PROVE  /\ OneOf(v, kinds)
               /\ Head(w)[1] \in kinds => \A g \in Msgs(v) : g[1] \notin kinds
    <2>1. OneOf(v, kinds)
      <3> SUFFICES ASSUME NEW j \in 1 .. Len(v), NEW k \in 1 .. Len(v),
                          v[j][1] \in kinds, v[k][1] \in kinds
                   PROVE  j = k
        BY DEF OneOf
      <3>1. j + 1 = k + 1
        BY <1>1, <1>2, <1>6 DEF OneOf
      <3> QED
        BY <1>2, <3>1
    <2>2. ASSUME Head(w)[1] \in kinds, NEW k \in 1 .. Len(v) PROVE v[k][1] \notin kinds
      BY <1>1, <1>2, <1>3, <1>6, <2>2 DEF OneOf
    <2> QED
      BY <2>1, <2>2 DEF Msgs
  <1> QED
    BY <1>1, <1>4, <1>5, <1>6 DEF v

LEMMA Prefix ==
    ASSUME NEW w \in Seq(Frames), NEW i \in 0 .. Len(w)
    PROVE  /\ SubSeq(w, 1, i) \in Seq(Frames)
           /\ Msgs(SubSeq(w, 1, i)) \subseteq Msgs(w)
           /\ \A kinds : OneOf(w, kinds) => OneOf(SubSeq(w, 1, i), kinds)
  <1> DEFINE v == SubSeq(w, 1, i)
  <1>1. /\ v \in Seq(Frames) /\ Len(v) = i
        /\ \A k \in 1 .. i : v[k] = w[k] /\ k \in 1 .. Len(w)
    OBVIOUS
  <1> HIDE DEF v
  <1>2. Msgs(v) \subseteq Msgs(w)
    BY <1>1 DEF Msgs
  <1>3. \A kinds : OneOf(w, kinds) => OneOf(v, kinds)
    BY <1>1 DEF OneOf
  <1> QED
    BY <1>1, <1>2, <1>3 DEF v

LEMMA Ends2 ==
    ASSUME NEW s \in Sessions, NEW x \in {s[1], s[2]}
    PROVE  /\ Peer(s, x) \in {s[1], s[2]} /\ Peer(s, x) # x
           /\ Peer(s, Peer(s, x)) = x /\ {s[1], s[2]} = {x, Peer(s, x)}
           /\ x \in Boxes /\ Peer(s, x) \in Boxes
  BY MailBoxAssumption DEF Peer

(* The wire of a session after a step that takes nothing or the first      *)
(* message, and sends nothing or one message.                              *)
WireAfter(s, x, in2, out2) ==
    /\ DOMAIN wire' = Sessions /\ DOMAIN wire'[s] = {s[1], s[2]}
    /\ wire'[s][x] = in2 /\ wire'[s][Peer(s, x)] = out2
    /\ \A o \in Sessions \ {s} : wire'[o] = wire[o]

LEMMA WireSteps ==
    ASSUME SessionTypes, NEW s \in Sessions, NEW x \in {s[1], s[2]}, NEW f
    PROVE  /\ UNCHANGED wire => WireAfter(s, x, wire[s][x], wire[s][Peer(s, x)])
           /\ Take(s, x) => WireAfter(s, x, Tail(wire[s][x]), wire[s][Peer(s, x)])
           /\ Put(s, x, <<f>>) =>
                 \/ WireAfter(s, x, wire[s][x], wire[s][Peer(s, x)] \o <<f>>)
                 \/ WireAfter(s, x, wire[s][x], wire[s][Peer(s, x)])
           /\ wire' = Sent(Taken(s, x), s, x, <<f>>) =>
                 \/ WireAfter(s, x, Tail(wire[s][x]), wire[s][Peer(s, x)] \o <<f>>)
                 \/ WireAfter(s, x, Tail(wire[s][x]), wire[s][Peer(s, x)])
  <1> DEFINE y == Peer(s, x)
  <1>1. y \in {s[1], s[2]} /\ y # x
    BY Ends2
  <1>2. DOMAIN wire = Sessions /\ DOMAIN wire[s] = {s[1], s[2]}
    BY DEF SessionTypes
  <1> HIDE DEF y
  <1>3. UNCHANGED wire => WireAfter(s, x, wire[s][x], wire[s][y])
    BY <1>2 DEF WireAfter, y
  <1>4. Take(s, x) => WireAfter(s, x, Tail(wire[s][x]), wire[s][y])
    BY <1>1, <1>2 DEF WireAfter, Take, Taken, y
  <1>5. ASSUME NEW w, DOMAIN w = Sessions, DOMAIN w[s] = {s[1], s[2]}, w[s][y] = wire[s][y],
               \A o \in Sessions \ {s} : w[o] = wire[o],
               wire' = Sent(w, s, x, <<f>>)
        PROVE  \/ WireAfter(s, x, w[s][x], wire[s][y] \o <<f>>)
               \/ WireAfter(s, x, w[s][x], wire[s][y])
    <2>1. CASE link[s] = "up"
      <3>1. wire' = [w EXCEPT ![s][y] = @ \o <<f>>]
        BY <1>5, <2>1 DEF Sent, y
      <3> QED
        BY <1>1, <1>5, <3>1 DEF WireAfter, y
    <2>2. CASE link[s] # "up"
      <3>1. wire' = w
        BY <1>5, <2>2 DEF Sent
      <3> QED
        BY <1>5, <3>1 DEF WireAfter, y
    <2> QED
      BY <2>1, <2>2
  <1>6. DOMAIN Taken(s, x) = Sessions /\ DOMAIN Taken(s, x)[s] = {s[1], s[2]}
        /\ Taken(s, x)[s][y] = wire[s][y] /\ Taken(s, x)[s][x] = Tail(wire[s][x])
        /\ \A o \in Sessions \ {s} : Taken(s, x)[o] = wire[o]
    BY <1>1, <1>2 DEF Taken
  <1>7. Put(s, x, <<f>>) =>
                 \/ WireAfter(s, x, wire[s][x], wire[s][y] \o <<f>>)
                 \/ WireAfter(s, x, wire[s][x], wire[s][y])
    BY <1>2, <1>5 DEF Put
  <1>8. wire' = Sent(Taken(s, x), s, x, <<f>>) =>
                 \/ WireAfter(s, x, Tail(wire[s][x]), wire[s][y] \o <<f>>)
                 \/ WireAfter(s, x, Tail(wire[s][x]), wire[s][y])
    BY <1>5, <1>6
  <1> QED
    BY <1>3, <1>4, <1>7, <1>8 DEF y

KeepsMail == \A x \in Boxes, m \in Mails : mail[x][m] # "none" => mail'[x][m] # "none"

(* A step of the task at end x of session s: what it leaves behind.        *)
Moves(s, x, t2, in2, out2) ==
    /\ Set(s, x, t2) /\ WireAfter(s, x, in2, out2) /\ link' = link
    /\ TaskType(t2) /\ t2.pc # "none" /\ Has(x, t2.list) /\ KeepsMail
    /\ in2 \in Seq(Frames) /\ OneOf(in2, TurnKinds) /\ OneOf(in2, {"FS"})
    /\ out2 \in Seq(Frames) /\ OneOf(out2, TurnKinds) /\ OneOf(out2, {"FS"})
    /\ bids[x] \subseteq bids'[x] /\ \A y \in Boxes \ {x} : bids'[y] = bids[y]
    /\ Both(t2, end[s][Peer(s, x)], Msgs(in2), Msgs(out2), bids'[x], bids[Peer(s, x)])

LEMMA BothOf ==
    ASSUME SessionInv, NEW s \in Sessions, NEW x \in {s[1], s[2]}
    PROVE  Both(end[s][x], end[s][Peer(s, x)], Msgs(wire[s][x]), Msgs(wire[s][Peer(s, x)]),
                bids[x], bids[Peer(s, x)])
  BY Ends2 DEF SessionInv, HalfOf, Both

LEMMA StepKeeps ==
    ASSUME SessionsInv,
           NEW s \in Sessions, NEW x \in {s[1], s[2]}, link[s] # "down",
           NEW t2, NEW in2, NEW out2, Moves(s, x, t2, in2, out2)
    PROVE  SessionsInv'
  <1>0. SessionTypes /\ Links /\ Singles /\ Owned /\ SessionInv
    BY DEF SessionsInv
  <1> DEFINE y == Peer(s, x)
  <1>1. /\ y \in {s[1], s[2]} /\ y # x /\ Peer(s, y) = x /\ {s[1], s[2]} = {x, y}
        /\ x \in Boxes /\ y \in Boxes
    BY Ends2
  <1>2. /\ DOMAIN end = Sessions /\ DOMAIN end[s] = {s[1], s[2]}
        /\ TaskType(end[s][y])
    BY <1>0, <1>1 DEF SessionTypes
  <1>3. /\ DOMAIN end' = Sessions /\ DOMAIN end'[s] = {s[1], s[2]}
        /\ end'[s][x] = t2 /\ end'[s][y] = end[s][y]
        /\ \A o \in Sessions \ {s} : end'[o] = end[o]
    BY <1>1, <1>2 DEF Moves, Set
  <1>4. /\ DOMAIN wire' = Sessions /\ DOMAIN wire'[s] = {s[1], s[2]}
        /\ wire'[s][x] = in2 /\ wire'[s][y] = out2
        /\ \A o \in Sessions \ {s} : wire'[o] = wire[o]
    BY DEF Moves, WireAfter
  <1>5. /\ TaskType(t2) /\ t2.pc # "none" /\ link' = link
        /\ in2 \in Seq(Frames) /\ OneOf(in2, TurnKinds) /\ OneOf(in2, {"FS"})
        /\ out2 \in Seq(Frames) /\ OneOf(out2, TurnKinds) /\ OneOf(out2, {"FS"})
    BY DEF Moves
  <1>6. \A z \in Boxes : bids[z] \subseteq bids'[z]
    BY DEF Moves
  <1>7. bids'[y] = bids[y]
    BY <1>1 DEF Moves
  <1>8. Both(t2, end[s][y], Msgs(in2), Msgs(out2), bids'[x], bids'[y])
    BY <1>7 DEF Moves
  <1> HIDE DEF y
  <1>9. SessionTypes'
    BY <1>0, <1>1, <1>2, <1>3, <1>4, <1>5 DEF SessionTypes
  <1>10. Links'
    BY <1>0, <1>1, <1>3, <1>4, <1>5 DEF Links
  <1>11. Singles'
    BY <1>0, <1>1, <1>3, <1>4, <1>5 DEF Singles
  <1>12. ASSUME NEW o \in Sessions, NEW z \in {o[1], o[2]}
         PROVE  HalfOf(o, z)'
    <2>1. CASE o = s
      <3>1. CASE z = x
        BY <1>3, <1>4, <1>8, <2>1, <3>1 DEF HalfOf, Both, y
      <3>2. CASE z = y
        BY <1>1, <1>3, <1>4, <1>8, <2>1, <3>2 DEF HalfOf, Both
      <3> QED
        BY <1>1, <1>12, <2>1, <3>1, <3>2
    <2>2. CASE o # s
      <3>1. HalfOf(o, z) /\ z \in Boxes /\ Peer(o, z) \in Boxes
        BY <1>0, Ends2 DEF SessionInv
      <3>2. end'[o] = end[o] /\ wire'[o] = wire[o]
        BY <1>3, <1>4, <2>2
      <3>3. bids[z] \subseteq bids'[z] /\ bids[Peer(o, z)] \subseteq bids'[Peer(o, z)]
        BY <1>6, <3>1
      <3> QED
        BY <3>1, <3>2, <3>3, HalfLess DEF HalfOf
    <2> QED
      BY <2>1, <2>2
  <1>13. SessionInv'
    BY <1>12 DEF SessionInv
  <1>14. Owned'
    <2>1. Has(x, t2.list) /\ KeepsMail
      BY DEF Moves
    <2>2. ASSUME NEW o \in Sessions, NEW z \in {o[1], o[2]}
          PROVE  Has(z, end'[o][z].list) /\ z \in Boxes /\ end'[o][z].list \in Seq(Mails)
      <3>1. z \in Boxes
        BY Ends2
      <3>2. TaskType(end'[o][z])
        BY <1>9 DEF SessionTypes
      <3>3. Has(z, end[o][z].list)
        BY <1>0 DEF Owned
      <3>4. CASE o = s /\ z = x
        BY <1>3, <2>1, <3>1, <3>2, <3>4 DEF TaskType
      <3>5. CASE o = s /\ z = y
        BY <1>3, <3>1, <3>2, <3>3, <3>5 DEF TaskType
      <3>6. CASE o # s
        BY <1>3, <3>1, <3>2, <3>3, <3>6 DEF TaskType
      <3>7. o = s => z = x \/ z = y
        BY <1>1
      <3> QED
        BY <3>4, <3>5, <3>6, <3>7
    <2>3. ASSUME NEW o \in Sessions, NEW z \in {o[1], o[2]}
          PROVE  Has(z, end[o][z].list)'
      <3> DEFINE l == end'[o][z].list
      <3>1. l \in Seq(Mails) /\ z \in Boxes /\ Has(z, l)
        BY <2>2
      <3> HIDE DEF l
      <3>2. ASSUME NEW k \in 1 .. Len(l) PROVE mail'[z][l[k]] # "none"
        <4>1. l[k] \in Mails /\ mail[z][l[k]] # "none"
          BY <3>1 DEF Has
        <4> QED
          BY <2>1, <3>1, <4>1 DEF KeepsMail
      <3> QED
        BY <3>2 DEF Has, l
    <2> QED
      BY <2>3 DEF Owned
  <1> QED
    BY <1>9, <1>10, <1>11, <1>13, <1>14 DEF SessionsInv

(* A task at a place where nothing is said of its proposal and reply.      *)
LEMMA Typed ==
    ASSUME NEW t, TaskType(t), NEW t2, DOMAIN t2 = Fields,
           t2.pc \in FbbPcs \cup AsciiPcs \cup {"end"},
           t2.pc \notin {"parse", "take", "recv_data", "save", "queue", "a_text", "a_save",
                        "a_queue", "a_want", "a_take", "a_file", "a_ok", "a_wp", "a_del",
                        "send_mail", "erase", "recv_propose"},
           t2.list \in Seq(Mails), t2.ask = t.ask, t2.ans = t.ans, t2.want = t.want,
           t2.i \in Nat, t2.locks \subseteq t.locks
    PROVE  TaskType(t2)
  <1>1. /\ t2.ask \in Seq(Mails) /\ t2.ans \in Seq(Replies) /\ t2.want \in Seq(Replies)
        /\ t2.pc # "none"
    BY DEF TaskType, FbbPcs, AsciiPcs
  <1> QED
    BY <1>1 DEF TaskType

LEMMA Here ==
    ASSUME SessionsInv, NEW s \in Sessions, NEW x \in {s[1], s[2]}
    PROVE  /\ TaskType(end[s][x]) /\ TaskType(end[s][Peer(s, x)])
           /\ DOMAIN end[s][x] = Fields
           /\ Has(x, end[s][x].list)
           /\ wire[s][x] \in Seq(Frames) /\ wire[s][Peer(s, x)] \in Seq(Frames)
           /\ Msgs(wire[s][x]) \subseteq Frames /\ Msgs(wire[s][Peer(s, x)]) \subseteq Frames
           /\ OneOf(wire[s][x], TurnKinds) /\ OneOf(wire[s][x], {"FS"})
           /\ OneOf(wire[s][Peer(s, x)], TurnKinds) /\ OneOf(wire[s][Peer(s, x)], {"FS"})
           /\ x \in Boxes /\ Peer(s, x) \in Boxes
           /\ Both(end[s][x], end[s][Peer(s, x)], Msgs(wire[s][x]),
                   Msgs(wire[s][Peer(s, x)]), bids[x], bids[Peer(s, x)])
  <1>1. ASSUME NEW z \in {s[1], s[2]}
        PROVE  /\ TaskType(end[s][z]) /\ wire[s][z] \in Seq(Frames)
               /\ OneOf(wire[s][z], TurnKinds) /\ OneOf(wire[s][z], {"FS"})
               /\ Has(z, end[s][z].list)
    BY DEF SessionsInv, SessionTypes, Singles, Owned
  <1>2. ASSUME NEW w \in Seq(Frames) PROVE Msgs(w) \subseteq Frames
    BY DEF Msgs
  <1>3. DOMAIN end[s][x] = Fields
    BY <1>1 DEF TaskType
  <1> QED
    BY <1>1, <1>2, <1>3, Ends2, BothOf DEF SessionsInv

(* The first message is left or taken.                                     *)
Reads(w, in2) == in2 = w \/ (w # <<>> /\ in2 = Tail(w))

LEMMA Reading ==
    ASSUME NEW w \in Seq(Frames), OneOf(w, TurnKinds), OneOf(w, {"FS"}), NEW in2, Reads(w, in2)
    PROVE  /\ in2 \in Seq(Frames) /\ OneOf(in2, TurnKinds) /\ OneOf(in2, {"FS"})
           /\ Msgs(in2) \subseteq Msgs(w)
  <1>1. CASE in2 = w
    BY <1>1
  <1>2. CASE w # <<>> /\ in2 = Tail(w)
    BY <1>2, TakenOff
  <1> QED
    BY <1>1, <1>2 DEF Reads

(* A step that sends nothing, and one that sends f (or loses it, when the  *)
(* connection is broken).                                                  *)
LEMMA Silent ==
    ASSUME SessionsInv, NEW s \in Sessions, NEW x \in {s[1], s[2]}, link[s] # "down",
           NEW t2, TaskType(t2), t2.pc # "none", Set(s, x, t2), link' = link,
           NEW in2, Reads(wire[s][x], in2), WireAfter(s, x, in2, wire[s][Peer(s, x)]),
           Has(x, t2.list), KeepsMail,
           bids[x] \subseteq bids'[x], \A y \in Boxes \ {x} : bids'[y] = bids[y],
           Both(t2, end[s][Peer(s, x)], Msgs(in2), Msgs(wire[s][Peer(s, x)]),
                bids'[x], bids[Peer(s, x)])
    PROVE  SessionsInv'
  <1>1. Moves(s, x, t2, in2, wire[s][Peer(s, x)])
    BY Here, Reading DEF Moves
  <1> QED
    BY <1>1, StepKeeps DEF SessionsInv

LEMMA Sends ==
    ASSUME SessionsInv, NEW s \in Sessions, NEW x \in {s[1], s[2]}, link[s] # "down",
           NEW t2, TaskType(t2), t2.pc # "none", Set(s, x, t2), link' = link,
           NEW in2, Reads(wire[s][x], in2),
           NEW f \in Frames,
           f[1] \in TurnKinds => ~HasTurn(Msgs(wire[s][Peer(s, x)])),
           f[1] = "FS" => ~HasStatus(Msgs(wire[s][Peer(s, x)])),
           \/ WireAfter(s, x, in2, wire[s][Peer(s, x)] \o <<f>>)
           \/ WireAfter(s, x, in2, wire[s][Peer(s, x)]),
           Has(x, t2.list), KeepsMail,
           bids[x] \subseteq bids'[x], \A y \in Boxes \ {x} : bids'[y] = bids[y],
           \A N2 : N2 \subseteq Msgs(wire[s][Peer(s, x)]) \cup {f} =>
              Both(t2, end[s][Peer(s, x)], Msgs(in2), N2, bids'[x], bids[Peer(s, x)])
    PROVE  SessionsInv'
  <1> DEFINE out == wire[s][Peer(s, x)]
  <1>1. PICK out2 \in {out, out \o <<f>>} : WireAfter(s, x, in2, out2)
    OBVIOUS
  <1>2. /\ out2 \in Seq(Frames) /\ OneOf(out2, TurnKinds) /\ OneOf(out2, {"FS"})
        /\ Msgs(out2) \subseteq Msgs(out) \cup {f}
    <2>1. out \in Seq(Frames) /\ OneOf(out, TurnKinds) /\ OneOf(out, {"FS"})
      BY Here
    <2>2. f[1] \in TurnKinds => \A g \in Msgs(out) : g[1] \notin TurnKinds
      BY DEF HasTurn
    <2>3. f[1] \in {"FS"} => \A g \in Msgs(out) : g[1] \notin {"FS"}
      BY DEF HasStatus
    <2> HIDE DEF out
    <2>4. CASE out2 = out
      BY <2>1, <2>4
    <2>5. CASE out2 = out \o <<f>>
      <3>1. /\ out2 \in Seq(Frames) /\ Msgs(out2) = Msgs(out) \cup {f}
            /\ \A kinds : OneOf(out, kinds)
                  /\ (f[1] \in kinds => \A g \in Msgs(out) : g[1] \notin kinds)
                     => OneOf(out2, kinds)
        BY <2>1, <2>5, SentOn
      <3> QED
        BY <2>1, <2>2, <2>3, <3>1
    <2> QED
      BY <2>4, <2>5
  <1>3. Moves(s, x, t2, in2, out2)
    BY <1>1, <1>2, Here, Reading DEF Moves
  <1> QED
    BY <1>3, StepKeeps DEF SessionsInv

-----------------------------------------------------------------------------
(* Texts under way.                                                        *)

(* c counts the places of a reply that were answered YES.                  *)
Counts(stat, c) ==
    /\ c \in [0 .. Len(stat) -> Int]
    /\ \A k \in 1 .. Len(stat) :
         c[k] = IF stat[k].st = "yes" THEN c[k - 1] + 1 ELSE c[k - 1]
    /\ \A j, k \in 0 .. Len(stat) : j <= k => c[j] <= c[k]
(* The first n of the mails left are under way; from place i on the reply  *)
(* stat names the others, in this order and with these offsets.            *)
Follows(stat, i, left, n) ==
    \E c : /\ Counts(stat, c) /\ c[i - 1] = n /\ c[Len(stat)] = Len(left)
           /\ \A k \in i .. Len(stat) : stat[k].st = "yes" => left[c[k]].off = stat[k].off

LEMMA FollowsNothing == Follows(<<>>, 1, <<>>, 0)
  <1> DEFINE c == [k \in 0 .. 0 |-> 0]
  <1>1. c \in [0 .. 0 -> Int] /\ c[0] = 0 /\ \A j \in 0 .. 0 : j = 0
    OBVIOUS
  <1>2. Len(<<>>) = 0
    OBVIOUS
  <1> HIDE DEF c
  <1>3. Counts(<<>>, c)
    BY <1>1, <1>2 DEF Counts
  <1> QED
    BY <1>1, <1>2, <1>3 DEF Follows

(* One more line of the reply, which is not YES or names the mail last     *)
(* wanted.                                                                 *)
LEMMA FollowsLine ==
    ASSUME NEW stat \in Seq(Replies), NEW left \in Seq(Replies), NEW a \in Replies,
           Follows(stat, 1, left, 0)
    PROVE  /\ a.st # "yes" => Follows(Append(stat, a), 1, left, 0)
           /\ a.st = "yes" => Follows(Append(stat, a), 1, Append(left, a), 0)
  <1> DEFINE n == Len(stat)
             s2 == Append(stat, a)
             l2 == IF a.st = "yes" THEN Append(left, a) ELSE left
  <1>1. PICK c : /\ Counts(stat, c) /\ c[0] = 0 /\ c[n] = Len(left)
                 /\ \A k \in 1 .. n : stat[k].st = "yes" => left[c[k]].off = stat[k].off
    <2>1. 1 - 1 = 0
      OBVIOUS
    <2> QED
      BY <2>1 DEF Follows
  <1> DEFINE d == [k \in 0 .. n + 1 |-> IF k <= n THEN c[k]
                                         ELSE IF a.st = "yes" THEN c[n] + 1 ELSE c[n]]
  <1>2. n \in Nat /\ Len(left) \in Nat /\ Len(s2) = n + 1 /\ s2[n + 1] = a
        /\ \A k \in 1 .. n : s2[k] = stat[k]
    OBVIOUS
  <1>3. Len(l2) = (IF a.st = "yes" THEN Len(left) + 1 ELSE Len(left))
        /\ (a.st = "yes" => l2[Len(left) + 1] = a)
        /\ \A k \in 1 .. Len(left) : l2[k] = left[k]
    OBVIOUS
  <1> HIDE DEF n, s2, l2
  <1>4. c \in [0 .. n -> Int]
        /\ (\A k \in 1 .. n : c[k] = IF stat[k].st = "yes" THEN c[k - 1] + 1 ELSE c[k - 1])
        /\ \A j, k \in 0 .. n : j <= k => c[j] <= c[k]
    BY <1>1 DEF Counts, n
  <1>5. d \in [0 .. n + 1 -> Int] /\ (\A k \in 0 .. n : d[k] = c[k])
        /\ d[n + 1] = IF a.st = "yes" THEN c[n] + 1 ELSE c[n]
    BY <1>2, <1>4
  <1> HIDE DEF d
  <1>6. Counts(s2, d)
    <2>1. ASSUME NEW k \in 1 .. n + 1
          PROVE  d[k] = IF s2[k].st = "yes" THEN d[k - 1] + 1 ELSE d[k - 1]
      <3>1. CASE k = n + 1
        <4>1. d[k - 1] = c[n]
          BY <1>2, <1>5, <3>1
        <4> QED
          BY <1>2, <1>5, <3>1, <4>1
      <3>2. CASE k # n + 1
        <4>1. k \in 1 .. n /\ k - 1 \in 0 .. n /\ k \in 0 .. n
          BY <1>2, <3>2
        <4>2. s2[k] = stat[k] /\ d[k] = c[k] /\ d[k - 1] = c[k - 1]
          BY <1>2, <1>5, <4>1
        <4> QED
          BY <1>4, <4>1, <4>2
      <3> QED
        BY <3>1, <3>2
    <2>2. ASSUME NEW j \in 0 .. n + 1, NEW k \in 0 .. n + 1, j <= k PROVE d[j] <= d[k]
      <3>1. CASE k <= n
        BY <1>2, <1>4, <1>5, <2>2, <3>1
      <3>2. CASE k = n + 1 /\ j <= n
        <4>1. d[j] = c[j] /\ c[j] <= c[n] /\ c[j] \in Int /\ c[n] \in Int
          BY <1>2, <1>4, <1>5, <3>2
        <4> QED
          BY <1>5, <3>2, <4>1
      <3>3. CASE j = k
        BY <1>5, <3>3
      <3> QED
        BY <1>2, <2>2, <3>1, <3>2, <3>3
    <2> QED
      BY <1>2, <1>5, <2>1, <2>2 DEF Counts
  <1>7. d[0] = 0 /\ d[n + 1] = Len(l2)
    BY <1>1, <1>2, <1>3, <1>5
  <1>8. ASSUME NEW k \in 1 .. n + 1, s2[k].st = "yes" PROVE l2[d[k]].off = s2[k].off
    <2>1. CASE k = n + 1
      <3>1. d[k] = Len(left) + 1
        BY <1>1, <1>2, <1>5, <1>8, <2>1
      <3> QED
        BY <1>2, <1>3, <1>8, <2>1, <3>1
    <2>2. CASE k # n + 1
      <3>1. k \in 1 .. n /\ k - 1 \in 0 .. n /\ k \in 0 .. n
        BY <1>2, <2>2
      <3>2. s2[k] = stat[k] /\ d[k] = c[k] /\ c[k] = c[k - 1] + 1 /\ c[k] <= c[n] /\ c[0] <= c[k - 1]
        BY <1>2, <1>4, <1>5, <1>8, <3>1
      <3>3. c[k] \in Int /\ c[k - 1] \in Int
        BY <1>4, <3>1
      <3>4. d[k] \in 1 .. Len(left)
        BY <1>1, <1>2, <3>2, <3>3
      <3> QED
        BY <1>1, <1>3, <1>8, <3>1, <3>2, <3>4
    <2> QED
      BY <2>1, <2>2
  <1>9. Follows(s2, 1, l2, 0)
    <2>1. 1 - 1 = 0 /\ Len(s2) = n + 1
      BY <1>2
    <2> QED
      BY <1>6, <1>7, <1>8, <2>1 DEF Follows
  <1> QED
    BY <1>9 DEF s2, l2

(* The sender passes over a mail, or sends it.                             *)
LEMMA FollowsPlace ==
    ASSUME NEW stat \in Seq(Replies), NEW left \in Seq(Replies), NEW i \in 1 .. Len(stat),
           NEW n \in Nat, Follows(stat, i, left, n)
    PROVE  /\ stat[i].st # "yes" => Follows(stat, i + 1, left, n)
           /\ stat[i].st = "yes" => /\ Follows(stat, i + 1, left, n + 1)
                                    /\ n + 1 <= Len(left) /\ left[n + 1].off = stat[i].off
  <1>1. PICK c : /\ Counts(stat, c) /\ c[i - 1] = n /\ c[Len(stat)] = Len(left)
                 /\ \A k \in i .. Len(stat) : stat[k].st = "yes" => left[c[k]].off = stat[k].off
    BY DEF Follows
  <1>2. (i + 1) - 1 = i /\ i \in 0 .. Len(stat) /\ Len(stat) \in 0 .. Len(stat)
        /\ i <= Len(stat) /\ i \in i .. Len(stat)
        /\ \A k \in i + 1 .. Len(stat) : k \in i .. Len(stat)
    OBVIOUS
  <1>3. c[i] = (IF stat[i].st = "yes" THEN n + 1 ELSE n) /\ c[i] <= c[Len(stat)]
    BY <1>1, <1>2 DEF Counts
  <1>4. Follows(stat, i + 1, left, c[i])
    BY <1>1, <1>2 DEF Follows
  <1> QED
    BY <1>1, <1>2, <1>3, <1>4

(* The first mail has been received.                                       *)
LEMMA FollowsTaken ==
    ASSUME NEW stat \in Seq(Replies), NEW left \in Seq(Replies), left # <<>>,
           NEW i \in 1 .. Len(stat) + 1, NEW n \in Nat \ {0}, Follows(stat, i, left, n)
    PROVE  Follows(stat, i, Tail(left), n - 1)
  <1> DEFINE l2 == Tail(left)
  <1>1. PICK c : /\ Counts(stat, c) /\ c[i - 1] = n /\ c[Len(stat)] = Len(left)
                 /\ \A k \in i .. Len(stat) : stat[k].st = "yes" => left[c[k]].off = stat[k].off
    BY DEF Follows
  <1> DEFINE d == [k \in 0 .. Len(stat) |-> c[k] - 1]
  <1>2. /\ Len(stat) \in Nat /\ Len(left) \in Nat /\ Len(l2) = Len(left) - 1
        /\ \A k \in 1 .. Len(l2) : l2[k] = left[k + 1]
    OBVIOUS
  <1> HIDE DEF l2
  <1>3. c \in [0 .. Len(stat) -> Int]
        /\ (\A k \in 1 .. Len(stat) : c[k] = IF stat[k].st = "yes" THEN c[k - 1] + 1 ELSE c[k - 1])
        /\ \A j, k \in 0 .. Len(stat) : j <= k => c[j] <= c[k]
    BY <1>1 DEF Counts
  <1>4. d \in [0 .. Len(stat) -> Int] /\ \A k \in 0 .. Len(stat) : d[k] = c[k] - 1
    BY <1>3
  <1> HIDE DEF d
  <1>5. \A k \in 0 .. Len(stat) : c[k] \in Int
    BY <1>3
  <1>6. \A k \in 1 .. Len(stat) : k \in 0 .. Len(stat) /\ k - 1 \in 0 .. Len(stat)
    BY <1>2
  <1>7. Counts(stat, d)
    <2>1. ASSUME NEW k \in 1 .. Len(stat)
          PROVE  d[k] = IF stat[k].st = "yes" THEN d[k - 1] + 1 ELSE d[k - 1]
      <3>1. d[k] = c[k] - 1 /\ d[k - 1] = c[k - 1] - 1 /\ c[k] \in Int /\ c[k - 1] \in Int
        BY <1>4, <1>5, <1>6
      <3>2. c[k] = IF stat[k].st = "yes" THEN c[k - 1] + 1 ELSE c[k - 1]
        BY <1>3
      <3> QED
        BY <3>1, <3>2
    <2>2. \A j, k \in 0 .. Len(stat) : j <= k => d[j] <= d[k]
      BY <1>3, <1>4, <1>5
    <2> QED
      BY <1>4, <2>1, <2>2 DEF Counts
  <1>8. d[i - 1] = n - 1 /\ d[Len(stat)] = Len(l2)
    <2>1. i - 1 \in 0 .. Len(stat) /\ Len(stat) \in 0 .. Len(stat)
      BY <1>2
    <2>2. d[i - 1] = c[i - 1] - 1 /\ d[Len(stat)] = c[Len(stat)] - 1
      BY <1>4, <2>1
    <2> QED
      BY <1>1, <1>2, <2>2
  <1>9. ASSUME NEW k \in i .. Len(stat), stat[k].st = "yes" PROVE l2[d[k]].off = stat[k].off
    <2>1. k \in 1 .. Len(stat) /\ k \in 0 .. Len(stat) /\ k - 1 \in 0 .. Len(stat)
          /\ i - 1 \in 0 .. Len(stat) /\ i - 1 <= k - 1 /\ k <= Len(stat) /\ Len(stat) \in 0 .. Len(stat)
      BY <1>2
    <2>2. c[k] = c[k - 1] + 1 /\ c[i - 1] <= c[k - 1] /\ c[k] <= c[Len(stat)]
      BY <1>3, <1>9, <2>1
    <2>3. c[k] \in Int /\ c[k - 1] \in Int /\ d[k] = c[k] - 1
      BY <1>4, <1>5, <2>1
    <2>4. d[k] \in 1 .. Len(l2) /\ d[k] + 1 = c[k]
      BY <1>1, <1>2, <2>2, <2>3
    <2> QED
      BY <1>1, <1>2, <1>9, <2>4
  <1> QED
    BY <1>7, <1>8, <1>9 DEF Follows, l2

LEMMA FollowsBound ==
    ASSUME NEW stat \in Seq(Replies), NEW left, NEW i \in 1 .. Len(stat) + 1, NEW n,
           Follows(stat, i, left, n)
    PROVE  n <= Len(left)
  <1>1. PICK c : Counts(stat, c) /\ c[i - 1] = n /\ c[Len(stat)] = Len(left)
    BY DEF Follows
  <1>2. i - 1 \in 0 .. Len(stat) /\ i - 1 <= Len(stat) /\ Len(stat) \in 0 .. Len(stat)
    OBVIOUS
  <1> QED
    BY <1>1, <1>2 DEF Counts

(* The mails a task has yet to receive.                                    *)
Left(t) == IF t.pc \in {"save", "queue"} THEN Tail(t.want) ELSE t.want

(* The texts under way to t are those of the mails left, in their order.   *)
InOrder(t, w) ==
    t.pc \notin {"end", "none"} =>
        \A j \in 1 .. Len(w) : w[j][1] = "mail" =>
            j <= Len(Left(t)) /\ w[j][2] = Left(t)[j].off
(* A reply, while it is made, while it is under way among the messages N   *)
(* to the partner u, and while u sends by it, names what is left.          *)
Replied(t, w) ==
    t.pc \in {"parse", "take"} => w = <<>> /\ Follows(t.ans, 1, t.want, 0)
Reported(t, w, N) ==
    t.pc # "end" =>
        \A f \in N : f[1] = "FS" => w = <<>> /\ Follows(f[2], 1, Left(t), 0)
Serving(t, u, w) ==
    t.pc # "end" /\ u.pc = "send_mail" => Follows(u.stat, u.i, Left(t), Len(w))
Order(t, u, w, N, up) ==
    /\ InOrder(t, w)
    /\ up => Replied(t, w) /\ Reported(t, w, N) /\ Serving(t, u, w)

LEMMA LeftType ==
    ASSUME NEW t, TaskType(t)
    PROVE  Left(t) \in Seq(Replies) /\ t.want \in Seq(Replies) /\ t.ans \in Seq(Replies)
  <1>1. t.want \in Seq(Replies) /\ t.ans \in Seq(Replies)
        /\ (t.pc \in {"save", "queue"} => t.want # <<>>)
    BY DEF TaskType
  <1> QED
    BY <1>1 DEF Left

(* The place of a task that sends.                                         *)
LEMMA PlaceType ==
    ASSUME NEW t, TaskType(t), t.pc = "send_mail", t.i <= Len(t.list) + 1
    PROVE  t.stat \in Seq(Replies) /\ Len(t.stat) = Len(t.list) /\ t.i \in 1 .. Len(t.stat) + 1
  <1>1. t.stat \in Seq(Replies) /\ Len(t.stat) = Len(t.list) /\ t.i \in Nat /\ t.i >= 1
    BY DEF TaskType
  <1> QED
    BY <1>1

(* A step that does not change what is left, and sends no reply.           *)
LEMMA OrderOwn ==
    ASSUME NEW t, TaskType(t), NEW u, TaskType(u),
           u.pc = "send_mail" => u.i <= Len(u.list) + 1,
           NEW w \in Seq(Frames), NEW N, NEW up, Order(t, u, w, N, up),
           t.pc \notin {"end", "none"}, NEW n, n.pc \notin {"parse", "take"},
           Left(n) = Left(t), NEW w2, w2 = w \/ (w # <<>> /\ w2 = Tail(w) /\ Left(t) = <<>>),
           NEW N2, \A f \in N2 : f[1] = "FS" => f \in N
    PROVE  Order(n, u, w2, N2, up)
  <1>1. CASE w2 = w
    BY <1>1 DEF Order, InOrder, Replied, Reported, Serving
  <1>2. CASE w # <<>> /\ w2 = Tail(w) /\ Left(t) = <<>>
    <2>1. /\ Len(w2) = Len(w) - 1 /\ Len(w) \in Nat \ {0}
          /\ \A j \in 1 .. Len(w2) : w2[j] = w[j + 1] /\ j + 1 \in 1 .. Len(w) /\ j \in Nat
      BY <1>2
    <2>6. Len(w) > 0
      BY <1>2
    <2>2. Len(Left(t)) = 0
      BY <1>2
    <2>3. InOrder(n, w2)
      <3> SUFFICES ASSUME NEW j \in 1 .. Len(w2), w2[j][1] = "mail" PROVE FALSE
        BY DEF InOrder
      <3>1. w[j + 1][1] = "mail" /\ j + 1 \in 1 .. Len(w) /\ j \in Nat
        BY <2>1
      <3>2. j + 1 <= 0
        BY <2>2, <3>1 DEF Order, InOrder
      <3> QED
        BY <3>1, <3>2
    <2>4. up => Reported(n, w2, N2)
      BY <1>2 DEF Order, Reported
    <2>5. up => Serving(n, u, w2)
      <3> SUFFICES ASSUME up, u.pc = "send_mail" PROVE FALSE
        BY DEF Serving
      <3>1. Follows(u.stat, u.i, Left(t), Len(w))
        BY DEF Order, Serving
      <3>2. u.stat \in Seq(Replies) /\ u.i \in 1 .. Len(u.stat) + 1
        BY PlaceType
      <3>3. Len(w) <= Len(Left(t))
        BY <3>1, <3>2, FollowsBound
      <3>4. Len(w) <= 0
        BY <2>2, <3>3
      <3> QED
        BY <2>6, <3>4
    <2> QED
      BY <2>3, <2>4, <2>5 DEF Order, Replied
  <1> QED
    BY <1>1, <1>2

(* A step of the partner that is about something else, or that sends what  *)
(* is no text when the reply is not under way.                             *)
LEMMA OrderOther ==
    ASSUME NEW t, NEW u, NEW w \in Seq(Frames), NEW N, NEW up, Order(t, u, w, N, up),
           NEW n, n.pc # "send_mail", NEW N2, N2 \subseteq N
    PROVE  Order(t, n, w, N2, up)
  BY DEF Order, Reported, Serving

LEMMA OrderPut ==
    ASSUME NEW t, NEW u, NEW w \in Seq(Frames), NEW M, NEW N, NEW up, Order(t, u, w, N, up),
           NEW bx, NEW by, Both(t, u, M, N, bx, by), u.pc \notin {"none", "wait_fs"},
           NEW n, n.pc # "send_mail", NEW N2, N2 \subseteq N,
           NEW f \in Frames, f[1] # "mail"
    PROVE  Order(t, n, w \o <<f>>, N2, up)
  <1> DEFINE w2 == w \o <<f>>
  <1>1. Len(w2) = Len(w) + 1 /\ w2[Len(w) + 1] = f /\ \A k \in 1 .. Len(w) : w2[k] = w[k]
    OBVIOUS
  <1>2. Len(w) \in Nat
    OBVIOUS
  <1> HIDE DEF w2
  <1>3. InOrder(t, w2)
    <2>1. \A j \in 1 .. Len(w2) : w2[j][1] = "mail" => j \in 1 .. Len(w) /\ w2[j] = w[j]
      BY <1>1, <1>2
    <2> QED
      BY <2>1 DEF Order, InOrder
  <1>4. t.pc \notin {"parse", "take"}
    BY DEF Both, Half, Answering
  <1>5. \A g \in N : g[1] # "FS"
    BY DEF Both, Half, Answered
  <1> QED
    BY <1>3, <1>4, <1>5 DEF Order, Replied, Reported, Serving, w2

(* The reply arrives.                                                      *)
LEMMA OrderReply ==
    ASSUME NEW t, NEW u, NEW w \in Seq(Frames), NEW N, NEW up, Order(t, u, w, N, up),
           NEW n, NEW f \in N, f[1] = "FS", n.stat = f[2], n.i = 1,
           NEW N2, N2 \subseteq N
    PROVE  Order(t, n, w, N2, up)
  <1>1. up => Serving(t, n, w)
    <2>1. up /\ t.pc # "end" => w = <<>> /\ Follows(f[2], 1, Left(t), 0)
      BY DEF Order, Reported
    <2>2. Len(<<>>) = 0
      OBVIOUS
    <2> QED
      BY <2>1, <2>2 DEF Serving
  <1> QED
    BY <1>1 DEF Order, Reported

(* The sender passes over a mail, or sends it.                             *)
LEMMA OrderPlace ==
    ASSUME NEW t, TaskType(t), NEW u, TaskType(u), NEW w \in Seq(Frames), NEW N, NEW up,
           Order(t, u, w, N, up), u.pc = "send_mail", u.i <= Len(u.list),
           NEW n, n.i = u.i + 1, n.stat = u.stat, n.pc = "send_mail"
    PROVE  u.stat[u.i].st # "yes" => Order(t, n, w, N, up)
  <1>1. u.stat \in Seq(Replies) /\ Len(u.stat) = Len(u.list) /\ u.i \in 1 .. Len(u.stat)
    <2>1. u.stat \in Seq(Replies) /\ Len(u.stat) = Len(u.list) /\ u.i \in Nat /\ u.i >= 1
      BY DEF TaskType
    <2> QED
      BY <2>1
  <1>2. Left(t) \in Seq(Replies) /\ Len(w) \in Nat
    BY LeftType
  <1>3. up /\ u.stat[u.i].st # "yes" => Serving(t, n, w)
    <2> SUFFICES ASSUME up, u.stat[u.i].st # "yes", t.pc # "end"
                 PROVE  Follows(u.stat, u.i + 1, Left(t), Len(w))
      BY DEF Serving
    <2>1. Follows(u.stat, u.i, Left(t), Len(w))
      BY DEF Order, Serving
    <2> QED
      BY <1>1, <1>2, <2>1, FollowsPlace
  <1> QED
    BY <1>3 DEF Order

LEMMA OrderSent ==
    ASSUME NEW t, TaskType(t), NEW u, TaskType(u), NEW w \in Seq(Frames), NEW M, NEW N, NEW up,
           NEW bx, NEW by, Both(t, u, M, N, bx, by), up,
           Order(t, u, w, N, up), u.pc = "send_mail", u.i <= Len(u.list),
           NEW n, n.i = u.i + 1, n.stat = u.stat, n.pc = "send_mail",
           u.stat[u.i].st = "yes",
           NEW f \in Frames, f[1] = "mail", f[2] = u.stat[u.i].off
    PROVE  Order(t, n, w \o <<f>>, N, up)
  <1>1. u.stat \in Seq(Replies) /\ Len(u.stat) = Len(u.list) /\ u.i \in 1 .. Len(u.stat)
    <2>1. u.stat \in Seq(Replies) /\ Len(u.stat) = Len(u.list) /\ u.i \in Nat /\ u.i >= 1
      BY DEF TaskType
    <2> QED
      BY <2>1
  <1>2. Left(t) \in Seq(Replies) /\ Len(w) \in Nat
    BY LeftType
  <1> DEFINE w2 == w \o <<f>>
  <1>3. Len(w2) = Len(w) + 1 /\ w2[Len(w) + 1] = f /\ \A k \in 1 .. Len(w) : w2[k] = w[k]
    OBVIOUS
  <1> HIDE DEF w2
  <1>4. t.pc # "end" => /\ Follows(u.stat, u.i + 1, Left(t), Len(w) + 1)
                        /\ Len(w) + 1 <= Len(Left(t))
                        /\ Left(t)[Len(w) + 1].off = u.stat[u.i].off
    <2> SUFFICES ASSUME t.pc # "end"
                 PROVE  /\ Follows(u.stat, u.i + 1, Left(t), Len(w) + 1)
                        /\ Len(w) + 1 <= Len(Left(t))
                        /\ Left(t)[Len(w) + 1].off = u.stat[u.i].off
      OBVIOUS
    <2>1. Follows(u.stat, u.i, Left(t), Len(w))
      BY DEF Order, Serving
    <2> QED
      BY <1>1, <1>2, <2>1, FollowsPlace
  <1>5. Serving(t, n, w2)
    BY <1>3, <1>4 DEF Serving
  <1>6. InOrder(t, w2)
    <2> SUFFICES ASSUME t.pc \notin {"end", "none"}, NEW j \in 1 .. Len(w2), w2[j][1] = "mail"
                 PROVE  j <= Len(Left(t)) /\ w2[j][2] = Left(t)[j].off
      BY DEF InOrder
    <2>1. CASE j = Len(w) + 1
      BY <1>3, <1>4, <2>1
    <2>2. CASE j # Len(w) + 1
      <3>1. j \in 1 .. Len(w) /\ w2[j] = w[j]
        BY <1>2, <1>3, <2>2
      <3> QED
        BY <3>1 DEF Order, InOrder
    <2> QED
      BY <2>1, <2>2
  <1>7. t.pc \notin {"parse", "take"}
    BY DEF Both, Half, Answering
  <1>8. \A g \in N : g[1] # "FS"
    BY DEF Both, Half, Answered
  <1> QED
    BY <1>5, <1>6, <1>7, <1>8 DEF Order, Replied, Reported, w2

(* A proposal arrives: nothing else is under way.                          *)
FbbKinds == {"prop", "FF", "FQ", "FS", "mail"}
LEMMA OrderBegin ==
    ASSUME NEW t, TaskType(t), NEW u, NEW w \in Seq(Frames), NEW N, NEW up,
           Order(t, u, w, N, up), NEW bx, NEW by, Both(t, u, Msgs(w), N, bx, by),
           OneOf(w, TurnKinds), \A f \in Msgs(w) : f[1] \in FbbKinds,
           t.pc = "recv_propose", w # <<>>, Head(w)[1] = "prop",
           NEW n, n.pc = "parse", n.ans = <<>>, n.want = <<>>
    PROVE  Order(n, u, Tail(w), N, up)
  <1>1. t.want = <<>> /\ Left(t) = <<>>
    BY DEF Both, Half, Wanting, Left
  <1>2. \A f \in Msgs(w) : f[1] # "FS"
    BY DEF Both, Half, Answered
  <1>3. \A f \in N : f[1] # "FS"
    <2>1. Head(w) \in Msgs(w)
      BY TakenOff
    <2> QED
      BY <2>1 DEF Both, Half, Offered, HasStatus, TurnKinds
  <1>4. u.pc # "send_mail"
    <2>1. Head(w) \in Msgs(w)
      BY TakenOff
    <2> QED
      BY <2>1 DEF Both, Half, Offered
  <1>5. Tail(w) = <<>>
    <2> DEFINE v == Tail(w)
    <2>1. /\ v \in Seq(Frames) /\ Msgs(v) \subseteq Msgs(w)
          /\ \A g \in Msgs(v) : g[1] \notin TurnKinds
      BY TakenOff DEF TurnKinds
    <2>2. /\ Len(v) = Len(w) - 1 /\ Len(w) \in Nat \ {0}
          /\ (v # <<>> => 1 \in 1 .. Len(v) /\ 2 \in 1 .. Len(w) /\ v[1] = w[2])
      OBVIOUS
    <2> HIDE DEF v
    <2>3. v # <<>> => v[1] \in Msgs(v) /\ v[1] \in Msgs(w)
      BY <2>1, <2>2 DEF Msgs
    <2>4. v # <<>> => v[1][1] = "mail"
      BY <1>2, <2>1, <2>3 DEF FbbKinds, TurnKinds
    <2>5. v # <<>> => 2 <= Len(Left(t))
      BY <2>2, <2>4 DEF Order, InOrder
    <2>6. Len(Left(t)) = 0
      BY <1>1
    <2> QED
      BY <2>5, <2>6 DEF v
  <1>6. InOrder(n, Tail(w)) /\ Replied(n, Tail(w))
    <2>1. \A j \in 1 .. Len(<<>>) : FALSE
      OBVIOUS
    <2>2. InOrder(n, <<>>)
      BY <2>1 DEF InOrder
    <2>3. Replied(n, <<>>)
      BY FollowsNothing DEF Replied
    <2> QED
      BY <1>5, <2>2, <2>3
  <1> QED
    BY <1>3, <1>4, <1>6 DEF Order, Reported, Serving

(* A line of the reply.                                                    *)
LEMMA OrderLine ==
    ASSUME NEW t, TaskType(t), NEW u, NEW w \in Seq(Frames), NEW N, NEW up,
           Order(t, u, w, N, up), NEW bx, NEW by, Both(t, u, Msgs(w), N, bx, by),
           t.pc \in {"parse", "take"}, NEW n, n.pc \in {"parse", "take"}, NEW a \in Replies,
           \/ n.ans = t.ans /\ n.want = t.want
           \/ a.st # "yes" /\ n.ans = Append(t.ans, a) /\ n.want = t.want
           \/ a.st = "yes" /\ n.ans = Append(t.ans, a) /\ n.want = Append(t.want, a)
    PROVE  Order(n, u, w, N, up)
  <1>1. t.ans \in Seq(Replies) /\ t.want \in Seq(Replies) /\ Left(t) = t.want /\ Left(n) = n.want
    BY LeftType DEF Left
  <1>2. u.pc # "send_mail" /\ \A f \in N : f[1] # "FS"
    BY DEF Both, Half, Answering, HasStatus
  <1>3. up => Replied(n, w)
    <2> SUFFICES ASSUME up PROVE w = <<>> /\ Follows(n.ans, 1, n.want, 0)
      BY DEF Replied
    <2>1. w = <<>> /\ Follows(t.ans, 1, t.want, 0)
      BY DEF Order, Replied
    <2> QED
      BY <1>1, <2>1, FollowsLine
  <1>4. InOrder(n, w)
    <2> SUFFICES ASSUME NEW j \in 1 .. Len(w), w[j][1] = "mail"
                 PROVE  j <= Len(n.want) /\ w[j][2] = n.want[j].off
      BY <1>1 DEF InOrder
    <2>1. j <= Len(t.want) /\ w[j][2] = t.want[j].off /\ j \in 1 .. Len(t.want)
      BY <1>1 DEF Order, InOrder
    <2>2. Len(t.want) <= Len(n.want) /\ n.want[j] = t.want[j]
      BY <1>1, <2>1
    <2> QED
      BY <1>1, <2>1, <2>2
  <1> QED
    BY <1>2, <1>3, <1>4 DEF Order, Reported, Serving

(* The reply goes out.                                                     *)
LEMMA OrderStatus ==
    ASSUME NEW t, TaskType(t), NEW u, NEW w \in Seq(Frames), NEW N, NEW up,
           Order(t, u, w, N, up), NEW bx, NEW by, Both(t, u, Msgs(w), N, bx, by),
           t.pc = "parse", NEW n, n.pc \in {"erase", "recv_mail"}, n.want = t.want,
           NEW N2, N2 \subseteq N \cup {<<"FS", t.ans>>}
    PROVE  Order(n, u, w, N2, up)
  <1>1. u.pc # "send_mail" /\ \A f \in N : f[1] # "FS"
    BY DEF Both, Half, Answering, HasStatus
  <1>2. Left(n) = t.want /\ Left(t) = t.want
    BY DEF Left
  <1>3. up => Reported(n, w, N2)
    <2> SUFFICES ASSUME up, NEW f \in N2, f[1] = "FS"
                 PROVE  w = <<>> /\ Follows(f[2], 1, t.want, 0)
      BY <1>2 DEF Reported
    <2>1. f[2] = t.ans
      BY <1>1
    <2> QED
      BY <2>1 DEF Order, Replied
  <1> QED
    BY <1>1, <1>2, <1>3 DEF Order, InOrder, Replied, Serving

(* A mail has been received.                                               *)
LEMMA OrderTaken ==
    ASSUME NEW t, TaskType(t), NEW u, TaskType(u),
           u.pc = "send_mail" => u.i <= Len(u.list) + 1,
           NEW w \in Seq(Frames), NEW N, NEW up, Order(t, u, w, N, up),
           t.pc = "recv_data", w # <<>>, NEW n, n.pc \in {"save", "end"}, n.want = t.want
    PROVE  Order(n, u, Tail(w), N, up)
  <1> DEFINE v == Tail(w)
             l == t.want
  <1>1. l \in Seq(Replies) /\ l # <<>> /\ Left(t) = l /\ (n.pc = "save" => Left(n) = Tail(l))
    BY DEF TaskType, Left
  <1>2. /\ Len(v) = Len(w) - 1 /\ Len(w) \in Nat \ {0}
        /\ \A j \in 1 .. Len(v) : v[j] = w[j + 1] /\ j + 1 \in 1 .. Len(w)
    OBVIOUS
  <1> HIDE DEF v, l
  <1>3. /\ Len(Tail(l)) = Len(l) - 1 /\ Len(l) \in Nat
        /\ \A j \in Nat \ {0} : j + 1 <= Len(l) => Tail(l)[j] = l[j + 1]
    BY <1>1
  <1>4. InOrder(n, v)
    <2> SUFFICES ASSUME n.pc = "save", NEW j \in 1 .. Len(v), v[j][1] = "mail"
                 PROVE  j <= Len(Tail(l)) /\ v[j][2] = Tail(l)[j].off
      BY <1>1 DEF InOrder
    <2>1. w[j + 1][1] = "mail" /\ j + 1 \in 1 .. Len(w) /\ v[j] = w[j + 1]
      BY <1>2
    <2>2. j + 1 <= Len(l) /\ w[j + 1][2] = l[j + 1].off
      BY <1>1, <2>1 DEF Order, InOrder
    <2>3. j \in Nat \ {0}
      OBVIOUS
    <2> QED
      BY <1>3, <2>1, <2>2, <2>3
  <1>5. up => Reported(n, v, N)
    BY <1>2 DEF Order, Reported
  <1>6. up => Serving(n, u, v)
    <2> SUFFICES ASSUME up, n.pc = "save", u.pc = "send_mail"
                 PROVE  Follows(u.stat, u.i, Tail(l), Len(v))
      BY <1>1 DEF Serving
    <2>1. Follows(u.stat, u.i, l, Len(w))
      BY <1>1 DEF Order, Serving
    <2>2. u.stat \in Seq(Replies) /\ u.i \in 1 .. Len(u.stat) + 1
      BY PlaceType
    <2> QED
      BY <1>1, <1>2, <2>1, <2>2, FollowsTaken
  <1> QED
    BY <1>4, <1>5, <1>6 DEF Order, Replied, v
=============================================================================
