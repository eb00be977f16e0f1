--------------------------- MODULE ForwardProofs ---------------------------
(* What forwarding guarantees, on every set of boxes, mails and sessions.  *)
EXTENDS SessionProofs

(* The steps of the FBB protocol.                                          *)

LEMMA Entries ==
    ASSUME BoxTypes, NEW x \in Boxes, NEW y \in Boxes, NEW n \in Nat
    PROVE  /\ GetFwdListEntry(x, y, n) \in Seq(Mails)
           /\ Has(x, GetFwdListEntry(x, y, n))
           /\ Len(GetFwdListEntry(x, y, n)) <= n
  <1>1. queue[x][y] \in Seq(Mails)
    BY DEF BoxTypes
  <1> DEFINE ok(m) == mail[x][m] = "live" /\ ~Locked(x, m)
             a == Those(queue[x][y], {m \in Personal : ok(m)})
             b == Those(queue[x][y], {m \in Mails \ Personal : ok(m)})
             d == a \o b
  <1>2. /\ a \in Seq(Mails) /\ \A k \in 1 .. Len(a) : a[k] \in {m \in Personal : ok(m)}
        /\ b \in Seq(Mails) /\ \A k \in 1 .. Len(b) : b[k] \in {m \in Mails \ Personal : ok(m)}
    <2>1. \A S : /\ Those(queue[x][y], S) \in Seq(Mails)
                 /\ \A k \in 1 .. Len(Those(queue[x][y], S)) : Those(queue[x][y], S)[k] \in S
      BY <1>1, ThoseKept
    <2> QED
      BY <2>1
  <1>3. d \in Seq(Mails) /\ \A k \in 1 .. Len(d) : mail[x][d[k]] = "live"
    <2>1. \A k \in 1 .. Len(a) : mail[x][a[k]] = "live"
      BY <1>2
    <2>2. \A k \in 1 .. Len(b) : mail[x][b[k]] = "live"
      BY <1>2
    <2> HIDE DEF a, b
    <2>3. d \in Seq(Mails) /\ Len(d) = Len(a) + Len(b)
      BY <1>2
    <2>4. ASSUME NEW k \in 1 .. Len(d) PROVE mail[x][d[k]] = "live"
      <3>1. CASE k <= Len(a)
        <4>1. d[k] = a[k] /\ k \in 1 .. Len(a)
          BY <1>2, <2>3, <3>1
        <4> HIDE DEF d
        <4> QED
          BY <2>1, <4>1
      <3>2. CASE k > Len(a)
        <4>1. d[k] = b[k - Len(a)] /\ k - Len(a) \in 1 .. Len(b)
          BY <1>2, <2>3, <3>2
        <4> HIDE DEF d
        <4> QED
          BY <2>2, <4>1
      <3> QED
        BY <1>2, <2>3, <3>1, <3>2
    <2> QED
      BY <2>3, <2>4
  <1>4. GetFwdListEntry(x, y, n) = SubSeq(d, 1, IF Len(d) < n THEN Len(d) ELSE n)
    BY DEF GetFwdListEntry
  <1> HIDE DEF d
  <1>5. PICK i \in 0 .. Len(d) : i = (IF Len(d) < n THEN Len(d) ELSE n) /\ i <= n
    BY <1>3
  <1>6. /\ SubSeq(d, 1, i) \in Seq(Mails) /\ Len(SubSeq(d, 1, i)) = i
        /\ \A k \in 1 .. i : SubSeq(d, 1, i)[k] = d[k] /\ k \in 1 .. Len(d)
    BY <1>3
  <1> QED
    BY <1>3, <1>4, <1>5, <1>6 DEF Has

LEMMA TxProposalKeeps ==
    ASSUME ForwardInv, NEW s \in Sessions, NEW x \in {s[1], s[2]}, TxProposal(s, x)
    PROVE  ForwardInv'
  <1> DEFINE t == end[s][x]
             u == end[s][Peer(s, x)]
             in == wire[s][x]
             out == wire[s][Peer(s, x)]
             t0 == [t EXCEPT !.list = <<>>, !.stat = <<>>, !.i = 0]
             due == IF AnotherFwdSender(s, x) THEN <<>>
                    ELSE GetFwdListEntry(x, Peer(s, x), MaxProp)
  <1>0. /\ t.pc = "send_propose" /\ link[s] # "down"
        /\ UNCHANGED <<Box, Line>>
    BY DEF TxProposal, At, T
  <1>1. BoxTypes'
    BY <1>0 DEF ForwardInv, BoxTypes, Box
  <1>2. SessionsInv /\ TaskType(t) /\ x \in Boxes /\ Peer(s, x) \in Boxes
        /\ Both(t, u, Msgs(in), Msgs(out), bids[x], bids[Peer(s, x)])
        /\ TaskType(u) /\ Msgs(in) \subseteq Frames /\ Msgs(out) \subseteq Frames
    BY Here DEF ForwardInv
  <1>3. due \in Seq(Mails) /\ Has(x, due)
    <2>1. Has(x, <<>>) /\ <<>> \in Seq(Mails)
      BY DEF Has
    <2> QED
     BY <2>1, <1>2, Entries, FbbAssumption DEF ForwardInv
  <1>4. ~HasTurn(Msgs(out)) /\ t.want = <<>>
    BY <1>0, <1>2 DEF Both, Half, Turn, TurnPcs, Wanting
  <1>5. link' = link /\ bids' = bids /\ KeepsMail
    BY <1>0 DEF Box, Line, KeepsMail
  <1>6. DOMAIN t = Fields
    BY <1>2 DEF TaskType
  <1>10. CASE due # <<>>
    <2> DEFINE f == <<"prop", due>>
               t2 == [t0 EXCEPT !.pc = "wait_fs", !.list = due,
                                !.at = Last(due), !.delayed = FALSE]
    <2>1. Set(s, x, t2) /\ Put(s, x, <<f>>)
      BY <1>10 DEF TxProposal, T
    <2>2. t2.pc = "wait_fs" /\ t2.list = due /\ t2.want = t.want
      BY <1>6 DEF Fields
    <2>3. TaskType(t2)
      BY <1>2, <1>3, <1>6 DEF TaskType, Fields, FbbPcs
    <2>4. f \in Frames /\ f[1] = "prop" /\ f[2] = due
      BY <1>3 DEF Frames
    <2> HIDE DEF t2, f, due
    <2>5. WireAfter(s, x, in, out \o <<f>>) \/ WireAfter(s, x, in, out)
      BY <1>2, <2>1, WireSteps DEF SessionsInv
    <2>6. \A N2 : N2 \subseteq Msgs(out) \cup {f} => Both(t2, u, Msgs(in), N2, bids[x], bids[Peer(s, x)])
      BY <1>0, <1>2, <2>2, <2>4, PutTurn
    <2>7. SessionsInv'
      BY <1>0, <1>2, <1>3, <1>4, <1>5, <2>1, <2>2, <2>3, <2>4, <2>5, <2>6, Sends DEF Reads
    <2> QED
      BY <1>1, <2>7 DEF ForwardInv
  <1>11. CASE due = <<>>
    <2>1. due = <<>> => (IF t.had
            THEN /\ Set(s, x, [t0 EXCEPT !.pc = "recv_propose", !.delayed = FALSE])
                 /\ Put(s, x, <<<<"FF">>>>)
            ELSE Set(s, x, [t0 EXCEPT !.pc = "send_delay"]) /\ UNCHANGED wire)
      BY DEF TxProposal, T
    <2>2. Has(x, <<>>)
      BY DEF Has
    <2>3. CASE t.had
      <3> DEFINE f == <<"FF">>
                 t2 == [t0 EXCEPT !.pc = "recv_propose", !.delayed = FALSE]
      <3>1. Set(s, x, t2) /\ Put(s, x, <<f>>)
        BY <1>11, <2>1, <2>3
      <3>2. t2.pc = "recv_propose" /\ t2.list = <<>> /\ t2.want = t.want
        BY <1>6 DEF Fields
      <3>3. TaskType(t2)
        BY <1>2, <1>6 DEF TaskType, Fields, FbbPcs
      <3>4. f \in Frames /\ f[1] = "FF"
        BY DEF Frames
      <3> HIDE DEF t2, f, due
      <3>5. WireAfter(s, x, in, out \o <<f>>) \/ WireAfter(s, x, in, out)
        BY <1>2, <3>1, WireSteps DEF SessionsInv
      <3>6. \A N2 : N2 \subseteq Msgs(out) \cup {f} => Both(t2, u, Msgs(in), N2, bids[x], bids[Peer(s, x)])
        BY <1>0, <1>2, <3>2, <3>4, PutTurn
      <3>7. SessionsInv'
        BY <1>0, <1>2, <2>2, <1>4, <1>5, <3>1, <3>2, <3>3, <3>4, <3>5, <3>6, Sends DEF Reads
      <3> QED
        BY <1>1, <3>7 DEF ForwardInv
    <2>4. CASE ~t.had
      <3> DEFINE t2 == [t0 EXCEPT !.pc = "send_delay"]
      <3>1. Set(s, x, t2) /\ UNCHANGED wire
        BY <1>11, <2>1, <2>4
      <3>2. t2.pc = "send_delay" /\ t2.list = <<>> /\ t2.want = t.want
        BY <1>6 DEF Fields
      <3>3. TaskType(t2)
        BY <1>2, <1>6 DEF TaskType, Fields, FbbPcs
      <3> HIDE DEF t2, due
      <3>5. WireAfter(s, x, in, out)
        BY <1>2, <3>1, WireSteps DEF SessionsInv
      <3>6. Both(t2, u, Msgs(in), Msgs(out), bids[x], bids[Peer(s, x)])
        BY <1>0, <1>2, <1>4, <3>2, InTurn DEF Wanting, WantSet, TurnPcs
      <3>7. SessionsInv'
        BY <1>0, <1>2, <2>2, <1>4, <1>5, <3>1, <3>2, <3>3, <3>5, <3>6, Silent DEF Reads
      <3> QED
        BY <1>1, <3>7 DEF ForwardInv
    <2> QED
      BY <2>3, <2>4
  <1> QED
    BY <1>10, <1>11
(* A step that changes nothing of the box or the connection.               *)
LEMMA BoxSame ==
    ASSUME BoxTypes, UNCHANGED <<Box, Line>>
    PROVE  BoxTypes' /\ KeepsMail /\ link' = link /\ bids' = bids
  BY DEF BoxTypes, Box, Line, KeepsMail

LEMMA SendDelayKeeps ==
    ASSUME ForwardInv, NEW s \in Sessions, NEW x \in {s[1], s[2]}, SendDelay(s, x)
    PROVE  ForwardInv'
  <1> DEFINE t == end[s][x]
             u == end[s][Peer(s, x)]
             in == wire[s][x]
             out == wire[s][Peer(s, x)]
  <1>1. t.pc = "send_delay" /\ link[s] # "down"
    BY DEF SendDelay, At, T
  <1>2. /\ SessionsInv /\ TaskType(t) /\ DOMAIN t = Fields /\ TaskType(u)
        /\ x \in Boxes /\ Peer(s, x) \in Boxes /\ Has(x, t.list)
        /\ Both(t, u, Msgs(in), Msgs(out), bids[x], bids[Peer(s, x)])
        /\ in \in Seq(Frames) /\ Msgs(in) \subseteq Frames /\ Msgs(out) \subseteq Frames
    BY Here DEF ForwardInv
  <1>3. BoxTypes' /\ KeepsMail /\ link' = link /\ bids' = bids
    BY BoxSame DEF SendDelay, ForwardInv
  <1>4. ~HasTurn(Msgs(out)) /\ t.want = <<>>
    BY <1>1, <1>2 DEF Both, Half, Turn, TurnPcs, Wanting
  <1> DEFINE again == ~t.delayed \/ (ChkForward(x, Peer(s, x)) /\ ~AnotherFwdSender(s, x))
  <1>5. CASE again
    <2> DEFINE t2 == [t EXCEPT !.pc = "send_propose", !.delayed = TRUE]
    <2>1. Set(s, x, t2) /\ UNCHANGED wire
      BY <1>5 DEF SendDelay, T
    <2>2. t2.pc = "send_propose" /\ t2.list = t.list /\ t2.want = t.want
      BY <1>2 DEF Fields
    <2>3. TaskType(t2)
      BY <1>1, <1>2 DEF TaskType, Fields, FbbPcs
    <2> HIDE DEF t2
    <2>5. WireAfter(s, x, in, out)
      BY <1>2, <2>1, WireSteps DEF SessionsInv
    <2>6. Both(t2, u, Msgs(in), Msgs(out), bids'[x], bids[Peer(s, x)])
      BY <1>1, <1>2, <1>3, <1>4, <2>2, InTurn DEF Wanting, WantSet, TurnPcs
    <2>7. t2.pc # "none" /\ Has(x, t2.list) /\ Reads(in, in)
      BY <1>2, <2>2 DEF Reads
    <2>8. SessionsInv'
      BY <1>1, <1>2, <1>3, <2>1, <2>2, <2>3, <2>5, <2>6, <2>7, Silent
    <2> QED
      BY <1>3, <2>8 DEF ForwardInv
  <1>6. CASE ~again
    <2> DEFINE f == <<"FQ">>
             t2 == [t EXCEPT !.pc = "end", !.job = "end"]
    <2>1. Set(s, x, t2) /\ Put(s, x, <<f>>)
      BY <1>6 DEF SendDelay, T
    <2>2. t2.pc = "end" /\ t2.list = t.list /\ t2.want = t.want
      BY <1>2 DEF Fields
    <2>3. TaskType(t2)
      BY <1>1, <1>2 DEF TaskType, Fields, FbbPcs
    <2>4. f \in Frames /\ f[1] = "FQ"
      BY DEF Frames
    <2> HIDE DEF t2, f
    <2>5. \/ WireAfter(s, x, in, out \o <<f>>)
         \/ WireAfter(s, x, in, out)
      BY <1>2, <2>1, WireSteps DEF SessionsInv
    <2>6. \A N2 : N2 \subseteq Msgs(out) \cup {f} =>
            Both(t2, u, Msgs(in), N2, bids'[x], bids[Peer(s, x)])
      BY <1>1, <1>2, <1>3, <2>2, <2>4, PutTurn
    <2>7. t2.pc # "none" /\ Has(x, t2.list) /\ Reads(in, in)
      BY <1>2, <2>2 DEF Reads
    <2>8. SessionsInv'
      BY <1>1, <1>2, <1>3, <1>4, <2>1, <2>2, <2>3, <2>4, <2>5, <2>6, <2>7,
         Sends DEF TurnKinds, Weighty
    <2> QED
      BY <1>3, <2>8 DEF ForwardInv
  <1> QED
    BY <1>5, <1>6

LEMMA RxStatusKeeps ==
    ASSUME ForwardInv, NEW s \in Sessions, NEW x \in {s[1], s[2]}, RxStatus(s, x)
    PROVE  ForwardInv'
  <1> DEFINE t == end[s][x]
             u == end[s][Peer(s, x)]
             in == wire[s][x]
             out == wire[s][Peer(s, x)]
  <1>1. t.pc = "wait_fs" /\ link[s] # "down"
    BY DEF RxStatus, At, T
  <1>2. /\ SessionsInv /\ TaskType(t) /\ DOMAIN t = Fields /\ TaskType(u)
        /\ x \in Boxes /\ Peer(s, x) \in Boxes /\ Has(x, t.list)
        /\ Both(t, u, Msgs(in), Msgs(out), bids[x], bids[Peer(s, x)])
        /\ in \in Seq(Frames) /\ Msgs(in) \subseteq Frames /\ Msgs(out) \subseteq Frames
    BY Here DEF ForwardInv
  <1>3. BoxTypes' /\ KeepsMail /\ link' = link /\ bids' = bids
    BY BoxSame DEF RxStatus, ForwardInv
  <1> DEFINE h == Head(in)
  <1>4. in # <<>> /\ h[1] = "FS"
    BY DEF RxStatus, Arrived
  <1>5. /\ h \in Frames /\ h \in Msgs(in) /\ Msgs(Tail(in)) \subseteq Msgs(in)
        /\ \A g \in Msgs(Tail(in)) : g[1] \notin {"FS"}
    <2>1. OneOf(in, {"FS"})
      BY Here DEF ForwardInv
    <2> QED
      BY <1>2, <1>4, <2>1, TakenOff
  <1>6. ~HasStatus(Msgs(Tail(in))) /\ h[2] \in Seq(Replies) /\ Len(h[2]) = Len(t.list)
    BY <1>1, <1>2, <1>4, <1>5, StatusFrame DEF HasStatus, Both, Half, Answered
  <1> QED
    <2> DEFINE t2 == [t EXCEPT !.pc = "send_mail", !.i = 1, !.stat = h[2]]
    <2>1. Set(s, x, t2) /\ Take(s, x)
      BY DEF RxStatus, T
    <2>2. t2.pc = "send_mail" /\ t2.list = t.list /\ t2.stat = h[2] /\ t2.want = t.want
      BY <1>2 DEF Fields
    <2>3. TaskType(t2)
      <3>1. /\ DOMAIN t2 = Fields /\ t2.i = 1 /\ t2.ask = t.ask /\ t2.ans = t.ans
            /\ t2.locks = t.locks
        BY <1>2 DEF Fields
      <3>2. /\ t.list \in Seq(Mails) /\ t.ask \in Seq(Mails) /\ t.ans \in Seq(Replies)
            /\ t.want \in Seq(Replies) /\ t.locks \subseteq Mails
        BY <1>2 DEF TaskType
      <3> HIDE DEF t, t2, h
      <3> QED
        BY <1>6, <2>2, <3>1, <3>2 DEF TaskType, FbbPcs
    <2> HIDE DEF t2
    <2>5. WireAfter(s, x, Tail(in), out)
      BY <1>2, <2>1, WireSteps DEF SessionsInv
    <2>6. Both(t2, u, Msgs(Tail(in)), Msgs(out), bids'[x], bids[Peer(s, x)])
      BY <1>1, <1>2, <1>3, <1>4, <1>5, <1>6, <2>2, TakeStatus
    <2>7. t2.pc # "none" /\ Has(x, t2.list) /\ Reads(in, Tail(in))
      BY <1>2, <1>4, <2>2 DEF Reads
    <2>8. SessionsInv'
      BY <1>1, <1>2, <1>3, <2>1, <2>2, <2>3, <2>5, <2>6, <2>7, Silent
    <2> QED
      BY <1>3, <2>8 DEF ForwardInv
LEMMA TxDoneKeeps ==
    ASSUME ForwardInv, NEW s \in Sessions, NEW x \in {s[1], s[2]}, TxDone(s, x)
    PROVE  ForwardInv'
  <1> DEFINE t == end[s][x]
             u == end[s][Peer(s, x)]
             in == wire[s][x]
             out == wire[s][Peer(s, x)]
  <1>1. t.pc = "send_mail" /\ link[s] # "down"
    BY DEF TxDone, At, T
  <1>2. /\ SessionsInv /\ TaskType(t) /\ DOMAIN t = Fields /\ TaskType(u)
        /\ x \in Boxes /\ Peer(s, x) \in Boxes /\ Has(x, t.list)
        /\ Both(t, u, Msgs(in), Msgs(out), bids[x], bids[Peer(s, x)])
        /\ in \in Seq(Frames) /\ Msgs(in) \subseteq Frames /\ Msgs(out) \subseteq Frames
    BY Here DEF ForwardInv
  <1>3. BoxTypes' /\ KeepsMail /\ link' = link /\ bids' = bids
    BY BoxSame DEF TxDone, ForwardInv
  <1> QED
    <2> DEFINE t2 == [t EXCEPT !.pc = "recv_propose"]
    <2>1. Set(s, x, t2) /\ UNCHANGED wire
      BY DEF TxDone, T
    <2>2. t2.pc = "recv_propose" /\ t2.list = t.list /\ t2.stat = t.stat /\ t2.want = t.want
      BY <1>2 DEF Fields
    <2>3. TaskType(t2)
      BY <1>1, <1>2 DEF TaskType, Fields, FbbPcs
    <2> HIDE DEF t2
    <2>5. WireAfter(s, x, in, out)
      BY <1>2, <2>1, WireSteps DEF SessionsInv
    <2>6. Both(t2, u, Msgs(in), Msgs(out), bids'[x], bids[Peer(s, x)])
      BY <1>1, <1>2, <1>3, <2>2, SendingNothing
    <2>7. t2.pc # "none" /\ Has(x, t2.list) /\ Reads(in, in)
      BY <1>2, <2>2 DEF Reads
    <2>8. SessionsInv'
      BY <1>1, <1>2, <1>3, <2>1, <2>2, <2>3, <2>5, <2>6, <2>7, Silent
    <2> QED
      BY <1>3, <2>8 DEF ForwardInv

LEMMA RxFirstKeeps ==
    ASSUME ForwardInv, NEW s \in Sessions, NEW x \in {s[1], s[2]}, RxFirst(s, x)
    PROVE  ForwardInv'
  <1> DEFINE t == end[s][x]
             u == end[s][Peer(s, x)]
             in == wire[s][x]
             out == wire[s][Peer(s, x)]
  <1>1. t.pc = "recv_propose" /\ link[s] # "down"
    BY DEF RxFirst, At, T
  <1>2. /\ SessionsInv /\ TaskType(t) /\ DOMAIN t = Fields /\ TaskType(u)
        /\ x \in Boxes /\ Peer(s, x) \in Boxes /\ Has(x, t.list)
        /\ Both(t, u, Msgs(in), Msgs(out), bids[x], bids[Peer(s, x)])
        /\ in \in Seq(Frames) /\ Msgs(in) \subseteq Frames /\ Msgs(out) \subseteq Frames
    BY Here DEF ForwardInv
  <1>3. BoxTypes' /\ KeepsMail /\ link' = link /\ bids' = bids
    BY BoxSame DEF RxFirst, ForwardInv
  <1> DEFINE h == Head(in)
  <1>4. in # <<>> /\ h[1] \in {"prop", "FF", "FQ"}
    BY DEF RxFirst, Arrived
  <1>5. /\ h \in Frames /\ h \in Msgs(in) /\ Msgs(Tail(in)) \subseteq Msgs(in)
        /\ \A g \in Msgs(Tail(in)) : g[1] \notin TurnKinds
    <2>1. OneOf(in, TurnKinds) /\ h[1] \in TurnKinds
      BY <1>4, Here DEF ForwardInv, TurnKinds
    <2> QED
      BY <1>2, <1>4, <2>1, TakenOff
  <1>6. ~HasTurn(Msgs(Tail(in)))
    BY <1>5 DEF HasTurn
  <1>7. CASE h[1] = "prop"
    <2> DEFINE t2 == [t EXCEPT !.pc = "parse", !.ans = <<>>, !.want = <<>>, !.ask = h[2]]
    <2>1. Set(s, x, t2) /\ Take(s, x)
      BY <1>7 DEF RxFirst, T
    <2>2. /\ t2.pc = "parse" /\ t2.list = t.list /\ t2.stat = t.stat
          /\ t2.ask = h[2] /\ t2.ans = <<>> /\ t2.want = <<>>
      BY <1>2 DEF Fields
    <2>3. TaskType(t2)
      <3>1. /\ DOMAIN t2 = Fields /\ t2.i = t.i /\ t2.locks = t.locks
        BY <1>2 DEF Fields
      <3>2. /\ t.list \in Seq(Mails) /\ t.i \in Nat /\ t.locks \subseteq Mails
            /\ t.stat \in Seq(Replies) /\ Len(t.stat) = Len(t.list)
        BY <1>1, <1>2 DEF TaskType
      <3>3. h[2] \in Seq(Mails) /\ Len(<<>>) <= Len(h[2])
        BY <1>5, <1>7, StatusFrame
      <3> HIDE DEF t, t2, h
      <3> QED
        BY <2>2, <3>1, <3>2, <3>3 DEF TaskType, FbbPcs
    <2> HIDE DEF t2
    <2>5. WireAfter(s, x, Tail(in), out)
      BY <1>2, <2>1, WireSteps DEF SessionsInv
    <2>6. Both(t2, u, Msgs(Tail(in)), Msgs(out), bids'[x], bids[Peer(s, x)])
      BY <1>1, <1>2, <1>3, <1>5, <1>6, <1>7, <2>2, TakeProposal
    <2>7. t2.pc # "none" /\ Has(x, t2.list) /\ Reads(in, Tail(in))
      BY <1>2, <1>4, <2>2 DEF Reads
    <2>8. SessionsInv'
      BY <1>1, <1>2, <1>3, <2>1, <2>2, <2>3, <2>5, <2>6, <2>7, Silent
    <2> QED
      BY <1>3, <2>8 DEF ForwardInv
  <1>8. CASE h[1] \in {"FF", "FQ"}
    <2>1. PICK t1, next : /\ next \in {"send_propose", "end"}
                          /\ t1 \in {t, [t EXCEPT !.had = FALSE]}
                          /\ Set(s, x, Confirmed(t1, next))
      BY <1>4, <1>8 DEF RxFirst, T
    <2>2. /\ t1.list = t.list /\ t1.stat = t.stat /\ t1.want = t.want
          /\ t1.pc = "recv_propose" /\ TaskType(t1) /\ DOMAIN t1 = Fields
      BY <1>1, <1>2, <2>1 DEF TaskType, Fields, FbbPcs
    <2> QED
      <3> DEFINE t2 == Confirmed(t1, next)
      <3>1. Set(s, x, t2) /\ Take(s, x)
        BY <2>1 DEF RxFirst
      <3>2. /\ t2.pc \in {"erase", "send_propose", "end"}
            /\ t2.list = t.list /\ t2.stat = t.stat /\ t2.want = t.want
        BY <2>1, <2>2 DEF Confirmed, Fields
      <3>3. TaskType(t2)
        BY <2>1, <2>2 DEF Confirmed, TaskType, Fields, FbbPcs
      <3> HIDE DEF t2
      <3>5. WireAfter(s, x, Tail(in), out)
        BY <1>2, <3>1, WireSteps DEF SessionsInv
      <3>6. Both(t2, u, Msgs(Tail(in)), Msgs(out), bids'[x], bids[Peer(s, x)])
        BY <1>1, <1>2, <1>3, <1>5, <1>6, <1>8, <3>2, TakeNothing
      <3>7. t2.pc # "none" /\ Has(x, t2.list) /\ Reads(in, Tail(in))
        BY <1>2, <1>4, <3>2 DEF Reads
      <3>8. SessionsInv'
        BY <1>1, <1>2, <1>3, <3>1, <3>2, <3>3, <3>5, <3>6, <3>7, Silent
      <3> QED
        BY <1>3, <3>8 DEF ForwardInv
  <1> QED
    BY <1>4, <1>7, <1>8

LEMMA TxStatusKeeps ==
    ASSUME ForwardInv, NEW s \in Sessions, NEW x \in {s[1], s[2]}, TxStatus(s, x)
    PROVE  ForwardInv'
  <1> DEFINE t == end[s][x]
             u == end[s][Peer(s, x)]
             in == wire[s][x]
             out == wire[s][Peer(s, x)]
  <1>1. t.pc = "parse" /\ link[s] # "down"
    BY DEF TxStatus, At, T
  <1>2. /\ SessionsInv /\ TaskType(t) /\ DOMAIN t = Fields /\ TaskType(u)
        /\ x \in Boxes /\ Peer(s, x) \in Boxes /\ Has(x, t.list)
        /\ Both(t, u, Msgs(in), Msgs(out), bids[x], bids[Peer(s, x)])
        /\ in \in Seq(Frames) /\ Msgs(in) \subseteq Frames /\ Msgs(out) \subseteq Frames
    BY Here DEF ForwardInv
  <1>3. BoxTypes' /\ KeepsMail /\ link' = link /\ bids' = bids
    BY BoxSame DEF TxStatus, ForwardInv
  <1>4. Len(t.ans) = Len(t.ask) /\ t.ans \in Seq(Replies) /\ ~HasStatus(Msgs(out))
    BY <1>1, <1>2 DEF TxStatus, T, TaskType, Both, Half, Answering
  <1> DEFINE t1 == [t EXCEPT !.ans = <<>>, !.ask = <<>>, !.had = TRUE]
  <1>5. /\ t1.list = t.list /\ t1.stat = t.stat /\ t1.want = t.want
        /\ t1.pc = "parse" /\ TaskType(t1) /\ DOMAIN t1 = Fields
    <2>1. /\ t1.pc = "parse" /\ t1.list = t.list /\ t1.stat = t.stat /\ t1.want = t.want
          /\ t1.ask = <<>> /\ t1.ans = <<>> /\ t1.i = t.i /\ t1.locks = t.locks
          /\ DOMAIN t1 = Fields
      BY <1>1, <1>2 DEF Fields
    <2>2. <<>> \in Seq(Mails) /\ <<>> \in Seq(Replies) /\ Len(<<>>) = 0
      OBVIOUS
    <2> HIDE DEF t1
    <2>3. TaskType(t1)
      BY <1>1, <1>2, <2>1, <2>2 DEF TaskType, FbbPcs
    <2> QED
      BY <2>1, <2>3
  <1> HIDE DEF t1
  <1>6. t.pc = "parse"
    BY <1>1
  <1> QED
    <2> DEFINE f == <<"FS", t.ans>>
             t2 == Confirmed(t1, "recv_mail")
    <2>1. Set(s, x, t2) /\ Put(s, x, <<f>>)
      BY DEF TxStatus, T, t1
    <2>2. /\ t2.pc = "recv_mail" \/ (t2.pc = "erase" /\ t2.next = "recv_mail")
          /\ t2.list = t.list /\ t2.stat = t.stat /\ t2.want = t.want
      BY <1>5 DEF Confirmed, Fields
    <2>3. TaskType(t2)
      BY <1>5 DEF Confirmed, TaskType, Fields, FbbPcs
    <2>4. f \in Frames /\ f[1] = "FS" /\ f[2] = t.ans
      BY <1>4 DEF Frames
    <2> HIDE DEF t2, f
    <2>5. \/ WireAfter(s, x, in, out \o <<f>>)
         \/ WireAfter(s, x, in, out)
      BY <1>2, <2>1, WireSteps DEF SessionsInv
    <2>6. \A N2 : N2 \subseteq Msgs(out) \cup {f} =>
            Both(t2, u, Msgs(in), N2, bids'[x], bids[Peer(s, x)])
      BY <1>6, <1>4, <1>2, <1>3, <2>2, <2>4, PutStatus
    <2>7. t2.pc # "none" /\ Has(x, t2.list) /\ Reads(in, in)
      BY <1>2, <2>2 DEF Reads
    <2>8. SessionsInv'
      BY <1>1, <1>2, <1>3, <1>4, <2>1, <2>2, <2>3, <2>4, <2>5, <2>6, <2>7,
         Sends DEF TurnKinds, Weighty
    <2> QED
      BY <1>3, <2>8 DEF ForwardInv

LEMMA EraseDoneKeeps ==
    ASSUME ForwardInv, NEW s \in Sessions, NEW x \in {s[1], s[2]}, EraseDone(s, x)
    PROVE  ForwardInv'
  <1> DEFINE t == end[s][x]
             u == end[s][Peer(s, x)]
             in == wire[s][x]
             out == wire[s][Peer(s, x)]
  <1>1. t.pc = "erase" /\ link[s] # "down"
    BY DEF EraseDone, At, T
  <1>2. /\ SessionsInv /\ TaskType(t) /\ DOMAIN t = Fields /\ TaskType(u)
        /\ x \in Boxes /\ Peer(s, x) \in Boxes /\ Has(x, t.list)
        /\ Both(t, u, Msgs(in), Msgs(out), bids[x], bids[Peer(s, x)])
        /\ in \in Seq(Frames) /\ Msgs(in) \subseteq Frames /\ Msgs(out) \subseteq Frames
    BY Here DEF ForwardInv
  <1>3. BoxTypes' /\ KeepsMail /\ link' = link /\ bids' = bids
    BY BoxSame DEF EraseDone, ForwardInv
  <1>4. t.next \in {"recv_mail", "send_propose", "end"} /\ (t.want # <<>> => t.next = "recv_mail")
    BY <1>1, <1>2 DEF TaskType, Both, Half, Wanting
  <1>5. Has(x, <<>>) /\ <<>> \in Seq(Mails) /\ <<>> \in Seq(Replies) /\ Len(<<>>) = 0
    BY DEF Has
  <1> QED
    <2> DEFINE t2 == [t EXCEPT !.pc = t.next, !.list = <<>>, !.i = 0, !.stat = <<>>]
    <2>1. Set(s, x, t2) /\ UNCHANGED wire
      BY DEF EraseDone, T
    <2>2. /\ t2.pc = t.next /\ t2.list = <<>> /\ t2.want = t.want /\ t2.stat = <<>>
          /\ t2.ask = t.ask /\ t2.ans = t.ans /\ t2.i = 0 /\ t2.locks = t.locks
          /\ DOMAIN t2 = Fields
      BY <1>2 DEF Fields
    <2> HIDE DEF t2
    <2>3. TaskType(t2)
      <3>1. t2.pc \in {"recv_mail", "send_propose", "end"}
        BY <1>4, <2>2
      <3>2. t2.list \in Seq(Mails) /\ t2.i \in Nat /\ t2.locks \subseteq t.locks
        BY <1>5, <2>2
      <3>3. TaskType(t) /\ DOMAIN t2 = Fields /\ t2.ask = t.ask /\ t2.ans = t.ans /\ t2.want = t.want
        BY <1>2, <2>2
      <3> HIDE DEF t
      <3> QED
        BY <3>1, <3>2, <3>3, Typed DEF FbbPcs
    <2> HIDE DEF t2
    <2>5. WireAfter(s, x, in, out)
      BY <1>2, <2>1, WireSteps DEF SessionsInv
    <2>6. Both(t2, u, Msgs(in), Msgs(out), bids'[x], bids[Peer(s, x)])
      BY <1>1, <1>2, <1>3, <1>4, <2>2, InTurn DEF Wanting, WantSet, TurnPcs
    <2>7. t2.pc # "none" /\ Has(x, t2.list) /\ Reads(in, in)
      BY <1>4, <1>5, <2>2 DEF Reads
    <2>8. SessionsInv'
      BY <1>1, <1>2, <1>3, <2>1, <2>2, <2>3, <2>5, <2>6, <2>7, Silent
    <2> QED
      BY <1>3, <2>8 DEF ForwardInv

LEMMA RxHeaderKeeps ==
    ASSUME ForwardInv, NEW s \in Sessions, NEW x \in {s[1], s[2]}, RxHeader(s, x)
    PROVE  ForwardInv'
  <1> DEFINE t == end[s][x]
             u == end[s][Peer(s, x)]
             in == wire[s][x]
             out == wire[s][Peer(s, x)]
  <1>1. t.pc = "recv_mail" /\ link[s] # "down"
    BY DEF RxHeader, At, T
  <1>2. /\ SessionsInv /\ TaskType(t) /\ DOMAIN t = Fields /\ TaskType(u)
        /\ x \in Boxes /\ Peer(s, x) \in Boxes /\ Has(x, t.list)
        /\ Both(t, u, Msgs(in), Msgs(out), bids[x], bids[Peer(s, x)])
        /\ in \in Seq(Frames) /\ Msgs(in) \subseteq Frames /\ Msgs(out) \subseteq Frames
    BY Here DEF ForwardInv
  <1>3. BoxTypes' /\ KeepsMail /\ link' = link /\ bids' = bids
    BY BoxSame DEF RxHeader, ForwardInv
  <1> DEFINE h == Head(in)
             got == SubSeq(frag[x][Peer(s, x)][Head(t.want).m], 1, h[2])
  <1>4. t.want # <<>> /\ in # <<>> /\ h[1] = "mail"
    BY DEF RxHeader, Arrived, T
  <1>5. h[2] \in Nat
    BY <1>2, <1>4, TakenOff, StatusFrame
  <1> HIDE DEF got
  <1> QED
    <2> DEFINE t2 == [t EXCEPT !.pc = "recv_data", !.i = h[2], !.got = got]
    <2>1. Set(s, x, t2) /\ UNCHANGED wire
      BY DEF RxHeader, T, got
    <2>2. t2.pc = "recv_data" /\ t2.list = t.list /\ t2.want = t.want
      BY <1>2 DEF Fields
    <2>3. TaskType(t2)
      BY <1>1, <1>2, <1>4, <1>5 DEF TaskType, Fields, FbbPcs
    <2> HIDE DEF t2
    <2>5. WireAfter(s, x, in, out)
      BY <1>2, <2>1, WireSteps DEF SessionsInv
    <2>6. Both(t2, u, Msgs(in), Msgs(out), bids'[x], bids[Peer(s, x)])
      BY <1>1, <1>2, <1>3, <1>4, <2>2, InTurn DEF Wanting, WantSet, TurnPcs
    <2>7. t2.pc # "none" /\ Has(x, t2.list) /\ Reads(in, in)
      BY <1>2, <2>2 DEF Reads
    <2>8. SessionsInv'
      BY <1>1, <1>2, <1>3, <2>1, <2>2, <2>3, <2>5, <2>6, <2>7, Silent
    <2> QED
      BY <1>3, <2>8 DEF ForwardInv

LEMMA RxDoneKeeps ==
    ASSUME ForwardInv, NEW s \in Sessions, NEW x \in {s[1], s[2]}, RxDone(s, x)
    PROVE  ForwardInv'
  <1> DEFINE t == end[s][x]
             u == end[s][Peer(s, x)]
             in == wire[s][x]
             out == wire[s][Peer(s, x)]
  <1>1. t.pc = "recv_mail" /\ link[s] # "down"
    BY DEF RxDone, At, T
  <1>2. /\ SessionsInv /\ TaskType(t) /\ DOMAIN t = Fields /\ TaskType(u)
        /\ x \in Boxes /\ Peer(s, x) \in Boxes /\ Has(x, t.list)
        /\ Both(t, u, Msgs(in), Msgs(out), bids[x], bids[Peer(s, x)])
        /\ in \in Seq(Frames) /\ Msgs(in) \subseteq Frames /\ Msgs(out) \subseteq Frames
    BY Here DEF ForwardInv
  <1>3. BoxTypes' /\ KeepsMail /\ link' = link /\ bids' = bids
    BY BoxSame DEF RxDone, ForwardInv
  <1>4. t.want = <<>>
    BY DEF RxDone, T
  <1> QED
    <2> DEFINE t2 == [t EXCEPT !.pc = "send_propose"]
    <2>1. Set(s, x, t2) /\ UNCHANGED wire
      BY DEF RxDone, T
    <2>2. t2.pc = "send_propose" /\ t2.list = t.list /\ t2.want = t.want
      BY <1>2 DEF Fields
    <2>3. TaskType(t2)
      BY <1>1, <1>2 DEF TaskType, Fields, FbbPcs
    <2> HIDE DEF t2
    <2>5. WireAfter(s, x, in, out)
      BY <1>2, <2>1, WireSteps DEF SessionsInv
    <2>6. Both(t2, u, Msgs(in), Msgs(out), bids'[x], bids[Peer(s, x)])
      BY <1>1, <1>2, <1>3, <1>4, <2>2, InTurn DEF Wanting, WantSet, TurnPcs
    <2>7. t2.pc # "none" /\ Has(x, t2.list) /\ Reads(in, in)
      BY <1>2, <2>2 DEF Reads
    <2>8. SessionsInv'
      BY <1>1, <1>2, <1>3, <2>1, <2>2, <2>3, <2>5, <2>6, <2>7, Silent
    <2> QED
      BY <1>3, <2>8 DEF ForwardInv
(* What the operations of a box leave.                                     *)
LEMMA WholeText ==
    ASSUME NEW w \in Wholes
    PROVE  w \in Seq(Bits) /\ Len(w) = Blocks
  <1>1. PICK v \in Bits : w = [k \in 1 .. Blocks |-> v]
    BY DEF Wholes
  <1>2. Blocks \in Nat
    BY MailBoxAssumption
  <1> QED
    BY <1>1, <1>2

LEMMA DelTypes ==
    ASSUME BoxTypes, NEW x \in Boxes, NEW y \in Boxes, NEW m, DelFwdListEntry(x, y, m)
    PROVE  queue' \in [Boxes -> [Boxes -> Seq(Mails)]]
  <1>1. queue \in [Boxes -> [Boxes -> Seq(Mails)]] /\ queue[x][y] \in Seq(Mails)
    BY DEF BoxTypes
  <1>2. Those(queue[x][y], Mails \ {m}) \in Seq(Mails)
    BY <1>1, ThoseKept
  <1> QED
    BY <1>1, <1>2 DEF DelFwdListEntry

LEMMA AddTypes ==
    ASSUME BoxTypes, NEW x \in Boxes, NEW m \in Mails, NEW from, AddFwdFile(x, m, from)
    PROVE  queue' \in [Boxes -> [Boxes -> Seq(Mails)]]
  <1>1. queue \in [Boxes -> [Boxes -> Seq(Mails)]]
    BY DEF BoxTypes
  <1> DEFINE new(y) == IF y \in Route[x][m] /\ (m \in Personal \/ y # from)
                       THEN Append(Those(queue[x][y], Mails \ {m}), m) ELSE queue[x][y]
  <1>2. ASSUME NEW y \in Boxes PROVE new(y) \in Seq(Mails)
    <2>1. queue[x][y] \in Seq(Mails)
      BY <1>1
    <2>2. Those(queue[x][y], Mails \ {m}) \in Seq(Mails)
      BY <2>1, ThoseKept
    <2> QED
      BY <2>1, <2>2
  <1>3. queue' = [queue EXCEPT ![x] = [y \in Boxes |-> new(y)]]
    BY <1>1 DEF AddFwdFile
  <1> HIDE DEF new
  <1>4. [y \in Boxes |-> new(y)] \in [Boxes -> Seq(Mails)]
    BY <1>2
  <1> QED
    BY <1>1, <1>3, <1>4

LEMMA ReplyTypes ==
    ASSUME BoxTypes, NEW x \in Boxes, NEW m \in Mails, mail[x][m] # "none", NEW answer,
           FwdProcReply(x, m, answer)
    PROVE  /\ mail' \in [Boxes -> [Mails -> {"none", "live", "fwd", "user"}]]
           /\ KeepsMail
           /\ \A y \in Boxes, n \in Mails : mail'[y][n] # "none" => mail[y][n] # "none"
  <1>1. mail \in [Boxes -> [Mails -> {"none", "live", "fwd", "user"}]]
    BY DEF BoxTypes
  <1>2. CASE mail' = [mail EXCEPT ![x][m] = "fwd"]
    BY <1>1, <1>2 DEF KeepsMail
  <1>3. CASE UNCHANGED mail
    BY <1>1, <1>3 DEF KeepsMail
  <1> QED
    BY <1>2, <1>3 DEF FwdProcReply

LEMMA SaveTypes ==
    ASSUME BoxTypes, NEW x \in Boxes, NEW m \in Mails, NEW w \in Wholes, SaveMail(x, m, w),
           UNCHANGED <<queue, frag>>
    PROVE  /\ BoxTypes' /\ KeepsMail
           /\ bids' = [bids EXCEPT ![x] = @ \cup {m}]
  <1>1. /\ mail' \in [Boxes -> [Mails -> {"none", "live", "fwd", "user"}]] /\ KeepsMail
        /\ \A y \in Boxes, n \in Mails :
             mail'[y][n] # "none" => mail[y][n] # "none" \/ (y = x /\ n = m)
    BY DEF BoxTypes, SaveMail, KeepsMail
  <1>2. /\ text' \in [Boxes -> [Mails -> Seq(Bits)]]
        /\ \A y \in Boxes, n \in Mails :
             text'[y][n] = IF y = x /\ n = m THEN w ELSE text[y][n]
    BY WholeText DEF BoxTypes, SaveMail
  <1>3. prop' \in [Boxes -> SUBSET Personal] /\ bids' \in [Boxes -> SUBSET Mails]
    BY DEF BoxTypes, SaveMail
  <1>4. \A y \in Boxes, n \in Mails : mail'[y][n] # "none" => text'[y][n] \in Wholes
    BY <1>1, <1>2 DEF BoxTypes
  <1>5. bids' = [bids EXCEPT ![x] = @ \cup {m}]
    BY DEF SaveMail
  <1> QED
    BY <1>1, <1>2, <1>3, <1>4, <1>5 DEF BoxTypes

LEMMA TxMailKeeps ==
    ASSUME ForwardInv, NEW s \in Sessions, NEW x \in {s[1], s[2]}, TxMail(s, x)
    PROVE  ForwardInv'
  <1> DEFINE t == end[s][x]
             u == end[s][Peer(s, x)]
             in == wire[s][x]
             out == wire[s][Peer(s, x)]
  <1>1. t.pc = "send_mail" /\ link[s] # "down"
    BY DEF TxMail, At, T
  <1>2. /\ SessionsInv /\ TaskType(t) /\ DOMAIN t = Fields /\ TaskType(u)
        /\ x \in Boxes /\ Peer(s, x) \in Boxes /\ Has(x, t.list)
        /\ Both(t, u, Msgs(in), Msgs(out), bids[x], bids[Peer(s, x)])
        /\ in \in Seq(Frames) /\ Msgs(in) \subseteq Frames /\ Msgs(out) \subseteq Frames
    BY Here DEF ForwardInv
  <1>3. /\ link' = link /\ bids' = bids /\ KeepsMail
        /\ prop' \in [Boxes -> SUBSET Personal] => BoxTypes'
    BY DEF TxMail, Line, KeepsMail, ForwardInv, BoxTypes
  <1>4. BoxTypes /\ prop \in [Boxes -> SUBSET Personal]
    BY DEF ForwardInv, BoxTypes
  <1> DEFINE m == t.list[t.i]
             st == t.stat[t.i]
  <1>5. m \in Mails /\ st \in Replies
    <2>1. t.i \in 1 .. Len(t.list) /\ Len(t.stat) = Len(t.list)
      <3>1. t.i \in Nat /\ t.i >= 1 /\ Len(t.stat) = Len(t.list) /\ t.list \in Seq(Mails)
        BY <1>1, <1>2 DEF TaskType
      <3>2. t.i <= Len(t.list)
        BY DEF TxMail, T
      <3> HIDE DEF t
      <3> QED
        BY <3>1, <3>2
    <2>2. t.list \in Seq(Mails) /\ t.stat \in Seq(Replies)
      BY <1>1, <1>2 DEF TaskType
    <2> HIDE DEF t
    <2> QED
      BY <2>1, <2>2
  <1>6. t.i + 1 \in Nat /\ t.i + 1 >= 1
    <2>1. t.i \in Nat
      BY <1>2 DEF TaskType
    <2> HIDE DEF t
    <2> QED
      BY <2>1
  <1>7. CASE st.st # "yes"
    <2>0. BoxTypes'
      BY <1>3, <1>4, <1>7 DEF TxMail, T
    <2> QED
      <3> DEFINE t2 == [t EXCEPT !.i = @ + 1]
      <3>1. Set(s, x, t2) /\ UNCHANGED wire
        BY <1>7 DEF TxMail, T
      <3>2. t2.pc = "send_mail" /\ t2.list = t.list /\ t2.stat = t.stat /\ t2.want = t.want
        BY <1>1, <1>2 DEF Fields
      <3>3. TaskType(t2)
        BY <1>1, <1>2, <1>6 DEF TaskType, Fields, FbbPcs
      <3> HIDE DEF t2
      <3>5. WireAfter(s, x, in, out)
        BY <1>2, <3>1, WireSteps DEF SessionsInv
      <3>6. Both(t2, u, Msgs(in), Msgs(out), bids'[x], bids[Peer(s, x)])
        BY <1>1, <1>2, <1>3, <3>2, SendingNothing
      <3>7. t2.pc # "none" /\ Has(x, t2.list) /\ Reads(in, in)
        BY <1>2, <3>2 DEF Reads
      <3>8. SessionsInv'
        BY <1>1, <1>2, <1>3, <3>1, <3>2, <3>3, <3>5, <3>6, <3>7, Silent
      <3> QED
        BY <2>0, <3>8 DEF ForwardInv
  <1>8. CASE st.st = "yes" /\ mail[x][m] # "live"
    <2>0. BoxTypes'
      BY <1>3, <1>4, <1>8 DEF TxMail, T
    <2> QED
      <3> DEFINE t2 == [t EXCEPT !.pc = "end", !.job = "end"]
      <3>1. Set(s, x, t2) /\ UNCHANGED wire
        BY <1>8 DEF TxMail, T
      <3>2. t2.pc = "end" /\ t2.list = t.list /\ t2.stat = t.stat /\ t2.want = t.want
        BY <1>1, <1>2 DEF Fields
      <3>3. TaskType(t2)
        BY <1>1, <1>2 DEF TaskType, Fields, FbbPcs
      <3> HIDE DEF t2
      <3>5. WireAfter(s, x, in, out)
        BY <1>2, <3>1, WireSteps DEF SessionsInv
      <3>6. Both(t2, u, Msgs(in), Msgs(out), bids'[x], bids[Peer(s, x)])
        BY <1>1, <1>2, <1>3, <3>2, SendingNothing
      <3>7. t2.pc # "none" /\ Has(x, t2.list) /\ Reads(in, in)
        BY <1>2, <3>2 DEF Reads
      <3>8. SessionsInv'
        BY <1>1, <1>2, <1>3, <3>1, <3>2, <3>3, <3>5, <3>6, <3>7, Silent
      <3> QED
        BY <2>0, <3>8 DEF ForwardInv
  <1>9. CASE st.st = "yes" /\ mail[x][m] = "live"
    <2>0. BoxTypes'
      <3>1. prop' = [prop EXCEPT ![x] = @ \cup ({m} \cap Personal)]
        BY <1>9 DEF TxMail, T
      <3> QED
        BY <1>3, <1>4, <3>1
    <2>1. st.off \in Nat /\ text[x][m] \in Wholes
      BY <1>2, <1>4, <1>5, <1>9 DEF BoxTypes, Replies
    <2> QED
      <3> DEFINE f == <<"mail", st.off, text[x][m]>>
               t2 == [t EXCEPT !.i = @ + 1, !.at = m,
                            !.locks = IF t.at \in Personal THEN @ \cup {m} ELSE @]
      <3>1. Set(s, x, t2) /\ Put(s, x, <<f>>)
        BY <1>9 DEF TxMail, T
      <3>2. t2.pc = "send_mail" /\ t2.list = t.list /\ t2.stat = t.stat /\ t2.want = t.want
        BY <1>1, <1>2 DEF Fields
      <3>3. TaskType(t2)
        BY <1>1, <1>2, <1>5, <1>6 DEF TaskType, Fields, FbbPcs
      <3>4. f \in Frames /\ f[1] \notin Weighty
        BY <2>1 DEF Frames, Weighty, TurnKinds
      <3> HIDE DEF t2, f
      <3>5. \/ WireAfter(s, x, in, out \o <<f>>)
           \/ WireAfter(s, x, in, out)
        BY <1>2, <3>1, WireSteps DEF SessionsInv
      <3>6. \A N2 : N2 \subseteq Msgs(out) \cup {f} =>
              Both(t2, u, Msgs(in), N2, bids'[x], bids[Peer(s, x)])
        BY <1>1, <1>2, <1>3, <3>2, <3>4, Sending
      <3>7. t2.pc # "none" /\ Has(x, t2.list) /\ Reads(in, in)
        BY <1>2, <3>2 DEF Reads
      <3>8. SessionsInv'
        BY <1>1, <1>2, <1>3, <3>1, <3>2, <3>3, <3>4, <3>5, <3>6, <3>7, Sends DEF TurnKinds,
           Weighty
      <3> QED
        BY <2>0, <3>8 DEF ForwardInv
  <1> QED
    BY <1>7, <1>8, <1>9

(* An answer is added to those given.                                      *)
AnswerMore(t, t2, m, answer, off, more) ==
    /\ TaskType(t) /\ t.pc \in {"parse", "take"} /\ Len(t.ans) < Len(t.ask)
    /\ answer \in Status /\ off \in Nat /\ more \in Seq(Replies)
    /\ m = t.ask[Len(t.ans) + 1] /\ t2.ans = Append(t.ans, Answer(m, answer, off))
    /\ t2.want = more /\ DOMAIN t2 = Fields /\ t2.pc = "parse"
    /\ t2.list = t.list /\ t2.stat = t.stat /\ t2.ask = t.ask
    /\ t2.i = t.i /\ t2.locks = t.locks

LEMMA OneMore ==
    ASSUME NEW t, NEW t2, NEW m, NEW answer, NEW off, NEW more,
           AnswerMore(t, t2, m, answer, off, more)
    PROVE  /\ TaskType(t2) /\ m \in Mails /\ Answer(m, answer, off) \in Replies
           /\ \A k \in 1 .. Len(t2.ans) :
                 \/ k \in 1 .. Len(t.ans) /\ t2.ans[k] = t.ans[k]
                 \/ t2.ans[k].st = answer /\ t.ask[k] = m
  <1>1. /\ DOMAIN t = Fields /\ t.ans \in Seq(Replies) /\ t.ask \in Seq(Mails)
        /\ t.list \in Seq(Mails) /\ t.i \in Nat /\ t.locks \subseteq Mails
        /\ t.stat \in Seq(Replies) /\ Len(t.stat) = Len(t.list) /\ Len(t.ans) < Len(t.ask)
        /\ answer \in Status /\ off \in Nat /\ more \in Seq(Replies)
    BY DEF AnswerMore, TaskType
  <1> DEFINE a == Answer(m, answer, off)
             ans == t.ans
             b == Append(ans, a)
  <1>2. m \in Mails
    BY <1>1 DEF AnswerMore
  <1>3. a \in Replies /\ a.st = answer
    BY <1>1, <1>2 DEF Answer, Replies
  <1>4. /\ t2.pc = "parse" /\ t2.list = t.list /\ t2.stat = t.stat /\ t2.ask = t.ask
        /\ t2.want = more /\ t2.ans = b /\ t2.i = t.i /\ t2.locks = t.locks
        /\ DOMAIN t2 = Fields /\ m = t.ask[Len(t.ans) + 1]
    BY DEF AnswerMore
  <1>5. /\ ans \in Seq(Replies) /\ Len(ans) \in Nat /\ Len(ans) < Len(t.ask)
    BY <1>1
  <1> HIDE DEF a, ans
  <1>6. /\ b \in Seq(Replies) /\ Len(b) = Len(ans) + 1
        /\ \A k \in 1 .. Len(ans) : b[k] = ans[k]
        /\ b[Len(ans) + 1] = a
    BY <1>3, <1>5
  <1>7. \A k \in 1 .. Len(ans) + 1 : k \in 1 .. Len(ans) \/ k = Len(ans) + 1
    BY <1>5
  <1>8. Len(ans) + 1 <= Len(t.ask)
    BY <1>1, <1>5
  <1> HIDE DEF b
  <1>9. TaskType(t2)
    BY <1>1, <1>4, <1>6, <1>8 DEF TaskType, FbbPcs
  <1>10. \A k \in 1 .. Len(b) : \/ k \in 1 .. Len(ans) /\ b[k] = ans[k]
                                \/ b[k].st = answer /\ t.ask[k] = m
    <2> SUFFICES ASSUME NEW k \in 1 .. Len(b)
                 PROVE  \/ k \in 1 .. Len(ans) /\ b[k] = ans[k]
                        \/ b[k].st = answer /\ t.ask[k] = m
      OBVIOUS
    <2>1. CASE k \in 1 .. Len(ans)
      BY <1>6, <2>1
    <2>2. CASE k = Len(ans) + 1
      <3>1. t.ask[k] = m
        BY <1>4, <2>2 DEF ans
      <3> QED
        BY <1>3, <1>6, <2>2, <3>1
    <2> QED
      BY <1>6, <1>7, <2>1, <2>2
  <1> QED
    BY <1>2, <1>3, <1>4, <1>9, <1>10 DEF a, ans

LEMMA ParseLineKeeps ==
    ASSUME ForwardInv, NEW s \in Sessions, NEW x \in {s[1], s[2]}, ParseLine(s, x)
    PROVE  ForwardInv'
  <1> DEFINE t == end[s][x]
             u == end[s][Peer(s, x)]
             in == wire[s][x]
             out == wire[s][Peer(s, x)]
  <1>1. t.pc = "parse" /\ link[s] # "down"
    BY DEF ParseLine, At, T
  <1>2. /\ SessionsInv /\ TaskType(t) /\ DOMAIN t = Fields /\ TaskType(u)
        /\ x \in Boxes /\ Peer(s, x) \in Boxes /\ Has(x, t.list)
        /\ Both(t, u, Msgs(in), Msgs(out), bids[x], bids[Peer(s, x)])
        /\ in \in Seq(Frames) /\ Msgs(in) \subseteq Frames /\ Msgs(out) \subseteq Frames
    BY Here DEF ForwardInv
  <1> DEFINE m == t.ask[Len(t.ans) + 1]
             st == WantMail(s, x, m)
  <1>3. link' = link /\ KeepsMail
    BY DEF ParseLine, Line, KeepsMail
  <1>4. bids \in [Boxes -> SUBSET Mails] /\ BoxTypes
    BY DEF ForwardInv, BoxTypes
  <1>5. Len(t.ans) < Len(t.ask) /\ t.ask \in Seq(Mails) /\ t.ans \in Seq(Replies)
    BY <1>1, <1>2 DEF ParseLine, T, TaskType
  <1>6. m \in Mails
    <2> HIDE DEF t
    <2> QED
      BY <1>5
  <1>7. st \in Status /\ (st = "no" => m \in bids[x])
    BY DEF WantMail, Status
  <1>8. bids' = IF st = "reject" THEN [bids EXCEPT ![x] = @ \cup {m}] ELSE bids
    BY DEF ParseLine, T, BidsAfter
  <1>9. /\ bids[x] \subseteq bids'[x] /\ bids' \in [Boxes -> SUBSET Mails]
        /\ \A y \in Boxes \ {x} : bids'[y] = bids[y]
        /\ st \in {"no", "reject"} => m \in bids'[x]
    BY <1>2, <1>4, <1>6, <1>7, <1>8
  <1>10. BoxTypes'
    BY <1>4, <1>9 DEF ParseLine, BoxTypes
  <1>11. CASE st = "yes"
    <2> QED
      <3> DEFINE t2 == [t EXCEPT !.pc = "take"]
      <3>1. Set(s, x, t2) /\ UNCHANGED wire
        BY <1>11 DEF ParseLine, T
      <3>2. /\ t2.pc = "take" /\ t2.ask = t.ask /\ t2.ans = t.ans
            /\ t2.list = t.list /\ t2.stat = t.stat /\ t2.want = t.want
        BY <1>2 DEF Fields
      <3>3. TaskType(t2)
        BY <1>1, <1>2, <1>5 DEF TaskType, Fields, FbbPcs
      <3> HIDE DEF t2
      <3>5. WireAfter(s, x, in, out)
        BY <1>2, <3>1, WireSteps DEF SessionsInv
      <3>6. Both(t2, u, Msgs(in), Msgs(out), bids'[x], bids[Peer(s, x)])
        BY <1>1, <1>2, <1>9, <3>2, AnswerLine DEF WantSet
      <3>7. t2.pc # "none" /\ Has(x, t2.list) /\ Reads(in, in)
        BY <1>2, <3>2 DEF Reads
      <3>8. SessionsInv'
        BY <1>1, <1>2, <1>3, <1>9, <3>1, <3>2, <3>3, <3>5, <3>6, <3>7, Silent
      <3> QED
        BY <1>10, <3>8 DEF ForwardInv
  <1>12. CASE st # "yes"
    <2> QED
      <3> DEFINE t2 == [t EXCEPT !.ans = Append(@, Answer(m, st, 0))]
      <3>1. Set(s, x, t2) /\ UNCHANGED wire
        BY <1>12 DEF ParseLine, T
      <3>2. /\ TaskType(t2) /\ t2.pc = "parse" /\ t2.ask = t.ask
            /\ t2.list = t.list /\ t2.stat = t.stat /\ t2.want = t.want
            /\ \A k \in 1 .. Len(t2.ans) :
                  \/ k \in 1 .. Len(t.ans) /\ t2.ans[k] = t.ans[k]
                  \/ t2.ans[k].st = st /\ t.ask[k] = m
        <4>1. /\ DOMAIN t2 = Fields /\ t2.pc = "parse" /\ t2.list = t.list /\ t2.stat = t.stat
              /\ t2.ask = t.ask /\ t2.ans = Append(t.ans, Answer(m, st, 0)) /\ t2.want = t.want
              /\ t2.i = t.i /\ t2.locks = t.locks
          BY <1>1, <1>2 DEF Fields
        <4>2. t.want \in Seq(Replies)
          BY <1>2 DEF TaskType
        <4>3. m = t.ask[Len(t.ans) + 1] /\ 0 \in Nat /\ t.pc \in {"parse", "take"}
          BY <1>1
        <4>4. TaskType(t) /\ Len(t.ans) < Len(t.ask) /\ st \in Status
          BY <1>2, <1>5, <1>7
        <4>5. AnswerMore(t, t2, m, st, 0, t.want)
          BY <4>1, <4>2, <4>3, <4>4 DEF AnswerMore
        <4> HIDE DEF t, t2, m, st
        <4>6. /\ TaskType(t2)
              /\ \A k \in 1 .. Len(t2.ans) :
                    \/ k \in 1 .. Len(t.ans) /\ t2.ans[k] = t.ans[k]
                    \/ t2.ans[k].st = st /\ t.ask[k] = m
          BY <4>5, OneMore
        <4> QED
          BY <4>1, <4>6
      <3>3. TaskType(t2)
        BY <3>2
      <3> HIDE DEF t2
      <3>5. WireAfter(s, x, in, out)
        BY <1>2, <3>1, WireSteps DEF SessionsInv
      <3>6. Both(t2, u, Msgs(in), Msgs(out), bids'[x], bids[Peer(s, x)])
        <4>1. \A k \in 1 .. Len(t2.ans) :
                 \/ k \in 1 .. Len(t.ans) /\ t2.ans[k] = t.ans[k]
                 \/ /\ t2.ans[k].st = "yes" => t.ask[k] \in WantSet(t2)
                    /\ t2.ans[k].st \in {"no", "reject"} => t.ask[k] \in bids'[x]
          <5> HIDE DEF m, st, t
          <5> QED
            BY <1>9, <1>12, <3>2
        <4>2. WantSet(t) \subseteq WantSet(t2) /\ t.pc \in {"parse", "take"} /\ t2.pc \in {"parse", "take"}
          BY <1>1, <3>2 DEF WantSet
        <4> HIDE DEF m, st, t
        <4> QED
          BY <1>2, <1>9, <3>2, <4>1, <4>2, AnswerLine
      <3>7. t2.pc # "none" /\ Has(x, t2.list) /\ Reads(in, in)
        BY <1>2, <3>2 DEF Reads
      <3>8. SessionsInv'
        BY <1>1, <1>2, <1>3, <1>9, <3>1, <3>2, <3>3, <3>5, <3>6, <3>7, Silent
      <3> QED
        BY <1>10, <3>8 DEF ForwardInv
  <1> QED
    BY <1>11, <1>12

LEMMA WantMore ==
    ASSUME NEW t, NEW t2, t.want \in Seq(Replies), NEW a \in Replies,
           t2.want = Append(t.want, a)
    PROVE  WantSet(t2) = WantSet(t) \cup {a.m} /\ t2.want \in Seq(Replies)
  <1> DEFINE w == t.want
             v == Append(w, a)
  <1>1. w \in Seq(Replies)
    OBVIOUS
  <1> HIDE DEF w
  <1>2. /\ v \in Seq(Replies) /\ Len(v) = Len(w) + 1 /\ Len(w) \in Nat
        /\ \A k \in 1 .. Len(w) : v[k] = w[k]
        /\ v[Len(w) + 1] = a
    BY <1>1
  <1> HIDE DEF v
  <1>3. /\ \A k \in 1 .. Len(w) + 1 : k \in 1 .. Len(w) \/ k = Len(w) + 1
        /\ \A k \in 1 .. Len(w) : k \in 1 .. Len(w) + 1
        /\ Len(w) + 1 \in 1 .. Len(w) + 1
    BY <1>2
  <1>4. {v[k].m : k \in 1 .. Len(v)} = {w[k].m : k \in 1 .. Len(w)} \cup {a.m}
    BY <1>2, <1>3
  <1> QED
    BY <1>2, <1>4 DEF WantSet, v, w

LEMMA WantLess ==
    ASSUME NEW t, NEW t2, t.want \in Seq(Replies), t.want # <<>>, t2.want = Tail(t.want)
    PROVE  /\ WantSet(t) \subseteq WantSet(t2) \cup {Head(t.want).m}
           /\ t2.want \in Seq(Replies)
  <1> DEFINE w == t.want
             v == Tail(w)
  <1>1. w \in Seq(Replies) /\ w # <<>>
    OBVIOUS
  <1> HIDE DEF w
  <1>2. /\ v \in Seq(Replies) /\ Len(w) = Len(v) + 1 /\ Len(v) \in Nat
        /\ \A k \in 1 .. Len(v) : v[k] = w[k + 1]
        /\ Head(w) = w[1]
    BY <1>1
  <1> HIDE DEF v
  <1>3. \A k \in 1 .. Len(w) : k = 1 \/ (k - 1 \in 1 .. Len(v) /\ w[k] = v[k - 1])
    <2>1. \A k \in 1 .. Len(w) : k = 1 \/ (k - 1 \in 1 .. Len(v) /\ (k - 1) + 1 = k)
      BY <1>2
    <2> QED
      BY <1>2, <2>1
  <1>4. {w[k].m : k \in 1 .. Len(w)} \subseteq {v[k].m : k \in 1 .. Len(v)} \cup {Head(w).m}
    BY <1>2, <1>3
  <1> QED
    BY <1>2, <1>4 DEF WantSet, v, w

LEMMA TakeLineKeeps ==
    ASSUME ForwardInv, NEW s \in Sessions, NEW x \in {s[1], s[2]}, TakeLine(s, x)
    PROVE  ForwardInv'
  <1> DEFINE t == end[s][x]
             u == end[s][Peer(s, x)]
             in == wire[s][x]
             out == wire[s][Peer(s, x)]
  <1>1. t.pc = "take" /\ link[s] # "down"
    BY DEF TakeLine, At, T
  <1>2. /\ SessionsInv /\ TaskType(t) /\ DOMAIN t = Fields /\ TaskType(u)
        /\ x \in Boxes /\ Peer(s, x) \in Boxes /\ Has(x, t.list)
        /\ Both(t, u, Msgs(in), Msgs(out), bids[x], bids[Peer(s, x)])
        /\ in \in Seq(Frames) /\ Msgs(in) \subseteq Frames /\ Msgs(out) \subseteq Frames
    BY Here DEF ForwardInv
  <1> DEFINE m == t.ask[Len(t.ans) + 1]
             off == ResumeAt(frag[x][Peer(s, x)][m])
  <1>3. link' = link /\ bids' = bids /\ KeepsMail
    BY DEF TakeLine, Line, KeepsMail
  <1>4. BoxTypes
    BY DEF ForwardInv
  <1>5. Len(t.ans) < Len(t.ask) /\ t.ask \in Seq(Mails) /\ t.ans \in Seq(Replies)
        /\ t.want \in Seq(Replies)
    BY <1>1, <1>2 DEF TaskType
  <1>6. m \in Mails
    <2> HIDE DEF t
    <2> QED
      BY <1>5
  <1>7. off \in Nat
    <2>1. frag[x][Peer(s, x)][m] \in Seq(Bits)
      <3>1. frag \in [Boxes -> [Boxes -> [Mails -> Seq(Bits)]]]
        BY <1>4 DEF BoxTypes
      <3> HIDE DEF m
      <3> QED
        BY <1>2, <1>6, <3>1
    <2> HIDE DEF m
    <2> QED
      BY <2>1 DEF ResumeAt
  <1>8. UNCHANGED <<mail, text, prop, bids, queue>>
    BY DEF TakeLine
  <1>11. CASE TmpBidVorhanden(s, x, m)
    <2>0. BoxTypes'
      BY <1>4, <1>8, <1>11 DEF TakeLine, T, BoxTypes
    <2> QED
      <3> DEFINE t2 == [t EXCEPT !.pc = "parse", !.ans = Append(@, Answer(m, "later", 0))]
      <3>1. Set(s, x, t2) /\ UNCHANGED wire
        BY <1>11 DEF TakeLine, T
      <3>2. /\ TaskType(t2) /\ t2.pc = "parse" /\ t2.ask = t.ask
            /\ t2.list = t.list /\ t2.stat = t.stat /\ t2.want = t.want
            /\ \A k \in 1 .. Len(t2.ans) :
                  \/ k \in 1 .. Len(t.ans) /\ t2.ans[k] = t.ans[k]
                  \/ t2.ans[k].st = "later" /\ t.ask[k] = m
        <4>1. /\ DOMAIN t2 = Fields /\ t2.pc = "parse" /\ t2.list = t.list /\ t2.stat = t.stat
              /\ t2.ask = t.ask /\ t2.ans = Append(t.ans, Answer(m, "later", 0)) /\ t2.want = t.want
              /\ t2.i = t.i /\ t2.locks = t.locks
          BY <1>1, <1>2 DEF Fields
        <4>2. t.want \in Seq(Replies) /\ "later" \in Status
          BY <1>5 DEF Status
        <4>3. m = t.ask[Len(t.ans) + 1] /\ 0 \in Nat /\ t.pc \in {"parse", "take"}
          BY <1>1, <1>7
        <4>4. TaskType(t) /\ Len(t.ans) < Len(t.ask)
          BY <1>2, <1>5
        <4>5. AnswerMore(t, t2, m, "later", 0, t.want)
          BY <4>1, <4>2, <4>3, <4>4 DEF AnswerMore
        <4> HIDE DEF t, t2, m, off
        <4>6. /\ TaskType(t2)
              /\ \A k \in 1 .. Len(t2.ans) :
                    \/ k \in 1 .. Len(t.ans) /\ t2.ans[k] = t.ans[k]
                    \/ t2.ans[k].st = "later" /\ t.ask[k] = m
          BY <4>5, OneMore
        <4> QED
          BY <4>1, <4>6
      <3>3. TaskType(t2)
        BY <3>2
      <3> HIDE DEF t2
      <3>5. WireAfter(s, x, in, out)
        BY <1>2, <3>1, WireSteps DEF SessionsInv
      <3>6. Both(t2, u, Msgs(in), Msgs(out), bids'[x], bids[Peer(s, x)])
        <4>1. \A k \in 1 .. Len(t2.ans) :
                 \/ k \in 1 .. Len(t.ans) /\ t2.ans[k] = t.ans[k]
                 \/ /\ t2.ans[k].st = "yes" => t.ask[k] \in WantSet(t2)
                    /\ t2.ans[k].st \in {"no", "reject"} => t.ask[k] \in bids'[x]
          <5> HIDE DEF m, t
          <5> QED
            BY <3>2
        <4>2. WantSet(t) \subseteq WantSet(t2) /\ t.pc \in {"parse", "take"} /\ t2.pc \in {"parse", "take"}
          BY <1>1, <3>2 DEF WantSet
        <4> HIDE DEF m, t
        <4> QED
          BY <1>2, <1>3, <3>2, <4>1, <4>2, AnswerLine
      <3>7. t2.pc # "none" /\ Has(x, t2.list) /\ Reads(in, in)
        BY <1>2, <3>2 DEF Reads
      <3>8. SessionsInv'
        BY <1>1, <1>2, <1>3, <3>1, <3>2, <3>3, <3>5, <3>6, <3>7, Silent
      <3> QED
        BY <2>0, <3>8 DEF ForwardInv
  <1>12. CASE ~TmpBidVorhanden(s, x, m)
    <2>0. BoxTypes'
      <3>1. frag' \in {frag, [frag EXCEPT ![x][Peer(s, x)][m] = <<>>]}
        BY <1>12 DEF TakeLine, T
      <3>2. frag \in [Boxes -> [Boxes -> [Mails -> Seq(Bits)]]] /\ <<>> \in Seq(Bits)
        BY <1>4 DEF BoxTypes
      <3>3. frag' \in [Boxes -> [Boxes -> [Mails -> Seq(Bits)]]]
        <4> HIDE DEF m
        <4>1. frag[x] \in [Boxes -> [Mails -> Seq(Bits)]]
          BY <1>2, <3>2
        <4>2. frag[x][Peer(s, x)] \in [Mails -> Seq(Bits)]
          BY <1>2, <4>1
        <4>3. CASE frag' = [frag EXCEPT ![x][Peer(s, x)][m] = <<>>]
          BY <1>2, <1>6, <3>2, <4>1, <4>2, <4>3
        <4> QED
          BY <3>1, <3>2, <4>3
      <3> QED
        BY <1>4, <1>8, <3>3 DEF BoxTypes
    <2> DEFINE a == Answer(m, "yes", off)
               want == Append(t.want, a)
    <2>1. a \in Replies /\ a.m = m /\ want \in Seq(Replies)
      <3>1. a \in Replies /\ a.m = m
        BY <1>6, <1>7 DEF Answer, Replies, Status
      <3> HIDE DEF a
      <3> QED
        BY <1>5, <3>1
    <2>2. want = Append(t.want, a)
      OBVIOUS
    <2>3. a = Answer(m, "yes", off)
      OBVIOUS
    <2> HIDE DEF want, a
    <2> QED
      <3> DEFINE t2 == [t EXCEPT !.pc = "parse", !.ans = Append(@, a), !.want = Append(@, a)]
      <3>1. Set(s, x, t2) /\ UNCHANGED wire
        BY <1>12 DEF TakeLine, T, want, a
      <3>2. /\ TaskType(t2) /\ t2.pc = "parse" /\ t2.ask = t.ask
            /\ t2.list = t.list /\ t2.stat = t.stat /\ t2.want = want
            /\ \A k \in 1 .. Len(t2.ans) :
                  \/ k \in 1 .. Len(t.ans) /\ t2.ans[k] = t.ans[k]
                  \/ t2.ans[k].st = "yes" /\ t.ask[k] = m
        <4>1. /\ DOMAIN t2 = Fields /\ t2.pc = "parse" /\ t2.list = t.list /\ t2.stat = t.stat
              /\ t2.ask = t.ask /\ t2.ans = Append(t.ans, Answer(m, "yes", off)) /\ t2.want = want
              /\ t2.i = t.i /\ t2.locks = t.locks
          BY <1>1, <1>2, <2>2, <2>3 DEF Fields
        <4>2. want \in Seq(Replies) /\ "yes" \in Status
          BY <2>1 DEF Status
        <4>3. m = t.ask[Len(t.ans) + 1] /\ off \in Nat /\ t.pc \in {"parse", "take"}
          BY <1>1, <1>7
        <4>4. TaskType(t) /\ Len(t.ans) < Len(t.ask)
          BY <1>2, <1>5
        <4>5. AnswerMore(t, t2, m, "yes", off, want)
          BY <4>1, <4>2, <4>3, <4>4 DEF AnswerMore
        <4> HIDE DEF t, t2, m, off
        <4>6. /\ TaskType(t2)
              /\ \A k \in 1 .. Len(t2.ans) :
                    \/ k \in 1 .. Len(t.ans) /\ t2.ans[k] = t.ans[k]
                    \/ t2.ans[k].st = "yes" /\ t.ask[k] = m
          BY <4>5, OneMore
        <4> QED
          BY <4>1, <4>6
      <3>3. TaskType(t2)
        BY <3>2
      <3> HIDE DEF t2
      <3>5. WireAfter(s, x, in, out)
        BY <1>2, <3>1, WireSteps DEF SessionsInv
      <3>6. Both(t2, u, Msgs(in), Msgs(out), bids'[x], bids[Peer(s, x)])
        <4>1. WantSet(t2) = WantSet(t) \cup {m}
          <5>1. t.want \in Seq(Replies) /\ a \in Replies /\ a.m = m /\ t2.want = Append(t.want, a)
            BY <1>5, <2>1, <2>2, <3>2
          <5> HIDE DEF m, t
          <5>2. WantSet(t2) = WantSet(t) \cup {a.m}
            BY ONLY <5>1, WantMore
          <5> QED
            BY <5>1, <5>2
        <4>2. \A k \in 1 .. Len(t2.ans) :
                 \/ k \in 1 .. Len(t.ans) /\ t2.ans[k] = t.ans[k]
                 \/ /\ t2.ans[k].st = "yes" => t.ask[k] \in WantSet(t2)
                    /\ t2.ans[k].st \in {"no", "reject"} => t.ask[k] \in bids'[x]
          <5> HIDE DEF m, t
          <5> QED
            BY <3>2, <4>1
        <4>3. WantSet(t) \subseteq WantSet(t2) /\ t.pc \in {"parse", "take"} /\ t2.pc \in {"parse", "take"}
          BY <1>1, <3>2, <4>1
        <4> HIDE DEF m, t
        <4> QED
          BY <1>2, <1>3, <3>2, <4>2, <4>3, AnswerLine
      <3>7. t2.pc # "none" /\ Has(x, t2.list) /\ Reads(in, in)
        BY <1>2, <3>2 DEF Reads
      <3>8. SessionsInv'
        BY <1>1, <1>2, <1>3, <3>1, <3>2, <3>3, <3>5, <3>6, <3>7, Silent
      <3> QED
        BY <2>0, <3>8 DEF ForwardInv
  <1> QED
    BY <1>11, <1>12

LEMMA EraseForwardedKeeps ==
    ASSUME ForwardInv, NEW s \in Sessions, NEW x \in {s[1], s[2]}, EraseForwarded(s, x)
    PROVE  ForwardInv'
  <1> DEFINE t == end[s][x]
             u == end[s][Peer(s, x)]
             in == wire[s][x]
             out == wire[s][Peer(s, x)]
  <1>1. t.pc = "erase" /\ link[s] # "down"
    BY DEF EraseForwarded, At, T
  <1>2. /\ SessionsInv /\ TaskType(t) /\ DOMAIN t = Fields /\ TaskType(u)
        /\ x \in Boxes /\ Peer(s, x) \in Boxes /\ Has(x, t.list)
        /\ Both(t, u, Msgs(in), Msgs(out), bids[x], bids[Peer(s, x)])
        /\ in \in Seq(Frames) /\ Msgs(in) \subseteq Frames /\ Msgs(out) \subseteq Frames
    BY Here DEF ForwardInv
  <1> DEFINE m == t.list[t.i]
             st == t.stat[t.i].st
  <1>3. link' = link /\ bids' = bids /\ BoxTypes
    BY DEF EraseForwarded, Line, ForwardInv
  <1>4. m \in Mails /\ mail[x][m] # "none"
    <2>1. t.i \in 1 .. Len(t.list) /\ t.list \in Seq(Mails)
      <3>1. t.i \in Nat /\ t.i >= 1 /\ t.list \in Seq(Mails)
        BY <1>1, <1>2 DEF TaskType
      <3>2. t.i <= Len(t.list)
        BY DEF EraseForwarded, T
      <3> HIDE DEF t
      <3> QED
        BY <3>1, <3>2
    <2> HIDE DEF t
    <2> QED
      BY <1>2, <2>1 DEF Has
  <1>5. /\ mail' \in [Boxes -> [Mails -> {"none", "live", "fwd", "user"}]] /\ KeepsMail
        /\ \A y \in Boxes, n \in Mails : mail'[y][n] # "none" => mail[y][n] # "none"
    <2>1. FwdProcReply(x, m, st)
      BY DEF EraseForwarded, T
    <2> HIDE DEF m, st
    <2> QED
      BY <1>2, <1>3, <1>4, <2>1, ReplyTypes
  <1>6. queue' \in [Boxes -> [Boxes -> Seq(Mails)]]
    <2>1. UNCHANGED queue \/ DelFwdListEntry(x, Peer(s, x), m)
      BY DEF EraseForwarded, T
    <2> HIDE DEF m
    <2> QED
      BY <1>2, <1>3, <2>1, DelTypes DEF BoxTypes
  <1>7. BoxTypes'
    <2>1. UNCHANGED <<text, prop, bids, frag>>
      BY DEF EraseForwarded
    <2> QED
      BY <1>3, <1>5, <1>6, <2>1 DEF BoxTypes
  <1>8. t.i + 1 \in Nat /\ t.i + 1 >= 1
    <2>1. t.i \in Nat
      BY <1>2 DEF TaskType
    <2> HIDE DEF t
    <2> QED
      BY <2>1
  <1> QED
    <2> DEFINE t2 == [t EXCEPT !.i = @ + 1, !.locks = @ \ {m}]
    <2>1. Set(s, x, t2) /\ UNCHANGED wire
      BY DEF EraseForwarded, T
    <2>2. /\ t2.pc = "erase" /\ t2.list = t.list /\ t2.stat = t.stat /\ t2.want = t.want
          /\ t2.next = t.next
      BY <1>1, <1>2 DEF Fields
    <2>3. TaskType(t2)
      BY <1>1, <1>2, <1>4, <1>8 DEF TaskType, Fields, FbbPcs
    <2> HIDE DEF t2
    <2>5. WireAfter(s, x, in, out)
      BY <1>2, <2>1, WireSteps DEF SessionsInv
    <2>6. Both(t2, u, Msgs(in), Msgs(out), bids'[x], bids[Peer(s, x)])
      <3>1. Wanting(t2, bids[x]) /\ WantSet(t) \subseteq WantSet(t2) \cup bids[x]
        BY <1>1, <1>2, <2>2 DEF Both, Half, Wanting, WantSet
      <3> QED
        BY <1>1, <1>2, <1>3, <2>2, <3>1, InTurn DEF TurnPcs
    <2>7. t2.pc # "none" /\ Has(x, t2.list) /\ Reads(in, in)
      BY <1>2, <2>2 DEF Reads
    <2>8. SessionsInv'
      BY <1>1, <1>2, <1>3, <1>5, <2>1, <2>2, <2>3, <2>5, <2>6, <2>7, Silent
    <2> QED
      BY <1>7, <2>8 DEF ForwardInv

LEMMA RxSaveKeeps ==
    ASSUME ForwardInv, NEW s \in Sessions, NEW x \in {s[1], s[2]}, RxSave(s, x)
    PROVE  ForwardInv'
  <1> DEFINE t == end[s][x]
             u == end[s][Peer(s, x)]
             in == wire[s][x]
             out == wire[s][Peer(s, x)]
  <1>1. t.pc = "save" /\ link[s] # "down"
    BY DEF RxSave, At, T
  <1>2. /\ SessionsInv /\ TaskType(t) /\ DOMAIN t = Fields /\ TaskType(u)
        /\ x \in Boxes /\ Peer(s, x) \in Boxes /\ Has(x, t.list)
        /\ Both(t, u, Msgs(in), Msgs(out), bids[x], bids[Peer(s, x)])
        /\ in \in Seq(Frames) /\ Msgs(in) \subseteq Frames /\ Msgs(out) \subseteq Frames
    BY Here DEF ForwardInv
  <1> DEFINE m == Head(t.want).m
  <1>3. link' = link
    BY DEF RxSave, Line
  <1>4. t.got \in Wholes /\ t.want \in Seq(Replies) /\ t.want # <<>>
    BY <1>1, <1>2 DEF TaskType
  <1>5. m \in Mails
    <2>1. Head(t.want) \in Replies
      BY <1>4
    <2> QED
      BY <2>1 DEF Replies
  <1>6. BoxTypes' /\ KeepsMail /\ bids' = [bids EXCEPT ![x] = @ \cup {m}]
    <2>1. SaveMail(x, m, t.got) /\ UNCHANGED <<queue, frag>>
      BY DEF RxSave, T
    <2> HIDE DEF m
    <2> QED
      BY <1>2, <1>4, <1>5, <2>1, SaveTypes DEF ForwardInv
  <1>7. /\ bids[x] \subseteq bids'[x] /\ m \in bids'[x]
        /\ \A y \in Boxes \ {x} : bids'[y] = bids[y]
    <2>1. bids \in [Boxes -> SUBSET Mails]
      BY DEF ForwardInv, BoxTypes
    <2> HIDE DEF m
    <2> QED
      BY <1>2, <1>6, <2>1
  <1> QED
    <2> DEFINE t2 == [t EXCEPT !.pc = "queue", !.got = <<>>, !.i = 0]
    <2>1. Set(s, x, t2) /\ UNCHANGED wire
      BY DEF RxSave, T
    <2>2. t2.pc = "queue" /\ t2.list = t.list /\ t2.want = t.want
      BY <1>2 DEF Fields
    <2>3. TaskType(t2)
      BY <1>1, <1>2, <1>4 DEF TaskType, Fields, FbbPcs
    <2> HIDE DEF t2
    <2>5. WireAfter(s, x, in, out)
      BY <1>2, <2>1, WireSteps DEF SessionsInv
    <2>6. Both(t2, u, Msgs(in), Msgs(out), bids'[x], bids[Peer(s, x)])
      <3>1. Wanting(t2, bids'[x]) /\ WantSet(t) \subseteq WantSet(t2) \cup bids'[x]
        BY <1>7, <2>2 DEF Wanting, WantSet
      <3> QED
        BY <1>1, <1>2, <1>7, <2>2, <3>1, InTurn DEF TurnPcs
    <2>7. t2.pc # "none" /\ Has(x, t2.list) /\ Reads(in, in)
      BY <1>2, <2>2 DEF Reads
    <2>8. SessionsInv'
      BY <1>1, <1>2, <1>3, <1>6, <1>7, <2>1, <2>2, <2>3, <2>5, <2>6, <2>7, Silent
    <2> QED
      BY <1>6, <2>8 DEF ForwardInv

LEMMA RxQueueKeeps ==
    ASSUME ForwardInv, NEW s \in Sessions, NEW x \in {s[1], s[2]}, RxQueue(s, x)
    PROVE  ForwardInv'
  <1> DEFINE t == end[s][x]
             u == end[s][Peer(s, x)]
             in == wire[s][x]
             out == wire[s][Peer(s, x)]
  <1>1. t.pc = "queue" /\ link[s] # "down"
    BY DEF RxQueue, At, T
  <1>2. /\ SessionsInv /\ TaskType(t) /\ DOMAIN t = Fields /\ TaskType(u)
        /\ x \in Boxes /\ Peer(s, x) \in Boxes /\ Has(x, t.list)
        /\ Both(t, u, Msgs(in), Msgs(out), bids[x], bids[Peer(s, x)])
        /\ in \in Seq(Frames) /\ Msgs(in) \subseteq Frames /\ Msgs(out) \subseteq Frames
    BY Here DEF ForwardInv
  <1> DEFINE m == Head(t.want).m
  <1>3. link' = link /\ bids' = bids /\ KeepsMail
    BY DEF RxQueue, Line, KeepsMail
  <1>4. t.want \in Seq(Replies) /\ t.want # <<>>
    BY <1>1, <1>2 DEF TaskType
  <1>5. m \in Mails /\ m \in bids[x]
    <2>1. Head(t.want) \in Replies
      BY <1>4
    <2> QED
      BY <1>1, <1>2, <2>1 DEF Replies, Both, Half, Wanting
  <1>6. BoxTypes'
    <2>1. AddFwdFile(x, m, Peer(s, x)) /\ UNCHANGED <<mail, text, prop, bids, frag>>
      BY DEF RxQueue, T
    <2>2. queue' \in [Boxes -> [Boxes -> Seq(Mails)]]
      <3> HIDE DEF m
      <3> QED
        BY <1>2, <1>5, <2>1, AddTypes DEF ForwardInv
    <2> QED
      BY <2>1, <2>2 DEF BoxTypes, ForwardInv
  <1> QED
    <2> DEFINE t2 == [t EXCEPT !.pc = "recv_mail", !.want = Tail(@)]
    <2>1. Set(s, x, t2) /\ UNCHANGED wire
      BY DEF RxQueue, T
    <2>2. /\ t2.pc = "recv_mail" /\ t2.list = t.list /\ t2.want = Tail(t.want)
          /\ t2.ask = t.ask /\ t2.ans = t.ans /\ t2.i = t.i /\ t2.locks = t.locks
          /\ DOMAIN t2 = Fields
      BY <1>2 DEF Fields
    <2>3. TaskType(t2)
      <3>1. t2.want \in Seq(Replies)
        BY <1>4, <2>2
      <3>2. /\ t.list \in Seq(Mails) /\ t.ask \in Seq(Mails) /\ t.ans \in Seq(Replies)
            /\ t.i \in Nat /\ t.locks \subseteq Mails
        BY <1>2 DEF TaskType
      <3> HIDE DEF t, t2
      <3> QED
        BY <2>2, <3>1, <3>2 DEF TaskType, FbbPcs
    <2> HIDE DEF t2
    <2>5. WireAfter(s, x, in, out)
      BY <1>2, <2>1, WireSteps DEF SessionsInv
    <2>6. Both(t2, u, Msgs(in), Msgs(out), bids'[x], bids[Peer(s, x)])
      <3>1. WantSet(t) \subseteq WantSet(t2) \cup {m}
        BY <1>4, <2>2, WantLess
      <3>2. Wanting(t2, bids[x]) /\ WantSet(t) \subseteq WantSet(t2) \cup bids[x]
        BY <1>5, <2>2, <3>1 DEF Wanting
      <3> QED
        BY <1>1, <1>2, <1>3, <2>2, <3>2, InTurn DEF TurnPcs
    <2>7. t2.pc # "none" /\ Has(x, t2.list) /\ Reads(in, in)
      BY <1>2, <2>2 DEF Reads
    <2>8. SessionsInv'
      BY <1>1, <1>2, <1>3, <2>1, <2>2, <2>3, <2>5, <2>6, <2>7, Silent
    <2> QED
      BY <1>6, <2>8 DEF ForwardInv

LEMMA RxDataKeeps ==
    ASSUME ForwardInv, NEW s \in Sessions, NEW x \in {s[1], s[2]}, RxData(s, x)
    PROVE  ForwardInv'
  <1> DEFINE t == end[s][x]
             u == end[s][Peer(s, x)]
             in == wire[s][x]
             out == wire[s][Peer(s, x)]
  <1>1. t.pc = "recv_data" /\ link[s] # "down"
    BY DEF RxData, At, T
  <1>2. /\ SessionsInv /\ TaskType(t) /\ DOMAIN t = Fields /\ TaskType(u)
        /\ x \in Boxes /\ Peer(s, x) \in Boxes /\ Has(x, t.list)
        /\ Both(t, u, Msgs(in), Msgs(out), bids[x], bids[Peer(s, x)])
        /\ in \in Seq(Frames) /\ Msgs(in) \subseteq Frames /\ Msgs(out) \subseteq Frames
    BY Here DEF ForwardInv
  <1> DEFINE h == Head(in)
             m == Head(t.want).m
             new == h[3]
             k == t.i + 1
             old == frag[x][Peer(s, x)][m]
  <1>3. link' = link /\ bids' = bids /\ KeepsMail /\ UNCHANGED <<mail, text, prop, bids, queue>>
    BY DEF RxData, Line, KeepsMail
  <1>4. t.want \in Seq(Replies) /\ t.want # <<>> /\ t.i \in Nat
    BY <1>1, <1>2 DEF TaskType
  <1>5. m \in Mails
    <2>1. Head(t.want) \in Replies
      BY <1>4
    <2> QED
      BY <2>1 DEF Replies
  <1>6. in # <<>> /\ h[1] = "mail" /\ new \in Wholes /\ Msgs(Tail(in)) \subseteq Msgs(in)
    <2>1. in # <<>> /\ h[1] = "mail"
      BY DEF RxData, Arrived
    <2> QED
      BY <1>2, <2>1, TakenOff, StatusFrame
  <1>7. new \in Seq(Bits)
    BY <1>6, WholeText
  <1>8. BoxTypes /\ frag \in [Boxes -> [Boxes -> [Mails -> Seq(Bits)]]]
    BY DEF ForwardInv, BoxTypes
  <1>9. frag[x] \in [Boxes -> [Mails -> Seq(Bits)]] /\ frag[x][Peer(s, x)] \in [Mails -> Seq(Bits)]
    BY <1>2, <1>8
  <1>10. ASSUME NEW v \in Seq(Bits), frag' = [frag EXCEPT ![x][Peer(s, x)][m] = v]
         PROVE  BoxTypes'
    <2>1. frag' \in [Boxes -> [Boxes -> [Mails -> Seq(Bits)]]]
      <3> HIDE DEF m
      <3> QED
        BY <1>2, <1>5, <1>8, <1>9, <1>10
    <2> QED
      BY <1>3, <1>8, <2>1 DEF BoxTypes
  <1>11. CASE k <= Len(new)
    <2>0. BoxTypes'
      <3> DEFINE v == IF k <= Len(old) THEN [old EXCEPT ![k] = new[k]] ELSE Append(old, new[k])
      <3>1. frag' = [frag EXCEPT ![x][Peer(s, x)][m] = v]
        BY <1>11 DEF RxData, T
      <3>2. old \in Seq(Bits)
        <4> HIDE DEF m
        <4> QED
          BY <1>5, <1>9
      <3>3. v \in Seq(Bits)
        <4>1. k \in Nat /\ k >= 1 /\ new[k] \in Bits
          <5>1. k \in Nat /\ k >= 1
            <6> HIDE DEF t
            <6> QED
              BY <1>4
          <5> HIDE DEF k, new
          <5> QED
            BY <1>7, <1>11, <5>1
        <4> HIDE DEF k, new, old
        <4> QED
          BY <3>2, <4>1
      <3> HIDE DEF v
      <3> QED
        BY <1>10, <3>1, <3>3
    <2>1. k \in Nat
      <3> HIDE DEF t
      <3> QED
        BY <1>4
    <2> QED
      <3> DEFINE t2 == [t EXCEPT !.i = k, !.got = Append(@, new[k])]
      <3>1. Set(s, x, t2) /\ UNCHANGED wire
        BY <1>11 DEF RxData, T
      <3>2. /\ t2.pc = "recv_data" /\ t2.list = t.list /\ t2.want = t.want
            /\ t2.stat = t.stat /\ t2.next = t.next
        BY <1>1, <1>2 DEF Fields
      <3>3. TaskType(t2)
        BY <1>1, <1>2, <1>4, <2>1 DEF TaskType, Fields, FbbPcs
      <3> HIDE DEF t2
      <3>5. WireAfter(s, x, in, out)
        BY <1>2, <3>1, WireSteps DEF SessionsInv
      <3>6. Both(t2, u, Msgs(in), Msgs(out), bids'[x], bids[Peer(s, x)])
        <4>1. Wanting(t2, bids[x]) /\ WantSet(t) \subseteq WantSet(t2) \cup bids[x]
          BY <1>1, <3>2 DEF Wanting, WantSet
        <4> QED
          BY <1>1, <1>2, <1>3, <3>2, <4>1, InTurn DEF TurnPcs
      <3>7. t2.pc # "none" /\ Has(x, t2.list) /\ Reads(in, in)
        BY <1>2, <3>2 DEF Reads
      <3>8. SessionsInv'
        BY <1>1, <1>2, <1>3, <3>1, <3>2, <3>3, <3>5, <3>6, <3>7, Silent
      <3> QED
        BY <2>0, <3>8 DEF ForwardInv
  <1>12. CASE ~(k <= Len(new))
    <2>0. BoxTypes'
      <3>1. frag' = [frag EXCEPT ![x][Peer(s, x)][m] = <<>>] /\ <<>> \in Seq(Bits)
        BY <1>12 DEF RxData, T
      <3> QED
        BY <1>10, <3>1
    <2> QED
      <3> DEFINE t2 == RxEnd(t, new)
      <3>1. Set(s, x, t2) /\ Take(s, x)
        BY <1>12 DEF RxData, T
      <3>2. /\ t2.pc \in {"save", "end"} /\ t2.list = t.list /\ t2.want = t.want
            /\ t2.stat = t.stat /\ t2.next = t.next
        BY <1>1, <1>2 DEF RxEnd, Fields
      <3>3. TaskType(t2)
        BY <1>1, <1>2, <1>4, <1>6 DEF RxEnd, TaskType, Fields, FbbPcs
      <3> HIDE DEF t2
      <3>5. WireAfter(s, x, Tail(in), out)
        BY <1>2, <3>1, WireSteps DEF SessionsInv
      <3>6. Both(t2, u, Msgs(Tail(in)), Msgs(out), bids'[x], bids[Peer(s, x)])
        <4>1. Wanting(t2, bids[x]) /\ WantSet(t) \subseteq WantSet(t2) \cup bids[x]
          BY <1>1, <3>2 DEF Wanting, WantSet
        <4> QED
          BY <1>1, <1>2, <1>3, <1>6, <3>2, <4>1, InTurn DEF TurnPcs
      <3>7. t2.pc # "none" /\ Has(x, t2.list) /\ Reads(in, Tail(in))
        BY <1>2, <1>6, <3>2 DEF Reads
      <3>8. SessionsInv'
        BY <1>1, <1>2, <1>3, <3>1, <3>2, <3>3, <3>5, <3>6, <3>7, Silent
      <3> QED
        BY <2>0, <3>8 DEF ForwardInv
  <1> QED
    BY <1>11, <1>12

-----------------------------------------------------------------------------
(* The steps of the ASCII protocol.                                        *)

LEMMA APr2Keeps ==
    ASSUME ForwardInv, NEW s \in Sessions, NEW x \in {s[1], s[2]}, APr2(s, x)
    PROVE  ForwardInv'
  <1> DEFINE t == end[s][x]
             u == end[s][Peer(s, x)]
             in == wire[s][x]
             out == wire[s][Peer(s, x)]
  <1>1. t.pc = "a_pr2" /\ link[s] # "down"
    BY DEF APr2, At, T
  <1>2. /\ SessionsInv /\ TaskType(t) /\ DOMAIN t = Fields /\ TaskType(u)
        /\ x \in Boxes /\ Peer(s, x) \in Boxes /\ Has(x, t.list)
        /\ Both(t, u, Msgs(in), Msgs(out), bids[x], bids[Peer(s, x)])
        /\ in \in Seq(Frames) /\ Msgs(in) \subseteq Frames /\ Msgs(out) \subseteq Frames
    BY Here DEF ForwardInv
  <1>3. BoxTypes' /\ KeepsMail /\ link' = link /\ bids' = bids
    BY BoxSame DEF APr2, ForwardInv
  <1>4. in # <<>> /\ Head(in)[1] \in {">"}
    BY DEF APr2, Arrived
  <1>5. Head(in) \in Frames /\ Msgs(Tail(in)) \subseteq Msgs(in)
    BY <1>2, <1>4, TakenOff
  <1> QED
    <2> DEFINE t2 == [t EXCEPT !.pc = "a_send", !.job = "fwdsend"]
    <2>1. Set(s, x, t2) /\ Take(s, x)
      BY DEF APr2, T
    <2>2. t2.pc = "a_send" /\ t2.list = t.list /\ t2.want = t.want
      BY <1>1, <1>2 DEF Fields
    <2>3. TaskType(t2)
      BY <1>1, <1>2 DEF TaskType, Fields, AsciiPcs
    <2> HIDE DEF t2
    <2>5. WireAfter(s, x, Tail(in), out)
      BY <1>2, <2>1, WireSteps DEF SessionsInv
    <2>6. Both(t2, u, Msgs(Tail(in)), Msgs(out), bids'[x], bids[Peer(s, x)])
      <3>1. Wanting(t2, bids'[x]) /\ t.pc \in AsciiPcs /\ t2.pc \in AsciiPcs \cup {"end"}
        BY <1>1, <1>2, <2>2 DEF Both, Half, Wanting, AsciiPcs
      <3> QED
        BY <1>1, <1>2, <1>3, <1>5, <2>2, <3>1, AsciiQuiet
    <2>7. t2.pc # "none" /\ Has(x, t2.list) /\ Reads(in, Tail(in))
      BY <1>2, <1>4, <2>2 DEF Reads
    <2>8. SessionsInv'
      BY <1>1, <1>2, <1>3, <2>1, <2>2, <2>3, <2>5, <2>6, <2>7, Silent
    <2> QED
      BY <1>3, <2>8 DEF ForwardInv

LEMMA ASendKeeps ==
    ASSUME ForwardInv, NEW s \in Sessions, NEW x \in {s[1], s[2]}, ASend(s, x)
    PROVE  ForwardInv'
  <1> DEFINE t == end[s][x]
             u == end[s][Peer(s, x)]
             in == wire[s][x]
             out == wire[s][Peer(s, x)]
  <1>1. t.pc = "a_send" /\ link[s] # "down"
    BY DEF ASend, At, T
  <1>2. /\ SessionsInv /\ TaskType(t) /\ DOMAIN t = Fields /\ TaskType(u)
        /\ x \in Boxes /\ Peer(s, x) \in Boxes /\ Has(x, t.list)
        /\ Both(t, u, Msgs(in), Msgs(out), bids[x], bids[Peer(s, x)])
        /\ in \in Seq(Frames) /\ Msgs(in) \subseteq Frames /\ Msgs(out) \subseteq Frames
    BY Here DEF ForwardInv
  <1>3. BoxTypes' /\ KeepsMail /\ link' = link /\ bids' = bids
    BY BoxSame DEF ASend, ForwardInv
  <1> DEFINE due == GetFwdListEntry(x, Peer(s, x), 1)
  <1>4. due \in Seq(Mails) /\ Has(x, due)
    BY <1>2, Entries DEF ForwardInv
  <1>5. CASE AnotherFwdSender(s, x)
    <2> QED
      <3> DEFINE t2 == [t EXCEPT !.pc = "end", !.job = "end"]
      <3>1. Set(s, x, t2) /\ UNCHANGED wire
        BY <1>5 DEF ASend, T
      <3>2. t2.pc = "end" /\ t2.list = t.list /\ t2.want = t.want
        BY <1>1, <1>2 DEF Fields
      <3>3. TaskType(t2)
        BY <1>1, <1>2 DEF TaskType, Fields, AsciiPcs
      <3> HIDE DEF t2
      <3>5. WireAfter(s, x, in, out)
        BY <1>2, <3>1, WireSteps DEF SessionsInv
      <3>6. Both(t2, u, Msgs(in), Msgs(out), bids'[x], bids[Peer(s, x)])
        <4>1. Wanting(t2, bids'[x]) /\ t.pc \in AsciiPcs /\ t2.pc \in AsciiPcs \cup {"end"}
          BY <1>1, <1>2, <3>2 DEF Both, Half, Wanting, AsciiPcs
        <4> QED
          BY <1>1, <1>2, <1>3, <3>2, <4>1, AsciiQuiet
      <3>7. t2.pc # "none" /\ Has(x, t2.list) /\ Reads(in, in)
        BY <1>2, <3>2 DEF Reads
      <3>8. SessionsInv'
        BY <1>1, <1>2, <1>3, <3>1, <3>2, <3>3, <3>5, <3>6, <3>7, Silent
      <3> QED
        BY <1>3, <3>8 DEF ForwardInv
  <1>6. CASE ~AnotherFwdSender(s, x)
    <2> DEFINE pc == IF due = <<>> THEN "a_delay" ELSE "a_file"
    <2> QED
      <3> DEFINE t2 == [t EXCEPT !.job = "fwdsend", !.list = due, !.pc = pc]
      <3>1. Set(s, x, t2) /\ UNCHANGED wire
        BY <1>6 DEF ASend, T
      <3>2. /\ t2.pc = pc /\ t2.list = due /\ t2.want = t.want /\ t2.ask = t.ask
            /\ t2.ans = t.ans /\ t2.i = t.i /\ t2.locks = t.locks /\ DOMAIN t2 = Fields
        BY <1>1, <1>2 DEF Fields
      <3>3. TaskType(t2)
        <4>1. /\ t.want \in Seq(Replies) /\ t.ask \in Seq(Mails) /\ t.ans \in Seq(Replies)
              /\ t.i \in Nat /\ t.locks \subseteq Mails
          BY <1>2 DEF TaskType
        <4> HIDE DEF t, t2, due
        <4> QED
          BY <1>4, <3>2, <4>1 DEF TaskType, AsciiPcs
      <3> HIDE DEF t2
      <3>5. WireAfter(s, x, in, out)
        BY <1>2, <3>1, WireSteps DEF SessionsInv
      <3>6. Both(t2, u, Msgs(in), Msgs(out), bids'[x], bids[Peer(s, x)])
        <4>1. Wanting(t2, bids'[x]) /\ t.pc \in AsciiPcs /\ t2.pc \in AsciiPcs \cup {"end"}
          BY <1>1, <1>2, <3>2 DEF Both, Half, Wanting, AsciiPcs
        <4> QED
          BY <1>1, <1>2, <1>3, <3>2, <4>1, AsciiQuiet
      <3>7. t2.pc # "none" /\ Has(x, t2.list) /\ Reads(in, in)
        BY <1>4, <3>2 DEF Reads
      <3>8. SessionsInv'
        BY <1>1, <1>2, <1>3, <3>1, <3>2, <3>3, <3>5, <3>6, <3>7, Silent
      <3> QED
        BY <1>3, <3>8 DEF ForwardInv
  <1> QED
    BY <1>5, <1>6

LEMMA AFileKeeps ==
    ASSUME ForwardInv, NEW s \in Sessions, NEW x \in {s[1], s[2]}, AFile(s, x)
    PROVE  ForwardInv'
  <1> DEFINE t == end[s][x]
             u == end[s][Peer(s, x)]
             in == wire[s][x]
             out == wire[s][Peer(s, x)]
  <1>1. t.pc = "a_file" /\ link[s] # "down"
    BY DEF AFile, At, T
  <1>2. /\ SessionsInv /\ TaskType(t) /\ DOMAIN t = Fields /\ TaskType(u)
        /\ x \in Boxes /\ Peer(s, x) \in Boxes /\ Has(x, t.list)
        /\ Both(t, u, Msgs(in), Msgs(out), bids[x], bids[Peer(s, x)])
        /\ in \in Seq(Frames) /\ Msgs(in) \subseteq Frames /\ Msgs(out) \subseteq Frames
    BY Here DEF ForwardInv
  <1>3. BoxTypes' /\ KeepsMail /\ link' = link /\ bids' = bids
    BY BoxSame DEF AFile, ForwardInv
  <1> DEFINE m == Cur(s, x)
  <1>4. t.list \in Seq(Mails) /\ t.list # <<>>
    BY <1>1, <1>2 DEF TaskType
  <1>5. m \in Mails
    BY <1>4 DEF Cur, T
  <1>6. CASE mail[x][m] = "live"
    <2> QED
      <3> DEFINE f == <<"S", m>>
               t2 == [t EXCEPT !.pc = "a_ok", !.locks = {m} \cap Personal]
      <3>1. Set(s, x, t2) /\ Put(s, x, <<f>>)
        BY <1>6 DEF AFile, T
      <3>2. t2.pc = "a_ok" /\ t2.list = t.list /\ t2.want = t.want
        BY <1>1, <1>2 DEF Fields
      <3>3. TaskType(t2)
        <4>1. {m} \cap Personal \subseteq Mails
          BY MailBoxAssumption
        <4> HIDE DEF m
        <4> QED
          BY <1>1, <1>2, <4>1 DEF TaskType, Fields, AsciiPcs
      <3>4. f \in Frames /\ f[1] \notin Weighty
        BY <1>5 DEF Frames, Weighty, TurnKinds
      <3> HIDE DEF t2, f
      <3>5. \/ WireAfter(s, x, in, out \o <<f>>)
           \/ WireAfter(s, x, in, out)
        BY <1>2, <3>1, WireSteps DEF SessionsInv
      <3>6. \A N2 : N2 \subseteq Msgs(out) \cup {f} =>
              Both(t2, u, Msgs(in), N2, bids'[x], bids[Peer(s, x)])
        <4>1. Wanting(t2, bids'[x]) /\ t.pc \in AsciiPcs /\ t2.pc \in AsciiPcs \cup {"end"}
          BY <1>1, <1>2, <3>2 DEF Both, Half, Wanting, AsciiPcs
        <4> QED
          BY <1>1, <1>2, <1>3, <3>2, <3>4, <4>1, AsciiMove
      <3>7. t2.pc # "none" /\ Has(x, t2.list) /\ Reads(in, in)
        BY <1>2, <3>2 DEF Reads
      <3>8. SessionsInv'
        BY <1>1, <1>2, <1>3, <3>1, <3>2, <3>3, <3>4, <3>5, <3>6, <3>7, Sends DEF TurnKinds,
           Weighty
      <3> QED
        BY <1>3, <3>8 DEF ForwardInv
  <1>7. CASE mail[x][m] # "live"
    <2> QED
      <3> DEFINE t2 == [t EXCEPT !.pc = "a_del"]
      <3>1. Set(s, x, t2) /\ UNCHANGED wire
        BY <1>7 DEF AFile, Go, T
      <3>2. t2.pc = "a_del" /\ t2.list = t.list /\ t2.want = t.want
        BY <1>1, <1>2 DEF Fields
      <3>3. TaskType(t2)
        BY <1>1, <1>2 DEF TaskType, Fields, AsciiPcs
      <3> HIDE DEF t2
      <3>5. WireAfter(s, x, in, out)
        BY <1>2, <3>1, WireSteps DEF SessionsInv
      <3>6. Both(t2, u, Msgs(in), Msgs(out), bids'[x], bids[Peer(s, x)])
        <4>1. Wanting(t2, bids'[x]) /\ t.pc \in AsciiPcs /\ t2.pc \in AsciiPcs \cup {"end"}
          BY <1>1, <1>2, <3>2 DEF Both, Half, Wanting, AsciiPcs
        <4> QED
          BY <1>1, <1>2, <1>3, <3>2, <4>1, AsciiQuiet
      <3>7. t2.pc # "none" /\ Has(x, t2.list) /\ Reads(in, in)
        BY <1>2, <3>2 DEF Reads
      <3>8. SessionsInv'
        BY <1>1, <1>2, <1>3, <3>1, <3>2, <3>3, <3>5, <3>6, <3>7, Silent
      <3> QED
        BY <1>3, <3>8 DEF ForwardInv
  <1> QED
    BY <1>6, <1>7

LEMMA AReplyKeeps ==
    ASSUME ForwardInv, NEW s \in Sessions, NEW x \in {s[1], s[2]}, AReply(s, x)
    PROVE  ForwardInv'
  <1> DEFINE t == end[s][x]
             u == end[s][Peer(s, x)]
             in == wire[s][x]
             out == wire[s][Peer(s, x)]
  <1>1. t.pc = "a_ok" /\ link[s] # "down"
    BY DEF AReply, At, T
  <1>2. /\ SessionsInv /\ TaskType(t) /\ DOMAIN t = Fields /\ TaskType(u)
        /\ x \in Boxes /\ Peer(s, x) \in Boxes /\ Has(x, t.list)
        /\ Both(t, u, Msgs(in), Msgs(out), bids[x], bids[Peer(s, x)])
        /\ in \in Seq(Frames) /\ Msgs(in) \subseteq Frames /\ Msgs(out) \subseteq Frames
    BY Here DEF ForwardInv
  <1>3. link' = link /\ bids' = bids /\ KeepsMail /\ UNCHANGED <<mail, text, queue, frag>>
    BY DEF AReply, Line, KeepsMail
  <1>4. in # <<>> /\ Head(in)[1] \in {"OK", "NO", "LA", "RJ"}
    BY DEF AReply, Arrived
  <1>5. Head(in) \in Frames /\ Msgs(Tail(in)) \subseteq Msgs(in)
    BY <1>2, <1>4, TakenOff
  <1> DEFINE m == Cur(s, x)
             st == CASE Head(in)[1] = "OK" -> "yes" [] Head(in)[1] = "RJ" -> "reject" [] OTHER -> "no"
  <1>6. BoxTypes /\ prop \in [Boxes -> SUBSET Personal]
    BY DEF ForwardInv, BoxTypes
  <1>7. t.list \in Seq(Mails) /\ t.list # <<>>
    BY <1>1, <1>2 DEF TaskType
  <1>8. m \in Mails /\ mail[x][m] # "none"
    <2>1. m = t.list[1] /\ 1 \in 1 .. Len(t.list)
      BY <1>7 DEF Cur, T
    <2> HIDE DEF m, t
    <2> QED
      BY <1>2, <1>7, <2>1 DEF Has
  <1>9. text[x][m] \in Wholes
    <2> HIDE DEF m
    <2> QED
      BY <1>2, <1>6, <1>8 DEF BoxTypes
  <1>10. CASE Head(in)[1] = "OK"
    <2>0. BoxTypes'
      <3>1. prop' = [prop EXCEPT ![x] = @ \cup ({m} \cap Personal)]
        BY <1>10 DEF AReply, T
      <3>2. prop' \in [Boxes -> SUBSET Personal]
        <4> HIDE DEF m
        <4> QED
          BY <1>2, <1>6, <3>1
      <3> QED
        BY <1>3, <1>6, <3>2 DEF BoxTypes
    <2> QED
      <3> DEFINE f == <<"text", text[x][m]>>
               t2 == [t EXCEPT !.pc = "a_wp", !.stat = <<st>>]
      <3>1. Set(s, x, t2) /\ wire' = Sent(Taken(s, x), s, x, <<f>>)
        BY <1>10 DEF AReply, T
      <3>2. t2.pc = "a_wp" /\ t2.list = t.list /\ t2.want = t.want
        BY <1>1, <1>2 DEF Fields
      <3>3. TaskType(t2)
        BY <1>1, <1>2 DEF TaskType, Fields, AsciiPcs
      <3>4. f \in Frames /\ f[1] \notin Weighty
        BY <1>9 DEF Frames, Weighty, TurnKinds
      <3> HIDE DEF t2, f
      <3>5. \/ WireAfter(s, x, Tail(in), out \o <<f>>)
           \/ WireAfter(s, x, Tail(in), out)
        BY <1>2, <3>1, WireSteps DEF SessionsInv
      <3>6. \A N2 : N2 \subseteq Msgs(out) \cup {f} =>
              Both(t2, u, Msgs(Tail(in)), N2, bids'[x], bids[Peer(s, x)])
        <4>1. Wanting(t2, bids'[x]) /\ t.pc \in AsciiPcs /\ t2.pc \in AsciiPcs \cup {"end"}
          BY <1>1, <1>2, <3>2 DEF Both, Half, Wanting, AsciiPcs
        <4> QED
          BY <1>1, <1>2, <1>3, <1>5, <3>2, <3>4, <4>1, AsciiMove
      <3>7. t2.pc # "none" /\ Has(x, t2.list) /\ Reads(in, Tail(in))
        BY <1>2, <1>4, <3>2 DEF Reads
      <3>8. SessionsInv'
        BY <1>1, <1>2, <1>3, <3>1, <3>2, <3>3, <3>4, <3>5, <3>6, <3>7, Sends DEF TurnKinds,
           Weighty
      <3> QED
        BY <2>0, <3>8 DEF ForwardInv
  <1>11. CASE Head(in)[1] # "OK"
    <2>0. BoxTypes'
      <3>1. prop' = prop
        BY <1>11 DEF AReply, T
      <3> QED
        BY <1>3, <1>6, <3>1 DEF BoxTypes
    <2> QED
      <3> DEFINE t2 == [t EXCEPT !.pc = "a_wp", !.stat = <<st>>]
      <3>1. Set(s, x, t2) /\ Take(s, x)
        BY <1>11 DEF AReply, T
      <3>2. t2.pc = "a_wp" /\ t2.list = t.list /\ t2.want = t.want
        BY <1>1, <1>2 DEF Fields
      <3>3. TaskType(t2)
        BY <1>1, <1>2 DEF TaskType, Fields, AsciiPcs
      <3> HIDE DEF t2
      <3>5. WireAfter(s, x, Tail(in), out)
        BY <1>2, <3>1, WireSteps DEF SessionsInv
      <3>6. Both(t2, u, Msgs(Tail(in)), Msgs(out), bids'[x], bids[Peer(s, x)])
        <4>1. Wanting(t2, bids'[x]) /\ t.pc \in AsciiPcs /\ t2.pc \in AsciiPcs \cup {"end"}
          BY <1>1, <1>2, <3>2 DEF Both, Half, Wanting, AsciiPcs
        <4> QED
          BY <1>1, <1>2, <1>3, <1>5, <3>2, <4>1, AsciiQuiet
      <3>7. t2.pc # "none" /\ Has(x, t2.list) /\ Reads(in, Tail(in))
        BY <1>2, <1>4, <3>2 DEF Reads
      <3>8. SessionsInv'
        BY <1>1, <1>2, <1>3, <3>1, <3>2, <3>3, <3>5, <3>6, <3>7, Silent
      <3> QED
        BY <2>0, <3>8 DEF ForwardInv
  <1> QED
    BY <1>10, <1>11

LEMMA AConfirmKeeps ==
    ASSUME ForwardInv, NEW s \in Sessions, NEW x \in {s[1], s[2]}, AConfirm(s, x)
    PROVE  ForwardInv'
  <1> DEFINE t == end[s][x]
             u == end[s][Peer(s, x)]
             in == wire[s][x]
             out == wire[s][Peer(s, x)]
  <1>1. t.pc = "a_wp" /\ link[s] # "down"
    BY DEF AConfirm, At, T
  <1>2. /\ SessionsInv /\ TaskType(t) /\ DOMAIN t = Fields /\ TaskType(u)
        /\ x \in Boxes /\ Peer(s, x) \in Boxes /\ Has(x, t.list)
        /\ Both(t, u, Msgs(in), Msgs(out), bids[x], bids[Peer(s, x)])
        /\ in \in Seq(Frames) /\ Msgs(in) \subseteq Frames /\ Msgs(out) \subseteq Frames
    BY Here DEF ForwardInv
  <1>3. link' = link /\ bids' = bids /\ UNCHANGED <<text, prop, queue, frag>> /\ BoxTypes
    BY DEF AConfirm, Line, ForwardInv
  <1>4. in # <<>> /\ Head(in)[1] \in {">"}
    BY DEF AConfirm, Arrived
  <1>5. Head(in) \in Frames /\ Msgs(Tail(in)) \subseteq Msgs(in)
    BY <1>2, <1>4, TakenOff
  <1> DEFINE m == Cur(s, x)
  <1>7. t.list \in Seq(Mails) /\ t.list # <<>>
    BY <1>1, <1>2 DEF TaskType
  <1>8. m \in Mails /\ mail[x][m] # "none"
    <2>1. m = t.list[1] /\ 1 \in 1 .. Len(t.list)
      BY <1>7 DEF Cur, T
    <2> HIDE DEF m, t
    <2> QED
      BY <1>2, <1>7, <2>1 DEF Has
  <1>9. /\ mail' \in [Boxes -> [Mails -> {"none", "live", "fwd", "user"}]] /\ KeepsMail
        /\ \A y \in Boxes, n \in Mails : mail'[y][n] # "none" => mail[y][n] # "none"
    <2>1. FwdProcReply(x, m, t.stat[1])
      BY DEF AConfirm, T
    <2> HIDE DEF m
    <2> QED
      BY <1>2, <1>3, <1>8, <2>1, ReplyTypes
  <1>10. BoxTypes'
    BY <1>3, <1>9 DEF BoxTypes
  <1> QED
    <2> DEFINE t2 == [t EXCEPT !.pc = "a_del", !.stat = <<>>, !.locks = {}]
    <2>1. Set(s, x, t2) /\ Take(s, x)
      BY DEF AConfirm, T
    <2>2. t2.pc = "a_del" /\ t2.list = t.list /\ t2.want = t.want
      BY <1>1, <1>2 DEF Fields
    <2>3. TaskType(t2)
      BY <1>1, <1>2 DEF TaskType, Fields, AsciiPcs
    <2> HIDE DEF t2
    <2>5. WireAfter(s, x, Tail(in), out)
      BY <1>2, <2>1, WireSteps DEF SessionsInv
    <2>6. Both(t2, u, Msgs(Tail(in)), Msgs(out), bids'[x], bids[Peer(s, x)])
      <3>1. Wanting(t2, bids'[x]) /\ t.pc \in AsciiPcs /\ t2.pc \in AsciiPcs \cup {"end"}
        BY <1>1, <1>2, <2>2 DEF Both, Half, Wanting, AsciiPcs
      <3> QED
        BY <1>1, <1>2, <1>3, <1>5, <2>2, <3>1, AsciiQuiet
    <2>7. t2.pc # "none" /\ Has(x, t2.list) /\ Reads(in, Tail(in))
      BY <1>2, <1>4, <2>2 DEF Reads
    <2>8. SessionsInv'
      BY <1>1, <1>2, <1>3, <1>9, <2>1, <2>2, <2>3, <2>5, <2>6, <2>7, Silent
    <2> QED
      BY <1>10, <2>8 DEF ForwardInv

LEMMA ADelKeeps ==
    ASSUME ForwardInv, NEW s \in Sessions, NEW x \in {s[1], s[2]}, ADel(s, x)
    PROVE  ForwardInv'
  <1> DEFINE t == end[s][x]
             u == end[s][Peer(s, x)]
             in == wire[s][x]
             out == wire[s][Peer(s, x)]
  <1>1. t.pc = "a_del" /\ link[s] # "down"
    BY DEF ADel, At, T
  <1>2. /\ SessionsInv /\ TaskType(t) /\ DOMAIN t = Fields /\ TaskType(u)
        /\ x \in Boxes /\ Peer(s, x) \in Boxes /\ Has(x, t.list)
        /\ Both(t, u, Msgs(in), Msgs(out), bids[x], bids[Peer(s, x)])
        /\ in \in Seq(Frames) /\ Msgs(in) \subseteq Frames /\ Msgs(out) \subseteq Frames
    BY Here DEF ForwardInv
  <1>3. /\ link' = link /\ bids' = bids /\ KeepsMail
        /\ UNCHANGED <<mail, text, prop, frag>> /\ BoxTypes
    BY DEF ADel, Line, ForwardInv, KeepsMail
  <1>4. BoxTypes'
    <2>1. DelFwdListEntry(x, Peer(s, x), Cur(s, x))
      BY DEF ADel
    <2>2. queue' \in [Boxes -> [Boxes -> Seq(Mails)]]
      BY <1>2, <1>3, <2>1, DelTypes
    <2> QED
      BY <1>3, <2>2 DEF BoxTypes
  <1>5. Has(x, <<>>) /\ <<>> \in Seq(Mails)
    BY DEF Has
  <1> QED
    <2> DEFINE t2 == [t EXCEPT !.pc = "a_send", !.list = <<>>]
    <2>1. Set(s, x, t2) /\ UNCHANGED wire
      BY DEF ADel, T
    <2>2. /\ t2.pc = "a_send" /\ t2.list = <<>> /\ t2.want = t.want /\ t2.ask = t.ask
          /\ t2.ans = t.ans /\ t2.i = t.i /\ t2.locks = t.locks /\ DOMAIN t2 = Fields
      BY <1>1, <1>2 DEF Fields
    <2>3. TaskType(t2)
      <3>1. t.i \in Nat /\ t2.pc \in AsciiPcs
        BY <1>2, <2>2 DEF TaskType, AsciiPcs
      <3> HIDE DEF t, t2
      <3> QED
        BY <1>2, <1>5, <2>2, <3>1, Typed
    <2> HIDE DEF t2
    <2>5. WireAfter(s, x, in, out)
      BY <1>2, <2>1, WireSteps DEF SessionsInv
    <2>6. Both(t2, u, Msgs(in), Msgs(out), bids'[x], bids[Peer(s, x)])
      <3>1. Wanting(t2, bids'[x]) /\ t.pc \in AsciiPcs /\ t2.pc \in AsciiPcs \cup {"end"}
        BY <1>1, <1>2, <2>2 DEF Both, Half, Wanting, AsciiPcs
      <3> QED
        BY <1>1, <1>2, <1>3, <2>2, <3>1, AsciiQuiet
    <2>7. t2.pc # "none" /\ Has(x, t2.list) /\ Reads(in, in)
      BY <1>5, <2>2 DEF Reads
    <2>8. SessionsInv'
      BY <1>1, <1>2, <1>3, <2>1, <2>2, <2>3, <2>5, <2>6, <2>7, Silent
    <2> QED
      BY <1>4, <2>8 DEF ForwardInv

LEMMA ADelayKeeps ==
    ASSUME ForwardInv, NEW s \in Sessions, NEW x \in {s[1], s[2]}, ADelay(s, x)
    PROVE  ForwardInv'
  <1> DEFINE t == end[s][x]
             u == end[s][Peer(s, x)]
             in == wire[s][x]
             out == wire[s][Peer(s, x)]
  <1>1. t.pc = "a_delay" /\ link[s] # "down"
    BY DEF ADelay, At, T
  <1>2. /\ SessionsInv /\ TaskType(t) /\ DOMAIN t = Fields /\ TaskType(u)
        /\ x \in Boxes /\ Peer(s, x) \in Boxes /\ Has(x, t.list)
        /\ Both(t, u, Msgs(in), Msgs(out), bids[x], bids[Peer(s, x)])
        /\ in \in Seq(Frames) /\ Msgs(in) \subseteq Frames /\ Msgs(out) \subseteq Frames
    BY Here DEF ForwardInv
  <1>3. BoxTypes' /\ KeepsMail /\ link' = link /\ bids' = bids
    BY BoxSame DEF ADelay, ForwardInv
  <1> DEFINE receiving == \E o \in EndsOf(x) \ {s} : Peer(o, x) = Peer(s, x)
                            /\ end[o][x].job \in {"fwdrecv", "fwdrecvf"}
  <1>4. CASE ChkForward(x, Peer(s, x))
    <2> QED
      <3> DEFINE t2 == [t EXCEPT !.pc = "a_send"]
      <3>1. Set(s, x, t2) /\ UNCHANGED wire
        BY <1>4 DEF ADelay, Go, T
      <3>2. t2.pc = "a_send" /\ t2.list = t.list /\ t2.want = t.want
        BY <1>1, <1>2 DEF Fields
      <3>3. TaskType(t2)
        BY <1>1, <1>2 DEF TaskType, Fields, AsciiPcs
      <3> HIDE DEF t2
      <3>5. WireAfter(s, x, in, out)
        BY <1>2, <3>1, WireSteps DEF SessionsInv
      <3>6. Both(t2, u, Msgs(in), Msgs(out), bids'[x], bids[Peer(s, x)])
        <4>1. Wanting(t2, bids'[x]) /\ t.pc \in AsciiPcs /\ t2.pc \in AsciiPcs \cup {"end"}
          BY <1>1, <1>2, <3>2 DEF Both, Half, Wanting, AsciiPcs
        <4> QED
          BY <1>1, <1>2, <1>3, <3>2, <4>1, AsciiQuiet
      <3>7. t2.pc # "none" /\ Has(x, t2.list) /\ Reads(in, in)
        BY <1>2, <3>2 DEF Reads
      <3>8. SessionsInv'
        BY <1>1, <1>2, <1>3, <3>1, <3>2, <3>3, <3>5, <3>6, <3>7, Silent
      <3> QED
        BY <1>3, <3>8 DEF ForwardInv
  <1>5. CASE ~ChkForward(x, Peer(s, x)) /\ (receiving \/ x # s[1])
    <2> QED
      <3> DEFINE f == <<"***done">>
               t2 == [t EXCEPT !.pc = "end", !.job = "end"]
      <3>1. Set(s, x, t2) /\ Put(s, x, <<f>>)
        BY <1>5 DEF ADelay, T
      <3>2. t2.pc = "end" /\ t2.list = t.list /\ t2.want = t.want
        BY <1>1, <1>2 DEF Fields
      <3>3. TaskType(t2)
        BY <1>1, <1>2 DEF TaskType, Fields, AsciiPcs
      <3>4. f \in Frames /\ f[1] \notin Weighty
        BY DEF Frames, Weighty, TurnKinds
      <3> HIDE DEF t2, f
      <3>5. \/ WireAfter(s, x, in, out \o <<f>>)
           \/ WireAfter(s, x, in, out)
        BY <1>2, <3>1, WireSteps DEF SessionsInv
      <3>6. \A N2 : N2 \subseteq Msgs(out) \cup {f} =>
              Both(t2, u, Msgs(in), N2, bids'[x], bids[Peer(s, x)])
        <4>1. Wanting(t2, bids'[x]) /\ t.pc \in AsciiPcs /\ t2.pc \in AsciiPcs \cup {"end"}
          BY <1>1, <1>2, <3>2 DEF Both, Half, Wanting, AsciiPcs
        <4> QED
          BY <1>1, <1>2, <1>3, <3>2, <3>4, <4>1, AsciiMove
      <3>7. t2.pc # "none" /\ Has(x, t2.list) /\ Reads(in, in)
        BY <1>2, <3>2 DEF Reads
      <3>8. SessionsInv'
        BY <1>1, <1>2, <1>3, <3>1, <3>2, <3>3, <3>4, <3>5, <3>6, <3>7, Sends DEF TurnKinds,
           Weighty
      <3> QED
        BY <1>3, <3>8 DEF ForwardInv
  <1>6. CASE ~ChkForward(x, Peer(s, x)) /\ ~(receiving \/ x # s[1])
    <2> QED
      <3> DEFINE f == <<"F>">>
               t2 == [t EXCEPT !.pc = "a_receive"]
      <3>1. Set(s, x, t2) /\ Put(s, x, <<f>>)
        BY <1>6 DEF ADelay, Go, T
      <3>2. t2.pc = "a_receive" /\ t2.list = t.list /\ t2.want = t.want
        BY <1>1, <1>2 DEF Fields
      <3>3. TaskType(t2)
        BY <1>1, <1>2 DEF TaskType, Fields, AsciiPcs
      <3>4. f \in Frames /\ f[1] \notin Weighty
        BY DEF Frames, Weighty, TurnKinds
      <3> HIDE DEF t2, f
      <3>5. \/ WireAfter(s, x, in, out \o <<f>>)
           \/ WireAfter(s, x, in, out)
        BY <1>2, <3>1, WireSteps DEF SessionsInv
      <3>6. \A N2 : N2 \subseteq Msgs(out) \cup {f} =>
              Both(t2, u, Msgs(in), N2, bids'[x], bids[Peer(s, x)])
        <4>1. Wanting(t2, bids'[x]) /\ t.pc \in AsciiPcs /\ t2.pc \in AsciiPcs \cup {"end"}
          BY <1>1, <1>2, <3>2 DEF Both, Half, Wanting, AsciiPcs
        <4> QED
          BY <1>1, <1>2, <1>3, <3>2, <3>4, <4>1, AsciiMove
      <3>7. t2.pc # "none" /\ Has(x, t2.list) /\ Reads(in, in)
        BY <1>2, <3>2 DEF Reads
      <3>8. SessionsInv'
        BY <1>1, <1>2, <1>3, <3>1, <3>2, <3>3, <3>4, <3>5, <3>6, <3>7, Sends DEF TurnKinds,
           Weighty
      <3> QED
        BY <1>3, <3>8 DEF ForwardInv
  <1> QED
    BY <1>4, <1>5, <1>6

LEMMA APromptKeeps ==
    ASSUME ForwardInv, NEW s \in Sessions, NEW x \in {s[1], s[2]}, APrompt(s, x)
    PROVE  ForwardInv'
  <1> DEFINE t == end[s][x]
             u == end[s][Peer(s, x)]
             in == wire[s][x]
             out == wire[s][Peer(s, x)]
  <1>1. t.pc = "a_prompt" /\ link[s] # "down"
    BY DEF APrompt, At, T
  <1>2. /\ SessionsInv /\ TaskType(t) /\ DOMAIN t = Fields /\ TaskType(u)
        /\ x \in Boxes /\ Peer(s, x) \in Boxes /\ Has(x, t.list)
        /\ Both(t, u, Msgs(in), Msgs(out), bids[x], bids[Peer(s, x)])
        /\ in \in Seq(Frames) /\ Msgs(in) \subseteq Frames /\ Msgs(out) \subseteq Frames
    BY Here DEF ForwardInv
  <1>3. BoxTypes' /\ KeepsMail /\ link' = link /\ bids' = bids
    BY BoxSame DEF APrompt, ForwardInv
  <1> QED
    <2> DEFINE f == <<">">>
             t2 == [t EXCEPT !.pc = "a_receive", !.job = "fwdrecv"]
    <2>1. Set(s, x, t2) /\ Put(s, x, <<f>>)
      BY DEF APrompt, T
    <2>2. t2.pc = "a_receive" /\ t2.list = t.list /\ t2.want = t.want
      BY <1>1, <1>2 DEF Fields
    <2>3. TaskType(t2)
      BY <1>1, <1>2 DEF TaskType, Fields, AsciiPcs
    <2>4. f \in Frames /\ f[1] \notin Weighty
      BY DEF Frames, Weighty, TurnKinds
    <2> HIDE DEF t2, f
    <2>5. \/ WireAfter(s, x, in, out \o <<f>>)
         \/ WireAfter(s, x, in, out)
      BY <1>2, <2>1, WireSteps DEF SessionsInv
    <2>6. \A N2 : N2 \subseteq Msgs(out) \cup {f} =>
            Both(t2, u, Msgs(in), N2, bids'[x], bids[Peer(s, x)])
      <3>1. Wanting(t2, bids'[x]) /\ t.pc \in AsciiPcs /\ t2.pc \in AsciiPcs \cup {"end"}
        BY <1>1, <1>2, <2>2 DEF Both, Half, Wanting, AsciiPcs
      <3> QED
        BY <1>1, <1>2, <1>3, <2>2, <2>4, <3>1, AsciiMove
    <2>7. t2.pc # "none" /\ Has(x, t2.list) /\ Reads(in, in)
      BY <1>2, <2>2 DEF Reads
    <2>8. SessionsInv'
      BY <1>1, <1>2, <1>3, <2>1, <2>2, <2>3, <2>4, <2>5, <2>6, <2>7, Sends DEF TurnKinds,
         Weighty
    <2> QED
      BY <1>3, <2>8 DEF ForwardInv

LEMMA ACommandKeeps ==
    ASSUME ForwardInv, NEW s \in Sessions, NEW x \in {s[1], s[2]}, ACommand(s, x)
    PROVE  ForwardInv'
  <1> DEFINE t == end[s][x]
             u == end[s][Peer(s, x)]
             in == wire[s][x]
             out == wire[s][Peer(s, x)]
  <1>1. t.pc = "a_receive" /\ link[s] # "down"
    BY DEF ACommand, At, T
  <1>2. /\ SessionsInv /\ TaskType(t) /\ DOMAIN t = Fields /\ TaskType(u)
        /\ x \in Boxes /\ Peer(s, x) \in Boxes /\ Has(x, t.list)
        /\ Both(t, u, Msgs(in), Msgs(out), bids[x], bids[Peer(s, x)])
        /\ in \in Seq(Frames) /\ Msgs(in) \subseteq Frames /\ Msgs(out) \subseteq Frames
    BY Here DEF ForwardInv
  <1>3. BoxTypes' /\ KeepsMail /\ link' = link /\ bids' = bids
    BY BoxSame DEF ACommand, ForwardInv
  <1>4. in # <<>> /\ Head(in)[1] \in {"S", "F>", ">", "***done"}
    BY DEF ACommand, Arrived
  <1>5. Head(in) \in Frames /\ Msgs(Tail(in)) \subseteq Msgs(in)
    BY <1>2, <1>4, TakenOff
  <1>6. CASE Head(in)[1] = "S"
    <2>1. Head(in)[2] \in Mails
      BY <1>5, <1>6, StatusFrame
    <2> QED
      <3> DEFINE t2 == [t EXCEPT !.pc = "a_want", !.job = "fwdrecvf", !.ask = <<Head(in)[2]>>]
      <3>1. Set(s, x, t2) /\ Take(s, x)
        BY <1>6 DEF ACommand, T
      <3>2. t2.pc = "a_want" /\ t2.list = t.list /\ t2.want = t.want
        BY <1>1, <1>2 DEF Fields
      <3>3. TaskType(t2)
        <4>1. <<Head(in)[2]>> \in Seq(Mails) /\ <<Head(in)[2]>> # <<>>
          BY <2>1
        <4> QED
          BY <1>1, <1>2, <4>1 DEF TaskType, Fields, AsciiPcs
      <3> HIDE DEF t2
      <3>5. WireAfter(s, x, Tail(in), out)
        BY <1>2, <3>1, WireSteps DEF SessionsInv
      <3>6. Both(t2, u, Msgs(Tail(in)), Msgs(out), bids'[x], bids[Peer(s, x)])
        <4>1. Wanting(t2, bids'[x]) /\ t.pc \in AsciiPcs /\ t2.pc \in AsciiPcs \cup {"end"}
          BY <1>1, <1>2, <3>2 DEF Both, Half, Wanting, AsciiPcs
        <4> QED
          BY <1>1, <1>2, <1>3, <1>5, <3>2, <4>1, AsciiQuiet
      <3>7. t2.pc # "none" /\ Has(x, t2.list) /\ Reads(in, Tail(in))
        BY <1>2, <1>4, <3>2 DEF Reads
      <3>8. SessionsInv'
        BY <1>1, <1>2, <1>3, <3>1, <3>2, <3>3, <3>5, <3>6, <3>7, Silent
      <3> QED
        BY <1>3, <3>8 DEF ForwardInv
  <1>7. CASE Head(in)[1] # "S"
    <2>1. PICK t2 \in {[t EXCEPT !.pc = "a_delay"], [t EXCEPT !.pc = "a_prompt"],
                       [t EXCEPT !.pc = "end", !.job = "end"]} : Set(s, x, t2)
      BY <1>4, <1>7 DEF ACommand, T
    <2>2. /\ t2.pc \in {"a_delay", "a_prompt", "end"} /\ t2.list = t.list /\ t2.want = t.want
          /\ TaskType(t2)
      <3>1. /\ DOMAIN t2 = Fields /\ t2.pc \in {"a_delay", "a_prompt", "end"}
            /\ t2.list = t.list /\ t2.ask = t.ask /\ t2.ans = t.ans /\ t2.want = t.want
            /\ t2.i = t.i /\ t2.locks = t.locks
        BY <1>2, <2>1 DEF Fields
      <3>2. t.list \in Seq(Mails) /\ t.i \in Nat
        BY <1>2 DEF TaskType
      <3> HIDE DEF t
      <3>3. TaskType(t2)
        BY <1>2, <3>1, <3>2, Typed DEF AsciiPcs
      <3> QED
        BY <3>1, <3>3
    <2>3. WireAfter(s, x, Tail(in), out)
      BY <1>2, WireSteps DEF SessionsInv, ACommand
    <2>4. Wanting(t2, bids'[x]) /\ t.pc \in AsciiPcs /\ t2.pc \in AsciiPcs \cup {"end"}
      BY <1>1, <1>2, <2>2 DEF Both, Half, Wanting, AsciiPcs
    <2>5. Both(t2, u, Msgs(Tail(in)), Msgs(out), bids'[x], bids[Peer(s, x)])
      BY <1>2, <1>3, <1>5, <2>4, AsciiQuiet
    <2>6. t2.pc # "none" /\ Has(x, t2.list) /\ Reads(in, Tail(in))
      BY <1>2, <1>4, <2>2 DEF Reads
    <2>7. SessionsInv'
      BY <1>1, <1>2, <1>3, <2>1, <2>2, <2>3, <2>5, <2>6, Silent
    <2> QED
      BY <1>3, <2>7 DEF ForwardInv
  <1> QED
    BY <1>6, <1>7

LEMMA AWantKeeps ==
    ASSUME ForwardInv, NEW s \in Sessions, NEW x \in {s[1], s[2]}, AWant(s, x)
    PROVE  ForwardInv'
  <1> DEFINE t == end[s][x]
             u == end[s][Peer(s, x)]
             in == wire[s][x]
             out == wire[s][Peer(s, x)]
  <1>1. t.pc = "a_want" /\ link[s] # "down"
    BY DEF AWant, At, T
  <1>2. /\ SessionsInv /\ TaskType(t) /\ DOMAIN t = Fields /\ TaskType(u)
        /\ x \in Boxes /\ Peer(s, x) \in Boxes /\ Has(x, t.list)
        /\ Both(t, u, Msgs(in), Msgs(out), bids[x], bids[Peer(s, x)])
        /\ in \in Seq(Frames) /\ Msgs(in) \subseteq Frames /\ Msgs(out) \subseteq Frames
    BY Here DEF ForwardInv
  <1>3. link' = link /\ KeepsMail /\ UNCHANGED <<mail, text, prop, queue, frag>>
    BY DEF AWant, Line, KeepsMail
  <1> DEFINE m == t.ask[1]
             st == WantMail(s, x, m)
  <1>4. t.ask \in Seq(Mails) /\ t.ask # <<>>
    BY <1>1, <1>2 DEF TaskType
  <1>5. m \in Mails
    <2> HIDE DEF t
    <2> QED
      BY <1>4
  <1>6. bids' = IF st = "reject" THEN [bids EXCEPT ![x] = @ \cup {m}] ELSE bids
    BY DEF AWant, T, BidsAfter
  <1>7. BoxTypes /\ bids \in [Boxes -> SUBSET Mails]
    BY DEF ForwardInv, BoxTypes
  <1>8. /\ bids[x] \subseteq bids'[x] /\ bids' \in [Boxes -> SUBSET Mails]
        /\ \A y \in Boxes \ {x} : bids'[y] = bids[y]
    <2> HIDE DEF m, st
    <2> QED
      BY <1>2, <1>5, <1>6, <1>7
  <1>9. BoxTypes'
    BY <1>3, <1>7, <1>8 DEF BoxTypes
  <1>10. CASE st = "yes"
    <2> QED
      <3> DEFINE t2 == [t EXCEPT !.pc = "a_take"]
      <3>1. Set(s, x, t2) /\ UNCHANGED wire
        BY <1>10 DEF AWant, Go, T
      <3>2. t2.pc = "a_take" /\ t2.list = t.list /\ t2.want = t.want
        BY <1>1, <1>2 DEF Fields
      <3>3. TaskType(t2)
        BY <1>1, <1>2 DEF TaskType, Fields, AsciiPcs
      <3> HIDE DEF t2
      <3>5. WireAfter(s, x, in, out)
        BY <1>2, <3>1, WireSteps DEF SessionsInv
      <3>6. Both(t2, u, Msgs(in), Msgs(out), bids'[x], bids[Peer(s, x)])
        <4>1. Wanting(t2, bids'[x]) /\ t.pc \in AsciiPcs /\ t2.pc \in AsciiPcs \cup {"end"}
          BY <1>1, <1>2, <3>2 DEF Both, Half, Wanting, AsciiPcs
        <4> QED
          BY <1>1, <1>2, <1>3, <1>8, <3>2, <4>1, AsciiQuiet
      <3>7. t2.pc # "none" /\ Has(x, t2.list) /\ Reads(in, in)
        BY <1>2, <3>2 DEF Reads
      <3>8. SessionsInv'
        BY <1>1, <1>2, <1>3, <1>8, <3>1, <3>2, <3>3, <3>5, <3>6, <3>7, Silent
      <3> QED
        BY <1>9, <3>8 DEF ForwardInv
  <1>11. CASE st # "yes"
    <2> DEFINE ans == CASE st = "no" -> "NO" [] st = "later" -> "LA" [] OTHER -> "RJ"
    <2>1. ans \in {"NO", "LA", "RJ"}
      OBVIOUS
    <2> QED
      <3> DEFINE f == <<ans>>
               t2 == [t EXCEPT !.pc = "a_prompt", !.ask = <<>>]
      <3>1. Set(s, x, t2) /\ Put(s, x, <<f>>)
        BY <1>11 DEF AWant, T
      <3>2. t2.pc = "a_prompt" /\ t2.list = t.list /\ t2.want = t.want
        BY <1>1, <1>2 DEF Fields
      <3>3. TaskType(t2)
        <4>1. <<>> \in Seq(Mails)
          OBVIOUS
        <4> HIDE DEF st, ans
        <4> QED
          BY <1>1, <1>2, <4>1 DEF TaskType, Fields, AsciiPcs
      <3>4. f \in Frames /\ f[1] \notin Weighty
        BY <2>1 DEF Frames, Weighty, TurnKinds
      <3> HIDE DEF t2, f
      <3>5. \/ WireAfter(s, x, in, out \o <<f>>)
           \/ WireAfter(s, x, in, out)
        BY <1>2, <3>1, WireSteps DEF SessionsInv
      <3>6. \A N2 : N2 \subseteq Msgs(out) \cup {f} =>
              Both(t2, u, Msgs(in), N2, bids'[x], bids[Peer(s, x)])
        <4>1. Wanting(t2, bids'[x]) /\ t.pc \in AsciiPcs /\ t2.pc \in AsciiPcs \cup {"end"}
          BY <1>1, <1>2, <3>2 DEF Both, Half, Wanting, AsciiPcs
        <4> QED
          BY <1>1, <1>2, <1>3, <1>8, <3>2, <3>4, <4>1, AsciiMove
      <3>7. t2.pc # "none" /\ Has(x, t2.list) /\ Reads(in, in)
        BY <1>2, <3>2 DEF Reads
      <3>8. SessionsInv'
        BY <1>1, <1>2, <1>3, <1>8, <3>1, <3>2, <3>3, <3>4, <3>5, <3>6, <3>7,
           Sends DEF TurnKinds, Weighty
      <3> QED
        BY <1>9, <3>8 DEF ForwardInv
  <1> QED
    BY <1>10, <1>11

LEMMA ATakeKeeps ==
    ASSUME ForwardInv, NEW s \in Sessions, NEW x \in {s[1], s[2]}, ATake(s, x)
    PROVE  ForwardInv'
  <1> DEFINE t == end[s][x]
             u == end[s][Peer(s, x)]
             in == wire[s][x]
             out == wire[s][Peer(s, x)]
  <1>1. t.pc = "a_take" /\ link[s] # "down"
    BY DEF ATake, At, T
  <1>2. /\ SessionsInv /\ TaskType(t) /\ DOMAIN t = Fields /\ TaskType(u)
        /\ x \in Boxes /\ Peer(s, x) \in Boxes /\ Has(x, t.list)
        /\ Both(t, u, Msgs(in), Msgs(out), bids[x], bids[Peer(s, x)])
        /\ in \in Seq(Frames) /\ Msgs(in) \subseteq Frames /\ Msgs(out) \subseteq Frames
    BY Here DEF ForwardInv
  <1>3. BoxTypes' /\ KeepsMail /\ link' = link /\ bids' = bids
    BY BoxSame DEF ATake, ForwardInv
  <1> DEFINE m == t.ask[1]
             a == Answer(m, "yes", 0)
  <1>4. t.ask \in Seq(Mails) /\ t.ask # <<>> /\ <<>> \in Seq(Mails)
    BY <1>1, <1>2 DEF TaskType
  <1>5. a \in Replies
    <2>1. m \in Mails
      <3> HIDE DEF t
      <3> QED
        BY <1>4
    <2> HIDE DEF m
    <2> QED
      BY <2>1 DEF Answer, Replies, Status
  <1>6. CASE TmpBidVorhanden(s, x, m)
    <2> QED
      <3> DEFINE f == <<"NO">>
               t2 == [t EXCEPT !.pc = "a_prompt", !.ask = <<>>]
      <3>1. Set(s, x, t2) /\ Put(s, x, <<f>>)
        BY <1>6 DEF ATake, T
      <3>2. t2.pc = "a_prompt" /\ t2.list = t.list /\ t2.want = t.want
        BY <1>1, <1>2 DEF Fields
      <3>3. TaskType(t2)
        BY <1>1, <1>2, <1>4 DEF TaskType, Fields, AsciiPcs
      <3>4. f \in Frames /\ f[1] \notin Weighty
        BY DEF Frames, Weighty, TurnKinds
      <3> HIDE DEF t2, f
      <3>5. \/ WireAfter(s, x, in, out \o <<f>>)
           \/ WireAfter(s, x, in, out)
        BY <1>2, <3>1, WireSteps DEF SessionsInv
      <3>6. \A N2 : N2 \subseteq Msgs(out) \cup {f} =>
              Both(t2, u, Msgs(in), N2, bids'[x], bids[Peer(s, x)])
        <4>1. Wanting(t2, bids'[x]) /\ t.pc \in AsciiPcs /\ t2.pc \in AsciiPcs \cup {"end"}
          BY <1>1, <1>2, <3>2 DEF Both, Half, Wanting, AsciiPcs
        <4> QED
          BY <1>1, <1>2, <1>3, <3>2, <3>4, <4>1, AsciiMove
      <3>7. t2.pc # "none" /\ Has(x, t2.list) /\ Reads(in, in)
        BY <1>2, <3>2 DEF Reads
      <3>8. SessionsInv'
        BY <1>1, <1>2, <1>3, <3>1, <3>2, <3>3, <3>4, <3>5, <3>6, <3>7, Sends DEF TurnKinds,
           Weighty
      <3> QED
        BY <1>3, <3>8 DEF ForwardInv
  <1>7. CASE ~TmpBidVorhanden(s, x, m)
    <2> QED
      <3> DEFINE f == <<"OK">>
               t2 == [t EXCEPT !.pc = "a_text", !.ask = <<>>, !.want = <<a>>]
      <3>1. Set(s, x, t2) /\ Put(s, x, <<f>>)
        BY <1>7 DEF ATake, T
      <3>2. t2.pc = "a_text" /\ t2.list = t.list
        BY <1>1, <1>2 DEF Fields
      <3>3. TaskType(t2)
        <4>1. <<a>> \in Seq(Replies) /\ <<a>> # <<>>
          BY <1>5
        <4> HIDE DEF a
        <4> QED
          BY <1>1, <1>2, <1>4, <4>1 DEF TaskType, Fields, AsciiPcs
      <3>4. f \in Frames /\ f[1] \notin Weighty
        BY DEF Frames, Weighty, TurnKinds
      <3> HIDE DEF t2, f
      <3>5. \/ WireAfter(s, x, in, out \o <<f>>)
           \/ WireAfter(s, x, in, out)
        BY <1>2, <3>1, WireSteps DEF SessionsInv
      <3>6. \A N2 : N2 \subseteq Msgs(out) \cup {f} =>
              Both(t2, u, Msgs(in), N2, bids'[x], bids[Peer(s, x)])
        <4>1. Wanting(t2, bids'[x]) /\ t.pc \in AsciiPcs /\ t2.pc \in AsciiPcs \cup {"end"}
          BY <1>1, <1>2, <3>2 DEF Both, Half, Wanting, AsciiPcs
        <4> QED
          BY <1>1, <1>2, <1>3, <3>2, <3>4, <4>1, AsciiMove
      <3>7. t2.pc # "none" /\ Has(x, t2.list) /\ Reads(in, in)
        BY <1>2, <3>2 DEF Reads
      <3>8. SessionsInv'
        BY <1>1, <1>2, <1>3, <3>1, <3>2, <3>3, <3>4, <3>5, <3>6, <3>7, Sends DEF TurnKinds,
           Weighty
      <3> QED
        BY <1>3, <3>8 DEF ForwardInv
  <1> QED
    BY <1>6, <1>7

LEMMA ATextKeeps ==
    ASSUME ForwardInv, NEW s \in Sessions, NEW x \in {s[1], s[2]}, AText(s, x)
    PROVE  ForwardInv'
  <1> DEFINE t == end[s][x]
             u == end[s][Peer(s, x)]
             in == wire[s][x]
             out == wire[s][Peer(s, x)]
  <1>1. t.pc = "a_text" /\ link[s] # "down"
    BY DEF AText, At, T
  <1>2. /\ SessionsInv /\ TaskType(t) /\ DOMAIN t = Fields /\ TaskType(u)
        /\ x \in Boxes /\ Peer(s, x) \in Boxes /\ Has(x, t.list)
        /\ Both(t, u, Msgs(in), Msgs(out), bids[x], bids[Peer(s, x)])
        /\ in \in Seq(Frames) /\ Msgs(in) \subseteq Frames /\ Msgs(out) \subseteq Frames
    BY Here DEF ForwardInv
  <1>3. BoxTypes' /\ KeepsMail /\ link' = link /\ bids' = bids
    BY BoxSame DEF AText, ForwardInv
  <1>4. in # <<>> /\ Head(in)[1] \in {"text"}
    BY DEF AText, Arrived
  <1>5. Head(in) \in Frames /\ Msgs(Tail(in)) \subseteq Msgs(in)
    BY <1>2, <1>4, TakenOff
  <1>6. Head(in)[2] \in Wholes /\ t.want # <<>>
    BY <1>1, <1>2, <1>4, <1>5, StatusFrame DEF TaskType
  <1> QED
    <2> DEFINE t2 == [t EXCEPT !.pc = "a_save", !.got = Head(in)[2]]
    <2>1. Set(s, x, t2) /\ Take(s, x)
      BY DEF AText, T
    <2>2. t2.pc = "a_save" /\ t2.list = t.list /\ t2.want = t.want
      BY <1>1, <1>2 DEF Fields
    <2>3. TaskType(t2)
      BY <1>1, <1>2, <1>6 DEF TaskType, Fields, AsciiPcs
    <2> HIDE DEF t2
    <2>5. WireAfter(s, x, Tail(in), out)
      BY <1>2, <2>1, WireSteps DEF SessionsInv
    <2>6. Both(t2, u, Msgs(Tail(in)), Msgs(out), bids'[x], bids[Peer(s, x)])
      <3>1. Wanting(t2, bids'[x]) /\ t.pc \in AsciiPcs /\ t2.pc \in AsciiPcs \cup {"end"}
        BY <1>1, <1>2, <2>2 DEF Both, Half, Wanting, AsciiPcs
      <3> QED
        BY <1>1, <1>2, <1>3, <1>5, <2>2, <3>1, AsciiQuiet
    <2>7. t2.pc # "none" /\ Has(x, t2.list) /\ Reads(in, Tail(in))
      BY <1>2, <1>4, <2>2 DEF Reads
    <2>8. SessionsInv'
      BY <1>1, <1>2, <1>3, <2>1, <2>2, <2>3, <2>5, <2>6, <2>7, Silent
    <2> QED
      BY <1>3, <2>8 DEF ForwardInv

LEMMA ASaveKeeps ==
    ASSUME ForwardInv, NEW s \in Sessions, NEW x \in {s[1], s[2]}, ASave(s, x)
    PROVE  ForwardInv'
  <1> DEFINE t == end[s][x]
             u == end[s][Peer(s, x)]
             in == wire[s][x]
             out == wire[s][Peer(s, x)]
  <1>1. t.pc = "a_save" /\ link[s] # "down"
    BY DEF ASave, At, T
  <1>2. /\ SessionsInv /\ TaskType(t) /\ DOMAIN t = Fields /\ TaskType(u)
        /\ x \in Boxes /\ Peer(s, x) \in Boxes /\ Has(x, t.list)
        /\ Both(t, u, Msgs(in), Msgs(out), bids[x], bids[Peer(s, x)])
        /\ in \in Seq(Frames) /\ Msgs(in) \subseteq Frames /\ Msgs(out) \subseteq Frames
    BY Here DEF ForwardInv
  <1> DEFINE m == Head(t.want).m
  <1>3. link' = link
    BY DEF ASave, Line
  <1>4. t.got \in Wholes /\ t.want \in Seq(Replies) /\ t.want # <<>>
    BY <1>1, <1>2 DEF TaskType
  <1>5. m \in Mails
    <2>1. Head(t.want) \in Replies
      BY <1>4
    <2> QED
      BY <2>1 DEF Replies
  <1>6. BoxTypes' /\ KeepsMail /\ bids' = [bids EXCEPT ![x] = @ \cup {m}]
    <2>1. SaveMail(x, m, t.got) /\ UNCHANGED <<queue, frag>>
      BY DEF ASave, T
    <2> HIDE DEF m
    <2> QED
      BY <1>2, <1>4, <1>5, <2>1, SaveTypes DEF ForwardInv
  <1>7. bids[x] \subseteq bids'[x] /\ \A y \in Boxes \ {x} : bids'[y] = bids[y]
    <2>1. bids \in [Boxes -> SUBSET Mails]
      BY DEF ForwardInv, BoxTypes
    <2> HIDE DEF m
    <2> QED
      BY <1>2, <1>6, <2>1
  <1> QED
    <2> DEFINE t2 == [t EXCEPT !.pc = "a_queue", !.got = <<>>]
    <2>1. Set(s, x, t2) /\ UNCHANGED wire
      BY DEF ASave, T
    <2>2. t2.pc = "a_queue" /\ t2.list = t.list /\ t2.want = t.want
      BY <1>1, <1>2 DEF Fields
    <2>3. TaskType(t2)
      BY <1>1, <1>2, <1>4 DEF TaskType, Fields, AsciiPcs
    <2> HIDE DEF t2
    <2>5. WireAfter(s, x, in, out)
      BY <1>2, <2>1, WireSteps DEF SessionsInv
    <2>6. Both(t2, u, Msgs(in), Msgs(out), bids'[x], bids[Peer(s, x)])
      <3>1. Wanting(t2, bids'[x]) /\ t.pc \in AsciiPcs /\ t2.pc \in AsciiPcs \cup {"end"}
        BY <1>1, <1>2, <2>2 DEF Both, Half, Wanting, AsciiPcs
      <3> QED
        BY <1>1, <1>2, <1>3, <1>7, <2>2, <3>1, AsciiQuiet
    <2>7. t2.pc # "none" /\ Has(x, t2.list) /\ Reads(in, in)
      BY <1>2, <2>2 DEF Reads
    <2>8. SessionsInv'
      BY <1>1, <1>2, <1>3, <1>6, <1>7, <2>1, <2>2, <2>3, <2>5, <2>6, <2>7, Silent
    <2> QED
      BY <1>6, <2>8 DEF ForwardInv

LEMMA AQueueKeeps ==
    ASSUME ForwardInv, NEW s \in Sessions, NEW x \in {s[1], s[2]}, AQueue(s, x)
    PROVE  ForwardInv'
  <1> DEFINE t == end[s][x]
             u == end[s][Peer(s, x)]
             in == wire[s][x]
             out == wire[s][Peer(s, x)]
  <1>1. t.pc = "a_queue" /\ link[s] # "down"
    BY DEF AQueue, At, T
  <1>2. /\ SessionsInv /\ TaskType(t) /\ DOMAIN t = Fields /\ TaskType(u)
        /\ x \in Boxes /\ Peer(s, x) \in Boxes /\ Has(x, t.list)
        /\ Both(t, u, Msgs(in), Msgs(out), bids[x], bids[Peer(s, x)])
        /\ in \in Seq(Frames) /\ Msgs(in) \subseteq Frames /\ Msgs(out) \subseteq Frames
    BY Here DEF ForwardInv
  <1> DEFINE m == Head(t.want).m
  <1>3. link' = link /\ bids' = bids /\ KeepsMail
    BY DEF AQueue, Line, KeepsMail
  <1>4. t.want \in Seq(Replies) /\ t.want # <<>> /\ <<>> \in Seq(Replies)
    BY <1>1, <1>2 DEF TaskType
  <1>5. m \in Mails
    <2>1. Head(t.want) \in Replies
      BY <1>4
    <2> QED
      BY <2>1 DEF Replies
  <1>6. BoxTypes'
    <2>1. AddFwdFile(x, m, Peer(s, x)) /\ UNCHANGED <<mail, text, prop, bids, frag>>
      BY DEF AQueue, T
    <2>2. queue' \in [Boxes -> [Boxes -> Seq(Mails)]]
      <3> HIDE DEF m
      <3> QED
        BY <1>2, <1>5, <2>1, AddTypes DEF ForwardInv
    <2> QED
      BY <2>1, <2>2 DEF BoxTypes, ForwardInv
  <1> QED
    <2> DEFINE t2 == [t EXCEPT !.pc = "a_prompt", !.want = <<>>]
    <2>1. Set(s, x, t2) /\ UNCHANGED wire
      BY DEF AQueue, T
    <2>2. t2.pc = "a_prompt" /\ t2.list = t.list /\ t2.want = <<>>
      BY <1>1, <1>2 DEF Fields
    <2>3. TaskType(t2)
      BY <1>1, <1>2, <1>4 DEF TaskType, Fields, AsciiPcs
    <2> HIDE DEF t2
    <2>5. WireAfter(s, x, in, out)
      BY <1>2, <2>1, WireSteps DEF SessionsInv
    <2>6. Both(t2, u, Msgs(in), Msgs(out), bids'[x], bids[Peer(s, x)])
      <3>1. Wanting(t2, bids'[x]) /\ t.pc \in AsciiPcs /\ t2.pc \in AsciiPcs \cup {"end"}
        BY <1>1, <1>2, <2>2 DEF Both, Half, Wanting, AsciiPcs
      <3> QED
        BY <1>1, <1>2, <1>3, <2>2, <3>1, AsciiQuiet
    <2>7. t2.pc # "none" /\ Has(x, t2.list) /\ Reads(in, in)
      BY <1>2, <2>2 DEF Reads
    <2>8. SessionsInv'
      BY <1>1, <1>2, <1>3, <2>1, <2>2, <2>3, <2>5, <2>6, <2>7, Silent
    <2> QED
      BY <1>6, <2>8 DEF ForwardInv

-----------------------------------------------------------------------------
(* Connections, and what happens to them.                                  *)

(* Session s after a step of its connection, which changes no box.         *)
SessionAfter(s) ==
    /\ mail' = mail /\ bids' = bids
    /\ link' \in [Sessions -> {"down", "up", "broken"}]
    /\ DOMAIN end' = Sessions /\ DOMAIN wire' = Sessions
    /\ \A o \in Sessions \ {s} : link'[o] = link[o] /\ end'[o] = end[o] /\ wire'[o] = wire[o]
    /\ DOMAIN end'[s] = {s[1], s[2]} /\ DOMAIN wire'[s] = {s[1], s[2]}
    /\ \A x \in {s[1], s[2]} :
         /\ TaskType(end'[s][x]) /\ Has(x, end'[s][x].list) /\ wire'[s][x] \in Seq(Frames)
         /\ OneOf(wire'[s][x], TurnKinds) /\ OneOf(wire'[s][x], {"FS"})
         /\ link'[s] = "up" => end'[s][x].pc # "none"
         /\ link'[s] = "down" => end'[s][x] = NoTask /\ wire'[s][x] = <<>>
         /\ Half(end'[s][x], end'[s][Peer(s, x)], Msgs(wire'[s][x]),
                 Msgs(wire'[s][Peer(s, x)]), bids[x], bids[Peer(s, x)])

LEMMA SessionKeeps ==
    ASSUME SessionsInv, NEW s \in Sessions, SessionAfter(s)
    PROVE  SessionsInv'
  <1>1. SessionTypes /\ Links /\ Singles /\ Owned /\ SessionInv
    BY DEF SessionsInv
  <1>2. mail' = mail /\ bids' = bids /\ DOMAIN end' = Sessions /\ DOMAIN wire' = Sessions
        /\ link' \in [Sessions -> {"down", "up", "broken"}]
    BY DEF SessionAfter
  <1>3. ASSUME NEW o \in Sessions
        PROVE  /\ DOMAIN end'[o] = {o[1], o[2]} /\ DOMAIN wire'[o] = {o[1], o[2]}
               /\ \A x \in {o[1], o[2]} :
                    /\ TaskType(end'[o][x]) /\ Has(x, end'[o][x].list)
                    /\ wire'[o][x] \in Seq(Frames)
                    /\ OneOf(wire'[o][x], TurnKinds) /\ OneOf(wire'[o][x], {"FS"})
                    /\ link'[o] = "up" => end'[o][x].pc # "none"
                    /\ link'[o] = "down" => end'[o][x] = NoTask /\ wire'[o][x] = <<>>
                    /\ Half(end'[o][x], end'[o][Peer(o, x)], Msgs(wire'[o][x]),
                            Msgs(wire'[o][Peer(o, x)]), bids[x], bids[Peer(o, x)])
    <2>1. CASE o = s
      BY <2>1 DEF SessionAfter
    <2>2. CASE o # s
      <3>1. link'[o] = link[o] /\ end'[o] = end[o] /\ wire'[o] = wire[o]
        BY <2>2 DEF SessionAfter
      <3> QED
        BY <1>1, <3>1 DEF SessionTypes, Links, Singles, Owned, SessionInv, HalfOf
    <2> QED
      BY <2>1, <2>2
  <1>4. SessionTypes'
    BY <1>2, <1>3 DEF SessionTypes
  <1>5. Links' /\ Singles'
    BY <1>3 DEF Links, Singles
  <1>6. Owned'
    BY <1>2, <1>3 DEF Owned, Has
  <1>7. SessionInv'
    BY <1>2, <1>3 DEF SessionInv, HalfOf
  <1> QED
    BY <1>4, <1>5, <1>6, <1>7 DEF SessionsInv

LEMMA NoTaskType == TaskType(NoTask) /\ \A x : Has(x, NoTask.list)
  BY DEF TaskType, NoTask, Fields, Has

LEMMA NoMessages ==
    /\ <<>> \in Seq(Frames) /\ Msgs(<<>>) = {}
    /\ OneOf(<<>>, TurnKinds) /\ OneOf(<<>>, {"FS"})
  BY DEF Msgs, OneOf

(* The two protocols start alike.                                          *)
LEMMA Begins ==
    ASSUME ForwardInv, NEW s \in Sessions, Connect(s), UNCHANGED <<Box, wire>>,
           NEW t, NEW u, end' = [end EXCEPT ![s][s[1]] = t, ![s][s[2]] = u],
           TaskType(t), TaskType(u), t.list = <<>>, u.list = <<>>,
           t.want = <<>>, u.want = <<>>,
           \/ t.pc = "send_propose" /\ u.pc = "recv_propose"
           \/ t.pc = "a_pr2" /\ u.pc = "a_prompt"
    PROVE  ForwardInv'
  <1>1. BoxTypes /\ SessionsInv
    BY DEF ForwardInv
  <1>2. BoxTypes'
    BY <1>1 DEF Box, BoxTypes
  <1>3. mail' = mail /\ bids' = bids /\ wire' = wire
    BY DEF Box
  <1>4. s[1] # s[2] /\ s[1] \in Boxes /\ s[2] \in Boxes
        /\ Peer(s, s[1]) = s[2] /\ Peer(s, s[2]) = s[1]
    BY MailBoxAssumption DEF Peer
  <1>5. /\ link \in [Sessions -> {"down", "up", "broken"}]
        /\ DOMAIN end = Sessions /\ DOMAIN wire = Sessions
        /\ DOMAIN end[s] = {s[1], s[2]} /\ DOMAIN wire[s] = {s[1], s[2]}
    BY <1>1 DEF SessionsInv, SessionTypes
  <1>6. link[s] = "down" /\ link' = [link EXCEPT ![s] = "up"]
    BY DEF Connect, CanConnect
  <1>7. wire[s][s[1]] = <<>> /\ wire[s][s[2]] = <<>>
    BY <1>1, <1>6 DEF SessionsInv, Links
  <1>8. /\ DOMAIN end' = Sessions /\ DOMAIN end'[s] = {s[1], s[2]}
        /\ end'[s][s[1]] = t /\ end'[s][s[2]] = u
        /\ \A o \in Sessions \ {s} : end'[o] = end[o]
    BY <1>4, <1>5
  <1>9. /\ link' \in [Sessions -> {"down", "up", "broken"}] /\ link'[s] = "up"
        /\ \A o \in Sessions \ {s} : link'[o] = link[o]
    BY <1>5, <1>6
  <1>10. t.pc # "none" /\ u.pc # "none"
    OBVIOUS
  <1>11. Has(s[1], <<>>) /\ Has(s[2], <<>>)
    BY DEF Has
  <1>12. Both(t, u, {}, {}, bids[s[1]], bids[s[2]])
    BY New
  <1>13. ASSUME NEW z \in {s[1], s[2]}
         PROVE  /\ wire'[s][z] = <<>> /\ end'[s][z].pc # "none"
                /\ TaskType(end'[s][z]) /\ Has(z, end'[s][z].list)
                /\ Half(end'[s][z], end'[s][Peer(s, z)], Msgs(wire'[s][z]),
                        Msgs(wire'[s][Peer(s, z)]), bids[z], bids[Peer(s, z)])
    <2>1. Msgs(wire'[s][s[1]]) = {} /\ Msgs(wire'[s][s[2]]) = {}
      BY <1>3, <1>7, NoMessages
    <2>2. CASE z = s[1]
      BY <1>3, <1>4, <1>7, <1>8, <1>10, <1>11, <1>12, <2>1, <2>2 DEF Both
    <2>3. CASE z = s[2]
      BY <1>3, <1>4, <1>7, <1>8, <1>10, <1>11, <1>12, <2>1, <2>3 DEF Both
    <2> QED
      BY <2>2, <2>3
  <1>14. SessionAfter(s)
    BY <1>3, <1>5, <1>8, <1>9, <1>13, NoMessages DEF SessionAfter
  <1> QED
    BY <1>1, <1>2, <1>14, SessionKeeps DEF ForwardInv

LEMMA StartKeeps ==
    ASSUME ForwardInv, NEW s \in Sessions, Start(s)
    PROVE  ForwardInv'
  <1> DEFINE t == [NoTask EXCEPT !.pc = "send_propose", !.job = "fbb"]
             u == [NoTask EXCEPT !.pc = "recv_propose", !.job = "fbb"]
  <1>1. /\ t.pc = "send_propose" /\ t.list = <<>> /\ t.want = <<>>
        /\ u.pc = "recv_propose" /\ u.list = <<>> /\ u.want = <<>>
    BY DEF NoTask
  <1>2. TaskType(t) /\ TaskType(u)
    BY DEF TaskType, NoTask, Fields, FbbPcs
  <1>3. Connect(s) /\ UNCHANGED <<Box, wire>>
        /\ end' = [end EXCEPT ![s][s[1]] = t, ![s][s[2]] = u]
    BY DEF Start
  <1> HIDE DEF t, u
  <1> QED
    BY <1>1, <1>2, <1>3, Begins

LEMMA AStartKeeps ==
    ASSUME ForwardInv, NEW s \in Sessions, AStart(s)
    PROVE  ForwardInv'
  <1> DEFINE t == [NoTask EXCEPT !.pc = "a_pr2", !.job = "fwdlink"]
             u == [NoTask EXCEPT !.pc = "a_prompt", !.job = "fwdrecv"]
  <1>1. /\ t.pc = "a_pr2" /\ t.list = <<>> /\ t.want = <<>>
        /\ u.pc = "a_prompt" /\ u.list = <<>> /\ u.want = <<>>
    BY DEF NoTask
  <1>2. TaskType(t) /\ TaskType(u)
    BY DEF TaskType, NoTask, Fields, AsciiPcs
  <1>3. Connect(s) /\ UNCHANGED <<Box, wire>>
        /\ end' = [end EXCEPT ![s][s[1]] = t, ![s][s[2]] = u]
    BY DEF AStart
  <1> HIDE DEF t, u
  <1> QED
    BY <1>1, <1>2, <1>3, Begins

(* The connection breaks: of what was under way a prefix arrives.          *)
LEMMA BreakKeeps ==
    ASSUME ForwardInv, NEW s \in Sessions, Break(s)
    PROVE  ForwardInv'
  <1>1. BoxTypes /\ SessionsInv /\ UNCHANGED <<mail, text, prop, bids, queue, frag, end>>
        /\ link' = [link EXCEPT ![s] = "broken"]
    BY DEF ForwardInv, Break
  <1>2. BoxTypes'
    BY <1>1 DEF BoxTypes
  <1>3. PICK i \in 0 .. Len(wire[s][s[1]]), j \in 0 .. Len(wire[s][s[2]]) :
             wire' = [wire EXCEPT ![s][s[1]] = SubSeq(@, 1, i), ![s][s[2]] = SubSeq(@, 1, j)]
    BY DEF Break
  <1>4. s[1] # s[2]
    BY MailBoxAssumption
  <1>5. /\ link \in [Sessions -> {"down", "up", "broken"}]
        /\ DOMAIN end = Sessions /\ DOMAIN wire = Sessions
        /\ DOMAIN end[s] = {s[1], s[2]} /\ DOMAIN wire[s] = {s[1], s[2]}
    BY <1>1 DEF SessionsInv, SessionTypes
  <1>6. /\ DOMAIN wire' = Sessions /\ DOMAIN wire'[s] = {s[1], s[2]}
        /\ wire'[s][s[1]] = SubSeq(wire[s][s[1]], 1, i)
        /\ wire'[s][s[2]] = SubSeq(wire[s][s[2]], 1, j)
        /\ \A o \in Sessions \ {s} : wire'[o] = wire[o]
    BY <1>3, <1>4, <1>5
  <1>7. /\ link' \in [Sessions -> {"down", "up", "broken"}] /\ link'[s] = "broken"
        /\ \A o \in Sessions \ {s} : link'[o] = link[o]
    BY <1>1, <1>5
  <1>8. ASSUME NEW x \in {s[1], s[2]}
        PROVE  /\ TaskType(end[s][x]) /\ Has(x, end[s][x].list)
               /\ wire'[s][x] \in Seq(Frames) /\ Msgs(wire'[s][x]) \subseteq Msgs(wire[s][x])
               /\ OneOf(wire'[s][x], TurnKinds) /\ OneOf(wire'[s][x], {"FS"})
    <2>1. PICK k \in 0 .. Len(wire[s][x]) : wire'[s][x] = SubSeq(wire[s][x], 1, k)
      BY <1>6
    <2> QED
      BY <1>1, <2>1, Here, Prefix
  <1>9. ASSUME NEW x \in {s[1], s[2]}
        PROVE  Half(end[s][x], end[s][Peer(s, x)], Msgs(wire'[s][x]),
                    Msgs(wire'[s][Peer(s, x)]), bids[x], bids[Peer(s, x)])
    <2>1. HalfOf(s, x)
      BY <1>1 DEF SessionsInv, SessionInv
    <2>2. Peer(s, x) \in {s[1], s[2]}
      BY Ends2
    <2>3. Msgs(wire'[s][x]) \subseteq Msgs(wire[s][x])
          /\ Msgs(wire'[s][Peer(s, x)]) \subseteq Msgs(wire[s][Peer(s, x)])
      BY <1>8, <2>2
    <2> QED
      BY <2>1, <2>3, HalfLess DEF HalfOf
  <1>10. SessionAfter(s)
    BY <1>1, <1>5, <1>6, <1>7, <1>8, <1>9 DEF SessionAfter
  <1> QED
    BY <1>1, <1>2, <1>10, SessionKeeps DEF ForwardInv

(* A box notices and the task ends; with the second one the session is over. *)
LEMMA DieKeeps ==
    ASSUME ForwardInv, NEW s \in Sessions, NEW x \in {s[1], s[2]}, Die(s, x)
    PROVE  ForwardInv'
  <1> DEFINE y == Peer(s, x)
  <1>1. BoxTypes /\ SessionsInv /\ UNCHANGED <<mail, text, prop, bids, queue, frag>>
        /\ link[s] = "broken" /\ end' = [end EXCEPT ![s][x] = NoTask]
    BY DEF ForwardInv, Die
  <1>2. BoxTypes'
    BY <1>1 DEF BoxTypes
  <1>3. /\ y \in {s[1], s[2]} /\ y # x /\ Peer(s, y) = x /\ {s[1], s[2]} = {x, y}
        /\ x \in Boxes /\ y \in Boxes
    BY Ends2
  <1>4. /\ TaskType(end[s][y]) /\ Has(y, end[s][y].list)
        /\ Both(end[s][x], end[s][y], Msgs(wire[s][x]), Msgs(wire[s][y]), bids[x], bids[y])
        /\ \A z \in {x, y} : /\ wire[s][z] \in Seq(Frames)
                             /\ OneOf(wire[s][z], TurnKinds) /\ OneOf(wire[s][z], {"FS"})
    BY <1>1, <1>3, Here
  <1>5. /\ link \in [Sessions -> {"down", "up", "broken"}]
        /\ DOMAIN end = Sessions /\ DOMAIN wire = Sessions
        /\ DOMAIN end[s] = {x, y} /\ DOMAIN wire[s] = {x, y}
    BY <1>1, <1>3 DEF SessionsInv, SessionTypes
  <1>6. IF end[s][y].pc = "none"
        THEN link' = [link EXCEPT ![s] = "down"]
             /\ wire' = [wire EXCEPT ![s] = [z \in {x, y} |-> <<>>]]
        ELSE UNCHANGED <<link, wire>>
    BY <1>3 DEF Die
  <1> HIDE DEF y
  <1>7. /\ DOMAIN end' = Sessions /\ DOMAIN end'[s] = {x, y}
        /\ end'[s][x] = NoTask /\ end'[s][y] = end[s][y]
        /\ \A o \in Sessions \ {s} : end'[o] = end[o]
    BY <1>1, <1>3, <1>5
  <1>8. TaskType(NoTask) /\ Has(x, NoTask.list)
    BY NoTaskType
  <1>9. CASE end[s][y].pc = "none"
    <2>1. end[s][y] = NoTask
      BY <1>4, <1>9 DEF TaskType
    <2>2. /\ link' \in [Sessions -> {"down", "up", "broken"}] /\ link'[s] = "down"
          /\ \A o \in Sessions \ {s} : link'[o] = link[o]
      BY <1>5, <1>6, <1>9
    <2>3. /\ DOMAIN wire' = Sessions /\ DOMAIN wire'[s] = {x, y}
          /\ wire'[s][x] = <<>> /\ wire'[s][y] = <<>>
          /\ \A o \in Sessions \ {s} : wire'[o] = wire[o]
      BY <1>5, <1>6, <1>9
    <2>4. Half(NoTask, NoTask, {}, {}, bids[x], bids[y])
          /\ Half(NoTask, NoTask, {}, {}, bids[y], bids[x])
      <3>1. NoTask.want = <<>> /\ NoTask.pc = "none"
        BY DEF NoTask
      <3> QED
        BY <3>1, New DEF Both
    <2>5. ASSUME NEW z \in {x, y}
          PROVE  /\ end'[s][z] = NoTask /\ wire'[s][z] = <<>> /\ Has(z, NoTask.list)
                 /\ Half(end'[s][z], end'[s][Peer(s, z)], Msgs(wire'[s][z]),
                         Msgs(wire'[s][Peer(s, z)]), bids[z], bids[Peer(s, z)])
      <3>1. Msgs(wire'[s][x]) = {} /\ Msgs(wire'[s][y]) = {}
        BY <2>3, NoMessages
      <3>2. CASE z = x
        BY <1>7, <2>1, <2>3, <2>4, <3>1, <3>2, NoTaskType DEF y
      <3>3. CASE z = y
        <4>1. end'[s][y] = NoTask /\ end'[s][Peer(s, y)] = NoTask /\ Peer(s, y) = x
          BY <1>3, <1>7, <2>1
        <4> QED
          BY <2>3, <2>4, <3>1, <3>3, <4>1, NoTaskType
      <3> QED
        BY <3>2, <3>3
    <2>6. SessionAfter(s)
      BY <1>1, <1>3, <1>7, <1>8, <2>2, <2>3, <2>5, NoMessages DEF SessionAfter
    <2> QED
      BY <1>1, <1>2, <2>6, SessionKeeps DEF ForwardInv
  <1>10. CASE end[s][y].pc # "none"
    <2>1. link' = link /\ wire' = wire
      BY <1>6, <1>10
    <2>2. Both(NoTask, end[s][y], Msgs(wire[s][x]), Msgs(wire[s][y]), bids[x], bids[y])
      BY <1>4, Gone
    <2>3. ASSUME NEW z \in {x, y}
          PROVE  /\ TaskType(end'[s][z]) /\ Has(z, end'[s][z].list)
                 /\ Half(end'[s][z], end'[s][Peer(s, z)], Msgs(wire[s][z]),
                         Msgs(wire[s][Peer(s, z)]), bids[z], bids[Peer(s, z)])
      <3>1. CASE z = x
        BY <1>7, <1>8, <2>2, <3>1 DEF Both, y
      <3>2. CASE z = y
        BY <1>3, <1>4, <1>7, <2>2, <3>2 DEF Both
      <3> QED
        BY <3>1, <3>2
    <2>4. SessionAfter(s)
      BY <1>1, <1>3, <1>4, <1>5, <1>7, <2>1, <2>3 DEF SessionAfter
    <2> QED
      BY <1>1, <1>2, <2>4, SessionKeeps DEF ForwardInv
  <1> QED
    BY <1>9, <1>10

LEMMA LogoutKeeps ==
    ASSUME ForwardInv, NEW s \in Sessions, NEW x \in {s[1], s[2]}, Logout(s, x)
    PROVE  ForwardInv'
  <1>1. BoxTypes /\ SessionsInv /\ link' = [link EXCEPT ![s] = "broken"]
        /\ UNCHANGED <<mail, text, prop, bids, queue, frag, end, wire>>
    BY DEF ForwardInv, Logout
  <1>2. BoxTypes'
    BY <1>1 DEF BoxTypes
  <1>3. /\ link \in [Sessions -> {"down", "up", "broken"}]
        /\ DOMAIN end = Sessions /\ DOMAIN wire = Sessions
        /\ DOMAIN end[s] = {s[1], s[2]} /\ DOMAIN wire[s] = {s[1], s[2]}
    BY <1>1 DEF SessionsInv, SessionTypes
  <1>4. /\ link' \in [Sessions -> {"down", "up", "broken"}] /\ link'[s] = "broken"
        /\ \A o \in Sessions \ {s} : link'[o] = link[o]
    BY <1>1, <1>3
  <1>5. ASSUME NEW z \in {s[1], s[2]}
        PROVE  /\ TaskType(end[s][z]) /\ Has(z, end[s][z].list)
               /\ wire[s][z] \in Seq(Frames)
               /\ OneOf(wire[s][z], TurnKinds) /\ OneOf(wire[s][z], {"FS"})
               /\ Half(end[s][z], end[s][Peer(s, z)], Msgs(wire[s][z]),
                       Msgs(wire[s][Peer(s, z)]), bids[z], bids[Peer(s, z)])
    BY <1>1, Here DEF Both
  <1>6. SessionAfter(s)
    BY <1>1, <1>3, <1>4, <1>5 DEF SessionAfter
  <1> QED
    BY <1>1, <1>2, <1>6, SessionKeeps DEF ForwardInv

(* What changes only boxes, and only in a way that no session notices.     *)
LEMMA UserEraseKeeps ==
    ASSUME ForwardInv, NEW x \in Boxes, NEW m \in Mails, UserErase(x, m)
    PROVE  ForwardInv'
  <1>1. /\ BoxTypes /\ SessionTypes /\ Links /\ Singles /\ Owned /\ SessionInv
        /\ mail[x][m] = "live" /\ mail' = [mail EXCEPT ![x][m] = "user"]
        /\ UNCHANGED <<text, prop, bids, queue, frag, link, end, wire>>
    BY DEF ForwardInv, SessionsInv, UserErase
  <1>2. BoxTypes'
    BY <1>1 DEF BoxTypes
  <1>3. \A z \in Boxes, k \in Mails : mail[z][k] # "none" => mail'[z][k] # "none"
    BY <1>1 DEF BoxTypes
  <1>4. SessionTypes' /\ Links' /\ Singles' /\ SessionInv'
    BY <1>1 DEF SessionTypes, Links, Singles, SessionInv, HalfOf
  <1>5. ASSUME NEW s \in Sessions, NEW z \in {s[1], s[2]}
        PROVE  Has(z, end[s][z].list)'
    <2>1. Has(z, end[s][z].list) /\ TaskType(end[s][z]) /\ z \in Boxes
      BY <1>1, Ends2 DEF Owned, SessionTypes
    <2>2. end[s][z].list \in Seq(Mails)
      BY <2>1 DEF TaskType
    <2>3. end'[s][z].list = end[s][z].list
      BY <1>1
    <2> QED
      BY <1>3, <2>1, <2>2, <2>3 DEF Has
  <1>6. Owned'
    BY <1>5 DEF Owned
  <1> QED
    BY <1>2, <1>4, <1>6 DEF ForwardInv, SessionsInv

LEMMA StutterKeeps ==
    ASSUME ForwardInv, UNCHANGED vars
    PROVE  ForwardInv'
  BY DEF ForwardInv, SessionsInv, BoxTypes, SessionTypes, Links, Singles, Owned, Has,
         SessionInv, HalfOf, vars

-----------------------------------------------------------------------------
(* The initial states, and all steps together.                             *)

LEMMA AllMails == SetToSeq(Mails) \in Seq(Mails)
  <1>1. Cardinality(Mails) \in Nat /\ ExistsBijection(1 .. Cardinality(Mails), Mails)
    BY MailBoxAssumption, FS_CardinalityType
  <1>2. PICK f : f \in Bijection(1 .. Cardinality(Mails), Mails)
    BY <1>1 DEF ExistsBijection
  <1>3. f \in [1 .. Cardinality(Mails) -> Mails] /\ IsInjective(f)
    BY <1>2 DEF Bijection, Injection
  <1>4. SetToSeq(Mails) \in [1 .. Cardinality(Mails) -> Mails]
    BY <1>3 DEF SetToSeq
  <1> QED
    BY <1>1, <1>4

LEMMA InitTypes == Init => BoxTypes
  <1> SUFFICES ASSUME Init PROVE BoxTypes
    OBVIOUS
  <1>1. PICK origin \in Origins :
           LET has(x, m) == x \in origin[m]
           IN  /\ mail = [x \in Boxes |-> [m \in Mails |->
                           IF has(x, m) THEN "live" ELSE "none"]]
               /\ text = [x \in Boxes |-> [m \in Mails |->
                           [k \in 1 .. (IF has(x, m) THEN Blocks ELSE 0) |-> 0]]]
               /\ bids = [x \in Boxes |-> {m \in Mails : has(x, m)}]
               /\ queue = [x \in Boxes |-> [y \in Boxes |->
                     Those(SetToSeq(Mails), {m \in Mails : has(x, m) /\ y \in Route[x][m]})]]
    BY DEF Init
  <1>2. mail \in [Boxes -> [Mails -> {"none", "live", "fwd", "user"}]]
        /\ bids \in [Boxes -> SUBSET Mails]
    BY <1>1
  <1>3. \A n \in Nat, v \in Bits : [k \in 1 .. n |-> v] \in Seq(Bits)
    OBVIOUS
  <1>4. Blocks \in Nat /\ 0 \in Nat /\ 0 \in Bits /\ 1 \in Bits
    BY MailBoxAssumption DEF Bits
  <1>5. text \in [Boxes -> [Mails -> Seq(Bits)]]
    <2>1. \A c : [k \in 1 .. (IF c THEN Blocks ELSE 0) |-> 0] \in Seq(Bits)
      BY <1>3, <1>4
    <2> QED
      BY <1>1, <2>1
  <1>6. \A x \in Boxes, m \in Mails : mail[x][m] # "none" => text[x][m] \in Wholes
    <2> SUFFICES ASSUME NEW x \in Boxes, NEW m \in Mails, mail[x][m] # "none"
                 PROVE  text[x][m] \in Wholes
      OBVIOUS
    <2>1. x \in origin[m]
      BY <1>1
    <2>2. text[x][m] = [k \in 1 .. Blocks |-> 0]
      BY <1>1, <2>1
    <2> QED
      BY <1>4, <2>2 DEF Wholes
  <1>7. queue \in [Boxes -> [Boxes -> Seq(Mails)]]
    <2>1. \A S : Those(SetToSeq(Mails), S) \in Seq(Mails)
      BY AllMails, ThoseKept
    <2> QED
      BY <1>1, <2>1
  <1>8. prop \in [Boxes -> SUBSET Personal]
    BY DEF Init
  <1>9. frag \in [Boxes -> [Boxes -> [Mails -> Seq(Bits)]]]
    <2>1. PICK left \in SUBSET Leftover :
             frag = [x \in Boxes |-> [y \in Boxes |-> [m \in Mails |->
                 [k \in 1 .. (IF <<x, y, m>> \in left THEN Blocks ELSE 0) |-> 1]]]]
      BY DEF Init
    <2>2. \A c : [k \in 1 .. (IF c THEN Blocks ELSE 0) |-> 1] \in Seq(Bits)
      BY <1>3, <1>4
    <2> QED
      BY <2>1, <2>2
  <1> QED
    BY <1>2, <1>5, <1>6, <1>7, <1>8, <1>9 DEF BoxTypes

LEMMA InitSessions == Init => SessionsInv
  <1> SUFFICES ASSUME Init PROVE SessionsInv
    OBVIOUS
  <1>1. /\ link = [s \in Sessions |-> "down"]
        /\ end = [s \in Sessions |-> [x \in {s[1], s[2]} |-> NoTask]]
        /\ wire = [s \in Sessions |-> [x \in {s[1], s[2]} |-> <<>>]]
    BY DEF Init
  <1>2. ASSUME NEW s \in Sessions
        PROVE  /\ link[s] = "down"
               /\ DOMAIN end[s] = {s[1], s[2]} /\ DOMAIN wire[s] = {s[1], s[2]}
               /\ \A x \in {s[1], s[2]} : end[s][x] = NoTask /\ wire[s][x] = <<>>
    BY <1>1
  <1>3. SessionTypes
    BY <1>1, <1>2, NoTaskType, NoMessages DEF SessionTypes
  <1>4. Links /\ Singles
    BY <1>2, NoMessages DEF Links, Singles
  <1>5. Owned
    BY <1>2, NoTaskType DEF Owned
  <1>6. ASSUME NEW s \in Sessions, NEW x \in {s[1], s[2]} PROVE HalfOf(s, x)
    <2>1. NoTask.want = <<>> /\ NoTask.pc = "none"
      BY DEF NoTask
    <2>2. /\ end[s][x] = NoTask /\ end[s][Peer(s, x)] = NoTask
          /\ wire[s][x] = <<>> /\ wire[s][Peer(s, x)] = <<>>
      BY <1>2, Ends2
    <2>3. Half(NoTask, NoTask, {}, {}, bids[x], bids[Peer(s, x)])
      BY <2>1, New DEF Both
    <2> QED
      BY <2>2, <2>3, NoMessages DEF HalfOf
  <1> QED
    BY <1>3, <1>4, <1>5, <1>6 DEF SessionsInv, SessionInv

(* The steps of both protocols on any session.                             *)
CNext ==
    \/ \E s \in Sessions : Start(s) \/ AStart(s) \/ Break(s)
    \/ \E s \in Sessions : \E x \in {s[1], s[2]} : Step(s, x) \/ AStep(s, x) \/ Ends(s, x)
    \/ \E x \in Boxes, m \in Mails : UserErase(x, m)

LEMMA NextSteps == (FNext => CNext) /\ (ANext => CNext)
  BY AsciiAssumption DEF FNext, ANext, CNext

LEMMA NextKeeps == ForwardInv /\ [CNext]_vars => ForwardInv'
  <1> SUFFICES ASSUME ForwardInv, [CNext]_vars PROVE ForwardInv'
    OBVIOUS
  <1>1. CASE UNCHANGED vars
    BY <1>1, StutterKeeps
  <1>2. ASSUME NEW s \in Sessions, Start(s) \/ AStart(s) \/ Break(s) PROVE ForwardInv'
    BY <1>2, StartKeeps, AStartKeeps, BreakKeeps
  <1>3. ASSUME NEW s \in Sessions, NEW x \in {s[1], s[2]}, Step(s, x) PROVE ForwardInv'
    <2>1. CASE TxProposal(s, x) \/ SendDelay(s, x) \/ RxStatus(s, x) \/ TxMail(s, x)
      BY <2>1, TxProposalKeeps, SendDelayKeeps, RxStatusKeeps, TxMailKeeps
    <2>2. CASE TxDone(s, x) \/ RxFirst(s, x) \/ ParseLine(s, x) \/ TakeLine(s, x)
      BY <2>2, TxDoneKeeps, RxFirstKeeps, ParseLineKeeps, TakeLineKeeps
    <2>3. CASE TxStatus(s, x) \/ EraseForwarded(s, x) \/ EraseDone(s, x) \/ RxHeader(s, x)
      BY <2>3, TxStatusKeeps, EraseForwardedKeeps, EraseDoneKeeps, RxHeaderKeeps
    <2>4. CASE RxData(s, x) \/ RxSave(s, x) \/ RxQueue(s, x) \/ RxDone(s, x)
      BY <2>4, RxDataKeeps, RxSaveKeeps, RxQueueKeeps, RxDoneKeeps
    <2> QED
      BY <1>3, <2>1, <2>2, <2>3, <2>4 DEF Step
  <1>4. ASSUME NEW s \in Sessions, NEW x \in {s[1], s[2]}, AStep(s, x) PROVE ForwardInv'
    <2>1. CASE APr2(s, x) \/ ASend(s, x) \/ AFile(s, x) \/ AReply(s, x)
      BY <2>1, APr2Keeps, ASendKeeps, AFileKeeps, AReplyKeeps
    <2>2. CASE AConfirm(s, x) \/ ADel(s, x) \/ ADelay(s, x) \/ APrompt(s, x)
      BY <2>2, AConfirmKeeps, ADelKeeps, ADelayKeeps, APromptKeeps
    <2>3. CASE ACommand(s, x) \/ AWant(s, x) \/ ATake(s, x) \/ AText(s, x)
      BY <2>3, ACommandKeeps, AWantKeeps, ATakeKeeps, ATextKeeps
    <2>4. CASE ASave(s, x) \/ AQueue(s, x)
      BY <2>4, ASaveKeeps, AQueueKeeps
    <2> QED
      BY <1>4, <2>1, <2>2, <2>3, <2>4 DEF AStep
  <1>5. ASSUME NEW s \in Sessions, NEW x \in {s[1], s[2]}, Ends(s, x) PROVE ForwardInv'
    BY <1>5, DieKeeps, LogoutKeeps DEF Ends
  <1>6. ASSUME NEW x \in Boxes, NEW m \in Mails, UserErase(x, m) PROVE ForwardInv'
    BY <1>6, UserEraseKeeps
  <1> QED
    BY <1>1, <1>2, <1>3, <1>4, <1>5, <1>6 DEF CNext

(* In every state of the FBB protocol alone, and of both together, the     *)
(* partners of a session agree on whose turn it is, and what a task        *)
(* believes of its proposal is so (fwdmachine, fwdputfiles).               *)
THEOREM SessionsAgree == (FSpec => []ForwardInv) /\ (ASpec => []ForwardInv)
  <1>1. Init => ForwardInv
    BY InitTypes, InitSessions DEF ForwardInv
  <1>2. ForwardInv /\ [FNext]_vars => ForwardInv'
    BY NextKeeps, NextSteps
  <1>3. ForwardInv /\ [ANext]_vars => ForwardInv'
    BY NextKeeps, NextSteps
  <1>4. FSpec => []ForwardInv
    BY <1>1, <1>2, PTL DEF FSpec
  <1>5. ASpec => []ForwardInv
    BY <1>1, <1>3, PTL DEF ASpec
  <1> QED
    BY <1>4, <1>5

(* A mail in a board is one text from beginning to end, also when it was   *)
(* resumed after a broken connection, or the fragment it was resumed in    *)
(* came from another text: the CRC over the whole file (rx_yapp_end).      *)
THEOREM StoredWholeHolds == (FSpec => []StoredWhole) /\ (ASpec => []StoredWhole)
  <1>1. ForwardInv => StoredWhole
    BY DEF ForwardInv, BoxTypes, StoredWhole, Wholes, Bits
  <1>2. FSpec => []StoredWhole
    BY <1>1, SessionsAgree, PTL
  <1>3. ASpec => []StoredWhole
    BY <1>1, SessionsAgree, PTL
  <1> QED
    BY <1>2, <1>3

-----------------------------------------------------------------------------
(* Temporary BIDs and senders.                                             *)

(* What a task may do while it has a proposal of its own.                  *)
SendPcs == {"a_file", "a_ok", "a_wp", "a_del"}
JobType(t) ==
    /\ t.pc \in FbbPcs => t.job = "fbb"
    /\ t.pc \in SendPcs => t.job = "fwdsend"
    /\ t.pc \in (AsciiPcs \ SendPcs) \cup {"none"} => t.list = <<>>
Jobs == \A s \in Sessions : \A x \in {s[1], s[2]} : JobType(end[s][x])

(* A step of one task takes at most one new temporary BID, after it has    *)
(* looked at those of all tasks, and becomes a sender only after it has    *)
(* looked for another one.                                                 *)
Proposing(t) == t.list # <<>> /\ t.pc # "end"
Careful(s, x, t, n) ==
    /\ JobType(t) => JobType(n)
    /\ Proposing(n) => Proposing(t) \/ ~AnotherFwdSender(s, x)
    /\ \/ WantSet(n) \subseteq WantSet(t)
       \/ \E m : ~TmpBidVorhanden(s, x, m) /\ WantSet(n) \subseteq WantSet(t) \cup {m}
Elsewhere(s, x) ==
    \A o \in Sessions : \A z \in {o[1], o[2]} : o # s \/ z # x => end'[o][z] = end[o][z]

LEMMA OneEnd ==
    ASSUME ForwardInv, NEW s \in Sessions, NEW x \in {s[1], s[2]}, NEW n, Set(s, x, n)
    PROVE  end'[s][x] = n /\ Elsewhere(s, x)
  BY DEF ForwardInv, SessionsInv, SessionTypes, Set, Elsewhere

(* A step that leaves its proposal and its temporary BIDs as they are.     *)
LEMMA Plain ==
    ASSUME NEW s, NEW x, NEW t, NEW n, n.list = t.list, n.want = t.want,
           t.pc \in FbbPcs \cup AsciiPcs, n.pc \in FbbPcs \cup AsciiPcs \cup {"end"},
           t.pc \in FbbPcs => n.pc \notin AsciiPcs,
           t.pc \in AsciiPcs => n.pc \notin FbbPcs,
           n.pc \in SendPcs => t.pc \in SendPcs,
           t.pc \in SendPcs => n.pc \in SendPcs \cup {"end"},
           n.pc \in FbbPcs \cup SendPcs => n.job = t.job
    PROVE  Careful(s, x, t, n)
  BY DEF Careful, JobType, Proposing, WantSet, FbbPcs, AsciiPcs, SendPcs

LEMMA SendDelayCareful ==
    ASSUME ForwardInv, NEW s \in Sessions, NEW x \in {s[1], s[2]}, SendDelay(s, x)
    PROVE  Careful(s, x, end[s][x], end'[s][x]) /\ Elsewhere(s, x)
  <1> DEFINE t == end[s][x]
             n == end'[s][x]
  <1>1. t.pc = "send_delay" /\ DOMAIN t = Fields
    BY Here DEF SendDelay, At, T, ForwardInv, TaskType
  <1>2. DOMAIN end = Sessions /\ DOMAIN end[s] = {s[1], s[2]}
    BY DEF ForwardInv, SessionsInv, SessionTypes
  <1>3. Elsewhere(s, x)
    <2>1. PICK v : Set(s, x, v)
      BY DEF SendDelay
    <2> QED
      BY <2>1, OneEnd
  <1>9. \/ Set(s, x, [t EXCEPT !.pc = "send_propose", !.delayed = TRUE])
        \/ Set(s, x, [t EXCEPT !.pc = "end", !.job = "end"])
    BY DEF SendDelay, T
  <1>4. /\ n.list = t.list /\ n.want = t.want /\ n.pc \in {"send_propose", "end"}
        /\ n.pc # "end" => n.job = t.job
    <2>1. CASE Set(s, x, [t EXCEPT !.pc = "send_propose", !.delayed = TRUE])
      BY <1>1, <1>2, <2>1 DEF Set, Fields
    <2>2. CASE Set(s, x, [t EXCEPT !.pc = "end", !.job = "end"])
      BY <1>1, <1>2, <2>2 DEF Set, Fields
    <2> QED
      BY <1>9, <2>1, <2>2
  <1> HIDE DEF t, n
  <1>5. Careful(s, x, t, n)
    BY <1>1, <1>4, Plain DEF FbbPcs, AsciiPcs, SendPcs
  <1> QED
    BY <1>3, <1>5 DEF t, n

LEMMA RxStatusCareful ==
    ASSUME ForwardInv, NEW s \in Sessions, NEW x \in {s[1], s[2]}, RxStatus(s, x)
    PROVE  Careful(s, x, end[s][x], end'[s][x]) /\ Elsewhere(s, x)
  <1> DEFINE t == end[s][x]
             n == end'[s][x]
  <1>1. t.pc = "wait_fs" /\ DOMAIN t = Fields
    BY Here DEF RxStatus, At, T, ForwardInv, TaskType
  <1>2. DOMAIN end = Sessions /\ DOMAIN end[s] = {s[1], s[2]}
    BY DEF ForwardInv, SessionsInv, SessionTypes
  <1>3. Elsewhere(s, x)
    <2>1. PICK v : Set(s, x, v)
      BY DEF RxStatus
    <2> QED
      BY <2>1, OneEnd
  <1>4. /\ n.list = t.list /\ n.want = t.want /\ n.pc \in {"send_mail"}
        /\ n.pc # "end" => n.job = t.job
    BY <1>1, <1>2 DEF Set, RxStatus, T, Fields
  <1> HIDE DEF t, n
  <1>5. Careful(s, x, t, n)
    BY <1>1, <1>4, Plain DEF FbbPcs, AsciiPcs, SendPcs
  <1> QED
    BY <1>3, <1>5 DEF t, n

LEMMA TxMailCareful ==
    ASSUME ForwardInv, NEW s \in Sessions, NEW x \in {s[1], s[2]}, TxMail(s, x)
    PROVE  Careful(s, x, end[s][x], end'[s][x]) /\ Elsewhere(s, x)
  <1> DEFINE t == end[s][x]
             n == end'[s][x]
  <1>1. t.pc = "send_mail" /\ DOMAIN t = Fields
    BY Here DEF TxMail, At, T, ForwardInv, TaskType
  <1>2. DOMAIN end = Sessions /\ DOMAIN end[s] = {s[1], s[2]}
    BY DEF ForwardInv, SessionsInv, SessionTypes
  <1>3. Elsewhere(s, x)
    <2>1. PICK v : Set(s, x, v)
      BY DEF TxMail
    <2> QED
      BY <2>1, OneEnd
  <1> DEFINE m == t.list[t.i]
  <1>9. \/ Set(s, x, [t EXCEPT !.i = @ + 1])
        \/ Set(s, x, [t EXCEPT !.pc = "end", !.job = "end"])
        \/ Set(s, x, [t EXCEPT !.i = @ + 1, !.at = m, !.locks = IF t.at \in Personal THEN @ \cup {m} ELSE @])
    BY DEF TxMail, T
  <1> HIDE DEF m
  <1>4. /\ n.list = t.list /\ n.want = t.want /\ n.pc \in {"send_mail", "end"}
        /\ n.pc # "end" => n.job = t.job
    <2>1. CASE Set(s, x, [t EXCEPT !.i = @ + 1])
      BY <1>1, <1>2, <2>1 DEF Set, Fields
    <2>2. CASE Set(s, x, [t EXCEPT !.pc = "end", !.job = "end"])
      BY <1>1, <1>2, <2>2 DEF Set, Fields
    <2>3. CASE Set(s, x, [t EXCEPT !.i = @ + 1, !.at = m, !.locks = IF t.at \in Personal THEN @ \cup {m} ELSE @])
      BY <1>1, <1>2, <2>3 DEF Set, Fields
    <2> QED
      BY <1>9, <2>1, <2>2, <2>3
  <1> HIDE DEF t, n
  <1>5. Careful(s, x, t, n)
    BY <1>1, <1>4, Plain DEF FbbPcs, AsciiPcs, SendPcs
  <1> QED
    BY <1>3, <1>5 DEF t, n

LEMMA TxDoneCareful ==
    ASSUME ForwardInv, NEW s \in Sessions, NEW x \in {s[1], s[2]}, TxDone(s, x)
    PROVE  Careful(s, x, end[s][x], end'[s][x]) /\ Elsewhere(s, x)
  <1> DEFINE t == end[s][x]
             n == end'[s][x]
  <1>1. t.pc = "send_mail" /\ DOMAIN t = Fields
    BY Here DEF TxDone, At, T, ForwardInv, TaskType
  <1>2. DOMAIN end = Sessions /\ DOMAIN end[s] = {s[1], s[2]}
    BY DEF ForwardInv, SessionsInv, SessionTypes
  <1>3. Elsewhere(s, x)
    <2>1. PICK v : Set(s, x, v)
      BY DEF TxDone
    <2> QED
      BY <2>1, OneEnd
  <1>4. /\ n.list = t.list /\ n.want = t.want /\ n.pc \in {"recv_propose"}
        /\ n.pc # "end" => n.job = t.job
    BY <1>1, <1>2 DEF Set, TxDone, T, Fields
  <1> HIDE DEF t, n
  <1>5. Careful(s, x, t, n)
    BY <1>1, <1>4, Plain DEF FbbPcs, AsciiPcs, SendPcs
  <1> QED
    BY <1>3, <1>5 DEF t, n

LEMMA ParseLineCareful ==
    ASSUME ForwardInv, NEW s \in Sessions, NEW x \in {s[1], s[2]}, ParseLine(s, x)
    PROVE  Careful(s, x, end[s][x], end'[s][x]) /\ Elsewhere(s, x)
  <1> DEFINE t == end[s][x]
             n == end'[s][x]
  <1>1. t.pc = "parse" /\ DOMAIN t = Fields
    BY Here DEF ParseLine, At, T, ForwardInv, TaskType
  <1>2. DOMAIN end = Sessions /\ DOMAIN end[s] = {s[1], s[2]}
    BY DEF ForwardInv, SessionsInv, SessionTypes
  <1>3. Elsewhere(s, x)
    <2>1. PICK v : Set(s, x, v)
      BY DEF ParseLine
    <2> QED
      BY <2>1, OneEnd
  <1>4. /\ n.list = t.list /\ n.want = t.want /\ n.pc \in {"parse", "take"}
        /\ n.pc # "end" => n.job = t.job
    BY <1>1, <1>2 DEF Set, ParseLine, T, Fields
  <1> HIDE DEF t, n
  <1>5. Careful(s, x, t, n)
    BY <1>1, <1>4, Plain DEF FbbPcs, AsciiPcs, SendPcs
  <1> QED
    BY <1>3, <1>5 DEF t, n

LEMMA TxStatusCareful ==
    ASSUME ForwardInv, NEW s \in Sessions, NEW x \in {s[1], s[2]}, TxStatus(s, x)
    PROVE  Careful(s, x, end[s][x], end'[s][x]) /\ Elsewhere(s, x)
  <1> DEFINE t == end[s][x]
             n == end'[s][x]
  <1>1. t.pc = "parse" /\ DOMAIN t = Fields
    BY Here DEF TxStatus, At, T, ForwardInv, TaskType
  <1>2. DOMAIN end = Sessions /\ DOMAIN end[s] = {s[1], s[2]}
    BY DEF ForwardInv, SessionsInv, SessionTypes
  <1>3. Elsewhere(s, x)
    <2>1. PICK v : Set(s, x, v)
      BY DEF TxStatus
    <2> QED
      BY <2>1, OneEnd
  <1>4. /\ n.list = t.list /\ n.want = t.want /\ n.pc \in {"erase", "recv_mail"}
        /\ n.pc # "end" => n.job = t.job
    BY <1>1, <1>2 DEF Set, TxStatus, T, Fields, Confirmed
  <1> HIDE DEF t, n
  <1>5. Careful(s, x, t, n)
    BY <1>1, <1>4, Plain DEF FbbPcs, AsciiPcs, SendPcs
  <1> QED
    BY <1>3, <1>5 DEF t, n

LEMMA EraseForwardedCareful ==
    ASSUME ForwardInv, NEW s \in Sessions, NEW x \in {s[1], s[2]}, EraseForwarded(s, x)
    PROVE  Careful(s, x, end[s][x], end'[s][x]) /\ Elsewhere(s, x)
  <1> DEFINE t == end[s][x]
             n == end'[s][x]
  <1>1. t.pc = "erase" /\ DOMAIN t = Fields
    BY Here DEF EraseForwarded, At, T, ForwardInv, TaskType
  <1>2. DOMAIN end = Sessions /\ DOMAIN end[s] = {s[1], s[2]}
    BY DEF ForwardInv, SessionsInv, SessionTypes
  <1>3. Elsewhere(s, x)
    <2>1. PICK v : Set(s, x, v)
      BY DEF EraseForwarded
    <2> QED
      BY <2>1, OneEnd
  <1>4. /\ n.list = t.list /\ n.want = t.want /\ n.pc \in {"erase"}
        /\ n.pc # "end" => n.job = t.job
    BY <1>1, <1>2 DEF Set, EraseForwarded, T, Fields
  <1> HIDE DEF t, n
  <1>5. Careful(s, x, t, n)
    BY <1>1, <1>4, Plain DEF FbbPcs, AsciiPcs, SendPcs
  <1> QED
    BY <1>3, <1>5 DEF t, n

LEMMA RxHeaderCareful ==
    ASSUME ForwardInv, NEW s \in Sessions, NEW x \in {s[1], s[2]}, RxHeader(s, x)
    PROVE  Careful(s, x, end[s][x], end'[s][x]) /\ Elsewhere(s, x)
  <1> DEFINE t == end[s][x]
             n == end'[s][x]
  <1>1. t.pc = "recv_mail" /\ DOMAIN t = Fields
    BY Here DEF RxHeader, At, T, ForwardInv, TaskType
  <1>2. DOMAIN end = Sessions /\ DOMAIN end[s] = {s[1], s[2]}
    BY DEF ForwardInv, SessionsInv, SessionTypes
  <1>3. Elsewhere(s, x)
    <2>1. PICK v : Set(s, x, v)
      BY DEF RxHeader
    <2> QED
      BY <2>1, OneEnd
  <1>4. /\ n.list = t.list /\ n.want = t.want /\ n.pc \in {"recv_data"}
        /\ n.pc # "end" => n.job = t.job
    BY <1>1, <1>2 DEF Set, RxHeader, T, Fields
  <1> HIDE DEF t, n
  <1>5. Careful(s, x, t, n)
    BY <1>1, <1>4, Plain DEF FbbPcs, AsciiPcs, SendPcs
  <1> QED
    BY <1>3, <1>5 DEF t, n

LEMMA RxDataCareful ==
    ASSUME ForwardInv, NEW s \in Sessions, NEW x \in {s[1], s[2]}, RxData(s, x)
    PROVE  Careful(s, x, end[s][x], end'[s][x]) /\ Elsewhere(s, x)
  <1> DEFINE t == end[s][x]
             n == end'[s][x]
  <1>1. t.pc = "recv_data" /\ DOMAIN t = Fields
    BY Here DEF RxData, At, T, ForwardInv, TaskType
  <1>2. DOMAIN end = Sessions /\ DOMAIN end[s] = {s[1], s[2]}
    BY DEF ForwardInv, SessionsInv, SessionTypes
  <1>3. Elsewhere(s, x)
    <2>1. PICK v : Set(s, x, v)
      BY DEF RxData
    <2> QED
      BY <2>1, OneEnd
  <1> DEFINE k == t.i + 1
             b == Head(wire[s][x])[3][k]
  <1>9. \/ Set(s, x, [t EXCEPT !.i = k, !.got = Append(@, b)])
        \/ Set(s, x, [t EXCEPT !.pc = "save"])
        \/ Set(s, x, [t EXCEPT !.pc = "end", !.job = "end"])
    BY DEF RxData, T, RxEnd
  <1> HIDE DEF k, b
  <1>4. /\ n.list = t.list /\ n.want = t.want /\ n.pc \in {"recv_data", "save", "end"}
        /\ n.pc # "end" => n.job = t.job
    <2>1. CASE Set(s, x, [t EXCEPT !.i = k, !.got = Append(@, b)])
      BY <1>1, <1>2, <2>1 DEF Set, Fields
    <2>2. CASE Set(s, x, [t EXCEPT !.pc = "save"])
      BY <1>1, <1>2, <2>2 DEF Set, Fields
    <2>3. CASE Set(s, x, [t EXCEPT !.pc = "end", !.job = "end"])
      BY <1>1, <1>2, <2>3 DEF Set, Fields
    <2> QED
      BY <1>9, <2>1, <2>2, <2>3
  <1> HIDE DEF t, n
  <1>5. Careful(s, x, t, n)
    BY <1>1, <1>4, Plain DEF FbbPcs, AsciiPcs, SendPcs
  <1> QED
    BY <1>3, <1>5 DEF t, n

LEMMA RxSaveCareful ==
    ASSUME ForwardInv, NEW s \in Sessions, NEW x \in {s[1], s[2]}, RxSave(s, x)
    PROVE  Careful(s, x, end[s][x], end'[s][x]) /\ Elsewhere(s, x)
  <1> DEFINE t == end[s][x]
             n == end'[s][x]
  <1>1. t.pc = "save" /\ DOMAIN t = Fields
    BY Here DEF RxSave, At, T, ForwardInv, TaskType
  <1>2. DOMAIN end = Sessions /\ DOMAIN end[s] = {s[1], s[2]}
    BY DEF ForwardInv, SessionsInv, SessionTypes
  <1>3. Elsewhere(s, x)
    <2>1. PICK v : Set(s, x, v)
      BY DEF RxSave
    <2> QED
      BY <2>1, OneEnd
  <1>4. /\ n.list = t.list /\ n.want = t.want /\ n.pc \in {"queue"}
        /\ n.pc # "end" => n.job = t.job
    BY <1>1, <1>2 DEF Set, RxSave, T, Fields
  <1> HIDE DEF t, n
  <1>5. Careful(s, x, t, n)
    BY <1>1, <1>4, Plain DEF FbbPcs, AsciiPcs, SendPcs
  <1> QED
    BY <1>3, <1>5 DEF t, n

LEMMA RxDoneCareful ==
    ASSUME ForwardInv, NEW s \in Sessions, NEW x \in {s[1], s[2]}, RxDone(s, x)
    PROVE  Careful(s, x, end[s][x], end'[s][x]) /\ Elsewhere(s, x)
  <1> DEFINE t == end[s][x]
             n == end'[s][x]
  <1>1. t.pc = "recv_mail" /\ DOMAIN t = Fields
    BY Here DEF RxDone, At, T, ForwardInv, TaskType
  <1>2. DOMAIN end = Sessions /\ DOMAIN end[s] = {s[1], s[2]}
    BY DEF ForwardInv, SessionsInv, SessionTypes
  <1>3. Elsewhere(s, x)
    <2>1. PICK v : Set(s, x, v)
      BY DEF RxDone
    <2> QED
      BY <2>1, OneEnd
  <1>4. /\ n.list = t.list /\ n.want = t.want /\ n.pc \in {"send_propose"}
        /\ n.pc # "end" => n.job = t.job
    BY <1>1, <1>2 DEF Set, RxDone, T, Fields
  <1> HIDE DEF t, n
  <1>5. Careful(s, x, t, n)
    BY <1>1, <1>4, Plain DEF FbbPcs, AsciiPcs, SendPcs
  <1> QED
    BY <1>3, <1>5 DEF t, n

LEMMA AFileCareful ==
    ASSUME ForwardInv, NEW s \in Sessions, NEW x \in {s[1], s[2]}, AFile(s, x)
    PROVE  Careful(s, x, end[s][x], end'[s][x]) /\ Elsewhere(s, x)
  <1> DEFINE t == end[s][x]
             n == end'[s][x]
  <1>1. t.pc = "a_file" /\ DOMAIN t = Fields
    BY Here DEF AFile, At, T, ForwardInv, TaskType
  <1>2. DOMAIN end = Sessions /\ DOMAIN end[s] = {s[1], s[2]}
    BY DEF ForwardInv, SessionsInv, SessionTypes
  <1>3. Elsewhere(s, x)
    <2>1. PICK v : Set(s, x, v)
      BY DEF AFile, Go
    <2> QED
      BY <2>1, OneEnd
  <1> DEFINE l == {Cur(s, x)} \cap Personal
  <1>9. \/ Set(s, x, [t EXCEPT !.pc = "a_ok", !.locks = l])
        \/ Set(s, x, [t EXCEPT !.pc = "a_del"])
    BY DEF AFile, T, Go
  <1> HIDE DEF l
  <1>4. /\ n.list = t.list /\ n.want = t.want /\ n.pc \in {"a_ok", "a_del"}
        /\ n.pc # "end" => n.job = t.job
    <2>1. CASE Set(s, x, [t EXCEPT !.pc = "a_ok", !.locks = l])
      BY <1>1, <1>2, <2>1 DEF Set, Fields
    <2>2. CASE Set(s, x, [t EXCEPT !.pc = "a_del"])
      BY <1>1, <1>2, <2>2 DEF Set, Fields
    <2> QED
      BY <1>9, <2>1, <2>2
  <1> HIDE DEF t, n
  <1>5. Careful(s, x, t, n)
    BY <1>1, <1>4, Plain DEF FbbPcs, AsciiPcs, SendPcs
  <1> QED
    BY <1>3, <1>5 DEF t, n

LEMMA AReplyCareful ==
    ASSUME ForwardInv, NEW s \in Sessions, NEW x \in {s[1], s[2]}, AReply(s, x)
    PROVE  Careful(s, x, end[s][x], end'[s][x]) /\ Elsewhere(s, x)
  <1> DEFINE t == end[s][x]
             n == end'[s][x]
  <1>1. t.pc = "a_ok" /\ DOMAIN t = Fields
    BY Here DEF AReply, At, T, ForwardInv, TaskType
  <1>2. DOMAIN end = Sessions /\ DOMAIN end[s] = {s[1], s[2]}
    BY DEF ForwardInv, SessionsInv, SessionTypes
  <1>3. Elsewhere(s, x)
    <2>1. PICK v : Set(s, x, v)
      BY DEF AReply
    <2> QED
      BY <2>1, OneEnd
  <1>4. /\ n.list = t.list /\ n.want = t.want /\ n.pc \in {"a_wp"}
        /\ n.pc # "end" => n.job = t.job
    BY <1>1, <1>2 DEF Set, AReply, T, Fields
  <1> HIDE DEF t, n
  <1>5. Careful(s, x, t, n)
    BY <1>1, <1>4, Plain DEF FbbPcs, AsciiPcs, SendPcs
  <1> QED
    BY <1>3, <1>5 DEF t, n

LEMMA AConfirmCareful ==
    ASSUME ForwardInv, NEW s \in Sessions, NEW x \in {s[1], s[2]}, AConfirm(s, x)
    PROVE  Careful(s, x, end[s][x], end'[s][x]) /\ Elsewhere(s, x)
  <1> DEFINE t == end[s][x]
             n == end'[s][x]
  <1>1. t.pc = "a_wp" /\ DOMAIN t = Fields
    BY Here DEF AConfirm, At, T, ForwardInv, TaskType
  <1>2. DOMAIN end = Sessions /\ DOMAIN end[s] = {s[1], s[2]}
    BY DEF ForwardInv, SessionsInv, SessionTypes
  <1>3. Elsewhere(s, x)
    <2>1. PICK v : Set(s, x, v)
      BY DEF AConfirm
    <2> QED
      BY <2>1, OneEnd
  <1>4. /\ n.list = t.list /\ n.want = t.want /\ n.pc \in {"a_del"}
        /\ n.pc # "end" => n.job = t.job
    BY <1>1, <1>2 DEF Set, AConfirm, T, Fields
  <1> HIDE DEF t, n
  <1>5. Careful(s, x, t, n)
    BY <1>1, <1>4, Plain DEF FbbPcs, AsciiPcs, SendPcs
  <1> QED
    BY <1>3, <1>5 DEF t, n

LEMMA ADelayCareful ==
    ASSUME ForwardInv, NEW s \in Sessions, NEW x \in {s[1], s[2]}, ADelay(s, x)
    PROVE  Careful(s, x, end[s][x], end'[s][x]) /\ Elsewhere(s, x)
  <1> DEFINE t == end[s][x]
             n == end'[s][x]
  <1>1. t.pc = "a_delay" /\ DOMAIN t = Fields
    BY Here DEF ADelay, At, T, ForwardInv, TaskType
  <1>2. DOMAIN end = Sessions /\ DOMAIN end[s] = {s[1], s[2]}
    BY DEF ForwardInv, SessionsInv, SessionTypes
  <1>3. Elsewhere(s, x)
    <2>1. PICK v : Set(s, x, v)
      BY DEF ADelay, Go
    <2> QED
      BY <2>1, OneEnd
  <1>9. \/ Set(s, x, [t EXCEPT !.pc = "a_send"])
        \/ Set(s, x, [t EXCEPT !.pc = "end", !.job = "end"])
        \/ Set(s, x, [t EXCEPT !.pc = "a_receive"])
    BY DEF ADelay, T, Go
  <1>4. /\ n.list = t.list /\ n.want = t.want /\ n.pc \in {"a_send", "a_receive", "end"}
        /\ n.pc # "end" => n.job = t.job
    <2>1. CASE Set(s, x, [t EXCEPT !.pc = "a_send"])
      BY <1>1, <1>2, <2>1 DEF Set, Fields
    <2>2. CASE Set(s, x, [t EXCEPT !.pc = "end", !.job = "end"])
      BY <1>1, <1>2, <2>2 DEF Set, Fields
    <2>3. CASE Set(s, x, [t EXCEPT !.pc = "a_receive"])
      BY <1>1, <1>2, <2>3 DEF Set, Fields
    <2> QED
      BY <1>9, <2>1, <2>2, <2>3
  <1> HIDE DEF t, n
  <1>5. Careful(s, x, t, n)
    BY <1>1, <1>4, Plain DEF FbbPcs, AsciiPcs, SendPcs
  <1> QED
    BY <1>3, <1>5 DEF t, n

LEMMA ATextCareful ==
    ASSUME ForwardInv, NEW s \in Sessions, NEW x \in {s[1], s[2]}, AText(s, x)
    PROVE  Careful(s, x, end[s][x], end'[s][x]) /\ Elsewhere(s, x)
  <1> DEFINE t == end[s][x]
             n == end'[s][x]
  <1>1. t.pc = "a_text" /\ DOMAIN t = Fields
    BY Here DEF AText, At, T, ForwardInv, TaskType
  <1>2. DOMAIN end = Sessions /\ DOMAIN end[s] = {s[1], s[2]}
    BY DEF ForwardInv, SessionsInv, SessionTypes
  <1>3. Elsewhere(s, x)
    <2>1. PICK v : Set(s, x, v)
      BY DEF AText
    <2> QED
      BY <2>1, OneEnd
  <1>4. /\ n.list = t.list /\ n.want = t.want /\ n.pc \in {"a_save"}
        /\ n.pc # "end" => n.job = t.job
    BY <1>1, <1>2 DEF Set, AText, T, Fields
  <1> HIDE DEF t, n
  <1>5. Careful(s, x, t, n)
    BY <1>1, <1>4, Plain DEF FbbPcs, AsciiPcs, SendPcs
  <1> QED
    BY <1>3, <1>5 DEF t, n

LEMMA ASaveCareful ==
    ASSUME ForwardInv, NEW s \in Sessions, NEW x \in {s[1], s[2]}, ASave(s, x)
    PROVE  Careful(s, x, end[s][x], end'[s][x]) /\ Elsewhere(s, x)
  <1> DEFINE t == end[s][x]
             n == end'[s][x]
  <1>1. t.pc = "a_save" /\ DOMAIN t = Fields
    BY Here DEF ASave, At, T, ForwardInv, TaskType
  <1>2. DOMAIN end = Sessions /\ DOMAIN end[s] = {s[1], s[2]}
    BY DEF ForwardInv, SessionsInv, SessionTypes
  <1>3. Elsewhere(s, x)
    <2>1. PICK v : Set(s, x, v)
      BY DEF ASave
    <2> QED
      BY <2>1, OneEnd
  <1>4. /\ n.list = t.list /\ n.want = t.want /\ n.pc \in {"a_queue"}
        /\ n.pc # "end" => n.job = t.job
    BY <1>1, <1>2 DEF Set, ASave, T, Fields
  <1> HIDE DEF t, n
  <1>5. Careful(s, x, t, n)
    BY <1>1, <1>4, Plain DEF FbbPcs, AsciiPcs, SendPcs
  <1> QED
    BY <1>3, <1>5 DEF t, n

LEMMA AWantCareful ==
    ASSUME ForwardInv, NEW s \in Sessions, NEW x \in {s[1], s[2]}, AWant(s, x)
    PROVE  Careful(s, x, end[s][x], end'[s][x]) /\ Elsewhere(s, x)
  <1> DEFINE t == end[s][x]
             n == end'[s][x]
  <1>1. t.pc = "a_want" /\ DOMAIN t = Fields
    BY Here DEF AWant, At, T, ForwardInv, TaskType
  <1>2. DOMAIN end = Sessions /\ DOMAIN end[s] = {s[1], s[2]}
    BY DEF ForwardInv, SessionsInv, SessionTypes
  <1>3. Elsewhere(s, x)
    <2>1. PICK v : Set(s, x, v)
      BY DEF AWant, Go
    <2> QED
      BY <2>1, OneEnd
  <1>9. \/ Set(s, x, [t EXCEPT !.pc = "a_take"])
        \/ Set(s, x, [t EXCEPT !.pc = "a_prompt", !.ask = <<>>])
    BY DEF AWant, T, Go
  <1>4. /\ n.list = t.list /\ n.want = t.want /\ n.pc \in {"a_take", "a_prompt"}
        /\ n.pc # "end" => n.job = t.job
    <2>1. CASE Set(s, x, [t EXCEPT !.pc = "a_take"])
      BY <1>1, <1>2, <2>1 DEF Set, Fields
    <2>2. CASE Set(s, x, [t EXCEPT !.pc = "a_prompt", !.ask = <<>>])
      BY <1>1, <1>2, <2>2 DEF Set, Fields
    <2> QED
      BY <1>9, <2>1, <2>2
  <1> HIDE DEF t, n
  <1>5. Careful(s, x, t, n)
    BY <1>1, <1>4, Plain DEF FbbPcs, AsciiPcs, SendPcs
  <1> QED
    BY <1>3, <1>5 DEF t, n

LEMMA APr2Careful ==
    ASSUME ForwardInv, NEW s \in Sessions, NEW x \in {s[1], s[2]}, APr2(s, x)
    PROVE  Careful(s, x, end[s][x], end'[s][x]) /\ Elsewhere(s, x)
  <1> DEFINE t == end[s][x]
             n == end'[s][x]
  <1>1. t.pc = "a_pr2" /\ DOMAIN t = Fields
    BY Here DEF APr2, At, T, ForwardInv, TaskType
  <1>2. DOMAIN end = Sessions /\ DOMAIN end[s] = {s[1], s[2]}
    BY DEF ForwardInv, SessionsInv, SessionTypes
  <1>3. Elsewhere(s, x)
    <2>1. PICK v : Set(s, x, v)
      BY DEF APr2
    <2> QED
      BY <2>1, OneEnd
  <1>4. n.list = t.list /\ n.want = t.want /\ n.pc \in {"a_send"}
    BY <1>1, <1>2 DEF Set, APr2, T, Fields
  <1> HIDE DEF t, n
  <1>5. Careful(s, x, t, n)
    BY <1>1, <1>4, Plain DEF FbbPcs, AsciiPcs, SendPcs
  <1> QED
    BY <1>3, <1>5 DEF t, n

LEMMA APromptCareful ==
    ASSUME ForwardInv, NEW s \in Sessions, NEW x \in {s[1], s[2]}, APrompt(s, x)
    PROVE  Careful(s, x, end[s][x], end'[s][x]) /\ Elsewhere(s, x)
  <1> DEFINE t == end[s][x]
             n == end'[s][x]
  <1>1. t.pc = "a_prompt" /\ DOMAIN t = Fields
    BY Here DEF APrompt, At, T, ForwardInv, TaskType
  <1>2. DOMAIN end = Sessions /\ DOMAIN end[s] = {s[1], s[2]}
    BY DEF ForwardInv, SessionsInv, SessionTypes
  <1>3. Elsewhere(s, x)
    <2>1. PICK v : Set(s, x, v)
      BY DEF APrompt
    <2> QED
      BY <2>1, OneEnd
  <1>4. n.list = t.list /\ n.want = t.want /\ n.pc \in {"a_receive"}
    BY <1>1, <1>2 DEF Set, APrompt, T, Fields
  <1> HIDE DEF t, n
  <1>5. Careful(s, x, t, n)
    BY <1>1, <1>4, Plain DEF FbbPcs, AsciiPcs, SendPcs
  <1> QED
    BY <1>3, <1>5 DEF t, n

LEMMA ACommandCareful ==
    ASSUME ForwardInv, NEW s \in Sessions, NEW x \in {s[1], s[2]}, ACommand(s, x)
    PROVE  Careful(s, x, end[s][x], end'[s][x]) /\ Elsewhere(s, x)
  <1> DEFINE t == end[s][x]
             n == end'[s][x]
  <1>1. t.pc = "a_receive" /\ DOMAIN t = Fields
    BY Here DEF ACommand, At, T, ForwardInv, TaskType
  <1>2. DOMAIN end = Sessions /\ DOMAIN end[s] = {s[1], s[2]}
    BY DEF ForwardInv, SessionsInv, SessionTypes
  <1>3. Elsewhere(s, x)
    <2>1. PICK v : Set(s, x, v)
      BY DEF ACommand
    <2> QED
      BY <2>1, OneEnd
  <1>4. n.list = t.list /\ n.want = t.want /\ n.pc \in {"a_want", "a_delay", "a_prompt", "end"}
    BY <1>1, <1>2 DEF Set, ACommand, T, Fields
  <1> HIDE DEF t, n
  <1>5. Careful(s, x, t, n)
    BY <1>1, <1>4, Plain DEF FbbPcs, AsciiPcs, SendPcs
  <1> QED
    BY <1>3, <1>5 DEF t, n

LEMMA TxProposalCareful ==
    ASSUME ForwardInv, NEW s \in Sessions, NEW x \in {s[1], s[2]}, TxProposal(s, x)
    PROVE  Careful(s, x, end[s][x], end'[s][x]) /\ Elsewhere(s, x)
  <1> DEFINE t == end[s][x]
             n == end'[s][x]
  <1>1. t.pc = "send_propose" /\ DOMAIN t = Fields
    BY Here DEF TxProposal, At, T, ForwardInv, TaskType
  <1>2. DOMAIN end = Sessions /\ DOMAIN end[s] = {s[1], s[2]}
    BY DEF ForwardInv, SessionsInv, SessionTypes
  <1>3. Elsewhere(s, x)
    <2>1. PICK v : Set(s, x, v)
      BY DEF TxProposal
    <2> QED
      BY <2>1, OneEnd
  <1> DEFINE t0 == [t EXCEPT !.list = <<>>, !.stat = <<>>, !.i = 0]
             due == IF AnotherFwdSender(s, x) THEN <<>>
                    ELSE GetFwdListEntry(x, Peer(s, x), MaxProp)
  <1>9. \/ Set(s, x, [t0 EXCEPT !.pc = "wait_fs", !.list = due, !.at = Last(due), !.delayed = FALSE]) /\ due # <<>>
        \/ Set(s, x, [t0 EXCEPT !.pc = "recv_propose", !.delayed = FALSE])
        \/ Set(s, x, [t0 EXCEPT !.pc = "send_delay"])
    BY DEF TxProposal, T
  <1>4. /\ n.want = t.want /\ n.pc \in {"wait_fs", "recv_propose", "send_delay"}
        /\ n.job = t.job /\ (n.list # <<>> => ~AnotherFwdSender(s, x))
    <2>1. CASE Set(s, x, [t0 EXCEPT !.pc = "wait_fs", !.list = due, !.at = Last(due), !.delayed = FALSE]) /\ due # <<>>
      BY <1>1, <1>2, <2>1 DEF Set, Fields
    <2>2. CASE Set(s, x, [t0 EXCEPT !.pc = "recv_propose", !.delayed = FALSE])
      BY <1>1, <1>2, <2>2 DEF Set, Fields
    <2>3. CASE Set(s, x, [t0 EXCEPT !.pc = "send_delay"])
      BY <1>1, <1>2, <2>3 DEF Set, Fields
    <2> QED
      BY <1>9, <2>1, <2>2, <2>3
  <1> HIDE DEF t, n
  <1> QED
    BY <1>1, <1>3, <1>4 DEF t, n, Careful, JobType, Proposing, WantSet, FbbPcs, AsciiPcs,
       SendPcs

LEMMA RxFirstCareful ==
    ASSUME ForwardInv, NEW s \in Sessions, NEW x \in {s[1], s[2]}, RxFirst(s, x)
    PROVE  Careful(s, x, end[s][x], end'[s][x]) /\ Elsewhere(s, x)
  <1> DEFINE t == end[s][x]
             n == end'[s][x]
  <1>1. t.pc = "recv_propose" /\ DOMAIN t = Fields
    BY Here DEF RxFirst, At, T, ForwardInv, TaskType
  <1>2. DOMAIN end = Sessions /\ DOMAIN end[s] = {s[1], s[2]}
    BY DEF ForwardInv, SessionsInv, SessionTypes
  <1>3. Elsewhere(s, x)
    <2>1. PICK v : Set(s, x, v)
      BY DEF RxFirst
    <2> QED
      BY <2>1, OneEnd
  <1> DEFINE h == [t EXCEPT !.had = FALSE]
             ask == Head(wire[s][x])[2]
  <1>9. \/ Set(s, x, [t EXCEPT !.pc = "parse", !.ans = <<>>, !.want = <<>>, !.ask = ask])
        \/ Set(s, x, Confirmed(h, "send_propose"))
        \/ Set(s, x, Confirmed(t, "end"))
    BY DEF RxFirst, T
  <1>4. /\ n.list = t.list /\ n.want \in {t.want, <<>>}
        /\ n.pc \in {"parse", "erase", "send_propose", "end"}
        /\ n.job = t.job
    <2>1. CASE Set(s, x, [t EXCEPT !.pc = "parse", !.ans = <<>>, !.want = <<>>, !.ask = ask])
      BY <1>1, <1>2, <2>1 DEF Set, Fields, Confirmed
    <2>2. CASE Set(s, x, Confirmed(h, "send_propose"))
      BY <1>1, <1>2, <2>2 DEF Set, Fields, Confirmed
    <2>3. CASE Set(s, x, Confirmed(t, "end"))
      BY <1>1, <1>2, <2>3 DEF Set, Fields, Confirmed
    <2> QED
      BY <1>9, <2>1, <2>2, <2>3
  <1> HIDE DEF t, n
  <1>5. WantSet(n) \subseteq WantSet(t)
    BY <1>4 DEF WantSet
  <1> QED
    BY <1>1, <1>3, <1>4, <1>5 DEF t, n, Careful, JobType, Proposing, FbbPcs, AsciiPcs, SendPcs

LEMMA TakeLineCareful ==
    ASSUME ForwardInv, NEW s \in Sessions, NEW x \in {s[1], s[2]}, TakeLine(s, x)
    PROVE  Careful(s, x, end[s][x], end'[s][x]) /\ Elsewhere(s, x)
  <1> DEFINE t == end[s][x]
             n == end'[s][x]
  <1>1. t.pc = "take" /\ DOMAIN t = Fields
        /\ t.want \in Seq(Replies) /\ Len(t.ans) < Len(t.ask)
        /\ t.ans \in Seq(Replies)
    BY Here DEF TakeLine, At, T, ForwardInv, TaskType
  <1>2. DOMAIN end = Sessions /\ DOMAIN end[s] = {s[1], s[2]}
    BY DEF ForwardInv, SessionsInv, SessionTypes
  <1>3. Elsewhere(s, x)
    <2>1. PICK v : Set(s, x, v)
      BY DEF TakeLine
    <2> QED
      BY <2>1, OneEnd
  <1> DEFINE m == t.ask[Len(t.ans) + 1]
             off == ResumeAt(frag[x][Peer(s, x)][m])
             a == Answer(m, "yes", off)
  <1>9. \/ Set(s, x, [t EXCEPT !.pc = "parse", !.ans = Append(@, Answer(m, "later", 0))])
        \/ /\ Set(s, x, [t EXCEPT !.pc = "parse", !.ans = Append(@, a), !.want = Append(@, a)])
           /\ ~TmpBidVorhanden(s, x, m)
    BY DEF TakeLine, T
  <1> HIDE DEF m, off, a
  <1>4. /\ n.list = t.list /\ n.pc = "parse" /\ n.job = t.job
        /\ \/ n.want = t.want
           \/ n.want = Append(t.want, a) /\ ~TmpBidVorhanden(s, x, m)
    <2>1. CASE Set(s, x, [t EXCEPT !.pc = "parse", !.ans = Append(@, Answer(m, "later", 0))])
      BY <1>1, <1>2, <2>1 DEF Set, Fields
    <2>2. CASE /\ Set(s, x, [t EXCEPT !.pc = "parse", !.ans = Append(@, a), !.want = Append(@, a)])
               /\ ~TmpBidVorhanden(s, x, m)
      BY <1>1, <1>2, <2>2 DEF Set, Fields
    <2> QED
      BY <1>9, <2>1, <2>2
  <1>5. a.m = m
    BY DEF Answer, a
  <1>6. \/ WantSet(n) \subseteq WantSet(t)
        \/ ~TmpBidVorhanden(s, x, m) /\ WantSet(n) \subseteq WantSet(t) \cup {m}
    <2>1. CASE n.want = t.want
      BY <2>1 DEF WantSet
    <2>2. CASE n.want = Append(t.want, a) /\ ~TmpBidVorhanden(s, x, m)
      <3>1. Len(n.want) = Len(t.want) + 1 /\ n.want[Len(t.want) + 1] = a
            /\ \A k \in 1 .. Len(t.want) : n.want[k] = t.want[k]
        BY <1>1, <2>2
      <3>2. Len(t.want) \in Nat
        BY <1>1
      <3> HIDE DEF t, n
      <3>3. \A k \in 1 .. Len(n.want) : k \in 1 .. Len(t.want) \/ k = Len(t.want) + 1
        BY <3>1, <3>2
      <3> QED
        BY <1>5, <2>2, <3>1, <3>3 DEF WantSet
    <2> QED
      BY <1>4, <2>1, <2>2
  <1> HIDE DEF t, n
  <1> QED
    BY <1>1, <1>3, <1>4, <1>6 DEF t, n, Careful, JobType, Proposing, FbbPcs, AsciiPcs, SendPcs

LEMMA EraseDoneCareful ==
    ASSUME ForwardInv, NEW s \in Sessions, NEW x \in {s[1], s[2]}, EraseDone(s, x)
    PROVE  Careful(s, x, end[s][x], end'[s][x]) /\ Elsewhere(s, x)
  <1> DEFINE t == end[s][x]
             n == end'[s][x]
  <1>1. t.pc = "erase" /\ DOMAIN t = Fields /\ t.next \in {"recv_mail", "send_propose", "end"}
    BY Here DEF EraseDone, At, T, ForwardInv, TaskType
  <1>2. DOMAIN end = Sessions /\ DOMAIN end[s] = {s[1], s[2]}
    BY DEF ForwardInv, SessionsInv, SessionTypes
  <1>3. Elsewhere(s, x)
    <2>1. PICK v : Set(s, x, v)
      BY DEF EraseDone
    <2> QED
      BY <2>1, OneEnd
  <1>4. n.want = t.want /\ n.pc = t.next /\ n.job = t.job /\ n.list = <<>>
    BY <1>1, <1>2 DEF Set, EraseDone, T, Fields
  <1> HIDE DEF t, n
  <1> QED
    BY <1>1, <1>3, <1>4 DEF t, n, Careful, JobType, Proposing, WantSet, FbbPcs, AsciiPcs,
       SendPcs

LEMMA RxQueueCareful ==
    ASSUME ForwardInv, NEW s \in Sessions, NEW x \in {s[1], s[2]}, RxQueue(s, x)
    PROVE  Careful(s, x, end[s][x], end'[s][x]) /\ Elsewhere(s, x)
  <1> DEFINE t == end[s][x]
             n == end'[s][x]
  <1>1. t.pc = "queue" /\ DOMAIN t = Fields /\ t.want \in Seq(Replies) /\ t.want # <<>>
    BY Here DEF RxQueue, At, T, ForwardInv, TaskType
  <1>2. DOMAIN end = Sessions /\ DOMAIN end[s] = {s[1], s[2]}
    BY DEF ForwardInv, SessionsInv, SessionTypes
  <1>3. Elsewhere(s, x)
    <2>1. PICK v : Set(s, x, v)
      BY DEF RxQueue
    <2> QED
      BY <2>1, OneEnd
  <1>4. n.want = Tail(t.want) /\ n.pc = "recv_mail" /\ n.job = t.job /\ n.list = t.list
    BY <1>1, <1>2 DEF Set, RxQueue, T, Fields
  <1>5. WantSet(n) \subseteq WantSet(t)
    <2>1. /\ Len(n.want) = Len(t.want) - 1 /\ Len(t.want) \in Nat
          /\ \A k \in 1 .. Len(n.want) : n.want[k] = t.want[k + 1] /\ k + 1 \in 1 .. Len(t.want)
      BY <1>1, <1>4
    <2> HIDE DEF t, n
    <2> QED
      BY <2>1 DEF WantSet
  <1> HIDE DEF t, n
  <1> QED
    BY <1>1, <1>3, <1>4, <1>5 DEF t, n, Careful, JobType, Proposing, FbbPcs, AsciiPcs, SendPcs

LEMMA ASendCareful ==
    ASSUME ForwardInv, NEW s \in Sessions, NEW x \in {s[1], s[2]}, ASend(s, x)
    PROVE  Careful(s, x, end[s][x], end'[s][x]) /\ Elsewhere(s, x)
  <1> DEFINE t == end[s][x]
             n == end'[s][x]
  <1>1. t.pc = "a_send" /\ DOMAIN t = Fields
    BY Here DEF ASend, At, T, ForwardInv, TaskType
  <1>2. DOMAIN end = Sessions /\ DOMAIN end[s] = {s[1], s[2]}
    BY DEF ForwardInv, SessionsInv, SessionTypes
  <1>3. Elsewhere(s, x)
    <2>1. PICK v : Set(s, x, v)
      BY DEF ASend
    <2> QED
      BY <2>1, OneEnd
  <1> DEFINE due == GetFwdListEntry(x, Peer(s, x), 1)
  <1>9. \/ Set(s, x, [t EXCEPT !.pc = "end", !.job = "end"])
        \/ /\ Set(s, x, [t EXCEPT !.job = "fwdsend", !.list = due, !.pc = IF due = <<>> THEN "a_delay" ELSE "a_file"])
           /\ ~AnotherFwdSender(s, x)
    BY DEF ASend, T
  <1> HIDE DEF due
  <1>4. /\ n.want = t.want /\ n.pc \in {"end", "a_delay", "a_file"}
        /\ n.pc = "a_file" => n.job = "fwdsend" /\ ~AnotherFwdSender(s, x)
        /\ n.pc = "a_delay" => n.list = <<>>
    <2>1. CASE Set(s, x, [t EXCEPT !.pc = "end", !.job = "end"])
      BY <1>1, <1>2, <2>1 DEF Set, Fields
    <2>2. CASE /\ Set(s, x, [t EXCEPT !.job = "fwdsend", !.list = due, !.pc = IF due = <<>> THEN "a_delay" ELSE "a_file"])
               /\ ~AnotherFwdSender(s, x)
      BY <1>1, <1>2, <2>2 DEF Set, Fields
    <2> QED
      BY <1>9, <2>1, <2>2
  <1> HIDE DEF t, n
  <1> QED
    BY <1>1, <1>3, <1>4 DEF t, n, Careful, JobType, Proposing, WantSet, FbbPcs, AsciiPcs,
       SendPcs

LEMMA ADelCareful ==
    ASSUME ForwardInv, NEW s \in Sessions, NEW x \in {s[1], s[2]}, ADel(s, x)
    PROVE  Careful(s, x, end[s][x], end'[s][x]) /\ Elsewhere(s, x)
  <1> DEFINE t == end[s][x]
             n == end'[s][x]
  <1>1. t.pc = "a_del" /\ DOMAIN t = Fields
    BY Here DEF ADel, At, T, ForwardInv, TaskType
  <1>2. DOMAIN end = Sessions /\ DOMAIN end[s] = {s[1], s[2]}
    BY DEF ForwardInv, SessionsInv, SessionTypes
  <1>3. Elsewhere(s, x)
    <2>1. PICK v : Set(s, x, v)
      BY DEF ADel
    <2> QED
      BY <2>1, OneEnd
  <1>4. n.want = t.want /\ n.pc = "a_send" /\ n.list = <<>>
    BY <1>1, <1>2 DEF Set, ADel, T, Fields
  <1> HIDE DEF t, n
  <1> QED
    BY <1>1, <1>3, <1>4 DEF t, n, Careful, JobType, Proposing, WantSet, FbbPcs, AsciiPcs,
       SendPcs

LEMMA ATakeCareful ==
    ASSUME ForwardInv, NEW s \in Sessions, NEW x \in {s[1], s[2]}, ATake(s, x)
    PROVE  Careful(s, x, end[s][x], end'[s][x]) /\ Elsewhere(s, x)
  <1> DEFINE t == end[s][x]
             n == end'[s][x]
  <1>1. t.pc = "a_take" /\ DOMAIN t = Fields
    BY Here DEF ATake, At, T, ForwardInv, TaskType
  <1>2. DOMAIN end = Sessions /\ DOMAIN end[s] = {s[1], s[2]}
    BY DEF ForwardInv, SessionsInv, SessionTypes
  <1>3. Elsewhere(s, x)
    <2>1. PICK v : Set(s, x, v)
      BY DEF ATake
    <2> QED
      BY <2>1, OneEnd
  <1> DEFINE m == t.ask[1]
             a == Answer(m, "yes", 0)
  <1>9. \/ Set(s, x, [t EXCEPT !.pc = "a_prompt", !.ask = <<>>])
        \/ Set(s, x, [t EXCEPT !.pc = "a_text", !.ask = <<>>, !.want = <<a>>]) /\ ~TmpBidVorhanden(s, x, m)
    BY DEF ATake, T
  <1> HIDE DEF m, a
  <1>4. /\ n.list = t.list /\ n.pc \in {"a_prompt", "a_text"}
        /\ \/ n.want = t.want
           \/ n.want = <<a>> /\ ~TmpBidVorhanden(s, x, m)
    <2>1. CASE Set(s, x, [t EXCEPT !.pc = "a_prompt", !.ask = <<>>])
      BY <1>1, <1>2, <2>1 DEF Set, Fields
    <2>2. CASE Set(s, x, [t EXCEPT !.pc = "a_text", !.ask = <<>>, !.want = <<a>>]) /\ ~TmpBidVorhanden(s, x, m)
      BY <1>1, <1>2, <2>2 DEF Set, Fields
    <2> QED
      BY <1>9, <2>1, <2>2
  <1>5. a.m = m
    BY DEF Answer, a
  <1> HIDE DEF t, n
  <1>6. \/ WantSet(n) \subseteq WantSet(t)
        \/ ~TmpBidVorhanden(s, x, m) /\ WantSet(n) \subseteq WantSet(t) \cup {m}
    BY <1>4, <1>5 DEF WantSet
  <1> QED
    BY <1>1, <1>3, <1>4, <1>6 DEF t, n, Careful, JobType, Proposing, FbbPcs, AsciiPcs, SendPcs

LEMMA AQueueCareful ==
    ASSUME ForwardInv, NEW s \in Sessions, NEW x \in {s[1], s[2]}, AQueue(s, x)
    PROVE  Careful(s, x, end[s][x], end'[s][x]) /\ Elsewhere(s, x)
  <1> DEFINE t == end[s][x]
             n == end'[s][x]
  <1>1. t.pc = "a_queue" /\ DOMAIN t = Fields
    BY Here DEF AQueue, At, T, ForwardInv, TaskType
  <1>2. DOMAIN end = Sessions /\ DOMAIN end[s] = {s[1], s[2]}
    BY DEF ForwardInv, SessionsInv, SessionTypes
  <1>3. Elsewhere(s, x)
    <2>1. PICK v : Set(s, x, v)
      BY DEF AQueue
    <2> QED
      BY <2>1, OneEnd
  <1>4. n.list = t.list /\ n.want = <<>> /\ n.pc = "a_prompt"
    BY <1>1, <1>2 DEF Set, AQueue, T, Fields
  <1> HIDE DEF t, n
  <1> QED
    BY <1>1, <1>3, <1>4 DEF t, n, Careful, JobType, Proposing, WantSet, FbbPcs, AsciiPcs,
       SendPcs

(* No two tasks of a box receive one mail or propose to one partner.       *)
Unique == OneReception /\ OneSender /\ Jobs

LEMMA BidsOf ==
    ASSUME SessionTypes, NEW s \in Sessions, NEW x \in {s[1], s[2]}
    PROVE  TmpBids(s, x) = WantSet(end[s][x]) /\ (Proposes(s, x) <=> Proposing(end[s][x]))
  <1> DEFINE w == end[s][x].want
  <1>1. w \in Seq(Replies)
    BY DEF SessionTypes, TaskType
  <1>2. DOMAIN w = 1 .. Len(w)
    BY <1>1
  <1> HIDE DEF w
  <1> QED
    BY <1>2 DEF TmpBids, WantSet, Proposes, Proposing, T, w

(* A task that proposes counts as a sender.                                *)
LEMMA SenderSeen ==
    ASSUME ForwardInv, Jobs, NEW s \in Sessions, NEW x \in {s[1], s[2]}, Proposes(s, x)
    PROVE  end[s][x].job \in SendJobs
  <1> DEFINE t == end[s][x]
  <1>1. JobType(t) /\ t.list # <<>> /\ t.pc # "end"
    BY DEF Jobs, Proposes, T
  <1>2. t.pc \in FbbPcs \cup AsciiPcs \cup {"none", "end"}
    <2>1. TaskType(t)
      BY Here DEF ForwardInv
    <2> QED
      BY <2>1 DEF TaskType
  <1> HIDE DEF t
  <1>3. t.job \in {"fbb", "fwdsend"}
    BY <1>1, <1>2 DEF JobType, SendPcs
  <1> QED
    BY <1>3 DEF SendJobs, t

LEMMA CarefulKeeps ==
    ASSUME ForwardInv, ForwardInv', Unique, NEW s \in Sessions, NEW x \in {s[1], s[2]},
           Careful(s, x, end[s][x], end'[s][x]), Elsewhere(s, x)
    PROVE  Unique'
  <1>1. \A o \in Sessions : \A z \in {o[1], o[2]} :
          /\ TmpBids(o, z) = WantSet(end[o][z])
          /\ TmpBids(o, z)' = WantSet(end'[o][z])
          /\ Proposes(o, z) <=> Proposing(end[o][z])
          /\ Proposes(o, z)' <=> Proposing(end'[o][z])
    <2>1. SessionTypes /\ SessionTypes'
      BY DEF ForwardInv, SessionsInv
    <2>2. ASSUME SessionTypes, NEW o \in Sessions, NEW z \in {o[1], o[2]}
          PROVE  TmpBids(o, z) = WantSet(end[o][z])
                 /\ (Proposes(o, z) <=> Proposing(end[o][z]))
      BY <2>2, BidsOf
    <2>3. ASSUME SessionTypes', NEW o \in Sessions, NEW z \in {o[1], o[2]}
          PROVE  TmpBids(o, z)' = WantSet(end'[o][z])
                 /\ (Proposes(o, z)' <=> Proposing(end'[o][z]))
      <3> DEFINE w == end'[o][z].want
      <3>1. w \in Seq(Replies)
        BY <2>3 DEF SessionTypes, TaskType
      <3>2. DOMAIN w = 1 .. Len(w)
        BY <3>1
      <3> HIDE DEF w
      <3> QED
        BY <3>2 DEF TmpBids, WantSet, Proposes, Proposing, T, w
    <2> QED
      BY <2>1, <2>2, <2>3
  <1>2. ASSUME NEW o \in Sessions, NEW z \in {o[1], o[2]}, o # s \/ z # x
        PROVE  end'[o][z] = end[o][z]
    BY <1>2 DEF Elsewhere
  <1>3. ASSUME NEW z \in Boxes, NEW o \in EndsOf(z), NEW r \in EndsOf(z), o # r
        PROVE  /\ o \in Sessions /\ z \in {o[1], o[2]} /\ r \in Sessions /\ z \in {r[1], r[2]}
               /\ TmpBids(o, z) \cap TmpBids(r, z) = {}
               /\ Peer(o, z) = Peer(r, z) => ~(Proposes(o, z) /\ Proposes(r, z))
    BY <1>3 DEF EndsOf, Unique, OneReception, OneSender
  <1>4. ASSUME NEW r \in EndsOf(x), r # s
        PROVE  WantSet(end'[s][x]) \cap WantSet(end'[r][x]) = {}
    <2>1. /\ s \in EndsOf(x) /\ x \in Boxes /\ r \in Sessions /\ x \in {r[1], r[2]}
      BY <1>4, Ends2 DEF EndsOf
    <2>2. end'[r][x] = end[r][x] /\ WantSet(end[s][x]) \cap WantSet(end[r][x]) = {}
      BY <1>1, <1>2, <1>3, <1>4, <2>1
    <2>3. CASE WantSet(end'[s][x]) \subseteq WantSet(end[s][x])
      BY <2>2, <2>3
    <2>4. CASE \E m : ~TmpBidVorhanden(s, x, m)
                      /\ WantSet(end'[s][x]) \subseteq WantSet(end[s][x]) \cup {m}
      <3>1. PICK m : ~TmpBidVorhanden(s, x, m)
                     /\ WantSet(end'[s][x]) \subseteq WantSet(end[s][x]) \cup {m}
        BY <2>4
      <3>2. m \notin WantSet(end[r][x])
        BY <1>1, <1>4, <2>1, <3>1 DEF TmpBidVorhanden
      <3> QED
        BY <2>2, <3>1, <3>2
    <2> QED
      BY <2>3, <2>4 DEF Careful
  <1>5. OneReception'
    <2> SUFFICES ASSUME NEW z \in Boxes, NEW o \in EndsOf(z), NEW r \in EndsOf(z), o # r
                 PROVE  WantSet(end'[o][z]) \cap WantSet(end'[r][z]) = {}
      BY <1>1 DEF OneReception, EndsOf
    <2>1. CASE o = s /\ z = x
      BY <1>4, <2>1
    <2>2. CASE r = s /\ z = x
      BY <1>4, <2>2
    <2>3. CASE ~(o = s /\ z = x) /\ ~(r = s /\ z = x)
      <3>1. end'[o][z] = end[o][z] /\ end'[r][z] = end[r][z]
        BY <1>2, <1>3, <2>3
      <3> QED
        BY <1>1, <1>3, <3>1
    <2> QED
      BY <2>1, <2>2, <2>3
  <1>6. ASSUME NEW r \in EndsOf(x), r # s, Peer(r, x) = Peer(s, x)
        PROVE  ~(Proposes(s, x)' /\ Proposes(r, x)')
    <2>1. /\ s \in EndsOf(x) /\ x \in Boxes /\ r \in Sessions /\ x \in {r[1], r[2]}
      BY <1>6, Ends2 DEF EndsOf
    <2> SUFFICES ASSUME Proposes(s, x)', Proposes(r, x)' PROVE FALSE
      OBVIOUS
    <2>2. Proposes(r, x)
      BY <1>1, <1>2, <1>6, <2>1
    <2>3. Proposes(s, x) \/ ~AnotherFwdSender(s, x)
      BY <1>1 DEF Careful
    <2>4. end[r][x].job \in SendJobs
      BY <2>1, <2>2, SenderSeen DEF Unique
    <2>5. AnotherFwdSender(s, x)
      BY <1>6, <2>4 DEF AnotherFwdSender
    <2> QED
      BY <1>3, <1>6, <2>1, <2>2, <2>3, <2>5
  <1>7. OneSender'
    <2> SUFFICES ASSUME NEW z \in Boxes, NEW o \in EndsOf(z), NEW r \in EndsOf(z), o # r,
                        Peer(o, z) = Peer(r, z)
                 PROVE  ~(Proposes(o, z)' /\ Proposes(r, z)')
      BY DEF OneSender, EndsOf, Peer
    <2>1. CASE o = s /\ z = x
      BY <1>6, <2>1
    <2>2. CASE r = s /\ z = x
      BY <1>6, <2>2
    <2>3. CASE ~(o = s /\ z = x) /\ ~(r = s /\ z = x)
      <3>1. end'[o][z] = end[o][z] /\ end'[r][z] = end[r][z]
        BY <1>2, <1>3, <2>3
      <3> QED
        BY <1>1, <1>3, <3>1
    <2> QED
      BY <2>1, <2>2, <2>3
  <1>8. Jobs'
    <2> SUFFICES ASSUME NEW o \in Sessions, NEW z \in {o[1], o[2]}
                 PROVE  JobType(end'[o][z])
      BY DEF Jobs
    <2>1. JobType(end[o][z])
      BY DEF Unique, Jobs
    <2>2. CASE o = s /\ z = x
      BY <2>1, <2>2 DEF Careful
    <2>3. CASE o # s \/ z # x
      BY <1>2, <2>1, <2>3
    <2> QED
      BY <2>2, <2>3
  <1> QED
    BY <1>5, <1>7, <1>8 DEF Unique

LEMMA BeginsUnique ==
    ASSUME ForwardInv, Unique, NEW s \in Sessions,
           NEW t, NEW u, end' = [end EXCEPT ![s][s[1]] = t, ![s][s[2]] = u],
           t.list = <<>>, u.list = <<>>, t.want = <<>>, u.want = <<>>, JobType(t), JobType(u)
    PROVE  Unique'
  <1>1. s[1] # s[2]
    BY MailBoxAssumption
  <1>2. DOMAIN end = Sessions /\ DOMAIN end[s] = {s[1], s[2]}
    BY DEF ForwardInv, SessionsInv, SessionTypes
  <1>3. /\ end'[s][s[1]] = t /\ end'[s][s[2]] = u
        /\ \A o \in Sessions \ {s} : end'[o] = end[o]
    BY <1>1, <1>2
  <1>4. \A z \in {s[1], s[2]} : /\ end'[s][z].list = <<>> /\ end'[s][z].want = <<>>
                                /\ JobType(end'[s][z])
    BY <1>3
  <1>5. \A z \in {s[1], s[2]} : TmpBids(s, z)' = {} /\ ~Proposes(s, z)'
    <2> SUFFICES ASSUME NEW z \in {s[1], s[2]} PROVE TmpBids(s, z)' = {} /\ ~Proposes(s, z)'
      OBVIOUS
    <2>1. end'[s][z].list = <<>> /\ end'[s][z].want = <<>>
      BY <1>4
    <2>2. TmpBids(s, z)' = {}
      BY <2>1 DEF TmpBids
    <2>3. ~Proposes(s, z)'
      BY <2>1 DEF Proposes, T
    <2> QED
      BY <2>2, <2>3
  <1>6. \A o \in Sessions \ {s} : \A z :
           TmpBids(o, z)' = TmpBids(o, z) /\ (Proposes(o, z)' <=> Proposes(o, z))
    BY <1>3 DEF TmpBids, Proposes, T
  <1>7. OneReception'
    BY <1>5, <1>6 DEF Unique, OneReception, EndsOf
  <1>8. OneSender'
    BY <1>5, <1>6 DEF Unique, OneSender, EndsOf, Peer
  <1>9. Jobs'
    BY <1>3, <1>4 DEF Unique, Jobs
  <1> QED
    BY <1>7, <1>8, <1>9 DEF Unique

LEMMA StartUnique ==
    ASSUME ForwardInv, Unique, NEW s \in Sessions, Start(s) \/ AStart(s)
    PROVE  Unique'
  <1>1. CASE Start(s)
    <2> DEFINE t == [NoTask EXCEPT !.pc = "send_propose", !.job = "fbb"]
               u == [NoTask EXCEPT !.pc = "recv_propose", !.job = "fbb"]
    <2>1. /\ t.list = <<>> /\ t.want = <<>> /\ u.list = <<>> /\ u.want = <<>>
          /\ JobType(t) /\ JobType(u)
      BY DEF NoTask, JobType, FbbPcs, AsciiPcs, SendPcs
    <2>2. end' = [end EXCEPT ![s][s[1]] = t, ![s][s[2]] = u]
      BY <1>1 DEF Start
    <2> HIDE DEF t, u
    <2> QED
      BY <2>1, <2>2, BeginsUnique
  <1>2. CASE AStart(s)
    <2> DEFINE t == [NoTask EXCEPT !.pc = "a_pr2", !.job = "fwdlink"]
               u == [NoTask EXCEPT !.pc = "a_prompt", !.job = "fwdrecv"]
    <2>1. /\ t.list = <<>> /\ t.want = <<>> /\ u.list = <<>> /\ u.want = <<>>
          /\ JobType(t) /\ JobType(u)
      BY DEF NoTask, JobType, FbbPcs, AsciiPcs, SendPcs
    <2>2. end' = [end EXCEPT ![s][s[1]] = t, ![s][s[2]] = u]
      BY <1>2 DEF AStart
    <2> HIDE DEF t, u
    <2> QED
      BY <2>1, <2>2, BeginsUnique
  <1> QED
    BY <1>1, <1>2

LEMMA DieCareful ==
    ASSUME ForwardInv, NEW s \in Sessions, NEW x \in {s[1], s[2]}, Die(s, x)
    PROVE  Careful(s, x, end[s][x], end'[s][x]) /\ Elsewhere(s, x)
  <1>1. Set(s, x, NoTask)
    BY DEF Die, Set
  <1>2. end'[s][x] = NoTask /\ Elsewhere(s, x)
    BY <1>1, OneEnd
  <1>3. NoTask.list = <<>> /\ NoTask.want = <<>> /\ NoTask.pc = "none"
    BY DEF NoTask
  <1>4. Careful(s, x, end[s][x], NoTask)
    BY <1>3 DEF Careful, JobType, Proposing, WantSet, FbbPcs, AsciiPcs, SendPcs
  <1> QED
    BY <1>2, <1>4

LEMMA StepCareful ==
    ASSUME ForwardInv, NEW s \in Sessions, NEW x \in {s[1], s[2]}, Step(s, x) \/ AStep(s, x)
    PROVE  Careful(s, x, end[s][x], end'[s][x]) /\ Elsewhere(s, x)
  <1>1. CASE TxProposal(s, x) \/ SendDelay(s, x) \/ RxStatus(s, x) \/ TxMail(s, x)
    BY <1>1, TxProposalCareful, SendDelayCareful, RxStatusCareful, TxMailCareful
  <1>2. CASE TxDone(s, x) \/ RxFirst(s, x) \/ ParseLine(s, x) \/ TakeLine(s, x)
    BY <1>2, TxDoneCareful, RxFirstCareful, ParseLineCareful, TakeLineCareful
  <1>3. CASE TxStatus(s, x) \/ EraseForwarded(s, x) \/ EraseDone(s, x) \/ RxHeader(s, x)
    BY <1>3, TxStatusCareful, EraseForwardedCareful, EraseDoneCareful, RxHeaderCareful
  <1>4. CASE RxData(s, x) \/ RxSave(s, x) \/ RxQueue(s, x) \/ RxDone(s, x)
    BY <1>4, RxDataCareful, RxSaveCareful, RxQueueCareful, RxDoneCareful
  <1>5. CASE APr2(s, x) \/ ASend(s, x) \/ AFile(s, x) \/ AReply(s, x)
    BY <1>5, APr2Careful, ASendCareful, AFileCareful, AReplyCareful
  <1>6. CASE AConfirm(s, x) \/ ADel(s, x) \/ ADelay(s, x) \/ APrompt(s, x)
    BY <1>6, AConfirmCareful, ADelCareful, ADelayCareful, APromptCareful
  <1>7. CASE ACommand(s, x) \/ AWant(s, x) \/ ATake(s, x) \/ AText(s, x)
    BY <1>7, ACommandCareful, AWantCareful, ATakeCareful, ATextCareful
  <1>8. CASE ASave(s, x) \/ AQueue(s, x)
    BY <1>8, ASaveCareful, AQueueCareful
  <1> QED
    BY <1>1, <1>2, <1>3, <1>4, <1>5, <1>6, <1>7, <1>8 DEF Step, AStep

LEMMA UniqueKeeps == ForwardInv /\ ForwardInv' /\ Unique /\ [CNext]_vars => Unique'
  <1> SUFFICES ASSUME ForwardInv, ForwardInv', Unique, [CNext]_vars PROVE Unique'
    OBVIOUS
  <1>1. CASE end' = end
    <2>1. \A s, x : TmpBids(s, x)' = TmpBids(s, x) /\ (Proposes(s, x)' <=> Proposes(s, x))
      BY <1>1 DEF TmpBids, Proposes, T
    <2>2. OneReception' /\ OneSender'
      BY <2>1 DEF Unique, OneReception, OneSender, EndsOf, Peer
    <2>3. Jobs'
      BY <1>1 DEF Unique, Jobs
    <2> QED
      BY <2>2, <2>3 DEF Unique
  <1>2. ASSUME NEW s \in Sessions, Start(s) \/ AStart(s) PROVE Unique'
    BY <1>2, StartUnique
  <1>3. ASSUME NEW s \in Sessions, Break(s) PROVE end' = end
    BY <1>3 DEF Break
  <1>4. ASSUME NEW s \in Sessions, NEW x \in {s[1], s[2]}, Step(s, x) \/ AStep(s, x) PROVE Unique'
    BY <1>4, StepCareful, CarefulKeeps
  <1>5. ASSUME NEW s \in Sessions, NEW x \in {s[1], s[2]}, Die(s, x) PROVE Unique'
    BY <1>5, DieCareful, CarefulKeeps
  <1>6. ASSUME NEW s \in Sessions, NEW x \in {s[1], s[2]}, Logout(s, x) PROVE end' = end
    BY <1>6 DEF Logout
  <1>7. ASSUME NEW x \in Boxes, NEW m \in Mails, UserErase(x, m) PROVE end' = end
    BY <1>7 DEF UserErase
  <1>8. UNCHANGED vars => end' = end
    BY DEF vars
  <1> QED
    BY <1>1, <1>2, <1>3, <1>4, <1>5, <1>6, <1>7, <1>8 DEF CNext, Ends

LEMMA InitUnique == Init => Unique
  <1> SUFFICES ASSUME Init PROVE Unique
    OBVIOUS
  <1>1. \A s \in Sessions : \A x \in {s[1], s[2]} : end[s][x] = NoTask
    BY DEF Init
  <1>2. NoTask.list = <<>> /\ NoTask.want = <<>> /\ NoTask.pc = "none" /\ JobType(NoTask)
    BY DEF NoTask, JobType, FbbPcs, AsciiPcs, SendPcs
  <1> HIDE DEF NoTask
  <1>3. \A s \in Sessions : \A x \in {s[1], s[2]} : TmpBids(s, x) = {} /\ ~Proposes(s, x)
    BY <1>1, <1>2 DEF TmpBids, Proposes, T
  <1> QED
    BY <1>1, <1>2, <1>3 DEF Unique, OneReception, OneSender, Jobs, EndsOf

LEMMA UniqueAlways == (FSpec => []Unique) /\ (ASpec => []Unique)
  <1>1. ForwardInv /\ ForwardInv' /\ Unique /\ [FNext]_vars => Unique'
    BY UniqueKeeps, NextSteps
  <1>2. ForwardInv /\ ForwardInv' /\ Unique /\ [ANext]_vars => Unique'
    BY UniqueKeeps, NextSteps
  <1>3. FSpec => []Unique
    BY <1>1, InitUnique, SessionsAgree, PTL DEF FSpec
  <1>4. ASpec => []Unique
    BY <1>2, InitUnique, SessionsAgree, PTL DEF ASpec
  <1> QED
    BY <1>3, <1>4

(* A mail is received on one channel at a time: what is in the temporary   *)
(* BIDs of one task of a box is in those of no other, because take (FBB)   *)
(* and ATake (ASCII) look again after the yields of wantmail.              *)
THEOREM OneReceptionHolds == (FSpec => []OneReception) /\ (ASpec => []OneReception)
  <1>1. Unique => OneReception
    BY DEF Unique
  <1>2. FSpec => []OneReception
    BY <1>1, UniqueAlways, PTL
  <1>3. ASpec => []OneReception
    BY <1>1, UniqueAlways, PTL
  <1> QED
    BY <1>2, <1>3

(* A box never proposes mails to one partner in two sessions at a time,    *)
(* whichever protocols they use (another_fwd_sender).                      *)
THEOREM OneSenderHolds == (FSpec => []OneSender) /\ (ASpec => []OneSender)
  <1>1. Unique => OneSender
    BY DEF Unique
  <1>2. FSpec => []OneSender
    BY <1>1, UniqueAlways, PTL
  <1>3. ASpec => []OneSender
    BY <1>1, UniqueAlways, PTL
  <1> QED
    BY <1>2, <1>3

-----------------------------------------------------------------------------
(* What leaves the queue.                                                  *)

LEMMA StaysQueued ==
    ASSUME NEW q \in Seq(Mails), NEW m \in Mails
    PROVE  /\ \A k \in Range(q) : k # m => k \in Range(Those(q, Mails \ {m}))
           /\ Range(q) \subseteq Range(Append(Those(q, Mails \ {m}), m))
  <1> DEFINE r == Those(q, Mails \ {m})
             a == Append(r, m)
  <1>1. /\ r \in Seq(Mails)
        /\ \A i \in 1 .. Len(q) : q[i] \in Mails \ {m} => \E k \in 1 .. Len(r) : r[k] = q[i]
    BY ThoseKept
  <1> HIDE DEF r
  <1>2. \A i \in 1 .. Len(q) : q[i] \in Mails
    OBVIOUS
  <1>3. /\ DOMAIN q = 1 .. Len(q) /\ DOMAIN r = 1 .. Len(r) /\ DOMAIN a = 1 .. Len(r) + 1
        /\ a[Len(r) + 1] = m /\ \A k \in 1 .. Len(r) : a[k] = r[k] /\ k \in 1 .. Len(r) + 1
        /\ Len(r) + 1 \in 1 .. Len(r) + 1
    BY <1>1
  <1> HIDE DEF a
  <1>4. ASSUME NEW k \in Range(q), k # m PROVE k \in Range(r)
    BY <1>1, <1>2, <1>3, <1>4 DEF Range
  <1>5. m \in Range(a) /\ Range(r) \subseteq Range(a)
    BY <1>3 DEF Range
  <1> QED
    BY <1>4, <1>5 DEF r, a

Leaves(x, y, m) == m \in Range(queue[x][y]) /\ m \notin Range(queue'[x][y])

LEMMA DelLeaves ==
    ASSUME BoxTypes, NEW x \in Boxes, NEW y \in Boxes, NEW m \in Mails,
           DelFwdListEntry(x, y, m),
           NEW x2 \in Boxes, NEW y2 \in Boxes, NEW m2 \in Mails, Leaves(x2, y2, m2)
    PROVE  x2 = x /\ y2 = y /\ m2 = m
  <1>1. queue \in [Boxes -> [Boxes -> Seq(Mails)]]
    BY DEF BoxTypes
  <1>2. queue'[x][y] = Those(queue[x][y], Mails \ {m})
        /\ (x2 # x \/ y2 # y => queue'[x2][y2] = queue[x2][y2])
    BY <1>1 DEF DelFwdListEntry
  <1> QED
    BY <1>1, <1>2, StaysQueued DEF Leaves

LEMMA AddLeaves ==
    ASSUME BoxTypes, NEW x \in Boxes, NEW y \in Boxes, NEW m \in Mails, AddFwdFile(x, m, y),
           NEW x2 \in Boxes, NEW y2 \in Boxes, NEW m2 \in Mails
    PROVE  ~Leaves(x2, y2, m2)
  <1>1. queue \in [Boxes -> [Boxes -> Seq(Mails)]]
    BY DEF BoxTypes
  <1>2. queue'[x2][y2] \in {queue[x2][y2], Append(Those(queue[x2][y2], Mails \ {m}), m)}
    BY <1>1 DEF AddFwdFile
  <1>3. queue[x2][y2] \in Seq(Mails)
    BY <1>1
  <1> QED
    BY <1>2, <1>3, StaysQueued DEF Leaves

(* erase_forwarded takes off only what the partner has answered for.       *)
LEMMA EraseLeaves ==
    ASSUME ForwardInv, NEW s \in Sessions, NEW x \in {s[1], s[2]}, EraseForwarded(s, x),
           NEW x2 \in Boxes, NEW y2 \in Boxes, NEW m2 \in Mails, Leaves(x2, y2, m2)
    PROVE  m2 \in bids[y2]
  <1> DEFINE t == end[s][x]
             y == Peer(s, x)
             m == t.list[t.i]
  <1>1. /\ t.pc = "erase" /\ t.i <= Len(t.list)
        /\ IF t.stat[t.i].st = "later" THEN UNCHANGED queue ELSE DelFwdListEntry(x, y, m)
    BY DEF EraseForwarded, At, T
  <1>2. /\ BoxTypes /\ TaskType(t) /\ x \in Boxes /\ y \in Boxes
        /\ Settled(t.list, t.stat, bids[y])
    BY <1>1, Here DEF ForwardInv, Both, Half, Confirming
  <1>3. t.i \in 1 .. Len(t.list) /\ m \in Mails
    <2>1. t.i \in Nat /\ t.i >= 1 /\ t.list \in Seq(Mails)
      BY <1>1, <1>2 DEF TaskType
    <2> HIDE DEF t
    <2> QED
      BY <1>1, <2>1
  <1> HIDE DEF t, y
  <1>4. t.stat[t.i].st # "later" /\ DelFwdListEntry(x, y, m)
    BY <1>1 DEF Leaves
  <1>5. m \in bids[y]
    BY <1>2, <1>3, <1>4 DEF Settled
  <1> QED
    BY <1>2, <1>3, <1>4, <1>5, DelLeaves

LEMMA StepLeaves ==
    ASSUME ForwardInv, [FNext]_vars, NEW x \in Boxes, NEW y \in Boxes, NEW m \in Mails,
           Leaves(x, y, m)
    PROVE  m \in bids'[y]
  <1>1. queue' # queue
    BY DEF Leaves
  <1>2. PICK s \in Sessions : \E z \in {s[1], s[2]} : EraseForwarded(s, z) \/ RxQueue(s, z)
    <2>1. ASSUME NEW s \in Sessions, Start(s) \/ Break(s) PROVE queue' = queue
      BY <2>1 DEF Start, Break, Box
    <2>2. ASSUME NEW s \in Sessions, NEW z \in {s[1], s[2]}, Ends(s, z) PROVE queue' = queue
      BY <2>2 DEF Ends, Die, Logout
    <2>3. ASSUME NEW z \in Boxes, NEW k \in Mails, UserErase(z, k) PROVE queue' = queue
      BY <2>3 DEF UserErase
    <2>4. ASSUME NEW s \in Sessions, NEW z \in {s[1], s[2]}, Step(s, z),
                 ~EraseForwarded(s, z), ~RxQueue(s, z)
          PROVE  queue' = queue
      BY <2>4 DEF Step, TxProposal, SendDelay, RxStatus, TxMail, TxDone, RxFirst, ParseLine,
         TakeLine, TxStatus, EraseDone, RxHeader, RxData, RxSave, RxDone, Box
    <2> QED
      BY <1>1, <2>1, <2>2, <2>3, <2>4 DEF FNext, vars
  <1>3. PICK z \in {s[1], s[2]} : EraseForwarded(s, z) \/ RxQueue(s, z)
    BY <1>2
  <1>4. bids' = bids
    BY <1>3 DEF EraseForwarded, RxQueue
  <1>5. CASE EraseForwarded(s, z)
    BY <1>4, <1>5, EraseLeaves
  <1>6. CASE RxQueue(s, z)
    <2> DEFINE t == end[s][z]
    <2>1. /\ t.pc = "queue" /\ AddFwdFile(z, Head(t.want).m, Peer(s, z))
      BY <1>6 DEF RxQueue, At, T
    <2>2. TaskType(t) /\ BoxTypes /\ z \in Boxes /\ Peer(s, z) \in Boxes
      BY Here DEF ForwardInv
    <2>3. t.want \in Seq(Replies) /\ t.want # <<>>
      BY <2>1, <2>2 DEF TaskType
    <2>4. Head(t.want).m \in Mails
      <3>1. Head(t.want) \in Replies
        BY <2>3
      <3> QED
        BY <3>1 DEF Replies
    <2> QED
      BY <2>1, <2>2, <2>4, AddLeaves
  <1> QED
    BY <1>3, <1>5, <1>6

(* In the FBB protocol an entry leaves the queue only when the partner has *)
(* the BID of the mail: the answer FS is believed only when the partner's  *)
(* next turn shows that what it wanted has arrived (erase_forwarded).      *)
THEOREM QueueKeepsHolds == FSpec => QueueKeeps
  <1>1. ForwardInv /\ [FNext]_vars =>
           [\A x, y \in Boxes, m \in Mails :
              (m \in Range(queue[x][y]) /\ m \notin Range(queue'[x][y])) => m \in bids'[y]]_vars
    BY StepLeaves DEF Leaves
  <1> QED
    BY <1>1, SessionsAgree, PTL DEF FSpec, QueueKeeps

-----------------------------------------------------------------------------
(* The bounds of the FBB protocol.                                         *)

(* The bounds of a task and of a message.                                  *)
Small(t) ==
    /\ Len(t.list) <= MaxProp /\ Len(t.ask) <= MaxProp
    /\ \A k \in 1 .. Len(t.ans) : t.ans[k].off <= Blocks
    /\ \A k \in 1 .. Len(t.want) : t.want[k].off <= Blocks
    /\ \A j, k \in 1 .. Len(t.want) : t.want[j].m = t.want[k].m => j = k
    /\ t.got \in Seq(Bits) /\ Len(t.got) <= Blocks
    /\ t.pc = "recv_data" => Len(t.got) <= t.i
    /\ t.pc = "send_mail" => t.i <= Len(t.list) + 1
SmallFrame(f) == f[1] \in FbbKinds /\ (f[1] = "prop" => Len(f[2]) <= MaxProp)
(* A mail that is left is resumed within the fragment there is of it.      *)
Resumable(t, fr) ==
    t.pc # "end" => \A k \in 1 .. Len(Left(t)) : Left(t)[k].off <= Len(fr[Left(t)[k].m])

BoxBounds ==
    /\ \A x, y \in Boxes, m \in Mails : Len(frag[x][y][m]) <= Blocks
    /\ \A x \in Boxes, m \in Mails : Len(text[x][m]) <= Blocks
ResumeOf(s, x) ==
    /\ Small(end[s][x]) /\ \A f \in Msgs(wire[s][x]) : SmallFrame(f)
    /\ Resumable(end[s][x], frag[x][Peer(s, x)])
    /\ Order(end[s][x], end[s][Peer(s, x)], wire[s][x], Msgs(wire[s][Peer(s, x)]),
             link[s] = "up")
ResumeInv == BoxBounds /\ \A s \in Sessions : \A x \in {s[1], s[2]} : ResumeOf(s, x)

LEMMA LeftWanted ==
    ASSUME NEW t, TaskType(t), NEW k \in 1 .. Len(Left(t))
    PROVE  /\ Left(t)[k] \in Replies /\ Left(t)[k].m \in WantSet(t)
           /\ Left(t)[k].m \in Mails /\ Left(t)[k].off \in Nat
           /\ t.pc \notin {"save", "queue"} => k \in 1 .. Len(t.want) /\ Left(t)[k] = t.want[k]
           /\ t.pc \in {"save", "queue"} =>
                 k + 1 \in 1 .. Len(t.want) /\ Left(t)[k] = t.want[k + 1]
  <1>1. t.want \in Seq(Replies) /\ Left(t) \in Seq(Replies)
        /\ (t.pc \in {"save", "queue"} => t.want # <<>>)
    BY LeftType DEF TaskType
  <1>2. Left(t)[k] \in Replies
    BY <1>1
  <1>3. t.pc \notin {"save", "queue"} => k \in 1 .. Len(t.want) /\ Left(t)[k] = t.want[k]
    BY <1>1 DEF Left
  <1>4. t.pc \in {"save", "queue"} => k + 1 \in 1 .. Len(t.want) /\ Left(t)[k] = t.want[k + 1]
    <2> SUFFICES ASSUME t.pc \in {"save", "queue"}
                 PROVE  k + 1 \in 1 .. Len(t.want) /\ Left(t)[k] = t.want[k + 1]
      OBVIOUS
    <2> DEFINE l == t.want
    <2>1. l \in Seq(Replies) /\ l # <<>> /\ Left(t) = Tail(l)
      BY <1>1 DEF Left
    <2> HIDE DEF l
    <2>2. k \in 1 .. Len(Tail(l))
      BY <2>1
    <2>3. k + 1 \in 1 .. Len(l) /\ Tail(l)[k] = l[k + 1]
      BY <2>1, <2>2
    <2> QED
      BY <2>1, <2>3 DEF l
  <1>5. Left(t)[k].m \in WantSet(t)
    BY <1>3, <1>4 DEF WantSet
  <1> QED
    BY <1>2, <1>3, <1>4, <1>5 DEF Replies

LEMMA WantedMails ==
    ASSUME NEW t, TaskType(t)
    PROVE  WantSet(t) \subseteq Mails
  <1>1. ASSUME NEW w \in Seq(Replies), NEW k \in 1 .. Len(w) PROVE w[k].m \in Mails
    <2>1. w[k] \in Replies
      OBVIOUS
    <2> QED
      BY <2>1 DEF Replies
  <1>2. t.want \in Seq(Replies)
    BY DEF TaskType
  <1> QED
    BY <1>1, <1>2 DEF WantSet

LEMMA ResumableSame ==
    ASSUME NEW t, TaskType(t), NEW fr, NEW fr2, Resumable(t, fr),
           \A m \in WantSet(t) : fr2[m] = fr[m]
    PROVE  Resumable(t, fr2)
  <1> SUFFICES ASSUME t.pc # "end", NEW k \in 1 .. Len(Left(t))
               PROVE  Left(t)[k].off <= Len(fr2[Left(t)[k].m])
    BY DEF Resumable
  <1>1. Left(t)[k].m \in WantSet(t)
    BY LeftWanted
  <1> QED
    BY <1>1 DEF Resumable

(* A step of the task at end x of session s.                               *)
Goes(s, x, n, in2, out2) ==
    /\ Set(s, x, n) /\ WireAfter(s, x, in2, out2) /\ link' = link
    /\ Small(n) /\ Resumable(n, frag'[x][Peer(s, x)])
    /\ \A f \in Msgs(in2) \cup Msgs(out2) : SmallFrame(f)
    /\ Order(n, end[s][Peer(s, x)], in2, Msgs(out2), link[s] = "up")
    /\ Order(end[s][Peer(s, x)], n, out2, Msgs(in2), link[s] = "up")
(* It changes no fragment of a mail another task of the box receives.      *)
Fragments(s, x) ==
    \A z, y \in Boxes, m \in Mails :
        \/ frag'[z][y][m] = frag[z][y][m]
        \/ z = x /\ \A o \in EndsOf(x) \ {s} : m \notin WantSet(end[o][x])

LEMMA GoesKeeps ==
    ASSUME ForwardInv, ResumeInv, BoxBounds', NEW s \in Sessions, NEW x \in {s[1], s[2]},
           NEW n, NEW in2, NEW out2, Goes(s, x, n, in2, out2), Fragments(s, x)
    PROVE  ResumeInv'
  <1> DEFINE y == Peer(s, x)
  <1>1. /\ y \in {s[1], s[2]} /\ y # x /\ Peer(s, y) = x /\ {s[1], s[2]} = {x, y}
        /\ x \in Boxes /\ y \in Boxes
    BY Ends2
  <1>2. DOMAIN end = Sessions /\ DOMAIN end[s] = {s[1], s[2]}
    BY DEF ForwardInv, SessionsInv, SessionTypes
  <1>3. /\ end'[s][x] = n /\ end'[s][y] = end[s][y]
        /\ \A o \in Sessions \ {s} : end'[o] = end[o]
    BY <1>1, <1>2 DEF Goes, Set
  <1>4. /\ wire'[s][x] = in2 /\ wire'[s][y] = out2 /\ link' = link
        /\ \A o \in Sessions \ {s} : wire'[o] = wire[o]
    BY DEF Goes, WireAfter
  <1> HIDE DEF y
  <1>5. ASSUME NEW o \in Sessions, NEW z \in {o[1], o[2]}, o # s \/ z # x
        PROVE  Resumable(end[o][z], frag'[z][Peer(o, z)])
    <2>1. /\ TaskType(end[o][z]) /\ Resumable(end[o][z], frag[z][Peer(o, z)])
          /\ z \in Boxes /\ Peer(o, z) \in Boxes /\ WantSet(end[o][z]) \subseteq Mails
      <3>1. TaskType(end[o][z])
        BY Here DEF ForwardInv
      <3>2. end[o][z].want \in Seq(Replies)
        BY <3>1 DEF TaskType
      <3>3. WantSet(end[o][z]) \subseteq Mails
        BY <3>1, WantedMails
      <3> QED
        BY <3>1, <3>3, Ends2 DEF ResumeInv, ResumeOf
    <2>2. ASSUME NEW m \in WantSet(end[o][z])
          PROVE  frag'[z][Peer(o, z)][m] = frag[z][Peer(o, z)][m]
      <3>1. z = x => o \in EndsOf(x) \ {s}
        BY <1>5 DEF EndsOf
      <3> QED
        BY <2>1, <3>1 DEF Fragments
    <2> QED
      BY <2>1, <2>2, ResumableSame
  <1>6. ASSUME NEW o \in Sessions, NEW z \in {o[1], o[2]} PROVE ResumeOf(o, z)'
    <2>1. CASE o = s /\ z = x
      BY <1>3, <1>4, <2>1 DEF Goes, ResumeOf, y
    <2>2. CASE o = s /\ z = y
      <3>1. Small(end[s][y]) /\ Peer(s, y) = x /\ Resumable(end[s][y], frag'[y][x])
        BY <1>1, <1>5 DEF ResumeInv, ResumeOf
      <3> QED
        BY <1>3, <1>4, <2>2, <3>1 DEF Goes, ResumeOf, y
    <2>3. CASE o # s
      BY <1>3, <1>4, <1>5, <2>3 DEF ResumeInv, ResumeOf
    <2> QED
      BY <1>1, <2>1, <2>2, <2>3
  <1> QED
    BY <1>6 DEF ResumeInv

(* What is known of both ends before a step.                               *)
LEMMA ResumeHere ==
    ASSUME ForwardInv, ResumeInv, NEW s \in Sessions, NEW x \in {s[1], s[2]}
    PROVE  LET t == end[s][x]
               u == end[s][Peer(s, x)]
               w == wire[s][x]
               v == wire[s][Peer(s, x)]
           IN  /\ TaskType(t) /\ TaskType(u) /\ DOMAIN t = Fields /\ Small(t) /\ Small(u)
               /\ x \in Boxes /\ Peer(s, x) \in Boxes
               /\ w \in Seq(Frames) /\ v \in Seq(Frames)
               /\ OneOf(w, TurnKinds) /\ OneOf(w, {"FS"})
               /\ \A f \in Msgs(w) \cup Msgs(v) : SmallFrame(f)
               /\ Both(t, u, Msgs(w), Msgs(v), bids[x], bids[Peer(s, x)])
               /\ Both(u, t, Msgs(v), Msgs(w), bids[Peer(s, x)], bids[x])
               /\ Resumable(t, frag[x][Peer(s, x)])
               /\ Order(t, u, w, Msgs(v), link[s] = "up")
               /\ Order(u, t, v, Msgs(w), link[s] = "up")
               /\ DOMAIN end = Sessions /\ DOMAIN end[s] = {s[1], s[2]}
  <1> DEFINE y == Peer(s, x)
  <1>1. y \in {s[1], s[2]} /\ Peer(s, y) = x
    BY Ends2
  <1>2. ResumeOf(s, x) /\ ResumeOf(s, y)
    BY <1>1 DEF ResumeInv
  <1>3. DOMAIN end = Sessions /\ DOMAIN end[s] = {s[1], s[2]}
    BY DEF ForwardInv, SessionsInv, SessionTypes
  <1>4. /\ Small(end[s][y]) /\ (\A f \in Msgs(wire[s][y]) : SmallFrame(f))
        /\ Order(end[s][y], end[s][x], wire[s][y], Msgs(wire[s][x]), link[s] = "up")
    <2> HIDE DEF y
    <2> QED
      BY <1>1, <1>2 DEF ResumeOf
  <1> QED
    BY <1>2, <1>3, <1>4, Here DEF ForwardInv, ResumeOf, Both

(* A step that sends nothing and leaves what is left.                      *)
Same(t, n) ==
    /\ t.pc \notin {"end", "none"} /\ n.pc \notin {"parse", "take", "send_mail"}
    /\ Left(n) = Left(t)

LEMMA QuietGoes ==
    ASSUME ForwardInv, ResumeInv, NEW s \in Sessions, NEW x \in {s[1], s[2]},
           NEW n, Set(s, x, n), Small(n), Same(end[s][x], n), link' = link,
           \A m \in Mails : Len(frag'[x][Peer(s, x)][m]) >= Len(frag[x][Peer(s, x)][m]),
           BoxTypes',
           \/ UNCHANGED wire
           \/ Take(s, x) /\ wire[s][x] # <<>> /\ Left(end[s][x]) = <<>>
    PROVE  \E in2, out2 : Goes(s, x, n, in2, out2)
  <1> DEFINE t == end[s][x]
             y == Peer(s, x)
             u == end[s][y]
             w == wire[s][x]
             v == wire[s][y]
  <1>1. /\ TaskType(t) /\ TaskType(u) /\ Small(t) /\ Small(u) /\ x \in Boxes /\ y \in Boxes
        /\ w \in Seq(Frames) /\ v \in Seq(Frames)
        /\ \A f \in Msgs(w) \cup Msgs(v) : SmallFrame(f)
    BY ResumeHere
  <1>2. /\ Resumable(t, frag[x][y]) /\ Order(t, u, w, Msgs(v), link[s] = "up")
        /\ Order(u, t, v, Msgs(w), link[s] = "up")
    BY ResumeHere
  <1>3. PICK w2 : /\ WireAfter(s, x, w2, v)
                  /\ w2 = w \/ (w # <<>> /\ w2 = Tail(w) /\ Left(t) = <<>>)
    <2>1. SessionTypes
      BY DEF ForwardInv, SessionsInv
    <2>2. CASE UNCHANGED wire
      <3>1. WireAfter(s, x, w, v)
        BY <2>1, <2>2, WireSteps
      <3> QED
        BY <3>1
    <2>3. CASE Take(s, x) /\ w # <<>> /\ Left(t) = <<>>
      BY <2>1, <2>3, WireSteps
    <2> QED
      BY <2>2, <2>3
  <1>4. Msgs(w2) \subseteq Msgs(w)
    BY <1>1, <1>3, TakenOff
  <1>5. Resumable(n, frag'[x][y])
    <2> SUFFICES ASSUME NEW k \in 1 .. Len(Left(t))
                 PROVE  Left(t)[k].off <= Len(frag'[x][y][Left(t)[k].m])
      BY DEF Resumable, Same
    <2>1. Left(t)[k].m \in Mails /\ Left(t)[k].off \in Nat
      BY <1>1, LeftWanted
    <2>2. Left(t)[k].off <= Len(frag[x][y][Left(t)[k].m])
      BY <1>2 DEF Resumable, Same
    <2>3. \A m \in Mails : Len(frag[x][y][m]) \in Nat /\ Len(frag'[x][y][m]) \in Nat
      <3>1. ASSUME NEW m \in Mails PROVE frag[x][y][m] \in Seq(Bits) /\ frag'[x][y][m] \in Seq(Bits)
        BY <1>1 DEF ForwardInv, BoxTypes
      <3> QED
        BY <3>1
    <2> DEFINE m == Left(t)[k].m
               off == Left(t)[k].off
    <2>4. Len(frag'[x][y][m]) >= Len(frag[x][y][m])
      BY <2>1
    <2>5. /\ off \in Nat /\ off <= Len(frag[x][y][m])
          /\ Len(frag[x][y][m]) \in Nat /\ Len(frag'[x][y][m]) \in Nat
      BY <2>1, <2>2, <2>3
    <2> HIDE DEF t, y, m, off
    <2>6. off <= Len(frag'[x][y][m])
      BY <2>4, <2>5
    <2> QED
      BY <2>6 DEF m, off
  <1> HIDE DEF t, u, w, v
  <1>6. Order(n, u, w2, Msgs(v), link[s] = "up")
    BY <1>1, <1>2, <1>3, OrderOwn DEF Same, Small, t
  <1>7. Order(u, n, v, Msgs(w2), link[s] = "up")
    BY <1>1, <1>2, <1>4, OrderOther DEF Same
  <1> QED
    BY <1>1, <1>3, <1>4, <1>5, <1>6, <1>7 DEF Goes, u, w, v

(* A step that sends a message f, which is no text and no reply.           *)
LEMMA PutGoes ==
    ASSUME ForwardInv, ResumeInv, NEW s \in Sessions, NEW x \in {s[1], s[2]},
           NEW n, Set(s, x, n), Small(n), Same(end[s][x], n), link' = link,
           UNCHANGED frag, end[s][x].pc # "wait_fs",
           NEW f \in Frames, SmallFrame(f), f[1] \in TurnKinds, Put(s, x, <<f>>)
    PROVE  \E in2, out2 : Goes(s, x, n, in2, out2)
  <1> DEFINE t == end[s][x]
             y == Peer(s, x)
             u == end[s][y]
             w == wire[s][x]
             v == wire[s][y]
  <1>1. /\ TaskType(t) /\ TaskType(u) /\ Small(t) /\ Small(u) /\ x \in Boxes /\ y \in Boxes
        /\ w \in Seq(Frames) /\ v \in Seq(Frames)
        /\ \A g \in Msgs(w) \cup Msgs(v) : SmallFrame(g)
    BY ResumeHere
  <1>2. /\ Resumable(t, frag[x][y]) /\ Order(t, u, w, Msgs(v), link[s] = "up")
        /\ Order(u, t, v, Msgs(w), link[s] = "up")
        /\ Both(u, t, Msgs(v), Msgs(w), bids[y], bids[x])
    BY ResumeHere
  <1>3. PICK v2 : WireAfter(s, x, w, v2) /\ v2 \in {v, v \o <<f>>}
    <2>1. SessionTypes
      BY DEF ForwardInv, SessionsInv
    <2> QED
      BY <2>1, WireSteps
  <1>4. Resumable(n, frag'[x][y])
    BY <1>2 DEF Resumable, Same
  <1> HIDE DEF t, u, w, v
  <1>5. Msgs(v2) \subseteq Msgs(v) \cup {f}
    BY <1>1, <1>3, SentOn
  <1>6. f[1] # "FS" /\ f[1] # "mail"
    BY DEF TurnKinds
  <1>7. Order(n, u, w, Msgs(v2), link[s] = "up")
    <2>1. \A g \in Msgs(v2) : g[1] = "FS" => g \in Msgs(v)
      BY <1>5, <1>6
    <2>2. /\ t.pc \notin {"end", "none"} /\ n.pc \notin {"parse", "take"} /\ Left(n) = Left(t)
          /\ u.pc = "send_mail" => u.i <= Len(u.list) + 1
      BY <1>1 DEF Same, Small, t
    <2>3. w = w \/ (w # <<>> /\ w = Tail(w) /\ Left(t) = <<>>)
      OBVIOUS
    <2> QED
      BY <1>1, <1>2, <2>1, <2>2, <2>3, OrderOwn
  <1>8. Order(u, n, v2, Msgs(w), link[s] = "up")
    <2>1. Order(u, n, v, Msgs(w), link[s] = "up")
      BY <1>1, <1>2, OrderOther DEF Same
    <2>2. Order(u, n, v \o <<f>>, Msgs(w), link[s] = "up")
      BY <1>1, <1>2, <1>6, OrderPut DEF Same, t
    <2> QED
      BY <1>3, <2>1, <2>2
  <1> QED
    BY <1>1, <1>3, <1>4, <1>5, <1>7, <1>8 DEF Goes, u, w, v

Resumes(s, x) ==
    (\E n, in2, out2 : Goes(s, x, n, in2, out2)) /\ Fragments(s, x) /\ BoxBounds'

LEMMA NoFragments ==
    ASSUME NEW s, NEW x, UNCHANGED frag
    PROVE  Fragments(s, x)
  BY DEF Fragments

(* A step that changes its place only.                                     *)
Waits(t, n) ==
    /\ t.pc \notin {"end", "none"}
    /\ n.pc \notin {"parse", "take", "send_mail", "recv_data"}
    /\ t.pc \in {"save", "queue"} <=> n.pc \in {"save", "queue"}
    /\ n.list \in {t.list, <<>>} /\ n.ask \in {t.ask, <<>>} /\ n.ans \in {t.ans, <<>>}
    /\ n.want = t.want /\ n.got \in {t.got, <<>>}

LEMMA WaitsSmall ==
    ASSUME NEW t, NEW n, Waits(t, n), Small(t)
    PROVE  Small(n) /\ Same(t, n)
  <1>1. /\ Len(<<>>) = 0 /\ <<>> \in Seq(Bits) /\ 0 <= MaxProp /\ 0 <= Blocks
        /\ \A k \in 1 .. 0 : FALSE
    BY MailBoxAssumption, FbbAssumption
  <1>2. Len(n.list) <= MaxProp /\ Len(n.ask) <= MaxProp
    BY <1>1 DEF Small, Waits
  <1>3. \A k \in 1 .. Len(n.ans) : n.ans[k].off <= Blocks
    <2>1. CASE n.ans = t.ans
      BY <2>1 DEF Small
    <2>2. CASE n.ans = <<>>
      <3>1. Len(n.ans) = 0
        BY <1>1, <2>2
      <3> QED
        BY <3>1
    <2> QED
      BY <2>1, <2>2 DEF Waits
  <1>4. n.got \in Seq(Bits) /\ Len(n.got) <= Blocks
    BY <1>1 DEF Small, Waits
  <1>5. Same(t, n)
    BY DEF Same, Waits, Left
  <1>6. /\ \A k \in 1 .. Len(n.want) : n.want[k].off <= Blocks
        /\ \A j, k \in 1 .. Len(n.want) : n.want[j].m = n.want[k].m => j = k
        /\ n.pc \notin {"recv_data", "send_mail"}
    BY DEF Small, Waits
  <1> QED
    BY <1>2, <1>3, <1>4, <1>5, <1>6 DEF Small

LEMMA Quiet ==
    ASSUME ForwardInv, ForwardInv', ResumeInv, NEW s \in Sessions, NEW x \in {s[1], s[2]},
           NEW n, Set(s, x, n), Waits(end[s][x], n), link' = link, UNCHANGED frag,
           UNCHANGED text \/ BoxBounds',
           \/ UNCHANGED wire
           \/ Take(s, x) /\ wire[s][x] # <<>> /\ Left(end[s][x]) = <<>>
    PROVE  Resumes(s, x)
  <1> DEFINE t == end[s][x]
  <1>1. Small(n) /\ Same(t, n)
    BY ResumeHere, WaitsSmall
  <1>2. \A m \in Mails : Len(frag'[x][Peer(s, x)][m]) >= Len(frag[x][Peer(s, x)][m])
    <2>1. x \in Boxes /\ Peer(s, x) \in Boxes /\ frag' = frag
      BY Ends2
    <2>2. ASSUME NEW y \in Boxes, NEW m \in Mails PROVE Len(frag[x][y][m]) \in Nat
      <3>1. frag[x][y][m] \in Seq(Bits)
        BY <2>1 DEF ForwardInv, BoxTypes
      <3> QED
        BY <3>1
    <2> QED
      BY <2>1, <2>2
  <1>3. BoxTypes'
    BY DEF ForwardInv
  <1>4. BoxBounds'
    BY DEF BoxBounds, ResumeInv
  <1>5. \E in2, out2 : Goes(s, x, n, in2, out2)
    BY <1>1, <1>2, <1>3, QuietGoes
  <1> QED
    BY <1>4, <1>5, NoFragments DEF Resumes

LEMMA Tells ==
    ASSUME ForwardInv, ForwardInv', ResumeInv, NEW s \in Sessions, NEW x \in {s[1], s[2]},
           NEW n, Set(s, x, n), Small(n), Same(end[s][x], n), link' = link,
           UNCHANGED <<frag, text>>, end[s][x].pc # "wait_fs",
           NEW f \in Frames, SmallFrame(f), f[1] \in TurnKinds, Put(s, x, <<f>>)
    PROVE  Resumes(s, x)
  <1>1. \E in2, out2 : Goes(s, x, n, in2, out2)
    BY PutGoes
  <1>2. BoxBounds'
    BY DEF BoxBounds, ResumeInv
  <1> QED
    BY <1>1, <1>2, NoFragments DEF Resumes

(* What a task at this place knows.                                        *)
LEMMA AtPlace ==
    ASSUME ForwardInv, ResumeInv, NEW s \in Sessions, NEW x \in {s[1], s[2]}, NEW p, At(s, x, p)
    PROVE  /\ end[s][x].pc = p /\ TaskType(end[s][x]) /\ DOMAIN end[s][x] = Fields
           /\ Small(end[s][x]) /\ x \in Boxes /\ Peer(s, x) \in Boxes
  <1>1. TaskType(end[s][x]) /\ Small(end[s][x]) /\ x \in Boxes /\ Peer(s, x) \in Boxes
    BY ResumeHere
  <1> QED
    BY <1>1 DEF At, T, TaskType

(* Nothing is wanted before a proposal arrives.                            *)
LEMMA NothingLeft ==
    ASSUME ForwardInv, NEW s \in Sessions, NEW x \in {s[1], s[2]},
           end[s][x].pc \in {"recv_propose", "wait_fs"}
    PROVE  end[s][x].want = <<>> /\ Left(end[s][x]) = <<>>
  <1>1. Wanting(end[s][x], bids[x])
    BY Here DEF ForwardInv, Both, Half
  <1> QED
    BY <1>1 DEF Wanting, Left

LEMMA TxDoneResumes ==
    ASSUME ForwardInv, ForwardInv', ResumeInv, NEW s \in Sessions, NEW x \in {s[1], s[2]},
           TxDone(s, x)
    PROVE  Resumes(s, x)
  <1> DEFINE t == end[s][x]
             n == [t EXCEPT !.pc = "recv_propose"]
  <1>1. At(s, x, "send_mail") /\ Set(s, x, n) /\ UNCHANGED <<link, frag, text, wire>>
    BY DEF TxDone, T, Box, Line
  <1>2. t.pc = "send_mail" /\ DOMAIN t = Fields
    BY <1>1, AtPlace
  <1>3. Waits(t, n)
    BY <1>2 DEF Waits, Fields
  <1> QED
    BY <1>1, <1>3, Quiet

LEMMA EraseForwardedResumes ==
    ASSUME ForwardInv, ForwardInv', ResumeInv, NEW s \in Sessions, NEW x \in {s[1], s[2]},
           EraseForwarded(s, x)
    PROVE  Resumes(s, x)
  <1> DEFINE t == end[s][x]
             n == [t EXCEPT !.i = @ + 1, !.locks = @ \ {t.list[t.i]}]
  <1>1. At(s, x, "erase") /\ Set(s, x, n) /\ UNCHANGED <<link, frag, text, wire>>
    BY DEF EraseForwarded, T, Line
  <1>2. t.pc = "erase" /\ DOMAIN t = Fields
    BY <1>1, AtPlace
  <1>3. Waits(t, n)
    BY <1>2 DEF Waits, Fields
  <1> QED
    BY <1>1, <1>3, Quiet

LEMMA EraseDoneResumes ==
    ASSUME ForwardInv, ForwardInv', ResumeInv, NEW s \in Sessions, NEW x \in {s[1], s[2]},
           EraseDone(s, x)
    PROVE  Resumes(s, x)
  <1> DEFINE t == end[s][x]
             n == [t EXCEPT !.pc = t.next, !.list = <<>>, !.i = 0, !.stat = <<>>]
  <1>1. At(s, x, "erase") /\ Set(s, x, n) /\ UNCHANGED <<link, frag, text, wire>>
    BY DEF EraseDone, T, Box, Line
  <1>2. t.pc = "erase" /\ DOMAIN t = Fields /\ t.next \in {"recv_mail", "send_propose", "end"}
    <2>1. t.pc = "erase" /\ DOMAIN t = Fields /\ TaskType(t)
      BY <1>1, AtPlace
    <2> QED
      BY <2>1 DEF TaskType
  <1>3. Waits(t, n)
    BY <1>2 DEF Waits, Fields
  <1> QED
    BY <1>1, <1>3, Quiet

LEMMA RxDoneResumes ==
    ASSUME ForwardInv, ForwardInv', ResumeInv, NEW s \in Sessions, NEW x \in {s[1], s[2]},
           RxDone(s, x)
    PROVE  Resumes(s, x)
  <1> DEFINE t == end[s][x]
             n == [t EXCEPT !.pc = "send_propose"]
  <1>1. At(s, x, "recv_mail") /\ Set(s, x, n) /\ UNCHANGED <<link, frag, text, wire>>
    BY DEF RxDone, T, Box, Line
  <1>2. t.pc = "recv_mail" /\ DOMAIN t = Fields
    BY <1>1, AtPlace
  <1>3. Waits(t, n)
    BY <1>2 DEF Waits, Fields
  <1> QED
    BY <1>1, <1>3, Quiet

LEMMA SendDelayResumes ==
    ASSUME ForwardInv, ForwardInv', ResumeInv, NEW s \in Sessions, NEW x \in {s[1], s[2]},
           SendDelay(s, x)
    PROVE  Resumes(s, x)
  <1> DEFINE t == end[s][x]
             n1 == [t EXCEPT !.pc = "send_propose", !.delayed = TRUE]
             n2 == [t EXCEPT !.pc = "end", !.job = "end"]
  <1>1. At(s, x, "send_delay") /\ UNCHANGED <<link, frag, text>>
        /\ \/ Set(s, x, n1) /\ UNCHANGED wire
           \/ Set(s, x, n2) /\ Put(s, x, <<<<"FQ">>>>)
    BY DEF SendDelay, T, Box, Line
  <1>2. t.pc = "send_delay" /\ DOMAIN t = Fields /\ Small(t)
    BY <1>1, AtPlace
  <1>3. Waits(t, n1) /\ Waits(t, n2)
    BY <1>2 DEF Waits, Fields
  <1>4. <<"FQ">> \in Frames /\ SmallFrame(<<"FQ">>) /\ <<"FQ">>[1] \in TurnKinds
    BY DEF Frames, SmallFrame, FbbKinds, TurnKinds
  <1>5. Small(n2) /\ Same(t, n2)
    BY <1>2, <1>3, WaitsSmall
  <1> HIDE DEF n1, n2
  <1>6. CASE Set(s, x, n1) /\ UNCHANGED wire
    BY <1>1, <1>3, <1>6, Quiet
  <1>7. CASE Set(s, x, n2) /\ Put(s, x, <<<<"FQ">>>>)
    BY <1>1, <1>2, <1>4, <1>5, <1>7, Tells
  <1> QED
    BY <1>1, <1>6, <1>7

LEMMA TxProposalResumes ==
    ASSUME ForwardInv, ForwardInv', ResumeInv, NEW s \in Sessions, NEW x \in {s[1], s[2]},
           TxProposal(s, x)
    PROVE  Resumes(s, x)
  <1> DEFINE t == end[s][x]
             t0 == [t EXCEPT !.list = <<>>, !.stat = <<>>, !.i = 0]
             due == IF AnotherFwdSender(s, x) THEN <<>>
                    ELSE GetFwdListEntry(x, Peer(s, x), MaxProp)
             n1 == [t0 EXCEPT !.pc = "wait_fs", !.list = due, !.at = Last(due), !.delayed = FALSE]
             n2 == [t0 EXCEPT !.pc = "recv_propose", !.delayed = FALSE]
             n3 == [t0 EXCEPT !.pc = "send_delay"]
  <1>1. At(s, x, "send_propose") /\ UNCHANGED <<link, frag, text>>
        /\ \/ Set(s, x, n1) /\ Put(s, x, <<<<"prop", due>>>>)
           \/ Set(s, x, n2) /\ Put(s, x, <<<<"FF">>>>)
           \/ Set(s, x, n3) /\ UNCHANGED wire
    BY DEF TxProposal, T, Box, Line
  <1>2. t.pc = "send_propose" /\ DOMAIN t = Fields /\ Small(t) /\ x \in Boxes /\ Peer(s, x) \in Boxes
    BY <1>1, AtPlace
  <1>3. due \in Seq(Mails) /\ Len(due) <= MaxProp
    <2>1. GetFwdListEntry(x, Peer(s, x), MaxProp) \in Seq(Mails)
          /\ Len(GetFwdListEntry(x, Peer(s, x), MaxProp)) <= MaxProp
      BY <1>2, Entries, FbbAssumption DEF ForwardInv
    <2>2. <<>> \in Seq(Mails) /\ Len(<<>>) = 0 /\ 0 <= MaxProp
      BY FbbAssumption
    <2> QED
      BY <2>1, <2>2
  <1> HIDE DEF due
  <1>4. Waits(t, n2) /\ Waits(t, n3)
    BY <1>2 DEF Waits, Fields
  <1>5. Small(n2) /\ Same(t, n2)
    BY <1>2, <1>4, WaitsSmall
  <1>6. /\ n1.pc = "wait_fs" /\ n1.list = due /\ n1.ask = t.ask /\ n1.ans = t.ans
        /\ n1.want = t.want /\ n1.got = t.got
    BY <1>2 DEF Fields
  <1> HIDE DEF t, t0, n1, n2, n3
  <1>7. Small(n1) /\ Same(t, n1)
    BY <1>2, <1>3, <1>6 DEF Small, Same, Left
  <1>8. CASE Set(s, x, n1) /\ Put(s, x, <<<<"prop", due>>>>)
    <2> DEFINE f == <<"prop", due>>
    <2>1. f \in {"prop"} \X Seq(Mails) /\ f[1] = "prop" /\ f[2] = due
      BY <1>3
    <2> HIDE DEF f
    <2>2. f \in Frames /\ SmallFrame(f) /\ f[1] \in TurnKinds
      BY <1>3, <2>1 DEF Frames, SmallFrame, FbbKinds, TurnKinds
    <2>3. Put(s, x, <<f>>) /\ end[s][x].pc # "wait_fs" /\ Same(end[s][x], n1)
      BY <1>2, <1>7, <1>8 DEF t, f
    <2> QED
      BY <1>1, <1>7, <1>8, <2>2, <2>3, Tells
  <1>9. CASE Set(s, x, n2) /\ Put(s, x, <<<<"FF">>>>)
    <2>1. <<"FF">> \in Frames /\ SmallFrame(<<"FF">>) /\ <<"FF">>[1] \in TurnKinds
      BY DEF Frames, SmallFrame, FbbKinds, TurnKinds
    <2>2. end[s][x].pc # "wait_fs" /\ Same(end[s][x], n2)
      BY <1>2, <1>5 DEF t
    <2> QED
      BY <1>1, <1>5, <1>9, <2>1, <2>2, Tells
  <1>10. CASE Set(s, x, n3) /\ UNCHANGED wire
    BY <1>1, <1>4, <1>10, Quiet DEF t
  <1> QED
    BY <1>1, <1>8, <1>9, <1>10

LEMMA RxFirstResumes ==
    ASSUME ForwardInv, ForwardInv', ResumeInv, NEW s \in Sessions, NEW x \in {s[1], s[2]},
           RxFirst(s, x)
    PROVE  Resumes(s, x)
  <1> DEFINE t == end[s][x]
             y == Peer(s, x)
             u == end[s][y]
             w == wire[s][x]
             v == wire[s][y]
             n1 == [t EXCEPT !.pc = "parse", !.ans = <<>>, !.want = <<>>, !.ask = Head(w)[2]]
             n2 == Confirmed([t EXCEPT !.had = FALSE], "send_propose")
             n3 == Confirmed(t, "end")
  <1>1. At(s, x, "recv_propose") /\ Take(s, x) /\ w # <<>> /\ UNCHANGED <<link, frag, text>>
        /\ \/ Set(s, x, n1) /\ Head(w)[1] = "prop"
           \/ Set(s, x, n2)
           \/ Set(s, x, n3)
    BY DEF RxFirst, Arrived, T, Box, Line
  <1>2. t.pc = "recv_propose" /\ DOMAIN t = Fields /\ Small(t)
    BY <1>1, AtPlace
  <1>3. Left(t) = <<>> /\ t.want = <<>>
    BY <1>2, NothingLeft
  <1>4. Waits(t, n2) /\ Waits(t, n3)
    BY <1>2 DEF Waits, Fields, Confirmed
  <1>5. CASE Set(s, x, n2) \/ Set(s, x, n3)
    <2> HIDE DEF n2, n3
    <2> QED
      BY <1>1, <1>3, <1>4, <1>5, Quiet
  <1>6. CASE Set(s, x, n1) /\ Head(w)[1] = "prop"
    <2>1. n1.pc = "parse" /\ n1.ans = <<>> /\ n1.want = <<>> /\ n1.ask = Head(w)[2]
          /\ n1.list = t.list /\ n1.got = t.got
      BY <1>2 DEF Fields
    <2>2. /\ TaskType(t) /\ w \in Seq(Frames) /\ v \in Seq(Frames)
          /\ \A f \in Msgs(w) \cup Msgs(v) : SmallFrame(f)
          /\ Both(t, u, Msgs(w), Msgs(v), bids[x], bids[y]) /\ OneOf(w, TurnKinds)
      BY ResumeHere
    <2>3. /\ Order(t, u, w, Msgs(v), link[s] = "up")
          /\ Order(u, t, v, Msgs(w), link[s] = "up")
      BY ResumeHere
    <2>4. SessionTypes
      BY DEF ForwardInv, SessionsInv
    <2>5. WireAfter(s, x, Tail(w), v)
      BY <1>1, <2>4, WireSteps
    <2>6. Head(w) \in Msgs(w) /\ Msgs(Tail(w)) \subseteq Msgs(w)
      BY <1>1, <2>2, TakenOff
    <2> HIDE DEF n1, t, u, w, v
    <2>7. Order(n1, u, Tail(w), Msgs(v), link[s] = "up")
      <3>1. \A f \in Msgs(w) : f[1] \in FbbKinds
        BY <2>2 DEF SmallFrame
      <3> QED
        BY <1>1, <1>2, <1>6, <2>1, <2>2, <2>3, <3>1, OrderBegin
    <2>8. Order(u, n1, v, Msgs(Tail(w)), link[s] = "up")
      BY <2>1, <2>2, <2>3, <2>6, OrderOther
    <2>9. Small(n1)
      <3>1. Len(n1.ask) <= MaxProp
        BY <1>6, <2>1, <2>2, <2>6 DEF SmallFrame
      <3>2. \A k \in 1 .. Len(<<>>) : FALSE
        OBVIOUS
      <3> QED
        BY <1>2, <2>1, <3>1, <3>2 DEF Small
    <2>10. Resumable(n1, frag'[x][y])
      <3>1. Left(n1) = <<>> /\ \A k \in 1 .. Len(<<>>) : FALSE
        BY <2>1 DEF Left
      <3> QED
        BY <3>1 DEF Resumable
    <2>11. Goes(s, x, n1, Tail(w), v)
      BY <1>1, <1>6, <2>2, <2>5, <2>6, <2>7, <2>8, <2>9, <2>10 DEF Goes, u
    <2>12. BoxBounds'
      BY <1>1 DEF BoxBounds, ResumeInv
    <2> QED
      BY <1>1, <2>11, <2>12, NoFragments DEF Resumes
  <1> QED
    BY <1>1, <1>5, <1>6

LEMMA RxSaveResumes ==
    ASSUME ForwardInv, ForwardInv', ResumeInv, NEW s \in Sessions, NEW x \in {s[1], s[2]},
           RxSave(s, x)
    PROVE  Resumes(s, x)
  <1> DEFINE t == end[s][x]
             n == [t EXCEPT !.pc = "queue", !.got = <<>>, !.i = 0]
             h == Head(t.want).m
  <1>1. At(s, x, "save") /\ Set(s, x, n) /\ UNCHANGED <<link, frag, wire>>
        /\ text' = [text EXCEPT ![x][h] = t.got]
    BY DEF RxSave, T, Line, SaveMail
  <1>2. t.pc = "save" /\ DOMAIN t = Fields /\ t.got \in Wholes
    <2>1. t.pc = "save" /\ DOMAIN t = Fields /\ TaskType(t)
      BY <1>1, AtPlace
    <2> QED
      BY <2>1 DEF TaskType
  <1>3. Waits(t, n)
    BY <1>2 DEF Waits, Fields
  <1>4. BoxBounds'
    <2>1. t.got \in Seq(Bits) /\ Len(t.got) = Blocks /\ Blocks \in Nat
      BY <1>2, WholeText, MailBoxAssumption
    <2>2. text \in [Boxes -> [Mails -> Seq(Bits)]]
      BY DEF ForwardInv, BoxTypes
    <2> HIDE DEF t, h
    <2>3. ASSUME NEW z \in Boxes, NEW m \in Mails PROVE Len(text'[z][m]) <= Blocks
      <3>1. text'[z][m] = t.got \/ text'[z][m] = text[z][m]
        BY <1>1, <2>2
      <3>2. Len(text[z][m]) <= Blocks
        BY DEF ResumeInv, BoxBounds
      <3> QED
        BY <2>1, <3>1, <3>2
    <2> QED
      BY <1>1, <2>3 DEF ResumeInv, BoxBounds
  <1> HIDE DEF n
  <1> QED
    BY <1>1, <1>3, <1>4, Quiet

LEMMA RxQueueResumes ==
    ASSUME ForwardInv, ForwardInv', ResumeInv, NEW s \in Sessions, NEW x \in {s[1], s[2]},
           RxQueue(s, x)
    PROVE  Resumes(s, x)
  <1> DEFINE t == end[s][x]
             n == [t EXCEPT !.pc = "recv_mail", !.want = Tail(@)]
  <1>1. At(s, x, "queue") /\ Set(s, x, n) /\ UNCHANGED <<link, frag, text, wire>>
    BY DEF RxQueue, T, Line
  <1>2. t.pc = "queue" /\ DOMAIN t = Fields /\ Small(t) /\ t.want \in Seq(Replies) /\ t.want # <<>>
    <2>1. t.pc = "queue" /\ DOMAIN t = Fields /\ TaskType(t) /\ Small(t)
      BY <1>1, AtPlace
    <2> QED
      BY <2>1 DEF TaskType
  <1>3. /\ n.pc = "recv_mail" /\ n.list = t.list /\ n.ask = t.ask /\ n.ans = t.ans
        /\ n.want = Tail(t.want) /\ n.got = t.got
    BY <1>2 DEF Fields
  <1>4. /\ \A k \in 1 .. Len(n.want) : /\ k + 1 \in 1 .. Len(t.want) /\ n.want[k] = t.want[k + 1]
                                       /\ k \in Int
    <2> DEFINE l == t.want
    <2>1. l \in Seq(Replies) /\ l # <<>> /\ n.want = Tail(l)
      BY <1>2, <1>3
    <2> HIDE DEF l, n
    <2>2. \A k \in 1 .. Len(Tail(l)) : k + 1 \in 1 .. Len(l) /\ Tail(l)[k] = l[k + 1] /\ k \in Int
      BY <2>1
    <2> QED
      BY <2>1, <2>2 DEF l
  <1> HIDE DEF t, n
  <1>5. Small(n)
    <2>1. ASSUME NEW j \in 1 .. Len(n.want), NEW k \in 1 .. Len(n.want), n.want[j].m = n.want[k].m
          PROVE  j = k
      <3>1. t.want[j + 1].m = t.want[k + 1].m /\ j + 1 \in 1 .. Len(t.want)
            /\ k + 1 \in 1 .. Len(t.want) /\ j \in Int /\ k \in Int
        BY <1>4, <2>1
      <3>2. j + 1 = k + 1
        BY <1>2, <3>1 DEF Small
      <3> QED
        BY <3>1, <3>2
    <2>2. \A k \in 1 .. Len(n.want) : n.want[k].off <= Blocks
      BY <1>2, <1>4 DEF Small
    <2> QED
      BY <1>2, <1>3, <2>1, <2>2 DEF Small
  <1>6. Same(t, n)
    BY <1>2, <1>3 DEF Same, Left
  <1>7. \A m \in Mails : Len(frag'[x][Peer(s, x)][m]) >= Len(frag[x][Peer(s, x)][m])
    <2>1. x \in Boxes /\ Peer(s, x) \in Boxes /\ frag' = frag
      BY <1>1, Ends2
    <2>2. ASSUME NEW y \in Boxes, NEW m \in Mails PROVE Len(frag[x][y][m]) \in Nat
      <3>1. frag[x][y][m] \in Seq(Bits)
        BY <2>1 DEF ForwardInv, BoxTypes
      <3> QED
        BY <3>1
    <2> QED
      BY <2>1, <2>2
  <1>8. BoxTypes' /\ BoxBounds'
    BY <1>1 DEF ForwardInv, BoxBounds, ResumeInv
  <1>9. \E in2, out2 : Goes(s, x, n, in2, out2)
    BY <1>1, <1>5, <1>6, <1>7, <1>8, QuietGoes DEF t
  <1> QED
    BY <1>1, <1>8, <1>9, NoFragments DEF Resumes

LEMMA RxStatusResumes ==
    ASSUME ForwardInv, ForwardInv', ResumeInv, NEW s \in Sessions, NEW x \in {s[1], s[2]},
           RxStatus(s, x)
    PROVE  Resumes(s, x)
  <1> DEFINE t == end[s][x]
             y == Peer(s, x)
             u == end[s][y]
             w == wire[s][x]
             v == wire[s][y]
             n == [t EXCEPT !.pc = "send_mail", !.i = 1, !.stat = Head(w)[2]]
  <1>1. At(s, x, "wait_fs") /\ Take(s, x) /\ w # <<>> /\ Head(w)[1] = "FS" /\ Set(s, x, n)
        /\ UNCHANGED <<link, frag, text>>
    BY DEF RxStatus, Arrived, T, Box, Line
  <1>2. t.pc = "wait_fs" /\ DOMAIN t = Fields /\ Small(t) /\ TaskType(t)
    BY <1>1, AtPlace
  <1>3. Left(t) = <<>> /\ t.want = <<>>
    BY <1>2, NothingLeft
  <1>4. /\ n.pc = "send_mail" /\ n.i = 1 /\ n.stat = Head(w)[2] /\ n.list = t.list
        /\ n.ask = t.ask /\ n.ans = t.ans /\ n.want = t.want /\ n.got = t.got
    BY <1>2 DEF Fields
  <1>5. /\ TaskType(u) /\ Small(u) /\ w \in Seq(Frames) /\ v \in Seq(Frames)
        /\ \A f \in Msgs(w) \cup Msgs(v) : SmallFrame(f)
        /\ Resumable(t, frag[x][y])
    BY ResumeHere
  <1>6. /\ Order(t, u, w, Msgs(v), link[s] = "up")
        /\ Order(u, t, v, Msgs(w), link[s] = "up")
    BY ResumeHere
  <1>7. WireAfter(s, x, Tail(w), v)
    <2>1. SessionTypes
      BY DEF ForwardInv, SessionsInv
    <2> QED
      BY <1>1, <2>1, WireSteps
  <1>8. Head(w) \in Msgs(w) /\ Msgs(Tail(w)) \subseteq Msgs(w)
    BY <1>1, <1>5, TakenOff
  <1> HIDE DEF n, t, u, w, v
  <1>9. Order(n, u, Tail(w), Msgs(v), link[s] = "up")
    <2>1. Left(n) = Left(t) /\ n.pc \notin {"parse", "take"} /\ t.pc \notin {"end", "none"}
          /\ (u.pc = "send_mail" => u.i <= Len(u.list) + 1)
      BY <1>2, <1>4, <1>5 DEF Left, Small
    <2>2. Tail(w) = w \/ (w # <<>> /\ Tail(w) = Tail(w) /\ Left(t) = <<>>)
      BY <1>1, <1>3
    <2> QED
      BY <1>2, <1>5, <1>6, <2>1, <2>2, OrderOwn
  <1>10. Order(u, n, v, Msgs(Tail(w)), link[s] = "up")
    <2> DEFINE f == Head(w)
    <2>1. f \in Msgs(w) /\ f[1] = "FS" /\ n.stat = f[2]
      BY <1>1, <1>4, <1>8
    <2> HIDE DEF f
    <2> QED
      BY <1>4, <1>5, <1>6, <1>8, <2>1, OrderReply
  <1>11. Small(n)
    <2>1. Len(t.list) \in Nat
      <3>1. t.list \in Seq(Mails)
        BY <1>2 DEF TaskType
      <3> QED
        BY <3>1
    <2>2. n.i <= Len(n.list) + 1
      BY <1>4, <2>1
    <2> QED
      BY <1>2, <1>4, <2>2 DEF Small
  <1>12. Resumable(n, frag'[x][y])
    BY <1>1, <1>2, <1>4, <1>5 DEF Resumable, Left
  <1>13. Goes(s, x, n, Tail(w), v)
    BY <1>1, <1>5, <1>7, <1>8, <1>9, <1>10, <1>11, <1>12 DEF Goes, u
  <1>14. BoxBounds'
    BY <1>1 DEF BoxBounds, ResumeInv
  <1> QED
    BY <1>1, <1>13, <1>14, NoFragments DEF Resumes

(* What is sent on a connection that is up arrives.                        *)
LEMMA PutUp ==
    ASSUME SessionTypes, NEW s \in Sessions, NEW x \in {s[1], s[2]}, NEW f, Put(s, x, <<f>>)
    PROVE  /\ link[s] = "up" => WireAfter(s, x, wire[s][x], wire[s][Peer(s, x)] \o <<f>>)
           /\ link[s] # "up" => WireAfter(s, x, wire[s][x], wire[s][Peer(s, x)])
  <1> DEFINE y == Peer(s, x)
  <1>1. y \in {s[1], s[2]} /\ y # x
    BY Ends2
  <1>2. DOMAIN wire = Sessions /\ DOMAIN wire[s] = {s[1], s[2]}
    BY DEF SessionTypes
  <1>3. link[s] = "up" => wire' = [wire EXCEPT ![s][y] = @ \o <<f>>]
    BY DEF Put, Sent
  <1>4. link[s] # "up" => wire' = wire
    BY DEF Put, Sent
  <1> HIDE DEF y
  <1> QED
    BY <1>1, <1>2, <1>3, <1>4 DEF WireAfter, y

LEMMA TxMailResumes ==
    ASSUME ForwardInv, ForwardInv', ResumeInv, NEW s \in Sessions, NEW x \in {s[1], s[2]},
           TxMail(s, x)
    PROVE  Resumes(s, x)
  <1> DEFINE t == end[s][x]
             y == Peer(s, x)
             u == end[s][y]
             w == wire[s][x]
             v == wire[s][y]
             m == t.list[t.i]
             st == t.stat[t.i]
             n1 == [t EXCEPT !.i = @ + 1]
             n2 == [t EXCEPT !.pc = "end", !.job = "end"]
             n3 == [t EXCEPT !.i = @ + 1, !.at = m,
                             !.locks = IF t.at \in Personal THEN @ \cup {m} ELSE @]
             f == <<"mail", st.off, text[x][m]>>
  <1>1. At(s, x, "send_mail") /\ t.i <= Len(t.list) /\ UNCHANGED <<link, frag, text>>
        /\ \/ st.st # "yes" /\ Set(s, x, n1) /\ UNCHANGED wire
           \/ Set(s, x, n2) /\ UNCHANGED wire
           \/ st.st = "yes" /\ mail[x][m] = "live" /\ Set(s, x, n3) /\ Put(s, x, <<f>>)
    BY DEF TxMail, T, Line
  <1>2. t.pc = "send_mail" /\ DOMAIN t = Fields /\ Small(t) /\ TaskType(t) /\ x \in Boxes
    BY <1>1, AtPlace
  <1>3. /\ TaskType(u) /\ Small(u) /\ w \in Seq(Frames) /\ v \in Seq(Frames)
        /\ \A g \in Msgs(w) \cup Msgs(v) : SmallFrame(g)
        /\ Resumable(t, frag[x][y])
        /\ Both(u, t, Msgs(v), Msgs(w), bids[y], bids[x])
    BY ResumeHere
  <1>4. /\ Order(t, u, w, Msgs(v), link[s] = "up")
        /\ Order(u, t, v, Msgs(w), link[s] = "up")
    BY ResumeHere
  <1>5. SessionTypes
    BY DEF ForwardInv, SessionsInv
  <1>6. BoxBounds'
    BY <1>1 DEF BoxBounds, ResumeInv
  <1>7. \A n \in {n1, n3} :
            /\ n.pc = "send_mail" /\ n.i = t.i + 1 /\ n.stat = t.stat /\ n.list = t.list
            /\ n.ask = t.ask /\ n.ans = t.ans /\ n.want = t.want /\ n.got = t.got
    BY <1>2 DEF Fields
  <1>8. Waits(t, n2)
    BY <1>2 DEF Waits, Fields
  <1>9. t.i \in Nat /\ Len(t.list) \in Nat /\ t.stat \in Seq(Replies) /\ Len(t.stat) = Len(t.list)
        /\ t.list \in Seq(Mails) /\ t.i >= 1
    BY <1>2 DEF TaskType
  <1>10. st \in Replies /\ m \in Mails
    BY <1>1, <1>9
  <1> HIDE DEF t, n1, n2, n3, m, st
  <1>11. CASE Set(s, x, n2) /\ UNCHANGED wire
    BY <1>1, <1>8, <1>11, Quiet DEF t
  <1>12. ASSUME NEW n \in {n1, n3}
         PROVE  /\ Small(n) /\ Resumable(n, frag'[x][y])
                /\ \A N2 : (\A g \in N2 : g[1] = "FS" => g \in Msgs(v)) =>
                      Order(n, u, w, N2, link[s] = "up")
    <2>1. n.i <= Len(n.list) + 1
      BY <1>1, <1>7, <1>9
    <2>2. Small(n) /\ Resumable(n, frag'[x][y]) /\ Left(n) = Left(t)
      BY <1>1, <1>2, <1>3, <1>7, <2>1 DEF Small, Resumable, Left
    <2>3. /\ n.pc \notin {"parse", "take"} /\ t.pc \notin {"end", "none"}
          /\ (u.pc = "send_mail" => u.i <= Len(u.list) + 1)
          /\ w = w \/ (w # <<>> /\ w = Tail(w) /\ Left(t) = <<>>)
      BY <1>2, <1>3, <1>7 DEF Small
    <2> HIDE DEF u, v, w
    <2>4. ASSUME NEW N2, \A g \in N2 : g[1] = "FS" => g \in Msgs(v)
          PROVE  Order(n, u, w, N2, link[s] = "up")
      BY <1>2, <1>3, <1>4, <2>2, <2>3, <2>4, OrderOwn
    <2> QED
      BY <2>2, <2>4
  <1>13. CASE st.st # "yes" /\ Set(s, x, n1) /\ UNCHANGED wire
    <2>1. Order(n1, u, w, Msgs(v), link[s] = "up")
      BY <1>12
    <2>2. Order(u, n1, v, Msgs(w), link[s] = "up")
      <3>1. n1.i = t.i + 1 /\ n1.stat = t.stat /\ n1.pc = "send_mail" /\ t.stat[t.i].st # "yes"
        BY <1>7, <1>13 DEF st
      <3> HIDE DEF u, v, w
      <3> QED
        BY <1>1, <1>2, <1>3, <1>4, <3>1, OrderPlace
    <2>3. WireAfter(s, x, w, v)
      BY <1>5, <1>13, WireSteps
    <2>4. Small(n1) /\ Resumable(n1, frag'[x][y]) /\ Set(s, x, n1) /\ link' = link
      BY <1>1, <1>12, <1>13
    <2>5. Goes(s, x, n1, w, v)
      BY <1>3, <2>1, <2>2, <2>3, <2>4 DEF Goes
    <2> QED
      BY <1>1, <1>6, <2>5, NoFragments DEF Resumes
  <1>14. CASE st.st = "yes" /\ mail[x][m] = "live" /\ Set(s, x, n3) /\ Put(s, x, <<f>>)
    <2>1. f \in Frames /\ f[1] = "mail" /\ f[2] = st.off /\ SmallFrame(f)
      <3>1. text[x][m] \in Wholes
        BY <1>2, <1>10, <1>14 DEF ForwardInv, BoxTypes
      <3>2. st.off \in Nat
        BY <1>10 DEF Replies
      <3>3. f \in {"mail"} \X Nat \X Wholes /\ f[1] = "mail" /\ f[2] = st.off
        BY <3>1, <3>2
      <3> HIDE DEF f
      <3> QED
        BY <3>3 DEF Frames, SmallFrame, FbbKinds
    <2> HIDE DEF f
    <2>2. PICK v2 : /\ WireAfter(s, x, w, v2) /\ v2 \in {v, v \o <<f>>}
                    /\ link[s] = "up" => v2 = v \o <<f>>
                    /\ link[s] # "up" => v2 = v
      BY <1>5, <1>14, PutUp
    <2>3. Msgs(v2) \subseteq Msgs(v) \cup {f}
      BY <1>3, <2>1, <2>2, SentOn
    <2>4. Order(n3, u, w, Msgs(v2), link[s] = "up")
      BY <1>12, <2>1, <2>3
    <2>5. Order(u, n3, v2, Msgs(w), link[s] = "up")
      <3>1. n3.i = t.i + 1 /\ n3.stat = t.stat /\ n3.pc = "send_mail" /\ t.stat[t.i].st = "yes"
            /\ f[2] = t.stat[t.i].off
        BY <1>7, <1>14, <2>1 DEF st
      <3> HIDE DEF u, v, w
      <3>2. CASE link[s] = "up"
        <4>1. Order(u, t, v, Msgs(w), TRUE)
          BY <1>4, <3>2 DEF Order
        <4>2. Order(u, n3, v \o <<f>>, Msgs(w), TRUE)
          BY <1>1, <1>2, <1>3, <2>1, <3>1, <4>1, OrderSent
        <4> QED
          BY <2>2, <3>2, <4>2 DEF Order
      <3>3. CASE link[s] # "up"
        BY <1>4, <2>2, <3>3 DEF Order
      <3> QED
        BY <3>2, <3>3
    <2>6. Small(n3) /\ Resumable(n3, frag'[x][y]) /\ Set(s, x, n3) /\ link' = link
      BY <1>1, <1>12, <1>14
    <2>7. Goes(s, x, n3, w, v2)
      BY <1>3, <2>1, <2>2, <2>3, <2>4, <2>5, <2>6 DEF Goes
    <2> QED
      BY <1>1, <1>6, <2>7, NoFragments DEF Resumes
  <1> QED
    BY <1>1, <1>11, <1>13, <1>14

(* A line of the reply is made: a says of a mail not yet wanted.           *)
MakesLine(t, n, a) ==
    /\ t.pc \in {"parse", "take"} /\ n.pc \in {"parse", "take"}
    /\ n.list = t.list /\ n.ask = t.ask /\ n.got = t.got
    /\ \/ n.ans = t.ans /\ n.want = t.want
       \/ a.st # "yes" /\ n.ans = Append(t.ans, a) /\ n.want = t.want
       \/ /\ a.st = "yes" /\ n.ans = Append(t.ans, a) /\ n.want = Append(t.want, a)
          /\ a.m \notin WantSet(t)

LEMMA LineSmall ==
    ASSUME NEW t, TaskType(t), Small(t), NEW a \in Replies, a.off <= Blocks,
           NEW n, MakesLine(t, n, a)
    PROVE  Small(n)
  <1>1. t.ans \in Seq(Replies) /\ t.want \in Seq(Replies)
    BY DEF TaskType
  <1>2. ASSUME NEW q \in Seq(Replies), \A k \in 1 .. Len(q) : q[k].off <= Blocks
        PROVE  \A k \in 1 .. Len(Append(q, a)) : Append(q, a)[k].off <= Blocks
    <2> DEFINE r == Append(q, a)
    <2>1. Len(r) = Len(q) + 1 /\ r[Len(q) + 1] = a /\ (\A k \in 1 .. Len(q) : r[k] = q[k])
          /\ Len(q) \in Nat
      OBVIOUS
    <2> HIDE DEF r
    <2>2. ASSUME NEW k \in 1 .. Len(r) PROVE r[k].off <= Blocks
      <3>1. CASE k = Len(q) + 1
        BY <2>1, <3>1
      <3>2. CASE k # Len(q) + 1
        <4>1. k \in 1 .. Len(q)
          BY <2>1, <3>2
        <4> QED
          BY <1>2, <2>1, <4>1
      <3> QED
        BY <3>1, <3>2
    <2> QED
      BY <2>2 DEF r
  <1>3. \A k \in 1 .. Len(n.ans) : n.ans[k].off <= Blocks
    BY <1>1, <1>2 DEF MakesLine, Small
  <1>4. \A k \in 1 .. Len(n.want) : n.want[k].off <= Blocks
    BY <1>1, <1>2 DEF MakesLine, Small
  <1>5. \A j, k \in 1 .. Len(n.want) : n.want[j].m = n.want[k].m => j = k
    <2>1. CASE n.want = t.want
      BY <2>1 DEF Small
    <2>2. CASE n.want = Append(t.want, a) /\ a.m \notin WantSet(t)
      <3> DEFINE q == t.want
                 r == Append(q, a)
      <3>1. Len(r) = Len(q) + 1 /\ r[Len(q) + 1] = a /\ (\A k \in 1 .. Len(q) : r[k] = q[k])
            /\ Len(q) \in Nat
        BY <1>1
      <3>2. /\ \A k \in 1 .. Len(q) : q[k].m # a.m
            /\ \A j, k \in 1 .. Len(q) : q[j].m = q[k].m => j = k
        BY <2>2 DEF WantSet, Small
      <3> HIDE DEF q, r
      <3>3. \A k \in 1 .. Len(r) : k \in 1 .. Len(q) \/ k = Len(q) + 1
        BY <3>1
      <3> SUFFICES ASSUME NEW j \in 1 .. Len(r), NEW k \in 1 .. Len(r), r[j].m = r[k].m
                   PROVE  j = k
        BY <2>2 DEF q, r
      <3>4. CASE j \in 1 .. Len(q) /\ k \in 1 .. Len(q)
        BY <3>1, <3>2, <3>4
      <3>5. CASE j = Len(q) + 1 /\ k \in 1 .. Len(q)
        BY <3>1, <3>2, <3>5
      <3>6. CASE k = Len(q) + 1 /\ j \in 1 .. Len(q)
        BY <3>1, <3>2, <3>6
      <3> QED
        BY <3>3, <3>4, <3>5, <3>6
    <2> QED
      BY <2>1, <2>2 DEF MakesLine
  <1> QED
    BY <1>3, <1>4, <1>5 DEF Small, MakesLine

LEMMA LineResumes ==
    ASSUME ForwardInv, ForwardInv', ResumeInv, NEW s \in Sessions, NEW x \in {s[1], s[2]},
           NEW n, Set(s, x, n), NEW a \in Replies, a.off <= Blocks, MakesLine(end[s][x], n, a),
           UNCHANGED <<link, wire>>, Fragments(s, x), BoxBounds',
           Resumable(n, frag'[x][Peer(s, x)])
    PROVE  Resumes(s, x)
  <1> DEFINE t == end[s][x]
             y == Peer(s, x)
             u == end[s][y]
             w == wire[s][x]
             v == wire[s][y]
  <1>1. /\ TaskType(t) /\ Small(t) /\ w \in Seq(Frames) /\ v \in Seq(Frames)
        /\ \A g \in Msgs(w) \cup Msgs(v) : SmallFrame(g)
        /\ Both(t, u, Msgs(w), Msgs(v), bids[x], bids[y])
    BY ResumeHere
  <1>2. /\ Order(t, u, w, Msgs(v), link[s] = "up")
        /\ Order(u, t, v, Msgs(w), link[s] = "up")
    BY ResumeHere
  <1>3. WireAfter(s, x, w, v)
    <2>1. SessionTypes
      BY DEF ForwardInv, SessionsInv
    <2> QED
      BY <2>1, WireSteps
  <1> HIDE DEF t, u, w, v
  <1>4. MakesLine(t, n, a)
    BY DEF t
  <1>5. Small(n)
    BY <1>1, <1>4, LineSmall
  <1>6. Order(n, u, w, Msgs(v), link[s] = "up")
    BY <1>1, <1>2, <1>4, OrderLine DEF MakesLine
  <1>7. Order(u, n, v, Msgs(w), link[s] = "up")
    <2>1. n.pc # "send_mail"
      BY <1>4 DEF MakesLine
    <2> QED
      BY <1>1, <1>2, <2>1, OrderOther
  <1>8. Goes(s, x, n, w, v)
    BY <1>1, <1>3, <1>5, <1>6, <1>7 DEF Goes, u
  <1> QED
    BY <1>8 DEF Resumes

LEMMA ParseLineResumes ==
    ASSUME ForwardInv, ForwardInv', ResumeInv, NEW s \in Sessions, NEW x \in {s[1], s[2]},
           ParseLine(s, x)
    PROVE  Resumes(s, x)
  <1> DEFINE t == end[s][x]
             m == t.ask[Len(t.ans) + 1]
             st == WantMail(s, x, m)
             a == Answer(m, st, 0)
             n1 == [t EXCEPT !.pc = "take"]
             n2 == [t EXCEPT !.ans = Append(@, a)]
  <1>1. At(s, x, "parse") /\ Len(t.ans) < Len(t.ask) /\ UNCHANGED <<link, wire, frag, text>>
        /\ \/ Set(s, x, n1)
           \/ st # "yes" /\ Set(s, x, n2)
    BY DEF ParseLine, T, Line
  <1>2. t.pc = "parse" /\ DOMAIN t = Fields /\ TaskType(t)
    BY <1>1, AtPlace
  <1>3. m \in Mails
    <2>1. t.ask \in Seq(Mails) /\ t.ans \in Seq(Replies)
      BY <1>2 DEF TaskType
    <2> HIDE DEF t
    <2> QED
      BY <1>1, <2>1
  <1>4. st \in Status
    BY DEF WantMail, Status
  <1>5. n1.pc = "take" /\ n1.list = t.list /\ n1.ask = t.ask /\ n1.got = t.got
        /\ n1.ans = t.ans /\ n1.want = t.want
    BY <1>2 DEF Fields
  <1>6. n2.pc = "parse" /\ n2.list = t.list /\ n2.ask = t.ask /\ n2.got = t.got
        /\ n2.ans = Append(t.ans, a) /\ n2.want = t.want
    BY <1>2 DEF Fields
  <1> HIDE DEF st, m
  <1>7. a \in Replies /\ a.off = 0 /\ a.st = st /\ 0 <= Blocks
    BY <1>3, <1>4, MailBoxAssumption DEF Answer, Replies
  <1>8. Fragments(s, x) /\ BoxBounds'
    BY <1>1, NoFragments DEF BoxBounds, ResumeInv
  <1>9. Resumable(t, frag[x][Peer(s, x)])
    BY ResumeHere
  <1> HIDE DEF a, n1, n2
  <1>10. CASE Set(s, x, n1)
    <2>1. MakesLine(t, n1, a)
      BY <1>2, <1>5 DEF MakesLine
    <2>2. Resumable(n1, frag'[x][Peer(s, x)])
      BY <1>1, <1>2, <1>5, <1>9 DEF Resumable, Left
    <2> QED
      BY <1>1, <1>7, <1>8, <1>10, <2>1, <2>2, LineResumes DEF t
  <1>11. CASE st # "yes" /\ Set(s, x, n2)
    <2>1. MakesLine(t, n2, a)
      BY <1>2, <1>6, <1>7, <1>11 DEF MakesLine
    <2>2. Resumable(n2, frag'[x][Peer(s, x)])
      BY <1>1, <1>2, <1>6, <1>9 DEF Resumable, Left
    <2> QED
      BY <1>1, <1>7, <1>8, <1>11, <2>1, <2>2, LineResumes DEF t
  <1> QED
    BY <1>1, <1>10, <1>11

(* A step that changes one fragment.                                       *)
OnFile(s, x, m, q) == frag' = [frag EXCEPT ![x][Peer(s, x)][m] = q]
LEMMA OneFragment ==
    ASSUME ForwardInv, ResumeInv, NEW s \in Sessions, NEW x \in {s[1], s[2]},
           NEW m \in Mails, NEW q, Len(q) <= Blocks, UNCHANGED text,
           OnFile(s, x, m, q),
           \A o \in EndsOf(x) \ {s} : m \notin WantSet(end[o][x])
    PROVE  /\ frag'[x][Peer(s, x)][m] = q
           /\ \A l \in Mails \ {m} : frag'[x][Peer(s, x)][l] = frag[x][Peer(s, x)][l]
           /\ Fragments(s, x) /\ BoxBounds'
  <1> DEFINE y == Peer(s, x)
  <1>1. x \in Boxes /\ y \in Boxes
    BY Ends2
  <1>2. frag \in [Boxes -> [Boxes -> [Mails -> Seq(Bits)]]]
    BY DEF ForwardInv, BoxTypes
  <1> HIDE DEF y
  <1>3. ASSUME NEW a \in Boxes, NEW b \in Boxes, NEW l \in Mails
        PROVE  frag'[a][b][l] = IF a = x /\ b = y /\ l = m THEN q ELSE frag[a][b][l]
    BY <1>1, <1>2 DEF y, OnFile
  <1>4. frag'[x][y][m] = q /\ \A l \in Mails \ {m} : frag'[x][y][l] = frag[x][y][l]
    BY <1>1, <1>3
  <1>5. Fragments(s, x)
    BY <1>3 DEF Fragments
  <1>6. BoxBounds'
    BY <1>3 DEF BoxBounds, ResumeInv
  <1> QED
    BY <1>4, <1>5, <1>6 DEF y

LEMMA TakeLineResumes ==
    ASSUME ForwardInv, ForwardInv', ResumeInv, NEW s \in Sessions, NEW x \in {s[1], s[2]},
           TakeLine(s, x)
    PROVE  Resumes(s, x)
  <1> DEFINE t == end[s][x]
             y == Peer(s, x)
             m == t.ask[Len(t.ans) + 1]
             fr == frag[x][y][m]
             off == ResumeAt(fr)
             a1 == Answer(m, "later", 0)
             a2 == Answer(m, "yes", off)
             n1 == [t EXCEPT !.pc = "parse", !.ans = Append(@, a1)]
             n2 == [t EXCEPT !.pc = "parse", !.ans = Append(@, a2), !.want = Append(@, a2)]
  <1>1. At(s, x, "take") /\ UNCHANGED <<link, wire, text>>
        /\ \/ Set(s, x, n1) /\ UNCHANGED frag
           \/ /\ Set(s, x, n2) /\ ~TmpBidVorhanden(s, x, m)
              /\ frag' = IF off > 0 THEN frag ELSE [frag EXCEPT ![x][y][m] = <<>>]
    BY DEF TakeLine, T, Line
  <1>2. t.pc = "take" /\ DOMAIN t = Fields /\ TaskType(t) /\ x \in Boxes /\ y \in Boxes
    BY <1>1, AtPlace
  <1>3. m \in Mails
    <2>1. t.ask \in Seq(Mails) /\ t.ans \in Seq(Replies) /\ Len(t.ans) < Len(t.ask)
      BY <1>2 DEF TaskType
    <2> HIDE DEF t
    <2> QED
      BY <2>1
  <1>4. /\ n1.pc = "parse" /\ n1.list = t.list /\ n1.ask = t.ask /\ n1.got = t.got
        /\ n1.ans = Append(t.ans, a1) /\ n1.want = t.want
    BY <1>2 DEF Fields
  <1>5. /\ n2.pc = "parse" /\ n2.list = t.list /\ n2.ask = t.ask /\ n2.got = t.got
        /\ n2.ans = Append(t.ans, a2) /\ n2.want = Append(t.want, a2)
    BY <1>2 DEF Fields
  <1>6. t.want \in Seq(Replies) /\ Left(t) = t.want /\ Left(n1) = n1.want /\ Left(n2) = n2.want
    BY <1>2, <1>4, <1>5 DEF TaskType, Left
  <1> HIDE DEF m
  <1>7. fr \in Seq(Bits) /\ Len(fr) <= Blocks /\ Len(fr) \in Nat /\ Blocks \in Nat
    <2>1. fr \in Seq(Bits)
      <3>1. frag \in [Boxes -> [Boxes -> [Mails -> Seq(Bits)]]]
        BY DEF ForwardInv, BoxTypes
      <3> QED
        BY <1>2, <1>3, <3>1
    <2>2. Len(fr) <= Blocks
      BY <1>2, <1>3 DEF ResumeInv, BoxBounds
    <2> HIDE DEF fr
    <2> QED
      BY <2>1, <2>2, MailBoxAssumption
  <1> HIDE DEF fr
  <1>8. off \in Nat /\ off <= Blocks /\ off <= Len(fr)
    BY <1>7 DEF ResumeAt
  <1> HIDE DEF off
  <1>9. /\ a1 \in Replies /\ a1.off = 0 /\ a1.st = "later" /\ 0 <= Blocks
        /\ a2 \in Replies /\ a2.off = off /\ a2.st = "yes" /\ a2.m = m
    BY <1>3, <1>7, <1>8 DEF Answer, Replies, Status
  <1>10. Resumable(t, frag[x][y])
    BY ResumeHere
  <1> HIDE DEF a1, a2, n1, n2
  <1>11. CASE Set(s, x, n1) /\ UNCHANGED frag
    <2>1. MakesLine(t, n1, a1)
      BY <1>2, <1>4, <1>9 DEF MakesLine
    <2>2. Resumable(n1, frag'[x][y])
      BY <1>2, <1>4, <1>6, <1>10, <1>11 DEF Resumable
    <2>3. Fragments(s, x) /\ BoxBounds'
      BY <1>1, <1>11, NoFragments DEF BoxBounds, ResumeInv
    <2> QED
      BY <1>1, <1>9, <1>11, <2>1, <2>2, <2>3, LineResumes DEF t
  <1>12. CASE /\ Set(s, x, n2) /\ ~TmpBidVorhanden(s, x, m)
              /\ frag' = IF off > 0 THEN frag ELSE [frag EXCEPT ![x][y][m] = <<>>]
    <2>1. \A o \in EndsOf(x) : m \notin WantSet(end[o][x])
      <3>1. SessionTypes
        BY DEF ForwardInv, SessionsInv
      <3>2. \A o \in EndsOf(x) : TmpBids(o, x) = WantSet(end[o][x])
        BY <3>1, BidsOf DEF EndsOf
      <3> QED
        BY <1>12, <3>2 DEF TmpBidVorhanden
    <2>2. m \notin WantSet(t) /\ \A o \in EndsOf(x) \ {s} : m \notin WantSet(end[o][x])
      BY <2>1 DEF EndsOf
    <2>3. /\ Fragments(s, x) /\ BoxBounds' /\ off <= Len(frag'[x][y][m])
          /\ \A l \in Mails \ {m} : frag'[x][y][l] = frag[x][y][l]
      <3>1. CASE off > 0
        BY <1>1, <1>8, <1>12, <3>1, NoFragments DEF BoxBounds, ResumeInv, fr
      <3>2. CASE off = 0
        <4> DEFINE q == <<>>
        <4>1. OnFile(s, x, m, q) /\ UNCHANGED text
          BY <1>1, <1>12, <3>2 DEF OnFile
        <4>2. Len(q) = 0 /\ Len(q) <= Blocks
          BY <1>7
        <4> HIDE DEF q
        <4>3. /\ frag'[x][Peer(s, x)][m] = q /\ Fragments(s, x) /\ BoxBounds'
              /\ \A l \in Mails \ {m} : frag'[x][Peer(s, x)][l] = frag[x][Peer(s, x)][l]
          <5> HIDE DEF t, y
          <5> QED
            BY <1>3, <2>2, <4>1, <4>2, OneFragment
        <4> QED
          BY <3>2, <4>2, <4>3
      <3> QED
        BY <1>8, <3>1, <3>2
    <2>4. MakesLine(t, n2, a2)
      BY <1>2, <1>5, <1>9, <2>2 DEF MakesLine
    <2>5. Resumable(n2, frag'[x][y])
      <3> SUFFICES ASSUME NEW k \in 1 .. Len(n2.want)
                   PROVE  n2.want[k].off <= Len(frag'[x][y][n2.want[k].m])
        BY <1>6 DEF Resumable
      <3> DEFINE l == t.want
      <3>1. Len(n2.want) = Len(l) + 1 /\ n2.want[Len(l) + 1] = a2
            /\ (\A j \in 1 .. Len(l) : n2.want[j] = l[j]) /\ Len(l) \in Nat
        BY <1>5, <1>6, <1>9
      <3>2. \A j \in 1 .. Len(l) : /\ l[j].m \in Mails \ {m}
                                   /\ l[j].off <= Len(frag[x][y][l[j].m])
        <4>1. \A j \in 1 .. Len(l) : l[j].m \in WantSet(t)
          BY DEF WantSet
        <4>2. WantSet(t) \subseteq Mails
          BY <1>2, WantedMails
        <4>3. \A j \in 1 .. Len(l) : l[j].off <= Len(frag[x][y][l[j].m])
          BY <1>2, <1>6, <1>10 DEF Resumable
        <4> QED
          BY <2>2, <4>1, <4>2, <4>3
      <3> HIDE DEF l, t
      <3>3. CASE k = Len(l) + 1
        BY <1>9, <2>3, <3>1, <3>3
      <3>4. CASE k # Len(l) + 1
        <4>1. k \in 1 .. Len(l)
          BY <3>1, <3>4
        <4>2. n2.want[k] = l[k] /\ l[k].m \in Mails \ {m} /\ l[k].off <= Len(frag[x][y][l[k].m])
          BY <3>1, <3>2, <4>1
        <4>3. frag'[x][y][l[k].m] = frag[x][y][l[k].m]
          BY <2>3, <4>2
        <4> QED
          BY <4>2, <4>3
      <3> QED
        BY <3>3, <3>4
    <2> QED
      BY <1>1, <1>8, <1>9, <1>12, <2>3, <2>4, <2>5, LineResumes DEF t
  <1> QED
    BY <1>1, <1>11, <1>12

LEMMA TxStatusResumes ==
    ASSUME ForwardInv, ForwardInv', ResumeInv, NEW s \in Sessions, NEW x \in {s[1], s[2]},
           TxStatus(s, x)
    PROVE  Resumes(s, x)
  <1> DEFINE t == end[s][x]
             y == Peer(s, x)
             u == end[s][y]
             w == wire[s][x]
             v == wire[s][y]
             f == <<"FS", t.ans>>
             n == Confirmed([t EXCEPT !.ans = <<>>, !.ask = <<>>, !.had = TRUE], "recv_mail")
  <1>1. At(s, x, "parse") /\ Put(s, x, <<f>>) /\ Set(s, x, n) /\ UNCHANGED <<link, frag, text>>
    BY DEF TxStatus, T, Box, Line
  <1>2. t.pc = "parse" /\ DOMAIN t = Fields /\ Small(t) /\ TaskType(t)
    BY <1>1, AtPlace
  <1>3. /\ TaskType(u) /\ Small(u) /\ w \in Seq(Frames) /\ v \in Seq(Frames)
        /\ \A g \in Msgs(w) \cup Msgs(v) : SmallFrame(g)
        /\ Resumable(t, frag[x][y])
        /\ Both(t, u, Msgs(w), Msgs(v), bids[x], bids[y])
        /\ Both(u, t, Msgs(v), Msgs(w), bids[y], bids[x])
    BY ResumeHere
  <1>4. /\ Order(t, u, w, Msgs(v), link[s] = "up")
        /\ Order(u, t, v, Msgs(w), link[s] = "up")
    BY ResumeHere
  <1>5. SessionTypes
    BY DEF ForwardInv, SessionsInv
  <1>6. Waits(t, n)
    BY <1>2 DEF Waits, Fields, Confirmed
  <1>7. n.pc \in {"erase", "recv_mail"} /\ n.want = t.want
    BY <1>2 DEF Fields, Confirmed
  <1>8. t.ans \in Seq(Replies)
    BY <1>2 DEF TaskType
  <1> HIDE DEF n, t, u, w, v
  <1>9. f \in Frames /\ f[1] = "FS" /\ SmallFrame(f)
    <2>1. f \in {"FS"} \X Seq(Replies) /\ f[1] = "FS"
      BY <1>8
    <2> HIDE DEF f
    <2> QED
      BY <2>1 DEF Frames, SmallFrame, FbbKinds
  <1>10. PICK v2 : WireAfter(s, x, w, v2) /\ v2 \in {v, v \o <<f>>}
    BY <1>1, <1>5, PutUp DEF w, v
  <1>11. Msgs(v2) \subseteq Msgs(v) \cup {f}
    <2> HIDE DEF f
    <2> QED
      BY <1>3, <1>9, <1>10, SentOn
  <1>12. Order(n, u, w, Msgs(v2), link[s] = "up")
    BY <1>2, <1>3, <1>4, <1>7, <1>11, OrderStatus
  <1>13. Order(u, n, v2, Msgs(w), link[s] = "up")
    <2>1. Order(u, n, v, Msgs(w), link[s] = "up")
      BY <1>3, <1>4, <1>7, OrderOther
    <2>2. Order(u, n, v \o <<f>>, Msgs(w), link[s] = "up")
      <3>1. f[1] # "mail" /\ n.pc # "send_mail" /\ t.pc \notin {"none", "wait_fs"}
        BY <1>2, <1>7, <1>9
      <3> HIDE DEF f
      <3> QED
        BY <1>3, <1>4, <1>9, <3>1, OrderPut
    <2> QED
      BY <1>10, <2>1, <2>2
  <1>14. Small(n) /\ Left(n) = Left(t)
    BY <1>2, <1>6, WaitsSmall DEF Same
  <1>15. Resumable(n, frag'[x][y])
    BY <1>1, <1>2, <1>3, <1>14 DEF Resumable
  <1>16. Goes(s, x, n, w, v2)
    <2>1. \A g \in Msgs(w) \cup Msgs(v2) : SmallFrame(g)
      BY <1>3, <1>9, <1>11
    <2> QED
      BY <1>1, <1>10, <1>12, <1>13, <1>14, <1>15, <2>1 DEF Goes, u
  <1>17. BoxBounds'
    BY <1>1 DEF BoxBounds, ResumeInv
  <1> QED
    BY <1>1, <1>16, <1>17, NoFragments DEF Resumes

LEMMA RxHeaderResumes ==
    ASSUME ForwardInv, ForwardInv', ResumeInv, NEW s \in Sessions, NEW x \in {s[1], s[2]},
           RxHeader(s, x)
    PROVE  Resumes(s, x)
  <1> DEFINE t == end[s][x]
             y == Peer(s, x)
             w == wire[s][x]
             m == Head(t.want).m
             fr == frag[x][y][m]
             k == Head(w)[2]
             n == [t EXCEPT !.pc = "recv_data", !.i = k, !.got = SubSeq(fr, 1, k)]
  <1>1. /\ At(s, x, "recv_mail") /\ t.want # <<>> /\ w # <<>> /\ Head(w)[1] = "mail"
        /\ Set(s, x, n) /\ UNCHANGED <<link, frag, text, wire>>
    BY DEF RxHeader, Arrived, T, Box, Line
  <1>2. t.pc = "recv_mail" /\ DOMAIN t = Fields /\ Small(t) /\ TaskType(t) /\ x \in Boxes /\ y \in Boxes
    BY <1>1, AtPlace
  <1>3. /\ w \in Seq(Frames) /\ Resumable(t, frag[x][y])
        /\ Order(t, end[s][y], w, Msgs(wire[s][y]), link[s] = "up")
    BY ResumeHere
  <1>4. Left(t) = t.want /\ t.want \in Seq(Replies)
    BY <1>2 DEF Left, TaskType
  <1>5. /\ n.pc = "recv_data" /\ n.i = k /\ n.got = SubSeq(fr, 1, k) /\ n.want = t.want
        /\ n.list = t.list /\ n.ask = t.ask /\ n.ans = t.ans
    BY <1>2 DEF Fields
  <1>6. Head(t.want) = t.want[1] /\ 1 \in 1 .. Len(t.want)
    <2> DEFINE l == t.want
    <2>1. l \in Seq(Replies) /\ l # <<>>
      BY <1>1, <1>4
    <2> HIDE DEF l
    <2>2. Head(l) = l[1] /\ 1 \in 1 .. Len(l)
      BY <2>1
    <2> QED
      BY <2>2 DEF l
  <1>7. Head(w) = w[1] /\ 1 \in 1 .. Len(w)
    <2> HIDE DEF w
    <2> QED
      BY <1>1, <1>3
  <1> HIDE DEF t, n, w
  <1>8. k = t.want[1].off
    BY <1>1, <1>2, <1>3, <1>4, <1>7 DEF Order, InOrder
  <1>9. m \in Mails /\ k \in Nat
    <2>1. t.want[1] \in Replies
      BY <1>4, <1>6
    <2> QED
      BY <1>6, <1>8, <2>1 DEF Replies
  <1>10. k <= Len(fr)
    BY <1>2, <1>3, <1>4, <1>6, <1>8 DEF Resumable
  <1>11. fr \in Seq(Bits) /\ Len(fr) <= Blocks
    <2>1. frag \in [Boxes -> [Boxes -> [Mails -> Seq(Bits)]]]
      BY DEF ForwardInv, BoxTypes
    <2> HIDE DEF m
    <2>2. fr \in Seq(Bits)
      BY <1>2, <1>9, <2>1
    <2> QED
      BY <1>2, <1>9, <2>2 DEF ResumeInv, BoxBounds
  <1> HIDE DEF fr, k
  <1>12. n.got \in Seq(Bits) /\ Len(n.got) = k /\ k <= Blocks
    <2>1. SubSeq(fr, 1, k) \in Seq(Bits) /\ Len(SubSeq(fr, 1, k)) = k
      BY <1>9, <1>10, <1>11
    <2>2. k <= Blocks
      BY <1>9, <1>10, <1>11, MailBoxAssumption
    <2> QED
      BY <1>5, <2>1, <2>2
  <1>13. Small(n)
    BY <1>2, <1>5, <1>9, <1>12 DEF Small
  <1>14. Same(t, n)
    BY <1>2, <1>5 DEF Same, Left
  <1>15. \A l \in Mails : Len(frag'[x][y][l]) >= Len(frag[x][y][l])
    <2>1. ASSUME NEW l \in Mails PROVE Len(frag[x][y][l]) \in Nat
      <3>1. frag[x][y][l] \in Seq(Bits)
        BY <1>2 DEF ForwardInv, BoxTypes
      <3> QED
        BY <3>1
    <2> QED
      BY <1>1, <2>1
  <1>16. BoxTypes' /\ BoxBounds'
    BY <1>1 DEF ForwardInv, BoxBounds, ResumeInv
  <1>17. \E in2, out2 : Goes(s, x, n, in2, out2)
    BY <1>1, <1>13, <1>14, <1>15, <1>16, QuietGoes DEF t
  <1> QED
    BY <1>1, <1>16, <1>17, NoFragments DEF Resumes

(* A mail that one task receives is wanted by no other task of the box.    *)
LEMMA WantedOnce ==
    ASSUME ForwardInv, Unique, NEW s \in Sessions, NEW x \in {s[1], s[2]},
           NEW m \in WantSet(end[s][x])
    PROVE  \A o \in EndsOf(x) \ {s} : m \notin WantSet(end[o][x])
  <1>1. x \in Boxes
    BY Ends2
  <1>2. s \in EndsOf(x)
    BY DEF EndsOf
  <1>3. \A o \in EndsOf(x) : TmpBids(o, x) = WantSet(end[o][x])
    <2>1. SessionTypes
      BY DEF ForwardInv, SessionsInv
    <2> QED
      BY <2>1, BidsOf DEF EndsOf
  <1> QED
    BY <1>1, <1>2, <1>3 DEF Unique, OneReception

LEMMA RxDataResumes ==
    ASSUME ForwardInv, ForwardInv', ResumeInv, Unique, NEW s \in Sessions, NEW x \in {s[1], s[2]},
           RxData(s, x)
    PROVE  Resumes(s, x)
  <1> DEFINE t == end[s][x]
             y == Peer(s, x)
             u == end[s][y]
             w == wire[s][x]
             v == wire[s][y]
             m == Head(t.want).m
             new == Head(w)[3]
             k == t.i + 1
             old == frag[x][y][m]
             q == IF k <= Len(old) THEN [old EXCEPT ![k] = new[k]] ELSE Append(old, new[k])
             b == new[k]
             n1 == [t EXCEPT !.i = k, !.got = Append(@, b)]
             n2 == RxEnd(t, new)
             nil == <<>>
  <1>1. At(s, x, "recv_data") /\ w # <<>> /\ Head(w)[1] = "mail" /\ UNCHANGED <<link, text>>
        /\ \/ k <= Len(new) /\ Set(s, x, n1) /\ OnFile(s, x, m, q) /\ UNCHANGED wire
           \/ Set(s, x, n2) /\ OnFile(s, x, m, nil) /\ Take(s, x)
    BY DEF RxData, Arrived, T, Line, OnFile
  <1>2. /\ t.pc = "recv_data" /\ DOMAIN t = Fields /\ Small(t) /\ TaskType(t)
        /\ x \in Boxes /\ y \in Boxes
    BY <1>1, AtPlace
  <1>3. /\ TaskType(u) /\ Small(u) /\ w \in Seq(Frames) /\ v \in Seq(Frames)
        /\ \A g \in Msgs(w) \cup Msgs(v) : SmallFrame(g)
        /\ Resumable(t, frag[x][y])
    BY ResumeHere
  <1>4. /\ Order(t, u, w, Msgs(v), link[s] = "up")
        /\ Order(u, t, v, Msgs(w), link[s] = "up")
    BY ResumeHere
  <1>5. t.want \in Seq(Replies) /\ t.want # <<>> /\ t.i \in Nat /\ Left(t) = t.want
    BY <1>2 DEF TaskType, Left
  <1>6. Head(t.want) = t.want[1] /\ 1 \in 1 .. Len(t.want)
    <2> DEFINE l == t.want
    <2>1. l \in Seq(Replies) /\ l # <<>>
      BY <1>5
    <2> HIDE DEF l
    <2>2. Head(l) = l[1] /\ 1 \in 1 .. Len(l)
      BY <2>1
    <2> QED
      BY <2>2 DEF l
  <1>7. m \in Mails /\ m \in WantSet(t) /\ m = t.want[1].m
    <2>1. t.want[1] \in Replies
      BY <1>5, <1>6
    <2> QED
      BY <1>6, <2>1 DEF Replies, WantSet
  <1>8. \A o \in EndsOf(x) \ {s} : m \notin WantSet(end[o][x])
    BY <1>7, WantedOnce
  <1>9. /\ n1.pc = "recv_data" /\ n1.i = k /\ n1.got = Append(t.got, b) /\ n1.want = t.want
        /\ n1.list = t.list /\ n1.ask = t.ask /\ n1.ans = t.ans
    BY <1>2 DEF Fields
  <1>10. /\ n2.pc \in {"save", "end"} /\ n2.got = t.got /\ n2.want = t.want
         /\ n2.list = t.list /\ n2.ask = t.ask /\ n2.ans = t.ans
    BY <1>2 DEF Fields, RxEnd
  <1>11. new \in Seq(Bits) /\ Len(new) = Blocks /\ Blocks \in Nat /\ Msgs(Tail(w)) \subseteq Msgs(w)
    <2>1. Head(w) \in Frames /\ Msgs(Tail(w)) \subseteq Msgs(w)
      BY <1>1, <1>3, TakenOff
    <2>2. new \in Wholes
      BY <1>1, <2>1, StatusFrame
    <2> QED
      BY <2>1, <2>2, WholeText, MailBoxAssumption
  <1>12. WireAfter(s, x, Tail(w), v) \/ ~Take(s, x)
    <2>1. SessionTypes
      BY DEF ForwardInv, SessionsInv
    <2> QED
      BY <2>1, WireSteps
  <1>13. old \in Seq(Bits) /\ Len(old) <= Blocks
    <2>1. frag \in [Boxes -> [Boxes -> [Mails -> Seq(Bits)]]]
      BY DEF ForwardInv, BoxTypes
    <2> HIDE DEF m
    <2>2. old \in Seq(Bits)
      BY <1>2, <1>7, <2>1
    <2> QED
      BY <1>2, <1>7, <2>2 DEF ResumeInv, BoxBounds
  <1> HIDE DEF t, u, w, v, m, n1, n2, nil
  <1>14. CASE k <= Len(new) /\ Set(s, x, n1) /\ OnFile(s, x, m, q) /\ UNCHANGED wire
    <2>1. Len(q) <= Blocks /\ Len(q) >= Len(old) /\ b \in Bits /\ Len(old) \in Nat /\ k \in Nat
      <3> HIDE DEF old, new
      <3>1. k \in Nat /\ k >= 1 /\ Len(old) \in Nat
        BY <1>5, <1>13
      <3>2. b \in Bits
        BY <1>11, <1>14, <3>1
      <3>3. CASE k <= Len(old)
        <4>1. Len([old EXCEPT ![k] = new[k]]) = Len(old)
          BY <1>13
        <4> QED
          BY <1>13, <3>1, <3>2, <3>3, <4>1
      <3>4. CASE ~(k <= Len(old))
        <4>1. Len(Append(old, new[k])) = Len(old) + 1
          BY <1>13
        <4> QED
          BY <1>11, <1>14, <3>1, <3>2, <3>4, <4>1
      <3> QED
        BY <3>3, <3>4
    <2> HIDE DEF q, k, old, b
    <2>2. /\ frag'[x][y][m] = q /\ Fragments(s, x) /\ BoxBounds'
          /\ \A l \in Mails \ {m} : frag'[x][y][l] = frag[x][y][l]
      <3> HIDE DEF y
      <3>1. Len(q) <= Blocks
        BY <2>1
      <3> QED
        BY <1>1, <1>7, <1>8, <1>14, <3>1, OneFragment DEF y
    <2>3. \A l \in Mails : Len(frag'[x][y][l]) >= Len(frag[x][y][l])
      <3>1. ASSUME NEW l \in Mails PROVE Len(frag[x][y][l]) \in Nat
        <4>1. frag[x][y][l] \in Seq(Bits)
          BY <1>2 DEF ForwardInv, BoxTypes
        <4> QED
          BY <4>1
      <3>2. Len(frag'[x][y][m]) >= Len(frag[x][y][m])
        BY <2>1, <2>2 DEF old
      <3> QED
        BY <2>2, <3>1, <3>2
    <2>4. Small(n1)
      <3>1. t.got \in Seq(Bits) /\ Len(t.got) <= t.i
        BY <1>2 DEF Small
      <3>2. n1.got \in Seq(Bits) /\ Len(n1.got) = Len(t.got) + 1 /\ Len(t.got) \in Nat
        BY <1>9, <2>1, <3>1
      <3>3. Len(n1.got) <= n1.i /\ n1.i <= Blocks
        BY <1>5, <1>9, <1>11, <1>14, <3>1, <3>2 DEF k
      <3>4. Len(n1.got) <= Blocks
        BY <1>9, <1>11, <2>1, <3>2, <3>3
      <3> QED
        BY <1>2, <1>9, <3>2, <3>3, <3>4 DEF Small
    <2>5. Same(t, n1)
      BY <1>2, <1>9 DEF Same, Left
    <2>6. BoxTypes'
      BY DEF ForwardInv
    <2>7. \E in2, out2 : Goes(s, x, n1, in2, out2)
      BY <1>1, <1>14, <2>3, <2>4, <2>5, <2>6, QuietGoes DEF t
    <2> QED
      BY <2>2, <2>7 DEF Resumes
  <1>15. CASE Set(s, x, n2) /\ OnFile(s, x, m, nil) /\ Take(s, x)
    <2>1. Len(nil) <= Blocks
      BY <1>11 DEF nil
    <2>2. /\ Fragments(s, x) /\ BoxBounds'
          /\ \A l \in Mails \ {m} : frag'[x][y][l] = frag[x][y][l]
      <3> HIDE DEF y
      <3>1. OnFile(s, x, m, nil) /\ UNCHANGED text
        BY <1>1, <1>15
      <3>2. /\ frag'[x][Peer(s, x)][m] = nil /\ Fragments(s, x) /\ BoxBounds'
            /\ \A l \in Mails \ {m} : frag'[x][Peer(s, x)][l] = frag[x][Peer(s, x)][l]
        BY <1>7, <1>8, <2>1, <3>1, OneFragment
      <3> QED
        BY <3>2 DEF y
    <2>3. Order(n2, u, Tail(w), Msgs(v), link[s] = "up")
      <3>1. u.pc = "send_mail" => u.i <= Len(u.list) + 1
        BY <1>3 DEF Small
      <3> QED
        BY <1>1, <1>2, <1>3, <1>4, <1>10, <3>1, OrderTaken
    <2>4. Order(u, n2, v, Msgs(Tail(w)), link[s] = "up")
      BY <1>3, <1>4, <1>10, <1>11, OrderOther
    <2>5. Small(n2)
      BY <1>2, <1>10 DEF Small
    <2>6. Resumable(n2, frag'[x][y])
      <3> SUFFICES ASSUME n2.pc = "save", NEW j \in 1 .. Len(Tail(t.want))
                   PROVE  Tail(t.want)[j].off <= Len(frag'[x][y][Tail(t.want)[j].m])
        BY <1>10 DEF Resumable, Left
      <3> DEFINE l == t.want
                 e == l[j + 1]
      <3>1. l \in Seq(Replies) /\ l # <<>>
        BY <1>5
      <3> HIDE DEF l
      <3>2. j + 1 \in 1 .. Len(l) /\ Tail(l)[j] = e /\ j + 1 # 1 /\ 1 \in 1 .. Len(l)
        <4>1. j \in 1 .. Len(Tail(l))
          BY DEF l
        <4> QED
          BY <3>1, <4>1
      <3>3. e.m # m /\ e.off <= Len(frag[x][y][e.m])
        BY <1>2, <1>3, <1>5, <1>7, <3>2 DEF Small, Resumable, l
      <3>4. e.m \in Mails
        <4>1. e \in Replies
          BY <3>1, <3>2
        <4> QED
          BY <4>1 DEF Replies
      <3> HIDE DEF e
      <3> QED
        BY <2>2, <3>2, <3>3, <3>4 DEF l
    <2>7. Goes(s, x, n2, Tail(w), v)
      <3>1. \A g \in Msgs(Tail(w)) \cup Msgs(v) : SmallFrame(g)
        BY <1>3, <1>11
      <3> QED
        BY <1>1, <1>12, <1>15, <2>3, <2>4, <2>5, <2>6, <3>1 DEF Goes, u
    <2> QED
      BY <2>2, <2>7 DEF Resumes
  <1> QED
    BY <1>1, <1>14, <1>15

LEMMA StepResumes ==
    ASSUME ForwardInv, ForwardInv', ResumeInv, Unique, NEW s \in Sessions, NEW x \in {s[1], s[2]},
           Step(s, x)
    PROVE  ResumeInv'
  <1>1. Resumes(s, x)
    <2>1. CASE TxProposal(s, x) \/ SendDelay(s, x) \/ RxStatus(s, x) \/ TxMail(s, x)
      BY <2>1, TxProposalResumes, SendDelayResumes, RxStatusResumes, TxMailResumes
    <2>2. CASE TxDone(s, x) \/ RxFirst(s, x) \/ ParseLine(s, x) \/ TakeLine(s, x)
      BY <2>2, TxDoneResumes, RxFirstResumes, ParseLineResumes, TakeLineResumes
    <2>3. CASE TxStatus(s, x) \/ EraseForwarded(s, x) \/ EraseDone(s, x) \/ RxHeader(s, x)
      BY <2>3, TxStatusResumes, EraseForwardedResumes, EraseDoneResumes, RxHeaderResumes
    <2>4. CASE RxData(s, x) \/ RxSave(s, x) \/ RxQueue(s, x) \/ RxDone(s, x)
      BY <2>4, RxDataResumes, RxSaveResumes, RxQueueResumes, RxDoneResumes
    <2> QED
      BY <2>1, <2>2, <2>3, <2>4 DEF Step
  <1> QED
    BY <1>1, GoesKeeps DEF Resumes

(* What changes one session only.                                          *)
LEMMA SessionResumes ==
    ASSUME ResumeInv, NEW s \in Sessions, UNCHANGED <<frag, text>>,
           \A o \in Sessions \ {s} : link'[o] = link[o] /\ end'[o] = end[o] /\ wire'[o] = wire[o],
           \A x \in {s[1], s[2]} : ResumeOf(s, x)'
    PROVE  ResumeInv'
  <1>1. BoxBounds'
    BY DEF ResumeInv, BoxBounds
  <1>2. ASSUME NEW o \in Sessions, NEW x \in {o[1], o[2]} PROVE ResumeOf(o, x)'
    <2>1. CASE o = s
      BY <2>1
    <2>2. CASE o # s
      <3>1. ResumeOf(o, x) /\ link'[o] = link[o] /\ end'[o] = end[o] /\ wire'[o] = wire[o]
        BY <2>2 DEF ResumeInv
      <3> QED
        BY <3>1 DEF ResumeOf
    <2> QED
      BY <2>1, <2>2
  <1> QED
    BY <1>1, <1>2 DEF ResumeInv

(* A session that begins, or is over.                                      *)
Fresh(t) ==
    /\ t.pc \in {"none", "send_propose", "recv_propose"}
    /\ t.list = <<>> /\ t.ask = <<>> /\ t.ans = <<>> /\ t.want = <<>> /\ t.got = <<>>

LEMMA FreshTask ==
    ASSUME NEW t, Fresh(t)
    PROVE  /\ Small(t) /\ (\A fr : Resumable(t, fr)) /\ (\A f \in Msgs(<<>>) : SmallFrame(f))
           /\ \A u, up : Fresh(u) => Order(t, u, <<>>, Msgs(<<>>), up)
  <1>1. /\ Len(<<>>) = 0 /\ <<>> \in Seq(Bits) /\ 0 <= MaxProp /\ 0 <= Blocks
        /\ \A k \in 1 .. 0 : FALSE
    BY MailBoxAssumption, FbbAssumption
  <1>2. Small(t)
    BY <1>1 DEF Small, Fresh
  <1>3. \A fr : Resumable(t, fr)
    BY <1>1 DEF Resumable, Fresh, Left
  <1>4. \A f \in Msgs(<<>>) : FALSE
    BY NoMessages
  <1>5. \A u, up : Fresh(u) => Order(t, u, <<>>, Msgs(<<>>), up)
    BY <1>1, <1>4 DEF Order, InOrder, Replied, Reported, Serving, Fresh
  <1> QED
    BY <1>2, <1>3, <1>4, <1>5

LEMMA FreshSession ==
    ASSUME NEW s \in Sessions, NEW x \in {s[1], s[2]},
           \A z \in {s[1], s[2]} : Fresh(end[s][z]) /\ wire[s][z] = <<>>
    PROVE  ResumeOf(s, x)
  <1>1. Peer(s, x) \in {s[1], s[2]}
    BY Ends2
  <1>2. /\ Fresh(end[s][x]) /\ wire[s][x] = <<>>
        /\ Fresh(end[s][Peer(s, x)]) /\ wire[s][Peer(s, x)] = <<>>
    BY <1>1
  <1> QED
    BY <1>2, FreshTask DEF ResumeOf

LEMMA InitResumes == Init => ResumeInv
  <1> SUFFICES ASSUME Init PROVE ResumeInv
    OBVIOUS
  <1>1. ASSUME NEW s \in Sessions, NEW x \in {s[1], s[2]} PROVE ResumeOf(s, x)
    <2>1. Fresh(NoTask)
      BY DEF Fresh, NoTask
    <2>2. \A z \in {s[1], s[2]} : end[s][z] = NoTask /\ wire[s][z] = <<>>
      BY DEF Init
    <2> QED
      BY <2>1, <2>2, FreshSession
  <1>2. Blocks \in Nat
    BY MailBoxAssumption
  <1>3. \A n \in Nat : \A e : Len([k \in 1 .. n |-> e]) = n
    OBVIOUS
  <1>4. \A x, y \in Boxes, m \in Mails : Len(frag[x][y][m]) <= Blocks
    <2>1. PICK left \in SUBSET Leftover :
             frag = [x \in Boxes |-> [y \in Boxes |-> [m \in Mails |->
                 [k \in 1 .. (IF <<x, y, m>> \in left THEN Blocks ELSE 0) |-> 1]]]]
      BY DEF Init
    <2>2. \A c : Len([k \in 1 .. (IF c THEN Blocks ELSE 0) |-> 1]) <= Blocks
      BY <1>2, <1>3
    <2> QED
      BY <2>1, <2>2
  <1>5. \A x \in Boxes, m \in Mails : Len(text[x][m]) <= Blocks
    <2>1. PICK origin \in Origins :
             LET has(x, m) == x \in origin[m]
             IN  text = [x \in Boxes |-> [m \in Mails |->
                           [k \in 1 .. (IF has(x, m) THEN Blocks ELSE 0) |-> 0]]]
      BY DEF Init
    <2>2. \A c : Len([k \in 1 .. (IF c THEN Blocks ELSE 0) |-> 0]) <= Blocks
      BY <1>2, <1>3
    <2> QED
      BY <2>1, <2>2
  <1> QED
    BY <1>1, <1>4, <1>5 DEF ResumeInv, BoxBounds

LEMMA StartResumes ==
    ASSUME ForwardInv, ResumeInv, NEW s \in Sessions, Start(s)
    PROVE  ResumeInv'
  <1> DEFINE t == [NoTask EXCEPT !.pc = "send_propose", !.job = "fbb"]
             u == [NoTask EXCEPT !.pc = "recv_propose", !.job = "fbb"]
  <1>1. Fresh(t) /\ Fresh(u)
    BY DEF Fresh, NoTask
  <1>2. /\ Connect(s) /\ UNCHANGED <<frag, text, wire>>
        /\ end' = [end EXCEPT ![s][s[1]] = t, ![s][s[2]] = u]
    BY DEF Start, Box
  <1> HIDE DEF t, u
  <1>3. SessionTypes /\ Links
    BY DEF ForwardInv, SessionsInv
  <1>4. link[s] = "down" /\ link' = [link EXCEPT ![s] = "up"] /\ DOMAIN link = Sessions
    BY <1>2, <1>3 DEF Connect, CanConnect, SessionTypes
  <1>5. DOMAIN end = Sessions /\ DOMAIN end[s] = {s[1], s[2]} /\ s[1] # s[2]
    BY <1>3, MailBoxAssumption DEF SessionTypes
  <1>6. end'[s][s[1]] = t /\ end'[s][s[2]] = u /\ \A o \in Sessions \ {s} : end'[o] = end[o]
    BY <1>2, <1>5
  <1>7. \A z \in {s[1], s[2]} : Fresh(end'[s][z]) /\ wire'[s][z] = <<>>
    BY <1>1, <1>2, <1>3, <1>4, <1>6 DEF Links
  <1>8. \A x \in {s[1], s[2]} : ResumeOf(s, x)'
    <2> TAKE x \in {s[1], s[2]}
    <2>1. Peer(s, x) \in {s[1], s[2]}
      BY Ends2
    <2>2. /\ Fresh(end'[s][x]) /\ wire'[s][x] = <<>>
          /\ Fresh(end'[s][Peer(s, x)]) /\ wire'[s][Peer(s, x)] = <<>>
      BY <1>7, <2>1
    <2> QED
      BY <2>2, FreshTask DEF ResumeOf
  <1> QED
    BY <1>2, <1>4, <1>6, <1>8, SessionResumes

LEMMA BreakResumes ==
    ASSUME ForwardInv, ResumeInv, NEW s \in Sessions, Break(s)
    PROVE  ResumeInv'
  <1>1. UNCHANGED <<frag, text, end>> /\ link' = [link EXCEPT ![s] = "broken"]
    BY DEF Break
  <1>2. PICK i \in 0 .. Len(wire[s][s[1]]), j \in 0 .. Len(wire[s][s[2]]) :
             wire' = [wire EXCEPT ![s][s[1]] = SubSeq(@, 1, i), ![s][s[2]] = SubSeq(@, 1, j)]
    BY DEF Break
  <1>3. /\ s[1] # s[2] /\ DOMAIN link = Sessions
        /\ DOMAIN wire = Sessions /\ DOMAIN wire[s] = {s[1], s[2]}
    BY MailBoxAssumption DEF ForwardInv, SessionsInv, SessionTypes
  <1>4. /\ wire'[s][s[1]] = SubSeq(wire[s][s[1]], 1, i)
        /\ wire'[s][s[2]] = SubSeq(wire[s][s[2]], 1, j)
        /\ \A o \in Sessions \ {s} : wire'[o] = wire[o]
    BY <1>2, <1>3
  <1>5. link'[s] = "broken" /\ \A o \in Sessions \ {s} : link'[o] = link[o]
    BY <1>1, <1>3
  <1>6. ASSUME NEW x \in {s[1], s[2]} PROVE ResumeOf(s, x)'
    <2> DEFINE t == end[s][x]
               w == wire[s][x]
    <2>1. PICK k \in 0 .. Len(w) : wire'[s][x] = SubSeq(w, 1, k)
      BY <1>4
    <2>2. /\ Small(t) /\ w \in Seq(Frames) /\ Resumable(t, frag[x][Peer(s, x)])
          /\ \A f \in Msgs(w) : SmallFrame(f)
          /\ Order(t, end[s][Peer(s, x)], w, Msgs(wire[s][Peer(s, x)]), link[s] = "up")
      BY ResumeHere
    <2> DEFINE p == SubSeq(w, 1, k)
    <2>3. Msgs(p) \subseteq Msgs(w)
      BY <2>2, Prefix
    <2>4. \A l \in 1 .. Len(p) : l \in 1 .. Len(w) /\ p[l] = w[l]
      BY <2>2
    <2> HIDE DEF t, w, p
    <2>5. InOrder(t, p)
      BY <2>2, <2>4 DEF Order, InOrder
    <2>6. \A n, N : Order(t, n, p, N, link'[s] = "up")
      BY <1>5, <2>5 DEF Order
    <2> QED
      BY <1>1, <2>1, <2>2, <2>3, <2>6 DEF ResumeOf, t, p
  <1> QED
    BY <1>1, <1>4, <1>5, <1>6, SessionResumes

LEMMA DieResumes ==
    ASSUME ForwardInv, ResumeInv, NEW s \in Sessions, NEW x \in {s[1], s[2]}, Die(s, x)
    PROVE  ResumeInv'
  <1> DEFINE y == Peer(s, x)
  <1>1. /\ UNCHANGED <<frag, text>> /\ link[s] = "broken"
        /\ end' = [end EXCEPT ![s][x] = NoTask]
    BY DEF Die
  <1>2. /\ y \in {s[1], s[2]} /\ y # x /\ Peer(s, y) = x /\ {s[1], s[2]} = {x, y}
    BY Ends2
  <1>3. /\ DOMAIN link = Sessions /\ DOMAIN end = Sessions /\ DOMAIN wire = Sessions
        /\ DOMAIN end[s] = {x, y} /\ DOMAIN wire[s] = {x, y} /\ TaskType(end[s][y])
    BY <1>2 DEF ForwardInv, SessionsInv, SessionTypes
  <1>4. IF end[s][y].pc = "none"
        THEN link' = [link EXCEPT ![s] = "down"]
             /\ wire' = [wire EXCEPT ![s] = [z \in {x, y} |-> <<>>]]
        ELSE UNCHANGED <<link, wire>>
    BY <1>2 DEF Die
  <1>5. ResumeOf(s, y) /\ Fresh(NoTask)
    BY <1>2 DEF ResumeInv, Fresh, NoTask
  <1> HIDE DEF y
  <1>6. /\ end'[s][x] = NoTask /\ end'[s][y] = end[s][y]
        /\ \A o \in Sessions \ {s} : end'[o] = end[o]
    BY <1>1, <1>2, <1>3
  <1>7. \A o \in Sessions \ {s} : link'[o] = link[o] /\ wire'[o] = wire[o]
    BY <1>3, <1>4
  <1>8. CASE end[s][y].pc = "none"
    <2>1. wire'[s][x] = <<>> /\ wire'[s][y] = <<>>
      BY <1>3, <1>4, <1>8
    <2>2. end'[s][y] = NoTask
      BY <1>3, <1>6, <1>8 DEF TaskType
    <2>3. \A z \in {s[1], s[2]} : ResumeOf(s, z)'
      <3> TAKE z \in {s[1], s[2]}
      <3>1. Peer(s, z) \in {x, y} /\ z \in {x, y}
        BY <1>2 DEF y
      <3>2. /\ end'[s][z] = NoTask /\ wire'[s][z] = <<>>
            /\ end'[s][Peer(s, z)] = NoTask /\ wire'[s][Peer(s, z)] = <<>>
        BY <1>6, <2>1, <2>2, <3>1
      <3> QED
        BY <1>5, <3>2, FreshTask DEF ResumeOf
    <2> QED
      BY <1>1, <1>6, <1>7, <2>3, SessionResumes
  <1>9. CASE end[s][y].pc # "none"
    <2>1. link' = link /\ wire' = wire
      BY <1>4, <1>9
    <2>2. ResumeOf(s, y)'
      <3>1. Order(end[s][y], NoTask, wire[s][y], Msgs(wire[s][x]), FALSE)
        BY <1>2, <1>5 DEF ResumeOf, Order
      <3>2. Order(end[s][y], NoTask, wire[s][y], Msgs(wire[s][x]), link'[s] = "up")
        BY <1>1, <2>1, <3>1 DEF Order
      <3> QED
        BY <1>1, <1>2, <1>5, <1>6, <2>1, <3>2 DEF ResumeOf
    <2>3. ResumeOf(s, x)'
      <3>1. NoTask.pc = "none"
        BY DEF NoTask
      <3>2. Order(NoTask, end[s][y], wire[s][x], Msgs(wire[s][y]), link'[s] = "up")
        BY <1>1, <2>1, <3>1 DEF Order, InOrder
      <3>3. ResumeOf(s, x)
        BY DEF ResumeInv
      <3> QED
        BY <1>1, <1>2, <1>5, <1>6, <2>1, <3>2, <3>3, FreshTask DEF ResumeOf, y
    <2>4. \A z \in {s[1], s[2]} : ResumeOf(s, z)'
      BY <1>2, <2>2, <2>3
    <2> QED
      BY <1>1, <1>6, <1>7, <2>4, SessionResumes
  <1> QED
    BY <1>8, <1>9

LEMMA LogoutResumes ==
    ASSUME ForwardInv, ResumeInv, NEW s \in Sessions, NEW x \in {s[1], s[2]}, Logout(s, x)
    PROVE  ResumeInv'
  <1>1. UNCHANGED <<frag, text, end, wire>> /\ link' = [link EXCEPT ![s] = "broken"]
        /\ link[s] = "up"
    BY DEF Logout
  <1>2. DOMAIN link = Sessions
    BY DEF ForwardInv, SessionsInv, SessionTypes
  <1>3. link'[s] # "up" /\ \A o \in Sessions \ {s} : link'[o] = link[o]
    BY <1>1, <1>2
  <1>4. ASSUME NEW z \in {s[1], s[2]} PROVE ResumeOf(s, z)'
    <2>1. ResumeOf(s, z)
      BY DEF ResumeInv
    <2>2. Order(end[s][z], end[s][Peer(s, z)], wire[s][z], Msgs(wire[s][Peer(s, z)]),
                link'[s] = "up")
      BY <1>3, <2>1 DEF ResumeOf, Order
    <2> QED
      BY <1>1, <2>1, <2>2 DEF ResumeOf
  <1> QED
    BY <1>1, <1>3, <1>4, SessionResumes

LEMMA ResumeAlways == FSpec => []ResumeInv
  <1>1. ForwardInv /\ ForwardInv' /\ Unique /\ ResumeInv /\ [FNext]_vars => ResumeInv'
    <2> SUFFICES ASSUME ForwardInv, ForwardInv', Unique, ResumeInv, [FNext]_vars
                 PROVE  ResumeInv'
      OBVIOUS
    <2>1. CASE UNCHANGED <<frag, text, link, end, wire>>
      BY <2>1 DEF ResumeInv, BoxBounds, ResumeOf
    <2>2. ASSUME NEW s \in Sessions, Start(s) \/ Break(s) PROVE ResumeInv'
      BY <2>2, StartResumes, BreakResumes
    <2>3. ASSUME NEW s \in Sessions, NEW x \in {s[1], s[2]}, Step(s, x) \/ Ends(s, x)
          PROVE  ResumeInv'
      BY <2>3, StepResumes, DieResumes, LogoutResumes DEF Ends
    <2>4. ASSUME NEW x \in Boxes, NEW m \in Mails, UserErase(x, m)
          PROVE  UNCHANGED <<frag, text, link, end, wire>>
      BY <2>4 DEF UserErase
    <2>5. UNCHANGED vars => UNCHANGED <<frag, text, link, end, wire>>
      BY DEF vars
    <2> QED
      BY <2>1, <2>2, <2>3, <2>4, <2>5 DEF FNext
  <1> QED
    BY <1>1, InitResumes, SessionsAgree, UniqueAlways, PTL DEF FSpec

LEMMA BoundedText ==
    ASSUME NEW q \in Seq(Bits), Len(q) <= Blocks
    PROVE  q \in Texts
  <1>1. Len(q) \in 0 .. Blocks /\ q \in [1 .. Len(q) -> Bits]
    BY MailBoxAssumption
  <1> QED
    BY <1>1 DEF Texts, Bits

LEMMA BoundedList ==
    ASSUME NEW q \in Seq(Mails), Len(q) <= MaxProp
    PROVE  q \in Lists
  <1>1. Len(q) \in 0 .. MaxProp /\ q \in [1 .. Len(q) -> Mails]
    BY FbbAssumption
  <1> QED
    BY <1>1 DEF Lists

LEMMA BoundedReply ==
    ASSUME NEW q \in Seq(Replies), \A k \in 1 .. Len(q) : q[k].off <= Blocks
    PROVE  Range(q) \subseteq Answers
  <1>1. Range(q) = {q[k] : k \in 1 .. Len(q)}
    BY DEF Range
  <1>2. ASSUME NEW k \in 1 .. Len(q) PROVE q[k] \in Answers
    <2>1. q[k] \in Replies /\ q[k].off <= Blocks
      OBVIOUS
    <2>2. q[k].off \in 0 .. Blocks
      BY <2>1, MailBoxAssumption DEF Replies
    <2> QED
      BY <2>1, <2>2 DEF Replies, Answers, Status
  <1> QED
    BY <1>1, <1>2

(* The types and bounds of the FBB protocol: a proposal or a reply has at  *)
(* most FBB_MAX_PROP lines, a fragment is never longer than the mail, and  *)
(* the offset a mail is resumed at lies within the fragment there is of it *)
(* when the mail comes, several turns of both partners later               *)
(* (reply_proposal, check_fragment, rx_mails, rx_yapp_data).               *)
THEOREM FTypesHold == FSpec => []FTypeOK
  <1>1. ForwardInv /\ ResumeInv => FTypeOK
    <2> SUFFICES ASSUME ForwardInv, ResumeInv PROVE FTypeOK
      OBVIOUS
    <2>1. BoxTypes
      BY DEF ForwardInv
    <2>2. text \in [Boxes -> [Mails -> Texts]]
      <3>1. text \in [Boxes -> [Mails -> Seq(Bits)]]
        BY <2>1 DEF BoxTypes
      <3>2. \A x \in Boxes, m \in Mails : text[x][m] \in Texts
        BY <3>1, BoundedText DEF ResumeInv, BoxBounds
      <3> QED
        BY <3>1, <3>2
    <2>3. frag \in [Boxes -> [Boxes -> [Mails -> Texts]]]
      <3>1. frag \in [Boxes -> [Boxes -> [Mails -> Seq(Bits)]]]
        BY <2>1 DEF BoxTypes
      <3>2. \A x, y \in Boxes, m \in Mails : frag[x][y][m] \in Texts
        BY <3>1, BoundedText DEF ResumeInv, BoxBounds
      <3>3. \A x, y \in Boxes : frag[x][y] \in [Mails -> Texts]
        BY <3>1, <3>2
      <3> QED
        BY <3>1, <3>3
    <2>4. ASSUME NEW s \in Sessions, NEW x \in {s[1], s[2]}
          PROVE  /\ T(s, x).list \in Lists /\ T(s, x).ask \in Lists
                 /\ Range(T(s, x).ans) \cup Range(T(s, x).want) \subseteq Answers
                 /\ T(s, x).got \in Texts /\ T(s, x).locks \subseteq Mails
      <3> DEFINE t == end[s][x]
      <3>1. TaskType(t) /\ Small(t)
        BY ResumeHere
      <3> HIDE DEF t
      <3>2. t.list \in Lists /\ t.ask \in Lists /\ t.got \in Texts
        BY <3>1, BoundedList, BoundedText DEF TaskType, Small
      <3>3. Range(t.ans) \subseteq Answers /\ Range(t.want) \subseteq Answers
        BY <3>1, BoundedReply DEF TaskType, Small
      <3>4. t.locks \subseteq Mails
        BY <3>1 DEF TaskType
      <3> QED
        BY <3>2, <3>3, <3>4 DEF T, t
    <2> QED
      BY <2>1, <2>2, <2>3, <2>4 DEF FTypeOK, BoxTypes
  <1> QED
    BY <1>1, SessionsAgree, ResumeAlways, PTL
=============================================================================
