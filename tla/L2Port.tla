------------------------------- MODULE L2Port -------------------------------
(***************************************************************************)
(* One AX.25 connection as l2proto.cpp keeps it in a port_t, and what each *)
(* frame, timer and call of the application does to it.  Every operator    *)
(* takes a port and returns the port afterwards; the frames it sends are   *)
(* appended to the field out, which the module that uses it empties.       *)
(*                                                                         *)
(* A frame has a type, the poll/final and command/response bits (pf), N(R) *)
(* and N(S), and the piece of data it carries.  Times are gone: a timer is *)
(* running or it is not.  Every layer 1 of this version is full duplex     *)
(* (CH_FDX), so infostop stays FALSE and the transmitter never holds back. *)
(*                                                                         *)
(* Definitions marked "faulty" are never used here: each is a plausible    *)
(* mistake, put in place of the definition after it to show what the       *)
(* properties detect.                                                      *)
(***************************************************************************)
EXTENDS Integers, Sequences, SequencesExt, FiniteSetsExt

CONSTANTS
    M,          \* sequence numbers are counted modulo M: 8
    MaxFrame,   \* mode.maxframe
    MaxRx,      \* maxrx: a longer receive queue makes the station busy
    RxRoom,     \* frames taken beyond maxrx before they are dropped: 8
    Retry,      \* val.retry
    IPoll,      \* frames are shorter than val.ipoll: they poll themselves
    DirectAck,  \* mode.d: every I frame is acknowledged at once
    Quersumme(_),   \* check sum of a piece of data, "(byte) sum"
    Quits(_),       \* data with "//q" end the connection
    NoInfo

ASSUME PortAssumption ==
    /\ M \in Nat /\ M >= 2 /\ MaxFrame \in 1 .. M - 1
    /\ MaxRx \in Nat /\ RxRoom \in Nat /\ Retry \in Nat \ {0}
    /\ IPoll \in BOOLEAN /\ DirectAck \in BOOLEAN

Numbers == 0 .. M - 1
\* faulty: the result is not reduced
PlusUnreduced(n, k) == n + k

Plus(n, k) == (n + k) % M
Minus(n, k) == (M + n - k) % M

\* link_setup and frame_reject come before, rej_sent and wait_ack after
\* info_transfer in lstate_t
Transfer == {"info_transfer", "rej_sent", "wait_ack"}
LStates == Transfer \cup {"disconnected", "link_setup", "frame_reject", "disc_request"}

\* sub, got and acked are not in port_t: the data the application has handed
\* over, received, and that infack has released, in this session.  rxlen is
\* the length of the receive queue, told the last message that was put into it,
\* astray whether data were put there outside of a connection.
Idle == [lstate |-> "disconnected", vr |-> 0, vs |-> 0, v1s |-> 0, v2s |-> 0,
         busy |-> FALSE, rembusy |-> FALSE, wasrej |-> FALSE,
         timer1 |-> FALSE, timer2 |-> FALSE, qtimer |-> FALSE, retries |-> Retry,
         txinfptr |-> [n \in Numbers |-> NoInfo], txinfout |-> <<>>,
         sammler |-> [n \in Numbers |-> NoInfo], qsumme |-> [n \in Numbers |-> 0],
         rxlen |-> 0, told |-> "disconnected", astray |-> FALSE, sess |-> 0, sub |-> 0, acked |-> 0,
         got |-> <<>>, overrun |-> FALSE, out |-> <<>>]

Outstanding(p) == Minus(p.vs, p.v1s)

Send(p, f) == [p EXCEPT !.out = Append(@, f)]
U(type, pf) == [type |-> type, pf |-> pf, nr |-> 0, ns |-> 0, info |-> NoInfo]
S(type, pf, nr) == [type |-> type, pf |-> pf, nr |-> nr, ns |-> 0, info |-> NoInfo]
I(pf, nr, ns, info) == [type |-> "I", pf |-> pf, nr |-> nr, ns |-> ns, info |-> info]

\* linkmsg: the message enters the receive queue behind the data
Linkmsg(p, msg) == [p EXCEPT !.told = msg, !.rxlen = @ + 1]

\* faulty: frames that wait for their acknowledgement do not count
Restt1Queue(p) ==
    IF p.lstate # "info_transfer" \/ p.txinfout # <<>> THEN [p EXCEPT !.timer1 = TRUE] ELSE p

Restt1(p) ==
    IF p.lstate # "info_transfer" \/ p.v1s # p.vs \/ p.txinfout # <<>>
    THEN [p EXCEPT !.timer1 = TRUE] ELSE p

\* stopt1 also sets retries, which is set again before it is used
Stopt1(p) == [p EXCEPT !.timer1 = FALSE]

\* retries is unsigned: once it has passed 0 it does not come to an end
Endless == -1

\* faulty: the retries are not counted
CountdownNot(r) == r

Countdown(r) == IF r \in {0, Endless} THEN Endless ELSE r - 1

Paccodsup(p, pf) ==
    IF p.lstate = "rej_sent" /\ pf # "final" THEN p
    ELSE Send(p, S(IF p.busy THEN "RNR" ELSE IF p.lstate = "rej_sent" THEN "REJ" ELSE "RR",
                   pf, p.vr))

Paccodrej(p, pf) ==
    IF p.lstate = "rej_sent" \/ pf # "command" THEN p
    ELSE [Send(p, S(IF p.busy THEN "RNR" ELSE "REJ", "response", p.vr))
            EXCEPT !.lstate = "rej_sent"]

\* the frames from number a up to, not including, b that are still there
Frames(p, pf, a, b) ==
    LET sent[k \in 0 .. Minus(b, a)] ==
            IF k = 0 THEN <<>>
            ELSE LET n == Plus(a, k - 1) IN
                 IF p.txinfptr[n] = NoInfo THEN sent[k - 1]
                 ELSE Append(sent[k - 1], I(pf, p.vr, n, p.txinfptr[n]))
    IN sent[Minus(b, a)]

Infosend(p, pf, a, b) ==
    IF a = b THEN p
    ELSE Restt1([p EXCEPT !.out = @ \o Frames(p, pf, a, b),
                          !.timer2 = IF Frames(p, pf, a, b) = <<>> THEN @ ELSE FALSE,
                          !.wasrej = FALSE])

\* faulty: the window may be filled up to all of the numbers
RoomTooFar(p) ==
    IF p.lstate \in {"info_transfer", "rej_sent"} /\ ~p.rembusy
    THEN Max({0, M - Outstanding(p)}) ELSE 0

\* how many frames putinfo takes before it returns FALSE
Room(p) ==
    IF p.lstate \in {"info_transfer", "rej_sent"} /\ ~p.rembusy
    THEN Max({0, MaxFrame - Outstanding(p)}) ELSE 0

\* putinfo, repeated k times: the next data enter the window and are sent
Putinfo(p, k) ==
    IF k = 0 THEN p
    ELSE LET q == [p EXCEPT
                !.txinfptr = [n \in Numbers |-> IF Minus(n, p.vs) < k
                                                THEN p.txinfout[Minus(n, p.vs) + 1] ELSE @[n]],
                !.txinfout = SubSeq(@, k + 1, Len(@)),
                !.vs = Plus(@, k), !.v2s = Plus(p.vs, k), !.retries = Retry]
         IN Infosend(q, "command", p.vs, q.vs)

\* The timer itimer, which waits for more data before a short frame is sent, is
\* left out: a piece of data enters txinfout when it is flushed.
Tryinfo(p) ==
    LET q == IF p.lstate = "disconnected" THEN [p EXCEPT !.txinfout = <<>>]
             ELSE Putinfo(p, Min({Room(p), Len(p.txinfout)}))
    IN IF (q.vs # q.v1s \/ q.txinfout # <<>>) /\ ~q.timer1 /\ ~q.rembusy THEN Restt1(q) ELSE q

\* The receive queue and qsumme[] are kept.
Lreset(p) ==
    [Idle EXCEPT !.lstate = IF p.lstate \in Transfer THEN "info_transfer" ELSE p.lstate,
                 !.retries = p.retries, !.qsumme = p.qsumme, !.rxlen = p.rxlen, !.told = p.told, !.astray = p.astray,
                 !.sess = p.sess, !.sub = p.sub, !.acked = p.acked, !.got = p.got,
                 !.overrun = p.overrun, !.out = p.out]

\* faulty: nothing is said of a link that was being disconnected
DodiscQuiet(p) ==
    LET q == IF p.lstate = "link_setup" THEN Linkmsg(p, "failure")
             ELSE IF p.lstate \in Transfer THEN Linkmsg(p, "disconnected") ELSE p
    IN Lreset([q EXCEPT !.lstate = "disconnected"])

Dodisc(p) ==
    LET q == IF p.lstate = "link_setup" THEN Linkmsg(p, "failure")
             ELSE IF p.lstate # "disconnected" THEN Linkmsg(p, "disconnected") ELSE p
    IN Lreset([q EXCEPT !.lstate = "disconnected"])

\* what belongs to one session starts anew
NewSession(p) ==
    [p EXCEPT !.sess = @ + 1, !.sub = 0, !.acked = 0, !.got = <<>>, !.overrun = FALSE]

-----------------------------------------------------------------------------
(* Calls of the application and timers.                                    *)

\* disconnect: 0 at once, 1 normally, 2 when everything is acknowledged
Disconnect(p, mode) ==
    IF mode = 4 THEN [p EXCEPT !.qtimer = FALSE]
    ELSE IF p.lstate = "disc_request" \/ mode = 0 THEN Dodisc(p)
    ELSE IF p.lstate = "link_setup" THEN Dodisc(Send(p, U("DISC", "poll")))
    ELSE IF mode = 2 /\ (p.txinfout # <<>> \/ p.vs # p.v1s) THEN [p EXCEPT !.qtimer = TRUE]
    ELSE IF p.lstate \in Transfer
         THEN Restt1(Send([p EXCEPT !.lstate = "disc_request", !.qtimer = FALSE, !.timer2 = FALSE,
                                    !.retries = Retry \div 4], U("DISC", "poll")))
    ELSE p

\* connect, without digipeaters
Connect(p) ==
    LET q == NewSession(Lreset(Disconnect(p, 1)))
    IN Send([q EXCEPT !.lstate = "link_setup", !.timer1 = TRUE, !.retries = Retry \div 4 + 1],
            U("SABM", "poll"))

\* chrout_frame, or chrout and a flush
Submit(p) ==
    Tryinfo([p EXCEPT !.txinfout = Append(@, <<p.sess, p.sub + 1>>), !.sub = @ + 1])

Rnrfrei(p) == [Paccodsup([p EXCEPT !.busy = FALSE], "response") EXCEPT !.timer1 = TRUE]

\* chrin, rxvalid, chrin_frame: the next frame leaves the receive queue
Chrin(p) ==
    LET q == IF p.busy /\ p.rxlen <= MaxRx \div 2 THEN Rnrfrei(p) ELSE p
    IN [q EXCEPT !.rxlen = IF @ > 0 THEN @ - 1 ELSE 0]

\* faulty: every poll starts the retries again
PollWaitingForever(p) ==
    [Paccodsup([p EXCEPT !.retries = Retry - 1], "poll") EXCEPT !.timer1 = TRUE]

\* timer 1 in wait_ack: poll again, or give up.  One short frame polls itself.
PollWaiting(p) ==
    LET r == Countdown(p.retries)
        q == [p EXCEPT !.retries = r]
    IN IF r = 0
       THEN Send([q EXCEPT !.lstate = "disc_request", !.retries = 1, !.timer1 = TRUE],
                 U("DISC", "poll"))
       ELSE IF /\ IPoll /\ p.txinfptr[p.v1s] # NoInfo
               /\ Outstanding(p) = 1 /\ Retry - r < 4
            THEN [Infosend([q EXCEPT !.v2s = p.vs], "poll", p.v1s, p.vs) EXCEPT !.timer1 = TRUE]
            ELSE [Paccodsup(q, "poll") EXCEPT !.timer1 = TRUE]

\* t1tout: timer 1 or timer 3 has run out
T1tout(p) ==
    CASE p.lstate \in {"link_setup", "disc_request"} ->
           LET q == [p EXCEPT !.retries = Countdown(@)] IN
           IF q.retries # 0
           THEN [Send(q, U(IF p.lstate = "link_setup" THEN "SABM" ELSE "DISC", "poll"))
                    EXCEPT !.timer1 = TRUE]
           ELSE IF p.lstate = "disc_request" THEN Dodisc(q)
           ELSE Lreset(Linkmsg([Send(q, U("DISC", "poll")) EXCEPT !.lstate = "disconnected"],
                               "failure"))
      [] p.lstate \in {"info_transfer", "rej_sent"} ->
           PollWaiting([p EXCEPT !.lstate = "wait_ack", !.retries = Retry])
      [] p.lstate = "wait_ack" -> PollWaiting(p)
      [] p.lstate = "frame_reject" ->
           [Send(p, U("FRMR", "response")) EXCEPT !.lstate = "disc_request", !.retries = 2,
                                                  !.timer1 = TRUE]
      [] OTHER -> p

-----------------------------------------------------------------------------
(* Frames.                                                                 *)

\* the numbers from v1s up to, not including, nr
Acked(p, nr) == {n \in Numbers : Minus(n, p.v1s) < Minus(nr, p.v1s)}

\* faulty: what is acknowledged stays in the window
InfackOneShort(p, nr) ==
    [p EXCEPT !.txinfptr = [n \in Numbers |-> IF n \in Acked(p, nr) THEN NoInfo ELSE @[n]],
              !.acked = @ + Minus(nr, p.v1s)]

\* infack: everything before nr has arrived
Infack(p, nr) ==
    LET q == [p EXCEPT
            !.txinfptr = [n \in Numbers |-> IF n \in Acked(p, nr) THEN NoInfo ELSE @[n]],
            !.lstate = IF \E n \in Acked(p, nr) : p.txinfptr[n] = NoInfo THEN "frame_reject" ELSE @,
            !.v1s = nr,
            !.acked = @ + Cardinality({n \in Acked(p, nr) : p.txinfptr[n] # NoInfo})]
    IN IF q.vs = nr /\ q.lstate # "wait_ack" THEN Stopt1(q) ELSE q

\* SABM for this connection or, with a new one, for a free port
Conack(p) ==
    LET q == IF p.lstate # "disconnected" THEN p
             ELSE Linkmsg([NewSession(Dodisc(p)) EXCEPT !.lstate = "info_transfer"], "connected")
    IN [Restt1(Send(q, U("UA", "final"))) EXCEPT !.retries = Retry]

Pacdecua(p) ==
    CASE p.lstate = "link_setup" ->
           Linkmsg([Stopt1(p) EXCEPT !.lstate = "info_transfer"], "connected")
      [] p.lstate = "disc_request" -> Dodisc(p)
      [] OTHER -> p

\* DISC and DM
Pacdecdm(p) ==
    IF p.lstate = "link_setup" THEN Dodisc(Linkmsg([p EXCEPT !.lstate = "disconnected"], "busy"))
    ELSE Dodisc(p)

Pacdecsup(p, f) ==
    LET waited == p.lstate = "wait_ack" /\ f.pf = "final"
        a == Infack(p, f.nr)
        b == IF ~waited THEN a
             ELSE IF a.vs = a.v1s THEN [Stopt1(a) EXCEPT !.lstate = "info_transfer"]
             ELSE [a EXCEPT !.lstate = "info_transfer"]
        \* one frame is repeated at a REJ, all of them after a poll
        c == IF b.v1s # b.vs /\ (b.v2s = b.vs \/ f.pf = "final") /\ f.type = "REJ"
             THEN [Infosend([b EXCEPT !.v2s = Plus(b.v1s, 1)], "command", b.v1s, Plus(b.v1s, 1))
                     EXCEPT !.retries = Retry, !.wasrej = TRUE]
             ELSE IF (waited \/ (b.vs # b.v2s /\ b.wasrej)) /\ b.vs # b.v1s /\ ~b.rembusy
             THEN [Infosend([b EXCEPT !.v2s = b.vs], "command", b.v1s, b.vs) EXCEPT !.retries = Retry]
             ELSE [b EXCEPT !.v2s = b.vs]
        d == CASE f.pf = "poll" -> Paccodsup(c, "final")
               [] f.pf = "command" -> Paccodsup(c, "response")
               [] OTHER -> c
    IN [d EXCEPT !.rembusy = (f.type = "RNR"), !.timer1 = (f.type = "RNR") \/ @]

\* faulty: the station becomes busy one frame too late
TakeBusyLate(p, x) ==
    LET stored == ~p.qtimer /\ p.rxlen < MaxRx + RxRoom
    IN [p EXCEPT !.lstate = IF @ = "rej_sent" THEN "info_transfer" ELSE @,
                 !.got = IF stored THEN Append(@, x) ELSE @,
                 !.astray = @ \/ (stored /\ p.told # "connected"),
                 !.rxlen = IF stored THEN @ + 1 ELSE @,
                 !.overrun = @ \/ ~stored,
                 !.busy = @ \/ (stored /\ p.rxlen > MaxRx + 1),
                 !.vr = Plus(@, 1)]

\* pacdecinf, N(S) fits: the data enter the receive queue.  With the queue full
\* or while quitting they are dropped, and acknowledged.
Take(p, x) ==
    LET a == [p EXCEPT !.lstate = IF @ = "rej_sent" THEN "info_transfer" ELSE @]
        b == IF ~p.qtimer /\ Quits(x) THEN Disconnect(a, 1) ELSE a
        stored == ~p.qtimer /\ b.rxlen < MaxRx + RxRoom
    IN
    [b EXCEPT !.got = IF stored THEN Append(@, x) ELSE @,
              !.astray = @ \/ (stored /\ b.told # "connected"),
              !.rxlen = IF stored THEN @ + 1 ELSE @,
              !.overrun = @ \/ ~stored,
              !.busy = @ \/ (stored /\ b.rxlen > MaxRx),
              !.qsumme[b.vr] = IF stored THEN Quersumme(x) ELSE 0,
              !.vr = Plus(@, 1)]

\* the answer at the end of pacdecinf
AnswerInf(p, pf, aussammler) ==
    IF pf = "poll" THEN Paccodsup([p EXCEPT !.timer2 = FALSE], "final")
    ELSE IF DirectAck /\ ~aussammler THEN Paccodsup(p, "response")
    ELSE [p EXCEPT !.timer2 = TRUE]

\* The frame after the one that was missing has been kept: it is next.
\* (At most one frame is kept: the one after the missing frame.)
Drain(p, pf) ==
    IF p.sammler[p.vr] = NoInfo THEN p
    ELSE AnswerInf(Take([p EXCEPT !.sammler[p.vr] = NoInfo], p.sammler[p.vr]), pf, TRUE)

\* A frame out of order is kept when it is the one after the missing frame,
\* and not, by its check sum, an old one of the same number.
Keep(p, f) ==
    IF f.ns = Plus(p.vr, 1) /\ ~p.qtimer /\ p.qsumme[f.ns] # Quersumme(f.info)
    THEN [p EXCEPT !.sammler[f.ns] = f.info, !.qsumme[f.ns] = Quersumme(f.info)]
    ELSE p

Pacdecinf(p, f) ==
    LET a == Infack(p, f.nr)
        b == IF f.ns = a.vr THEN Drain(Take(a, f.info), f.pf)
             ELSE IF a.vr # Plus(f.ns, 1) THEN Keep(Paccodrej(a, f.pf), f)
             ELSE a
    IN AnswerInf(b, f.pf, FALSE)

\* pacdec, for the port the frame belongs to
PacdecMatch(p, f) ==
    LET a == IF p.qtimer /\ p.txinfout = <<>> /\ p.vs = p.v1s THEN Disconnect(p, 1) ELSE p
        b == CASE f.type = "SABM" -> Conack(a)
               [] f.type = "UA" -> Pacdecua(a)
               [] f.type = "DISC" -> Pacdecdm(Send(a, U("DM", "final")))
               [] f.type = "DM" -> Pacdecdm(a)
               [] f.type = "FRMR" -> Disconnect(a, 1)
               [] f.type \in {"RR", "RNR", "REJ"} /\ a.lstate \in Transfer -> Pacdecsup(a, f)
               [] f.type = "I" /\ a.lstate \in Transfer -> Pacdecinf(a, f)
               [] OTHER -> a
    IN Tryinfo(b)

\* pacdec, when no port is connected with the sender
PacdecOther(p, f) ==
    IF f.pf # "poll" THEN p
    ELSE IF f.type = "SABM" THEN Conack(p) ELSE Send(p, U("DM", "final"))

Pacdec(p, f) == IF p.lstate = "disconnected" THEN PacdecOther(p, f) ELSE PacdecMatch(p, f)
=============================================================================
