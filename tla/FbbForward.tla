----------------------------- MODULE FbbForward -----------------------------
(***************************************************************************)
(* The FBB forwarding protocol of fwd_fbb.cpp, compressed and with resume  *)
(* ([D], [B1] in the SID).  The caller proposes up to MaxProp mails, the   *)
(* partner answers with one status character for each, the wanted mails    *)
(* are sent in blocks, and then the partner proposes.  What has been sent  *)
(* leaves the queue when the partner's next proposal, FF or FQ shows that  *)
(* it has arrived.  A mail cut off by a broken connection is kept as a     *)
(* fragment and resumed.                                                   *)
(***************************************************************************)
EXTENDS MailBox

CONSTANT MaxProp  \* FBB_MAX_PROP

ASSUME FbbAssumption == MaxProp \in Nat \ {0}

T(s, x) == end[s][x]
At(s, x, pc) == T(s, x).pc = pc /\ link[s] # "down"
Box == <<mail, text, prop, bids, queue, frag>>
Line == <<link, breaks>>

Start(s) ==
    /\ Connect(s)
    /\ end' = [end EXCEPT
         ![s][s[1]] = [NoTask EXCEPT !.pc = "send_propose", !.job = "fbb"],
         ![s][s[2]] = [NoTask EXCEPT !.pc = "recv_propose", !.job = "fbb"]]
    /\ UNCHANGED <<Box, wire, breaks>>

\* fbb_send_propose: tx_proposal, or FF when there is nothing to send, or,
\* when the partner had nothing either, a pause.
TxProposal(s, x) ==
    LET t == [T(s, x) EXCEPT !.list = <<>>, !.stat = <<>>, !.i = 0]
        due == IF AnotherFwdSender(s, x) THEN <<>>
               ELSE GetFwdListEntry(x, Peer(s, x), MaxProp)
    IN  /\ At(s, x, "send_propose")
        /\ IF due # <<>>
           THEN /\ Set(s, x, [t EXCEPT !.pc = "wait_fs", !.list = due,
                                       !.at = Last(due), !.delayed = FALSE])
                /\ Put(s, x, <<<<"prop", due>>>>)
           ELSE IF t.had
           THEN /\ Set(s, x, [t EXCEPT !.pc = "recv_propose", !.delayed = FALSE])
                /\ Put(s, x, <<<<"FF">>>>)
           ELSE Set(s, x, [t EXCEPT !.pc = "send_delay"]) /\ UNCHANGED wire
        /\ UNCHANGED <<Box, Line>>

\* fbb_send_delay: look once more after a pause, then quit.
SendDelay(s, x) ==
    LET t == T(s, x)
        again == ~t.delayed \/ (ChkForward(x, Peer(s, x)) /\ ~AnotherFwdSender(s, x))
    IN  /\ At(s, x, "send_delay")
        /\ IF again
           THEN Set(s, x, [t EXCEPT !.pc = "send_propose", !.delayed = TRUE])
                /\ UNCHANGED wire
           ELSE Set(s, x, [t EXCEPT !.pc = "end", !.job = "end"])
                /\ Put(s, x, <<<<"FQ">>>>)
        /\ UNCHANGED <<Box, Line>>

RxStatus(s, x) ==
    /\ At(s, x, "wait_fs") /\ Arrived(s, x, {"FS"})
    /\ Set(s, x, [T(s, x) EXCEPT !.pc = "send_mail", !.i = 1,
                                 !.stat = Head(wire[s][x])[2]])
    /\ Take(s, x)
    /\ UNCHANGED <<Box, Line>>

\* tx_mails, one mail of the proposal.  Whether its lock is taken depends on
\* b->at, which is still that of the mail looked at before.
TxMail(s, x) ==
    LET t == T(s, x)
        m == t.list[t.i]
        st == t.stat[t.i]
    IN  /\ At(s, x, "send_mail") /\ t.i <= Len(t.list)
        /\ IF st.st # "yes"
           THEN Set(s, x, [t EXCEPT !.i = @ + 1]) /\ UNCHANGED <<prop, wire>>
           ELSE /\ t.at \in Personal => ~LockedElsewhere(s, x, m)
                /\ IF mail[x][m] # "live"
                   THEN Set(s, x, [t EXCEPT !.pc = "end", !.job = "end"])
                        /\ UNCHANGED <<prop, wire>>
                   ELSE /\ Set(s, x, [t EXCEPT !.i = @ + 1, !.at = m,
                                 !.locks = IF t.at \in Personal THEN @ \cup {m} ELSE @])
                        /\ prop' = [prop EXCEPT ![x] = @ \cup ({m} \cap Personal)]
                        /\ Put(s, x, <<<<"mail", st.off, text[x][m]>>>>)
        /\ UNCHANGED <<mail, text, bids, queue, frag, Line>>

TxDone(s, x) ==
    /\ At(s, x, "send_mail") /\ T(s, x).i > Len(T(s, x).list)
    /\ Set(s, x, [T(s, x) EXCEPT !.pc = "recv_propose"])
    /\ UNCHANGED <<Box, wire, Line>>

\* reply_proposal, first line: FF, FQ or a proposal.  FF and FQ confirm what
\* was sent before.
Confirmed(t, next) ==
    IF t.list # <<>> THEN [t EXCEPT !.pc = "erase", !.i = 1, !.next = next]
    ELSE [t EXCEPT !.pc = next]
RxFirst(s, x) ==
    LET t == T(s, x)
    IN  /\ At(s, x, "recv_propose") /\ Arrived(s, x, {"prop", "FF", "FQ"})
        /\ CASE Head(wire[s][x])[1] = "prop" ->
                  Set(s, x, [t EXCEPT !.pc = "parse", !.ans = <<>>, !.want = <<>>,
                                      !.ask = Head(wire[s][x])[2]])
             [] Head(wire[s][x])[1] = "FF" ->
                  Set(s, x, Confirmed([t EXCEPT !.had = FALSE], "send_propose"))
             [] OTHER -> Set(s, x, Confirmed(t, "end"))
        /\ Take(s, x)
        /\ UNCHANGED <<Box, Line>>

Answer(m, st, off) == [m |-> m, st |-> st, off |-> off]

\* reply_proposal, one line: parse_proposal and wantmail.
ParseLine(s, x) ==
    LET t == T(s, x)
        m == t.ask[Len(t.ans) + 1]
        st == WantMail(s, x, m)
    IN  /\ At(s, x, "parse") /\ Len(t.ans) < Len(t.ask)
        /\ IF st = "yes" THEN Set(s, x, [t EXCEPT !.pc = "take"])
           ELSE Set(s, x, [t EXCEPT !.ans = Append(@, Answer(m, st, 0))])
        /\ bids' = BidsAfter(x, m, st)
        /\ UNCHANGED <<mail, text, prop, queue, frag, wire, Line>>

\* faulty: resumed behind the end of the fragment
ResumePast(f) == IF Len(f) < 2 THEN 0 ELSE Len(f) + 1
\* check_fragment: from 2 kBytes on, one kByte before the end.
ResumeAt(f) == IF Len(f) < 2 THEN 0 ELSE Len(f) - 1

\* faulty: the temporary BIDs are not looked at again after the yields
TakeLineUnchecked(s, x) ==
    LET t == T(s, x)
        m == t.ask[Len(t.ans) + 1]
        off == ResumeAt(frag[x][Peer(s, x)][m])
    IN  /\ At(s, x, "take")
        /\ Set(s, x, [t EXCEPT !.pc = "parse", !.ans = Append(@, Answer(m, "yes", off)),
                                !.want = Append(@, Answer(m, "yes", off))])
        /\ frag' = IF off > 0 THEN frag
                   ELSE [frag EXCEPT ![x][Peer(s, x)][m] = <<>>]
        /\ UNCHANGED <<mail, text, prop, bids, queue, wire, Line>>
\* The second look at the temporary BIDs, and tmpbidrein without a yield in
\* between.  A short fragment is deleted.
TakeLine(s, x) ==
    LET t == T(s, x)
        m == t.ask[Len(t.ans) + 1]
        off == ResumeAt(frag[x][Peer(s, x)][m])
    IN  /\ At(s, x, "take")
        /\ IF TmpBidVorhanden(s, x, m)
           THEN /\ Set(s, x, [t EXCEPT !.pc = "parse",
                                       !.ans = Append(@, Answer(m, "later", 0))])
                /\ UNCHANGED frag
           ELSE /\ Set(s, x, [t EXCEPT !.pc = "parse", !.ans = Append(@, Answer(m, "yes", off)),
                                       !.want = Append(@, Answer(m, "yes", off))])
                /\ frag' = IF off > 0 THEN frag
                           ELSE [frag EXCEPT ![x][Peer(s, x)][m] = <<>>]
        /\ UNCHANGED <<mail, text, prop, bids, queue, wire, Line>>

\* The reply; only now is what was sent before taken off the queue.
TxStatus(s, x) ==
    LET t == T(s, x)
        t2 == [t EXCEPT !.ans = <<>>, !.ask = <<>>, !.had = TRUE]
    IN  /\ At(s, x, "parse") /\ Len(t.ans) = Len(t.ask)
        /\ Put(s, x, <<<<"FS", t.ans>>>>)
        /\ Set(s, x, Confirmed(t2, "recv_mail"))
        /\ UNCHANGED <<Box, Line>>

\* faulty: what the partner wants later leaves the queue as well
EraseForwardedAll(s, x) ==
    LET t == T(s, x)
    IN  /\ At(s, x, "erase") /\ t.i <= Len(t.list)
        /\ DelFwdListEntry(x, Peer(s, x), t.list[t.i])
        /\ FwdProcReply(x, t.list[t.i], t.stat[t.i].st)
        /\ Set(s, x, [t EXCEPT !.i = @ + 1, !.locks = @ \ {t.list[t.i]}])
        /\ UNCHANGED <<text, prop, bids, frag, wire, Line>>
\* erase_forwarded, one mail of the own proposal.
EraseForwarded(s, x) ==
    LET t == T(s, x)
        m == t.list[t.i]
        st == t.stat[t.i].st
    IN  /\ At(s, x, "erase") /\ t.i <= Len(t.list)
        /\ IF st = "later" THEN UNCHANGED queue
           ELSE DelFwdListEntry(x, Peer(s, x), m)
        /\ FwdProcReply(x, m, st)
        /\ Set(s, x, [t EXCEPT !.i = @ + 1, !.locks = @ \ {m}])
        /\ UNCHANGED <<text, prop, bids, frag, wire, Line>>
EraseDone(s, x) ==
    /\ At(s, x, "erase") /\ T(s, x).i > Len(T(s, x).list)
    /\ Set(s, x, [T(s, x) EXCEPT !.pc = T(s, x).next, !.list = <<>>, !.i = 0,
                                 !.stat = <<>>])
    /\ UNCHANGED <<Box, wire, Line>>

\* rx_mails: the next wanted mail.  A resumed one goes on in its fragment.
RxHeader(s, x) ==
    LET t == T(s, x)
        m == Head(t.want).m
    IN  /\ At(s, x, "recv_mail") /\ t.want # <<>> /\ Arrived(s, x, {"mail"})
        /\ Set(s, x, [t EXCEPT !.pc = "recv_data", !.i = Head(wire[s][x])[2],
                        !.got = SubSeq(frag[x][Peer(s, x)][m], 1, Head(wire[s][x])[2])])
        /\ UNCHANGED <<Box, wire, Line>>

\* faulty: the mail is taken as it is, whatever its CRC says
RxEndUnchecked(t, new) == [t EXCEPT !.pc = "save"]
\* rx_yapp_end and the CRC over the whole file.
RxEnd(t, new) ==
    IF t.got = new THEN [t EXCEPT !.pc = "save"]
    ELSE [t EXCEPT !.pc = "end", !.job = "end"]

\* rx_yapp_data: a block goes to the file; the file is kept when the
\* connection breaks, never cut, and deleted at the end of the mail.
RxData(s, x) ==
    LET t == T(s, x)
        m == Head(t.want).m
        new == Head(wire[s][x])[3]
        k == t.i + 1
        old == frag[x][Peer(s, x)][m]
    IN  /\ At(s, x, "recv_data") /\ Arrived(s, x, {"mail"})
        /\ IF k <= Len(new)
           THEN /\ Set(s, x, [t EXCEPT !.i = k, !.got = Append(@, new[k])])
                /\ frag' = [frag EXCEPT ![x][Peer(s, x)][m] =
                      IF k <= Len(old) THEN [old EXCEPT ![k] = new[k]]
                      ELSE Append(old, new[k])]
                /\ UNCHANGED wire
           ELSE /\ Set(s, x, RxEnd(t, new))
                /\ frag' = [frag EXCEPT ![x][Peer(s, x)][m] = <<>>]
                /\ Take(s, x)
        /\ UNCHANGED <<mail, text, prop, bids, queue, Line>>

\* savemail, then, after a yield, add_fwdfile and tmpbidraus.
RxSave(s, x) ==
    /\ At(s, x, "save")
    /\ SaveMail(x, Head(T(s, x).want).m, T(s, x).got)
    /\ Set(s, x, [T(s, x) EXCEPT !.pc = "queue", !.got = <<>>, !.i = 0])
    /\ UNCHANGED <<queue, frag, wire, Line>>
RxQueue(s, x) ==
    /\ At(s, x, "queue")
    /\ AddFwdFile(x, Head(T(s, x).want).m, Peer(s, x))
    /\ Set(s, x, [T(s, x) EXCEPT !.pc = "recv_mail", !.want = Tail(@)])
    /\ UNCHANGED <<mail, text, prop, bids, frag, wire, Line>>
RxDone(s, x) ==
    /\ At(s, x, "recv_mail") /\ T(s, x).want = <<>>
    /\ Set(s, x, [T(s, x) EXCEPT !.pc = "send_propose"])
    /\ UNCHANGED <<Box, wire, Line>>

Ends(s, x) == Die(s, x) \/ Logout(s, x)

\* Somebody erases a user mail: who it is for has read it.
UserErase(x, m) ==
    /\ mail[x][m] = "live" /\ m \in Personal
    /\ mail' = [mail EXCEPT ![x][m] = "user"]
    /\ UNCHANGED <<text, prop, bids, queue, frag, link, end, wire, breaks>>

Step(s, x) ==
    \/ TxProposal(s, x) \/ SendDelay(s, x) \/ RxStatus(s, x)
    \/ TxMail(s, x) \/ TxDone(s, x) \/ RxFirst(s, x) \/ ParseLine(s, x)
    \/ TakeLine(s, x) \/ TxStatus(s, x) \/ EraseForwarded(s, x)
    \/ EraseDone(s, x) \/ RxHeader(s, x) \/ RxData(s, x) \/ RxSave(s, x)
    \/ RxQueue(s, x) \/ RxDone(s, x)

FNext ==
    \/ \E s \in Sessions : Start(s) \/ Break(s)
    \/ \E s \in Sessions : \E x \in {s[1], s[2]} : Step(s, x) \/ Ends(s, x)
    \/ \E x \in Boxes, m \in Mails : UserErase(x, m)

FSpec == Init /\ [][FNext]_vars

\* Every task goes on, a broken connection is noticed at both ends, and the
\* forwarding that crontab starts again and again finds its partner once no
\* other session is in its way.
Idle(s, x) ==
    \/ T(s, x).pc = "none"
    \/ link[s] = "up" /\ wire[s][x] = <<>>
         /\ \/ T(s, x).pc \in {"wait_fs", "recv_propose"}
            \/ T(s, x).pc = "recv_mail" /\ T(s, x).want # <<>>
Run(s, x) == Step(s, x) \/ Ends(s, x)
FFairness ==
    /\ \A s \in Sessions : <>[]~CanConnect(s) \/ []<><<Start(s)>>_vars
    /\ \A s \in Sessions : \A x \in {s[1], s[2]} :
         []<>Idle(s, x) \/ []<><<Run(s, x)>>_vars
FairFSpec == FSpec /\ FFairness

-----------------------------------------------------------------------------
Answers == [m : Mails, st : {"yes", "no", "later", "reject"}, off : 0 .. Blocks]
Texts == UNION {[1 .. n -> 0 .. 1] : n \in 0 .. Blocks}
Lists == UNION {[1 .. n -> Mails] : n \in 0 .. MaxProp}

FTypeOK ==
    /\ mail \in [Boxes -> [Mails -> {"none", "live", "fwd", "user"}]]
    /\ text \in [Boxes -> [Mails -> Texts]]
    /\ prop \in [Boxes -> SUBSET Personal] /\ bids \in [Boxes -> SUBSET Mails]
    /\ frag \in [Boxes -> [Boxes -> [Mails -> Texts]]]
    /\ \A s \in Sessions : \A x \in {s[1], s[2]} :
         /\ T(s, x).list \in Lists /\ T(s, x).ask \in Lists
         /\ Range(T(s, x).ans) \cup Range(T(s, x).want) \subseteq Answers
         /\ T(s, x).got \in Texts /\ T(s, x).locks \subseteq Mails

\* A user mail exists once in the network; until somebody erases it by hand
\* there is a box that holds it, however often connections break
\* (erase_forwarded, fwdproc_reply).
UserMailSomewhere ==
    \A m \in Personal : (\E x \in Boxes : mail[x][m] # "none") =>
        \E x \in Boxes : mail[x][m] \in {"live", "user"}

\* A user mail that is erased as forwarded is held by another box: "Die Mail
\* ist deshalb aber *nicht* in der Partnerbox vorhanden ... Wir koennen die
\* Usermail deshalb nicht still und heimlich einfach loeschen!"
\* (fwdproc_reply).
NotSilentlyErased ==
    [][\A x \in Boxes, m \in Personal :
         (mail[x][m] = "live" /\ mail'[x][m] = "fwd")
            => \E y \in Boxes \ {x} : mail[y][m] \in {"live", "user"}]_vars

\* "This prevents, that we accept a BID, which we are currently receiving on
\* another channel" (bids.cpp, tmpbidrein).
OneReception ==
    \A x \in Boxes : \A s, o \in EndsOf(x) :
        s # o => TmpBids(s, x) \cap TmpBids(o, x) = {}

\* A mail in a board is one text from beginning to end, also when it was
\* resumed: "if the fragments differ, the crc over the whole file will be
\* invalid" (check_fragment).
StoredWhole ==
    \A x \in Boxes, m \in Mails : mail[x][m] # "none" =>
        \E v \in 0 .. 1 : text[x][m] = [k \in 1 .. Blocks |-> v]

\* A box never proposes to one partner in two sessions (another_fwd_sender).
Proposes(s, x) == T(s, x).list # <<>> /\ T(s, x).pc # "end"
OneSender ==
    \A x \in Boxes : \A s, o \in EndsOf(x) :
        s # o /\ Peer(s, x) = Peer(o, x) => ~(Proposes(s, x) /\ Proposes(o, x))

\* An entry leaves the queue only when the partner has the mail's BID, or the
\* mail was erased: "we can be sure, that the partner has received the mails
\* we have sent to him and so we may delete them" (fwdmachine).
QueueKeeps ==
    [][\A x, y \in Boxes, m \in Mails :
         (m \in Range(queue[x][y]) /\ m \notin Range(queue'[x][y]))
            => m \in bids'[y]]_vars

\* Whatever is queued reaches the partner, if connections do not break again
\* and again: no session, lock or temporary BID left behind stops it.
MailArrives ==
    \A x, y \in Boxes, m \in Mails :
        m \in Range(queue[x][y]) ~> (m \in bids[y] \/ mail[x][m] # "live")
=============================================================================
