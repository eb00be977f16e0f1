---------------------------- MODULE AsciiForward ----------------------------
(***************************************************************************)
(* The ASCII forwarding of fwd_rli.cpp (W0RLI): the caller sends one SEND  *)
(* command for each queued mail, the partner answers OK, NO, LATER or      *)
(* REJECT, the text follows, and the next prompt confirms it.  When the    *)
(* caller has nothing left it turns the direction round with F>.  Which of *)
(* the two protocols a session uses depends on the partner's SID.          *)
(***************************************************************************)
EXTENDS FbbForward

CONSTANTS Ascii, Fbb  \* sessions that may use this protocol, and the other

ASSUME AsciiAssumption == Ascii \cup Fbb \subseteq Sessions

AStart(s) ==
    /\ Connect(s)
    /\ end' = [end EXCEPT
         ![s][s[1]] = [NoTask EXCEPT !.pc = "a_pr2", !.job = "fwdlink"],
         ![s][s[2]] = [NoTask EXCEPT !.pc = "a_prompt", !.job = "fwdrecv"]]
    /\ UNCHANGED <<Box, wire, breaks>>

Go(s, x, pc) == Set(s, x, [T(s, x) EXCEPT !.pc = pc])
Cur(s, x) == Head(T(s, x).list)

\* The second prompt: the partner's ascii_fwdmachine runs.
APr2(s, x) ==
    /\ At(s, x, "a_pr2") /\ Arrived(s, x, {">"}) /\ Take(s, x)
    /\ Set(s, x, [T(s, x) EXCEPT !.pc = "a_send", !.job = "fwdsend"])
    /\ UNCHANGED <<Box, Line>>

\* fwdputfiles, scan_fwdfile: the next mail, unless another task sends too.
ASend(s, x) ==
    LET due == GetFwdListEntry(x, Peer(s, x), 1)
    IN  /\ At(s, x, "a_send")
        /\ IF AnotherFwdSender(s, x)
           THEN Set(s, x, [T(s, x) EXCEPT !.pc = "end", !.job = "end"])
           ELSE Set(s, x, [T(s, x) EXCEPT !.job = "fwdsend", !.list = due,
                             !.pc = IF due = <<>> THEN "a_delay" ELSE "a_file"])
        /\ UNCHANGED <<Box, wire, Line>>

\* fwdsendfile up to fwdsendbefehl: a user mail is locked, an erased one not
\* sent but taken off the queue all the same.
AFile(s, x) ==
    LET m == Cur(s, x)
    IN  /\ At(s, x, "a_file")
        /\ m \in Personal => ~LockedElsewhere(s, x, m)
        /\ IF mail[x][m] = "live"
           THEN /\ Set(s, x, [T(s, x) EXCEPT !.pc = "a_ok", !.locks = {m} \cap Personal])
                /\ Put(s, x, <<<<"S", m>>>>)
           ELSE Go(s, x, "a_del") /\ UNCHANGED wire
        /\ UNCHANGED <<Box, Line>>

\* faulty: the reply is processed before the prompt that confirms the mail
AReplyTooEarly(s, x) ==
    LET m == Cur(s, x)
    IN  /\ At(s, x, "a_ok") /\ Arrived(s, x, {"OK"})
        /\ Set(s, x, [T(s, x) EXCEPT !.pc = "a_del", !.locks = {}])
        /\ FwdProcReply(x, m, "yes")
        /\ wire' = Sent(Taken(s, x), s, x, <<<<"text", text[x][m]>>>>)
        /\ UNCHANGED <<text, prop, bids, queue, frag, Line>>
\* The answer; LATER counts as NO ("TODO: send later").
AReply(s, x) ==
    LET m == Cur(s, x)
        answer == Head(wire[s][x])[1]
        st == CASE answer = "OK" -> "yes" [] answer = "RJ" -> "reject" [] OTHER -> "no"
    IN  /\ At(s, x, "a_ok") /\ Arrived(s, x, {"OK", "NO", "LA", "RJ"})
        /\ Set(s, x, [T(s, x) EXCEPT !.pc = "a_wp", !.stat = <<st>>])
        /\ IF answer = "OK"
           THEN /\ prop' = [prop EXCEPT ![x] = @ \cup ({m} \cap Personal)]
                /\ wire' = Sent(Taken(s, x), s, x, <<<<"text", text[x][m]>>>>)
           ELSE UNCHANGED prop /\ Take(s, x)
        /\ UNCHANGED <<mail, text, bids, queue, frag, Line>>

\* waitfwdprompt, fwdproc_reply, then delfwdlistentry.
AConfirm(s, x) ==
    /\ At(s, x, "a_wp") /\ Arrived(s, x, {">"}) /\ Take(s, x)
    /\ FwdProcReply(x, Cur(s, x), T(s, x).stat[1])
    /\ Set(s, x, [T(s, x) EXCEPT !.pc = "a_del", !.stat = <<>>, !.locks = {}])
    /\ UNCHANGED <<text, prop, bids, queue, frag, Line>>
ADel(s, x) ==
    /\ At(s, x, "a_del")
    /\ DelFwdListEntry(x, Peer(s, x), Cur(s, x))
    /\ Set(s, x, [T(s, x) EXCEPT !.pc = "a_send", !.list = <<>>])
    /\ UNCHANGED <<mail, text, prop, bids, frag, wire, Line>>

\* fwd_delay: something new, or the other direction's turn, or the end.
ADelay(s, x) ==
    LET receiving == \E o \in EndsOf(x) \ {s} : Peer(o, x) = Peer(s, x)
                         /\ end[o][x].job \in {"fwdrecv", "fwdrecvf"}
    IN  /\ At(s, x, "a_delay")
        /\ IF ChkForward(x, Peer(s, x)) THEN Go(s, x, "a_send") /\ UNCHANGED wire
           ELSE IF receiving \/ x # s[1]
           THEN /\ Put(s, x, <<<<"***done">>>>)
                /\ Set(s, x, [T(s, x) EXCEPT !.pc = "end", !.job = "end"])
           ELSE Put(s, x, <<<<"F>">>>>) /\ Go(s, x, "a_receive")
        /\ UNCHANGED <<Box, Line>>

APrompt(s, x) ==
    /\ At(s, x, "a_prompt") /\ Put(s, x, <<<<">">>>>)
    /\ Set(s, x, [T(s, x) EXCEPT !.pc = "a_receive", !.job = "fwdrecv"])
    /\ UNCHANGED <<Box, Line>>

\* fwdcmd: a command of the partner.
ACommand(s, x) ==
    /\ At(s, x, "a_receive") /\ Arrived(s, x, {"S", "F>", ">", "***done"}) /\ Take(s, x)
    /\ Set(s, x, CASE Head(wire[s][x])[1] = "S" ->
                        [T(s, x) EXCEPT !.pc = "a_want", !.job = "fwdrecvf",
                                        !.ask = <<Head(wire[s][x])[2]>>]
                   [] Head(wire[s][x])[1] = "F>" -> [T(s, x) EXCEPT !.pc = "a_delay"]
                   [] Head(wire[s][x])[1] = ">" -> [T(s, x) EXCEPT !.pc = "a_prompt"]
                   [] OTHER -> [T(s, x) EXCEPT !.pc = "end", !.job = "end"])
    /\ UNCHANGED <<Box, Line>>

\* mbsend up to wantmail, and after it the second look at the temporary BIDs.
AWant(s, x) ==
    LET m == T(s, x).ask[1]
        st == WantMail(s, x, m)
    IN  /\ At(s, x, "a_want")
        /\ bids' = BidsAfter(x, m, st)
        /\ IF st = "yes" THEN Go(s, x, "a_take") /\ UNCHANGED wire
           ELSE /\ Put(s, x, <<<<CASE st = "no" -> "NO" [] st = "later" -> "LA"
                                   [] OTHER -> "RJ">>>>)
                /\ Set(s, x, [T(s, x) EXCEPT !.pc = "a_prompt", !.ask = <<>>])
        /\ UNCHANGED <<mail, text, prop, queue, frag, Line>>
ATake(s, x) ==
    LET m == T(s, x).ask[1]
    IN  /\ At(s, x, "a_take")
        /\ IF TmpBidVorhanden(s, x, m)
           THEN /\ Put(s, x, <<<<"NO">>>>)
                /\ Set(s, x, [T(s, x) EXCEPT !.pc = "a_prompt", !.ask = <<>>])
           ELSE /\ Put(s, x, <<<<"OK">>>>)
                /\ Set(s, x, [T(s, x) EXCEPT !.pc = "a_text", !.ask = <<>>,
                                             !.want = <<Answer(m, "yes", 0)>>])
        /\ UNCHANGED <<Box, Line>>

\* savemail writes to a file that is deleted on disconnect.
AText(s, x) ==
    /\ At(s, x, "a_text") /\ Arrived(s, x, {"text"}) /\ Take(s, x)
    /\ Set(s, x, [T(s, x) EXCEPT !.pc = "a_save", !.got = Head(wire[s][x])[2]])
    /\ UNCHANGED <<Box, Line>>
ASave(s, x) ==
    /\ At(s, x, "a_save")
    /\ SaveMail(x, Head(T(s, x).want).m, T(s, x).got)
    /\ Set(s, x, [T(s, x) EXCEPT !.pc = "a_queue", !.got = <<>>])
    /\ UNCHANGED <<queue, frag, wire, Line>>
AQueue(s, x) ==
    /\ At(s, x, "a_queue")
    /\ AddFwdFile(x, Head(T(s, x).want).m, Peer(s, x))
    /\ Set(s, x, [T(s, x) EXCEPT !.pc = "a_prompt", !.want = <<>>])
    /\ UNCHANGED <<mail, text, prop, bids, frag, wire, Line>>

AStep(s, x) ==
    \/ APr2(s, x) \/ ASend(s, x) \/ AFile(s, x) \/ AReply(s, x)
    \/ AConfirm(s, x) \/ ADel(s, x) \/ ADelay(s, x) \/ APrompt(s, x)
    \/ ACommand(s, x) \/ AWant(s, x) \/ ATake(s, x) \/ AText(s, x)
    \/ ASave(s, x) \/ AQueue(s, x)

\* A session runs the protocol that both boxes have in their SID.
ANext ==
    \/ \E s \in Ascii : AStart(s)
    \/ \E s \in Fbb : Start(s)
    \/ \E s \in Sessions : Break(s)
    \/ \E s \in Sessions : \E x \in {s[1], s[2]} :
         Step(s, x) \/ AStep(s, x) \/ Ends(s, x)
    \/ \E x \in Boxes, m \in Mails : UserErase(x, m)

ASpec == Init /\ [][ANext]_vars

-----------------------------------------------------------------------------
=============================================================================
