------------------------------ MODULE MailBox ------------------------------
(***************************************************************************)
(* What the forwarding of a mailbox works on: the mails and the BID list   *)
(* (bids.cpp), the forward-trigger-files, one per partner (fwd.cpp), the   *)
(* decision whether an offered mail is wanted and the saving of a received *)
(* one (send.cpp).  The two protocols, FbbForward and AsciiForward, are    *)
(* built on it.                                                            *)
(*                                                                         *)
(* A session is a connection from one box to another.  At each end runs a  *)
(* task; tasks of a box are scheduled cooperatively, so a step is what     *)
(* happens between two calls of waitfor() or wdelay().  The connection is  *)
(* a pair of AX.25 streams: reliable and in order until it breaks.         *)
(*                                                                         *)
(* Definitions marked "faulty" are never used here: each is a plausible    *)
(* mistake, put in place of the definition after it to show what the       *)
(* properties detect.                                                      *)
(***************************************************************************)
EXTENDS Integers, Sequences, FiniteSets, SequencesExt

CONSTANTS
    Boxes,
    Mails, Personal,  \* the mails, and those addressed to a user
    Origins,          \* functions: mail -> the boxes it was entered at
    Route,            \* box -> mail -> the boxes weiterleiten() finds
    Refused,          \* box -> the mails its reject.bcm refuses
    Leftover,         \* <<box, partner, mail>>: fragments of an older text
                      \* of the mail that may have been left behind
    Sessions,         \* pairs <<caller, called>>, at most one task each
    Blocks,           \* kBytes of a compressed mail
    MaxBreak          \* bound: connections that break

ASSUME MailBoxAssumption ==
    /\ Sessions \subseteq {s \in Boxes \X Boxes : s[1] # s[2]}
    /\ IsFiniteSet(Mails) /\ Personal \subseteq Mails
    /\ Leftover \subseteq Boxes \X Boxes \X Mails
    /\ Blocks \in Nat \ {0} /\ MaxBreak \in Nat

VARIABLES
    mail,   \* box -> mail -> "none", "live", or erased ('*' in its file):
            \* "fwd" by forwarding, "user" by hand
    text,   \* box -> mail -> the text of its file, a sequence of blocks
    prop,   \* box -> mails with b->fwdprop set: proposed at least once
    bids,   \* box -> the BIDs of its BID list
    queue,  \* box -> partner -> entries of the trigger-file not marked ' '
    frag,   \* box -> partner -> mail -> the fragment file fbb/<call>nn.lhb
    link,   \* session -> "down", "up", "broken"
    end,    \* session -> box -> the task at that end
    wire,   \* session -> box -> what is under way to that box
    breaks  \* connections that broke so far

vars == <<mail, text, prop, bids, queue, frag, link, end, wire, breaks>>

\* The members of a sequence that are in a set: SelectSeq, written out.
Those(q, S) ==
    LET K[n \in 0 .. Len(q)] ==
            IF n = 0 THEN <<>> ELSE IF q[n] \in S THEN Append(K[n - 1], q[n]) ELSE K[n - 1]
    IN K[Len(q)]

Peer(s, x) == IF s[1] = x THEN s[2] ELSE s[1]
EndsOf(x) == {s \in Sessions : x \in {s[1], s[2]}}

\* The variables of a session's task (tvar_t and the locals of fwdmachine).
NoTask ==
    [pc |-> "none", job |-> "none",
     list |-> <<>>, stat |-> <<>>, i |-> 0, \* own proposal, reply, position
     at |-> "none",                         \* the mail whose b->at is kept
     ask |-> <<>>, ans |-> <<>>,            \* partner's proposal and reply
     want |-> <<>>, got |-> <<>>,           \* to receive, received
     next |-> "none", had |-> TRUE, delayed |-> FALSE,
     locks |-> {}]

Init ==
    /\ \E origin \in Origins :
         LET has(x, m) == x \in origin[m]
         IN  /\ mail = [x \in Boxes |-> [m \in Mails |->
                         IF has(x, m) THEN "live" ELSE "none"]]
             /\ text = [x \in Boxes |-> [m \in Mails |->
                         [k \in 1 .. (IF has(x, m) THEN Blocks ELSE 0) |-> 0]]]
             /\ bids = [x \in Boxes |-> {m \in Mails : has(x, m)}]
             /\ queue = [x \in Boxes |-> [y \in Boxes |->
                   Those(SetToSeq(Mails), {m \in Mails : has(x, m) /\ y \in Route[x][m]})]]
    /\ prop = [x \in Boxes |-> {}]
    /\ \E left \in SUBSET Leftover :
         frag = [x \in Boxes |-> [y \in Boxes |-> [m \in Mails |->
             [k \in 1 .. (IF <<x, y, m>> \in left THEN Blocks ELSE 0) |-> 1]]]]
    /\ link = [s \in Sessions |-> "down"]
    /\ end = [s \in Sessions |-> [x \in {s[1], s[2]} |-> NoTask]]
    /\ wire = [s \in Sessions |-> [x \in {s[1], s[2]} |-> <<>>]]
    /\ breaks = 0

Set(s, x, t) == end' = [end EXCEPT ![s][x] = t]

\* Sending and receiving on a session.  What is sent on a broken one is lost.
Sent(w, s, x, msgs) ==
    IF link[s] = "up" THEN [w EXCEPT ![s][Peer(s, x)] = @ \o msgs] ELSE w
Put(s, x, msgs) == wire' = Sent(wire, s, x, msgs)
Arrived(s, x, kinds) == wire[s][x] # <<>> /\ Head(wire[s][x])[1] \in kinds
Taken(s, x) == [wire EXCEPT ![s][x] = Tail(@)]
Take(s, x) == wire' = Taken(s, x)

\* eingelogt, another_fwd_sender: another task forwards to the same partner.
SendJobs == {"fbb", "fwdsend", "fwdsendf", "fwdlink"}
\* faulty: the receiving half of an FBB session is not counted
AnotherFwdSenderTx(s, x) ==
    \E o \in EndsOf(x) \ {s} :
        Peer(o, x) = Peer(s, x) /\ end[o][x].pc \in {"send_propose", "wait_fs", "send_mail"}
AnotherFwdSender(s, x) ==
    \E o \in EndsOf(x) \ {s} :
        Peer(o, x) = Peer(s, x) /\ end[o][x].job \in SendJobs

\* sema_lock, sema_test of a mail file; a task's locks end with the task.
LockedElsewhere(s, x, m) == \E o \in EndsOf(x) \ {s} : m \in end[o][x].locks
Locked(x, m) == \E o \in EndsOf(x) : m \in end[o][x].locks

\* tmpbidrein, tmpbidraus: a mail is in tmpbid[] from the reply on until it
\* is saved or the task ends.
TmpBids(s, x) == {end[s][x].want[k].m : k \in DOMAIN end[s][x].want}
TmpBidVorhanden(s, x, m) == \E o \in EndsOf(x) : m \in TmpBids(o, x)

\* wantmail: what speaks against an offered mail, or "yes" for the moment.
\* A refused mail is entered in the BID list.
WantMail(s, x, m) ==
    CASE m \in bids[x]              -> "no"
      [] m \notin bids[x] /\ TmpBidVorhanden(s, x, m) -> "later"
      [] m \notin bids[x] /\ ~TmpBidVorhanden(s, x, m)
           /\ m \in Refused[x]      -> "reject"
      [] OTHER                      -> "yes"
BidsAfter(x, m, answer) ==
    IF answer = "reject" THEN [bids EXCEPT ![x] = @ \cup {m}] ELSE bids

\* savemail up to appenddirlist: the mail is in its board's list and its BID
\* in the BID list.
SaveMail(x, m, t) ==
    /\ mail' = [mail EXCEPT ![x][m] = "live"]
    /\ text' = [text EXCEPT ![x][m] = t]
    /\ bids' = [bids EXCEPT ![x] = @ \cup {m}]
    /\ prop' = [prop EXCEPT ![x] = @ \ {m}]

\* add_fwdfile: the new mail goes to the trigger-files of the boxes it is
\* routed to; a bulletin not back to the box it came from.
AddFwdFile(x, m, from) ==
    queue' = [queue EXCEPT ![x] = [y \in Boxes |->
        IF y \in Route[x][m] /\ (m \in Personal \/ y # from)
        THEN Append(Those(@[y], Mails \ {m}), m) ELSE @[y]]]

\* getfwdlistentry, killforwarded: entries that can be sent now, user mails
\* before bulletins, without the erased ones and those being sent elsewhere.
GetFwdListEntry(x, y, num) ==
    LET ok(m) == mail[x][m] = "live" /\ ~Locked(x, m)
        due == Those(queue[x][y], {m \in Personal : ok(m)})
               \o Those(queue[x][y], {m \in Mails \ Personal : ok(m)})
    IN SubSeq(due, 1, IF Len(due) < num THEN Len(due) ELSE num)
ChkForward(x, y) == \E k \in DOMAIN queue[x][y] : mail[x][queue[x][y][k]] = "live"

DelFwdListEntry(x, y, m) ==
    queue' = [queue EXCEPT ![x][y] = Those(@, Mails \ {m})]

\* fwdproc_reply: a user mail the partner took, or knows, is erased; a
\* rejected one is kept on hold, a bulletin marked as forwarded.
FwdProcReply(x, m, answer) ==
    IF m \in Personal /\ answer \in {"yes", "no"}
    THEN mail' = [mail EXCEPT ![x][m] = "fwd"] ELSE UNCHANGED mail

\* startfwd, testfwd: something is queued and no other session sends it.  The
\* called box answers unless a receiving task of the caller runs already.
CanConnect(s) ==
    /\ link[s] = "down" /\ ChkForward(s[1], s[2])
    /\ ~AnotherFwdSender(s, s[1])
    /\ \A o \in EndsOf(s[2]) \ {s} : Peer(o, s[2]) # s[1] \/ end[o][s[2]].job # "fwdrecv"
Connect(s) == CanConnect(s) /\ link' = [link EXCEPT ![s] = "up"]

\* The connection breaks, or a box gives up waiting for the other
\* (fwdtimeout).  What was under way arrives up to some point.
Break(s) ==
    /\ link[s] = "up" /\ breaks < MaxBreak
    /\ breaks' = breaks + 1
    /\ link' = [link EXCEPT ![s] = "broken"]
    /\ \E i \in 0 .. Len(wire[s][s[1]]), j \in 0 .. Len(wire[s][s[2]]) :
         wire' = [wire EXCEPT ![s][s[1]] = SubSeq(@, 1, i),
                              ![s][s[2]] = SubSeq(@, 1, j)]
    /\ UNCHANGED <<mail, text, prop, bids, queue, frag, end>>

\* faulty: the ended task keeps its temporary BIDs
DieKeepsBids(s, x) ==
    /\ link[s] = "broken" /\ end[s][x].pc # "none"
    /\ end' = [end EXCEPT ![s][x] = [NoTask EXCEPT !.want = end[s][x].want]]
    /\ IF end[s][Peer(s, x)].pc = "none"
       THEN /\ link' = [link EXCEPT ![s] = "down"]
            /\ wire' = [wire EXCEPT ![s] = [z \in {s[1], s[2]} |-> <<>>]]
       ELSE UNCHANGED <<link, wire>>
    /\ UNCHANGED <<mail, text, prop, bids, queue, frag, breaks>>
\* A box notices and ends the task at once: killport, dealloctask.
Die(s, x) ==
    /\ link[s] = "broken" /\ end[s][x].pc # "none"
    /\ end' = [end EXCEPT ![s][x] = NoTask]
    /\ IF end[s][Peer(s, x)].pc = "none"
       THEN /\ link' = [link EXCEPT ![s] = "down"]
            /\ wire' = [wire EXCEPT ![s] = [z \in {s[1], s[2]} |-> <<>>]]
       ELSE UNCHANGED <<link, wire>>
    /\ UNCHANGED <<mail, text, prop, bids, queue, frag, breaks>>

\* mblogout: a task at the end of its session closes the connection.
Logout(s, x) ==
    /\ link[s] = "up" /\ end[s][x].pc = "end"
    /\ link' = [link EXCEPT ![s] = "broken"]
    /\ UNCHANGED <<mail, text, prop, bids, queue, frag, end, wire, breaks>>
=============================================================================
