------------------------------- MODULE L2Link -------------------------------
(***************************************************************************)
(* Two stations with the link layer of l2proto.cpp, and the radio channel  *)
(* between them: a queue of frames per direction, of which any may be lost *)
(* (also the ones for which there is no room in the sender's memory).      *)
(* The handling of a frame, a timer or a call is one step: layer2() and    *)
(* l2aufruf() are not reentrant.                                           *)
(***************************************************************************)
EXTENDS L2Port

CONSTANTS
    Stations,
    Callers,    \* the stations that connect
    Modes,      \* the ways the applications disconnect
    MaxData,    \* station -> pieces of data it submits per session
    MaxAir,     \* frames under way in one direction
    MaxSess,    \* sessions per station
    Restarts,   \* stations that are restarted
    Readers,    \* stations whose application reads what has arrived
    LinkTime,   \* val.linktime is not 0: timer 3 runs
    Patient     \* timer 1 is longer than a frame and its answer take: frack is
                \* made longer whenever the timer runs out

ASSUME LinkAssumption ==
    /\ IsFiniteSet(Stations) /\ Cardinality(Stations) = 2 /\ Callers \subseteq Stations
    /\ NoInfo \notin Nat \X Nat
    /\ MaxAir \in Nat \ {0} /\ LinkTime \in BOOLEAN /\ Patient \in BOOLEAN

VARIABLES
    port,       \* station -> its port
    air         \* station -> the frames it has sent and that are under way

vars == <<port, air>>

Peer(s) == CHOOSE t \in Stations : t # s

Init ==
    /\ port = [s \in Stations |-> Idle]
    /\ air = [s \in Stations |-> <<>>]

\* Port s is now p, after what is left of its own frames.  Frames for which
\* there is no room are lost.
Becomes(s, p, heard) ==
    LET sent == heard[s] \o p.out IN
    /\ port' = [port EXCEPT ![s] = [p EXCEPT !.out = <<>>]]
    /\ air' = [heard EXCEPT ![s] = SubSeq(sent, 1, Min({MaxAir, Len(sent)}))]

Receive(s) ==
    /\ air[Peer(s)] # <<>>
    /\ Becomes(s, Pacdec(port[s], Head(air[Peer(s)])), [air EXCEPT ![Peer(s)] = Tail(@)])

Lose(s) ==
    /\ air[s] # <<>>
    /\ air' = [air EXCEPT ![s] = Tail(@)]
    /\ UNCHANGED port

Silence == \A s \in Stations : air[s] = <<>>

Timer1(s) ==
    /\ port[s].timer1 /\ (Patient => Silence)
    /\ Becomes(s, T1tout([port[s] EXCEPT !.timer1 = FALSE]), air)

\* the acknowledgement that was put off
Timer2(s) ==
    /\ port[s].timer2
    /\ Becomes(s, Paccodsup([port[s] EXCEPT !.timer2 = FALSE], "response"), air)

\* nothing was heard for a long time
Timer3(s) ==
    /\ LinkTime /\ port[s].lstate # "disconnected"
    /\ Becomes(s, T1tout(port[s]), air)

\* the time for quitting is over, or everything is acknowledged
Qtimer(s) ==
    /\ port[s].qtimer
    /\ Becomes(s, Disconnect(port[s], 1), air)

ConnectTo(s) ==
    /\ s \in Callers /\ port[s].sess < MaxSess
    /\ port[s].lstate \notin Transfer
    /\ Becomes(s, Connect(port[s]), air)

DisconnectFrom(s, mode) ==
    /\ port[s].lstate # "disconnected"
    /\ Becomes(s, Disconnect(port[s], mode), air)

SubmitData(s) ==
    /\ port[s].lstate # "disconnected"
    /\ port[s].sub < MaxData[s]
    /\ Becomes(s, Submit(port[s]), air)

\* A reader that finds nothing polls again, which matters while busy.
Unread(s) == s \in Readers /\ (port[s].rxlen > 0 \/ port[s].busy)

Read(s) ==
    /\ Unread(s)
    /\ Becomes(s, Chrin(port[s]), air)

\* the program is started again
Restart(s) ==
    /\ s \in Restarts /\ port[s].sess \in 1 .. MaxSess - 1
    /\ Becomes(s, [Idle EXCEPT !.sess = port[s].sess], air)

Next ==
    \E s \in Stations :
        \/ Receive(s) \/ Lose(s)
        \/ Timer1(s) \/ Timer2(s) \/ Timer3(s) \/ Qtimer(s)
        \/ ConnectTo(s) \/ (\E mode \in Modes : DisconnectFrom(s, mode))
        \/ SubmitData(s) \/ Read(s) \/ Restart(s)

Spec == Init /\ [][Next]_vars

\* Frames get through or are lost, and every running timer ends: timerset is
\* called again and again, timer 1 and 2 wait only while the channel is busy.
\* Timer 3 is started again by every frame, so it ends when none comes.
\* (Weak fairness, with the condition of each action spelled out.)
Timers(s) ==
    /\ []<>(air[Peer(s)] = <<>>) \/ []<><<Receive(s) \/ Lose(Peer(s))>>_vars
    /\ []<>~(port[s].timer1 /\ (Patient => Silence)) \/ []<><<Timer1(s)>>_vars
    /\ []<>~port[s].timer2 \/ []<><<Timer2(s)>>_vars
    /\ []<>~port[s].qtimer \/ []<><<Qtimer(s)>>_vars
    /\ []<>(~LinkTime \/ port[s].lstate = "disconnected" \/ air[Peer(s)] # <<>>)
         \/ []<><<Timer3(s)>>_vars

Incoming(s, n) ==
    air[Peer(s)] # <<>> /\ Head(air[Peer(s)]).type = "I" /\ Head(air[Peer(s)]).ns = n

\* An I frame that is repeated again and again gets through in the end (strong
\* fairness, likewise), and the application reads what has arrived.
Radio(s) ==
    /\ \A n \in Numbers :
        <>[]~Incoming(s, n) \/ []<><<Incoming(s, n) /\ Receive(s)>>_vars
    /\ []<>~Unread(s) \/ []<><<Read(s)>>_vars

FairSpec == Spec /\ \A s \in Stations : Timers(s)
RadioSpec == FairSpec /\ \A s \in Stations : Radio(s)

-----------------------------------------------------------------------------
(* Safety.                                                                 *)

Connected(s) == port[s].lstate \in Transfer
Both(s) == Connected(s) /\ Connected(Peer(s))

Pieces == Nat \X Nat
Frame == [type : {"SABM", "UA", "DISC", "DM", "FRMR", "RR", "RNR", "REJ", "I"},
          pf : {"command", "response", "poll", "final"}, nr : Numbers, ns : Numbers,
          info : Pieces \cup {NoInfo}]

(* Every field of a port, and every frame on the air, has its type, and no *)
(* frame that was sent waits anywhere else.                                *)
TypeOK ==
    \A s \in Stations :
        LET p == port[s] IN
        /\ p.lstate \in LStates /\ {p.vr, p.vs, p.v1s, p.v2s} \subseteq Numbers
        /\ {p.busy, p.rembusy, p.wasrej, p.timer1, p.timer2, p.qtimer, p.overrun} \subseteq BOOLEAN
        /\ p.retries \in -1 .. Retry + 1 /\ p.rxlen \in Nat
        /\ \A n \in Numbers : {p.txinfptr[n], p.sammler[n]} \subseteq Pieces \cup {NoInfo}
        /\ ToSet(p.txinfout) \subseteq Pieces /\ ToSet(p.got) \subseteq Pieces
        /\ p.told \in {"connected", "disconnected", "failure", "busy"} /\ p.astray \in BOOLEAN
        /\ ToSet(air[s]) \subseteq Frame /\ Len(air[s]) <= MaxAir
        /\ p.out = <<>>

(* putinfo and infack keep the window: a frame is held exactly from the    *)
(* time it gets its number to the time that number is acknowledged, and    *)
(* never more than maxframe.                                               *)
WindowHeld ==
    \A s \in Stations :
        LET p == port[s] IN
        /\ Outstanding(p) <= MaxFrame
        /\ Connected(s) => {n \in Numbers : p.txinfptr[n] # NoInfo}
                             = {n \in Numbers : Minus(n, p.v1s) < Outstanding(p)}

\* the data of session n: pieces 1 to k
Stream(n, k) == [i \in 1 .. k |-> <<n, i>>]

(* The receive queue has room for everything that comes: a station that    *)
(* becomes busy says so before the window of the other one can fill the    *)
(* eight places beyond maxrx (pacdecinf, paccodsup, rnrfrei).              *)
NothingDropped == \A s \in Stations : ~port[s].overrun

(* The application knows the state of its link: linkmsg has said           *)
(* "connected" last while the link is up and something else when it is     *)
(* down, and all data are between a "connected" and the end.               *)
MessagesTell ==
    \A s \in Stations :
        LET p == port[s] IN
        /\ Connected(s) => p.told = "connected"
        /\ p.lstate = "disconnected" => p.told # "connected"
        /\ ~p.astray

Sender == CHOOSE s \in Callers : TRUE

\* the direction from the sender to its peer
Direction ==
    INSTANCE ReliableStream WITH
        submitted <- port[Sender].sub,
        delivered <- [i \in DOMAIN port[Peer(Sender)].got |-> port[Peer(Sender)].got[i][2]],
        released <- port[Sender].acked

(* One session is a reliable stream, also over its setup and its end.      *)
StreamKept == Direction!Spec

-----------------------------------------------------------------------------
(* Liveness.                                                               *)

(* A link setup and a disconnect come to an end: retries are counted down. *)
RequestsEnd ==
    \A s \in Stations :
        /\ port[s].lstate = "link_setup" ~> port[s].lstate # "link_setup"
        /\ port[s].lstate = "disc_request" ~> port[s].lstate # "disc_request"

(* A station whose peer has been restarted, or has given up, notices it    *)
(* by timer 3 and its retries, also when it has nothing to send.           *)
HalfOpenEnds ==
    \A s \in Stations :
        Connected(s) /\ port[Peer(s)].lstate = "disconnected"
            ~> ~Connected(s) \/ port[Peer(s)].lstate # "disconnected"

(* What is submitted is acknowledged in the end, or the link is given up.  *)
DataArrive ==
    \A s \in Stations, k \in 1 .. Max({MaxData[t] : t \in Stations}) :
        MaxData[s] >= k /\ Connected(s) /\ port[s].sub >= k ~> port[s].acked >= k \/ ~Connected(s)
=============================================================================
