------------------------------ MODULE Didadit ------------------------------
(***************************************************************************)
(* The DIDADIT file transfer of didadit.cpp.  A sender (_tx) offers a      *)
(* file in blocks; a receiver (_rx) writes it, fills what is missing with  *)
(* '*', keeps a list of the damage in memory and in the file "<name>.r",   *)
(* and asks for the damaged parts with REQ frames once it has FIN.  Frames *)
(* with a wrong CRC are dropped (rx_block).  When the link breaks, what    *)
(* was received stays on disk, and the next transfer resumes behind it.    *)
(*                                                                         *)
(* A byte is the offset it has in the sender's file, so a byte is right    *)
(* where it stands if it is its own offset.  Left out: the frame coding    *)
(* (CRC and stuffing), ERR, ECHO and ABORT frames, PART_MD5, which no      *)
(* version of the receiver sends, and the commands behind the transfer.    *)
(* Definitions marked "faulty" are never used here: each is a plausible    *)
(* bug of the definition behind it.                                        *)
(***************************************************************************)
EXTENDS Integers, Sequences

CONSTANTS
    FileLen,     \* the length of the sender's file
    BlockLen,    \* blocksize
    DebugBuild,  \* whether config.h defines DEBUG_DIDADIT, see RepairOffset
    MaxLost,     \* bound: frames lost in one history
    MaxSessions  \* bound: transfers started in one history

ASSUME DidaditAssumption ==
    /\ FileLen \in Nat \ {0}   \* _tx refuses an empty file
    /\ BlockLen \in Nat \ {0}
    /\ DebugBuild \in BOOLEAN
    /\ MaxLost \in Nat
    /\ MaxSessions \in Nat

VARIABLES
    exists,     \* whether the receiver has the file
    disk,       \* what is in it
    rFile,      \* the list in "<name>.r"; << >> if there is no such file
    rxState,    \* "off", "info", "data", "req", "done"
    rxPos,      \* f->pos
    rxSize,     \* f->size of the receiver
    rxReq,      \* REQ[], REQc
    txState,    \* "off", "start", "send", "wait", "done"
    todo,       \* the parts the sender has still to send before FIN
    toTx,       \* frames under way
    toRx,
    lostFrames, \* counters of the bounds
    sessions

dvars == <<exists, disk, rFile, rxState, rxPos, rxSize, rxReq, txState, todo,
           toTx, toRx, lostFrames, sessions>>

Star == -1
Part(o, l) == [offset |-> o, len |-> l]
Whole == [i \in 1 .. FileLen |-> i - 1]
Data(o, l) == [i \in 1 .. l |-> o + i - 1]

DidaditInit ==
    /\ exists = FALSE /\ disk = << >> /\ rFile = << >>
    /\ rxReq = << >> /\ todo = << >>
    /\ rxState = "off" /\ txState = "off"
    /\ rxPos = 0 /\ rxSize = 0
    /\ toTx = << >> /\ toRx = << >>
    /\ lostFrames = 0 /\ sessions = 0

-----------------------------------------------------------------------------
(* A frame goes out, or is damaged on its way.                             *)
Transmit(queue, frame) ==
    \/ queue' = Append(queue, frame) /\ UNCHANGED lostFrames
    \/ /\ lostFrames < MaxLost
       /\ lostFrames' = lostFrames + 1
       /\ UNCHANGED queue

(* _tx up to tx_INFO, while the receiver waits in its first rx_block.      *)
Offer ==
    /\ txState \in {"off", "done"} /\ rxState \in {"off", "done"}
    /\ sessions < MaxSessions
    /\ sessions' = sessions + 1
    /\ txState' = "start" /\ rxState' = "info"
    /\ Transmit(toRx, [type |-> "INFO", size |-> FileLen])
    /\ UNCHANGED <<exists, disk, rFile, rxPos, rxSize, rxReq, todo, toTx>>

(* _rx from INFO to START: a file that is there is resumed, with the list  *)
(* its .r file has; its length replaces the size INFO told.                *)
Resume ==
    /\ rxState = "info" /\ toRx # << >>
    /\ rxReq' = rFile
    /\ rxPos' = Len(disk)
    /\ rxSize' = IF exists THEN Len(disk) ELSE Head(toRx).size
    /\ exists' = TRUE
    /\ rxState' = "data"
    /\ toRx' = Tail(toRx)
    /\ Transmit(toTx, [type |-> "START", offset |-> Len(disk)])
    /\ UNCHANGED <<disk, rFile, txState, todo, sessions>>

(* _tx, START: the rest of the file is to be sent.                         *)
StartSending ==
    /\ txState = "start" /\ toTx # << >>
    /\ todo' = <<Part(Head(toTx).offset, FileLen - Head(toTx).offset)>>
    /\ txState' = "send"
    /\ toTx' = Tail(toTx)
    /\ UNCHANGED <<exists, disk, rFile, rxState, rxPos, rxSize, rxReq, toRx,
                   lostFrames, sessions>>

(* One round of the loop of send_file_data.                                *)
SendBlock ==
    /\ txState = "send" /\ todo # << >>
    /\ LET part == Head(todo)
           n == IF part.len < BlockLen THEN part.len ELSE BlockLen
       IN /\ IF n = 0
             THEN UNCHANGED <<toRx, lostFrames>>
             ELSE Transmit(toRx, [type |-> "DATA", offset |-> part.offset,
                               data |-> Data(part.offset, n)])
          /\ todo' = IF n = part.len
                     THEN Tail(todo)
                     ELSE <<Part(part.offset + n, part.len - n)>> \o Tail(todo)
    /\ UNCHANGED <<exists, disk, rFile, rxState, rxPos, rxSize, rxReq,
                   txState, toTx, sessions>>

SendFin ==
    /\ txState = "send" /\ todo = << >>
    /\ txState' = "wait"
    /\ Transmit(toRx, [type |-> "FIN"])
    /\ UNCHANGED <<exists, disk, rFile, rxState, rxPos, rxSize, rxReq,
                   todo, toTx, sessions>>

(* _tx, the answer to FIN.                                                 *)
Answered ==
    /\ txState = "wait" /\ toTx # << >>
    /\ toTx' = Tail(toTx)
    /\ IF Head(toTx).type = "REQ"
       THEN txState' = "send" /\ todo' = Head(toTx).parts
       ELSE txState' = "done" /\ UNCHANGED todo
    /\ UNCHANGED <<exists, disk, rFile, rxState, rxPos, rxSize, rxReq, toRx,
                   lostFrames, sessions>>

-----------------------------------------------------------------------------
(* The offset a DATA or FIN frame is about; FIN stands for the end.        *)
OffsetOf(frame) == IF frame.type = "FIN" THEN rxSize ELSE frame.offset

(* faulty: the gap is noticed only when data follow it *)
GapBeforeData(frame) ==
    IF frame.type = "DATA" /\ frame.offset > rxPos
    THEN frame.offset - rxPos ELSE 0
GapBefore(frame) ==
    IF OffsetOf(frame) > rxPos THEN OffsetOf(frame) - rxPos ELSE 0

Noted(req, gap) == IF gap > 0 THEN Append(req, Part(rxPos, gap)) ELSE req
Stars(n) == [i \in 1 .. n |-> Star]

(* _rx while the file grows: a gap is listed, in memory and in the .r      *)
(* file, and filled; what a block holds is written behind it, also if it   *)
(* is older than f->pos.                                                   *)
Grow ==
    /\ rxState = "data" /\ toRx # << >> /\ Head(toRx).type = "DATA"
    /\ LET gap == GapBefore(Head(toRx))
       IN /\ rxReq' = Noted(rxReq, gap)
          /\ rFile' = IF gap > 0 THEN rxReq' ELSE rFile
          /\ disk' = disk \o Stars(gap) \o Head(toRx).data
          /\ rxPos' = rxPos + gap + Len(Head(toRx).data)
    /\ toRx' = Tail(toRx)
    /\ UNCHANGED <<exists, rxState, rxSize, txState, todo, toTx,
                   lostFrames, sessions>>

(* The frames that follow FIN: REQ while something is missing, or FINACK.  *)
Reply(req) ==
    /\ rxState' = IF req = << >> THEN "done" ELSE "req"
    /\ Transmit(toTx, IF req = << >> THEN [type |-> "FINACK"]
                                  ELSE [type |-> "REQ", parts |-> req])

(* _rx, the first FIN: what is missing at the end is a gap, too.           *)
FirstFin ==
    /\ rxState = "data" /\ toRx # << >> /\ Head(toRx).type = "FIN"
    /\ LET gap == GapBefore(Head(toRx))
       IN /\ rxReq' = Noted(rxReq, gap)
          /\ rFile' = IF gap > 0 THEN rxReq' ELSE rFile
          /\ disk' = disk \o Stars(gap)
          /\ rxPos' = rxPos + gap
    /\ toRx' = Tail(toRx)
    /\ Reply(rxReq')
    /\ UNCHANGED <<exists, rxSize, txState, todo, sessions>>

(* The REQ list after a block of l bytes at o has been written into the    *)
(* part at c: the four situations of _rx.                                  *)
Shortened(req, c, o, l) ==
    LET r == req[c]
        rest == Part(o + l, r.offset + r.len - (o + l))
    IN CASE r.offset = o /\ r.len = l ->
                LET less == SubSeq(req, 1, Len(req) - 1)
                IN IF c = Len(req) THEN less
                   ELSE [less EXCEPT ![c] = req[Len(req)]]
         [] r.offset = o /\ r.len # l -> [req EXCEPT ![c] = rest]
         [] r.offset # o /\ rest.len = 0 -> [req EXCEPT ![c].len = @ - l]
         [] OTHER -> Append([req EXCEPT ![c].len = o - r.offset], rest)

(* The entries a block lies in.                                            *)
Places(req, o, l) ==
    {c \in DOMAIN req :
        o >= req[c].offset /\ o + l <= req[c].offset + req[c].len}

(* Where _rx takes a block to lie that was asked for.  The line that reads *)
(* it out of the frame follows an if whose statement is a trace; without   *)
(* DEBUG_DIDADIT the trace is not there, the if applies to the line and    *)
(* skips it for DATA frames, and rxed_offset is what FIN has left in it.   *)
RepairOffset(frame) == IF DebugBuild THEN frame.offset ELSE rxSize

(* _rx, a block that was asked for; one that lies in no entry is ignored.  *)
Repair ==
    /\ rxState = "req" /\ toRx # << >> /\ Head(toRx).type = "DATA"
    /\ LET o == RepairOffset(Head(toRx))
           l == Len(Head(toRx).data)
       IN IF Places(rxReq, o, l) = {}
          THEN UNCHANGED <<disk, rxReq, rFile>>
          ELSE LET c == CHOOSE c \in Places(rxReq, o, l) :
                            \A d \in Places(rxReq, o, l) : c <= d
               IN /\ disk' = [i \in DOMAIN disk |->
                                 IF i > o /\ i <= o + l
                                 THEN Head(toRx).data[i - o] ELSE disk[i]]
                  /\ rxReq' = Shortened(rxReq, c, o, l)
                  /\ rFile' = rxReq'
    /\ toRx' = Tail(toRx)
    /\ UNCHANGED <<exists, rxState, rxPos, rxSize, txState, todo, toTx,
                   lostFrames, sessions>>

NextFin ==
    /\ rxState = "req" /\ toRx # << >> /\ Head(toRx).type = "FIN"
    /\ toRx' = Tail(toRx)
    /\ Reply(rxReq)
    /\ UNCHANGED <<exists, disk, rFile, rxPos, rxSize, rxReq, txState,
                   todo, sessions>>

(* The link breaks, or a timeout ends both tasks, in one of their waits.   *)
BreakOff ==
    /\ txState \notin {"off", "done"} \/ rxState \notin {"off", "done"}
    /\ txState' = "off" /\ rxState' = "off"
    /\ toTx' = << >> /\ toRx' = << >> /\ todo' = << >>
    /\ UNCHANGED <<exists, disk, rFile, rxPos, rxSize, rxReq, lostFrames,
                   sessions>>

DidaditNext ==
    \/ Offer \/ Resume \/ StartSending \/ SendBlock \/ SendFin \/ Answered
    \/ Grow \/ FirstFin \/ Repair \/ NextFin \/ BreakOff

DidaditSpec == DidaditInit /\ [][DidaditNext]_dvars

-----------------------------------------------------------------------------
(* Every byte on disk that is not the sender's is in the .r file, wherever *)
(* the transfer stops and however often it is resumed; and what is         *)
(* acknowledged with FINACK has no wrong byte, and no missing one if the   *)
(* file came in one transfer.  (_rx, update_r_file)                        *)
DamageListed ==
    /\ \A i \in DOMAIN disk : disk[i] # i - 1 =>
          \E c \in DOMAIN rFile :
             /\ rFile[c].offset < i
             /\ i <= rFile[c].offset + rFile[c].len
    /\ rxState = "done" /\ rxSize = FileLen => disk = Whole

(* A block that comes while parts are asked for is put where it belongs.   *)
(* The code says of it "Find the block we just received in our REQ list".  *)
RepairArrives ==
    [][\A o \in 0 .. FileLen - 1 :
         /\ rxState = "req" /\ rxState' = "req"
         /\ toRx # << >> /\ toRx' = Tail(toRx)
         /\ Head(toRx).type = "DATA" /\ Head(toRx).offset = o
         /\ Places(rxReq, o, 1) # {}
         => disk'[o + 1] = o]_dvars
=============================================================================
